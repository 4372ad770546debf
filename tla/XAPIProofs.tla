----------------------------- MODULE XAPIProofs -----------------------------
(***************************************************************************)
(* The session life cycle of the API layer, for every set of sessions and  *)
(* of event objects and every depth of nested callbacks: no freed session  *)
(* is used, sessions and event objects agree on each other, nothing leaks, *)
(* and the API keeps the contract of the event engine.                     *)
(*                                                                         *)
(* Both assumptions of the module are needed: without "timeout" a TIMEOUT  *)
(* callback makes the engine delete a timer that is gone, and without      *)
(* "spread" a worker's destruction clears a timer twice.                   *)
(*                                                                         *)
(* None of the properties is inductive: that an object leads to an         *)
(* allocated session depends on which activation will free the session,    *)
(* and that a deletion reaches a live object on which activations stand    *)
(* above which.  IInv says, for each session, who holds it.                *)
(***************************************************************************)
EXTENDS XAPI, SequenceTheorems, TLAPS

Pos == 1..Len(stack)

\* An activation at one of these points holds its session, ...
Holds == {"added", "accepted", "read", "status", "timeout", "error", "closed", "free", "close"}

\* ... and at one of these it ends it: the session has no event any more.
Ends == {"error", "closed", "free", "close"}

\* The handlers of XAPI_EventCallback, which the engine itself called.
Handlers == {"read", "status", "timeout", "next", "reloop"}

\* Which points have a session, and which are CLEAR callbacks.
ShapeInv ==
    \A i \in Pos :
        /\ stack[i].at # "done"
        /\ stack[i].s = NULL <=> stack[i].at \in {"next", "reloop", "user"}
        /\ stack[i].at \in {"closed", "timer_destroy", "user"} => stack[i].d # NULL
        /\ stack[i].at \notin {"closed", "timer_destroy", "user", "free", "close"} =>
              stack[i].d = NULL

\* Where on the stack an activation can be, by the phase of the engine.
PlaceInv ==
    /\ \A i \in Pos : stack[i].at \in Handlers => i = 1 /\ phase = "cb"
    /\ phase = "cb" /\ stack # << >> => stack[1].at \in Handlers
    /\ phase = "loop" => stack = << >>
    /\ phase \in {"stop", "destroy"} /\ stack # << >> => stack[1].d # NULL
    /\ phase = "dead" => live = {} /\ \A i \in Pos : stack[i].d = NULL
    /\ \A i \in Pos : stack[i].at \in {"added", "accepted", "refused"} =>
          phase \notin {"destroy", "dead"}

\* XAPI_ClearData runs to its end once the timer is deleted.
FreeInv ==
    \A i \in Pos :
        /\ stack[i].at = "free" => i = Len(stack)
        /\ stack[i].at = "close" =>
              IF i = Len(stack) THEN timer[stack[i].s] = NULL
              ELSE stack[i + 1].at = "timer_destroy" /\ stack[i + 1].s = stack[i].s

\* A session is held by one activation at most, and what else works on it stands
\* above that one.
HoldInv ==
    /\ \A i \in Pos : stack[i].at \notin Detached => stack[i].s \in sess
    /\ \A i, j \in Pos :
          stack[i].at \in Holds /\ stack[j].at \in Holds /\ stack[i].s = stack[j].s => i = j
    /\ \A i, j \in Pos :
          stack[i].at \in Holds /\ stack[j].at = "timer_destroy" /\ stack[i].s = stack[j].s =>
              i < j
    /\ \A i, j \in Pos :
          stack[i].at = "refused" /\ stack[j].at \in {"added", "accepted"}
          /\ stack[i].s = stack[j].s => i < j

\* A session that is being ended has no live event, one that was just added has.
EndInv ==
    \A i \in Pos :
        /\ stack[i].at \in Ends =>
              /\ evData[stack[i].s] \in {stack[i].d, NULL}
              /\ \A x \in live \ isTimer : ctx[x] # stack[i].s
        /\ stack[i].at \in {"added", "accepted"} => evData[stack[i].s] \in live

\* The objects that are being cleared.
ClearInv ==
    /\ \A i, j \in Pos : stack[i].d # NULL /\ stack[i].d = stack[j].d => i = j
    /\ \A i \in Pos : stack[i].d # NULL =>
          /\ stack[i].d \notin live
          /\ stack[i].at = "timer_destroy" =>
                /\ ctx[stack[i].d] = stack[i].s /\ timer[stack[i].s] = stack[i].d
                /\ stack[i].d \in isTimer
          /\ stack[i].at \in Ends => ctx[stack[i].d] = stack[i].s /\ stack[i].d \notin isTimer
          /\ stack[i].at = "user" => ctx[stack[i].d] = NULL

\* The engine's CLEAR callbacks are the ones on the stack, in the same order.
LinkInv ==
    /\ \A k \in 1..Len(clearing) : \E i \in Pos : stack[i].d = clearing[k]
    /\ \A i \in Pos : stack[i].d # NULL => InClearing(stack[i].d)
    /\ \A k, l \in 1..Len(clearing), i, j \in Pos :
          stack[i].d = clearing[k] /\ stack[j].d = clearing[l] /\ k < l => i < j

\* A registered object leads to its session and back.
LiveInv ==
    /\ \A x \in live :
          /\ ctx[x] \in sess
          /\ IF x \in isTimer THEN timer[ctx[x]] = x ELSE evData[ctx[x]] \in {x, NULL}
    /\ \A x, y \in live \ isTimer : ctx[x] = ctx[y] => x = y

\* A session leads to its objects and back, and is registered or being ended.
SessInv ==
    /\ sock \subseteq sess
    /\ \A s \in sess :
          /\ timer[s] # NULL =>
                ~Unused(timer[s]) /\ ctx[timer[s]] = s /\ timer[s] \in isTimer
          /\ evData[s] # NULL =>
                ~Unused(evData[s]) /\ ctx[evData[s]] = s /\ evData[s] \notin isTimer
          /\ \/ \E i \in Pos : stack[i].at \in Ends /\ stack[i].s = s
             \/ \E x \in live \ isTimer : ctx[x] = s

\* The object being dispatched, and what its handler knows of it.
TimerCalls == {"TIMEOUT", "TIMER_ERROR"}
WalkInv ==
    /\ batch \subseteq live
    /\ phase \notin {"loop", "cb"} => batch = {}
    /\ phase = "cb" => cur # NULL /\ call # NoCall /\ (gone = FALSE => cur \in live)
    /\ phase = "cb" /\ stack = << >> =>
          gone = FALSE /\ (call \in TimerCalls <=> cur \in isTimer)
    /\ \A i \in Pos :
          /\ stack[i].at \in {"read", "status"} =>
                gone = FALSE /\ cur \notin isTimer /\ ctx[cur] = stack[i].s
          /\ stack[i].at \in {"read", "status", "next"} => call \notin TimerCalls
          /\ stack[i].at = "next" => call = "READ"
          /\ stack[i].at \in {"timeout", "reloop"} => call = "TIMEOUT"
          /\ stack[i].at = "timeout" /\ gone = FALSE => cur \in isTimer /\ ctx[cur] = stack[i].s

\* The bucket being destroyed: a session in it is cleared after its timer.
DoomInv ==
    /\ doomed \subseteq live
    /\ phase # "destroy" => doomed = {}
    /\ \A x \in doomed \ isTimer, y \in doomed \cap isTimer :
          ctx[x] = ctx[y] => <<y, x>> \in newer
    /\ \A i \in Pos : stack[i].s # NULL => timer[stack[i].s] \notin doomed

IInv == /\ TypeOK /\ ShapeInv /\ PlaceInv /\ FreeInv /\ HoldInv /\ EndInv /\ ClearInv
        /\ LinkInv /\ LiveInv /\ SessInv /\ WalkInv /\ DoomInv

Entry == [at : Points, s : Session \cup {NULL}, d : Object \cup {NULL}]

-----------------------------------------------------------------------------
(* The stack of activations.                                               *)

\* One activation on top of others.
LEMMA PushFacts ==
    ASSUME NEW st \in Seq(Entry), NEW e \in Entry, NEW t, t = Append(st, e)
    PROVE  /\ t \in Seq(Entry) /\ t # << >>
           /\ Len(st) \in Nat /\ Len(t) = Len(st) + 1
           /\ \A i \in 1..Len(st) : i \in 1..Len(t) /\ t[i] = st[i]
           /\ \A i \in 1..Len(t) : i \in 1..Len(st) \/ i = Len(st) + 1
           /\ t[Len(st) + 1] = e
<1>1. /\ t \in Seq(Entry) /\ t # << >> /\ Len(st) \in Nat /\ Len(t) = Len(st) + 1
      /\ \A i \in 1..Len(st) : t[i] = st[i]
      /\ t[Len(st) + 1] = e
  BY AppendProperties, EmptySeq
<1> QED BY <1>1

\* What is left when the innermost activation returns.
LEMMA BelowFacts ==
    ASSUME stack \in Seq(Entry), stack # << >>
    PROVE  /\ Len(stack) \in Nat /\ Len(stack) # 0 /\ Len(stack) \in Pos
           /\ Top \in Entry
           /\ Below \in Seq(Entry) /\ Len(Below) = Len(stack) - 1
           /\ \A i \in 1..Len(Below) : i \in Pos /\ i # Len(stack) /\ Below[i] = stack[i]
           /\ \A i \in Pos : i # Len(stack) => i \in 1..Len(Below)
<1>1. Len(stack) \in Nat /\ Len(stack) # 0
  BY EmptySeq
<1>2. Len(stack) \in Pos /\ Top \in Entry
  BY <1>1, ElementOfSeq DEF Pos, Top
<1>3. /\ Below \in Seq(Entry) /\ Len(Below) = Len(stack) - 1
      /\ \A i \in 1..Len(Below) : Below[i] = stack[i]
  <2>1. 1 \in 1..(Len(stack) + 1) /\ (Len(stack) - 1) \in (1 - 1)..Len(stack)
    BY <1>1
  <2>2. /\ Below \in Seq(Entry)
        /\ Len(Below) = IF 1 <= Len(stack) - 1 THEN (Len(stack) - 1) - 1 + 1 ELSE 0
        /\ \A i \in 1..((Len(stack) - 1) - 1 + 1) : Below[i] = stack[1 + i - 1]
    BY <2>1, SubSeqProperties DEF Below
  <2>3. Len(Below) = Len(stack) - 1
    <3> DEFINE n == Len(stack)
    <3>1. n \in Nat /\ n # 0 /\ Len(Below) = IF 1 <= n - 1 THEN (n - 1) - 1 + 1 ELSE 0
      BY <1>1, <2>2
    <3> HIDE DEF n
    <3>2. (IF 1 <= n - 1 THEN (n - 1) - 1 + 1 ELSE 0) = n - 1
      BY <3>1
    <3>3. Len(Below) = n - 1
      BY <3>1, <3>2
    <3> QED BY <3>3 DEF n
  <2>4. ASSUME NEW i \in 1..Len(Below) PROVE Below[i] = stack[i]
    <3>1. i \in 1..((Len(stack) - 1) - 1 + 1) /\ 1 + i - 1 = i
      BY <1>1, <2>3
    <3>2. Below[i] = stack[1 + i - 1]
      BY <2>2, <3>1
    <3> QED BY <3>1, <3>2
  <2> QED BY <2>2, <2>3, <2>4
<1> QED BY <1>1, <1>2, <1>3 DEF Pos

\* The innermost activation goes on to another point.
LEMMA GotoFacts ==
    ASSUME stack \in Seq(Entry), stack # << >>, NEW p \in Points
    PROVE  /\ Goto(p) \in Seq(Entry) /\ Len(Goto(p)) = Len(stack) /\ Goto(p) # << >>
           /\ \A i \in Pos : i # Len(stack) => Goto(p)[i] = stack[i]
           /\ Goto(p)[Len(stack)] = [at |-> p, s |-> Top.s, d |-> Top.d]
<1>1. [Top EXCEPT !.at = p] \in Entry /\ [Top EXCEPT !.at = p] = [at |-> p, s |-> Top.s, d |-> Top.d]
  BY BelowFacts DEF Entry
<1>2. Below \in Seq(Entry) /\ Len(Below) = Len(stack) - 1 /\ Len(stack) \in Nat
  BY BelowFacts
<1> QED BY <1>1, <1>2, BelowFacts, PushFacts DEF Goto

\* Without an activation nothing is on the stack.
LEMMA EmptyFacts ==
    ASSUME stack = << >> PROVE Pos = {} /\ Len(stack) = 0
BY EmptySeq DEF Pos

\* The types that the proofs use all the time.
LEMMA TypeFacts ==
    ASSUME IInv
    PROVE  /\ stack \in Seq(Entry) /\ Len(stack) \in Nat
           /\ \A i \in Pos : stack[i] \in Entry /\ i \in Nat /\ 1 <= i /\ i <= Len(stack)
           /\ stack = << >> => Pos = {}
           /\ sess \subseteq Session /\ live \subseteq Object /\ isTimer \subseteq Object
           /\ NULL \notin sess /\ NULL \notin live
<1>1. stack \in Seq(Entry)
  BY DEF IInv, TypeOK, Entry
<1>2. Len(stack) \in Nat /\ \A i \in Pos : stack[i] \in Entry
  BY <1>1, ElementOfSeq, LenProperties DEF Pos
<1>3. \A i \in Pos : i \in Nat /\ 1 <= i /\ i <= Len(stack)
  BY <1>2 DEF Pos
<1>4. stack = << >> => Pos = {}
  BY EmptyFacts
<1>5. /\ sess \subseteq Session /\ live \subseteq Object /\ isTimer \subseteq Object
      /\ NULL \notin sess /\ NULL \notin live
  BY XAPINullAssumption DEF IInv, TypeOK
<1> QED BY <1>1, <1>2, <1>3, <1>4, <1>5

-----------------------------------------------------------------------------
(* The CLEAR callbacks of the engine and the stack.                        *)

\* An object whose CLEAR callback runs is on the stack, so no live one is.
LEMMA ClearingFacts ==
    ASSUME IInv
    PROVE  /\ \A x : InClearing(x) => \E i \in Pos : stack[i].d = x
           /\ \A x \in live : ~InClearing(x)
<1>1. \A x : InClearing(x) => \E i \in Pos : stack[i].d = x
  BY DEF IInv, LinkInv, InClearing
<1>2. \A i \in Pos : stack[i].d # NULL => stack[i].d \notin live
  BY DEF IInv, ClearInv
<1>3. NULL \notin live
  BY XAPINullAssumption DEF IInv, TypeOK
<1> QED BY <1>1, <1>2, <1>3

\* A CLEAR callback begins on top of stack st.
LEMMA LinkPush ==
    ASSUME LinkInv, clearing \in Seq(Object), stack \in Seq(Entry),
           NEW st \in Seq(Entry), NEW e \in Entry, e.d \in Object,
           stack' = Append(st, e), clearing' = Append(clearing, e.d), ~InClearing(e.d),
           \A i \in 1..Len(st) : i \in Pos /\ st[i].d = stack[i].d,
           \A i \in Pos : stack[i].d # NULL => i \in 1..Len(st)
    PROVE  /\ LinkInv' /\ clearing' \in Seq(Object)
           /\ \A x : InClearing(x)' <=> InClearing(x) \/ x = e.d
<1> DEFINE m == Len(clearing)
<1> DEFINE n == Len(st)
<1>1. /\ m \in Nat /\ clearing' \in Seq(Object) /\ Len(clearing') = m + 1
      /\ \A k \in 1..m : clearing'[k] = clearing[k]
      /\ clearing'[m + 1] = e.d
  BY AppendProperties
<1>2. /\ n \in Nat /\ n + 1 \in Pos' /\ stack'[n + 1] = e
      /\ \A i \in 1..n : i \in Pos' /\ stack'[i] = st[i]
      /\ \A i \in Pos' : i \in 1..n \/ i = n + 1
  <2>1. /\ Len(stack') = n + 1 /\ n \in Nat /\ stack'[n + 1] = e
        /\ \A i \in 1..n : i \in 1..Len(stack') /\ stack'[i] = st[i]
        /\ \A i \in 1..Len(stack') : i \in 1..n \/ i = n + 1
    BY PushFacts
  <2> QED BY <2>1 DEF Pos
<1>3. /\ \A k \in 1..Len(clearing') : k \in 1..m \/ k = m + 1
      /\ \A k \in 1..m : k \in 1..Len(clearing') /\ k < m + 1
      /\ m + 1 \in 1..Len(clearing')
  BY <1>1
<1>4. \A x : InClearing(x)' <=> InClearing(x) \/ x = e.d
  BY <1>1, <1>3 DEF InClearing
<1>5. \A k \in 1..Len(clearing') : \E i \in Pos' : stack'[i].d = clearing'[k]
  <2> SUFFICES ASSUME NEW k \in 1..Len(clearing') PROVE \E i \in Pos' : stack'[i].d = clearing'[k]
    OBVIOUS
  <2>1. CASE k \in 1..m
    <3>1. PICK i \in Pos : stack[i].d = clearing[k]
      BY <2>1 DEF LinkInv
    <3>2. clearing[k] # NULL
      BY <2>1, ElementOfSeq, XAPINullAssumption
    <3> QED BY <1>1, <1>2, <2>1, <3>1, <3>2
  <2> QED BY <1>1, <1>2, <1>3, <2>1
<1>6. \A i \in Pos' : stack'[i].d # NULL => InClearing(stack[i].d)'
  BY <1>2, <1>4 DEF LinkInv
<1>7. \A k, l \in 1..Len(clearing'), i, j \in Pos' :
         stack'[i].d = clearing'[k] /\ stack'[j].d = clearing'[l] /\ k < l => i < j
  <2> SUFFICES ASSUME NEW k \in 1..Len(clearing'), NEW l \in 1..Len(clearing'),
                      NEW i \in Pos', NEW j \in Pos',
                      stack'[i].d = clearing'[k], stack'[j].d = clearing'[l], k < l
               PROVE  i < j
    OBVIOUS
  <2>1. k \in 1..m
    BY <1>1, <1>3
  <2>2. i \in 1..n /\ i \in Pos /\ stack[i].d = clearing[k]
    <3>1. clearing[k] # e.d
      BY <2>1 DEF InClearing
    <3> QED BY <1>1, <1>2, <2>1, <3>1
  <2>3. CASE j = n + 1
    BY <1>2, <2>2, <2>3
  <2>4. CASE j \in 1..n
    <3>1. l \in 1..m
      <4>1. stack'[j].d = stack[j].d
        BY <1>2, <2>4
      <4>2. stack[j].d # e.d
        <5>1. clearing'[l] # NULL
          BY <1>1, ElementOfSeq, XAPINullAssumption
        <5> QED BY <2>4, <4>1, <5>1 DEF LinkInv
      <4> QED BY <1>1, <1>3, <4>1, <4>2
    <3>2. stack[j].d = clearing[l] /\ j \in Pos
      BY <1>1, <1>2, <2>4, <3>1
    <3> QED BY <2>1, <2>2, <3>1, <3>2 DEF LinkInv
  <2> QED BY <1>2, <2>3, <2>4
<1>8. LinkInv'
  BY <1>5, <1>6, <1>7 DEF LinkInv
<1> QED BY <1>1, <1>4, <1>8

\* Activations that are no CLEAR callbacks come and go.
LEMMA LinkKeep ==
    ASSUME LinkInv, clearing \in Seq(Object), UNCHANGED clearing,
           \A i \in Pos' : stack'[i].d # NULL => i \in Pos /\ stack'[i].d = stack[i].d,
           \A i \in Pos : stack[i].d # NULL => i \in Pos' /\ stack'[i].d = stack[i].d
    PROVE  LinkInv' /\ \A x : InClearing(x)' <=> InClearing(x)
<1>1. \A x : InClearing(x)' <=> InClearing(x)
  BY DEF InClearing
<1>2. \A k \in 1..Len(clearing) : clearing[k] # NULL
  BY ElementOfSeq, XAPINullAssumption
<1>3. \A k \in 1..Len(clearing) : \E i \in Pos' : stack'[i].d = clearing[k]
  BY <1>2 DEF LinkInv
<1>4. \A i \in Pos' : stack'[i].d # NULL => InClearing(stack[i].d)'
  BY <1>1 DEF LinkInv
<1>5. \A k, l \in 1..Len(clearing), i, j \in Pos' :
         stack'[i].d = clearing[k] /\ stack'[j].d = clearing[l] /\ k < l => i < j
  BY <1>2 DEF LinkInv
<1> QED BY <1>1, <1>3, <1>4, <1>5 DEF LinkInv

\* The innermost CLEAR callback is the innermost activation, and ends.
LEMMA LinkPop ==
    ASSUME IInv, stack # << >>, Top.d # NULL, stack' = Below, Freed
    PROVE  /\ LinkInv' /\ clearing' \in Seq(Object)
           /\ clearing # << >> /\ clearing' = [i \in 1..(Len(clearing) - 1) |-> clearing[i]]
           /\ \A x : InClearing(x)' <=> InClearing(x) /\ x # Top.d
<1> DEFINE m == Len(clearing)
<1> DEFINE n == Len(stack)
<1>1. stack \in Seq(Entry) /\ clearing \in Seq(Object)
  BY DEF IInv, TypeOK, Entry
<1>2. /\ n \in Nat /\ n \in Pos /\ Top = stack[n]
      /\ \A i \in Pos' : i \in Pos /\ i # n /\ i < n /\ stack'[i] = stack[i]
      /\ \A i \in Pos : i # n => i \in Pos'
      /\ \A i \in Pos : i <= n
  BY <1>1, BelowFacts DEF Pos, Top
<1>3. m \in Nat /\ \A k \in 1..m : clearing[k] \in Object /\ clearing[k] # NULL
  BY <1>1, ElementOfSeq, LenProperties, XAPINullAssumption
<1>4. m # 0 /\ clearing[m] = Top.d
  <2>1. PICK k \in 1..m : clearing[k] = Top.d
    BY <1>2 DEF IInv, LinkInv, InClearing
  <2>2. PICK j \in Pos : stack[j].d = clearing[m]
    BY <1>3, <2>1 DEF IInv, LinkInv
  <2>3. k < m => n < j
    BY <1>2, <1>3, <2>1, <2>2 DEF IInv, LinkInv
  <2> QED BY <1>2, <1>3, <2>1, <2>2, <2>3 DEF Pos
<1>5. /\ clearing' \in Seq(Object) /\ Len(clearing') = m - 1
      /\ clearing' = [i \in 1..(m - 1) |-> clearing[i]]
      /\ clearing # << >>
  <2>1. clearing' = SubSeq(clearing, 1, m - 1)
    BY DEF Freed
  <2>2. \A k \in 1..(m - 1) : clearing[k] \in Object
    BY <1>3
  <2>3. /\ clearing' \in Seq(Object)
        /\ Len(clearing') = IF 1 <= m - 1 THEN (m - 1) - 1 + 1 ELSE 0
        /\ \A k \in 1..((m - 1) - 1 + 1) : clearing'[k] = clearing[1 + k - 1]
    BY <1>3, <2>1, <2>2, SubSeqProperties
  <2> HIDE DEF m
  <2>4. Len(clearing') = m - 1
    BY <1>3, <1>4, <2>3
  <2>5. \A k \in 1..(m - 1) : clearing'[k] = clearing[k]
    <3> SUFFICES ASSUME NEW k \in 1..(m - 1) PROVE clearing'[k] = clearing[k]
      OBVIOUS
    <3>1. k \in 1..((m - 1) - 1 + 1) /\ 1 + k - 1 = k
      BY <1>3
    <3> QED BY <2>3, <3>1
  <2>6. clearing' = [i \in 1..Len(clearing') |-> clearing'[i]]
    BY <2>3, LenProperties
  <2>7. clearing # << >>
    BY <1>4, EmptySeq DEF m
  <2> QED BY <2>3, <2>4, <2>5, <2>6, <2>7
<1>6. /\ \A k \in 1..Len(clearing') : k \in 1..m /\ k # m /\ k < m /\ clearing'[k] = clearing[k]
      /\ \A k \in 1..m : k # m => k \in 1..Len(clearing')
      /\ m \in 1..m
  BY <1>3, <1>4, <1>5
<1>7. \A k, l \in 1..m : clearing[k] = clearing[l] /\ k < l => FALSE
  <2> SUFFICES ASSUME NEW k \in 1..m, NEW l \in 1..m, clearing[k] = clearing[l], k < l PROVE FALSE
    OBVIOUS
  <2>1. PICK i \in Pos : stack[i].d = clearing[k]
    BY DEF IInv, LinkInv
  <2>2. i < i
    BY <2>1 DEF IInv, LinkInv
  <2> QED BY <1>1, <2>2 DEF Pos
<1>8. \A x : InClearing(x)' <=> InClearing(x) /\ x # Top.d
  <2>1. ASSUME NEW x, InClearing(x)' PROVE InClearing(x) /\ x # Top.d
    <3>1. PICK k \in 1..Len(clearing') : clearing'[k] = x
      BY <2>1 DEF InClearing
    <3> QED BY <1>4, <1>6, <1>7, <3>1 DEF InClearing
  <2>2. ASSUME NEW x, InClearing(x), x # Top.d PROVE InClearing(x)'
    <3>1. PICK k \in 1..m : clearing[k] = x
      BY <2>2 DEF InClearing
    <3> QED BY <1>4, <1>6, <2>2, <3>1 DEF InClearing
  <2> QED BY <2>1, <2>2
<1>9. \A k \in 1..Len(clearing') : \E i \in Pos' : stack'[i].d = clearing'[k]
  <2> SUFFICES ASSUME NEW k \in 1..Len(clearing') PROVE \E i \in Pos' : stack'[i].d = clearing'[k]
    OBVIOUS
  <2>1. PICK i \in Pos : stack[i].d = clearing[k]
    BY <1>6 DEF IInv, LinkInv
  <2>2. i # n
    BY <1>2, <1>4, <1>6, <1>7, <2>1
  <2> QED BY <1>2, <1>6, <2>1, <2>2
<1>10. \A i \in Pos' : stack'[i].d # NULL => InClearing(stack[i].d)'
  <2> SUFFICES ASSUME NEW i \in Pos', stack'[i].d # NULL PROVE InClearing(stack[i].d)'
    OBVIOUS
  <2>1. stack'[i].d = stack[i].d /\ InClearing(stack[i].d) /\ stack[i].d # Top.d
    BY <1>2 DEF IInv, LinkInv, ClearInv
  <2> QED BY <1>8, <2>1 DEF InClearing
<1>11. \A k, l \in 1..Len(clearing'), i, j \in Pos' :
         stack'[i].d = clearing'[k] /\ stack'[j].d = clearing'[l] /\ k < l => i < j
  BY <1>2, <1>6 DEF IInv, LinkInv
<1> QED BY <1>5, <1>8, <1>9, <1>10, <1>11 DEF LinkInv

-----------------------------------------------------------------------------
(* What the activations and the objects owe each other, PlaceInv, WalkInv  *)
(* and DoomInv aside, which depend on the phase of the engine.             *)

ObjectsInv == ShapeInv /\ FreeInv /\ HoldInv /\ EndInv /\ ClearInv /\ LinkInv /\ LiveInv /\ SessInv

\* A handler begins, or an activation that ends no session returns; a refused
\* registration clears pEvData of a session that nobody is adding.
LEMMA QuietPreserves ==
    ASSUME IInv, stack' \in Seq(Entry),
           UNCHANGED <<sess, timer, ctx, isTimer, live, clearing>>, sock' \subseteq sess,
           \A s \in Session : \/ evData'[s] = evData[s]
                              \/ /\ evData'[s] = NULL
                                 /\ \A j \in Pos' : stack'[j].at \in {"added", "accepted"} =>
                                       stack'[j].s # s,
           \A i \in Pos' : \/ i \in Pos /\ stack'[i] = stack[i]
                           \/ /\ i = 1 /\ stack = << >>
                              /\ stack'[i].at \in {"read", "status", "timeout"}
                              /\ stack'[i].s \in sess /\ stack'[i].d = NULL,
           \A i \in Pos : \/ i \in Pos' /\ stack'[i] = stack[i]
                          \/ stack[i].at \in {"added", "accepted", "refused"} \cup Handlers
    PROVE  ObjectsInv'
<1>1. /\ stack \in Seq(Entry) /\ Len(stack) \in Nat /\ Len(stack') \in Nat
      /\ sess \subseteq Session /\ NULL \notin sess
      /\ \A i \in Pos : stack[i] \in Entry
      /\ stack = << >> => Pos = {}
  BY TypeFacts, LenProperties
<1>2. ShapeInv'
  BY <1>1 DEF IInv, ShapeInv
<1>3. /\ \A i \in Pos : stack[i].d # NULL => i \in Pos' /\ stack'[i] = stack[i]
      /\ \A i \in Pos' : stack'[i].d # NULL => i \in Pos /\ stack'[i] = stack[i]
      /\ \A i \in Pos : stack[i].at \in Ends \cup {"timer_destroy"} => i \in Pos' /\ stack'[i] = stack[i]
  <2>1. \A i \in Pos : stack[i].at \in {"added", "accepted", "refused"} \cup Handlers =>
          stack[i].d = NULL /\ stack[i].at \notin Ends \cup {"timer_destroy"}
    BY DEF IInv, ShapeInv, Ends, Handlers
  <2> QED BY <2>1
<1>4. LinkInv' /\ \A x : InClearing(x)' <=> InClearing(x)
  BY <1>3, LinkKeep DEF IInv, TypeOK
<1>5. FreeInv'
  <2> SUFFICES ASSUME NEW i \in Pos', stack'[i].at \in {"free", "close"}
               PROVE  /\ stack'[i].at = "free" => i = Len(stack')
                      /\ stack'[i].at = "close" =>
                            IF i = Len(stack') THEN timer'[stack'[i].s] = NULL
                            ELSE stack'[i + 1].at = "timer_destroy" /\ stack'[i + 1].s = stack'[i].s
    BY DEF FreeInv
  <2>1. i \in Pos /\ stack'[i] = stack[i]
    OBVIOUS
  <2>2. i # Len(stack) => i + 1 \in Pos
    BY <1>1, <2>1 DEF Pos
  <2>3. i # Len(stack') => i + 1 \in Pos'
    BY <1>1 DEF Pos
  <2>4. CASE stack[i].at = "free"
    <3>1. i = Len(stack)
      BY <2>1, <2>4 DEF IInv, FreeInv
    <3>2. i + 1 \in Pos' => i + 1 \in Pos
      BY <1>1, <2>1 DEF Pos
    <3> QED BY <1>1, <2>1, <2>3, <2>4, <3>1, <3>2 DEF Pos
  <2>5. CASE stack[i].at = "close"
    <3>1. IF i = Len(stack) THEN timer[stack[i].s] = NULL
          ELSE stack[i + 1].at = "timer_destroy" /\ stack[i + 1].s = stack[i].s
      BY <2>1, <2>5 DEF IInv, FreeInv
    <3>2. i # Len(stack) => i + 1 \in Pos' /\ stack'[i + 1] = stack[i + 1]
      BY <1>3, <2>2, <3>1
    <3>3. i = Len(stack) => i = Len(stack')
      <4>1. i + 1 \in Pos' => i + 1 \in Pos
        BY <1>1, <2>1 DEF Pos
      <4> QED BY <1>1, <2>3, <4>1 DEF Pos
    <3>4. i + 1 \in Pos' => i # Len(stack')
      BY <1>1 DEF Pos
    <3> QED BY <2>1, <2>5, <3>1, <3>2, <3>3, <3>4
  <2> QED BY <2>1, <2>4, <2>5
<1>6. HoldInv'
  <2>1. \A i \in Pos' : stack'[i].at \notin Detached => stack'[i].s \in sess
    BY DEF IInv, HoldInv
  <2>2. stack = << >> => \A i, j \in Pos' : i = j
    BY <1>1
  <2>3. stack # << >> => \A i \in Pos' : i \in Pos /\ stack'[i] = stack[i]
    OBVIOUS
  <2>4. /\ \A i \in Pos' : stack'[i].at \in Holds => stack'[i].at # "timer_destroy"
        /\ \A i \in Pos' : stack'[i].at = "refused" => stack'[i].at \notin {"added", "accepted"}
    BY DEF Holds
  <2>5. CASE stack = << >>
    BY <2>1, <2>2, <2>4, <2>5 DEF HoldInv
  <2>6. CASE stack # << >>
    BY <2>1, <2>3, <2>6 DEF IInv, HoldInv
  <2> QED BY <2>5, <2>6
<1>7. EndInv'
  <2>1. \A i \in Pos' : stack'[i].at \in Ends =>
            /\ evData'[stack'[i].s] \in {stack'[i].d, NULL}
            /\ \A x \in live \ isTimer : ctx[x] # stack'[i].s
    <3> SUFFICES ASSUME NEW i \in Pos', stack'[i].at \in Ends
                 PROVE  /\ evData'[stack'[i].s] \in {stack'[i].d, NULL}
                        /\ \A x \in live \ isTimer : ctx[x] # stack'[i].s
      OBVIOUS
    <3>1. i \in Pos /\ stack'[i] = stack[i] /\ stack[i].s \in Session
      BY <1>1 DEF Ends, IInv, HoldInv, Detached
    <3> QED BY <3>1 DEF IInv, EndInv
  <2>2. \A i \in Pos' : stack'[i].at \in {"added", "accepted"} => evData'[stack'[i].s] \in live
    <3> SUFFICES ASSUME NEW i \in Pos', stack'[i].at \in {"added", "accepted"}
                 PROVE  evData'[stack'[i].s] \in live
      OBVIOUS
    <3>1. i \in Pos /\ stack'[i] = stack[i] /\ stack[i].s \in Session
      BY <1>1 DEF IInv, HoldInv, Detached
    <3> QED BY <3>1 DEF IInv, EndInv
  <2> QED BY <2>1, <2>2 DEF EndInv
<1>8. ClearInv'
  BY <1>3 DEF IInv, ClearInv
<1>9. LiveInv'
  BY <1>1 DEF IInv, LiveInv
<1>10. SessInv'
  <2>1. \A x : Unused(x)' <=> Unused(x)
    BY <1>4 DEF Unused
  <2>2. \A s \in sess : timer'[s] # NULL =>
            ~Unused(timer[s])' /\ ctx'[timer'[s]] = s /\ timer'[s] \in isTimer'
    BY <2>1 DEF IInv, SessInv, Unused, InClearing
  <2>3. \A s \in sess : evData'[s] # NULL =>
            ~Unused(evData[s])' /\ ctx'[evData'[s]] = s /\ evData'[s] \notin isTimer'
    BY <1>1, <2>1 DEF IInv, SessInv, Unused, InClearing
  <2>4. \A s \in sess : \/ \E i \in Pos' : stack'[i].at \in Ends /\ stack'[i].s = s
                        \/ \E x \in live \ isTimer : ctx[x] = s
    BY <1>3 DEF IInv, SessInv
  <2> QED BY <2>2, <2>3, <2>4 DEF SessInv
<1> QED BY <1>2, <1>4, <1>5, <1>6, <1>7, <1>8, <1>9, <1>10 DEF ObjectsInv

\* XAPI_ClearEvent of a registered object has a session to work on.
LEMMA ClearEventFacts ==
    ASSUME IInv, NEW d \in live
    PROVE  /\ ClearEvent(d) \in Entry /\ ctx[d] \in sess /\ ctx[d] # NULL
           /\ ClearEvent(d).s = ctx[d] /\ ClearEvent(d).d = d /\ d \in Object
           /\ d \in isTimer => ClearEvent(d).at = "timer_destroy"
           /\ d \notin isTimer => ClearEvent(d).at \in {"closed", "free"}
<1>1. d \in Object /\ ctx[d] \in sess /\ ctx[d] # NULL /\ ctx[d] \in Session
  BY TypeFacts DEF IInv, LiveInv
<1> DEFINE p == CASE ctx[d] = NULL -> "done"
                  [] ctx[d] # NULL /\ d \in isTimer -> "timer_destroy"
                  [] ctx[d] # NULL /\ d \notin isTimer /\ Supported(role[ctx[d]]) -> "closed"
                  [] OTHER -> "free"
<1>2. /\ d \in isTimer => p = "timer_destroy"
      /\ d \notin isTimer => p \in {"closed", "free"}
  BY <1>1
<1>3. ClearEvent(d) = [at |-> p, s |-> ctx[d], d |-> d]
  BY DEF ClearEvent, At
<1>4. p \in Points
  BY <1>2 DEF Points, UserPoints
<1> HIDE DEF p
<1> QED BY <1>1, <1>2, <1>3, <1>4 DEF Entry

\* The event of a session is deleted: XAPI_ClearEvent, which ends the session,
\* begins on top of activations that do not hold it.
LEMMA EventRemoved ==
    ASSUME IInv, NEW d \in live, d \notin isTimer,
           NEW st \in Seq(Entry), stack' = Append(st, ClearEvent(d)),
           UNCHANGED <<session, object>>, live' = live \ {d}, clearing' = Append(clearing, d),
           \A i \in 1..Len(st) :
              /\ i \in Pos /\ st[i].d = stack[i].d
              /\ \/ st[i] = stack[i]
                 \/ /\ stack[i].at \in {"added", "timeout"}
                    /\ \/ st[i].at = "refused" /\ st[i].s = ctx[d]
                       \/ st[i].at = "reloop" /\ st[i].s = NULL
              /\ st[i].s = ctx[d] => st[i].at = "refused"
              /\ st[i].at \in {"free", "close"} => i # Len(st),
           \A i \in Pos : i \in 1..Len(st) \/ stack[i].at \in {"accepted"} \cup Handlers
    PROVE  ObjectsInv'
<1> DEFINE n == Len(st)
<1> DEFINE e == ClearEvent(d)
<1>1. /\ e \in Entry /\ ctx[d] \in sess /\ ctx[d] # NULL /\ e.s = ctx[d] /\ e.d = d
      /\ d \in Object /\ e.at \in {"closed", "free"}
  BY ClearEventFacts
<1>2. /\ n \in Nat /\ Len(stack') = n + 1 /\ n + 1 \in Pos' /\ stack'[n + 1] = e
      /\ \A i \in 1..n : i \in Pos' /\ i < n + 1 /\ stack'[i] = st[i]
      /\ \A i \in Pos' : i \in 1..n \/ i = n + 1
  <2>1. /\ Len(stack') = n + 1 /\ n \in Nat /\ stack'[n + 1] = e
        /\ \A i \in 1..n : i \in 1..Len(stack') /\ stack'[i] = st[i]
        /\ \A i \in 1..Len(stack') : i \in 1..n \/ i = n + 1
    BY <1>1, PushFacts
  <2> QED BY <2>1 DEF Pos
<1>3. UNCHANGED <<sess, role, evData, timer, sock, ctx, isTimer>>
  BY DEF session, object
<1>4. stack \in Seq(Entry) /\ Len(stack) \in Nat /\ sess \subseteq Session /\ NULL \notin live
  BY TypeFacts
<1> HIDE DEF e
<1>5. \A i \in Pos' : i # n + 1 =>
         /\ i \in 1..n /\ i \in Pos /\ stack'[i] = st[i] /\ stack'[i].d = stack[i].d
         /\ \/ stack'[i] = stack[i]
            \/ stack'[i].at \in {"refused", "reloop"} /\ stack'[i].d = NULL
  BY <1>2 DEF IInv, ShapeInv
<1>6. \A i \in Pos : stack[i].d # NULL \/ stack[i].at \in Ends \cup {"timer_destroy"} =>
         i \in 1..n /\ stack'[i] = stack[i] /\ i \in Pos'
  BY <1>2 DEF IInv, ShapeInv, Handlers, Ends
<1>7. ShapeInv'
  <2> SUFFICES ASSUME NEW i \in Pos'
               PROVE  /\ stack'[i].at # "done"
                      /\ stack'[i].s = NULL <=> stack'[i].at \in {"next", "reloop", "user"}
                      /\ stack'[i].at \in {"closed", "timer_destroy", "user"} => stack'[i].d # NULL
                      /\ stack'[i].at \notin {"closed", "timer_destroy", "user", "free", "close"} =>
                            stack'[i].d = NULL
    BY DEF ShapeInv
  <2>1. CASE i = n + 1
    BY <1>1, <1>2, <2>1, XAPINullAssumption
  <2>2. CASE i # n + 1
    BY <1>1, <1>2, <1>5, <2>2 DEF IInv, ShapeInv
  <2> QED BY <2>1, <2>2
<1>8. LinkInv' /\ clearing' \in Seq(Object) /\ \A x : InClearing(x)' <=> InClearing(x) \/ x = d
  <2>1. clearing \in Seq(Object) /\ ~InClearing(d)
    BY ClearingFacts DEF IInv, TypeOK
  <2>2. \A i \in Pos : stack[i].d # NULL => i \in 1..Len(st)
    BY <1>6
  <2>3. LinkInv /\ e.d \in Object /\ stack' = Append(st, e) /\ clearing' = Append(clearing, e.d)
    BY <1>1 DEF IInv, e
  <2> QED BY <1>1, <1>4, <2>1, <2>2, <2>3, LinkPush
<1>9. FreeInv'
  <2> SUFFICES ASSUME NEW i \in Pos', i # n + 1, stack'[i].at \in {"free", "close"}
               PROVE  /\ stack'[i].at = "close"
                      /\ stack'[i + 1].at = "timer_destroy" /\ stack'[i + 1].s = stack'[i].s
    BY <1>1, <1>2 DEF FreeInv
  <2>1. i \in 1..n /\ stack'[i] = stack[i] /\ stack'[i] = st[i] /\ i \in Pos /\ i # n
    BY <1>5
  <2>2. i + 1 \in 1..n
    BY <1>2, <2>1
  <2>3. i # Len(stack)
    BY <1>4, <2>2 DEF Pos
  <2>4. stack[i + 1].at = "timer_destroy" /\ stack[i + 1].s = stack[i].s /\ stack[i].at = "close"
    BY <2>1, <2>3 DEF IInv, FreeInv
  <2>5. stack'[i + 1] = stack[i + 1]
    BY <1>6, <2>2, <2>4
  <2> QED BY <2>1, <2>4, <2>5
<1>10. HoldInv'
  <2>1. \A i \in Pos' : stack'[i].at \notin Detached => stack'[i].s \in sess
    BY <1>1, <1>2, <1>5 DEF IInv, HoldInv, Detached
  <2>2. \A i \in Pos' : i # n + 1 /\ stack'[i].s = ctx[d] => stack'[i].at = "refused"
    BY <1>5
  <2>3. \A i, j \in Pos' : stack'[i].at \in Holds /\ stack'[j].at \in Holds
                           /\ stack'[i].s = stack'[j].s => i = j
    BY <1>1, <1>2, <1>5, <2>2, SMTT(30) DEF IInv, HoldInv, Holds
  <2>4. \A i, j \in Pos' : stack'[i].at \in Holds /\ stack'[j].at = "timer_destroy"
                           /\ stack'[i].s = stack'[j].s => i < j
    BY <1>1, <1>2, <1>5, <2>2 DEF IInv, HoldInv, Holds
  <2>5. \A i, j \in Pos' : stack'[i].at = "refused" /\ stack'[j].at \in {"added", "accepted"}
                           /\ stack'[i].s = stack'[j].s => i < j
    <3> SUFFICES ASSUME NEW i \in Pos', NEW j \in Pos', stack'[i].at = "refused",
                        stack'[j].at \in {"added", "accepted"}, stack'[i].s = stack'[j].s
                 PROVE  i < j
      OBVIOUS
    <3>1. i # n + 1 /\ j # n + 1 /\ stack'[j] = stack[j] /\ j \in Pos
      BY <1>1, <1>2, <1>5, SMTT(30)
    <3>2. stack'[i].s # ctx[d]
      BY <2>2, <3>1
    <3>3. stack'[i] = stack[i] /\ i \in Pos
      BY <1>5, <3>1, <3>2
    <3> QED BY <3>1, <3>3 DEF IInv, HoldInv
  <2> QED BY <1>3, <2>1, <2>3, <2>4, <2>5 DEF HoldInv
<1>11. EndInv'
  <2>1. ASSUME NEW i \in Pos', stack'[i].at \in Ends
        PROVE  /\ evData[stack'[i].s] \in {stack'[i].d, NULL}
               /\ \A x \in live' \ isTimer : ctx[x] # stack'[i].s
    <3>1. CASE i = n + 1
      BY <1>1, <1>2, <3>1 DEF IInv, LiveInv
    <3>2. CASE i # n + 1
      <4>1. stack'[i] = stack[i] /\ i \in Pos
        BY <1>5, <2>1, <3>2 DEF Ends
      <4> QED BY <2>1, <4>1 DEF IInv, EndInv
    <3> QED BY <3>1, <3>2
  <2>2. ASSUME NEW i \in Pos', stack'[i].at \in {"added", "accepted"}
        PROVE  evData[stack'[i].s] \in live'
    <3>1. i # n + 1 /\ stack'[i] = stack[i] /\ i \in Pos
      BY <1>1, <1>2, <1>5, <2>2
    <3>2. stack[i].s # ctx[d] /\ stack[i].s \in sess
      BY <1>5, <2>2, <3>1 DEF IInv, HoldInv, Detached
    <3>3. evData[stack[i].s] \in live /\ evData[stack[i].s] # NULL
      BY <1>4, <2>2, <3>1 DEF IInv, EndInv
    <3>4. ctx[evData[stack[i].s]] = stack[i].s
      BY <3>2, <3>3 DEF IInv, SessInv
    <3> QED BY <3>1, <3>2, <3>3, <3>4
  <2> QED BY <1>3, <2>1, <2>2 DEF EndInv
<1>12. ClearInv'
  <2>1. \A i \in Pos' : i # n + 1 /\ stack'[i].d # NULL =>
           i \in Pos /\ stack'[i] = stack[i] /\ stack[i].d \notin live /\ stack[i].d # d
    BY <1>5 DEF IInv, ClearInv
  <2>2. \A i, j \in Pos' : stack'[i].d # NULL /\ stack'[i].d = stack'[j].d => i = j
    BY <1>1, <1>2, <2>1 DEF IInv, ClearInv
  <2>3. e.at # "timer_destroy" /\ e.at # "user" /\ e.d \notin live' /\ ctx[e.d] = e.s
    BY <1>1
  <2>4. \A i \in Pos' : stack'[i].d # NULL =>
          /\ stack'[i].d \notin live'
          /\ stack'[i].at = "timer_destroy" =>
                /\ ctx[stack'[i].d] = stack'[i].s /\ timer[stack'[i].s] = stack'[i].d
                /\ stack'[i].d \in isTimer
          /\ stack'[i].at \in Ends => ctx[stack'[i].d] = stack'[i].s /\ stack'[i].d \notin isTimer
          /\ stack'[i].at = "user" => ctx[stack'[i].d] = NULL
    BY <1>1, <1>2, <2>1, <2>3 DEF IInv, ClearInv
  <2> QED BY <1>3, <2>2, <2>4 DEF ClearInv
<1>13. LiveInv'
  BY <1>3 DEF IInv, LiveInv
<1>14. SessInv'
  <2>1. \A x : Unused(x)' <=> Unused(x)
    <3>1. ~InClearing(d)
      BY ClearingFacts
    <3>2. \A x : (x \in live' \/ InClearing(x)') <=> (x \in live \/ InClearing(x))
      BY <1>8
    <3> QED BY <3>2 DEF Unused
  <2>2. \A s \in sess : timer[s] # NULL =>
            ~Unused(timer[s])' /\ ctx[timer[s]] = s /\ timer[s] \in isTimer
    BY <1>3, <2>1 DEF IInv, SessInv, Unused, InClearing
  <2>3. \A s \in sess : evData[s] # NULL =>
            ~Unused(evData[s])' /\ ctx[evData[s]] = s /\ evData[s] \notin isTimer
    BY <1>3, <2>1 DEF IInv, SessInv, Unused, InClearing
  <2>4. \A s \in sess : \/ \E i \in Pos' : stack'[i].at \in Ends /\ stack'[i].s = s
                        \/ \E x \in live' \ isTimer : ctx[x] = s
    <3> SUFFICES ASSUME NEW s \in sess
                 PROVE  \/ \E i \in Pos' : stack'[i].at \in Ends /\ stack'[i].s = s
                        \/ \E x \in live' \ isTimer : ctx[x] = s
      OBVIOUS
    <3>1. CASE s = ctx[d]
      BY <1>1, <1>2, <3>1 DEF Ends
    <3>2. CASE s # ctx[d]
      BY <1>6, <3>2 DEF IInv, SessInv
    <3> QED BY <3>1, <3>2
  <2> QED BY <1>3, <2>2, <2>3, <2>4 DEF IInv, SessInv
<1> QED BY <1>7, <1>8, <1>9, <1>10, <1>11, <1>12, <1>13, <1>14 DEF ObjectsInv

\* A timer is deleted: its TIMER_DESTROY callback begins on top of stack st, in
\* which XAPI_ClearData may have moved on to the socket.
LEMMA TimerRemoved ==
    ASSUME IInv, NEW d \in live, d \in isTimer,
           NEW st \in Seq(Entry), stack' = Append(st, ClearEvent(d)),
           UNCHANGED <<session, object>>, live' = live \ {d}, clearing' = Append(clearing, d),
           \A i \in 1..Len(st) :
              /\ i \in Pos /\ st[i].d = stack[i].d /\ st[i].s = stack[i].s
              /\ st[i].at = stack[i].at \/ (stack[i].at = "free" /\ st[i].at = "close")
              /\ st[i].at \in {"free", "close"} =>
                    i # Len(st) \/ (st[i].at = "close" /\ st[i].s = ctx[d]),
           \A i \in Pos : i \in 1..Len(st) \/ stack[i].at \in Handlers
    PROVE  ObjectsInv'
<1> DEFINE n == Len(st)
<1> DEFINE e == ClearEvent(d)
<1>1. /\ e \in Entry /\ ctx[d] \in sess /\ ctx[d] # NULL /\ e.s = ctx[d] /\ e.d = d
      /\ d \in Object /\ e.at = "timer_destroy"
  BY ClearEventFacts
<1>2. /\ n \in Nat /\ Len(stack') = n + 1 /\ n + 1 \in Pos' /\ stack'[n + 1] = e
      /\ \A i \in 1..n : i \in Pos' /\ i < n + 1 /\ stack'[i] = st[i]
      /\ \A i \in Pos' : i \in 1..n \/ i = n + 1
  <2>1. /\ Len(stack') = n + 1 /\ n \in Nat /\ stack'[n + 1] = e
        /\ \A i \in 1..n : i \in 1..Len(stack') /\ stack'[i] = st[i]
        /\ \A i \in 1..Len(stack') : i \in 1..n \/ i = n + 1
    BY <1>1, PushFacts
  <2> QED BY <2>1 DEF Pos
<1>3. UNCHANGED <<sess, role, evData, timer, sock, ctx, isTimer>>
  BY DEF session, object
<1>4. stack \in Seq(Entry) /\ Len(stack) \in Nat /\ sess \subseteq Session /\ NULL \notin live
  BY TypeFacts
<1> HIDE DEF e
<1>5. \A i \in Pos' : i # n + 1 =>
         /\ i \in 1..n /\ i \in Pos /\ stack'[i] = st[i]
         /\ stack'[i].d = stack[i].d /\ stack'[i].s = stack[i].s
         /\ stack'[i].at = stack[i].at \/ (stack[i].at = "free" /\ stack'[i].at = "close")
  BY <1>2
<1>6. \A i \in Pos : stack[i].d # NULL \/ stack[i].at \in Ends \cup {"timer_destroy"} =>
         i \in 1..n /\ i \in Pos' /\ i # n + 1
  BY <1>2 DEF IInv, ShapeInv, Handlers, Ends
<1>7. ShapeInv'
  <2> SUFFICES ASSUME NEW i \in Pos'
               PROVE  /\ stack'[i].at # "done"
                      /\ stack'[i].s = NULL <=> stack'[i].at \in {"next", "reloop", "user"}
                      /\ stack'[i].at \in {"closed", "timer_destroy", "user"} => stack'[i].d # NULL
                      /\ stack'[i].at \notin {"closed", "timer_destroy", "user", "free", "close"} =>
                            stack'[i].d = NULL
    BY DEF ShapeInv
  <2>1. CASE i = n + 1
    BY <1>1, <1>2, <2>1, XAPINullAssumption
  <2>2. CASE i # n + 1
    BY <1>5, <2>2 DEF IInv, ShapeInv
  <2> QED BY <2>1, <2>2
<1>8. LinkInv' /\ clearing' \in Seq(Object) /\ \A x : InClearing(x)' <=> InClearing(x) \/ x = d
  <2>1. clearing \in Seq(Object) /\ ~InClearing(d)
    BY ClearingFacts DEF IInv, TypeOK
  <2>2. \A i \in Pos : stack[i].d # NULL => i \in 1..Len(st)
    BY <1>6
  <2>3. LinkInv /\ e.d \in Object /\ stack' = Append(st, e) /\ clearing' = Append(clearing, e.d)
    BY <1>1 DEF IInv, e
  <2> QED BY <1>1, <1>4, <2>1, <2>2, <2>3, LinkPush
<1>9. FreeInv'
  <2> SUFFICES ASSUME NEW i \in Pos', i # n + 1, stack'[i].at \in {"free", "close"}
               PROVE  /\ stack'[i].at = "close" /\ i # Len(stack')
                      /\ stack'[i + 1].at = "timer_destroy" /\ stack'[i + 1].s = stack'[i].s
    BY <1>1, <1>2 DEF FreeInv
  <2>1. i \in 1..n /\ stack'[i] = st[i] /\ i \in Pos
    BY <1>5
  <2>2. CASE i = n
    BY <1>1, <1>2, <2>1, <2>2
  <2>3. CASE i # n
    <3>1. i + 1 \in 1..n /\ i # n + 1
      BY <1>2, <2>1, <2>3
    <3>2. i # Len(stack)
      BY <1>4, <3>1 DEF Pos
    <3>3. /\ stack[i].at = "close"
          /\ stack[i + 1].at = "timer_destroy" /\ stack[i + 1].s = stack[i].s
      BY <1>5, <2>1, <3>2 DEF IInv, FreeInv
    <3>4. i + 1 \in Pos' /\ i + 1 # n + 1
      BY <1>2, <2>3, <3>1
    <3>5. stack'[i + 1].at = "timer_destroy" /\ stack'[i + 1].s = stack[i + 1].s
      BY <1>5, <3>3, <3>4
    <3> QED BY <1>2, <1>5, <3>3, <3>5
  <2> QED BY <2>2, <2>3
<1>10. HoldInv'
  <2>1. \A i \in Pos' : stack'[i].at \notin Detached => stack'[i].s \in sess
    BY <1>1, <1>2, <1>5 DEF IInv, HoldInv, Detached
  <2>2. \A i \in Pos' : i # n + 1 =>
            /\ stack'[i].at \in Holds <=> stack[i].at \in Holds
            /\ stack'[i].at = "timer_destroy" <=> stack[i].at = "timer_destroy"
            /\ stack'[i].at = "refused" <=> stack[i].at = "refused"
            /\ stack'[i].at \in {"added", "accepted"} <=> stack[i].at \in {"added", "accepted"}
    BY <1>5 DEF Holds
  <2>3. \A i, j \in Pos' : stack'[i].at \in Holds /\ stack'[j].at \in Holds
                           /\ stack'[i].s = stack'[j].s => i = j
    BY <1>1, <1>2, <1>5, <2>2 DEF IInv, HoldInv, Holds
  <2>4. \A i, j \in Pos' : stack'[i].at \in Holds /\ stack'[j].at = "timer_destroy"
                           /\ stack'[i].s = stack'[j].s => i < j
    BY <1>1, <1>2, <1>5, <2>2 DEF IInv, HoldInv, Holds
  <2>5. \A i, j \in Pos' : stack'[i].at = "refused" /\ stack'[j].at \in {"added", "accepted"}
                           /\ stack'[i].s = stack'[j].s => i < j
    BY <1>1, <1>2, <1>5, <2>2 DEF IInv, HoldInv
  <2> QED BY <1>3, <2>1, <2>3, <2>4, <2>5 DEF HoldInv
<1>11. EndInv'
  <2>1. ASSUME NEW i \in Pos', stack'[i].at \in Ends
        PROVE  /\ evData[stack'[i].s] \in {stack'[i].d, NULL}
               /\ \A x \in live' \ isTimer : ctx[x] # stack'[i].s
    <3>1. i # n + 1
      BY <1>1, <1>2, <2>1 DEF Ends
    <3>2. i \in Pos /\ stack[i].at \in Ends /\ stack'[i].s = stack[i].s /\ stack'[i].d = stack[i].d
      BY <1>5, <2>1, <3>1 DEF Ends
    <3> QED BY <3>2 DEF IInv, EndInv
  <2>2. ASSUME NEW i \in Pos', stack'[i].at \in {"added", "accepted"}
        PROVE  evData[stack'[i].s] \in live'
    <3>1. i # n + 1
      BY <1>1, <1>2, <2>2
    <3>2. i \in Pos /\ stack[i].at \in {"added", "accepted"} /\ stack'[i].s = stack[i].s
      BY <1>5, <2>2, <3>1
    <3>3. evData[stack[i].s] \in live /\ evData[stack[i].s] # NULL /\ stack[i].s \in sess
      BY <1>4, <3>2 DEF IInv, EndInv, HoldInv, Detached
    <3>4. evData[stack[i].s] \notin isTimer
      BY <3>3 DEF IInv, SessInv
    <3> QED BY <3>2, <3>3, <3>4
  <2> QED BY <1>3, <2>1, <2>2 DEF EndInv
<1>12. ClearInv'
  <2>1. \A i \in Pos' : i # n + 1 /\ stack'[i].d # NULL =>
           /\ i \in Pos /\ stack'[i].d = stack[i].d /\ stack[i].d \notin live /\ stack[i].d # d
           /\ stack'[i].s = stack[i].s
           /\ stack'[i].at = "timer_destroy" => stack[i].at = "timer_destroy"
           /\ stack'[i].at \in Ends => stack[i].at \in Ends
           /\ stack'[i].at = "user" => stack[i].at = "user"
    BY <1>5 DEF IInv, ClearInv, Ends
  <2>2. \A i, j \in Pos' : stack'[i].d # NULL /\ stack'[i].d = stack'[j].d => i = j
    BY <1>1, <1>2, <2>1, SMTT(30) DEF IInv, ClearInv
  <2>3. /\ e.at \notin Ends /\ e.at # "user" /\ e.d \notin live' /\ ctx[e.d] = e.s
        /\ timer[e.s] = e.d /\ e.d \in isTimer
    BY <1>1 DEF Ends, IInv, LiveInv
  <2>4. \A i \in Pos' : stack'[i].d # NULL =>
          /\ stack'[i].d \notin live'
          /\ stack'[i].at = "timer_destroy" =>
                /\ ctx[stack'[i].d] = stack'[i].s /\ timer[stack'[i].s] = stack'[i].d
                /\ stack'[i].d \in isTimer
          /\ stack'[i].at \in Ends => ctx[stack'[i].d] = stack'[i].s /\ stack'[i].d \notin isTimer
          /\ stack'[i].at = "user" => ctx[stack'[i].d] = NULL
    BY <1>2, <2>1, <2>3, SMTT(30) DEF IInv, ClearInv
  <2> QED BY <1>3, <2>2, <2>4 DEF ClearInv
<1>13. LiveInv'
  BY <1>3 DEF IInv, LiveInv
<1>14. SessInv'
  <2>1. \A x : Unused(x)' <=> Unused(x)
    <3>1. ~InClearing(d)
      BY ClearingFacts
    <3>2. \A x : (x \in live' \/ InClearing(x)') <=> (x \in live \/ InClearing(x))
      BY <1>8
    <3> QED BY <3>2 DEF Unused
  <2>2. \A s \in sess : timer[s] # NULL =>
            ~Unused(timer[s])' /\ ctx[timer[s]] = s /\ timer[s] \in isTimer
    BY <1>3, <2>1 DEF IInv, SessInv, Unused, InClearing
  <2>3. \A s \in sess : evData[s] # NULL =>
            ~Unused(evData[s])' /\ ctx[evData[s]] = s /\ evData[s] \notin isTimer
    BY <1>3, <2>1 DEF IInv, SessInv, Unused, InClearing
  <2>4. \A s \in sess : \/ \E i \in Pos' : stack'[i].at \in Ends /\ stack'[i].s = s
                        \/ \E x \in live' \ isTimer : ctx[x] = s
    <3>1. \A i \in Pos : stack[i].at \in Ends =>
             i \in Pos' /\ stack'[i].at \in Ends /\ stack'[i].s = stack[i].s
      BY <1>5, <1>6 DEF Ends
    <3>2. live' \ isTimer = live \ isTimer
      OBVIOUS
    <3>3. \A s \in sess : \/ \E i \in Pos : stack[i].at \in Ends /\ stack[i].s = s
                          \/ \E x \in live \ isTimer : ctx[x] = s
      BY DEF IInv, SessInv
    <3> QED BY <3>1, <3>2, <3>3, ZenonT(60)
  <2> QED BY <1>3, <2>2, <2>3, <2>4 DEF IInv, SessInv
<1> QED BY <1>7, <1>8, <1>9, <1>10, <1>11, <1>12, <1>13, <1>14 DEF ObjectsInv

\* A session is created and the application is called with it, registered or
\* after an error.  Below it a handler may wait that was not there before.
LEMMA NewSession ==
    ASSUME IInv, NEW s \in Session, s \notin sess, NEW st \in Seq(Entry),
           NEW p \in {"added", "accepted", "error"}, stack' = Append(st, At(p, s, NULL)),
           sess' = sess \cup {s}, timer' = [timer EXCEPT ![s] = NULL], sock' \subseteq sock \cup {s},
           UNCHANGED clearing,
           \A i \in 1..Len(st) :
              \/ i \in Pos /\ st[i] = stack[i] /\ (st[i].at \in {"free", "close"} => i # Len(st))
              \/ st[i] = At("next", NULL, NULL) /\ stack = << >>,
           \A i \in Pos : i \in 1..Len(st) /\ st[i] = stack[i],
           \/ /\ p # "error"
              /\ \E d \in Object : /\ Unused(d) /\ live' = live \cup {d}
                                   /\ ctx' = [ctx EXCEPT ![d] = s] /\ isTimer' = isTimer \ {d}
                                   /\ evData' = [evData EXCEPT ![s] = d]
           \/ /\ p = "error" /\ UNCHANGED <<live, ctx, isTimer>>
              /\ evData' = [evData EXCEPT ![s] = NULL]
    PROVE  ObjectsInv'
<1> DEFINE n == Len(st)
<1> DEFINE e == At(p, s, NULL)
<1>1. /\ e \in Entry /\ e.at = p /\ e.s = s /\ e.d = NULL
      /\ At("next", NULL, NULL).at = "next" /\ At("next", NULL, NULL).s = NULL
      /\ At("next", NULL, NULL).d = NULL
  BY DEF At, Entry, Points, UserPoints
<1>2. /\ n \in Nat /\ Len(stack') = n + 1 /\ n + 1 \in Pos' /\ stack'[n + 1] = e
      /\ \A i \in 1..n : i \in Pos' /\ i < n + 1 /\ stack'[i] = st[i]
      /\ \A i \in Pos' : i \in 1..n \/ i = n + 1
  <2>1. /\ Len(stack') = n + 1 /\ n \in Nat /\ stack'[n + 1] = e
        /\ \A i \in 1..n : i \in 1..Len(stack') /\ stack'[i] = st[i]
        /\ \A i \in 1..Len(stack') : i \in 1..n \/ i = n + 1
    BY <1>1, PushFacts
  <2> QED BY <2>1 DEF Pos
<1>3. /\ stack \in Seq(Entry) /\ Len(stack) \in Nat /\ sess \subseteq Session /\ NULL \notin live
      /\ NULL \notin Session /\ NULL \notin Object /\ NULL \notin sess
      /\ evData \in [Session -> Object \cup {NULL}] /\ timer \in [Session -> Object \cup {NULL}]
      /\ ctx \in [Object -> Session \cup {NULL}] /\ live \subseteq Object
  BY TypeFacts, XAPINullAssumption DEF IInv, TypeOK
<1> HIDE DEF e
<1>4. \A i \in Pos' : i # n + 1 =>
         /\ i \in 1..n /\ i < n + 1 /\ stack'[i] = st[i]
         /\ \/ i \in Pos /\ stack'[i] = stack[i]
            \/ stack'[i].at = "next" /\ stack'[i].s = NULL /\ stack'[i].d = NULL
  BY <1>1, <1>2
<1>5. \A i \in Pos : i \in Pos' /\ i # n + 1 /\ stack'[i] = stack[i]
  BY <1>2
<1>6. \A i \in Pos : stack[i].s = s => stack[i].at \in Detached
  BY DEF IInv, HoldInv
<1>7. \A r \in sess : r # s /\ evData'[r] = evData[r] /\ timer'[r] = timer[r]
  BY <1>3
<1>8. /\ \A x \in live : x \in live' /\ ctx'[x] = ctx[x] /\ (x \in isTimer' <=> x \in isTimer)
      /\ \A x : InClearing(x) => ctx'[x] = ctx[x] /\ (x \in isTimer' <=> x \in isTimer) /\ x \notin live' \ live
      /\ timer'[s] = NULL
      /\ \A x \in live' \ live : ctx'[x] = s /\ x \notin isTimer' /\ evData'[s] = x /\ p # "error"
      /\ p # "error" => evData'[s] \in live' \ live
      /\ p = "error" => evData'[s] = NULL
  <2>1. timer'[s] = NULL
    BY <1>3
  <2>2. CASE p = "error"
    BY <1>3, <2>1, <2>2
  <2>3. CASE p # "error"
    <3>1. PICK d \in Object : /\ Unused(d) /\ live' = live \cup {d}
                              /\ ctx' = [ctx EXCEPT ![d] = s] /\ isTimer' = isTimer \ {d}
                              /\ evData' = [evData EXCEPT ![s] = d]
      BY <2>3
    <3>2. d \notin live /\ \A x : InClearing(x) => x # d
      BY <3>1 DEF Unused
    <3>3. evData'[s] = d /\ ctx'[d] = s /\ \A x : x # d => ctx'[x] = ctx[x]
      BY <1>3, <3>1
    <3> QED BY <2>1, <2>3, <3>1, <3>2, <3>3
  <2> QED BY <2>2, <2>3
<1>9. ShapeInv'
  <2>1. \A i \in Pos' : i # n + 1 =>
          /\ stack'[i].at # "done"
          /\ stack'[i].s = NULL <=> stack'[i].at \in {"next", "reloop", "user"}
          /\ stack'[i].at \in {"closed", "timer_destroy", "user"} => stack'[i].d # NULL
          /\ stack'[i].at \notin {"closed", "timer_destroy", "user", "free", "close"} =>
                stack'[i].d = NULL
    BY <1>4 DEF IInv, ShapeInv
  <2> QED BY <1>1, <1>2, <1>3, <2>1 DEF ShapeInv
<1>10. LinkInv' /\ \A x : InClearing(x)' <=> InClearing(x)
  BY <1>1, <1>2, <1>4, <1>5, LinkKeep DEF IInv, TypeOK
<1>11. FreeInv'
  <2> SUFFICES ASSUME NEW i \in Pos', i # n + 1, stack'[i].at \in {"free", "close"}
               PROVE  /\ stack'[i].at = "close" /\ i # Len(stack')
                      /\ stack'[i + 1].at = "timer_destroy" /\ stack'[i + 1].s = stack'[i].s
    BY <1>1, <1>2 DEF FreeInv
  <2>1. i \in 1..n /\ i \in Pos /\ stack'[i] = stack[i] /\ i # n /\ stack'[i] = st[i]
    BY <1>1, <1>4
  <2>2. i + 1 \in 1..n
    BY <1>2, <2>1
  <2>3. i + 1 \in Pos /\ stack'[i + 1] = stack[i + 1] /\ i # Len(stack)
    <3>1. stack # << >>
      BY <2>1, EmptyFacts
    <3>2. i + 1 \in Pos /\ stack'[i + 1] = stack[i + 1]
      BY <1>2, <2>2, <3>1
    <3> QED BY <1>3, <3>2 DEF Pos
  <2>4. i # Len(stack')
    BY <1>2, <2>1
  <2> QED BY <2>1, <2>3, <2>4 DEF IInv, FreeInv
<1>12. HoldInv'
  <2>1. \A i \in Pos' : i # n + 1 => stack'[i].s # s \/ stack'[i].at \in Detached
    BY <1>3, <1>4, <1>6
  <2>2. \A i \in Pos' : stack'[i].at \notin Detached => stack'[i].s \in sess'
    BY <1>1, <1>2, <1>4 DEF IInv, HoldInv, Detached
  <2>3. Holds \cap Detached = {} /\ "timer_destroy" \notin Detached /\ "next" \notin Holds
        /\ {"added", "accepted"} \cap Detached = {} /\ "timer_destroy" \notin Holds /\ p # "timer_destroy" /\ p # "refused"
    BY DEF Holds, Detached
  <2>4. \A i, j \in Pos' : stack'[i].at \in Holds /\ stack'[j].at \in Holds
                           /\ stack'[i].s = stack'[j].s => i = j
    BY <1>1, <1>2, <1>4, <2>1, <2>3 DEF IInv, HoldInv
  <2>5. \A i, j \in Pos' : stack'[i].at \in Holds /\ stack'[j].at = "timer_destroy"
                           /\ stack'[i].s = stack'[j].s => i < j
    BY <1>1, <1>2, <1>4, <2>1, <2>3 DEF IInv, HoldInv
  <2>6. \A i, j \in Pos' : stack'[i].at = "refused" /\ stack'[j].at \in {"added", "accepted"}
                           /\ stack'[i].s = stack'[j].s => i < j
    BY <1>1, <1>2, <1>4, <2>1, <2>3 DEF IInv, HoldInv
  <2> QED BY <2>2, <2>4, <2>5, <2>6 DEF HoldInv
<1>13. EndInv'
  <2>1. ASSUME NEW i \in Pos', stack'[i].at \in Ends
        PROVE  /\ evData'[stack'[i].s] \in {stack'[i].d, NULL}
               /\ \A x \in live' \ isTimer' : ctx'[x] # stack'[i].s
    <3>1. CASE i = n + 1
      <4>1. p = "error" /\ stack'[i].s = s /\ evData'[s] = NULL
        BY <1>1, <1>2, <1>8, <2>1, <3>1 DEF Ends
      <4>2. \A x \in live : ctx[x] # s
        BY DEF IInv, LiveInv
      <4> QED BY <1>8, <4>1, <4>2
    <3>2. CASE i # n + 1
      <4>1. i \in Pos /\ stack'[i] = stack[i]
        BY <1>4, <2>1, <3>2 DEF Ends
      <4>2. stack[i].s \in sess
        BY <2>1, <4>1 DEF Ends, IInv, HoldInv, Detached
      <4>3. evData'[stack[i].s] = evData[stack[i].s] /\ stack[i].s # s
        BY <1>7, <4>2
      <4> QED BY <1>8, <2>1, <4>1, <4>3 DEF IInv, EndInv
    <3> QED BY <3>1, <3>2
  <2>2. ASSUME NEW i \in Pos', stack'[i].at \in {"added", "accepted"}
        PROVE  evData'[stack'[i].s] \in live'
    <3>1. CASE i = n + 1
      BY <1>1, <1>2, <1>8, <2>2, <3>1
    <3>2. CASE i # n + 1
      <4>1. i \in Pos /\ stack'[i] = stack[i]
        BY <1>4, <2>2, <3>2
      <4>2. stack[i].s \in sess
        BY <2>2, <4>1 DEF IInv, HoldInv, Detached
      <4> QED BY <1>7, <1>8, <2>2, <4>1, <4>2 DEF IInv, EndInv
    <3> QED BY <3>1, <3>2
  <2> QED BY <2>1, <2>2 DEF EndInv
<1>14. ClearInv'
  <2>1. \A i \in Pos' : stack'[i].d # NULL =>
           /\ i \in Pos /\ stack'[i] = stack[i] /\ InClearing(stack[i].d) /\ stack[i].d \notin live
    BY <1>1, <1>2, <1>4 DEF IInv, ClearInv, LinkInv
  <2>2. ASSUME NEW i \in Pos', NEW j \in Pos', stack'[i].d # NULL, stack'[i].d = stack'[j].d
        PROVE  i = j
    <3>1. i \in Pos /\ j \in Pos /\ stack'[i] = stack[i] /\ stack'[j] = stack[j]
      BY <2>1, <2>2
    <3> QED BY <2>2, <3>1 DEF IInv, ClearInv
  <2>3. ASSUME NEW i \in Pos', stack'[i].d # NULL
        PROVE  /\ stack'[i].d \notin live'
               /\ stack'[i].at = "timer_destroy" =>
                     /\ ctx'[stack'[i].d] = stack'[i].s /\ timer'[stack'[i].s] = stack'[i].d
                     /\ stack'[i].d \in isTimer'
               /\ stack'[i].at \in Ends =>
                     ctx'[stack'[i].d] = stack'[i].s /\ stack'[i].d \notin isTimer'
               /\ stack'[i].at = "user" => ctx'[stack'[i].d] = NULL
    <3> DEFINE x == stack[i].d
    <3>1. i \in Pos /\ stack'[i] = stack[i] /\ InClearing(x) /\ x \notin live
      BY <2>1, <2>3
    <3>2. x \notin live' /\ ctx'[x] = ctx[x] /\ (x \in isTimer' <=> x \in isTimer)
      BY <1>8, <3>1
    <3>3. stack[i].at = "timer_destroy" => timer'[stack[i].s] = timer[stack[i].s]
      BY <1>7, <3>1 DEF IInv, HoldInv, Detached
    <3> QED BY <2>3, <3>1, <3>2, <3>3 DEF IInv, ClearInv
  <2> QED BY <2>2, <2>3 DEF ClearInv
<1>15. LiveInv'
  <2>1. \A x \in live' : x \in live \/ (x \in live' \ live)
    OBVIOUS
  <2>2. \A x \in live : ctx[x] \in sess
    BY DEF IInv, LiveInv
  <2>3. \A x \in live' : /\ ctx'[x] \in sess'
                         /\ IF x \in isTimer' THEN timer'[ctx'[x]] = x ELSE evData'[ctx'[x]] \in {x, NULL}
    BY <1>7, <1>8, <2>1, <2>2 DEF IInv, LiveInv
  <2>4. \A x, y \in live' \ isTimer' : ctx'[x] = ctx'[y] => x = y
    BY <1>8, <2>1, <2>2 DEF IInv, LiveInv
  <2> QED BY <2>3, <2>4 DEF LiveInv
<1>16. SessInv'
  <2>1. \A x : ~Unused(x) => ~Unused(x)' /\ ctx'[x] = ctx[x] /\ (x \in isTimer' <=> x \in isTimer)
    BY <1>8, <1>10 DEF Unused
  <2>2. sock' \subseteq sess'
    BY DEF IInv, SessInv
  <2>3. \A r \in sess : timer'[r] # NULL =>
            ~Unused(timer[r])' /\ ctx'[timer'[r]] = r /\ timer'[r] \in isTimer'
    <3> SUFFICES ASSUME NEW r \in sess, timer'[r] # NULL
                 PROVE  ~Unused(timer[r])' /\ ctx'[timer'[r]] = r /\ timer'[r] \in isTimer'
      OBVIOUS
    <3>1. timer'[r] = timer[r] /\ ~Unused(timer[r]) /\ ctx[timer[r]] = r /\ timer[r] \in isTimer
      BY <1>7 DEF IInv, SessInv
    <3> QED BY <2>1, <3>1 DEF Unused, InClearing
  <2>4. \A r \in sess : evData'[r] # NULL =>
            ~Unused(evData[r])' /\ ctx'[evData'[r]] = r /\ evData'[r] \notin isTimer'
    <3> SUFFICES ASSUME NEW r \in sess, evData'[r] # NULL
                 PROVE  ~Unused(evData[r])' /\ ctx'[evData'[r]] = r /\ evData'[r] \notin isTimer'
      OBVIOUS
    <3>1. evData'[r] = evData[r] /\ ~Unused(evData[r]) /\ ctx[evData[r]] = r /\ evData[r] \notin isTimer
      BY <1>7 DEF IInv, SessInv
    <3> QED BY <2>1, <3>1 DEF Unused, InClearing
  <2>5. \A r \in sess : \/ \E i \in Pos' : stack'[i].at \in Ends /\ stack'[i].s = r
                        \/ \E x \in live' \ isTimer' : ctx'[x] = r
    <3>1. \A r \in sess : \/ \E i \in Pos : stack[i].at \in Ends /\ stack[i].s = r
                          \/ \E x \in live \ isTimer : ctx[x] = r
      BY DEF IInv, SessInv
    <3>2. \A x \in live \ isTimer : x \in live' \ isTimer' /\ ctx'[x] = ctx[x]
      BY <1>8
    <3> QED BY <1>5, <3>1, <3>2
  <2>6. /\ timer'[s] = NULL
        /\ evData'[s] # NULL =>
              ~Unused(evData[s])' /\ ctx'[evData'[s]] = s /\ evData'[s] \notin isTimer'
        /\ \/ \E i \in Pos' : stack'[i].at \in Ends /\ stack'[i].s = s
           \/ \E x \in live' \ isTimer' : ctx'[x] = s
    <3>1. CASE p = "error"
      BY <1>1, <1>2, <1>8, <3>1 DEF Ends
    <3>2. CASE p # "error"
      BY <1>8, <3>2 DEF Unused
    <3> QED BY <3>1, <3>2
  <2> QED BY <2>2, <2>3, <2>4, <2>5, <2>6 DEF SessInv
<1> QED BY <1>9, <1>10, <1>11, <1>12, <1>13, <1>14, <1>15, <1>16 DEF ObjectsInv

\* XAPI_AddTimer: a session gets a timer.
LEMMA TimerAdded ==
    ASSUME IInv, NEW s \in sess, timer[s] = NULL, NEW d \in Object, Unused(d),
           live' = live \cup {d}, ctx' = [ctx EXCEPT ![d] = s], isTimer' = isTimer \cup {d},
           timer' = [timer EXCEPT ![s] = d], UNCHANGED <<sess, evData, sock, stack, clearing>>,
           stack # << >> => Top.at # "close"
    PROVE  ObjectsInv'
<1>1. /\ stack \in Seq(Entry) /\ sess \subseteq Session /\ NULL \notin live /\ NULL \notin Object
      /\ timer \in [Session -> Object \cup {NULL}] /\ ctx \in [Object -> Session \cup {NULL}]
      /\ live \subseteq Object /\ \A i \in Pos : stack # << >>
  BY TypeFacts, EmptyFacts, XAPINullAssumption DEF IInv, TypeOK
<1>2. Pos' = Pos
  BY DEF Pos
<1>3. \A x : InClearing(x)' <=> InClearing(x)
  BY DEF InClearing
<1>4. /\ d # NULL /\ d \notin live /\ timer'[s] = d /\ ctx'[d] = s /\ d \in isTimer'
      /\ \A r \in sess : r # s => timer'[r] = timer[r]
      /\ \A x : x # d => ctx'[x] = ctx[x] /\ (x \in isTimer' <=> x \in isTimer)
      /\ \A x : ~Unused(x) => x # d
  BY <1>1 DEF Unused
<1>5. ShapeInv' /\ HoldInv'
  BY <1>2 DEF IInv, ShapeInv, HoldInv
<1>6. LinkInv'
  <2>1. \A i \in Pos : stack[i].d # NULL => InClearing(stack[i].d)'
    BY <1>3 DEF IInv, LinkInv
  <2> QED BY <1>2, <2>1 DEF IInv, LinkInv
<1>7. FreeInv'
  <2>1. ASSUME NEW i \in Pos
        PROVE  /\ stack[i].at = "free" => i = Len(stack)
               /\ stack[i].at = "close" =>
                     IF i = Len(stack) THEN timer'[stack[i].s] = NULL
                     ELSE stack[i + 1].at = "timer_destroy" /\ stack[i + 1].s = stack[i].s
    BY <1>1 DEF IInv, FreeInv, Top
  <2> QED BY <1>2, <2>1 DEF FreeInv
<1>8. EndInv'
  <2>1. \A x \in live' \ isTimer' : x \in live \ isTimer /\ ctx'[x] = ctx[x]
    BY <1>4
  <2> QED BY <1>2, <2>1 DEF IInv, EndInv
<1>9. ClearInv'
  <2>1. ASSUME NEW i \in Pos, stack[i].d # NULL
        PROVE  /\ stack[i].d \notin live'
               /\ stack[i].at = "timer_destroy" =>
                     /\ ctx'[stack[i].d] = stack[i].s /\ timer'[stack[i].s] = stack[i].d
                     /\ stack[i].d \in isTimer'
               /\ stack[i].at \in Ends => ctx'[stack[i].d] = stack[i].s /\ stack[i].d \notin isTimer'
               /\ stack[i].at = "user" => ctx'[stack[i].d] = NULL
    <3>1. InClearing(stack[i].d) /\ stack[i].d # d /\ stack[i].d \notin live
      BY <1>4, <2>1 DEF IInv, LinkInv, ClearInv, Unused
    <3>2. stack[i].at = "timer_destroy" => timer'[stack[i].s] = timer[stack[i].s]
      BY <1>4, <2>1 DEF IInv, HoldInv, ClearInv, Detached
    <3> QED BY <1>4, <2>1, <3>1, <3>2 DEF IInv, ClearInv
  <2>2. \A i, j \in Pos : stack[i].d # NULL /\ stack[i].d = stack[j].d => i = j
    BY DEF IInv, ClearInv
  <2> QED BY <1>2, <2>1, <2>2 DEF ClearInv
<1>10. LiveInv'
  <2>1. \A x \in live : /\ ctx'[x] = ctx[x] /\ (x \in isTimer' <=> x \in isTimer) /\ ctx[x] \in sess
                        /\ x \in isTimer => timer'[ctx[x]] = x
    BY <1>1, <1>4 DEF IInv, LiveInv
  <2>2. \A x \in live' : x \in live \/ x = d
    OBVIOUS
  <2>3. \A x \in live' : /\ ctx'[x] \in sess
                         /\ IF x \in isTimer' THEN timer'[ctx'[x]] = x ELSE evData[ctx'[x]] \in {x, NULL}
    BY <1>4, <2>1, <2>2 DEF IInv, LiveInv
  <2>4. \A x, y \in live' \ isTimer' : ctx'[x] = ctx'[y] => x = y
    BY <1>4, <2>1, <2>2 DEF IInv, LiveInv
  <2> QED BY <2>3, <2>4 DEF LiveInv
<1>11. SessInv'
  <2>1. \A x : ~Unused(x) => ~Unused(x)' /\ ctx'[x] = ctx[x] /\ (x \in isTimer' <=> x \in isTimer)
    BY <1>3, <1>4 DEF Unused
  <2>2. ASSUME NEW r \in sess, timer'[r] # NULL
        PROVE  ~Unused(timer[r])' /\ ctx'[timer'[r]] = r /\ timer'[r] \in isTimer'
    <3>1. CASE r = s
      BY <1>4, <3>1 DEF Unused
    <3>2. CASE r # s
      <4>1. timer'[r] = timer[r] /\ ~Unused(timer[r]) /\ ctx[timer[r]] = r /\ timer[r] \in isTimer
        BY <1>4, <2>2, <3>2 DEF IInv, SessInv
      <4> QED BY <2>1, <4>1 DEF Unused, InClearing
    <3> QED BY <3>1, <3>2
  <2>3. ASSUME NEW r \in sess, evData[r] # NULL
        PROVE  ~Unused(evData[r])' /\ ctx'[evData[r]] = r /\ evData[r] \notin isTimer'
    <3>1. ~Unused(evData[r]) /\ ctx[evData[r]] = r /\ evData[r] \notin isTimer
      BY <2>3 DEF IInv, SessInv
    <3> QED BY <2>1, <3>1 DEF Unused, InClearing
  <2>4. \A r \in sess : \/ \E i \in Pos : stack[i].at \in Ends /\ stack[i].s = r
                        \/ \E x \in live' \ isTimer' : ctx'[x] = r
    <3>1. \A x \in live \ isTimer : x \in live' \ isTimer' /\ ctx'[x] = ctx[x]
      BY <1>4
    <3> QED BY <3>1 DEF IInv, SessInv
  <2>5. sock \subseteq sess
    BY DEF IInv, SessInv
  <2> QED BY <1>2, <2>2, <2>3, <2>4, <2>5 DEF SessInv
<1> QED BY <1>5, <1>6, <1>7, <1>8, <1>9, <1>10, <1>11 DEF ObjectsInv

\* The innermost activation goes on, with its session or, when it disconnected
\* the session, without one.
LEMMA TopGoesOn ==
    ASSUME IInv, stack # << >>, UNCHANGED <<sess, evData, timer, sock, ctx, isTimer, live, clearing>>,
           stack' \in Seq(Entry), Len(stack') = Len(stack),
           \A i \in Pos : i # Len(stack) => stack'[i] = stack[i],
           \/ /\ Top.at \in {"closed", "error"}
              /\ stack'[Len(stack)] = [at |-> "free", s |-> Top.s, d |-> Top.d]
           \/ /\ Top.at = "free" /\ timer[Top.s] = NULL
              /\ stack'[Len(stack)] = [at |-> "close", s |-> Top.s, d |-> Top.d]
           \/ /\ Top.at = "timeout"
              /\ stack'[Len(stack)] = At("reloop", NULL, NULL)
    PROVE  ObjectsInv'
<1> DEFINE n == Len(stack)
<1> DEFINE e == stack'[n]
<1>1. /\ stack \in Seq(Entry) /\ n \in Nat /\ n \in Pos /\ Top = stack[n]
      /\ sess \subseteq Session /\ NULL \notin sess /\ \A i \in Pos : i \in Nat /\ i <= n
  BY TypeFacts, BelowFacts DEF Top
<1>2. Pos' = Pos /\ Len(stack') = n
  BY DEF Pos
<1>3. /\ e.d = stack[n].d
      /\ e.at \in {"free", "close", "reloop"}
      /\ e.at = "reloop" => stack[n].at = "timeout" /\ e.s = NULL /\ e.d = NULL
      /\ e.at = "free" => stack[n].at \in {"closed", "error"} /\ e.s = stack[n].s
      /\ e.at = "close" => stack[n].at = "free" /\ e.s = stack[n].s /\ timer[e.s] = NULL
  BY <1>1 DEF At, IInv, ShapeInv
<1> HIDE DEF e
<1>4. \A i \in Pos : i # n => stack'[i] = stack[i]
  OBVIOUS
<1>5. stack'[n] = e
  BY DEF e
<1>6. /\ \A i \in Pos : stack'[i].d = stack[i].d
      /\ \A i \in Pos : stack'[i].at \in Ends => stack[i].at \in Ends /\ stack'[i].s = stack[i].s
      /\ \A i \in Pos : stack[i].at \in Ends => stack'[i].at \in Ends /\ stack'[i].s = stack[i].s
      /\ \A i \in Pos : stack'[i].at \in Holds => stack[i].at \in Holds /\ stack'[i].s = stack[i].s
      /\ \A i \in Pos : stack'[i].at \notin Holds \cup {"reloop"} => i # n
  BY <1>3, <1>4, <1>5 DEF Ends, Holds
<1>7. ShapeInv'
  <2>1. /\ e.at # "done" /\ (e.s = NULL <=> e.at \in {"next", "reloop", "user"})
        /\ e.at \in {"closed", "timer_destroy", "user"} => e.d # NULL
        /\ e.at \notin {"closed", "timer_destroy", "user", "free", "close"} => e.d = NULL
    BY <1>1, <1>3 DEF IInv, ShapeInv
  <2> QED BY <1>2, <1>4, <1>5, <2>1 DEF IInv, ShapeInv
<1>8. LinkInv' /\ \A x : InClearing(x)' <=> InClearing(x)
  BY <1>2, <1>6, LinkKeep DEF IInv, TypeOK
<1>9. FreeInv'
  <2>1. ASSUME NEW i \in Pos, i # n, stack'[i].at \in {"free", "close"}
        PROVE  /\ stack'[i].at = "close" /\ i # n
               /\ stack'[i + 1].at = "timer_destroy" /\ stack'[i + 1].s = stack'[i].s
    <3>1. /\ stack'[i] = stack[i] /\ stack[i].at = "close"
          /\ stack[i + 1].at = "timer_destroy" /\ stack[i + 1].s = stack[i].s
      BY <1>4, <2>1 DEF IInv, FreeInv
    <3>2. i + 1 \in Pos
      BY <1>1, <2>1 DEF Pos
    <3>3. i + 1 # n
      BY <1>3, <3>1
    <3> QED BY <1>4, <2>1, <3>1, <3>2, <3>3
  <2> QED BY <1>2, <1>3, <1>5, <2>1 DEF FreeInv
<1>10. HoldInv'
  <2>1. \A i \in Pos : stack'[i].at \notin Detached => stack'[i].s \in sess
    BY <1>3, <1>4, <1>5, <1>1 DEF IInv, HoldInv, Detached
  <2>2. \A i, j \in Pos : stack'[i].at \in Holds /\ stack'[j].at \in Holds
                          /\ stack'[i].s = stack'[j].s => i = j
    BY <1>6 DEF IInv, HoldInv
  <2>3. \A j \in Pos : stack'[j].at \in {"timer_destroy", "refused", "added", "accepted"} =>
           stack'[j] = stack[j]
    BY <1>3, <1>4, <1>5
  <2>4. \A i, j \in Pos : stack'[i].at \in Holds /\ stack'[j].at = "timer_destroy"
                          /\ stack'[i].s = stack'[j].s => i < j
    BY <1>6, <2>3 DEF IInv, HoldInv
  <2>5. \A i, j \in Pos : stack'[i].at = "refused" /\ stack'[j].at \in {"added", "accepted"}
                          /\ stack'[i].s = stack'[j].s => i < j
    BY <2>3 DEF IInv, HoldInv
  <2> QED BY <1>2, <2>1, <2>2, <2>4, <2>5 DEF HoldInv
<1>11. EndInv'
  <2>1. \A j \in Pos : stack'[j].at \in {"added", "accepted"} => stack'[j] = stack[j]
    BY <1>3, <1>4, <1>5
  <2> QED BY <1>2, <1>6, <2>1 DEF IInv, EndInv
<1>12. ClearInv'
  <2>1. \A i \in Pos : stack'[i].at \in {"timer_destroy", "user"} => stack'[i] = stack[i]
    BY <1>3, <1>4, <1>5
  <2> QED BY <1>2, <1>6, <2>1 DEF IInv, ClearInv
<1>13. LiveInv'
  BY DEF IInv, LiveInv
<1>14. SessInv'
  <2>1. \A x : Unused(x)' <=> Unused(x)
    BY <1>8 DEF Unused
  <2>2. \A r \in sess : /\ timer[r] # NULL =>
                              ~Unused(timer[r])' /\ ctx[timer[r]] = r /\ timer[r] \in isTimer
                        /\ evData[r] # NULL =>
                              ~Unused(evData[r])' /\ ctx[evData[r]] = r /\ evData[r] \notin isTimer
    BY <2>1 DEF IInv, SessInv, Unused, InClearing
  <2>3. \A r \in sess : \/ \E i \in Pos : stack'[i].at \in Ends /\ stack'[i].s = r
                        \/ \E x \in live \ isTimer : ctx[x] = r
    BY <1>6 DEF IInv, SessInv
  <2> QED BY <1>2, <2>2, <2>3 DEF IInv, SessInv
<1> QED BY <1>7, <1>8, <1>9, <1>10, <1>11, <1>12, <1>13, <1>14 DEF ObjectsInv

\* A CLEAR callback of a timer, or of an object whose session was freed before,
\* returns: nothing leads to the object any more.
LEMMA ClearReturns ==
    ASSUME IInv, stack # << >>, stack' = Below, Freed, UNCHANGED <<sess, evData, sock>>,
           \/ /\ Top.at = "timer_destroy"
              /\ timer' = [timer EXCEPT ![Top.s] = NULL] /\ ctx' = [ctx EXCEPT ![Top.d] = NULL]
              /\ isTimer' = isTimer \ {Top.d}
           \/ Top.at = "user" /\ UNCHANGED <<timer, ctx, isTimer>>
    PROVE  ObjectsInv'
<1> DEFINE n == Len(stack)
<1> DEFINE d == Top.d
<1>1. /\ stack \in Seq(Entry) /\ n \in Nat /\ n \in Pos /\ Top = stack[n] /\ Top \in Entry
      /\ sess \subseteq Session /\ NULL \notin live /\ live \subseteq Object
      /\ timer \in [Session -> Object \cup {NULL}] /\ ctx \in [Object -> Session \cup {NULL}]
      /\ d # NULL /\ d \notin live /\ live' = live
      /\ Top.at \in {"timer_destroy", "user"}
  <2>1. d # NULL /\ Len(stack) \in Pos /\ Top = stack[n]
    BY TypeFacts, BelowFacts DEF IInv, ShapeInv, Top
  <2>2. d \notin live
    BY <2>1 DEF IInv, ClearInv
  <2> QED BY <2>1, <2>2, TypeFacts, BelowFacts DEF IInv, TypeOK, Freed
<1>2. /\ \A i \in Pos' : i \in Pos /\ i # n /\ stack'[i] = stack[i]
      /\ \A i \in Pos : i # n => i \in Pos'
      /\ Len(stack') = n - 1
  BY <1>1, BelowFacts DEF Pos
<1>3. LinkInv' /\ \A x : InClearing(x)' <=> InClearing(x) /\ x # d
  BY <1>1, LinkPop
<1>4. /\ \A x : x # d => ctx'[x] = ctx[x] /\ (x \in isTimer' <=> x \in isTimer)
      /\ \A r \in sess : \/ timer'[r] = timer[r] /\ timer[r] # d
                         \/ timer'[r] = NULL /\ timer[r] = d /\ Top.at = "timer_destroy" /\ r = Top.s
      /\ \A r \in sess : evData[r] # d
  <2>1. CASE Top.at = "timer_destroy"
    <3>1. Top.s \in sess /\ timer[Top.s] = d /\ ctx[d] = Top.s /\ d \in isTimer
      BY <1>1, <2>1 DEF IInv, ClearInv, HoldInv, Detached
    <3>2. \A r \in sess : (timer[r] = d => r = Top.s) /\ evData[r] # d
      BY <1>1, <3>1 DEF IInv, SessInv
    <3>3. d \in Object /\ Top.s \in Session
      BY <1>1, <3>1 DEF Entry
    <3>4. /\ timer' = [timer EXCEPT ![Top.s] = NULL] /\ ctx' = [ctx EXCEPT ![d] = NULL]
          /\ isTimer' = isTimer \ {d}
      BY <2>1
    <3>5. \A r \in sess : timer'[r] = IF r = Top.s THEN NULL ELSE timer[r]
      BY <1>1, <3>4
    <3>6. \A x : x # d => ctx'[x] = ctx[x] /\ (x \in isTimer' <=> x \in isTimer)
      BY <1>1, <3>4
    <3> QED BY <2>1, <3>1, <3>2, <3>5, <3>6
  <2>2. CASE Top.at = "user"
    <3>1. ctx[d] = NULL
      BY <1>1, <2>2 DEF IInv, ClearInv
    <3>2. \A r \in sess : r # NULL /\ timer[r] # d /\ evData[r] # d
      BY <1>1, <3>1, TypeFacts DEF IInv, SessInv
    <3> QED BY <2>2, <3>2
  <2> QED BY <1>1, <2>1, <2>2
<1> HIDE DEF d
<1>5. ShapeInv'
  BY <1>2 DEF IInv, ShapeInv
<1>6. FreeInv'
  <2>1. ASSUME NEW i \in Pos', stack'[i].at \in {"free", "close"}
        PROVE  /\ stack'[i].at = "close"
               /\ IF i = n - 1 THEN timer'[stack'[i].s] = NULL
                  ELSE stack'[i + 1].at = "timer_destroy" /\ stack'[i + 1].s = stack'[i].s
    <3>1. /\ i \in Pos /\ i # n /\ stack'[i] = stack[i] /\ stack[i].at = "close"
          /\ stack[i + 1].at = "timer_destroy" /\ stack[i + 1].s = stack[i].s
      BY <1>2, <2>1 DEF IInv, FreeInv
    <3>2. CASE i = n - 1
      <4>1. i + 1 = n
        BY <1>1, <3>2
      <4>2. Top.at = "timer_destroy" /\ Top.s = stack[i].s /\ Top.s \in sess /\ timer[Top.s] = d
        BY <1>1, <3>1, <4>1 DEF IInv, HoldInv, Detached, ClearInv, d
      <4> QED BY <1>4, <3>1, <3>2, <4>2
    <3>3. CASE i # n - 1
      <4>1. i + 1 \in Pos /\ i + 1 # n
        BY <1>1, <3>1, <3>3 DEF Pos
      <4> QED BY <1>2, <3>1, <3>3, <4>1
    <3> QED BY <3>2, <3>3
  <2>2. \A i \in Pos' : stack'[i].at # "free"
    BY <2>1
  <2>3. \A i \in Pos' : stack'[i].at = "close" =>
           IF i = Len(stack') THEN timer'[stack'[i].s] = NULL
           ELSE stack'[i + 1].at = "timer_destroy" /\ stack'[i + 1].s = stack'[i].s
    BY <1>2, <2>1
  <2> QED BY <2>2, <2>3 DEF FreeInv
<1>7. HoldInv'
  BY <1>2 DEF IInv, HoldInv
<1>8. EndInv'
  <2>1. \A x \in live \ isTimer' : x \in live \ isTimer /\ ctx'[x] = ctx[x]
    BY <1>1, <1>4
  <2> QED BY <1>1, <1>2, <2>1 DEF IInv, EndInv
<1>9. ClearInv'
  <2>1. ASSUME NEW i \in Pos', stack'[i].d # NULL
        PROVE  /\ stack'[i].d \notin live'
               /\ stack'[i].at = "timer_destroy" =>
                     /\ ctx'[stack'[i].d] = stack'[i].s /\ timer'[stack'[i].s] = stack'[i].d
                     /\ stack'[i].d \in isTimer'
               /\ stack'[i].at \in Ends =>
                     ctx'[stack'[i].d] = stack'[i].s /\ stack'[i].d \notin isTimer'
               /\ stack'[i].at = "user" => ctx'[stack'[i].d] = NULL
    <3>1. i \in Pos /\ stack'[i] = stack[i] /\ stack[i].d # d
      BY <1>1, <1>2, <2>1 DEF IInv, ClearInv, d
    <3>2. stack[i].at = "timer_destroy" => timer'[stack[i].s] = timer[stack[i].s]
      BY <1>4, <2>1, <3>1 DEF IInv, HoldInv, ClearInv, Detached
    <3> QED BY <1>1, <1>4, <2>1, <3>1, <3>2 DEF IInv, ClearInv
  <2>2. \A i, j \in Pos' : stack'[i].d # NULL /\ stack'[i].d = stack'[j].d => i = j
    BY <1>2 DEF IInv, ClearInv
  <2> QED BY <2>1, <2>2 DEF ClearInv
<1>10. LiveInv'
  <2>1. \A x \in live : /\ x # d /\ ctx'[x] = ctx[x] /\ (x \in isTimer' <=> x \in isTimer)
                        /\ ctx[x] \in sess
                        /\ x \in isTimer => timer'[ctx[x]] = x
    BY <1>1, <1>4 DEF IInv, LiveInv
  <2>2. \A x \in live : /\ ctx'[x] \in sess
                        /\ IF x \in isTimer' THEN timer'[ctx'[x]] = x ELSE evData[ctx'[x]] \in {x, NULL}
    BY <2>1 DEF IInv, LiveInv
  <2>3. \A x, y \in live \ isTimer' : ctx'[x] = ctx'[y] => x = y
    BY <2>1 DEF IInv, LiveInv
  <2> QED BY <1>1, <2>2, <2>3 DEF LiveInv
<1>11. SessInv'
  <2>1. \A x : ~Unused(x) /\ x # d =>
           ~Unused(x)' /\ ctx'[x] = ctx[x] /\ (x \in isTimer' <=> x \in isTimer)
    BY <1>1, <1>3, <1>4 DEF Unused
  <2>2. ASSUME NEW r \in sess, timer'[r] # NULL
        PROVE  ~Unused(timer[r])' /\ ctx'[timer'[r]] = r /\ timer'[r] \in isTimer'
    <3>1. /\ timer'[r] = timer[r] /\ ~Unused(timer[r]) /\ ctx[timer[r]] = r
          /\ timer[r] \in isTimer /\ timer[r] # d
      BY <1>4, <2>2 DEF IInv, SessInv
    <3> QED BY <2>1, <3>1 DEF Unused, InClearing
  <2>3. ASSUME NEW r \in sess, evData[r] # NULL
        PROVE  ~Unused(evData[r])' /\ ctx'[evData[r]] = r /\ evData[r] \notin isTimer'
    <3>1. ~Unused(evData[r]) /\ ctx[evData[r]] = r /\ evData[r] \notin isTimer /\ evData[r] # d
      BY <1>4, <2>3 DEF IInv, SessInv
    <3> QED BY <2>1, <3>1 DEF Unused, InClearing
  <2>4. \A r \in sess : \/ \E i \in Pos' : stack'[i].at \in Ends /\ stack'[i].s = r
                        \/ \E x \in live \ isTimer' : ctx'[x] = r
    <3>1. \A x \in live \ isTimer : x \in live \ isTimer' /\ ctx'[x] = ctx[x]
      BY <1>1, <1>4
    <3>2. \A i \in Pos : stack[i].at \in Ends => i \in Pos' /\ stack'[i] = stack[i]
      BY <1>1, <1>2 DEF Ends
    <3> QED BY <3>1, <3>2 DEF IInv, SessInv
  <2>5. sock \subseteq sess
    BY DEF IInv, SessInv
  <2> QED BY <1>1, <2>2, <2>3, <2>4, <2>5 DEF SessInv
<1> QED BY <1>3, <1>5, <1>6, <1>7, <1>8, <1>9, <1>10, <1>11 DEF ObjectsInv

\* XAPI_FreeData frees the session, to which nothing leads any more.
LEMMA SessionFreed ==
    ASSUME IInv, FreeData
    PROVE  ObjectsInv' /\ clearing' \in Seq(Object) /\ stack' \in Seq(Entry)
<1> DEFINE n == Len(stack)
<1> DEFINE s == Top.s
<1> DEFINE d == Top.d
<1>1. stack # << >> /\ Top.at = "close"
  BY DEF FreeData, TopAt
<1>2. /\ stack \in Seq(Entry) /\ n \in Nat /\ n \in Pos /\ Top = stack[n] /\ Top \in Entry
      /\ sess \subseteq Session /\ NULL \notin live /\ live \subseteq Object
      /\ evData \in [Session -> Object \cup {NULL}] /\ timer \in [Session -> Object \cup {NULL}]
      /\ ctx \in [Object -> Session \cup {NULL}] /\ clearing \in Seq(Object)
      /\ NULL \notin sess /\ \A i \in Pos : i \in Nat /\ 1 <= i /\ i <= n
  BY <1>1, TypeFacts, BelowFacts DEF IInv, TypeOK, Top
<1>3. s \in sess /\ timer[s] = NULL
  BY <1>1, <1>2 DEF IInv, HoldInv, FreeInv, Detached
<1>4. d # NULL => d \notin live /\ ctx[d] = s /\ d \notin isTimer
  BY <1>1, <1>2 DEF IInv, ClearInv, Ends
<1>5. /\ sess' = sess \ {s} /\ sock' = sock \ {s} /\ isTimer' = isTimer /\ live' = live
      /\ \A r \in sess : r # s => evData'[r] = evData[r] /\ timer'[r] = timer[r]
      /\ \A x \in Object : x # d => ctx'[x] = ctx[x]
      /\ d # NULL => ctx'[d] = NULL
  <2>1. /\ sess' = sess \ {s} /\ sock' = sock \ {s} /\ isTimer' = isTimer /\ live' = live
        /\ evData' = [evData EXCEPT ![s] = NULL] /\ timer' = [timer EXCEPT ![s] = NULL]
        /\ ctx' = IF d = NULL THEN ctx ELSE [ctx EXCEPT ![d] = NULL]
    BY DEF FreeData, CloseSocket, engine, Freed
  <2>2. d # NULL => d \in Object
    BY <1>2 DEF Entry
  <2> QED BY <1>2, <2>1, <2>2
<1>6. /\ stack' \in Seq(Entry) /\ clearing' \in Seq(Object) /\ LinkInv'
      /\ \A i \in Pos : i # n => i \in Pos' /\ stack'[i] = stack[i]
      /\ \A i \in Pos' : i \in Pos /\ (i = n => stack'[n] = At("user", NULL, d) /\ d # NULL)
      /\ Len(stack') \in {n - 1, n}
      /\ \A x : InClearing(x) /\ x # d => InClearing(x)'
  <2>1. /\ Below \in Seq(Entry) /\ Len(Below) = n - 1
        /\ \A i \in 1..Len(Below) : i \in Pos /\ i # n /\ Below[i] = stack[i]
        /\ \A i \in Pos : i # n => i \in 1..Len(Below)
    BY <1>1, <1>2, BelowFacts
  <2>2. ASSUME stack' = Below
        PROVE  /\ stack' \in Seq(Entry) /\ Len(stack') = n - 1
               /\ \A i \in Pos' : i \in Pos /\ i # n /\ stack'[i] = stack[i]
               /\ \A i \in Pos : i # n => i \in Pos' /\ stack'[i] = stack[i]
    BY <2>1, <2>2 DEF Pos
  <2>3. CASE d = NULL /\ stack' = Below /\ UNCHANGED engine
    <3>1. UNCHANGED clearing
      BY <2>3 DEF engine
    <3>2. \A i \in Pos : stack[i].d # NULL => i # n
      BY <1>2, <2>3
    <3>3. LinkInv' /\ \A x : InClearing(x)' <=> InClearing(x)
      BY <1>2, <2>2, <2>3, <3>1, <3>2, LinkKeep DEF IInv
    <3> QED BY <1>2, <2>2, <2>3, <3>1, <3>3
  <2>4. CASE d # NULL /\ stack' = Below /\ Freed
    <3>1. LinkInv' /\ clearing' \in Seq(Object) /\ \A x : InClearing(x)' <=> InClearing(x) /\ x # d
      BY <1>1, <2>4, LinkPop
    <3> QED BY <1>2, <2>2, <2>4, <3>1
  <2>5. CASE d # NULL /\ stack' = Append(Below, At("user", NULL, d)) /\ UNCHANGED engine
    <3>1. At("user", NULL, d) \in Entry /\ At("user", NULL, d).d = d
      BY <1>2 DEF At, Entry, Points, UserPoints
    <3>2. /\ stack' \in Seq(Entry) /\ Len(stack') = n /\ stack'[n] = At("user", NULL, d)
          /\ \A i \in 1..Len(Below) : stack'[i] = Below[i]
      BY <1>2, <2>1, <2>5, <3>1, PushFacts
    <3>3. Pos' = Pos /\ \A i \in Pos : i # n => stack'[i] = stack[i]
      BY <2>1, <3>2 DEF Pos
    <3>4. UNCHANGED clearing
      BY <2>5 DEF engine
    <3>5. \A i \in Pos : stack'[i].d = stack[i].d
      BY <1>2, <3>1, <3>2, <3>3
    <3>6. LinkInv' /\ \A x : InClearing(x)' <=> InClearing(x)
      BY <1>2, <3>3, <3>4, <3>5, LinkKeep DEF IInv
    <3> QED BY <1>2, <2>5, <3>2, <3>3, <3>4, <3>6
  <2> QED BY <2>3, <2>4, <2>5 DEF FreeData
<1>7. /\ At("user", NULL, d).at = "user" /\ At("user", NULL, d).s = NULL
      /\ At("user", NULL, d).d = d
  BY DEF At
<1> HIDE DEF s, d
<1>8. \A i \in Pos' : i \in Pos /\ \/ i # n /\ stack'[i] = stack[i]
                                   \/ /\ i = n /\ stack'[i].at = "user" /\ stack'[i].s = NULL
                                      /\ stack'[i].d = d /\ d # NULL
  BY <1>6, <1>7
<1>9. \A i \in Pos : i # n /\ stack[i].at \notin Detached => stack[i].s # s /\ stack[i].s \in sess
  <2> SUFFICES ASSUME NEW i \in Pos, i # n, stack[i].at \notin Detached, stack[i].s = s PROVE FALSE
    BY DEF IInv, HoldInv
  <2>1. CASE stack[i].at \in Holds
    <3>1. Top.at \in Holds /\ Top.s = stack[i].s
      BY <1>1 DEF Holds, s
    <3> QED BY <1>2, <2>1, <3>1 DEF IInv, HoldInv
  <2>2. CASE stack[i].at = "timer_destroy"
    <3>1. stack[i].d # NULL /\ timer[stack[i].s] = stack[i].d
      BY <2>2 DEF IInv, ShapeInv, ClearInv
    <3> QED BY <1>3, <3>1
  <2>3. stack[i].at \in Points /\ stack[i].at # "done"
    BY TypeFacts DEF Entry, IInv, ShapeInv
  <2> QED BY <2>1, <2>2, <2>3 DEF Points, UserPoints, Holds, Detached
<1>10. ShapeInv'
  BY <1>8 DEF IInv, ShapeInv
<1>11. FreeInv'
  <2>1. ASSUME NEW i \in Pos', stack'[i].at \in {"free", "close"}
        PROVE  /\ stack'[i].at = "close" /\ i # Len(stack')
               /\ stack'[i + 1].at = "timer_destroy" /\ stack'[i + 1].s = stack'[i].s
    <3>1. /\ i \in Pos /\ i # n /\ stack'[i] = stack[i] /\ stack[i].at = "close"
          /\ stack[i + 1].at = "timer_destroy" /\ stack[i + 1].s = stack[i].s
      BY <1>8, <2>1 DEF IInv, FreeInv
    <3>2. i + 1 # n
      BY <1>1, <1>2, <3>1
    <3>3. i + 1 \in Pos /\ i # Len(stack')
      BY <1>2, <1>6, <3>1, <3>2 DEF Pos
    <3> QED BY <1>6, <3>1, <3>2, <3>3
  <2>2. \A i \in Pos' : stack'[i].at # "free"
    BY <2>1
  <2>3. \A i \in Pos' : stack'[i].at = "close" =>
           IF i = Len(stack') THEN timer'[stack'[i].s] = NULL
           ELSE stack'[i + 1].at = "timer_destroy" /\ stack'[i + 1].s = stack'[i].s
    BY <2>1
  <2> QED BY <2>2, <2>3 DEF FreeInv
<1>12. HoldInv'
  <2>1. \A i \in Pos' : stack'[i].at \notin Detached => stack'[i].s \in sess'
    BY <1>5, <1>8, <1>9 DEF Detached
  <2>2. "user" \notin Holds
    BY DEF Holds
  <2> QED BY <1>8, <2>1, <2>2 DEF IInv, HoldInv
<1>13. EndInv'
  <2>1. ASSUME NEW i \in Pos', stack'[i].at \in Ends
        PROVE  /\ evData'[stack'[i].s] \in {stack'[i].d, NULL}
               /\ \A x \in live' \ isTimer' : ctx'[x] # stack'[i].s
    <3>1. i \in Pos /\ i # n /\ stack'[i] = stack[i]
      BY <1>8, <2>1 DEF Ends
    <3>2. evData'[stack[i].s] = evData[stack[i].s]
      BY <1>5, <1>9, <2>1, <3>1 DEF Ends, Detached
    <3> QED BY <1>2, <1>4, <1>5, <2>1, <3>1, <3>2 DEF IInv, EndInv
  <2>2. ASSUME NEW i \in Pos', stack'[i].at \in {"added", "accepted"}
        PROVE  evData'[stack'[i].s] \in live'
    <3>1. i \in Pos /\ i # n /\ stack'[i] = stack[i]
      BY <1>8, <2>2
    <3>2. evData'[stack[i].s] = evData[stack[i].s]
      BY <1>5, <1>9, <2>2, <3>1 DEF Detached
    <3> QED BY <1>5, <2>2, <3>1, <3>2 DEF IInv, EndInv
  <2> QED BY <2>1, <2>2 DEF EndInv
<1>14. ClearInv'
  <2>1. ASSUME NEW i \in Pos', stack'[i].d # NULL
        PROVE  /\ stack'[i].d \notin live'
               /\ stack'[i].at = "timer_destroy" =>
                     /\ ctx'[stack'[i].d] = stack'[i].s /\ timer'[stack'[i].s] = stack'[i].d
                     /\ stack'[i].d \in isTimer'
               /\ stack'[i].at \in Ends =>
                     ctx'[stack'[i].d] = stack'[i].s /\ stack'[i].d \notin isTimer'
               /\ stack'[i].at = "user" => ctx'[stack'[i].d] = NULL
    <3>1. CASE i = n
      BY <1>4, <1>5, <1>8, <3>1 DEF Ends
    <3>2. CASE i # n
      <4>1. i \in Pos /\ stack'[i] = stack[i] /\ stack[i].d # d /\ stack[i].d \in Object
        BY <1>2, <1>8, <2>1, <3>2, TypeFacts DEF IInv, ClearInv, d, Entry
      <4>2. stack[i].at = "timer_destroy" => timer'[stack[i].s] = timer[stack[i].s]
        BY <1>5, <1>9, <3>2, <4>1 DEF Detached
      <4> QED BY <1>5, <2>1, <4>1, <4>2 DEF IInv, ClearInv
    <3> QED BY <3>1, <3>2
  <2>2. ASSUME NEW i \in Pos', NEW j \in Pos', stack'[i].d # NULL, stack'[i].d = stack'[j].d
        PROVE  i = j
    <3>1. i \in Pos /\ j \in Pos /\ stack'[i].d = stack[i].d /\ stack'[j].d = stack[j].d
      BY <1>2, <1>8 DEF d
    <3> QED BY <2>2, <3>1 DEF IInv, ClearInv
  <2> QED BY <2>1, <2>2 DEF ClearInv
<1>15. \A x \in live : /\ ctx'[x] = ctx[x] /\ ctx[x] \in sess /\ ctx[x] # s /\ x # d
  <2> SUFFICES ASSUME NEW x \in live PROVE ctx'[x] = ctx[x] /\ ctx[x] \in sess /\ ctx[x] # s /\ x # d
    OBVIOUS
  <2>1. x # d /\ x \in Object /\ ctx'[x] = ctx[x] /\ ctx[x] \in sess
    BY <1>2, <1>4, <1>5 DEF IInv, LiveInv
  <2>2. ctx[x] # s
    <3>1. CASE x \in isTimer
      BY <1>2, <1>3, <3>1 DEF IInv, LiveInv
    <3>2. CASE x \notin isTimer
      BY <1>1, <1>2, <3>2 DEF IInv, EndInv, Ends, s
    <3> QED BY <3>1, <3>2
  <2> QED BY <2>1, <2>2
<1>16. LiveInv'
  BY <1>5, <1>15 DEF IInv, LiveInv
<1>17. SessInv'
  <2>1. \A x \in Object : ~Unused(x) /\ x # d => ~Unused(x)' /\ ctx'[x] = ctx[x]
    BY <1>5, <1>6 DEF Unused
  <2>2. ASSUME NEW r \in sess', timer'[r] # NULL
        PROVE  ~Unused(timer[r])' /\ ctx'[timer'[r]] = r /\ timer'[r] \in isTimer'
    <3>1. /\ timer'[r] = timer[r] /\ ~Unused(timer[r]) /\ ctx[timer[r]] = r /\ timer[r] \in Object
          /\ timer[r] \in isTimer /\ timer[r] # d
      BY <1>2, <1>4, <1>5, <2>2 DEF IInv, SessInv
    <3> QED BY <1>5, <2>1, <3>1 DEF Unused, InClearing
  <2>3. ASSUME NEW r \in sess', evData'[r] # NULL
        PROVE  ~Unused(evData[r])' /\ ctx'[evData'[r]] = r /\ evData'[r] \notin isTimer'
    <3>1. /\ evData'[r] = evData[r] /\ ~Unused(evData[r]) /\ ctx[evData[r]] = r
          /\ evData[r] \in Object /\ evData[r] \notin isTimer /\ evData[r] # d
      BY <1>2, <1>4, <1>5, <2>3 DEF IInv, SessInv
    <3> QED BY <1>5, <2>1, <3>1 DEF Unused, InClearing
  <2>4. \A r \in sess' : \/ \E i \in Pos' : stack'[i].at \in Ends /\ stack'[i].s = r
                         \/ \E x \in live' \ isTimer' : ctx'[x] = r
    <3>1. \A x \in live \ isTimer : x \in live' \ isTimer' /\ ctx'[x] = ctx[x]
      BY <1>5, <1>15
    <3>2. \A i \in Pos : stack[i].s # s => i \in Pos' /\ stack'[i] = stack[i]
      BY <1>2, <1>6 DEF s
    <3> QED BY <1>5, <3>1, <3>2 DEF IInv, SessInv
  <2>5. sock' \subseteq sess'
    BY <1>5 DEF IInv, SessInv
  <2> QED BY <2>2, <2>3, <2>4, <2>5 DEF SessInv
<1> QED BY <1>6, <1>10, <1>11, <1>12, <1>13, <1>14, <1>16, <1>17 DEF ObjectsInv

-----------------------------------------------------------------------------
(* The phase of the engine, the object it dispatches and the bucket it     *)
(* destroys.                                                               *)

\* Without a CLEAR callback on the stack the engine clears nothing.
LEMMA NoClearing ==
    ASSUME IInv, \A i \in Pos : stack[i].d = NULL
    PROVE  clearing = << >>
<1>1. clearing \in Seq(Object)
  BY DEF IInv, TypeOK
<1>2. \A k \in 1..Len(clearing) : FALSE
  BY <1>1, ElementOfSeq, XAPINullAssumption DEF IInv, LinkInv
<1> QED BY <1>1, <1>2, EmptySeq, LenProperties

\* A handler that is the innermost activation is the only one.
LEMMA HandlerTop ==
    ASSUME IInv, stack # << >>, Top.at \in Handlers
    PROVE  /\ Len(stack) = 1 /\ Pos = {1} /\ Below = << >> /\ Top = stack[1]
           /\ phase = "cb" /\ clearing = << >> /\ Top.d = NULL /\ Top \in Entry
<1>1. /\ Len(stack) \in Pos /\ Top \in Entry /\ Top = stack[Len(stack)]
      /\ Below \in Seq(Entry) /\ Len(Below) = Len(stack) - 1
  BY TypeFacts, BelowFacts DEF Top
<1>2. Len(stack) = 1 /\ phase = "cb"
  BY <1>1 DEF IInv, PlaceInv
<1>3. Pos = {1} /\ Top.d = NULL
  BY <1>1, <1>2 DEF Pos, IInv, ShapeInv, Handlers
<1>4. Below = << >>
  BY <1>1, <1>2, EmptySeq
<1>5. clearing = << >>
  BY <1>1, <1>2, <1>3, NoClearing
<1> QED BY <1>1, <1>2, <1>3, <1>4, <1>5

\* The application is called by the engine, or the engine is idle.
LEMMA ClientTurnFacts ==
    ASSUME IInv, stack # << >> \/ phase = "app", phase # "dead"
    PROVE  EL!ClientTurn
<1>1. CASE phase \in {"app", "cb"}
  BY <1>1 DEF EL!ClientTurn
<1>2. CASE phase \notin {"app", "cb"}
  <2>1. phase \in {"stop", "destroy"} /\ stack # << >>
    BY <1>2 DEF IInv, TypeOK, PlaceInv
  <2>2. 1 \in Pos /\ stack[1].d # NULL
    BY <2>1, TypeFacts, EmptySeq DEF IInv, PlaceInv, Pos
  <2>3. InClearing(stack[1].d)
    BY <2>2 DEF IInv, LinkInv
  <2>4. clearing # << >>
    BY <2>3, EmptySeq DEF InClearing
  <2> QED BY <2>4 DEF EL!ClientTurn
<1> QED BY <1>1, <1>2

\* An activation may replace another one, or be new, at position i.
Adding == {"added", "accepted", "refused"}
Same(f, e) == /\ f.d = e.d /\ (f.at \in Handlers <=> e.at \in Handlers)
              /\ f.at \in Adding => e.at \in Adding
Fits(i, f) == /\ f.at \in Handlers => i = 1 /\ phase = "cb"
              /\ f.at \in Adding => phase \notin {"destroy", "dead"}
              /\ phase = "dead" => f.d = NULL
              /\ i = 1 /\ phase = "cb" => f.at \in Handlers
              /\ i = 1 /\ phase \in {"stop", "destroy"} => f.d # NULL

\* PlaceInv while the engine stays in its phase.
LEMMA PlaceKeep ==
    ASSUME IInv, UNCHANGED phase, live' \subseteq live \/ phase # "dead",
           stack # << >> \/ phase # "loop", stack' \in Seq(Entry),
           \A i \in Pos' : (i \in Pos /\ Same(stack'[i], stack[i])) \/ Fits(i, stack'[i])
    PROVE  PlaceInv'
<1>1. stack' # << >> => 1 \in Pos'
  BY EmptySeq, LenProperties DEF Pos
<1>2. phase # "loop" \/ stack = << >>
  BY DEF IInv, PlaceInv
<1>3. phase # "loop"
  BY <1>2
<1>4. \A i \in Pos' : stack'[i].at \in Handlers => i = 1 /\ phase = "cb"
  BY DEF IInv, PlaceInv, Same, Fits
<1>5. phase = "cb" /\ stack' # << >> => stack'[1].at \in Handlers
  <2> SUFFICES ASSUME phase = "cb", stack' # << >> PROVE stack'[1].at \in Handlers
    OBVIOUS
  <2>1. CASE 1 \in Pos /\ Same(stack'[1], stack[1])
    <3>1. stack # << >>
      BY <2>1, EmptyFacts
    <3> QED BY <2>1, <3>1 DEF IInv, PlaceInv, Same
  <2>2. CASE Fits(1, stack'[1])
    BY <2>2 DEF Fits
  <2> QED BY <1>1, <2>1, <2>2
<1>6. phase \in {"stop", "destroy"} /\ stack' # << >> => stack'[1].d # NULL
  <2> SUFFICES ASSUME phase \in {"stop", "destroy"}, stack' # << >> PROVE stack'[1].d # NULL
    OBVIOUS
  <2>1. CASE 1 \in Pos /\ Same(stack'[1], stack[1])
    <3>1. stack # << >>
      BY <2>1, EmptyFacts
    <3> QED BY <2>1, <3>1 DEF IInv, PlaceInv, Same
  <2>2. CASE Fits(1, stack'[1])
    BY <2>2 DEF Fits
  <2> QED BY <1>1, <2>1, <2>2
<1>7. phase = "dead" => live' = {} /\ \A i \in Pos' : stack'[i].d = NULL
  BY DEF IInv, PlaceInv, Same, Fits
<1>8. \A i \in Pos' : stack'[i].at \in {"added", "accepted", "refused"} => phase \notin {"destroy", "dead"}
  BY DEF IInv, PlaceInv, Same, Fits, Adding
<1> QED BY <1>3, <1>4, <1>5, <1>6, <1>7, <1>8 DEF PlaceInv

\* WalkInv while the engine and its handler stay where they are.
LEMMA WalkKeep ==
    ASSUME IInv, UNCHANGED <<phase, cur, call>>, batch' \subseteq batch, batch' \subseteq live',
           phase = "cb" => stack' # << >>,
           phase = "cb" /\ gone' = FALSE => gone = FALSE /\ (cur \in live => cur \in live'),
           \A x \in live : ctx'[x] = ctx[x] /\ (x \in isTimer' <=> x \in isTimer),
           \A i \in Pos' : stack'[i].at \in Handlers =>
              /\ i \in Pos
              /\ \/ stack'[i] = stack[i] /\ (stack[i].at \in {"read", "status"} => gone' = FALSE)
                 \/ stack[i].at = "timeout" /\ stack'[i].at = "reloop"
    PROVE  WalkInv'
<1>1. phase \notin {"loop", "cb"} => batch' = {}
  BY DEF IInv, WalkInv
<1>2. phase = "cb" => cur # NULL /\ call # NoCall /\ (gone' = FALSE => cur \in live')
  BY DEF IInv, WalkInv
<1>3. ASSUME NEW i \in Pos'
      PROVE  /\ stack'[i].at \in {"read", "status"} =>
                    gone' = FALSE /\ cur \notin isTimer' /\ ctx'[cur] = stack'[i].s
             /\ stack'[i].at \in {"read", "status", "next"} => call \notin TimerCalls
             /\ stack'[i].at = "next" => call = "READ"
             /\ stack'[i].at \in {"timeout", "reloop"} => call = "TIMEOUT"
             /\ stack'[i].at = "timeout" /\ gone' = FALSE =>
                    cur \in isTimer' /\ ctx'[cur] = stack'[i].s
  <2>1. stack'[i].at \in Handlers =>
           /\ i \in Pos /\ phase = "cb"
           /\ \/ stack'[i] = stack[i]
              \/ stack[i].at = "timeout" /\ stack'[i].at = "reloop"
    BY DEF IInv, PlaceInv, Handlers
  <2>2. stack'[i].at \in {"read", "status"} =>
            gone' = FALSE /\ cur \notin isTimer' /\ ctx'[cur] = stack'[i].s
    <3> SUFFICES ASSUME stack'[i].at \in {"read", "status"}
                 PROVE  gone' = FALSE /\ cur \notin isTimer' /\ ctx'[cur] = stack'[i].s
      OBVIOUS
    <3>1. /\ stack'[i] = stack[i] /\ phase = "cb" /\ gone' = FALSE
          /\ cur \notin isTimer /\ ctx[cur] = stack[i].s
      BY <2>1 DEF Handlers, IInv, WalkInv
    <3>2. cur \in live
      BY <3>1 DEF IInv, WalkInv
    <3> QED BY <3>1, <3>2
  <2>3. /\ stack'[i].at \in {"read", "status", "next"} => call \notin TimerCalls
        /\ stack'[i].at = "next" => call = "READ"
        /\ stack'[i].at \in {"timeout", "reloop"} => call = "TIMEOUT"
    BY <2>1 DEF Handlers, IInv, WalkInv
  <2>4. stack'[i].at = "timeout" /\ gone' = FALSE => cur \in isTimer' /\ ctx'[cur] = stack'[i].s
    <3> SUFFICES ASSUME stack'[i].at = "timeout", gone' = FALSE
                 PROVE  cur \in isTimer' /\ ctx'[cur] = stack'[i].s
      OBVIOUS
    <3>1. stack'[i] = stack[i] /\ phase = "cb" /\ gone = FALSE /\ i \in Pos
      BY <2>1 DEF Handlers
    <3>2. cur \in live /\ cur \in isTimer /\ ctx[cur] = stack[i].s
      BY <3>1 DEF IInv, WalkInv
    <3> QED BY <3>1, <3>2
  <2> QED BY <2>2, <2>3, <2>4
<1> QED BY <1>1, <1>2, <1>3 DEF WalkInv

\* DoomInv while no object of the bucket is touched.
LEMMA DoomKeep ==
    ASSUME IInv, UNCHANGED <<phase, doomed>>, doomed \subseteq live',
           \A p \in newer : p[1] \in doomed /\ p[2] \in doomed => p \in newer',
           \A x \in live : ctx'[x] = ctx[x] /\ (x \in isTimer' <=> x \in isTimer),
           \A i \in Pos' : stack'[i].s # NULL =>
              \/ timer'[stack'[i].s] \notin doomed
              \/ /\ timer'[stack'[i].s] = timer[stack'[i].s]
                 /\ \E j \in Pos : stack[j].s = stack'[i].s
    PROVE  DoomInv'
<1>1. \A i \in Pos' : stack'[i].s # NULL => timer'[stack'[i].s] \notin doomed
  BY DEF IInv, DoomInv
<1>2. \A x \in doomed \ isTimer', y \in doomed \cap isTimer' : ctx'[x] = ctx'[y] => <<y, x>> \in newer'
  <2> SUFFICES ASSUME NEW x \in doomed \ isTimer', NEW y \in doomed \cap isTimer', ctx'[x] = ctx'[y]
               PROVE  <<y, x>> \in newer'
    OBVIOUS
  <2>1. x \in live /\ y \in live
    BY DEF IInv, DoomInv
  <2>2. <<y, x>> \in newer
    BY <2>1 DEF IInv, DoomInv
  <2> QED BY <2>2
<1> QED BY <1>1, <1>2 DEF IInv, DoomInv

\* A step of the client is one that the engine allows, or none of the engine's.
EngineStep == EL!Next \/ UNCHANGED EL!vars

\* The client deletes a registered object, outside the bucket that is destroyed:
\* its CLEAR callback begins on top of activations that stay where they are.
LEMMA Deletes ==
    ASSUME IInv, NEW d \in live, d \notin doomed, timer[ctx[d]] \notin doomed,
           Removed(d), UNCHANGED <<session, object, phase, cur, call, doomed>>,
           NEW st \in Seq(Entry), stack' = Append(st, ClearEvent(d)),
           phase = "cb" => st # << >>, stack # << >> \/ phase = "app",
           \A i \in 1..Len(st) :
              /\ i \in Pos /\ Same(st[i], stack[i]) /\ st[i].s \in {stack[i].s, NULL}
              /\ st[i].at \in Handlers =>
                    \/ st[i] = stack[i] /\ (stack[i].at \in {"read", "status"} => d # cur)
                    \/ stack[i].at = "timeout" /\ st[i].at = "reloop"
    PROVE  TypeOK' /\ PlaceInv' /\ WalkInv' /\ DoomInv' /\ EngineStep
<1> DEFINE n == Len(st)
<1> DEFINE e == ClearEvent(d)
<1>1. /\ e \in Entry /\ ctx[d] \in sess /\ ctx[d] # NULL /\ e.s = ctx[d] /\ e.d = d
      /\ d \in Object /\ d # NULL /\ e.at \in {"timer_destroy", "closed", "free"}
  BY ClearEventFacts, TypeFacts
<1>2. /\ n \in Nat /\ stack' \in Seq(Entry) /\ stack' # << >>
      /\ n + 1 \in Pos' /\ stack'[n + 1] = e
      /\ \A i \in 1..n : i \in Pos' /\ stack'[i] = st[i]
      /\ \A i \in Pos' : i \in 1..n \/ i = n + 1
  <2>1. /\ Len(stack') = n + 1 /\ n \in Nat /\ stack'[n + 1] = e
        /\ stack' \in Seq(Entry) /\ stack' # << >>
        /\ \A i \in 1..n : i \in 1..Len(stack') /\ stack'[i] = st[i]
        /\ \A i \in 1..Len(stack') : i \in 1..n \/ i = n + 1
    BY <1>1, PushFacts
  <2> QED BY <2>1 DEF Pos
<1> HIDE DEF e
<1>3. /\ UNCHANGED <<sess, role, evData, timer, sock, ctx, isTimer>>
      /\ live' = live \ {d} /\ newer' = {p \in newer : p[1] # d /\ p[2] # d}
      /\ clearing' = Append(clearing, d) /\ batch' = batch \ {d} /\ gone' = (gone \/ d = cur)
  BY DEF session, object, Removed
<1>4. TypeOK'
  <2>1. clearing' \in Seq(Object)
    BY <1>1, <1>3, AppendProperties DEF IInv, TypeOK
  <2>2. gone' \in BOOLEAN
    BY <1>3, Zenon
  <2>3. stack' \in Seq([at : Points, s : Session \cup {NULL}, d : Object \cup {NULL}])
    BY <1>2 DEF Entry
  <2> QED BY <1>3, <2>1, <2>2, <2>3 DEF IInv, TypeOK
<1>5. phase # "dead"
  BY DEF IInv, PlaceInv
<1>6. stack # << >> \/ phase # "loop"
  OBVIOUS
<1>7. PlaceInv'
  <2>1. n # 0 \/ phase # "cb"
    BY EmptySeq
  <2>2. Fits(n + 1, e)
    BY <1>1, <1>2, <1>5, <2>1 DEF Fits, Handlers, Adding
  <2>3. \A i \in Pos' : (i \in Pos /\ Same(stack'[i], stack[i])) \/ Fits(i, stack'[i])
    BY <1>2, <2>2
  <2> QED BY <1>2, <1>3, <1>5, <1>6, <2>3, PlaceKeep
<1>8. gone' = FALSE => gone = FALSE /\ d # cur
  <2>1. gone \in BOOLEAN
    BY DEF IInv, TypeOK
  <2> QED BY <1>3, <2>1, Zenon
<1>9. gone = FALSE /\ d # cur => gone' = FALSE
  BY <1>3, Zenon
<1>10. WalkInv'
  <2>1. batch' \subseteq batch /\ batch' \subseteq live'
    BY <1>3 DEF IInv, WalkInv
  <2>2. \A i \in Pos' : stack'[i].at \in Handlers =>
              /\ i \in Pos
              /\ \/ stack'[i] = stack[i] /\ (stack[i].at \in {"read", "status"} => gone' = FALSE)
                 \/ stack[i].at = "timeout" /\ stack'[i].at = "reloop"
    <3> SUFFICES ASSUME NEW i \in Pos', stack'[i].at \in Handlers
                 PROVE  /\ i \in Pos
                        /\ \/ stack'[i] = stack[i] /\ (stack[i].at \in {"read", "status"} => gone' = FALSE)
                           \/ stack[i].at = "timeout" /\ stack'[i].at = "reloop"
      OBVIOUS
    <3>1. i \in 1..n /\ stack'[i] = st[i] /\ i \in Pos
      BY <1>1, <1>2 DEF Handlers
    <3>2. stack[i].at \in {"read", "status"} => gone = FALSE
      BY <3>1 DEF IInv, WalkInv
    <3> QED BY <1>9, <3>1, <3>2
  <2>3. phase = "cb" /\ gone' = FALSE => gone = FALSE /\ (cur \in live => cur \in live')
    BY <1>3, <1>8
  <2> QED BY <1>2, <1>3, <2>1, <2>2, <2>3, WalkKeep
<1>11. DoomInv'
  <2>1. doomed \subseteq live'
    BY <1>3 DEF IInv, DoomInv
  <2>2. \A p \in newer : p[1] \in doomed /\ p[2] \in doomed => p \in newer'
    BY <1>3
  <2>3. \A i \in Pos' : stack'[i].s # NULL =>
              \/ timer'[stack'[i].s] \notin doomed
              \/ /\ timer'[stack'[i].s] = timer[stack'[i].s]
                 /\ \E j \in Pos : stack[j].s = stack'[i].s
    BY <1>1, <1>2, <1>3
  <2> QED BY <1>3, <2>1, <2>2, <2>3, DoomKeep
<1>12. EngineStep
  <2>1. EL!ClientTurn
    BY <1>5, ClientTurnFacts
  <2>2. EL!Delete(d)
    BY <1>3, <2>1, Zenon DEF EL!Delete, EL!CanDelete, EL!Remove, EL!Without
  <2> QED BY <1>1, <2>2 DEF EL!Next, EngineStep
<1> QED BY <1>4, <1>7, <1>10, <1>11, <1>12

-----------------------------------------------------------------------------
(* The steps that delete an object.                                        *)

\* What else works on the session of the innermost activation waits to write
\* to it after a refused registration.
LEMMA HeldAlone ==
    ASSUME IInv, stack # << >>, Top.at \in Holds,
           NEW i \in Pos, i # Len(stack), stack[i].s = Top.s
    PROVE  stack[i].at = "refused"
<1>1. Len(stack) \in Pos /\ Top = stack[Len(stack)] /\ Top.s # NULL
  BY TypeFacts, BelowFacts DEF Top, IInv, HoldInv, Holds, Detached
<1>2. stack[i].at \notin Holds
  BY <1>1 DEF IInv, HoldInv
<1>3. stack[i].at # "timer_destroy"
  <2> SUFFICES ASSUME stack[i].at = "timer_destroy" PROVE FALSE
    OBVIOUS
  <2>1. Len(stack) < i
    BY <1>1 DEF IInv, HoldInv
  <2> QED BY <2>1, TypeFacts
<1>4. stack[i].at \in Points /\ stack[i].at # "done" /\ stack[i].at \notin {"next", "reloop", "user"}
  BY <1>1, TypeFacts DEF Entry, IInv, ShapeInv
<1> QED BY <1>2, <1>3, <1>4 DEF Points, UserPoints, Holds

\* The event of a session that nothing is ending is registered.
LEMMA EventLive ==
    ASSUME IInv, NEW s \in sess, evData[s] # NULL,
           \A i \in Pos : stack[i].at \in Ends => stack[i].s # s
    PROVE  evData[s] \in live /\ evData[s] \notin isTimer /\ ctx[evData[s]] = s
<1>1. PICK x \in live \ isTimer : ctx[x] = s
  BY DEF IInv, SessInv
<1> QED BY <1>1 DEF IInv, LiveInv

\* The parts of the invariant.
LEMMA Parts ==
    ASSUME ObjectsInv', TypeOK', PlaceInv', WalkInv', DoomInv' PROVE IInv'
BY DEF IInv, ObjectsInv

\* XAPI_DeleteTimer reaches a timer that exists and is not being destroyed.
LEMMA DeleteTimerStep ==
    ASSUME IInv, NEW s \in Session, XAPI_DeleteTimer(s) PROVE IInv' /\ EngineStep
<1> DEFINE d == timer[s]
<1>1. /\ s \in sess /\ d \in live /\ Removed(d) /\ stack' = Append(stack, ClearEvent(d))
      /\ UNCHANGED <<session, object, phase, cur, call, doomed>>
      /\ AppTurn /\ (phase = "destroy" => Top.s = s)
  BY DEF XAPI_DeleteTimer
<1>2. d # NULL /\ ctx[d] = s /\ d \in isTimer
  BY <1>1, TypeFacts DEF IInv, SessInv
<1>3. phase # "dead" /\ stack \in Seq(Entry) /\ Len(stack) \in Nat
  BY <1>1, TypeFacts DEF IInv, PlaceInv
<1>4. /\ stack # << >> \/ phase = "app"
      /\ stack # << >> => Top.at \in UserPoints /\ Len(stack) \in Pos
  BY <1>1, <1>3, BelowFacts DEF AppTurn
<1>5. d \notin doomed
  <2>1. CASE phase = "destroy"
    <3>1. Top.s = s /\ s # NULL /\ Len(stack) \in Pos
      BY <1>1, <1>4, <2>1, TypeFacts
    <3> QED BY <3>1 DEF IInv, DoomInv, Top
  <2>2. CASE phase # "destroy"
    BY <2>2 DEF IInv, DoomInv
  <2> QED BY <2>1, <2>2
<1>6. \A i \in Pos : stack[i].at \in {"read", "status"} => d # cur
  BY <1>2 DEF IInv, WalkInv
<1> HIDE DEF d
<1>7. \A i \in 1..Len(stack) :
         /\ i \in Pos /\ Same(stack[i], stack[i]) /\ stack[i].s \in {stack[i].s, NULL}
         /\ stack[i].at \in Handlers =>
               \/ stack[i] = stack[i] /\ (stack[i].at \in {"read", "status"} => d # cur)
               \/ stack[i].at = "timeout" /\ stack[i].at = "reloop"
  BY <1>6 DEF Pos, Same
<1>8. timer[ctx[d]] \notin doomed
  BY <1>2, <1>5 DEF d
<1>9. phase = "cb" => stack # << >>
  BY <1>4
<1>10. TypeOK' /\ PlaceInv' /\ WalkInv' /\ DoomInv' /\ EngineStep
  BY <1>1, <1>3, <1>4, <1>5, <1>7, <1>8, <1>9, Deletes
<1>11. ObjectsInv'
  <2>1. \A i \in 1..Len(stack) : stack[i].at \in {"free", "close"} => i # Len(stack)
    BY <1>4, EmptyFacts DEF Top, UserPoints, Pos
  <2>2. live' = live \ {d} /\ clearing' = Append(clearing, d)
    BY <1>1 DEF Removed
  <2> QED BY <1>1, <1>2, <1>3, <2>1, <2>2, TimerRemoved DEF Pos
<1> QED BY <1>10, <1>11, Parts

\* XAPI_Disconnect reaches the event of a session that nothing is ending.
LEMMA DisconnectStep ==
    ASSUME IInv, NEW s \in Session, XAPI_Disconnect(s) PROVE IInv' /\ EngineStep
<1> DEFINE d == evData[s]
<1>1. /\ s \in sess /\ d # NULL /\ Removed(d) /\ stack' = Append(stack, ClearEvent(d))
      /\ UNCHANGED <<session, object, phase, cur, call, doomed>>
      /\ AppTurn /\ phase # "destroy"
  BY DEF XAPI_Disconnect
<1>2. \A i \in Pos : stack[i].s = s => stack[i].at = "refused"
  BY DEF XAPI_Disconnect, Busy, Pos
<1>3. d \in live /\ d \notin isTimer /\ ctx[d] = s
  BY <1>1, <1>2, EventLive DEF Ends
<1>4. phase # "dead" /\ stack \in Seq(Entry) /\ Len(stack) \in Nat /\ doomed = {}
  BY <1>1, <1>3, TypeFacts DEF IInv, PlaceInv, DoomInv
<1>5. /\ stack # << >> \/ phase = "app"
      /\ stack # << >> => Top.at \in UserPoints /\ Len(stack) \in Pos
  BY <1>1, <1>4, BelowFacts DEF AppTurn
<1>6. \A i \in Pos : stack[i].at \in {"read", "status"} => d # cur
  BY <1>2, <1>3 DEF IInv, WalkInv
<1> HIDE DEF d
<1>7. \A i \in 1..Len(stack) :
         /\ i \in Pos /\ Same(stack[i], stack[i]) /\ stack[i].s \in {stack[i].s, NULL}
         /\ stack[i].at \in Handlers =>
               \/ stack[i] = stack[i] /\ (stack[i].at \in {"read", "status"} => d # cur)
               \/ stack[i].at = "timeout" /\ stack[i].at = "reloop"
  BY <1>6 DEF Pos, Same
<1>8. d \notin doomed /\ timer[ctx[d]] \notin doomed /\ (phase = "cb" => stack # << >>)
  BY <1>4, <1>5
<1>9. TypeOK' /\ PlaceInv' /\ WalkInv' /\ DoomInv' /\ EngineStep
  BY <1>1, <1>3, <1>4, <1>5, <1>7, <1>8, Deletes
<1>10. ObjectsInv'
  <2>1. \A i \in 1..Len(stack) : stack[i].at \in {"free", "close"} => i # Len(stack)
    BY <1>5, EmptyFacts DEF Top, UserPoints, Pos
  <2>2. live' = live \ {d} /\ clearing' = Append(clearing, d)
    BY <1>1 DEF Removed
  <2> QED BY <1>1, <1>2, <1>3, <1>4, <2>1, <2>2, EventRemoved DEF Pos
<1> QED BY <1>9, <1>10, Parts

\* The two ways in which a registration is refused.
LEMMA RefuseStep ==
    ASSUME IInv, stack # << >>, Top.at \in {"added", "accepted"}, NEW st \in Seq(Entry),
           \/ st = Goto("refused") /\ Top.at = "added"
           \/ st = Below /\ Top.at = "accepted",
           Removed(evData[Top.s]), stack' = Append(st, ClearEvent(evData[Top.s])),
           UNCHANGED <<session, object, phase, cur, call, doomed>>
    PROVE  IInv' /\ EngineStep
<1> DEFINE n == Len(stack)
<1> DEFINE s == Top.s
<1> DEFINE d == evData[s]
<1>1. /\ stack \in Seq(Entry) /\ n \in Nat /\ n \in Pos /\ Top = stack[n] /\ Top \in Entry
      /\ NULL \notin live /\ s \in sess /\ Top.d = NULL
  BY TypeFacts, BelowFacts DEF Top, IInv, HoldInv, ShapeInv, Detached
<1>2. d \in live /\ d \notin isTimer /\ ctx[d] = s
  BY <1>1 DEF IInv, EndInv, SessInv
<1>3. doomed = {}
  BY <1>1 DEF IInv, PlaceInv, DoomInv
<1>4. Top.at \in Holds /\ \A i \in Pos : i # n /\ stack[i].s = s => stack[i].at = "refused"
  BY <1>1, HeldAlone DEF Holds
<1>5. \A i \in Pos : stack[i].at \in {"read", "status"} => d # cur
  BY <1>1, <1>2, <1>4 DEF IInv, WalkInv
<1>6. \A i \in 1..Len(st) :
         /\ i \in Pos
         /\ \/ i # n /\ st[i] = stack[i]
            \/ i = n /\ Len(st) = n /\ st[i].at = "refused" /\ st[i].s = s /\ st[i].d = NULL
  <2>1. CASE st = Goto("refused")
    <3>1. "refused" \in Points
      BY DEF Points
    <3>2. /\ Len(st) = n /\ \A i \in Pos : i # n => st[i] = stack[i]
          /\ st[n] = [at |-> "refused", s |-> Top.s, d |-> Top.d]
      BY <1>1, <2>1, <3>1, GotoFacts
    <3>3. st[n].at = "refused" /\ st[n].s = s /\ st[n].d = NULL
      BY <1>1, <3>2
    <3> QED BY <3>2, <3>3 DEF Pos
  <2>2. CASE st = Below
    BY <1>1, <2>2, BelowFacts
  <2> QED BY <2>1, <2>2
<1>7. \A i \in Pos : i \in 1..Len(st) \/ (i = n /\ Top.at = "accepted")
  <2>1. CASE st = Goto("refused")
    <3>1. "refused" \in Points
      BY DEF Points
    <3> QED BY <1>1, <2>1, <3>1, GotoFacts DEF Pos
  <2>2. CASE st = Below /\ Top.at = "accepted"
    BY <1>1, <2>2, BelowFacts
  <2> QED BY <2>1, <2>2
<1>8. phase = "cb" => st # << >>
  <2> SUFFICES ASSUME phase = "cb" PROVE st # << >>
    OBVIOUS
  <2>1. stack[1].at \in Handlers
    BY DEF IInv, PlaceInv
  <2>2. n # 1
    BY <1>1, <2>1 DEF Handlers
  <2>3. 1 \in Pos
    BY <1>1 DEF Pos
  <2>4. 1 \in 1..Len(st)
    BY <1>7, <2>2, <2>3
  <2> QED BY <2>4, EmptySeq
<1> HIDE DEF d
<1>9. \A i \in 1..Len(st) :
         /\ i \in Pos /\ Same(st[i], stack[i]) /\ st[i].s \in {stack[i].s, NULL}
         /\ st[i].at \in Handlers =>
               \/ st[i] = stack[i] /\ (stack[i].at \in {"read", "status"} => d # cur)
               \/ stack[i].at = "timeout" /\ st[i].at = "reloop"
  BY <1>1, <1>5, <1>6 DEF Same, Handlers, Adding
<1>10. /\ d \notin doomed /\ timer[ctx[d]] \notin doomed
       /\ Removed(d) /\ stack' = Append(st, ClearEvent(d))
  BY <1>3 DEF d
<1>11. TypeOK' /\ PlaceInv' /\ WalkInv' /\ DoomInv' /\ EngineStep
  BY <1>2, <1>8, <1>9, <1>10, Deletes
<1>12. ObjectsInv'
  <2>1. \A i \in 1..Len(st) : st[i].at \in {"free", "close"} => i # Len(st)
    <3> SUFFICES ASSUME NEW i \in 1..Len(st), st[i].at \in {"free", "close"}, i = Len(st) PROVE FALSE
      OBVIOUS
    <3>1. i \in Pos /\ i # n /\ stack[i].at \in {"free", "close"}
      BY <1>6
    <3>2. stack[i].at = "close" /\ stack[i + 1].at = "timer_destroy"
      BY <3>1 DEF IInv, FreeInv
    <3>3. i + 1 \in Pos
      BY <1>1, <3>1 DEF Pos
    <3>4. i + 1 = n
      BY <1>1, <1>7, <3>3 DEF Pos
    <3> QED BY <1>1, <3>2, <3>4
  <2>2. \A i \in 1..Len(st) :
              /\ i \in Pos /\ st[i].d = stack[i].d
              /\ \/ st[i] = stack[i]
                 \/ /\ stack[i].at \in {"added", "timeout"}
                    /\ \/ st[i].at = "refused" /\ st[i].s = ctx[d]
                       \/ st[i].at = "reloop" /\ st[i].s = NULL
              /\ st[i].s = ctx[d] => st[i].at = "refused"
    <3>1. \A i \in 1..Len(st) : i = n => Top.at = "added"
      <4>1. st = Below => n \notin 1..Len(st)
        BY <1>1, BelowFacts
      <4> QED BY <4>1
    <3> QED BY <1>1, <1>2, <1>4, <1>6, <3>1
  <2>3. \A i \in Pos : i \in 1..Len(st) \/ stack[i].at \in {"accepted"} \cup Handlers
    BY <1>1, <1>7
  <2>4. live' = live \ {d} /\ clearing' = Append(clearing, d)
    BY <1>10 DEF Removed
  <2> QED BY <1>2, <1>10, <2>1, <2>2, <2>3, <2>4, EventRemoved
<1> QED BY <1>11, <1>12, Parts

\* A step that leaves the engine alone, with a handler on the stack or none.
LEMMA EngineKept ==
    ASSUME IInv, UNCHANGED engine, stack' \in Seq(Entry),
           \A x \in live : ctx'[x] = ctx[x] /\ (x \in isTimer' <=> x \in isTimer),
           stack # << >> \/ phase # "loop", phase = "cb" => stack' # << >>,
           \A i \in Pos' : (i \in Pos /\ Same(stack'[i], stack[i])) \/ Fits(i, stack'[i]),
           \A i \in Pos' : stack'[i].at \in Handlers =>
              /\ i \in Pos
              /\ \/ stack'[i] = stack[i]
                 \/ stack[i].at = "timeout" /\ stack'[i].at = "reloop",
           \A i \in Pos' : stack'[i].s # NULL =>
              \/ timer'[stack'[i].s] \notin doomed
              \/ /\ timer'[stack'[i].s] = timer[stack'[i].s]
                 /\ \E j \in Pos : stack[j].s = stack'[i].s
    PROVE  PlaceInv' /\ WalkInv' /\ DoomInv' /\ EngineStep
<1>1. UNCHANGED <<live, newer, clearing, phase, batch, cur, call, gone, doomed>>
  BY DEF engine, walk
<1>2. PlaceInv'
  BY <1>1, PlaceKeep
<1>3. WalkInv'
  <2>1. batch' \subseteq batch /\ batch' \subseteq live'
    BY <1>1 DEF IInv, WalkInv
  <2>2. \A i \in Pos : stack[i].at \in {"read", "status"} => gone' = FALSE
    BY <1>1 DEF IInv, WalkInv
  <2> QED BY <1>1, <2>1, <2>2, WalkKeep
<1>4. DoomInv'
  <2>1. doomed \subseteq live' /\ \A p \in newer : p \in newer'
    BY <1>1 DEF IInv, DoomInv
  <2> QED BY <1>1, <2>1, DoomKeep
<1>5. EngineStep
  BY <1>1 DEF EngineStep, EL!vars
<1> QED BY <1>2, <1>3, <1>4, <1>5

\* A TIMEOUT callback disconnects its session, whose event, if any, is registered.
LEMMA DisconnectSessionStep ==
    ASSUME IInv, TopAt("timeout"), DisconnectSession(Top.s) PROVE IInv' /\ EngineStep
<1> DEFINE s == Top.s
<1> DEFINE d == evData[s]
<1> DEFINE r == At("reloop", NULL, NULL)
<1>1. /\ stack # << >> /\ Top.at = "timeout" /\ Len(stack) = 1 /\ Pos = {1} /\ Below = << >>
      /\ phase = "cb" /\ Top = stack[1] /\ Top.d = NULL
      /\ UNCHANGED <<session, object, phase, cur, call, doomed>>
  BY HandlerTop DEF TopAt, Handlers, DisconnectSession
<1>2. /\ s \in sess /\ NULL \notin live /\ doomed = {} /\ live \subseteq Object
      /\ UNCHANGED <<sess, role, evData, timer, sock, ctx, isTimer>>
  BY <1>1, TypeFacts DEF IInv, HoldInv, DoomInv, Detached, session, object
<1>3. r \in Entry /\ r.at = "reloop" /\ r.s = NULL /\ r.d = NULL
  BY DEF At, Entry, Points
<1>4. << r >> \in Seq(Entry) /\ Len(<< r >>) = 1 /\ << r >>[1] = r /\ << r >> # << >>
  BY <1>3
<1>5. CASE d # NULL
  <2>1. Removed(d) /\ stack' = Below \o << r, ClearEvent(d) >>
    BY <1>5 DEF DisconnectSession
  <2>2. d \in live /\ d \notin isTimer /\ ctx[d] = s
    BY <1>1, <1>2, <1>5, EventLive DEF Ends
  <2>3. ClearEvent(d) \in Entry
    BY <2>2, ClearEventFacts
  <2>4. stack' = Append(<< r >>, ClearEvent(d))
    BY <1>1, <1>3, <2>1, <2>3
  <2> HIDE DEF d, r
  <2>5. \A i \in 1..Len(<< r >>) :
           /\ i \in Pos /\ Same(<< r >>[i], stack[i]) /\ << r >>[i].s \in {stack[i].s, NULL}
           /\ << r >>[i].at \in Handlers =>
                 \/ << r >>[i] = stack[i] /\ (stack[i].at \in {"read", "status"} => d # cur)
                 \/ stack[i].at = "timeout" /\ << r >>[i].at = "reloop"
    <3>1. Same(r, stack[1])
      BY <1>1, <1>3 DEF Same, Handlers, Adding
    <3> QED BY <1>1, <1>3, <1>4, <3>1
  <2>6. TypeOK' /\ PlaceInv' /\ WalkInv' /\ DoomInv' /\ EngineStep
    BY <1>1, <1>2, <1>4, <2>1, <2>2, <2>4, <2>5, Deletes
  <2>7. ObjectsInv'
    <3>1. \A i \in 1..Len(<< r >>) :
                /\ i \in Pos /\ << r >>[i].d = stack[i].d
                /\ \/ << r >>[i] = stack[i]
                   \/ /\ stack[i].at \in {"added", "timeout"}
                      /\ \/ << r >>[i].at = "refused" /\ << r >>[i].s = ctx[d]
                         \/ << r >>[i].at = "reloop" /\ << r >>[i].s = NULL
                /\ << r >>[i].s = ctx[d] => << r >>[i].at = "refused"
                /\ << r >>[i].at \in {"free", "close"} => i # Len(<< r >>)
      BY <1>1, <1>2, <1>3, <1>4, <2>2, TypeFacts
    <3>2. \A i \in Pos : i \in 1..Len(<< r >>) \/ stack[i].at \in {"accepted"} \cup Handlers
      BY <1>1, <1>4
    <3>3. live' = live \ {d} /\ clearing' = Append(clearing, d)
      BY <2>1 DEF Removed
    <3> QED BY <1>1, <1>4, <2>2, <2>4, <3>1, <3>2, <3>3, EventRemoved
  <2> QED BY <2>6, <2>7, Parts
<1>6. CASE d = NULL
  <2>1. stack' = Append(Below, r) /\ UNCHANGED <<live, newer, clearing, batch, gone>>
    BY <1>6 DEF DisconnectSession
  <2>2. stack' = << r >>
    BY <1>1, <1>3, <2>1
  <2> HIDE DEF r
  <2>3. /\ stack' \in Seq(Entry) /\ Len(stack') = 1 /\ stack'[1] = r /\ stack' # << >>
        /\ Pos' = {1}
    BY <1>4, <2>2 DEF Pos
  <2>4. UNCHANGED engine
    BY <1>1, <2>1 DEF engine, walk
  <2>5. TypeOK'
    BY <1>1, <1>2, <2>1, <2>3 DEF IInv, TypeOK, Entry
  <2>6. Same(r, stack[1])
    BY <1>1, <1>3 DEF Same, Handlers, Adding
  <2>7. PlaceInv' /\ WalkInv' /\ DoomInv' /\ EngineStep
    BY <1>1, <1>2, <1>3, <2>3, <2>4, <2>6, EngineKept
  <2>8. ObjectsInv'
    BY <1>1, <1>2, <2>1, <2>3, TopGoesOn DEF r
  <2> QED BY <2>5, <2>7, <2>8, Parts
<1> QED BY <1>5, <1>6

\* XAPI_ClearData deletes a timer that exists, or goes on.
LEMMA FreeTimerStep ==
    ASSUME IInv, FreeTimer PROVE IInv' /\ EngineStep
<1> DEFINE n == Len(stack)
<1> DEFINE s == Top.s
<1> DEFINE d == timer[s]
<1> DEFINE st == Goto("close")
<1>1. /\ stack # << >> /\ Top.at = "free" /\ UNCHANGED <<session, object, phase, cur, call, doomed>>
  BY DEF FreeTimer, TopAt
<1>2. /\ stack \in Seq(Entry) /\ n \in Nat /\ n \in Pos /\ Top = stack[n] /\ Top \in Entry
      /\ s \in sess /\ NULL \notin sess /\ \A i \in Pos : i \in Nat /\ i <= n
      /\ UNCHANGED <<sess, role, evData, timer, sock, ctx, isTimer>>
  BY <1>1, TypeFacts, BelowFacts DEF Top, IInv, HoldInv, Detached, session, object
<1>3. /\ st \in Seq(Entry) /\ Len(st) = n /\ st # << >>
      /\ \A i \in Pos : i # n => st[i] = stack[i]
      /\ st[n] = [at |-> "close", s |-> s, d |-> Top.d]
  BY <1>1, <1>2, GotoFacts DEF Points
<1>4. st[n].at = "close" /\ st[n].s = s /\ st[n].d = Top.d
  BY <1>3
<1> HIDE DEF st
<1>5. \A i \in Pos : /\ Same(st[i], stack[i]) /\ st[i].s = stack[i].s
                     /\ st[i].at \in Handlers => st[i] = stack[i]
                     /\ st[i].at = stack[i].at \/ (stack[i].at = "free" /\ st[i].at = "close")
  BY <1>1, <1>2, <1>3, <1>4 DEF Same, Handlers, Adding
<1>6. d \notin doomed
  BY <1>2 DEF IInv, DoomInv
<1>7. phase # "loop"
  BY <1>1 DEF IInv, PlaceInv
<1>8. CASE d # NULL
  <2>1. Removed(d) /\ stack' = Append(st, ClearEvent(d))
    BY <1>8 DEF FreeTimer, st
  <2>2. ctx[d] = s /\ d \in isTimer /\ ~Unused(d)
    BY <1>2, <1>8 DEF IInv, SessInv
  <2>3. d \in live
    <3> SUFFICES ASSUME d \notin live PROVE FALSE
      OBVIOUS
    <3>1. PICK j \in Pos : stack[j].d = d
      BY <2>2, ClearingFacts DEF Unused
    <3>2. stack[j].at = "timer_destroy" /\ stack[j].s = s
      <4>1. stack[j].at \notin Ends /\ stack[j].at # "user"
        BY <1>2, <1>8, <2>2, <3>1 DEF IInv, ClearInv
      <4>2. stack[j].at \in {"closed", "timer_destroy", "user", "free", "close"}
        BY <1>8, <3>1 DEF IInv, ShapeInv
      <4> QED BY <1>8, <2>2, <3>1, <4>1, <4>2 DEF Ends, IInv, ClearInv
    <3>3. n < j
      BY <1>1, <1>2, <3>2 DEF IInv, HoldInv, Holds
    <3> QED BY <1>2, <3>3
  <2> HIDE DEF d
  <2>4. timer[ctx[d]] \notin doomed
    BY <1>6, <2>2 DEF d
  <2>5. \A i \in Pos : stack[i].at \in {"read", "status"} => d # cur
    BY <2>2 DEF IInv, WalkInv
  <2>6. \A i \in 1..Len(st) :
           /\ i \in Pos /\ Same(st[i], stack[i]) /\ st[i].s \in {stack[i].s, NULL}
           /\ st[i].at \in Handlers =>
                 \/ st[i] = stack[i] /\ (stack[i].at \in {"read", "status"} => d # cur)
                 \/ stack[i].at = "timeout" /\ st[i].at = "reloop"
    BY <1>3, <1>5, <2>5 DEF Pos
  <2>7. TypeOK' /\ PlaceInv' /\ WalkInv' /\ DoomInv' /\ EngineStep
    BY <1>1, <1>3, <1>6, <2>1, <2>3, <2>4, <2>6, Deletes
  <2>8. ObjectsInv'
    <3>1. \A i \in 1..Len(st) :
              /\ i \in Pos /\ st[i].d = stack[i].d /\ st[i].s = stack[i].s
              /\ st[i].at = stack[i].at \/ (stack[i].at = "free" /\ st[i].at = "close")
              /\ st[i].at \in {"free", "close"} =>
                    i # Len(st) \/ (st[i].at = "close" /\ st[i].s = ctx[d])
      BY <1>3, <1>4, <1>5, <2>2 DEF Pos, Same
    <3>2. \A i \in Pos : i \in 1..Len(st) \/ stack[i].at \in Handlers
      BY <1>3 DEF Pos
    <3>3. live' = live \ {d} /\ clearing' = Append(clearing, d)
      BY <2>1 DEF Removed
    <3> QED BY <1>1, <1>3, <2>1, <2>2, <2>3, <3>1, <3>2, <3>3, TimerRemoved
  <2> QED BY <2>7, <2>8, Parts
<1>9. CASE d = NULL
  <2>1. stack' = st /\ UNCHANGED <<live, newer, clearing, batch, gone>>
    BY <1>9 DEF FreeTimer, st
  <2>2. UNCHANGED engine
    BY <1>1, <2>1 DEF engine, walk
  <2>3. Pos' = Pos
    BY <1>3, <2>1 DEF Pos
  <2>4. TypeOK'
    BY <1>1, <1>2, <1>3, <2>1 DEF IInv, TypeOK, Entry
  <2>5. PlaceInv' /\ WalkInv' /\ DoomInv' /\ EngineStep
    BY <1>1, <1>2, <1>3, <1>5, <2>1, <2>2, <2>3, EngineKept
  <2>6. ObjectsInv'
    BY <1>1, <1>2, <1>3, <1>9, <2>1, TopGoesOn
  <2> QED BY <2>4, <2>5, <2>6, Parts
<1> QED BY <1>8, <1>9

-----------------------------------------------------------------------------
(* Activations that return to another one, or go on.                       *)

\* While the engine waits for a handler, only the handler stands at the bottom.
LEMMA PopStays ==
    ASSUME IInv, stack # << >>, Top.at \notin Handlers
    PROVE  phase = "cb" => Below # << >>
<1> SUFFICES ASSUME phase = "cb", Below = << >> PROVE FALSE
  OBVIOUS
<1>1. Len(stack) \in Nat /\ Len(Below) = Len(stack) - 1 /\ Len(Below) = 0
  BY TypeFacts, BelowFacts, EmptySeq
<1>2. Top = stack[1]
  BY <1>1 DEF Top
<1> QED BY <1>2 DEF IInv, PlaceInv

\* The callback of a registration that succeeded returns.
LEMMA AddedReturnStep ==
    ASSUME IInv, stack # << >>, Top.at \in {"added", "accepted"}, stack' = Below,
           UNCHANGED <<session, object, engine>>
    PROVE  IInv' /\ EngineStep
<1>1. /\ stack' \in Seq(Entry)
      /\ \A i \in Pos' : i \in Pos /\ stack'[i] = stack[i]
      /\ \A i \in Pos : i # Len(stack) => i \in Pos' /\ stack'[i] = stack[i]
      /\ Top = stack[Len(stack)]
  BY TypeFacts, BelowFacts DEF Pos, Top
<1>2. UNCHANGED <<sess, role, evData, timer, sock, ctx, isTimer, live, clearing>>
  BY DEF session, object, engine
<1>3. phase = "cb" => stack' # << >>
  BY PopStays DEF Handlers
<1>4. PlaceInv' /\ WalkInv' /\ DoomInv' /\ EngineStep
  BY <1>1, <1>2, <1>3, EngineKept DEF Same, IInv, PlaceInv
<1>5. ObjectsInv'
  BY <1>1, <1>2, QuietPreserves DEF IInv, SessInv
<1>6. TypeOK'
  BY <1>1, <1>2 DEF IInv, TypeOK, Entry, engine, walk
<1> QED BY <1>4, <1>5, <1>6, Parts

\* The write after a refused registration disturbs nothing.
LEMMA RefusedEndStep ==
    ASSUME IInv, RefusedEnd PROVE IInv' /\ EngineStep
<1>1. /\ stack # << >> /\ Top.at = "refused" /\ stack' = Below
      /\ evData' = [evData EXCEPT ![Top.s] = NULL]
      /\ UNCHANGED <<sess, role, timer, sock, object, engine>>
  BY DEF RefusedEnd, TopAt
<1>2. /\ stack' \in Seq(Entry) /\ Len(stack) \in Pos /\ Top = stack[Len(stack)] /\ Top \in Entry
      /\ \A i \in Pos' : i \in Pos /\ stack'[i] = stack[i]
      /\ \A i \in Pos : i # Len(stack) => i \in Pos' /\ stack'[i] = stack[i]
  BY <1>1, TypeFacts, BelowFacts DEF Pos, Top
<1>3. UNCHANGED <<ctx, isTimer, live, clearing>>
  BY <1>1 DEF object, engine
<1>4. phase = "cb" => stack' # << >>
  BY <1>1, PopStays DEF Handlers
<1>5. PlaceInv' /\ WalkInv' /\ DoomInv' /\ EngineStep
  BY <1>1, <1>2, <1>3, <1>4, EngineKept DEF Same, IInv, PlaceInv
<1>6. evData \in [Session -> Object \cup {NULL}]
  BY DEF IInv, TypeOK
<1>7. \A j \in Pos' : stack'[j].at \in {"added", "accepted"} => stack'[j].s # Top.s
  <2> SUFFICES ASSUME NEW j \in Pos', stack'[j].at \in {"added", "accepted"}, stack'[j].s = Top.s
               PROVE  FALSE
    OBVIOUS
  <2>1. Len(stack) < j /\ j \in Pos
    BY <1>1, <1>2 DEF IInv, HoldInv
  <2> QED BY <2>1, TypeFacts
<1>8. \A s \in Session : \/ evData'[s] = evData[s]
                         \/ /\ evData'[s] = NULL
                            /\ \A j \in Pos' : stack'[j].at \in {"added", "accepted"} =>
                                  stack'[j].s # s
  BY <1>1, <1>6, <1>7
<1>9. ObjectsInv'
  BY <1>1, <1>2, <1>3, <1>8, QuietPreserves DEF IInv, SessInv
<1>10. TypeOK'
  <2>1. evData' \in [Session -> Object \cup {NULL}]
    BY <1>1, <1>6
  <2> QED BY <1>1, <1>2, <1>3, <2>1 DEF IInv, TypeOK, Entry, engine, walk
<1> QED BY <1>5, <1>9, <1>10, Parts

\* A CLOSED or ERROR callback returns; the session is freed next.
LEMMA ClosedReturnStep ==
    ASSUME IInv, ClosedReturn PROVE IInv' /\ EngineStep
<1>1. /\ stack # << >> /\ Top.at \in {"closed", "error"} /\ stack' = Goto("free")
      /\ UNCHANGED <<session, object, engine>>
  BY DEF ClosedReturn, TopAt
<1>2. /\ stack \in Seq(Entry) /\ Len(stack) \in Pos /\ Top = stack[Len(stack)]
  BY <1>1, TypeFacts, BelowFacts DEF Top
<1>3. /\ stack' \in Seq(Entry) /\ Len(stack') = Len(stack) /\ stack' # << >>
      /\ \A i \in Pos : i # Len(stack) => stack'[i] = stack[i]
      /\ stack'[Len(stack)] = [at |-> "free", s |-> Top.s, d |-> Top.d]
  BY <1>1, <1>2, GotoFacts DEF Points
<1>4. UNCHANGED <<sess, role, evData, timer, sock, ctx, isTimer, live, clearing>>
  BY <1>1 DEF session, object, engine
<1>5. Pos' = Pos
  BY <1>3 DEF Pos
<1>6. \A i \in Pos : Same(stack'[i], stack[i]) /\ stack'[i].s = stack[i].s
                     /\ (stack'[i].at \in Handlers => stack'[i] = stack[i])
  BY <1>1, <1>2, <1>3 DEF Same, Handlers, Adding
<1>7. PlaceInv' /\ WalkInv' /\ DoomInv' /\ EngineStep
  BY <1>1, <1>3, <1>4, <1>5, <1>6, EngineKept DEF IInv, PlaceInv
<1>8. ObjectsInv'
  BY <1>1, <1>3, <1>4, TopGoesOn
<1>9. TypeOK'
  BY <1>1, <1>3, <1>4 DEF IInv, TypeOK, Entry, engine, walk
<1> QED BY <1>7, <1>8, <1>9, Parts

\* The innermost CLEAR callback returns to the engine, which frees the object.
LEMMA FreedStep ==
    ASSUME IInv, stack # << >>, Top.d # NULL, stack' = Below, Freed,
           \A x \in live : ctx'[x] = ctx[x] /\ (x \in isTimer' <=> x \in isTimer),
           \A r \in Session : timer'[r] \in {timer[r], NULL}
    PROVE  /\ PlaceInv' /\ WalkInv' /\ DoomInv' /\ EngineStep
           /\ clearing' \in Seq(Object) /\ stack' \in Seq(Entry)
<1>1. /\ stack' \in Seq(Entry) /\ Len(stack) \in Pos /\ Top = stack[Len(stack)]
      /\ \A i \in Pos' : i \in Pos /\ stack'[i] = stack[i] /\ stack[i] \in Entry
  BY TypeFacts, BelowFacts DEF Pos, Top
<1>2. UNCHANGED <<live, newer, phase, batch, cur, call, gone, doomed>>
  BY DEF Freed, walk
<1>3. Top.at \notin Handlers
  BY <1>1 DEF IInv, ShapeInv, Handlers
<1>4. phase = "cb" => stack' # << >>
  BY <1>3, PopStays
<1>5. PlaceInv'
  BY <1>1, <1>2, PlaceKeep DEF Same, IInv, PlaceInv
<1>6. WalkInv'
  <2>1. batch' \subseteq batch /\ batch' \subseteq live'
    BY <1>2 DEF IInv, WalkInv
  <2>2. \A i \in Pos : stack[i].at \in {"read", "status"} => gone' = FALSE
    BY <1>2 DEF IInv, WalkInv
  <2> QED BY <1>1, <1>2, <1>4, <2>1, <2>2, WalkKeep
<1>7. DoomInv'
  <2>1. doomed \subseteq live' /\ (\A p \in newer : p \in newer') /\ NULL \notin doomed
    BY <1>2, TypeFacts DEF IInv, DoomInv
  <2>2. \A i \in Pos' : stack'[i].s # NULL =>
              \/ timer'[stack'[i].s] \notin doomed
              \/ /\ timer'[stack'[i].s] = timer[stack'[i].s]
                 /\ \E j \in Pos : stack[j].s = stack'[i].s
    BY <1>1, <2>1 DEF Entry
  <2> QED BY <1>2, <2>1, <2>2, DoomKeep
<1>8. /\ clearing' \in Seq(Object)
      /\ clearing # << >> /\ clearing' = [i \in 1..(Len(clearing) - 1) |-> clearing[i]]
  BY LinkPop
<1>9. EngineStep
  BY <1>2, <1>8 DEF EL!ClearReturn, EL!Next, EngineStep
<1> QED BY <1>1, <1>5, <1>6, <1>7, <1>8, <1>9

\* The CLEAR callback of a timer, or the USER callback, returns.
LEMMA ClearReturnStep ==
    ASSUME IInv, TimerDestroyReturn \/ ClearEnd PROVE IInv' /\ EngineStep
<1>1. /\ stack # << >> /\ Top \in Entry /\ Len(stack) \in Pos /\ Top = stack[Len(stack)]
      /\ Top.at # "done"
  BY TypeFacts, BelowFacts DEF TimerDestroyReturn, ClearEnd, TopAt, Top, IInv, ShapeInv
<1>2. /\ timer \in [Session -> Object \cup {NULL}] /\ ctx \in [Object -> Session \cup {NULL}]
      /\ live \subseteq Object /\ isTimer \subseteq Object
  BY DEF IInv, TypeOK
<1>3. /\ stack' = Below /\ Freed /\ UNCHANGED <<sess, role, evData, sock>>
      /\ \/ /\ Top.at = "timer_destroy"
            /\ timer' = [timer EXCEPT ![Top.s] = NULL] /\ ctx' = [ctx EXCEPT ![Top.d] = NULL]
            /\ isTimer' = isTimer \ {Top.d}
         \/ Top.at = "user" /\ UNCHANGED <<timer, ctx, isTimer>>
  BY <1>1 DEF TimerDestroyReturn, ClearEnd, TopAt, session, object
<1>4. Top.d # NULL /\ Top.d \notin live
  BY <1>1, <1>3 DEF IInv, ShapeInv, ClearInv
<1>5. ObjectsInv'
  BY <1>1, <1>3, ClearReturns
<1>6. /\ timer' \in [Session -> Object \cup {NULL}] /\ ctx' \in [Object -> Session \cup {NULL}]
      /\ isTimer' \subseteq Object
      /\ \A x \in live : ctx'[x] = ctx[x] /\ (x \in isTimer' <=> x \in isTimer)
      /\ \A r \in Session : timer'[r] \in {timer[r], NULL}
  <2>1. CASE Top.at = "user"
    BY <1>2, <1>3, <2>1
  <2>2. CASE Top.at = "timer_destroy"
    <3>1. /\ timer' = [timer EXCEPT ![Top.s] = NULL] /\ ctx' = [ctx EXCEPT ![Top.d] = NULL]
          /\ isTimer' = isTimer \ {Top.d}
      BY <1>3, <2>2
    <3> QED BY <1>2, <1>4, <3>1
  <2> QED BY <1>3, <2>1, <2>2
<1>7. /\ PlaceInv' /\ WalkInv' /\ DoomInv' /\ EngineStep
      /\ clearing' \in Seq(Object) /\ stack' \in Seq(Entry)
  BY <1>1, <1>3, <1>4, <1>6, FreedStep
<1>8. TypeOK'
  BY <1>3, <1>6, <1>7 DEF IInv, TypeOK, Entry, Freed, walk
<1> QED BY <1>5, <1>7, <1>8, Parts

\* The session is freed, in a CLEAR callback or after an error.
LEMMA FreeDataStep ==
    ASSUME IInv, FreeData PROVE IInv' /\ EngineStep
<1> DEFINE n == Len(stack)
<1> DEFINE s == Top.s
<1> DEFINE d == Top.d
<1>1. stack # << >> /\ Top.at = "close"
  BY DEF FreeData, TopAt
<1>2. /\ stack \in Seq(Entry) /\ n \in Nat /\ n \in Pos /\ Top = stack[n] /\ Top \in Entry
      /\ live \subseteq Object /\ role \in [Session -> Roles]
      /\ evData \in [Session -> Object \cup {NULL}] /\ timer \in [Session -> Object \cup {NULL}]
      /\ ctx \in [Object -> Session \cup {NULL}] /\ s \in sess /\ s \in Session
  BY <1>1, TypeFacts, BelowFacts DEF IInv, TypeOK, Top, HoldInv, Detached
<1>3. ObjectsInv' /\ clearing' \in Seq(Object) /\ stack' \in Seq(Entry)
  BY SessionFreed
<1>4. d # NULL => d \in Object /\ d \notin live
  BY <1>1, <1>2 DEF IInv, ClearInv, Entry
<1>5. /\ sess' = sess \ {s} /\ sock' = sock \ {s} /\ isTimer' = isTimer
      /\ role' = [role EXCEPT ![s] = "INACTIVE"]
      /\ evData' = [evData EXCEPT ![s] = NULL] /\ timer' = [timer EXCEPT ![s] = NULL]
      /\ ctx' = IF d = NULL THEN ctx ELSE [ctx EXCEPT ![d] = NULL]
      /\ UNCHANGED <<live, newer, phase, batch, cur, call, gone, doomed>>
  BY DEF FreeData, CloseSocket, engine, Freed, walk
<1>6. /\ role' \in [Session -> Roles] /\ evData' \in [Session -> Object \cup {NULL}]
      /\ timer' \in [Session -> Object \cup {NULL}] /\ ctx' \in [Object -> Session \cup {NULL}]
      /\ \A x \in live : ctx'[x] = ctx[x] /\ (x \in isTimer' <=> x \in isTimer)
      /\ \A r \in Session : timer'[r] \in {timer[r], NULL}
  BY <1>2, <1>4, <1>5 DEF Roles
<1>7. TypeOK'
  BY <1>3, <1>5, <1>6 DEF IInv, TypeOK, Entry
<1>8. Top.at \notin Handlers
  BY <1>1 DEF Handlers
<1>9. PlaceInv' /\ WalkInv' /\ DoomInv' /\ EngineStep
  <2>1. CASE d # NULL /\ stack' = Below /\ Freed
    BY <1>1, <1>6, <2>1, FreedStep
  <2>2. NULL \notin doomed
    BY TypeFacts DEF IInv, DoomInv
  <2>3. \A i \in 1..Len(Below) : i \in Pos /\ i # n /\ Below[i] = stack[i] /\ stack[i] \in Entry
    BY <1>1, <1>2, BelowFacts, TypeFacts
  <2>4. CASE d = NULL /\ stack' = Below /\ UNCHANGED engine
    <3>1. phase = "cb" => stack' # << >>
      BY <1>1, <1>8, <2>4, PopStays
    <3>2. \A i \in Pos' : i \in Pos /\ stack'[i] = stack[i] /\ stack[i] \in Entry
      BY <2>3, <2>4 DEF Pos
    <3>3. \A i \in Pos' : stack'[i].s # NULL =>
              \/ timer'[stack'[i].s] \notin doomed
              \/ /\ timer'[stack'[i].s] = timer[stack'[i].s]
                 /\ \E j \in Pos : stack[j].s = stack'[i].s
      BY <1>6, <2>2, <3>2 DEF Entry
    <3> QED BY <1>1, <1>3, <1>6, <2>4, <3>1, <3>2, <3>3, EngineKept DEF Same, IInv, PlaceInv
  <2>5. CASE d # NULL /\ stack' = Append(Below, At("user", NULL, d)) /\ UNCHANGED engine
    <3>1. /\ At("user", NULL, d) \in Entry /\ At("user", NULL, d).d = d
          /\ At("user", NULL, d).s = NULL /\ At("user", NULL, d).at = "user"
      BY <1>2 DEF At, Entry, Points, UserPoints
    <3>2. /\ Below \in Seq(Entry) /\ Len(Below) = n - 1
      BY <1>1, <1>2, BelowFacts
    <3>3. /\ Len(stack') = n /\ stack'[n] = At("user", NULL, d) /\ stack' # << >>
          /\ \A i \in 1..Len(Below) : stack'[i] = Below[i]
          /\ \A i \in Pos' : i \in 1..Len(Below) \/ i = n
      BY <1>2, <2>5, <3>1, <3>2, PushFacts DEF Pos
    <3>4. Same(stack'[n], stack[n]) /\ stack'[n].at \notin Handlers
      BY <1>1, <1>2, <1>8, <3>1, <3>3 DEF Same, Handlers, Adding
    <3>5. \A i \in Pos' : /\ i \in Pos
                          /\ \/ i # n /\ stack'[i] = stack[i] /\ stack[i] \in Entry
                             \/ i = n
      BY <1>2, <2>3, <3>3
    <3>6. \A i \in Pos' : (i \in Pos /\ Same(stack'[i], stack[i])) \/ Fits(i, stack'[i])
      BY <3>4, <3>5 DEF Same
    <3>7. \A i \in Pos' : stack'[i].at \in Handlers => i \in Pos /\ stack'[i] = stack[i]
      BY <3>4, <3>5
    <3>8. \A i \in Pos' : stack'[i].s # NULL =>
              \/ timer'[stack'[i].s] \notin doomed
              \/ /\ timer'[stack'[i].s] = timer[stack'[i].s]
                 /\ \E j \in Pos : stack[j].s = stack'[i].s
      BY <1>6, <2>2, <3>1, <3>3, <3>5 DEF Entry
    <3> QED BY <1>1, <1>3, <1>6, <2>5, <3>3, <3>6, <3>7, <3>8, EngineKept
  <2> QED BY <2>1, <2>4, <2>5 DEF FreeData
<1> QED BY <1>3, <1>7, <1>9, Parts

-----------------------------------------------------------------------------
(* Sessions and objects that begin.                                        *)

\* A registration is one that the engine allows, and touches no other object.
LEMMA Registers ==
    ASSUME IInv, NEW s \in Session, NEW d \in Object, NEW t \in BOOLEAN, Unused(d), CanRegister,
           stack # << >> \/ phase \in {"app", "cb"},
           Registered(d, s, t), UNCHANGED <<clearing, walk, doomed>>
    PROVE  /\ EngineStep
           /\ UNCHANGED <<phase, batch, cur, call, gone>> /\ phase \notin {"destroy", "dead"}
           /\ live' \subseteq Object /\ newer' \subseteq Object \X Object
           /\ ctx' \in [Object -> Session \cup {NULL}] /\ isTimer' \subseteq Object
           /\ \A x \in live : x \in live' /\ ctx'[x] = ctx[x] /\ (x \in isTimer' <=> x \in isTimer)
           /\ \A p \in newer : p \in newer'
<1>1. /\ live \subseteq Object /\ newer \subseteq Object \X Object
      /\ ctx \in [Object -> Session \cup {NULL}] /\ isTimer \subseteq Object
  BY DEF IInv, TypeOK
<1>2. /\ d \notin live /\ ~InClearing(d) /\ phase \notin {"destroy", "dead"}
      /\ live' = live \cup {d} /\ newer' = newer \cup {<<d, e>> : e \in live}
      /\ ctx' = [ctx EXCEPT ![d] = s]
      /\ isTimer' = IF t THEN isTimer \cup {d} ELSE isTimer \ {d}
      /\ UNCHANGED <<phase, batch, cur, call, gone>>
  BY DEF Unused, CanRegister, Registered, walk
<1>3. EL!ClientTurn
  <2>1. CASE phase \in {"app", "cb"}
    BY <2>1 DEF EL!ClientTurn
  <2>2. CASE stack # << >>
    BY <1>2, <2>2, ClientTurnFacts
  <2> QED BY <2>1, <2>2
<1>4. EL!Register(d)
  <2>1. ~EL!InClearing(d)
    BY <1>2 DEF InClearing, EL!InClearing
  <2> QED BY <1>2, <1>3, <2>1 DEF EL!Register
<1>5. EngineStep
  BY <1>4 DEF EL!Next, EngineStep
<1>6. newer' \subseteq Object \X Object
  BY <1>1, <1>2
<1>7. \A x \in live : x \in live' /\ ctx'[x] = ctx[x] /\ (x \in isTimer' <=> x \in isTimer)
  BY <1>1, <1>2
<1>8. /\ live' \subseteq Object /\ ctx' \in [Object -> Session \cup {NULL}]
      /\ isTimer' \subseteq Object
  BY <1>1, <1>2
<1> QED BY <1>2, <1>5, <1>6, <1>7, <1>8

\* The application's turn: the engine is idle or a callback is running.
LEMMA AppTurnFacts ==
    ASSUME IInv, AppTurn
    PROVE  /\ stack \in Seq(Entry) /\ Len(stack) \in Nat
           /\ stack = << >> => phase \in {"app", "dead"}
           /\ stack # << >> => Top.at \in UserPoints /\ Len(stack) \in Pos
           /\ stack # << >> \/ phase \notin {"loop", "cb"}
           /\ \A i \in 1..Len(stack) : stack[i].at \in {"free", "close"} => i # Len(stack)
<1>1. /\ stack \in Seq(Entry) /\ Len(stack) \in Nat
      /\ stack # << >> => Len(stack) \in Pos
  BY TypeFacts, BelowFacts
<1>2. stack # << >> => Top.at \in UserPoints
  BY DEF AppTurn
<1>3. \A i \in 1..Len(stack) : stack[i].at \in {"free", "close"} => i # Len(stack)
  BY <1>2, EmptyFacts DEF Top, UserPoints, Pos
<1> QED BY <1>1, <1>2, <1>3 DEF AppTurn

\* XAPI_NewData keeps the types.
LEMMA NewDataTypes ==
    ASSUME IInv, NEW s \in Session, NEW r \in Roles, NewData(s, r),
           sock' \subseteq sock \cup {s}, NEW x \in Object \cup {NULL},
           evData' = [evData EXCEPT ![s] = x]
    PROVE  /\ sess' \subseteq Session /\ sock' \subseteq Session /\ role' \in [Session -> Roles]
           /\ evData' \in [Session -> Object \cup {NULL}]
           /\ timer' \in [Session -> Object \cup {NULL}]
           /\ timer'[s] = NULL /\ NULL \notin doomed
           /\ \A q \in Session : timer'[q] \in {timer[q], NULL}
<1>1. /\ sess' = sess \cup {s} /\ role' = [role EXCEPT ![s] = r]
      /\ timer' = [timer EXCEPT ![s] = NULL]
  BY DEF NewData
<1>2. /\ sess \subseteq Session /\ sock \subseteq Session /\ role \in [Session -> Roles]
      /\ evData \in [Session -> Object \cup {NULL}] /\ timer \in [Session -> Object \cup {NULL}]
      /\ NULL \notin doomed
  BY XAPINullAssumption DEF IInv, TypeOK
<1> QED BY <1>1, <1>2

\* An endpoint is created, or fails and is reported.
LEMMA AddEndpointStep ==
    ASSUME IInv, NEW s \in Session, NEW r \in Roles,
           AddEndpointFails(s, r) \/ \E d \in Object : XAPI_AddEndpoint(s, r, d)
    PROVE  IInv' /\ EngineStep
<1> DEFINE n == Len(stack)
<1>1. /\ AppTurn /\ NewData(s, r) /\ s \notin sess /\ sess' = sess \cup {s}
      /\ timer' = [timer EXCEPT ![s] = NULL] /\ sock' \subseteq sock \cup {s}
      /\ UNCHANGED clearing /\ UNCHANGED <<phase, batch, cur, call, gone, doomed>>
  BY DEF AddEndpointFails, XAPI_AddEndpoint, NewData, engine, walk
<1>2. /\ stack \in Seq(Entry) /\ n \in Nat
      /\ stack = << >> => phase \in {"app", "dead"}
      /\ stack # << >> \/ phase \notin {"loop", "cb"}
      /\ \A i \in 1..Len(stack) : stack[i].at \in {"free", "close"} => i # Len(stack)
  BY <1>1, AppTurnFacts
<1>3. \E q \in {"added", "error"} : stack' = Append(stack, At(q, s, NULL))
  BY DEF AddEndpointFails, XAPI_AddEndpoint
<1>4. PICK q \in {"added", "error"} : stack' = Append(stack, At(q, s, NULL))
  BY <1>3
<1> DEFINE e == At(q, s, NULL)
<1>5. e \in Entry /\ e.at = q /\ e.s = s /\ e.d = NULL
  BY DEF At, Entry, Points, UserPoints
<1> HIDE DEF e
<1>6. /\ stack' \in Seq(Entry) /\ stack' # << >> /\ stack'[n + 1] = e
      /\ \A i \in Pos' : (i \in Pos /\ stack'[i] = stack[i]) \/ i = n + 1
  BY <1>2, <1>4, <1>5, PushFacts DEF Pos, e
<1>7. n + 1 = 1 => stack = << >>
  BY <1>2, EmptySeq
<1>8. /\ \A i \in Pos : stack[i] \in Entry /\ timer \in [Session -> Object \cup {NULL}]
  BY TypeFacts DEF IInv, TypeOK
<1>9. CASE AddEndpointFails(s, r)
  <2>1. /\ evData' = [evData EXCEPT ![s] = NULL] /\ UNCHANGED <<object, engine>>
        /\ stack' = Append(stack, At("error", s, NULL))
    BY <1>9 DEF AddEndpointFails
  <2>2. e.at = "error"
    <3>1. At("error", s, NULL) \in Entry /\ At("error", s, NULL).at = "error"
      BY DEF At, Entry, Points, UserPoints
    <3>2. stack'[n + 1] = At("error", s, NULL)
      BY <1>2, <2>1, <3>1, PushFacts
    <3> QED BY <1>6, <3>1, <3>2
  <2>3. UNCHANGED <<ctx, isTimer, live, newer>>
    BY <2>1 DEF object, engine
  <2>4. /\ sess' \subseteq Session /\ sock' \subseteq Session /\ role' \in [Session -> Roles]
        /\ evData' \in [Session -> Object \cup {NULL}]
        /\ timer' \in [Session -> Object \cup {NULL}]
        /\ timer'[s] = NULL /\ NULL \notin doomed
        /\ \A q2 \in Session : timer'[q2] \in {timer[q2], NULL}
    BY <1>1, <2>1, NewDataTypes
  <2>5. TypeOK'
    BY <1>1, <1>6, <2>3, <2>4 DEF IInv, TypeOK, Entry
  <2>6. Fits(n + 1, e)
    BY <1>2, <1>5, <1>7, <2>2 DEF Fits, Handlers, Adding
  <2>7. \A i \in Pos' : stack'[i].at \in Handlers => i \in Pos /\ stack'[i] = stack[i]
    BY <1>6, <2>2 DEF Handlers
  <2>8. \A i \in Pos' : stack'[i].s # NULL =>
              \/ timer'[stack'[i].s] \notin doomed
              \/ /\ timer'[stack'[i].s] = timer[stack'[i].s]
                 /\ \E j \in Pos : stack[j].s = stack'[i].s
    BY <1>5, <1>6, <1>8, <2>4 DEF Entry
  <2>9. PlaceInv' /\ WalkInv' /\ DoomInv' /\ EngineStep
    BY <1>2, <1>6, <2>1, <2>3, <2>6, <2>7, <2>8, EngineKept DEF Same
  <2>10. ObjectsInv'
    BY <1>1, <1>2, <2>1, <2>3, NewSession DEF Pos
  <2> QED BY <2>5, <2>9, <2>10, Parts
<1>10. ASSUME NEW d \in Object, XAPI_AddEndpoint(s, r, d) PROVE IInv' /\ EngineStep
  <2>1. /\ CanRegister /\ Unused(d) /\ Registered(d, s, FALSE)
        /\ evData' = [evData EXCEPT ![s] = d] /\ UNCHANGED <<clearing, walk, doomed>>
        /\ stack' = Append(stack, At("added", s, NULL))
    BY <1>10 DEF XAPI_AddEndpoint
  <2>2. e.at = "added"
    <3>1. At("added", s, NULL) \in Entry /\ At("added", s, NULL).at = "added"
      BY DEF At, Entry, Points, UserPoints
    <3>2. stack'[n + 1] = At("added", s, NULL)
      BY <1>2, <2>1, <3>1, PushFacts
    <3> QED BY <1>6, <3>1, <3>2
  <2>3. /\ EngineStep /\ phase \notin {"destroy", "dead"}
        /\ live' \subseteq Object /\ newer' \subseteq Object \X Object
        /\ ctx' \in [Object -> Session \cup {NULL}] /\ isTimer' \subseteq Object
        /\ \A x \in live : x \in live' /\ ctx'[x] = ctx[x] /\ (x \in isTimer' <=> x \in isTimer)
        /\ \A pr \in newer : pr \in newer'
    <3>1. stack # << >> \/ phase \in {"app", "cb"}
      BY <1>2, <2>1 DEF CanRegister
    <3> QED BY <2>1, <3>1, Registers
  <2>4. /\ sess' \subseteq Session /\ sock' \subseteq Session /\ role' \in [Session -> Roles]
        /\ evData' \in [Session -> Object \cup {NULL}]
        /\ timer' \in [Session -> Object \cup {NULL}]
        /\ timer'[s] = NULL /\ NULL \notin doomed
        /\ \A q2 \in Session : timer'[q2] \in {timer[q2], NULL}
    BY <1>1, <2>1, NewDataTypes
  <2>5. TypeOK'
    BY <1>1, <1>6, <2>3, <2>4 DEF IInv, TypeOK, Entry
  <2>6. Fits(n + 1, e)
    BY <1>2, <1>5, <1>7, <2>2, <2>3 DEF Fits, Handlers, Adding
  <2>7. PlaceInv'
    BY <1>1, <1>2, <1>6, <2>3, <2>6, PlaceKeep DEF Same
  <2>8. WalkInv'
    <3>1. batch' \subseteq batch /\ batch' \subseteq live'
      BY <1>1, <2>3 DEF IInv, WalkInv
    <3>2. \A i \in Pos' : stack'[i].at \in Handlers => i \in Pos /\ stack'[i] = stack[i]
      BY <1>6, <2>2 DEF Handlers
    <3>3. \A i \in Pos : stack[i].at \in {"read", "status"} => gone' = FALSE
      BY <1>1 DEF IInv, WalkInv
    <3> QED BY <1>1, <1>6, <2>3, <3>1, <3>2, <3>3, WalkKeep
  <2>9. DoomInv'
    <3>1. doomed \subseteq live'
      BY <2>3 DEF IInv, DoomInv
    <3>2. \A i \in Pos' : stack'[i].s # NULL =>
              \/ timer'[stack'[i].s] \notin doomed
              \/ /\ timer'[stack'[i].s] = timer[stack'[i].s]
                 /\ \E j \in Pos : stack[j].s = stack'[i].s
      BY <1>5, <1>6, <1>8, <2>4 DEF Entry
    <3> QED BY <1>1, <2>3, <3>1, <3>2, DoomKeep
  <2>10. ObjectsInv'
    <3>1. live' = live \cup {d} /\ ctx' = [ctx EXCEPT ![d] = s] /\ isTimer' = isTimer \ {d}
      BY <2>1 DEF Registered
    <3> QED BY <1>1, <1>2, <2>1, <3>1, NewSession DEF Pos
  <2> QED BY <2>3, <2>5, <2>7, <2>8, <2>9, <2>10, Parts
<1> QED BY <1>9, <1>10

\* XAPI_AddTimer
LEMMA AddTimerStep ==
    ASSUME IInv, NEW s \in Session, NEW d \in Object, XAPI_AddTimer(s, d)
    PROVE  IInv' /\ EngineStep
<1>1. /\ AppTurn /\ CanRegister /\ Unused(d) /\ s \in sess /\ timer[s] = NULL
      /\ Registered(d, s, TRUE) /\ timer' = [timer EXCEPT ![s] = d]
      /\ UNCHANGED <<sess, role, evData, sock, stack, clearing, walk, doomed>>
  BY DEF XAPI_AddTimer
<1>2. /\ stack \in Seq(Entry)
      /\ stack = << >> => phase \in {"app", "dead"}
      /\ stack # << >> => Top.at \in UserPoints /\ Len(stack) \in Pos
      /\ stack # << >> \/ phase \notin {"loop", "cb"}
  BY <1>1, AppTurnFacts
<1>3. /\ EngineStep /\ phase \notin {"destroy", "dead"}
      /\ UNCHANGED <<phase, batch, cur, call, gone>>
      /\ live' \subseteq Object /\ newer' \subseteq Object \X Object
      /\ ctx' \in [Object -> Session \cup {NULL}] /\ isTimer' \subseteq Object
      /\ \A x \in live : x \in live' /\ ctx'[x] = ctx[x] /\ (x \in isTimer' <=> x \in isTimer)
      /\ \A pr \in newer : pr \in newer'
  <2>1. stack # << >> \/ phase \in {"app", "cb"}
    BY <1>1, <1>2 DEF CanRegister
  <2> QED BY <1>1, <2>1, Registers
<1>4. Pos' = Pos
  BY <1>1 DEF Pos
<1>5. timer \in [Session -> Object \cup {NULL}] /\ timer' \in [Session -> Object \cup {NULL}]
  BY <1>1 DEF IInv, TypeOK
<1>6. TypeOK'
  BY <1>1, <1>3, <1>5 DEF IInv, TypeOK
<1>7. PlaceInv'
  BY <1>1, <1>2, <1>3, <1>4, PlaceKeep DEF Same
<1>8. WalkInv'
  <2>1. batch' \subseteq batch /\ batch' \subseteq live'
    BY <1>3 DEF IInv, WalkInv
  <2>2. \A i \in Pos : stack[i].at \in {"read", "status"} => gone' = FALSE
    BY <1>3 DEF IInv, WalkInv
  <2> QED BY <1>1, <1>2, <1>3, <1>4, <2>1, <2>2, WalkKeep
<1>9. DoomInv'
  <2>1. doomed \subseteq live' /\ d \notin doomed
    BY <1>1, <1>3 DEF IInv, DoomInv, Unused
  <2>2. \A i \in Pos' : stack'[i].s # NULL =>
              \/ timer'[stack'[i].s] \notin doomed
              \/ /\ timer'[stack'[i].s] = timer[stack'[i].s]
                 /\ \E j \in Pos : stack[j].s = stack'[i].s
    BY <1>1, <1>4, <1>5, <2>1, TypeFacts DEF Entry
  <2> QED BY <1>1, <1>3, <2>1, <2>2, DoomKeep
<1>10. ObjectsInv'
  <2>1. live' = live \cup {d} /\ ctx' = [ctx EXCEPT ![d] = s] /\ isTimer' = isTimer \cup {d}
    BY <1>1 DEF Registered
  <2>2. stack # << >> => Top.at # "close"
    BY <1>2 DEF UserPoints
  <2> QED BY <1>1, <2>1, <2>2, TimerAdded
<1> QED BY <1>3, <1>6, <1>7, <1>8, <1>9, <1>10, Parts

\* XAPI_Accept: the handler waits below the new session.
LEMMA AcceptStep ==
    ASSUME IInv, NEW s \in Session, AcceptFails(s) \/ \E d \in Object : XAPI_Accept(s, d)
    PROVE  IInv' /\ EngineStep
<1> DEFINE w == At("next", NULL, NULL)
<1>1. /\ Accepting /\ NewData(s, "PEER") /\ s \notin sess /\ sess' = sess \cup {s}
      /\ timer' = [timer EXCEPT ![s] = NULL] /\ sock' \subseteq sock \cup {s}
      /\ UNCHANGED clearing /\ UNCHANGED <<phase, batch, cur, call, gone, doomed>>
      /\ \E q \in {"accepted", "error"} : stack' = << w, At(q, s, NULL) >>
  BY DEF AcceptFails, XAPI_Accept, NewData, engine, walk
<1>2. phase = "cb" /\ stack = << >> /\ call = "READ"
  BY <1>1 DEF Accepting, Handling
<1>3. PICK q \in {"accepted", "error"} : stack' = << w, At(q, s, NULL) >>
  BY <1>1
<1> DEFINE e == At(q, s, NULL)
<1>4. /\ e \in Entry /\ e.at = q /\ e.s = s /\ e.d = NULL
      /\ w \in Entry /\ w.at = "next" /\ w.s = NULL /\ w.d = NULL
  BY DEF At, Entry, Points, UserPoints
<1>5. /\ stack' = << w, e >> /\ << w >> \in Seq(Entry) /\ Len(<< w >>) = 1 /\ << w >>[1] = w
  BY <1>3, <1>4
<1>6. stack' = Append(<< w >>, e)
  BY <1>5
<1> HIDE DEF w, e
<1>7. /\ stack' \in Seq(Entry) /\ stack' # << >> /\ stack'[1] = w /\ stack'[2] = e
      /\ \A i \in Pos' : i = 1 \/ i = 2
      /\ Len(stack') = 2
  BY <1>4, <1>5 DEF Pos
<1>8. Pos = {} /\ doomed = {} /\ stack \in Seq(Entry)
  BY <1>2, TypeFacts DEF IInv, DoomInv
<1>9. Fits(1, w) /\ Fits(2, e)
  BY <1>2, <1>4 DEF Fits, Handlers, Adding
<1>10. "PEER" \in Roles
  BY DEF Roles
<1>11. ASSUME live \subseteq live' PROVE PlaceInv' /\ WalkInv' /\ DoomInv'
  <2>1. PlaceInv'
    BY <1>1, <1>2, <1>7, <1>9, PlaceKeep
  <2>2. WalkInv'
    <3>1. /\ batch \subseteq live' /\ cur # NULL /\ gone = FALSE /\ cur \in live'
      BY <1>2, <1>11 DEF IInv, WalkInv
    <3>2. \A i \in Pos' : stack'[i].at \in Handlers => stack'[i].at = "next"
      BY <1>4, <1>7 DEF Handlers
    <3> QED BY <1>1, <1>2, <1>7, <3>1, <3>2 DEF WalkInv, Handlers, TimerCalls, NoCall
  <2>3. DoomInv'
    BY <1>1, <1>8 DEF IInv, DoomInv
  <2> QED BY <2>1, <2>2, <2>3
<1>12. \A i \in 1..Len(<< w >>) : << w >>[i] = At("next", NULL, NULL) /\ stack = << >>
  BY <1>2, <1>5 DEF w
<1>13. \A i \in Pos : i \in 1..Len(<< w >>) /\ << w >>[i] = stack[i]
  BY <1>8
<1>14. CASE AcceptFails(s)
  <2>1. /\ evData' = [evData EXCEPT ![s] = NULL] /\ UNCHANGED <<object, engine>>
        /\ stack' = << w, At("error", s, NULL) >>
    BY <1>14 DEF AcceptFails, w
  <2>2. UNCHANGED <<ctx, isTimer, live, newer>>
    BY <2>1 DEF object, engine
  <2>3. /\ sess' \subseteq Session /\ sock' \subseteq Session /\ role' \in [Session -> Roles]
        /\ evData' \in [Session -> Object \cup {NULL}]
        /\ timer' \in [Session -> Object \cup {NULL}]
    BY <1>1, <1>10, <2>1, NewDataTypes
  <2>4. TypeOK'
    BY <1>1, <1>7, <2>2, <2>3 DEF IInv, TypeOK, Entry
  <2>5. stack' = Append(<< w >>, At("error", s, NULL))
    BY <2>1
  <2>6. ObjectsInv'
    BY <1>1, <1>5, <1>12, <1>13, <2>1, <2>2, <2>5, NewSession
  <2>7. EngineStep
    BY <2>1 DEF EngineStep, EL!vars, engine, walk
  <2> QED BY <1>11, <2>2, <2>4, <2>6, <2>7, Parts
<1>15. ASSUME NEW d \in Object, XAPI_Accept(s, d) PROVE IInv' /\ EngineStep
  <2>1. /\ Unused(d) /\ Registered(d, s, FALSE)
        /\ evData' = [evData EXCEPT ![s] = d] /\ UNCHANGED <<clearing, walk, doomed>>
        /\ stack' = << w, At("accepted", s, NULL) >>
    BY <1>15 DEF XAPI_Accept, w
  <2>2. /\ EngineStep
        /\ live' \subseteq Object /\ newer' \subseteq Object \X Object
        /\ ctx' \in [Object -> Session \cup {NULL}] /\ isTimer' \subseteq Object
        /\ \A x \in live : x \in live' /\ ctx'[x] = ctx[x] /\ (x \in isTimer' <=> x \in isTimer)
        /\ \A pr \in newer : pr \in newer'
    <3>1. CanRegister /\ phase \in {"app", "cb"}
      BY <1>2 DEF CanRegister
    <3> QED BY <2>1, <3>1, Registers
  <2>3. /\ sess' \subseteq Session /\ sock' \subseteq Session /\ role' \in [Session -> Roles]
        /\ evData' \in [Session -> Object \cup {NULL}]
        /\ timer' \in [Session -> Object \cup {NULL}]
    BY <1>1, <1>10, <2>1, NewDataTypes
  <2>4. TypeOK'
    BY <1>1, <1>7, <2>2, <2>3 DEF IInv, TypeOK, Entry
  <2>5. stack' = Append(<< w >>, At("accepted", s, NULL))
    BY <2>1
  <2>6. ObjectsInv'
    <3>1. live' = live \cup {d} /\ ctx' = [ctx EXCEPT ![d] = s] /\ isTimer' = isTimer \ {d}
      BY <2>1 DEF Registered
    <3> QED BY <1>1, <1>5, <1>12, <1>13, <2>1, <2>5, <3>1, NewSession
  <2> QED BY <1>11, <2>2, <2>4, <2>6, Parts
<1> QED BY <1>14, <1>15

-----------------------------------------------------------------------------
(* The handlers of XAPI_EventCallback and what they return.                *)

\* A handler calls the application with the session of the dispatched object.
LEMMA HandlerBegins ==
    ASSUME IInv, phase = "cb", stack = << >>, NEW p \in {"read", "status", "timeout"},
           stack' = << At(p, ctx[cur], NULL) >>,
           IF p = "timeout" THEN call = "TIMEOUT" ELSE call \notin TimerCalls,
           UNCHANGED <<sess, role, evData, timer, object, engine>>, sock' \subseteq sock
    PROVE  IInv' /\ EngineStep
<1> DEFINE e == At(p, ctx[cur], NULL)
<1>1. /\ UNCHANGED <<ctx, isTimer, live, newer, clearing, phase, batch, cur, call, gone, doomed>>
  BY DEF object, engine, walk
<1>2. /\ cur \in live /\ gone = FALSE /\ cur # NULL /\ call # NoCall
      /\ (call \in TimerCalls <=> cur \in isTimer) /\ doomed = {} /\ Pos = {}
  BY TypeFacts DEF IInv, WalkInv, DoomInv
<1>3. ctx[cur] \in sess /\ ctx[cur] \in Session
  BY <1>2, TypeFacts DEF IInv, LiveInv
<1>4. e \in Entry /\ e.at = p /\ e.s = ctx[cur] /\ e.d = NULL
  BY <1>3 DEF At, Entry, Points, UserPoints
<1>5. stack' = << e >>
  OBVIOUS
<1> HIDE DEF e
<1>6. /\ stack' \in Seq(Entry) /\ stack' # << >> /\ stack'[1] = e /\ Pos' = {1}
  BY <1>4, <1>5 DEF Pos
<1>7. sock' \subseteq sess /\ sock' \subseteq Session
  BY DEF IInv, SessInv, TypeOK
<1>8. TypeOK'
  BY <1>1, <1>6, <1>7 DEF IInv, TypeOK, Entry
<1>9. PlaceInv'
  <2>1. Fits(1, e)
    BY <1>4 DEF Fits, Handlers, Adding
  <2> QED BY <1>1, <1>6, <2>1, PlaceKeep
<1>10. WalkInv'
  <2>1. batch \subseteq live
    BY DEF IInv, WalkInv
  <2>2. p # "timeout" => cur \notin isTimer
    BY <1>2
  <2>3. p = "timeout" => cur \in isTimer
    BY <1>2 DEF TimerCalls
  <2>4. /\ e.at \in {"read", "status"} => cur \notin isTimer /\ call \notin TimerCalls
        /\ e.at # "next" /\ e.at # "reloop"
        /\ e.at = "timeout" => call = "TIMEOUT" /\ cur \in isTimer
    BY <1>4, <2>2, <2>3
  <2> QED BY <1>1, <1>2, <1>4, <1>6, <2>1, <2>4 DEF WalkInv
<1>11. DoomInv'
  BY <1>1, <1>2 DEF IInv, DoomInv
<1>12. ObjectsInv'
  BY <1>1, <1>2, <1>3, <1>4, <1>6, <1>7, QuietPreserves
<1>13. EngineStep
  BY <1>1 DEF EngineStep, EL!vars
<1> QED BY <1>8, <1>9, <1>10, <1>11, <1>12, <1>13, Parts

\* No activation but the handler that returns.
OnlyHandler == phase = "cb" /\ clearing = << >> /\ \A i \in Pos : stack[i].at \in Handlers

\* Both a handler and its callback can be what returns to the engine.
LEMMA OnlyHandlerFacts ==
    ASSUME IInv
    PROVE  /\ stack # << >> /\ Top.at \in Handlers => OnlyHandler /\ Below = << >>
           /\ phase = "cb" /\ stack = << >> => OnlyHandler
<1>1. ASSUME stack # << >>, Top.at \in Handlers PROVE OnlyHandler /\ Below = << >>
  BY <1>1, HandlerTop DEF OnlyHandler
<1>2. ASSUME phase = "cb", stack = << >> PROVE OnlyHandler
  <2>1. Pos = {}
    BY <1>2, EmptyFacts
  <2>2. clearing = << >>
    BY <2>1, NoClearing
  <2> QED BY <1>2, <2>1, <2>2 DEF OnlyHandler
<1> QED BY <1>1, <1>2

\* The handler returns and nothing is deleted.
LEMMA ReturnObjects ==
    ASSUME IInv, OnlyHandler, stack' = << >>,
           UNCHANGED <<session, object, live, clearing>>
    PROVE  ObjectsInv' /\ stack' \in Seq(Entry) /\ Pos' = {}
<1>1. stack' \in Seq(Entry) /\ Pos' = {}
  BY EmptySeq DEF Pos
<1>2. UNCHANGED <<sess, role, evData, timer, sock, ctx, isTimer>>
  BY DEF session, object
<1> QED BY <1>1, <1>2, QuietPreserves DEF OnlyHandler, IInv, SessInv

\* XEVENTS_CONTINUE, ACCEPT: the engine goes on.
LEMMA ContinueStep ==
    ASSUME IInv, OnlyHandler, ReturnContinue(<< >>), UNCHANGED <<session, object>>,
           call = "WRITE" => gone = FALSE /\ cur \notin isTimer
    PROVE  IInv' /\ EngineStep
<1>1. /\ phase = "cb" /\ clearing = << >> /\ stack' = << >>
      /\ UNCHANGED <<live, newer, clearing, batch, doomed>>
      /\ \/ call = "WRITE" /\ call' = "READ" /\ UNCHANGED <<phase, cur, gone>>
         \/ phase' = "loop" /\ cur' = NULL /\ call' = NoCall /\ gone' = FALSE
  BY DEF OnlyHandler, ReturnContinue
<1>2. ObjectsInv' /\ stack' \in Seq(Entry) /\ Pos' = {}
  BY <1>1, ReturnObjects
<1>3. UNCHANGED <<sess, role, evData, timer, sock, ctx, isTimer>>
  BY DEF session, object
<1>4. TypeOK'
  <2>1. /\ phase' \in {"app", "loop", "cb", "stop", "destroy", "dead"}
        /\ cur' \in Object \cup {NULL} /\ call' \in Calls \cup {NoCall} /\ gone' \in BOOLEAN
    BY <1>1, Zenon DEF IInv, TypeOK, Calls
  <2> QED BY <1>1, <1>2, <1>3, <2>1 DEF IInv, TypeOK, Entry
<1>5. PlaceInv'
  BY <1>1, <1>2 DEF PlaceInv
<1>6. batch \subseteq live /\ doomed = {} /\ cur # NULL /\ (gone = FALSE => cur \in live)
  BY <1>1 DEF IInv, WalkInv, DoomInv
<1>7. WalkInv'
  BY <1>1, <1>2, <1>3, <1>6 DEF WalkInv, TimerCalls, NoCall
<1>8. DoomInv'
  BY <1>1, <1>2, <1>6 DEF DoomInv
<1>9. EngineStep
  <2>1. CASE call = "WRITE" /\ call' = "READ" /\ UNCHANGED <<phase, cur, gone>>
    <3>1. ~gone /\ call' \in Calls
      BY <2>1 DEF Calls
    <3>2. EL!Again
      BY <1>1, <2>1, <3>1 DEF EL!Again, EL!EngineTurn
    <3> QED BY <3>2 DEF EL!Next, EngineStep
  <2>2. CASE phase' = "loop" /\ cur' = NULL /\ call' = NoCall /\ gone' = FALSE
    <3>1. EL!Continue
      BY <1>1, <2>2 DEF EL!Continue, EL!EngineTurn
    <3> QED BY <3>1 DEF EL!Next, EngineStep
  <2> QED BY <1>1, <2>1, <2>2
<1> QED BY <1>2, <1>4, <1>5, <1>7, <1>8, <1>9, Parts

\* XEVENTS_RELOOP: the engine abandons the batch.
LEMMA ReloopStep ==
    ASSUME IInv, OnlyHandler, ReturnReloop(<< >>), UNCHANGED <<session, object>>
    PROVE  IInv' /\ EngineStep
<1>1. /\ phase = "cb" /\ clearing = << >> /\ stack' = << >> /\ phase' = "stop"
      /\ batch' = {} /\ call' = NoCall /\ UNCHANGED <<live, newer, clearing, cur, gone, doomed>>
  BY DEF OnlyHandler, ReturnReloop
<1>2. ObjectsInv' /\ stack' \in Seq(Entry) /\ Pos' = {}
  BY <1>1, ReturnObjects
<1>3. UNCHANGED <<sess, role, evData, timer, sock, ctx, isTimer>>
  BY DEF session, object
<1>4. TypeOK'
  BY <1>1, <1>2, <1>3 DEF IInv, TypeOK, Entry
<1>5. PlaceInv'
  BY <1>1, <1>2 DEF PlaceInv
<1>6. WalkInv'
  BY <1>1, <1>2 DEF WalkInv
<1>7. DoomInv'
  BY <1>1, <1>2 DEF IInv, DoomInv
<1>8. EL!Break
  BY <1>1 DEF EL!Break, EL!EngineTurn
<1> QED BY <1>2, <1>4, <1>5, <1>6, <1>7, <1>8, Parts DEF EL!Next, EngineStep

\* XEVENTS_DISCONNECT: the engine deletes the object, which is not gone.
LEMMA DisconnectsStep ==
    ASSUME IInv, OnlyHandler, gone = FALSE, ReturnDisconnect(<< >>), UNCHANGED <<session, object>>
    PROVE  IInv' /\ EngineStep
<1> DEFINE e == ClearEvent(cur)
<1>1. /\ phase = "cb" /\ clearing = << >> /\ stack' = Append(<< >>, e) /\ live' = live \ {cur}
      /\ newer' = {p \in newer : p[1] # cur /\ p[2] # cur} /\ clearing' = Append(clearing, cur)
      /\ gone' = TRUE /\ phase' = "stop" /\ batch' = {} /\ call' = NoCall
      /\ UNCHANGED <<cur, doomed>> /\ \A i \in Pos : stack[i].at \in Handlers
  BY DEF OnlyHandler, ReturnDisconnect
<1>2. cur \in live /\ doomed = {}
  BY <1>1 DEF IInv, WalkInv, DoomInv
<1>3. /\ e \in Entry /\ e.d = cur /\ cur \in Object /\ cur # NULL
      /\ e.at \in {"timer_destroy", "closed", "free"}
  BY <1>2, ClearEventFacts, TypeFacts
<1> DEFINE st == << >>
<1>4. st \in Seq(Entry) /\ Len(st) = 0 /\ (\A i \in 1..Len(st) : FALSE) /\ stack' = Append(st, e)
  BY <1>1, EmptySeq
<1> HIDE DEF st
<1>5. ObjectsInv'
  <2>1. CASE cur \in isTimer
    BY <1>1, <1>2, <1>4, <2>1, TimerRemoved
  <2>2. CASE cur \notin isTimer
    BY <1>1, <1>2, <1>4, <2>2, EventRemoved
  <2> QED BY <2>1, <2>2
<1> HIDE DEF e
<1>6. /\ stack' \in Seq(Entry) /\ Pos' = {1} /\ stack'[1] = e
  BY <1>3, <1>4, PushFacts DEF Pos
<1>7. UNCHANGED <<sess, role, evData, timer, sock, ctx, isTimer>>
  BY DEF session, object
<1>8. TypeOK'
  <2>1. clearing' \in Seq(Object)
    BY <1>1, <1>3, AppendProperties DEF IInv, TypeOK
  <2> QED BY <1>1, <1>6, <1>7, <2>1 DEF IInv, TypeOK, Entry
<1>9. PlaceInv'
  BY <1>1, <1>3, <1>6 DEF PlaceInv, Handlers
<1>10. WalkInv'
  BY <1>1, <1>3, <1>6 DEF WalkInv
<1>11. DoomInv'
  BY <1>1, <1>2, <1>6 DEF IInv, DoomInv
<1>12. EL!Disconnect
  BY <1>1, Zenon DEF EL!Disconnect, EL!EngineTurn, EL!Without
<1> QED BY <1>5, <1>8, <1>9, <1>10, <1>11, <1>12, Parts DEF EL!Next, EngineStep

-----------------------------------------------------------------------------
(* The engine walks its batch and is destroyed.                            *)

\* Sessions and objects stay as they are, and nothing is on the stack.
LEMMA ObjectsSame ==
    ASSUME IInv, stack = << >>, UNCHANGED <<session, object, stack, live, clearing>>
    PROVE  /\ ObjectsInv' /\ clearing = << >> /\ Pos = {} /\ Pos' = {} /\ stack' = << >>
           /\ stack' \in Seq(Entry)
           /\ UNCHANGED <<sess, role, evData, timer, sock, ctx, isTimer>>
<1>1. Pos = {} /\ Pos' = {} /\ stack' \in Seq(Entry)
  BY EmptyFacts, TypeFacts DEF Pos
<1>2. UNCHANGED <<sess, role, evData, timer, sock, ctx, isTimer>>
  BY DEF session, object
<1>3. clearing = << >>
  BY <1>1, NoClearing
<1>4. ObjectsInv'
  BY <1>1, <1>2, QuietPreserves DEF IInv, SessInv
<1> QED BY <1>1, <1>2, <1>3, <1>4

\* A batch is polled, an object of it is dispatched, or the batch ends.
LEMMA WalkStep ==
    ASSUME IInv, Poll \/ (\E d \in Object : Dispatch(d)) \/ End
    PROVE  IInv' /\ EngineStep
<1>1. /\ stack = << >> /\ UNCHANGED <<session, object, stack, live, newer, clearing, doomed>>
      /\ phase \in {"app", "loop", "stop"}
  BY DEF Poll, Dispatch, End
<1>2. /\ ObjectsInv' /\ clearing = << >> /\ Pos' = {} /\ stack' = << >> /\ stack' \in Seq(Entry)
      /\ UNCHANGED <<sess, role, evData, timer, sock, ctx, isTimer>>
  BY <1>1, ObjectsSame
<1>3. doomed = {} /\ batch \subseteq live /\ live \subseteq Object /\ NULL \notin live
  BY <1>1, TypeFacts DEF IInv, DoomInv, WalkInv
<1>4. DoomInv'
  BY <1>1, <1>2, <1>3 DEF DoomInv
<1>5. CASE Poll
  <2>1. /\ phase = "app" /\ batch' \in (SUBSET live) \ {{}} /\ phase' = "loop"
        /\ UNCHANGED <<cur, call, gone>>
    BY <1>5 DEF Poll
  <2>2. TypeOK'
    BY <1>1, <1>2, <1>3, <2>1 DEF IInv, TypeOK, Entry
  <2>3. PlaceInv' /\ WalkInv'
    BY <1>1, <1>2, <2>1 DEF PlaceInv, WalkInv
  <2>4. EL!Poll
    BY <1>1, <1>2, <2>1 DEF EL!Poll, EL!EngineTurn
  <2> QED BY <1>2, <1>4, <2>2, <2>3, <2>4, Parts DEF EL!Next, EngineStep
<1>6. ASSUME NEW d \in Object, Dispatch(d) PROVE IInv' /\ EngineStep
  <2>1. /\ phase = "loop" /\ d \in batch /\ batch' = batch \ {d} /\ phase' = "cb" /\ cur' = d
        /\ gone' = FALSE
        /\ call' \in IF d \in isTimer THEN {"TIMEOUT", "TIMER_ERROR"}
                                      ELSE {"CLOSED", "ERROR", "READ", "WRITE"}
    BY <1>6 DEF Dispatch
  <2>2. /\ call' \in Calls /\ call' # NoCall /\ (call' \in TimerCalls <=> d \in isTimer)
    BY <2>1 DEF Calls, NoCall, TimerCalls
  <2>3. TypeOK'
    BY <1>1, <1>2, <1>3, <2>1, <2>2 DEF IInv, TypeOK, Entry
  <2>4. PlaceInv'
    BY <1>1, <1>2, <2>1 DEF PlaceInv
  <2>5. WalkInv'
    BY <1>1, <1>2, <1>3, <2>1, <2>2 DEF WalkInv
  <2>6. EL!Dispatch(d)
    BY <1>1, <1>2, <2>1, <2>2 DEF EL!Dispatch, EL!EngineTurn
  <2> QED BY <1>2, <1>4, <2>3, <2>4, <2>5, <2>6, Parts DEF EL!Next, EngineStep
<1>7. CASE End
  <2>1. /\ phase = "stop" \/ (phase = "loop" /\ batch = {})
        /\ phase' = "app" /\ cur' = NULL /\ gone' = FALSE /\ UNCHANGED <<batch, call>>
    BY <1>7 DEF End
  <2>2. batch = {}
    BY <2>1 DEF IInv, WalkInv
  <2>3. TypeOK'
    BY <1>1, <1>2, <1>3, <2>1 DEF IInv, TypeOK, Entry
  <2>4. PlaceInv' /\ WalkInv'
    BY <1>1, <1>2, <2>1, <2>2 DEF PlaceInv, WalkInv
  <2>5. EL!End
    BY <1>1, <1>2, <2>1, <2>2 DEF EL!End, EL!EngineTurn
  <2> QED BY <1>2, <1>4, <2>3, <2>4, <2>5, Parts DEF EL!Next, EngineStep
<1> QED BY <1>5, <1>6, <1>7

\* A worker rebuilds the map; the engine is destroyed or created, and takes out
\* the next bucket, in which every session comes after its timer.
LEMMA LifecycleStep ==
    ASSUME IInv, "spread" \in Assumed,
           XAPI_RebuildWorkerEvents \/ XAPI_Destroy \/ Doom \/ DestroyEnd \/ XAPI_Init
    PROVE  IInv' /\ EngineStep
<1>1. /\ stack = << >> /\ phase \in {"app", "destroy", "dead"}
      /\ UNCHANGED <<session, object, stack, live, clearing, batch, cur, call, gone>>
  BY DEF XAPI_RebuildWorkerEvents, XAPI_Destroy, Doom, DestroyEnd, XAPI_Init, walk
<1>2. /\ ObjectsInv' /\ clearing = << >> /\ Pos' = {} /\ stack' = << >> /\ stack' \in Seq(Entry)
      /\ UNCHANGED <<sess, role, evData, timer, sock, ctx, isTimer>>
  BY <1>1, ObjectsSame
<1>3. /\ batch = {} /\ newer \subseteq Object \X Object /\ live \subseteq Object
      /\ phase # "destroy" => doomed = {}
      /\ phase = "dead" => live = {}
  BY <1>1 DEF IInv, WalkInv, TypeOK, DoomInv, PlaceInv
<1>4. CASE XAPI_RebuildWorkerEvents
  <2>1. /\ phase = "app" /\ newer' = {<<p[2], p[1]>> : p \in newer} /\ UNCHANGED <<phase, doomed>>
    BY <1>4 DEF XAPI_RebuildWorkerEvents, walk
  <2>2. newer' \subseteq Object \X Object
    BY <1>3, <2>1
  <2>3. TypeOK'
    BY <1>1, <1>2, <2>1, <2>2 DEF IInv, TypeOK, Entry
  <2>4. PlaceInv' /\ WalkInv' /\ DoomInv'
    BY <1>1, <1>2, <1>3, <2>1 DEF PlaceInv, WalkInv, DoomInv
  <2>5. EL!Rebuild
    BY <1>1, <1>2, <2>1 DEF EL!Rebuild, EL!EngineTurn
  <2> QED BY <1>2, <2>3, <2>4, <2>5, Parts DEF EL!Next, EngineStep
<1>5. CASE XAPI_Destroy
  <2>1. phase = "app" /\ phase' = "destroy" /\ UNCHANGED <<newer, doomed>>
    BY <1>5 DEF XAPI_Destroy
  <2>2. TypeOK'
    BY <1>1, <1>2, <2>1 DEF IInv, TypeOK, Entry
  <2>3. PlaceInv' /\ WalkInv' /\ DoomInv'
    BY <1>1, <1>2, <1>3, <2>1 DEF PlaceInv, WalkInv, DoomInv
  <2>4. EL!Destroy
    BY <1>1, <1>2, <2>1 DEF EL!Destroy, EL!EngineTurn
  <2> QED BY <1>2, <2>2, <2>3, <2>4, Parts DEF EL!Next, EngineStep
<1>6. CASE Doom
  <2>1. phase = "destroy" /\ doomed = {} /\ UNCHANGED <<newer, phase>>
    BY <1>6 DEF Doom, walk
  <2>2. PICK G \in (SUBSET live) \ {{}} : Spread(G) /\ doomed' = G
    BY <1>6 DEF Doom
  <2>3. TypeOK'
    BY <1>1, <1>2, <1>3, <2>1, <2>2 DEF IInv, TypeOK, Entry
  <2>4. PlaceInv' /\ WalkInv'
    BY <1>1, <1>2, <1>3, <2>1 DEF PlaceInv, WalkInv
  <2>5. DoomInv'
    BY <1>1, <1>2, <2>1, <2>2 DEF DoomInv, Spread
  <2>6. EL!Doom
    BY <1>1, <1>2, <2>1, <2>2 DEF EL!Doom, EL!EngineTurn
  <2> QED BY <1>2, <2>3, <2>4, <2>5, <2>6, Parts DEF EL!Next, EngineStep
<1>7. CASE DestroyEnd
  <2>1. /\ phase = "destroy" /\ phase' = "dead" /\ doomed = {} /\ live = {}
        /\ UNCHANGED <<newer, doomed>>
    BY <1>7 DEF DestroyEnd
  <2>2. TypeOK'
    BY <1>1, <1>2, <2>1 DEF IInv, TypeOK, Entry
  <2>3. PlaceInv' /\ WalkInv' /\ DoomInv'
    BY <1>1, <1>2, <1>3, <2>1 DEF PlaceInv, WalkInv, DoomInv
  <2>4. EL!DestroyEnd
    BY <1>1, <1>2, <2>1 DEF EL!DestroyEnd, EL!EngineTurn
  <2> QED BY <1>2, <2>2, <2>3, <2>4, Parts DEF EL!Next, EngineStep
<1>8. CASE XAPI_Init
  <2>1. phase = "dead" /\ phase' = "app" /\ UNCHANGED <<newer, doomed>>
    BY <1>8 DEF XAPI_Init
  <2>2. TypeOK'
    BY <1>1, <1>2, <2>1 DEF IInv, TypeOK, Entry
  <2>3. PlaceInv' /\ WalkInv' /\ DoomInv'
    BY <1>1, <1>2, <1>3, <2>1 DEF PlaceInv, WalkInv, DoomInv
  <2>4. EL!Create
    BY <1>1, <2>1 DEF EL!Create
  <2> QED BY <1>2, <2>2, <2>3, <2>4, Parts DEF EL!Next, EngineStep
<1> QED BY <1>4, <1>5, <1>6, <1>7, <1>8

\* The next object of the bucket is cleared; the timer of its session is not
\* one of those that are left.
LEMMA ClearNextStep ==
    ASSUME IInv, NEW d \in Object, ClearNext(d) PROVE IInv' /\ EngineStep
<1> DEFINE e == ClearEvent(d)
<1>1. /\ phase = "destroy" /\ stack = << >> /\ d \in doomed /\ Removed(d) /\ doomed' = doomed \ {d}
      /\ \A y \in doomed : <<y, d>> \notin newer
      /\ stack' = << e >> /\ UNCHANGED <<session, object, phase, cur, call>>
  BY DEF ClearNext
<1>2. d \in live /\ doomed \subseteq live /\ batch = {} /\ Pos = {} /\ NULL \notin live
  BY <1>1, TypeFacts DEF IInv, DoomInv, WalkInv
<1>3. /\ e \in Entry /\ e.d = d /\ e.s = ctx[d] /\ d # NULL /\ ctx[d] \in sess
      /\ e.at \in {"timer_destroy", "closed", "free"}
  BY <1>2, ClearEventFacts, TypeFacts
<1>4. clearing = << >>
  BY <1>2, NoClearing
<1> DEFINE st == << >>
<1>5. st \in Seq(Entry) /\ Len(st) = 0 /\ (\A i \in 1..Len(st) : FALSE) /\ stack' = Append(st, e)
  BY <1>1, EmptySeq
<1> HIDE DEF st
<1>6. /\ UNCHANGED <<sess, role, evData, timer, sock, ctx, isTimer>>
      /\ live' = live \ {d} /\ newer' = {p \in newer : p[1] # d /\ p[2] # d}
      /\ clearing' = Append(clearing, d) /\ batch' = batch \ {d} /\ gone' = (gone \/ d = cur)
  BY <1>1 DEF session, object, Removed
<1>7. ObjectsInv'
  <2>1. CASE d \in isTimer
    BY <1>1, <1>2, <1>5, <1>6, <2>1, TimerRemoved
  <2>2. CASE d \notin isTimer
    BY <1>1, <1>2, <1>5, <1>6, <2>2, EventRemoved
  <2> QED BY <2>1, <2>2
<1> HIDE DEF e
<1>8. /\ stack' \in Seq(Entry) /\ Pos' = {1} /\ stack'[1] = e
  BY <1>3, <1>5, PushFacts DEF Pos
<1>9. TypeOK'
  <2>1. clearing' \in Seq(Object)
    BY <1>6, AppendProperties DEF IInv, TypeOK
  <2>2. gone' \in BOOLEAN
    BY <1>6, Zenon
  <2> QED BY <1>1, <1>6, <1>8, <2>1, <2>2 DEF IInv, TypeOK, Entry
<1>10. PlaceInv'
  BY <1>1, <1>3, <1>8 DEF PlaceInv, Handlers
<1>11. WalkInv'
  BY <1>1, <1>2, <1>3, <1>6, <1>8 DEF WalkInv
<1>12. timer[ctx[d]] \notin doomed \ {d}
  <2> SUFFICES ASSUME timer[ctx[d]] \in doomed, timer[ctx[d]] # d PROVE FALSE
    OBVIOUS
  <2> DEFINE t == timer[ctx[d]]
  <2>1. t # NULL /\ ctx[t] = ctx[d] /\ t \in isTimer
    BY <1>2, <1>3 DEF IInv, SessInv
  <2>2. d \notin isTimer
    BY <1>2 DEF IInv, LiveInv
  <2>3. <<t, d>> \in newer
    BY <1>1, <2>1, <2>2 DEF IInv, DoomInv
  <2> QED BY <1>1, <2>3
<1>13. DoomInv'
  <2>1. doomed' \subseteq live'
    BY <1>1, <1>2, <1>6
  <2>2. \A x \in doomed' \ isTimer, y \in doomed' \cap isTimer : ctx[x] = ctx[y] => <<y, x>> \in newer'
    <3> SUFFICES ASSUME NEW x \in doomed' \ isTimer, NEW y \in doomed' \cap isTimer, ctx[x] = ctx[y]
                 PROVE  <<y, x>> \in newer'
      OBVIOUS
    <3>1. <<y, x>> \in newer /\ x # d /\ y # d
      BY <1>1 DEF IInv, DoomInv
    <3> QED BY <1>6, <3>1
  <2>3. \A i \in Pos' : stack'[i].s # NULL => timer[stack'[i].s] \notin doomed'
    BY <1>1, <1>3, <1>8, <1>12
  <2> QED BY <1>1, <1>6, <2>1, <2>2, <2>3 DEF DoomInv
<1>14. EL!ClearNext(d)
  BY <1>1, <1>4, <1>6, Zenon DEF EL!ClearNext, EL!EngineTurn, EL!Remove, EL!Without
<1> QED BY <1>7, <1>9, <1>10, <1>11, <1>13, <1>14, Parts DEF EL!Next, EngineStep

-----------------------------------------------------------------------------
(* The theorems.                                                           *)

\* After a READ, WRITE or COMPLETE callback the handler goes on.
LEMMA ReadGoesOn ==
    ASSUME IInv, TopAt("read"), stack' = Below, UNCHANGED <<session, object, engine>>
    PROVE  IInv' /\ EngineStep
<1>1. stack # << >> /\ Top.at = "read"
  BY DEF TopAt
<1>2. OnlyHandler /\ Below = << >> /\ Len(stack) \in Pos /\ Top = stack[Len(stack)]
  BY <1>1, OnlyHandlerFacts, TypeFacts, BelowFacts DEF Handlers, Top
<1>3. /\ UNCHANGED <<sess, role, evData, timer, sock, ctx, isTimer>>
      /\ UNCHANGED <<live, newer, clearing, phase, batch, cur, call, gone, doomed>>
  BY DEF session, object, engine, walk
<1>4. ObjectsInv' /\ stack' \in Seq(Entry) /\ Pos' = {}
  BY <1>2, <1>3, ReturnObjects
<1>5. phase = "cb" /\ gone = FALSE /\ cur \notin isTimer /\ call \notin TimerCalls
  BY <1>1, <1>2 DEF OnlyHandler, IInv, WalkInv
<1>6. TypeOK'
  BY <1>3, <1>4 DEF IInv, TypeOK, Entry
<1>7. PlaceInv' /\ DoomInv'
  BY <1>2, <1>3, <1>4, <1>5 DEF PlaceInv, IInv, DoomInv
<1>8. WalkInv'
  BY <1>2, <1>3, <1>4, <1>5 DEF IInv, WalkInv
<1>9. EngineStep
  BY <1>3 DEF EngineStep, EL!vars
<1> QED BY <1>4, <1>6, <1>7, <1>8, <1>9, Parts

\* The callbacks and the functions that wait for them return.
LEMMA ReturnStep ==
    ASSUME IInv, "timeout" \in Assumed, Return PROVE IInv' /\ EngineStep
<1>1. ASSUME AddedReturn PROVE IInv' /\ EngineStep
  BY <1>1, AddedReturnStep DEF AddedReturn, TopAt
<1>2. ASSUME AddedRefuse PROVE IInv' /\ EngineStep
  <2>1. stack # << >> /\ Top.at = "added" /\ "refused" \in Points
    BY <1>2 DEF AddedRefuse, TopAt, Points
  <2>2. Goto("refused") \in Seq(Entry)
    BY <2>1, TypeFacts, GotoFacts
  <2> QED BY <1>2, <2>1, <2>2, RefuseStep DEF AddedRefuse
<1>3. ASSUME RefusedEnd PROVE IInv' /\ EngineStep
  BY <1>3, RefusedEndStep
<1>4. ASSUME AcceptedReturn PROVE IInv' /\ EngineStep
  <2>1. stack # << >> /\ Top.at = "accepted" /\ UNCHANGED <<session, object>>
    BY <1>4 DEF AcceptedReturn, TopAt
  <2>2. Below \in Seq(Entry)
    BY <2>1, TypeFacts, BelowFacts
  <2>3. CASE stack' = Below /\ UNCHANGED engine
    BY <2>1, <2>3, AddedReturnStep
  <2>4. CASE /\ Removed(evData[Top.s])
             /\ stack' = Append(Below, ClearEvent(evData[Top.s]))
             /\ UNCHANGED <<phase, cur, call, doomed>>
    BY <2>1, <2>2, <2>4, RefuseStep
  <2> QED BY <1>4, <2>3, <2>4 DEF AcceptedReturn
<1>5. ASSUME NextEnd PROVE IInv' /\ EngineStep
  <2>1. stack # << >> /\ Top.at = "next" /\ ReturnContinue(Below) /\ UNCHANGED <<session, object>>
    BY <1>5 DEF NextEnd, TopAt
  <2>2. OnlyHandler /\ Below = << >> /\ Len(stack) \in Pos /\ Top = stack[Len(stack)]
    BY <2>1, OnlyHandlerFacts, TypeFacts, BelowFacts DEF Handlers, Top
  <2>3. call = "READ"
    BY <2>1, <2>2 DEF IInv, WalkInv
  <2> QED BY <2>1, <2>2, <2>3, ContinueStep
<1>6. ASSUME ReadReturn PROVE IInv' /\ EngineStep
  <2>1. stack # << >> /\ Top.at = "read" /\ TopAt("read") /\ UNCHANGED <<session, object>>
    BY <1>6 DEF ReadReturn, TopAt
  <2>2. OnlyHandler /\ Below = << >> /\ Len(stack) \in Pos /\ Top = stack[Len(stack)]
    BY <2>1, OnlyHandlerFacts, TypeFacts, BelowFacts DEF Handlers, Top
  <2>3. gone = FALSE
    BY <2>1, <2>2 DEF IInv, WalkInv
  <2>4. CASE stack' = Below /\ UNCHANGED engine
    BY <2>1, <2>4, ReadGoesOn
  <2>5. CASE ReturnReloop(Below)
    BY <2>1, <2>2, <2>5, ReloopStep
  <2>6. CASE ReturnDisconnect(Below)
    BY <2>1, <2>2, <2>3, <2>6, DisconnectsStep
  <2> QED BY <1>6, <2>4, <2>5, <2>6 DEF ReadReturn
<1>7. ASSUME StatusReturn PROVE IInv' /\ EngineStep
  <2>1. stack # << >> /\ Top.at = "status" /\ ReturnDisconnect(Below) /\ UNCHANGED <<session, object>>
    BY <1>7 DEF StatusReturn, TopAt
  <2>2. OnlyHandler /\ Below = << >> /\ Len(stack) \in Pos /\ Top = stack[Len(stack)]
    BY <2>1, OnlyHandlerFacts, TypeFacts, BelowFacts DEF Handlers, Top
  <2>3. gone = FALSE
    BY <2>1, <2>2 DEF IInv, WalkInv
  <2> QED BY <2>1, <2>2, <2>3, DisconnectsStep
<1>8. ASSUME TimeoutReturn PROVE IInv' /\ EngineStep
  <2>1. stack # << >> /\ Top.at = "timeout" /\ TopAt("timeout")
    BY <1>8 DEF TimeoutReturn, TopAt
  <2>2. OnlyHandler /\ Below = << >> /\ Len(stack) \in Pos /\ Top = stack[Len(stack)]
    BY <2>1, OnlyHandlerFacts, TypeFacts, BelowFacts DEF Handlers, Top
  <2>3. CASE KeepTimer(Top.s)
    <3>1. call = "TIMEOUT"
      BY <2>1, <2>2 DEF IInv, WalkInv
    <3> QED BY <2>2, <2>3, <3>1, ContinueStep DEF KeepTimer
  <2>4. CASE DisconnectSession(Top.s)
    BY <2>1, <2>4, DisconnectSessionStep
  <2>5. CASE DropTimer(Top.s)
    <3>1. gone \in BOOLEAN /\ ~gone
      BY <2>5 DEF DropTimer, IInv, TypeOK
    <3>2. gone = FALSE
      BY <3>1, Zenon
    <3> QED BY <2>2, <2>5, <3>2, DisconnectsStep DEF DropTimer
  <2> QED BY <1>8, <2>3, <2>4, <2>5 DEF TimeoutReturn
<1>9. ASSUME ReloopEnd PROVE IInv' /\ EngineStep
  <2>1. stack # << >> /\ Top.at = "reloop" /\ ReturnReloop(Below) /\ UNCHANGED <<session, object>>
    BY <1>9 DEF ReloopEnd, TopAt
  <2>2. OnlyHandler /\ Below = << >>
    BY <2>1, OnlyHandlerFacts DEF Handlers
  <2> QED BY <2>1, <2>2, ReloopStep
<1>10. ASSUME TimerDestroyReturn \/ ClearEnd PROVE IInv' /\ EngineStep
  BY <1>10, ClearReturnStep
<1>11. ASSUME ClosedReturn PROVE IInv' /\ EngineStep
  BY <1>11, ClosedReturnStep
<1>12. ASSUME FreeTimer PROVE IInv' /\ EngineStep
  BY <1>12, FreeTimerStep
<1>13. ASSUME FreeData PROVE IInv' /\ EngineStep
  BY <1>13, FreeDataStep
<1> QED BY <1>1, <1>2, <1>3, <1>4, <1>5, <1>6, <1>7, <1>8, <1>9, <1>10, <1>11, <1>12, <1>13
        DEF Return

\* XAPI_Service: the engine dispatches and the handlers begin.
LEMMA ServiceStep ==
    ASSUME IInv, Service PROVE IInv' /\ EngineStep
<1>1. ASSUME NEW c \in Calls, Handling(c)
      PROVE  /\ phase = "cb" /\ stack = << >> /\ call = c /\ gone = FALSE /\ OnlyHandler
             /\ call \in TimerCalls <=> cur \in isTimer
  BY <1>1, OnlyHandlerFacts DEF Handling, IInv, WalkInv
<1>2. CASE Poll \/ (\E d \in Object : Dispatch(d)) \/ End
  BY <1>2, WalkStep
<1>3. CASE ClosedEvent
  <2>1. /\ phase = "cb" /\ stack = << >> /\ call = "CLOSED" /\ gone = FALSE /\ OnlyHandler
        /\ UNCHANGED <<session, object>>
    BY <1>1, <1>3 DEF ClosedEvent, Calls
  <2>2. CASE stack' = << At("status", ctx[cur], NULL) >> /\ UNCHANGED engine
    BY <2>1, <2>2, HandlerBegins DEF TimerCalls, session
  <2>3. CASE ReturnDisconnect(stack)
    BY <2>1, <2>3, DisconnectsStep
  <2> QED BY <1>3, <2>2, <2>3 DEF ClosedEvent
<1>4. CASE ErrorEvent
  BY <1>1, <1>4, ContinueStep DEF ErrorEvent, Calls, Handling
<1>5. CASE TimerError
  BY <1>1, <1>5, DisconnectsStep DEF TimerError, Calls, Handling
<1>6. CASE TimeoutEvent
  BY <1>6, HandlerBegins DEF TimeoutEvent, Handling, session
<1>7. ASSUME InSession
      PROVE  /\ phase = "cb" /\ stack = << >> /\ call \in {"READ", "WRITE"} /\ gone = FALSE
             /\ OnlyHandler /\ cur \notin isTimer /\ call \notin TimerCalls
  BY <1>1, <1>7 DEF InSession, Calls, TimerCalls
<1>8. CASE SessionIdle
  BY <1>7, <1>8, ContinueStep DEF SessionIdle
<1>9. CASE SessionDrop
  BY <1>7, <1>9, DisconnectsStep DEF SessionDrop
<1>10. CASE SessionData
  BY <1>7, <1>10, HandlerBegins DEF SessionData, session
<1>11. CASE SessionFails
  <2>1. sock' \subseteq sock
    BY <1>11 DEF SessionFails, CloseSocket
  <2> QED BY <1>7, <1>11, <2>1, HandlerBegins DEF SessionFails
<1>12. CASE \E s \in Session, d \in Object : XAPI_Accept(s, d)
  BY <1>12, AcceptStep
<1>13. CASE \E s \in Session : AcceptFails(s)
  BY <1>13, AcceptStep
<1> QED BY <1>2, <1>3, <1>4, <1>5, <1>6, <1>8, <1>9, <1>10, <1>11, <1>12, <1>13 DEF Service

\* Every step keeps the invariant, and is one that the engine allows or none of
\* the engine's.
LEMMA NextStep ==
    ASSUME IInv, "timeout" \in Assumed, "spread" \in Assumed, Next PROVE IInv' /\ EngineStep
<1>1. CASE App
  BY <1>1, AddEndpointStep, AddTimerStep, DeleteTimerStep, DisconnectStep DEF App
<1>2. CASE Return
  BY <1>2, ReturnStep
<1>3. CASE Service
  BY <1>3, ServiceStep
<1>4. CASE Lifecycle
  BY <1>4, LifecycleStep, ClearNextStep DEF Lifecycle
<1> QED BY <1>1, <1>2, <1>3, <1>4 DEF Next

\* Initially there is nothing.
LEMMA InitFacts ==
    ASSUME Init PROVE IInv /\ EL!Init
<1>1. Pos = {} /\ Len(clearing) = 0 /\ 1..Len(clearing) = {}
  BY EmptySeq DEF Init, Pos
<1>2. TypeOK
  <2>1. /\ stack \in Seq([at : Points, s : Session \cup {NULL}, d : Object \cup {NULL}])
        /\ clearing \in Seq(Object) /\ gone \in BOOLEAN
    BY EmptySeq DEF Init
  <2>2. /\ role \in [Session -> Roles] /\ evData \in [Session -> Object \cup {NULL}]
        /\ timer \in [Session -> Object \cup {NULL}] /\ ctx \in [Object -> Session \cup {NULL}]
    BY DEF Init, Roles
  <2> QED BY <2>1, <2>2 DEF Init, TypeOK
<1>3. ShapeInv /\ FreeInv /\ HoldInv /\ EndInv /\ ClearInv
  BY <1>1 DEF ShapeInv, FreeInv, HoldInv, EndInv, ClearInv
<1>4. LinkInv /\ LiveInv /\ SessInv
  BY <1>1 DEF Init, LinkInv, LiveInv, SessInv
<1>5. PlaceInv /\ WalkInv /\ DoomInv
  BY <1>1 DEF Init, PlaceInv, WalkInv, DoomInv
<1>6. EL!Init
  BY DEF Init, EL!Init
<1> QED BY <1>2, <1>3, <1>4, <1>5, <1>6 DEF IInv

\* A step that changes nothing keeps the invariant.
LEMMA Stutter ==
    ASSUME IInv, UNCHANGED vars PROVE IInv' /\ EngineStep
<1>1. /\ UNCHANGED <<sess, role, evData, timer, sock, ctx, isTimer, stack>>
      /\ UNCHANGED <<live, newer, clearing, phase, batch, cur, call, gone, doomed>>
  BY DEF vars, session, object, engine, walk
<1>2. Pos' = Pos /\ (\A x : InClearing(x)' <=> InClearing(x)) /\ (\A x : Unused(x)' <=> Unused(x))
  BY <1>1 DEF Pos, InClearing, Unused
<1>3. ShapeInv' /\ PlaceInv' /\ FreeInv' /\ HoldInv' /\ EndInv' /\ ClearInv'
  BY <1>1, <1>2 DEF IInv, ShapeInv, PlaceInv, FreeInv, HoldInv, EndInv, ClearInv
<1>4. LinkInv' /\ SessInv'
  BY <1>1, <1>2 DEF IInv, LinkInv, SessInv, InClearing, Unused
<1>5. TypeOK' /\ LiveInv' /\ WalkInv' /\ DoomInv'
  BY <1>1, <1>2 DEF IInv, TypeOK, LiveInv, WalkInv, DoomInv
<1>6. EngineStep
  BY <1>1 DEF EngineStep, EL!vars
<1> QED BY <1>3, <1>4, <1>5, <1>6 DEF IInv

(***************************************************************************)
(* The inductive invariant holds in every state, when a TIMEOUT callback   *)
(* that deleted its timer returns XAPI_CONTINUE and no bucket of a         *)
(* worker's map has a session before its timer.                            *)
(***************************************************************************)
THEOREM Invariant ==
    ASSUME "timeout" \in Assumed, "spread" \in Assumed PROVE Spec => []IInv
<1>1. Init => IInv
  BY InitFacts
<1>2. IInv /\ [Next]_vars => IInv'
  BY NextStep, Stutter
<1> QED BY <1>1, <1>2, PTL DEF Spec

\* No freed session is used by a registered object or by an activation.
THEOREM SessionsStayAlive ==
    ASSUME "timeout" \in Assumed, "spread" \in Assumed PROVE Spec => []SessionsAlive
<1>1. IInv => SessionsAlive
  BY DEF IInv, LiveInv, HoldInv, SessionsAlive, Pos
<1> QED BY <1>1, Invariant, PTL

\* Variables have their types, and sessions and objects agree on each other, so
\* that XAPI_DeleteTimer and XAPI_Disconnect reach objects that exist.
THEOREM LinksStayConsistent ==
    ASSUME "timeout" \in Assumed, "spread" \in Assumed PROVE Spec => []LinksAgree
<1>1. IInv => LinksAgree
  BY DEF IInv, LiveInv, SessInv, LinksAgree
<1> QED BY <1>1, Invariant, PTL

\* Every allocated session is registered or being worked on, and no socket is
\* left open when its session is freed.
THEOREM NothingLeaks ==
    ASSUME "timeout" \in Assumed, "spread" \in Assumed PROVE Spec => []NoLeak
<1>1. IInv => NoLeak
  <2> SUFFICES ASSUME IInv PROVE NoLeak
    OBVIOUS
  <2>1. sock \subseteq sess
    BY DEF IInv, SessInv
  <2>2. ASSUME NEW s \in sess PROVE Busy(s) \/ \E d \in live \ isTimer : ctx[d] = s
    BY DEF IInv, SessInv, Busy, Pos, Ends
  <2> QED BY <2>1, <2>2 DEF NoLeak
<1> QED BY <1>1, Invariant, PTL

(***************************************************************************)
(* The API keeps the contract of the event engine: every behaviour of the  *)
(* session life cycle is a behaviour of EventLoop, so no object is deleted *)
(* twice, none of the bucket being destroyed is deleted, and no handler    *)
(* returns a request to use an object that is gone.                        *)
(***************************************************************************)
THEOREM ContractKept ==
    ASSUME "timeout" \in Assumed, "spread" \in Assumed PROVE Spec => KeepsEngineContract
<1>1. Init => EL!Init
  BY InitFacts
<1>2. IInv /\ [Next]_vars => [EL!Next]_EL!vars
  BY NextStep, Stutter DEF EngineStep
<1> QED BY <1>1, <1>2, Invariant, PTL DEF Spec, KeepsEngineContract, EL!Spec
=============================================================================
