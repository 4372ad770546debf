--------------------------- MODULE XEventsProofs ---------------------------
(***************************************************************************)
(* The memory safety of the event engine, for every set of objects and     *)
(* descriptors, every batch size and every assignment of descriptors to    *)
(* buckets, with and without the hash map.                                 *)
(*                                                                         *)
(* BatchAlive is not inductive: that a deletion nullifies every stale      *)
(* entry of the batch only helps if nothing else frees objects, which rests*)
(* on the kernel and the map pointing at the object that owns the          *)
(* descriptor, and on a CLEAR callback running once per object.  IInv      *)
(* states these together.                                                  *)
(***************************************************************************)
EXTENDS XEventsRefines, SequenceTheorems, TLAPS

Alive(d) == d \in alloc /\ ~InFrames(d)

FramesInv ==
    /\ \A i, j \in 1..Len(frames) : frames[i] = frames[j] => i = j
    /\ \A i \in 1..Len(frames) : frames[i] \in alloc
HeapInv == \A d \in alloc : ~InFrames(d) => fdOf[d] # NULL
KernelInv ==
    /\ \A f \in Fds : interest[f] # NULL =>
          Alive(interest[f]) /\ fdOf[interest[f]] = f /\ f \in open
    /\ ~EpollOpen => \A f \in Fds : interest[f] = NULL
MapInv ==
    \A f \in Fds : map[f] # NULL => UseHash /\ Alive(map[f]) /\ fdOf[map[f]] = f
DetachedInv ==
    \A f \in Fds : detached[f] # NULL =>
        /\ pc = "destroy" /\ map[f] = NULL
        /\ Alive(detached[f]) /\ fdOf[detached[f]] = f
ReachInv ==
    UseHash => \A d \in alloc : ~InFrames(d) => map[fdOf[d]] = d \/ detached[fdOf[d]] = d
BatchInv == \A j \in Slots : array[j] # NULL => j <= waitCount /\ Alive(array[j])
IdleInv == pc \in {"app", "destroy", "dead"} => waitCount = 0
WalkInv ==
    /\ pc \in {"loop", "stop"} => idx <= waitCount + 1
    /\ pc = "cb" => idx <= waitCount /\ cur # NULL /\ (~gone => Alive(cur))
DestroyInv ==
    /\ pc = "destroy" => UseHash /\ \A f \in Fds : Bucket(f) < bucket => map[f] = NULL
    /\ pc = "dead" => frames = NoFrames /\ (UseHash => alloc = {})

IInv == /\ TypeOK /\ FramesInv /\ HeapInv /\ KernelInv /\ MapInv /\ DetachedInv
        /\ ReachInv /\ BatchInv /\ IdleInv /\ WalkInv /\ DestroyInv

-----------------------------------------------------------------------------
(* The stack of CLEAR callbacks.                                           *)

\* Entering a CLEAR callback adds exactly one object to the stack, and keeps
\* the objects on it distinct when it was not there before.
LEMMA PushFrames ==
    ASSUME frames \in Seq(Data), NEW d \in Data, frames' = Append(frames, d)
    PROVE  /\ frames' \in Seq(Data)
           /\ frames' # NoFrames
           /\ \A x : InFrames(x)' <=> InFrames(x) \/ x = d
           /\ (\A i, j \in 1..Len(frames) : frames[i] = frames[j] => i = j) /\ ~InFrames(d) =>
                 \A i, j \in 1..Len(frames') : frames'[i] = frames'[j] => i = j
<1>1. /\ Len(frames') = Len(frames) + 1 /\ Len(frames) \in Nat
      /\ \A i \in 1..Len(frames) : frames'[i] = frames[i]
      /\ frames'[Len(frames) + 1] = d
  BY AppendProperties
<1>2. \A i \in 1..Len(frames') : i \in 1..Len(frames) \/ i = Len(frames) + 1
  BY <1>1
<1>3. \A i \in 1..Len(frames) : i \in 1..Len(frames')
  BY <1>1
<1>4. \A x : InFrames(x)' <=> InFrames(x) \/ x = d
  BY <1>1, <1>2, <1>3 DEF InFrames
<1>5. frames' \in Seq(Data) /\ frames' # NoFrames
  BY <1>1, AppendProperties, EmptySeq DEF NoFrames
<1>6. ASSUME \A i, j \in 1..Len(frames) : frames[i] = frames[j] => i = j, ~InFrames(d),
             NEW i \in 1..Len(frames'), NEW j \in 1..Len(frames'), frames'[i] = frames'[j]
      PROVE  i = j
  BY <1>1, <1>2, <1>6 DEF InFrames
<1> QED BY <1>4, <1>5, <1>6

\* Leaving a CLEAR callback removes the innermost object from the stack.
LEMMA PopFrames ==
    ASSUME frames \in Seq(Data), frames # NoFrames, frames' = Pop(frames),
           \A i, j \in 1..Len(frames) : frames[i] = frames[j] => i = j
    PROVE  /\ frames' \in Seq(Data)
           /\ Len(frames) \in 1..Len(frames)
           /\ \A x : InFrames(x)' <=> InFrames(x) /\ x # frames[Len(frames)]
           /\ \A i, j \in 1..Len(frames') : frames'[i] = frames'[j] => i = j
<1>1. Len(frames) \in Nat /\ Len(frames) # 0
  BY EmptySeq DEF NoFrames
<1>2. frames' \in [1..(Len(frames) - 1) -> Data]
  BY <1>1, ElementOfSeq DEF Pop
<1>3. /\ frames' \in Seq(Data) /\ Len(frames') = Len(frames) - 1
      /\ \A i \in 1..Len(frames') : frames'[i] = frames[i]
  BY <1>1, <1>2, IsASeq, LenProperties DEF Pop
<1>4. \A i \in 1..Len(frames) : i \in 1..Len(frames') \/ i = Len(frames)
  BY <1>1, <1>3
<1>5. \A i \in 1..Len(frames') : i \in 1..Len(frames) /\ i # Len(frames)
  BY <1>1, <1>3
<1>6. Len(frames) \in 1..Len(frames)
  BY <1>1
<1>7. \A x : InFrames(x)' <=> InFrames(x) /\ x # frames[Len(frames)]
  <2>1. ASSUME NEW x, InFrames(x)' PROVE InFrames(x) /\ x # frames[Len(frames)]
    <3>1. PICK i \in 1..Len(frames') : frames'[i] = x
      BY <2>1 DEF InFrames
    <3>2. i \in 1..Len(frames) /\ i # Len(frames) /\ frames[i] = x
      BY <1>3, <1>5, <3>1
    <3> QED BY <1>6, <3>2 DEF InFrames
  <2>2. ASSUME NEW x, InFrames(x), x # frames[Len(frames)] PROVE InFrames(x)'
    <3>1. PICK i \in 1..Len(frames) : frames[i] = x
      BY <2>2 DEF InFrames
    <3>2. i \in 1..Len(frames') /\ frames'[i] = x
      BY <1>3, <1>4, <2>2, <3>1
    <3> QED BY <3>2 DEF InFrames
  <2> QED BY <2>1, <2>2
<1> QED BY <1>3, <1>5, <1>6, <1>7

-----------------------------------------------------------------------------
(* The engine's own steps.                                                 *)

\* In the invariant the hash map leads a deletion to the object it was asked
\* to delete.
LEMMA DeleteTarget ==
    ASSUME IInv, NEW d \in Data, Alive(d), \A f \in Fds : detached[f] # d
    PROVE  /\ fdOf[d] \in Fds
           /\ Target(d) = d
           /\ UseHash => map[fdOf[d]] = d
BY NullAssumption DEF IInv, TypeOK, HeapInv, ReachInv, MapInv, Alive, Target

\* XEvents_Delete of a live object keeps the invariant, from whichever place it
\* is called.
LEMMA DeletePreserves ==
    ASSUME IInv, NEW d \in Data, Alive(d), \A f \in Fds : detached[f] # d,
           XEvents_Delete(d), UNCHANGED <<cur, reason, user, dtor>>,
           pc # "dead", pc' = pc \/ (pc = "cb" /\ pc' = "stop")
    PROVE  IInv'
<1> DEFINE f == fdOf[d]
<1>1. f \in Fds /\ Target(d) = d /\ (UseHash => map[f] = d)
  BY DeleteTarget
<1>2. /\ frames' = Append(frames, d) /\ UNCHANGED <<alloc, type>>
      /\ open' \subseteq open /\ (\A g \in open : g # f => g \in open')
      /\ timer' \in [Fds -> {"none", "armed", "expired"}]
      /\ fdOf' \in [Data -> Fds \cup {NULL}]
      /\ \A x \in Data : x # d => fdOf'[x] = fdOf[x]
  <2>1. ClearCb(d)
    BY <1>1 DEF XEvents_Delete
  <2>2. /\ open \subseteq Fds /\ timer \in [Fds -> {"none", "armed", "expired"}]
        /\ fdOf \in [Data -> Fds \cup {NULL}]
    BY DEF IInv, TypeOK
  <2> QED BY <1>1, <2>1, <2>2 DEF ClearCb
<1>3. /\ frames' \in Seq(Data) /\ frames' # NoFrames
      /\ \A x : InFrames(x)' <=> InFrames(x) \/ x = d
      /\ \A i, j \in 1..Len(frames') : frames'[i] = frames'[j] => i = j
  BY <1>2, PushFrames DEF IInv, TypeOK, FramesInv, Alive
<1>4. \A x : Alive(x)' <=> Alive(x) /\ x # d
  BY <1>2, <1>3 DEF Alive
<1>5. /\ interest' \in [Fds -> Ptr] /\ count' \in Nat
      /\ \A g \in Fds : interest'[g] # NULL =>
            interest'[g] = interest[g] /\ interest[g] # d /\ g # f
  BY <1>1, NullAssumption DEF XEvents_Delete, Decrement, IInv, TypeOK, KernelInv, Ptr, EpollOpen
<1>6. /\ map' \in [Fds -> Ptr] /\ newer' \subseteq Fds \X Fds
      /\ \A g \in Fds : map'[g] # NULL => map'[g] = map[g] /\ map[g] # d
      /\ \A g \in Fds : g # f => map'[g] = map[g]
  BY <1>1, NullAssumption
  DEF XEvents_Delete, XHash_Delete, Forget, hash, IInv, TypeOK, MapInv, Ptr
<1>7. /\ array' \in [Slots -> Ptr] /\ UNCHANGED <<evs, waitCount, idx>>
      /\ \A j \in Slots : array'[j] # NULL => array'[j] = array[j] /\ array[j] # d
  BY DEF XEvents_Delete, InvalidateBatch, IInv, TypeOK, BatchInv, Ptr
<1>8. gone' = (gone \/ d = cur) /\ gone' \in BOOLEAN
  BY DEF XEvents_Delete, IInv, TypeOK
<1>9. UNCHANGED <<detached, bucket>>
  BY DEF dtor
<1>10. TypeOK'
  BY <1>2, <1>3, <1>5, <1>6, <1>7, <1>8, <1>9 DEF IInv, TypeOK
<1>11. FramesInv'
  <2>1. \A x : \A i \in 1..Len(frames') : frames'[i] = x => InFrames(x)'
    BY DEF InFrames
  <2>2. \A x : InFrames(x) => x \in alloc
    BY DEF IInv, FramesInv, InFrames
  <2> QED BY <1>2, <1>3, <2>1, <2>2 DEF FramesInv, Alive
<1>12. HeapInv'
  BY <1>2, <1>3 DEF IInv, TypeOK, HeapInv
<1>13. KernelInv'
  BY <1>2, <1>4, <1>5, NullAssumption DEF IInv, TypeOK, KernelInv, EpollOpen, Alive, Ptr
<1>14. MapInv'
  BY <1>2, <1>4, <1>6, NullAssumption DEF IInv, TypeOK, MapInv, Alive, Ptr
<1>15. DetachedInv'
  BY <1>2, <1>4, <1>6, <1>9, NullAssumption DEF IInv, TypeOK, DetachedInv, Alive, Ptr
<1>16. ReachInv'
  <2> SUFFICES ASSUME UseHash, NEW x \in alloc, ~InFrames(x), x # d
               PROVE  map'[fdOf'[x]] = x \/ detached'[fdOf'[x]] = x
    BY <1>2, <1>3 DEF ReachInv
  <2>1. fdOf'[x] = fdOf[x] /\ fdOf[x] \in Fds
    BY <1>2 DEF IInv, TypeOK, HeapInv
  <2>2. map[fdOf[x]] = x \/ detached[fdOf[x]] = x
    BY DEF IInv, ReachInv
  <2>3. CASE map[fdOf[x]] = x
    <3>1. fdOf[x] # f
      BY <1>1, <2>3
    <3> QED BY <1>6, <2>1, <2>3, <3>1
  <2> QED BY <1>9, <2>1, <2>2, <2>3
<1>17. BatchInv'
  BY <1>4, <1>7 DEF IInv, BatchInv
<1>18. WalkInv'
  <2>1. ~gone' => ~gone /\ d # cur
    BY <1>8
  <2>2. pc' \in {"loop", "stop"} => idx' <= waitCount' + 1
    BY <1>7 DEF IInv, TypeOK, WalkInv
  <2>3. ASSUME pc' = "cb" PROVE idx' <= waitCount' /\ cur' # NULL /\ (~gone' => Alive(cur)')
    <3>1. idx <= waitCount /\ cur # NULL /\ (~gone => Alive(cur))
      BY <2>3 DEF IInv, WalkInv
    <3>2. ~gone' => Alive(cur)'
      BY <1>4, <2>1, <3>1, Zenon DEF Alive
    <3> QED BY <1>7, <3>1, <3>2
  <2> QED BY <2>2, <2>3 DEF WalkInv
<1>19. DestroyInv' /\ IdleInv'
  BY <1>6, <1>7, <1>9 DEF IInv, TypeOK, DestroyInv, IdleInv
<1> QED
  BY <1>10, <1>11, <1>12, <1>13, <1>14, <1>15, <1>16, <1>17, <1>18, <1>19 DEF IInv

\* ClearReturn frees the innermost object of the stack and nothing else.
LEMMA ClearReturnPreserves == IInv /\ ClearReturn => IInv'
<1> SUFFICES ASSUME IInv, ClearReturn PROVE IInv'
  OBVIOUS
<1> DEFINE d == frames[Len(frames)]
<1>1. /\ frames' \in Seq(Data)
      /\ Len(frames) \in 1..Len(frames)
      /\ \A x : InFrames(x)' <=> InFrames(x) /\ x # d
      /\ \A i, j \in 1..Len(frames') : frames'[i] = frames'[j] => i = j
  BY PopFrames DEF ClearReturn, IInv, TypeOK, FramesInv
<1>2. d \in Data /\ InFrames(d)
  BY <1>1, ElementOfSeq DEF IInv, TypeOK, InFrames
<1>3. /\ alloc' = alloc \ {d} /\ fdOf' = [fdOf EXCEPT ![d] = NULL]
      /\ type' = [type EXCEPT ![d] = "sock"]
      /\ UNCHANGED <<open, timer, interest, map, newer, count, array, evs, waitCount, idx,
                     pc, cur, reason, user, gone, detached, bucket>>
  BY DEF ClearReturn, kernel, hash, batch, walk, dtor
<1>4. \A x : Alive(x)' <=> Alive(x)
  BY <1>1, <1>2, <1>3 DEF Alive
<1>5. \A x \in Data : Alive(x) => fdOf'[x] = fdOf[x]
  BY <1>2, <1>3 DEF Alive, IInv, TypeOK
<1>6. TypeOK'
  BY <1>1, <1>2, <1>3 DEF IInv, TypeOK, Types
<1>7. FramesInv'
  <2>1. \A x : \A i \in 1..Len(frames') : frames'[i] = x => InFrames(x)'
    BY DEF InFrames
  <2>2. \A x : InFrames(x) => x \in alloc
    BY DEF IInv, FramesInv, InFrames
  <2> QED BY <1>1, <1>3, <2>1, <2>2 DEF FramesInv
<1>8. HeapInv'
  BY <1>3, <1>4, <1>5 DEF HeapInv, IInv, TypeOK, Alive
<1>9. KernelInv'
  BY <1>3, <1>4, <1>5, NullAssumption DEF KernelInv, IInv, TypeOK, Ptr, EpollOpen
<1>10. MapInv'
  BY <1>3, <1>4, <1>5, NullAssumption DEF MapInv, IInv, TypeOK, Ptr
<1>11. DetachedInv'
  BY <1>3, <1>4, <1>5, NullAssumption DEF DetachedInv, IInv, TypeOK, Ptr
<1>12. ReachInv'
  <2>1. \A x \in alloc' : ~InFrames(x)' => x \in Data /\ Alive(x) /\ fdOf'[x] = fdOf[x]
    BY <1>1, <1>3, <1>4, <1>5 DEF Alive, IInv, TypeOK
  <2> QED BY <1>3, <2>1 DEF ReachInv, IInv, Alive
<1>13. BatchInv'
  BY <1>3, <1>4 DEF BatchInv, IInv
<1>14. WalkInv'
  BY <1>3, <1>4 DEF WalkInv, IInv
<1>15. DestroyInv' /\ IdleInv'
  BY <1>3 DEF DestroyInv, IdleInv, IInv, ClearReturn
<1> QED
  BY <1>6, <1>7, <1>8, <1>9, <1>10, <1>11, <1>12, <1>13, <1>14, <1>15 DEF IInv

\* XEvents_Add of a free object, by one of its three callers, keeps the
\* invariant; a refused object leaves no trace.
LEMMA AddPreserves ==
    ASSUME IInv, EpollOpen, NEW d \in Data, d \notin alloc, NEW f \in Fds, NEW t \in Types,
           interest[f] = NULL, XEvents_Add(d, f, t),
           open' = IF XHash_Insert(f) THEN open \cup {f} ELSE open,
           timer' \in [Fds -> {"none", "armed", "expired"}],
           UNCHANGED <<batch, walk, gone, frames, dtor>>
    PROVE  IInv'
<1>1. UNCHANGED <<array, evs, waitCount, idx, pc, cur, reason, user, gone, frames,
                  detached, bucket>>
  BY DEF batch, walk, dtor
<1>2. \A x : InFrames(x)' <=> InFrames(x)
  BY <1>1 DEF InFrames
<1>3. ~InFrames(d)
  BY DEF IInv, FramesInv, InFrames
<1>4. pc # "destroy" /\ pc # "dead" /\ \A g \in Fds : detached[g] = NULL
  BY DEF EpollOpen, IInv, DetachedInv
<1>5. CASE ~XHash_Insert(f)
  <2>1. UNCHANGED <<alloc, fdOf, type, map, newer, count>> /\ interest' = interest
    BY <1>5 DEF XEvents_Add, AddRollback, heap, hash, IInv, TypeOK
  <2>2. \A x : Alive(x)' <=> Alive(x)
    BY <1>2, <2>1 DEF Alive
  <2>3. TypeOK' /\ FramesInv'
    BY <1>1, <2>1 DEF IInv, TypeOK, FramesInv
  <2>4. HeapInv' /\ ReachInv'
    BY <1>1, <1>2, <2>1 DEF IInv, HeapInv, ReachInv
  <2>5. KernelInv'
    BY <1>1, <1>5, <2>1, <2>2 DEF IInv, KernelInv, EpollOpen
  <2>6. MapInv' /\ DetachedInv'
    BY <1>1, <2>1, <2>2 DEF IInv, MapInv, DetachedInv
  <2>7. BatchInv' /\ WalkInv'
    BY <1>1, <2>1, <2>2 DEF IInv, BatchInv, WalkInv
  <2>8. IdleInv' /\ DestroyInv'
    BY <1>1, <2>1 DEF IInv, IdleInv, DestroyInv
  <2> QED BY <2>3, <2>4, <2>5, <2>6, <2>7, <2>8 DEF IInv
<1>6. CASE XHash_Insert(f)
  <2>1. /\ interest' = [interest EXCEPT ![f] = d] /\ alloc' = alloc \cup {d}
        /\ fdOf' = [fdOf EXCEPT ![d] = f] /\ type' = [type EXCEPT ![d] = t]
        /\ count' = (count + 1) % CountMod
    BY <1>6 DEF XEvents_Add
  <2>2. /\ map' \in [Fds -> Ptr] /\ newer' \subseteq Fds \X Fds
        /\ UseHash => map' = [map EXCEPT ![f] = d] /\ map[f] = NULL
        /\ ~UseHash => map' = map
    <3>1. map \in [Fds -> Ptr] /\ newer \subseteq Fds \X Fds
      BY DEF IInv, TypeOK
    <3>2. CASE UseHash
      <4>1. /\ map' = [map EXCEPT ![f] = d] /\ map[f] = NULL
            /\ newer' = newer \cup {<<f, g>> : g \in {h \in Fds : map[h] # NULL}}
        BY <1>6, <3>2 DEF XEvents_Add, XHash_Insert
      <4>2. {<<f, g>> : g \in {h \in Fds : map[h] # NULL}} \subseteq Fds \X Fds
        OBVIOUS
      <4> QED BY <3>1, <3>2, <4>1, <4>2 DEF Ptr
    <3>3. CASE ~UseHash
      BY <1>6, <3>1, <3>3 DEF XEvents_Add, hash
    <3> QED BY <3>2, <3>3
  <2>3. \A x : Alive(x)' <=> Alive(x) \/ x = d
    BY <1>2, <1>3, <2>1 DEF Alive
  <2>4. \A x \in Data : x # d => fdOf'[x] = fdOf[x]
    BY <2>1 DEF IInv, TypeOK
  <2>5. fdOf'[d] = f
    BY <2>1 DEF IInv, TypeOK
  <2>6. TypeOK'
    <3>1. count' \in Nat
      BY <2>1, CountAssumption DEF IInv, TypeOK
    <3> QED BY <1>1, <1>6, <2>1, <2>2, <3>1 DEF IInv, TypeOK, Ptr
  <2>7. FramesInv'
    BY <1>1, <2>1 DEF IInv, FramesInv
  <2>8. HeapInv'
    BY <1>2, <2>1, <2>4, <2>5, NullAssumption DEF IInv, TypeOK, HeapInv
  <2>9. KernelInv'
    <3> SUFFICES ASSUME NEW g \in Fds, interest'[g] # NULL
                 PROVE  Alive(interest[g])' /\ fdOf'[interest'[g]] = g /\ g \in open'
      BY <1>1, <1>4 DEF KernelInv, EpollOpen
    <3>1. CASE g = f
      BY <1>2, <1>3, <1>6, <2>1, <2>5, <3>1 DEF IInv, TypeOK, Alive
    <3>2. CASE g # f
      <4>1. interest'[g] = interest[g] /\ interest[g] \in Data
        BY <2>1, <3>2 DEF IInv, TypeOK, Ptr
      <4>2. Alive(interest[g]) /\ fdOf[interest[g]] = g /\ g \in open
        BY <4>1 DEF IInv, KernelInv
      <4>3. interest[g] # d
        BY <4>2 DEF Alive
      <4>4. Alive(interest[g])'
        BY <1>2, <2>1, <4>1, <4>2 DEF Alive
      <4> QED BY <1>6, <2>4, <4>1, <4>2, <4>3, <4>4
    <3> QED BY <3>1, <3>2
  <2>10. MapInv'
    <3> SUFFICES ASSUME NEW g \in Fds, map'[g] # NULL
                 PROVE  UseHash /\ Alive(map[g])' /\ fdOf'[map'[g]] = g
      BY DEF MapInv
    <3>1. UseHash
      BY <2>2 DEF IInv, MapInv
    <3>2. CASE g = f
      BY <1>2, <1>3, <2>1, <2>2, <2>5, <3>1, <3>2 DEF IInv, TypeOK, Alive
    <3>3. CASE g # f
      <4>1. map'[g] = map[g] /\ map[g] \in Data
        BY <2>2, <3>1, <3>3 DEF IInv, TypeOK, Ptr
      <4>2. Alive(map[g]) /\ fdOf[map[g]] = g
        BY <4>1 DEF IInv, MapInv
      <4>3. map[g] # d
        BY <4>2 DEF Alive
      <4>4. Alive(map[g])'
        BY <1>2, <2>1, <4>1, <4>2 DEF Alive
      <4> QED BY <2>4, <3>1, <4>1, <4>2, <4>3, <4>4
    <3> QED BY <3>2, <3>3
  <2>11. DetachedInv'
    BY <1>1, <1>4 DEF DetachedInv
  <2>12. ReachInv'
    <3> SUFFICES ASSUME UseHash, NEW x \in alloc', ~InFrames(x)
                 PROVE  map'[fdOf'[x]] = x
      BY <1>2 DEF ReachInv
    <3>1. CASE x = d
      BY <2>2, <2>5, <3>1 DEF IInv, TypeOK
    <3>2. CASE x # d
      <4>1. x \in alloc /\ x \in Data /\ fdOf'[x] = fdOf[x] /\ fdOf[x] \in Fds
        BY <2>1, <2>4, <3>2 DEF IInv, TypeOK, HeapInv
      <4>2. map[fdOf[x]] = x
        BY <1>4, <4>1, NullAssumption DEF IInv, ReachInv
      <4> QED BY <2>2, <4>1, <4>2, NullAssumption DEF IInv, TypeOK
    <3> QED BY <3>1, <3>2
  <2>13. BatchInv'
    BY <1>1, <2>3 DEF IInv, BatchInv
  <2>14. WalkInv'
    BY <1>1, <2>3 DEF IInv, WalkInv
  <2>15. DestroyInv' /\ IdleInv'
    BY <1>1, <1>4 DEF DestroyInv, IInv, IdleInv
  <2> QED
    BY <2>6, <2>7, <2>8, <2>9, <2>10, <2>11, <2>12, <2>13, <2>14, <2>15 DEF IInv
<1> QED BY <1>5, <1>6

\* A step that leaves the objects, the map and the CLEAR stack alone keeps the
\* invariant once it keeps the conjuncts about the kernel and the walk.
LEMMA QuietPreserves ==
    ASSUME IInv, TypeOK', KernelInv', BatchInv', IdleInv', WalkInv',
           UNCHANGED <<alloc, fdOf, map, frames, detached, bucket>>,
           \/ pc' = pc
           \/ pc \notin {"destroy", "dead"} /\ pc' \notin {"destroy", "dead"}
    PROVE  IInv'
<1>1. \A x : InFrames(x)' <=> InFrames(x)
  BY DEF InFrames
<1>2. FramesInv' /\ HeapInv' /\ ReachInv'
  BY <1>1 DEF IInv, FramesInv, HeapInv, ReachInv
<1>3. MapInv' /\ DetachedInv'
  BY <1>1 DEF IInv, MapInv, DetachedInv, Alive
<1>4. DestroyInv'
  BY DEF IInv, DestroyInv
<1> QED BY <1>2, <1>3, <1>4 DEF IInv

\* The steps of the kernel and of the application on a descriptor.
LEMMA DescriptorPreserves ==
    ASSUME IInv, NEW f \in Fds, AppClose(f) \/ Expire(f) PROVE IInv'
<1>1. /\ UNCHANGED <<alloc, fdOf, type, map, newer, count, array, evs, waitCount, idx,
                     pc, cur, reason, user, gone, frames, detached, bucket>>
      /\ open' \subseteq open /\ timer' \in [Fds -> {"none", "armed", "expired"}]
      /\ interest' \in [Fds -> Ptr]
      /\ \A g \in Fds : interest'[g] # NULL =>
            interest'[g] = interest[g] /\ (g \in open => g \in open')
  BY DEF AppClose, Expire, heap, hash, batch, walk, dtor, IInv, TypeOK, Ptr
<1>2. \A x : Alive(x)' <=> Alive(x)
  BY <1>1 DEF Alive, InFrames
<1>3. TypeOK'
  BY <1>1 DEF IInv, TypeOK
<1>4. KernelInv'
  BY <1>1, <1>2 DEF IInv, KernelInv, EpollOpen
<1>5. BatchInv' /\ IdleInv' /\ WalkInv'
  BY <1>1, <1>2 DEF IInv, BatchInv, IdleInv, WalkInv
<1> QED BY <1>1, <1>3, <1>4, <1>5, QuietPreserves

LEMMA ExtendPreserves ==
    ASSUME IInv, NEW d \in Data, AppExtendTimer(d) PROVE IInv'
<1>1. /\ UNCHANGED <<open, interest, alloc, fdOf, type, map, newer, count, array, evs,
                     waitCount, idx, pc, cur, reason, user, gone, frames, detached, bucket>>
      /\ timer' \in [Fds -> {"none", "armed", "expired"}]
  BY DEF AppExtendTimer, XEvents_ExtendTimer, heap, hash, batch, walk, dtor, IInv, TypeOK
<1>2. \A x : Alive(x)' <=> Alive(x)
  BY <1>1 DEF Alive, InFrames
<1>3. TypeOK' /\ KernelInv'
  BY <1>1, <1>2 DEF IInv, TypeOK, KernelInv, EpollOpen
<1>4. BatchInv' /\ IdleInv' /\ WalkInv'
  BY <1>1, <1>2 DEF IInv, BatchInv, IdleInv, WalkInv
<1> QED BY <1>1, <1>3, <1>4, QuietPreserves

\* What epoll_wait stores in the batch is alive, because KernelInv holds.
LEMMA EpollWaitPreserves == IInv /\ EpollWait => IInv'
<1> SUFFICES ASSUME IInv, EpollWait PROVE IInv'
  OBVIOUS
<1>1. /\ UNCHANGED <<open, timer, interest, alloc, fdOf, type, map, newer, count,
                     cur, reason, user, gone, frames, detached, bucket>>
      /\ idx' = 1 /\ pc' = "loop" /\ pc = "app"
  BY DEF EpollWait, kernel, heap, hash, dtor
<1>2. PICK n \in Slots : \E s \in [1..n -> Reported] :
         /\ array' = [j \in Slots |-> IF j <= n THEN interest[s[j].fd] ELSE NULL]
         /\ evs'   = [j \in Slots |-> IF j <= n THEN s[j].events ELSE {}]
         /\ waitCount' = n
  BY DEF EpollWait
<1>3. PICK s \in [1..n -> Reported] :
         /\ array' = [j \in Slots |-> IF j <= n THEN interest[s[j].fd] ELSE NULL]
         /\ evs'   = [j \in Slots |-> IF j <= n THEN s[j].events ELSE {}]
         /\ waitCount' = n
  BY <1>2
<1>4. \A r \in Reported : r.fd \in Fds /\ interest[r.fd] # NULL /\ r.events \subseteq Flags
  <2> SUFFICES ASSUME NEW r \in Reported
               PROVE  r.fd \in Fds /\ interest[r.fd] # NULL /\ r.events \subseteq Flags
    OBVIOUS
  <2>1. PICK f \in Fds : interest[f] # NULL /\ \E e \in ReadyFor(interest[f]) :
                            r = [fd |-> f, events |-> e]
    BY DEF Reported
  <2>2. interest[f] \in Data
    BY <2>1 DEF IInv, TypeOK, Ptr
  <2>3. \A e \in ReadyFor(interest[f]) : e \subseteq Flags
    BY <2>2, ReadyAssumption DEF ReadyFor, Flags, IInv, TypeOK, Types
  <2> QED BY <2>1, <2>3
<1>5. \A j \in Slots : j <= n => s[j] \in Reported
  BY BatchAssumption DEF Slots
<1>6. /\ array' \in [Slots -> Ptr] /\ evs' \in [Slots -> SUBSET Flags]
      /\ \A j \in Slots : array'[j] # NULL => j <= n /\ Alive(array'[j])
  <2>1. \A j \in Slots : j <= n => interest[s[j].fd] \in Ptr /\ Alive(interest[s[j].fd])
    BY <1>4, <1>5 DEF IInv, TypeOK, KernelInv
  <2>2. \A j \in Slots : j <= n => s[j].events \in SUBSET Flags
    BY <1>4, <1>5
  <2>3. array' \in [Slots -> Ptr] /\ evs' \in [Slots -> SUBSET Flags]
    BY <1>3, <2>1, <2>2 DEF Ptr
  <2> QED BY <1>3, <2>1, <2>3
<1>7. n \in 1..NEventMax
  BY DEF Slots
<1>8. \A x : Alive(x)' <=> Alive(x)
  BY <1>1 DEF Alive, InFrames
<1>9. TypeOK'
  BY <1>1, <1>3, <1>6, <1>7, BatchAssumption DEF IInv, TypeOK
<1>10. KernelInv'
  BY <1>1, <1>8 DEF IInv, KernelInv, EpollOpen
<1>11. BatchInv'
  BY <1>1, <1>3, <1>6 DEF BatchInv, Alive, InFrames
<1>12. WalkInv' /\ IdleInv'
  BY <1>1, <1>3, <1>7, BatchAssumption DEF WalkInv, IdleInv
<1> QED BY <1>1, <1>9, <1>10, <1>11, <1>12, QuietPreserves

\* The loop of XEvents_Service and the callbacks' return values, deletions aside.
LEMMA ServicePreserves ==
    ASSUME IInv, ServiceSkip \/ ServiceSock \/ ServiceTimer \/ ReturnContinue \/ ReturnStop
                 \/ ReturnUserCall \/ LoopEnd \/ LoopBreak
    PROVE  IInv'
<1>1. /\ UNCHANGED <<open, interest, alloc, fdOf, type, map, newer, count, frames,
                     detached, bucket>>
      /\ pc \in {"loop", "cb", "stop"} /\ pc' \in {"app", "loop", "cb", "stop"}
  BY DEF ServiceSkip, ServiceSock, ServiceTimer, ReturnContinue, ReturnStop, ReturnUserCall,
         LoopEnd, LoopBreak, ServiceEnd, CallbackStart, InLoop, InCallback,
         kernel, heap, hash, batch, walk, dtor
<1>2. \A x : Alive(x)' <=> Alive(x)
  BY <1>1 DEF Alive, InFrames
<1>3. KernelInv' /\ IdleInv'
  <2>1. pc' = "app" => waitCount' = 0
    BY <1>1 DEF ServiceSkip, ServiceSock, ServiceTimer, ReturnContinue, ReturnStop,
                ReturnUserCall, LoopEnd, LoopBreak, ServiceEnd, CallbackStart, InLoop,
                InCallback, walk
  <2> QED BY <1>1, <1>2, <2>1 DEF IInv, KernelInv, EpollOpen, IdleInv
<1>4. CASE ServiceSkip
  <2>1. /\ UNCHANGED <<timer, array, evs, waitCount, pc, cur, reason, user, gone>>
        /\ idx' = idx + 1 /\ pc = "loop" /\ idx <= waitCount
    BY <1>4 DEF ServiceSkip, InLoop, kernel, walk
  <2>2. TypeOK'
    BY <1>1, <2>1, BatchAssumption DEF IInv, TypeOK
  <2>3. BatchInv' /\ WalkInv'
    BY <1>2, <2>1, BatchAssumption DEF IInv, TypeOK, BatchInv, WalkInv
  <2> QED BY <1>1, <1>3, <2>2, <2>3, QuietPreserves
<1>5. CASE ServiceSock \/ ServiceTimer
  <2>1. /\ UNCHANGED <<array, evs, waitCount, idx>>
        /\ pc' = "cb" /\ cur' = array[idx] /\ array[idx] # NULL
        /\ idx <= waitCount /\ user' = FALSE /\ gone' = FALSE
    BY <1>5 DEF ServiceSock, ServiceTimer, CallbackStart, InLoop, batch
  <2>2. reason' \in Reasons /\ timer' \in [Fds -> {"none", "armed", "expired"}]
    BY <1>5 DEF ServiceSock, ServiceTimer, CallbackStart, FirstReason, Reasons, IInv, TypeOK
  <2>3. idx \in Slots
    BY <2>1, BatchAssumption DEF IInv, TypeOK, Slots
  <2>4. Alive(array[idx]) /\ array[idx] \in Ptr
    BY <2>1, <2>3 DEF IInv, BatchInv, TypeOK
  <2>5. TypeOK'
    BY <1>1, <2>1, <2>2, <2>4 DEF IInv, TypeOK
  <2>6. BatchInv'
    BY <1>2, <2>1 DEF IInv, BatchInv
  <2>7. Alive(cur)'
    BY <1>1, <2>1, <2>4 DEF Alive, InFrames
  <2>8. WalkInv'
    BY <2>1, <2>7 DEF WalkInv
  <2> QED BY <1>1, <1>3, <2>5, <2>6, <2>8, QuietPreserves
<1>6. CASE ReturnContinue
  <2>1. /\ UNCHANGED <<timer, array, evs, waitCount>>
        /\ pc = "cb" /\ user' = FALSE /\ gone' = FALSE
        /\ \/ ReadNext /\ reason' = "READ" /\ UNCHANGED <<pc, cur, idx>>
           \/ pc' = "loop" /\ idx' = idx + 1 /\ cur' = NULL /\ reason' = "NONE"
    BY <1>6 DEF ReturnContinue, InCallback, kernel
  <2>2. idx <= waitCount /\ cur # NULL /\ (~gone => Alive(cur))
    BY <2>1 DEF IInv, WalkInv
  <2>3. TypeOK'
    <3>1. idx' \in {idx, idx + 1} /\ cur' \in {cur, NULL} /\ reason' \in {"READ", "NONE"}
      BY <2>1
    <3>2. idx' \in 1..(NEventMax + 1)
      BY <2>2, <3>1, BatchAssumption DEF IInv, TypeOK
    <3> QED BY <1>1, <2>1, <3>1, <3>2 DEF IInv, TypeOK, Reasons, Ptr
  <2>4. BatchInv'
    BY <1>2, <2>1 DEF IInv, BatchInv
  <2>5. pc' = "cb" => UNCHANGED <<cur, idx>> /\ Alive(cur)
    <3>1. pc' = "cb" => UNCHANGED <<cur, idx>> /\ ReadNext
      BY <2>1
    <3>2. ReadNext => ~gone
      BY <1>6, Zenon DEF ReturnContinue
    <3> QED BY <2>2, <3>1, <3>2, Zenon
  <2>6. pc' = "cb" => Alive(cur)'
    BY <1>1, <2>5 DEF Alive, InFrames
  <2>7. pc' = "loop" => idx' <= waitCount' + 1
    BY <2>1, <2>2 DEF IInv, TypeOK
  <2>8. pc' # "stop"
    BY <2>1
  <2>9. WalkInv'
    BY <2>1, <2>2, <2>5, <2>6, <2>7, <2>8 DEF WalkInv
  <2> QED BY <1>1, <1>3, <2>3, <2>4, <2>9, QuietPreserves
<1>7. CASE ReturnStop \/ ReturnUserCall
  <2>1. /\ UNCHANGED <<timer, array, evs, waitCount, idx, cur, reason, gone>>
        /\ pc = "cb" /\ pc' \in {"cb", "stop"} /\ user' \in BOOLEAN
    BY <1>7 DEF ReturnStop, ReturnUserCall, InCallback, kernel, batch, IInv, TypeOK
  <2>2. TypeOK'
    BY <1>1, <2>1 DEF IInv, TypeOK
  <2>3. BatchInv'
    BY <1>2, <2>1 DEF IInv, BatchInv
  <2>4. idx <= waitCount /\ idx <= waitCount + 1 /\ cur # NULL /\ (~gone => Alive(cur))
    BY <2>1 DEF IInv, TypeOK, WalkInv
  <2>5. ~gone' => Alive(cur)'
    <3>1. Alive(cur)' <=> Alive(cur)
      BY <1>1, <2>1 DEF Alive, InFrames
    <3> QED BY <2>1, <2>4, <3>1, Zenon
  <2>6. WalkInv'
    <3>1. idx' <= waitCount' /\ idx' <= waitCount' + 1 /\ cur' # NULL
      BY <2>1, <2>4
    <3> QED BY <2>1, <2>5, <3>1, Zenon DEF WalkInv
  <2> QED BY <1>1, <1>3, <2>2, <2>3, <2>6, QuietPreserves
<1>8. CASE LoopEnd \/ LoopBreak
  <2>1. /\ UNCHANGED timer /\ pc' = "app" /\ waitCount' = 0 /\ idx' = 1
        /\ array' = [j \in Slots |-> NULL] /\ evs' = [j \in Slots |-> {}]
        /\ cur' = NULL /\ reason' = "NONE" /\ user' = FALSE /\ gone' = FALSE
    BY <1>8 DEF LoopEnd, LoopBreak, ServiceEnd, kernel
  <2>2. TypeOK'
    <3>1. waitCount' \in 0..NEventMax /\ idx' \in 1..(NEventMax + 1)
      BY <2>1, BatchAssumption
    <3>2. array' \in [Slots -> Ptr] /\ evs' \in [Slots -> SUBSET Flags]
      BY <2>1 DEF Ptr
    <3>3. cur' \in Ptr /\ reason' \in Reasons /\ user' \in BOOLEAN /\ gone' \in BOOLEAN
      BY <2>1 DEF Reasons, Ptr
    <3> QED BY <1>1, <2>1, <3>1, <3>2, <3>3 DEF IInv, TypeOK
  <2>3. BatchInv' /\ WalkInv'
    BY <2>1 DEF BatchInv, WalkInv
  <2> QED BY <1>1, <1>3, <2>2, <2>3, QuietPreserves
<1> QED BY <1>4, <1>5, <1>6, <1>7, <1>8

\* XEvents_Destroy and XHash_Destroy, bucket by bucket and node by node.
LEMMA DestroyNodePreserves ==
    ASSUME IInv, NEW f \in Fds, DestroyNode(f) PROVE IInv'
<1> DEFINE d == detached[f]
<1>1. /\ pc = "destroy" /\ d \in Data /\ Alive(d) /\ fdOf[d] = f
      /\ \A g \in Fds : interest[g] = NULL
  BY DEF DestroyNode, InDestroy, IInv, TypeOK, Ptr, DetachedInv, KernelInv, EpollOpen
<1>2. /\ frames' = Append(frames, d) /\ UNCHANGED <<alloc, type>> /\ open' \subseteq open
      /\ timer' \in [Fds -> {"none", "armed", "expired"}]
      /\ fdOf' \in [Data -> Fds \cup {NULL}]
      /\ \A x \in Data : x # d => fdOf'[x] = fdOf[x]
  BY <1>1, NullAssumption DEF DestroyNode, ClearCb, IInv, TypeOK
<1>3. /\ detached' = [detached EXCEPT ![f] = NULL] /\ newer' \subseteq Fds \X Fds
      /\ UNCHANGED <<interest, map, count, array, evs, waitCount, idx, pc, cur, reason, user,
                     gone, bucket>>
  BY DEF DestroyNode, Forget, batch, walk, IInv, TypeOK
<1>4. /\ frames' \in Seq(Data) /\ frames' # NoFrames
      /\ \A x : InFrames(x)' <=> InFrames(x) \/ x = d
      /\ \A i, j \in 1..Len(frames') : frames'[i] = frames'[j] => i = j
  BY <1>1, <1>2, PushFrames DEF IInv, TypeOK, FramesInv, Alive
<1>5. \A x : Alive(x)' <=> Alive(x) /\ x # d
  BY <1>2, <1>4 DEF Alive
<1>6. TypeOK'
  BY <1>2, <1>3, <1>4 DEF IInv, TypeOK, Ptr
<1>7. FramesInv'
  <2>1. \A x : \A i \in 1..Len(frames') : frames'[i] = x => InFrames(x)'
    BY DEF InFrames
  <2>2. \A x : InFrames(x) => x \in alloc
    BY DEF IInv, FramesInv, InFrames
  <2> QED BY <1>1, <1>2, <1>4, <2>1, <2>2 DEF FramesInv, Alive
<1>8. HeapInv'
  BY <1>2, <1>4 DEF IInv, TypeOK, HeapInv
<1>9. KernelInv'
  BY <1>1, <1>3 DEF KernelInv
<1>10. MapInv'
  <2>1. \A g \in Fds : map[g] # NULL => map[g] \in Data /\ map[g] # d
    BY <1>1, NullAssumption DEF IInv, TypeOK, MapInv, DetachedInv, Ptr, DestroyNode
  <2> QED BY <1>2, <1>3, <1>5, <2>1 DEF IInv, MapInv
<1>11. DetachedInv'
  <2>1. \A g \in Fds : detached'[g] # NULL =>
            g # f /\ detached'[g] = detached[g] /\ detached[g] \in Data /\ detached[g] # d
    BY <1>1, <1>3 DEF IInv, TypeOK, DetachedInv, Ptr
  <2> QED BY <1>2, <1>3, <1>5, <2>1 DEF IInv, DetachedInv
<1>12. ReachInv'
  <2> SUFFICES ASSUME UseHash, NEW x \in alloc, ~InFrames(x), x # d
               PROVE  map'[fdOf'[x]] = x \/ detached'[fdOf'[x]] = x
    BY <1>2, <1>4 DEF ReachInv
  <2>1. fdOf'[x] = fdOf[x] /\ fdOf[x] \in Fds
    BY <1>2 DEF IInv, TypeOK, HeapInv
  <2>2. map[fdOf[x]] = x \/ detached[fdOf[x]] = x
    BY DEF IInv, ReachInv
  <2> QED BY <1>3, <2>1, <2>2 DEF IInv, TypeOK
<1>13. BatchInv' /\ WalkInv'
  <2>1. \A j \in Slots : array[j] = NULL
    BY <1>1 DEF IInv, IdleInv, BatchInv, Slots
  <2> QED BY <1>1, <1>3, <2>1 DEF BatchInv, WalkInv
<1>14. DestroyInv' /\ IdleInv'
  BY <1>1, <1>3 DEF IInv, DestroyInv, IdleInv
<1> QED
  BY <1>6, <1>7, <1>8, <1>9, <1>10, <1>11, <1>12, <1>13, <1>14 DEF IInv

LEMMA LifecyclePreserves ==
    ASSUME IInv, XEvents_Destroy \/ DestroyBucket \/ DestroyEnd \/ XEvents_Create PROVE IInv'
<1>1. /\ UNCHANGED <<open, timer, alloc, fdOf, type, array, evs, waitCount, idx, cur, reason,
                     user, gone, frames>>
      /\ pc \in {"app", "destroy", "dead"} /\ pc' \in {"app", "destroy", "dead"}
  BY HashAssumption
  DEF XEvents_Destroy, DestroyBucket, DestroyEnd, XEvents_Create, InDestroy,
      kernel, heap, batch, walk
<1>2. \A x : InFrames(x)' <=> InFrames(x)
  BY <1>1 DEF InFrames
<1>3. \A x : Alive(x)' <=> Alive(x)
  BY <1>1, <1>2 DEF Alive
<1>4. FramesInv' /\ HeapInv'
  BY <1>1, <1>2 DEF IInv, FramesInv, HeapInv
<1>5. BatchInv' /\ IdleInv' /\ WalkInv'
  BY <1>1, <1>3 DEF IInv, BatchInv, IdleInv, WalkInv
<1>6. CASE XEvents_Destroy
  <2>1. /\ interest' = [f \in Fds |-> NULL] /\ bucket' = 0 /\ frames = NoFrames
        /\ pc' = (IF UseHash THEN "destroy" ELSE "dead") /\ pc = "app"
        /\ UNCHANGED <<map, newer, count, detached>>
    BY <1>6 DEF XEvents_Destroy, hash
  <2>2. TypeOK'
    BY <1>1, <2>1, BucketAssumption, HashAssumption DEF IInv, TypeOK, Ptr
  <2>3. KernelInv' /\ MapInv' /\ DetachedInv' /\ ReachInv'
    BY <1>1, <1>2, <1>3, <2>1 DEF IInv, KernelInv, MapInv, DetachedInv, ReachInv
  <2>4. DestroyInv'
    BY <1>1, <2>1, BucketAssumption, HashAssumption DEF DestroyInv
  <2> QED BY <1>4, <1>5, <2>2, <2>3, <2>4 DEF IInv
<1>7. CASE DestroyBucket
  <2>1. /\ detached' = [f \in Fds |-> IF Bucket(f) = bucket THEN map[f] ELSE NULL]
        /\ map' = [f \in Fds |-> IF Bucket(f) = bucket THEN NULL ELSE map[f]]
        /\ bucket' = bucket + 1 /\ bucket < NBuckets /\ pc = "destroy"
        /\ \A f \in Fds : detached[f] = NULL
        /\ UNCHANGED <<interest, newer, count, pc>>
    BY <1>7 DEF DestroyBucket, InDestroy, Cleared, MoreBuckets, kernel, walk
  <2>2. TypeOK'
    <3>1. bucket' \in 0..NBuckets
      BY <2>1, BucketAssumption DEF IInv, TypeOK
    <3>2. map' \in [Fds -> Ptr] /\ detached' \in [Fds -> Ptr]
      BY <2>1 DEF IInv, TypeOK, Ptr
    <3> QED BY <1>1, <2>1, <3>1, <3>2 DEF IInv, TypeOK
  <2>3. KernelInv'
    BY <1>1, <1>3, <2>1 DEF IInv, KernelInv, EpollOpen
  <2>4. MapInv' /\ DetachedInv'
    BY <1>1, <1>3, <2>1 DEF IInv, MapInv, DetachedInv
  <2>5. ReachInv'
    <3> SUFFICES ASSUME UseHash, NEW x \in alloc, ~InFrames(x)
                 PROVE  map'[fdOf[x]] = x \/ detached'[fdOf[x]] = x
      BY <1>1, <1>2 DEF ReachInv
    <3>1. fdOf[x] \in Fds /\ x \in Data
      BY DEF IInv, TypeOK, HeapInv
    <3>2. map[fdOf[x]] = x
      BY <2>1, <3>1, NullAssumption DEF IInv, ReachInv
    <3> QED BY <2>1, <3>1, <3>2
  <2>6. DestroyInv'
    <3>1. UseHash /\ \A f \in Fds : Bucket(f) < bucket => map[f] = NULL
      BY <2>1 DEF IInv, DestroyInv
    <3>2. \A f \in Fds : Bucket(f) < bucket' => Bucket(f) = bucket \/ Bucket(f) < bucket
      BY <2>1, BucketAssumption DEF IInv, TypeOK
    <3>3. \A f \in Fds : Bucket(f) < bucket' => map'[f] = NULL
      BY <2>1, <3>1, <3>2
    <3> QED BY <2>1, <3>1, <3>3 DEF DestroyInv
  <2> QED BY <1>4, <1>5, <2>2, <2>3, <2>4, <2>5, <2>6 DEF IInv
<1>8. CASE DestroyEnd
  <2>1. /\ pc = "destroy" /\ pc' = "dead" /\ frames = NoFrames /\ ~(bucket < NBuckets)
        /\ \A f \in Fds : detached[f] = NULL
        /\ UNCHANGED <<interest, map, newer, count, detached, bucket>>
    BY <1>8 DEF DestroyEnd, InDestroy, Cleared, MoreBuckets, kernel, hash, dtor
  <2>2. TypeOK'
    BY <1>1, <2>1 DEF IInv, TypeOK
  <2>3. KernelInv' /\ MapInv' /\ DetachedInv' /\ ReachInv'
    BY <1>1, <1>2, <1>3, <2>1 DEF IInv, KernelInv, EpollOpen, MapInv, DetachedInv, ReachInv
  <2>4. \A f \in Fds : map[f] = NULL
    <3>1. \A f \in Fds : Bucket(f) < bucket
      BY <2>1, BucketAssumption DEF IInv, TypeOK
    <3> QED BY <2>1, <3>1 DEF IInv, DestroyInv
  <2>5. \A x : ~InFrames(x)
    BY <2>1, EmptySeq DEF InFrames, NoFrames
  <2>6. UseHash => alloc = {}
    <3> SUFFICES ASSUME UseHash, NEW x \in alloc PROVE FALSE
      OBVIOUS
    <3>1. x \in Data /\ fdOf[x] \in Fds
      BY <2>5 DEF IInv, TypeOK, HeapInv
    <3>2. map[fdOf[x]] = x \/ detached[fdOf[x]] = x
      BY <2>5 DEF IInv, ReachInv
    <3> QED BY <2>1, <2>4, <3>1, <3>2, NullAssumption
  <2>7. DestroyInv'
    BY <1>1, <2>1, <2>6 DEF DestroyInv
  <2> QED BY <1>4, <1>5, <2>2, <2>3, <2>7 DEF IInv
<1>9. CASE XEvents_Create
  <2>1. /\ pc = "dead" /\ pc' = "app" /\ count' = 0 /\ map' = [f \in Fds |-> NULL]
        /\ newer' = {} /\ UNCHANGED <<interest, detached, bucket>>
    BY <1>9 DEF XEvents_Create, kernel, dtor
  <2>2. \A f \in Fds : detached[f] = NULL /\ interest[f] = NULL
    BY <2>1 DEF IInv, DetachedInv, KernelInv, EpollOpen
  <2>3. TypeOK'
    BY <1>1, <2>1 DEF IInv, TypeOK, Ptr
  <2>4. KernelInv' /\ MapInv' /\ DetachedInv' /\ DestroyInv'
    BY <2>1, <2>2 DEF KernelInv, MapInv, DetachedInv, DestroyInv
  <2>5. ReachInv'
    BY <1>1, <2>1 DEF IInv, DestroyInv, ReachInv
  <2> QED BY <1>4, <1>5, <2>3, <2>4, <2>5 DEF IInv
<1> QED BY <1>6, <1>7, <1>8, <1>9

-----------------------------------------------------------------------------
\* The engine starts in the invariant.
LEMMA InitIInv == Init => IInv
<1> SUFFICES ASSUME Init PROVE IInv
  OBVIOUS
<1>1. frames \in Seq(Data) /\ Len(frames) = 0
  BY EmptySeq DEF Init, NoFrames
<1>2. TypeOK
  <2>1. open \subseteq Fds /\ alloc \subseteq Data /\ newer \subseteq Fds \X Fds /\ count \in Nat
    BY DEF Init
  <2>2. /\ timer \in [Fds -> {"none", "armed", "expired"}] /\ interest \in [Fds -> Ptr]
        /\ fdOf \in [Data -> Fds \cup {NULL}] /\ type \in [Data -> Types]
        /\ map \in [Fds -> Ptr] /\ detached \in [Fds -> Ptr]
    BY DEF Init, Ptr, Types
  <2>3. array \in [Slots -> Ptr] /\ evs \in [Slots -> SUBSET Flags]
    BY DEF Init, Ptr
  <2>4. waitCount \in 0..NEventMax /\ idx \in 1..(NEventMax + 1) /\ bucket \in 0..NBuckets
    BY BatchAssumption, BucketAssumption DEF Init
  <2>5. /\ pc \in {"app", "loop", "cb", "stop", "destroy", "dead"} /\ cur \in Ptr
        /\ reason \in Reasons /\ user \in BOOLEAN /\ gone \in BOOLEAN
    BY DEF Init, Ptr, Reasons
  <2> QED BY <1>1, <2>1, <2>2, <2>3, <2>4, <2>5 DEF TypeOK
<1>3. FramesInv
  BY <1>1 DEF FramesInv
<1>4. HeapInv /\ KernelInv /\ MapInv /\ DetachedInv /\ ReachInv
  BY DEF Init, HeapInv, KernelInv, EpollOpen, MapInv, DetachedInv, ReachInv
<1>5. BatchInv /\ IdleInv /\ WalkInv /\ DestroyInv
  BY DEF Init, BatchInv, IdleInv, WalkInv, DestroyInv
<1> QED BY <1>2, <1>3, <1>4, <1>5 DEF IInv

\* In the invariant an object may be deleted from every place the engine
\* deletes from, and the application's contract covers the rest.
LEMMA NextIInv == IInv /\ [Next]_vars => IInv'
<1> SUFFICES ASSUME IInv, [Next]_vars PROVE IInv'
  OBVIOUS
<1>1. CASE \E f \in Fds : AppClose(f) \/ Expire(f)
  BY <1>1, DescriptorPreserves
<1>2. ASSUME NEW d \in Data, NEW f \in Fds, AppRegister(d, f) PROVE IInv'
  <2>1. /\ EpollOpen /\ d \notin alloc /\ interest[f] = NULL /\ XEvents_Add(d, f, "sock")
        /\ open' = IF XHash_Insert(f) THEN open \cup {f} ELSE open
        /\ timer' \in [Fds -> {"none", "armed", "expired"}]
        /\ UNCHANGED <<batch, walk, gone, frames, dtor>>
    BY <1>2 DEF AppRegister, XEvents_RegisterEvent, IInv, TypeOK
  <2>2. "sock" \in Types
    BY DEF Types
  <2> QED BY <2>1, <2>2, AddPreserves
<1>3. ASSUME NEW d \in Data, NEW f \in Fds, AppAddTimer(d, f) PROVE IInv'
  <2>1. /\ EpollOpen /\ d \notin alloc /\ f \notin open /\ XEvents_Add(d, f, "timer")
        /\ open' = IF XHash_Insert(f) THEN open \cup {f} ELSE open
        /\ timer' \in [Fds -> {"none", "armed", "expired"}]
        /\ UNCHANGED <<batch, walk, gone, frames, dtor>>
    BY <1>3 DEF AppAddTimer, XEvents_AddTimer, IInv, TypeOK
  <2>2. "timer" \in Types /\ interest[f] = NULL
    BY <2>1 DEF Types, IInv, KernelInv
  <2> QED BY <2>1, <2>2, AddPreserves
<1>4. ASSUME NEW d \in Data, NEW f \in Fds, AppCreateEvent(d, f) PROVE IInv'
  <2>1. /\ EpollOpen /\ d \notin alloc /\ f \notin open /\ XEvents_Add(d, f, "event")
        /\ open' = IF XHash_Insert(f) THEN open \cup {f} ELSE open
        /\ timer' \in [Fds -> {"none", "armed", "expired"}]
        /\ UNCHANGED <<batch, walk, gone, frames, dtor>>
    BY <1>4 DEF AppCreateEvent, XEvents_CreateEvent, IInv, TypeOK
  <2>2. "event" \in Types /\ interest[f] = NULL
    BY <2>1 DEF Types, IInv, KernelInv
  <2> QED BY <2>1, <2>2, AddPreserves
<1>5. ASSUME NEW d \in Data, AppExtendTimer(d) PROVE IInv'
  BY <1>5, ExtendPreserves
<1>6. ASSUME NEW d \in Data, AppDelete(d) PROVE IInv'
  <2>1. /\ Alive(d) /\ (\A f \in Fds : detached[f] # d) /\ XEvents_Delete(d)
        /\ UNCHANGED <<pc, cur, reason, user, dtor>>
    BY <1>6 DEF AppDelete, Deletable, Alive, walk
  <2>2. pc # "dead"
    <3> SUFFICES ASSUME pc = "dead" PROVE FALSE
      OBVIOUS
    <3> QED BY <1>6 DEF IInv, DestroyInv, AppDelete, AppTurn
  <2> QED BY <2>1, <2>2, DeletePreserves
<1>7. CASE ClearReturn
  BY <1>7, ClearReturnPreserves
<1>8. CASE EpollWait
  BY <1>8, EpollWaitPreserves
<1>9. CASE ServiceSkip \/ ServiceSock \/ ServiceTimer \/ ReturnContinue \/ ReturnStop
           \/ ReturnUserCall \/ LoopEnd \/ LoopBreak
  BY <1>9, ServicePreserves
<1>10. CASE ReturnDisconnect \/ ReturnTimerError
  <2>1. /\ pc = "cb" /\ ~gone /\ XEvents_Delete(cur) /\ pc' = "stop"
        /\ UNCHANGED <<cur, reason, user, dtor>>
    BY <1>10, Zenon DEF ReturnDisconnect, ReturnTimerError, InCallback
  <2>2. cur # NULL /\ Alive(cur)
    BY <2>1, Zenon DEF IInv, WalkInv
  <2>3. cur \in Data /\ \A f \in Fds : detached[f] # cur
    BY <2>1, <2>2 DEF IInv, TypeOK, Ptr, DetachedInv
  <2> QED BY <2>1, <2>2, <2>3, DeletePreserves
<1>11. CASE XEvents_Destroy \/ DestroyBucket \/ DestroyEnd \/ XEvents_Create
  BY <1>11, LifecyclePreserves
<1>12. CASE \E f \in Fds : DestroyNode(f)
  BY <1>12, DestroyNodePreserves
<1>13. CASE UNCHANGED vars
  <2>1. UNCHANGED <<open, timer, interest, alloc, fdOf, type, map, newer, count, array, evs,
                    waitCount, idx, pc, cur, reason, user, gone, frames, detached, bucket>>
    BY <1>13 DEF vars, kernel, heap, hash, batch, walk, dtor
  <2>2. \A x : Alive(x)' <=> Alive(x)
    BY <2>1 DEF Alive, InFrames
  <2>3. TypeOK' /\ KernelInv'
    BY <2>1, <2>2 DEF IInv, TypeOK, KernelInv, EpollOpen
  <2>4. BatchInv' /\ IdleInv' /\ WalkInv'
    BY <2>1, <2>2 DEF IInv, BatchInv, IdleInv, WalkInv
  <2> QED BY <2>1, <2>3, <2>4, QuietPreserves
<1> QED
  BY <1>1, <1>2, <1>3, <1>4, <1>5, <1>6, <1>7, <1>8, <1>9, <1>10, <1>11, <1>12, <1>13 DEF Next

\* IInv is an invariant of the engine.
THEOREM Invariance == Spec => []IInv
BY InitIInv, NextIInv, PTL DEF Spec

\* Every variable of the engine keeps its type, nEventCount included.
THEOREM TypeCorrect == Spec => []TypeOK
<1>1. IInv => TypeOK
  BY DEF IInv
<1> QED BY Invariance, <1>1, PTL

\* XEvents_Service never follows a data.ptr of the batch that a callback freed.
THEOREM BatchSafety == Spec => []BatchAlive
<1>1. IInv => BatchAlive
  BY DEF IInv, BatchInv, BatchAlive, Alive
<1> QED BY Invariance, <1>1, PTL

\* epoll_wait never hands out a pointer to a freed object.
THEOREM KernelSafety == Spec => []KernelAlive
<1>1. IInv => KernelAlive
  BY DEF IInv, KernelInv, KernelAlive, Alive
<1> QED BY Invariance, <1>1, PTL

\* XHash_Delete by descriptor number always finds the object XEvents_Delete was
\* given.
THEOREM DeletionReaches == Spec => []DeleteReachesItsObject
<1>1. IInv => DeleteReachesItsObject
  BY DEF IInv, HeapInv, ReachInv, DeleteReachesItsObject
<1> QED BY Invariance, <1>1, PTL

\* No object is cleared twice.
THEOREM ClearOnce == Spec => []ClearedOnce
<1>1. IInv => ClearedOnce
  BY DEF IInv, FramesInv, DetachedInv, ClearedOnce, Alive
<1> QED BY Invariance, <1>1, PTL

\* XEvents_Destroy frees everything that was registered.
THEOREM DestroyComplete == Spec => []DestroyFreesAll
<1>1. IInv => DestroyFreesAll
  BY DEF IInv, DestroyInv, DestroyFreesAll
<1> QED BY Invariance, <1>1, PTL

-----------------------------------------------------------------------------
(***************************************************************************)
(* The engine with its hash map implements EventLoop, for every set of     *)
(* objects and descriptors, every batch size and every assignment of       *)
(* descriptors to buckets: each step of XEvents is a step of EventLoop     *)
(* under the mapping of XEventsRefines, or changes nothing EventLoop sees. *)
(*                                                                         *)
(* Beyond IInv the mapping needs to know that the order of the pairs is    *)
(* kept for the descriptors that have a pair and for no other ones, that   *)
(* no object is twice in a batch, and that no object is being serviced     *)
(* outside the walk.  Without the hash map XEvents_Destroy clears nothing, *)
(* which EventLoop does not allow, so UseHash is assumed throughout.       *)
(***************************************************************************)

\* Descriptor f has a pair, in the map or in the bucket being destroyed.
Paired(f) == map[f] # NULL \/ detached[f] # NULL

OrderInv == \A f, g \in Fds : <<f, g>> \in newer => Paired(f) /\ Paired(g)
DistinctInv == \A j, k \in Slots : array[j] # NULL /\ array[j] = array[k] => j = k
CurInv == pc \notin {"cb", "stop"} => cur = NULL /\ gone = FALSE

RInv == IInv /\ OrderInv /\ DistinctInv /\ CurInv

-----------------------------------------------------------------------------
(* The mapping.                                                            *)

\* Every live object is the one its descriptor leads to, so that no two of
\* them have the same descriptor.
LEMMA LiveDescriptors ==
    ASSUME IInv, UseHash
    PROVE  /\ Live \subseteq Data
           /\ \A d \in Data : d \in Live <=> Alive(d)
           /\ \A d \in Live :
                 fdOf[d] \in Fds /\ (map[fdOf[d]] = d \/ detached[fdOf[d]] = d)
           /\ \A d, e \in Live : fdOf[d] = fdOf[e] => d = e
<1>1. Live \subseteq Data /\ \A d \in Data : d \in Live <=> Alive(d)
  BY DEF Live, Alive, IInv, TypeOK
<1>2. \A d \in Live : fdOf[d] \in Fds /\ (map[fdOf[d]] = d \/ detached[fdOf[d]] = d)
  BY DEF Live, IInv, TypeOK, HeapInv, ReachInv
<1>3. ASSUME NEW d \in Live, NEW e \in Live, fdOf[d] = fdOf[e] PROVE d = e
  <2>1. detached[fdOf[d]] # NULL => map[fdOf[d]] = NULL
    BY <1>2 DEF IInv, DetachedInv
  <2> QED BY <1>1, <1>2, <1>3, <2>1, NullAssumption
<1> QED BY <1>1, <1>2, <1>3

\* When one object leaves the engine and its descriptor is forgotten, the order
\* of the other ones stays what it was.
LEMMA NewerForgets ==
    ASSUME IInv, UseHash, NEW d \in Live, Live' = Live \ {d},
           \A x \in Live' : fdOf'[x] = fdOf[x], newer' = Forget(newer, fdOf[d])
    PROVE  Newer' = EL!Without(Newer, d)
<1>1. \A x \in Live' : fdOf[x] # fdOf[d]
  BY LiveDescriptors
<1>2. \A p \in Live' \X Live' :
        <<fdOf'[p[1]], fdOf'[p[2]]>> \in newer' <=> <<fdOf[p[1]], fdOf[p[2]]>> \in newer
  BY <1>1 DEF Forget
<1>3. Newer' = {p \in Live' \X Live' : <<fdOf[p[1]], fdOf[p[2]]>> \in newer}
  BY <1>2 DEF Newer
<1> QED BY <1>3 DEF Newer, EL!Without

\* A step that changes neither the live objects, nor their descriptors, nor the
\* order of the pairs changes nothing of the order EventLoop sees.
LEMMA NewerStays ==
    ASSUME Live' = Live, \A x \in Live : fdOf'[x] = fdOf[x], newer' = newer
    PROVE  Newer' = Newer
BY DEF Newer

\* What EventLoop sees of the walk depends on the batch alone.
LEMMA PendingIdle ==
    ASSUME pc \notin {"loop", "cb"} PROVE Pending = {} /\ CallNow = NoCall
BY DEF Pending, CallNow

-----------------------------------------------------------------------------
(* Deletions.                                                              *)

\* What XEvents_Delete of a live object does to the state EventLoop sees.
LEMMA DeleteMaps ==
    ASSUME RInv, UseHash, NEW d \in Data, Alive(d), \A f \in Fds : detached[f] # d,
           XEvents_Delete(d), UNCHANGED detached
    PROVE  /\ d \in Live /\ d \notin Doomed
           /\ Live' = Live \ {d}
           /\ Newer' = EL!Without(Newer, d)
           /\ frames' = Append(frames, d)
           /\ Doomed' = Doomed
           /\ pc' = pc => Pending' = Pending \ {d}
           /\ gone' = (gone \/ d = cur)
           /\ OrderInv' /\ DistinctInv'
<1> DEFINE f == fdOf[d]
<1>1. IInv /\ f \in Fds /\ Target(d) = d /\ map[f] = d
  BY DeleteTarget DEF RInv
<1>2. d \in Live /\ d \notin Doomed
  BY DEF Live, Alive, Doomed
<1>3. /\ frames' = Append(frames, d) /\ UNCHANGED <<alloc, type>>
      /\ \A x \in Data : x # d => fdOf'[x] = fdOf[x]
  <2>1. ClearCb(d)
    BY <1>1 DEF XEvents_Delete
  <2> QED BY <1>1, <2>1 DEF ClearCb, IInv, TypeOK
<1>4. \A x : InFrames(x)' <=> InFrames(x) \/ x = d
  BY <1>1, <1>3, PushFrames DEF IInv, TypeOK
<1>5. Live' = Live \ {d}
  BY <1>3, <1>4 DEF Live
<1>6. newer' = Forget(newer, f) /\ map' = [map EXCEPT ![f] = NULL]
  BY <1>1, NullAssumption DEF XEvents_Delete, XHash_Delete
<1>7. Newer' = EL!Without(Newer, d)
  <2>1. Live \subseteq Data
    BY <1>1, LiveDescriptors
  <2>2. \A x \in Live' : fdOf'[x] = fdOf[x]
    BY <1>3, <1>5, <2>1
  <2> QED BY <1>1, <1>2, <1>5, <1>6, <2>2, NewerForgets
<1>8. Doomed' = Doomed
  BY DEF Doomed
<1>9. /\ array' = [j \in Slots |-> IF j <= waitCount /\ array[j] = d THEN NULL ELSE array[j]]
      /\ UNCHANGED <<waitCount, idx>> /\ gone' = (gone \/ d = cur)
  BY DEF XEvents_Delete, InvalidateBatch
<1>10. pc' = pc => Pending' = Pending \ {d}
  <2> SUFFICES ASSUME pc' = pc PROVE Pending' = Pending \ {d}
    OBVIOUS
  <2>1. \A k \in Slots : k <= waitCount =>
           array'[k] = IF array[k] = d THEN NULL ELSE array[k]
    BY <1>9
  <2>2. \A x : x \in Pending <=> \E k \in Slots :
           /\ k <= waitCount /\ array[k] # NULL /\ x = array[k]
           /\ \/ pc = "loop" /\ idx <= k
              \/ pc = "cb" /\ idx < k
    BY DEF Pending
  <2>3. \A x : x \in Pending' <=> \E k \in Slots :
           /\ k <= waitCount' /\ array'[k] # NULL /\ x = array'[k]
           /\ \/ pc' = "loop" /\ idx' <= k
              \/ pc' = "cb" /\ idx' < k
    BY DEF Pending
  <2>4. \A x : x \in Pending' <=> x \in Pending /\ x # d
    BY <1>9, <2>1, <2>2, <2>3
  <2> QED BY <2>4
<1>11. OrderInv'
  BY <1>1, <1>6 DEF RInv, OrderInv, Paired, Forget, IInv, TypeOK
<1>12. DistinctInv'
  BY <1>9 DEF RInv, DistinctInv
<1> QED BY <1>2, <1>3, <1>5, <1>7, <1>8, <1>9, <1>10, <1>11, <1>12

\* XEvents_Delete from the application's turn is a deletion by the client.
LEMMA AppDeleteMaps ==
    ASSUME RInv, UseHash, NEW d \in Data, AppDelete(d) PROVE EL!Next /\ RInv'
<1>1. /\ Alive(d) /\ (\A f \in Fds : detached[f] # d) /\ XEvents_Delete(d) /\ AppTurn
      /\ UNCHANGED <<pc, cur, reason, user, detached, bucket>>
  BY DEF AppDelete, Deletable, Alive, walk, dtor
<1>2. /\ d \in Live /\ d \notin Doomed
      /\ Live' = Live \ {d}
      /\ Newer' = EL!Without(Newer, d)
      /\ frames' = Append(frames, d)
      /\ Doomed' = Doomed
      /\ Pending' = Pending \ {d}
      /\ gone' = (gone \/ d = cur)
      /\ OrderInv' /\ DistinctInv'
  BY <1>1, DeleteMaps
<1>3. CallNow' = CallNow
  BY <1>1 DEF CallNow
<1>4. EL!ClientTurn
  BY <1>1 DEF EL!ClientTurn, AppTurn, NoFrames
<1>5. EL!Delete(d)
  BY <1>1, <1>2, <1>3, <1>4 DEF EL!Delete, EL!CanDelete, EL!Remove
<1>6. IInv'
  BY NextIInv DEF RInv, Next
<1>7. CurInv'
  <2>1. pc' \notin {"cb", "stop"} => cur' = NULL /\ gone = FALSE
    BY <1>1 DEF RInv, CurInv
  <2> QED BY <1>1, <1>2, <2>1, NullAssumption DEF CurInv
<1> QED BY <1>2, <1>5, <1>6, <1>7 DEF EL!Next, RInv

\* The deletion the engine makes for a callback's result.
LEMMA DisconnectMaps ==
    ASSUME RInv, UseHash, ReturnDisconnect \/ ReturnTimerError PROVE EL!Next /\ RInv'
<1>1. /\ pc = "cb" /\ frames = NoFrames /\ ~gone /\ XEvents_Delete(cur) /\ pc' = "stop"
      /\ UNCHANGED <<cur, reason, user, detached, bucket>>
  BY Zenon DEF ReturnDisconnect, ReturnTimerError, InCallback, dtor
<1>2. cur \in Data /\ Alive(cur) /\ \A f \in Fds : detached[f] # cur
  <2>1. cur # NULL /\ Alive(cur)
    BY <1>1, Zenon DEF RInv, IInv, WalkInv
  <2> QED BY <1>1, <2>1 DEF RInv, IInv, TypeOK, Ptr, DetachedInv
<1>3. /\ Live' = Live \ {cur}
      /\ Newer' = EL!Without(Newer, cur)
      /\ frames' = Append(frames, cur)
      /\ Doomed' = Doomed
      /\ gone' = TRUE
      /\ OrderInv' /\ DistinctInv'
  BY <1>1, <1>2, DeleteMaps
<1>4. Pending' = {} /\ CallNow' = NoCall
  BY <1>1 DEF Pending, CallNow
<1>5. EL!Disconnect
  BY <1>1, <1>3, <1>4, Zenon DEF EL!Disconnect, EL!EngineTurn, NoFrames
<1>6. IInv'
  BY NextIInv DEF RInv, Next
<1>7. CurInv'
  BY <1>1 DEF CurInv
<1> QED BY <1>3, <1>5, <1>6, <1>7 DEF EL!Next, RInv

\* The memory of the innermost object is freed when its CLEAR callback returns.
LEMMA ClearReturnMaps ==
    ASSUME RInv, UseHash, ClearReturn PROVE EL!Next /\ RInv'
<1> DEFINE d == frames[Len(frames)]
<1>1. /\ frames # NoFrames /\ frames' = Pop(frames)
      /\ alloc' = alloc \ {d} /\ fdOf' = [fdOf EXCEPT ![d] = NULL]
      /\ UNCHANGED <<map, newer, array, waitCount, idx, pc, cur, reason, user, gone, detached>>
  BY DEF ClearReturn, hash, batch, walk, dtor
<1>2. \A x : InFrames(x)' <=> InFrames(x) /\ x # d
  BY <1>1, PopFrames DEF RInv, IInv, TypeOK, FramesInv
<1>3. InFrames(d) /\ d \in Data
  BY <1>1, PopFrames, ElementOfSeq DEF RInv, IInv, TypeOK, FramesInv, InFrames
<1>4. Live' = Live
  BY <1>1, <1>2, <1>3 DEF Live
<1>5. Newer' = Newer
  <2>1. \A x \in Live : fdOf'[x] = fdOf[x]
    BY <1>1, <1>3 DEF Live, RInv, IInv, TypeOK
  <2> QED BY <1>1, <1>4, <2>1, NewerStays
<1>6. Pending' = Pending /\ CallNow' = CallNow /\ Doomed' = Doomed
  BY <1>1 DEF Pending, CallNow, Doomed
<1>7. EL!ClearReturn
  BY <1>1, <1>4, <1>5, <1>6 DEF EL!ClearReturn, NoFrames, Pop
<1>8. IInv'
  BY NextIInv DEF RInv, Next
<1>9. OrderInv' /\ DistinctInv' /\ CurInv'
  BY <1>1 DEF RInv, OrderInv, Paired, DistinctInv, CurInv
<1> QED BY <1>7, <1>8, <1>9 DEF EL!Next, RInv

-----------------------------------------------------------------------------
(* Registrations.                                                          *)

\* XEvents_Add, by one of its callers, registers the object as the newest one
\* or leaves no trace.
LEMMA AddMaps ==
    ASSUME RInv, UseHash, EpollOpen, AppTurn, NEW d \in Data, d \notin alloc, NEW f \in Fds,
           NEW t, XEvents_Add(d, f, t), UNCHANGED <<batch, walk, gone, frames, dtor>>
    PROVE  /\ EL!Next \/ UNCHANGED EL!vars
           /\ OrderInv' /\ DistinctInv' /\ CurInv'
<1>1. UNCHANGED <<array, waitCount, idx, pc, cur, reason, user, gone, frames, detached>>
  BY DEF batch, walk, dtor
<1>2. /\ Pending' = Pending /\ CallNow' = CallNow /\ Doomed' = Doomed
      /\ DistinctInv' /\ CurInv'
  BY <1>1 DEF Pending, CallNow, Doomed, RInv, DistinctInv, CurInv
<1>3. CASE ~XHash_Insert(f)
  <2>1. UNCHANGED <<alloc, fdOf, map, newer>>
    BY <1>3 DEF XEvents_Add, heap, hash
  <2>2. Live' = Live /\ Newer' = Newer /\ OrderInv'
    BY <1>1, <2>1 DEF Live, InFrames, Newer, RInv, OrderInv, Paired
  <2> QED BY <1>1, <1>2, <2>2 DEF EL!vars
<1>4. CASE XHash_Insert(f)
  <2>1. /\ alloc' = alloc \cup {d} /\ fdOf' = [fdOf EXCEPT ![d] = f]
        /\ map' = [map EXCEPT ![f] = d] /\ map[f] = NULL
        /\ newer' = newer \cup {<<f, g>> : g \in {h \in Fds : map[h] # NULL}}
    BY <1>4 DEF XEvents_Add, XHash_Insert
  <2>2. ~InFrames(d) /\ d \notin Live
    BY DEF RInv, IInv, FramesInv, InFrames, Live
  <2>3. Live' = Live \cup {d}
    BY <1>1, <2>1, <2>2 DEF Live, InFrames
  <2>4. \A g \in Fds : detached[g] = NULL
    BY DEF RInv, IInv, DetachedInv, EpollOpen
  <2>5. Live \subseteq Data /\ \A x \in Live : fdOf[x] \in Fds /\ map[fdOf[x]] = x
    BY <2>4, LiveDescriptors, NullAssumption DEF RInv
  <2>6. \A x \in Live : fdOf'[x] = fdOf[x] /\ map[fdOf[x]] # NULL /\ fdOf[x] # f
    BY <2>1, <2>2, <2>5, NullAssumption DEF RInv, IInv, TypeOK
  <2>7. fdOf'[d] = f
    BY <2>1 DEF RInv, IInv, TypeOK
  <2>8. \A g \in Fds : <<f, g>> \notin newer /\ <<g, f>> \notin newer
    BY <2>1, <2>4 DEF RInv, OrderInv, Paired
  <2>9. Newer' = Newer \cup {<<d, e>> : e \in Live}
    <3>1. \A g, h : <<g, h>> \in newer' <=>
                     <<g, h>> \in newer \/ (g = f /\ h \in Fds /\ map[h] # NULL)
      BY <2>1
    <3>2. \A x, y \in Live : <<fdOf'[x], fdOf'[y]>> \in newer' <=> <<fdOf[x], fdOf[y]>> \in newer
      BY <2>6, <3>1
    <3>3. /\ \A y \in Live : <<fdOf'[d], fdOf'[y]>> \in newer'
          /\ \A x \in Live : <<fdOf'[x], fdOf'[d]>> \notin newer'
          /\ <<fdOf'[d], fdOf'[d]>> \notin newer'
      BY <2>1, <2>5, <2>6, <2>7, <2>8, <3>1
    <3>4. \A x, y \in Live' : <<fdOf'[x], fdOf'[y]>> \in newer' <=>
             \/ x \in Live /\ y \in Live /\ <<fdOf[x], fdOf[y]>> \in newer
             \/ x = d /\ y \in Live
      BY <2>2, <2>3, <3>2, <3>3
    <3>5. Newer' = {p \in Live' \X Live' :
             \/ p[1] \in Live /\ p[2] \in Live /\ <<fdOf[p[1]], fdOf[p[2]]>> \in newer
             \/ p[1] = d /\ p[2] \in Live}
      BY <3>4 DEF Newer
    <3> QED BY <2>2, <2>3, <3>5 DEF Newer
  <2>10. EL!ClientTurn /\ pc \notin {"destroy", "dead"} /\ ~EL!InClearing(d)
    BY <2>2 DEF EL!ClientTurn, EL!InClearing, AppTurn, NoFrames, EpollOpen, InFrames
  <2>11. EL!Register(d)
    BY <1>1, <1>2, <2>2, <2>3, <2>9, <2>10 DEF EL!Register
  <2>12. OrderInv'
    <3> SUFFICES ASSUME NEW g \in Fds, NEW h \in Fds, <<g, h>> \in newer'
                 PROVE  Paired(g)' /\ Paired(h)'
      BY DEF OrderInv
    <3>1. \A x \in Fds : Paired(x)' <=> map[x] # NULL \/ x = f
      BY <1>1, <2>1, <2>4, NullAssumption DEF Paired, RInv, IInv, TypeOK
    <3>2. CASE <<g, h>> \in newer
      BY <2>4, <3>1, <3>2 DEF RInv, OrderInv, Paired
    <3>3. CASE g = f /\ map[h] # NULL
      BY <3>1, <3>3
    <3> QED BY <2>1, <3>2, <3>3
  <2> QED BY <1>2, <2>11, <2>12 DEF EL!Next
<1> QED BY <1>3, <1>4

\* The three ways in which the application registers an object.
LEMMA RegisterMaps ==
    ASSUME RInv, UseHash, NEW d \in Data, NEW f \in Fds,
           AppRegister(d, f) \/ AppAddTimer(d, f) \/ AppCreateEvent(d, f)
    PROVE  (EL!Next \/ UNCHANGED EL!vars) /\ RInv'
<1>1. PICK t : XEvents_Add(d, f, t)
  BY DEF AppRegister, AppAddTimer, AppCreateEvent, XEvents_RegisterEvent, XEvents_AddTimer,
         XEvents_CreateEvent
<1>2. EpollOpen /\ AppTurn /\ d \notin alloc /\ UNCHANGED <<batch, walk, gone, frames, dtor>>
  BY DEF AppRegister, AppAddTimer, AppCreateEvent, XEvents_RegisterEvent, XEvents_AddTimer,
         XEvents_CreateEvent
<1>3. IInv'
  BY NextIInv DEF RInv, Next
<1> QED BY <1>1, <1>2, <1>3, AddMaps DEF RInv

-----------------------------------------------------------------------------
(* The walk over the batch.                                                *)

\* A step of the kernel or on a descriptor changes nothing EventLoop sees.
LEMMA StutterMaps ==
    ASSUME RInv, UNCHANGED <<alloc, fdOf, map, newer, array, waitCount, idx, pc, cur, reason,
                             user, gone, frames, detached>>
    PROVE  UNCHANGED EL!vars /\ OrderInv' /\ DistinctInv' /\ CurInv'
<1>1. Live' = Live /\ Newer' = Newer
  BY DEF Live, InFrames, Newer
<1>2. Pending' = Pending /\ CallNow' = CallNow /\ Doomed' = Doomed
  BY DEF Pending, CallNow, Doomed
<1> QED BY <1>1, <1>2 DEF EL!vars, RInv, OrderInv, Paired, DistinctInv, CurInv

\* epoll_wait reports live objects, none of them twice.
LEMMA EpollWaitMaps ==
    ASSUME RInv, UseHash, EpollWait PROVE EL!Next /\ RInv'
<1>1. /\ UNCHANGED <<interest, alloc, fdOf, map, newer, cur, reason, user, gone, frames, detached>>
      /\ idx' = 1 /\ pc' = "loop" /\ pc = "app" /\ frames = NoFrames
  BY DEF EpollWait, kernel, heap, hash, dtor
<1>2. PICK n \in Slots : \E s \in [1..n -> Reported] :
         /\ \A i, j \in 1..n : i # j => s[i].fd # s[j].fd
         /\ array' = [j \in Slots |-> IF j <= n THEN interest[s[j].fd] ELSE NULL]
         /\ waitCount' = n
  BY DEF EpollWait
<1>3. PICK s \in [1..n -> Reported] :
         /\ \A i, j \in 1..n : i # j => s[i].fd # s[j].fd
         /\ array' = [j \in Slots |-> IF j <= n THEN interest[s[j].fd] ELSE NULL]
         /\ waitCount' = n
  BY <1>2
<1>4. \A r \in Reported : r.fd \in Fds /\ interest[r.fd] # NULL
  BY DEF Reported
<1>5. \A j \in Slots : j <= n => j \in 1..n /\ s[j] \in Reported
  BY BatchAssumption DEF Slots
<1>6. \A f \in Fds : interest[f] # NULL => interest[f] \in Live /\ fdOf[interest[f]] = f
  BY DEF RInv, IInv, KernelInv, Alive, Live
<1>7. \A j \in Slots : IF j <= n THEN array'[j] \in Live /\ array'[j] # NULL
                                       /\ fdOf[array'[j]] = s[j].fd
                                  ELSE array'[j] = NULL
  BY <1>3, <1>4, <1>5, <1>6
<1>8. DistinctInv'
  <2> SUFFICES ASSUME NEW j \in Slots, NEW k \in Slots, array'[j] # NULL, array'[j] = array'[k]
               PROVE  j = k
    BY DEF DistinctInv
  <2>1. j \in 1..n /\ k \in 1..n
    BY <1>5, <1>7
  <2>2. s[j].fd = s[k].fd
    BY <1>5, <1>7, <2>1
  <2> QED BY <1>3, <2>1, <2>2
<1>9. Pending' \in (SUBSET Live) \ {{}}
  <2>1. Pending' = {array'[j] : j \in {k \in Slots : k <= n /\ array'[k] # NULL /\ 1 <= k}}
    BY <1>1, <1>3 DEF Pending
  <2>2. Pending' \subseteq Live
    BY <1>7, <2>1
  <2>3. array'[n] \in Pending'
    <3>1. n <= n /\ 1 <= n
      BY BatchAssumption DEF Slots
    <3> QED BY <1>7, <2>1, <3>1
  <2> QED BY <2>2, <2>3
<1>10. Live' = Live /\ Newer' = Newer /\ Doomed' = Doomed
  BY <1>1 DEF Live, InFrames, Newer, Doomed
<1>11. CallNow' = CallNow
  BY <1>1 DEF CallNow
<1>12. EL!Poll
  BY <1>1, <1>9, <1>10, <1>11 DEF EL!Poll, EL!EngineTurn, NoFrames
<1>13. IInv'
  BY NextIInv DEF RInv, Next
<1>14. OrderInv' /\ CurInv'
  BY <1>1 DEF RInv, OrderInv, Paired, CurInv
<1> QED BY <1>8, <1>12, <1>13, <1>14 DEF EL!Next, RInv

\* The loop skips an entry that a deletion nullified, or dispatches the next
\* object of the batch.
LEMMA DispatchMaps ==
    ASSUME RInv, UseHash, ServiceSkip \/ ServiceSock \/ ServiceTimer
    PROVE  (EL!Next \/ UNCHANGED EL!vars) /\ RInv'
<1>1. /\ UNCHANGED <<alloc, fdOf, map, newer, array, waitCount, frames, detached>>
      /\ pc = "loop" /\ frames = NoFrames /\ idx <= waitCount
  BY DEF ServiceSkip, ServiceSock, ServiceTimer, CallbackStart, InLoop, heap, hash, batch, dtor
<1>2. Live' = Live /\ Newer' = Newer /\ Doomed' = Doomed
  BY <1>1 DEF Live, InFrames, Newer, Doomed
<1>3. IInv'
  BY NextIInv DEF RInv, Next
<1>4. OrderInv' /\ DistinctInv'
  BY <1>1 DEF RInv, OrderInv, Paired, DistinctInv
<1>5. idx \in Slots
  BY <1>1, BatchAssumption DEF RInv, IInv, TypeOK, Slots
<1>6. CASE ServiceSkip
  <2>1. /\ array[idx] = NULL /\ idx' = idx + 1
        /\ UNCHANGED <<pc, cur, reason, user, gone>>
    BY <1>6 DEF ServiceSkip, walk
  <2>2. \A k \in Slots : array[k] # NULL => (idx <= k <=> idx' <= k)
    <3>1. \A k \in Slots : idx <= k <=> idx = k \/ idx + 1 <= k
      BY <1>5 DEF Slots
    <3> QED BY <2>1, <3>1
  <2>3. Pending' = Pending
    BY <1>1, <2>1, <2>2 DEF Pending
  <2>4. CallNow' = CallNow /\ CurInv'
    BY <2>1 DEF CallNow, RInv, CurInv
  <2> QED BY <1>1, <1>2, <1>3, <1>4, <2>1, <2>3, <2>4 DEF EL!vars, RInv
<1>7. CASE ServiceSock \/ ServiceTimer
  <2> DEFINE d == array[idx]
  <2>1. /\ d # NULL /\ pc' = "cb" /\ cur' = d /\ user' = FALSE /\ gone' = FALSE /\ idx' = idx
    BY <1>7 DEF ServiceSock, ServiceTimer, CallbackStart, batch
  <2>2. d \in Data /\ d \in Pending
    BY <1>1, <1>5, <2>1 DEF RInv, IInv, TypeOK, Ptr, Pending, Slots
  <2>3. Pending' = Pending \ {d}
    <3>1. \A k \in Slots : array[k] # NULL => (idx < k <=> idx <= k /\ array[k] # d)
      BY <1>5, <2>1 DEF RInv, DistinctInv, Slots
    <3> QED BY <1>1, <2>1, <3>1 DEF Pending
  <2>4. CallNow' \in Reasons \X BOOLEAN
    BY <1>3, <2>1 DEF CallNow, IInv, TypeOK
  <2>5. EL!Dispatch(d)
    BY <1>1, <1>2, <2>1, <2>2, <2>3, <2>4 DEF EL!Dispatch, EL!EngineTurn, NoFrames
  <2>6. CurInv'
    BY <2>1 DEF CurInv
  <2> QED BY <1>3, <1>4, <2>2, <2>5, <2>6 DEF EL!Next, RInv
<1> QED BY <1>6, <1>7

\* The callback's result, deletions aside: it is called again, the walk goes on
\* or the batch is abandoned.
LEMMA ReturnMaps ==
    ASSUME RInv, UseHash, ReturnContinue \/ ReturnStop \/ ReturnUserCall
    PROVE  EL!Next /\ RInv'
<1>1. /\ UNCHANGED <<alloc, fdOf, map, newer, array, waitCount, frames, detached>>
      /\ pc = "cb" /\ frames = NoFrames
  BY DEF ReturnContinue, ReturnStop, ReturnUserCall, InCallback, heap, hash, batch, dtor
<1>2. Live' = Live /\ Newer' = Newer /\ Doomed' = Doomed
  BY <1>1 DEF Live, InFrames, Newer, Doomed
<1>3. IInv'
  BY NextIInv DEF RInv, Next
<1>4. OrderInv' /\ DistinctInv'
  BY <1>1 DEF RInv, OrderInv, Paired, DistinctInv
<1>5. CASE (ReturnContinue /\ ReadNext) \/ ReturnUserCall
  <2>1. ~gone /\ gone' = gone /\ UNCHANGED <<pc, cur, idx>>
    BY <1>5 DEF ReturnContinue, ReturnUserCall, batch, RInv, IInv, TypeOK
  <2>2. Pending' = Pending
    BY <1>1, <2>1 DEF Pending
  <2>3. CallNow' \in Reasons \X BOOLEAN
    BY <1>1, <1>3, <2>1 DEF CallNow, IInv, TypeOK
  <2>4. EL!Again
    BY <1>1, <1>2, <2>1, <2>2, <2>3 DEF EL!Again, EL!EngineTurn, NoFrames
  <2>5. CurInv'
    BY <1>1, <2>1 DEF CurInv
  <2> QED BY <1>3, <1>4, <2>4, <2>5 DEF EL!Next, RInv
<1>6. CASE ReturnContinue /\ ~ReadNext
  <2>1. pc' = "loop" /\ idx' = idx + 1 /\ cur' = NULL /\ gone' = FALSE
    BY <1>6 DEF ReturnContinue
  <2>2. \A k \in Slots : idx < k <=> idx' <= k
    BY <2>1 DEF RInv, IInv, TypeOK, Slots
  <2>3. Pending' = Pending
    BY <1>1, <2>1, <2>2 DEF Pending
  <2>4. CallNow' = NoCall
    BY <2>1 DEF CallNow
  <2>5. EL!Continue
    BY <1>1, <1>2, <2>1, <2>3, <2>4 DEF EL!Continue, EL!EngineTurn, NoFrames
  <2>6. CurInv'
    BY <2>1 DEF CurInv
  <2> QED BY <1>3, <1>4, <2>5, <2>6 DEF EL!Next, RInv
<1>7. CASE ReturnStop
  <2>1. pc' = "stop" /\ UNCHANGED <<cur, gone>>
    BY <1>7 DEF ReturnStop
  <2>2. Pending' = {} /\ CallNow' = NoCall
    BY <2>1 DEF Pending, CallNow
  <2>3. EL!Break
    BY <1>1, <1>2, <2>1, <2>2 DEF EL!Break, EL!EngineTurn, NoFrames
  <2>4. CurInv'
    BY <2>1 DEF CurInv
  <2> QED BY <1>3, <1>4, <2>3, <2>4 DEF EL!Next, RInv
<1> QED BY <1>5, <1>6, <1>7

\* XEvents_Service returns.
LEMMA EndMaps ==
    ASSUME RInv, UseHash, LoopEnd \/ LoopBreak PROVE EL!Next /\ RInv'
<1>1. /\ UNCHANGED <<alloc, fdOf, map, newer, frames, detached>>
      /\ pc' = "app" /\ array' = [j \in Slots |-> NULL] /\ cur' = NULL /\ gone' = FALSE
      /\ frames = NoFrames /\ (pc = "stop" \/ (pc = "loop" /\ idx > waitCount))
  BY DEF LoopEnd, LoopBreak, ServiceEnd, heap, hash, dtor
<1>2. Live' = Live /\ Newer' = Newer /\ Doomed' = Doomed
  BY <1>1 DEF Live, InFrames, Newer, Doomed
<1>3. Pending = {}
  <2>1. \A k \in Slots : idx > waitCount => ~(k <= waitCount /\ idx <= k)
    BY DEF RInv, IInv, TypeOK, Slots
  <2> QED BY <1>1, <2>1 DEF Pending
<1>4. Pending' = {} /\ CallNow' = NoCall /\ CallNow = NoCall
  BY <1>1 DEF Pending, CallNow
<1>5. EL!End
  BY <1>1, <1>2, <1>3, <1>4 DEF EL!End, EL!EngineTurn, NoFrames
<1>6. IInv'
  BY NextIInv DEF RInv, Next
<1>7. OrderInv' /\ DistinctInv' /\ CurInv'
  BY <1>1 DEF RInv, OrderInv, Paired, DistinctInv, CurInv
<1> QED BY <1>5, <1>6, <1>7 DEF EL!Next, RInv

-----------------------------------------------------------------------------
(* Destruction.                                                            *)

\* A bucket that has pairs becomes the group being destroyed; an empty one is
\* passed over.
LEMMA DestroyBucketMaps ==
    ASSUME RInv, UseHash, DestroyBucket PROVE (EL!Next \/ UNCHANGED EL!vars) /\ RInv'
<1>1. /\ detached' = [f \in Fds |-> IF Bucket(f) = bucket THEN map[f] ELSE NULL]
      /\ map' = [f \in Fds |-> IF Bucket(f) = bucket THEN NULL ELSE map[f]]
      /\ pc = "destroy" /\ frames = NoFrames /\ \A f \in Fds : detached[f] = NULL
      /\ UNCHANGED <<alloc, fdOf, newer, array, waitCount, idx, pc, cur, reason, user, gone, frames>>
  BY DEF DestroyBucket, InDestroy, Cleared, heap, batch, walk
<1>2. Live' = Live /\ Newer' = Newer
  BY <1>1 DEF Live, InFrames, Newer
<1>3. Pending' = Pending /\ CallNow' = CallNow
  BY <1>1 DEF Pending, CallNow
<1>4. Doomed = {}
  BY <1>1 DEF Doomed
<1>5. IInv'
  BY NextIInv DEF RInv, Next
<1>6. Doomed' \subseteq Live
  <2>1. \A f \in Fds : detached'[f] # NULL => detached'[f] \in alloc /\ ~InFrames(detached'[f])
    BY <1>1 DEF RInv, IInv, MapInv, Alive
  <2> QED BY <2>1 DEF Doomed, Live
<1>7. EL!Doom \/ UNCHANGED EL!vars
  <2>1. CASE Doomed' = {}
    BY <1>1, <1>2, <1>3, <1>4, <2>1 DEF EL!vars
  <2>2. CASE Doomed' # {}
    BY <1>1, <1>2, <1>3, <1>4, <1>6, <2>2 DEF EL!Doom, EL!EngineTurn, NoFrames
  <2> QED BY <2>1, <2>2
<1>8. OrderInv'
  <2>1. \A f \in Fds : Paired(f)' <=> Paired(f)
    BY <1>1 DEF Paired
  <2> QED BY <1>1, <2>1 DEF RInv, OrderInv
<1>9. DistinctInv' /\ CurInv'
  BY <1>1 DEF RInv, DistinctInv, CurInv
<1> QED BY <1>5, <1>7, <1>8, <1>9 DEF EL!Next, RInv

\* The first node of the detached bucket is its newest object.
LEMMA DestroyNodeMaps ==
    ASSUME RInv, UseHash, NEW f \in Fds, DestroyNode(f) PROVE EL!Next /\ RInv'
<1> DEFINE d == detached[f]
<1>1. /\ pc = "destroy" /\ frames = NoFrames /\ d # NULL
      /\ \A g \in Fds : detached[g] # NULL => <<g, f>> \notin newer
      /\ detached' = [detached EXCEPT ![f] = NULL] /\ newer' = Forget(newer, f) /\ ClearCb(d)
      /\ UNCHANGED <<map, array, waitCount, idx, pc, cur, reason, user, gone>>
  BY DEF DestroyNode, InDestroy, batch, walk
<1>2. d \in Data /\ d \in Live /\ fdOf[d] = f
  BY <1>1 DEF RInv, IInv, TypeOK, Ptr, DetachedInv, Alive, Live
<1>3. /\ frames' = Append(frames, d) /\ alloc' = alloc
      /\ \A x \in Data : x # d => fdOf'[x] = fdOf[x]
  BY <1>1 DEF ClearCb, RInv, IInv, TypeOK
<1>4. \A x : InFrames(x)' <=> InFrames(x) \/ x = d
  BY <1>2, <1>3, PushFrames DEF RInv, IInv, TypeOK
<1>5. Live' = Live \ {d}
  BY <1>3, <1>4 DEF Live
<1>6. Newer' = EL!Without(Newer, d)
  <2>1. Live \subseteq Data
    BY LiveDescriptors DEF RInv
  <2>2. \A x \in Live' : fdOf'[x] = fdOf[x]
    BY <1>3, <1>5, <2>1
  <2> QED BY <1>1, <1>2, <1>5, <2>2, NewerForgets DEF RInv
<1>7. \A g \in Fds : detached[g] # NULL => detached[g] \in Live /\ fdOf[detached[g]] = g
  BY DEF RInv, IInv, DetachedInv, Alive, Live
<1>8. d \in Doomed /\ Doomed' = Doomed \ {d}
  <2>1. \A g \in Fds : detached'[g] # NULL <=> detached[g] # NULL /\ detached[g] # d
    BY <1>1, <1>2, <1>7 DEF RInv, IInv, TypeOK
  <2>2. \A g \in Fds : detached'[g] # NULL => detached'[g] = detached[g]
    BY <1>1 DEF RInv, IInv, TypeOK
  <2> QED BY <1>1, <2>1, <2>2 DEF Doomed
<1>9. \A e \in Doomed : <<e, d>> \notin Newer
  BY <1>1, <1>2, <1>7 DEF Doomed, Newer
<1>10. Pending' = {} /\ Pending = {} /\ CallNow' = CallNow
  BY <1>1 DEF Pending, CallNow
<1>11. gone' = (gone \/ d = cur)
  BY <1>1, <1>2, NullAssumption DEF RInv, CurInv, IInv, TypeOK
<1>12. EL!ClearNext(d)
  BY <1>1, <1>3, <1>5, <1>6, <1>8, <1>9, <1>10, <1>11
  DEF EL!ClearNext, EL!EngineTurn, EL!Remove, NoFrames
<1>13. IInv'
  BY NextIInv DEF RInv, Next
<1>14. OrderInv'
  BY <1>1 DEF RInv, OrderInv, Paired, Forget, IInv, TypeOK
<1>15. DistinctInv' /\ CurInv'
  BY <1>1 DEF RInv, DistinctInv, CurInv
<1> QED BY <1>2, <1>12, <1>13, <1>14, <1>15 DEF EL!Next, RInv

\* The beginning and the end of a destruction, and a new engine.
LEMMA LifecycleMaps ==
    ASSUME RInv, UseHash, XEvents_Destroy \/ DestroyEnd \/ XEvents_Create
    PROVE  EL!Next /\ RInv'
<1>1. /\ UNCHANGED <<alloc, fdOf, array, waitCount, idx, cur, reason, user, gone, frames, detached>>
      /\ pc \in {"app", "destroy", "dead"} /\ pc' \in {"app", "destroy", "dead"}
  BY DEF XEvents_Destroy, DestroyEnd, XEvents_Create, InDestroy, heap, batch, dtor
<1>2. Live' = Live /\ Doomed' = Doomed
  BY <1>1 DEF Live, InFrames, Doomed
<1>3. Pending' = {} /\ Pending = {} /\ CallNow' = NoCall /\ CallNow = NoCall
  BY <1>1 DEF Pending, CallNow
<1>4. IInv /\ IInv'
  BY NextIInv DEF RInv, Next
<1>5. DistinctInv' /\ CurInv'
  BY <1>1 DEF RInv, DistinctInv, CurInv
<1>6. CASE XEvents_Destroy
  <2>1. pc = "app" /\ frames = NoFrames /\ pc' = "destroy" /\ UNCHANGED <<map, newer>>
    BY <1>6 DEF XEvents_Destroy, hash
  <2>2. Newer' = Newer /\ OrderInv'
    BY <1>1, <1>2, <2>1 DEF Newer, RInv, OrderInv, Paired
  <2>3. EL!Destroy
    BY <1>1, <1>2, <1>3, <2>1, <2>2 DEF EL!Destroy, EL!EngineTurn, NoFrames
  <2> QED BY <1>4, <1>5, <2>2, <2>3 DEF EL!Next, RInv
<1>7. CASE DestroyEnd
  <2>1. pc = "destroy" /\ frames = NoFrames /\ pc' = "dead" /\ UNCHANGED <<map, newer>>
    BY <1>7 DEF DestroyEnd, InDestroy, hash
  <2>2. Newer' = Newer /\ OrderInv'
    BY <1>1, <1>2, <2>1 DEF Newer, RInv, OrderInv, Paired
  <2>3. Live = {}
    BY <1>1, <1>4, <2>1 DEF IInv, DestroyInv, Live
  <2>4. EL!DestroyEnd
    BY <1>1, <1>2, <1>3, <2>1, <2>2, <2>3 DEF EL!DestroyEnd, EL!EngineTurn, NoFrames
  <2> QED BY <1>4, <1>5, <2>2, <2>4 DEF EL!Next, RInv
<1>8. CASE XEvents_Create
  <2>1. pc = "dead" /\ pc' = "app" /\ newer' = {}
    BY <1>8 DEF XEvents_Create
  <2>2. Live = {}
    BY <1>4, <2>1 DEF IInv, DestroyInv, Live
  <2>3. Newer' = Newer /\ OrderInv'
    BY <1>2, <2>1, <2>2 DEF Newer, OrderInv
  <2>4. EL!Create
    BY <1>1, <1>2, <1>3, <2>1, <2>3 DEF EL!Create
  <2> QED BY <1>4, <1>5, <2>3, <2>4 DEF EL!Next, RInv
<1> QED BY <1>6, <1>7, <1>8

-----------------------------------------------------------------------------
\* The engine starts as EventLoop does.
LEMMA InitMaps == Init => RInv /\ EL!Init
<1> SUFFICES ASSUME Init PROVE RInv /\ EL!Init
  OBVIOUS
<1>1. OrderInv /\ DistinctInv /\ CurInv
  BY DEF Init, OrderInv, DistinctInv, CurInv
<1>2. Live = {} /\ Newer = {} /\ Pending = {} /\ CallNow = NoCall /\ Doomed = {}
  BY DEF Init, Live, Newer, Pending, CallNow, Doomed
<1> QED BY <1>1, <1>2, InitIInv DEF RInv, EL!Init, Init, NoFrames

\* Every step of the engine is one that EventLoop allows, or one it does not see.
LEMMA NextMaps ==
    ASSUME RInv, UseHash, [Next]_vars PROVE [EL!Next]_EL!vars /\ RInv'
<1>1. IInv'
  BY NextIInv DEF RInv
<1>2. CASE UNCHANGED vars \/ (\E f \in Fds : AppClose(f) \/ Expire(f))
           \/ \E d \in Data : AppExtendTimer(d)
  <2>1. UNCHANGED <<alloc, fdOf, map, newer, array, waitCount, idx, pc, cur, reason, user, gone,
                    frames, detached>>
    BY <1>2 DEF AppClose, Expire, AppExtendTimer, XEvents_ExtendTimer, vars, kernel, heap, hash,
                batch, walk, dtor
  <2> QED BY <1>1, <2>1, StutterMaps DEF RInv
<1>3. CASE \E d \in Data, f \in Fds :
             AppRegister(d, f) \/ AppAddTimer(d, f) \/ AppCreateEvent(d, f)
  BY <1>3, RegisterMaps
<1>4. CASE \E d \in Data : AppDelete(d)
  BY <1>4, AppDeleteMaps
<1>5. CASE ClearReturn
  BY <1>5, ClearReturnMaps
<1>6. CASE EpollWait
  BY <1>6, EpollWaitMaps
<1>7. CASE ServiceSkip \/ ServiceSock \/ ServiceTimer
  BY <1>7, DispatchMaps
<1>8. CASE LoopEnd \/ LoopBreak
  BY <1>8, EndMaps
<1>9. CASE ReturnContinue \/ ReturnStop \/ ReturnUserCall
  BY <1>9, ReturnMaps
<1>10. CASE ReturnDisconnect \/ ReturnTimerError
  BY <1>10, DisconnectMaps
<1>11. CASE XEvents_Destroy \/ DestroyEnd \/ XEvents_Create
  BY <1>11, LifecycleMaps
<1>12. CASE DestroyBucket
  BY <1>12, DestroyBucketMaps
<1>13. CASE \E f \in Fds : DestroyNode(f)
  BY <1>13, DestroyNodeMaps
<1> QED
  BY <1>2, <1>3, <1>4, <1>5, <1>6, <1>7, <1>8, <1>9, <1>10, <1>11, <1>12, <1>13 DEF Next

\* With its hash map the engine keeps everything EventLoop promises: only live
\* objects are dispatched, each is cleared once, and a destruction clears the
\* newest object of a bucket first.
THEOREM EngineRefines == ASSUME UseHash PROVE Spec => Implements
<1>1. Init => RInv /\ EL!Init
  BY InitMaps
<1>2. RInv /\ [Next]_vars => [EL!Next]_EL!vars /\ RInv'
  BY NextMaps
<1> QED BY <1>1, <1>2, PTL DEF Spec, Implements, EL!Spec
=============================================================================
