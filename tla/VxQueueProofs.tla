---------------------------- MODULE VxQueueProofs ----------------------------
(***************************************************************************)
(* Proofs about VxQueue, for any number of queues, events, buffers and     *)
(* commands and any length of wait lists.                                  *)
(***************************************************************************)
EXTENDS VxQueue, FiniteSetTheorems, TLAPS

(* The types; that a reference count is never negative follows only from   *)
(* what it counts.                                                         *)
Types ==
  /\ cmds \in Seq(Cmds) /\ Len(cmds) <= MaxCmds /\ refused \in Nat /\ fifo \in [Queues -> Seq(Ids)]
  /\ cur \in [Queues -> 0..MaxCmds]
  /\ stage \in [Queues -> {"idle", "deps", "notify", "stopped"}]
  /\ deps \in [Queues -> SUBSET Events] /\ res \in [Queues -> BOOLEAN]
  /\ shut \in [Queues -> BOOLEAN]
  /\ counter \in [Events -> 0..MaxVal] /\ error \in [Events -> BOOLEAN]
  /\ refs \in [Objs -> Int] /\ app \in [Objs -> BOOLEAN]
  /\ mirror \in [Bufs -> 0..MaxCmds] /\ filled \in [Bufs -> BOOLEAN]
  /\ hpc \in {"idle", "finish", "start", "launch", "remember", "ready"}
  /\ hev \in 0..MaxCmds /\ last \in 0..MaxCmds /\ forgot \in BOOLEAN
  /\ result \in [Ids -> {"none", "ok", "error"}] /\ failed \subseteq Ids

(* A queue and its worker: the FIFO holds commands of this queue that have *)
(* not ended, in the order of their numbers, all later than the one the    *)
(* worker is on; no other command of the queue is still to end.            *)
InFifo(q, c) == \E i \in 1..Len(fifo[q]) : fifo[q][i] = c
Owns(q, c) == c \in Enqueued /\ cmds[c].q = q

FifoInv(q) ==
  /\ \A i \in 1..Len(fifo[q]) : Owns(q, fifo[q][i]) /\ ~Ended(fifo[q][i])
  /\ \A i, j \in 1..Len(fifo[q]) : i < j => fifo[q][i] < fifo[q][j]
  /\ \A c \in Enqueued : cmds[c].q = q /\ ~Ended(c) => c = cur[q] \/ InFifo(q, c)

WorkerInv(q) ==
  /\ cur[q] = 0 <=> stage[q] \in {"idle", "stopped"}
  /\ cur[q] # 0 => Owns(q, cur[q]) /\ \A i \in 1..Len(fifo[q]) : cur[q] < fifo[q][i]
  /\ stage[q] = "deps" => ~Ended(cur[q]) /\ deps[q] \subseteq Cur(q).waits
  /\ stage[q] = "notify" => Ended(cur[q])
  /\ stage[q] # "deps" => deps[q] = {}

(* The wait list: what has been waited for succeeded, or one of it failed. *)
Succeeded(e) == IF e \in Ids THEN result[e] = "ok" ELSE counter[e] >= 1
FailedWait(c) == \E e \in cmds[c].waits \cap Ids : result[e] = "error"
WaitInv(q) ==
  stage[q] = "deps" => IF res[q] THEN \A e \in Cur(q).waits \ deps[q] : Succeeded(e)
                                 ELSE FailedWait(cur[q])

(* Events say what became of their commands.                               *)
EventInv ==
  /\ \A c \in Ids : (counter[c] >= 1 <=> Ended(c)) /\ (error[c] <=> result[c] = "error")
  /\ \A u \in UserEvents : ~error[u]
  /\ \A c \in Ids \ Enqueued : ~Ended(c) /\ ~app[c] /\ c \notin failed

(* Commands, as enqueued and as ended.                                     *)
CmdInv(c) ==
  /\ cmds[c].kind = "wait" => /\ cmds[c].obj \in Events /\ cmds[c].val >= 1
                              /\ cmds[c].obj \in Ids => cmds[c].val = 1
  /\ cmds[c].kind = "signal" => cmds[c].obj \in UserEvents /\ cmds[c].val \in 1..MaxVal
  /\ cmds[c].kind \in Maps => cmds[c].obj \in Bufs

EndInv(c) ==
  /\ c \in failed => result[c] = "error"
  /\ Ended(c) => FailedWait(c) \/ \A e \in cmds[c].waits \cap Ids : result[e] = "ok"
  /\ result[c] = "ok" => ~FailedWait(c)
  /\ result[c] = "ok" /\ cmds[c].kind = "wait" /\ cmds[c].obj \in Ids => result[cmds[c].obj] = "ok"
  /\ result[c] = "error" => c \in failed \/ Inherits(c)

(* Mappings belong to the map command that reserved them.                  *)
MapInv ==
  /\ \A b \in Bufs : mirror[b] # 0 =>
       mirror[b] \in Enqueued /\ cmds[mirror[b]].kind \in Maps /\ cmds[mirror[b]].obj = b
  /\ MapPopulated

(* The host thread: what it waits for, and the launch it remembers.        *)
LegacyInv ==
  /\ IF hpc \in {"idle", "launch"} THEN hev = 0 ELSE hev \in Enqueued
  /\ last \in 0..Len(cmds)
  /\ hpc \notin {"idle", "finish"} => last = 0
  /\ hpc = "finish" => cmds[hev].kind # "launch"
  /\ hev # 0 => app[hev] /\ hev # last
  /\ last # 0 => app[last]
  /\ LegacyTracked

CoreInv == /\ Types
           /\ \A q \in Queues : FifoInv(q) /\ WorkerInv(q) /\ WaitInv(q)
           /\ EventInv
           /\ \A c \in Enqueued : CmdInv(c) /\ EndInv(c)
IInv == CoreInv /\ MapInv /\ LegacyInv /\ RefsCover
-----------------------------------------------------------------------------
(* What the objects are.                                                   *)
LEMMA ObjFacts ==
  /\ MaxCmds \in Nat /\ MaxVal \in Nat \ {0} /\ LegacyQ \in Queues
  /\ Ids \subseteq Events /\ Ids \subseteq Objs /\ UserEvents \subseteq Events /\ Bufs \subseteq Objs
  /\ Events \subseteq Objs /\ NoObj \notin Objs /\ 0 \notin Ids
  /\ \A e \in Events : e \in Ids \/ e \in UserEvents
  /\ \A u \in UserEvents : u \notin Ids
  /\ Ids \subseteq 0..MaxCmds /\ Ids \subseteq Nat
BY QueueAssumption, ObjectAssumption DEF Ids, Events, Objs

(* The commands so far, and one more.                                      *)
LEMMA Numbers ==
  ASSUME Types
  PROVE  /\ Len(cmds) \in Nat /\ Enqueued \subseteq Ids /\ NewId \in Nat /\ NewId # 0
         /\ NewId \notin Enqueued /\ \A c \in Enqueued : c < NewId /\ cmds[c] \in Cmds
<1>1. cmds \in Seq(Cmds) /\ Len(cmds) <= MaxCmds /\ MaxCmds \in Nat /\ Len(cmds) \in Nat
  BY QueueAssumption DEF Types
<1> QED BY <1>1 DEF Enqueued, NewId, Ids

(* A call that may be made has a number left.                              *)
LEMMA RoomIs ==
  ASSUME Types, MayCall
  PROVE  NewId \in Ids
BY Numbers, QueueAssumption DEF Types, MayCall, Ids, NewId

(* The record of a command that q is given, with what the entry point      *)
(* that enqueues it makes sure of.                                         *)
WellFormed(n) ==
  /\ n.kind = "wait" => n.obj \in Events /\ n.val >= 1 /\ (n.obj \in Ids => n.val = 1)
  /\ n.kind = "signal" => n.obj \in UserEvents /\ n.val \in 1..MaxVal
  /\ n.kind \in Maps => n.obj \in Bufs

Mapped(n) ==
  IF n.kind \in Maps
  THEN mirror' = [mirror EXCEPT ![n.obj] = NewId] /\ filled' = [filled EXCEPT ![n.obj] = FALSE]
  ELSE UNCHANGED buffer

Tracked(n) ==
  \/ UNCHANGED legacy /\ n.kind # "launch"
  \/ /\ hpc = "idle" /\ hpc' = "finish" /\ hev' = NewId /\ n.kind # "launch"
     /\ UNCHANGED <<last, forgot>>
  \/ hpc = "launch" /\ hpc' = "remember" /\ hev' = NewId /\ UNCHANGED <<last, forgot>>

EnqueueStep ==
  \E q \in Queues, n \in Cmds :
    /\ Enqueue(q, n.kind, n.obj, n.val, n.waits) /\ n.q = q
    /\ WellFormed(n) /\ Mapped(n) /\ Tracked(n)

(* A step that concerns no command.                                        *)
QuietStep ==
  \/ \E o \in Objs : Disposable(o) /\ ReleaseHandle(o)
  \/ EnqueueRefused
  \/ \E b \in Bufs : UnmapNow(b)
  \/ \E u \in UserEvents : HostSignal(u)
  \/ \E q \in Queues : DestroyQueue(q) \/ Stop(q)
  \/ Start \/ Remember \/ ReadyWait \/ \E t \in BOOLEAN : WaitEnds(t)
  \/ UNCHANGED vars

EndStep(q) == SkipWork(q) \/ EndWork(q) \/ EndHostWork(q)

(* Every enqueue is an enqueue step.                                       *)
LEMMA EnqueueIs ==
  ASSUME Types, NEW q \in Queues,
         NEW kind \in Kinds, NEW obj \in Objs \cup {NoObj}, NEW val \in 0..(MaxCmds + MaxVal),
         NEW waits \in SUBSET Events, Enqueue(q, kind, obj, val, waits),
         kind = "wait" => obj \in Events /\ val >= 1 /\ (obj \in Ids => val = 1),
         kind = "signal" => obj \in UserEvents /\ val \in 1..MaxVal,
         kind \in Maps => /\ obj \in Bufs
                          /\ mirror' = [mirror EXCEPT ![obj] = NewId]
                          /\ filled' = [filled EXCEPT ![obj] = FALSE],
         kind \notin Maps => UNCHANGED buffer,
         \/ UNCHANGED legacy /\ kind # "launch"
         \/ /\ hpc = "idle" /\ hpc' = "finish" /\ hev' = NewId /\ kind # "launch"
            /\ UNCHANGED <<last, forgot>>
         \/ hpc = "launch" /\ hpc' = "remember" /\ hev' = NewId /\ UNCHANGED <<last, forgot>>
  PROVE  EnqueueStep
<1> DEFINE n == [q |-> q, kind |-> kind, obj |-> obj, val |-> val, waits |-> waits]
<1>1. n \in Cmds
  BY DEF Cmds
<1>2. n.q = q /\ n.kind = kind /\ n.obj = obj /\ n.val = val /\ n.waits = waits
  OBVIOUS
<1>3. WellFormed(n) /\ Mapped(n) /\ Tracked(n)
  BY <1>2 DEF WellFormed, Mapped, Tracked
<1> HIDE DEF n
<1>4. Enqueue(q, n.kind, n.obj, n.val, n.waits)
  BY <1>2
<1> QED BY <1>1, <1>2, <1>3, <1>4 DEF EnqueueStep

(* One step, by its shape.                                                 *)
LEMMA Shapes ==
  ASSUME Types, [Next]_vars
  PROVE  \/ EnqueueStep \/ QuietStep
         \/ \E q \in Queues : \/ Pop(q) \/ EndStep(q) \/ DropCompletion(q)
                              \/ \E e \in Events : WaitDep(q, e)
<1>0. \A w \in WaitLists : w \in SUBSET Events
  BY DEF WaitLists
<1> USE ObjFacts
<1>a. 0 \in 0..(MaxCmds + MaxVal) /\ NoObj \in Objs \cup {NoObj} /\ {} \in SUBSET Events
  OBVIOUS
<1>1. ASSUME NEW q \in Queues, Call(q), ~DestroyQueue(q) PROVE EnqueueStep
  <2>1. CASE EnqueueBarrier(q)
    <3>1. PICK w \in WaitLists : Enqueue(q, "barrier", NoObj, 0, w) /\ UNCHANGED <<buffer, legacy>>
      BY <2>1 DEF EnqueueBarrier
    <3>2. "barrier" \in Kinds /\ "barrier" \notin Maps /\ NoObj \notin Ids
      BY DEF Kinds, Maps
    <3> QED BY <1>0, <1>a, <3>1, <3>2, EnqueueIs
  <2>2. CASE EnqueueWork(q)
    <3>1. PICK w \in WaitLists, b \in Bufs :
            Enqueue(q, "work", b, 0, w) /\ UNCHANGED <<buffer, legacy>>
      BY <2>2 DEF EnqueueWork
    <3> QED BY <1>0, <3>1, EnqueueIs DEF Kinds, Maps
  <2>3. CASE EnqueueSignal(q)
    <3>1. PICK w \in WaitLists, u \in UserEvents, v \in 1..MaxVal :
            Enqueue(q, "signal", u, v, w) /\ UNCHANGED <<buffer, legacy>>
      BY <2>3 DEF EnqueueSignal
    <3>2. v \in 0..(MaxCmds + MaxVal)
      OBVIOUS
    <3> QED BY <1>0, <3>1, <3>2, EnqueueIs DEF Kinds, Maps
  <2>4. CASE EnqueueWaitValue(q)
    <3>1. PICK w \in WaitLists, e \in Events : \E v \in 1..(IF e \in Ids THEN 1 ELSE MaxVal) :
            Enqueue(q, "wait", e, v, w) /\ UNCHANGED <<buffer, legacy>>
      BY <2>4 DEF EnqueueWaitValue
    <3>2. PICK v \in 1..(IF e \in Ids THEN 1 ELSE MaxVal) :
            Enqueue(q, "wait", e, v, w) /\ UNCHANGED <<buffer, legacy>>
      BY <3>1
    <3>3. v \in 0..(MaxCmds + MaxVal) /\ v >= 1 /\ (e \in Ids => v = 1)
      OBVIOUS
    <3>4. w \in SUBSET Events /\ e \in Objs \cup {NoObj}
      BY <1>0
    <3> QED BY <3>2, <3>3, <3>4, EnqueueIs DEF Kinds, Maps
  <2>5. CASE EnqueueMap(q)
    <3>1. PICK w \in WaitLists, b \in Bufs, kind \in Maps :
            /\ Enqueue(q, kind, b, NewId, w)
            /\ mirror' = [mirror EXCEPT ![b] = NewId] /\ filled' = [filled EXCEPT ![b] = FALSE]
            /\ UNCHANGED legacy
      BY <2>5 DEF EnqueueMap
    <3>2. NewId \in Ids
      BY <3>1, RoomIs DEF Enqueue
    <3>3. NewId \in 0..(MaxCmds + MaxVal)
      BY <3>2 DEF Ids
    <3>4. kind \in Kinds /\ kind \notin {"wait", "signal", "launch"}
      BY DEF Kinds, Maps
    <3> QED BY <1>0, <3>1, <3>3, <3>4, EnqueueIs
  <2>6. CASE EnqueueUnmap(q)
    <3>1. PICK w \in WaitLists, m \in Ids :
            m < NewId /\ Enqueue(q, "unmap", cmds[m].obj, m, w) /\ UNCHANGED <<buffer, legacy>>
      BY <2>6 DEF EnqueueUnmap
    <3>2. m \in Enqueued
      BY <3>1, Numbers DEF Ids, Enqueued, NewId
    <3>3. cmds[m].obj \in Objs \cup {NoObj}
      BY <3>2, Numbers DEF Cmds
    <3>4. m \in 0..(MaxCmds + MaxVal)
      BY DEF Ids
    <3> QED BY <1>0, <3>1, <3>3, <3>4, EnqueueIs DEF Kinds, Maps
  <2>7. CASE Finish(q)
    <3>1. /\ Enqueue(q, "barrier", NoObj, 0, {}) /\ UNCHANGED buffer
          /\ hpc = "idle" /\ hpc' = "finish" /\ hev' = NewId /\ UNCHANGED <<last, forgot>>
      BY <2>7 DEF Finish
    <3>2. "barrier" \in Kinds /\ "barrier" \notin Maps
      BY DEF Kinds, Maps
    <3> QED BY <1>a, <3>1, <3>2, EnqueueIs
  <2> QED BY <1>1, <2>1, <2>2, <2>3, <2>4, <2>5, <2>6, <2>7 DEF Call
<1>2. ASSUME StartLaunch PROVE EnqueueStep
  <2>1. /\ Enqueue(LegacyQ, "launch", NoObj, 0, {}) /\ UNCHANGED buffer
        /\ hpc = "launch" /\ hpc' = "remember" /\ hev' = NewId /\ UNCHANGED <<last, forgot>>
    BY <1>2 DEF StartLaunch
  <2>2. "launch" \in Kinds /\ "launch" \notin Maps
    BY DEF Kinds, Maps
  <2> QED BY <1>a, <2>1, <2>2, EnqueueIs
<1>3. CASE \E q \in Queues : WorkerStep(q)
  BY <1>3 DEF WorkerStep, EndStep, QuietStep
<1>4. CASE Application
  BY <1>1, <1>4 DEF Application, QuietStep
<1>5. CASE Legacy
  BY <1>2, <1>5 DEF Legacy, QuietStep
<1>6. CASE UNCHANGED vars
  BY <1>6 DEF QuietStep
<1> QED BY <1>3, <1>4, <1>5, <1>6 DEF Next
-----------------------------------------------------------------------------
(* What an enqueue leaves.                                                 *)
LEMMA EnqueueFacts ==
  ASSUME Types, NEW q \in Queues, NEW n \in Cmds, n.q = q,
         Enqueue(q, n.kind, n.obj, n.val, n.waits)
  PROVE  /\ cmds' \in Seq(Cmds) /\ Len(cmds') = NewId /\ NewId \in Ids
         /\ Enqueued' = Enqueued \cup {NewId}
         /\ cmds'[NewId] = n /\ \A c \in Enqueued : cmds'[c] = cmds[c]
         /\ fifo' = [fifo EXCEPT ![q] = Append(fifo[q], NewId)]
         /\ app' = [app EXCEPT ![NewId] = TRUE]
         /\ \A o \in n.waits \cup ({n.obj} \ {NoObj}) : app[o]
         /\ UNCHANGED <<cur, stage, deps, res, shut, counter, error, result, failed, refused>>
<1>1. /\ cmds \in Seq(Cmds) /\ Len(cmds) \in Nat /\ NewId = Len(cmds) + 1 /\ NewId \in Ids
      /\ fifo \in [Queues -> Seq(Ids)]
  BY Numbers, RoomIs DEF Types, NewId, Enqueue
<1>2. n = [q |-> q, kind |-> n.kind, obj |-> n.obj, val |-> n.val, waits |-> n.waits]
  BY DEF Cmds
<1>3. cmds' = Append(cmds, n)
  BY <1>2 DEF Enqueue
<1>4. cmds' \in Seq(Cmds) /\ Len(cmds') = NewId
  BY <1>1, <1>3
<1>5. cmds'[NewId] = n /\ \A c \in Enqueued : cmds'[c] = cmds[c]
  BY <1>1, <1>3 DEF Enqueued
<1>6. Enqueued' = Enqueued \cup {NewId}
  <2>1. 1..(Len(cmds) + 1) = (1..Len(cmds)) \cup {Len(cmds) + 1}
    BY <1>1
  <2> QED BY <1>1, <1>4, <2>1 DEF Enqueued
<1>7. fifo' = [fifo EXCEPT ![q] = Append(fifo[q], NewId)]
  BY <1>1 DEF Enqueue
<1> QED BY <1>1, <1>4, <1>5, <1>6, <1>7 DEF Enqueue, worker, event

(* What the end of a command's work leaves: its result, its event, and an  *)
(* error that comes from its own work or from a wait.                      *)
EndsAs(q, ok) ==
  LET c == cur[q]
  IN  /\ stage[q] = "deps" /\ deps[q] = {} /\ c \in Enqueued
      /\ result' = [result EXCEPT ![c] = IF ok THEN "ok" ELSE "error"]
      /\ error' = [error EXCEPT ![c] = error[c] \/ ~ok]
      /\ stage' = [stage EXCEPT ![q] = "notify"]
      /\ counter' \in [Events -> 0..MaxVal] /\ counter'[c] >= 1
      /\ \A e \in Ids \ {c} : counter'[e] = counter[e]
      /\ \A u \in UserEvents : counter'[u] >= counter[u]
      /\ failed' = failed \/ (failed' = failed \cup {c} /\ ~ok /\ res[q])
      /\ ok => /\ res[q]
               /\ cmds[c].kind = "wait" => Reached(cmds[c].obj, cmds[c].val) /\ ~error[cmds[c].obj]
      /\ ~ok => \/ ~res[q] \/ c \in failed'
                \/ cmds[c].kind = "wait" /\ error[cmds[c].obj]
      /\ IF res[q] THEN Release(cmds[c].obj) ELSE UNCHANGED refs
      /\ UNCHANGED <<cmds, fifo, cur, deps, res, shut, app, legacy, refused>>

(* Every end of work is one of those.                                      *)
LEMMA EndFacts ==
  ASSUME Types, NEW q \in Queues, WorkerInv(q), \A c \in Enqueued : CmdInv(c), EndStep(q)
  PROVE  \E ok \in BOOLEAN : EndsAs(q, ok)
<1> DEFINE c == cur[q]
<1>0. /\ counter \in [Events -> 0..MaxVal] /\ MaxVal \in Nat \ {0} /\ res[q] \in BOOLEAN
      /\ error \in [Events -> BOOLEAN]
  BY ObjFacts DEF Types
<1>1. stage[q] = "deps" /\ deps[q] = {}
  BY DEF EndStep, SkipWork, EndWork, EndHostWork, Working
<1>2. c \in Enqueued /\ c \in Ids /\ c \in Events
  BY <1>1, Numbers, ObjFacts DEF WorkerInv, Owns
<1>3. ASSUME NEW f \in [Events -> 0..MaxVal], NEW g, g = CompletedCount(f, c)
      PROVE  /\ g \in [Events -> 0..MaxVal] /\ g[c] >= 1
             /\ \A e \in Events \ {c} : g[e] = f[e]
  <2>1. f[c] \in 0..MaxVal /\ (IF f[c] >= 1 THEN f[c] ELSE 1) \in 1..MaxVal
    BY <1>0, <1>2
  <2>2. g = [f EXCEPT ![c] = IF f[c] >= 1 THEN f[c] ELSE 1]
    BY <1>3 DEF CompletedCount
  <2> HIDE DEF c
  <2>3. g[c] = IF f[c] >= 1 THEN f[c] ELSE 1
    BY <1>2, <2>2
  <2> QED BY <1>0, <1>2, <2>1, <2>2, <2>3
<1>u. \A u \in UserEvents : u \in Events \ {c} /\ counter[u] >= counter[u]
  <2>1. \A u \in UserEvents : u \in Events /\ u # c
    BY <1>2, ObjFacts
  <2> QED BY <1>0, <2>1
<1>4. CASE SkipWork(q)
  <2>1. /\ counter' = CompletedCount(counter, c) /\ Completed(q, FALSE) /\ ~res[q]
        /\ UNCHANGED <<refs, failed>>
    BY <1>4 DEF SkipWork
  <2>2. /\ counter' \in [Events -> 0..MaxVal] /\ counter'[c] >= 1
        /\ \A e \in Events \ {c} : counter'[e] = counter[e]
    BY <1>0, <1>3, <2>1
  <2>3. \A u \in UserEvents : counter'[u] >= counter[u]
    BY <1>u, <2>2
  <2>4. EndsAs(q, FALSE)
    BY <1>1, <1>2, <2>1, <2>2, <2>3, ObjFacts DEF EndsAs, Completed
  <2> QED BY <2>4
<1>5. CASE EndWork(q)
  <2>1. /\ counter' = CompletedCount(counter, c) /\ res[q] /\ cmds[c].kind # "wait"
        /\ Release(cmds[c].obj)
        /\ \/ Completed(q, TRUE) /\ UNCHANGED failed
           \/ Completed(q, FALSE) /\ failed' = failed \cup {c}
    BY <1>5 DEF EndWork, Working, Cur, OnDevice, Maps
  <2>2. /\ counter' \in [Events -> 0..MaxVal] /\ counter'[c] >= 1
        /\ \A e \in Events \ {c} : counter'[e] = counter[e]
    BY <1>0, <1>3, <2>1
  <2>3. \A u \in UserEvents : counter'[u] >= counter[u]
    BY <1>u, <2>2
  <2>4. CASE Completed(q, TRUE) /\ UNCHANGED failed
    <3>1. EndsAs(q, TRUE)
      BY <1>1, <1>2, <2>1, <2>2, <2>3, <2>4, ObjFacts DEF EndsAs, Completed
    <3> QED BY <3>1
  <2>5. CASE Completed(q, FALSE) /\ failed' = failed \cup {c}
    <3>1. EndsAs(q, FALSE)
      BY <1>1, <1>2, <2>1, <2>2, <2>3, <2>5, ObjFacts DEF EndsAs, Completed
    <3> QED BY <3>1
  <2> QED BY <2>1, <2>4, <2>5
<1>6. CASE EndHostWork(q)
  <2> DEFINE f == IF cmds[c].kind = "signal" THEN Signalled(cmds[c].obj, cmds[c].val) ELSE counter
             ok == cmds[c].kind = "wait" => ~error[cmds[c].obj]
  <2>1. /\ counter' = CompletedCount(f, c) /\ res[q]
        /\ cmds[c].kind = "wait" => Reached(cmds[c].obj, cmds[c].val)
        /\ Release(cmds[c].obj) /\ Completed(q, ok) /\ UNCHANGED failed
    BY <1>6 DEF EndHostWork, Working, Cur
  <2>2. /\ f \in [Events -> 0..MaxVal] /\ \A e \in Ids : f[e] = counter[e]
        /\ \A u \in UserEvents : f[u] >= counter[u]
    <3>1. CASE cmds[c].kind = "signal"
      <4> DEFINE u == cmds[c].obj
                 v == cmds[c].val
      <4>1. u \in UserEvents /\ v \in 1..MaxVal /\ u \notin Ids /\ u \in Events
        BY <1>2, <3>1, ObjFacts DEF CmdInv
      <4>2. f = [counter EXCEPT ![u] = IF v <= counter[u] THEN counter[u] ELSE v]
        BY <3>1 DEF Signalled
      <4> HIDE DEF u, v, f
      <4>3. /\ counter[u] \in 0..MaxVal
            /\ (IF v <= counter[u] THEN counter[u] ELSE v) \in 0..MaxVal
            /\ (IF v <= counter[u] THEN counter[u] ELSE v) >= counter[u]
        BY <1>0, <4>1
      <4>4. \A e \in Events : counter[e] >= counter[e]
        BY <1>0
      <4> QED BY <1>0, <4>1, <4>2, <4>3, <4>4, ObjFacts
    <3>2. CASE cmds[c].kind # "signal"
      BY <1>0, <3>2, ObjFacts
    <3> QED BY <3>1, <3>2
  <2> HIDE DEF f
  <2>3. /\ counter' \in [Events -> 0..MaxVal] /\ counter'[c] >= 1
        /\ \A e \in Events \ {c} : counter'[e] = f[e]
    BY <1>3, <2>1, <2>2
  <2>4. /\ \A e \in Ids \ {c} : counter'[e] = counter[e]
        /\ \A u \in UserEvents : counter'[u] >= counter[u]
    BY <1>2, <2>2, <2>3, ObjFacts
  <2>5. CASE ok
    <3>1. EndsAs(q, TRUE)
      BY <1>1, <1>2, <2>1, <2>3, <2>4, <2>5, ObjFacts DEF EndsAs, Completed
    <3> QED BY <3>1
  <2>6. CASE ~ok
    <3>1. EndsAs(q, FALSE)
      BY <1>1, <1>2, <2>1, <2>3, <2>4, <2>6, ObjFacts DEF EndsAs, Completed
    <3> QED BY <3>1
  <2> QED BY <2>5, <2>6
<1> QED BY <1>4, <1>5, <1>6 DEF EndStep

(* What no step takes back: commands, results, values of user events.      *)
Grows ==
  /\ Enqueued \subseteq Enqueued' /\ \A c \in Enqueued : cmds'[c] = cmds[c]
  /\ \A c \in Ids : Ended(c) => result'[c] = result[c]
  /\ \A u \in UserEvents : counter'[u] >= counter[u]

(* So what succeeded or failed stays so.                                   *)
LEMMA Settled ==
  ASSUME Types, Types', Grows
  PROVE  /\ \A e \in Events : Succeeded(e) => Succeeded(e)'
         /\ \A c \in Enqueued : FailedWait(c) => FailedWait(c)'
<1>1. \A u \in UserEvents : counter[u] >= 1 => counter'[u] >= 1
  <2>1. \A u \in UserEvents : counter[u] \in Int /\ counter'[u] \in Int
    BY ObjFacts DEF Types
  <2> QED BY <2>1 DEF Grows
<1>2. \A e \in Events : Succeeded(e) => Succeeded(e)'
  BY <1>1, ObjFacts DEF Succeeded, Grows, Ended
<1>3. \A c \in Enqueued : FailedWait(c) => FailedWait(c)'
  BY DEF FailedWait, Grows, Ended
<1> QED BY <1>2, <1>3

(* Nothing moves at queue r.                                               *)
Still(r) == UNCHANGED <<fifo[r], cur[r], stage[r], deps[r], res[r]>>

(* A queue at which nothing moves, and none of whose commands ends or is   *)
(* added, keeps its invariants.                                            *)
LEMMA QueueFrame ==
  ASSUME Types, Types', Grows, NEW r \in Queues, FifoInv(r), WorkerInv(r), WaitInv(r), Still(r),
         \A c \in Enqueued : cmds[c].q = r => result'[c] = result[c],
         \A c \in Enqueued' : c \in Enqueued \/ cmds'[c].q # r
  PROVE  FifoInv(r)' /\ WorkerInv(r)' /\ WaitInv(r)'
<1>1. \A c : Owns(r, c) => Owns(r, c)' /\ (Ended(c)' <=> Ended(c)) /\ cmds'[c] = cmds[c]
  BY DEF Owns, Grows, Ended
<1>2. FifoInv(r)'
  <2>1. \A c \in Enqueued' : cmds'[c].q = r /\ ~Ended(c)' => c = cur'[r] \/ InFifo(r, c)'
    <3> SUFFICES ASSUME NEW c \in Enqueued', cmds'[c].q = r, ~Ended(c)'
                 PROVE  c = cur'[r] \/ InFifo(r, c)'
      OBVIOUS
    <3>1. c \in Enqueued /\ cmds'[c] = cmds[c]
      BY DEF Grows
    <3>2. c = cur[r] \/ InFifo(r, c)
      BY <1>1, <3>1 DEF FifoInv, Owns
    <3> QED BY <3>2 DEF Still, InFifo
  <2>2. \A i \in 1..Len(fifo'[r]) : (Owns(r, fifo[r][i]) /\ ~Ended(fifo[r][i]))'
    <3> SUFFICES ASSUME NEW i \in 1..Len(fifo[r])
                 PROVE  (Owns(r, fifo[r][i]) /\ ~Ended(fifo[r][i]))'
      BY DEF Still
    <3>1. PICK c : c = fifo[r][i]
      OBVIOUS
    <3>2. Owns(r, c) /\ ~Ended(c)
      BY <3>1 DEF FifoInv
    <3>3. Owns(r, c)' /\ ~Ended(c)'
      BY <1>1, <3>2
    <3> QED BY <3>1, <3>3 DEF Still, Owns, Ended
  <2> QED BY <2>1, <2>2 DEF FifoInv, Still
<1>3. WorkerInv(r)' /\ WaitInv(r)'
  <2>1. CASE cur[r] = 0
    BY <2>1 DEF WorkerInv, WaitInv, Still
  <2>2. CASE cur[r] # 0
    <3>1. PICK c : c = cur[r]
      OBVIOUS
    <3>2. Owns(r, c) /\ c \in Enqueued
      BY <2>2, <3>1 DEF WorkerInv, Owns
    <3>3. Owns(r, c)' /\ (Ended(c)' <=> Ended(c)) /\ cmds'[c] = cmds[c] /\ cur'[r] = c
      BY <1>1, <3>1, <3>2 DEF Still
    <3>4. WorkerInv(r)'
      BY <3>1, <3>3 DEF WorkerInv, Still, Cur, Owns, Ended
    <3>5. ASSUME stage'[r] = "deps"
          PROVE  IF res'[r] THEN \A e \in Cur(r)'.waits \ deps'[r] : Succeeded(e)'
                            ELSE FailedWait(c)'
      <4>1. IF res[r] THEN \A e \in cmds[c].waits \ deps[r] : Succeeded(e) ELSE FailedWait(c)
        BY <3>1, <3>5 DEF WaitInv, Still, Cur
      <4>2. cmds[c].waits \subseteq Events
        BY <3>2, Numbers DEF Cmds
      <4> QED BY <3>2, <3>3, <4>1, <4>2, Settled DEF Still, Cur
    <3> QED BY <3>3, <3>4, <3>5 DEF WaitInv, FailedWait
  <2> QED BY <2>1, <2>2
<1> QED BY <1>2, <1>3

(* A command that does not end now keeps what is known of it.              *)
LEMMA EndFrame ==
  ASSUME Types, Types', Grows, NEW c \in Enqueued, CmdInv(c), EndInv(c),
         result'[c] = result[c], c \in failed' <=> c \in failed
  PROVE  CmdInv(c)' /\ EndInv(c)'
<1>1. cmds'[c] = cmds[c] /\ cmds[c].waits \subseteq Events
  BY Numbers DEF Grows, Cmds
<1>2. CmdInv(c)'
  BY <1>1 DEF CmdInv
<1>3. \A e \in Ids : result[e] \in {"ok", "error"} => result'[e] = result[e]
  BY DEF Grows, Ended
<1>4. (\A e \in cmds[c].waits \cap Ids : result[e] = "ok") =>
        (\A e \in cmds[c].waits \cap Ids : result'[e] = "ok")
  BY <1>3
<1>5. FailedWait(c) => FailedWait(c)'
  BY <1>1, <1>3 DEF FailedWait
<1>6. Inherits(c) => Inherits(c)'
  BY <1>1, <1>3 DEF Inherits
<1>7. result[c] = "ok" => ~FailedWait(c)'
  <2> SUFFICES ASSUME result[c] = "ok" PROVE ~FailedWait(c)'
    OBVIOUS
  <2>1. \A e \in cmds[c].waits \cap Ids : result[e] = "ok"
    BY DEF EndInv, Ended
  <2> QED BY <1>1, <1>4, <2>1 DEF FailedWait
<1>8. Ended(c)' <=> Ended(c)
  BY DEF Ended
<1> QED BY <1>1, <1>2, <1>3, <1>4, <1>5, <1>6, <1>7, <1>8 DEF EndInv

(* An enqueue preserves the types.                                         *)
LEMMA EnqueueTypes ==
  ASSUME Types, NEW q \in Queues, NEW n \in Cmds, n.q = q,
         Enqueue(q, n.kind, n.obj, n.val, n.waits), Mapped(n), Tracked(n)
  PROVE  Types'
<1>0. /\ cmds' \in Seq(Cmds) /\ Len(cmds') = NewId /\ NewId \in Ids
      /\ fifo' = [fifo EXCEPT ![q] = Append(fifo[q], NewId)]
      /\ app' = [app EXCEPT ![NewId] = TRUE]
      /\ UNCHANGED <<cur, stage, deps, res, shut, counter, error, result, failed, refused>>
  BY EnqueueFacts
<1>1. Len(cmds') <= MaxCmds /\ NewId \in 0..MaxCmds
  BY <1>0, ObjFacts DEF Ids
<1>2. fifo' \in [Queues -> Seq(Ids)]
  <2>1. Append(fifo[q], NewId) \in Seq(Ids)
    BY <1>0 DEF Types
  <2> QED BY <1>0, <2>1 DEF Types
<1>3. refs' \in [Objs -> Int] /\ app' \in [Objs -> BOOLEAN]
  <2>1. refs' = [o \in Objs |-> refs[o] + Bit(o = n.obj) + Bit(o \in n.waits)
                                 + (IF o = NewId THEN 2 ELSE 0)]
    BY DEF Enqueue, Retained
  <2>2. \A o \in Objs : refs[o] \in Int
    BY DEF Types
  <2>3. \A o \in Objs : Bit(o = n.obj) \in Int /\ Bit(o \in n.waits) \in Int
                        /\ (IF o = NewId THEN 2 ELSE 0) \in Int
    BY DEF Bit
  <2>4. refs' \in [Objs -> Int]
    BY <2>1, <2>2, <2>3
  <2>5. app' \in [Objs -> BOOLEAN]
    BY <1>0 DEF Types
  <2> QED BY <2>4, <2>5
<1>4. mirror' \in [Bufs -> 0..MaxCmds] /\ filled' \in [Bufs -> BOOLEAN]
  BY <1>1 DEF Types, Mapped, buffer
<1>5. /\ hpc' \in {"idle", "finish", "start", "launch", "remember", "ready"}
      /\ hev' \in 0..MaxCmds /\ last' \in 0..MaxCmds /\ forgot' \in BOOLEAN
  BY <1>1 DEF Types, Tracked, legacy
<1> QED BY <1>0, <1>1, <1>2, <1>3, <1>4, <1>5 DEF Types

(* An enqueue preserves the core.                                          *)
LEMMA CoreEnqueue ==
  ASSUME CoreInv, NEW q \in Queues, NEW n \in Cmds, n.q = q, WellFormed(n),
         Enqueue(q, n.kind, n.obj, n.val, n.waits), Mapped(n), Tracked(n)
  PROVE  CoreInv'
<1> DEFINE x == NewId
<1>0. Types /\ Types' /\ FifoInv(q) /\ WorkerInv(q) /\ WaitInv(q) /\ EventInv
  BY EnqueueTypes DEF CoreInv
<1>1. /\ Len(cmds') = x /\ x \in Ids /\ Enqueued' = Enqueued \cup {x}
      /\ cmds'[x] = n /\ \A c \in Enqueued : cmds'[c] = cmds[c]
      /\ fifo' = [fifo EXCEPT ![q] = Append(fifo[q], x)]
      /\ app' = [app EXCEPT ![x] = TRUE]
      /\ UNCHANGED <<cur, stage, deps, res, shut, counter, error, result, failed>>
  BY <1>0, EnqueueFacts
<1>2. /\ x \in Nat /\ x # 0 /\ x \notin Enqueued /\ Enqueued \subseteq Ids
      /\ \A c \in Enqueued : c < x
  BY <1>0, Numbers
<1>3. ~Ended(x) /\ x \notin failed
  BY <1>0, <1>1, <1>2 DEF EventInv
<1> HIDE DEF x
<1>4. Grows
  <2>1. \A u \in UserEvents : counter'[u] >= counter[u]
    <3>1. \A u \in UserEvents : counter[u] \in Int
      BY <1>0, ObjFacts DEF Types
    <3> QED BY <1>1, <3>1
  <2> QED BY <1>1, <2>1 DEF Grows
<1>5. ASSUME NEW r \in Queues, r # q PROVE FifoInv(r)' /\ WorkerInv(r)' /\ WaitInv(r)'
  <2>1. Still(r)
    BY <1>0, <1>1, <1>5 DEF Still, Types
  <2>2. \A c \in Enqueued' : c \in Enqueued \/ cmds'[c].q # r
    BY <1>1, <1>5
  <2> QED BY <1>0, <1>1, <1>4, <2>1, <2>2, QueueFrame DEF CoreInv
<1>6. FifoInv(q)' /\ WorkerInv(q)' /\ WaitInv(q)'
  <2> DEFINE s == fifo[q]
  <2>0. s \in Seq(Ids) /\ Len(s) \in Nat
    BY <1>0 DEF Types
  <2>1. /\ fifo'[q] = Append(s, x) /\ Len(fifo'[q]) = Len(s) + 1
        /\ fifo'[q][Len(s) + 1] = x /\ \A i \in 1..Len(s) : fifo'[q][i] = s[i]
    BY <1>0, <1>1, <2>0 DEF Types
  <2>2. \A i \in 1..Len(fifo'[q]) : i \in 1..Len(s) \/ i = Len(s) + 1
    BY <2>0, <2>1
  <2>3. \A i \in 1..Len(s) : s[i] \in Enqueued /\ cmds[s[i]].q = q /\ ~Ended(s[i]) /\ s[i] < x
    BY <1>0, <1>2 DEF FifoInv, Owns
  <2>4. ASSUME NEW i \in 1..Len(fifo'[q])
        PROVE  /\ fifo'[q][i] \in Enqueued' /\ cmds'[fifo'[q][i]].q = q
               /\ result'[fifo'[q][i]] = "none"
    <3>1. CASE i \in 1..Len(s)
      BY <1>1, <2>1, <2>3, <3>1 DEF Ended
    <3>2. CASE i = Len(s) + 1
      BY <1>1, <1>3, <2>1, <3>2 DEF Ended
    <3> QED BY <2>2, <3>1, <3>2
  <2>5. ASSUME NEW i \in 1..Len(fifo'[q]), NEW j \in 1..Len(fifo'[q]), i < j
        PROVE  fifo'[q][i] < fifo'[q][j]
    <3>1. i \in 1..Len(s)
      BY <2>0, <2>1, <2>5
    <3>2. CASE j \in 1..Len(s)
      BY <1>0, <2>1, <2>5, <3>1, <3>2 DEF FifoInv
    <3>3. CASE j = Len(s) + 1
      BY <2>1, <2>3, <3>1, <3>3
    <3> QED BY <2>2, <3>2, <3>3
  <2>6. ASSUME NEW c \in Enqueued', cmds'[c].q = q, result'[c] = "none"
        PROVE  c = cur'[q] \/ \E i \in 1..Len(fifo'[q]) : fifo'[q][i] = c
    <3>1. CASE c = x
      <4>1. Len(s) + 1 \in 1..Len(fifo'[q])
        BY <2>0, <2>1
      <4> QED BY <2>1, <3>1, <4>1
    <3>2. CASE c \in Enqueued
      <4>1. c = cur[q] \/ InFifo(q, c)
        BY <1>0, <1>1, <2>6, <3>2 DEF FifoInv, Ended
      <4>2. \A i \in 1..Len(s) : i \in 1..Len(fifo'[q])
        BY <2>0, <2>1
      <4> QED BY <1>1, <2>1, <4>1, <4>2 DEF InFifo
    <3> QED BY <1>1, <3>1, <3>2
  <2>7. FifoInv(q)'
    BY <2>4, <2>5, <2>6 DEF FifoInv, Owns, Ended, InFifo
  <2>8. WorkerInv(q)'
    <3>1. cur[q] # 0 => \A i \in 1..Len(fifo'[q]) : cur[q] < fifo'[q][i]
      <4>1. cur[q] # 0 => cur[q] \in Enqueued /\ \A i \in 1..Len(s) : cur[q] < s[i]
        BY <1>0 DEF WorkerInv, Owns
      <4> QED BY <1>2, <2>1, <2>2, <4>1
    <3>2. cur[q] # 0 => cmds'[cur[q]] = cmds[cur[q]] /\ cur[q] \in Enqueued'
      BY <1>0, <1>1 DEF WorkerInv, Owns
    <3>3. stage[q] = "deps" => cur[q] # 0
      BY <1>0 DEF WorkerInv
    <3> QED BY <1>0, <1>1, <3>1, <3>2, <3>3 DEF WorkerInv, Owns, Ended, Cur
  <2>9. WaitInv(q)'
    <3>1. stage[q] = "deps" => cmds'[cur[q]] = cmds[cur[q]]
      BY <1>0, <1>1 DEF WorkerInv, Owns
    <3> QED BY <1>0, <1>1, <3>1 DEF WaitInv, Cur, FailedWait, Succeeded
  <2> QED BY <2>7, <2>8, <2>9
<1>7. EventInv'
  BY <1>0, <1>1 DEF EventInv, Ended, Types
<1>8. ASSUME NEW c \in Enqueued' PROVE CmdInv(c)' /\ EndInv(c)'
  <2>1. CASE c \in Enqueued
    BY <1>0, <1>1, <1>4, <2>1, EndFrame DEF CoreInv
  <2>2. CASE c = x
    BY <1>1, <1>3, <2>2 DEF CmdInv, EndInv, WellFormed, Ended
  <2> QED BY <1>1, <2>1, <2>2
<1> QED BY <1>0, <1>5, <1>6, <1>7, <1>8 DEF CoreInv

(* Nothing is enqueued and nothing ends.                                   *)
LEMMA NothingEnds ==
  ASSUME CoreInv, Types', UNCHANGED <<cmds, result, failed>>,
         \A u \in UserEvents : counter'[u] >= counter[u]
  PROVE  /\ Grows /\ Enqueued' = Enqueued
         /\ \A r \in Queues : Still(r) => FifoInv(r)' /\ WorkerInv(r)' /\ WaitInv(r)'
         /\ \A c \in Enqueued' : CmdInv(c)' /\ EndInv(c)'
<1>1. Grows /\ Enqueued' = Enqueued
  BY DEF Grows, Enqueued
<1>2. \A r \in Queues : Still(r) => FifoInv(r)' /\ WorkerInv(r)' /\ WaitInv(r)'
  BY <1>1, QueueFrame DEF CoreInv
<1>3. \A c \in Enqueued' : CmdInv(c)' /\ EndInv(c)'
  BY <1>1, EndFrame DEF CoreInv
<1> QED BY <1>1, <1>2, <1>3

(* Taking a command from the FIFO preserves the core.                      *)
LEMMA CorePop ==
  ASSUME CoreInv, NEW q \in Queues, Pop(q)
  PROVE  CoreInv'
<1> DEFINE s == fifo[q]
           x == Head(fifo[q])
<1>0. Types /\ FifoInv(q) /\ WorkerInv(q) /\ EventInv
  BY DEF CoreInv
<1>1. /\ stage[q] = "idle" /\ s # <<>>
      /\ cur' = [cur EXCEPT ![q] = x] /\ fifo' = [fifo EXCEPT ![q] = Tail(s)]
      /\ stage' = [stage EXCEPT ![q] = "deps"]
      /\ deps' = [deps EXCEPT ![q] = cmds[x].waits] /\ res' = [res EXCEPT ![q] = TRUE]
      /\ UNCHANGED <<cmds, shut, counter, error, refs, app, mirror, filled, hpc, hev, last,
                     forgot, result, failed, refused>>
  BY DEF Pop, Taken, event, handles, buffer, legacy
<1>2. /\ s \in Seq(Ids) /\ Len(s) \in Nat /\ Len(s) >= 1 /\ x = s[1] /\ Tail(s) \in Seq(Ids)
      /\ Len(Tail(s)) = Len(s) - 1 /\ \A i \in 1..Len(Tail(s)) : Tail(s)[i] = s[i + 1]
  BY <1>0, <1>1 DEF Types
<1>3. 1 \in 1..Len(s) /\ \A i \in 1..Len(Tail(s)) : i + 1 \in 1..Len(s) /\ 1 < i + 1
  BY <1>2
<1>4. Owns(q, x) /\ x \in Enqueued /\ ~Ended(x) /\ x \in Ids /\ x # 0 /\ cmds[x].waits \subseteq Events
  <2>1. Owns(q, x) /\ ~Ended(x) /\ x \in Enqueued
    BY <1>0, <1>2, <1>3 DEF FifoInv, Owns
  <2> QED BY <1>0, <2>1, Numbers, ObjFacts DEF Cmds
<1> HIDE DEF s, x
<1>5. Types'
  <2>1. fifo' \in [Queues -> Seq(Ids)]
    BY <1>0, <1>1, <1>2 DEF Types
  <2>2. cur' \in [Queues -> 0..MaxCmds]
    BY <1>0, <1>1, <1>4, ObjFacts DEF Types
  <2>3. /\ stage' \in [Queues -> {"idle", "deps", "notify", "stopped"}]
        /\ deps' \in [Queues -> SUBSET Events] /\ res' \in [Queues -> BOOLEAN]
    BY <1>0, <1>1, <1>4 DEF Types
  <2> QED BY <1>0, <1>1, <2>1, <2>2, <2>3 DEF Types
<1>6. \A u \in UserEvents : counter'[u] >= counter[u]
  <2>1. \A u \in UserEvents : counter[u] \in Int
    BY <1>0, ObjFacts DEF Types
  <2> QED BY <1>1, <2>1
<1>7. /\ Enqueued' = Enqueued
      /\ \A r \in Queues : Still(r) => FifoInv(r)' /\ WorkerInv(r)' /\ WaitInv(r)'
      /\ \A c \in Enqueued' : CmdInv(c)' /\ EndInv(c)'
  BY <1>1, <1>5, <1>6, NothingEnds
<1>8. \A r \in Queues \ {q} : Still(r)
  BY <1>0, <1>1 DEF Still, Types
<1>9. /\ fifo'[q] = Tail(s) /\ cur'[q] = x /\ stage'[q] = "deps" /\ deps'[q] = cmds[x].waits
      /\ res'[q] = TRUE
  BY <1>0, <1>1 DEF Types
<1>10. ASSUME NEW i \in 1..Len(Tail(s))
       PROVE  Owns(q, Tail(s)[i]) /\ ~Ended(Tail(s)[i]) /\ x < Tail(s)[i]
  BY <1>0, <1>2, <1>3 DEF FifoInv, s
<1>11. ASSUME NEW i \in 1..Len(Tail(s)), NEW j \in 1..Len(Tail(s)), i < j
       PROVE  Tail(s)[i] < Tail(s)[j]
  <2>1. i + 1 < j + 1 /\ i + 1 \in 1..Len(s) /\ j + 1 \in 1..Len(s)
    BY <1>3, <1>11
  <2> QED BY <1>0, <1>2, <2>1 DEF FifoInv, s
<1>12. ASSUME NEW c \in Enqueued, cmds[c].q = q, ~Ended(c)
       PROVE  c = x \/ \E i \in 1..Len(Tail(s)) : Tail(s)[i] = c
  <2>1. cur[q] = 0 /\ c # 0
    BY <1>0, <1>1, Numbers, ObjFacts DEF WorkerInv
  <2>2. PICK i \in 1..Len(s) : s[i] = c
    BY <1>0, <1>12, <2>1 DEF FifoInv, InFifo, s
  <2>3. CASE i = 1
    BY <1>2, <2>2, <2>3
  <2>4. CASE i # 1
    <3>1. i - 1 \in 1..Len(Tail(s)) /\ (i - 1) + 1 = i
      BY <1>2, <2>4
    <3> QED BY <1>2, <2>2, <3>1
  <2> QED BY <2>3, <2>4
<1>13. FifoInv(q)'
  <2>1. \A i \in 1..Len(fifo'[q]) : (Owns(q, fifo[q][i]) /\ ~Ended(fifo[q][i]))'
    BY <1>1, <1>7, <1>9, <1>10 DEF Owns, Ended
  <2>2. \A i, j \in 1..Len(fifo'[q]) : i < j => fifo'[q][i] < fifo'[q][j]
    BY <1>9, <1>11
  <2>3. \A c \in Enqueued' : cmds'[c].q = q /\ ~Ended(c)' => c = cur'[q] \/ InFifo(q, c)'
    <3> SUFFICES ASSUME NEW c \in Enqueued', cmds'[c].q = q, ~Ended(c)'
                 PROVE  c = cur'[q] \/ InFifo(q, c)'
      OBVIOUS
    <3>1. c \in Enqueued /\ cmds[c].q = q /\ ~Ended(c)
      BY <1>1, <1>7 DEF Ended
    <3>2. c = x \/ \E i \in 1..Len(Tail(s)) : Tail(s)[i] = c
      BY <1>12, <3>1
    <3> QED BY <1>9, <3>2 DEF InFifo
  <2> QED BY <2>1, <2>2, <2>3 DEF FifoInv
<1>14. WorkerInv(q)' /\ WaitInv(q)'
  <2>1. WorkerInv(q)'
    BY <1>1, <1>4, <1>7, <1>9, <1>10 DEF WorkerInv, Owns, Ended, Cur
  <2>2. WaitInv(q)'
    BY <1>1, <1>9 DEF WaitInv, Cur
  <2> QED BY <2>1, <2>2
<1>15. EventInv'
  BY <1>0, <1>1, <1>7 DEF EventInv, Ended
<1> QED BY <1>5, <1>7, <1>8, <1>13, <1>14, <1>15 DEF CoreInv

(* A worker that has waited for an event, or skipped the wait.             *)
LEMMA CoreWait ==
  ASSUME CoreInv, NEW q \in Queues, NEW e \in Events, WaitDep(q, e)
  PROVE  CoreInv'
<1>0. Types /\ FifoInv(q) /\ WorkerInv(q) /\ WaitInv(q) /\ EventInv
  BY DEF CoreInv
<1>1. /\ stage[q] = "deps" /\ e \in deps[q] /\ (res[q] => Reached(e, 1))
      /\ res' = [res EXCEPT ![q] = res[q] /\ ~error[e]]
      /\ deps' = [deps EXCEPT ![q] = deps[q] \ {e}]
      /\ refs' = [refs EXCEPT ![e] = refs[e] - 1]
      /\ UNCHANGED <<cmds, fifo, cur, stage, shut, counter, error, app, mirror, filled, hpc,
                     hev, last, forgot, result, failed, refused>>
  BY ObjFacts DEF WaitDep, Release, event, buffer, legacy
<1>2. /\ deps'[q] = deps[q] \ {e} /\ (res'[q] <=> res[q] /\ ~error[e])
  BY <1>0, <1>1 DEF Types
<1>3. Types'
  <2>1. refs' \in [Objs -> Int]
    BY <1>0, <1>1, ObjFacts DEF Types
  <2>2. deps' \in [Queues -> SUBSET Events] /\ res' \in [Queues -> BOOLEAN]
    BY <1>0, <1>1 DEF Types
  <2> QED BY <1>0, <1>1, <2>1, <2>2 DEF Types
<1>4. \A u \in UserEvents : counter'[u] >= counter[u]
  <2>1. \A u \in UserEvents : counter[u] \in Int
    BY <1>0, ObjFacts DEF Types
  <2> QED BY <1>1, <2>1
<1>5. /\ Enqueued' = Enqueued
      /\ \A r \in Queues : Still(r) => FifoInv(r)' /\ WorkerInv(r)' /\ WaitInv(r)'
      /\ \A c \in Enqueued' : CmdInv(c)' /\ EndInv(c)'
  BY <1>1, <1>3, <1>4, NothingEnds
<1>6. \A r \in Queues \ {q} : Still(r)
  BY <1>0, <1>1 DEF Still, Types
<1>7. FifoInv(q)'
  BY <1>0, <1>1, <1>5 DEF FifoInv, Owns, Ended, InFifo
<1>8. WorkerInv(q)'
  BY <1>0, <1>1, <1>2, <1>5 DEF WorkerInv, Owns, Ended, Cur
<1>9. WaitInv(q)'
  <2>1. CASE ~res[q]
    BY <1>0, <1>1, <1>2, <2>1 DEF WaitInv, FailedWait
  <2>2. CASE res[q] /\ error[e]
    <3>1. e \in Ids /\ result[e] = "error"
      BY <1>0, <2>2, ObjFacts DEF EventInv
    <3>2. e \in Cur(q).waits
      BY <1>0, <1>1 DEF WorkerInv
    <3> QED BY <1>1, <1>2, <2>2, <3>1, <3>2 DEF WaitInv, FailedWait, Cur
  <2>3. CASE res[q] /\ ~error[e]
    <3>1. counter[e] >= 1
      BY <1>1, <2>3 DEF Reached
    <3>2. Succeeded(e)
      BY <1>0, <2>3, <3>1 DEF Succeeded, EventInv, Ended, Types
    <3>3. \A d \in Cur(q).waits \ (deps[q] \ {e}) : Succeeded(d)
      BY <1>0, <1>1, <2>3, <3>2 DEF WaitInv
    <3> QED BY <1>1, <1>2, <2>3, <3>3 DEF WaitInv, Succeeded, Cur
  <2> QED BY <2>1, <2>2, <2>3
<1>10. EventInv'
  BY <1>0, <1>1, <1>5 DEF EventInv, Ended
<1> QED BY <1>3, <1>5, <1>6, <1>7, <1>8, <1>9, <1>10 DEF CoreInv

(* A worker that is done with a command.                                   *)
LEMMA CoreDrop ==
  ASSUME CoreInv, NEW q \in Queues, DropCompletion(q)
  PROVE  CoreInv'
<1> DEFINE x == cur[q]
<1>0. Types /\ FifoInv(q) /\ WorkerInv(q) /\ EventInv
  BY DEF CoreInv
<1>1. /\ stage[q] = "notify" /\ Release(x)
      /\ cur' = [cur EXCEPT ![q] = 0] /\ stage' = [stage EXCEPT ![q] = "idle"]
      /\ UNCHANGED <<cmds, fifo, deps, res, shut, counter, error, app, mirror, filled, hpc,
                     hev, last, forgot, result, failed, refused>>
  BY DEF DropCompletion, event, buffer, legacy
<1>2. x \in Enqueued /\ x \in Objs /\ Ended(x)
  BY <1>0, <1>1, Numbers, ObjFacts DEF WorkerInv, Owns
<1>3. Types'
  <2>1. refs' \in [Objs -> Int]
    BY <1>0, <1>1, <1>2, ObjFacts DEF Types, Release
  <2>2. cur' \in [Queues -> 0..MaxCmds]
    BY <1>0, <1>1, ObjFacts DEF Types
  <2>3. stage' \in [Queues -> {"idle", "deps", "notify", "stopped"}]
    BY <1>0, <1>1 DEF Types
  <2> QED BY <1>0, <1>1, <2>1, <2>2, <2>3 DEF Types
<1>4. \A u \in UserEvents : counter'[u] >= counter[u]
  <2>1. \A u \in UserEvents : counter[u] \in Int
    BY <1>0, ObjFacts DEF Types
  <2> QED BY <1>1, <2>1
<1>5. /\ Enqueued' = Enqueued
      /\ \A r \in Queues : Still(r) => FifoInv(r)' /\ WorkerInv(r)' /\ WaitInv(r)'
      /\ \A c \in Enqueued' : CmdInv(c)' /\ EndInv(c)'
  BY <1>1, <1>3, <1>4, NothingEnds
<1>6. \A r \in Queues \ {q} : Still(r)
  BY <1>0, <1>1 DEF Still, Types
<1>7. cur'[q] = 0 /\ stage'[q] = "idle" /\ fifo'[q] = fifo[q] /\ deps'[q] = deps[q]
  BY <1>0, <1>1 DEF Types
<1>8. FifoInv(q)'
  BY <1>0, <1>1, <1>2, <1>5, <1>7 DEF FifoInv, Owns, Ended, InFifo
<1>9. WorkerInv(q)' /\ WaitInv(q)'
  BY <1>0, <1>1, <1>7 DEF WorkerInv, WaitInv
<1>10. EventInv'
  BY <1>0, <1>1, <1>5 DEF EventInv, Ended
<1> QED BY <1>3, <1>5, <1>6, <1>8, <1>9, <1>10 DEF CoreInv

(* The end of a command's work.                                            *)
LEMMA CoreEnd ==
  ASSUME CoreInv, NEW q \in Queues, EndStep(q)
  PROVE  CoreInv'
<1>c. PICK c : c = cur[q]
  OBVIOUS
<1>0. Types /\ FifoInv(q) /\ WorkerInv(q) /\ WaitInv(q) /\ EventInv
  BY DEF CoreInv
<1>1. PICK ok \in BOOLEAN : EndsAs(q, ok)
  BY <1>0, EndFacts DEF CoreInv
<1>2. /\ stage[q] = "deps" /\ deps[q] = {} /\ c \in Enqueued
      /\ result' = [result EXCEPT ![c] = IF ok THEN "ok" ELSE "error"]
      /\ error' = [error EXCEPT ![c] = error[c] \/ ~ok]
      /\ stage' = [stage EXCEPT ![q] = "notify"]
      /\ counter' \in [Events -> 0..MaxVal] /\ counter'[c] >= 1
      /\ \A e \in Ids \ {c} : counter'[e] = counter[e]
      /\ \A u \in UserEvents : counter'[u] >= counter[u]
      /\ failed' = failed \/ (failed' = failed \cup {c} /\ ~ok /\ res[q])
      /\ UNCHANGED <<cmds, fifo, cur, deps, res, shut, app, hpc, hev, last, forgot, refused>>
  BY <1>1, <1>c DEF EndsAs, legacy
<1>3. /\ ok => /\ res[q]
               /\ cmds[c].kind = "wait" => Reached(cmds[c].obj, cmds[c].val) /\ ~error[cmds[c].obj]
      /\ ~ok => \/ ~res[q] \/ c \in failed'
                \/ cmds[c].kind = "wait" /\ error[cmds[c].obj]
      /\ IF res[q] THEN Release(cmds[c].obj) ELSE UNCHANGED refs
  BY <1>1, <1>c DEF EndsAs
<1>4. /\ c \in Ids /\ c \in Events /\ ~Ended(c) /\ cmds[c].q = q /\ cmds[c] \in Cmds
      /\ Enqueued \subseteq Ids
  BY <1>0, <1>2, <1>c, Numbers, ObjFacts DEF WorkerInv, Owns
<1>5. mirror' \in [Bufs -> 0..MaxCmds] /\ filled' \in [Bufs -> BOOLEAN]
  <2>1. 0 \in 0..MaxCmds
    BY ObjFacts
  <2>2. /\ MappingAfter(q) \/ UNCHANGED buffer
    BY DEF EndStep, SkipWork, EndWork, EndHostWork
  <2> QED BY <1>0, <2>1, <2>2 DEF Types, MappingAfter, buffer
<1>6. Types'
  <2>1. refs' \in [Objs -> Int]
    <3>1. cmds[c].obj \in Objs \cup {NoObj}
      BY <1>4 DEF Cmds
    <3> QED BY <1>0, <1>3, <3>1 DEF Types, Release
  <2>2. /\ result' \in [Ids -> {"none", "ok", "error"}] /\ failed' \subseteq Ids
        /\ error' \in [Events -> BOOLEAN]
    BY <1>0, <1>2, <1>4 DEF Types
  <2>3. stage' \in [Queues -> {"idle", "deps", "notify", "stopped"}]
    BY <1>0, <1>2 DEF Types
  <2> QED BY <1>0, <1>2, <1>5, <2>1, <2>2, <2>3 DEF Types
<1>7. /\ result'[c] = (IF ok THEN "ok" ELSE "error") /\ \A d \in Ids \ {c} : result'[d] = result[d]
      /\ (error'[c] <=> error[c] \/ ~ok) /\ \A e \in Events \ {c} : error'[e] = error[e]
      /\ stage'[q] = "notify" /\ Enqueued' = Enqueued
  BY <1>0, <1>2, <1>4 DEF Types, Enqueued
<1>8. Grows
  BY <1>2, <1>4, <1>7 DEF Grows
<1>9. ASSUME NEW r \in Queues, r # q PROVE FifoInv(r)' /\ WorkerInv(r)' /\ WaitInv(r)'
  <2>1. Still(r)
    BY <1>0, <1>2, <1>9 DEF Still, Types
  <2>2. \A d \in Enqueued : cmds[d].q = r => result'[d] = result[d]
    BY <1>4, <1>7, <1>9
  <2> QED BY <1>0, <1>6, <1>7, <1>8, <2>1, <2>2, QueueFrame DEF CoreInv
<1>10. FifoInv(q)' /\ WorkerInv(q)' /\ WaitInv(q)'
  <2>1. \A i \in 1..Len(fifo[q]) :
          Owns(q, fifo[q][i]) /\ ~Ended(fifo[q][i]) /\ fifo[q][i] # c /\ fifo[q][i] \in Ids
    <3>1. \A i \in 1..Len(fifo[q]) : Owns(q, fifo[q][i]) /\ ~Ended(fifo[q][i])
      BY <1>0 DEF FifoInv
    <3>2. \A i \in 1..Len(fifo[q]) : c < fifo[q][i]
      BY <1>0, <1>2, <1>4, <1>c, ObjFacts DEF WorkerInv
    <3>3. \A i \in 1..Len(fifo[q]) : fifo[q][i] \in Ids
      BY <1>4, <3>1 DEF Owns
    <3>4. \A x, y \in Nat : x < y => y # x
      OBVIOUS
    <3>5. \A i \in 1..Len(fifo[q]) : fifo[q][i] # c
      BY <1>4, <3>2, <3>3, <3>4, ObjFacts
    <3> QED BY <3>1, <3>3, <3>5
  <2>2. \A i \in 1..Len(fifo'[q]) : (Owns(q, fifo[q][i]) /\ ~Ended(fifo[q][i]))'
    BY <1>2, <1>7, <2>1 DEF Owns, Ended
  <2>3. \A d \in Enqueued' : cmds'[d].q = q /\ ~Ended(d)' => d = cur'[q] \/ InFifo(q, d)'
    <3> SUFFICES ASSUME NEW d \in Enqueued, cmds[d].q = q, ~Ended(d)'
                 PROVE  d = cur[q] \/ InFifo(q, d)
      BY <1>2, <1>7 DEF InFifo
    <3>1. ~Ended(d)
      BY <1>4, <1>7 DEF Ended
    <3> QED BY <1>0, <3>1 DEF FifoInv
  <2>4. FifoInv(q)'
    BY <1>0, <1>2, <2>2, <2>3 DEF FifoInv
  <2>5. WorkerInv(q)' /\ WaitInv(q)'
    BY <1>0, <1>2, <1>7, <1>c DEF WorkerInv, WaitInv, Owns, Ended
  <2> QED BY <2>4, <2>5
<1>11. EventInv'
  <2>1. ASSUME NEW d \in Ids
        PROVE  (counter'[d] >= 1 <=> Ended(d)') /\ (error'[d] <=> result'[d] = "error")
    <3>1. CASE d = c
      <4>1. ~error[c]
        BY <1>0, <1>4 DEF EventInv, Ended
      <4> QED BY <1>2, <1>7, <3>1, <4>1 DEF Ended
    <3>2. CASE d # c
      BY <1>0, <1>2, <1>7, <3>2, ObjFacts DEF EventInv, Ended
    <3> QED BY <3>1, <3>2
  <2>2. \A u \in UserEvents : ~error'[u]
    BY <1>0, <1>4, <1>7, ObjFacts DEF EventInv
  <2>3. \A d \in Ids \ Enqueued' : ~Ended(d)' /\ ~app'[d] /\ d \notin failed'
    BY <1>0, <1>2, <1>7 DEF EventInv, Ended
  <2> QED BY <2>1, <2>2, <2>3 DEF EventInv
<1>12. CmdInv(c) /\ EndInv(c)
  BY <1>2 DEF CoreInv
<1>13. CmdInv(c)' /\ EndInv(c)'
  <2>0. cmds'[c] = cmds[c] /\ cmds[c].waits \subseteq Events
    BY <1>2, <1>4 DEF Cmds
  <2>1. res[q] => \A e \in cmds[c].waits \cap Ids : result[e] = "ok" /\ result'[e] = "ok"
    <3>1. res[q] => \A e \in cmds[c].waits \cap Ids : result[e] = "ok"
      BY <1>0, <1>2, <1>c DEF WaitInv, Succeeded, Cur
    <3> QED BY <1>4, <1>7, <3>1 DEF Ended
  <2>2. ~res[q] => FailedWait(c) /\ FailedWait(c)'
    <3>1. ~res[q] => FailedWait(c)
      BY <1>0, <1>2, <1>c DEF WaitInv
    <3> QED BY <1>0, <1>2, <1>6, <1>8, <3>1, Settled
  <2>3. c \in failed' => ~ok
    BY <1>2, <1>4, <1>12 DEF EndInv, Ended
  <2>4. res[q] => ~FailedWait(c)'
    BY <2>0, <2>1 DEF FailedWait
  <2>5. cmds[c].kind = "wait" => cmds[c].obj \in Events /\ (cmds[c].obj \in Ids => cmds[c].val = 1)
    BY <1>12 DEF CmdInv
  <2>6. ok /\ cmds[c].kind = "wait" /\ cmds[c].obj \in Ids => result'[cmds[c].obj] = "ok"
    <3> SUFFICES ASSUME ok, cmds[c].kind = "wait", cmds[c].obj \in Ids
                 PROVE  result'[cmds[c].obj] = "ok"
      OBVIOUS
    <3>1. PICK d \in Ids : d = cmds[c].obj
      OBVIOUS
    <3>2. counter[d] >= 1 /\ ~error[d]
      BY <1>3, <2>5, <3>1 DEF Reached
    <3>3. result[d] = "ok"
      BY <1>0, <3>2 DEF EventInv, Ended, Types
    <3> QED BY <1>4, <1>7, <3>1, <3>3 DEF Ended
  <2>7. ~ok => c \in failed' \/ Inherits(c)'
    <3>1. CASE ~ok /\ ~res[q]
      BY <2>0, <2>2, <3>1 DEF FailedWait, Inherits
    <3>2. CASE ~ok /\ cmds[c].kind = "wait" /\ error[cmds[c].obj]
      <4>1. PICK d \in Events : d = cmds[c].obj
        BY <2>5, <3>2
      <4>2. d \in Ids /\ result[d] = "error"
        BY <1>0, <3>2, <4>1, ObjFacts DEF EventInv
      <4>3. result'[d] = "error"
        BY <1>4, <1>7, <4>2 DEF Ended
      <4> QED BY <2>0, <3>2, <4>1, <4>2, <4>3 DEF Inherits
    <3> QED BY <1>3, <3>1, <3>2
  <2>8. CmdInv(c)'
    BY <1>12, <2>0 DEF CmdInv
  <2>9. EndInv(c)'
    <3>1. (Ended(c) => FailedWait(c) \/ \A e \in cmds[c].waits \cap Ids : result[e] = "ok")'
      BY <2>0, <2>1, <2>2
    <3>2. (result[c] = "ok" => ~FailedWait(c))'
      BY <1>3, <1>7, <2>4
    <3>3. (result[c] = "error" => c \in failed \/ Inherits(c))'
      BY <1>7, <2>7
    <3>4. (c \in failed => result[c] = "error")'
      BY <1>7, <2>3
    <3>5. (result[c] = "ok" /\ cmds[c].kind = "wait" /\ cmds[c].obj \in Ids
             => result[cmds[c].obj] = "ok")'
      BY <1>7, <2>0, <2>6
    <3> QED BY <3>1, <3>2, <3>3, <3>4, <3>5 DEF EndInv
  <2> QED BY <2>8, <2>9
<1>14. ASSUME NEW d \in Enqueued' PROVE CmdInv(d)' /\ EndInv(d)'
  <2>1. CASE d = c
    BY <1>13, <2>1
  <2>2. CASE d # c
    <3>1. d \in Enqueued /\ d \in Ids /\ result'[d] = result[d] /\ (d \in failed' <=> d \in failed)
      BY <1>2, <1>4, <1>7, <2>2
    <3> QED BY <1>0, <1>6, <1>8, <3>1, EndFrame DEF CoreInv
  <2> QED BY <2>1, <2>2
<1> QED BY <1>6, <1>9, <1>10, <1>11, <1>14 DEF CoreInv

(* What a step that concerns no command leaves alone.                      *)
LEMMA QuietFacts ==
  ASSUME Types, QuietStep
  PROVE  /\ UNCHANGED <<cmds, fifo, cur, deps, res, error, result, failed>>
         /\ \/ UNCHANGED stage
            \/ \E q \in Queues : /\ stage[q] = "idle"
                                 /\ stage' = [stage EXCEPT ![q] = "stopped"]
         /\ \A e \in Ids : counter'[e] = counter[e]
         /\ \A u \in UserEvents : counter'[u] >= counter[u]
         /\ \A o \in Objs : app'[o] => app[o]
         /\ Types'
<1>0. \A e \in Events : counter[e] >= counter[e] /\ counter[e] \in 0..MaxVal
  BY ObjFacts DEF Types
<1>1. CASE \E o \in Objs : Disposable(o) /\ ReleaseHandle(o)
  <2>1. PICK o \in Objs : ReleaseHandle(o)
    BY <1>1
  <2>2. /\ UNCHANGED <<cmds, fifo, cur, stage, deps, res, shut, counter, error, mirror, filled,
                       hpc, hev, last, forgot, result, failed, refused>>
        /\ app' = [app EXCEPT ![o] = FALSE] /\ refs' = [refs EXCEPT ![o] = refs[o] - 1]
    BY <2>1, ObjFacts DEF ReleaseHandle, Release, worker, event, buffer, legacy
  <2>3. Types' /\ \A p \in Objs : app'[p] => app[p]
    BY <2>2 DEF Types
  <2> QED BY <1>0, <2>2, <2>3, ObjFacts
<1>2. CASE \E b \in Bufs : UnmapNow(b)
  <2>1. PICK b \in Bufs : UnmapNow(b)
    BY <1>2
  <2>2. /\ UNCHANGED <<cmds, fifo, cur, stage, deps, res, shut, counter, error, refs, app,
                       hpc, hev, last, forgot, result, failed, refused>>
        /\ mirror' = [mirror EXCEPT ![b] = 0] /\ filled' = [filled EXCEPT ![b] = FALSE]
    BY <2>1 DEF UnmapNow, worker, event, handles, legacy
  <2>3. mirror' \in [Bufs -> 0..MaxCmds] /\ filled' \in [Bufs -> BOOLEAN]
    <3>1. 0 \in 0..MaxCmds
      BY ObjFacts
    <3> QED BY <2>2, <3>1 DEF Types
  <2>4. Types'
    BY <2>2, <2>3 DEF Types
  <2> QED BY <1>0, <2>2, <2>4, ObjFacts
<1>3. CASE \E u \in UserEvents : HostSignal(u)
  <2>1. PICK u \in UserEvents : HostSignal(u)
    BY <1>3
  <2>2. /\ UNCHANGED <<cmds, fifo, cur, stage, deps, res, shut, error, refs, app, mirror, filled,
                       hpc, hev, last, forgot, result, failed, refused>>
        /\ counter' = [counter EXCEPT ![u] = IF MaxVal <= counter[u] THEN counter[u] ELSE MaxVal]
    BY <2>1 DEF HostSignal, Signalled, worker, handles, buffer, legacy
  <2>3. /\ (IF MaxVal <= counter[u] THEN counter[u] ELSE MaxVal) \in 0..MaxVal
        /\ (IF MaxVal <= counter[u] THEN counter[u] ELSE MaxVal) >= counter[u]
    BY <1>0, ObjFacts
  <2>4. counter' \in [Events -> 0..MaxVal] /\ counter \in [Events -> 0..MaxVal]
    BY <2>2, <2>3 DEF Types
  <2>5. Types'
    BY <2>2, <2>4 DEF Types
  <2> QED BY <1>0, <2>2, <2>3, <2>4, <2>5, ObjFacts
<1>4. CASE \E q \in Queues : DestroyQueue(q) \/ Stop(q)
  <2>1. PICK q \in Queues : DestroyQueue(q) \/ Stop(q)
    BY <1>4
  <2>2. CASE DestroyQueue(q)
    <3>1. /\ UNCHANGED <<cmds, fifo, cur, stage, deps, res, counter, error, refs, app, mirror,
                         filled, hpc, hev, last, forgot, result, failed, refused>>
          /\ shut' = [shut EXCEPT ![q] = TRUE]
      BY <2>2 DEF DestroyQueue, worker, event, handles, buffer, legacy
    <3>2. Types'
      BY <3>1 DEF Types
    <3> QED BY <1>0, <3>1, <3>2, ObjFacts
  <2>3. CASE Stop(q)
    <3>1. /\ UNCHANGED <<cmds, fifo, cur, deps, res, shut, counter, error, refs, app, mirror,
                         filled, hpc, hev, last, forgot, result, failed, refused>>
          /\ stage[q] = "idle" /\ stage' = [stage EXCEPT ![q] = "stopped"]
      BY <2>3 DEF Stop, event, handles, buffer, legacy
    <3>2. Types'
      BY <3>1 DEF Types
    <3> QED BY <1>0, <3>1, <3>2, ObjFacts
  <2> QED BY <2>1, <2>2, <2>3
<1>5. CASE Start \/ ReadyWait
  <2>1. /\ UNCHANGED <<cmds, fifo, cur, stage, deps, res, shut, counter, error, refs, app, mirror,
                       filled, forgot, result, failed, refused>>
        /\ hpc' \in {"launch", "start", "ready"} /\ hev' = last /\ last' = 0
    BY <1>5 DEF Start, ReadyWait, worker, event, handles, buffer
  <2>2. Types'
    BY <2>1, ObjFacts DEF Types
  <2> QED BY <1>0, <2>1, <2>2, ObjFacts
<1>6. CASE Remember \/ \E t \in BOOLEAN : WaitEnds(t)
  <2>1. /\ UNCHANGED <<cmds, fifo, cur, stage, deps, res, shut, counter, error, mirror, filled,
                       result, failed, refused>>
        /\ hpc' \in {"idle", "launch"} /\ hev' = 0 /\ last' \in {hev, last}
        /\ forgot' \in BOOLEAN
    BY <1>6 DEF Remember, WaitEnds, worker, event, buffer, Types
  <2>2. \/ UNCHANGED <<refs, app>>
        \/ \E o : Release(o) /\ app' = [app EXCEPT ![o] = FALSE]
    BY <1>6 DEF Remember, WaitEnds, handles
  <2>3. /\ refs' \in [Objs -> Int] /\ app' \in [Objs -> BOOLEAN]
        /\ \A p \in Objs : app'[p] => app[p]
    <3>1. CASE UNCHANGED <<refs, app>>
      BY <3>1 DEF Types
    <3>2. CASE \E o : Release(o) /\ app' = [app EXCEPT ![o] = FALSE]
      <4>1. PICK o : Release(o) /\ app' = [app EXCEPT ![o] = FALSE]
        BY <3>2
      <4>2. refs' = refs \/ refs' = [refs EXCEPT ![o] = refs[o] - 1]
        BY <4>1 DEF Release
      <4>3. app' \in [Objs -> BOOLEAN] /\ \A p \in Objs : app'[p] => app[p]
        BY <4>1 DEF Types
      <4>4. refs' \in [Objs -> Int]
        BY <4>2 DEF Types
      <4> QED BY <4>3, <4>4
    <3> QED BY <2>2, <3>1, <3>2
  <2>4. Types'
    BY <2>1, <2>3, ObjFacts DEF Types
  <2> QED BY <1>0, <2>1, <2>3, <2>4, ObjFacts
<1>7. CASE UNCHANGED vars
  <2>1. UNCHANGED <<cmds, fifo, cur, stage, deps, res, shut, counter, error, refs, app, mirror,
                    filled, hpc, hev, last, forgot, result, failed, refused>>
    BY <1>7 DEF vars, worker, event, handles, buffer, legacy
  <2>2. Types'
    BY <2>1 DEF Types
  <2> QED BY <1>0, <2>1, <2>2, ObjFacts
<1>8. CASE EnqueueRefused
  <2>1. PICK w \in WaitLists :
          /\ refs' = [o \in Objs |-> refs[o] + Bit(o \in w)] /\ refused' = refused + 1
          /\ UNCHANGED <<cmds, fifo, cur, stage, deps, res, shut, counter, error, app, mirror,
                         filled, hpc, hev, last, forgot, result, failed>>
    BY <1>8 DEF EnqueueRefused, worker, event, buffer, legacy
  <2>2. refs' \in [Objs -> Int] /\ refused' \in Nat
    BY <2>1 DEF Types, Bit
  <2>3. Types'
    BY <2>1, <2>2 DEF Types
  <2> QED BY <1>0, <2>1, <2>3, ObjFacts
<1> QED BY <1>1, <1>2, <1>3, <1>4, <1>5, <1>6, <1>7, <1>8 DEF QuietStep

(* A step that concerns no command preserves the core.                     *)
LEMMA CoreQuiet ==
  ASSUME CoreInv, QuietStep
  PROVE  CoreInv'
<1>0. Types /\ EventInv
  BY DEF CoreInv
<1>1. /\ UNCHANGED <<cmds, fifo, cur, deps, res, error, result, failed>>
      /\ \/ UNCHANGED stage
         \/ \E q \in Queues : stage[q] = "idle" /\ stage' = [stage EXCEPT ![q] = "stopped"]
      /\ \A e \in Ids : counter'[e] = counter[e]
      /\ \A u \in UserEvents : counter'[u] >= counter[u]
      /\ \A o \in Objs : app'[o] => app[o]
      /\ Types'
  BY <1>0, QuietFacts
<1>2. /\ Enqueued' = Enqueued
      /\ \A r \in Queues : Still(r) => FifoInv(r)' /\ WorkerInv(r)' /\ WaitInv(r)'
      /\ \A c \in Enqueued' : CmdInv(c)' /\ EndInv(c)'
  BY <1>1, NothingEnds
<1>3. ASSUME NEW r \in Queues PROVE FifoInv(r)' /\ WorkerInv(r)' /\ WaitInv(r)'
  <2>1. CASE stage'[r] = stage[r]
    BY <1>1, <1>2, <2>1 DEF Still
  <2>2. CASE stage[r] = "idle" /\ stage'[r] = "stopped"
    <3>0. FifoInv(r) /\ WorkerInv(r)
      BY DEF CoreInv
    <3>1. FifoInv(r)'
      BY <1>1, <1>2, <3>0 DEF FifoInv, Owns, Ended, InFifo
    <3>2. WorkerInv(r)' /\ WaitInv(r)'
      BY <1>1, <2>2, <3>0 DEF WorkerInv, WaitInv
    <3> QED BY <3>1, <3>2
  <2> QED BY <1>0, <1>1, <2>1, <2>2 DEF Types
<1>4. EventInv'
  BY <1>0, <1>1, <1>2, ObjFacts DEF EventInv, Ended
<1> QED BY <1>1, <1>2, <1>3, <1>4 DEF CoreInv

(* Every step preserves the core.                                          *)
LEMMA CoreStep ==
  ASSUME CoreInv, [Next]_vars
  PROVE  CoreInv'
<1>1. CASE EnqueueStep
  BY <1>1, CoreEnqueue DEF EnqueueStep
<1> QED BY <1>1, Shapes, CoreQuiet, CorePop, CoreEnd, CoreDrop, CoreWait DEF CoreInv

(* The initial states satisfy the core.                                    *)
LEMMA CoreInit ==
  ASSUME Init
  PROVE  CoreInv
<1>1. Types
  <2>1. cmds = <<>> /\ cmds \in Seq(Cmds) /\ Len(cmds) = 0
    BY DEF Init
  <2>2. fifo \in [Queues -> Seq(Ids)]
    BY DEF Init
  <2>3. \A o \in Objs : Bit(o \notin Ids) \in Int
    BY DEF Bit
  <2>4. refs \in [Objs -> Int]
    BY <2>3 DEF Init
  <2>5. 0 \in 0..MaxCmds /\ 0 \in 0..MaxVal /\ 0 <= MaxCmds
    BY ObjFacts
  <2>6. /\ cur \in [Queues -> 0..MaxCmds] /\ counter \in [Events -> 0..MaxVal]
        /\ mirror \in [Bufs -> 0..MaxCmds] /\ hev \in 0..MaxCmds /\ last \in 0..MaxCmds
    BY <2>5 DEF Init
  <2>7. /\ stage \in [Queues -> {"idle", "deps", "notify", "stopped"}]
        /\ deps \in [Queues -> SUBSET Events] /\ res \in [Queues -> BOOLEAN]
        /\ shut \in [Queues -> BOOLEAN] /\ error \in [Events -> BOOLEAN]
        /\ app \in [Objs -> BOOLEAN] /\ filled \in [Bufs -> BOOLEAN]
        /\ result \in [Ids -> {"none", "ok", "error"}] /\ failed \subseteq Ids
    BY DEF Init
  <2>8. hpc = "idle" /\ forgot = FALSE /\ refused = 0
    BY DEF Init
  <2> QED BY <2>1, <2>2, <2>4, <2>5, <2>6, <2>7, <2>8 DEF Types
<1>2. Enqueued = {}
  BY DEF Init, Enqueued
<1>3. ASSUME NEW q \in Queues PROVE FifoInv(q) /\ WorkerInv(q) /\ WaitInv(q)
  <2>1. fifo[q] = <<>> /\ Len(fifo[q]) = 0 /\ cur[q] = 0 /\ stage[q] = "idle" /\ deps[q] = {}
    BY DEF Init
  <2> QED BY <1>2, <2>1 DEF FifoInv, WorkerInv, WaitInv
<1>4. EventInv
  <2>1. \A c \in Ids : c \in Objs /\ c \in Events /\ counter[c] = 0 /\ ~error[c] /\ ~app[c]
                       /\ result[c] = "none"
    BY ObjFacts DEF Init
  <2>2. \A u \in UserEvents : ~error[u]
    BY ObjFacts DEF Init
  <2>3. failed = {}
    BY DEF Init
  <2> QED BY <2>1, <2>2, <2>3 DEF EventInv, Ended
<1> QED BY <1>1, <1>2, <1>3, <1>4 DEF CoreInv
-----------------------------------------------------------------------------
(* Mappings: a step that ends nothing keeps a mapping or drops it.         *)
LEMMA MapFrame ==
  ASSUME Types, Types', MapInv, Enqueued \subseteq Enqueued',
         \A c \in Enqueued : cmds'[c] = cmds[c] /\ result'[c] = result[c],
         \A b \in Bufs : mirror'[b] = 0 \/ (mirror'[b] = mirror[b] /\ filled'[b] = filled[b])
  PROVE  MapInv'
<1>1. ASSUME NEW b \in Bufs, mirror'[b] # 0
      PROVE  /\ mirror'[b] \in Enqueued' /\ cmds'[mirror'[b]].kind \in Maps
             /\ cmds'[mirror'[b]].obj = b
             /\ cmds'[mirror'[b]].kind = "map" /\ result'[mirror'[b]] = "ok" => filled'[b]
  <2>1. PICK m : m = mirror[b] /\ mirror'[b] = m /\ filled'[b] = filled[b]
    BY <1>1
  <2>2. /\ m \in Enqueued /\ cmds[m].kind \in Maps /\ cmds[m].obj = b
        /\ cmds[m].kind = "map" /\ result[m] = "ok" => filled[b]
    BY <1>1, <2>1 DEF MapInv, MapPopulated
  <2> QED BY <2>1, <2>2
<1> QED BY <1>1 DEF MapInv, MapPopulated

(* The end of a command's work leaves mappings as they should be: a map    *)
(* that succeeds has found its mirror, and filled it.                      *)
LEMMA MapEnd ==
  ASSUME CoreInv, CoreInv', MapInv, NEW q \in Queues, EndStep(q)
  PROVE  MapInv'
<1>0. Types /\ Types' /\ WorkerInv(q)
  BY DEF CoreInv
<1>1. PICK ok \in BOOLEAN : EndsAs(q, ok)
  BY <1>0, EndFacts DEF CoreInv
<1>2. PICK c : c = cur[q]
  OBVIOUS
<1>3. /\ c \in Enqueued /\ Enqueued \subseteq Ids /\ UNCHANGED cmds /\ Enqueued' = Enqueued
      /\ result' = [result EXCEPT ![c] = IF ok THEN "ok" ELSE "error"]
  BY <1>0, <1>1, <1>2, Numbers DEF EndsAs, Enqueued
<1>4. result'[c] = (IF ok THEN "ok" ELSE "error") /\ \A d \in Ids \ {c} : result'[d] = result[d]
  BY <1>0, <1>3 DEF Types
<1>5. MappingAfter(q) \/ UNCHANGED buffer
  BY DEF EndStep, SkipWork, EndWork, EndHostWork
<1>6. ASSUME NEW b \in Bufs, mirror'[b] # 0
      PROVE  /\ mirror'[b] = mirror[b]
             /\ cmds[mirror[b]].kind = "map" /\ filled[b] => filled'[b]
  BY <1>0, <1>5, <1>6 DEF MappingAfter, buffer, Types
<1>7. ASSUME NEW b \in Bufs, mirror'[b] # 0
      PROVE  /\ mirror'[b] \in Enqueued' /\ cmds'[mirror'[b]].kind \in Maps
             /\ cmds'[mirror'[b]].obj = b
             /\ cmds'[mirror'[b]].kind = "map" /\ result'[mirror'[b]] = "ok" => filled'[b]
  <2>1. PICK m : m = mirror[b]
    OBVIOUS
  <2>2. /\ m \in Enqueued /\ m \in Ids /\ m # 0 /\ cmds[m].kind \in Maps /\ cmds[m].obj = b
        /\ cmds[m].kind = "map" /\ result[m] = "ok" => filled[b]
    BY <1>3, <1>6, <1>7, <2>1 DEF MapInv, MapPopulated
  <2>3. CASE m # c
    BY <1>3, <1>4, <1>6, <1>7, <2>1, <2>2, <2>3
  <2>4. CASE m = c
    <3>1. ASSUME cmds[c].kind = "map", result'[c] = "ok" PROVE filled'[b]
      <4>0. Cur(q) = cmds[c] /\ cmds[c].kind = "map" /\ cmds[c].obj = b /\ mirror[b] # 0
        BY <1>2, <2>1, <2>2, <2>4, <3>1 DEF Cur
      <4>1. ~SkipWork(q) /\ ~EndHostWork(q)
        <5>1. SkipWork(q) => result'[c] = "error"
          BY <1>0, <1>2, <1>3 DEF SkipWork, Completed, Types
        <5>2. ~EndHostWork(q)
          BY <4>0 DEF EndHostWork, OnDevice, Maps
        <5> QED BY <3>1, <5>1, <5>2
      <4>2. EndWork(q)
        BY <4>1 DEF EndStep
      <4>3. MappingAfter(q)
        <5>1. Completed(q, FALSE) => result'[c] = "error"
          BY <1>0, <1>2, <1>3 DEF Completed, Types
        <5> QED BY <3>1, <4>2, <5>1 DEF EndWork
      <4>4. filled' = [filled EXCEPT ![b] = TRUE]
        BY <2>1, <2>4, <4>0, <4>3 DEF MappingAfter, Maps
      <4> QED BY <1>0, <4>4 DEF Types
    <3> QED BY <1>3, <1>6, <1>7, <2>1, <2>2, <2>4, <3>1
  <2> QED BY <2>3, <2>4
<1> QED BY <1>7 DEF MapInv, MapPopulated

(* Every step preserves the mappings.                                      *)
LEMMA MapStep ==
  ASSUME CoreInv, CoreInv', MapInv, [Next]_vars
  PROVE  MapInv'
<1>0. Types /\ Types' /\ EventInv /\ Enqueued \subseteq Ids
  BY Numbers DEF CoreInv
<1>1. CASE EnqueueStep
  <2>1. PICK q \in Queues, n \in Cmds :
          /\ Enqueue(q, n.kind, n.obj, n.val, n.waits) /\ n.q = q
          /\ WellFormed(n) /\ Mapped(n)
    BY <1>1 DEF EnqueueStep
  <2>2. /\ NewId \in Ids /\ Enqueued' = Enqueued \cup {NewId} /\ cmds'[NewId] = n
        /\ \A c \in Enqueued : cmds'[c] = cmds[c]
        /\ result' = result
    BY <1>0, <2>1, EnqueueFacts
  <2>3. result[NewId] = "none" /\ NewId # 0
    BY <1>0, <2>2, Numbers DEF EventInv, Ended
  <2>4. CASE n.kind \notin Maps
    <3>1. UNCHANGED <<mirror, filled>>
      BY <2>1, <2>4 DEF Mapped, buffer
    <3> QED BY <1>0, <2>2, <3>1, MapFrame
  <2>5. CASE n.kind \in Maps
    <3>1. /\ n.obj \in Bufs /\ mirror' = [mirror EXCEPT ![n.obj] = NewId]
          /\ filled' = [filled EXCEPT ![n.obj] = FALSE]
      BY <2>1, <2>5 DEF Mapped, WellFormed
    <3>2. /\ mirror'[n.obj] = NewId
          /\ \A b \in Bufs \ {n.obj} : mirror'[b] = mirror[b] /\ filled'[b] = filled[b]
      BY <1>0, <3>1 DEF Types
    <3>3. ASSUME NEW b \in Bufs, mirror'[b] # 0
          PROVE  /\ mirror'[b] \in Enqueued' /\ cmds'[mirror'[b]].kind \in Maps
                 /\ cmds'[mirror'[b]].obj = b
                 /\ cmds'[mirror'[b]].kind = "map" /\ result'[mirror'[b]] = "ok" => filled'[b]
      <4>1. CASE b = n.obj
        BY <2>2, <2>3, <2>5, <3>2, <4>1
      <4>2. CASE b # n.obj
        <5>1. PICK m : m = mirror[b]
          OBVIOUS
        <5>2. mirror'[b] = m /\ filled'[b] = filled[b] /\ m # 0
          BY <3>2, <3>3, <4>2, <5>1
        <5>3. /\ m \in Enqueued /\ cmds[m].kind \in Maps /\ cmds[m].obj = b
              /\ cmds[m].kind = "map" /\ result[m] = "ok" => filled[b]
          BY <5>1, <5>2 DEF MapInv, MapPopulated
        <5> QED BY <2>2, <5>2, <5>3
      <4> QED BY <4>1, <4>2
    <3> QED BY <3>3 DEF MapInv, MapPopulated
  <2> QED BY <2>4, <2>5
<1>2. CASE QuietStep
  <2>1. UNCHANGED <<cmds, result>> /\ Enqueued' = Enqueued
    BY <1>0, <1>2, QuietFacts DEF Enqueued
  <2>2. \A b \in Bufs : mirror'[b] = 0 \/ (mirror'[b] = mirror[b] /\ filled'[b] = filled[b])
    BY <1>0, <1>2 DEF QuietStep, EnqueueRefused, ReleaseHandle, UnmapNow, HostSignal, DestroyQueue, Stop, Start,
                      Remember, ReadyWait, WaitEnds, vars, buffer, Types
  <2> QED BY <1>0, <2>1, <2>2, MapFrame
<1>3. ASSUME NEW q \in Queues, Pop(q) \/ DropCompletion(q) \/ \E e \in Events : WaitDep(q, e)
      PROVE  MapInv'
  <2>1. UNCHANGED <<cmds, result, mirror, filled>>
    BY <1>3 DEF Pop, DropCompletion, WaitDep, buffer
  <2>2. Enqueued' = Enqueued
    BY <2>1 DEF Enqueued
  <2> QED BY <1>0, <2>1, <2>2, MapFrame
<1> QED BY <1>0, <1>1, <1>2, <1>3, Shapes, MapEnd
-----------------------------------------------------------------------------
(* The host thread and the last launch: a step of a worker, or one that    *)
(* only enqueues, lets them be.                                            *)
LEMMA LegacyFrame ==
  ASSUME Types, Types', LegacyInv, Enqueued \subseteq Enqueued',
         UNCHANGED legacy, \A c \in {hev, last} \ {0} : app'[c] = app[c],
         \A c \in Enqueued : cmds'[c] = cmds[c] /\ (Ended(c) => Ended(c)'),
         \A c \in Enqueued' : c \in Enqueued \/ cmds'[c].kind # "launch"
  PROVE  LegacyInv'
<1>1. UNCHANGED <<hpc, hev, last, forgot>>
  BY DEF legacy
<1>2. last' \in 0..Len(cmds')
  <2>1. last \in Enqueued \/ last = 0
    BY Numbers DEF LegacyInv, Enqueued
  <2>2. last' \in Enqueued' \/ last' = 0
    BY <1>1, <2>1
  <2> QED BY <2>2, Numbers DEF Enqueued, Types
<1>3. LegacyTracked'
  <2> SUFFICES ASSUME ~forgot, NEW c \in Enqueued', cmds'[c].kind = "launch", ~Ended(c)'
               PROVE  c \in {hev, last}
    BY <1>1 DEF LegacyTracked
  <2>1. c \in Enqueued /\ cmds[c].kind = "launch" /\ ~Ended(c)
    OBVIOUS
  <2> QED BY <2>1 DEF LegacyInv, LegacyTracked
<1>4. hpc = "finish" => cmds'[hev].kind # "launch"
  BY DEF LegacyInv
<1> QED BY <1>1, <1>2, <1>3, <1>4 DEF LegacyInv

(* An enqueue, by the application or by the host thread itself.            *)
LEMMA LegacyEnqueue ==
  ASSUME CoreInv, CoreInv', LegacyInv, EnqueueStep
  PROVE  LegacyInv'
<1>0. Types /\ Types'
  BY DEF CoreInv
<1>1. PICK q \in Queues, n \in Cmds :
        /\ Enqueue(q, n.kind, n.obj, n.val, n.waits) /\ n.q = q /\ Tracked(n)
  BY DEF EnqueueStep
<1>2. /\ NewId \in Ids /\ Enqueued' = Enqueued \cup {NewId} /\ cmds'[NewId] = n
      /\ \A c \in Enqueued : cmds'[c] = cmds[c]
      /\ result' = result /\ app' = [app EXCEPT ![NewId] = TRUE] /\ Len(cmds') = NewId
  BY <1>0, <1>1, EnqueueFacts
<1>3. /\ NewId # 0 /\ NewId \notin Enqueued /\ Enqueued \subseteq Ids /\ Len(cmds) \in Nat
      /\ NewId \in Nat /\ \A c \in Enqueued : c < NewId
  BY <1>0, Numbers
<1>4. last \in Enqueued \/ last = 0
  BY <1>3 DEF LegacyInv, Enqueued
<1>5. last # NewId /\ last \in 0..Len(cmds')
  <2>1. last # NewId
    BY <1>3, <1>4
  <2>2. 0 \in 0..NewId /\ \A c \in Enqueued : c \in 0..NewId
    BY <1>3, ObjFacts
  <2> QED BY <1>2, <1>3, <1>4, <2>1, <2>2
<1>6. \A c \in Ids : Ended(c)' <=> Ended(c)
  BY <1>2 DEF Ended
<1>7. app'[NewId] /\ \A o \in Objs \ {NewId} : app'[o] = app[o]
  BY <1>0, <1>2, ObjFacts DEF Types
<1>8. last # 0 => app'[last]
  BY <1>3, <1>4, <1>5, <1>7, ObjFacts DEF LegacyInv
<1>9. CASE UNCHANGED legacy /\ n.kind # "launch"
  <2>1. UNCHANGED <<hpc, hev, last, forgot>>
    BY <1>9 DEF legacy
  <2>2. hev # NewId /\ (hev # 0 => hev \in Objs)
    BY <1>3, ObjFacts DEF LegacyInv
  <2>3. LegacyTracked'
    <3> SUFFICES ASSUME ~forgot, NEW c \in Enqueued', cmds'[c].kind = "launch", ~Ended(c)'
                 PROVE  c \in {hev, last}
      BY <2>1 DEF LegacyTracked
    <3>1. c \in Enqueued /\ c \in Ids
      BY <1>2, <1>3, <1>9
    <3> QED BY <1>2, <1>6, <3>1 DEF LegacyInv, LegacyTracked
  <2>4. hpc = "finish" => cmds'[hev].kind # "launch"
    BY <1>2 DEF LegacyInv
  <2>5. hev # 0 => app'[hev]
    BY <1>7, <2>2 DEF LegacyInv
  <2> QED BY <1>2, <1>5, <1>8, <2>1, <2>3, <2>4, <2>5 DEF LegacyInv
<1>10. CASE /\ hpc = "idle" /\ hpc' = "finish" /\ hev' = NewId /\ n.kind # "launch"
            /\ UNCHANGED <<last, forgot>>
  <2>1. LegacyTracked'
    <3> SUFFICES ASSUME ~forgot, NEW c \in Enqueued', cmds'[c].kind = "launch", ~Ended(c)'
                 PROVE  c \in {hev', last}
      BY <1>10 DEF LegacyTracked
    <3>1. c \in Enqueued /\ c \in Ids
      BY <1>2, <1>3, <1>10
    <3>2. c \in {hev, last} /\ hev = 0 /\ c # 0
      BY <1>2, <1>6, <1>10, <3>1, ObjFacts DEF LegacyInv, LegacyTracked
    <3> QED BY <3>2
  <2> QED BY <1>2, <1>5, <1>7, <1>8, <1>10, <2>1 DEF LegacyInv
<1>11. CASE hpc = "launch" /\ hpc' = "remember" /\ hev' = NewId /\ UNCHANGED <<last, forgot>>
  <2>1. LegacyTracked'
    <3> SUFFICES ASSUME ~forgot, NEW c \in Enqueued', cmds'[c].kind = "launch", ~Ended(c)'
                 PROVE  c = NewId
      BY <1>11 DEF LegacyTracked
    <3>1. ASSUME c \in Enqueued PROVE FALSE
      <4>1. c \in Ids /\ c # 0 /\ cmds[c].kind = "launch" /\ ~Ended(c)
        BY <1>2, <1>3, <1>6, <3>1, ObjFacts
      <4>2. c \in {hev, last} /\ hev = 0 /\ last = 0
        BY <1>11, <3>1, <4>1 DEF LegacyInv, LegacyTracked
      <4> QED BY <4>1, <4>2
    <3> QED BY <1>2, <3>1
  <2> QED BY <1>2, <1>5, <1>7, <1>8, <1>11, <2>1 DEF LegacyInv
<1> QED BY <1>1, <1>9, <1>10, <1>11 DEF Tracked

(* The steps of the host thread, and those that only use handles.          *)
LEMMA LegacyQuiet ==
  ASSUME CoreInv, CoreInv', LegacyInv, QuietStep
  PROVE  LegacyInv'
<1>0. Types /\ Types' /\ EventInv /\ Enqueued \subseteq Ids
  BY Numbers DEF CoreInv
<1>1. UNCHANGED <<cmds, result>> /\ Enqueued' = Enqueued /\ Len(cmds) \in Nat
  BY <1>0, QuietFacts, Numbers DEF Enqueued
<1>2. last \in Enqueued \/ last = 0
  BY <1>1 DEF LegacyInv, Enqueued
<1>3. LegacyTracked <=> (~forgot => \A c \in Enqueued :
                          cmds[c].kind = "launch" /\ ~Ended(c) => c \in {hev, last})
  BY DEF LegacyTracked
<1>4. LegacyTracked' <=> (~forgot' => \A c \in Enqueued :
                           cmds[c].kind = "launch" /\ ~Ended(c) => c \in {hev', last'})
  BY <1>1 DEF LegacyTracked, Ended
<1>5. 0 \notin Enqueued /\ 0 \in 0..Len(cmds) /\ Enqueued \subseteq 0..Len(cmds)
  BY <1>0, <1>1, ObjFacts DEF Enqueued
<1>6. CASE \E o \in Objs : Disposable(o) /\ ReleaseHandle(o)
  <2>1. PICK o \in Objs : Disposable(o) /\ ReleaseHandle(o)
    BY <1>6
  <2>2. o \notin {hev, last} /\ app' = [app EXCEPT ![o] = FALSE] /\ UNCHANGED legacy
    BY <2>1 DEF Disposable, ReleaseHandle
  <2>3. \A c \in {hev, last} \ {0} : app'[c] = app[c]
    <3>1. \A c \in {hev, last} \ {0} : c \in Objs
      BY <1>0, <1>2, ObjFacts DEF LegacyInv
    <3> QED BY <1>0, <2>2, <3>1 DEF Types
  <2> QED BY <1>0, <1>1, <2>2, <2>3, LegacyFrame DEF Ended
<1>7. CASE \/ (\E b \in Bufs : UnmapNow(b)) \/ (\E u \in UserEvents : HostSignal(u))
           \/ (\E q \in Queues : DestroyQueue(q) \/ Stop(q)) \/ EnqueueRefused \/ UNCHANGED vars
  <2>1. UNCHANGED <<legacy, app>>
    BY <1>7 DEF UnmapNow, HostSignal, DestroyQueue, Stop, EnqueueRefused, vars, handles
  <2> QED BY <1>0, <1>1, <2>1, LegacyFrame DEF Ended
<1>8. CASE Start \/ ReadyWait
  <2>1. /\ hpc = "idle" /\ hev' = last /\ last' = 0 /\ UNCHANGED <<app, forgot>>
        /\ hpc' \in {"launch", "start", "ready"} /\ (hpc' = "launch" <=> last = 0)
    BY <1>8 DEF Start, ReadyWait, handles
  <2>2. hev = 0
    BY <2>1 DEF LegacyInv
  <2>3. LegacyTracked'
    BY <1>3, <1>4, <2>1, <2>2 DEF LegacyInv
  <2> QED BY <1>1, <1>2, <1>5, <2>1, <2>3 DEF LegacyInv
<1>9. CASE Remember
  <2>1. hpc = "remember" /\ last = 0
    BY <1>9 DEF Remember, LegacyInv
  <2>2. last' = hev /\ hpc' = "idle" /\ hev' = 0 /\ UNCHANGED <<app, forgot>>
    BY <1>9, <2>1 DEF Remember, handles
  <2>3. hev \in Enqueued /\ app[hev]
    BY <1>5, <2>1 DEF LegacyInv
  <2>4. LegacyTracked'
    BY <1>3, <1>4, <2>1, <2>2 DEF LegacyInv
  <2> QED BY <1>1, <1>5, <2>2, <2>3, <2>4 DEF LegacyInv
<1>10. CASE \E t \in BOOLEAN : WaitEnds(t)
  <2>1. PICK t \in BOOLEAN : WaitEnds(t)
    BY <1>10
  <2>2. /\ hpc \in {"finish", "ready", "start"} /\ (t => hpc # "start")
        /\ (t <=> ~Reached(hev, 1)) /\ app' = [app EXCEPT ![hev] = FALSE]
        /\ hpc' = (IF hpc = "start" THEN "launch" ELSE "idle") /\ hev' = 0
        /\ forgot' = (forgot \/ (t /\ hpc = "ready")) /\ last' = last
    BY <2>1 DEF WaitEnds
  <2>3. hev \in Enqueued /\ hev \in Ids /\ hev # 0 /\ hev # last
    BY <1>0, <1>5, <2>2 DEF LegacyInv
  <2>4. ~t => Ended(hev)
    <3>1. CASE counter[hev] >= 1
      BY <1>0, <2>3, <3>1 DEF EventInv
    <3>2. CASE error[hev]
      BY <1>0, <2>3, <3>2 DEF EventInv, Ended
    <3> QED BY <2>2, <3>1, <3>2 DEF Reached
  <2>5. LegacyTracked'
    <3> SUFFICES ASSUME ~forgot', NEW c \in Enqueued, cmds[c].kind = "launch", ~Ended(c)
                 PROVE  c \in {hev', last'}
      BY <1>4
    <3>1. c \in {hev, last}
      BY <1>3, <2>2 DEF LegacyInv
    <3>2. c # hev
      BY <2>2, <2>4 DEF LegacyInv
    <3> QED BY <2>2, <3>1, <3>2
  <2>6. last # 0 => app'[last]
    BY <1>0, <2>2, <2>3 DEF LegacyInv, Types
  <2>7. hpc' \notin {"idle", "finish"} => last = 0
    BY <2>2 DEF LegacyInv
  <2> QED BY <1>1, <1>2, <1>5, <2>2, <2>5, <2>6, <2>7 DEF LegacyInv
<1> QED BY <1>6, <1>7, <1>8, <1>9, <1>10 DEF QuietStep

(* Every step preserves the host thread's invariant.                       *)
LEMMA LegacyStep ==
  ASSUME CoreInv, CoreInv', LegacyInv, [Next]_vars
  PROVE  LegacyInv'
<1>0. Types /\ Types' /\ Enqueued \subseteq Ids
  BY Numbers DEF CoreInv
<1>1. ASSUME NEW q \in Queues,
             Pop(q) \/ EndStep(q) \/ DropCompletion(q) \/ \E e \in Events : WaitDep(q, e)
      PROVE  LegacyInv'
  <2>1. UNCHANGED <<cmds, legacy, app>>
    BY <1>1 DEF Pop, EndStep, SkipWork, EndWork, EndHostWork, Completed, DropCompletion, WaitDep,
                handles
  <2>2. \A c \in Ids : Ended(c) => Ended(c)'
    <3>1. \/ result' = result
          \/ \E v \in {"ok", "error"} : result' = [result EXCEPT ![cur[q]] = v]
      BY <1>1 DEF Pop, EndStep, SkipWork, EndWork, EndHostWork, Completed, DropCompletion, WaitDep
    <3> QED BY <1>0, <3>1 DEF Ended, Types
  <2>3. Enqueued' = Enqueued
    BY <2>1 DEF Enqueued
  <2> QED BY <1>0, <2>1, <2>2, <2>3, LegacyFrame
<1> QED BY <1>0, <1>1, Shapes, LegacyEnqueue, LegacyQuiet
-----------------------------------------------------------------------------
(* References: who holds how many, by role.                                *)
Waiting == UNION {{fifo[q][i] : i \in DOMAIN fifo[q]} : q \in Queues}
Busy == {q \in Queues : cur[q] # 0}
QueuedFor(o) == {c \in Waiting : cmds[c].obj = o}
RunningFor(o) == {q \in Busy : Cur(q).obj = o /\ stage[q] = "deps"}
QueuedOn(o) == {c \in Waiting : o \in cmds[c].waits}
RunningOn(o) == {q \in Busy : o \in deps[q]}
Lives(o) == o \in Waiting \/ \E q \in Busy : cur[q] = o

Ledger(o) ==
  Bit(app[o])
    + (Cardinality(QueuedFor(o)) + Cardinality(RunningFor(o)) + Cardinality(QueuedOn(o))
       + Cardinality(RunningOn(o)) + Bit(Lives(o)))

(* A step that changes the count of o as it changes o's users, and one     *)
(* that may also leave references behind.                                  *)
Kept(o) ==
  /\ refs[o] \in Int /\ Ledger(o) \in Int /\ Ledger(o)' \in Int
  /\ refs'[o] = refs[o] + (Ledger(o)' - Ledger(o))
NoneTaken(o) ==
  /\ refs[o] \in Int /\ refs'[o] \in Int /\ Ledger(o) \in Int /\ Ledger(o)' \in Int
  /\ refs'[o] >= refs[o] + (Ledger(o)' - Ledger(o))

(* The users of an object, by role.                                        *)
LEMMA UsersIs ==
  \A o : Users(o) = Ledger(o) /\ Users(o)' = Ledger(o)'
<1>1. \A o : HeldByQueues(o) =
        Cardinality(QueuedFor(o)) + Cardinality(RunningFor(o)) + Cardinality(QueuedOn(o))
          + Cardinality(RunningOn(o)) + Bit(Lives(o))
  BY Zenon DEF HeldByQueues, QueuedFor, RunningFor, QueuedOn, RunningOn, Lives, Waiting, Busy
<1>2. \A o : HeldByQueues(o)' =
        (Cardinality(QueuedFor(o)) + Cardinality(RunningFor(o)) + Cardinality(QueuedOn(o))
          + Cardinality(RunningOn(o)) + Bit(Lives(o)))'
  BY Zenon DEF HeldByQueues, QueuedFor, RunningFor, QueuedOn, RunningOn, Lives, Waiting, Busy
<1> QED BY <1>1, <1>2, Zenon DEF Users, Ledger

(* The commands of some FIFOs.                                             *)
LEMMA Members ==
  ASSUME NEW f \in [Queues -> Seq(Ids)], NEW c
  PROVE  c \in UNION {{f[q][i] : i \in DOMAIN f[q]} : q \in Queues}
           <=> \E q \in Queues : \E i \in 1..Len(f[q]) : f[q][i] = c
<1>1. \A q \in Queues : DOMAIN f[q] = 1..Len(f[q])
  OBVIOUS
<1> QED BY <1>1

(* The commands that wait in a FIFO.                                       *)
LEMMA WaitingIs ==
  ASSUME Types, Types'
  PROVE  /\ \A c : c \in Waiting <=> \E q \in Queues : InFifo(q, c)
         /\ \A c : c \in Waiting' <=> \E q \in Queues : InFifo(q, c)'
<1>1. fifo \in [Queues -> Seq(Ids)] /\ fifo' \in [Queues -> Seq(Ids)]
  BY DEF Types
<1>2. \A c : c \in Waiting <=> \E q \in Queues : InFifo(q, c)
  BY <1>1, Members, Zenon DEF Waiting, InFifo
<1>3. \A c : c \in Waiting' <=> \E q \in Queues : InFifo(q, c)'
  BY <1>1, Members, Zenon DEF Waiting, InFifo
<1> QED BY <1>2, <1>3

(* Commands that wait have not ended and are on no worker; all that is     *)
(* counted is finite.                                                      *)
LEMMA WaitingFacts ==
  ASSUME CoreInv, Types'
  PROVE  /\ \A c \in Waiting : c \in Enqueued /\ c \in Ids /\ ~Ended(c) /\ \A q \in Queues : cur[q] # c
         /\ \A q \in Busy : q \in Queues /\ Owns(q, cur[q]) /\ cur[q] \in Enqueued /\ cur[q] \in Ids
         /\ \A q, r \in Busy : cur[q] = cur[r] => q = r
         /\ \A q \in Queues : \A c : InFifo(q, c) => c \in Waiting /\ cmds[c].q = q
         /\ IsFiniteSet(Waiting) /\ IsFiniteSet(Busy) /\ IsFiniteSet(Enqueued)
<1>0. Types /\ Enqueued \subseteq Ids /\ Len(cmds) \in Nat
  BY Numbers DEF CoreInv
<1>1. \A q \in Busy : q \in Queues /\ Owns(q, cur[q]) /\ cur[q] \in Enqueued /\ cur[q] \in Ids
  BY <1>0 DEF Busy, CoreInv, WorkerInv, Owns
<1>2. \A q \in Queues : \A c : InFifo(q, c) => c \in Waiting /\ cmds[c].q = q /\ c \in Enqueued /\ ~Ended(c)
  BY <1>0, WaitingIs DEF CoreInv, FifoInv, Owns, InFifo
<1>3. ASSUME NEW c \in Waiting
      PROVE  c \in Enqueued /\ c \in Ids /\ ~Ended(c) /\ \A q \in Queues : cur[q] # c
  <2>1. PICK r \in Queues : InFifo(r, c)
    BY <1>0, WaitingIs
  <2>2. c \in Enqueued /\ c \in Ids /\ ~Ended(c) /\ cmds[c].q = r /\ c # 0
    BY <1>0, <1>2, <2>1, ObjFacts
  <2>3. ASSUME NEW q \in Queues, cur[q] = c PROVE FALSE
    <3>1. q = r
      BY <1>1, <2>2, <2>3 DEF Busy, Owns
    <3>2. PICK i \in 1..Len(fifo[r]) : fifo[r][i] = c
      BY <2>1 DEF InFifo
    <3>3. c < c
      BY <2>2, <2>3, <3>1, <3>2 DEF CoreInv, WorkerInv
    <3> QED BY <2>2, <3>3, ObjFacts
  <2> QED BY <2>2, <2>3
<1>4. \A q, r \in Busy : cur[q] = cur[r] => q = r
  BY <1>1 DEF Owns
<1>5. IsFiniteSet(Enqueued)
  BY <1>0, FS_Interval DEF Enqueued
<1>6. IsFiniteSet(Waiting)
  BY <1>3, <1>5, FS_Subset
<1>7. IsFiniteSet(Busy)
  BY QueueAssumption, FS_Subset DEF Busy
<1> QED BY <1>1, <1>2, <1>3, <1>4, <1>5, <1>6, <1>7

(* So every count is a number.                                             *)
LEMMA CountFacts ==
  ASSUME CoreInv, Types', NEW o
  PROVE  /\ IsFiniteSet(QueuedFor(o)) /\ IsFiniteSet(RunningFor(o)) /\ IsFiniteSet(QueuedOn(o))
         /\ IsFiniteSet(RunningOn(o))
         /\ Cardinality(QueuedFor(o)) \in Nat /\ Cardinality(RunningFor(o)) \in Nat
         /\ Cardinality(QueuedOn(o)) \in Nat /\ Cardinality(RunningOn(o)) \in Nat
<1>1. IsFiniteSet(Waiting) /\ IsFiniteSet(Busy) /\ IsFiniteSet(Enqueued)
  BY WaitingFacts
<1>2. /\ QueuedFor(o) \subseteq Waiting /\ QueuedOn(o) \subseteq Waiting
      /\ RunningFor(o) \subseteq Busy /\ RunningOn(o) \subseteq Busy
  BY DEF QueuedFor, RunningFor, QueuedOn, RunningOn
<1>3. /\ IsFiniteSet(QueuedFor(o)) /\ IsFiniteSet(RunningFor(o)) /\ IsFiniteSet(QueuedOn(o))
      /\ IsFiniteSet(RunningOn(o))
  BY <1>1, <1>2, FS_Subset
<1> QED BY <1>3, FS_CardinalityType

(* A set that gains one element or none.                                   *)
LEMMA Gains ==
  ASSUME NEW S, NEW T, NEW x, NEW b \in BOOLEAN, IsFiniteSet(S), x \notin S,
         T = IF b THEN S \cup {x} ELSE S
  PROVE  Cardinality(T) = Cardinality(S) + Bit(b)
<1>1. Cardinality(S) \in Nat
  BY FS_CardinalityType
<1>2. CASE b
  BY <1>1, <1>2, FS_AddElement DEF Bit
<1>3. CASE ~b
  BY <1>1, <1>3 DEF Bit
<1> QED BY <1>2, <1>3

(* And the other way.                                                      *)
LEMMA Loses ==
  ASSUME NEW S, NEW T, NEW x, NEW b \in BOOLEAN, IsFiniteSet(S), b => x \in S,
         T = IF b THEN S \ {x} ELSE S
  PROVE  Cardinality(T) = Cardinality(S) - Bit(b)
<1>1. Cardinality(S) \in Nat
  BY FS_CardinalityType
<1>2. CASE b
  BY <1>1, <1>2, FS_RemoveElement DEF Bit
<1>3. CASE ~b
  BY <1>1, <1>3 DEF Bit
<1> QED BY <1>2, <1>3

(* The ledger where no command moves: only handles change.                 *)
LEMMA SameCounts ==
  ASSUME CoreInv, Types', NEW o, UNCHANGED <<cmds, fifo, cur, deps, result>>,
         \A q \in Queues : cur[q] # 0 => stage'[q] = stage[q]
  PROVE  /\ QueuedFor(o)' = QueuedFor(o) /\ RunningFor(o)' = RunningFor(o)
         /\ QueuedOn(o)' = QueuedOn(o) /\ RunningOn(o)' = RunningOn(o)
         /\ (Lives(o)' <=> Lives(o))
<1>1. Waiting' = Waiting /\ Busy' = Busy /\ Enqueued' = Enqueued
  BY DEF Waiting, Busy, Enqueued
<1>2. \A q \in Busy : stage'[q] = stage[q] /\ Cur(q)' = Cur(q)
  BY DEF Busy, Cur
<1>3. RunningFor(o)' = RunningFor(o)
  BY <1>1, <1>2 DEF RunningFor
<1>4. QueuedFor(o)' = QueuedFor(o) /\ QueuedOn(o)' = QueuedOn(o) /\ RunningOn(o)' = RunningOn(o)
  BY <1>1 DEF QueuedFor, QueuedOn, RunningOn
<1>5. Lives(o)' <=> Lives(o)
  BY <1>1 DEF Lives
<1> QED BY <1>3, <1>4, <1>5

(* A handle given up is a reference given back.                            *)
LEMMA RefsQuiet ==
  ASSUME CoreInv, LegacyInv, QuietStep, ~EnqueueRefused
  PROVE  \A o \in Objs : Kept(o)
<1>0. Types /\ Types' /\ Enqueued \subseteq Ids
  BY QuietFacts, Numbers DEF CoreInv
<1>1. /\ UNCHANGED <<cmds, fifo, cur, deps, result>>
      /\ \A q \in Queues : cur[q] # 0 => stage'[q] = stage[q]
  <2>1. /\ UNCHANGED <<cmds, fifo, cur, deps, result>>
        /\ \/ UNCHANGED stage
           \/ \E q \in Queues : stage[q] = "idle" /\ stage' = [stage EXCEPT ![q] = "stopped"]
    BY <1>0, QuietFacts
  <2> QED BY <1>0, <2>1 DEF CoreInv, WorkerInv, Types
<1>2. \/ UNCHANGED <<refs, app>>
      \/ \E o \in Objs : /\ app[o] /\ app' = [app EXCEPT ![o] = FALSE]
                         /\ refs' = [refs EXCEPT ![o] = refs[o] - 1]
  <2>1. CASE \E o \in Objs : Disposable(o) /\ ReleaseHandle(o)
    BY <2>1, ObjFacts DEF ReleaseHandle, Release
  <2>2. CASE \E t \in BOOLEAN : WaitEnds(t)
    <3>1. Release(hev) /\ app' = [app EXCEPT ![hev] = FALSE] /\ hpc \in {"finish", "ready", "start"}
      BY <2>2 DEF WaitEnds
    <3>2. hev \in Ids /\ app[hev]
      BY <1>0, <3>1, ObjFacts DEF LegacyInv
    <3> QED BY <3>1, <3>2, ObjFacts DEF Release
  <2>3. CASE Remember
    BY <2>3 DEF Remember, LegacyInv, handles
  <2> QED BY <2>1, <2>2, <2>3 DEF QuietStep, UnmapNow, HostSignal, DestroyQueue, Stop, Start,
                                 ReadyWait, vars, handles
<1>3. ASSUME NEW o \in Objs PROVE Kept(o)
  <2>2. /\ QueuedFor(o)' = QueuedFor(o) /\ RunningFor(o)' = RunningFor(o)
        /\ QueuedOn(o)' = QueuedOn(o) /\ RunningOn(o)' = RunningOn(o)
        /\ (Lives(o)' <=> Lives(o))
    BY <1>0, <1>1, SameCounts
  <2>3. refs'[o] - Bit(app[o])' = refs[o] - Bit(app[o])
    BY <1>0, <1>2 DEF Bit, Types
  <2>4. /\ refs[o] \in Int /\ refs'[o] \in Int /\ Bit(app[o]) \in Int /\ Bit(app[o])' \in Int
        /\ Bit(Lives(o)) \in Int /\ Bit(Lives(o))' = Bit(Lives(o))
    BY <1>0, <2>2 DEF Types, Bit
  <2>5. /\ Cardinality(QueuedFor(o)) \in Nat /\ Cardinality(RunningFor(o)) \in Nat
        /\ Cardinality(QueuedOn(o)) \in Nat /\ Cardinality(RunningOn(o)) \in Nat
    BY <1>0, CountFacts
  <2> QED BY <2>2, <2>3, <2>4, <2>5 DEF Kept, Ledger
<1> QED BY <1>3

(* An enqueue counts what it takes.                                        *)
LEMMA RefsEnqueue ==
  ASSUME CoreInv, CoreInv', EnqueueStep
  PROVE  \A o \in Objs : Kept(o)
<1>0. Types /\ Types' /\ EventInv
  BY DEF CoreInv
<1>1. PICK q \in Queues, n \in Cmds : Enqueue(q, n.kind, n.obj, n.val, n.waits) /\ n.q = q
  BY DEF EnqueueStep
<1>2. PICK x : x = NewId
  OBVIOUS
<1>3. /\ x \in Ids /\ Enqueued' = Enqueued \cup {x} /\ cmds'[x] = n
      /\ \A c \in Enqueued : cmds'[c] = cmds[c]
      /\ fifo' = [fifo EXCEPT ![q] = Append(fifo[q], x)]
      /\ app' = [app EXCEPT ![x] = TRUE]
      /\ UNCHANGED <<cur, stage, deps, result>>
  BY <1>0, <1>1, <1>2, EnqueueFacts
<1>4. x \notin Enqueued /\ ~app[x] /\ ~Ended(x) /\ x \in Objs /\ Enqueued \subseteq Ids
  BY <1>0, <1>2, <1>3, Numbers, ObjFacts DEF EventInv
<1>5. /\ \A c \in Waiting : c \in Enqueued
      /\ \A r \in Busy : cur[r] \in Enqueued
  BY <1>0, WaitingFacts
<1>6. Waiting' = Waiting \cup {x} /\ Busy' = Busy
  <2>1. ASSUME NEW c PROVE (\E r \in Queues : InFifo(r, c)') <=> c = x \/ \E r \in Queues : InFifo(r, c)
    <3>1. fifo[q] \in Seq(Ids) /\ Len(fifo[q]) \in Nat
      BY <1>0 DEF Types
    <3>2. /\ fifo'[q] = Append(fifo[q], x) /\ Len(fifo'[q]) = Len(fifo[q]) + 1
          /\ fifo'[q][Len(fifo[q]) + 1] = x
          /\ \A i \in 1..Len(fifo[q]) : fifo'[q][i] = fifo[q][i]
      BY <1>0, <1>3, <3>1 DEF Types
    <3>3. 1..Len(fifo'[q]) = 1..Len(fifo[q]) \cup {Len(fifo[q]) + 1}
      BY <3>1, <3>2
    <3>4. InFifo(q, c)' <=> c = x \/ InFifo(q, c)
      BY <3>2, <3>3 DEF InFifo
    <3>5. \A r \in Queues \ {q} : InFifo(r, c)' <=> InFifo(r, c)
      BY <1>0, <1>3 DEF InFifo, Types
    <3> QED BY <3>4, <3>5
  <2>2. \A c : c \in Waiting' <=> c = x \/ c \in Waiting
    BY <1>0, <2>1, WaitingIs
  <2> QED BY <1>3, <2>2 DEF Busy
<1>7. x \notin Waiting /\ ~Lives(x)
  BY <1>4, <1>5 DEF Lives
<1>8. ASSUME NEW o \in Objs PROVE Kept(o)
  <2>2. /\ QueuedFor(o)' = IF n.obj = o THEN QueuedFor(o) \cup {x} ELSE QueuedFor(o)
        /\ QueuedOn(o)' = IF o \in n.waits THEN QueuedOn(o) \cup {x} ELSE QueuedOn(o)
    BY <1>3, <1>5, <1>6 DEF QueuedFor, QueuedOn
  <2>3. RunningFor(o)' = RunningFor(o) /\ RunningOn(o)' = RunningOn(o)
    <3>1. \A r \in Busy : Cur(r)' = Cur(r)
      BY <1>3, <1>5 DEF Cur
    <3> QED BY <1>3, <1>6, <3>1 DEF RunningFor, RunningOn
  <2>5. Lives(o)' <=> Lives(o) \/ o = x
    BY <1>3, <1>6 DEF Lives
  <2>6. Cardinality(QueuedFor(o)') = Cardinality(QueuedFor(o)) + Bit(n.obj = o)
    <3>1. x \notin QueuedFor(o) /\ (n.obj = o) \in BOOLEAN /\ IsFiniteSet(QueuedFor(o))
      BY <1>0, <1>7, CountFacts DEF QueuedFor
    <3> QED BY <2>2, <3>1, Gains
  <2>7. Cardinality(QueuedOn(o)') = Cardinality(QueuedOn(o)) + Bit(o \in n.waits)
    <3>1. x \notin QueuedOn(o) /\ IsFiniteSet(QueuedOn(o))
      BY <1>0, <1>7, CountFacts DEF QueuedOn
    <3>2. PICK b \in BOOLEAN : b <=> o \in n.waits
      OBVIOUS
    <3>3. Bit(o \in n.waits) = Bit(b)
      BY <3>2 DEF Bit
    <3>4. QueuedOn(o)' = IF b THEN QueuedOn(o) \cup {x} ELSE QueuedOn(o)
      BY <2>2, <3>2
    <3> QED BY <3>1, <3>3, <3>4, Gains
  <2>8. /\ Bit(app[o])' = Bit(app[o]) + Bit(o = x) /\ Bit(Lives(o))' = Bit(Lives(o)) + Bit(o = x)
        /\ Bit(app[o]) \in Int /\ Bit(Lives(o)) \in Int /\ Bit(o = x) \in Int
        /\ Bit(n.obj = o) \in Int /\ Bit(o \in n.waits) \in Int
    <3>1. app'[o] <=> app[o] \/ o = x
      BY <1>0, <1>3 DEF Types
    <3> QED BY <1>4, <1>7, <2>5, <3>1 DEF Bit
  <2>9. refs'[o] = refs[o] + Bit(n.obj = o) + Bit(o \in n.waits) + 2 * Bit(o = x)
    <3>1. refs'[o] = refs[o] + Bit(o = n.obj) + Bit(o \in n.waits) + (IF o = NewId THEN 2 ELSE 0)
      BY <1>1 DEF Enqueue, Retained
    <3>2. Bit(o = n.obj) = Bit(n.obj = o) /\ (IF o = NewId THEN 2 ELSE 0) = 2 * Bit(o = x)
      BY <1>2 DEF Bit
    <3> QED BY <3>1, <3>2
  <2>10. /\ Cardinality(QueuedFor(o)) \in Nat /\ Cardinality(RunningFor(o)) \in Nat
         /\ Cardinality(QueuedOn(o)) \in Nat /\ Cardinality(RunningOn(o)) \in Nat /\ refs[o] \in Int
    BY <1>0, CountFacts DEF Types
  <2> QED BY <2>3, <2>6, <2>7, <2>8, <2>9, <2>10 DEF Kept, Ledger
<1> QED BY <1>8

(* Taking a command moves what it holds from the FIFO to the worker.       *)
LEMMA RefsPop ==
  ASSUME CoreInv, CoreInv', NEW q \in Queues, Pop(q)
  PROVE  \A o \in Objs : Kept(o)
<1>0. Types /\ Types' /\ FifoInv(q) /\ WorkerInv(q)
  BY DEF CoreInv
<1>1. PICK x : x = Head(fifo[q])
  OBVIOUS
<1>2. /\ stage[q] = "idle" /\ fifo[q] # <<>>
      /\ cur' = [cur EXCEPT ![q] = x] /\ fifo' = [fifo EXCEPT ![q] = Tail(fifo[q])]
      /\ stage' = [stage EXCEPT ![q] = "deps"] /\ deps' = [deps EXCEPT ![q] = cmds[x].waits]
      /\ UNCHANGED <<cmds, refs, app, result>>
  BY <1>1 DEF Pop, Taken, handles
<1>3. cur[q] = 0 /\ deps[q] = {} /\ q \notin Busy
  BY <1>0, <1>2 DEF WorkerInv, Busy
<1>4. /\ \A c \in Waiting : c \in Enqueued /\ c \in Ids /\ ~Ended(c) /\ \A r \in Queues : cur[r] # c
      /\ \A r \in Queues : \A c : InFifo(r, c) => c \in Waiting /\ cmds[c].q = r
  BY <1>0, WaitingFacts
<1>5. /\ fifo[q] \in Seq(Ids) /\ Len(fifo[q]) \in Nat /\ Len(fifo[q]) >= 1 /\ x = fifo[q][1]
      /\ Len(Tail(fifo[q])) = Len(fifo[q]) - 1
      /\ \A i \in 1..Len(Tail(fifo[q])) : Tail(fifo[q])[i] = fifo[q][i + 1]
  BY <1>0, <1>1, <1>2 DEF Types
<1>6. InFifo(q, x) /\ x \in Waiting /\ x \in Ids /\ x # 0
  <2>1. 1 \in 1..Len(fifo[q])
    BY <1>5
  <2>2. InFifo(q, x)
    BY <1>5, <2>1 DEF InFifo
  <2> QED BY <1>4, <2>2, ObjFacts
<1>7. /\ fifo'[q] = Tail(fifo[q]) /\ \A r \in Queues \ {q} : fifo'[r] = fifo[r]
      /\ cur'[q] = x /\ \A r \in Queues \ {q} : cur'[r] = cur[r]
      /\ stage'[q] = "deps" /\ \A r \in Queues \ {q} : stage'[r] = stage[r]
      /\ deps'[q] = cmds[x].waits /\ \A r \in Queues \ {q} : deps'[r] = deps[r]
  BY <1>0, <1>2 DEF Types
<1>8. Waiting' = Waiting \ {x}
  <2>1. \A c : InFifo(q, c)' <=> InFifo(q, c) /\ c # x
    <3> SUFFICES ASSUME NEW c PROVE InFifo(q, c)' <=> InFifo(q, c) /\ c # x
      OBVIOUS
    <3>1. ASSUME InFifo(q, c)' PROVE InFifo(q, c) /\ c # x
      <4>1. PICK i \in 1..Len(Tail(fifo[q])) : Tail(fifo[q])[i] = c
        BY <1>7, <3>1 DEF InFifo
      <4>2. i + 1 \in 1..Len(fifo[q]) /\ 1 \in 1..Len(fifo[q]) /\ 1 < i + 1
        BY <1>5
      <4>3. fifo[q][i + 1] = c
        BY <1>5, <4>1
      <4>4. x < c /\ InFifo(q, c)
        BY <1>0, <1>5, <4>2, <4>3 DEF FifoInv, InFifo
      <4>5. c \in Ids
        BY <1>4, <4>4
      <4> QED BY <1>6, <4>4, <4>5, ObjFacts
    <3>2. ASSUME InFifo(q, c), c # x PROVE InFifo(q, c)'
      <4>1. PICK i \in 1..Len(fifo[q]) : fifo[q][i] = c
        BY <3>2 DEF InFifo
      <4>2. i # 1
        BY <1>5, <3>2, <4>1
      <4>3. i - 1 \in 1..Len(Tail(fifo[q])) /\ (i - 1) + 1 = i
        BY <1>5, <4>2
      <4>4. Tail(fifo[q])[i - 1] = c
        BY <1>5, <4>1, <4>3
      <4> QED BY <1>7, <4>3, <4>4 DEF InFifo
    <3> QED BY <3>1, <3>2
  <2>2. \A r \in Queues \ {q} : \A c : InFifo(r, c)' <=> InFifo(r, c)
    BY <1>7 DEF InFifo
  <2>3. \A r \in Queues \ {q} : ~InFifo(r, x)
    BY <1>4, <1>6
  <2>4. ASSUME NEW c PROVE (\E r \in Queues : InFifo(r, c)')
                           <=> c # x /\ \E r \in Queues : InFifo(r, c)
    BY <2>1, <2>2, <2>3
  <2>5. \A c : c \in Waiting' <=> c # x /\ c \in Waiting
    BY <1>0, <2>4, WaitingIs
  <2> QED BY <2>5
<1>9. Busy' = Busy \cup {q}
  BY <1>6, <1>7 DEF Busy
<1>10. \A r \in Busy : r # q /\ Cur(r)' = Cur(r) /\ stage'[r] = stage[r] /\ deps'[r] = deps[r]
                       /\ cur'[r] = cur[r]
  BY <1>2, <1>3, <1>7 DEF Cur, Busy
<1>11. Cur(q)' = cmds[x]
  BY <1>2, <1>7 DEF Cur
<1>12. ASSUME NEW o \in Objs PROVE Kept(o)
  <2>0. PICK a, b \in BOOLEAN : (a <=> cmds[x].obj = o) /\ (b <=> o \in cmds[x].waits)
    OBVIOUS
  <2>2. /\ QueuedFor(o)' = IF a THEN QueuedFor(o) \ {x} ELSE QueuedFor(o)
        /\ QueuedOn(o)' = IF b THEN QueuedOn(o) \ {x} ELSE QueuedOn(o)
        /\ (a => x \in QueuedFor(o)) /\ (b => x \in QueuedOn(o))
    BY <1>2, <1>6, <1>8, <2>0 DEF QueuedFor, QueuedOn
  <2>3. /\ RunningFor(o)' = IF a THEN RunningFor(o) \cup {q} ELSE RunningFor(o)
        /\ RunningOn(o)' = IF b THEN RunningOn(o) \cup {q} ELSE RunningOn(o)
        /\ q \notin RunningFor(o) /\ q \notin RunningOn(o)
    BY <1>3, <1>7, <1>9, <1>10, <1>11, <2>0 DEF RunningFor, RunningOn
  <2>4. Lives(o)' <=> Lives(o)
    BY <1>6, <1>7, <1>8, <1>9, <1>10 DEF Lives
  <2>6. /\ IsFiniteSet(QueuedFor(o)) /\ IsFiniteSet(RunningFor(o)) /\ IsFiniteSet(QueuedOn(o))
        /\ IsFiniteSet(RunningOn(o))
        /\ Cardinality(QueuedFor(o)) \in Nat /\ Cardinality(RunningFor(o)) \in Nat
        /\ Cardinality(QueuedOn(o)) \in Nat /\ Cardinality(RunningOn(o)) \in Nat
    BY <1>0, CountFacts
  <2>7. /\ Cardinality(QueuedFor(o)') = Cardinality(QueuedFor(o)) - Bit(a)
        /\ Cardinality(QueuedOn(o)') = Cardinality(QueuedOn(o)) - Bit(b)
    BY <2>2, <2>6, Loses
  <2>8. /\ Cardinality(RunningFor(o)') = Cardinality(RunningFor(o)) + Bit(a)
        /\ Cardinality(RunningOn(o)') = Cardinality(RunningOn(o)) + Bit(b)
    BY <2>3, <2>6, Gains
  <2>9. /\ Bit(Lives(o))' = Bit(Lives(o)) /\ Bit(app[o])' = Bit(app[o]) /\ refs'[o] = refs[o]
        /\ Bit(a) \in Int /\ Bit(b) \in Int /\ Bit(Lives(o)) \in Int /\ Bit(app[o]) \in Int
    BY <1>2, <2>4 DEF Bit
  <2>10. refs[o] \in Int
    BY <1>0 DEF Types
  <2> QED BY <2>6, <2>7, <2>8, <2>9, <2>10 DEF Kept, Ledger
<1> QED BY <1>12

(* An event waited for, or passed over, is released.                       *)
LEMMA RefsWait ==
  ASSUME CoreInv, CoreInv', NEW q \in Queues, NEW e \in Events, WaitDep(q, e)
  PROVE  \A o \in Objs : Kept(o)
<1>0. Types /\ Types' /\ WorkerInv(q)
  BY DEF CoreInv
<1>1. /\ stage[q] = "deps" /\ e \in deps[q] /\ deps' = [deps EXCEPT ![q] = deps[q] \ {e}]
      /\ refs' = [refs EXCEPT ![e] = refs[e] - 1] /\ e \in Objs
      /\ UNCHANGED <<cmds, fifo, cur, stage, app, result>>
  BY ObjFacts DEF WaitDep, Release
<1>2. deps'[q] = deps[q] \ {e} /\ \A r \in Queues \ {q} : deps'[r] = deps[r]
  BY <1>0, <1>1 DEF Types
<1>3. q \in Busy /\ Waiting' = Waiting /\ Busy' = Busy /\ Enqueued' = Enqueued
  BY <1>0, <1>1 DEF WorkerInv, Busy, Waiting, Enqueued
<1>4. ASSUME NEW o \in Objs PROVE Kept(o)
  <2>0. PICK a \in BOOLEAN : a <=> o = e
    OBVIOUS
  <2>2. /\ QueuedFor(o)' = QueuedFor(o) /\ QueuedOn(o)' = QueuedOn(o) /\ (Lives(o)' <=> Lives(o))
        /\ RunningFor(o)' = RunningFor(o)
    BY <1>1, <1>3 DEF QueuedFor, QueuedOn, RunningFor, Lives, Cur
  <2>3. /\ RunningOn(o)' = IF a THEN RunningOn(o) \ {q} ELSE RunningOn(o)
        /\ a => q \in RunningOn(o)
    BY <1>1, <1>2, <1>3, <2>0 DEF RunningOn, Busy
  <2>4. /\ IsFiniteSet(RunningOn(o))
        /\ Cardinality(QueuedFor(o)) \in Nat /\ Cardinality(RunningFor(o)) \in Nat
        /\ Cardinality(QueuedOn(o)) \in Nat /\ Cardinality(RunningOn(o)) \in Nat
    BY <1>0, CountFacts
  <2>5. Cardinality(RunningOn(o)') = Cardinality(RunningOn(o)) - Bit(a)
    BY <2>3, <2>4, Loses
  <2>6. refs'[o] = refs[o] - Bit(a) /\ refs[o] \in Int
    BY <1>0, <1>1, <2>0 DEF Bit, Types
  <2>7. /\ Bit(Lives(o))' = Bit(Lives(o)) /\ Bit(app[o])' = Bit(app[o])
        /\ Bit(a) \in Int /\ Bit(Lives(o)) \in Int /\ Bit(app[o]) \in Int
    BY <1>1, <2>2 DEF Bit
  <2> QED BY <2>2, <2>4, <2>5, <2>6, <2>7 DEF Kept, Ledger
<1> QED BY <1>4

(* The worker releases the completion event: nobody else ran the command.  *)
LEMMA RefsDrop ==
  ASSUME CoreInv, CoreInv', NEW q \in Queues, DropCompletion(q)
  PROVE  \A o \in Objs : Kept(o)
<1>0. Types /\ Types' /\ WorkerInv(q)
  BY DEF CoreInv
<1>1. PICK x : x = cur[q]
  OBVIOUS
<1>2. /\ stage[q] = "notify" /\ Release(x)
      /\ cur' = [cur EXCEPT ![q] = 0] /\ stage' = [stage EXCEPT ![q] = "idle"]
      /\ UNCHANGED <<cmds, fifo, deps, app, result>>
  BY <1>1 DEF DropCompletion
<1>3. q \in Busy /\ Ended(x) /\ deps[q] = {}
  BY <1>0, <1>1, <1>2 DEF WorkerInv, Busy
<1>4. /\ x \in Ids /\ x \in Objs /\ x \notin Waiting
      /\ \A r \in Busy : cur[r] = x => r = q
  BY <1>0, <1>1, <1>3, WaitingFacts, ObjFacts
<1>5. /\ \A r \in Queues \ {q} : cur'[r] = cur[r] /\ stage'[r] = stage[r]
      /\ cur'[q] = 0 /\ stage'[q] = "idle"
  BY <1>0, <1>2 DEF Types
<1>6. Waiting' = Waiting /\ Busy' = Busy \ {q} /\ Enqueued' = Enqueued
  <2>1. Busy' = Busy \ {q}
    BY <1>5 DEF Busy
  <2> QED BY <1>2, <2>1 DEF Waiting, Enqueued
<1>7. \A r \in Busy \ {q} : r \in Queues \ {q} /\ Cur(r)' = Cur(r)
  BY <1>2, <1>5 DEF Busy, Cur
<1>8. refs' = [refs EXCEPT ![x] = refs[x] - 1]
  BY <1>2, <1>4, ObjFacts DEF Release
<1>9. ASSUME NEW o \in Objs PROVE Kept(o)
  <2>2. QueuedFor(o)' = QueuedFor(o) /\ QueuedOn(o)' = QueuedOn(o)
    BY <1>2, <1>6 DEF QueuedFor, QueuedOn
  <2>3. RunningFor(o)' = RunningFor(o) /\ RunningOn(o)' = RunningOn(o)
    BY <1>2, <1>3, <1>5, <1>6, <1>7 DEF RunningFor, RunningOn
  <2>4. (Lives(o)' <=> Lives(o) /\ o # x) /\ Lives(x)
    BY <1>1, <1>3, <1>4, <1>5, <1>6, <1>7 DEF Lives
  <2>5. /\ Cardinality(QueuedFor(o)) \in Nat /\ Cardinality(RunningFor(o)) \in Nat
        /\ Cardinality(QueuedOn(o)) \in Nat /\ Cardinality(RunningOn(o)) \in Nat
    BY <1>0, CountFacts
  <2>6. refs'[o] = refs[o] - Bit(o = x) /\ refs[o] \in Int
    BY <1>0, <1>8 DEF Bit, Types
  <2>7. Bit(Lives(o))' = Bit(Lives(o)) - Bit(o = x)
    BY <2>4 DEF Bit
  <2>8. /\ Bit(app[o])' = Bit(app[o]) /\ Bit(o = x) \in Int /\ Bit(Lives(o)) \in Int
        /\ Bit(app[o]) \in Int
    BY <1>2 DEF Bit
  <2> QED BY <2>2, <2>3, <2>5, <2>6, <2>7, <2>8 DEF Kept, Ledger
<1> QED BY <1>9

(* The end of a command's work: what ran releases the object, what was     *)
(* skipped does not, and leaves a reference behind.                        *)
LEMMA RefsEnd ==
  ASSUME CoreInv, CoreInv', NEW q \in Queues, EndStep(q)
  PROVE  \A o \in Objs : NoneTaken(o) /\ (~SkipWork(q) => Kept(o))
<1>0. Types /\ Types' /\ WorkerInv(q) /\ WaitInv(q)
  BY DEF CoreInv
<1>1. PICK ok \in BOOLEAN : EndsAs(q, ok)
  BY <1>0, EndFacts DEF CoreInv
<1>2. PICK c : c = cur[q]
  OBVIOUS
<1>3. /\ stage[q] = "deps" /\ deps[q] = {} /\ c \in Enqueued
      /\ result' = [result EXCEPT ![c] = IF ok THEN "ok" ELSE "error"]
      /\ stage' = [stage EXCEPT ![q] = "notify"]
      /\ IF res[q] THEN Release(cmds[c].obj) ELSE UNCHANGED refs
      /\ UNCHANGED <<cmds, fifo, cur, deps, res, app>>
  BY <1>1, <1>2 DEF EndsAs
<1>4. c \in Ids /\ ~Ended(c) /\ Enqueued \subseteq Ids /\ q \in Busy
  BY <1>0, <1>2, <1>3, Numbers DEF WorkerInv, Busy
<1>5. /\ result'[c] # "none" /\ \A d \in Ids \ {c} : result'[d] = result[d]
      /\ stage'[q] = "notify" /\ \A r \in Queues \ {q} : stage'[r] = stage[r]
  BY <1>0, <1>3, <1>4 DEF Types
<1>6. Waiting' = Waiting /\ Busy' = Busy /\ Enqueued' = Enqueued
  BY <1>3 DEF Waiting, Busy, Enqueued
<1>7. ~SkipWork(q) => res[q]
  BY DEF EndStep, EndWork, EndHostWork, Working
<1>9. ASSUME NEW o \in Objs PROVE NoneTaken(o) /\ (~SkipWork(q) => Kept(o))
  <2>0. PICK a, b \in BOOLEAN : (a <=> cmds[c].obj = o) /\ (b <=> a /\ ~res[q])
    OBVIOUS
  <2>2. /\ QueuedFor(o)' = QueuedFor(o) /\ QueuedOn(o)' = QueuedOn(o)
        /\ RunningOn(o)' = RunningOn(o) /\ (Lives(o)' <=> Lives(o))
    BY <1>3, <1>6 DEF QueuedFor, QueuedOn, RunningOn, Lives
  <2>3. /\ RunningFor(o)' = IF a THEN RunningFor(o) \ {q} ELSE RunningFor(o)
        /\ a => q \in RunningFor(o)
    <3>1. \A r \in Queues : Cur(r)' = Cur(r)
      BY <1>3 DEF Cur
    <3>2. Cur(q).obj = o <=> a
      BY <1>2, <2>0 DEF Cur
    <3> QED BY <1>3, <1>4, <1>5, <1>6, <3>1, <3>2 DEF RunningFor, Busy
  <2>5. /\ IsFiniteSet(RunningFor(o))
        /\ Cardinality(QueuedFor(o)) \in Nat /\ Cardinality(RunningFor(o)) \in Nat
        /\ Cardinality(QueuedOn(o)) \in Nat /\ Cardinality(RunningOn(o)) \in Nat
    BY <1>0, CountFacts
  <2>6. Cardinality(RunningFor(o)') = Cardinality(RunningFor(o)) - Bit(a)
    BY <2>3, <2>5, Loses
  <2>8. refs'[o] = refs[o] - Bit(a) + Bit(b) /\ refs[o] \in Int
    <3>0. refs[o] \in Int /\ o # NoObj
      BY <1>0, ObjFacts DEF Types
    <3>1. CASE ~res[q]
      BY <1>3, <2>0, <3>0, <3>1 DEF Bit
    <3>2. CASE res[q] /\ cmds[c].obj = o
      <4>1. refs'[o] = refs[o] - 1
        BY <1>0, <1>3, <3>0, <3>2 DEF Release, Types
      <4>2. Bit(a) = 1 /\ Bit(b) = 0
        BY <2>0, <3>2 DEF Bit
      <4> QED BY <3>0, <4>1, <4>2
    <3>3. CASE res[q] /\ cmds[c].obj # o
      <4>1. refs'[o] = refs[o]
        BY <1>0, <1>3, <3>3 DEF Release, Types
      <4>2. Bit(a) = 0 /\ Bit(b) = 0
        BY <2>0, <3>3 DEF Bit
      <4> QED BY <3>0, <4>1, <4>2
    <3> QED BY <3>1, <3>2, <3>3
  <2>9. /\ Bit(Lives(o))' = Bit(Lives(o)) /\ Bit(app[o])' = Bit(app[o])
        /\ Bit(a) \in Int /\ Bit(b) \in Int /\ Bit(Lives(o)) \in Int /\ Bit(app[o]) \in Int
    BY <1>3, <2>2 DEF Bit
  <2>10. ~SkipWork(q) => Bit(b) = 0
    BY <1>7, <2>0 DEF Bit
  <2>11. Bit(b) >= 0
    BY DEF Bit
  <2> QED BY <2>2, <2>5, <2>6, <2>8, <2>9, <2>10, <2>11 DEF Kept, NoneTaken, Ledger
<1> QED BY <1>9

(* A refused call leaves references behind and takes none.                 *)
LEMMA RefsRefused ==
  ASSUME CoreInv, EnqueueRefused
  PROVE  \A o \in Objs : NoneTaken(o)
<1>0. Types /\ Types'
  BY QuietFacts DEF CoreInv, QuietStep
<1>1. PICK w \in WaitLists :
        /\ refs' = [o \in Objs |-> refs[o] + Bit(o \in w)]
        /\ UNCHANGED <<cmds, fifo, cur, stage, deps, app, result>>
  BY DEF EnqueueRefused, worker
<1>2. ASSUME NEW o \in Objs PROVE NoneTaken(o)
  <2>1. /\ QueuedFor(o)' = QueuedFor(o) /\ RunningFor(o)' = RunningFor(o)
        /\ QueuedOn(o)' = QueuedOn(o) /\ RunningOn(o)' = RunningOn(o)
        /\ (Lives(o)' <=> Lives(o))
    BY <1>0, <1>1, SameCounts
  <2>2. /\ Cardinality(QueuedFor(o)) \in Nat /\ Cardinality(RunningFor(o)) \in Nat
        /\ Cardinality(QueuedOn(o)) \in Nat /\ Cardinality(RunningOn(o)) \in Nat
    BY <1>0, CountFacts
  <2>3. /\ Bit(app[o])' = Bit(app[o]) /\ Bit(Lives(o))' = Bit(Lives(o))
        /\ Bit(app[o]) \in Int /\ Bit(Lives(o)) \in Int
    BY <1>1, <2>1 DEF Bit
  <2>4. refs[o] \in Int /\ refs'[o] \in Int /\ refs'[o] >= refs[o]
    <3>1. refs'[o] = refs[o] + Bit(o \in w) /\ Bit(o \in w) \in Nat
      BY <1>1 DEF Bit
    <3> QED BY <1>0, <3>1 DEF Types
  <2> QED BY <2>1, <2>2, <2>3, <2>4 DEF NoneTaken, Ledger
<1> QED BY <1>2

(* Every step that leaves no references behind moves the count of an       *)
(* object with its users.                                                  *)
Leaks == EnqueueRefused \/ \E q \in Queues : SkipWork(q)

LEMMA RefsKept ==
  ASSUME CoreInv, CoreInv', LegacyInv, [Next]_vars, ~Leaks, NEW o \in Objs
  PROVE  Kept(o)
BY Shapes, RefsEnqueue, RefsQuiet, RefsPop, RefsWait, RefsDrop, RefsEnd DEF CoreInv, Leaks

(* And no step takes more than its users give up.                          *)
LEMMA RefsStep ==
  ASSUME CoreInv, CoreInv', LegacyInv, RefsCover, [Next]_vars
  PROVE  RefsCover'
<1>1. ASSUME NEW o \in Objs PROVE NoneTaken(o)
  <2>1. CASE EnqueueRefused
    BY <2>1, RefsRefused
  <2>2. CASE \E q \in Queues : SkipWork(q)
    BY <2>2, RefsEnd DEF EndStep
  <2>3. CASE ~Leaks
    BY <2>3, RefsKept DEF Kept, NoneTaken
  <2> QED BY <2>1, <2>2, <2>3 DEF Leaks
<1>2. ASSUME NEW o \in Objs PROVE refs'[o] >= Ledger(o)'
  <2>1. refs[o] >= Ledger(o)
    BY UsersIs DEF RefsCover
  <2> QED BY <1>1, <2>1 DEF NoneTaken
<1> QED BY <1>2, UsersIs DEF RefsCover

(* At first the counts are those of the users.                             *)
LEMMA RefsInit ==
  ASSUME Init
  PROVE  RefsCover
<1>1. Waiting = {} /\ Busy = {} /\ Enqueued = {}
  <2>1. \A q \in Queues : fifo[q] = <<>> /\ cur[q] = 0
    BY DEF Init
  <2>2. \A q \in Queues : DOMAIN fifo[q] = {}
    BY <2>1
  <2>3. Waiting = {}
    BY <2>2 DEF Waiting
  <2> QED BY <2>1, <2>3 DEF Busy, Enqueued, Init
<1>2. ASSUME NEW o \in Objs PROVE refs[o] >= Ledger(o)
  <2>1. /\ QueuedFor(o) = {} /\ RunningFor(o) = {} /\ QueuedOn(o) = {} /\ RunningOn(o) = {}
        /\ ~Lives(o)
    BY <1>1 DEF QueuedFor, RunningFor, QueuedOn, RunningOn, Lives
  <2>2. Cardinality({}) = 0
    BY FS_EmptySet
  <2>3. refs[o] = Bit(app[o]) /\ Bit(Lives(o)) = 0 /\ Bit(app[o]) \in Int
    <3>1. (app[o] <=> o \notin Ids) /\ refs[o] = Bit(o \notin Ids)
      BY DEF Init
    <3> QED BY <2>1, <3>1 DEF Bit
  <2> QED BY <2>1, <2>2, <2>3 DEF Ledger
<1> QED BY <1>2, UsersIs DEF RefsCover
-----------------------------------------------------------------------------
(* The whole invariant is inductive.                                       *)
LEMMA Invariance == Spec => []IInv
<1>1. Init => IInv
  <2> SUFFICES ASSUME Init PROVE IInv
    OBVIOUS
  <2>1. CoreInv
    BY CoreInit
  <2>2. Enqueued = {} /\ Len(cmds) = 0
    BY DEF Init, Enqueued
  <2>3. MapInv
    BY DEF Init, MapInv, MapPopulated
  <2>4. LegacyInv
    BY <2>2 DEF Init, LegacyInv, LegacyTracked
  <2> QED BY <2>1, <2>3, <2>4, RefsInit DEF IInv
<1>2. IInv /\ [Next]_vars => IInv'
  <2> SUFFICES ASSUME IInv, [Next]_vars PROVE IInv'
    OBVIOUS
  <2>1. CoreInv'
    BY CoreStep DEF IInv
  <2> QED BY <2>1, MapStep, LegacyStep, RefsStep DEF IInv
<1> QED BY <1>1, <1>2, PTL DEF Spec

(* Every variable keeps its type; in particular no reference count goes    *)
(* below zero: no object is released more often than it was retained.      *)
THEOREM TypeCorrect == Spec => []TypeOK
<1>1. IInv => TypeOK
  <2> SUFFICES ASSUME IInv PROVE TypeOK
    OBVIOUS
  <2>0. Types /\ CoreInv
    BY DEF IInv, CoreInv
  <2>1. ASSUME NEW o \in Objs PROVE refs[o] \in Nat
    <3>1. refs[o] >= Ledger(o) /\ refs[o] \in Int
      BY <2>0, UsersIs DEF IInv, RefsCover, Types
    <3>2. IsFiniteSet(Enqueued) /\ IsFiniteSet(Busy) /\ IsFiniteSet(Waiting)
      <4>1. Enqueued \subseteq Ids /\ Len(cmds) \in Nat
        BY <2>0, Numbers
      <4>2. IsFiniteSet(Enqueued)
        BY <4>1, FS_Interval DEF Enqueued
      <4>3. \A q \in Queues : DOMAIN fifo[q] = 1..Len(fifo[q])
        BY <2>0 DEF Types
      <4>4. Waiting \subseteq Enqueued
        BY <2>0, <4>3 DEF Waiting, CoreInv, FifoInv, Owns
      <4>5. IsFiniteSet(Busy)
        BY QueueAssumption, FS_Subset DEF Busy
      <4> QED BY <4>2, <4>4, <4>5, FS_Subset
    <3>3. /\ QueuedFor(o) \subseteq Waiting /\ QueuedOn(o) \subseteq Waiting
          /\ RunningFor(o) \subseteq Busy /\ RunningOn(o) \subseteq Busy
         
      BY DEF QueuedFor, RunningFor, QueuedOn, RunningOn
    <3>4. /\ Cardinality(QueuedFor(o)) \in Nat /\ Cardinality(RunningFor(o)) \in Nat
          /\ Cardinality(QueuedOn(o)) \in Nat /\ Cardinality(RunningOn(o)) \in Nat
      BY <3>2, <3>3, FS_Subset, FS_CardinalityType
    <3>5. Bit(app[o]) \in Nat /\ Bit(Lives(o)) \in Nat
      BY DEF Bit
    <3> QED BY <3>1, <3>4, <3>5 DEF Ledger
  <2>2. refs \in [Objs -> Nat]
    BY <2>0, <2>1 DEF Types
  <2> QED BY <2>0, <2>2 DEF Types, TypeOK
<1> QED BY <1>1, Invariance, PTL

(* The work of a command begins only when every earlier command of its     *)
(* queue has ended and its wait list has succeeded (Queue::worker_loop).   *)
THEOREM OrderCorrect == Spec => []StartsInOrder
<1>1. IInv => StartsInOrder
  <2> SUFFICES ASSUME IInv, NEW q \in Queues, Working(q)
               PROVE  /\ \A d \in Enqueued : d < cur[q] /\ cmds[d].q = q => Ended(d)
                      /\ \A e \in Cur(q).waits : Succeeded(e)
    BY DEF StartsInOrder, Succeeded
  <2>0. Types /\ FifoInv(q) /\ WorkerInv(q) /\ WaitInv(q) /\ Enqueued \subseteq Ids
    BY Numbers DEF IInv, CoreInv
  <2>1. \A e \in Cur(q).waits : Succeeded(e)
    BY <2>0 DEF Working, WaitInv
  <2>2. ASSUME NEW d \in Enqueued, d < cur[q], cmds[d].q = q, ~Ended(d) PROVE FALSE
    <3>1. cur[q] \in Enqueued /\ cur[q] \in Nat /\ d \in Nat
      BY <2>0, ObjFacts DEF Working, WorkerInv, Owns
    <3>2. d # cur[q]
      BY <2>2, <3>1
    <3>3. PICK i \in 1..Len(fifo[q]) : fifo[q][i] = d
      BY <2>0, <2>2, <3>2 DEF FifoInv, InFifo
    <3>4. cur[q] < d
      BY <2>0, <3>3, ObjFacts DEF Working, WorkerInv
    <3> QED BY <2>2, <3>1, <3>4
  <2> QED BY <2>1, <2>2
<1> QED BY <1>1, Invariance, PTL

(* A command ends in error exactly when its own work failed or an event it *)
(* waited for reports an error, on whatever queue; and its event says so.  *)
THEOREM ErrorsCorrect == Spec => []ErrorsPropagate
<1>1. IInv => ErrorsPropagate
  <2> SUFFICES ASSUME IInv, NEW c \in Enqueued, Ended(c)
               PROVE  /\ result[c] = "error" <=> c \in failed \/ Inherits(c)
                      /\ error[c] <=> result[c] = "error"
    BY DEF ErrorsPropagate
  <2>0. Types /\ EventInv /\ EndInv(c) /\ c \in Ids
    BY Numbers DEF IInv, CoreInv
  <2>1. result[c] \in {"ok", "error"}
    BY <2>0 DEF Types, Ended
  <2>2. result[c] = "ok" => c \notin failed /\ ~Inherits(c)
    BY <2>0 DEF EndInv, Inherits, FailedWait
  <2> QED BY <2>0, <2>1, <2>2 DEF EndInv, EventInv
<1> QED BY <1>1, Invariance, PTL

(* No event and no buffer is freed while the application, a FIFO or a      *)
(* worker still uses it, whatever calls Queue::enqueue refuses and whatever*)
(* commands Queue::worker_loop skips.                                      *)
THEOREM RefsCorrect == Spec => []RefsCover
BY Invariance, PTL DEF IInv

(* The references on an object beyond those of its users.                  *)
Surplus(o) == refs[o] - Users(o)

(* References that nobody will release come into being in two places only: *)
(* where Queue::enqueue refuses a wait list and where Queue::worker_loop   *)
(* skips the work of a command; every other step of the caller or a worker *)
(* changes the count of an object by as much as it changes its users.      *)
THEOREM LeaksCorrect == Spec => [][\A o \in Objs : Surplus(o)' # Surplus(o) => Leaks]_vars
<1>1. IInv /\ IInv' /\ [Next]_vars => [\A o \in Objs : Surplus(o)' # Surplus(o) => Leaks]_vars
  <2> SUFFICES ASSUME IInv, IInv', [Next]_vars, ~Leaks, NEW o \in Objs
               PROVE  Surplus(o)' = Surplus(o)
    OBVIOUS
  <2>1. Kept(o)
    BY RefsKept DEF IInv
  <2>2. Users(o) = Ledger(o) /\ Users(o)' = Ledger(o)'
    BY UsersIs
  <2> QED BY <2>1, <2>2 DEF Kept, Surplus
<1> QED BY <1>1, Invariance, PTL DEF Spec

(* A map for reading that reports success has populated the mirror it gave *)
(* out (Buffer::map_commit).                                               *)
THEOREM MapCorrect == Spec => []MapPopulated
BY Invariance, PTL DEF IInv, MapInv

(* A launch that has not ended is known to the legacy calls.               *)
THEOREM LegacyCorrect == Spec => []LegacyTracked
BY Invariance, PTL DEF IInv, LegacyInv
=============================================================================
