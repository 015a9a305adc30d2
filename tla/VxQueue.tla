------------------------------ MODULE VxQueue ------------------------------
(***************************************************************************)
(* The asynchronous layer of the Vortex runtime: queues with one worker    *)
(* thread each (queue.cpp), timeline events (event.cpp), the reference     *)
(* counts that keep events and buffers alive between the caller and the    *)
(* workers, the mapping of a buffer (buffer.cpp), and the synchronous      *)
(* calls on top of it: Queue::finish and the legacy vx_start and           *)
(* vx_ready_wait (legacy_runtime.cpp, device.cpp).                         *)
(*                                                                         *)
(* A command is named by the number of its enqueue, and so is its          *)
(* completion event.  What the device does for a command is abstracted to  *)
(* an operation that takes time and may fail; CpRing models it.  The       *)
(* vx_enqueue operations that differ only in that share a kind: "work" is  *)
(* write, read, copy, fill, their rectangular forms and DCR accesses.      *)
(***************************************************************************)
EXTENDS Integers, Sequences, FiniteSets

CONSTANTS
  Queues, LegacyQ, \* queues; the one legacy_default_queue returns
  UserEvents,      \* events made with vx_event_create
  Bufs,            \* buffers
  NoObj,           \* a command without an object of its own
  MaxCmds,         \* bound: calls ever made on queues
  MaxVal,          \* bound: values of user events
  MaxWaits,        \* bound: length of a wait list
  MaxFails         \* bound: device operations that fail

ASSUME QueueAssumption ==
  /\ LegacyQ \in Queues
  /\ IsFiniteSet(Queues)
  /\ MaxCmds \in Nat /\ MaxVal \in Nat \ {0} /\ MaxWaits \in Nat /\ MaxFails \in Nat

Ids == 1..MaxCmds
Events == Ids \cup UserEvents
Objs == Events \cup Bufs

(* Events of commands, events of the application and buffers are different *)
(* objects.                                                                *)
ASSUME ObjectAssumption ==
  UserEvents \cap Ids = {} /\ Bufs \cap Events = {} /\ NoObj \notin Objs

(* A map with VX_MEM_READ is a "map", one without it a "mapw".             *)
Maps == {"map", "mapw"}
Kinds == {"barrier", "work", "launch", "signal", "wait", "unmap"} \cup Maps
OnDevice == {"work", "launch", "unmap"} \cup Maps
Cmds == [q : Queues, kind : Kinds, obj : Objs \cup {NoObj}, val : 0..(MaxCmds + MaxVal),
         waits : SUBSET Events]

VARIABLES
  cmds,    \* every command enqueued, by number
  fifo,    \* fifo[q]: commands_ of the queue
  cur,     \* cur[q]: the command its worker is on, or 0
  stage,   \* stage[q]: idle, deps (and work), notify or stopped
  deps,    \* deps[q]: events of the wait list still to be waited for
  res,     \* res[q]: the worker's r is VX_SUCCESS
  shut,    \* shut[q]: shutdown_
  counter, \* counter[e]: counter_ of an event
  error,   \* error[e]: error_ is set
  refs,    \* refs[o]: reference count
  app,     \* app[o]: the application holds a handle
  mirror,  \* mirror[b]: the map command whose host mirror b has, or 0
  filled,  \* filled[b]: the mirror was populated from the device
  hpc,     \* host thread in a synchronous call: where it is
  hev,     \* and the event it waits for, or 0
  last,    \* legacy_last_, or 0
  forgot,  \* history: a vx_ready_wait timed out
  result,  \* history: result[c] is none, ok or error
  failed,  \* history: commands whose device operation failed
  refused  \* history: how many calls were refused

worker == <<cur, stage, deps, res>>
event == <<counter, error>>
handles == <<refs, app>>
buffer == <<mirror, filled>>
legacy == <<hpc, hev, last, forgot>>
vars == <<cmds, fifo, worker, shut, event, handles, buffer, legacy, result, failed, refused>>

Bit(b) == IF b THEN 1 ELSE 0
Cur(q) == cmds[cur[q]]
NewId == Len(cmds) + 1       \* the number of the next command
MayCall == NewId + refused <= MaxCmds
-----------------------------------------------------------------------------
(* Events.                                                                 *)

(* Event::signal: the counter never goes back.                             *)
Signalled(e, v) == [counter EXCEPT ![e] = IF v <= @ THEN @ ELSE v]

(* Event::complete: the counter becomes one, unless it is beyond.          *)
CompletedCount(count, c) == [count EXCEPT ![c] = IF @ >= 1 THEN @ ELSE 1]

(* Event::wait_value returns: the value was reached, or an error is set.   *)
Reached(e, v) == counter[e] >= v \/ error[e]

Release(o) == refs' = IF o = NoObj THEN refs ELSE [refs EXCEPT ![o] = @ - 1]
-----------------------------------------------------------------------------
(* The caller's side of a queue.                                           *)

(* Mutant: the wait list is not retained.                                  *)
Retained_NotWaits(obj, waits) ==
  refs' = [o \in Objs |-> refs[o] + Bit(o = obj) + (IF o = NewId THEN 2 ELSE 0)]

(* References enqueue takes: on the object of the command, on each event   *)
(* of the wait list, and two on the new completion event (caller, worker). *)
Retained(obj, waits) ==
  refs' = [o \in Objs |-> refs[o] + Bit(o = obj) + Bit(o \in waits)
                           + (IF o = NewId THEN 2 ELSE 0)]

Enqueue(q, kind, obj, val, waits) ==
  /\ MayCall /\ ~shut[q]
  /\ \A o \in waits \cup ({obj} \ {NoObj}) : app[o]
  /\ Retained(obj, waits)
  /\ cmds' = Append(cmds, [q |-> q, kind |-> kind, obj |-> obj, val |-> val, waits |-> waits])
  /\ fifo' = [fifo EXCEPT ![q] = Append(@, NewId)]
  /\ app' = [app EXCEPT ![NewId] = TRUE]
  /\ UNCHANGED <<worker, shut, event, result, failed, refused>>

(* The handles the caller passes are valid ones: it holds a reference.     *)
WaitLists == {w \in SUBSET {e \in Events : app[e]} : Cardinality(w) <= MaxWaits}

EnqueueBarrier(q) == \E w \in WaitLists :
  Enqueue(q, "barrier", NoObj, 0, w) /\ UNCHANGED <<buffer, legacy>>

EnqueueWork(q) == \E w \in WaitLists, b \in Bufs :
  Enqueue(q, "work", b, 0, w) /\ UNCHANGED <<buffer, legacy>>

EnqueueSignal(q) == \E w \in WaitLists, u \in UserEvents, v \in 1..MaxVal :
  Enqueue(q, "signal", u, v, w) /\ UNCHANGED <<buffer, legacy>>

EnqueueWaitValue(q) == \E w \in WaitLists, e \in Events : \E v \in 1..(IF e \in Ids THEN 1 ELSE MaxVal) :
  Enqueue(q, "wait", e, v, w) /\ UNCHANGED <<buffer, legacy>>

(* enqueue_map reserves the host mirror at once, one mapping at a time     *)
(* (Buffer::map_reserve); it is populated in queue order.                  *)
EnqueueMap(q) == \E w \in WaitLists, b \in Bufs, kind \in Maps :
  /\ mirror[b] = 0
  /\ Enqueue(q, kind, b, NewId, w)
  /\ mirror' = [mirror EXCEPT ![b] = NewId]
  /\ filled' = [filled EXCEPT ![b] = FALSE]
  /\ UNCHANGED legacy

(* enqueue_unmap names the pointer that some map gave out.                 *)
EnqueueUnmap(q) == \E w \in WaitLists, m \in Ids :
  /\ m < NewId /\ cmds[m].kind \in Maps
  /\ Enqueue(q, "unmap", cmds[m].obj, m, w)
  /\ UNCHANGED <<buffer, legacy>>

(* The wait list has a null handle after the events of w: enqueue returns  *)
(* VX_ERR_INVALID_HANDLE and gives no reference on them back.  The entry   *)
(* point does so for the object, and cancels the mirror it reserved: that  *)
(* much of the call leaves nothing behind.                                 *)
EnqueueRefused == \E w \in WaitLists :
  /\ w # {} /\ Cardinality(w) < MaxWaits
  /\ MayCall /\ refused' = refused + 1
  /\ refs' = [o \in Objs |-> refs[o] + Bit(o \in w)]
  /\ UNCHANGED <<cmds, fifo, worker, shut, event, app, buffer, legacy, result, failed>>

(* The application gives a handle up, or signals a user event itself.      *)
ReleaseHandle(o) ==
  /\ app[o] /\ app' = [app EXCEPT ![o] = FALSE]
  /\ Release(o)
  /\ UNCHANGED <<cmds, fifo, worker, shut, event, buffer, legacy, result, failed, refused>>

(* Buffer::unmap called directly.                                          *)
UnmapNow(b) ==
  /\ app[b] /\ mirror[b] # 0
  /\ mirror' = [mirror EXCEPT ![b] = 0] /\ filled' = [filled EXCEPT ![b] = FALSE]
  /\ UNCHANGED <<cmds, fifo, worker, shut, event, handles, legacy, result, failed, refused>>

HostSignal(u) ==
  /\ app[u] /\ counter' = Signalled(u, MaxVal)
  /\ UNCHANGED <<cmds, fifo, worker, shut, error, handles, buffer, legacy, result, failed, refused>>

(* The last reference to a queue is dropped: ~Queue tells the worker, which*)
(* drains the FIFO first, and joins it.  The device keeps the legacy queue.*)
DestroyQueue(q) ==
  /\ q # LegacyQ /\ ~shut[q] /\ shut' = [shut EXCEPT ![q] = TRUE]
  /\ UNCHANGED <<cmds, fifo, worker, event, handles, buffer, legacy, result, failed, refused>>
-----------------------------------------------------------------------------
(* The worker of a queue (Queue::worker_loop).                             *)

(* Mutant: commands are taken from the wrong end.                          *)
Taken_Lifo(q) ==
  [cmd |-> fifo[q][Len(fifo[q])], rest |-> SubSeq(fifo[q], 1, Len(fifo[q]) - 1)]
Taken(q) == [cmd |-> Head(fifo[q]), rest |-> Tail(fifo[q])]

Pop(q) ==
  /\ stage[q] = "idle" /\ fifo[q] # <<>>
  /\ cur' = [cur EXCEPT ![q] = Taken(q).cmd]
  /\ fifo' = [fifo EXCEPT ![q] = Taken(q).rest]
  /\ stage' = [stage EXCEPT ![q] = "deps"]
  /\ deps' = [deps EXCEPT ![q] = cmds[Taken(q).cmd].waits]
  /\ res' = [res EXCEPT ![q] = TRUE]
  /\ UNCHANGED <<cmds, shut, event, handles, buffer, legacy, result, failed, refused>>

(* Mutant: a pending shutdown ends the worker before the FIFO is empty.    *)
Stop_Undrained(q) ==
  /\ stage[q] = "idle" /\ shut[q]
  /\ stage' = [stage EXCEPT ![q] = "stopped"]
  /\ UNCHANGED <<cmds, fifo, cur, deps, res, shut, event, handles, buffer, legacy, result, failed,
                 refused>>

Stop(q) ==
  /\ stage[q] = "idle" /\ shut[q] /\ fifo[q] = <<>>
  /\ stage' = [stage EXCEPT ![q] = "stopped"]
  /\ UNCHANGED <<cmds, fifo, cur, deps, res, shut, event, handles, buffer, legacy, result, failed,
                 refused>>

(* Wait for an event of the list, unless one failed already; release it.   *)
WaitDep(q, e) ==
  /\ stage[q] = "deps" /\ e \in deps[q]
  /\ res[q] => Reached(e, 1)
  /\ res' = [res EXCEPT ![q] = @ /\ ~error[e]]
  /\ deps' = [deps EXCEPT ![q] = @ \ {e}]
  /\ Release(e)
  /\ UNCHANGED <<cmds, fifo, cur, stage, shut, event, app, buffer, legacy, result, failed, refused>>

(* All waited for without an error: the work runs.  After an error it is   *)
(* skipped, and with it the release of the command's object.               *)
Working(q) == stage[q] = "deps" /\ deps[q] = {} /\ res[q]

(* Mutant: the status is not recorded in the event.                        *)
Completed_NoStatus(q, ok) ==
  /\ result' = [result EXCEPT ![cur[q]] = IF ok THEN "ok" ELSE "error"]
  /\ stage' = [stage EXCEPT ![q] = "notify"]
  /\ UNCHANGED <<cmds, fifo, cur, deps, res, shut, error, app, legacy, refused>>

(* completion->complete(r), whose notify still uses the event.  The end of *)
(* the work and the completion are one step: until then only the worker    *)
(* itself has anything to do with the command.                             *)
Completed(q, ok) ==
  /\ error' = [error EXCEPT ![cur[q]] = @ \/ ~ok]
  /\ result' = [result EXCEPT ![cur[q]] = IF ok THEN "ok" ELSE "error"]
  /\ stage' = [stage EXCEPT ![q] = "notify"]
  /\ UNCHANGED <<cmds, fifo, cur, deps, res, shut, app, legacy, refused>>

SkipWork(q) ==
  /\ stage[q] = "deps" /\ deps[q] = {} /\ ~res[q]
  /\ counter' = CompletedCount(counter, cur[q])
  /\ Completed(q, FALSE)
  /\ UNCHANGED <<refs, buffer, failed>>

(* Mutant: the flag test of map_commit is the wrong way round.             *)
MappingAfter_NotRead(q) ==
  IF Cur(q).kind = "unmap" /\ mirror[Cur(q).obj] = Cur(q).val
  THEN /\ mirror' = [mirror EXCEPT ![Cur(q).obj] = 0]
       /\ filled' = [filled EXCEPT ![Cur(q).obj] = FALSE]
  ELSE UNCHANGED buffer

(* What a mapping is after the work of q's command: map_commit goes by the *)
(* flags of the mapping there is, which may be another command's; unmap.   *)
MappingAfter(q) ==
  LET c == Cur(q)
      b == c.obj
  IN  CASE c.kind \in Maps /\ mirror[b] # 0 ->
             filled' = [filled EXCEPT ![b] = cmds[mirror[b]].kind = "map"] /\ UNCHANGED mirror
        [] c.kind = "unmap" /\ mirror[b] = c.val ->
             mirror' = [mirror EXCEPT ![b] = 0] /\ filled' = [filled EXCEPT ![b] = FALSE]
        [] OTHER -> UNCHANGED buffer

(* The work of a device command ends; a map or unmap of a mapping that is  *)
(* gone is refused, and any other may fail.                                *)
Refused(q) == \/ Cur(q).kind \in Maps /\ mirror[Cur(q).obj] = 0
              \/ Cur(q).kind = "unmap" /\ mirror[Cur(q).obj] # Cur(q).val

EndWork(q) ==
  /\ Working(q) /\ Cur(q).kind \in OnDevice
  /\ counter' = CompletedCount(counter, cur[q])
  /\ \/ ~Refused(q) /\ MappingAfter(q) /\ Completed(q, TRUE) /\ UNCHANGED failed
     \/ /\ Refused(q) \/ Cardinality(failed) < MaxFails
        /\ failed' = failed \cup {cur[q]}
        /\ IF Cur(q).kind = "unmap" THEN MappingAfter(q) ELSE UNCHANGED buffer
        /\ Completed(q, FALSE)
  /\ Release(Cur(q).obj)

(* Host-side work: nothing, a signal, or a wait for a value.               *)
EndHostWork(q) ==
  /\ Working(q) /\ Cur(q).kind \notin OnDevice
  /\ Cur(q).kind = "wait" => Reached(Cur(q).obj, Cur(q).val)
  /\ counter' = CompletedCount(IF Cur(q).kind = "signal"
                               THEN Signalled(Cur(q).obj, Cur(q).val) ELSE counter, cur[q])
  /\ Completed(q, Cur(q).kind = "wait" => ~error[Cur(q).obj])
  /\ Release(Cur(q).obj)
  /\ UNCHANGED <<buffer, failed>>

(* completion->release().                                                  *)
DropCompletion(q) ==
  /\ stage[q] = "notify"
  /\ Release(cur[q])
  /\ cur' = [cur EXCEPT ![q] = 0]
  /\ stage' = [stage EXCEPT ![q] = "idle"]
  /\ UNCHANGED <<cmds, fifo, deps, res, shut, event, app, buffer, legacy, result, failed, refused>>
-----------------------------------------------------------------------------
(* Synchronous calls of one host thread; hev is the event it waits for and *)
(* owns the caller's reference to.                                         *)

(* Queue::finish: a barrier, and a wait with a timeout for it.             *)
Finish(q) ==
  /\ hpc = "idle"
  /\ Enqueue(q, "barrier", NoObj, 0, {})
  /\ hpc' = "finish" /\ hev' = NewId
  /\ UNCHANGED <<buffer, last, forgot>>

(* Mutant: the previous launch is not waited for.                          *)
Start_NoDrain ==
  /\ hpc = "idle" /\ MayCall
  /\ hpc' = "launch" /\ hev' = 0 /\ last' = 0
  /\ UNCHANGED <<cmds, fifo, worker, shut, event, handles, buffer, forgot, result, failed, refused>>

(* vx_start: take the last event; wait for it if there is one; launch.     *)
Start ==
  /\ hpc = "idle" /\ MayCall
  /\ hpc' = IF last = 0 THEN "launch" ELSE "start"
  /\ hev' = last /\ last' = 0
  /\ UNCHANGED <<cmds, fifo, worker, shut, event, handles, buffer, forgot, result, failed, refused>>

(* The launch, on the default queue.  The DCR writes that program the KMU, *)
(* without object and event, go before it in the same FIFO and are left    *)
(* out.                                                                    *)
StartLaunch ==
  /\ hpc = "launch"
  /\ Enqueue(LegacyQ, "launch", NoObj, 0, {})
  /\ hpc' = "remember" /\ hev' = NewId
  /\ UNCHANGED <<buffer, last, forgot>>

(* legacy_remember_last_event: releases the event it replaces.             *)
Remember ==
  /\ hpc = "remember"
  /\ last' = hev /\ hpc' = "idle" /\ hev' = 0
  /\ IF last = 0 THEN UNCHANGED handles
     ELSE Release(last) /\ app' = [app EXCEPT ![last] = FALSE]
  /\ UNCHANGED <<cmds, fifo, worker, shut, event, buffer, forgot, result, failed, refused>>

(* vx_ready_wait: take the last event and wait for it.                     *)
ReadyWait ==
  /\ hpc = "idle" /\ last # 0
  /\ hpc' = "ready" /\ hev' = last /\ last' = 0
  /\ UNCHANGED <<cmds, fifo, worker, shut, event, handles, buffer, forgot, result, failed, refused>>

(* The wait ends, by the event or by the timeout of finish and ready_wait; *)
(* either way the caller's reference is released.                          *)
WaitEnds(timeout) ==
  /\ hpc \in (IF timeout THEN {"finish", "ready"} ELSE {"finish", "ready", "start"})
  /\ timeout <=> ~Reached(hev, 1)
  /\ Release(hev) /\ app' = [app EXCEPT ![hev] = FALSE]
  /\ hpc' = IF hpc = "start" THEN "launch" ELSE "idle"
  /\ hev' = 0
  /\ forgot' = (forgot \/ (timeout /\ hpc = "ready"))
  /\ UNCHANGED <<cmds, fifo, worker, shut, event, buffer, last, result, failed, refused>>
-----------------------------------------------------------------------------
Init ==
  /\ cmds = <<>> /\ fifo = [q \in Queues |-> <<>>]
  /\ cur = [q \in Queues |-> 0] /\ stage = [q \in Queues |-> "idle"]
  /\ deps = [q \in Queues |-> {}] /\ res = [q \in Queues |-> TRUE]
  /\ shut = [q \in Queues |-> FALSE]
  /\ counter = [e \in Events |-> 0] /\ error = [e \in Events |-> FALSE]
  /\ refs = [o \in Objs |-> Bit(o \notin Ids)] /\ app = [o \in Objs |-> o \notin Ids]
  /\ mirror = [b \in Bufs |-> 0] /\ filled = [b \in Bufs |-> FALSE]
  /\ hpc = "idle" /\ hev = 0 /\ last = 0 /\ forgot = FALSE
  /\ result = [c \in Ids |-> "none"] /\ failed = {} /\ refused = 0

Call(q) == \/ EnqueueBarrier(q) \/ EnqueueWork(q) \/ EnqueueSignal(q) \/ EnqueueWaitValue(q)
           \/ EnqueueMap(q) \/ EnqueueUnmap(q) \/ DestroyQueue(q) \/ Finish(q)

(* The handles the application gives up: of completion events, but not the *)
(* ones the host thread works with.  It keeps its buffers and user events. *)
Disposable(o) == o \in Ids \ {hev, last}

Application == \/ \E q \in Queues : Call(q)
               \/ EnqueueRefused
               \/ \E o \in Objs : Disposable(o) /\ ReleaseHandle(o)
               \/ \E b \in Bufs : UnmapNow(b)
               \/ \E u \in UserEvents : HostSignal(u)

WorkerStep(q) == \/ Pop(q) \/ Stop(q) \/ (\E e \in Events : WaitDep(q, e)) \/ SkipWork(q)
                 \/ EndWork(q) \/ EndHostWork(q) \/ DropCompletion(q)

Legacy == Start \/ StartLaunch \/ Remember \/ ReadyWait \/ (\E t \in BOOLEAN : WaitEnds(t))

Next == Application \/ (\E q \in Queues : WorkerStep(q)) \/ Legacy

Spec == Init /\ [][Next]_vars

(* Workers run, the device answers, and the application signals the events *)
(* it has others wait for.                                                 *)
Fairness == /\ \A q \in Queues : WF_vars(WorkerStep(q))
            /\ \A u \in UserEvents : WF_vars(HostSignal(u))

FairSpec == Spec /\ Fairness
-----------------------------------------------------------------------------
TypeOK ==
  /\ cmds \in Seq(Cmds) /\ fifo \in [Queues -> Seq(Ids)]
  /\ cur \in [Queues -> 0..MaxCmds]
  /\ stage \in [Queues -> {"idle", "deps", "notify", "stopped"}]
  /\ deps \in [Queues -> SUBSET Events] /\ res \in [Queues -> BOOLEAN]
  /\ shut \in [Queues -> BOOLEAN]
  /\ counter \in [Events -> 0..MaxVal] /\ error \in [Events -> BOOLEAN]
  /\ refs \in [Objs -> Nat] /\ app \in [Objs -> BOOLEAN]
  /\ mirror \in [Bufs -> 0..MaxCmds] /\ filled \in [Bufs -> BOOLEAN]
  /\ hpc \in {"idle", "finish", "start", "launch", "remember", "ready"}
  /\ hev \in 0..MaxCmds /\ last \in 0..MaxCmds /\ forgot \in BOOLEAN
  /\ result \in [Ids -> {"none", "ok", "error"}] /\ failed \subseteq Ids
  /\ refused \in Nat

Ended(c) == result[c] # "none"
Enqueued == 1..Len(cmds)

(* When the work of a command begins, every command enqueued before it on  *)
(* its queue has completed and every event of its wait list has succeeded, *)
(* on whatever queue: the in-order contract that finish relies on.         *)
StartsInOrder ==
  \A q \in Queues : Working(q) =>
    /\ \A d \in Enqueued : d < cur[q] /\ cmds[d].q = q => Ended(d)
    /\ \A e \in Cur(q).waits : IF e \in Ids THEN result[e] = "ok" ELSE counter[e] >= 1

(* A command ends in error exactly when its own operation failed or an     *)
(* event it waited for is the completion of a command that ended in error, *)
(* through any number of queues; its event then says so.                   *)
Inherits(c) == \/ \E e \in cmds[c].waits \cap Ids : result[e] = "error"
               \/ cmds[c].kind = "wait" /\ cmds[c].obj \in Ids /\ result[cmds[c].obj] = "error"
ErrorsPropagate ==
  \A c \in Enqueued : Ended(c) =>
    /\ result[c] = "error" <=> c \in failed \/ Inherits(c)
    /\ error[c] <=> result[c] = "error"

(* References on o that commands hold: as their object until their work    *)
(* ends, as an event still to be waited for, and as their own completion.  *)
HeldByQueues(o) ==
  LET waiting == UNION {{fifo[q][i] : i \in DOMAIN fifo[q]} : q \in Queues}
      busy == {q \in Queues : cur[q] # 0}
  IN  Cardinality({c \in waiting : cmds[c].obj = o})
      + Cardinality({q \in busy : Cur(q).obj = o /\ stage[q] = "deps"})
      + Cardinality({c \in waiting : o \in cmds[c].waits})
      + Cardinality({q \in busy : o \in deps[q]})
      + Bit(o \in waiting \/ \E q \in busy : cur[q] = o)

(* No event or buffer is freed while a queued command, a worker or the     *)
(* caller still uses it: its count never falls below its users, whatever   *)
(* calls are refused and whatever commands are skipped after an error.     *)
Users(o) == Bit(app[o]) + HeldByQueues(o)
RefsCover == \A o \in Objs : refs[o] >= Users(o)

(* Nor does any outlive its users, as the comment of Queue::enqueue says:  *)
(* the worker releases what enqueue retained.  It does not for the events  *)
(* of a wait list that is refused, nor for the object of a command that is *)
(* skipped, which only the work itself would release.                      *)
RefsExact == \A o \in Objs : refs[o] = Users(o)

(* A map for reading whose event reports success has populated the mirror  *)
(* it gave out, whatever maps and unmaps other queues ran meanwhile.       *)
MapPopulated ==
  \A b \in Bufs : mirror[b] # 0 /\ cmds[mirror[b]].kind = "map" /\ result[mirror[b]] = "ok"
                    => filled[b]

(* A legacy launch that has not ended is known to the device or to the call*)
(* that waits for it, so that vx_start never launches over it and          *)
(* vx_ready_wait never reports an idle device: as long as no vx_ready_wait *)
(* timed out, which forgets the launch.                                    *)
LegacyTracked ==
  ~forgot => \A c \in Enqueued : cmds[c].kind = "launch" /\ ~Ended(c) => c \in {hev, last}

(* Once the application enqueues no more (it enqueues at most MaxCmds), all*)
(* its commands complete, those of one queue that wait for another queue   *)
(* included, and the workers of destroyed queues end.                      *)
Drained == /\ \A c \in Enqueued : Ended(c)
           /\ \A q \in Queues : shut[q] => stage[q] = "stopped"
QueuesDrain == []<>Drained
=============================================================================
