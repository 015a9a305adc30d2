# TLA+ verification of Training-FE

This directory holds TLA+ models of the concurrent parts of the repository:

- the hardware it designs itself: the 2x4 network on chip (`RTL/noc`), the
  transition FIFO with its AXI memory (`sram_fifo_axi`), the weighted
  round-robin arbiter (`WRR`) and the skid buffer (`skid_buffer`);
- the software under `RTL/vortex`: the runtime's command ring and Command
  Processor, its queues, events and mappings, and the warps, barriers and block
  dispatch of the SimX simulator;
- the handshake between C tests and the SystemVerilog testbench of the Ibex
  environment (`tb`, `sw`).

TLC checks them on small instances, and TLAPS proves every safety property of the
passing runs for every value of the parameters (`RingIntact` and what builds on it
for every ring that has room for its submitters). `PROJECT.json` lists components,
runs, hazards, mutants, findings and theorems, and maps every definition to the
lines it translates. Paths below are relative to `src/`.

Conventions of all modules:

- In the hardware modules and `SvSync` one step is one rising edge of the clock,
  at which all registers move together. A combinational signal is an operator of
  the registers and inputs. In the runtime modules a step is what one thread does
  between two points at which another one can see it (a lock, a register access,
  a notification); in `SimxCore` it is one stage of the simulated pipeline.
- The inputs of a block are variables or quantified choices, constrained only
  by what the protocol on that port guarantees (AXI: a VALID that is not
  accepted is held).
- Variables marked *history* in a module are not hardware. They record what
  happened (words not yet delivered, transfers made) so that a property can
  relate a state to an earlier one; no guard of the hardware reads them.
- An operator `X_Something` in front of `X` is a mutated form of `X`: a
  plausible bug, several of them the `NOC_BUG_*` hooks of the RTL itself. Every
  checked property is violated when one of them replaces its original.

## 1. Inventory

### NoC (`RTL/noc/RTL`)

Two AXI masters reach two AXI slaves, two APB peripherals (through bridges) and
a responder for unmapped addresses.

| Part | State | Operations | What makes it correct |
|---|---|---|---|
| `noc_arbiter` | pointer `last`, grant lock (`locked`, `lock_idx`) | arbitrate, present, hold, accept | the grant names a requester, does not move until accepted, alternates on ties, starves no equal |
| `noc_top` reads | per master: `out_cnt`/`out_tgt` per id, `rtotal`, R burst lock (`rlock`, `rlsel`) | gate and route AR, count acceptances and completions, select an R source | same-id order across servers, exact counters, the cap, bursts not interleaved, no wedge |
| `noc_top` writes | per master `wbusy` | gate and route AW, OR the server responses together | one active server per master, data and B belong to the accepted AW |
| `noc_axi_slave_port` | write FSM, `w_sel`, latched id; AR pass-through and R routing by id prefix | accept AW, forward W, return B; forward AR, return R | seen through the fabrics |
| `axi2apb_bridge` | 8-state FSM, address, captured beats, accumulated error | burst to APB transfers and one answer | transfers are the beats, errors sum up, bursts end |
| `noc_decerr_port` | a read and a write FSM | answer DECERR | always answers, unmapped writes included |
| `noc_pkg` | none | `decode`, `crosses_4k` | disjoint, total map |

The parts interact through AXI handshakes only. Each server (slave port,
bridge, DECERR port) contains arbiters over the masters' *gated* valids of
`noc_top`; the server's responses feed back into `noc_top`'s tracker and gates.
Hard behaviours: a request and a completion at the same edge, servers
that answer out of order, two masters sharing a server while each is locked to
another, W data presented ahead of its address, errors in the middle of a
burst, and starvation.

### SRAM FIFO (`sram_fifo_axi/rtl`)

`transition_packer` packs variable-width bit strings into words;
`fifo_buffer` stores the words; `fifo_axi_wrapper` collects words into AXI words
and writes them to `axi_ram`, and reads back for the user; `fifo_top` wires
them. State: pack buffer and count, pending word; pointers with an extra wrap
bit; the wrapper's FSM and registered AXI outputs; the RAM's two FSMs. Hard
behaviours: transitions across word boundaries, a full FIFO, a read and
a write at one edge, pointer wrap at a depth that is no power of two,
registered VALIDs against registered READYs.

### Stand-alone blocks

- `WRR/WRR.v`: registers `round`, `ptr` and the served flags. Correct if the
  shares are exact and waiting is bounded, under requests that come and go.
- `skid_buffer/rtl/skid_buffer.v`: `data_reg`, `by_pass`. Correct if nothing is
  lost, repeated or changed under every pattern of backpressure.
- `crc32/crc32.v` and `ALU/Adders`: pure algorithms (plan, section 2).

### Ibex environment (`tb`, `sw`)

A UVM testbench and C tests for the Ibex core (the core is an empty submodule
here). Its own logic with concurrency is the C/SV handshake: `sv_sync` in C
(`sw/common/c2sv.h`), also called from interrupt handlers, against the mailbox
thread (`ibex_c2sv_mbox.sv`), the test's command loop and its forked, delayed
interrupt raises. State: the mailbox words CMD, ARG, ACK and DATA, the command
queue, the pins and timers, the contexts of the core. Correct if a call returns
only after its own command was handled and with its own result, and if nested
calls never leave a caller spinning. Hard: an interrupt in the middle of a
handshake would share the one mailbox; only a minimum delay prevents it.

### Vortex runtime (`RTL/vortex/sw/runtime`, `sim/common`)

| Part | State | Operations | What makes it correct |
|---|---|---|---|
| command submission (`device.cpp`) | ring tail, expected sequence number, argument-slot pool | `cp_submit_*`: write a line, ring the doorbell, poll Q_SEQNUM; `args_slot_acquire`/`release` | no line overwritten before it is fetched, every submission returns, its memory alive while it executes, no slot leaked |
| Command Processor (`cmd_processor.cpp`) | head, sequence number, engine and launch FSMs, last DCR response | `tick`: fetch, decode, bid, execute, retire | order; a launch retires when its kernel has ended; responses reach their reader |
| queues and events (`queue.cpp`, `event.cpp`) | command list and worker per queue; counter and error per event; reference counts | `vx_enqueue_*`, worker loop, signal, wait, finish, destroy | start order, errors along wait lists, nothing freed while in use, everything completes |
| mappings (`buffer.cpp`) | host mirror of a buffer and who reserved it | map, commit or cancel, unmap | a successful map has populated its mirror |
| legacy calls (`legacy_runtime.cpp`) | last launch event | `vx_start`, `vx_ready_wait` | no launch is lost sight of |

Queues call into command submission from their worker threads; host threads call
both. Hard: several threads share one ring without a space check; a register
access fails after the line was published; a response is fetched in a second
access; events outlive or are outlived by their users; queues wait for each
other.

### SimX (`RTL/vortex/sim/simx`)

The KMU walks the grid, the CTA dispatcher of a core admits blocks into
local-memory slots and starts their warps one by one, the scheduler issues from
warps that are active and not stalled, `wctl_unit` ends, splits and joins warps,
`barrier_unit` stops and resumes them, also on completion of transfers of the
copy engine. State: odometers, slots, active and stalled masks, per warp PC, lane
mask and divergence stack, per slot the barriers. Correct if no assertion of the
simulator can be hit, barriers hold, each lane runs each instruction once, a slot
belongs to one block, clusters sit side by side, and the core is idle exactly
when the kernel is done. Hard: releases from four places, warp numbers and slots
that are reused, blocks started piecemeal, barrier phases of different width.

### Other directories

The rest of `RTL/vortex` (functional units, caches, tensor and texture datapaths,
the debug module, upstream RTL) and `RTL/uberddr3` are listed under "Not
modelled"; `docs`, `sim` and `users` are training material and scripts.

## 2. Plan

Done: `NocArbiter`, `BridgePort`, `NocReadFabric`, `NocWriteFabric`, `Axi2ApbBridge`,
`FifoBuffer` with its abstract `BoundedQueue`, `TransitionFifo`,
`FifoAxiWrapper`, `IwrrArbiter`, `SkidBuffer`, `CpRing`, `VxQueue`, `SvSync`,
`CtaDispatch` and `SimxCore`; proofs of all invariants, of the action properties
and of the refinements that the passing runs check.

Open, most important first:

1. Global barriers, `wspawn` and several cores in `SimxCore`.
2. The composition of packer, FIFO, wrapper and RAM as `fifo_top` wires them,
   with properties of the wrapper's data path. As long as no write completes
   (finding 1) they can only be stated of `axi_data_buffer`.
3. Pure algorithms against reference definitions over bounded inputs: `decode`
   and `crosses_4k`, CRC32 against polynomial division, the prefix networks
   against addition.

## 3. Modules and the code they model

| Module | Models | Extends / composes |
|---|---|---|
| `NocArbiter` | `noc_arbiter.sv` | |
| `NocReadFabric` | AR gate, tracker and R mux of `noc_top.sv`; servers as seen from there | |
| `NocWriteFabric` | `wbusy`, AW routing and W/B muxes of `noc_top.sv`; write FSMs of the servers | |
| `BridgePort` | the idle state of `axi2apb_bridge.sv` in front of its read arbiter | `NocArbiter` |
| `Axi2ApbBridge` | `axi2apb_bridge.sv`: FSM and data path | |
| `NocReadFabricProofs`, `NocWriteFabricProofs` | theorems about the fabrics | the module of that name |
| `NocPortProofs` | theorems about arbiter and bridge | `BridgePort`, `Axi2ApbBridge` |
| `BoundedQueue` | abstract: a FIFO queue of bounded length with registered output | |
| `FifoBuffer` | `fifo_buffer.v` | instantiates `BoundedQueue` (`QueueSpec`) |
| `TransitionFifo` | `transition_packer.v` wired to the FIFO | `FifoBuffer` |
| `FifoAxiWrapper` | `fifo_axi_wrapper.v`, `axi_ram.v`, wired to the FIFO | `FifoBuffer` |
| `IwrrArbiter` | `WRR.v` | |
| `SkidBuffer` | `skid_buffer.v` | |
| `BlockProofs` | theorems about FIFO, packer, skid buffer and IWRR arbiter | `TransitionFifo`, `SkidBuffer`, `IwrrArbiter` |
| `SvSync` | `c2sv.h`, `irq_csv.h`, `ibex_c2sv_mbox.sv`, command loop and handler of the interrupt tests | |
| `SvSyncProofs` | theorems about it | `SvSync` |
| `CpRing` | `cp_submit_*` and argument slots of `device.cpp`; `cmd_processor.cpp` | |
| `VxQueue` | `queue.cpp`, `event.cpp`, mappings of `buffer.cpp`, `legacy_runtime.cpp` | |
| `CpRingProofs`, `VxQueueProofs` | theorems about these two | `CpRing`, `VxQueue` |
| `CtaDispatch` | `kmu.cpp`, `cta_dispatcher.cpp`: state and operators | |
| `SimxCore` | `scheduler.cpp`, `wctl_unit.cpp`, `barrier_unit.cpp`, stages of `core.cpp` and `sfu_unit.cpp` | `CtaDispatch` |
| `SimxCoreProofs` | theorems about it | `SimxCore` |
| `MCRtlUnits` | the units without each other: arbiter, bridge port, bridge, packer and FIFO, skid buffer, IWRR arbiter, `sv_sync` | their modules |
| `MCNocReadFabric`, `MCSimxCore` | traffic and kernels for TLC | |

**NocArbiter.** `FreshIdx` is the combinational arbitration, `GntIdx`/`GntValid`
the outputs with the lock applied. An edge is `Accept` (the consumer pulses
`update`), `Present` (a fresh grant is locked), `Hold` or `Quiet`. The
environment raises requests with any priority and holds them until accepted,
which is what AXI and the gates of `noc_top` give. History: who was
accepted last and how often a waiting requester was overtaken by one of no
higher priority.

**NocReadFabric.** `Edge(rdy, acc)` is one clock edge of the whole read side:
`rdy` are the masters that raise RREADY, `acc` the masters whose AR is
accepted. `ArAllow` is the gate, `TrackerNext` the counters at their width (4 and
5 bits), `RSel`/`RlockNext` the mux and its burst lock. A server is what
`noc_top` can observe of one: it accepts one AR per cycle, owes a burst for each,
keeps the order per id and chooses freely across ids, starts a burst
whenever it likes, and pauses between beats. The AXI slaves outside the
repository behave so, and `noc_axi_slave_port` only routes their R
channel by the id prefix. Bridges and the DECERR port take one read at a
time (`Single`); the DECERR port neither delays nor pauses.

**NocWriteFabric.** `todo[m]` is the list of writes master `m` has raised and not
had answered; `nacc` and `nsent` say how far its AW and W channels are. Masters
run ahead on both channels as AXI allows, which is what makes the OR-ed
muxes dangerous. `Edge(acc, data, resp)` accepts AWs, W beats at servers and Bs
at once. The three server FSMs share one shape (idle, data, response). In the
bridge the APB work between beats appears as W or B accepted late. Each server's
arbiter is there with its grant lock (`gnt`): a grant that was given and not accepted
stays (`MayWin`). Which requester a fresh grant goes to is left open, so that the model
has every order that AxQOS levels and the round-robin can produce.

**BridgePort.** Whom the bridge serves when it returns to `B_IDLE`: a pending write
first (`PortWrite`), else the read that the read arbiter, modelled in full, grants
(`PortRead`). While the bridge is busy the arbiter sees requests come and locks its
grant. A burst is one phase that ends (`PortFinish`); `BurstsFinish` says it does.

**Axi2ApbBridge.** One action per FSM state with its handshake, `Stall` for an
edge without it. The history `log` holds the APB transfers of the current
burst. Any requester may win here.

**FifoBuffer / BoundedQueue.** A pointer is a record of address and wrap bit.
`Contents` is the refinement mapping: the words from the read pointer on,
`Count` many. `QueueSpec` is `BoundedQueue`'s specification under it, with
reset.

**TransitionFifo.** The pending register of the packer *is* the FIFO's write
port. A word is a tuple of bits and the shifts act on it as in the code. The
packer never masks `trans_data`: the producer is assumed to keep the bits
above `trans_width` at zero and the width at most `DATA_WIDTH`
(`PackerAssumption`); the packer is not right without it. `BitsPreserved` says that
the bits accepted and not yet read are, in order, those of the FIFO, of the pending word
and of the packer's buffer.

**FifoAxiWrapper.** Every registered output is a variable, because the finding
below depends on which cycle sees which value. RAM and wrapper take their edge
together.

**IwrrArbiter.** `Grant(i)` or `EndRound`. The history watches one arbitrary
requester, chosen initially: a property of it is a property of each.

**SkidBuffer.** `Bypass` or `Skid` by the state of the register; the inputs are
unconstrained.

**SvSync.** The core is a stack of contexts (main, nested handlers), each at a
place in `sv_sync` or around it. At an edge it makes one bus access, takes a trap,
returns, or does nothing; a core that can see its ACK leaves the polling loop
within `LeaveMax` clocks. The testbench threads (mailbox, command loop, forked
raises) move at the same edge. Programs are those of `sw/tests/irq_csv_*.c`. A delay
travels in the upper 16 bits of ARG and is cut to them (`Delays`); the tests ask for
30 and 200 clocks, and `DelayAssumption` has all delays below 2^16.

**CpRing.** A thread begins an operation, which is a script of commands
(`Scripts`); `Post` writes a line and rings the doorbell under `cp_mu_`, `Poll`
reads Q_SEQNUM, `ReadRsp` is the separate access of `cp_submit_dcr_read`. A
doorbell, a poll or the fetch of a response may fail: the submitter gives up and
releases what it holds, while its line may stay in the ring (`abandoned`). `Tick` is
one tick of the CP in its FSM state. The kernel runs on a thread of its own and ends
when it likes, before or after the launch FSM has seen it (`KernelEnds`). The DCR
writes of a launch are two commands, for the two parts of the descriptor (`KmuRegs`):
enough for another launch, or a failure, to come in between. The runtime posts one
command per line, so positions are commands.

**VxQueue.** `Enqueue` with its variants is one critical section of
`Queue::enqueue`, `EnqueueRefused` the call that meets a null handle behind valid
events of its wait list; the worker's loop is `Pop`, one `WaitDep` per event of the wait
list, the work (`SkipWork`, `EndWork`, `EndHostWork`), `DropCompletion`. `Release`
is the reference count of `vortex2_internal.h`. A map with VX_MEM_READ is filled by
`map_commit`, one without is not (`Maps`). One host thread makes the synchronous calls
(`Finish`, `Start`, `ReadyWait`), whose steps interleave with everything else.

**CtaDispatch / SimxCore.** `Schedule` issues an instruction of a warp and stalls
it; `Decode` resumes it unless the instruction stalls; the special-function unit
executes `Exit`, `Split`, `Join`, the barrier instructions; `Commit` and
`EventRelease` resume. Between two stages any time passes. A warp's `resume`
without a `suspend`, or of a warp that is not active, sets `failed`, as the
assertions of `scheduler.cpp` would stop the simulator. The dispatcher starts at
most one warp per step and takes the next block when one is admitted.
`ProgramAssumption` says which kernels are meant: splits and joins nest, and
barriers, expectations of transfers and the exit are outside of all splits.

## 4. Runs

| Run | Instance | Shows |
|---|---|---|
| `units` | one unit per behaviour: the arbiter, also as the bridge's read arbiter, with three priorities; the bridge with three beats, INCR and FIXED; packer and FIFO with three-bit words, depth two, all transitions, resets; the skid buffer; the IWRR arbiter with N = 4, three rounds, six weight vectors; `sv_sync` with three lines, delays of 6 to 8 clocks, four interrupts of main | grants stable, one overtaking at most, top priority served, reads served in the gaps between writes; transfers, errors, beats; no bit lost, the FIFO a queue; exact shares, tight waiting bound; handshakes never overlap, own answers, every call served |
| `read` | two traffic patterns: one master, two ids, two slaves and DECERR; two masters sharing a slave and DECERR; three in flight | same-id order, exact tracker within the cap, contiguous bursts; everything drains |
| `write` | two masters, two writes ahead each, a slave and DECERR | one server per master, data and B routed right; every write accepted and answered, at any AxQOS |
| `cp` | two threads, both of which launch, read DCRs and transfer; three ring slots, five commands, one failed access, kernels that end at any time | order, lifetime, arguments and descriptor of a kernel, responses never stale, no slot leaked; submissions return unless a kernel was missed |
| `queue` | two queues, a user event, a buffer, two calls, wait lists of up to two, one failure | start order, errors, no use after free, mappings, legacy launches; all drains |
| `simx` | three warps of three lanes, grid 2x2x1 of blocks 2x1x2 (two warps), clusters 2x1x1 | no abort, barriers, lanes, slots, clusters, idleness; kernels end |
| `wrapper_hang` | depth two, two words per AXI word | **violation** of `WriteCompletes` (finding 1) |
| `simx_wait` | one block, three rounds of arrive and wait | **violation** of `WaitHolds` (finding 2) |
| `cp_launch` | two launching threads, no failures | **violation** of `KernelOwn` (finding 3) |
| `cp_rsp` | two threads that read DCRs, no failures | **violation** of `RspOwn` (finding 4) |
| `cp_short` | one launching thread, no failures | **violation** of `SubmitReturns` (finding 5) |
| `queue_leak` | as `queue`, wait lists of one | **violation** of `RefsExact` (finding 6) |

**Why the bounds are enough.**

- `units`, the arbiter: the code only compares two priorities, so two levels show
  every comparison; a third lets a priority change in both directions between
  requests. `passed` saturates at 2, one above the bound claimed.
- `units`, the bridge: three beats have a first, an inner and a last one. The address
  space of 16 bytes lets the burst at 12 wrap. Who is served is the port's
  business, so the data path has one master.
- `units`, packer and FIFO: a depth of two has full, empty and the states between, and
  both values of the wrap bit; three-bit words have every kind of crossing.
- `units`, the IWRR arbiter: weights zero, one, in between and beyond the maximum. The
  bound of `BoundedWait` is reached, so it cannot be lowered.
- `units`, `sv_sync`: three lines allow two nested handlers or three pins pending at
  once. The clocks are scaled down (the code's minimum delay is 20): all that
  counts is that the core leaves its polling loop within fewer clocks
  (`LeaveMax`) than the least delay, which `DelayAssumption` states. Without the
  delay (the mutant of `HandshakesApart`) two handshakes overlap.
- `read`: two servers are the least that can reorder one id, a third one and a
  second id give the mux a choice and the tracker something to keep apart. Three
  in flight with a cap of three reaches the cap with both ids in use. Two beats
  make a burst with an inside. Masters interact only at a shared server's R
  channel, which the second pattern adds; there the second server gives each
  master something to be locked to while it holds up the other. The invariants
  also hold with two masters, two ids and both servers at once (260,300 states),
  an instance too large for the liveness property.
- `write`: two writes ahead is the least that puts the next write's data on a W
  channel that every server sees, and the least with which a favoured master always
  has a next write; a slave port and the DECERR port are the two kinds of server.
- `cp`: two threads are the least that interleave, and each may do everything; the
  ring has a slot for each and one for an abandoned line, the least number for which
  `RingIntact` holds. Five commands are more than the ring holds and allow a launch
  that fails after any of its steps, while the other thread sets up its own. `SeqMod`
  lies beyond the bound.
- `queue`: two calls on two queues, each waiting for the other's event, a user
  event or both, in any order of execution, or one of them refused. Longer chains
  of errors and references repeat the same step.
- `simx`: blocks of two warps on a core of three leave one warp for the
  next block, so blocks start piecemeal and slots and warp numbers are reused;
  three lanes with blocks of four make a partial warp and two splits nested to
  the depth the divergence stack has (198,503 states).

In every run the module's type invariant holds as well; the configurations list
the properties that say more. Symmetry is not declared: masters, servers, lines,
warps and commands have numbers the code treats differently, and `cp` and `queue`
check liveness. Deadlock checking is off in the runs of `CpRing` and `VxQueue` only,
where the application may stop and the number of commands is bounded; the
clocked models always have a next edge, and `SimxCore` idles when the kernel is
done.

**Fairness and why the code justifies it.**

All of it is weak fairness.

- `NocArbiter`: of `Accept`. A consumer pulses `update` in its idle state as soon as a
  grant is there.
- `BridgePort`: of serving somebody in the idle state, whoever it is, and of the end of a
  burst. `ReadsServed` then has a premise instead of a fairness condition: the bridge is
  idle without a pending write again and again. The code takes writes first, so
  without such gaps no read is served at all; what the property says is that gaps are
  enough, writes need not cease, and no gap is wasted on a stale grant.
- `NocReadFabric`: of a beat on offer at a ready master, of an
  acceptable AR and of a server that owes a burst. These are obligations of the
  AXI partners; the DECERR port needs none of it. `Drains` supposes in
  addition that no new reads come from some point on. Without that the fixed
  priority of the R mux can pass over a higher-numbered server for ever.
- `NocWriteFabric`: a server moves when it can, whichever AW its arbiter grants
  (`ServerMoves`), and a master sends the data of an accepted AW. Nothing is assumed of
  the arbiter's choice. That a write is accepted all the same, although "strict, may
  starve the lower" holds of the arbiter (`noc_design_spec.html:239`), follows from two
  pieces of the code together: `wbusy` withdraws the favoured master's next AW while it
  is served, and the grant, given meanwhile to the one that waits, is locked. Without
  the lock (the mutant) `WritesAnswered` fails.
- `Axi2ApbBridge`: APB slaves become ready, masters send data and take responses.
- `FifoAxiWrapper`: weak fairness of `Next`, that is, the clock runs. All of
  wrapper and RAM moves at every edge, so this is all the violation needs.
- `SvSync`: the clock runs (`SyncNext`) and the core, which has an instruction to
  execute, does not stall for ever (`Move`).
- `CpRing`: the CP is ticked by every register access of a polling thread (`Tick`), a
  kernel ends (`KernelEnds`, otherwise no launch returns), and a polling thread is
  scheduled (`Poll`). Nothing obliges a thread to begin an operation.
- `VxQueue`: each worker thread is scheduled (`WorkerStep`), and the application
  signals the user events it made others wait for (`HostSignal`).
- `SimxCore`: the simulator's main loop runs (`Next`).

## 5. Findings

1. `WriteCompletes` (run `wrapper_hang`): the wrapper looks at AWREADY while its
   own registered AWVALID is still low and moves on, withdrawing AWVALID.
   `axi_ram` never sees an address, never raises WREADY, and the wrapper stays in
   `AXI_W`. The documentation (`Design_Documentation.md`, sections 19 to 21) has
   the handshake complete first.
2. `WaitHolds` (run `simx_wait`): `vx_barrier.h` says that `vx_barrier_wait` waits
   for the barrier phase to complete. `BarrierUnit::wait` compares the phase
   counter, which grows without bound, with a token of which `wctl_unit.cpp:123`
   keeps one bit. From the third use of a barrier on, a wait lets a warp pass
   before the others have arrived.
3. `KernelOwn` (run `cp_launch`): `enqueue_mu_` "Serializes per-command platform calls
   when multiple queues share one backend" (`vortex2_internal.h:635`), but it is a member
   of each `Queue` (`queue.cpp:386`). The DCR writes of two queues' launches alternate,
   and a kernel runs with a descriptor of which the other launch wrote a part. What
   does hold with any number of launchers is `KernelSetUp`: the arguments are its own,
   and nothing is left over from a launch of its own thread that failed.
4. `RspOwn` (run `cp_rsp`): the same comment; `cp_submit_dcr_read` fetches Q_LAST_DCR_RSP
   after its poll, without a lock (`device.cpp:485`). Another thread's DCR read in
   between replaces the value. `RspFresh` holds: the value is its own or that of a
   later read.
5. `SubmitReturns` (run `cp_short`): the launch FSM "waits for this to rise (kernel
   actually executing) then fall" (`cmd_processor.h:82`). A kernel that ends before
   the first sample never rises, and the FSM waits for ever (`cmd_processor.cpp:297`).
   `OnlyMissedHangs` shows that this is the only way for a submission not to return.
6. `RefsExact` (run `queue_leak`): "release in the work lambda" (`queue.cpp:799`), which
   the worker skips after a failed dependency (`queue.cpp:93`). A wait list with a null
   handle loses the events before it likewise (`queue.cpp:122`). `RefsCover` holds
   (nothing is freed too early), and `LeaksCorrect` proves that these two are the only
   places where references are lost.

Divergences between an assertion of the testbench and the RTL, which follow
directly from the code and have no run of their own:

- `RTL/noc/tb/sva/arb_sva.sv:22-26` asserts that the requester of strictly higher
  priority holds the grant. The grant lock (`noc_arbiter.sv:49-61`) keeps a grant
  given to a lower priority that came first until it is accepted. AXI needs the
  lock; it is the assertion that is too strong.
- `RTL/noc/tb/if/axi_if.sv:116-117` asserts that a beat the master has not
  accepted stays. The R mux locks only after an accepted beat that is not the
  last one (`noc_top.sv:439`, `:501-504`), so a lower-numbered server that becomes
  valid replaces a stalled first beat. No beat is lost by it (`SameIdOrder`,
  `BurstsContiguous`, `TrackerExact`).

Limits of the code met while modelling, outside what a document promises:

- Q_SEQNUM has 32 bits and is compared with a 64-bit target (`device.cpp:374`):
  `OnlyMissedHangs` fails with `SeqMod` within the number of commands.
- `vx_ready_wait` forgets the launch when it times out (`legacy_runtime.cpp:244`).
- `vx_start` enqueues its KMU writes without events (`legacy_runtime.cpp:215`): one
  that fails leaves the launch to run with the previous descriptor.
- `legacy_default_queue` (`device.cpp:842-846`): the loser of a creation race
  releases its queue with `mu_` held, which `~Queue` takes again.
- `drain_cout` (`device.cpp:767`) uses its cursors without a lock.
- Cores take blocks of one KMU in turn (`cta_dispatcher.cpp:76`), so a cluster may be
  split over cores, while `queue.cpp:306` has it "guaranteed co-resident on a core".
- The wrapper of the SRAM FIFO captures `fifo_rd_data` at the edge at which the
  FIFO only loads it (`fifo_axi_wrapper.v:282`); no write completes that would
  show it.
- The fixed priority of the R mux (`noc_top.sv:442`) starves a higher-numbered
  server while lower ones keep a master busy; `Drains` is stated without new reads.

## 6. Proofs

All theorems are proved for every value of the constants that satisfies the
named assumptions.

- `NocPortProofs`, the arbiter (from `PriosAssumption`): `ArbTypeCorrect`, `GrantCorrect`
  (`GrantIffRequest`), `TieCorrect` (`TieGoesToOther`), `BypassBound`
  (`OvertakenOnce`), `GrantStability` (`GrantStable`). None of these is inductive.
  The invariant `IInv` adds: the request a lock was taken for still stands
  (`LockedRequestStands`); `last` is the latest grantee once there is one
  (`LastIsRecent`); and a requester that has been overtaken
  still requests, the pointer is at the other one, and a grant locked against it
  has a higher priority (`OvertakenIsNext`), which is why it cannot be overtaken
  a second time. `PortArbitrates` shows that the bridge in front of its read arbiter
  takes only steps of the arbiter's specification, so that all of this holds in the
  bridge; `PortBypass` states it for `OvertakenOnce`.
- `BlockProofs`, the FIFO (from `FifoAssumption`, any positive depth):
  `FifoTypeCorrect` and `FifoRefinement`, `FifoSpec => QueueSpec`. The invariant
  is the type and `Count \in 0..FIFO_DEPTH`. Given that, `empty` is `Count = 0`
  and `full` is `Count = FIFO_DEPTH` (`EmptyIsZero`, `FullIsDepth`), the write
  address is the slot behind the last word (`WriteSlot`), and an edge maps to a
  step of the queue (`EdgeRefines`). Depths that are no power of two are
  included.
- `BlockProofs`, the packer in front of the FIFO (from `PackerAssumption`, any
  width, depth and transitions, with resets): `PackTypeCorrect`, `BitsCorrect`
  (`BitsPreserved`) and `PackedRefinement`: the FIFO fed by the packer implements
  the queue. The invariant `PackInv`: the bits accepted spell the complete words and
  then the first `pack_count` bits of the buffer (`Spelled`), and the buffer is clear
  above `pack_count`, which is why merging by OR adds exactly the new bits. The proof
  goes bit by bit, by its place in a word (`Before`), so that it needs no induction
  over the words.
- `BlockProofs`, the skid buffer (for any set of words): `OutputCorrect`
  (`OldestOffered`) and `HeldCorrect` (`OutputHeld`), by the invariant that the
  undelivered words are exactly the content of the register. The run `units` executes
  the skid buffer and lists no property of it: its theorems cover every instance.
- `BlockProofs`, the IWRR arbiter (any number of requesters and rounds, any weights,
  those beyond the maximum included): `IwrrTypeCorrect`, `ShareCorrect` (`FrameShare`),
  `WaitCorrect` (`BoundedWait`). The invariant: who was served in a round was entitled
  to it; the watched requester got no more grants than it had turns in the rounds
  over and in this one, and as many if it asked throughout (`TurnsTaken`); and it has
  waited at most N cycles for each round without a turn of its own, plus the others
  served in this round (`WaitCounted`). The last one is the ranking from which the
  bound follows.

- `NocPortProofs`, the bridge (any burst length, beat size and width of the address):
  `TypeCorrect`, `BeatsCorrect` (`TransfersAreBeats`), `AnswerCorrect`
  (`AnswerSumsUpBurst`), `ReadCorrect` (`ReadBeatIsTransfer`). The properties speak of
  transfers made and answers given; the invariant says what each FSM state has in
  its registers on the way there: the address register is the address of the
  next beat (`AddrFollows`, with a lemma that adding the step modulo the address
  space once more gives the next `BeatAddr`), how many beats were taken and how
  many transferred (`WriteCounts`, `ReadCounts`), and that `werr` is the sum of the
  errors so far.
- `NocWriteFabricProofs` (any ids, servers, burst lengths, writes ahead):
  `TypeCorrect`, `RoutingCorrect` (`WriteRouted`). The invariant is that a server
  that serves a master works on the first write of its list, that a master is
  busy exactly when one server serves it, and that a master which is not busy has
  neither an AW nor data accepted: so data that runs ahead on the shared W
  channel finds no server listening.
- `NocReadFabricProofs` (any masters, ids, servers, traffic, and any cap the
  counters can hold): `TypeCorrect`, `OrderCorrect` (`SameIdOrder`),
  `TrackerCorrect` (`TrackerExact`), `ContiguousCorrect` (`BurstsContiguous`). The
  invariant: the reads of one id in flight are all at `out_tgt`, `out_cnt` of them,
  owed by that server and no other (`OneTarget`); `rtotal` is the number of all
  reads in flight and within the cap (`TotalExact`); a burst on offer is owed, and
  one that has begun holds its master's mux (`BurstOwed`). An acceptance and a
  completion at one edge are one step of the proof, as they are of the code.
- `CpRingProofs` (any number of threads, slots, posts and failed accesses), in
  layers:
  - without a further hypothesis `TypeCorrect` and `PoolCorrect` (`PoolSettles`): every
    slot allocated is held by one launch in progress or is once on the free list
    (`PoolInv`), so at most one slot exists per launching thread;
  - `RingCorrect` (`RingIntact`) and `HeldCorrect` (`HeldWhileExecuted`) under
    `Provisioned`: the ring has a slot per thread and per access that fails, and
    the sequence number does not wrap. The code has no space check, and its
    1024 slots and 32 bits are the only thing that keeps it right, so the theorem
    names the condition. The invariant (`RingInv`): lines that have not retired are
    as they were posted, each has a polling submitter of its own or is abandoned,
    and at most one is abandoned per failure; hence there is room for the next;
  - under the same hypothesis, and for any number of readers and launchers,
    `RspCorrect` (`RspFresh`) and `KernelCorrect` (`KernelSetUp`). `RspInv`: from the
    moment its read has executed, a thread finds a response at least as new as its own.
    `KernelInv`: what a launch has set up, arguments and parts of the descriptor, is its
    own, or another thread's in the case of the descriptor, and no line still to
    execute, lines abandoned by earlier failures of the same thread included, would
    put back an older launch's.

  The instance of the run `cp` satisfies `Provisioned`. `KernelOwn` and `RspOwn` are
  not theorems: findings 3 and 4 refute them.
- `VxQueueProofs` (any finite set of queues, any events, buffers, commands and
  wait lists; `ObjectAssumption` only says that these are different objects):
  `TypeCorrect`, `OrderCorrect` (`StartsInOrder`), `ErrorsCorrect`
  (`ErrorsPropagate`), `RefsCorrect` (`RefsCover`), `LeaksCorrect`, `MapCorrect` (`MapPopulated`),
  `LegacyCorrect` (`LegacyTracked`). The invariant: a FIFO holds the commands of
  its queue that have not ended, in order and all behind the one the worker is on
  (`FifoInv`, `WorkerInv`); what a worker has waited for has succeeded, or one of
  it failed (`WaitInv`); an event says what became of its command (`EventInv`); a
  command that has ended had its whole wait list decided before (`EndInv`); a mirror
  belongs to the map command that reserved it (`MapInv`); the host thread holds a
  handle to what it waits for and what it remembers (`LegacyInv`). `RefsCover` and
  `LeaksCorrect` are proved as a balance per object: a step adds or removes at most one
  member of each of the sets whose cardinalities `Users` adds up, and the count moves
  with them, but in `EnqueueRefused` and `SkipWork`, where it ends up higher. That no
  count goes below zero follows from it and is part of `TypeCorrect`.

- `SvSyncProofs` (any lines, delays and number of calls, from `DelayAssumption`):
  `TypeCorrect`, `ApartCorrect` (`HandshakesApart`), `AnswerCorrect` (`OwnAnswer`). The
  invariant has a discrete and a timed part. Discrete: a context that was interrupted
  was waiting for its handlers (`OthersAwait`, `Chain`), a pending line was asked for by
  a context that still waits for it (`PendingAsked`), a line its handler has cleared is
  down for good (`ClearedDown`), and the core and the testbench are in matching phases
  of one handshake (`Handshake`). Timed (`InTime`): while a call is under way with
  interrupts on, every timer plus the clocks the core has already taken is at least
  the least delay, and the core has taken fewer than `LeaveMax`.
- `SimxCoreProofs` (any number of warps, threads, barriers, any grid, block, cluster
  and local-memory size, any structured program), in layers:
  - `TypeCorrect`, `NeverAborts` (`NoAbort`), `LanesCorrect` (`EveryLaneOnce`),
    `SlotsCorrect` (`SlotOwned`), `IdleCorrect` (`IdleMeansDone`), by one invariant:
    - an instruction of a warp is in one place, fetched, in the unit or on its way
      out, and the warp is stalled until it has left (`Flows`); a warp waits at one
      barrier at most, with nothing else under way (`Waiters`); a barrier counts at
      least its transfers in flight (`Events`). Hence every release finds its warp
      active and stalled;
    - per warp (`WarpOK`) the masks on the divergence stack shrink strictly, so that
      it holds at most `NumThreads - 1` entries (`Nested`); its entries are splits that
      enclose the PC, and the depth noted at a split is the number of entries below
      it, so that a join finds its own (`Scoped`); lanes that wait for the other side
      are at its beginning, or past its join (`LanesAt`). That splits and joins match
      is derived from `Depth` alone;
    - of the dispatcher (`DispOK`): a slot's count is the warps of its block that run
      or are still to start (`SlotCounts`), warps in a slot are of one block
      (`Owners`), and each rank of each block is in exactly one stage: ahead in the
      KMU's walk, pending, being started, running, or ended (`Stage`).
  - `ClustersCorrect` (`ClusterPlaced`) if `ClusterSize <= UsableSlots`. Otherwise the
    code clamps the window of slots it looks for (`cta_dispatcher.cpp:109`), and the
    blocks of a cluster do not sit side by side. The invariant (`Place`) relates the
    dispatcher's tail to the KMU's place in the cluster it walks.
  - `SyncCorrect` (`SyncHolds`) if the program is `Disciplined`: no barrier is used both
    by `vx_barrier` and by `vx_barrier_arrive`, and every expected transfer is followed
    by a `vx_barrier` on its barrier. The unit counts arrivals without knowing from
    which instruction they come, and nothing else ends an expectation before the slot
    has its next block. The kernels of both runs are disciplined (`KernelDisciplined`).
    The invariant (`SyncInv`): the unit has a warp's instructions in program order and
    none is missing (`Lines`), so a warp has arrived exactly where it has passed
    (`Tracked`); a warp that ended has been everywhere, and its block at every sync
    (`Gone`); a barrier's count is the number of its block's arrivals modulo the
    warps of the block (`Counts`), its events are its transfers (`Exact`), and a slot
    without a block has its barriers at rest (`Rests`). That a full count means *this*
    sync, and not one some warps ran ahead to, follows by adding up arrivals sync by
    sync: no warp is past a sync that another has not reached (`Clears`).

Every inductive invariant was checked with TLC on the instance of the module's
run, or one near it, before it was proved.

**Only model-checked.** Liveness (`ArbiterServes`, `Drains`,
`WritesAnswered`, `BurstsFinish`, `ReadsServed`, `CallsServed`, `OnlyMissedHangs`,
`QueuesDrain`, `KernelDrains`) rests on fairness and ENABLED, which the prover does
not handle. Every other property of a passing run is proved. `TidsFollow`, that the
dispatcher's step from warp to warp is that from lane to lane repeated, is
evaluated by TLC over small shapes in `MCSimxCore`, and `LanesCorrect` proves it for
all shapes as far as the warps of a launch use it.

## 7. Not modelled, and abstractions

- Reset in the middle of operation is modelled for the FIFO and packer only. The
  other modules start at the end of reset, which restores their `Init`.
- Addresses in the fabrics are the server they decode to; data is the
  transaction it belongs to. PROT, CACHE, SIZE (but in the bridge) and the `user`
  signals pass through and are left out.
- `noc_axi_slave_port`'s R routing by id prefix is the field `m` of a burst.
- The optional output pipeline of `axi_ram`, byte strobes (always all ones here)
  and bursts longer than one beat (never used by the wrapper) are left out.
- `noc_pkg`, the CRC unit and the adders: see the plan.
- The `NOC_BUG_*` hooks of the RTL are compiled out; several serve as mutants.
- `CpRing`: CMD_FENCE, device-side events and lines of several commands, none of
  which the runtime submits; profiling fields; console text. The twenty DCR
  writes of a launch are two. A failed allocation of an argument slot ends the launch
  before it has changed anything, and an oversized argument block never meets the
  pool (`device.cpp:118`): both are left out.
- `VxQueue`: profiling times, reservation and views of buffers, argument checks of
  the C entry points, creation of the legacy queue, a second host thread.
- `SimxCore`: one core; `wspawn`, predication, warp synchronisation, global
  barriers, traps and the choice of the entry PC are left out. Lanes of a
  kernel do nothing but the control flow modelled. One core has the KMU to
  itself: on several cores the shared KMU can split a cluster
  (`cta_dispatcher.cpp:28`, `76`). Blocks are assumed to fit the core
  (`ShapesAssump`): `Queue::enqueue_launch` checks only the multiples of the
  cluster (`queue.cpp:306-318`), so a block that fits no core would never be
  placed and `KernelDrains` says nothing of it.
- `SvSync`: the core is its moves on the bus and its traps; DPI and UVM plumbing
  are left out.
- Most of the C++ under `RTL/vortex` is data rather than control: a third-party
  JSON header (`nlohmann_json.hpp`, near a third of all its lines), the
  arithmetic of functional, tensor, texture and raster units, soft floating
  point, instruction decoding, cache timing, file formats. A model of them
  would transcribe them; unit tests against reference results suit them
  better. The memory allocator, the cache replies and the debug module are
  candidates for later modules.
- The UVM testbenches, `RTL/uberddr3`, scripts and training material are
  outside the scope.
