# TLA+ models of the AMD GPU instrumentation runtime

This directory holds TLA+ modules, TLC configurations and TLAPS proofs about the
program in `src/`: a proof of concept that instruments AMD GPU kernels with
Dyninst and lets the instrumented kernels call the CPU ("hostcalls").  File
names below are relative to `src/`.

## 1. The system

A kernel is instrumented ahead of time: a mutator inserts calls to a probe
library, scripts link the new code object and edit its metadata note and symbol
tables.  At run time a preloaded library (or a stand-alone launcher) intercepts
the HSA loader, allocates a mailbox, starts a service thread on the CPU and
appends a buffer to the arguments of each launch.  Wavefronts of the kernel put
requests into slots of the mailbox; the service thread scans the slots, does
the file operation and answers in place.

```
 application ── HIP ── HSA loader                        CPU
      │ launch        │ load, freeze
      ▼               ▼
  hook_launch     hook_load ── ensure_runtime ──► service thread ──► files
      │ buffer        │ mailbox address, library       │ ▲
      ▼               ▼                                ▼ │ status 1 / 2
  ───────────────────────────── mailbox: enqueue_pos, slots[256] ─────────
      │                                                │ ▲
      ▼ slices per wavefront                           ▼ │       GPU
  pw_open … pw_flush ── gpu_fopen / gpu_fwrite / hc_* in every wavefront
```

| Component | State | Operations | What is hard | What makes it correct |
|---|---|---|---|---|
| Hostcall ring: `runtime/hostcalls.h`, `runtime/device/hostcall_lib.cpp` | `enqueue_pos`; per slot `turn`, `status`, request and reply fields; each wave's scalar cache | `hc_acquire`, `hc_call_and_wait`, `hc_release` | thousands of waves and the CPU on shared words; 32-bit tickets that wrap; a non-coherent scalar cache; waves that spin without leaving their compute unit | one owner per slot, complete requests, own answers, every call returns |
| Service loop: `runtime/host/hostcall_service.cpp` | scan position, `run` flag, map of open files, primary file | the scan, `service_slot` with an opcode per operation | requests raised behind the scan; stopping while waves wait; fields left over from a slot's previous occupant | answers are complete, writes land in the file they name, handles never dangle |
| Loader hooks: `runtime/host/hostcall_hooks.h`, `preload.cpp` | the configuration, mailbox, started flag, service thread, sets of reader and executable handles | `hook_register_fatbin`, `hook_co_reader`, `hook_load`, `hook_freeze`, `hostcall_teardown` | several application threads; files that cannot be read; HSA calls that fail; handles that outlive their objects | served once, augmented once, failures stay local |
| Launch hook and per-wave buffers: `hostcall_hooks.h`, `instrumentation/user_lib/user_probe.cpp` | `g_arg_buf`, the buffers, the slices | `hook_launch`; `pw_open`, `pw_flush`; `bb_inc`, `bb_flush_pw` | kernels that run side by side; grids of three dimensions; last wavefronts that are not full; two launching threads | a slice per wavefront, in the launch's own buffer |
| Stand-alone launchers: `runtime/host/launcher.cpp`, `launcher_nd.cpp` | mailbox, executable, kernarg segment, one launch | set up, load, freeze, fill in arguments, dispatch, bounded wait, stop | the wait may time out while the kernel runs; each step may fail; arguments go to offsets other tools have moved | ends, and the kernel finds its arguments |
| Symbol table editor and its readers: `tools/add_object_aliases.py`, `runtime/host/audit.cpp` | `.symtab`, `.dynsym`, two hash tables, the read-only segment | add aliases, export register usage, reorder, rebuild, repair the file | tables that must agree with each other; an evaluator over a call graph with cycles; a round trip through YAML that moves sections | every name is found, usage is the compiler's, data loads |
| Note editors and readers: `tools/sync_note_from_kd.py`, `expand_args.py`, `runtime/host/co_stride.h` | the metadata note, the program header that points to it, the kernel descriptors | copy sizes, add arguments, count arguments, find offsets | four copies of one size; positions computed from what the editor has changed | arguments and scratch arrive |
| Structure recovery: `analysis/cfrecovery/structure.C` | region tree and stack of open regions; block order; labels of registers | a transition per EXEC-mask instruction, guards combined over the tree; backward searches; a transfer per instruction | nesting, else and elseif chains; loops and joins; registers in pairs, packed fields | guards, conditions and labels say what the kernel does |
| Mutators, CFG printers, scripts, mutatees, archive | none of their own | | | not modelled, section 7 |

`PROJECT.json` lists the components with their status, and under "hazards" the
places where this code can go wrong in ways a test would hardly reach.

## 2. Modules

| Module | Models | State and actions against the code |
|---|---|---|
| `HostcallRing` | the ring and both its sides | one action per statement that touches shared memory, in the order of `hostcall_lib.cpp:56-85` and `hostcall_service.cpp:66-85`; `pc[w]` is where a wave is, `line[w]` its copy of the slot in the scalar cache, `svc` and `scan` where the service thread is |
| `HostcallSpec` | what a hostcall promises, with no mailbox | `Ask`, `Answer`, `Collect`, `Return` of each wave, `Close` of the service |
| `HostcallRefinement` | `HostcallRing` implements `HostcallSpec` | `op` is computed from `pc`, `status`, `svc`; the reply counts as given when it is written, as taken when it is read |
| `HostcallRingProofs` | proofs about the ring, and that it implements the safety part of `HostcallSpec` | |
| `HostFiles` | what the requests mean | `Marshalled` has the fields each device function stores (and by omission those it does not), `Serve...` has one action per opcode; between posting and returning the slot belongs to its wave, which is what `HostcallRing` shows, so these are single steps; `Programs` are the hostcall sequences of the library's probes |
| `HostFilesProofs` | proofs about `HostFiles` | |
| `LoaderHooks` | fat binaries, the HSA objects and the hooks | `load_config` runs with the first hook that needs it; the statements of `ensure_runtime` one by one, for they hold no lock; `augment_executable` in one step, for it does; each HSA call of the two may fail, the grant of access included, whose status the code drops (`GrantAccess`; `granted` and `refused` are the mailboxes the GPU can reach and those it was refused) |
| `LoaderHooksProofs` | proofs about `LoaderHooks` | |
| `WaveIndex` | the index arithmetic of host and device | operators only |
| `PerWaveBuffers` | launches, buffers and slices | `Allocate` and `Launch` are the two halves of `hook_launch` around `g_arg_buf`; `Open` and `Flush`, or `BlockEntry` and `FlushCounts`, are the probes of each wavefront; `Launcher` and `LauncherND` dispatch as the launchers do, with the dimensions their hidden arguments tell the kernel (`told`) apart from those it runs with (`shape`) |
| `PerWaveBuffersProofs` | proofs about `WaveIndex`, then about `PerWaveBuffers` | |
| `RegionTree` | the stack machine of `structure.C` | `classify` gives an instruction (opcode, whether it writes EXEC, whether it flips its own operand) its role; `OpenRegion` ... `NarrowRegion` are the transitions; each instruction also changes `exec`, the lanes that are really active, `outer` being those of the open ifs; `Latch` is the mask of a divergent loop |
| `RegionTreeProofs` | proofs about `RegionTree` | |
| `ControlFlow` | `reversePostOrder`, the three `reaching...` searches, what is said of the branches of scalar and of EXEC-mask loops | one action per round of the work list and per call or return of a search; each behaviour runs one of them on one graph; a conditional branch is a block with two edges, `cmpOp` its operator |
| `ControlFlowProofs` | proofs about `ControlFlow` | |
| `Provenance` | `abiSeeds`, `kernargNameMap`, `applyTransfer` and their uses | one action per case of `applyTransfer`, beside what the instruction really does to the registers (`values`); `stale` has the operands of which the pass has lost sight |
| `ProvenanceProofs` | proofs about `Provenance` | |
| `SymbolTables` | `add_object_aliases.py` and the look-ups in what it writes | operators, one per function of the tool; a library is a record of its tables |
| `KernargNotes` | `expand_args.py`, `sync_note_from_kd.py`, `co_stride.h` | operators, one per function; a note is a sequence of kernels with arguments as lists of key and value |
| `InstPipeline` | the two above in the order the Makefiles and scripts run them, then a launcher or HIP with the hook | `EditLibrary`, `Instrument`, `SyncNote`, `ExpandArgs`; then `main` steps through the launcher's function while `svc` and `wave` run |
| `InstPipelineProofs` | proofs about `InstPipeline`, `SymbolTables` and `KernargNotes` | |

`MC...` modules give the constants names and the symmetry sets.

Some definitions are marked "a slip": a faulty variant of a step (a dropped
guard, a missing fence, a counter that does not wrap).  No specification uses
them.  `PROJECT.json` pairs each property with a slip that violates it, as
evidence that the property looks at the code and not at the shape of the model.

### Abstractions

- Steps interleave, one at a time.  The atomics of the code are sequentially
  consistent or bracketed by system fences; the memory that is not coherent, the
  wave's scalar cache, is modelled: stores stay in it until it is written back or
  evicted, loads may see an old line until it is invalidated.
- `pos & (HC_NSLOTS - 1)` is `pos % NSLOTS`; the code has `HC_NSLOTS` a power of
  two.  Tickets are taken modulo `TMod = NSLOTS * Gens` (2^32 in the code).
  `HostFiles` lets them grow, for nothing there depends on the wrap.
- A request is a model value in `HostcallRing`, and a reply remembers the request
  the host found.  A payload in `HostFiles` is its writer and its length.
- A call of `HostFiles` is one of the functions of the library with its argument;
  `hc_write_nl`, `_bid`, `_bdim`, `_tid` and `_ftid` log another number than
  `hc_write_id` in just the same way.
- `WaveIndex` has natural numbers: the products are assumed below 2^32.
- One GPU in `LoaderHooks`: access to the mailbox is asked for once, for the agent of the
  first load.
- Handles of destroyed executables are not given out again in `LoaderHooks`.
  `g_augmented_exes` keeps a handle for ever and nothing hooks
  `hsa_executable_destroy`: if the HSA runtime did reuse such a handle the new
  executable would not be augmented, and `FaultsStayLocal` would fail.  Handles of
  readers are reused.
- `hipMallocManaged` hands out zeroed pages in `PerWaveBuffers`; `hook_launch` does not
  clear the buffer (both launchers do), and `bb_inc` counts from what is there.
- In `ControlFlow` an instruction matters for whether it defines what is searched for;
  ParseAPI's edges come in any order, and dominators and loops are computed from the graph
  by their definitions.
- In `Provenance` a register holds a symbolic value (an argument, a field of the
  packet, a part of one), and a label is a claim about it; text is left out.
- In `SymbolTables` a hash is any assignment of numbers to names, a bloom filter is one word
  of `Word` bits, a section is an address range.  `obj2yaml` and `yaml2obj` are external:
  they displace what is not pinned, shrink the first segment and drop a flag, which is what
  the tool's comments say they do.  Lengths count entries of the dynamic tables; a table that has
  an entry for each symbol (`DynTables`) grows where it is pinned, and once tables were rebuilt
  every section that one of them overlaps counts as overwritten (`Clobbered`).  What is made of an
  overwritten library is left out: nothing edits, loads or searches it.
- `SliceOf` takes the slice that the code Dyninst emits selects for that of
  `global_wavefront_id`, the same arithmetic in the probe library.
- In `InstPipeline` compiler, linker, mutator and HIP are external.  A kernel of another code
  object is in the place of one of this object that was not expanded.  A kernel's signature is the
  list of its argument sizes, a write to the kernarg segment a range and what it holds.
- In `RegionTree` a lane is the set of conditions that hold for it; the address
  comparison of `closeRegion` may come out either way for a region that has a
  reconvergence address.  The guard printed is modelled by the lanes it holds for.

## 3. The runs

| Run | Instance | Properties | What it shows |
|---|---|---|---|
| `RingSafety` | 3 waves, all resident, 2 slots, 3 generations, 3 calls each, 2 requests | `TypeOK`, `SlotExclusive`, `TicketQueue`, `HostReadsOwnersRequest`, `AnswersOwnCall`, `RingRestored`, `HandoverWhenIdle` | ownership, order and content of the calls |
| `RingRefines` | 3 waves, 2 resident, 2 slots, 2 generations, 2 calls each, fair, the host may stop at any time | `StopLeavesNoHalfAnswer`, `JoinReturns`, `EveryCallReturns`, `GridDrains`, `RingKeepsPromise` | every hostcall returns and the grid drains unless the host stops; stopping is clean; the ring implements `HostcallSpec` with its fairness |
| `Files` | 3 waves, 2 slots, files per wave, a shared file, a reader, the trace | `TypeOK`, `HandlesOpen`, `WritesLand`, `SiteIdsKept` | nothing is misdirected by fields a call leaves stale, except below |
| `FilesTrace` | 2 waves | `TraceKeepsWrites` violated | `hc_write` sends no handle, the host uses the one left in the slot |
| `Loads` | 2 threads, 2 fat binaries, 2 executables, 2 readers, unreadable files, faults | `StartedOnce`, `LinkedMeansServed`, `DefinedOnce`, `FaultsStayLocal` | the hooks are sound if the first instrumented load is alone: what failed stays with those it was asked for, but for the grant of access, which every later executable shares |
| `LoadRace` | the same, first loads may overlap | `StartedOnce` violated | two threads pass the unlocked test and start two services |
| `Launches` | 1 thread and the launchers, 2 kernels at once, each with either pair of probes, 1 to 3 dimensions; `launcher.cpp` with one workgroup | `SliceKept`, `OneSlotPerWave`, `BufferPerLaunch` | handles and block counts survive from entry to exit |
| `LaunchRace` | 2 threads | `BufferPerLaunch` violated | a launch may be given another launch's buffer |
| `Regions` | 4 regions and the root, 2 conditions, a body anywhere; an else is one instruction, a divergent loop lies outside of all regions | `TypeOK`, `GuardsTellLanes`, `StackIsNesting` | guards are right for every nesting of ifs, `&&` and else that keeps to this |
| `Blocks` | every graph of 4 blocks, one perhaps in another function; up to 2 definitions anywhere | `OrderComplete`, `EdgesForward`, `RegionsTogether`, `SearchFinds`, `LatchTold` | the order suits the stack machine, searches find a definition that reaches the use if there is one, branches of loops are described as they behave, for every compare operator |
| `Provenance` | kernels with several descriptors and signatures, any three instructions | `LabelsTrue`, `LanesKnown`, `FieldsNamed` | labels of operands are true of the registers, except of operands that are stale (section 5) |
| `Pipeline` | 27 libraries of 3 functions with 486 hash assignments or 252 listings; 2 objects of one kernel and 4 of two; 3 hosts; 2 hostcalls | `ReadersFind`, `UsageTold`, `ReadOnlyLoads`, `ArgumentsArrive`, `ScratchGranted`, `LauncherEnds` | tables that fit their room are consistent for every reader, a launch of a kernel the first one stands for gets its arguments, every launch its scratch, a launcher ends whatever the kernel does |

The violated properties quote the comment they are taken from; `PROJECT.json`
repeats them as findings with the lines that disagree.

Some configurations are kept for what they show and are run by hand (`tlc -config
OddGroups.cfg MCPerWaveBuffers`).  Each lifts a restriction of the run above it, or states a comment
that the code departs from, and TLC finds the property violated:

| Configuration | Property | What it shows |
|---|---|---|
| `OddGroups` | `OneSlotPerWave` | with workgroups that do not fill their wavefronts `launcher.cpp:173` counts too few slices; its lines 166-167 promise one per wavefront |
| `SplitGrid` | `SliceKept` | the kernel multiplies by hidden dimensions that `launcher.cpp:213-217` leaves zero, so all workgroups share the slices of the first, against lines 189-190 |
| `SplitElse` | `GuardsTellLanes` | an else of two instructions is two else transitions (`structure.C:228, 246`), against lines 225-226 and 1009-1010 |
| `LoopInIf` | `StackIsNesting` | the mask of a divergent loop inside an if looks like an else (`structure.C:247-248`), against lines 651-652 |
| `Reroutes` | `RerouteMarked` | `structure.C:1041` overwrites the mark that lines 1024-1025 give an irregular region |
| `SkipInLoop` | `ExecLoopsDiverge` | a branch that merely skips code inside a loop is taken for the branch of a divergent loop (`structure.C:540`), against lines 521-522 and 534 |
| `Ungranted` (`MCLoaderHooks`) | `MailboxReached` | `hostcall_hooks.h:188` drops the status of `hsa_amd_agents_allow_access`: the service starts and all that load later link to a mailbox the GPU may not touch, against lines 172-173 |
| `ReusedPointer` (`MCProvenance`) | `ReusedPointerForgotten` | nothing ends `kernargBase` (`structure.C:887`): loads through the register go on being taken for arguments after it was overwritten, against lines 694-695 |
| `HalfWritten` (`MCProvenance`) | `OverwrittenForgotten` | a write to one half of a labelled pair leaves the pair its label, against line 694 |
| `MaskedTest` (`MCProvenance`) | `TestsAreNoFields` | every dword loaded from the arguments counts as packed, so `n & 1` is called `n` (`structure.C:943-945`), against line 936 |
| `GrownTables` (`MCInstPipeline`) | `NothingOverwritten` | `--tables both`, the default (`add_object_aliases.py:470-472`), lets pinned tables grow over what follows; lines 500-504 know of it and spare `.symtab` edits only |
| `FirstKernelCount` (`MCInstPipeline`) | `EveryKernelServed` | the count of the first kernel is applied to all (`hostcall_hooks.h:318-353`): the buffer takes the place of an argument, or arrays are read past their end, against lines 315-316 |

### Bounds

- *Ring.*  The hazards need a slot with an owner, a wave queued behind it and a
  third that takes a ticket meanwhile; two slots, so that the host can be at the
  wrong one and a slot be behind the scan; and tickets that come round: nine
  calls over six tickets.  `MaxResident = Gens` is the tightest instance the
  assumption admits: with one wave more two waves would hold one ticket.  In
  the code `Gens` is 2^24, far above what a GPU holds.
- *Liveness and refinement.*  One wave more than there are places: a queued wave must wait
  for one that spins.  Two calls each, so that turns are handed on.
- *Files.*  With three waves over two slots each wave meets slots last used by each
  other wave, for each kind of call; records of three bytes exceed `DataSize`, the
  reader drains its file.
- *Loads.*  Two threads meet in each pair of steps; the second executable
  distinguishes "once per process" from "once per executable".  One of the library, the
  manifest and the three files of its first line may be unreadable; the second line is
  whole.  Any of the HSA calls may fail, each at any time it is made.
- *Launches.*  Wavefronts of two lanes, blocks of 3x1x1, 1x2x1 and 1x1x3 threads: full
  and partly filled wavefronts, more than one per block, more than one block.
  Three block entries in all tell a counter from a flag and from another wavefront's.
  The properties are proved for all dimensions and any number of launches.
- *Regions.*  Four regions beside the root hold an if with else inside each arm of another, and
  chains of elses; two conditions already tell `A && B` from `A`, `B`
  and their negations.  One body suffices as it may be put anywhere.
- *Blocks.*  Four blocks with at most six edges, two out of each, hold a diamond in a loop,
  nested and irreducible loops, and unreachable blocks.
- *Provenance.*  Three instructions after the entry make a chain of load, split and
  arithmetic, or of two loads and an overwrite between them; an operand can become stale, be
  read while it is, and be written anew.
- *Pipeline.*  Hash values 0, 3 and 5 under words of four bits collide in bucket, in bloom
  filter and in full.  Three functions make cycles of length one to three and calls of
  names that are not described.  A library is edited up to twice; one with a
  listing is edited as the Makefiles do it, in `.symtab` only.  `.rodata` leaves `.dynsym` room for
  five symbols: of 27 libraries the one that exports three functions and gets three aliases
  outgrows it, the others show what the tables are like when they fit.  A second kernel has as
  many arguments as the first, more or fewer, and its hidden arguments where the first has them
  or elsewhere; either kernel may have a signature the launchers are written for.  Tables are varied before
  the kernel is instrumented, kernels after it: the stages share nothing else.

`SYMMETRY` is used only in runs without liveness properties, over sets of which
no element is named in the module.  Deadlock is checked in `RingSafety` and
`Files`, `Finished` being the only state in which they may stay, and in `Regions`, where
code may always go on; elsewhere the
system may stop: the application stops making calls, a kernel waits for a service
that has been stopped, a walk over blocks or instructions ends.

### Fairness

`FairSpec` assumes weak fairness of each wave's steps inside a hostcall, of the kernel
around it, of the dispatch of queued waves, and of the service thread.  The first two
hold because a resident wavefront is issued again and again, spinning or not; the
third because the dispatcher fills places as they become free; the last because the
operating system schedules a thread that is runnable, and the loop polls.  A wave is
not assumed to make way for one that is queued, the cache is not assumed to evict
anything, nobody is assumed to stop the service.  That weak fairness is enough for
`EveryCallReturns` is the point of the ticket lock: no step of another wave can take
the turn from the wave it was passed to.

`InstPipeline!Spec` assumes weak fairness of the launcher's main thread, whose wait is
bounded to ten seconds (`TimesOut` is always enabled in it), and of the service thread
once it has been told to stop.  Nothing is assumed of the kernel.

## 4. What is proved

Each theorem holds for all values of the constants that satisfy the named assumptions
of its module; TLC evaluates these assumptions in every run.  Where a theorem has a
further hypothesis it is an operator (`Single`, `OneGroup`, `LoopsOutside`) or a constant
(`Overlap`, `SplitElses`), and where a property excepts some states it says which
(`stale`, `Clobbered`, `FirstStandsForK`); a configuration of section 3 shows what happens
without it.
For each invariant that is not inductive as it stands, the strengthening is named.

**`HostcallRingProofs`**, for all `Waves`, `NSLOTS`, `Gens`, `MaxCalls`, requests and
results, under `RingAssumption` (at most `Gens` waves are resident),
`DataAssumption` and `NoneAssumption` (there are finitely many waves; `None` is no
request, reply or cache line):

- `TypeCorrect`: `Spec => []TypeOK`.  The invariant is `TypeOK` with the additional
  fact that a wave inside a hostcall has a request to make (`TypeInv`).
- `TicketsInOrder`: `Spec => []TicketQueue`.  The holders of the tickets of a slot
  stand behind its `turn` at the distances 0, 1, 2, ... without gap or doubling,
  and the next ticket for the slot is the one behind the last.  This is inductive only
  together with three facts, `RingInv`: the types, that an owner's ticket is the
  turn of its slot (`OwnerAtTurn`: `hc_release` re-reads its ticket from `turn`), and
  that no more than `MaxResident` waves are resident (`ResidentBound`).  The bound is
  needed when a ticket is taken: were there `Gens` holders already, the distance of the
  new one would wrap to 0.  A ticket is the pair of its slot and its generation, and
  adding `NSLOTS` moves the generation on by one, modulo `Gens`.
- `ExclusiveSlots`: `Spec => []SlotExclusive`, from the two: two owners of a slot
  are both at distance 0, hence one.
- `OwnersRequest`, `OwnAnswer`, `Handover`, `Restored`, `CleanStop`: the properties
  `HostReadsOwnersRequest`, `AnswersOwnCall`, `HandoverWhenIdle` (on the step that moves
  a turn), `RingRestored` and `StopLeavesNoHalfAnswer` (for both values of `EarlyStop`).
  They follow from `AnswerInv`, which adds to `RingInv` what is in the slots and in the
  caches (`SlotInv`): the status tells how far the owner is (`StatusInv`), a slot that is
  not idle has an owner (`InUseInv`), only an owner before its `s_dcache_inv` has a cache
  line and only one before its `s_dcache_wb` a dirty one (`LineInv`), and from there on its
  request is in memory (`RequestInv`) until the host has answered just that
  (`HostInv`, `ReplyInv`, `GotInv`).  None of the parts is inductive without the others:
  that an eviction by one wave spares the request of another, for example, needs
  exclusive slots and `LineInv`.

- `RingImplementsPromise`: `Spec => Promise!SafeSpec`.  Under the mapping of
  `HostcallRefinement` the initial states agree, and each step of the ring is a step of
  `HostcallSpec` or leaves it alone.  The simulation uses `PromiseInv`, which is `AnswerInv`
  with the fact that a wave outside of a hostcall has no request (`IdleInv`): a publishing
  host is mapped to `Answer` of the one wave that owns the slot and still waits, and the
  answer is to that wave's request.

**`HostFilesProofs`**, for any number of waves, slots and files and any programs:

- `FilesTypes`: `Spec => []TypeOK`, with the operands each opcode finds in its slot.
- `NoStaleHandle`: `Spec => []HandlesOpen`, from `HandleInv`.
- `SiteIdsReachPrimary`: `Spec => []SiteIdsKept`, from `SiteInv`: tickets queue up behind the
  turns (`TicketInv`), a slot in use has its owner (`OwnerInv`), there is a primary file once
  an open has succeeded (`PrimaryInv`), and the site ids that were serviced, returned or not,
  are in it (`StoredInv`).
- `WritesReachFile`: `Spec => []WritesLand`, from `LandInv`.  Until a request is served the slot
  holds what its wave has stored (`RequestInv`); waves write to open files only, and only files
  open for writing hold anything (`KnownInv`); and the records of a wave in a file are those of
  its calls that have returned, in order, and the one that has been served but not
  returned, provided the wave has made no `hc_write` (`LandedInv`).  What a file
  holds of one wave is picked out by a recursive function, about which `PicksExist`,
  `PicksAgree` and `PickedAppend` are proved by induction.

**`LoaderHooksProofs`**, for any number of threads, executables, readers and mailboxes and
any failures.  `Base` is the types (`TypeInv`), the readers in use (`UseInv`) and the
configuration as loaded (`ConfigInv`):

- `OneDefinition`: `Spec => []DefinedOnce`, however the loads overlap (`DefinedInv`: what is not
  yet augmented has no definition).
- `OneServiceThread`: `~ Overlap`, `Spec => []StartedOnce`, and `LinkedCodeServed`: `~ Overlap`,
  `Spec => []LinkedMeansServed` (`StartInv`: until the service is started one thread at most
  is inside the load hook, and how far it is tells what it has set up, whether the runtime has
  granted or refused access among it; `ServedInv`: there is one mailbox, and code that links
  has it).  The run `LoadRace` has `Overlap`.
- `FaultsAreLocal`: `~ Overlap`, `Spec => []FaultsStayLocal`, from these two and `LinkInv`: readers
  of instrumented code are known, the mailbox is there when it is used, code comes only to
  executables that have what it needs.  A refused grant is the failure that does not stay
  local; the property says so (`Spoilt`).

**`PerWaveBuffersProofs`**, for all dimensions, wavefront sizes and numbers of launches:

- `WavesInRange` (the index lies in the buffer), `WavesApart` (two threads have one index
  exactly if the hardware puts them into one wavefront) and `EverySliceUsed` (the index is onto).
  The index is a number in mixed radix, of rows, planes and blocks.
- `OneBufferPerLaunch`: for one launching thread (`Single`), `Spec => []BufferPerLaunch`, from
  `OwnInv` (the global names the buffer of the launch under way, which no kernel has yet).
- `SlicesKept` and `SlotForEveryWave`: with `Single`, and `launcher.cpp` asked for one workgroup
  (`OneGroup`), `Spec => []SliceKept` and `Spec => []OneSlotPerWave`.  `FitsInv` says that a
  buffer is as large as the launch it was made for, so that the theorems about the index apply;
  `SlicesInv` what the slices of each kernel's wavefronts hold.

**`RegionTreeProofs`**, for any number of regions, conditions and instructions:

- `TreeTypeOK`: `Spec => []TypeOK`, with what the second instruction of a pair may rely on
  (`PendingInv`), that a region refers to regions made before it (`BackInv`), and that the
  open regions lie on the stack in the order they were made (`AscendInv`).
- `StackFollowsNesting`: with no divergent loop in a region (`LoopsOutside`),
  `Spec => []StackIsNesting`, with the fact that the end of a loop comes outside of every
  region (`NestInv`).
- `GuardsAreLanes`: if in addition an else is one instruction, `Spec => []GuardsTellLanes`.
  Guards are recursive over the tree, and a new region changes the domain of the recursion.
  What is inductive (`GuardInv`) is that every function that solves the
  equations of the guards gives the lanes: a solution on the larger tree, restricted,
  solves the equations of the smaller.  The recovered guard is a solution.

**`ControlFlowProofs`**, for every finite set of blocks, every graph over it and every order of
its edges:

- `BlocksInOrder`, `ForwardEdges`, `RegionsStayTogether`: `OrderComplete`, `EdgesForward` and
  `RegionsTogether`.  The invariant is that of a depth-first search by a work list,
  `OrderInv`: what is marked is done or on the list (`SeenInv`), expanded once (`OnceInv`), the
  entry at the bottom (`EntryInv`); the successors of an expanded block are marked or lie above
  it (`ChildrenInv`); a path of expanded blocks leads to each entry (`PathInv`), and what
  dominates an entry is expanded below it (`DomInv`); the successors of an emitted block were
  emitted before it or close a cycle (`ForwardInv`); what is emitted between a block and its
  dominator lies on a path from the dominator that avoids the block (`TogetherInv`).
- `SearchesFind`: `SearchFinds`, from `SearchInv`: what is visited reaches the use without a
  definition on the way, and a visited block that the search has left has no unvisited
  predecessor.
- `LatchesTold`: `LatchTold`.  From every block of a loop an edge stays in it (`LoopGoesOn`), so a
  branch with one edge out of the loop goes on by the other.
- That `Closure` is what it says, the least set closed under the steps (`ClosureIs`), is proved by
  induction on the number of rounds.

**`ProvenanceProofs`**, for any kernels, notes and operands and code of any length, under
`KernelsAssumption` (where the hardware may put the user registers and the block's
coordinates), `NoteAssumption` (symbols are unique, parameters numbered as they come, and
only an argument of two bytes may share a dword) and `OperandsAssumption` (a pair is two
consecutive registers, scalar loads are of dwords):

- `ProvenanceInvariant`: `Spec => []IInv`, and from it `LabelsAreTrue`, `LanesAreKnown` and
  `FieldsAreNamed`: `LabelsTrue`, `LanesKnown` and `FieldsNamed`.  Of operands that are not stale:
  every label has evidence (`Told`); a remembered dword is the one at the place remembered
  (`Traced`); and if there is a descriptor, a pair that holds an address is called that address
  (`Pointed`) and a loaded field is remembered and named (`Remembered`).  A transfer that reads
  sound operands writes a sound one, and one that writes over part of another operand makes that
  one stale; `FieldsNamed` needs `Pointed`, for a load off an address that had lost its label
  would name nothing.
- What a label says (`Says`) is that it and its parts, level by level, fit what is there.  The proofs
  use evidence in its place: a set of pairs of a label and a content that is closed under
  parts and in which every pair fits.  Evidence for what an instruction writes is put together
  from that of its operands, and `EvidentSays` shows, once, that evidence implies `Says`.

**`InstPipelineProofs`**, for any functions, hash values, listings, sections, series of edits,
objects and signatures, under `TablesAssumption` (words and the displacement are not zero, a
read-only section is loaded), `LibrariesAssumption` (kinds of functions and of edits),
`ObjectsAssumption` (a kernel has arguments, of 4 or 8 bytes, and a name of its own),
`NoneAssumption` and `UnreadAssumption` (the markers for "nothing" are no values):

- `ReadOnlyDataLoads`: `Spec => []ReadOnlyLoads`.  `FileInv`: sections that are loaded lie where
  they did.  `SegmentInv`: tables grow by edits of `.dynsym` only, and once edited the first
  segment reaches to the end of the last read-only section, grown as it may be; this takes that
  `.dynsym` has a length (`LibInv`).
- `EveryReaderFinds`: `Spec => []ReadersFind`, for libraries whose tables fit their room.  By
  `LibInv` the tables of a library are those that `regen_gnu_hash` and `regen_sysv_hash` make of
  its `.dynsym`; its symbols are the declared functions, aliases and usage of one library, no name
  occurs twice, and an edited table has the aliases.  For the GNU table: ordered by bucket, the
  symbols of a bucket are a run from its first to its last (`Ends`), where the walk stops.  For
  the SysV table: a chain goes from each symbol of a bucket to the next lower one, so the walk
  meets all of them; that is by induction on the index.
- `ScratchIsGranted`: `Spec => []ScratchGranted`.  `NoteInv`: the note is the compiler's or, once
  expanded, what `expand_args.py` makes of that; once synced it agrees with the descriptors and
  the program header points to it.  `LaunchInv` adds that nothing is built after a host has
  been chosen.
- `EveryArgumentArrives`: `Spec => []ArgumentsArrive`.  The readers of the note take its first
  kernel for the launched one, and the property is about the launches where that does no harm
  (`FirstStandsForK`).  They search the packed note as a flat sequence; it starts with the
  arguments of the first kernel (`FirstReads`), so that counting them gives the length of the
  signature (`ArgumentsCounted`) and a hidden argument has the offset the compiler gave it
  (`OffsetRead`), also after the note was expanded.  The parts of a segment (arguments, hidden
  block, buffer) lie apart from each other (`PartsApart`), and each host writes some of them once
  each and nothing else (`LauncherFills`, `NDFills`, `HipFills`); such a part reads as it was
  written (`FilledReads`).  `ArgumentsInv` says this of the segment under way, that the parts the
  kernel looks at are among those written, and that a launcher which has written nothing yet has
  the right offsets.

Library theorems about induction take a predicate as a parameter, which no backend can
instantiate.  Where a proof needs induction it states it for a set of naturals (`SetInduction`),
proved from a least element (`LeastNumber`).

Only model-checked: `JoinReturns`, `EveryCallReturns`, `GridDrains` and `LauncherEnds`, and the
fairness of `RingKeepsPromise` (liveness and ENABLED are beyond the prover); and `UsageTold` of
`InstPipeline`.  It says that the evaluator, which follows a listing's expressions name by name
with a memo, computes the usage that the compiler means, a maximum or a sum over paths of calls:
what a recursion over data computes for every input is out of the prover's reach.

## 5. Observations

The findings in `PROJECT.json` are those a run shows.  Met while modelling, and not
the subject of a run:

*Hostcalls.*

- A failed `fopen` comes back as handle 0 and `retval` -1 (`hostcall_service.cpp:26-27`),
  `hostcall_lib.cpp:87` says the handle is negative.

*Hooks and launchers.*

- `ensure_runtime` drops the status of `hsa_amd_agents_allow_access` (`hostcall_hooks.h:188`), sets
  `g_svc_started` and never asks again: if access is refused, the first and every later
  executable links to a mailbox that the GPU cannot reach (`Ungranted`).  `LinkedMeansServed` and
  `FaultsStayLocal` speak of that case apart from the others.
- The count of explicit arguments is that of the first kernel of the object and is
  applied to every kernel the process launches (`hostcall_hooks.h:318-353`).  In a kernel with more
  arguments the buffer takes the place of one, with fewer the hook reads past the end of what the
  caller passed (`FirstKernelCount`).  It leaves out the appended
  argument because that one follows the hidden block (`hostcall_hooks.h:312-316`); in a
  kernel without hidden arguments nothing separates the two, and it is counted too.
- `hook_launch` takes its buffer from `hipMallocManaged` as it is, both launchers clear
  theirs; `bb_inc` counts from what is there.
- `bundle_device_co` keeps the last `amdgcn` entry of a fat binary
  (`hostcall_hooks.h:143`): one built for several GPUs is compared by that entry only.
- `launcher.cpp:213-217` leaves the hidden arguments of y and z zero;
  `global_wavefront_id` multiplies by them and gives all blocks the ids of the first
  (`SplitGrid`).  Its test `ka_sz >= 52` holds for every segment with a hidden block.  It
  counts `(N + 63) / 64` wavefronts (`launcher.cpp:173`), too few if `HOSTCALL_WG` is no
  multiple of 64 (`OddGroups`), and divides by zero if `HOSTCALL_N` is 0.
- `launcher.cpp` does not start without a coarse-grained pool, from which it allocates
  nothing; `launcher_nd.cpp` asks for none.
- After a timeout both launchers destroy the executable of a kernel that may still run.
  `LauncherEnds` shows that they end; what the kernel meets then is not modelled.

*Editors.*

- `expand_args.py` appends on every run.  HIP then has a descriptor with one argument more
  than it is given; `Pipeline` runs the editors as the scripts do, once.
- `add_object_aliases.py` with `--tables both`, the default, or `dynsym` makes `.dynsym` and its
  hash tables grow where lines 514-518 pin them, over what follows if the linker left no room
  (`GrownTables`).  The comment at lines 500-504 knows that this makes an invalid object, and that
  `.gnu.hash` and `.hash` may overlap from the start; the code avoids it for `.symtab` only.
  `ReadOnlyLoads` and `ReadersFind` are about what is not overwritten.  Run again with another
  `--asm` it keeps the register usage it exported the first time.

*Structure recovery.*

- The two-instruction form of an else (`s_or_saveexec`, then `s_xor exec`) counts as two
  else transitions in `classify()`, and the guard of the arm is negated twice
  (`SplitElse`).  `GuardsTellLanes` is shown and proved for the one-instruction form.
- A divergent loop inside a region confuses the stack (`LoopInIf`), one outside does not.
- `closeRegion` (`structure.C:1038`) compares addresses only for an if without else: the
  arm that is closed otherwise has no reconvergence address, so it is always balanced.
  That clears the mark of a rerouted arm, which is closed this way (`Reroutes`).
- `recoverScalarLoops` looks at every block of a loop that ends in `s_cbranch_scc`, where its
  comment (`structure.C:473`) says "each latch": a branch inside the body is printed as
  "continue-if" as well.  `LatchTold` is about the branches that have a way out of the loop.
  `recoverExecLoops` likewise takes any EXECZ branch of a block in a loop (`SkipInLoop`).
- `cmpOp` prints `NGT` as `<=` and `NLT` as `>=`; with a NaN among the operands the compare holds
  and the printed condition does not.
- The backward searches mark the block of the use as visited before they leave it, so a
  definition that follows the use in its own block and comes round a loop is not
  found.  `SearchFinds` excuses that case only (`late`).
- Labels follow operands, not registers.  A write to one half of a labelled pair, or to a pair
  over a labelled single, leaves the other label standing (`HalfWritten`); after a base pair is
  overwritten by a load, later loads through it are still taken for kernel arguments, against
  `structure.C:693-696` (`ReusedPointer`).  Every loaded dword counts as packed, so `n & 1` is
  labelled `n` (`structure.C:936-945`, `MaskedTest`), where the comment keeps that rule for 16-bit
  fields.
- One state is carried through all blocks in reverse post-order, so what one arm of a
  branch wrote is believed in the other; an opcode is matched by its prefix, so
  fused and high-half multiplications count as the plain ones; a register offset
  of `S_LOAD` is taken as 0.

That is why the properties of `Provenance` are about operands that are not *stale*.  An operand
becomes stale when a register of it is written under another name while the pass keeps what it
knew, or when it is written by an instruction whose meaning the pass gets wrong (a load through
an address that is not the one it is taken for, an address or a loaded pair copied in parts, a
mask of a loaded dword that does not split it, a second shift) or from a stale operand.  It is
sound again once it is written, under its own name, from sound ones.  Nothing is assumed of the
code: the properties hold of every sound operand whatever happened to the others.

## 6. Plan

All modules of section 2 are built and checked, and every invariant and action property of the
runs is proved except `UsageTold`.  What could come next:

1. `UsageTold` without the memo: the evaluator as a least fixed point over the functions of a
   listing, for which `ClosureIs` of `ControlFlowProofs` is a pattern; the memo stays with TLC.
2. The remaining loop kinds of `structure.C` (lines 549-587), with the marks of a block that
   several of them claim.

## 7. Not modelled

- Dumps and logging; how agents and memory pools of HSA are found,
  beyond that one may be missing and each call that the hooks and launchers make with them may
  fail.
- The `la_` callbacks of `audit.cpp` and the trace interposer: they bind names to the hooks
  and print.
- Of `user_probe.cpp`, `pw_magic`, markers and the formatting of numbers; the bounds of a slice
  against the text put into it.  The other stateless probes (`user_probe`, `pw_openfile`,
  `pw_writeln`, `real_write`, `bv_write`) are programs in `HostFiles`.
- In `structure.C`: reading files, printing, conditions as text; of loops, the
  waterfall and dispatch kinds (lines 549-587) and their bounds and steps.
- Mutators (`instrumentation/mutators`): straight-line clients of Dyninst, whose source
  is a submodule that is not part of the repository.
- CFG printers of `analysis/cfrecovery` (`cfgraph.C`, `simtcfg.C`, `bracket.C`, ...): single
  passes over the graphs Dyninst builds.
- `decode_kd.py`, which prints a descriptor; what scripts and experiments compare.
- Mutatees, `tools/probe`, `archive`: examples, and earlier versions kept for reference.
