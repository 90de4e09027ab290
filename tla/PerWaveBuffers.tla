--------------------------- MODULE PerWaveBuffers ---------------------------
(***************************************************************************)
(* Per-wave state on its way from the ENTRY probe to the EXIT probe of an  *)
(* instrumented kernel.  The launch hook (hook_launch) or a launcher sizes *)
(* a buffer, allocates it and passes it with the arguments of the launch;  *)
(* the kernel runs asynchronously, and each of its wavefronts keeps its    *)
(* state in a slice: a file handle from pw_open to pw_flush, or a counter  *)
(* for each block, from bb_inc to bb_flush_pw.                             *)
(*                                                                         *)
(* A launch is [grid, block, work]: blocks of the grid, threads of a block *)
(* and the threads along x there is work for, which may end in a block.    *)
(***************************************************************************)
EXTENDS WaveIndex, Sequences, FiniteSets

CONSTANTS Threads,      \* threads of the application that launch kernels
          Shapes,       \* the launches they ask for
          NDRuns,       \* of launcher_nd.cpp: the launches BX .. GZ ask for
          Runs,         \* of launcher.cpp: HOSTCALL_N, and HOSTCALL_WG or 0
          MaxGroup,     \* threads of a workgroup at most: 1024
          Blocks,       \* the basic blocks that are counted
          MaxRuns,      \* bound: block entries of a kernel's wavefronts, in all
          MaxKernels,   \* launches in all
          Null

ASSUME BuffersAssumption ==
    /\ {MaxKernels, MaxRuns} \subseteq Nat /\ MaxGroup \in Nat \ {0}
    /\ Shapes \union NDRuns \subseteq [grid : Dims, block : Dims, work : Nat]
    /\ \A s \in Shapes \union NDRuns : s.work = s.grid.x * s.block.x
    /\ Runs \subseteq [n : Nat \ {0}, group : Nat]
    /\ Null \notin Nat

VARIABLES
    g_arg_buf,    \* the buffer of the launch under way, or Null
    bufs,         \* bufs[i]: the slices buffer i has room for
    kernels,      \* kernels[k]: shape of the k-th kernel, dimensions its hidden
                  \* arguments tell, buffer and probes
    slice,        \* slice[i]: the slices of buffer i that have been written
    wave,         \* wave[k]: how far the wavefronts of kernel k are, and how
                  \* often each has entered the blocks
    asked, pc     \* of a thread: the launch it makes, and how far it is

vars == <<g_arg_buf, bufs, kernels, slice, wave, asked, pc>>

(* The first threads of the wavefronts of a launch. *)
Waves(s) ==
    {w \in [block : Within(s.grid), thread : Within(s.block)] :
        /\ Flat(w.thread, s.block) % Wave = 0
        /\ w.block.x * s.block.x + w.thread.x < s.work}

(* blockDim and gridDim are what the hidden arguments tell.                *)
SliceOf(told, w) == WavefrontId(told.grid, told.block, w.block, w.thread)

Zero == [b \in Blocks |-> 0]

Init ==
    /\ g_arg_buf = Null
    /\ bufs = <<>> /\ kernels = <<>> /\ slice = <<>> /\ wave = <<>>
    /\ asked = [t \in Threads |-> Null]
    /\ pc = [t \in Threads |-> "idle"]

Requested == Len(kernels) + Cardinality({t \in Threads : pc[t] = "launch"})

(* A slip: a buffer that is there is used again. *)
AllocateOnce(t) ==
    /\ pc[t] = "idle"
    /\ Requested < MaxKernels
    /\ \E s \in Shapes :
          /\ asked' = [asked EXCEPT ![t] = s]
          /\ IF g_arg_buf = Null
             THEN /\ bufs' = Append(bufs, NWaves(s.grid, s.block)) /\ slice' = Append(slice, {})
                  /\ g_arg_buf' = Len(bufs')
             ELSE UNCHANGED <<bufs, slice, g_arg_buf>>
    /\ pc' = [pc EXCEPT ![t] = "launch"]
    /\ UNCHANGED <<kernels, wave>>

(* hipMallocManaged writes the address into the global.                    *)
Allocate(t) ==
    /\ pc[t] = "idle"
    /\ Requested < MaxKernels
    /\ \E s \in Shapes :
          /\ bufs' = Append(bufs, NWaves(s.grid, s.block))
          /\ asked' = [asked EXCEPT ![t] = s]
    /\ slice' = Append(slice, {})
    /\ g_arg_buf' = Len(bufs')
    /\ pc' = [pc EXCEPT ![t] = "launch"]
    /\ UNCHANGED <<kernels, wave>>

(* No memory: the launch goes ahead with the application's arguments, and  *)
(* the kernel has no buffer to keep anything in.                           *)
AllocateFails(t) ==
    /\ pc[t] = "idle"
    /\ Requested < MaxKernels
    /\ \E s \in Shapes :
          kernels' = Append(kernels, [shape |-> s, told |-> s, buf |-> Null, probes |-> "none",
                                      left |-> 0])
    /\ wave' = Append(wave, <<>>)
    /\ UNCHANGED <<g_arg_buf, bufs, slice, asked, pc>>

(* hipLaunchKernel copies what the global holds into the kernel arguments; *)
(* HIP fills in the hidden ones.                                           *)
Launch(t) ==
    /\ pc[t] = "launch"
    /\ \E probes \in {"perwave", "count"} :
          kernels' = Append(kernels, [shape |-> asked[t], told |-> asked[t], buf |-> g_arg_buf,
                                      probes |-> probes, left |-> MaxRuns])
    /\ wave' = Append(wave, [w \in Waves(asked[t]) |-> [at |-> "new", ran |-> Zero]])
    /\ pc' = [pc EXCEPT ![t] = "idle"]
    /\ asked' = [asked EXCEPT ![t] = Null]
    /\ UNCHANGED <<g_arg_buf, bufs, slice>>

-----------------------------------------------------------------------------
(* The launchers: processes of their own, with one kernel.                 *)

(* wg: HOSTCALL_WG, or one workgroup for all, within what the device takes. *)
Workgroup(r) ==
    LET wg == IF r.group # 0 THEN r.group ELSE r.n
    IN  IF wg < MaxGroup THEN wg ELSE MaxGroup

(* hsa_kernel_dispatch_packet_t: a grid of N threads.                      *)
Packet(r) ==
    [grid  |-> [x |-> (r.n + (Workgroup(r) - 1)) \div Workgroup(r), y |-> 1, z |-> 1],
     block |-> [x |-> Workgroup(r), y |-> 1, z |-> 1],
     work  |-> r.n]

(* The hidden arguments launcher.cpp writes: x, the rest stays zero.       *)
HiddenArgs(r) ==
    [grid  |-> [x |-> Packet(r).grid.x, y |-> 0, z |-> 0],
     block |-> [x |-> Workgroup(r), y |-> 0, z |-> 0]]

(* n_waves of launcher.cpp, and of launcher_nd.cpp.                        *)
LauncherSlots(r) == (r.n + (Wave - 1)) \div Wave
NDSlots(s) == Volume(s.grid) * WavesPerBlock(s.block)

(* instbuf is cleared before the kernel is dispatched.                     *)
Dispatch(s, told, n) ==
    /\ Requested < MaxKernels
    /\ bufs' = Append(bufs, n) /\ slice' = Append(slice, {})
    /\ \E probes \in {"perwave", "count"} :
          kernels' = Append(kernels, [shape |-> s, told |-> told, buf |-> Len(bufs'),
                                      probes |-> probes, left |-> MaxRuns])
    /\ wave' = Append(wave, [w \in Waves(s) |-> [at |-> "new", ran |-> Zero]])
    /\ UNCHANGED <<g_arg_buf, asked, pc>>

Launcher(r) == Dispatch(Packet(r), HiddenArgs(r), LauncherSlots(r))
LauncherND(s) == Dispatch(s, s, NDSlots(s))

-----------------------------------------------------------------------------
(* A wavefront's slice.  External: hipMallocManaged hands out new pages,   *)
(* which hold zeros.                                                       *)
Slice(k, w) ==
    LET i == SliceOf(kernels[k].told, w)
        written == {c \in slice[kernels[k].buf] : c.at = i}
    IN  IF written = {} THEN [at |-> i, handle |-> Null, counts |-> Zero]
        ELSE CHOOSE c \in written : TRUE

Store(k, c) ==
    slice' = [slice EXCEPT ![kernels[k].buf] = {d \in @ : d.at # c.at} \union {c}]

(* pw_open, at the entry of the kernel: the handle of the wavefront's own  *)
(* file is stored and the accumulators are reset.                          *)
Open(k, w) ==
    /\ kernels[k].probes = "perwave"
    /\ wave[k][w].at = "new"
    /\ wave' = [wave EXCEPT ![k][w].at = "open"]
    /\ Store(k, [Slice(k, w) EXCEPT !.handle = <<k, w>>, !.counts = Zero])
    /\ UNCHANGED <<g_arg_buf, bufs, kernels, asked, pc>>

(* One of the active lanes adds to the counter it is handed.               *)
bb_inc_one(c, b) == [c EXCEPT !.counts[b] = @ + 1]

(* bb_inc finds the counter of the block in the slice.                     *)
BlockEntry(k, w) ==
    /\ kernels[k].probes = "count"
    /\ wave[k][w].at = "new" /\ kernels[k].left > 0
    /\ kernels' = [kernels EXCEPT ![k].left = @ - 1]
    /\ \E b \in Blocks :
          /\ wave' = [wave EXCEPT ![k][w].ran[b] = @ + 1]
          /\ Store(k, bb_inc_one(Slice(k, w), b))
    /\ UNCHANGED <<g_arg_buf, bufs, asked, pc>>

(* At the exit they are read back and written to the wavefront's file, and *)
(* the wavefront ends: pw_flush for the handle, bb_flush_pw for counters.  *)
Flush(k, w) ==
    /\ wave[k][w].at = "open"
    /\ wave' = [wave EXCEPT ![k][w].at = "done", ![k][w].ran = Zero]
    /\ UNCHANGED <<g_arg_buf, bufs, kernels, slice, asked, pc>>

FlushCounts(k, w) ==
    /\ kernels[k].probes = "count" /\ wave[k][w].at = "new"
    /\ wave' = [wave EXCEPT ![k][w].at = "done", ![k][w].ran = Zero]
    /\ UNCHANGED <<g_arg_buf, bufs, kernels, slice, asked, pc>>

Next ==
    \/ \E t \in Threads : Allocate(t) \/ AllocateFails(t) \/ Launch(t)
    \/ \E r \in Runs : Launcher(r)
    \/ \E s \in NDRuns : LauncherND(s)
    \/ \E k \in DOMAIN kernels : \E w \in DOMAIN wave[k] :
          Open(k, w) \/ BlockEntry(k, w) \/ Flush(k, w) \/ FlushCounts(k, w)

Spec == Init /\ [][Next]_vars

-----------------------------------------------------------------------------
(* Persistent per-wave state (user_probe.cpp:90-93) and per-wave counts    *)
(* (168-172): what a wavefront reads back at its exit lies in the buffer   *)
(* and is its own, the handle it stored at its entry or the number of      *)
(* times it entered each block, whatever else runs on the device.          *)
SliceKept ==
    \A k \in DOMAIN kernels : \A w \in DOMAIN wave[k] :
        /\ wave[k][w].at = "open" => Slice(k, w).handle = <<k, w>>
        /\ kernels[k].probes = "count" /\ wave[k][w].at = "new" =>
              Slice(k, w).counts = wave[k][w].ran
        /\ wave[k][w].at # "done" => SliceOf(kernels[k].told, w) < bufs[kernels[k].buf]

(* The slices a launcher finds written when it dumps the buffer.           *)
Written(k) == Cardinality(slice[kernels[k].buf])

(* "Sized HERE, at launch, from the actual wave count"                     *)
(* (hostcall_hooks.h:330-331), "to one SLOT per grid wave"                 *)
(* (launcher.cpp:166-167): a kernel's buffer has a slice for every         *)
(* wavefront the grid is split into, and when all have been at their entry *)
(* "a correct wid bijection writes ALL" (launcher_nd.cpp:195).             *)
OneSlotPerWave ==
    \A k \in DOMAIN kernels : kernels[k].buf # Null =>
        /\ bufs[kernels[k].buf] >= Cardinality(DOMAIN wave[k])
        /\ kernels[k].probes = "perwave" /\ (\A w \in DOMAIN wave[k] : wave[k][w].at # "new") =>
              Written(k) = bufs[kernels[k].buf]

(* "this launch's per-wave arg buffer" (hostcall_hooks.h:309): no two      *)
(* launches give their kernels one buffer.                                 *)
BufferPerLaunch ==
    \A j, k \in DOMAIN kernels :
        kernels[j].buf # Null /\ kernels[j].buf = kernels[k].buf => j = k
==============================================================================
