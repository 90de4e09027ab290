---------------------------- MODULE InstPipeline ----------------------------
(***************************************************************************)
(* From a linked device library and a kernel to a launch that can run.     *)
(* The Makefiles edit the library's symbol tables; a mutator inserts calls *)
(* into the kernel and grants it what the callees use; the scripts bring   *)
(* the note of the code object in step with that; and one of three hosts   *)
(* loads both and launches the kernel: launcher.cpp, launcher_nd.cpp or    *)
(* HIP with the launch hook of hostcall_hooks.h.                           *)
(***************************************************************************)
EXTENDS SymbolTables, KernargNotes

CONSTANTS Kinds,       \* the libraries: how each function is declared
          Uses,        \* what the tool is run with: <<tables, listing or None>>
          Hashes,      \* what the names may hash to
          CodeObjects, \* the code objects: sequences of [name, sizes, named]
          Calls        \* bound: hostcalls a launched kernel makes

VARIABLES lib,         \* the library
          asm, edited, \* the listing of its compilation, the tables given aliases
          co,          \* the mutatee's code object
          stage,       \* how far the build is
          main,        \* of the host: what it does next
          host, k,     \* which host, and the kernel it launches
          off,         \* launcher_nd.cpp: OFF_BC and OFF_GS
          exe,         \* what the HSA executable holds
          writes,      \* what has been written to the kernarg segment, in order
          priv,        \* private_segment_size of the dispatch packet
          svc,         \* the service thread
          wave         \* the kernel on the device

build == <<lib, asm, edited, co, stage>>
launch == <<host, k, off, exe, writes, priv>>
running == <<main, svc, wave>>
vars == <<build, launch, running>>

Names == {<<f>> : f \in Funcs} \union {Prefixed(<<f>>) : f \in Funcs}

(* The signatures launcher.cpp and launcher_nd.cpp are written for.        *)
LauncherSizes == {<<8, 8, 8, 4>>}
NDSizes       == {<<8, 8, 8, 4, 4>>, <<8, 8, 8, 4, 4, 4>>}

ASSUME NoneAssumption == None \notin {"hip", "launcher", "launcher_nd"}

ASSUME LibrariesAssumption ==
    /\ Kinds \subseteq [Funcs -> {"static", "exported", "undefined"}]
    /\ Hashes \subseteq [Names -> Nat]
    /\ \A u \in Uses : u[1] \in {"dynsym", "symtab", "both"}

(* A kernel has arguments of 4 or 8 bytes, and a name of its own.          *)
ASSUME ObjectsAssumption ==
    \A kernels \in CodeObjects :
        /\ kernels \in Seq(Range(kernels))
        /\ \A i, j \in DOMAIN kernels :
              /\ kernels[i].sizes \in Seq({4, 8}) /\ kernels[i].sizes # <<>>
              /\ kernels[i].name = kernels[j].name => i = j

-----------------------------------------------------------------------------
(* The device library.                                                     *)

Order == SetToSeq(Funcs)
Address(f) == 1 + CHOOSE i \in DOMAIN Order : Order[i] = f

Declared(kind, f) ==
    [name |-> <<f>>, type |-> "FUNC",
     bind |-> IF kind[f] = "static" THEN "LOCAL" ELSE "GLOBAL",
     section |-> IF kind[f] = "undefined" THEN None ELSE ".text",
     value |-> IF kind[f] = "undefined" THEN 0 ELSE Address(f)]

(* External: the linker.  A static function is in .symtab alone.           *)
Linked(kind) ==
    LET all == [i \in DOMAIN Order |-> Declared(kind, Order[i])]
        hash == [n \in Names |-> 0]
        gnu == regen_gnu_hash(Kept(all, {i \in DOMAIN all : ~is_local(all[i])}), hash)
    IN  [dyn |-> gnu.dyn, sym |-> all, gnu |-> gnu, sysv |-> regen_sysv_hash(gnu.dyn, hash),
         hash |-> hash, off |-> [s \in Sections |-> s.addr], grown |-> FALSE, flags |-> "target",
         seg |-> [offset |-> 0, vaddr |-> 0, size |-> 0]]

Grows(tables) ==
    tables # "symtab" /\ Len(add_aliases(lib.dyn, collect_defined_funcs(lib))) > Len(lib.dyn)

(* A later run may come with the listing again, never with another one.    *)
(* The bound: a library with a listing is edited as the Makefiles do it.   *)
EditLibrary(tables, a, hash) ==
    /\ stage = "library"
    /\ asm = None \/ a \in {asm, None}
    /\ {asm, a} # {None} => edited \union {tables} = {"symtab"}
    /\ lib' = Edited(lib, tables, a, hash)
    /\ asm' = IF a = None THEN asm ELSE a
    /\ edited' = edited \union (IF tables = "both" THEN {"dynsym", "symtab"} ELSE {tables})
    /\ UNCHANGED <<co, stage, launch, running>>

-----------------------------------------------------------------------------
(* The code object.  External: the layout the compiler gives a kernel's    *)
(* arguments, with the hidden block (256 bytes) after the explicit ones.   *)

OffsetOf(sizes) ==
    LET end[i \in 0..Len(sizes)] ==
            IF i = 0 THEN 0
            ELSE ((end[i - 1] + sizes[i] - 1) \div sizes[i] + 1) * sizes[i]
    IN  [i \in 1..(Len(sizes) + 1) |->
            IF i > Len(sizes) THEN _align(end[i - 1]) ELSE end[i] - sizes[i]]

HiddenLayout == << <<"hidden_block_count_x", 0, 4>>, <<"hidden_block_count_y", 4, 4>>,
                   <<"hidden_group_size_x", 12, 2>>, <<"hidden_group_size_y", 14, 2>>,
                   <<"hidden_remainder_x", 18, 2>> >>

HiddenAt(s) == OffsetOf(s.sizes)[Len(s.sizes) + 1]
OriginalSize(s) == HiddenAt(s) + 256

Compiled(s) ==
    LET buffer(i) == << <<".address_space", "global">> >>
                     \o (IF s.named THEN << <<".name", i>> >> ELSE <<>>)
                     \o << <<".offset", OffsetOf(s.sizes)[i]>>, <<".size", 8>>,
                           <<".value_kind", "global_buffer">> >>
        plain(at, size, kind) == << <<".offset", at>>, <<".size", size>>, <<".value_kind", kind>> >>
    IN  [name |-> s.name, ksize |-> OriginalSize(s), priv |-> 0, vgpr |-> 8, sgpr |-> 16,
         args |-> [i \in DOMAIN s.sizes |->
                      IF s.sizes[i] = 8 THEN buffer(i) ELSE plain(OffsetOf(s.sizes)[i], 4, "by_value")]
                  \o [i \in DOMAIN HiddenLayout |->
                      plain(HiddenAt(s) + HiddenLayout[i][2], HiddenLayout[i][3], HiddenLayout[i][1])]]

(* External: a mutator.  Every kernel calls f; the descriptor grants it    *)
(* what the library tells of f, and its segment is 8 bytes longer.         *)
Told(f, key) ==
    {lib.sym[i].value : i \in {j \in DOMAIN lib.sym : lib.sym[j].name = Prefixed(<<f>>) \o <<key>>}}

Instrument(kernels, f) ==
    /\ stage = "library"
    /\ LET note == [i \in DOMAIN kernels |-> Compiled(kernels[i])]
           kd   == [priv |-> Max(Told(f, "private_seg_size") \union {0}),
                    vg |-> 2 + Max(Told(f, "num_vgpr") \union {0}), sg |-> 3]
       IN  co' = [note |-> note, segment |-> note,
                  kds |-> [n \in {kernels[i].name : i \in DOMAIN kernels} |-> kd],
                  kernels |-> kernels, calls |-> f, symbols |-> << >>]
    /\ lib' = LoaderFinds(lib, Prefixed(<<f>>))
    /\ asm' = None /\ edited' = {}
    /\ stage' = "instrumented"
    /\ UNCHANGED <<launch, running>>

SyncNote ==
    /\ stage = "instrumented"
    /\ co' = Replaced(co, Synced(co.note, co.kds))
    /\ stage' = "synced"
    /\ UNCHANGED <<lib, asm, edited, launch, running>>

(* simt_if.sh: the kernel gets the argument, and the object the mark that  *)
(* tells the hook to pass it (llvm-objcopy --add-symbol).                  *)
ExpandArgs(name, count) ==
    /\ stage = "synced"
    /\ co' = [Replaced(co, Expanded(co.note, name, count))
                 EXCEPT !.symbols = [mark \in {"__dyninst_pw_stride"} |-> 64]]
    /\ stage' = "expanded"
    /\ UNCHANGED <<lib, asm, edited, launch, running>>

-----------------------------------------------------------------------------
(* Arguments.  A write covers [at, at + size); the segment starts zeroed.  *)

Argument(i) == <<"argument", i>>
Write(at, size, what) == [at |-> at, size |-> size, what |-> what]

ReadsAs(at, size) ==
    LET hits == {i \in DOMAIN writes :
                    writes[i].at < at + size /\ at < writes[i].at + writes[i].size} IN
    IF hits = {} THEN <<"zero">>
    ELSE LET w == writes[Max(hits)] IN
         IF w.at = at /\ w.size = size THEN w.what ELSE <<"torn">>

KdSize(s) == OriginalSize(s) + 8

(* launcher.cpp: vectoradd(C, A, B, N) on a grid of one dimension.         *)
LauncherWrites(s) ==
    << Write(0, 8, Argument(1)), Write(8, 8, Argument(2)), Write(16, 8, Argument(3)), Write(24, 4, Argument(4)),
       Write(32, 4, <<"hidden_block_count_x">>), Write(44, 2, <<"hidden_group_size_x">>),
       Write(50, 2, <<"hidden_remainder_x">>), Write(KdSize(s) - 8, 8, <<"buffer">>) >>

(* launcher_nd.cpp: vectoradd(C, A, B, W, H[, D]).  Blocks are full, and   *)
(* the remainders stay zero.                                               *)
NDWrites(s) ==
    << Write(0, 8, Argument(1)), Write(8, 8, Argument(2)), Write(16, 8, Argument(3)), Write(24, 4, Argument(4)), Write(28, 4, Argument(5)) >>
    \o (IF Len(s.sizes) = 6 THEN << Write(32, 4, Argument(6)) >> ELSE <<>>)
    \o << Write(off.bc, 4, <<"hidden_block_count_x">>), Write(off.bc + 4, 4, <<"hidden_block_count_y">>),
          Write(off.gs, 2, <<"hidden_group_size_x">>), Write(off.gs + 2, 2, <<"hidden_group_size_y">>),
          Write(KdSize(s) - 8, 8, <<"buffer">>) >>

(* hook_launch: the buffer goes in after the first n arguments.            *)
hook_launch(args) ==
    LET n == pw_nargs(co.note, co.symbols)
    IN  IF n = Unread THEN args
        ELSE [i \in 1..n |-> IF i \in DOMAIN args THEN args[i] ELSE <<"past the end">>] \o << <<"buffer">> >>

NoteOf(s) == co.segment[Min({i \in DOMAIN co.segment : co.segment[i].name = s.name})]

(* External: HIP fills the segment from the note the program header points *)
(* to, and copies the i-th entry of args to the i-th explicit argument.    *)
HipWrites(s) ==
    LET args == NoteOf(s).args
        isHidden(a) == Get(a, ".value_kind") \notin {"global_buffer", "by_value"}
        explicit == Kept(args, {i \in DOMAIN args : ~isHidden(args[i])})
        given == hook_launch([i \in DOMAIN s.sizes |-> Argument(i)])
        implicit == Kept(args, {i \in DOMAIN args : isHidden(args[i])})
        put(a, what) == Write(Get(a, ".offset"), Get(a, ".size"), what)
    IN  [i \in DOMAIN explicit |->
            put(explicit[i], IF i \in DOMAIN given THEN given[i] ELSE <<"past the end">>)]
        \o [i \in DOMAIN implicit |-> put(implicit[i], <<Get(implicit[i], ".value_kind")>>)]

-----------------------------------------------------------------------------
(* A host.  A launcher goes from step to step of its main function, and    *)
(* ends with status 1 (or in HSA_CHECK) when one fails.                    *)

PrivateSize(h, s) ==
    IF h = "hip" THEN NoteOf(s).priv
    ELSE co.kds[s.name].priv

Step(from, to) == main = from /\ main' = to

Choose(h, s) ==
    /\ stage \in {"instrumented", "synced"}
    /\ \/ h = "launcher" /\ s.sizes \in LauncherSizes
       \/ h = "launcher_nd" /\ s.sizes \in NDSizes
    /\ Step("none", "start")
    /\ host' = h /\ k' = s
    /\ off' = [bc |-> co_read_kernarg_offset(co.note, "hidden_block_count_x"),
               gs |-> co_read_kernarg_offset(co.note, "hidden_group_size_x")]
    /\ UNCHANGED <<build, exe, writes, priv, svc, wave>>

(* An agent or a memory pool is not there, or HSA refuses something.       *)
Fails ==
    /\ \E from \in {"start", "load", "freeze", "arguments"} : Step(from, "ended")
    /\ UNCHANGED <<build, launch, svc, wave>>

(* A launch by HIP; how its service starts and ends is in LoaderHooks.     *)
HipLaunches(s) ==
    /\ stage \in {"synced", "expanded"}
    /\ Step("none", "ended")
    /\ host' = "hip" /\ k' = s
    /\ writes' = HipWrites(s)
    /\ priv' = PrivateSize("hip", s)
    /\ UNCHANGED <<build, off, exe, svc, wave>>

SetUp ==
    /\ Step("start", "load")
    /\ host = "launcher" \/ Unread \notin {off.bc, off.gs}
    /\ exe' = {"mailbox"}
    /\ UNCHANGED <<build, host, k, off, writes, priv, svc, wave>>

Load ==
    /\ Step("load", "freeze")
    /\ exe' = exe \union {"library", "mutatee"}
    /\ UNCHANGED <<build, host, k, off, writes, priv, svc, wave>>

(* Freezing resolves the inserted calls: their aliases must be there.      *)
Freeze ==
    /\ Step("freeze", IF lib = {} THEN "ended" ELSE "arguments")
    /\ UNCHANGED <<build, launch, svc, wave>>

Arguments ==
    /\ Step("arguments", "service")
    /\ writes' = IF host = "launcher" THEN LauncherWrites(k) ELSE NDWrites(k)
    /\ UNCHANGED <<build, host, k, off, exe, priv, svc, wave>>

StartService ==
    /\ Step("service", "dispatch")
    /\ svc' = "on"
    /\ UNCHANGED <<build, launch, wave>>

Dispatch ==
    /\ Step("dispatch", "wait")
    /\ priv' = PrivateSize(host, k)
    /\ wave' = [wave EXCEPT !.at = "running"]
    /\ UNCHANGED <<build, host, k, off, exe, writes, svc>>

(* hsa_signal_wait_scacquire: for the completion signal or for 10 seconds. *)
Completed ==
    /\ wave.at = "ended"
    /\ Step("wait", "stop")
    /\ UNCHANGED <<build, launch, svc, wave>>

(* A slip: the wait has no limit. *)
NeverTimesOut == FALSE /\ UNCHANGED vars

TimesOut ==
    /\ Step("wait", "stop")
    /\ UNCHANGED <<build, launch, svc, wave>>

StopService ==
    /\ Step("stop", "join")
    /\ svc' = "stopping"
    /\ UNCHANGED <<build, launch, wave>>

Join ==
    /\ svc = "gone"
    /\ Step("join", "report")
    /\ UNCHANGED <<build, launch, svc, wave>>

(* The dump, the verification, and the end of queue and executable.        *)
Report ==
    /\ Step("report", "ended")
    /\ exe' = {}
    /\ UNCHANGED <<build, host, k, off, writes, priv, svc, wave>>

(* The device and the service thread.                                      *)
Call ==
    /\ wave.at = "running" /\ wave.left > 0
    /\ wave' = [at |-> "calling", left |-> wave.left - 1]
    /\ UNCHANGED <<build, launch, main, svc>>

Answer ==
    /\ wave.at = "calling" /\ svc \in {"on", "stopping"}
    /\ wave' = [wave EXCEPT !.at = "running"]
    /\ UNCHANGED <<build, launch, main, svc>>

KernelEnds ==
    /\ wave.at = "running" /\ wave.left = 0
    /\ wave' = [wave EXCEPT !.at = "ended"]
    /\ UNCHANGED <<build, launch, main, svc>>

ServiceEnds ==
    /\ svc = "stopping"
    /\ svc' = "gone"
    /\ UNCHANGED <<build, launch, main, wave>>

-----------------------------------------------------------------------------
Init ==
    /\ \E kind \in Kinds : lib = Linked(kind)
    /\ asm = None /\ edited = {} /\ co = None /\ stage = "library"
    /\ main = "none" /\ host = None /\ k = None /\ off = None /\ exe = {} /\ writes = <<>> /\ priv = 0
    /\ svc = "off" /\ wave = [at |-> "none", left |-> Calls]

(* External: nothing reads a library whose sections are overwritten.       *)
Building ==
    \/ /\ stage = "library" /\ Clobbered(lib) = {}
       /\ \/ \E u \in Uses : \E hash \in IF Grows(u[1]) THEN Hashes ELSE {lib.hash} :
                EditLibrary(u[1], u[2], hash)
          \/ \E kernels \in CodeObjects, f \in Funcs : Instrument(kernels, f)
    \/ SyncNote
    \/ /\ stage = "synced"
       /\ \E target \in {All} \union {co.kernels[i].name : i \in DOMAIN co.kernels} :
             ExpandArgs(target, 1)

Main ==
    \/ Fails \/ SetUp \/ Load \/ Freeze \/ Arguments \/ StartService \/ Dispatch
    \/ Completed \/ TimesOut \/ StopService \/ Join \/ Report

Device == Call \/ Answer \/ KernelEnds

Next ==
    \/ main = "none" /\ Building
    \/ stage # "library" /\ \E i \in DOMAIN co.kernels :
          HipLaunches(co.kernels[i]) \/ \E h \in {"launcher", "launcher_nd"} : Choose(h, co.kernels[i])
    \/ Main \/ Device \/ ServiceEnds

(* The scheduler runs the host's threads; nothing is known of the kernel.  *)
Spec == Init /\ [][Next]_vars /\ WF_vars(Main) /\ WF_vars(ServiceEnds)

-----------------------------------------------------------------------------
(* Every reader finds what there is to find: a lookup through either hash  *)
(* table and the scan of audit.cpp:77-81 return the symbol of a name, and  *)
(* none if there is none, over every order the tables are rewritten in;    *)
(* and a table that has been edited has an alias for every function, as    *)
(* long as the tables fit into the room they are pinned in.                *)
ReadersFind ==
    stage = "library" /\ Clobbered(lib) = {} =>
        LET In(symbols, n) == {symbols[i].value : i \in {j \in DOMAIN symbols :
                                  symbols[j].name = n /\ is_defined(symbols[j])}} IN
        /\ \A n \in Names :
              /\ GnuFinds(lib, n) = In(lib.dyn, n)
              /\ SysvFinds(lib, n) = In(lib.dyn, n)
              /\ \A table \in {"hash", "gnu_hash"} :
                    {elf_dynsym(lib, table, n)} \ {None} = In(lib.dyn, n)
        /\ \A f \in Funcs : In(lib.sym, <<f>>) # {} =>
              /\ "symtab" \in edited => LoaderFinds(lib, Prefixed(<<f>>)) = {Address(f)}
              /\ "dynsym" \in edited => GnuFinds(lib, Prefixed(<<f>>)) = {Address(f)}

(* What a function uses, by definition: the largest register count on any  *)
(* path of calls from it and the largest sum of frames, if every path ends *)
(* in functions the listing knows.                                         *)
CallPaths(n, defs) ==
    LET known == {d \in DOMAIN defs : d[2] = n[2]} IN
    UNION {{p \in [1..m -> known] :
               p[1] = n /\ \A i \in 1..(m - 1) : p[i + 1] \in Range(defs[p[i]].refs)} :
           m \in 1..(Cardinality(known) + 1)}

CallsUse(n, defs) ==
    LET paths == CallPaths(n, defs)
        closed == \A p \in paths :
            /\ Cardinality(Range(p)) = Len(p)
            /\ Range(defs[p[Len(p)]].refs) \subseteq DOMAIN defs
        own(p) == [i \in DOMAIN p |-> defs[p[i]].own]
    IN  IF ~closed THEN {}
        ELSE {Max({IF n[2] = "num_vgpr" THEN Max(Range(own(p))) ELSE FoldFunction(+, 0, own(p)) : p \in paths})}

(* "exactly what the compiler already computed", and nothing rather than a *)
(* bogus value (add_object_aliases.py:191-196): whatever order the symbols *)
(* are looked into, a function has the usage of its calls exported, and    *)
(* one whose calls do not resolve, or return to it, has none.              *)
UsageTold ==
    stage = "library" /\ asm # None =>
        LET defs == Dictionary(asm) IN
        \A f \in Funcs : \A key \in Range(REGUSAGE_KEYS) :
            Told(f, key) =
                IF <<f, key>> \in DOMAIN defs /\ \E i \in DOMAIN lib.sym :
                       lib.sym[i].name = <<f>> /\ is_defined(lib.sym[i])
                THEN CallsUse(<<f, key>>, defs) ELSE {}

(* The byte a kernel reads at an address of a read-only section is that    *)
(* section's byte in the file (add_object_aliases.py:316-327), and the     *)
(* target of the library stays what it was, however often it is edited.    *)
(* Edits of .symtab alone overwrite nothing; after others this is said of  *)
(* the sections that no table grew into, and of tables that fit (500-504). *)
ReadOnlyLoads ==
    stage = "library" /\ edited # {} =>
        /\ lib.flags = "target"
        /\ edited = {"symtab"} => Clobbered(lib) = {}
        /\ \A s \in {x \in Sections : x.ro} \ Clobbered(lib) :
              /\ s.addr >= lib.seg.vaddr /\ s.addr + SizeOf(lib, s) <= lib.seg.vaddr + lib.seg.size
              /\ lib.off[s] = lib.seg.offset + (s.addr - lib.seg.vaddr)

(* Adding aliases leaves every loaded section as it was, whichever table   *)
(* they are added to (--tables, default both).                             *)
NothingOverwritten == stage = "library" => Clobbered(lib) = {}

Supplied ==
    {j \in DOMAIN HiddenLayout :
        CASE host = "launcher" -> HiddenLayout[j][1] \notin {"hidden_block_count_y", "hidden_group_size_y"}
          [] host = "launcher_nd" -> HiddenLayout[j][1] # "hidden_remainder_x"
          [] host = "hip" -> TRUE}

Arrived ==
    /\ \A i \in DOMAIN k.sizes : ReadsAs(OffsetOf(k.sizes)[i], k.sizes[i]) = Argument(i)
    /\ \A j \in Supplied :
          ReadsAs(HiddenAt(k) + HiddenLayout[j][2], HiddenLayout[j][3]) = <<HiddenLayout[j][1]>>
    /\ host # "hip" \/ (\E i \in DOMAIN co.note :
                            co.note[i].name = k.name /\ co.note[i].ksize > OriginalSize(k))
          => ReadsAs(OriginalSize(k), 8) = <<"buffer">>
    /\ \A i \in DOMAIN writes : writes[i].what # <<"past the end">>

(* The readers of the note stop at its first kernel, which they take to be *)
(* the one that is launched (co_stride.h:66, 132).  What is read of it is  *)
(* true of k too: the count that the hook inserts the buffer by, and the   *)
(* offsets that launcher_nd.cpp writes at; launcher.cpp reads none.        *)
FirstStandsForK ==
    LET first == co.kernels[1] IN
    /\ host = "hip" => \/ "__dyninst_pw_stride" \notin DOMAIN co.symbols
                       \/ Len(first.sizes) = Len(k.sizes)
    /\ host = "launcher_nd" => HiddenAt(first) = HiddenAt(k)

(* Every host fills the segment so that the kernel finds, where the code   *)
(* compiled before any of the edits looks for them, its own arguments, the *)
(* hidden ones this host supplies, and at the old end of the segment the   *)
(* buffer (expand_args.py:13-15); and HIP is given every argument it       *)
(* copies.                                                                 *)
ArgumentsArrive == writes # <<>> /\ FirstStandsForK => Arrived

(* The same of every kernel of the object: "the append index is the        *)
(* explicit-arg count read from the co" (hostcall_hooks.h:315-316).        *)
EveryKernelServed == writes # <<>> => Arrived

(* "a stale note => packet says 0 scratch" (sync_note_from_kd.py:7-10): a  *)
(* kernel is dispatched with the scratch its inserted calls were granted,  *)
(* through the descriptor, the note, the program header and the packet.    *)
ScratchGranted == host = "hip" \/ wave.at # "none" => priv = co.kds[k.name].priv

(* A launcher ends, even if the kernel it waits for never does.            *)
LauncherEnds == main = "start" ~> main = "ended"
=============================================================================
