----------------------------- MODULE LoaderHooks -----------------------------
(***************************************************************************)
(* The interposed HSA loader (runtime/host/hostcall_hooks.h): application  *)
(* threads register fat binaries, create code object readers, load code    *)
(* objects into executables and freeze them.  The hooks put instrumented   *)
(* bundles in the place of fat binaries the configuration names, recognise *)
(* the instrumented code object when it is read, start the mailbox and its *)
(* service thread on the first load of one, and give every executable that *)
(* receives one the mailbox and the hostcall library.  Sets of handles are *)
(* guarded by g_mtx; ensure_runtime is not.                                *)
(*                                                                         *)
(* A code object is <<c, "orig">> or, instrumented, <<c, "inst">>; a fat   *)
(* binary (a clang offload bundle) is the sequence of its entries.         *)
(***************************************************************************)
EXTENDS Naturals, Sequences, FiniteSetsExt

CONSTANTS Threads,     \* application threads that load code objects
          Fats,        \* the fat binaries of the application
          Manifest,    \* HOSTCALL_MANIFEST: the c of each line "orig inst bundle"
          Outages,     \* the sets of files that cannot be read
          Readers,     \* handles the HSA runtime gives to readers
          Exes,        \* handles it gives to executables
          Mailboxes,   \* allocations of a mailbox
          Overlap,     \* the first instrumented load may overlap with others
          Faults,      \* the HSA calls of ensure_runtime and of
                       \* augment_executable may fail
          Null

ASSUME LoaderAssumption ==
    /\ {Overlap, Faults} \subseteq BOOLEAN
    /\ \A s \in Fats \union {Manifest} : Len(s) \in Nat /\ DOMAIN s = 1 .. Len(s)

(* The application comes with code that is not instrumented.               *)
ASSUME FatsAssumption ==
    \A f \in Fats : \A i \in DOMAIN f : f[i].co # Null => f[i].co[2] = "orig"

VARIABLES
    g_cfg,       \* [ok, subs]: g_cfg_ok_v and g_subs by line of the manifest,
                 \* or Null before call_once
    held,        \* held[f]: the bundle HIP has for f, or Null: not registered
    g_mbox, g_svc_started, g_svc,    \* as in the code; g_svc: the mailbox the
                                     \* service thread serves, or Null
    g_inst_readers, g_augmented_exes,
    granted, refused,    \* mailboxes for which hsa_amd_agents_allow_access
                         \* has succeeded, and failed
    ready,       \* mailboxes that have been zeroed and given their turns
    reader,      \* reader[r]: "inst", "orig", or Null: no such reader
    exe,         \* exe[x]: the executable behind handle x, or Null
    created,     \* handles of executables given out so far
    pc, arg,     \* a thread's place in the load hook and its arguments
    terminated,  \* std::terminate was called
    torndown     \* hostcall_teardown has run

access  == <<granted, refused>>
runtime == <<g_mbox, g_svc_started, g_svc, access, ready>>
sets    == <<g_inst_readers, g_augmented_exes>>
objects == <<reader, exe, created>>
process == <<terminated, torndown>>
config  == <<g_cfg, held>>
vars    == <<config, runtime, sets, objects, pc, arg, process>>

(* An executable: the `mailbox` defined in it and how often, whether the   *)
(* hostcall library and which code objects were loaded, whether a call of  *)
(* the hooks failed for it, whether it is frozen, and without a complaint. *)
Executables ==
    [mailbox : Mailboxes \union {Null}, lib : BOOLEAN, code : SUBSET {"orig", "inst"},
     defines : Nat, faulty : BOOLEAN, frozen : BOOLEAN, linked : BOOLEAN]

Fresh == [mailbox |-> Null, lib |-> FALSE, code |-> {}, defines |-> 0,
          faulty |-> FALSE, frozen |-> FALSE, linked |-> FALSE]

Init ==
    /\ g_cfg = Null /\ held = [f \in Fats |-> Null]
    /\ g_mbox = Null /\ g_svc = Null
    /\ granted = {} /\ refused = {} /\ ready = {}
    /\ g_svc_started = FALSE
    /\ g_inst_readers = {} /\ g_augmented_exes = {}
    /\ reader = [r \in Readers |-> Null]
    /\ exe = [x \in Exes |-> Null]
    /\ created = {}
    /\ pc = [t \in Threads |-> "idle"]
    /\ arg = [t \in Threads |-> Null]
    /\ terminated = FALSE
    /\ torndown = FALSE

Goto(t, there) == pc' = [pc EXCEPT ![t] = there]
InUse(h) == \E t \in Threads : arg[t] # Null /\ h \in {arg[t].reader, arg[t].exe}

-----------------------------------------------------------------------------
(* The HSA runtime underneath and the application (HIP) that calls it.     *)

(* The HSA runtime gives the handle of a destroyed reader again, that of   *)
(* a destroyed executable it does not: g_augmented_exes relies on it.      *)
CreateExe(t) ==
    /\ pc[t] = "idle"
    /\ \E x \in Exes \ created : /\ exe' = [exe EXCEPT ![x] = Fresh]
                                /\ created' = created \union {x}
    /\ UNCHANGED <<config, runtime, sets, reader, pc, arg, process>>

DestroyExe(t) ==
    /\ pc[t] = "idle"
    /\ \E x \in Exes : /\ exe[x] # Null /\ ~ InUse(x)
                       /\ exe' = [exe EXCEPT ![x] = Null]
    /\ UNCHANGED <<config, runtime, sets, reader, created, pc, arg, process>>

DestroyReader(t) ==
    /\ pc[t] = "idle"
    /\ \E r \in Readers : /\ reader[r] # Null /\ ~ InUse(r)
                          /\ reader' = [reader EXCEPT ![r] = Null]
    /\ UNCHANGED <<config, runtime, sets, exe, created, pc, arg, process>>

-----------------------------------------------------------------------------
(* The hooks.                                                              *)

(* The configuration.  Its files are <<Null, "lib">>, <<Null, "manifest">> *)
(* and those of a line, <<c, "orig">>, <<c, "inst">> and <<c, "bundle">>.  *)
slurp(file, missing) == IF file \in missing THEN Null ELSE file

Sub(c, missing) ==
    [field \in {"orig", "inst", "bundle"} |-> slurp(<<c, field>>, missing)]

(* A slip: a line without its instrumented code object is kept. *)
AddSubPartly(c, missing) ==
    Null \notin {Sub(c, missing).orig, Sub(c, missing).bundle}

(* Whether a line is kept. *)
add_sub(c, missing) ==
    Null \notin {Sub(c, missing).orig, Sub(c, missing).inst, Sub(c, missing).bundle}

(* The lines that are kept, under their numbers in the manifest.           *)
load_config(missing) ==
    LET lines == IF {<<Null, "lib">>, <<Null, "manifest">>} \intersect missing # {} THEN {}
                 ELSE {i \in DOMAIN Manifest : add_sub(Manifest[i], missing)}
    IN  [ok |-> lines # {}, subs |-> [i \in lines |-> Sub(Manifest[i], missing)]]

(* Null is nothing else.                                                   *)
ASSUME NullAssumption ==
    /\ Null \notin Mailboxes \union Fats \union Executables \union {"orig", "inst"}
    /\ Null \notin [exe : Exes, reader : Readers]
    /\ \A i \in DOMAIN Manifest, field \in {"orig", "inst", "bundle"} :
          Null # <<Manifest[i], field>>
    /\ \A missing \in Outages : Null # load_config(missing)

(* cfg(): std::call_once, other callers wait for the first.                *)
Configure ==
    IF g_cfg = Null THEN \E missing \in Outages : g_cfg' = load_config(missing)
                    ELSE UNCHANGED g_cfg

(* Of the entries for a GPU, the last.                                     *)
bundle_device_co(fat) ==
    LET device == {i \in DOMAIN fat : fat[i].triple = "amdgcn"}
    IN  IF device = {} THEN Null ELSE fat[Max(device)].co

(* External: clang-offload-bundler, run on the instrumented code object.   *)
BundleOf(file) == << [triple |-> "host", co |-> Null], [triple |-> "amdgcn", co |-> <<file[1], "inst">>] >>

(* hook_register_fatbin: HIP is handed the bundle of the first line whose  *)
(* original is the device code object of the application's fat binary.     *)
RegisterFatBinary(t) ==
    /\ pc[t] = "idle"
    /\ Configure
    /\ \E f \in Fats :
          /\ held[f] = Null
          /\ LET match == {i \in DOMAIN g_cfg'.subs : g_cfg'.subs[i].orig = bundle_device_co(f)}
             IN  held' = [held EXCEPT ![f] =
                     IF g_cfg'.ok /\ match # {} THEN BundleOf(g_cfg'.subs[Min(match)].bundle) ELSE f]
    /\ UNCHANGED <<runtime, sets, objects, pc, arg, process>>

(* hook_co_reader, when HIP comes to load what it was handed: handles of   *)
(* the instrumented code objects are remembered, and never forgotten.      *)
CoReader(t) ==
    /\ pc[t] = "idle"
    /\ Configure
    /\ \E r \in Readers, f \in Fats :
          /\ reader[r] = Null /\ held[f] # Null
          /\ LET co == bundle_device_co(held[f]) IN
             /\ co # Null
             /\ reader' = [reader EXCEPT ![r] = co[2]]
             /\ g_inst_readers' =
                    IF g_cfg'.ok /\ \E i \in DOMAIN g_cfg'.subs : co = g_cfg'.subs[i].inst
                    THEN g_inst_readers \union {r} ELSE g_inst_readers
    /\ UNCHANGED <<held, runtime, g_augmented_exes, exe, created, pc, arg, process>>

(* hook_load, up to the decision.                                          *)
BeginLoad(t) ==
    /\ pc[t] = "idle"
    /\ Overlap \/ g_svc_started \/ \A u \in Threads : pc[u] = "idle"
    /\ \E x \in Exes, r \in Readers :
          /\ exe[x] # Null /\ reader[r] # Null
          /\ ~ exe[x].frozen
          /\ arg' = [arg EXCEPT ![t] = [exe |-> x, reader |-> r]]
          /\ Goto(t, IF r \in g_inst_readers THEN "ensure" ELSE "load")
    /\ UNCHANGED <<config, runtime, sets, objects, process>>

(* ensure_runtime, statement by statement.                                 *)
CheckStarted(t) ==
    /\ pc[t] = "ensure"
    /\ Goto(t, IF ~ g_svc_started THEN "alloc"
               ELSE IF g_mbox # Null THEN "augment" ELSE "load")
    /\ UNCHANGED <<config, runtime, sets, objects, arg, process>>

Faulted(x) == [exe EXCEPT ![x].faulty = TRUE]

(* No CPU agent, no pool, or no memory: the load goes on without.          *)
AllocMailbox(t) ==
    /\ pc[t] = "alloc"
    /\ \/ /\ \E m \in Mailboxes \ ({g_mbox, g_svc} \union granted \union refused \union ready) :
                g_mbox' = m
          /\ Goto(t, "grant")
          /\ UNCHANGED exe
       \/ /\ Faults
          /\ Goto(t, "load")
          /\ exe' = Faulted(arg[t].exe)
          /\ UNCHANGED g_mbox
    /\ UNCHANGED <<config, g_svc_started, g_svc, access, ready, sets, reader, created, arg, process>>

(* A slip: the mailbox is initialised and used, the GPU never given access. *)
GrantAccessOmitted(t) ==
    /\ pc[t] = "grant"
    /\ Goto(t, "init")
    /\ UNCHANGED <<config, runtime, sets, objects, arg, process>>

(* The GPU is to reach the mailbox; the status of the call is dropped, and *)
(* what follows happens all the same.  The global is read again here and   *)
(* from here on, it may be another thread's by now.                        *)
GrantAccess(t) ==
    /\ pc[t] = "grant"
    /\ \/ granted' = granted \union {g_mbox} /\ UNCHANGED refused
       \/ Faults /\ refused' = refused \union {g_mbox} /\ UNCHANGED granted
    /\ Goto(t, "init")
    /\ UNCHANGED <<config, g_mbox, g_svc_started, g_svc, ready, sets, objects, arg, process>>

InitMailbox(t) ==
    /\ pc[t] = "init"
    /\ ready' = ready \union {g_mbox}
    /\ Goto(t, "spawn")
    /\ UNCHANGED <<config, g_mbox, g_svc_started, g_svc, access, sets, objects, arg, process>>

(* Assigning to a std::thread that is joinable calls std::terminate.       *)
SpawnService(t) ==
    /\ pc[t] = "spawn"
    /\ IF g_svc # Null
       THEN terminated' = TRUE /\ UNCHANGED <<g_svc, pc>>
       ELSE g_svc' = g_mbox /\ Goto(t, "started") /\ UNCHANGED terminated
    /\ UNCHANGED <<config, g_mbox, g_svc_started, access, ready, sets, objects, arg, torndown>>

(* A slip: the flag that ends ensure_runtime early is never set. *)
SetStartedOmitted(t) ==
    /\ pc[t] = "started"
    /\ Goto(t, "augment")
    /\ UNCHANGED <<config, runtime, sets, objects, arg, process>>

SetStarted(t) ==
    /\ pc[t] = "started"
    /\ g_svc_started' = TRUE
    /\ Goto(t, "augment")
    /\ UNCHANGED <<config, g_mbox, g_svc, access, ready, sets, objects, arg, process>>

(* augment_executable: define `mailbox`, load the hostcall library.        *)
Define(e) ==
    {[e EXCEPT !.mailbox = IF @ = Null THEN g_mbox ELSE @, !.defines = @ + 1]}
    \union (IF Faults THEN {[e EXCEPT !.faulty = TRUE]} ELSE {})
LoadLib(e) ==
    {[e EXCEPT !.lib = TRUE]} \union (IF Faults THEN {[e EXCEPT !.faulty = TRUE]} ELSE {})

(* A slip: the set is consulted but the executable is not entered. *)
AugmentUnrecorded(t) ==
    /\ pc[t] = "augment"
    /\ LET x == arg[t].exe IN
       IF x \in g_augmented_exes THEN UNCHANGED exe
       ELSE \E d \in Define(exe[x]) : \E e \in LoadLib(d) : exe' = [exe EXCEPT ![x] = e]
    /\ Goto(t, "load")
    /\ UNCHANGED <<config, runtime, sets, reader, created, arg, process>>

(* Under g_mtx: the first thread to enter the handle augments.             *)
Augment(t) ==
    /\ pc[t] = "augment"
    /\ LET x == arg[t].exe IN
       IF x \in g_augmented_exes THEN UNCHANGED <<exe, g_augmented_exes>>
       ELSE /\ g_augmented_exes' = g_augmented_exes \union {x}
            /\ \E d \in Define(exe[x]) : \E e \in LoadLib(d) : exe' = [exe EXCEPT ![x] = e]
    /\ Goto(t, "load")
    /\ UNCHANGED <<config, runtime, g_inst_readers, reader, created, arg, process>>

RealLoad(t) ==
    /\ pc[t] = "load"
    /\ exe' = [exe EXCEPT ![arg[t].exe].code = @ \union {reader[arg[t].reader]}]
    /\ Goto(t, "idle")
    /\ arg' = [arg EXCEPT ![t] = Null]
    /\ UNCHANGED <<config, runtime, sets, reader, created, process>>

(* Freezing resolves the references of the instrumented code object to the *)
(* mailbox and the library; without them it fails.  hook_freeze only logs. *)
Freeze(t) ==
    /\ pc[t] = "idle"
    /\ \E x \in Exes :
          /\ exe[x] # Null /\ ~ exe[x].frozen /\ ~ InUse(x) /\ exe[x].code # {}
          /\ exe' = [exe EXCEPT ![x].frozen = TRUE,
                                ![x].linked = "inst" \in exe[x].code =>
                                       exe[x].lib /\ exe[x].mailbox # Null]
    /\ UNCHANGED <<config, runtime, sets, reader, created, pc, arg, process>>

(* hostcall_teardown: stop and join the service thread if it was started.  *)
Teardown ==
    /\ ~ torndown
    /\ torndown' = TRUE
    /\ g_svc' = IF g_svc_started THEN Null ELSE g_svc
    /\ UNCHANGED <<config, g_mbox, g_svc_started, access, ready, sets, objects, pc, arg, terminated>>

Next ==
    /\ ~ terminated /\ ~ torndown
    /\ \/ \E t \in Threads :
             \/ CreateExe(t) \/ DestroyExe(t) \/ DestroyReader(t) \/ Freeze(t)
             \/ RegisterFatBinary(t) \/ CoReader(t) \/ BeginLoad(t) \/ CheckStarted(t) \/ AllocMailbox(t)
             \/ GrantAccess(t) \/ InitMailbox(t) \/ SpawnService(t) \/ SetStarted(t)
             \/ Augment(t) \/ RealLoad(t)
       \/ Teardown

Spec == Init /\ [][Next]_vars

-----------------------------------------------------------------------------
Live(x) == exe[x] # Null

(* An instrumented executable that froze without a complaint is connected: *)
(* its kernels raise requests in a mailbox that has been initialised, that *)
(* the service thread serves, and that the GPU was given access to before  *)
(* unless the runtime refused when asked (hostcall_hooks.h:188).           *)
LinkedMeansServed ==
    ~ torndown => \A x \in Exes :
        Live(x) /\ exe[x].linked /\ "inst" \in exe[x].code =>
            /\ exe[x].mailbox \in ready /\ g_svc = exe[x].mailbox
            /\ exe[x].mailbox \notin refused => exe[x].mailbox \in granted

(* However many threads load into it at once, an executable gets one       *)
(* definition of `mailbox`: a second one is refused by the HSA runtime.    *)
DefinedOnce == \A x \in Exes : Live(x) => exe[x].defines <= 1

(* A call failed for this executable, or for the mailbox it was given.     *)
Spoilt(x) == exe[x].faulty \/ exe[x].mailbox \in refused

(* What may fail stays where it failed, but for one call.  A file that     *)
(* cannot be read spoils no executable (hostcall_hooks.h:97-126), a failed *)
(* allocation, definition or load of the library the one it was made for   *)
(* (184-215); a refused grant (188) spoils all that get the mailbox.  Any  *)
(* other executable links when it is frozen, and the GPU reaches what its  *)
(* instrumented code is linked to.                                         *)
FaultsStayLocal ==
    \A x \in Exes : Live(x) /\ exe[x].frozen /\ ~ Spoilt(x) =>
        /\ exe[x].linked
        /\ "inst" \in exe[x].code => exe[x].mailbox \in granted

(* "Allocate the shared mailbox ..., grant the GPU agent access"           *)
(* (hostcall_hooks.h:172-173): the GPU reaches the mailbox of every        *)
(* executable that linked.                                                 *)
MailboxReached ==
    \A x \in Exes : Live(x) /\ exe[x].linked /\ "inst" \in exe[x].code =>
        exe[x].mailbox \in granted

(* "Once, on first instrumented load" (hostcall_hooks.h:173): the service  *)
(* thread is started once and the process survives.                        *)
StartedOnce == ~ terminated
==============================================================================
