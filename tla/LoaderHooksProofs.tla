-------------------------- MODULE LoaderHooksProofs --------------------------
(***************************************************************************)
(* Proofs about LoaderHooks for any number of threads, readers and         *)
(* executables, any manifest and any fat binaries.                         *)
(***************************************************************************)
EXTENDS LoaderHooks, WellFoundedInduction, TLAPS

Places == {"idle", "ensure", "alloc", "grant", "init", "spawn", "started", "augment", "load"}
Loads  == [exe : Exes, reader : Readers]

TypeInv ==
    /\ g_mbox \in Mailboxes \union {Null} /\ g_svc \in Mailboxes \union {Null}
    /\ granted \union refused \union ready \subseteq Mailboxes \union {Null}
    /\ g_svc_started \in BOOLEAN
    /\ reader \in [Readers -> {"inst", "orig", Null}]
    /\ exe \in [Exes -> Executables \union {Null}]
    /\ created \subseteq Exes /\ g_augmented_exes \subseteq created
    /\ \A x \in Exes : Live(x) => x \in created
    /\ pc \in [Threads -> Places]
    /\ arg \in [Threads -> Loads \union {Null}]

(* The objects a thread works with are there until it is done.             *)
UseInv == \A t \in Threads :
    /\ arg[t] = Null <=> pc[t] = "idle"
    /\ arg[t] # Null => /\ Live(arg[t].exe) /\ ~ exe[arg[t].exe].frozen
                        /\ reader[arg[t].reader] # Null

(* An executable that has not been augmented has no mailbox yet.           *)
DefinedInv == \A x \in Exes : Live(x) =>
    /\ exe[x].defines <= 1
    /\ x \notin g_augmented_exes => exe[x].defines = 0

(* What HIP was handed for a fat binary is that, or the bundle of a line   *)
(* that was kept, whose code objects are all known then.                   *)
ConfigInv ==
    /\ g_cfg = Null \/ \E missing \in Outages : g_cfg = load_config(missing)
    /\ held = [f \in Fats |-> held[f]]
    /\ \A f \in Fats : held[f] # Null =>
          /\ g_cfg # Null
          /\ held[f] = f \/ \E i \in DOMAIN g_cfg.subs : held[f] = BundleOf(g_cfg.subs[i].bundle)

(* Every reader of instrumented code is known.                             *)
ReaderInv == \A r \in Readers : reader[r] = "inst" => r \in g_inst_readers

(* The mailbox is there when it is used.                                   *)
MailboxInv ==
    /\ g_svc_started => g_mbox # Null
    /\ \A t \in Threads : pc[t] \in {"grant", "init", "spawn", "started", "augment"} => g_mbox # Null

Complete(x) == ~ exe[x].faulty => exe[x].lib /\ exe[x].mailbox # Null

(* Instrumented code comes to executables only that have what it needs.    *)
CompleteInv ==
    /\ \A x \in Exes : Live(x) /\ (x \in g_augmented_exes \/ "inst" \in exe[x].code) => Complete(x)
    /\ \A t \in Threads : pc[t] = "load" /\ reader[arg[t].reader] = "inst" => Complete(arg[t].exe)

(* An executable for which no call failed links.                           *)
LocalInv == \A x \in Exes : Live(x) /\ exe[x].frozen /\ ~ exe[x].faulty => exe[x].linked

LinkInv == ReaderInv /\ MailboxInv /\ CompleteInv /\ LocalInv

Starting == {"alloc", "grant", "init", "spawn", "started"}

(* While the service has not been started one thread at most is inside the *)
(* load hook, and the service thread is there from "spawn" on.             *)
StartInv ==
    /\ ~ terminated
    /\ ~ g_svc_started => \A t, u \in Threads : pc[t] # "idle" /\ pc[u] # "idle" => t = u
    /\ \A t \in Threads :
          /\ pc[t] \in Starting => ~ g_svc_started
          /\ pc[t] \in {"init", "spawn", "started"} => g_mbox \in granted \union refused
          /\ pc[t] \in {"spawn", "started"} => g_mbox \in ready
          /\ pc[t] = "started" => g_svc = g_mbox
          /\ pc[t] = "augment" => g_svc_started
    /\ ~ g_svc_started /\ (\A t \in Threads : pc[t] # "started") => g_svc = Null
    /\ g_svc_started => /\ g_mbox \in granted \union refused /\ g_mbox \in ready
                        /\ torndown \/ g_svc = g_mbox

(* There is one mailbox, and code that links has it.                       *)
ServedInv == \A x \in Exes : Live(x) =>
    /\ exe[x].mailbox # Null => g_svc_started /\ exe[x].mailbox = g_mbox
    /\ exe[x].linked => exe[x].frozen /\ ("inst" \in exe[x].code => exe[x].mailbox # Null)

-----------------------------------------------------------------------------
(* The largest and the smallest of some natural numbers.                   *)
LEMMA SmallestOf ==
    ASSUME NEW S, S \subseteq Nat, S # {}
    PROVE  \E x \in S : \A y \in S : x =< y
<1>1. PICK x \in S : \A y \in S : <<y, x>> \notin OpToRel(<, Nat)
  BY NatLessThanWellFounded, WFMin, Zenon
<1>2. \A y \in S : ~ (y < x)
  BY <1>1, Zenon DEF OpToRel
<1> QED
  BY <1>2

LEMMA SmallestIn ==
    ASSUME NEW S, S \subseteq Nat, S # {}
    PROVE  Min(S) \in S
BY SmallestOf DEF Min

LEMMA LargestIn ==
    ASSUME NEW S, NEW n \in Nat, S \subseteq 1 .. n, S # {}
    PROVE  Max(S) \in S
<1> DEFINE T == {n - i : i \in S}
<1>1. T \subseteq Nat
  OBVIOUS
<1>2. T # {}
  OBVIOUS
<1>3. PICK x \in T : \A y \in T : x =< y
  BY <1>1, <1>2, SmallestOf
<1>4. PICK k \in S : x = n - k
  OBVIOUS
<1>5. \A j \in S : k >= j
  <2> TAKE j \in S
  <2>1. n - j \in T
    OBVIOUS
  <2>2. n - k =< n - j
    <3> HIDE DEF T
    <3> QED
      BY <1>3, <1>4, <2>1
  <2>3. j \in 1 .. n /\ k \in 1 .. n
    OBVIOUS
  <2> QED
    BY <2>2, <2>3
<1> QED
  BY <1>5 DEF Max

(* What a configuration says of a line it keeps.                           *)
LEMMA Lines ==
    ASSUME NEW missing \in Outages, NEW i \in DOMAIN load_config(missing).subs
    PROVE  /\ load_config(missing).ok
           /\ i \in DOMAIN Manifest
           /\ load_config(missing).subs[i].inst = <<Manifest[i], "inst">>
           /\ load_config(missing).subs[i].bundle = <<Manifest[i], "bundle">>
<1> DEFINE subs == load_config(missing).subs
<1>1. /\ i \in DOMAIN Manifest /\ load_config(missing).ok
      /\ subs[i] = Sub(Manifest[i], missing) /\ add_sub(Manifest[i], missing)
  BY DEF load_config
<1>2. subs[i].inst = slurp(<<Manifest[i], "inst">>, missing) /\ subs[i].inst # Null
  BY <1>1 DEF Sub, add_sub
<1>3. subs[i].bundle = slurp(<<Manifest[i], "bundle">>, missing) /\ subs[i].bundle # Null
  BY <1>1 DEF Sub, add_sub
<1> QED
  BY <1>1, <1>2, <1>3 DEF slurp

(* The device code object in a bundle of clang-offload-bundler.            *)
LEMMA Bundled ==
    ASSUME NEW file
    PROVE  bundle_device_co(BundleOf(file)) = <<file[1], "inst">>
<1> DEFINE device == {i \in DOMAIN BundleOf(file) : BundleOf(file)[i].triple = "amdgcn"}
<1>1. device = {2}
  BY DEF BundleOf
<1>2. Max(device) = 2
  BY <1>1, LargestIn
<1> QED
  BY <1>1, <1>2 DEF bundle_device_co, BundleOf

(* The code HIP finds in what it was handed is the application's, or known *)
(* to be instrumented.                                                     *)
LEMMA Handed ==
    ASSUME ConfigInv, NEW f \in Fats, held[f] # Null,
           NEW co, co = bundle_device_co(held[f]), co # Null
    PROVE  \/ co[2] = "orig"
           \/ co[2] = "inst" /\ g_cfg.ok /\ \E i \in DOMAIN g_cfg.subs : co = g_cfg.subs[i].inst
<1>1. CASE held[f] = f
  <2> DEFINE device == {i \in DOMAIN f : f[i].triple = "amdgcn"}
  <2>1. device # {} /\ co = f[Max(device)].co
    BY <1>1 DEF bundle_device_co
  <2>2. Max(device) \in DOMAIN f
    BY <2>1, LoaderAssumption, LargestIn
  <2> QED
    BY <2>1, <2>2, FatsAssumption
<1>2. CASE held[f] # f
  <2>1. PICK i \in DOMAIN g_cfg.subs : held[f] = BundleOf(g_cfg.subs[i].bundle)
    BY <1>2 DEF ConfigInv
  <2>2. PICK missing \in Outages : g_cfg = load_config(missing)
    BY DEF ConfigInv
  <2>3. g_cfg.ok /\ g_cfg.subs[i].inst = <<Manifest[i], "inst">>
    BY <2>1, <2>2, Lines
  <2>4. co = <<Manifest[i], "inst">>
    BY <2>1, <2>2, Lines, Bundled
  <2> QED
    BY <2>3, <2>4
<1> QED
  BY <1>1, <1>2

(* The configuration is read once, and used as it was read.                *)
LEMMA Configured ==
    ASSUME ConfigInv, Configure
    PROVE  /\ g_cfg' # Null /\ \E missing \in Outages : g_cfg' = load_config(missing)
           /\ g_cfg # Null => UNCHANGED g_cfg
BY NullAssumption DEF ConfigInv, Configure

LEMMA ConfigStep == ConfigInv /\ [Next]_vars => ConfigInv'
<1> SUFFICES ASSUME ConfigInv, [Next]_vars PROVE ConfigInv'
  OBVIOUS
<1>1. ASSUME NEW t \in Threads, RegisterFatBinary(t) PROVE ConfigInv'
  <2>1. /\ g_cfg' # Null /\ \E missing \in Outages : g_cfg' = load_config(missing)
        /\ g_cfg # Null => UNCHANGED g_cfg
    BY <1>1, Configured DEF RegisterFatBinary
  <2>2. PICK f \in Fats :
          LET match == {i \in DOMAIN g_cfg'.subs : g_cfg'.subs[i].orig = bundle_device_co(f)}
          IN  held' = [held EXCEPT ![f] =
                  IF g_cfg'.ok /\ match # {} THEN BundleOf(g_cfg'.subs[Min(match)].bundle) ELSE f]
    BY <1>1 DEF RegisterFatBinary
  <2> DEFINE match == {i \in DOMAIN g_cfg'.subs : g_cfg'.subs[i].orig = bundle_device_co(f)}
  <2>3. match # {} => Min(match) \in DOMAIN g_cfg'.subs
    <3>1. \A i \in DOMAIN g_cfg'.subs : i \in DOMAIN Manifest
      BY <2>1, Lines
    <3>2. match \subseteq Nat
      BY <3>1, LoaderAssumption
    <3> QED
      BY <3>2, SmallestIn
  <2>4. ASSUME NEW h \in Fats, held'[h] # Null, h # f
        PROVE  held'[h] = h \/ \E i \in DOMAIN g_cfg'.subs : held'[h] = BundleOf(g_cfg'.subs[i].bundle)
    <3>1. held'[h] = held[h] /\ held[h] # Null
      BY <2>2, <2>4 DEF ConfigInv
    <3> QED
      BY <2>1, <3>1 DEF ConfigInv
  <2>5. held'[f] = f \/ \E i \in DOMAIN g_cfg'.subs : held'[f] = BundleOf(g_cfg'.subs[i].bundle)
    <3>1. held'[f] = IF g_cfg'.ok /\ match # {} THEN BundleOf(g_cfg'.subs[Min(match)].bundle) ELSE f
      BY <2>2 DEF ConfigInv
    <3> QED
      BY <2>3, <3>1
  <2>6. held' = [h \in Fats |-> held'[h]]
    BY <2>2 DEF ConfigInv
  <2> QED
    BY <2>6, <2>1, <2>4, <2>5 DEF ConfigInv
<1>2. ASSUME NEW t \in Threads, CoReader(t) PROVE ConfigInv'
  BY <1>2, Configured DEF CoReader, ConfigInv
<1>3. ASSUME UNCHANGED config PROVE ConfigInv'
  BY <1>3 DEF ConfigInv, config
<1> QED
  BY <1>1, <1>2, <1>3 DEF Next, vars, CreateExe, DestroyExe, DestroyReader, Freeze, BeginLoad,
     CheckStarted, AllocMailbox, GrantAccess, InitMailbox, SpawnService, SetStarted, Augment,
     RealLoad, Teardown

Base == TypeInv /\ UseInv /\ ConfigInv

(* Every object keeps its type, and a thread its objects.                  *)
LEMMA BaseStart == Init => Base
BY NullAssumption DEF Init, Base, TypeInv, UseInv, ConfigInv, Live, Places, Executables

(* The executables an augmentation may leave.                              *)
LEMMA Augmented ==
    ASSUME NEW e \in Executables, NEW d \in Define(e), NEW f \in LoadLib(d),
           g_mbox \in Mailboxes \union {Null}
    PROVE  /\ f \in Executables /\ f.defines <= e.defines + 1
           /\ f.code = e.code /\ f.frozen = e.frozen /\ f.linked = e.linked
           /\ f.mailbox = e.mailbox \/ f.mailbox = g_mbox
           /\ g_mbox # Null /\ ~ f.faulty => f.lib /\ f.mailbox # Null
<1>1. /\ d \in Executables /\ d.defines <= e.defines + 1
      /\ d.code = e.code /\ d.frozen = e.frozen /\ d.linked = e.linked
      /\ d.mailbox = e.mailbox \/ d.mailbox = g_mbox
      /\ g_mbox # Null /\ ~ d.faulty => d.mailbox # Null
  <2> DEFINE defined == [e EXCEPT !.mailbox = IF @ = Null THEN g_mbox ELSE @, !.defines = @ + 1]
             failed == [e EXCEPT !.faulty = TRUE]
  <2>1. d \in {defined, failed}
    BY DEF Define
  <2>2. CASE d = defined
    <3>1. d \in Executables /\ d.defines = e.defines + 1
      <4>1. g_mbox \in Mailboxes \union {Null} /\ e.mailbox \in Mailboxes \union {Null}
            /\ e.defines \in Nat
        BY DEF Executables
      <4>2. (IF e.mailbox = Null THEN g_mbox ELSE e.mailbox) \in Mailboxes \union {Null}
        BY <4>1
      <4>3. e.defines + 1 \in Nat
        BY <4>1
      <4> QED
        BY <2>2, <4>1, <4>2, <4>3 DEF Executables
    <3>2. d.code = e.code /\ d.frozen = e.frozen /\ d.linked = e.linked
      BY <2>2 DEF Executables
    <3>3. d.mailbox = IF e.mailbox = Null THEN g_mbox ELSE e.mailbox
      BY <2>2 DEF Executables
    <3> QED
      BY <3>1, <3>2, <3>3 DEF Executables
  <2>3. CASE d = failed
    <3>1. d \in Executables /\ d.defines = e.defines
      BY <2>3 DEF Executables
    <3>2. d.code = e.code /\ d.frozen = e.frozen /\ d.linked = e.linked
      BY <2>3 DEF Executables
    <3>3. d.mailbox = e.mailbox /\ d.faulty
      BY <2>3 DEF Executables
    <3> QED
      BY <3>1, <3>2, <3>3 DEF Executables
  <2> QED
    BY <2>1, <2>2, <2>3
<1> QED
  BY <1>1 DEF LoadLib, Executables

LEMMA BaseStep == Base /\ [Next]_vars => Base'
<1> SUFFICES ASSUME Base, [Next]_vars PROVE TypeInv' /\ UseInv'
  BY ConfigStep DEF Base
<1> USE DEF Base
<1>1. ASSUME NEW t \in Threads, CreateExe(t) PROVE TypeInv' /\ UseInv'
  BY <1>1, NullAssumption DEF CreateExe, TypeInv, UseInv, Live, Fresh, Executables, Loads,
     config, runtime, access, sets, objects, process
<1>2. ASSUME NEW t \in Threads, DestroyExe(t) PROVE TypeInv' /\ UseInv'
  BY <1>2, NullAssumption DEF DestroyExe, TypeInv, UseInv, Live, InUse, Loads,
     config, runtime, access, sets, objects, process
<1>3. ASSUME NEW t \in Threads, DestroyReader(t) PROVE TypeInv' /\ UseInv'
  BY <1>3, NullAssumption DEF DestroyReader, TypeInv, UseInv, Live, InUse, Loads,
     config, runtime, access, sets, objects, process
<1>4. ASSUME NEW t \in Threads, Freeze(t) PROVE TypeInv' /\ UseInv'
  <2> PICK x \in Exes :
          /\ exe[x] # Null /\ ~ exe[x].frozen /\ ~ InUse(x)
          /\ exe' = [exe EXCEPT ![x].frozen = TRUE,
                                ![x].linked = "inst" \in exe[x].code =>
                                       exe[x].lib /\ exe[x].mailbox # Null]
    BY <1>4 DEF Freeze
  <2>1. exe[x] \in Executables /\ exe'[x] \in Executables
    BY DEF TypeInv, Executables
  <2>2. \A t1 \in Threads : arg[t1] # Null => arg[t1].exe # x
    BY DEF InUse
  <2>3. \A y \in Exes \ {x} : exe'[y] = exe[y]
    BY DEF TypeInv
  <2> QED
    BY <1>4, <2>1, <2>2, <2>3, NullAssumption DEF Freeze, TypeInv, UseInv, Live, Loads,
     config, runtime, access, sets, objects, process
<1>5. ASSUME NEW t \in Threads, RegisterFatBinary(t) PROVE TypeInv' /\ UseInv'
  BY <1>5 DEF RegisterFatBinary, TypeInv, UseInv, Live, runtime, access, sets, objects, process
<1>6. ASSUME NEW t \in Threads, CoReader(t) PROVE TypeInv' /\ UseInv'
  <2>1. PICK r \in Readers, f \in Fats :
          /\ reader[r] = Null /\ held[f] # Null
          /\ bundle_device_co(held[f]) # Null
          /\ reader' = [reader EXCEPT ![r] = bundle_device_co(held[f])[2]]
    BY <1>6 DEF CoReader
  <2>2. bundle_device_co(held[f])[2] \in {"inst", "orig"}
    BY <2>1, Handed
  <2> QED
    BY <1>6, <2>1, <2>2, NullAssumption DEF CoReader, TypeInv, UseInv, Live, Loads, runtime, access,
       process
<1>7. ASSUME NEW t \in Threads, BeginLoad(t) PROVE TypeInv' /\ UseInv'
  BY <1>7, NullAssumption DEF BeginLoad, Goto, TypeInv, UseInv, Live, Loads, Places,
     config, runtime, access, sets, objects, process
<1>8. ASSUME NEW t \in Threads, CheckStarted(t) PROVE TypeInv' /\ UseInv'
  BY <1>8 DEF CheckStarted, Goto, TypeInv, UseInv, Live, Loads, Places,
     config, runtime, access, sets, objects, process
<1>9. ASSUME NEW t \in Threads, AllocMailbox(t) PROVE TypeInv' /\ UseInv'
  <2>1. arg[t] \in Loads /\ exe[arg[t].exe] \in Executables
    BY <1>9 DEF AllocMailbox, TypeInv, UseInv, Live, Loads
  <2>2. /\ exe' \in [Exes -> Executables \union {Null}]
        /\ \A x \in Exes : Live(x) <=> exe'[x] # Null
        /\ \A x \in Exes : Live(x) => exe'[x].frozen = exe[x].frozen
    <3>1. CASE UNCHANGED exe
      BY <3>1 DEF TypeInv, Live
    <3>2. CASE exe' = Faulted(arg[t].exe)
      <4>1. [exe[arg[t].exe] EXCEPT !.faulty = TRUE] \in Executables
        BY <2>1 DEF Executables
      <4>2. [exe[arg[t].exe] EXCEPT !.faulty = TRUE].frozen = exe[arg[t].exe].frozen
        BY <2>1 DEF Executables
      <4> QED
        BY <3>2, <2>1, <4>1, <4>2, NullAssumption DEF TypeInv, Live, Faulted, Loads
    <3> QED
      BY <1>9, <3>1, <3>2 DEF AllocMailbox
  <2>3. g_mbox' \in Mailboxes \union {Null} /\ pc' \in [Threads -> Places]
        /\ \A u \in Threads : pc'[u] = "idle" <=> pc[u] = "idle"
    BY <1>9 DEF AllocMailbox, TypeInv, Goto, Places
  <2> QED
    BY <1>9, <2>2, <2>3 DEF AllocMailbox, TypeInv, UseInv, Live, Loads, access, sets, config, process
<1>17. ASSUME NEW t \in Threads, GrantAccess(t) PROVE TypeInv' /\ UseInv'
  BY <1>17 DEF GrantAccess, Goto, TypeInv, UseInv, Live, Loads, Places,
     config, runtime, access, sets, objects, process
<1>10. ASSUME NEW t \in Threads, InitMailbox(t) PROVE TypeInv' /\ UseInv'
  BY <1>10 DEF InitMailbox, Goto, TypeInv, UseInv, Live, Loads, Places,
     config, runtime, access, sets, objects, process
<1>11. ASSUME NEW t \in Threads, SpawnService(t) PROVE TypeInv' /\ UseInv'
  BY <1>11 DEF SpawnService, Goto, TypeInv, UseInv, Live, Loads, Places,
     config, runtime, access, sets, objects, process
<1>12. ASSUME NEW t \in Threads, SetStarted(t) PROVE TypeInv' /\ UseInv'
  BY <1>12 DEF SetStarted, Goto, TypeInv, UseInv, Live, Loads, Places,
     config, runtime, access, sets, objects, process
<1>13. ASSUME NEW t \in Threads, Augment(t) PROVE TypeInv' /\ UseInv'
  BY <1>13, Augmented, NullAssumption DEF Augment, Goto, TypeInv, UseInv, Live, Loads, Places,
     config, runtime, access, sets, objects, process
<1>14. ASSUME NEW t \in Threads, RealLoad(t) PROVE TypeInv' /\ UseInv'
  BY <1>14, NullAssumption DEF RealLoad, Goto, TypeInv, UseInv, Live, Loads, Places, Executables,
     config, runtime, access, sets, objects, process
<1>15. ASSUME Teardown PROVE TypeInv' /\ UseInv'
  BY <1>15 DEF Teardown, TypeInv, UseInv, Live, config, access, sets, objects, process
<1>16. ASSUME UNCHANGED vars PROVE TypeInv' /\ UseInv'
  BY <1>16 DEF TypeInv, UseInv, Live, vars, config, runtime, access, sets, objects, process
<1> QED
  BY <1>1, <1>2, <1>3, <1>4, <1>5, <1>6, <1>7, <1>8, <1>9, <1>10, <1>11, <1>12, <1>13, <1>14,
     <1>15, <1>16, <1>17 DEF Next

-----------------------------------------------------------------------------
(* One definition of the mailbox for each executable.                      *)
LEMMA DefinedStep == Base /\ DefinedInv /\ [Next]_vars => DefinedInv'
<1> SUFFICES ASSUME Base, DefinedInv, [Next]_vars PROVE DefinedInv'
  OBVIOUS
<1> USE DEF Base
<1>1. ASSUME NEW t \in Threads, CreateExe(t) PROVE DefinedInv'
  BY <1>1 DEF CreateExe, TypeInv, DefinedInv, Live, Fresh, sets
<1>2. ASSUME NEW t \in Threads, DestroyExe(t) PROVE DefinedInv'
  BY <1>2 DEF DestroyExe, TypeInv, DefinedInv, Live, sets
<1>3. ASSUME NEW t \in Threads, Freeze(t) PROVE DefinedInv'
  BY <1>3 DEF Freeze, TypeInv, DefinedInv, Live, sets, Executables
<1>4. ASSUME NEW t \in Threads, AllocMailbox(t) PROVE DefinedInv'
  <2>1. arg[t] \in Loads /\ exe[arg[t].exe] \in Executables
    BY <1>4 DEF AllocMailbox, TypeInv, UseInv, Live, Loads
  <2> QED
    BY <1>4, <2>1, NullAssumption DEF AllocMailbox, Faulted, TypeInv, DefinedInv, Live, Loads, sets, Executables
<1>5. ASSUME NEW t \in Threads, Augment(t) PROVE DefinedInv'
  <2> DEFINE x == arg[t].exe
  <2>1. x \in Exes /\ exe[x] \in Executables
    BY <1>5 DEF Augment, TypeInv, UseInv, Live, Loads
  <2>2. CASE x \in g_augmented_exes
    BY <1>5, <2>2 DEF Augment, DefinedInv, Live
  <2>3. CASE x \notin g_augmented_exes
    <3>1. PICK d \in Define(exe[x]) : \E e \in LoadLib(d) : exe' = [exe EXCEPT ![x] = e]
      BY <1>5, <2>3 DEF Augment
    <3>2. PICK e \in LoadLib(d) : exe' = [exe EXCEPT ![x] = e]
      BY <3>1
    <3>3. e \in Executables /\ e.defines <= exe[x].defines + 1
      BY <2>1, <3>1, <3>2, Augmented DEF TypeInv
    <3>4. exe[x].defines = 0 /\ e.defines \in Nat
      BY <1>5, <2>1, <2>3, <3>3 DEF DefinedInv, Augment, UseInv, Executables
    <3>5. g_augmented_exes' = g_augmented_exes \union {x}
      BY <1>5, <2>3 DEF Augment
    <3> QED
      BY <2>1, <3>2, <3>3, <3>4, <3>5 DEF DefinedInv, TypeInv, Live
  <2> QED
    BY <2>2, <2>3
<1>6. ASSUME NEW t \in Threads, RealLoad(t) PROVE DefinedInv'
  <2>1. arg[t] \in Loads /\ exe[arg[t].exe] \in Executables
    BY <1>6 DEF RealLoad, TypeInv, UseInv, Live, Loads
  <2> QED
    BY <1>6, <2>1, NullAssumption DEF RealLoad, TypeInv, DefinedInv, Live, Loads, sets, Executables
<1>7. ASSUME UNCHANGED <<exe, g_augmented_exes>> PROVE DefinedInv'
  BY <1>7 DEF DefinedInv, Live
<1> QED
  BY <1>1, <1>2, <1>3, <1>4, <1>5, <1>6, <1>7 DEF Next, vars, config, sets, objects, process,
     DestroyReader, RegisterFatBinary, CoReader, BeginLoad, CheckStarted, GrantAccess, InitMailbox,
     SpawnService, SetStarted, Teardown

(* However many threads load into an executable at once, the hooks define  *)
(* the mailbox in it once (augment_executable under g_mtx).                *)
THEOREM OneDefinition == Spec => []DefinedOnce
<1>1. Init => Base /\ DefinedInv
  BY BaseStart DEF Init, DefinedInv, Live
<1>2. Base /\ DefinedInv /\ [Next]_vars => Base' /\ DefinedInv'
  BY BaseStep, DefinedStep
<1>3. DefinedInv => DefinedOnce
  BY DEF DefinedInv, DefinedOnce
<1> QED
  BY <1>1, <1>2, <1>3, PTL DEF Spec

-----------------------------------------------------------------------------
(* Readers of instrumented code are remembered from the time they are made *)
(* and never forgotten.                                                    *)
LEMMA ReaderStep == Base /\ ReaderInv /\ [Next]_vars => ReaderInv'
<1> SUFFICES ASSUME Base, ReaderInv, [Next]_vars PROVE ReaderInv'
  OBVIOUS
<1> USE DEF Base
<1>1. ASSUME NEW t \in Threads, DestroyReader(t) PROVE ReaderInv'
  BY <1>1, NullAssumption DEF DestroyReader, TypeInv, ReaderInv, sets
<1>2. ASSUME NEW t \in Threads, CoReader(t) PROVE ReaderInv'
  <2>1. PICK r \in Readers, f \in Fats :
          /\ held[f] # Null /\ bundle_device_co(held[f]) # Null
          /\ reader' = [reader EXCEPT ![r] = bundle_device_co(held[f])[2]]
          /\ g_inst_readers' =
                 IF g_cfg'.ok /\ \E i \in DOMAIN g_cfg'.subs :
                                     bundle_device_co(held[f]) = g_cfg'.subs[i].inst
                 THEN g_inst_readers \union {r} ELSE g_inst_readers
    BY <1>2 DEF CoReader
  <2>2. g_cfg # Null /\ g_cfg' = g_cfg
    BY <1>2, <2>1, Configured DEF ConfigInv, CoReader
  <2>3. bundle_device_co(held[f])[2] = "inst" => g_inst_readers' = g_inst_readers \union {r}
    BY <2>1, <2>2, Handed
  <2>4. g_inst_readers \subseteq g_inst_readers'
    BY <2>1
  <2> QED
    BY <2>1, <2>3, <2>4 DEF ReaderInv, TypeInv
<1>3. ASSUME UNCHANGED <<reader, g_inst_readers>> PROVE ReaderInv'
  BY <1>3 DEF ReaderInv
<1> QED
  BY <1>1, <1>2, <1>3 DEF Next, vars, config, sets, objects, process,
     CreateExe, DestroyExe, Freeze, RegisterFatBinary, BeginLoad, CheckStarted, AllocMailbox,
     GrantAccess, InitMailbox, SpawnService, SetStarted, Augment, RealLoad, Teardown

LEMMA MailboxStep == Base /\ MailboxInv /\ [Next]_vars => MailboxInv'
<1> SUFFICES ASSUME Base, MailboxInv, [Next]_vars PROVE MailboxInv'
  OBVIOUS
<1> USE DEF Base
<1>1. ASSUME NEW t \in Threads, BeginLoad(t) PROVE MailboxInv'
  BY <1>1 DEF BeginLoad, Goto, TypeInv, MailboxInv, runtime
<1>2. ASSUME NEW t \in Threads, CheckStarted(t) PROVE MailboxInv'
  BY <1>2 DEF CheckStarted, Goto, TypeInv, MailboxInv, runtime
<1>3. ASSUME NEW t \in Threads, AllocMailbox(t) PROVE MailboxInv'
  BY <1>3, NullAssumption DEF AllocMailbox, Goto, TypeInv, MailboxInv
<1>4. ASSUME NEW t \in Threads, GrantAccess(t) \/ InitMailbox(t) PROVE MailboxInv'
  BY <1>4 DEF GrantAccess, InitMailbox, Goto, TypeInv, MailboxInv
<1>5. ASSUME NEW t \in Threads, SpawnService(t) PROVE MailboxInv'
  BY <1>5 DEF SpawnService, Goto, TypeInv, MailboxInv
<1>6. ASSUME NEW t \in Threads, SetStarted(t) PROVE MailboxInv'
  BY <1>6 DEF SetStarted, Goto, TypeInv, MailboxInv
<1>7. ASSUME NEW t \in Threads, Augment(t) PROVE MailboxInv'
  BY <1>7 DEF Augment, Goto, TypeInv, MailboxInv, runtime
<1>8. ASSUME NEW t \in Threads, RealLoad(t) PROVE MailboxInv'
  BY <1>8 DEF RealLoad, Goto, TypeInv, MailboxInv, runtime
<1>9. ASSUME UNCHANGED <<g_svc_started, g_mbox, pc>> PROVE MailboxInv'
  BY <1>9 DEF MailboxInv
<1> QED
  BY <1>1, <1>2, <1>3, <1>4, <1>5, <1>6, <1>7, <1>8, <1>9 DEF Next, vars, config, runtime, objects,
     CreateExe, DestroyExe, DestroyReader, Freeze, RegisterFatBinary, CoReader, Teardown

LinkBase == Base /\ ReaderInv /\ MailboxInv

LEMMA CompleteStep == LinkBase /\ CompleteInv /\ [Next]_vars => CompleteInv'
<1> SUFFICES ASSUME LinkBase, CompleteInv, [Next]_vars PROVE CompleteInv'
  OBVIOUS
<1> USE DEF LinkBase, Base
<1>1. ASSUME NEW t \in Threads, CreateExe(t) PROVE CompleteInv'
  BY <1>1, NullAssumption
  DEF CreateExe, TypeInv, UseInv, CompleteInv, Complete, Live, Fresh, sets, Loads
<1>2. ASSUME NEW t \in Threads, DestroyExe(t) PROVE CompleteInv'
  BY <1>2 DEF DestroyExe, TypeInv, UseInv, CompleteInv, Complete, Live, InUse, sets, Loads
<1>3. ASSUME NEW t \in Threads, DestroyReader(t) PROVE CompleteInv'
  BY <1>3 DEF DestroyReader, TypeInv, UseInv, CompleteInv, Complete, Live, InUse, sets, Loads
<1>4. ASSUME NEW t \in Threads, Freeze(t) PROVE CompleteInv'
  <2> PICK x \in Exes :
          /\ exe[x] # Null /\ ~ InUse(x)
          /\ exe' = [exe EXCEPT ![x].frozen = TRUE,
                                ![x].linked = "inst" \in exe[x].code =>
                                       exe[x].lib /\ exe[x].mailbox # Null]
    BY <1>4 DEF Freeze
  <2>1. /\ exe'[x].faulty = exe[x].faulty /\ exe'[x].lib = exe[x].lib
        /\ exe'[x].mailbox = exe[x].mailbox /\ exe'[x].code = exe[x].code
    BY DEF TypeInv, Executables
  <2>2. \A y \in Exes : Complete(y)' = Complete(y) /\ (y # x => exe'[y] = exe[y])
    BY <2>1 DEF TypeInv, Complete
  <2>3. \A u \in Threads : arg[u] # Null => arg[u].exe \in Exes
    BY DEF TypeInv, Loads
  <2> QED
    BY <1>4, <2>1, <2>2, <2>3 DEF Freeze, TypeInv, UseInv, CompleteInv, Live, sets
<1>5. ASSUME NEW t \in Threads, CoReader(t) PROVE CompleteInv'
  BY <1>5 DEF CoReader, TypeInv, UseInv, CompleteInv, Complete, Live, Loads
<1>6. ASSUME NEW t \in Threads, BeginLoad(t) PROVE CompleteInv'
  BY <1>6, NullAssumption
  DEF BeginLoad, Goto, TypeInv, ReaderInv, CompleteInv, Complete, Live, sets, objects
<1>7. ASSUME NEW t \in Threads, CheckStarted(t) PROVE CompleteInv'
  BY <1>7 DEF CheckStarted, Goto, TypeInv, MailboxInv, CompleteInv, Complete, Live, sets, objects
<1>8. ASSUME NEW t \in Threads, AllocMailbox(t) PROVE CompleteInv'
  <2>1. arg[t] \in Loads /\ exe[arg[t].exe] \in Executables
    BY <1>8 DEF AllocMailbox, TypeInv, UseInv, Live, Loads
  <2>2. CASE UNCHANGED exe /\ Goto(t, "grant")
    BY <1>8, <2>2 DEF AllocMailbox, Goto, TypeInv, CompleteInv, Complete, Live, sets
  <2>3. CASE exe' = Faulted(arg[t].exe) /\ Goto(t, "load")
    <3> PICK x \in Exes : x = arg[t].exe
      BY <2>1 DEF Loads
    <3>1. exe'[x] = [exe[x] EXCEPT !.faulty = TRUE]
      BY <2>3 DEF Faulted, TypeInv
    <3>2. exe'[x].faulty /\ exe'[x].code = exe[x].code
      BY <2>1, <3>1 DEF Executables
    <3>3. \A y \in Exes \ {x} : exe'[y] = exe[y]
      BY <2>3 DEF Faulted, TypeInv
    <3>4. Complete(x)' /\ \A y \in Exes \ {x} : Complete(y)' = Complete(y)
      BY <3>2, <3>3 DEF Complete
    <3>5. \A u \in Threads : arg[u] # Null => arg[u].exe \in Exes
      BY DEF TypeInv, Loads
    <3>6. \A u \in Threads : u # t => pc'[u] = pc[u]
      BY <2>3 DEF Goto, TypeInv
    <3>7. arg' = arg /\ reader' = reader /\ g_augmented_exes' = g_augmented_exes
      BY <1>8 DEF AllocMailbox, sets
    <3>8. \A u \in Threads : pc[u] = "load" => arg[u] # Null
      BY DEF UseInv
    <3>9. ASSUME NEW y \in Exes, Live(y)', y \in g_augmented_exes' \/ "inst" \in exe'[y].code
          PROVE  Complete(y)'
      BY <3>2, <3>3, <3>4, <3>7, <3>9 DEF CompleteInv, Live
    <3>10. ASSUME NEW u \in Threads, pc'[u] = "load", reader'[arg'[u].reader] = "inst"
           PROVE  Complete(arg[u].exe)'
      BY <3>4, <3>5, <3>6, <3>7, <3>8, <3>10 DEF CompleteInv
    <3> QED
      BY <3>7, <3>9, <3>10 DEF CompleteInv, Complete
  <2> QED
    BY <1>8, <2>2, <2>3 DEF AllocMailbox
<1>9. ASSUME NEW t \in Threads,
             GrantAccess(t) \/ InitMailbox(t) \/ SpawnService(t) \/ SetStarted(t)
      PROVE  CompleteInv'
  BY <1>9 DEF GrantAccess, InitMailbox, SpawnService, SetStarted, Goto, TypeInv, CompleteInv, Complete, Live,
     sets, objects
<1>11. ASSUME NEW t \in Threads, Augment(t) PROVE CompleteInv'
  <2> PICK x \in Exes : x = arg[t].exe
    BY <1>11 DEF Augment, TypeInv, UseInv, Loads
  <2>1. exe[x] \in Executables /\ g_mbox # Null
    BY <1>11 DEF Augment, TypeInv, UseInv, MailboxInv, Live, Loads
  <2>2. /\ arg' = arg /\ reader' = reader
        /\ pc'[t] = "load" /\ \A u \in Threads : u # t => pc'[u] = pc[u]
    BY <1>11 DEF Augment, Goto, TypeInv
  <2>3. \A u \in Threads : pc[u] # "idle" => arg[u].exe \in Exes
    BY DEF TypeInv, UseInv, Loads
  <2>4. /\ Complete(x)' /\ exe'[x].code = exe[x].code
        /\ \A y \in Exes \ {x} : exe'[y] = exe[y]
        /\ g_augmented_exes' = g_augmented_exes \union {x}
    <3>1. CASE x \in g_augmented_exes
      BY <1>11, <2>1, <3>1 DEF Augment, CompleteInv, Complete, UseInv, Live
    <3>2. CASE x \notin g_augmented_exes
      <4>1. PICK d \in Define(exe[x]) : \E e \in LoadLib(d) : exe' = [exe EXCEPT ![x] = e]
        BY <1>11, <3>2 DEF Augment
      <4>2. PICK e \in LoadLib(d) : exe' = [exe EXCEPT ![x] = e]
        BY <4>1
      <4>3. e.code = exe[x].code /\ (~ e.faulty => e.lib /\ e.mailbox # Null)
        BY <2>1, <4>1, <4>2, Augmented DEF TypeInv
      <4>4. exe'[x] = e /\ \A y \in Exes \ {x} : exe'[y] = exe[y]
        BY <2>1, <4>2 DEF TypeInv
      <4> QED
        BY <1>11, <2>2, <3>2, <4>3, <4>4 DEF Augment, Complete
    <3> QED
      BY <3>1, <3>2
  <2>5. \A y \in Exes \ {x} : Complete(y)' = Complete(y)
    BY <2>4 DEF Complete
  <2>6. ASSUME NEW y \in Exes, Live(y)', y \in g_augmented_exes' \/ "inst" \in exe'[y].code
        PROVE  Complete(y)'
    BY <2>4, <2>5, <2>6 DEF CompleteInv, Live
  <2>7. ASSUME NEW u \in Threads, pc'[u] = "load", reader'[arg'[u].reader] = "inst"
        PROVE  Complete(arg[u].exe)'
    BY <2>2, <2>3, <2>4, <2>5, <2>7 DEF CompleteInv
  <2> QED
    BY <2>2, <2>6, <2>7 DEF CompleteInv, Complete
<1>12. ASSUME NEW t \in Threads, RealLoad(t) PROVE CompleteInv'
  <2> PICK x \in Exes : x = arg[t].exe
    BY <1>12 DEF RealLoad, TypeInv, UseInv, Loads
  <2>1. exe[x] \in Executables /\ arg[t].reader \in Readers
    BY <1>12 DEF RealLoad, TypeInv, UseInv, Live, Loads
  <2>2. exe'[x].code = exe[x].code \union {reader[arg[t].reader]}
    BY <1>12, <2>1 DEF RealLoad, TypeInv, Executables
  <2>3. \A y \in Exes : Complete(y)' = Complete(y)
    BY <1>12, <2>1 DEF RealLoad, TypeInv, Complete, Executables
  <2>4. \A y \in Exes \ {x} : exe'[y] = exe[y]
    BY <1>12 DEF RealLoad, TypeInv
  <2>5. /\ g_augmented_exes' = g_augmented_exes /\ reader' = reader
        /\ pc[t] = "load" /\ pc'[t] = "idle"
        /\ \A u \in Threads : u # t => pc'[u] = pc[u] /\ arg'[u] = arg[u]
    BY <1>12 DEF RealLoad, Goto, TypeInv, sets
  <2>6. \A u \in Threads : pc[u] = "load" => arg[u].exe \in Exes
    BY DEF TypeInv, UseInv, Loads
  <2>7. ASSUME NEW y \in Exes, Live(y)', y \in g_augmented_exes' \/ "inst" \in exe'[y].code
        PROVE  Complete(y)
    <3>1. CASE y = x
      BY <1>12, <2>1, <2>2, <2>5, <2>7, <3>1 DEF CompleteInv, UseInv
    <3>2. CASE y # x
      BY <2>4, <2>5, <2>7, <3>2 DEF CompleteInv, Live
    <3> QED
      BY <3>1, <3>2
  <2>8. ASSUME NEW u \in Threads, pc'[u] = "load", reader'[arg'[u].reader] = "inst"
        PROVE  u # t /\ Complete(arg[u].exe)
    BY <2>5, <2>8 DEF CompleteInv
  <2>9. \A u \in Threads : pc'[u] = "load" => u # t /\ pc[u] = "load" /\ arg'[u] = arg[u]
    BY <2>5
  <2> QED
    BY <2>3, <2>6, <2>7, <2>8, <2>9 DEF CompleteInv, Complete
<1>13. ASSUME UNCHANGED <<exe, pc, arg, reader, g_augmented_exes>> PROVE CompleteInv'
  BY <1>13 DEF CompleteInv, Complete, Live
<1> QED
  BY <1>1, <1>2, <1>3, <1>4, <1>5, <1>6, <1>7, <1>8, <1>9, <1>11, <1>12, <1>13
  DEF Next, vars, config, runtime, sets, objects, RegisterFatBinary, Teardown

LEMMA LocalStep == LinkBase /\ CompleteInv /\ LocalInv /\ [Next]_vars => LocalInv'
<1> SUFFICES ASSUME LinkBase, CompleteInv, LocalInv, [Next]_vars PROVE LocalInv'
  OBVIOUS
<1> USE DEF LinkBase, Base
<1>1. ASSUME NEW t \in Threads, CreateExe(t) PROVE LocalInv'
  BY <1>1 DEF CreateExe, TypeInv, LocalInv, Live, Fresh
<1>2. ASSUME NEW t \in Threads, DestroyExe(t) PROVE LocalInv'
  BY <1>2 DEF DestroyExe, TypeInv, LocalInv, Live
<1>3. ASSUME NEW t \in Threads, Freeze(t) PROVE LocalInv'
  <2> PICK x \in Exes :
          /\ exe[x] # Null
          /\ exe' = [exe EXCEPT ![x].frozen = TRUE,
                                ![x].linked = "inst" \in exe[x].code =>
                                       exe[x].lib /\ exe[x].mailbox # Null]
    BY <1>3 DEF Freeze
  <2>1. /\ exe'[x].faulty = exe[x].faulty
        /\ exe'[x].linked = ("inst" \in exe[x].code => exe[x].lib /\ exe[x].mailbox # Null)
    BY DEF TypeInv, Executables
  <2>2. \A y \in Exes \ {x} : exe'[y] = exe[y]
    BY DEF TypeInv
  <2>3. "inst" \in exe[x].code => Complete(x)
    BY DEF CompleteInv, Live
  <2> QED
    BY <2>1, <2>2, <2>3 DEF LocalInv, Complete, Live
<1>4. ASSUME NEW t \in Threads, AllocMailbox(t) \/ Augment(t) \/ RealLoad(t) PROVE LocalInv'
  <2> PICK x \in Exes : x = arg[t].exe
    BY <1>4 DEF AllocMailbox, Augment, RealLoad, TypeInv, UseInv, Loads
  <2>1. exe[x] \in Executables /\ ~ exe[x].frozen
    BY <1>4 DEF AllocMailbox, Augment, RealLoad, TypeInv, UseInv, Live
  <2>2. ~ exe'[x].frozen /\ \A y \in Exes \ {x} : exe'[y] = exe[y]
    <3>1. CASE AllocMailbox(t)
      BY <2>1, <3>1 DEF AllocMailbox, Faulted, TypeInv, Executables
    <3>2. CASE Augment(t)
      <4>1. CASE x \in g_augmented_exes
        BY <2>1, <3>2, <4>1 DEF Augment
      <4>2. CASE x \notin g_augmented_exes
        <5>1. PICK d \in Define(exe[x]) : \E e \in LoadLib(d) : exe' = [exe EXCEPT ![x] = e]
          BY <3>2, <4>2 DEF Augment
        <5>2. PICK e \in LoadLib(d) : exe' = [exe EXCEPT ![x] = e]
          BY <5>1
        <5>3. e.frozen = exe[x].frozen
          BY <2>1, <5>1, <5>2, Augmented DEF TypeInv
        <5> QED
          BY <2>1, <5>2, <5>3 DEF TypeInv
      <4> QED
        BY <4>1, <4>2
    <3>3. CASE RealLoad(t)
      BY <2>1, <3>3 DEF RealLoad, TypeInv, Executables
    <3> QED
      BY <1>4, <3>1, <3>2, <3>3
  <2> QED
    BY <2>2 DEF LocalInv, Live
<1>5. ASSUME UNCHANGED exe PROVE LocalInv'
  BY <1>5 DEF LocalInv, Live
<1> QED
  BY <1>1, <1>2, <1>3, <1>4, <1>5 DEF Next, vars, objects, RegisterFatBinary, CoReader, BeginLoad,
     DestroyReader, CheckStarted, GrantAccess, InitMailbox, SpawnService, SetStarted, Teardown

(* What the hooks make of one executable, however the loads overlap.       *)
LinkI == Base /\ LinkInv

LEMMA LinkStart == Init => LinkI
BY BaseStart, NullAssumption
DEF Init, LinkI, LinkInv, ReaderInv, MailboxInv, CompleteInv, LocalInv, Live

LEMMA LinkStep == LinkI /\ [Next]_vars => LinkI'
BY BaseStep, ReaderStep, MailboxStep, CompleteStep, LocalStep DEF LinkI, LinkInv, LinkBase

-----------------------------------------------------------------------------
(* The first instrumented load, when no other load overlaps with it.       *)
LEMMA StartStep ==
    ASSUME ~ Overlap
    PROVE  Base /\ StartInv /\ [Next]_vars => StartInv'
<1> SUFFICES ASSUME Base, StartInv, [Next]_vars PROVE StartInv'
  OBVIOUS
<1> USE DEF Base
<1>1. ASSUME NEW t \in Threads, BeginLoad(t) PROVE StartInv'
  BY <1>1 DEF BeginLoad, Goto, TypeInv, StartInv, Starting, runtime, access, process
<1>2. ASSUME NEW t \in Threads, CheckStarted(t) PROVE StartInv'
  BY <1>2 DEF CheckStarted, Goto, TypeInv, StartInv, Starting, runtime, access, process
<1>3. ASSUME NEW t \in Threads, AllocMailbox(t) PROVE StartInv'
  BY <1>3 DEF AllocMailbox, Goto, TypeInv, StartInv, Starting, process, access
<1>11. ASSUME NEW t \in Threads, GrantAccess(t) PROVE StartInv'
  BY <1>11 DEF GrantAccess, Goto, TypeInv, StartInv, Starting, process
<1>4. ASSUME NEW t \in Threads, InitMailbox(t) PROVE StartInv'
  BY <1>4 DEF InitMailbox, Goto, TypeInv, StartInv, Starting, process, access
<1>5. ASSUME NEW t \in Threads, SpawnService(t) PROVE StartInv'
  BY <1>5 DEF SpawnService, Goto, TypeInv, StartInv, Starting, access
<1>6. ASSUME NEW t \in Threads, SetStarted(t) PROVE StartInv'
  BY <1>6 DEF SetStarted, Goto, TypeInv, StartInv, Starting, process, access
<1>7. ASSUME NEW t \in Threads, Augment(t) PROVE StartInv'
  BY <1>7 DEF Augment, Goto, TypeInv, StartInv, Starting, runtime, access, process
<1>8. ASSUME NEW t \in Threads, RealLoad(t) PROVE StartInv'
  BY <1>8 DEF RealLoad, Goto, TypeInv, StartInv, Starting, runtime, access, process
<1>9. ASSUME Teardown PROVE StartInv'
  BY <1>9 DEF Teardown, TypeInv, StartInv, Starting, access
<1>10. ASSUME UNCHANGED <<runtime, process, pc>> PROVE StartInv'
  BY <1>10 DEF StartInv, runtime, access, process
<1> QED
  BY <1>1, <1>2, <1>3, <1>4, <1>5, <1>6, <1>7, <1>8, <1>9, <1>10, <1>11 DEF Next, vars, process,
     CreateExe, DestroyExe, DestroyReader, Freeze, RegisterFatBinary, CoReader

LEMMA StartStart == Init => StartInv
BY DEF Init, StartInv, Starting

(* The service thread is started once, whatever fails and whichever loads  *)
(* follow at once, if no other load overlaps with the first instrumented   *)
(* one; ensure_runtime, which takes no lock, needs that.                   *)
THEOREM OneServiceThread ==
    ASSUME ~ Overlap
    PROVE  Spec => []StartedOnce
<1>1. Init => Base /\ StartInv
  BY BaseStart, StartStart
<1>2. Base /\ StartInv /\ [Next]_vars => Base' /\ StartInv'
  BY BaseStep, StartStep
<1>3. StartInv => StartedOnce
  BY DEF StartInv, StartedOnce
<1> QED
  BY <1>1, <1>2, <1>3, PTL DEF Spec

LEMMA ServedStep == Base /\ StartInv /\ ServedInv /\ [Next]_vars => ServedInv'
<1> SUFFICES ASSUME Base, StartInv, ServedInv, [Next]_vars PROVE ServedInv'
  OBVIOUS
<1> USE DEF Base
<1>1. ASSUME NEW t \in Threads, CreateExe(t) PROVE ServedInv'
  BY <1>1 DEF CreateExe, TypeInv, ServedInv, Live, Fresh, runtime
<1>2. ASSUME NEW t \in Threads, DestroyExe(t) PROVE ServedInv'
  BY <1>2 DEF DestroyExe, TypeInv, ServedInv, Live, runtime
<1>3. ASSUME NEW t \in Threads, Freeze(t) PROVE ServedInv'
  <2> PICK x \in Exes :
          /\ exe[x] # Null
          /\ exe' = [exe EXCEPT ![x].frozen = TRUE,
                                ![x].linked = "inst" \in exe[x].code =>
                                       exe[x].lib /\ exe[x].mailbox # Null]
    BY <1>3 DEF Freeze
  <2>1. /\ exe'[x].mailbox = exe[x].mailbox /\ exe'[x].code = exe[x].code /\ exe'[x].frozen
        /\ exe'[x].linked = ("inst" \in exe[x].code => exe[x].lib /\ exe[x].mailbox # Null)
    BY DEF TypeInv, Executables
  <2>2. \A y \in Exes \ {x} : exe'[y] = exe[y]
    BY DEF TypeInv
  <2>3. g_svc_started' = g_svc_started /\ g_mbox' = g_mbox
    BY <1>3 DEF Freeze, runtime
  <2> QED
    BY <2>1, <2>2, <2>3 DEF ServedInv, Live
<1>4. ASSUME NEW t \in Threads, AllocMailbox(t) PROVE ServedInv'
  <2> PICK x \in Exes : x = arg[t].exe
    BY <1>4 DEF AllocMailbox, TypeInv, UseInv, Loads
  <2>1. exe[x] \in Executables /\ ~ g_svc_started /\ ~ g_svc_started'
    BY <1>4 DEF AllocMailbox, TypeInv, UseInv, Live, StartInv, Starting
  <2>2. CASE UNCHANGED exe
    BY <1>4, <2>1, <2>2 DEF ServedInv, Live
  <2>3. CASE exe' = Faulted(x)
    <3>1. /\ exe'[x].mailbox = exe[x].mailbox /\ exe'[x].code = exe[x].code
          /\ exe'[x].linked = exe[x].linked /\ exe'[x].frozen = exe[x].frozen
      BY <2>1, <2>3 DEF Faulted, TypeInv, Executables
    <3>2. \A y \in Exes \ {x} : exe'[y] = exe[y]
      BY <2>3 DEF Faulted, TypeInv
    <3>3. exe[x] # Null
      BY <1>4 DEF AllocMailbox, UseInv, Live
    <3> QED
      BY <2>1, <3>1, <3>2, <3>3 DEF ServedInv, Live
  <2> QED
    BY <1>4, <2>2, <2>3 DEF AllocMailbox
<1>5. ASSUME NEW t \in Threads, Augment(t) PROVE ServedInv'
  <2> PICK x \in Exes : x = arg[t].exe
    BY <1>5 DEF Augment, TypeInv, UseInv, Loads
  <2>1. exe[x] \in Executables /\ ~ exe[x].frozen /\ g_svc_started /\ Live(x)
    BY <1>5 DEF Augment, TypeInv, UseInv, Live, StartInv
  <2>2. g_svc_started' = g_svc_started /\ g_mbox' = g_mbox
    BY <1>5 DEF Augment, runtime
  <2>3. CASE x \in g_augmented_exes
    BY <1>5, <2>2, <2>3 DEF Augment, ServedInv, Live
  <2>4. CASE x \notin g_augmented_exes
    <3>1. PICK d \in Define(exe[x]) : \E e \in LoadLib(d) : exe' = [exe EXCEPT ![x] = e]
      BY <1>5, <2>4 DEF Augment
    <3>2. PICK e \in LoadLib(d) : exe' = [exe EXCEPT ![x] = e]
      BY <3>1
    <3>3. e.linked = exe[x].linked /\ (e.mailbox = exe[x].mailbox \/ e.mailbox = g_mbox)
      BY <2>1, <3>1, <3>2, Augmented DEF TypeInv
    <3>4. ~ e.linked
      BY <2>1, <3>3 DEF ServedInv
    <3>5. e.mailbox # Null => e.mailbox = g_mbox
      BY <2>1, <3>3 DEF ServedInv
    <3>6. exe'[x] = e /\ \A y \in Exes \ {x} : exe'[y] = exe[y]
      BY <3>2 DEF TypeInv
    <3> QED
      BY <2>1, <2>2, <3>4, <3>5, <3>6 DEF ServedInv, Live
  <2> QED
    BY <2>3, <2>4
<1>6. ASSUME NEW t \in Threads, RealLoad(t) PROVE ServedInv'
  <2> PICK x \in Exes : x = arg[t].exe
    BY <1>6 DEF RealLoad, TypeInv, UseInv, Loads
  <2>1. exe[x] \in Executables /\ ~ exe[x].frozen /\ Live(x)
    BY <1>6 DEF RealLoad, TypeInv, UseInv, Live
  <2>2. /\ exe'[x].mailbox = exe[x].mailbox /\ exe'[x].linked = exe[x].linked
        /\ \A y \in Exes \ {x} : exe'[y] = exe[y]
    BY <1>6, <2>1 DEF RealLoad, TypeInv, Executables
  <2>3. ~ exe[x].linked
    BY <2>1 DEF ServedInv
  <2>4. g_svc_started' = g_svc_started /\ g_mbox' = g_mbox
    BY <1>6 DEF RealLoad, runtime
  <2> QED
    BY <2>1, <2>2, <2>3, <2>4 DEF ServedInv, Live
<1>7. ASSUME NEW t \in Threads, SetStarted(t) PROVE ServedInv'
  BY <1>7 DEF SetStarted, ServedInv, Live, objects
<1>8. ASSUME UNCHANGED <<exe, g_svc_started, g_mbox>> PROVE ServedInv'
  BY <1>8 DEF ServedInv, Live
<1> QED
  BY <1>1, <1>2, <1>3, <1>4, <1>5, <1>6, <1>7, <1>8 DEF Next, vars, runtime, objects, RegisterFatBinary,
     CoReader, BeginLoad, DestroyReader, CheckStarted, GrantAccess, InitMailbox, SpawnService, Teardown

(* Under the same condition, instrumented code that froze without a        *)
(* complaint raises its requests in a mailbox that was initialised and     *)
(* that the service thread serves until hostcall_teardown, after the GPU   *)
(* was given access to it or the runtime refused that.                     *)
THEOREM LinkedCodeServed ==
    ASSUME ~ Overlap
    PROVE  Spec => []LinkedMeansServed
<1> DEFINE I == Base /\ StartInv /\ ServedInv
<1>1. Init => I
  BY BaseStart, StartStart DEF Init, ServedInv, Live
<1>2. I /\ [Next]_vars => I'
  BY BaseStep, StartStep, ServedStep
<1>3. I => LinkedMeansServed
  BY DEF StartInv, ServedInv, LinkedMeansServed, Live
<1> QED
  BY <1>1, <1>2, <1>3, PTL DEF Spec

(* Under the same condition and whatever files of the configuration cannot *)
(* be read, an executable for which no call of the hooks failed links, and *)
(* unless the grant of its mailbox was refused the GPU reaches it          *)
(* (load_config, ensure_runtime, hook_load, augment_executable).           *)
THEOREM FaultsAreLocal ==
    ASSUME ~ Overlap
    PROVE  Spec => []FaultsStayLocal
<1> DEFINE I == LinkI /\ StartInv /\ ServedInv
<1>1. Init => I
  BY LinkStart, StartStart DEF Init, ServedInv, Live
<1>2. I /\ [Next]_vars => I'
  BY LinkStep, StartStep, ServedStep DEF LinkI
<1>3. ASSUME I, NEW x \in Exes, Live(x), exe[x].frozen, ~ Spoilt(x)
      PROVE  exe[x].linked /\ ("inst" \in exe[x].code => exe[x].mailbox \in granted)
  <2>1. exe[x].linked
    BY <1>3 DEF Spoilt, LinkI, LinkInv, LocalInv
  <2>2. "inst" \in exe[x].code => g_svc_started /\ exe[x].mailbox = g_mbox
    BY <1>3, <2>1 DEF ServedInv
  <2>3. "inst" \in exe[x].code => exe[x].mailbox \in granted \union refused
    BY <1>3, <2>2 DEF StartInv
  <2> QED
    BY <1>3, <2>1, <2>3 DEF Spoilt
<1>4. I => FaultsStayLocal
  BY <1>3 DEF FaultsStayLocal
<1> QED
  BY <1>1, <1>2, <1>4, PTL DEF Spec
=============================================================================
