-------------------------- MODULE InstPipelineProofs --------------------------
(***************************************************************************)
(* What is proved of module InstPipeline and of the tables and the notes   *)
(* it edits.                                                               *)
(***************************************************************************)
EXTENDS InstPipeline, FiniteSetTheorems, SequenceTheorems, WellFoundedInduction, TLAPS

-----------------------------------------------------------------------------
(***************************************************************************)
(* Numbers and finite sets of them.                                        *)
(***************************************************************************)
(* A set of naturals has a least element.                                  *)
LEMMA LeastNumber ==
    ASSUME NEW S \in SUBSET Nat, S # {}
    PROVE  \E n \in S : \A m \in S : n <= m
<1>1. IsWellFoundedOn(OpToRel(<, Nat), Nat)
  BY NatLessThanWellFounded
<1>2. PICK n \in S : \A m \in S : ~ (<<m, n>> \in OpToRel(<, Nat))
  BY <1>1, WFMin
<1>3. n \in Nat /\ \A m \in S : m \in Nat
  OBVIOUS
<1>4. \A m \in S : ~ (m < n)
  BY <1>2, <1>3 DEF OpToRel
<1>5. \A m \in S : n <= m
  BY <1>3, <1>4
<1> QED BY <1>5

(* Induction, for a set of naturals.                                       *)
LEMMA SetInduction ==
    ASSUME NEW S, 0 \in S, \A n \in Nat : n \in S => n + 1 \in S
    PROVE  Nat \subseteq S
<1> SUFFICES ASSUME Nat \ S # {} PROVE FALSE
  OBVIOUS
<1>1. PICK n \in Nat \ S : \A m \in Nat \ S : n <= m
  BY LeastNumber
<1>2. n - 1 \in Nat /\ n - 1 \notin Nat \ S /\ (n - 1) + 1 = n
  BY <1>1
<1> QED BY <1>1, <1>2

(* Min and Max are what they say.                                          *)
LEMMA MinIs == ASSUME NEW S \in SUBSET Nat, S # {}
               PROVE  Min(S) \in S /\ \A m \in S : Min(S) <= m
BY LeastNumber DEF Min

LEMMA MaxIs == ASSUME NEW S \in SUBSET Nat, S # {}, IsFiniteSet(S)
               PROVE  Max(S) \in S /\ \A m \in S : m <= Max(S)
<1> DEFINE Bounded == {n \in Nat : \A m \in S : m <= n}
<1>1. \E b \in Nat : \A m \in S : m <= b
  <2> DEFINE Ok == {n \in Nat : \A T \in SUBSET Nat : IsFiniteSet(T) /\ Cardinality(T) = n
                                   => \E b \in Nat : \A m \in T : m <= b}
  <2>1. 0 \in Ok
    <3>1. ASSUME NEW T \in SUBSET Nat, IsFiniteSet(T), Cardinality(T) = 0 PROVE T = {}
      BY <3>1, FS_EmptySet
    <3> QED BY <3>1
  <2>2. ASSUME NEW n \in Nat, n \in Ok PROVE n + 1 \in Ok
    <3>1. ASSUME NEW T \in SUBSET Nat, IsFiniteSet(T), Cardinality(T) = n + 1
          PROVE  \E b \in Nat : \A m \in T : m <= b
      <4>1. T # {}
        BY <3>1, FS_EmptySet
      <4>2. PICK t \in T : TRUE
        BY <4>1
      <4>3. IsFiniteSet(T \ {t}) /\ Cardinality(T \ {t}) = (n + 1) - 1
        BY <3>1, <4>2, FS_RemoveElement, Zenon
      <4>4. PICK b \in Nat : \A m \in T \ {t} : m <= b
        BY <2>2, <4>3, (n + 1) - 1 = n
      <4>5. \A m \in T : m <= b + t
        BY <4>4, <4>2
      <4>6. b + t \in Nat
        BY <4>2
      <4> QED BY <4>5, <4>6
    <3> QED BY <3>1
  <2>3. Nat \subseteq Ok
    <3> HIDE DEF Ok
    <3> QED BY <2>1, <2>2, SetInduction
  <2>4. Cardinality(S) \in Nat
    BY FS_CardinalityType
  <2> QED BY <2>3, <2>4
<1>2. Bounded \in SUBSET Nat /\ Bounded # {}
  BY <1>1
<1>3. PICK b \in Bounded : \A n \in Bounded : b <= n
  BY <1>2, LeastNumber
<1>4. b \in S
  <2> SUFFICES ASSUME b \notin S PROVE FALSE
    OBVIOUS
  <2>1. PICK m \in S : TRUE
    OBVIOUS
  <2>2. b > 0
    BY <1>3, <2>1
  <2>3. b - 1 \in Nat /\ \A x \in S : x <= b - 1
    BY <1>3, <2>2
  <2> QED BY <1>3, <2>3
<1>5. \A m \in S : b >= m
  BY <1>3
<1> QED BY <1>4, <1>5 DEF Max

LEMMA CountOff == ASSUME NEW n \in Nat PROVE IsFiniteSet(1..n) /\ Cardinality(1..n) = n
BY FS_Interval

(* The values of a function on a finite set are finitely many.             *)
LEMMA FiniteImage ==
    ASSUME NEW S, IsFiniteSet(S), NEW f, f \in [S -> {f[x] : x \in S}]
    PROVE  IsFiniteSet({f[x] : x \in S})
<1>1. f \in Surjection(S, {f[x] : x \in S})
  BY DEF Surjection
<1> QED BY <1>1, FS_Surjection, Zenon

-----------------------------------------------------------------------------
(***************************************************************************)
(* One run of the symbol table editor.                                     *)
(***************************************************************************)
Fields == {"dyn", "sym", "gnu", "sysv", "hash", "off", "grown", "flags", "seg"}

EditedDyn(l, tables) ==
    IF tables \in {"dynsym", "both"} THEN add_aliases(l.dyn, collect_defined_funcs(l)) ELSE l.dyn

Aliased(l, tables) ==
    IF tables \in {"symtab", "both"} THEN add_aliases(l.sym, collect_defined_funcs(l)) ELSE l.sym

EditedSym(l, tables, a) ==
    IF a = None THEN Aliased(l, tables)
    ELSE add_regusage_symbols(Aliased(l, tables), collect_defined_funcs(l), parse_asm_regusage(a))

(* A section, and the end of the read-only ones, if .dynsym has n symbols. *)
Long(s, n) == s.size + (IF s \in DynTables THEN n ELSE 0)
RoEnd(n) == Max({s.addr + Long(s, n) : s \in {x \in Sections : x.ro}} \union {0})

(* What the tool makes of a library, field by field.                       *)
MadeOf(e, l, tables, a, hash) ==
    LET d == EditedDyn(l, tables) IN
    /\ DOMAIN e = Fields
    /\ e.flags = l.flags
    /\ e.off = [s \in Sections |-> IF s \in DOMAIN l.off /\ s.alloc THEN l.off[s] ELSE s.addr + Drift]
    /\ e.seg = IF RoEnd(Len(e.dyn)) = 0 THEN [offset |-> Drift, vaddr |-> 0, size |-> Drift]
               ELSE [offset |-> 0, vaddr |-> 0, size |-> RoEnd(Len(e.dyn))]
    /\ e.grown = IF Len(d) > Len(l.dyn) THEN TRUE ELSE l.grown
    /\ e.sym = EditedSym(l, tables, a)
    /\ Len(d) > Len(l.dyn) =>
          /\ e.dyn = regen_gnu_hash(d, hash).dyn
          /\ e.gnu = regen_gnu_hash(d, hash)
          /\ e.sysv = regen_sysv_hash(e.dyn, hash)
          /\ e.hash = hash
    /\ ~ (Len(d) > Len(l.dyn)) =>
          e.dyn = d /\ e.gnu = l.gnu /\ e.sysv = l.sysv /\ e.hash = l.hash

LEMMA EditedFields ==
    ASSUME NEW l, NEW tables, NEW a, NEW hash, DOMAIN l = Fields
    PROVE  MadeOf(Edited(l, tables, a, hash), l, tables, a, hash)
<1> DEFINE d     == EditedDyn(l, tables)
           sm    == EditedSym(l, tables, a)
           added == [l EXCEPT !.dyn = d, !.sym = sm]
           file  == IF Len(d) > Len(l.dyn) THEN Rehashed(added, hash) ELSE added
           pinned == read_alloc_section_offsets(l)
           round == RoundTrip(file, pinned)
           kept  == preserve_eflags(l, round)
<1>1. Edited(l, tables, a, hash) = fix_load_segment(kept)
  BY DEF Edited, EditedDyn, EditedSym, Aliased
<1> HIDE DEF d, sm
<1>2. DOMAIN added = Fields /\ added.dyn = d /\ added.sym = sm
      /\ added.gnu = l.gnu /\ added.sysv = l.sysv /\ added.hash = l.hash /\ added.grown = l.grown
  BY DEF Fields
<1> HIDE DEF added
<1>3. /\ DOMAIN file = Fields
      /\ file.sym = sm
      /\ file.grown = IF Len(d) > Len(l.dyn) THEN TRUE ELSE l.grown
      /\ Len(d) > Len(l.dyn) =>
            /\ file.dyn = regen_gnu_hash(d, hash).dyn
            /\ file.gnu = regen_gnu_hash(d, hash)
            /\ file.sysv = regen_sysv_hash(file.dyn, hash)
            /\ file.hash = hash
      /\ ~ (Len(d) > Len(l.dyn)) =>
            file.dyn = d /\ file.gnu = l.gnu /\ file.sysv = l.sysv /\ file.hash = l.hash
  <2>1. CASE Len(d) > Len(l.dyn)
    <3> DEFINE g == regen_gnu_hash(d, hash)
               v == regen_sysv_hash(g.dyn, hash)
    <3>1. file = [added EXCEPT !.dyn = g.dyn, !.gnu = g, !.hash = hash, !.sysv = v, !.grown = TRUE]
      BY <2>1, <1>2 DEF Rehashed
    <3> HIDE DEF file
    <3>2. v = regen_sysv_hash(g.dyn, hash)
      OBVIOUS
    <3> HIDE DEF g, v
    <3>3. DOMAIN file = Fields /\ file.sym = sm /\ file.dyn = g.dyn /\ file.gnu = g /\ file.hash = hash
          /\ file.sysv = v /\ file.grown = TRUE
      BY <3>1, <1>2 DEF Fields
    <3> QED BY <3>2, <3>3, <2>1 DEF g
  <2>2. CASE ~ (Len(d) > Len(l.dyn))
    BY <2>2, <1>2
  <2> QED BY <2>1, <2>2
<1> HIDE DEF file
<1> DEFINE first == [offset |-> Drift, vaddr |-> 0, size |-> Drift]
           o == [s \in Sections |-> IF s \in DOMAIN pinned THEN pinned[s] ELSE s.addr + Drift]
<1>4. round = [file EXCEPT !.off = o, !.seg = first, !.flags = "dropped"]
  BY DEF RoundTrip
<1>5. o = [s \in Sections |-> IF s \in DOMAIN l.off /\ s.alloc THEN l.off[s] ELSE s.addr + Drift]
  BY DEF read_alloc_section_offsets, Restrict
<1> HIDE DEF o, first, round
<1>6. /\ DOMAIN kept = Fields /\ kept.flags = l.flags /\ kept.off = o /\ kept.seg = first
      /\ kept.sym = file.sym /\ kept.dyn = file.dyn /\ kept.gnu = file.gnu /\ kept.sysv = file.sysv
      /\ kept.hash = file.hash /\ kept.grown = file.grown
  BY <1>3, <1>4 DEF Fields, preserve_eflags
<1> HIDE DEF kept
<1> DEFINE e == fix_load_segment(kept)
<1> DEFINE end == RoEnd(Len(kept.dyn))
<1>7. e = IF end = 0 THEN kept ELSE [kept EXCEPT !.seg = [offset |-> 0, vaddr |-> 0, size |-> end]]
  BY DEF fix_load_segment, RoEnd, Long, SizeOf
<1>8. /\ DOMAIN e = Fields /\ e.flags = l.flags /\ e.off = o /\ e.grown = file.grown
      /\ e.seg = IF end = 0 THEN first ELSE [offset |-> 0, vaddr |-> 0, size |-> end]
      /\ e.sym = file.sym /\ e.dyn = file.dyn /\ e.gnu = file.gnu /\ e.sysv = file.sysv
      /\ e.hash = file.hash
  <2> HIDE DEF e, end
  <2>1. CASE end = 0
    BY <2>1, <1>7, <1>6
  <2>2. CASE end # 0
    BY <2>2, <1>7, <1>6 DEF Fields
  <2> QED BY <2>1, <2>2
<1>9. Edited(l, tables, a, hash) = e
  BY <1>1
<1> HIDE DEF e
<1>10. end = RoEnd(Len(e.dyn))
  BY <1>6, <1>8
<1> HIDE DEF end
<1> QED BY <1>3, <1>5, <1>8, <1>9, <1>10 DEF d, sm, first, MadeOf

(* The read-only sections end where the repaired segment does.             *)
LEMMA SegmentCovers ==
    ASSUME NEW n \in Nat
    PROVE  /\ RoEnd(n) \in Nat
           /\ \A s \in Sections : s.ro => s.addr + Long(s, n) <= RoEnd(n) /\ RoEnd(n) # 0
<1> DEFINE ro   == {x \in Sections : x.ro}
           end  == [s \in ro |-> s.addr + Long(s, n)]
           ends == {end[s] : s \in ro}
           last == RoEnd(n)
<1>1. IsFiniteSet(ro)
  BY TablesAssumption, FS_Subset
<1>2. end \in [ro -> ends]
  OBVIOUS
<1>3. IsFiniteSet(ends)
  <2> HIDE DEF ro, end
  <2> QED BY <1>1, <1>2, FiniteImage
<1>4. ends = {s.addr + Long(s, n) : s \in ro}
  OBVIOUS
<1>5. ASSUME NEW s \in Sections
      PROVE  s.addr \in Nat /\ Long(s, n) \in Nat /\ (s.ro => s.addr > 0)
  <2>1. s.addr \in Nat /\ s.size \in Nat /\ (s.ro => s.addr > 0)
    BY TablesAssumption
  <2> QED BY <2>1 DEF Long
<1>6. ASSUME NEW s \in ro PROVE s.addr + Long(s, n) \in Nat /\ s.addr + Long(s, n) > 0
  BY <1>5
<1>7. ends \union {0} \in SUBSET Nat
  BY <1>6, <1>4
<1>8. IsFiniteSet(ends \union {0})
  BY <1>3, FS_AddElement
<1>9. last = Max(ends \union {0})
  BY <1>4 DEF RoEnd
<1> HIDE DEF last
<1>10. last \in ends \union {0} /\ \A m \in ends \union {0} : m <= last
  <2> HIDE DEF ends
  <2> QED BY <1>7, <1>8, <1>9, MaxIs
<1>11. ASSUME NEW s \in Sections, s.ro PROVE s.addr + Long(s, n) <= last /\ last # 0
  <2>1. s \in ro /\ s.addr + Long(s, n) \in ends
    BY <1>11, <1>4
  <2>2. s.addr + Long(s, n) <= last /\ s.addr + Long(s, n) > 0 /\ last \in Nat
    BY <2>1, <1>6, <1>7, <1>10
  <2> QED BY <2>2, <1>6, <2>1
<1>12. last \in Nat
  BY <1>7, <1>10
<1> QED BY <1>11, <1>12 DEF last

-----------------------------------------------------------------------------
(***************************************************************************)
(* Every step edits the library, builds the code object, or leaves both    *)
(* alone.                                                                  *)
(***************************************************************************)
Edits ==
    /\ main = "none" /\ stage = "library"
    /\ \E u \in Uses : \E hash \in IF Grows(u[1]) THEN Hashes ELSE {lib.hash} :
          EditLibrary(u[1], u[2], hash)

Builds ==
    /\ main = "none"
    /\ \/ \E kernels \in CodeObjects, f \in Funcs : Instrument(kernels, f)
       \/ SyncNote
       \/ /\ stage = "synced"
          /\ \E target \in {All} \union {co.kernels[i].name : i \in DOMAIN co.kernels} :
                ExpandArgs(target, 1)

Launches ==
    stage # "library" /\ \E i \in DOMAIN co.kernels :
        HipLaunches(co.kernels[i]) \/ \E h \in {"launcher", "launcher_nd"} : Choose(h, co.kernels[i])

LEMMA Steps ==
    ASSUME [Next]_vars
    PROVE  \/ Edits
           \/ Builds
           \/ Launches /\ UNCHANGED build
           \/ (Main \/ Device \/ ServiceEnds \/ UNCHANGED vars) /\ UNCHANGED build
<1>1. CASE main = "none" /\ Building
  BY <1>1 DEF Building, Edits, Builds
<1>2. CASE Launches
  <2>1. UNCHANGED build
    BY <1>2 DEF Launches, HipLaunches, Choose
  <2> QED BY <2>1, <1>2
<1>3. CASE Main
  <2>1. UNCHANGED build
    BY <1>3 DEF Main, Fails, SetUp, Load, Freeze, Arguments, StartService, Dispatch, Completed,
                TimesOut, StopService, Join, Report
  <2> QED BY <2>1, <1>3
<1>4. CASE Device
  <2>1. UNCHANGED build
    BY <1>4 DEF Device, Call, Answer, KernelEnds
  <2> QED BY <2>1, <1>4
<1>5. CASE ServiceEnds
  BY <1>5 DEF ServiceEnds
<1>6. CASE UNCHANGED vars
  BY <1>6 DEF vars
<1> QED BY <1>1, <1>2, <1>3, <1>4, <1>5, <1>6 DEF Next, Launches

LEMMA EditsStage == Edits => stage = "library" /\ stage' = "library" /\ UNCHANGED <<co, launch, running>>
BY DEF Edits, EditLibrary

LEMMA BuildsStage == Builds => stage' # "library" /\ main = "none" /\ UNCHANGED <<launch, running>>
BY DEF Builds, Instrument, SyncNote, ExpandArgs

-----------------------------------------------------------------------------
(***************************************************************************)
(* The file of the library.                                                *)
(***************************************************************************)
FileInv ==
    stage = "library" =>
        /\ DOMAIN lib = Fields
        /\ lib.flags = "target"
        /\ DOMAIN lib.off = Sections
        /\ \A s \in Sections : s.alloc => lib.off[s] = s.addr

LEMMA FileInit == Init => FileInv
<1> SUFFICES ASSUME Init PROVE FileInv
  OBVIOUS
<1>1. PICK kind \in Kinds : lib = Linked(kind)
  BY DEF Init
<1>2. DOMAIN lib = Fields /\ lib.flags = "target" /\ lib.off = [s \in Sections |-> s.addr]
  BY <1>1 DEF Linked, Fields
<1> QED BY <1>2 DEF Init, FileInv

LEMMA FileStep == FileInv /\ [Next]_vars => FileInv'
<1> SUFFICES ASSUME FileInv, [Next]_vars PROVE FileInv'
  OBVIOUS
<1>1. CASE Edits
  <2>1. PICK u, hash : u \in Uses /\ EditLibrary(u[1], u[2], hash)
    BY <1>1 DEF Edits
  <2>2. /\ stage = "library" /\ stage' = "library"
        /\ lib' = Edited(lib, u[1], u[2], hash)
    BY <2>1 DEF EditLibrary
  <2>3. DOMAIN lib = Fields
    BY <2>2 DEF FileInv
  <2>4. /\ DOMAIN lib' = Fields /\ lib'.flags = lib.flags
        /\ lib'.off = [s \in Sections |-> IF s \in DOMAIN lib.off /\ s.alloc THEN lib.off[s] ELSE s.addr + Drift]
    <3> DEFINE e == Edited(lib, u[1], u[2], hash)
    <3>1. MadeOf(e, lib, u[1], u[2], hash)
      BY <2>3, EditedFields
    <3> HIDE DEF e
    <3>2. /\ DOMAIN e = Fields /\ e.flags = lib.flags
          /\ e.off = [s \in Sections |-> IF s \in DOMAIN lib.off /\ s.alloc THEN lib.off[s] ELSE s.addr + Drift]
      BY <3>1 DEF MadeOf
    <3>3. lib' = e
      BY <2>2 DEF e
    <3> QED BY <3>2, <3>3
  <2>5. DOMAIN lib'.off = Sections /\ \A s \in Sections : s.alloc => lib'.off[s] = s.addr
    BY <2>4, <2>2 DEF FileInv
  <2> QED BY <2>2, <2>4, <2>5 DEF FileInv
<1>2. CASE Builds
  BY <1>2, BuildsStage DEF FileInv
<1>3. CASE UNCHANGED build
  BY <1>3 DEF FileInv, build
<1> QED BY <1>1, <1>2, <1>3, Steps

-----------------------------------------------------------------------------
(***************************************************************************)
(* The note of the code object, through both editors.                      *)
(***************************************************************************)
CoFields   == {"note", "segment", "kds", "kernels", "calls", "symbols"}
NoteFields == {"name", "ksize", "priv", "vgpr", "sgpr", "args"}

(* What the clones of expand_args.py leave of a kernel's entry.            *)
ExpandedArgs(args, ksize) ==
    LET buffers == {i \in DOMAIN args : Get(args[i], ".value_kind") = "global_buffer"}
        clone   == Put(Put(Put(args[Min(buffers)], ".offset", _align(ksize)), ".size", 8), ".name", "__pw_extra")
    IN  IF buffers = {} THEN args ELSE args \o <<clone>>

ExpandedSize(args, ksize) ==
    IF {i \in DOMAIN args : Get(args[i], ".value_kind") = "global_buffer"} = {} THEN ksize
    ELSE _align(ksize) + 8

LEMMA AlignNat == ASSUME NEW x \in Nat PROVE _align(x) \in Nat
BY DEF _align

LEMMA ExpandKernelFields ==
    ASSUME NEW r, DOMAIN r = NoteFields, r.ksize \in Nat
    PROVE  LET e == ExpandKernel(r, 1)
           IN  /\ DOMAIN e = NoteFields /\ e.name = r.name /\ e.priv = r.priv
               /\ e.args = ExpandedArgs(r.args, r.ksize)
               /\ e.ksize = ExpandedSize(r.args, r.ksize)
<1> DEFINE buffers == {i \in DOMAIN r.args : Get(r.args[i], ".value_kind") = "global_buffer"}
           at(i) == _align(r.ksize) + 8 * (i - 1)
           clone(i) == Put(Put(Put(r.args[Min(buffers)], ".offset", at(i)), ".size", 8), ".name", "__pw_extra")
           more  == r.args \o [i \in 1..1 |-> clone(i)]
           e == ExpandKernel(r, 1)
<1>1. e = IF buffers = {} THEN r ELSE [r EXCEPT !.args = more, !.ksize = at(1) + 8]
  BY DEF ExpandKernel
<1>2. at(1) = _align(r.ksize)
  BY AlignNat
<1>3. [i \in 1..1 |-> clone(i)] = <<clone(1)>>
  <2> HIDE DEF clone
  <2> QED OBVIOUS
<1>4. more = r.args \o <<Put(Put(Put(r.args[Min(buffers)], ".offset", _align(r.ksize)), ".size", 8), ".name", "__pw_extra")>>
  BY <1>2, <1>3
<1>5. CASE buffers = {}
  BY <1>5, <1>1 DEF ExpandedArgs, ExpandedSize
<1>6. CASE buffers # {}
  <2>1. e = [r EXCEPT !.args = more, !.ksize = at(1) + 8]
    BY <1>1, <1>6
  <2> HIDE DEF e
  <2>2. DOMAIN e = NoteFields /\ e.name = r.name /\ e.priv = r.priv /\ e.args = more /\ e.ksize = at(1) + 8
    <3> HIDE DEF more, at
    <3> QED BY <2>1 DEF NoteFields
  <2>3. more = ExpandedArgs(r.args, r.ksize)
    BY <1>4, <1>6 DEF ExpandedArgs
  <2>4. at(1) + 8 = ExpandedSize(r.args, r.ksize)
    BY <1>2, <1>6 DEF ExpandedSize
  <2> HIDE DEF more, at, buffers
  <2>5. e = ExpandKernel(r, 1)
    BY DEF e
  <2> QED BY <2>2, <2>3, <2>4, <2>5
<1> QED BY <1>5, <1>6

(* An entry of the note, given the kernel it is of.                        *)
CompiledEntry(r, s) == r.args = Compiled(s).args /\ r.ksize = OriginalSize(s)

ExpandedEntry(r, s) ==
    /\ r.args = ExpandedArgs(Compiled(s).args, OriginalSize(s))
    /\ r.ksize = ExpandedSize(Compiled(s).args, OriginalSize(s))

NoteInv ==
    stage # "library" =>
        /\ DOMAIN co = CoFields
        /\ co.kernels \in CodeObjects
        /\ DOMAIN co.note = DOMAIN co.kernels
        /\ DOMAIN co.kds = {co.kernels[i].name : i \in DOMAIN co.kernels}
        /\ \A n \in DOMAIN co.kds : DOMAIN co.kds[n] = {"priv", "vg", "sg"}
        /\ \A i \in DOMAIN co.kernels :
              /\ DOMAIN co.note[i] = NoteFields
              /\ co.note[i].name = co.kernels[i].name
              /\ \/ CompiledEntry(co.note[i], co.kernels[i])
                 \/ stage = "expanded" /\ ExpandedEntry(co.note[i], co.kernels[i])
        /\ stage \in {"synced", "expanded"} =>
              /\ co.segment = co.note
              /\ \A i \in DOMAIN co.kernels : co.note[i].priv = co.kds[co.kernels[i].name].priv
        /\ stage \in {"instrumented", "synced", "expanded"}
        /\ stage = "expanded" => co.symbols = [mark \in {"__dyninst_pw_stride"} |-> 64]
        /\ stage # "expanded" => co.symbols = << >>

LEMMA ObjectKernels ==
    ASSUME NEW kernels \in CodeObjects, NEW i \in DOMAIN kernels
    PROVE  /\ i \in 1..Len(kernels) /\ Len(kernels) \in Nat /\ DOMAIN kernels = 1..Len(kernels)
           /\ kernels[i].sizes \in Seq({4, 8}) /\ kernels[i].sizes # <<>>
           /\ \A j \in DOMAIN kernels : kernels[i].name = kernels[j].name => i = j
BY ObjectsAssumption

-----------------------------------------------------------------------------
(***************************************************************************)
(* Where the compiler puts the arguments: they lie one after the other,    *)
(* and the hidden block behind them.                                       *)
(***************************************************************************)
Fit(x, size) == ((x + size - 1) \div size + 1) * size

LEMMA FitIs == ASSUME NEW x \in Nat, NEW size \in {4, 8}
               PROVE  Fit(x, size) \in Nat /\ Fit(x, size) - size >= x /\ Fit(x, size) - size \in Nat
<1>1. CASE size = 4
  BY <1>1 DEF Fit
<1>2. CASE size = 8
  BY <1>2 DEF Fit
<1> QED BY <1>1, <1>2

LEMMA AlignIs == ASSUME NEW x \in Nat
                 PROVE  _align(x) \in Nat /\ _align(x) >= x /\ _align(x) % 8 = 0
                        /\ _align(_align(x) + 256) = _align(x) + 256
BY DEF _align

LEMMA EndsExist ==
    ASSUME NEW sizes \in Seq({4, 8}), NEW m \in 0..Len(sizes)
    PROVE  \E e : e = [i \in 0..m |-> IF i = 0 THEN 0 ELSE Fit(e[i - 1], sizes[i])]
<1> DEFINE Ok == {k_ \in Nat : k_ <= Len(sizes) =>
                    \E e : e = [i \in 0..k_ |-> IF i = 0 THEN 0 ELSE Fit(e[i - 1], sizes[i])]}
<1>1. 0 \in Ok
  <2> DEFINE e == [i \in 0..0 |-> 0]
  <2>1. e = [i \in 0..0 |-> IF i = 0 THEN 0 ELSE Fit(e[i - 1], sizes[i])]
    OBVIOUS
  <2> QED BY <2>1
<1>2. ASSUME NEW n \in Nat, n \in Ok PROVE n + 1 \in Ok
  <2> SUFFICES ASSUME n + 1 <= Len(sizes)
               PROVE  \E e : e = [i \in 0..(n + 1) |-> IF i = 0 THEN 0 ELSE Fit(e[i - 1], sizes[i])]
    OBVIOUS
  <2>1. PICK e : e = [i \in 0..n |-> IF i = 0 THEN 0 ELSE Fit(e[i - 1], sizes[i])]
    BY <1>2
  <2> DEFINE g == [i \in 0..(n + 1) |-> IF i = n + 1 THEN Fit(e[n], sizes[n + 1]) ELSE e[i]]
  <2>2. ASSUME NEW i \in 0..(n + 1) PROVE g[i] = IF i = 0 THEN 0 ELSE Fit(g[i - 1], sizes[i])
    <3>1. CASE i = n + 1
      BY <3>1
    <3>2. CASE i \in 0..n
      <4>1. e[i] = IF i = 0 THEN 0 ELSE Fit(e[i - 1], sizes[i])
        BY <2>1, <3>2
      <4>2. g[i] = e[i] /\ (i # 0 => g[i - 1] = e[i - 1])
        BY <3>2
      <4> HIDE DEF g
      <4> QED BY <4>1, <4>2
    <3> QED BY <3>1, <3>2
  <2>3. g = [i \in 0..(n + 1) |-> g[i]]
    OBVIOUS
  <2> HIDE DEF g
  <2>4. g = [i \in 0..(n + 1) |-> IF i = 0 THEN 0 ELSE Fit(g[i - 1], sizes[i])]
    BY <2>2, <2>3
  <2> QED BY <2>4
<1>3. Nat \subseteq Ok
  <2> HIDE DEF Ok
  <2> QED BY <1>1, <1>2, SetInduction
<1> QED BY <1>3

(* The ends of the arguments.                                              *)
EndOf(sizes) == CHOOSE e : e = [i \in 0..Len(sizes) |-> IF i = 0 THEN 0 ELSE Fit(e[i - 1], sizes[i])]

LEMMA EndsAre ==
    ASSUME NEW sizes \in Seq({4, 8})
    PROVE  /\ DOMAIN EndOf(sizes) = 0..Len(sizes)
           /\ EndOf(sizes)[0] = 0
           /\ \A i \in 1..Len(sizes) : EndOf(sizes)[i] = Fit(EndOf(sizes)[i - 1], sizes[i])
           /\ OffsetOf(sizes) = [i \in 1..(Len(sizes) + 1) |->
                 IF i > Len(sizes) THEN _align(EndOf(sizes)[i - 1]) ELSE EndOf(sizes)[i] - sizes[i]]
<1> DEFINE e == EndOf(sizes)
<1>1. e = [i \in 0..Len(sizes) |-> IF i = 0 THEN 0 ELSE Fit(e[i - 1], sizes[i])]
  <2>1. Len(sizes) \in 0..Len(sizes)
    OBVIOUS
  <2>2. \E x : x = [i \in 0..Len(sizes) |-> IF i = 0 THEN 0 ELSE Fit(x[i - 1], sizes[i])]
    BY <2>1, EndsExist
  <2> QED BY <2>2 DEF EndOf
<1>2. OffsetOf(sizes) = [i \in 1..(Len(sizes) + 1) |->
                 IF i > Len(sizes) THEN _align(e[i - 1]) ELSE e[i] - sizes[i]]
  BY DEF OffsetOf, EndOf, Fit
<1> HIDE DEF e
<1>3. DOMAIN e = 0..Len(sizes) /\ \A i \in 0..Len(sizes) : e[i] = IF i = 0 THEN 0 ELSE Fit(e[i - 1], sizes[i])
  BY <1>1
<1>4. Len(sizes) \in Nat
  OBVIOUS
<1>5. e[0] = 0 /\ \A i \in 1..Len(sizes) : e[i] = Fit(e[i - 1], sizes[i])
  BY <1>3, <1>4
<1> QED BY <1>2, <1>3, <1>5 DEF e

LEMMA EndsRise ==
    ASSUME NEW sizes \in Seq({4, 8})
    PROVE  \A i \in 0..Len(sizes) : /\ EndOf(sizes)[i] \in Nat
                                    /\ \A j \in 0..i : EndOf(sizes)[j] <= EndOf(sizes)[i]
<1> DEFINE e == EndOf(sizes)
           Ok == {i \in Nat : i <= Len(sizes) => \A j \in 0..i : e[j] \in Nat /\ e[j] <= e[i]}
<1>0. e[0] = 0 /\ \A i \in 1..Len(sizes) : e[i] = Fit(e[i - 1], sizes[i]) /\ sizes[i] \in {4, 8}
  BY EndsAre
<1> HIDE DEF e
<1>1. 0 \in Ok
  BY <1>0
<1>2. ASSUME NEW n \in Nat, n \in Ok PROVE n + 1 \in Ok
  <2> SUFFICES ASSUME n + 1 <= Len(sizes) PROVE \A j \in 0..(n + 1) : e[j] \in Nat /\ e[j] <= e[n + 1]
    OBVIOUS
  <2>1. e[n] \in Nat /\ \A j \in 0..n : e[j] \in Nat /\ e[j] <= e[n]
    <3>1. \A j \in 0..n : e[j] \in Nat /\ e[j] <= e[n]
      BY <1>2
    <3> QED BY <3>1, n \in 0..n
  <2>2. n + 1 \in 1..Len(sizes) /\ (n + 1) - 1 = n
    OBVIOUS
  <2>3. e[n + 1] = Fit(e[n], sizes[n + 1]) /\ sizes[n + 1] \in {4, 8}
    BY <1>0, <2>2
  <2>4. e[n + 1] \in Nat /\ e[n + 1] - sizes[n + 1] >= e[n]
    BY <2>1, <2>3, FitIs
  <2>5. e[n] <= e[n + 1]
    BY <2>1, <2>3, <2>4
  <2>6. ASSUME NEW j \in 0..(n + 1) PROVE e[j] \in Nat /\ e[j] <= e[n + 1]
    <3>1. CASE j = n + 1
      BY <3>1, <2>4
    <3>2. CASE j \in 0..n
      <4>1. e[j] \in Nat /\ e[j] <= e[n]
        BY <2>1, <3>2
      <4> QED BY <4>1, <2>5, <2>1, <2>4
    <3> QED BY <3>1, <3>2
  <2> QED BY <2>4, <2>6
<1>3. Nat \subseteq Ok
  <2> HIDE DEF Ok
  <2> QED BY <1>1, <1>2, SetInduction
<1>4. ASSUME NEW i \in 0..Len(sizes) PROVE e[i] \in Nat /\ \A j \in 0..i : e[j] <= e[i]
  BY <1>3, i \in 0..i
<1> QED BY <1>4 DEF e

LEMMA Layout ==
    ASSUME NEW sizes \in Seq({4, 8})
    PROVE  LET o == OffsetOf(sizes)
               n == Len(sizes)
           IN  /\ o \in [1..(n + 1) -> Nat]
               /\ o[n + 1] % 8 = 0 /\ _align(o[n + 1] + 256) = o[n + 1] + 256
               /\ \A i \in 1..n : \A j \in (i + 1)..(n + 1) : o[i] + sizes[i] <= o[j]
<1> DEFINE o == OffsetOf(sizes)
           n == Len(sizes)
           e == EndOf(sizes)
<1>1. n \in Nat /\ \A i \in 1..n : sizes[i] \in {4, 8}
  OBVIOUS
<1>2. /\ \A i \in 1..n : e[i] = Fit(e[i - 1], sizes[i])
      /\ o = [i \in 1..(n + 1) |-> IF i > n THEN _align(e[i - 1]) ELSE e[i] - sizes[i]]
  BY EndsAre
<1>3. \A i \in 0..n : e[i] \in Nat /\ \A j \in 0..i : e[j] <= e[i]
  BY EndsRise
<1> HIDE DEF o, n, e
<1>4. ASSUME NEW i \in 1..n PROVE o[i] = e[i] - sizes[i] /\ o[i] \in Nat /\ o[i] >= e[i - 1]
  <2>1. i \in 1..(n + 1) /\ ~ (i > n) /\ i - 1 \in 0..n
    BY <1>1
  <2>2. o[i] = e[i] - sizes[i] /\ e[i] = Fit(e[i - 1], sizes[i]) /\ e[i - 1] \in Nat
    BY <1>2, <1>3, <2>1
  <2> QED BY <2>2, <1>1, FitIs
<1>5. o[n + 1] = _align(e[n])
  <2>1. n + 1 \in 1..(n + 1) /\ n + 1 > n /\ (n + 1) - 1 = n
    BY <1>1
  <2> QED BY <1>2, <2>1
<1>6. e[n] \in Nat
  BY <1>1, <1>3
<1>7. o[n + 1] \in Nat /\ o[n + 1] >= e[n] /\ o[n + 1] % 8 = 0 /\ _align(o[n + 1] + 256) = o[n + 1] + 256
  <2>1. _align(e[n]) \in Nat /\ _align(e[n]) >= e[n] /\ _align(e[n]) % 8 = 0
        /\ _align(_align(e[n]) + 256) = _align(e[n]) + 256
    BY <1>6, AlignIs
  <2> QED BY <2>1, <1>5
<1>8. o \in [1..(n + 1) -> Nat]
  <2>1. \A i \in 1..(n + 1) : i \in 1..n \/ i = n + 1
    BY <1>1
  <2>2. \A i \in 1..(n + 1) : o[i] \in Nat
    BY <2>1, <1>4, <1>7
  <2> QED BY <2>2, <1>2
<1>9. ASSUME NEW i \in 1..n, NEW j \in (i + 1)..(n + 1) PROVE o[i] + sizes[i] <= o[j]
  <2>1. o[i] + sizes[i] = e[i] /\ e[i] \in Nat
    BY <1>4, <1>1, <1>3
  <2>2. CASE j = n + 1
    <3>1. e[i] <= e[n]
      BY <1>3, <1>1
    <3> QED BY <3>1, <2>1, <2>2, <1>6, <1>7
  <2>3. CASE j \in 1..n
    <3>1. j - 1 \in 0..n /\ i \in 0..(j - 1)
      BY <2>3, <1>1
    <3>2. e[i] <= e[j - 1] /\ e[j - 1] \in Nat /\ o[j] >= e[j - 1] /\ o[j] \in Nat
      BY <3>1, <2>3, <1>3, <1>4
    <3> QED BY <3>2, <2>1
  <2> QED BY <2>2, <2>3, <1>1
<1> QED BY <1>7, <1>8, <1>9 DEF o, n, e

LEMMA HiddenNat ==
    ASSUME NEW s, s.sizes \in Seq({4, 8})
    PROVE  HiddenAt(s) \in Nat /\ OriginalSize(s) = HiddenAt(s) + 256
           /\ HiddenAt(s) % 8 = 0 /\ _align(OriginalSize(s)) = OriginalSize(s)
<1>1. Len(s.sizes) + 1 \in 1..(Len(s.sizes) + 1)
  OBVIOUS
<1> QED BY <1>1, Layout DEF HiddenAt, OriginalSize

-----------------------------------------------------------------------------
(***************************************************************************)
(* The editors keep the note in step with the kernels.                     *)
(***************************************************************************)
LEMMA CompiledIs ==
    ASSUME NEW s, s.sizes \in Seq({4, 8})
    PROVE  /\ DOMAIN Compiled(s) = NoteFields
           /\ Compiled(s).name = s.name /\ Compiled(s).ksize = OriginalSize(s)
           /\ OriginalSize(s) \in Nat
<1>1. OriginalSize(s) \in Nat
  BY HiddenNat
<1> QED BY <1>1 DEF Compiled, NoteFields

LEMMA ReplacedIs ==
    ASSUME DOMAIN co = CoFields, NEW note
    PROVE  LET r == Replaced(co, note)
           IN  /\ DOMAIN r = CoFields /\ r.note = note /\ r.segment = note
               /\ r.kds = co.kds /\ r.kernels = co.kernels /\ r.symbols = co.symbols
<1> DEFINE m == [co EXCEPT !.note = note]
<1>1. /\ DOMAIN m = CoFields /\ m.note = note
      /\ m.kds = co.kds /\ m.kernels = co.kernels /\ m.symbols = co.symbols
  BY DEF CoFields
<1>2. Replaced(co, note) = [m EXCEPT !.segment = m.note]
  BY DEF Replaced, repoint_pt_note
<1> HIDE DEF m
<1> QED BY <1>1, <1>2 DEF CoFields

LEMMA InstrumentKeepsNote == ASSUME NEW kernels \in CodeObjects, NEW f, Instrument(kernels, f) PROVE NoteInv'
<1> DEFINE names == {kernels[i].name : i \in DOMAIN kernels}
<1>1. /\ stage' = "instrumented" /\ DOMAIN co' = CoFields /\ co'.kernels = kernels
      /\ co'.note = [i \in DOMAIN kernels |-> Compiled(kernels[i])]
      /\ DOMAIN co'.kds = names
      /\ \A n \in names : DOMAIN co'.kds[n] = {"priv", "vg", "sg"}
      /\ co'.symbols = << >>
  BY DEF Instrument, CoFields
<1>2. ASSUME NEW i \in DOMAIN kernels
      PROVE  /\ DOMAIN co'.note[i] = NoteFields
             /\ co'.note[i].name = kernels[i].name
             /\ CompiledEntry(co'.note[i], kernels[i])
  <2>1. kernels[i].sizes \in Seq({4, 8})
    BY ObjectKernels
  <2>2. co'.note[i] = Compiled(kernels[i])
    BY <1>1
  <2> QED BY <2>1, <2>2, CompiledIs DEF CompiledEntry
<1> HIDE DEF names
<1>3. DOMAIN co'.note = DOMAIN kernels
  BY <1>1
<1> QED BY <1>1, <1>2, <1>3 DEF NoteInv, names

LEMMA SyncKeepsNote == ASSUME NoteInv, SyncNote PROVE NoteInv'
<1>1. /\ stage = "instrumented" /\ stage' = "synced" /\ co' = Replaced(co, Synced(co.note, co.kds))
  BY DEF SyncNote
<1>2. /\ DOMAIN co = CoFields /\ co.kernels \in CodeObjects /\ DOMAIN co.note = DOMAIN co.kernels
      /\ DOMAIN co.kds = {co.kernels[i].name : i \in DOMAIN co.kernels}
      /\ \A n \in DOMAIN co.kds : DOMAIN co.kds[n] = {"priv", "vg", "sg"}
      /\ co.symbols = << >>
  BY <1>1 DEF NoteInv
<1>3. /\ DOMAIN co' = CoFields /\ co'.note = Synced(co.note, co.kds) /\ co'.segment = co'.note
      /\ co'.kds = co.kds /\ co'.kernels = co.kernels /\ co'.symbols = co.symbols
  BY <1>1, <1>2, ReplacedIs
<1>4. DOMAIN co'.note = DOMAIN co.note
  BY <1>3 DEF Synced
<1>5. ASSUME NEW i \in DOMAIN co.kernels
      PROVE  /\ DOMAIN co'.note[i] = NoteFields
             /\ co'.note[i].name = co.kernels[i].name
             /\ CompiledEntry(co'.note[i], co.kernels[i])
             /\ co'.note[i].priv = co.kds[co.kernels[i].name].priv
  <2> DEFINE r == co.note[i]
             d == parse_elf_kd(co.kds[r.name])
  <2>1. DOMAIN r = NoteFields /\ r.name = co.kernels[i].name /\ CompiledEntry(r, co.kernels[i])
    BY <1>1 DEF NoteInv
  <2>2. r.name \in DOMAIN co.kds
    BY <1>2, <2>1
  <2>3. co'.note[i] = [r EXCEPT !.priv = d.priv, !.vgpr = d.vgpr, !.sgpr = d.sgpr]
    BY <1>2, <1>3, <2>2 DEF Synced
  <2>4. d.priv = co.kds[r.name].priv
    BY DEF parse_elf_kd
  <2> HIDE DEF r, d
  <2>5. /\ DOMAIN co'.note[i] = NoteFields /\ co'.note[i].name = r.name /\ co'.note[i].priv = d.priv
        /\ co'.note[i].args = r.args /\ co'.note[i].ksize = r.ksize
    BY <2>1, <2>3 DEF NoteFields
  <2> QED BY <2>1, <2>4, <2>5 DEF CompiledEntry
<1> QED BY <1>1, <1>2, <1>3, <1>4, <1>5 DEF NoteInv

LEMMA ExpandKeepsNote == ASSUME NoteInv, NEW name, ExpandArgs(name, 1) PROVE NoteInv'
<1> DEFINE e == Expanded(co.note, name, 1)
           r == Replaced(co, e)
<1>1. /\ stage = "synced" /\ stage' = "expanded"
      /\ co' = [r EXCEPT !.symbols = [mark \in {"__dyninst_pw_stride"} |-> 64]]
  BY DEF ExpandArgs
<1>2. /\ DOMAIN co = CoFields /\ co.kernels \in CodeObjects /\ DOMAIN co.note = DOMAIN co.kernels
      /\ DOMAIN co.kds = {co.kernels[i].name : i \in DOMAIN co.kernels}
      /\ \A n \in DOMAIN co.kds : DOMAIN co.kds[n] = {"priv", "vg", "sg"}
      /\ \A i \in DOMAIN co.kernels : co.note[i].priv = co.kds[co.kernels[i].name].priv
  BY <1>1 DEF NoteInv
<1>3. /\ DOMAIN r = CoFields /\ r.note = e /\ r.segment = e
      /\ r.kds = co.kds /\ r.kernels = co.kernels
  BY <1>2, ReplacedIs
<1>4. DOMAIN e = DOMAIN co.note
  BY DEF Expanded
<1>5. ASSUME NEW i \in DOMAIN co.kernels
      PROVE  /\ DOMAIN e[i] = NoteFields
             /\ e[i].name = co.kernels[i].name
             /\ CompiledEntry(e[i], co.kernels[i]) \/ ExpandedEntry(e[i], co.kernels[i])
             /\ e[i].priv = co.kds[co.kernels[i].name].priv
  <2> DEFINE n == co.note[i]
  <2>1. /\ DOMAIN n = NoteFields /\ n.name = co.kernels[i].name /\ CompiledEntry(n, co.kernels[i])
        /\ n.priv = co.kds[co.kernels[i].name].priv
    BY <1>1, <1>2 DEF NoteInv
  <2>2. e[i] = IF name \in {n.name, All} THEN ExpandKernel(n, 1) ELSE n
    BY <1>2 DEF Expanded
  <2>3. co.kernels[i].sizes \in Seq({4, 8})
    BY <1>2, ObjectKernels
  <2>4. n.ksize \in Nat
    BY <2>1, <2>3, CompiledIs DEF CompiledEntry
  <2> HIDE DEF n, e
  <2>5. CASE e[i] = n
    BY <2>1, <2>5
  <2>6. CASE e[i] = ExpandKernel(n, 1)
    <3>1. /\ DOMAIN e[i] = NoteFields /\ e[i].name = n.name /\ e[i].priv = n.priv
          /\ e[i].args = ExpandedArgs(n.args, n.ksize)
          /\ e[i].ksize = ExpandedSize(n.args, n.ksize)
      BY <2>1, <2>4, <2>6, ExpandKernelFields
    <3> QED BY <3>1, <2>1 DEF CompiledEntry, ExpandedEntry
  <2> QED BY <2>2, <2>5, <2>6
<1> HIDE DEF e, r
<1>6. /\ DOMAIN co' = CoFields /\ co'.note = e /\ co'.segment = e
      /\ co'.kds = co.kds /\ co'.kernels = co.kernels
      /\ co'.symbols = [mark \in {"__dyninst_pw_stride"} |-> 64]
  BY <1>1, <1>3 DEF CoFields
<1> QED BY <1>1, <1>2, <1>4, <1>5, <1>6 DEF NoteInv

LEMMA NoteStep == NoteInv /\ [Next]_vars => NoteInv'
<1> SUFFICES ASSUME NoteInv, [Next]_vars PROVE NoteInv'
  OBVIOUS
<1>1. CASE Edits
  BY <1>1, EditsStage DEF NoteInv
<1>2. CASE Builds
  BY <1>2, InstrumentKeepsNote, SyncKeepsNote, ExpandKeepsNote DEF Builds
<1>3. CASE UNCHANGED build
  BY <1>3 DEF NoteInv, build, CompiledEntry, ExpandedEntry
<1> QED BY <1>1, <1>2, <1>3, Steps

-----------------------------------------------------------------------------
(***************************************************************************)
(* The launch: nothing is built once a host has been chosen, and the       *)
(* packet asks for what the descriptor grants.                             *)
(***************************************************************************)
LaunchInv ==
    /\ main = "none" => wave.at = "none" /\ host = None
    /\ main # "none" => stage # "library"
    /\ main \in {"start", "load", "freeze", "arguments", "service", "dispatch"} =>
          wave.at = "none" /\ host \in {"launcher", "launcher_nd"}
    /\ ScratchGranted

LEMMA LaunchInit == Init => LaunchInv
BY NoneAssumption DEF Init, LaunchInv, ScratchGranted

LEMMA LaunchStep == NoteInv /\ LaunchInv /\ [Next]_vars => LaunchInv'
<1> SUFFICES ASSUME NoteInv, LaunchInv, [Next]_vars PROVE LaunchInv'
  OBVIOUS
<1> USE DEF LaunchInv, ScratchGranted
<1>1. CASE Edits \/ Builds
  <2>1. main = "none" /\ UNCHANGED <<launch, running>>
    BY <1>1, EditsStage, BuildsStage DEF Edits
  <2> QED BY <2>1, NoneAssumption DEF launch, running
<1>2. CASE Launches /\ UNCHANGED build
  <2>1. PICK i \in DOMAIN co.kernels :
           HipLaunches(co.kernels[i]) \/ \E h \in {"launcher", "launcher_nd"} : Choose(h, co.kernels[i])
    BY <1>2 DEF Launches
  <2>2. CASE HipLaunches(co.kernels[i])
    <3> DEFINE s == co.kernels[i]
               same == {j \in DOMAIN co.segment : co.segment[j].name = s.name}
    <3>1. /\ stage \in {"synced", "expanded"} /\ main = "none" /\ main' = "ended"
          /\ k' = s /\ priv' = NoteOf(s).priv /\ UNCHANGED <<build, wave>>
      BY <2>2 DEF HipLaunches, Step, PrivateSize
    <3>2. /\ co.kernels \in CodeObjects /\ co.segment = co.note
          /\ DOMAIN co.note = DOMAIN co.kernels
          /\ \A j \in DOMAIN co.kernels : /\ co.note[j].name = co.kernels[j].name
                                          /\ co.note[j].priv = co.kds[co.kernels[j].name].priv
      BY <3>1 DEF NoteInv
    <3>3. same \in SUBSET Nat /\ same # {}
      <4>1. DOMAIN co.kernels \in SUBSET Nat
        BY <3>2, ObjectKernels
      <4> QED BY <4>1, <3>2
    <3>4. Min(same) \in same
      <4> HIDE DEF same
      <4> QED BY <3>3, MinIs
    <3>5. NoteOf(s).priv = co.kds[s.name].priv
      <4>1. NoteOf(s) = co.segment[Min(same)]
        BY DEF NoteOf
      <4> DEFINE j == Min(same)
      <4>2. j \in DOMAIN co.note /\ co.note[j].name = s.name
        BY <3>2, <3>4
      <4> HIDE DEF same, s
      <4> QED BY <4>1, <4>2, <3>2
    <3> HIDE DEF s
    <3>6. priv' = co'.kds[k'.name].priv
      BY <3>1, <3>5 DEF build
    <3> QED BY <3>1, <3>6, <1>2 DEF build
  <2>3. CASE \E h \in {"launcher", "launcher_nd"} : Choose(h, co.kernels[i])
    BY <2>3, <1>2 DEF Choose, Step, build, Launches
  <2> QED BY <2>1, <2>2, <2>3
<1>3. CASE Main /\ UNCHANGED build
  <2>1. CASE Dispatch
    BY <2>1, <1>3 DEF Dispatch, Step, PrivateSize, build
  <2>2. CASE Fails \/ SetUp \/ Load \/ Freeze \/ Arguments \/ StartService
    BY <2>2, <1>3 DEF Fails, SetUp, Load, Freeze, Arguments, StartService, Step, build, launch
  <2>3. CASE Completed \/ TimesOut \/ StopService \/ Join \/ Report
    BY <2>3, <1>3 DEF Completed, TimesOut, StopService, Join, Report, Step, build, launch
  <2> QED BY <2>1, <2>2, <2>3, <1>3 DEF Main
<1>4. CASE Device /\ UNCHANGED build
  <2>1. wave.at # "none" /\ UNCHANGED <<launch, main>>
    BY <1>4 DEF Device, Call, Answer, KernelEnds
  <2> QED BY <2>1, <1>4 DEF launch, build
<1>5. CASE (ServiceEnds \/ UNCHANGED vars) /\ UNCHANGED build
  BY <1>5 DEF ServiceEnds, vars, launch, running, build
<1> QED BY <1>1, <1>2, <1>3, <1>4, <1>5, Steps

BuildInv == NoteInv /\ LaunchInv

LEMMA BuildInvariant == Spec => []BuildInv
<1>1. Init => BuildInv
  <2>1. Init => NoteInv
    BY DEF Init, NoteInv
  <2> QED BY <2>1, LaunchInit DEF BuildInv
<1>2. BuildInv /\ [Next]_vars => BuildInv'
  BY NoteStep, LaunchStep DEF BuildInv
<1> QED BY <1>1, <1>2, PTL DEF Spec

(* Whichever host launches a kernel, and whatever has been instrumented    *)
(* and edited before, its packet asks for the scratch that its descriptor  *)
(* grants the inserted calls.                                              *)
THEOREM ScratchIsGranted == Spec => []ScratchGranted
<1>1. BuildInv => ScratchGranted
  BY DEF BuildInv, LaunchInv
<1> QED BY <1>1, BuildInvariant, PTL

-----------------------------------------------------------------------------
(***************************************************************************)
(* Sequences put in order, and what is kept of a sequence.                 *)
(***************************************************************************)
StrictOrder(S, earlier) ==
    /\ earlier \in [S -> SUBSET S]
    /\ \A i \in S : i \notin earlier[i]
    /\ \A i, j \in S : i # j => i \in earlier[j] \/ j \in earlier[i]
    /\ \A i, j \in S : i \in earlier[j] => earlier[i] \subseteq earlier[j]

LEMMA Ranking ==
    ASSUME NEW S, IsFiniteSet(S), NEW earlier, StrictOrder(S, earlier)
    PROVE  LET p == InOrder(S, earlier)
               n == Cardinality(S)
           IN  /\ n \in Nat /\ p \in [1..n -> S]
               /\ \A i \in S : \E r \in 1..n : p[r] = i
               /\ \A r, q \in 1..n : r < q => p[r] \in earlier[p[q]] /\ p[r] # p[q]
<1> DEFINE n == Cardinality(S)
           rank == [i \in S |-> Cardinality(earlier[i])]
           p == InOrder(S, earlier)
<1>1. n \in Nat
  BY FS_CardinalityType
<1>2. ASSUME NEW i \in S PROVE IsFiniteSet(earlier[i]) /\ rank[i] \in Nat
  <2>1. earlier[i] \in SUBSET S
    BY DEF StrictOrder
  <2> QED BY <2>1, FS_Subset, FS_CardinalityType
<1>3. ASSUME NEW i \in S, NEW j \in S, i \in earlier[j] PROVE rank[i] < rank[j]
  <2>1. earlier[i] \union {i} \in SUBSET earlier[j] /\ i \notin earlier[i]
    BY <1>3 DEF StrictOrder
  <2>2. Cardinality(earlier[i] \union {i}) = Cardinality(earlier[i]) + 1
    BY <2>1, <1>2, FS_AddElement
  <2>3. Cardinality(earlier[i] \union {i}) <= Cardinality(earlier[j])
    BY <2>1, <1>2, FS_Subset
  <2> QED BY <2>2, <2>3, <1>2
<1>4. ASSUME NEW i \in S PROVE rank[i] \in 0..(n - 1)
  <2>1. earlier[i] \in SUBSET (S \ {i})
    BY DEF StrictOrder
  <2>2. IsFiniteSet(S \ {i}) /\ Cardinality(S \ {i}) = n - 1
    BY FS_RemoveElement
  <2>3. Cardinality(earlier[i]) <= n - 1
    BY <2>1, <2>2, FS_Subset
  <2> QED BY <2>3, <1>1, <1>2
<1>5. ASSUME NEW i \in S, NEW j \in S, rank[i] = rank[j] PROVE i = j
  <2> SUFFICES ASSUME i # j PROVE FALSE
    OBVIOUS
  <2>1. i \in earlier[j] \/ j \in earlier[i]
    BY DEF StrictOrder
  <2>2. rank[i] < rank[j] \/ rank[j] < rank[i]
    BY <2>1, <1>3
  <2>3. rank[i] \in Nat /\ rank[j] \in Nat
    BY <1>2
  <2> HIDE DEF rank
  <2> QED BY <2>2, <2>3, <1>5
<1>6. rank \in Injection(S, 0..(n - 1))
  <2>1. rank \in [S -> 0..(n - 1)]
    BY <1>4
  <2> HIDE DEF rank
  <2> QED BY <2>1, <1>5 DEF Injection, IsInjective
<1>7. IsFiniteSet(0..(n - 1)) /\ Cardinality(0..(n - 1)) = n
  BY <1>1, FS_Interval
<1>8. rank \in Surjection(S, 0..(n - 1))
  <2> HIDE DEF rank
  <2> QED BY <1>6, <1>7, FS_Injection
<1>9. ASSUME NEW r \in 1..n PROVE p[r] \in S /\ rank[p[r]] = r - 1
  <2>1. r - 1 \in 0..(n - 1)
    BY <1>1
  <2>2. \E i \in S : rank[i] = r - 1
    <3> HIDE DEF rank
    <3> QED BY <2>1, <1>8 DEF Surjection
  <2>3. \E i \in S : Cardinality(earlier[i]) = r - 1
    BY <2>2
  <2>4. p[r] = CHOOSE i \in S : Cardinality(earlier[i]) = r - 1
    BY DEF InOrder
  <2> HIDE DEF p
  <2>5. p[r] \in S /\ Cardinality(earlier[p[r]]) = r - 1
    BY <2>3, <2>4
  <2> QED BY <2>5
<1>10. DOMAIN p = 1..n /\ p = [r \in 1..n |-> p[r]]
  BY DEF InOrder
<1> HIDE DEF p, rank
<1>11. p \in [1..n -> S]
  BY <1>9, <1>10
<1>12. ASSUME NEW i \in S PROVE \E r \in 1..n : p[r] = i
  <2>1. rank[i] + 1 \in 1..n /\ (rank[i] + 1) - 1 = rank[i]
    BY <1>4, <1>1
  <2>2. p[rank[i] + 1] \in S /\ rank[p[rank[i] + 1]] = rank[i]
    BY <1>9, <2>1
  <2>3. p[rank[i] + 1] = i
    BY <2>2, <1>5
  <2> QED BY <2>1, <2>3
<1>13. ASSUME NEW r \in 1..n, NEW q \in 1..n, r < q PROVE p[r] \in earlier[p[q]] /\ p[r] # p[q]
  <2>1. p[r] \in S /\ p[q] \in S /\ rank[p[r]] = r - 1 /\ rank[p[q]] = q - 1
    BY <1>9
  <2>2. p[r] # p[q]
    BY <2>1, <1>13
  <2>3. p[r] \in earlier[p[q]] \/ p[q] \in earlier[p[r]]
    BY <2>1, <2>2 DEF StrictOrder
  <2>4. p[q] \notin earlier[p[r]]
    BY <2>1, <1>3, <1>13
  <2> QED BY <2>2, <2>3, <2>4
<1> QED BY <1>1, <1>11, <1>12, <1>13 DEF p

(* The indices at which a sequence is kept, in their order.                *)
Rising(p, n, I) ==
    /\ n \in Nat /\ p \in [1..n -> I]
    /\ \A i \in I : \E r \in 1..n : p[r] = i
    /\ \A r, q \in 1..n : r < q => p[r] < p[q]

LEMMA KeptIs ==
    ASSUME NEW s, NEW I \in SUBSET Nat, IsFiniteSet(I)
    PROVE  \E p : /\ Rising(p, Cardinality(I), I)
                  /\ Kept(s, I) = [r \in 1..Cardinality(I) |-> s[p[r]]]
<1> DEFINE earlier == [i \in I |-> {j \in I : j < i}]
           p == InOrder(I, earlier)
           n == Cardinality(I)
<1>1. StrictOrder(I, earlier)
  <2>1. earlier \in [I -> SUBSET I]
    OBVIOUS
  <2>2. ASSUME NEW i \in I, NEW j \in I PROVE (i \in earlier[j] <=> i < j) /\ i \in Nat /\ j \in Nat
    OBVIOUS
  <2> HIDE DEF earlier
  <2>3. ASSUME NEW i \in I, NEW j \in I, i \in earlier[j] PROVE earlier[i] \subseteq earlier[j]
    <3>1. ASSUME NEW m \in earlier[i] PROVE m \in earlier[j]
      <4>1. m \in I
        BY <2>1
      <4>2. m < i /\ i < j
        BY <4>1, <2>2, <2>3
      <4>3. m \in Nat /\ i \in Nat /\ j \in Nat
        BY <4>1
      <4>4. m < j
        BY <4>2, <4>3
      <4> QED BY <4>1, <4>4, <2>2
    <3> QED BY <3>1
  <2>4. ASSUME NEW i \in I, NEW j \in I, i # j PROVE i \in earlier[j] \/ j \in earlier[i]
    <3>1. i \in Nat /\ j \in Nat
      OBVIOUS
    <3>2. i < j \/ j < i
      BY <3>1, <2>4
    <3> QED BY <3>2, <2>2
  <2> QED BY <2>1, <2>2, <2>3, <2>4 DEF StrictOrder
<1>2. /\ n \in Nat /\ p \in [1..n -> I]
      /\ \A i \in I : \E r \in 1..n : p[r] = i
      /\ \A r, q \in 1..n : r < q => p[r] \in earlier[p[q]] /\ p[r] # p[q]
  <2> HIDE DEF earlier
  <2> QED BY <1>1, Ranking
<1>3. ASSUME NEW r \in 1..n, NEW q \in 1..n, r < q PROVE p[r] < p[q]
  <2>1. p[r] \in earlier[p[q]] /\ p[q] \in I
    BY <1>2, <1>3
  <2> HIDE DEF p
  <2> QED BY <2>1
<1>4. Kept(s, I) = [r \in DOMAIN p |-> s[p[r]]]
  BY DEF Kept, Permuted
<1> HIDE DEF p
<1>5. Rising(p, n, I)
  BY <1>2, <1>3 DEF Rising
<1>6. DOMAIN p = 1..n
  BY <1>2
<1> QED BY <1>4, <1>5, <1>6

(* The elements that are kept, each as often as its index is.              *)
LEMMA KeptRange ==
    ASSUME NEW X, NEW s \in Seq(X), NEW I \in SUBSET DOMAIN s
    PROVE  /\ Kept(s, I) \in Seq(X) /\ Len(Kept(s, I)) = Cardinality(I)
           /\ \A r \in DOMAIN Kept(s, I) : \E i \in I : Kept(s, I)[r] = s[i]
           /\ \A i \in I : \E r \in DOMAIN Kept(s, I) : Kept(s, I)[r] = s[i]
<1>1. DOMAIN s = 1..Len(s) /\ Len(s) \in Nat /\ I \in SUBSET Nat
  OBVIOUS
<1>2. IsFiniteSet(I)
  <2>1. IsFiniteSet(1..Len(s))
    BY <1>1, FS_Interval
  <2> QED BY <1>1, <2>1, FS_Subset
<1>3. PICK p : Rising(p, Cardinality(I), I) /\ Kept(s, I) = [r \in 1..Cardinality(I) |-> s[p[r]]]
  BY <1>1, <1>2, KeptIs
<1>4. Cardinality(I) \in Nat
  BY <1>2, FS_CardinalityType
<1>5. \A r \in 1..Cardinality(I) : p[r] \in I /\ s[p[r]] \in X
  BY <1>1, <1>3 DEF Rising
<1>6. Kept(s, I) \in [1..Cardinality(I) -> X] /\ DOMAIN Kept(s, I) = 1..Cardinality(I)
  BY <1>3, <1>5
<1>7. Kept(s, I) \in Seq(X) /\ Len(Kept(s, I)) = Cardinality(I)
  BY <1>4, <1>6
<1> QED BY <1>3, <1>5, <1>6, <1>7 DEF Rising

(* Elements that differ stay apart.                                        *)
LEMMA KeptApart ==
    ASSUME NEW X, NEW s \in Seq(X), NEW I \in SUBSET DOMAIN s
    PROVE  \A r, q \in DOMAIN Kept(s, I) : r < q =>
              \E i, j \in I : i < j /\ Kept(s, I)[r] = s[i] /\ Kept(s, I)[q] = s[j]
<1> SUFFICES ASSUME NEW r \in DOMAIN Kept(s, I), NEW q \in DOMAIN Kept(s, I), r < q
             PROVE  \E i, j \in I : i < j /\ Kept(s, I)[r] = s[i] /\ Kept(s, I)[q] = s[j]
  OBVIOUS
<1>1. DOMAIN s = 1..Len(s) /\ Len(s) \in Nat /\ I \in SUBSET Nat
  OBVIOUS
<1>2. IsFiniteSet(I)
  <2>1. IsFiniteSet(1..Len(s))
    BY <1>1, FS_Interval
  <2> QED BY <1>1, <2>1, FS_Subset
<1>3. PICK p : Rising(p, Cardinality(I), I) /\ Kept(s, I) = [x \in 1..Cardinality(I) |-> s[p[x]]]
  BY <1>1, <1>2, KeptIs
<1>4. r \in 1..Cardinality(I) /\ q \in 1..Cardinality(I)
  BY <1>3
<1>5. p[r] \in I /\ p[q] \in I /\ p[r] < p[q]
  BY <1>3, <1>4 DEF Rising
<1> QED BY <1>3, <1>4, <1>5

LEMMA BucketedIs ==
    ASSUME NEW X, NEW def \in Seq(X), NEW bucket \in [DOMAIN def -> Nat]
    PROVE  LET g == Bucketed(def, bucket)
               n == Len(def)
           IN  \E p \in [1..n -> 1..n] :
                  /\ g = [r \in 1..n |-> def[p[r]]]
                  /\ \A i \in 1..n : \E r \in 1..n : p[r] = i
                  /\ \A r, q \in 1..n : r < q => p[r] # p[q] /\ bucket[p[r]] <= bucket[p[q]]
<1> DEFINE n == Len(def)
           S == DOMAIN def
           earlier == [j \in DOMAIN def |->
                         {i \in DOMAIN def : bucket[i] < bucket[j] \/ (bucket[i] = bucket[j] /\ i < j)}]
           p == InOrder(DOMAIN def, earlier)
<1>1. S = 1..n /\ n \in Nat
  OBVIOUS
<1>2. IsFiniteSet(S) /\ Cardinality(S) = n
  <2>1. IsFiniteSet(1..n) /\ Cardinality(1..n) = n
    BY <1>1, CountOff
  <2> QED BY <1>1, <2>1
<1>3. earlier \in [S -> SUBSET S]
  OBVIOUS
<1>4. ASSUME NEW i \in S, NEW j \in S
      PROVE  /\ i \in earlier[j] <=> bucket[i] < bucket[j] \/ (bucket[i] = bucket[j] /\ i < j)
             /\ i \in Nat /\ j \in Nat /\ bucket[i] \in Nat /\ bucket[j] \in Nat
  OBVIOUS
<1> HIDE DEF earlier
<1>5. StrictOrder(S, earlier)
  <2>1. ASSUME NEW i \in S PROVE i \notin earlier[i]
    BY <1>4
  <2>2. ASSUME NEW i \in S, NEW j \in S, i # j PROVE i \in earlier[j] \/ j \in earlier[i]
    <3>1. i \in Nat /\ j \in Nat /\ bucket[i] \in Nat /\ bucket[j] \in Nat
      BY <1>4
    <3>2. i \in earlier[j] <=> bucket[i] < bucket[j] \/ (bucket[i] = bucket[j] /\ i < j)
      BY <1>4
    <3>3. j \in earlier[i] <=> bucket[j] < bucket[i] \/ (bucket[j] = bucket[i] /\ j < i)
      BY <1>4
    <3> QED BY <3>1, <3>2, <3>3, <2>2
  <2>3. ASSUME NEW i \in S, NEW j \in S, i \in earlier[j], NEW m \in earlier[i] PROVE m \in earlier[j]
    <3>1. m \in S
      BY <1>3
    <3>2. m \in Nat /\ i \in Nat /\ j \in Nat /\ bucket[m] \in Nat /\ bucket[i] \in Nat /\ bucket[j] \in Nat
      BY <1>4, <3>1
    <3>3. bucket[m] < bucket[i] \/ (bucket[m] = bucket[i] /\ m < i)
      BY <1>4, <3>1
    <3>4. bucket[i] < bucket[j] \/ (bucket[i] = bucket[j] /\ i < j)
      BY <1>4, <2>3
    <3>5. bucket[m] < bucket[j] \/ (bucket[m] = bucket[j] /\ m < j)
      BY <3>2, <3>3, <3>4
    <3> QED BY <3>1, <3>5, <1>4
  <2> QED BY <1>3, <2>1, <2>2, <2>3 DEF StrictOrder
<1>6. /\ p \in [1..n -> S]
      /\ \A i \in S : \E r \in 1..n : p[r] = i
      /\ \A r, q \in 1..n : r < q => p[r] \in earlier[p[q]] /\ p[r] # p[q]
  BY <1>2, <1>5, Ranking
<1>7. Bucketed(def, bucket) = [r \in DOMAIN p |-> def[p[r]]]
  BY DEF Bucketed, Permuted, earlier
<1> HIDE DEF p
<1>8. ASSUME NEW r \in 1..n, NEW q \in 1..n, r < q PROVE p[r] # p[q] /\ bucket[p[r]] <= bucket[p[q]]
  <2>1. p[r] \in earlier[p[q]] /\ p[r] # p[q] /\ p[r] \in S /\ p[q] \in S
    BY <1>6, <1>8
  <2>2. bucket[p[r]] < bucket[p[q]] \/ bucket[p[r]] = bucket[p[q]]
    BY <2>1, <1>4
  <2>3. bucket[p[r]] \in Nat /\ bucket[p[q]] \in Nat
    BY <2>1
  <2> QED BY <2>1, <2>2, <2>3
<1>9. DOMAIN p = 1..n /\ p \in [1..n -> 1..n]
  BY <1>1, <1>6
<1> QED BY <1>1, <1>6, <1>7, <1>8, <1>9

(* The elements of a concatenation.                                        *)
LEMMA ConcatIs ==
    ASSUME NEW X, NEW s \in Seq(X), NEW t \in Seq(X)
    PROVE  LET all == s \o t IN
           /\ all \in Seq(X) /\ Len(all) = Len(s) + Len(t)
           /\ \A a \in DOMAIN all : (a \in DOMAIN s /\ all[a] = s[a])
                                     \/ (a - Len(s) \in DOMAIN t /\ all[a] = t[a - Len(s)])
           /\ \A a \in DOMAIN all : a \in Nat
           /\ Len(s) \in Nat /\ Len(t) \in Nat
           /\ \A r \in DOMAIN s : r \in DOMAIN all /\ all[r] = s[r]
           /\ \A r \in DOMAIN t : r + Len(s) \in DOMAIN all /\ all[r + Len(s)] = t[r]
<1> DEFINE all == s \o t
<1>1. /\ Len(s) \in Nat /\ Len(t) \in Nat /\ DOMAIN s = 1..Len(s) /\ DOMAIN t = 1..Len(t)
      /\ all \in Seq(X) /\ Len(all) = Len(s) + Len(t)
      /\ DOMAIN all = 1..(Len(s) + Len(t))
  OBVIOUS
<1>2. \A i \in 1..(Len(s) + Len(t)) : all[i] = IF i <= Len(s) THEN s[i] ELSE t[i - Len(s)]
  OBVIOUS
<1> HIDE DEF all
<1>3. ASSUME NEW a \in DOMAIN all
      PROVE  /\ a \in Nat
             /\ \/ a \in DOMAIN s /\ all[a] = s[a]
                \/ a - Len(s) \in DOMAIN t /\ all[a] = t[a - Len(s)]
  BY <1>1, <1>2
<1>4. \A r \in DOMAIN s : r \in DOMAIN all /\ all[r] = s[r]
  BY <1>1, <1>2
<1>5. ASSUME NEW r \in DOMAIN t PROVE r + Len(s) \in DOMAIN all /\ all[r + Len(s)] = t[r]
  <2>1. r + Len(s) \in 1..(Len(s) + Len(t)) /\ ~ (r + Len(s) <= Len(s)) /\ (r + Len(s)) - Len(s) = r
    BY <1>1
  <2> QED BY <2>1, <1>1, <1>2
<1> QED BY <1>1, <1>3, <1>4, <1>5 DEF all

-----------------------------------------------------------------------------
(***************************************************************************)
(* The order of .dynsym that the GNU table describes.                      *)
(***************************************************************************)
(* No two symbols have one name.                                           *)
Distinct(s) == \A i, j \in DOMAIN s : s[i].name = s[j].name => i = j

(* What is found under a name.                                             *)
Values(s, n) == {s[i].value : i \in {j \in DOMAIN s : s[j].name = n /\ is_defined(s[j])}}

SameElements(s, t) ==
    /\ \A i \in DOMAIN s : \E j \in DOMAIN t : s[i] = t[j]
    /\ \A j \in DOMAIN t : \E i \in DOMAIN s : s[i] = t[j]

(* Undefined symbols, then the defined ones by their buckets.              *)
Arranged(other, def, hash, nb) ==
    /\ \A i \in DOMAIN other : ~ is_defined(other[i])
    /\ \A i \in DOMAIN def : is_defined(def[i])
    /\ \A i, j \in DOMAIN def : i < j => hash[def[i].name] % nb <= hash[def[j].name] % nb

LEMMA RegenIs ==
    ASSUME NEW X, \A s \in X : ~ is_local(s) /\ s.name \in Names,
           NEW d \in Seq(X), NEW hash \in [Names -> Nat]
    PROVE  \E other, def \in Seq(X), nb \in Nat \ {0} :
              /\ regen_gnu_hash(d, hash) = GnuTables(other, def, hash, nb)
              /\ Arranged(other, def, hash, nb)
              /\ SameElements(d, other \o def)
              /\ Distinct(d) => Distinct(other \o def)
<1> DEFINE U == {i \in DOMAIN d : ~is_local(d[i]) /\ ~is_defined(d[i])}
           D == {i \in DOMAIN d : ~is_local(d[i]) /\ is_defined(d[i])}
           other == Kept(d, U)
           kept == Kept(d, D)
           nb == Most(1, Len(kept))
           bucket == [i \in DOMAIN kept |-> hash[kept[i].name] % nb]
           def == Bucketed(kept, bucket)
<1>1. \A i \in DOMAIN d : d[i] \in X /\ ~ is_local(d[i])
  OBVIOUS
<1>2. {i \in DOMAIN d : is_local(d[i])} = {}
  BY <1>1
<1>3. Kept(d, {}) = << >>
  <2>1. {} \in SUBSET DOMAIN d
    OBVIOUS
  <2>2. Kept(d, {}) \in Seq(X) /\ Len(Kept(d, {})) = 0
    BY <2>1, KeptRange, FS_EmptySet
  <2> QED BY <2>2
<1>4. U \in SUBSET DOMAIN d /\ D \in SUBSET DOMAIN d
  OBVIOUS
<1>5. /\ other \in Seq(X)
      /\ \A r \in DOMAIN other : \E i \in U : other[r] = d[i]
      /\ \A i \in U : \E r \in DOMAIN other : other[r] = d[i]
  BY <1>4, KeptRange
<1>6. /\ kept \in Seq(X)
      /\ \A r \in DOMAIN kept : \E i \in D : kept[r] = d[i]
      /\ \A i \in D : \E r \in DOMAIN kept : kept[r] = d[i]
  BY <1>4, KeptRange
<1>7. \A r, q \in DOMAIN other : r < q => \E i, j \in U : i < j /\ other[r] = d[i] /\ other[q] = d[j]
  <2> HIDE DEF U, D, nb, bucket, def
  <2> QED BY <1>4, KeptApart
<1>8. \A r, q \in DOMAIN kept : r < q => \E i, j \in D : i < j /\ kept[r] = d[i] /\ kept[q] = d[j]
  <2> HIDE DEF U, D, nb, bucket, def
  <2> QED BY <1>4, KeptApart
<1>9. regen_gnu_hash(d, hash) = GnuTables(<< >> \o other, def, hash, nb)
  BY <1>2, <1>3 DEF regen_gnu_hash
<1>10. << >> \o other = other
  BY <1>5
<1> HIDE DEF other, kept
<1>11. nb \in Nat \ {0}
  <2>1. Len(kept) \in Nat
    BY <1>6
  <2> QED BY <2>1 DEF Most
<1> HIDE DEF nb
<1>12. ASSUME NEW i \in DOMAIN kept PROVE hash[kept[i].name] \in Nat /\ bucket[i] = hash[kept[i].name] % nb /\ bucket[i] \in Nat
  <2>1. kept[i] \in X
    BY <1>6
  <2>2. hash[kept[i].name] \in Nat
    BY <2>1
  <2> QED BY <2>2, <1>11
<1>13. bucket \in [DOMAIN kept -> Nat]
  BY <1>12
<1> DEFINE n == Len(kept)
<1>14. PICK p \in [1..n -> 1..n] :
          /\ def = [r \in 1..n |-> kept[p[r]]]
          /\ \A i \in 1..n : \E r \in 1..n : p[r] = i
          /\ \A r, q \in 1..n : r < q => p[r] # p[q] /\ bucket[p[r]] <= bucket[p[q]]
  <2> HIDE DEF bucket
  <2> QED BY <1>6, <1>13, BucketedIs
<1> HIDE DEF def, bucket
<1>15. n \in Nat /\ DOMAIN kept = 1..n /\ DOMAIN def = 1..n /\ def \in Seq(X) /\ Len(def) = n
  <2>1. n \in Nat /\ DOMAIN kept = 1..n
    BY <1>6
  <2>2. \A i \in 1..n : kept[i] \in X
    BY <1>6, <2>1
  <2>3. def \in [1..n -> X]
    BY <1>14, <2>2
  <2> QED BY <2>1, <2>3
<1>16. ASSUME NEW r \in DOMAIN def PROVE def[r] = kept[p[r]] /\ p[r] \in DOMAIN kept
  BY <1>14, <1>15
<1> HIDE DEF n
<1>17. ASSUME NEW r \in DOMAIN def PROVE \E i \in D : def[r] = d[i]
  <2>1. def[r] = kept[p[r]] /\ p[r] \in DOMAIN kept
    BY <1>16
  <2>2. PICK i \in D : kept[p[r]] = d[i]
    BY <2>1, <1>6
  <2> QED BY <2>1, <2>2
<1>18. ASSUME NEW i \in D PROVE \E r \in DOMAIN def : def[r] = d[i]
  <2>1. PICK m \in DOMAIN kept : kept[m] = d[i]
    BY <1>6
  <2>2. PICK r \in 1..n : p[r] = m
    BY <2>1, <1>14, <1>15
  <2> QED BY <2>1, <2>2, <1>15, <1>16
<1>19. Arranged(other, def, hash, nb)
  <2>1. \A i \in DOMAIN other : ~ is_defined(other[i])
    BY <1>5
  <2>2. \A i \in DOMAIN def : is_defined(def[i])
    BY <1>17
  <2>3. ASSUME NEW i \in DOMAIN def, NEW j \in DOMAIN def, i < j
        PROVE  hash[def[i].name] % nb <= hash[def[j].name] % nb
    <3>1. bucket[p[i]] <= bucket[p[j]]
      BY <1>14, <1>15, <2>3
    <3> QED BY <3>1, <1>12, <1>16
  <2> QED BY <2>1, <2>2, <2>3 DEF Arranged
<1> DEFINE all == other \o def
<1>20. /\ \A a \in DOMAIN all : \/ a \in DOMAIN other /\ all[a] = other[a]
                                \/ a - Len(other) \in DOMAIN def /\ all[a] = def[a - Len(other)]
       /\ \A a \in DOMAIN all : a \in Nat
       /\ Len(other) \in Nat /\ Len(def) \in Nat
       /\ \A r \in DOMAIN other : r \in DOMAIN all /\ all[r] = other[r]
       /\ \A r \in DOMAIN def : r + Len(other) \in DOMAIN all /\ all[r + Len(other)] = def[r]
  <2>1. other \in Seq(X) /\ def \in Seq(X)
    BY <1>5, <1>15
  <2> QED BY <2>1, ConcatIs
<1> HIDE DEF all
<1>21. SameElements(d, all)
  <2>1. ASSUME NEW i \in DOMAIN d PROVE \E j \in DOMAIN all : d[i] = all[j]
    <3>1. CASE i \in U
      <4>1. PICK r \in DOMAIN other : other[r] = d[i]
        BY <1>5, <3>1
      <4> QED BY <4>1, <1>20
    <3>2. CASE i \in D
      <4>1. PICK r \in DOMAIN def : def[r] = d[i]
        BY <1>18, <3>2
      <4> QED BY <4>1, <1>20
    <3> QED BY <3>1, <3>2, <1>1
  <2>2. ASSUME NEW j \in DOMAIN all PROVE \E i \in DOMAIN d : d[i] = all[j]
    <3>1. CASE j \in DOMAIN other /\ all[j] = other[j]
      <4>1. PICK i \in U : other[j] = d[i]
        BY <1>5, <3>1
      <4> QED BY <4>1, <3>1, <1>4
    <3>2. CASE j - Len(other) \in DOMAIN def /\ all[j] = def[j - Len(other)]
      <4>1. PICK i \in D : def[j - Len(other)] = d[i]
        BY <1>17, <3>2
      <4> QED BY <4>1, <3>2, <1>4
    <3> QED BY <3>1, <3>2, <1>20
  <2> QED BY <2>1, <2>2 DEF SameElements
<1>22. ASSUME Distinct(d) PROVE Distinct(all)
  <2>1. ASSUME NEW i \in DOMAIN d, NEW j \in DOMAIN d, d[i].name = d[j].name PROVE i = j
    BY <1>22, <2>1 DEF Distinct
  <2>2. ASSUME NEW a \in DOMAIN all, NEW b \in DOMAIN all, all[a].name = all[b].name, a < b PROVE FALSE
    <3>1. CASE a \in DOMAIN other /\ b \in DOMAIN other /\ all[a] = other[a] /\ all[b] = other[b]
      <4>1. PICK i, j \in U : i < j /\ other[a] = d[i] /\ other[b] = d[j]
        BY <1>7, <2>2, <3>1
      <4>2. i = j
        BY <4>1, <2>1, <2>2, <3>1
      <4> QED BY <4>1, <4>2
    <3>2. CASE /\ a - Len(other) \in DOMAIN def /\ b - Len(other) \in DOMAIN def
               /\ all[a] = def[a - Len(other)] /\ all[b] = def[b - Len(other)]
      <4> DEFINE r == a - Len(other)
                 q == b - Len(other)
      <4>1. r \in DOMAIN def /\ q \in DOMAIN def /\ r < q
        BY <3>2, <2>2, <1>20
      <4>2. def[r] = kept[p[r]] /\ def[q] = kept[p[q]] /\ p[r] \in DOMAIN kept /\ p[q] \in DOMAIN kept
        BY <4>1, <1>16
      <4>3. p[r] # p[q]
        BY <4>1, <1>14, <1>15
      <4> HIDE DEF r, q
      <4>4. p[r] < p[q] \/ p[q] < p[r]
        BY <4>2, <4>3, <1>15
      <4>5. \E i, j \in D : i # j /\ kept[p[r]] = d[i] /\ kept[p[q]] = d[j]
        <5>1. CASE p[r] < p[q]
          <6>1. PICK i, j \in D : i < j /\ kept[p[r]] = d[i] /\ kept[p[q]] = d[j]
            BY <5>1, <4>2, <1>8
          <6>2. i \in Nat /\ j \in Nat
            BY <1>4
          <6> HIDE DEF D
          <6> QED BY <6>1, <6>2
        <5>2. CASE p[q] < p[r]
          <6>1. PICK i, j \in D : i < j /\ kept[p[q]] = d[i] /\ kept[p[r]] = d[j]
            BY <5>2, <4>2, <1>8
          <6>2. i \in Nat /\ j \in Nat
            BY <1>4
          <6> HIDE DEF D
          <6> QED BY <6>1, <6>2
        <5> QED BY <5>1, <5>2, <4>4
      <4>6. PICK i, j \in D : i # j /\ kept[p[r]] = d[i] /\ kept[p[q]] = d[j]
        BY <4>5
      <4>7. d[i].name = d[j].name
        BY <4>2, <4>6, <2>2, <3>2 DEF r, q
      <4> QED BY <4>6, <4>7, <2>1
    <3>3. CASE a \in DOMAIN other /\ all[a] = other[a] /\ b - Len(other) \in DOMAIN def /\ all[b] = def[b - Len(other)]
      <4>1. PICK i \in U : other[a] = d[i]
        BY <1>5, <3>3
      <4>2. PICK j \in D : def[b - Len(other)] = d[j]
        BY <1>17, <3>3
      <4>3. i = j
        BY <4>1, <4>2, <2>1, <2>2, <3>3
      <4> QED BY <4>1, <4>2, <4>3
    <3>4. CASE b \in DOMAIN other /\ all[b] = other[b] /\ a - Len(other) \in DOMAIN def /\ all[a] = def[a - Len(other)]
      <4>1. PICK i \in U : other[b] = d[i]
        BY <1>5, <3>4
      <4>2. PICK j \in D : def[a - Len(other)] = d[j]
        BY <1>17, <3>4
      <4>3. i = j
        BY <4>1, <4>2, <2>1, <2>2, <3>4
      <4> QED BY <4>1, <4>2, <4>3
    <3> QED BY <3>1, <3>2, <3>3, <3>4, <1>20
  <2>3. ASSUME NEW a \in DOMAIN all, NEW b \in DOMAIN all, all[a].name = all[b].name PROVE a = b
    <3>1. a \in Nat /\ b \in Nat
      BY <1>20
    <3>2. ~ (a < b) /\ ~ (b < a)
      BY <2>2, <2>3
    <3> QED BY <3>1, <3>2
  <2> QED BY <2>3 DEF Distinct
<1> QED BY <1>5, <1>9, <1>10, <1>11, <1>15, <1>19, <1>21, <1>22 DEF all

-----------------------------------------------------------------------------
(***************************************************************************)
(* A lookup in the GNU table, and the scan that counts by it.              *)
(***************************************************************************)
LEMMA MinUnique == ASSUME NEW S \in SUBSET Nat, NEW x \in S, \A y \in S : x <= y
                   PROVE  Min(S) = x
<1>1. Min(S) \in S /\ Min(S) <= x
  BY MinIs
<1>2. x <= Min(S) /\ Min(S) \in Nat /\ x \in Nat
  BY <1>1
<1> QED BY <1>1, <1>2

(* Where the run of a bucket ends, for indices in the order of buckets.    *)
Ends(beta, N, i) == i = N \/ beta[i] # beta[i + 1]

LEMMA RunEnds ==
    ASSUME NEW N \in Nat, NEW beta, \A i \in 1..N : beta[i] \in Nat,
           \A i, j \in 1..N : i < j => beta[i] <= beta[j],
           NEW m \in 1..N
    PROVE  LET E == {i \in m..N : Ends(beta, N, i)}
           IN  /\ E \in SUBSET Nat /\ Min(E) \in E
               /\ \A i \in E : Min(E) <= i
               /\ \A i \in m..N : beta[i] = beta[m] => i <= Min(E)
               /\ beta[m] = beta[N] => Min(E) = N
<1> DEFINE E == {i \in m..N : Ends(beta, N, i)}
           e == Min(E)
<1>1. E \in SUBSET Nat /\ N \in E
  BY DEF Ends
<1>2. e \in E /\ \A i \in E : e <= i
  <2> HIDE DEF E
  <2> QED BY <1>1, MinIs
<1>3. e \in m..N /\ (e = N \/ beta[e] # beta[e + 1])
  <2> HIDE DEF e
  <2> QED BY <1>2 DEF Ends
<1> HIDE DEF e, E
<1>4. ASSUME NEW i \in m..N, beta[i] = beta[m], e < i PROVE FALSE
  <2>1. e + 1 \in 1..N /\ e \in 1..N /\ e < N
    BY <1>3, <1>4
  <2>2. beta[m] <= beta[e]
    <3>1. m = e \/ m < e
      BY <1>3
    <3> QED BY <3>1, <2>1
  <2>3. beta[e] <= beta[e + 1]
    BY <2>1
  <2>4. beta[e + 1] <= beta[i]
    <3>1. i = e + 1 \/ e + 1 < i
      BY <1>3, <1>4
    <3> QED BY <3>1, <2>1
  <2>5. beta[e] \in Nat /\ beta[e + 1] \in Nat /\ beta[m] \in Nat
    BY <2>1
  <2>6. beta[e] = beta[e + 1]
    BY <2>2, <2>3, <2>4, <2>5, <1>4
  <2> QED BY <2>6, <2>1, <1>3
<1>5. \A i \in m..N : beta[i] = beta[m] => i <= e
  BY <1>3, <1>4
<1>6. beta[m] = beta[N] => e = N
  BY <1>3, <1>5
<1> QED BY <1>1, <1>2, <1>5, <1>6 DEF e, E

(* What the two parts of .dynsym and the GNU table over it hold.           *)
Tables(X, other, def, hash, nb) ==
    /\ \A s \in X : s.name \in Names
    /\ other \in Seq(X) /\ def \in Seq(X) /\ hash \in [Names -> Nat] /\ nb \in Nat \ {0}
    /\ Arranged(other, def, hash, nb)

Beta(def, hash, nb) == [i \in DOMAIN def |-> hash[def[i].name] % nb]
Bucket(beta, b) == {i \in DOMAIN beta : beta[i] = b}

LEMMA TablesAre ==
    ASSUME NEW X, NEW other, NEW def, NEW hash, NEW nb, Tables(X, other, def, hash, nb)
    PROVE  LET T == GnuTables(other, def, hash, nb)
               beta == Beta(def, hash, nb)
               N == Len(def)
               M == Len(other)
           IN  /\ N \in Nat /\ M \in Nat /\ DOMAIN def = 1..N
               /\ \A i \in 1..N : hash[def[i].name] \in Nat /\ beta[i] = hash[def[i].name] % nb
                                  /\ beta[i] \in 0..(nb - 1)
               /\ \A i, j \in 1..N : i < j => beta[i] <= beta[j]
               /\ T.symndx = 1 + M
               /\ T.bloom = UNION {BloomBits(hash[def[i].name]) : i \in 1..N}
               /\ DOMAIN T.buckets = 0..(nb - 1) /\ Cardinality(DOMAIN T.buckets) = nb
               /\ \A b \in 0..(nb - 1) :
                     T.buckets[b] = IF Bucket(beta, b) = {} THEN 0 ELSE 1 + M + Min(Bucket(beta, b)) - 1
               /\ \A i \in 1..N : T.values[i].h = hash[def[i].name] \div 2
                                  /\ (T.values[i].last <=> Ends(beta, N, i))
<1> DEFINE T == GnuTables(other, def, hash, nb)
           beta == Beta(def, hash, nb)
           N == Len(def)
           M == Len(other)
<1>1. N \in Nat /\ M \in Nat /\ DOMAIN def = 1..N /\ nb \in Nat \ {0} /\ \A i \in 1..N : def[i] \in X
  BY DEF Tables
<1>2. ASSUME NEW i \in 1..N
      PROVE  hash[def[i].name] \in Nat /\ beta[i] = hash[def[i].name] % nb /\ beta[i] \in 0..(nb - 1)
  <2>1. def[i].name \in Names /\ hash \in [Names -> Nat]
    BY <1>1 DEF Tables
  <2>2. hash[def[i].name] \in Nat
    BY <2>1
  <2>3. beta[i] = hash[def[i].name] % nb
    BY <1>1 DEF Beta
  <2> QED BY <2>2, <2>3, <1>1
<1>3. ASSUME NEW i \in 1..N, NEW j \in 1..N, i < j PROVE beta[i] <= beta[j]
  <2>1. hash[def[i].name] % nb <= hash[def[j].name] % nb
    BY <1>1, <1>3 DEF Tables, Arranged
  <2> QED BY <2>1, <1>2
<1>4. Cardinality(0..(nb - 1)) = nb
  <2>1. 0 \in Int /\ nb - 1 \in Int /\ ~ (0 > nb - 1) /\ (nb - 1) - 0 + 1 = nb
    BY <1>1
  <2> QED BY <2>1, FS_Interval
<1>5. \A b : {i \in DOMAIN def : hash[def[i].name] % nb = b} = Bucket(beta, b)
  <2>1. DOMAIN beta = 1..N
    BY <1>1 DEF Beta
  <2> HIDE DEF beta
  <2> QED BY <1>1, <1>2, <2>1 DEF Bucket
<1>6. T.buckets = [b \in 0..(nb - 1) |->
                     IF {i \in DOMAIN def : hash[def[i].name] % nb = b} = {} THEN 0
                     ELSE 1 + M + Min({i \in DOMAIN def : hash[def[i].name] % nb = b}) - 1]
  BY DEF GnuTables
<1>7. ASSUME NEW b \in 0..(nb - 1)
      PROVE  T.buckets[b] = IF Bucket(beta, b) = {} THEN 0 ELSE 1 + M + Min(Bucket(beta, b)) - 1
  <2>1. T.buckets[b] = IF {i \in DOMAIN def : hash[def[i].name] % nb = b} = {} THEN 0
                       ELSE 1 + M + Min({i \in DOMAIN def : hash[def[i].name] % nb = b}) - 1
    BY <1>6
  <2> QED BY <2>1, <1>5
<1>8. T.symndx = 1 + M /\ T.bloom = UNION {BloomBits(hash[def[i].name]) : i \in 1..N}
  BY <1>1 DEF GnuTables
<1>9. ASSUME NEW i \in 1..N
      PROVE  T.values[i].h = hash[def[i].name] \div 2 /\ (T.values[i].last <=> Ends(beta, N, i))
  <2>1. T.values[i] = [h |-> hash[def[i].name] \div 2,
                       last |-> i = Len(def) \/ hash[def[i].name] % nb # hash[def[i + 1].name] % nb]
    BY <1>1 DEF GnuTables
  <2>2. T.values[i].h = hash[def[i].name] \div 2
    BY <2>1
  <2>3. T.values[i].last = (i = Len(def) \/ hash[def[i].name] % nb # hash[def[i + 1].name] % nb)
    <3>1. \A v, a, b : v = [h |-> a, last |-> b] => v.last = b
      OBVIOUS
    <3> HIDE DEF T
    <3> QED BY <2>1, <3>1, Zenon
  <2>4. i # N => i + 1 \in 1..N
    <3> HIDE DEF T, beta
    <3>1. N \in Nat
      BY <1>1
    <3> HIDE DEF N
    <3> QED BY <3>1
  <2>5. beta[i] = hash[def[i].name] % nb /\ (i # N => beta[i + 1] = hash[def[i + 1].name] % nb)
    BY <1>2, <2>4
  <2> HIDE DEF T, beta
  <2> QED BY <2>2, <2>3, <2>5, Zenon DEF Ends
<1>10. DOMAIN T.buckets = 0..(nb - 1)
  BY <1>6
<1> QED BY <1>1, <1>2, <1>3, <1>4, <1>7, <1>8, <1>9, <1>10

LEMMA ShiftMin ==
    ASSUME NEW M \in Nat, NEW E \in SUBSET Nat, E # {}
    PROVE  Min({M + i : i \in E}) = M + Min(E)
<1>1. Min(E) \in E /\ \A i \in E : Min(E) <= i
  BY MinIs
<1>2. {M + i : i \in E} \in SUBSET Nat /\ M + Min(E) \in {M + i : i \in E}
  <2>1. \A i \in E : M + i \in Nat
    OBVIOUS
  <2> QED BY <1>1, <2>1
<1>3. ASSUME NEW y \in {M + i : i \in E} PROVE M + Min(E) <= y
  <2>1. PICK i \in E : y = M + i
    OBVIOUS
  <2>2. Min(E) \in Nat /\ i \in Nat /\ Min(E) <= i
    BY <1>1
  <2> QED BY <2>1, <2>2
<1> QED BY <1>2, <1>3, MinUnique

(* From the first symbol of a bucket the walk ends with its last one.      *)
LEMMA RunOf ==
    ASSUME NEW X, NEW other, NEW def, NEW hash, NEW nb, Tables(X, other, def, hash, nb),
           NEW m \in 1..Len(def)
    PROVE  LET T == GnuTables(other, def, hash, nb)
               beta == Beta(def, hash, nb)
               N == Len(def)
               M == Len(other)
               end == Min({i \in (M + m)..Len(T.dyn) : T.values[i - T.symndx + 1].last})
           IN  /\ end \in (M + m)..(M + N)
               /\ \A i \in m..N : beta[i] = beta[m] => M + i <= end
               /\ beta[m] = beta[N] => end = M + N
<1> DEFINE T == GnuTables(other, def, hash, nb)
           beta == Beta(def, hash, nb)
           N == Len(def)
           M == Len(other)
           F == {i \in (M + m)..Len(T.dyn) : T.values[i - T.symndx + 1].last}
           E == {i \in m..N : Ends(beta, N, i)}
<1>1. /\ N \in Nat /\ M \in Nat
      /\ \A i \in 1..N : beta[i] \in 0..(nb - 1)
      /\ \A i, j \in 1..N : i < j => beta[i] <= beta[j]
      /\ T.symndx = 1 + M
      /\ \A i \in 1..N : T.values[i].last <=> Ends(beta, N, i)
      /\ nb \in Nat
  <2>1. nb \in Nat
    BY DEF Tables
  <2>2. N \in Nat /\ M \in Nat /\ T.symndx = 1 + M
    BY TablesAre
  <2>3. \A i \in 1..N : beta[i] \in 0..(nb - 1)
    BY TablesAre
  <2>4. \A i, j \in 1..N : i < j => beta[i] <= beta[j]
    BY TablesAre
  <2>5. \A i \in 1..N : T.values[i].last <=> Ends(beta, N, i)
    <3> HIDE DEF T, beta
    <3> QED BY TablesAre DEF T, beta
  <2> QED BY <2>1, <2>2, <2>3, <2>4, <2>5
<1>2. Len(T.dyn) = M + N
  <2>1. T.dyn = other \o def /\ other \in Seq(X) /\ def \in Seq(X)
    BY DEF Tables, GnuTables
  <2> HIDE DEF T
  <2> QED BY <2>1
<1> HIDE DEF T, beta
<1>3. \A i \in 1..N : beta[i] \in Nat
  BY <1>1
<1>4. /\ E \in SUBSET Nat /\ Min(E) \in E
      /\ \A i \in m..N : beta[i] = beta[m] => i <= Min(E)
      /\ beta[m] = beta[N] => Min(E) = N
  BY <1>1, <1>3, RunEnds
<1>5. F = {M + i : i \in E}
  <2>1. ASSUME NEW x \in F PROVE x \in {M + i : i \in E}
    <3>1. x \in (M + m)..(M + N) /\ T.values[x - (1 + M) + 1].last
      BY <1>1, <1>2
    <3>2. x - M \in m..N /\ x - M \in 1..N /\ x - (1 + M) + 1 = x - M /\ x = M + (x - M)
      BY <3>1, <1>1
    <3>3. Ends(beta, N, x - M)
      BY <3>1, <3>2, <1>1
    <3> QED BY <3>2, <3>3
  <2>2. ASSUME NEW i \in E PROVE M + i \in F
    <3>1. i \in m..N /\ i \in 1..N /\ T.values[i].last
      BY <1>1
    <3>2. M + i \in (M + m)..(M + N) /\ (M + i) - (1 + M) + 1 = i
      BY <3>1, <1>1
    <3> QED BY <3>1, <3>2, <1>1, <1>2
  <2> QED BY <2>1, <2>2
<1> DEFINE e == Min(E)
<1>6. Min(F) = M + e
  <2> HIDE DEF E, F
  <2> QED BY <1>1, <1>4, <1>5, ShiftMin
<1>7. e \in m..N
  BY <1>4
<1> HIDE DEF e, E, F
<1>8. \A i \in m..N : beta[i] = beta[m] => M + i <= M + e
  BY <1>4, <1>7, <1>1 DEF e
<1>9. Min(F) \in (M + m)..(M + N)
  BY <1>1, <1>6, <1>7
<1>10. beta[m] = beta[N] => Min(F) = M + N
  BY <1>4, <1>6 DEF e
<1>11. \A i \in m..N : beta[i] = beta[m] => M + i <= Min(F)
  BY <1>6, <1>8
<1> QED BY <1>9, <1>10, <1>11 DEF F, T, beta

TablesOf(X, l, other, def, hash, nb) ==
    /\ Tables(X, other, def, hash, nb)
    /\ l.dyn = other \o def /\ l.hash = hash /\ l.gnu = GnuTables(other, def, hash, nb)

(* A lookup finds what .dynsym has under the name, and nothing else.       *)
LEMMA GnuFound ==
    ASSUME NEW X, NEW l, NEW other, NEW def, NEW hash, NEW nb, TablesOf(X, l, other, def, hash, nb),
           NEW n \in Names
    PROVE  GnuFinds(l, n) = Values(l.dyn, n)
<1>. Tables(X, other, def, hash, nb) /\ l.dyn = other \o def /\ l.hash = hash
     /\ l.gnu = GnuTables(other, def, hash, nb)
  BY DEF TablesOf
<1> DEFINE T == GnuTables(other, def, hash, nb)
           beta == Beta(def, hash, nb)
           N == Len(def)
           M == Len(other)
           h == hash[n]
           b == h % nb
           B == Bucket(beta, b)
           m == Min(B)
<1>1. /\ N \in Nat /\ M \in Nat /\ DOMAIN def = 1..N
      /\ \A i \in 1..N : hash[def[i].name] \in Nat /\ beta[i] = hash[def[i].name] % nb
      /\ T.symndx = 1 + M
      /\ T.bloom = UNION {BloomBits(hash[def[i].name]) : i \in 1..N}
      /\ Cardinality(DOMAIN T.buckets) = nb
      /\ \A c \in 0..(nb - 1) : T.buckets[c] = IF Bucket(beta, c) = {} THEN 0
                                               ELSE 1 + M + Min(Bucket(beta, c)) - 1
      /\ \A i \in 1..N : T.values[i].h = hash[def[i].name] \div 2
  <2> HIDE DEF T, beta, B, b, h, m
  <2> QED BY TablesAre DEF T, beta
<1>2. nb \in Nat \ {0} /\ hash \in [Names -> Nat] /\ other \in Seq(X) /\ def \in Seq(X)
  BY DEF Tables
<1>3. h \in Nat /\ b \in 0..(nb - 1)
  BY <1>2
<1> DEFINE inB(i) == i \in 1..N /\ beta[i] = b
<1>4. \A i : i \in B <=> inB(i)
  BY <1>1 DEF Bucket, Beta
<1>5. T.dyn = other \o def
  BY DEF GnuTables
<1> DEFINE all == other \o def
<1>6. /\ Len(all) = M + N
      /\ \A a \in DOMAIN all : (a \in DOMAIN other /\ all[a] = other[a])
                                  \/ (a - M \in DOMAIN def /\ all[a] = def[a - M])
      /\ \A r \in DOMAIN def : r + M \in DOMAIN all /\ all[r + M] = def[r]
  <2> HIDE DEF T, beta, h, b, B, m
  <2> QED BY <1>2, ConcatIs
<1>7. \A i \in DOMAIN other : ~ is_defined(other[i])
  BY DEF Tables, Arranged
<1>8. \A i \in DOMAIN def : is_defined(def[i])
  BY DEF Tables, Arranged
<1> DEFINE first == T.buckets[b]
           end == Min({i \in first..Len(l.dyn) : T.values[i - T.symndx + 1].last})
           value(i) == T.values[i - T.symndx + 1]
<1>9. GnuFinds(l, n) = IF ~(BloomBits(h) \subseteq T.bloom) \/ first = 0 THEN {}
                       ELSE {l.dyn[i].value : i \in {x \in first..end :
                                value(x).h = h \div 2 /\ l.dyn[x].name = n}}
  <2>1. l.gnu = T /\ l.hash[n] = h /\ h % Cardinality(DOMAIN l.gnu.buckets) = b
    BY <1>1
  <2> HIDE DEF T, h, b
  <2> QED BY <2>1 DEF GnuFinds
<1> HIDE DEF T
<1>10. B # {} => /\ first = M + m /\ m \in B /\ \A i \in B : m <= i
  <2>1. ASSUME B # {} PROVE first = M + m /\ m \in B /\ \A i \in B : m <= i
    <3>1. m \in B /\ \A i \in B : m <= i
      <4>1. B \in SUBSET Nat
        BY <1>4
      <4> HIDE DEF B
      <4> QED BY <4>1, <2>1, MinIs
    <3>2. first = 1 + M + m - 1
      BY <2>1, <1>1, <1>3
    <3> HIDE DEF first, B, m
    <3>3. m \in Nat
      BY <3>1, <1>4
    <3> QED BY <3>1, <3>2, <3>3, <1>1
  <2> QED BY <2>1
<1>11. B = {} => first = 0
  BY <1>1, <1>3
<1>12. B # {} => /\ end \in (M + m)..(M + N)
                 /\ \A i \in m..N : beta[i] = beta[m] => M + i <= end
  <2>1. ASSUME B # {} PROVE /\ end \in (M + m)..(M + N)
                            /\ \A i \in m..N : beta[i] = beta[m] => M + i <= end
    <3>1. m \in 1..Len(def) /\ first = M + m
      BY <2>1, <1>10, <1>4
    <3>2. l.dyn = T.dyn
      BY <1>5
    <3> HIDE DEF m, first, B, h, b
    <3> QED BY <3>1, <3>2, RunOf DEF T
  <2> QED BY <2>1
<1> HIDE DEF end, first, m, beta, B
<1>13. ASSUME NEW v \in Values(l.dyn, n) PROVE v \in GnuFinds(l, n)
  <2>1. PICK a \in DOMAIN l.dyn : l.dyn[a].name = n /\ is_defined(l.dyn[a]) /\ v = l.dyn[a].value
    BY DEF Values
  <2>2. a - M \in DOMAIN def /\ all[a] = def[a - M]
    <3>1. l.dyn = all
      OBVIOUS
    <3> HIDE DEF all
    <3> QED BY <2>1, <3>1, <1>6, <1>7
  <2> DEFINE i == a - M
  <2>3. i \in 1..N /\ hash[def[i].name] = h /\ a \in Nat /\ a = M + i
    <3>1. a \in Nat
      BY <1>2, <2>1, ConcatIs
    <3> HIDE DEF all
    <3> QED BY <3>1, <2>1, <2>2, <1>1
  <2>4. i \in B
    <3> HIDE DEF i
    <3> QED BY <2>3, <1>1, <1>4
  <2>5. BloomBits(h) \subseteq T.bloom
    <3> HIDE DEF i
    <3> QED BY <2>3, <1>1
  <2>6. m \in 1..N /\ m <= i /\ beta[i] = beta[m] /\ first = M + m /\ first # 0
    <3> HIDE DEF i, b, h
    <3>1. m \in B /\ m <= i /\ first = M + m
      BY <2>4, <1>10
    <3>2. m \in 1..N /\ beta[m] = b /\ beta[i] = b
      BY <3>1, <2>4, <1>4
    <3> QED BY <3>1, <3>2, <1>1
  <2>7. a \in first..end
    <3>1. end \in (M + m)..(M + N) /\ M + i <= end
      <4> HIDE DEF i
      <4>1. i \in m..N /\ B # {}
        BY <2>3, <2>4, <2>6, <1>1
      <4> QED BY <4>1, <2>6, <1>12
    <3> HIDE DEF i
    <3> QED BY <3>1, <2>3, <2>6, <1>1
  <2>8. value(a).h = h \div 2
    <3>1. a - T.symndx + 1 = i
      BY <2>3, <1>1
    <3> HIDE DEF i
    <3> QED BY <3>1, <2>3, <1>1
  <2> QED BY <1>9, <2>1, <2>5, <2>6, <2>7, <2>8
<1>14. ASSUME NEW v \in GnuFinds(l, n) PROVE v \in Values(l.dyn, n)
  <2>1. first # 0
    BY <1>9
  <2>2. PICK a \in first..end : l.dyn[a].name = n /\ v = l.dyn[a].value
    BY <1>9
  <2>3. B # {}
    BY <2>1, <1>11
  <2>4. a - M \in DOMAIN def /\ a = (a - M) + M
    <3>1. end \in (M + m)..(M + N) /\ m \in 1..N /\ first = M + m
      <4> HIDE DEF b
      <4> QED BY <2>3, <1>10, <1>12, <1>4
    <3>2. a \in (M + m)..(M + N)
      BY <3>1, <1>1
    <3> HIDE DEF B
    <3> QED BY <3>1, <3>2, <1>1
  <2>5. a \in DOMAIN all /\ all[a] = def[a - M]
    <3> HIDE DEF all
    <3> QED BY <2>4, <1>6
  <2>6. is_defined(all[a])
    BY <2>4, <2>5, <1>8
  <2>7. l.dyn = all
    OBVIOUS
  <2> HIDE DEF all
  <2> QED BY <2>2, <2>5, <2>6, <2>7 DEF Values
<1> QED BY <1>13, <1>14

-----------------------------------------------------------------------------
(***************************************************************************)
(* A lookup in the SysV table.                                             *)
(***************************************************************************)
(* The indices up to n whose names fall into bucket b.                     *)
Mates(s, hash, b, n) == {i \in 1..n : hash[s[i].name] % (Len(s) + 1) = b}

LEMMA MatesMax ==
    ASSUME NEW s, NEW hash, NEW b, NEW n \in Nat
    PROVE  LET K == Mates(s, hash, b, n)
               top == Max(K \union {0})
           IN  /\ K \subseteq 1..n /\ top \in 0..n
               /\ K = {} => top = 0
               /\ K # {} => top \in K /\ K = Mates(s, hash, b, top)
<1> DEFINE K == Mates(s, hash, b, n)
           top == Max(K \union {0})
<1>1. K \subseteq 1..n
  BY DEF Mates
<1>2. IsFiniteSet(K \union {0}) /\ K \union {0} \in SUBSET Nat
  <2>1. IsFiniteSet(1..n)
    BY CountOff
  <2>2. IsFiniteSet(K)
    BY <2>1, <1>1, FS_Subset
  <2>3. IsFiniteSet(K \union {0})
    BY <2>2, FS_AddElement
  <2> QED BY <2>3, <1>1
<1>3. top \in K \union {0} /\ \A i \in K \union {0} : i <= top
  <2> HIDE DEF K
  <2> QED BY <1>2, MaxIs
<1> HIDE DEF top
<1>4. top \in 0..n
  BY <1>1, <1>3
<1>5. K = {} => top = 0
  BY <1>3
<1>6. ASSUME K # {} PROVE top \in K /\ K = Mates(s, hash, b, top)
  <2>1. PICK i \in K : i \in 1..n /\ i <= top
    BY <1>1, <1>3, <1>6
  <2>2. top # 0
    BY <2>1, <1>4
  <2>3. top \in K
    BY <2>2, <1>3
  <2>4. ASSUME NEW x PROVE x \in K <=> x \in Mates(s, hash, b, top)
    <3>1. x \in K => x \in 1..top
      BY <1>1, <1>3
    <3>2. x \in 1..top => x \in 1..n
      BY <1>4
    <3> QED BY <3>1, <3>2 DEF Mates
  <2> QED BY <2>3, <2>4
<1> QED BY <1>1, <1>4, <1>5, <1>6 DEF top

(* A walk along a chain meets the whole bucket.                            *)
LEMMA ChainIs ==
    ASSUME NEW X, \A x \in X : x.name \in Names,
           NEW s \in Seq(X), NEW hash \in [Names -> Nat],
           NEW b \in 0..Len(s)
    PROVE  LET v == regen_sysv_hash(s, hash)
           IN  /\ Len(v.chain) = Len(s) /\ Cardinality(DOMAIN v.bucket) = Len(s) + 1
               /\ Chain(v, v.bucket[b]) = Mates(s, hash, b, Len(s))
<1> DEFINE v == regen_sysv_hash(s, hash)
           n == Len(s)
           bkt(i) == hash[s[i].name] % (n + 1)
           c == v.chain
<1>0. ASSUME NEW bb, NEW j \in Nat
      PROVE  LET top == Max(Mates(s, hash, bb, j) \union {0}) IN
             /\ top \in 0..j
             /\ Mates(s, hash, bb, j) = {} => top = 0
             /\ Mates(s, hash, bb, j) # {} =>
                   top \in Mates(s, hash, bb, j) /\ Mates(s, hash, bb, j) = Mates(s, hash, bb, top)
  <2> HIDE DEF v, n, c
  <2> QED BY MatesMax
<1>1. n \in Nat /\ DOMAIN s = 1..n
  OBVIOUS
<1>2. c = [i \in 1..n |-> Max(Mates(s, hash, bkt(i), i - 1) \union {0})]
  BY DEF regen_sysv_hash, Mates
<1>3. v.bucket = [x \in 0..n |-> Max(Mates(s, hash, x, n) \union {0})]
  <2>1. v.bucket = [x \in 0..((n + 1) - 1) |-> Max(Mates(s, hash, x, n) \union {0})]
    BY DEF regen_sysv_hash, Mates
  <2>2. (n + 1) - 1 = n
    BY <1>1
  <2> HIDE DEF v, n
  <2> QED BY <2>1, <2>2
<1>4. Len(c) = n
  <2> HIDE DEF c, n
  <2>1. c = [i \in 1..n |-> c[i]]
    BY <1>2
  <2> QED BY <1>1, <2>1
<1>5. Cardinality(DOMAIN v.bucket) = n + 1
  <2>1. DOMAIN v.bucket = 0..n
    BY <1>3
  <2>2. Cardinality(0..n) = n - 0 + 1
    BY <1>1, FS_Interval
  <2> HIDE DEF v, n
  <2> QED BY <2>1, <2>2, <1>1
<1> HIDE DEF v, c
<1> DEFINE met == [i \in 0..n |-> IF i = 0 THEN {} ELSE Mates(s, hash, bkt(i), i)]
<1>6. ASSUME NEW i \in 1..n
      PROVE  /\ c[i] \in 0..(i - 1)
             /\ met[i] = {i} \union met[c[i]]
  <2> DEFINE b_i == bkt(i)
             K == Mates(s, hash, b_i, i - 1)
  <2>1. c[i] = Max(K \union {0}) /\ i - 1 \in Nat
    BY <1>2
  <2>2. /\ c[i] \in 0..(i - 1)
        /\ K = {} => c[i] = 0
        /\ K # {} => c[i] \in K /\ K = Mates(s, hash, b_i, c[i])
    <3> HIDE DEF b_i
    <3> QED BY <2>1, <1>0
  <2>3. met[i] = {i} \union K
    <3>1. met[i] = Mates(s, hash, bkt(i), i)
      BY <1>1
    <3>2. ASSUME NEW x PROVE x \in Mates(s, hash, bkt(i), i) <=> x = i \/ x \in K
      <4>1. x \in 1..i <=> x = i \/ x \in 1..(i - 1)
        BY <1>1
      <4>2. x = i => hash[s[x].name] % (Len(s) + 1) = bkt(i)
        OBVIOUS
      <4> QED BY <4>1, <4>2 DEF Mates
    <3> HIDE DEF met
    <3> QED BY <3>1, <3>2
  <2>4. met[c[i]] = K
    <3>1. CASE K = {}
      <4>1. c[i] = 0 /\ met[0] = {}
        <5>1. met[0] = {}
          BY <1>1
        <5> HIDE DEF met, K
        <5> QED BY <5>1, <3>1, <2>2
      <4> HIDE DEF met, K
      <4> QED BY <4>1, <3>1
    <3>2. CASE K # {}
      <4>1. c[i] \in K /\ c[i] \in 0..n /\ c[i] # 0
        <5>1. \A x \in K : x # 0
          BY <2>1 DEF Mates
        <5> HIDE DEF K
        <5> QED BY <5>1, <3>2, <2>2, <1>1
      <4>2. bkt(c[i]) = bkt(i)
        BY <4>1 DEF Mates
      <4>3. met[c[i]] = Mates(s, hash, bkt(c[i]), c[i])
        BY <4>1
      <4> HIDE DEF met, K
      <4> QED BY <4>2, <4>3, <3>2, <2>2
    <3> QED BY <3>1, <3>2
  <2> HIDE DEF met, K
  <2> QED BY <2>2, <2>3, <2>4
<1> DEFINE walk == CHOOSE f : f = [i \in 0..n |-> IF i = 0 THEN {} ELSE {i} \union f[c[i]]]
<1>7. met = [i \in 0..n |-> IF i = 0 THEN {} ELSE {i} \union met[c[i]]]
  <2>1. \A i \in 0..n : met[i] = IF i = 0 THEN {} ELSE {i} \union met[c[i]]
    <3>1. met[0] = {}
      BY <1>1
    <3>2. ASSUME NEW i \in 0..n, i # 0 PROVE met[i] = {i} \union met[c[i]]
      <4>1. i \in 1..n
        BY <3>2
      <4> HIDE DEF met
      <4> QED BY <4>1, <1>6
    <3> HIDE DEF met
    <3> QED BY <3>1, <3>2
  <2>2. DOMAIN met = 0..n
    OBVIOUS
  <2>3. met = [i \in 0..n |-> met[i]]
    OBVIOUS
  <2> HIDE DEF met
  <2> QED BY <2>1, <2>3
<1> HIDE DEF met
<1>8. walk = [i \in 0..n |-> IF i = 0 THEN {} ELSE {i} \union walk[c[i]]]
  BY <1>7
<1>9. \A x : Chain(v, x) = walk[x]
  BY <1>4 DEF Chain, c
<1> HIDE DEF walk
<1>10. \A i \in 0..n : walk[i] = met[i]
  <2> DEFINE Bad == {i \in 0..n : walk[i] # met[i]}
  <2>1. SUFFICES ASSUME Bad # {} PROVE FALSE
    OBVIOUS
  <2>2. PICK i \in Bad : \A j \in Bad : i <= j
    <3>1. Bad \in SUBSET Nat
      BY <1>1
    <3> HIDE DEF Bad
    <3> QED BY <3>1, <2>1, LeastNumber
  <2>3. i \in 0..n /\ walk[i] # met[i]
    OBVIOUS
  <2>4. i # 0
    <3>1. 0 \in 0..n
      BY <1>1
    <3>2. walk[0] = {} /\ met[0] = {}
      BY <3>1, <1>7, <1>8
    <3> QED BY <2>3, <3>2
  <2>5. i \in 1..n
    BY <2>3, <2>4
  <2>6. walk[i] = {i} \union walk[c[i]]
    BY <2>3, <2>4, <1>8
  <2>7. c[i] \in 0..n /\ c[i] < i /\ met[i] = {i} \union met[c[i]]
    BY <1>6, <2>5, <1>1
  <2>8. c[i] \notin Bad
    <3> HIDE DEF Bad
    <3> QED BY <2>2, <2>3, <2>7
  <2> QED BY <2>3, <2>6, <2>7, <2>8
<1>11. Chain(v, v.bucket[b]) = Mates(s, hash, b, n)
  <2> DEFINE K == Mates(s, hash, b, n)
             top == Max(K \union {0})
  <2>1. v.bucket[b] = top
    BY <1>3
  <2>2. /\ top \in 0..n
        /\ K = {} => top = 0
        /\ K # {} => top \in K /\ K = Mates(s, hash, b, top)
    BY <1>1, MatesMax
  <2>3. met[top] = K
    <3>1. CASE K = {}
      <4>1. top = 0
        BY <3>1, <2>2
      <4> HIDE DEF top
      <4> QED BY <4>1, <3>1, <1>1 DEF met
    <3>2. CASE K # {}
      <4>1. top \in K /\ K = Mates(s, hash, b, top) /\ top \in 0..n
        BY <3>2, <2>2
      <4> HIDE DEF top
      <4>2. top # 0 /\ bkt(top) = b
        BY <4>1 DEF Mates
      <4>3. met[top] = Mates(s, hash, bkt(top), top)
        BY <4>1, <4>2 DEF met
      <4> HIDE DEF K
      <4> QED BY <4>1, <4>2, <4>3
    <3> QED BY <3>1, <3>2
  <2> HIDE DEF top, K
  <2>4. Chain(v, v.bucket[b]) = K
    BY <2>1, <2>2, <2>3, <1>9, <1>10
  <2> QED BY <2>4 DEF K
<1> QED BY <1>4, <1>5, <1>11 DEF v, c

LEMMA SysvFound ==
    ASSUME NEW X, \A x \in X : x.name \in Names,
           NEW hash \in [Names -> Nat],
           NEW l, l.dyn \in Seq(X), l.hash = hash, l.sysv = regen_sysv_hash(l.dyn, hash),
           NEW n \in Names
    PROVE  SysvFinds(l, n) = Values(l.dyn, n)
<1> DEFINE s == l.dyn
           N == Len(s)
           h == hash[n] % (N + 1)
<1>1. N \in Nat /\ DOMAIN s = 1..N /\ hash[n] \in Nat
  OBVIOUS
<1>2. h \in 0..N
  BY <1>1
<1> DEFINE v == regen_sysv_hash(s, hash)
<1>3. Cardinality(DOMAIN v.bucket) = N + 1 /\ Chain(v, v.bucket[h]) = Mates(s, hash, h, N)
  <2> HIDE DEF h
  <2> QED BY <1>2, ChainIs
<1> HIDE DEF v
<1>4. l.sysv = v
  BY DEF v
<1>5. SysvFinds(l, n) = {s[i].value : i \in {k_1 \in Mates(s, hash, h, N) : s[k_1].name = n /\ is_defined(s[k_1])}}
  <2>1. l.hash[n] % Cardinality(DOMAIN l.sysv.bucket) = h
    BY <1>3, <1>4
  <2> HIDE DEF h, N
  <2> QED BY <2>1, <1>3, <1>4 DEF SysvFinds
<1>6. ASSUME NEW i \in DOMAIN s, s[i].name = n PROVE i \in Mates(s, hash, h, N)
  BY <1>1, <1>6 DEF Mates
<1>7. Mates(s, hash, h, N) \subseteq DOMAIN s
  BY <1>1 DEF Mates
<1> HIDE DEF h, N, s
<1> QED BY <1>5, <1>6, <1>7 DEF Values, s

-----------------------------------------------------------------------------
(***************************************************************************)
(* The scan of .dynsym.                                                    *)
(***************************************************************************)
(* The walk of the last chain counts every symbol, if one is defined.      *)
LEMMA GnuCount ==
    ASSUME NEW X, NEW l, NEW other, NEW def, NEW hash, NEW nb, TablesOf(X, l, other, def, hash, nb)
    PROVE  SymbolCount(l, "gnu_hash") = IF Len(def) = 0 THEN 0 ELSE Len(other) + Len(def) + 1
<1>. Tables(X, other, def, hash, nb) /\ l.dyn = other \o def /\ l.gnu = GnuTables(other, def, hash, nb)
  BY DEF TablesOf
<1> DEFINE T == GnuTables(other, def, hash, nb)
           beta == Beta(def, hash, nb)
           N == Len(def)
           M == Len(other)
           last == Max(Range(T.buckets))
           end == Min({i \in last..Len(l.dyn) : T.values[i - T.symndx + 1].last})
           First(c) == IF Bucket(beta, c) = {} THEN 0 ELSE 1 + M + Min(Bucket(beta, c)) - 1
<1>1. /\ N \in Nat /\ M \in Nat /\ DOMAIN def = 1..N
      /\ T.symndx = 1 + M
      /\ DOMAIN T.buckets = 0..(nb - 1)
      /\ \A c \in 0..(nb - 1) : T.buckets[c] = First(c)
  <2> HIDE DEF T, beta
  <2> QED BY TablesAre DEF T, beta
<1>2. /\ \A i \in 1..N : beta[i] \in 0..(nb - 1)
      /\ \A i, j \in 1..N : i < j => beta[i] <= beta[j]
  BY TablesAre
<1>3. nb \in Nat \ {0} /\ DOMAIN beta = 1..N
  BY <1>1 DEF Tables, Beta
<1>4. l.dyn = T.dyn
  BY DEF GnuTables
<1>5. SymbolCount(l, "gnu_hash") = IF last < T.symndx THEN 0 ELSE end + 1
  <2>1. l.gnu = T
    OBVIOUS
  <2> HIDE DEF T
  <2> QED BY <2>1 DEF SymbolCount
<1> HIDE DEF T, beta
<1>6. Range(T.buckets) = {First(c) : c \in 0..(nb - 1)}
  BY <1>1 DEF Range
<1>7. ASSUME NEW c \in 0..(nb - 1), Bucket(beta, c) # {}
      PROVE  Min(Bucket(beta, c)) \in 1..N /\ beta[Min(Bucket(beta, c))] = c /\ First(c) = M + Min(Bucket(beta, c))
  <2>1. Bucket(beta, c) \in SUBSET Nat
    BY <1>3 DEF Bucket
  <2>2. Min(Bucket(beta, c)) \in Bucket(beta, c)
    BY <2>1, <1>7, MinIs
  <2>3. Min(Bucket(beta, c)) \in 1..N /\ beta[Min(Bucket(beta, c))] = c
    BY <2>2, <1>3 DEF Bucket
  <2>4. First(c) = 1 + M + Min(Bucket(beta, c)) - 1
    BY <1>7
  <2> HIDE DEF First
  <2> QED BY <2>3, <2>4, <1>1
<1>8. \A c \in 0..(nb - 1) : First(c) \in Nat
  <2> SUFFICES ASSUME NEW c \in 0..(nb - 1) PROVE First(c) \in Nat
    OBVIOUS
  <2>1. CASE Bucket(beta, c) = {}
    BY <2>1
  <2>2. CASE Bucket(beta, c) # {}
    BY <2>2, <1>7, <1>1
  <2> QED BY <2>1, <2>2
<1>9. last \in Range(T.buckets) /\ \A x \in Range(T.buckets) : x <= last
  <2>1. IsFiniteSet(Range(T.buckets))
    <3>1. IsFiniteSet(0..(nb - 1))
      BY <1>3, FS_Interval
    <3> DEFINE f == [c \in 0..(nb - 1) |-> First(c)]
    <3>2. Range(T.buckets) = {f[c] : c \in 0..(nb - 1)} /\ f \in [0..(nb - 1) -> {f[c] : c \in 0..(nb - 1)}]
      BY <1>6
    <3> HIDE DEF f
    <3> DEFINE S == 0..(nb - 1)
    <3>3. IsFiniteSet(S) /\ f \in [S -> {f[c] : c \in S}]
      BY <3>1, <3>2
    <3>4. IsFiniteSet({f[c] : c \in S})
      <4> HIDE DEF S
      <4> QED BY <3>3, FiniteImage
    <3> QED BY <3>2, <3>4
  <2>2. Range(T.buckets) \in SUBSET Nat /\ Range(T.buckets) # {}
    <3>1. 0 \in 0..(nb - 1)
      BY <1>3
    <3> QED BY <3>1, <1>6, <1>8
  <2> QED BY <2>1, <2>2, MaxIs
<1> HIDE DEF last
<1>10. PICK c \in 0..(nb - 1) : last = First(c)
  BY <1>6, <1>9
<1>11. CASE N = 0
  <2>1. Bucket(beta, c) = {}
    BY <1>11, <1>3 DEF Bucket
  <2>2. last = 0
    BY <2>1, <1>10
  <2> QED BY <2>2, <1>1, <1>5, <1>11
<1>12. CASE N # 0
  <2>1. N \in 1..N /\ beta[N] \in 0..(nb - 1) /\ N \in Bucket(beta, beta[N])
    BY <1>1, <1>2, <1>3, <1>12 DEF Bucket
  <2> DEFINE m0 == Min(Bucket(beta, beta[N]))
  <2>2. m0 \in 1..N /\ beta[m0] = beta[N] /\ First(beta[N]) = M + m0
    <3> HIDE DEF First
    <3> QED BY <2>1, <1>7
  <2>3. M + m0 <= last
    <3> HIDE DEF First, m0
    <3>1. M + m0 \in Range(T.buckets)
      BY <2>1, <2>2, <1>6
    <3> QED BY <3>1, <1>9
  <2>4. Bucket(beta, c) # {}
    <3> HIDE DEF m0
    <3>1. last # 0
      BY <2>2, <2>3, <1>1
    <3> QED BY <3>1, <1>10
  <2> DEFINE m == Min(Bucket(beta, c))
  <2>5. m \in 1..N /\ beta[m] = c /\ last = M + m
    <3> HIDE DEF First
    <3> QED BY <2>4, <1>7, <1>10
  <2> HIDE DEF m, m0, First
  <2>6. beta[m] = beta[N]
    <3>1. m0 <= m /\ m <= N /\ m0 \in Nat /\ m \in Nat
      BY <2>2, <2>3, <2>5, <1>1
    <3>2. beta[m0] <= beta[m]
      <4>1. m0 = m \/ m0 < m
        BY <3>1
      <4>2. beta[m] \in Nat
        BY <2>5
      <4> QED BY <4>1, <4>2, <2>2, <2>5, <1>2
    <3>3. beta[m] <= beta[N]
      <4>1. m = N \/ m < N
        BY <3>1, <1>1
      <4>2. beta[m] \in Nat
        BY <2>5
      <4> QED BY <4>1, <4>2, <2>1, <2>5, <1>2
    <3> QED BY <3>2, <3>3, <2>1, <2>2, <2>5
  <2>7. end = M + N
    <3>1. m \in 1..Len(def)
      BY <2>5
    <3>2. end = Min({i \in (M + m)..Len(T.dyn) : T.values[i - T.symndx + 1].last})
      BY <2>5, <1>4
    <3> HIDE DEF end
    <3> QED BY <3>1, <3>2, <2>6, RunOf DEF T, beta
  <2>8. ~ (last < T.symndx)
    BY <2>5, <1>1
  <2> HIDE DEF end
  <2> QED BY <2>7, <2>8, <1>5, <1>12
<1> QED BY <1>11, <1>12

(* The first symbol of a name that is not zero is the one that is defined. *)
LEMMA ScanFound ==
    ASSUME NEW X, \A x \in X : x.value \in Nat /\ (is_defined(x) <=> x.value # 0),
           NEW l, l.dyn \in Seq(X), Distinct(l.dyn), NEW table, NEW n,
           \/ SymbolCount(l, table) = Len(l.dyn) + 1
           \/ SymbolCount(l, table) = 0 /\ \A i \in DOMAIN l.dyn : ~ is_defined(l.dyn[i])
    PROVE  {elf_dynsym(l, table, n)} \ {None} = Values(l.dyn, n)
<1> DEFINE s == l.dyn
           N == Len(s)
           C == SymbolCount(l, table) - 1
           H == {i \in 1..C : s[i].value # 0 /\ s[i].name = n}
           D == {i \in DOMAIN s : s[i].name = n /\ is_defined(s[i])}
<1>1. N \in Nat /\ DOMAIN s = 1..N /\ \A i \in 1..N : s[i] \in X
  OBVIOUS
<1>2. None \notin Nat
  BY TablesAssumption
<1>3. H = D
  <2>1. CASE SymbolCount(l, table) = Len(l.dyn) + 1
    <3>1. C = N
      BY <2>1, <1>1
    <3> HIDE DEF C, N, s
    <3> QED BY <3>1, <1>1
  <2>2. CASE SymbolCount(l, table) = 0 /\ \A i \in DOMAIN l.dyn : ~ is_defined(l.dyn[i])
    <3>1. C = -1
      BY <2>2
    <3>2. 1..C = {}
      <4> HIDE DEF C
      <4> QED BY <3>1
    <3> HIDE DEF C
    <3> QED BY <2>2, <3>2
  <2> QED BY <2>1, <2>2
<1>4. elf_dynsym(l, table, n) = IF H = {} THEN None ELSE s[Min(H)].value
  BY DEF elf_dynsym
<1>5. Values(l.dyn, n) = {s[i].value : i \in D}
  BY DEF Values
<1>6. \A i, j \in D : i = j
  BY DEF Distinct
<1> HIDE DEF H
<1>7. CASE D = {}
  BY <1>3, <1>4, <1>5, <1>7
<1>8. CASE D # {}
  <2>1. D \in SUBSET Nat
    BY <1>1
  <2>2. Min(D) \in D
    <3> HIDE DEF D
    <3> QED BY <2>1, <1>8, MinIs
  <2>3. s[Min(D)].value \in Nat
    <3> HIDE DEF s
    <3>1. Min(D) \in 1..N
      BY <2>2, <1>1
    <3> HIDE DEF D
    <3> QED BY <3>1, <1>1
  <2>4. Values(l.dyn, n) = {s[Min(D)].value}
    <3> HIDE DEF D, s
    <3> QED BY <2>2, <1>5, <1>6
  <2> HIDE DEF D, s
  <2> QED BY <2>3, <2>4, <1>2, <1>3, <1>4, <1>8
<1> QED BY <1>7, <1>8

(* Every reader of a library whose tables are those of its .dynsym finds   *)
(* what is there.                                                          *)
Described(l, X) ==
    /\ l.hash \in [Names -> Nat]
    /\ \E d \in Seq(X) : l.gnu = regen_gnu_hash(d, l.hash) /\ Distinct(d)
    /\ l.dyn = l.gnu.dyn
    /\ l.sysv = regen_sysv_hash(l.dyn, l.hash)

LEMMA ReadersOf ==
    ASSUME NEW X, NEW l, Described(l, X),
           \A x \in X : /\ ~ is_local(x) /\ x.name \in Names
                        /\ x.value \in Nat /\ (is_defined(x) <=> x.value # 0),
           NEW n \in Names
    PROVE  /\ GnuFinds(l, n) = Values(l.dyn, n)
           /\ SysvFinds(l, n) = Values(l.dyn, n)
           /\ \A table \in {"hash", "gnu_hash"} : {elf_dynsym(l, table, n)} \ {None} = Values(l.dyn, n)
<1>1. PICK hash \in [Names -> Nat] : hash = l.hash
  BY DEF Described
<1>2. PICK d \in Seq(X) : l.gnu = regen_gnu_hash(d, hash) /\ Distinct(d)
  BY <1>1 DEF Described
<1>3. PICK other, def \in Seq(X), nb \in Nat \ {0} :
         /\ regen_gnu_hash(d, hash) = GnuTables(other, def, hash, nb)
         /\ Arranged(other, def, hash, nb)
         /\ Distinct(d) => Distinct(other \o def)
  BY RegenIs
<1>4. Tables(X, other, def, hash, nb)
  BY <1>3 DEF Tables
<1>5. l.dyn = other \o def /\ l.gnu = GnuTables(other, def, hash, nb) /\ l.sysv = regen_sysv_hash(l.dyn, hash)
  <2>1. GnuTables(other, def, hash, nb).dyn = other \o def
    BY DEF GnuTables
  <2>2. l.dyn = l.gnu.dyn /\ l.sysv = regen_sysv_hash(l.dyn, hash)
    BY <1>1 DEF Described
  <2> QED BY <2>1, <2>2, <1>2, <1>3
<1>6. TablesOf(X, l, other, def, hash, nb)
  BY <1>1, <1>4, <1>5 DEF TablesOf
<1>7. GnuFinds(l, n) = Values(l.dyn, n)
  BY <1>6, GnuFound
<1>8. /\ Len(l.dyn) = Len(other) + Len(def) /\ Len(other) \in Nat /\ Len(def) \in Nat
      /\ \A a \in DOMAIN l.dyn : \/ a \in DOMAIN other /\ l.dyn[a] = other[a]
                                 \/ a - Len(other) \in DOMAIN def /\ l.dyn[a] = def[a - Len(other)]
      /\ l.dyn \in Seq(X)
  BY <1>5, ConcatIs
<1>9. SysvFinds(l, n) = Values(l.dyn, n)
  BY <1>1, <1>5, <1>8, SysvFound
<1>10. SymbolCount(l, "hash") = Len(l.dyn) + 1
  <2> DEFINE s == l.dyn
  <2>1. s \in Seq(X) /\ 0 \in 0..Len(s)
    BY <1>8
  <2> HIDE DEF s
  <2>2. Len(regen_sysv_hash(s, hash).chain) = Len(s)
    BY <2>1, ChainIs
  <2> QED BY <2>2, <1>5 DEF SymbolCount, s
<1>11. \/ SymbolCount(l, "gnu_hash") = Len(l.dyn) + 1
       \/ SymbolCount(l, "gnu_hash") = 0 /\ \A i \in DOMAIN l.dyn : ~ is_defined(l.dyn[i])
  <2>1. SymbolCount(l, "gnu_hash") = IF Len(def) = 0 THEN 0 ELSE Len(other) + Len(def) + 1
    BY <1>6, GnuCount
  <2>2. CASE Len(def) # 0
    BY <2>1, <2>2, <1>8
  <2>3. CASE Len(def) = 0
    <3>1. \A i \in DOMAIN other : ~ is_defined(other[i])
      BY <1>3 DEF Arranged
    <3>2. DOMAIN def = {}
      BY <2>3
    <3> QED BY <2>1, <2>3, <3>1, <3>2, <1>8
  <2> QED BY <2>2, <2>3
<1>12. Distinct(l.dyn)
  BY <1>2, <1>3, <1>5
<1>13. ASSUME NEW table \in {"hash", "gnu_hash"} PROVE {elf_dynsym(l, table, n)} \ {None} = Values(l.dyn, n)
  <2>1. \A x \in X : x.value \in Nat /\ (is_defined(x) <=> x.value # 0)
    OBVIOUS
  <2>2. \/ SymbolCount(l, table) = Len(l.dyn) + 1
        \/ SymbolCount(l, table) = 0 /\ \A i \in DOMAIN l.dyn : ~ is_defined(l.dyn[i])
    BY <1>10, <1>11
  <2>3. l.dyn \in Seq(X) /\ Distinct(l.dyn)
    BY <1>8, <1>12
  <2> QED BY <2>1, <2>2, <2>3, ScanFound
<1> QED
  BY <1>7, <1>9, <1>13

-----------------------------------------------------------------------------
(***************************************************************************)
(* The symbols of a library.                                               *)
(***************************************************************************)
(* The functions in some order, each once.                                 *)
LEMMA OrderIs ==
    LET n == Cardinality(Funcs) IN
    /\ n \in Nat /\ Order \in [1..n -> Funcs] /\ DOMAIN Order = 1..n
    /\ \A i, j \in 1..n : Order[i] = Order[j] => i = j
    /\ \A f \in Funcs : \E i \in 1..n : Order[i] = f
<1> DEFINE n == Cardinality(Funcs)
<1>1. IsFiniteSet(Funcs) /\ n \in Nat /\ ExistsBijection(1..n, Funcs)
  <2>1. IsFiniteSet(Funcs)
    BY TablesAssumption
  <2> QED BY <2>1, FS_CardinalityType
<1>2. Order = CHOOSE f \in [1..n -> Funcs] : IsInjective(f)
  BY DEF Order, SetToSeq
<1>3. \E f \in [1..n -> Funcs] : IsInjective(f)
  <2>1. PICK f \in Bijection(1..n, Funcs) : TRUE
    BY <1>1 DEF ExistsBijection
  <2>2. f \in [1..n -> Funcs] /\ IsInjective(f)
    BY DEF Bijection, Injection
  <2> QED BY <2>2
<1>4. Order \in [1..n -> Funcs] /\ IsInjective(Order)
  <2> HIDE DEF n
  <2> QED BY <1>2, <1>3
<1>5. Order \in Surjection(1..n, Funcs)
  <2>1. Order \in Injection(1..n, Funcs)
    BY <1>4 DEF Injection
  <2>2. Cardinality(1..n) = n
    BY <1>1, CountOff
  <2> QED BY <1>1, <2>1, <2>2, FS_Injection
<1> QED BY <1>1, <1>4, <1>5 DEF IsInjective, Surjection

LEMMA AddressIs == ASSUME NEW f \in Funcs PROVE Address(f) \in Nat /\ Address(f) # 0
<1> DEFINE j == CHOOSE i \in DOMAIN Order : Order[i] = f
<1>1. j \in DOMAIN Order
  BY OrderIs
<1>2. j \in Nat
  BY <1>1, OrderIs
<1> HIDE DEF j
<1> QED BY <1>2 DEF Address, j

Alias(f) == <<".dyninst.", f>>

(* What a declared function and its alias are.                             *)
LEMMA Declarations ==
    ASSUME NEW kind \in Kinds, NEW f \in Funcs
    PROVE  LET s == Declared(kind, f)
               a == object_alias(s)
               d == kind[f] # "undefined"
           IN  /\ s.name = <<f>> /\ s.type = "FUNC" /\ (is_local(s) <=> kind[f] = "static")
               /\ a.name = Alias(f) /\ a.type = "OBJECT" /\ a.bind = "GLOBAL" /\ ~ is_local(a)
               /\ s.name \in Names /\ a.name \in Names /\ Prefixed(s.name) = Alias(f)
               /\ is_defined(s) <=> d
               /\ is_defined(a) <=> d
               /\ s.value \in Nat /\ a.value = s.value
               /\ d <=> s.value # 0
               /\ d => s.value = Address(f)
<1> DEFINE s == Declared(kind, f)
           a == object_alias(s)
<1>1. /\ s.name = <<f>> /\ s.type = "FUNC"
      /\ s.bind = (IF kind[f] = "static" THEN "LOCAL" ELSE "GLOBAL")
      /\ s.section = (IF kind[f] = "undefined" THEN None ELSE ".text")
      /\ s.value = (IF kind[f] = "undefined" THEN 0 ELSE Address(f))
  BY DEF Declared
<1>2. /\ a.name = Prefixed(s.name) /\ a.type = "OBJECT" /\ a.bind = "GLOBAL"
      /\ a.section = s.section /\ a.value = s.value
  BY DEF object_alias
<1>3. Prefixed(<<f>>) = Alias(f)
  <2> DEFINE p == ".dyninst."
  <2>1. <<p>> \o <<f>> = <<p, f>>
    <3> HIDE DEF p
    <3>1. <<p>> \in Seq({p, f}) /\ <<f>> \in Seq({p, f})
      OBVIOUS
    <3>2. /\ <<p>> \o <<f>> \in Seq({p, f}) /\ Len(<<p>> \o <<f>>) = 2
          /\ (<<p>> \o <<f>>)[1] = p /\ (<<p>> \o <<f>>)[2] = f
      BY <3>1
    <3>3. <<p, f>> \in Seq({p, f}) /\ Len(<<p, f>>) = 2 /\ <<p, f>>[1] = p /\ <<p, f>>[2] = f
      OBVIOUS
    <3> DEFINE u == <<p>> \o <<f>>
               v == <<p, f>>
               Z == {p, f}
    <3>4. u \in Seq(Z) /\ v \in Seq(Z) /\ Len(u) = 2 /\ Len(v) = 2 /\ u[1] = v[1] /\ u[2] = v[2]
      BY <3>2, <3>3
    <3> HIDE DEF u, v, Z
    <3>5. \A i \in 1..Len(u) : u[i] = v[i]
      BY <3>4
    <3>6. u = v
      BY <3>4, <3>5, SeqEqual
    <3> QED BY <3>6 DEF u, v
  <2> QED BY <2>1 DEF Prefixed, Alias
<1>4. <<f>> \in Names /\ Prefixed(<<f>>) \in Names
  BY DEF Names
<1>5. None # ".text"
  BY TablesAssumption
<1>6. Address(f) \in Nat /\ Address(f) # 0
  BY AddressIs
<1> HIDE DEF s, a
<1>7. is_local(s) <=> kind[f] = "static"
  BY <1>1 DEF is_local
<1>8. ~ is_local(a)
  BY <1>2 DEF is_local
<1>9. (is_defined(s) <=> kind[f] # "undefined") /\ (is_defined(a) <=> kind[f] # "undefined")
  BY <1>1, <1>2, <1>5 DEF is_defined
<1> QED BY <1>1, <1>2, <1>3, <1>4, <1>6, <1>7, <1>8, <1>9 DEF s, a

Joined(s, t, all, X) ==
    /\ all \in Seq(X) /\ Len(all) = Len(s) + Len(t)
    /\ \A a \in DOMAIN all : (a \in DOMAIN s /\ all[a] = s[a])
                              \/ (a - Len(s) \in DOMAIN t /\ all[a] = t[a - Len(s)])
    /\ \A a \in DOMAIN all : a \in Nat
    /\ Len(s) \in Nat /\ Len(t) \in Nat
    /\ \A r \in DOMAIN s : r \in DOMAIN all /\ all[r] = s[r]
    /\ \A r \in DOMAIN t : r + Len(s) \in DOMAIN all /\ all[r + Len(s)] = t[r]

LEMMA Concatenated == ASSUME NEW X, NEW s \in Seq(X), NEW t \in Seq(X) PROVE Joined(s, t, s \o t, X)
BY ConcatIs DEF Joined

(* Aliases are added to what is there, each name once.                     *)
Extended(r, symbols, funcs, Y) ==
    /\ r \in Seq(Y)
    /\ \A i \in DOMAIN symbols : \E j \in DOMAIN r : r[j] = symbols[i]
    /\ \A i \in DOMAIN funcs : Prefixed(funcs[i].name) \in Named(r)
    /\ /\ Distinct(symbols)
       /\ \A i, j \in DOMAIN funcs : Prefixed(funcs[i].name) = Prefixed(funcs[j].name) => i = j
       => Distinct(r)
    /\ ~ (Len(r) > Len(symbols)) => r = symbols

LEMMA AliasesAdded ==
    ASSUME NEW X, NEW symbols \in Seq(X), NEW F, NEW funcs \in Seq(F)
    PROVE  Extended(add_aliases(symbols, funcs), symbols, funcs, X \union {object_alias(x) : x \in F})
<1> DEFINE I == {i \in DOMAIN funcs : Prefixed(funcs[i].name) \notin Named(symbols)}
           new == Kept(funcs, I)
           more == [i \in DOMAIN new |-> object_alias(new[i])]
           Y == X \union {object_alias(x) : x \in F}
           r == add_aliases(symbols, funcs)
<1>1. r = symbols \o more
  BY DEF add_aliases
<1>2. I \in SUBSET DOMAIN funcs
  OBVIOUS
<1>3. /\ new \in Seq(F)
      /\ \A q \in DOMAIN new : \E i \in I : new[q] = funcs[i]
      /\ \A i \in I : \E q \in DOMAIN new : new[q] = funcs[i]
  <2> HIDE DEF I
  <2> QED BY <1>2, KeptRange
<1>4. \A q, t \in DOMAIN new : q < t => \E i, j \in I : i < j /\ new[q] = funcs[i] /\ new[t] = funcs[j]
  <2> HIDE DEF I
  <2> QED BY <1>2, KeptApart
<1>5. \A i \in I : i \in DOMAIN funcs /\ i \in Nat /\ Prefixed(funcs[i].name) \notin Named(symbols)
  OBVIOUS
<1>6. \A i \in DOMAIN funcs : i \in I \/ Prefixed(funcs[i].name) \in Named(symbols)
  OBVIOUS
<1> HIDE DEF I, new
<1>7. DOMAIN new = 1..Len(new) /\ Len(new) \in Nat /\ \A i \in DOMAIN new : new[i] \in F
  BY <1>3
<1>8. more \in Seq(Y) /\ symbols \in Seq(Y) /\ DOMAIN more = DOMAIN new /\ Len(more) = Len(new)
  <2>1. more \in [1..Len(new) -> Y]
    BY <1>7
  <2>2. symbols \in Seq(Y)
    <3>1. \A i \in DOMAIN symbols : symbols[i] \in Y
      OBVIOUS
    <3>2. symbols = [i \in 1..Len(symbols) |-> symbols[i]] /\ DOMAIN symbols = 1..Len(symbols) /\ Len(symbols) \in Nat
      OBVIOUS
    <3> HIDE DEF Y
    <3> QED BY <3>1, <3>2
  <2>3. DOMAIN more = DOMAIN new
    OBVIOUS
  <2> HIDE DEF more, Y
  <2> QED BY <2>1, <2>2, <2>3, <1>7
<1>9. ASSUME NEW i \in DOMAIN more PROVE more[i].name = Prefixed(new[i].name)
  BY <1>9 DEF object_alias
<1> HIDE DEF more, Y, r
<1>10. /\ r \in Seq(Y) /\ Len(r) = Len(symbols) + Len(more)
       /\ \A a \in DOMAIN r : (a \in DOMAIN symbols /\ r[a] = symbols[a])
                                \/ (a - Len(symbols) \in DOMAIN more /\ r[a] = more[a - Len(symbols)])
       /\ \A a \in DOMAIN r : a \in Nat
       /\ Len(symbols) \in Nat /\ Len(more) \in Nat
       /\ \A q \in DOMAIN symbols : q \in DOMAIN r /\ r[q] = symbols[q]
       /\ \A q \in DOMAIN more : q + Len(symbols) \in DOMAIN r /\ r[q + Len(symbols)] = more[q]
  <2> DEFINE all == symbols \o more
  <2>1. /\ all \in Seq(Y) /\ Len(all) = Len(symbols) + Len(more)
        /\ \A a \in DOMAIN all : (a \in DOMAIN symbols /\ all[a] = symbols[a])
                                 \/ (a - Len(symbols) \in DOMAIN more /\ all[a] = more[a - Len(symbols)])
        /\ \A a \in DOMAIN all : a \in Nat
        /\ Len(symbols) \in Nat /\ Len(more) \in Nat
        /\ \A q \in DOMAIN symbols : q \in DOMAIN all /\ all[q] = symbols[q]
        /\ \A q \in DOMAIN more : q + Len(symbols) \in DOMAIN all /\ all[q + Len(symbols)] = more[q]
    <3>1. more \in Seq(Y) /\ symbols \in Seq(Y)
      BY <1>8
    <3>2. Joined(symbols, more, all, Y)
      BY <3>1, Concatenated
    <3> HIDE DEF all
    <3> QED BY <3>2 DEF Joined
  <2>2. r = all
    BY <1>1
  <2> HIDE DEF all
  <2> QED BY <2>1, <2>2
<1>11. \A i \in DOMAIN symbols : \E j \in DOMAIN r : r[j] = symbols[i]
  BY <1>10
<1>12. ASSUME NEW i \in DOMAIN funcs PROVE Prefixed(funcs[i].name) \in Named(r)
  <2>1. CASE i \in I
    <3>1. PICK q \in DOMAIN new : new[q] = funcs[i]
      BY <2>1, <1>3
    <3>2. q + Len(symbols) \in DOMAIN r /\ r[q + Len(symbols)] = more[q]
      BY <1>8, <1>10
    <3>3. more[q].name = Prefixed(funcs[i].name)
      BY <3>1, <1>8, <1>9
    <3> QED BY <3>2, <3>3 DEF Named
  <2>2. CASE Prefixed(funcs[i].name) \in Named(symbols)
    <3>1. PICK j \in DOMAIN symbols : symbols[j].name = Prefixed(funcs[i].name)
      BY <2>2 DEF Named
    <3>2. j \in DOMAIN r /\ r[j].name = Prefixed(funcs[i].name)
      BY <3>1, <1>10
    <3> QED BY <3>2 DEF Named
  <2> QED BY <2>1, <2>2, <1>6
<1>13. ASSUME Distinct(symbols),
              \A i, j \in DOMAIN funcs : Prefixed(funcs[i].name) = Prefixed(funcs[j].name) => i = j
       PROVE  Distinct(r)
  <2>1. ASSUME NEW a \in DOMAIN r, NEW b \in DOMAIN r, r[a].name = r[b].name, a < b PROVE FALSE
    <3> DEFINE A == a - Len(symbols)
               B == b - Len(symbols)
    <3>1. CASE a \in DOMAIN symbols /\ r[a] = symbols[a] /\ b \in DOMAIN symbols /\ r[b] = symbols[b]
      <4>1. a = b
        BY <3>1, <2>1, <1>13 DEF Distinct
      <4> QED BY <4>1, <2>1, <1>10
    <3>2. CASE A \in DOMAIN more /\ r[a] = more[A] /\ B \in DOMAIN more /\ r[b] = more[B]
      <4>1. A < B
        BY <2>1, <1>10
      <4> HIDE DEF A, B
      <4>2. PICK i, j \in I : i < j /\ new[A] = funcs[i] /\ new[B] = funcs[j]
        BY <4>1, <3>2, <1>4, <1>8
      <4>3. Prefixed(funcs[i].name) = Prefixed(funcs[j].name)
        BY <4>2, <3>2, <2>1, <1>9
      <4>4. i = j
        BY <4>3, <1>5, <1>13
      <4>5. i \in Nat /\ j \in Nat
        BY <1>5
      <4> QED BY <4>2, <4>4, <4>5
    <3>3. ASSUME NEW x \in DOMAIN symbols, NEW y \in DOMAIN more, symbols[x].name = more[y].name PROVE FALSE
      <4>1. PICK i \in I : new[y] = funcs[i]
        BY <1>3, <1>8
      <4>2. symbols[x].name = Prefixed(funcs[i].name)
        BY <4>1, <3>3, <1>9
      <4>3. symbols[x].name \in Named(symbols)
        BY DEF Named
      <4> QED BY <4>2, <4>3, <1>5
    <3>4. CASE a \in DOMAIN symbols /\ r[a] = symbols[a] /\ B \in DOMAIN more /\ r[b] = more[B]
      <4> HIDE DEF A, B
      <4> QED BY <3>3, <3>4, <2>1
    <3>5. CASE b \in DOMAIN symbols /\ r[b] = symbols[b] /\ A \in DOMAIN more /\ r[a] = more[A]
      <4> HIDE DEF A, B
      <4> QED BY <3>3, <3>5, <2>1
    <3> QED BY <3>1, <3>2, <3>4, <3>5, <1>10
  <2>2. ASSUME NEW a \in DOMAIN r, NEW b \in DOMAIN r, r[a].name = r[b].name PROVE a = b
    <3>1. a \in Nat /\ b \in Nat
      BY <1>10
    <3>2. ~ (a < b) /\ ~ (b < a)
      BY <2>1, <2>2
    <3> QED BY <3>1, <3>2
  <2> QED BY <2>2 DEF Distinct
<1>14. ASSUME ~ (Len(r) > Len(symbols)) PROVE r = symbols
  <2>1. Len(more) = 0
    BY <1>10, <1>14
  <2>2. more = << >>
    BY <2>1, <1>8
  <2> QED BY <2>2, <1>1
<1> QED BY <1>10, <1>11, <1>12, <1>13, <1>14 DEF Y, r, Extended

-----------------------------------------------------------------------------
(***************************************************************************)
(* The functions the tool collects and the usage it exports.               *)
(***************************************************************************)
(* Names of one, two and three parts differ, and with their last parts.    *)
LEMMA NamesApart ==
    ASSUME NEW p, NEW f, NEW g, NEW q
    PROVE  /\ <<f>> # <<p, g>> /\ <<f>> # <<p, g, q>> /\ <<p, f>> # <<p, g, q>>
           /\ <<f>> = <<g>> => f = g
           /\ <<p, f>> = <<p, g>> => f = g
<1>1. Len(<<f>>) = 1 /\ Len(<<p, g>>) = 2 /\ Len(<<p, f>>) = 2 /\ Len(<<p, g, q>>) = 3
  OBVIOUS
<1>2. <<f>>[1] = f /\ <<g>>[1] = g /\ <<p, f>>[2] = f /\ <<p, g>>[2] = g
  OBVIOUS
<1>3. <<f>> # <<p, g>>
  BY <1>1
<1>4. <<f>> # <<p, g, q>>
  BY <1>1
<1>5. <<p, f>> # <<p, g, q>>
  BY <1>1
<1> QED BY <1>2, <1>3, <1>4, <1>5

LEMMA SeqGrows == ASSUME NEW X, NEW Y, X \subseteq Y, NEW s \in Seq(X) PROVE s \in Seq(Y)
<1>1. Len(s) \in Nat /\ s \in [1..Len(s) -> X]
  OBVIOUS
<1>2. s \in [1..Len(s) -> Y]
  BY <1>1
<1> QED BY <1>1, <1>2

Defined(kind) == {Declared(kind, f) : f \in {g \in Funcs : kind[g] # "undefined"}}
Aliases(kind) == {object_alias(x) : x \in Defined(kind)}

IsUsage(x) == x.type = "NOTYPE" /\ x.section = None /\ \E f, key : x.name = <<".dyninst.", f, key>>

(* What a symbol of a library of this kind is.                             *)
OfKind(kind, x) ==
    \/ \E f \in Funcs : x = Declared(kind, f)
    \/ x \in Aliases(kind)
    \/ IsUsage(x)

(* The first occurrence of every function with a body.                     *)
LEMMA Collected ==
    ASSUME NEW kind \in Kinds, NEW l, NEW X, l.dyn \in Seq(X), l.sym \in Seq(X),
           \A x \in X : OfKind(kind, x),
           \A f \in Funcs : \E i \in DOMAIN l.sym : l.sym[i] = Declared(kind, f)
    PROVE  LET r == collect_defined_funcs(l) IN
           /\ r \in Seq(Defined(kind))
           /\ \A i, j \in DOMAIN r : Prefixed(r[i].name) = Prefixed(r[j].name) => i = j
           /\ \A f \in Funcs : kind[f] # "undefined" => \E i \in DOMAIN r : Prefixed(r[i].name) = Alias(f)
<1> DEFINE all == l.dyn \o l.sym
           A == {i \in DOMAIN all : all[i].type = "FUNC" /\ is_defined(all[i])}
           I == {i \in A : \A j \in A : j < i => all[j].name # all[i].name}
           r == collect_defined_funcs(l)
<1>1. r = Kept(all, I)
  BY DEF collect_defined_funcs
<1>2. Joined(l.dyn, l.sym, all, X)
  BY Concatenated
<1> HIDE DEF all
<1>3. all \in Seq(X) /\ DOMAIN all \in SUBSET Nat /\ \A i \in DOMAIN all : all[i] \in X
  <2>1. all \in Seq(X) /\ DOMAIN all = 1..Len(all)
    BY <1>2 DEF Joined
  <2> QED BY <2>1
<1>4. ASSUME NEW i \in A
      PROVE  \E f \in Funcs : kind[f] # "undefined" /\ all[i] = Declared(kind, f) /\ all[i].name = <<f>>
  <2>1. all[i] \in X /\ all[i].type = "FUNC" /\ is_defined(all[i])
    BY <1>3
  <2>2. OfKind(kind, all[i])
    BY <2>1
  <2>3. CASE \E f \in Funcs : all[i] = Declared(kind, f)
    BY <2>1, <2>3, Declarations
  <2>4. CASE all[i] \in Aliases(kind)
    <3>1. PICK f \in Funcs : all[i] = object_alias(Declared(kind, f))
      BY <2>4 DEF Aliases, Defined
    <3>2. all[i].type = "OBJECT"
      BY <3>1, Declarations
    <3> QED BY <3>2, <2>1
  <2>5. CASE IsUsage(all[i])
    BY <2>1, <2>5 DEF IsUsage
  <2> QED BY <2>2, <2>3, <2>4, <2>5 DEF OfKind
<1>5. I \in SUBSET DOMAIN all /\ A \in SUBSET Nat
  BY <1>3
<1>6. \A i \in I : i \in A /\ \A j \in A : j < i => all[j].name # all[i].name
  OBVIOUS
<1>7. \A i \in A : (\A j \in A : j < i => all[j].name # all[i].name) => i \in I
  OBVIOUS
<1>8. \A i \in DOMAIN all : all[i].type = "FUNC" /\ is_defined(all[i]) => i \in A
  OBVIOUS
<1> HIDE DEF A, I
<1>9. /\ r \in Seq(X)
      /\ \A q \in DOMAIN r : \E i \in I : r[q] = all[i]
      /\ \A i \in I : \E q \in DOMAIN r : r[q] = all[i]
  BY <1>1, <1>3, <1>5, KeptRange
<1>10. \A q, t \in DOMAIN r : q < t => \E i, j \in I : i < j /\ r[q] = all[i] /\ r[t] = all[j]
  BY <1>1, <1>3, <1>5, KeptApart
<1> HIDE DEF r
<1>11. r \in Seq(Defined(kind))
  <2>1. ASSUME NEW q \in DOMAIN r PROVE r[q] \in Defined(kind)
    <3>1. PICK i \in I : r[q] = all[i]
      BY <1>9
    <3>2. PICK f \in Funcs : kind[f] # "undefined" /\ all[i] = Declared(kind, f)
      BY <1>4, <1>6
    <3> QED BY <3>1, <3>2 DEF Defined
  <2>2. Len(r) \in Nat /\ DOMAIN r = 1..Len(r) /\ r = [q \in 1..Len(r) |-> r[q]]
    BY <1>9
  <2> QED BY <2>1, <2>2
<1>12. ASSUME NEW q \in DOMAIN r, NEW t \in DOMAIN r, q < t PROVE Prefixed(r[q].name) # Prefixed(r[t].name)
  <2>1. PICK i, j \in I : i < j /\ r[q] = all[i] /\ r[t] = all[j]
    BY <1>10, <1>12
  <2>2. all[i].name # all[j].name
    BY <2>1, <1>6
  <2>3. PICK f \in Funcs : all[i].name = <<f>> /\ Prefixed(all[i].name) = Alias(f)
    BY <1>4, <1>6, Declarations
  <2>4. PICK g \in Funcs : all[j].name = <<g>> /\ Prefixed(all[j].name) = Alias(g)
    BY <1>4, <1>6, Declarations
  <2>5. f # g
    BY <2>2, <2>3, <2>4
  <2>6. Alias(f) # Alias(g)
    BY <2>5, NamesApart DEF Alias
  <2> QED BY <2>1, <2>3, <2>4, <2>6
<1>13. ASSUME NEW q \in DOMAIN r, NEW t \in DOMAIN r, Prefixed(r[q].name) = Prefixed(r[t].name) PROVE q = t
  <2>1. q \in Nat /\ t \in Nat
    BY <1>9
  <2>2. ~ (q < t) /\ ~ (t < q)
    BY <1>12, <1>13
  <2> QED BY <2>1, <2>2
<1>14. ASSUME NEW f \in Funcs, kind[f] # "undefined" PROVE \E q \in DOMAIN r : Prefixed(r[q].name) = Alias(f)
  <2> DEFINE B == {i \in A : all[i].name = <<f>>}
  <2>1. PICK m \in DOMAIN l.sym : l.sym[m] = Declared(kind, f)
    OBVIOUS
  <2>2. m + Len(l.dyn) \in DOMAIN all /\ all[m + Len(l.dyn)] = Declared(kind, f)
    BY <2>1, <1>2 DEF Joined
  <2>3. m + Len(l.dyn) \in B
    BY <2>2, <1>8, <1>14, Declarations
  <2>4. PICK i \in B : \A j \in B : i <= j
    <3>1. B \in SUBSET Nat /\ B # {}
      BY <2>3, <1>5
    <3> HIDE DEF B
    <3> QED BY <3>1, LeastNumber
  <2>5. ASSUME NEW j \in A, j < i PROVE all[j].name # all[i].name
    <3> SUFFICES ASSUME all[j].name = all[i].name PROVE FALSE
      OBVIOUS
    <3>1. j \in B
      OBVIOUS
    <3>2. i <= j /\ i \in Nat /\ j \in Nat
      BY <3>1, <2>4, <1>5
    <3> QED BY <3>2, <2>5
  <2>6. i \in I
    BY <2>5, <1>7
  <2>7. PICK q \in DOMAIN r : r[q] = all[i]
    BY <2>6, <1>9
  <2>8. Prefixed(all[i].name) = Alias(f)
    BY Declarations
  <2> QED BY <2>7, <2>8
<1> QED BY <1>11, <1>13, <1>14 DEF r

(* A usage symbol is neither a function nor an alias, and changes none.    *)
LEMMA UsageAdded ==
    ASSUME NEW kind \in Kinds, NEW X, NEW symbols \in Seq(X), NEW funcs \in Seq(Defined(kind)), NEW usage
    PROVE  LET r == add_regusage_symbols(symbols, funcs, usage) IN
           /\ \E Y : r \in Seq(Y) /\ \A x \in Y : x \in X \/ IsUsage(x)
           /\ \A i \in DOMAIN symbols : \E j \in DOMAIN r : r[j] = symbols[i]
<1> DEFINE n == 2 * Len(funcs)
           want(i) == [f |-> funcs[(i + 1) \div 2], key |-> REGUSAGE_KEYS[2 - (i % 2)]]
           wanted == [i \in 1..n |-> want(i)]
           I == {i \in DOMAIN wanted :
                   /\ <<wanted[i].f.name[1], wanted[i].key>> \in DOMAIN usage
                   /\ UsageName(wanted[i].f, wanted[i].key) \notin Named(symbols)}
           new == Kept(wanted, I)
           sym(i) == [name |-> UsageName(new[i].f, new[i].key), type |-> "NOTYPE", bind |-> "GLOBAL",
                      section |-> None, value |-> usage[<<new[i].f.name[1], new[i].key>>]]
           more == [i \in DOMAIN new |-> sym(i)]
           W == {want(i) : i \in 1..n}
           U == {sym(i) : i \in DOMAIN new}
           r == add_regusage_symbols(symbols, funcs, usage)
<1>1. r = symbols \o more
  BY DEF add_regusage_symbols
<1>2. n \in Nat /\ wanted \in Seq(W) /\ I \in SUBSET DOMAIN wanted
  <2>1. Len(funcs) \in Nat
    OBVIOUS
  <2>2. wanted \in [1..n -> W]
    OBVIOUS
  <2>3. n \in Nat
    BY <2>1
  <2> HIDE DEF wanted, n, W
  <2> QED BY <2>2, <2>3
<1>3. new \in Seq(W) /\ DOMAIN new = 1..Len(new) /\ Len(new) \in Nat
  <2> HIDE DEF wanted, I, W
  <2>1. new \in Seq(W)
    BY <1>2, KeptRange
  <2> HIDE DEF new
  <2> QED BY <2>1
<1>4. ASSUME NEW w \in W PROVE w.f \in Defined(kind)
  <2>1. PICK i \in 1..n : w = want(i)
    OBVIOUS
  <2>2. (i + 1) \div 2 \in 1..Len(funcs)
    <3>1. Len(funcs) \in Nat
      OBVIOUS
    <3> QED BY <3>1
  <2>3. w.f = funcs[(i + 1) \div 2]
    BY <2>1
  <2> HIDE DEF n, W, want
  <2> QED BY <2>2, <2>3
<1> HIDE DEF wanted, I, new, W
<1>5. ASSUME NEW x \in U PROVE IsUsage(x)
  <2>1. PICK i \in DOMAIN new : x = sym(i)
    OBVIOUS
  <2>2. new[i] \in W
    BY <1>3
  <2>3. PICK f \in Funcs : new[i].f = Declared(kind, f)
    BY <2>2, <1>4 DEF Defined
  <2>4. Prefixed(new[i].f.name) = Alias(f)
    BY <2>3, Declarations
  <2>5. x.name = Alias(f) \o <<new[i].key>> /\ x.type = "NOTYPE" /\ x.section = None
    BY <2>1, <2>4 DEF UsageName
  <2>6. Alias(f) \o <<new[i].key>> = <<".dyninst.", f, new[i].key>>
    <3> DEFINE p == ".dyninst."
               q == new[i].key
               Z == {p, f, q}
               u == <<p, f>> \o <<q>>
               v == <<p, f, q>>
    <3> HIDE DEF p, q
    <3>1. <<p, f>> \in Seq(Z) /\ <<q>> \in Seq(Z)
      OBVIOUS
    <3>2. u \in Seq(Z) /\ Len(u) = 3 /\ u[1] = p /\ u[2] = f /\ u[3] = q
      BY <3>1
    <3>3. v \in Seq(Z) /\ Len(v) = 3 /\ v[1] = p /\ v[2] = f /\ v[3] = q
      OBVIOUS
    <3> HIDE DEF u, v, Z
    <3>4. \A j \in 1..Len(u) : u[j] = v[j]
      BY <3>2, <3>3
    <3>5. u = v
      BY <3>2, <3>3, <3>4, SeqEqual
    <3> QED BY <3>5 DEF u, v, p, q, Alias
  <2> QED BY <2>5, <2>6 DEF IsUsage
<1> DEFINE Y == X \union U
<1>6. symbols \in Seq(Y) /\ more \in Seq(Y)
  <2>1. symbols \in Seq(Y)
    <3>1. X \subseteq Y
      OBVIOUS
    <3> HIDE DEF Y
    <3> QED BY <3>1, SeqGrows
  <2>2. more \in [1..Len(new) -> Y]
    BY <1>3
  <2> HIDE DEF more, Y
  <2> QED BY <2>1, <2>2, <1>3
<1> HIDE DEF more, Y, U
<1>7. Joined(symbols, more, r, Y)
  BY <1>1, <1>6, Concatenated
<1> HIDE DEF r
<1>8. r \in Seq(Y) /\ \A i \in DOMAIN symbols : \E j \in DOMAIN r : r[j] = symbols[i]
  BY <1>7 DEF Joined
<1>9. \A x \in Y : x \in X \/ IsUsage(x)
  BY <1>5 DEF Y
<1> QED BY <1>8, <1>9 DEF r

-----------------------------------------------------------------------------
(***************************************************************************)
(* The library, however often it is edited.                                *)
(***************************************************************************)
Dyn(kind) == {Declared(kind, f) : f \in {g \in Funcs : kind[g] # "static"}} \union Aliases(kind)

LEMMA DynIs ==
    ASSUME NEW kind \in Kinds, NEW x \in Dyn(kind)
    PROVE  /\ ~ is_local(x) /\ x.name \in Names
           /\ x.value \in Nat /\ (is_defined(x) <=> x.value # 0)
           /\ OfKind(kind, x)
<1>1. CASE x \in Aliases(kind)
  <2>1. PICK f \in Funcs : x = object_alias(Declared(kind, f))
    BY <1>1 DEF Aliases, Defined
  <2> QED BY <2>1, <1>1, Declarations DEF OfKind
<1>2. CASE x \notin Aliases(kind)
  <2>1. PICK f \in Funcs : kind[f] # "static" /\ x = Declared(kind, f)
    BY <1>2 DEF Dyn
  <2> QED BY <2>1, Declarations DEF OfKind
<1> QED BY <1>1, <1>2

(* The new order of .dynsym holds the symbols it was made from.            *)
LEMMA RegenKeeps ==
    ASSUME NEW X, \A x \in X : ~ is_local(x) /\ x.name \in Names,
           NEW d \in Seq(X), NEW hash \in [Names -> Nat], Distinct(d)
    PROVE  LET g == regen_gnu_hash(d, hash) IN
           g.dyn \in Seq(X) /\ Distinct(g.dyn) /\ Named(g.dyn) = Named(d)
<1>1. PICK other, def \in Seq(X), nb \in Nat \ {0} :
         /\ regen_gnu_hash(d, hash) = GnuTables(other, def, hash, nb)
         /\ SameElements(d, other \o def)
         /\ Distinct(other \o def)
  BY RegenIs
<1>2. GnuTables(other, def, hash, nb).dyn = other \o def
  BY DEF GnuTables
<1>3. other \o def \in Seq(X)
  OBVIOUS
<1>4. Named(other \o def) = Named(d)
  <2> DEFINE all == other \o def
  <2>1. SameElements(d, all)
    BY <1>1
  <2> HIDE DEF all
  <2>2. Named(all) = Named(d)
    BY <2>1 DEF Named, SameElements
  <2> QED BY <2>2 DEF all
<1> QED BY <1>1, <1>2, <1>3, <1>4

LibraryOk(kind, l, ed) ==
    /\ Described(l, Dyn(kind))
    /\ \E X : l.sym \in Seq(X) /\ \A x \in X : OfKind(kind, x)
    /\ \A f \in Funcs : \E i \in DOMAIN l.sym : l.sym[i] = Declared(kind, f)
    /\ "symtab" \in ed => \A f \in Funcs : kind[f] # "undefined" => Alias(f) \in Named(l.sym)
    /\ "dynsym" \in ed => \A f \in Funcs : kind[f] # "undefined" => Alias(f) \in Named(l.dyn)

LibInv == stage = "library" => \E kind \in Kinds : LibraryOk(kind, lib, edited)

(* What the tool makes of .symtab.                                         *)
LEMMA SymtabEdited ==
    ASSUME NEW kind \in Kinds, NEW l, NEW tables, NEW a, NEW ed, LibraryOk(kind, l, ed),
           NEW X, l.dyn \in Seq(X), l.sym \in Seq(X), \A x \in X : OfKind(kind, x)
    PROVE  LET s == EditedSym(l, tables, a) IN
           /\ \E Y : s \in Seq(Y) /\ \A x \in Y : OfKind(kind, x)
           /\ \A i \in DOMAIN l.sym : \E j \in DOMAIN s : s[j] = l.sym[i]
           /\ tables \in {"symtab", "both"} => \A f \in Funcs : kind[f] # "undefined" => Alias(f) \in Named(s)
<1> DEFINE funcs == collect_defined_funcs(l)
           named == Aliased(l, tables)
           s == EditedSym(l, tables, a)
           X1 == X \union {object_alias(x) : x \in Defined(kind)}
<1>1. /\ funcs \in Seq(Defined(kind))
      /\ \A f \in Funcs : kind[f] # "undefined" => \E i \in DOMAIN funcs : Prefixed(funcs[i].name) = Alias(f)
  <2>1. \A f \in Funcs : \E i \in DOMAIN l.sym : l.sym[i] = Declared(kind, f)
    BY DEF LibraryOk
  <2> QED BY <2>1, Collected
<1>2. \A x \in X1 : OfKind(kind, x)
  BY DEF OfKind, Aliases
<1> HIDE DEF funcs
<1>3. /\ named \in Seq(X1)
      /\ \A i \in DOMAIN l.sym : \E j \in DOMAIN named : named[j] = l.sym[i]
      /\ tables \in {"symtab", "both"} => \A f \in Funcs : kind[f] # "undefined" => Alias(f) \in Named(named)
  <2> DEFINE r == add_aliases(l.sym, funcs)
  <2>1. CASE tables \in {"symtab", "both"}
    <3>1. named = r
      BY <2>1 DEF Aliased, funcs
    <3>2. /\ r \in Seq(X1)
          /\ \A i \in DOMAIN l.sym : \E j \in DOMAIN r : r[j] = l.sym[i]
          /\ \A i \in DOMAIN funcs : Prefixed(funcs[i].name) \in Named(r)
      <4>1. Extended(r, l.sym, funcs, X1)
        BY <1>1, AliasesAdded
      <4> HIDE DEF r, X1
      <4> QED BY <4>1 DEF Extended
    <3> HIDE DEF r, named, X1
    <3>3. \A f \in Funcs : kind[f] # "undefined" => Alias(f) \in Named(r)
      BY <3>2, <1>1
    <3> QED BY <3>1, <3>2, <3>3
  <2>2. CASE tables \notin {"symtab", "both"}
    <3>1. named = l.sym
      BY <2>2 DEF Aliased
    <3>2. l.sym \in Seq(X1)
      <4>1. X \subseteq X1
        OBVIOUS
      <4> HIDE DEF X1
      <4> QED BY <4>1, SeqGrows
    <3> HIDE DEF named, X1
    <3> QED BY <3>1, <3>2, <2>2
  <2> QED BY <2>1, <2>2
<1> HIDE DEF named, X1
<1>4. CASE a = None
  <2>1. s = named
    BY <1>4 DEF EditedSym, named
  <2> HIDE DEF s
  <2> QED BY <2>1, <1>2, <1>3 DEF s
<1>5. CASE a # None
  <2> DEFINE usage == parse_asm_regusage(a)
  <2>1. s = add_regusage_symbols(named, funcs, usage)
    BY <1>5 DEF EditedSym, named, funcs
  <2> HIDE DEF s, usage
  <2>2. /\ \E Y : s \in Seq(Y) /\ \A x \in Y : x \in X1 \/ IsUsage(x)
        /\ \A i \in DOMAIN named : \E j \in DOMAIN s : s[j] = named[i]
    BY <2>1, <1>1, <1>3, UsageAdded
  <2>3. PICK Y : s \in Seq(Y) /\ \A x \in Y : x \in X1 \/ IsUsage(x)
    BY <2>2
  <2>4. \A x \in Y : OfKind(kind, x)
    BY <2>3, <1>2 DEF OfKind
  <2>5. \A i \in DOMAIN l.sym : \E j \in DOMAIN s : s[j] = l.sym[i]
    BY <2>2, <1>3
  <2>6. \A name : name \in Named(named) => name \in Named(s)
    BY <2>2 DEF Named
  <2> QED BY <2>3, <2>4, <2>5, <2>6, <1>3 DEF s
<1> QED BY <1>4, <1>5

(* What it makes of .dynsym, before the tables are made again.             *)
LEMMA DynsymEdited ==
    ASSUME NEW kind \in Kinds, NEW l, NEW tables, NEW ed, LibraryOk(kind, l, ed),
           NEW X, l.dyn \in Seq(X), l.sym \in Seq(X), \A x \in X : OfKind(kind, x),
           l.dyn \in Seq(Dyn(kind)), Distinct(l.dyn)
    PROVE  LET d == EditedDyn(l, tables) IN
           /\ d \in Seq(Dyn(kind)) /\ Distinct(d)
           /\ Named(l.dyn) \subseteq Named(d)
           /\ ~ (Len(d) > Len(l.dyn)) => d = l.dyn
           /\ tables \in {"dynsym", "both"} => \A f \in Funcs : kind[f] # "undefined" => Alias(f) \in Named(d)
<1> DEFINE funcs == collect_defined_funcs(l)
           d == EditedDyn(l, tables)
           r == add_aliases(l.dyn, funcs)
<1>1. /\ funcs \in Seq(Defined(kind))
      /\ \A i, j \in DOMAIN funcs : Prefixed(funcs[i].name) = Prefixed(funcs[j].name) => i = j
      /\ \A f \in Funcs : kind[f] # "undefined" => \E i \in DOMAIN funcs : Prefixed(funcs[i].name) = Alias(f)
  <2>1. \A f \in Funcs : \E i \in DOMAIN l.sym : l.sym[i] = Declared(kind, f)
    BY DEF LibraryOk
  <2> QED BY <2>1, Collected
<1> HIDE DEF funcs
<1>2. CASE tables \in {"dynsym", "both"}
  <2>1. d = r
    BY <1>2 DEF EditedDyn, funcs
  <2>2. /\ r \in Seq(Dyn(kind) \union {object_alias(x) : x \in Defined(kind)})
        /\ \A i \in DOMAIN l.dyn : \E j \in DOMAIN r : r[j] = l.dyn[i]
        /\ \A i \in DOMAIN funcs : Prefixed(funcs[i].name) \in Named(r)
        /\ Distinct(r)
        /\ ~ (Len(r) > Len(l.dyn)) => r = l.dyn
    <3>1. Extended(r, l.dyn, funcs, Dyn(kind) \union {object_alias(x) : x \in Defined(kind)})
      BY <1>1, AliasesAdded
    <3> HIDE DEF r
    <3> QED BY <3>1, <1>1 DEF Extended
  <2>3. Dyn(kind) \union {object_alias(x) : x \in Defined(kind)} = Dyn(kind)
    BY DEF Dyn, Aliases
  <2> HIDE DEF r, d
  <2>4. Named(l.dyn) \subseteq Named(r)
    BY <2>2 DEF Named
  <2>5. \A f \in Funcs : kind[f] # "undefined" => Alias(f) \in Named(r)
    BY <2>2, <1>1
  <2> QED BY <2>1, <2>2, <2>3, <2>4, <2>5 DEF d
<1>3. CASE tables \notin {"dynsym", "both"}
  <2>1. d = l.dyn
    BY <1>3 DEF EditedDyn
  <2> HIDE DEF d
  <2> QED BY <2>1, <1>3 DEF d
<1> QED BY <1>2, <1>3

LEMMA LibraryEdited ==
    ASSUME NEW kind \in Kinds, NEW l, NEW ed, LibraryOk(kind, l, ed), DOMAIN l = Fields,
           NEW tables \in {"dynsym", "symtab", "both"}, NEW a, NEW hash \in [Names -> Nat]
    PROVE  LibraryOk(kind, Edited(l, tables, a, hash),
                     ed \union (IF tables = "both" THEN {"dynsym", "symtab"} ELSE {tables}))
<1> DEFINE e == Edited(l, tables, a, hash)
           d == EditedDyn(l, tables)
           s == EditedSym(l, tables, a)
           new == ed \union (IF tables = "both" THEN {"dynsym", "symtab"} ELSE {tables})
           Z == Dyn(kind)
<1>1. \A x \in Z : ~ is_local(x) /\ x.name \in Names /\ OfKind(kind, x)
  BY DynIs
<1>2. Described(l, Z)
  BY DEF LibraryOk
<1>3. l.dyn \in Seq(Z) /\ Distinct(l.dyn)
  <2>1. l.hash \in [Names -> Nat] /\ l.dyn = l.gnu.dyn
    BY <1>2 DEF Described
  <2>2. PICK d0 \in Seq(Z) : l.gnu = regen_gnu_hash(d0, l.hash) /\ Distinct(d0)
    BY <1>2 DEF Described
  <2>3. regen_gnu_hash(d0, l.hash).dyn \in Seq(Z) /\ Distinct(regen_gnu_hash(d0, l.hash).dyn)
    BY <1>1, <2>1, <2>2, RegenKeeps
  <2> QED BY <2>1, <2>2, <2>3
<1>4. PICK X0 : l.sym \in Seq(X0) /\ \A x \in X0 : OfKind(kind, x)
  BY DEF LibraryOk
<1> DEFINE X == Z \union X0
<1>5. l.dyn \in Seq(X) /\ l.sym \in Seq(X) /\ \A x \in X : OfKind(kind, x)
  <2>1. Z \subseteq X /\ X0 \subseteq X /\ \A x \in X : OfKind(kind, x)
    BY <1>1, <1>4
  <2> HIDE DEF X, Z
  <2> QED BY <2>1, <1>3, <1>4, SeqGrows
<1> HIDE DEF X
<1>6. /\ \E Y : s \in Seq(Y) /\ \A x \in Y : OfKind(kind, x)
      /\ \A i \in DOMAIN l.sym : \E j \in DOMAIN s : s[j] = l.sym[i]
      /\ tables \in {"symtab", "both"} => \A f \in Funcs : kind[f] # "undefined" => Alias(f) \in Named(s)
  BY <1>5, SymtabEdited
<1>7. /\ d \in Seq(Z) /\ Distinct(d)
      /\ Named(l.dyn) \subseteq Named(d)
      /\ ~ (Len(d) > Len(l.dyn)) => d = l.dyn
      /\ tables \in {"dynsym", "both"} => \A f \in Funcs : kind[f] # "undefined" => Alias(f) \in Named(d)
  BY <1>3, <1>5, DynsymEdited
<1>8. /\ e.sym = s
      /\ Len(d) > Len(l.dyn) =>
            /\ e.dyn = regen_gnu_hash(d, hash).dyn
            /\ e.gnu = regen_gnu_hash(d, hash)
            /\ e.sysv = regen_sysv_hash(e.dyn, hash)
            /\ e.hash = hash
      /\ ~ (Len(d) > Len(l.dyn)) =>
            e.dyn = d /\ e.gnu = l.gnu /\ e.sysv = l.sysv /\ e.hash = l.hash
  <2>1. MadeOf(e, l, tables, a, hash)
    BY EditedFields
  <2> HIDE DEF e
  <2> QED BY <2>1 DEF MadeOf
<1> HIDE DEF e, d, s
<1>9. Described(e, Z) /\ Named(e.dyn) = Named(d)
  <2>1. CASE Len(d) > Len(l.dyn)
    <3>1. Named(regen_gnu_hash(d, hash).dyn) = Named(d)
      BY <1>1, <1>7, RegenKeeps
    <3>2. e.dyn = e.gnu.dyn
      BY <1>8, <2>1
    <3> QED BY <3>1, <3>2, <1>7, <1>8, <2>1 DEF Described
  <2>2. CASE ~ (Len(d) > Len(l.dyn))
    <3>1. e.dyn = l.dyn /\ e.gnu = l.gnu /\ e.sysv = l.sysv /\ e.hash = l.hash /\ e.dyn = d
      BY <1>7, <1>8, <2>2
    <3> QED BY <3>1, <1>2 DEF Described
  <2> QED BY <2>1, <2>2
<1>10. \A f \in Funcs : \E i \in DOMAIN s : s[i] = Declared(kind, f)
  <2>1. \A f \in Funcs : \E i \in DOMAIN l.sym : l.sym[i] = Declared(kind, f)
    BY DEF LibraryOk
  <2> QED BY <2>1, <1>6
<1>11. Named(l.sym) \subseteq Named(s)
  BY <1>6 DEF Named
<1>12. ASSUME "symtab" \in new PROVE \A f \in Funcs : kind[f] # "undefined" => Alias(f) \in Named(s)
  <2>1. CASE tables \in {"symtab", "both"}
    BY <2>1, <1>6
  <2>2. CASE tables = "dynsym"
    <3>1. "symtab" \in ed
      BY <2>2, <1>12
    <3> QED BY <3>1, <1>11 DEF LibraryOk
  <2> QED BY <2>1, <2>2
<1>13. ASSUME "dynsym" \in new PROVE \A f \in Funcs : kind[f] # "undefined" => Alias(f) \in Named(d)
  <2>1. CASE tables \in {"dynsym", "both"}
    BY <2>1, <1>7
  <2>2. CASE tables = "symtab"
    <3>1. "dynsym" \in ed
      BY <2>2, <1>13
    <3> QED BY <3>1, <1>7 DEF LibraryOk
  <2> QED BY <2>1, <2>2
<1> HIDE DEF new
<1>14. LibraryOk(kind, e, new)
  BY <1>6, <1>8, <1>9, <1>10, <1>12, <1>13 DEF LibraryOk
<1> QED BY <1>14 DEF e, new

LEMMA LibraryLinked == ASSUME NEW kind \in Kinds PROVE LibraryOk(kind, Linked(kind), {})
<1> DEFINE n == Cardinality(Funcs)
           all == [i \in DOMAIN Order |-> Declared(kind, Order[i])]
           hash == [m \in Names |-> 0]
           I == {i \in DOMAIN all : ~is_local(all[i])}
           d == Kept(all, I)
           g == regen_gnu_hash(d, hash)
           S == {Declared(kind, f) : f \in Funcs}
           Z == Dyn(kind)
           l == Linked(kind)
<1>1. /\ n \in Nat /\ Order \in [1..n -> Funcs] /\ DOMAIN Order = 1..n
      /\ \A i, j \in 1..n : Order[i] = Order[j] => i = j
      /\ \A f \in Funcs : \E i \in 1..n : Order[i] = f
  BY OrderIs
<1>2. l.dyn = g.dyn /\ l.sym = all /\ l.gnu = g /\ l.sysv = regen_sysv_hash(g.dyn, hash) /\ l.hash = hash
  BY DEF Linked
<1> HIDE DEF n, l
<1>3. DOMAIN all = 1..n /\ \A i \in 1..n : all[i] = Declared(kind, Order[i]) /\ Order[i] \in Funcs
  BY <1>1
<1>4. I \in SUBSET DOMAIN all
  OBVIOUS
<1>5. \A i \in I : i \in 1..n /\ ~ is_local(all[i])
  BY <1>3
<1> HIDE DEF all, I
<1>6. all \in Seq(S)
  <2>1. \A i \in 1..n : all[i] \in S
    BY <1>3
  <2>2. all = [i \in 1..n |-> all[i]]
    BY <1>3 DEF all
  <2> HIDE DEF S
  <2> QED BY <2>1, <2>2, <1>1
<1>7. /\ d \in Seq(S)
      /\ \A r \in DOMAIN d : \E i \in I : d[r] = all[i]
  BY <1>4, <1>6, KeptRange
<1>8. \A r, q \in DOMAIN d : r < q => \E i, j \in I : i < j /\ d[r] = all[i] /\ d[q] = all[j]
  BY <1>4, <1>6, KeptApart
<1> HIDE DEF d
<1>9. d \in Seq(Z)
  <2>1. ASSUME NEW r \in DOMAIN d PROVE d[r] \in Z
    <3>1. PICK i \in I : d[r] = all[i]
      BY <1>7
    <3>2. all[i] = Declared(kind, Order[i]) /\ Order[i] \in Funcs /\ ~ is_local(all[i])
      BY <1>3, <1>5
    <3>3. kind[Order[i]] # "static"
      BY <3>2, Declarations
    <3> QED BY <3>1, <3>2, <3>3 DEF Dyn
  <2>2. d = [r \in 1..Len(d) |-> d[r]] /\ DOMAIN d = 1..Len(d) /\ Len(d) \in Nat
    BY <1>7
  <2> HIDE DEF Z
  <2> QED BY <2>1, <2>2
<1>10. Distinct(d)
  <2>1. ASSUME NEW r \in DOMAIN d, NEW q \in DOMAIN d, r < q PROVE d[r].name # d[q].name
    <3>1. PICK i, j \in I : i < j /\ d[r] = all[i] /\ d[q] = all[j]
      BY <1>8, <2>1
    <3>2. i \in 1..n /\ j \in 1..n /\ i # j
      BY <3>1, <1>5, <1>1
    <3>3. Order[i] # Order[j]
      BY <3>2, <1>1
    <3>4. all[i].name = <<Order[i]>> /\ all[j].name = <<Order[j]>>
      BY <3>2, <1>3, Declarations
    <3>5. <<Order[i]>> # <<Order[j]>>
      BY <3>3, NamesApart
    <3> QED BY <3>1, <3>4, <3>5
  <2>2. ASSUME NEW r \in DOMAIN d, NEW q \in DOMAIN d, d[r].name = d[q].name PROVE r = q
    <3>1. r \in Nat /\ q \in Nat
      BY <1>7
    <3>2. ~ (r < q) /\ ~ (q < r)
      BY <2>1, <2>2
    <3> QED BY <3>1, <3>2
  <2> QED BY <2>2 DEF Distinct
<1>11. hash \in [Names -> Nat]
  OBVIOUS
<1> HIDE DEF hash
<1>12. Described(l, Z)
  BY <1>2, <1>9, <1>10, <1>11 DEF Described
<1>13. \A x \in S : OfKind(kind, x)
  BY DEF OfKind
<1>14. \A f \in Funcs : \E i \in DOMAIN all : all[i] = Declared(kind, f)
  BY <1>1, <1>3
<1> HIDE DEF S
<1> QED BY <1>2, <1>6, <1>12, <1>13, <1>14 DEF LibraryOk, l

LEMMA LibInit == Init => LibInv
<1> SUFFICES ASSUME Init PROVE LibInv
  OBVIOUS
<1>1. PICK kind \in Kinds : lib = Linked(kind)
  BY DEF Init
<1>2. edited = {}
  BY DEF Init
<1> QED BY <1>1, <1>2, LibraryLinked DEF LibInv

LEMMA LibStep == FileInv /\ LibInv /\ [Next]_vars => LibInv'
<1> SUFFICES ASSUME FileInv, LibInv, [Next]_vars PROVE LibInv'
  OBVIOUS
<1>1. CASE Edits
  <2>1. PICK u \in Uses : \E hash \in IF Grows(u[1]) THEN Hashes ELSE {lib.hash} : EditLibrary(u[1], u[2], hash)
    BY <1>1 DEF Edits
  <2>2. PICK hash \in IF Grows(u[1]) THEN Hashes ELSE {lib.hash} : EditLibrary(u[1], u[2], hash)
    BY <2>1
  <2> DEFINE t == u[1]
             a == u[2]
             new == edited \union (IF t = "both" THEN {"dynsym", "symtab"} ELSE {t})
  <2>3. /\ stage = "library" /\ lib' = Edited(lib, t, a, hash) /\ edited' = new
    BY <2>2 DEF EditLibrary
  <2>4. DOMAIN lib = Fields
    BY <2>3 DEF FileInv
  <2>5. PICK kind \in Kinds : LibraryOk(kind, lib, edited)
    BY <2>3 DEF LibInv
  <2>6. hash \in [Names -> Nat]
    <3>1. lib.hash \in [Names -> Nat]
      BY <2>5 DEF LibraryOk, Described
    <3>2. Hashes \subseteq [Names -> Nat]
      BY LibrariesAssumption
    <3>3. hash \in Hashes \/ hash = lib.hash
      BY <2>2
    <3> QED BY <3>1, <3>2, <3>3
  <2>7. t \in {"dynsym", "symtab", "both"}
    BY LibrariesAssumption
  <2> HIDE DEF t, a
  <2>8. LibraryOk(kind, Edited(lib, t, a, hash), new)
    BY <2>4, <2>5, <2>6, <2>7, LibraryEdited
  <2> QED BY <2>3, <2>8 DEF LibInv
<1>2. CASE Builds
  BY <1>2, BuildsStage DEF LibInv
<1>3. CASE UNCHANGED build
  BY <1>3 DEF LibInv, build
<1> QED BY <1>1, <1>2, <1>3, Steps

(* The first segment and the room of the tables, after any edits: it takes *)
(* that .dynsym is a sequence, which LibInv says.                          *)
SegmentInv ==
    stage = "library" =>
        /\ edited \subseteq {"symtab"} => ~ lib.grown
        /\ edited # {} =>
              \A s \in Sections : s.ro =>
                  /\ lib.seg.offset = 0 /\ lib.seg.vaddr = 0 /\ lib.seg.size \in Nat
                  /\ SizeOf(lib, s) \in Nat /\ s.addr + SizeOf(lib, s) <= lib.seg.size

LEMMA DynLength == LibInv /\ stage = "library" => Len(lib.dyn) \in Nat
<1> SUFFICES ASSUME LibInv, stage = "library" PROVE Len(lib.dyn) \in Nat
  OBVIOUS
<1>1. PICK kind \in Kinds : LibraryOk(kind, lib, edited)
  BY DEF LibInv
<1> DEFINE Z == Dyn(kind)
           g(d) == regen_gnu_hash(d, lib.hash)
<1>2. lib.hash \in [Names -> Nat] /\ lib.dyn = lib.gnu.dyn
  BY <1>1 DEF LibraryOk, Described
<1>3. PICK d \in Seq(Z) : lib.gnu = g(d) /\ Distinct(d)
  BY <1>1 DEF LibraryOk, Described
<1>4. \A x \in Z : ~ is_local(x) /\ x.name \in Names /\ OfKind(kind, x)
  BY DynIs
<1>5. g(d).dyn \in Seq(Z)
  BY <1>2, <1>3, <1>4, RegenKeeps
<1> HIDE DEF Z, g
<1> QED BY <1>2, <1>3, <1>5

LEMMA SegmentStep == FileInv /\ LibInv /\ LibInv' /\ SegmentInv /\ [Next]_vars => SegmentInv'
<1> SUFFICES ASSUME FileInv, LibInv, LibInv', SegmentInv, [Next]_vars PROVE SegmentInv'
  OBVIOUS
<1>1. CASE Edits
  <2>1. PICK u \in Uses : \E hash \in IF Grows(u[1]) THEN Hashes ELSE {lib.hash} : EditLibrary(u[1], u[2], hash)
    BY <1>1 DEF Edits
  <2>2. PICK hash : EditLibrary(u[1], u[2], hash)
    BY <2>1
  <2> DEFINE tables == u[1]
             n == Len(lib'.dyn)
  <2>3. /\ stage = "library" /\ stage' = "library"
        /\ lib' = Edited(lib, tables, u[2], hash)
        /\ edited' = edited \union (IF tables = "both" THEN {"dynsym", "symtab"} ELSE {tables})
    BY <2>2 DEF EditLibrary
  <2>4. DOMAIN lib = Fields /\ Len(lib.dyn) \in Nat
    BY <2>3, DynLength DEF FileInv
  <2>5. n \in Nat
    BY <2>3, DynLength
  <2>6. /\ lib'.seg = IF RoEnd(n) = 0 THEN [offset |-> Drift, vaddr |-> 0, size |-> Drift]
                      ELSE [offset |-> 0, vaddr |-> 0, size |-> RoEnd(n)]
        /\ lib'.grown = IF Len(EditedDyn(lib, tables)) > Len(lib.dyn) THEN TRUE ELSE lib.grown
    <3> DEFINE e == Edited(lib, tables, u[2], hash)
               m == Len(e.dyn)
    <3>1. MadeOf(e, lib, tables, u[2], hash)
      BY <2>4, EditedFields
    <3>2. lib' = e
      BY <2>3
    <3> HIDE DEF e, tables
    <3>3. /\ e.seg = IF RoEnd(m) = 0 THEN [offset |-> Drift, vaddr |-> 0, size |-> Drift]
                     ELSE [offset |-> 0, vaddr |-> 0, size |-> RoEnd(m)]
          /\ e.grown = IF Len(EditedDyn(lib, tables)) > Len(lib.dyn) THEN TRUE ELSE lib.grown
      BY <3>1 DEF MadeOf
    <3>4. m = n
      BY <3>2
    <3> HIDE DEF m, n
    <3> QED BY <3>2, <3>3, <3>4
  <2>7. ASSUME edited' \subseteq {"symtab"} PROVE ~ lib'.grown
    <3>1. tables = "symtab" /\ edited \subseteq {"symtab"}
      BY <2>3, <2>7, LibrariesAssumption
    <3>2. EditedDyn(lib, tables) = lib.dyn
      BY <3>1 DEF EditedDyn
    <3> QED BY <2>3, <2>4, <2>6, <3>1, <3>2 DEF SegmentInv
  <2>8. ASSUME NEW s \in Sections, s.ro
        PROVE  /\ lib'.seg.offset = 0 /\ lib'.seg.vaddr = 0 /\ lib'.seg.size \in Nat
               /\ SizeOf(lib', s) \in Nat /\ s.addr + SizeOf(lib', s) <= lib'.seg.size
    <3>1. SizeOf(lib', s) = Long(s, n) /\ Long(s, n) \in Nat
      <4>1. s.size \in Nat
        BY TablesAssumption
      <4> QED BY <4>1, <2>5 DEF SizeOf, Long
    <3>2. RoEnd(n) \in Nat /\ s.addr + Long(s, n) <= RoEnd(n) /\ RoEnd(n) # 0
      BY <2>5, <2>8, SegmentCovers
    <3> HIDE DEF n
    <3> QED BY <2>6, <3>1, <3>2
  <2> QED BY <2>3, <2>7, <2>8 DEF SegmentInv
<1>2. CASE Builds
  BY <1>2, BuildsStage DEF SegmentInv
<1>3. CASE UNCHANGED build
  BY <1>3 DEF SegmentInv, build, SizeOf
<1> QED BY <1>1, <1>2, <1>3, Steps

(* Loaded sections are overwritten by nothing but tables that have grown,  *)
(* which edits of .symtab do not make.  However often the tool is run on a *)
(* library, the bytes of a read-only section that was not overwritten are  *)
(* loaded from where they lie, with all a table has come to hold, and the  *)
(* target stays what it was.                                               *)
THEOREM ReadOnlyDataLoads == Spec => []ReadOnlyLoads
<1>1. FileInv /\ SegmentInv => ReadOnlyLoads
  <2> SUFFICES ASSUME FileInv, SegmentInv, stage = "library", edited # {} PROVE ReadOnlyLoads
    BY DEF ReadOnlyLoads
  <2>1. ASSUME edited = {"symtab"} PROVE Clobbered(lib) = {}
    BY <2>1 DEF SegmentInv, Clobbered
  <2>2. ASSUME NEW s \in Sections, s.ro
        PROVE  /\ s.addr >= lib.seg.vaddr /\ s.addr + SizeOf(lib, s) <= lib.seg.vaddr + lib.seg.size
               /\ lib.off[s] = lib.seg.offset + (s.addr - lib.seg.vaddr)
    <3>1. s.addr \in Nat /\ s.alloc
      BY <2>2, TablesAssumption
    <3>2. lib.seg.offset = 0 /\ lib.seg.vaddr = 0 /\ lib.seg.size \in Nat /\ SizeOf(lib, s) \in Nat
          /\ s.addr + SizeOf(lib, s) <= lib.seg.size /\ lib.off[s] = s.addr
      BY <2>2, <3>1 DEF FileInv, SegmentInv
    <3> QED BY <3>1, <3>2
  <2> QED BY <2>1, <2>2 DEF ReadOnlyLoads, FileInv
<1>2. Init => FileInv /\ LibInv /\ SegmentInv
  <2>1. ASSUME Init PROVE SegmentInv
    <3>1. edited = {} /\ \E kind \in Kinds : lib = Linked(kind)
      BY <2>1 DEF Init
    <3>2. lib.grown = FALSE
      BY <3>1 DEF Linked
    <3> QED BY <3>1, <3>2 DEF SegmentInv
  <2> QED BY <2>1, FileInit, LibInit
<1> DEFINE Inv == FileInv /\ LibInv /\ SegmentInv
<1>3. Inv /\ [Next]_vars => Inv'
  BY FileStep, LibStep, SegmentStep
<1>4. Inv => ReadOnlyLoads
  BY <1>1
<1> HIDE DEF Inv
<1>5. Init => Inv
  BY <1>2 DEF Inv
<1> QED BY <1>3, <1>4, <1>5, PTL DEF Spec

(* What the loader finds under a name.                                     *)
Globals(s, n) ==
    {s[i].value : i \in {j \in DOMAIN s : s[j].name = n /\ s[j].bind = "GLOBAL" /\ is_defined(s[j])}}

(* In a library, what is found under a name of .symtab or .dynsym.         *)
LEMMA AliasFound ==
    ASSUME NEW kind \in Kinds, NEW X, \A x \in X : OfKind(kind, x), NEW s \in Seq(X),
           NEW f \in Funcs, kind[f] # "undefined", Alias(f) \in Named(s)
    PROVE  /\ Values(s, Alias(f)) = {Address(f)}
           /\ Globals(s, Alias(f)) = {Address(f)}
<1>1. ASSUME NEW i \in DOMAIN s, s[i].name = Alias(f)
      PROVE  is_defined(s[i]) /\ s[i].bind = "GLOBAL" /\ s[i].value = Address(f)
  <2>1. OfKind(kind, s[i])
    OBVIOUS
  <2>2. ASSUME NEW g \in Funcs, s[i] = Declared(kind, g) PROVE FALSE
    <3>1. s[i].name = <<g>>
      BY <2>2, Declarations
    <3>2. <<g>> # <<".dyninst.", f>>
      BY NamesApart
    <3> QED BY <3>1, <3>2, <1>1 DEF Alias
  <2>3. ASSUME IsUsage(s[i]) PROVE FALSE
    <3>1. PICK g, key : s[i].name = <<".dyninst.", g, key>>
      BY <2>3 DEF IsUsage
    <3>2. <<".dyninst.", f>> # <<".dyninst.", g, key>>
      BY NamesApart
    <3> QED BY <3>1, <3>2, <1>1 DEF Alias
  <2>4. PICK g \in Funcs : s[i] = object_alias(Declared(kind, g))
    BY <2>1, <2>2, <2>3 DEF OfKind, Aliases, Defined
  <2>5. s[i].name = Alias(g)
    BY <2>4, Declarations
  <2>6. g = f
    BY <2>5, <1>1, NamesApart DEF Alias
  <2> QED BY <2>4, <2>6, Declarations
<1>2. PICK i \in DOMAIN s : s[i].name = Alias(f)
  BY DEF Named
<1>3. Values(s, Alias(f)) = {Address(f)}
  BY <1>1, <1>2 DEF Values
<1>4. Globals(s, Alias(f)) = {Address(f)}
  BY <1>1, <1>2 DEF Globals
<1> QED BY <1>3, <1>4

LEMMA BodyFound ==
    ASSUME NEW kind \in Kinds, NEW X, \A x \in X : OfKind(kind, x), NEW s \in Seq(X),
           NEW f \in Funcs, Values(s, <<f>>) # {}
    PROVE  kind[f] # "undefined"
<1>1. PICK i \in DOMAIN s : s[i].name = <<f>> /\ is_defined(s[i])
  BY DEF Values
<1>2. OfKind(kind, s[i])
  OBVIOUS
<1>3. ASSUME NEW g \in Funcs, s[i] = object_alias(Declared(kind, g)) PROVE FALSE
  <2>1. s[i].name = Alias(g)
    BY <1>3, Declarations
  <2>2. <<f>> # <<".dyninst.", g>>
    BY NamesApart
  <2> QED BY <2>1, <2>2, <1>1 DEF Alias
<1>4. ~ IsUsage(s[i])
  BY <1>1 DEF IsUsage, is_defined
<1>5. PICK g \in Funcs : s[i] = Declared(kind, g)
  BY <1>2, <1>3, <1>4 DEF OfKind, Aliases, Defined
<1>6. s[i].name = <<g>> /\ kind[g] # "undefined"
  BY <1>1, <1>5, Declarations
<1>7. g = f
  BY <1>1, <1>6, NamesApart
<1> QED BY <1>6, <1>7

LEMMA LibraryIsFound == LibInv => ReadersFind
<1> SUFFICES ASSUME LibInv, stage = "library" PROVE ReadersFind
  BY DEF ReadersFind
<1> DEFINE In(symbols, n) == {symbols[i].value : i \in {j \in DOMAIN symbols :
                                symbols[j].name = n /\ is_defined(symbols[j])}}
<1>1. \A s, n : In(s, n) = Values(s, n)
  BY DEF Values
<1> HIDE DEF In
<1>2. PICK kind \in Kinds : LibraryOk(kind, lib, edited)
  BY DEF LibInv
<1> DEFINE Z == Dyn(kind)
<1>3. \A x \in Z : /\ ~ is_local(x) /\ x.name \in Names
                   /\ x.value \in Nat /\ (is_defined(x) <=> x.value # 0)
  BY DynIs
<1>4. \A x \in Z : OfKind(kind, x)
  BY DynIs
<1>5. Described(lib, Z)
  BY <1>2 DEF LibraryOk
<1> HIDE DEF Z
<1>6. ASSUME NEW n \in Names
      PROVE  /\ GnuFinds(lib, n) = Values(lib.dyn, n)
             /\ SysvFinds(lib, n) = Values(lib.dyn, n)
             /\ \A table \in {"hash", "gnu_hash"} : {elf_dynsym(lib, table, n)} \ {None} = Values(lib.dyn, n)
  BY <1>3, <1>5, ReadersOf
<1>7. lib.dyn \in Seq(Z)
  <2>1. lib.hash \in [Names -> Nat] /\ lib.dyn = lib.gnu.dyn
    BY <1>5 DEF Described
  <2>2. PICK d0 \in Seq(Z) : lib.gnu = regen_gnu_hash(d0, lib.hash) /\ Distinct(d0)
    BY <1>5 DEF Described
  <2>3. \A x \in Z : ~ is_local(x) /\ x.name \in Names
    BY <1>3
  <2>4. regen_gnu_hash(d0, lib.hash).dyn \in Seq(Z)
    BY <2>1, <2>2, <2>3, RegenKeeps
  <2> QED BY <2>1, <2>2, <2>4
<1>8. PICK X : lib.sym \in Seq(X) /\ \A x \in X : OfKind(kind, x)
  BY <1>2 DEF LibraryOk
<1>9. ASSUME NEW f \in Funcs, In(lib.sym, <<f>>) # {}
      PROVE  /\ "symtab" \in edited => LoaderFinds(lib, Prefixed(<<f>>)) = {Address(f)}
             /\ "dynsym" \in edited => GnuFinds(lib, Prefixed(<<f>>)) = {Address(f)}
  <2>1. kind[f] # "undefined"
    BY <1>1, <1>8, <1>9, BodyFound
  <2>2. Prefixed(<<f>>) = Alias(f) /\ Alias(f) \in Names
    <3>1. Declared(kind, f).name = <<f>> /\ Prefixed(Declared(kind, f).name) = Alias(f)
      BY Declarations
    <3>2. object_alias(Declared(kind, f)).name = Alias(f) /\ object_alias(Declared(kind, f)).name \in Names
      BY Declarations
    <3> QED BY <3>1, <3>2
  <2>3. ASSUME "symtab" \in edited PROVE LoaderFinds(lib, Alias(f)) = {Address(f)}
    <3>1. Alias(f) \in Named(lib.sym)
      BY <1>2, <2>1, <2>3 DEF LibraryOk
    <3> DEFINE s == lib.sym
    <3>2. s \in Seq(X) /\ Alias(f) \in Named(s)
      BY <3>1, <1>8
    <3> HIDE DEF s
    <3>3. Globals(s, Alias(f)) = {Address(f)}
      BY <3>2, <1>8, <2>1, AliasFound
    <3> QED BY <3>3 DEF LoaderFinds, Globals, s
  <2>4. ASSUME "dynsym" \in edited PROVE GnuFinds(lib, Alias(f)) = {Address(f)}
    <3>1. Alias(f) \in Named(lib.dyn)
      BY <1>2, <2>1, <2>4 DEF LibraryOk
    <3>2. Values(lib.dyn, Alias(f)) = {Address(f)}
      BY <3>1, <1>4, <1>7, <2>1, AliasFound
    <3> QED BY <3>2, <1>6, <2>2
  <2> QED BY <2>2, <2>3, <2>4
<1> QED BY <1>1, <1>6, <1>9 DEF ReadersFind, In

(* Every reader finds what there is to find, however often and with        *)
(* whatever hashes the tables were rewritten, and an edited table has an   *)
(* alias for every function that has a body.                               *)
THEOREM EveryReaderFinds == Spec => []ReadersFind
<1>1. FileInv /\ [Next]_vars => FileInv'
  BY FileStep
<1>2. FileInv /\ LibInv /\ [Next]_vars => LibInv'
  BY LibStep
<1>3. Init => FileInv /\ LibInv
  BY FileInit, LibInit
<1> QED BY <1>1, <1>2, <1>3, LibraryIsFound, PTL DEF Spec
-----------------------------------------------------------------------------
(***************************************************************************)
(* Sequences joined to one.                                                *)
(***************************************************************************)
LEMMA PartsExist ==
    ASSUME NEW ss, NEW m \in Nat \ {0}
    PROVE  \E e : e = [i \in 1..m |-> IF i = 1 THEN ss[i] ELSE e[i - 1] \o ss[i]]
<1> DEFINE Ok == {n \in Nat : \E e : e = [i \in 1..(n + 1) |-> IF i = 1 THEN ss[i] ELSE e[i - 1] \o ss[i]]}
<1>1. 0 \in Ok
  <2> DEFINE e == [i \in 1..1 |-> ss[1]]
  <2>1. e = [i \in 1..1 |-> IF i = 1 THEN ss[i] ELSE e[i - 1] \o ss[i]]
    OBVIOUS
  <2>2. 1..(0 + 1) = 1..1
    OBVIOUS
  <2> QED BY <2>1, <2>2
<1>2. ASSUME NEW n \in Nat, n \in Ok PROVE n + 1 \in Ok
  <2>1. PICK e : e = [i \in 1..(n + 1) |-> IF i = 1 THEN ss[i] ELSE e[i - 1] \o ss[i]]
    BY <1>2
  <2> DEFINE g == [i \in 1..(n + 2) |-> IF i = n + 2 THEN e[n + 1] \o ss[n + 2] ELSE e[i]]
  <2>2. ASSUME NEW i \in 1..(n + 2) PROVE g[i] = IF i = 1 THEN ss[i] ELSE g[i - 1] \o ss[i]
    <3>1. CASE i = n + 2
      <4>1. n + 2 \in 1..(n + 2) /\ n + 1 \in 1..(n + 2) /\ n + 1 # n + 2 /\ (n + 2) - 1 = n + 1 /\ n + 2 # 1
        OBVIOUS
      <4>2. g[n + 2] = e[n + 1] \o ss[n + 2] /\ g[n + 1] = e[n + 1]
        BY <4>1
      <4> HIDE DEF g
      <4> QED BY <4>1, <4>2, <3>1
    <3>2. CASE i \in 1..(n + 1)
      <4>1. e[i] = IF i = 1 THEN ss[i] ELSE e[i - 1] \o ss[i]
        BY <2>1, <3>2
      <4>2. g[i] = e[i] /\ (i # 1 => g[i - 1] = e[i - 1])
        BY <3>2
      <4> HIDE DEF g
      <4> QED BY <4>1, <4>2
    <3> QED BY <3>1, <3>2
  <2>3. g = [i \in 1..(n + 2) |-> g[i]]
    OBVIOUS
  <2> HIDE DEF g
  <2>4. g = [i \in 1..(n + 2) |-> IF i = 1 THEN ss[i] ELSE g[i - 1] \o ss[i]]
    BY <2>2, <2>3
  <2>5. (n + 1) + 1 = n + 2 /\ n + 1 \in Nat
    OBVIOUS
  <2>6. \E x : x = [i \in 1..((n + 1) + 1) |-> IF i = 1 THEN ss[i] ELSE x[i - 1] \o ss[i]]
    BY <2>4, <2>5
  <2> QED BY <2>5, <2>6
<1>3. Nat \subseteq Ok
  <2> HIDE DEF Ok
  <2> QED BY <1>1, <1>2, SetInduction
<1>4. m - 1 \in Nat /\ (m - 1) + 1 = m
  OBVIOUS
<1>5. m - 1 \in Ok
  <2> HIDE DEF Ok
  <2> QED BY <1>3, <1>4
<1>6. \E e : e = [i \in 1..((m - 1) + 1) |-> IF i = 1 THEN ss[i] ELSE e[i - 1] \o ss[i]]
  BY <1>5
<1> QED BY <1>4, <1>6

(* What is joined after each part.                                         *)
Joins(ss) == CHOOSE e : e = [i \in 1..Len(ss) |-> IF i = 1 THEN ss[i] ELSE e[i - 1] \o ss[i]]

(* Flattening is the last of the joins.                                    *)
LEMMA JoinsAre ==
    ASSUME NEW X, NEW ss \in Seq(Seq(X)), ss # <<>>
    PROVE  /\ FlattenSeq(ss) = Joins(ss)[Len(ss)]
           /\ Joins(ss)[1] = ss[1]
           /\ \A i \in 2..Len(ss) : Joins(ss)[i] = Joins(ss)[i - 1] \o ss[i]
<1> DEFINE e == Joins(ss)
<1>0. Len(ss) \in Nat \ {0}
  OBVIOUS
<1>1. e = [i \in 1..Len(ss) |-> IF i = 1 THEN ss[i] ELSE e[i - 1] \o ss[i]]
  <2>1. \E x : x = [i \in 1..Len(ss) |-> IF i = 1 THEN ss[i] ELSE x[i - 1] \o ss[i]]
    BY <1>0, PartsExist
  <2> QED BY <2>1 DEF Joins
<1>2. FlattenSeq(ss) = e[Len(ss)]
  BY <1>0 DEF FlattenSeq, Joins
<1> HIDE DEF e
<1>3. \A i \in 1..Len(ss) : e[i] = IF i = 1 THEN ss[i] ELSE e[i - 1] \o ss[i]
  BY <1>1
<1>4. 1 \in 1..Len(ss) /\ \A i \in 2..Len(ss) : i \in 1..Len(ss) /\ i # 1
  BY <1>0
<1> QED BY <1>2, <1>3, <1>4 DEF e

(* A part starts with all that was joined before.                          *)
LEMMA JoinsGrow ==
    ASSUME NEW X, NEW ss \in Seq(Seq(X)), ss # <<>>
    PROVE  \A i \in 1..Len(ss) :
              /\ Joins(ss)[i] \in Seq(X)
              /\ \A j \in 1..i : /\ Len(Joins(ss)[j]) <= Len(Joins(ss)[i])
                                 /\ \A p \in DOMAIN Joins(ss)[j] : Joins(ss)[i][p] = Joins(ss)[j][p]
<1> DEFINE e == Joins(ss)
           Grown(i) == /\ e[i] \in Seq(X)
                       /\ \A j \in 1..i : /\ Len(e[j]) <= Len(e[i])
                                          /\ \A p \in DOMAIN e[j] : e[i][p] = e[j][p]
           Ok == {n \in Nat : n + 1 <= Len(ss) => \A i \in 1..(n + 1) : Grown(i)}
<1>1. e[1] = ss[1] /\ \A i \in 2..Len(ss) : e[i] = e[i - 1] \o ss[i]
  BY JoinsAre
<1>2. Len(ss) \in Nat \ {0} /\ \A i \in 1..Len(ss) : ss[i] \in Seq(X)
  OBVIOUS
<1> HIDE DEF e
<1>3. 0 \in Ok
  <2>1. e[1] \in Seq(X)
    BY <1>1, <1>2
  <2>2. Len(e[1]) <= Len(e[1])
    BY <2>1
  <2>3. Grown(1)
    BY <2>1, <2>2
  <2> HIDE DEF Grown
  <2> QED BY <2>3
<1>4. ASSUME NEW n \in Nat, n \in Ok PROVE n + 1 \in Ok
  <2> SUFFICES ASSUME n + 2 <= Len(ss) PROVE \A i \in 1..(n + 2) : Grown(i)
    <3>1. (n + 1) + 1 = n + 2
      OBVIOUS
    <3> HIDE DEF Grown
    <3> QED BY <3>1
  <2>1. \A i \in 1..(n + 1) : Grown(i)
    <3> HIDE DEF Grown
    <3> QED BY <1>4
  <2>2. n + 2 \in 2..Len(ss) /\ (n + 2) - 1 = n + 1 /\ n + 1 \in 1..(n + 1)
    OBVIOUS
  <2>3. e[n + 2] = e[n + 1] \o ss[n + 2] /\ e[n + 1] \in Seq(X) /\ ss[n + 2] \in Seq(X)
    <3>1. n + 2 \in 1..Len(ss) /\ Grown(n + 1)
      <4> HIDE DEF Grown
      <4> QED BY <2>1, <2>2
    <3>2. e[n + 2] = e[(n + 2) - 1] \o ss[n + 2]
      BY <1>1, <2>2
    <3> QED BY <3>1, <3>2, <1>2, <2>2
  <2>4. /\ e[n + 2] \in Seq(X) /\ Len(e[n + 1]) <= Len(e[n + 2])
        /\ \A p \in DOMAIN e[n + 1] : e[n + 2][p] = e[n + 1][p]
    <3> DEFINE s == e[n + 1]
               t == ss[n + 2]
               all == s \o t
    <3>1. s \in Seq(X) /\ t \in Seq(X) /\ e[n + 2] = all
      BY <2>3
    <3> HIDE DEF s, t
    <3>2. /\ all \in Seq(X) /\ Len(all) = Len(s) + Len(t)
          /\ Len(s) \in Nat /\ Len(t) \in Nat
          /\ \A p \in DOMAIN s : all[p] = s[p]
      BY <3>1, ConcatIs
    <3> HIDE DEF all
    <3>3. Len(s) <= Len(all)
      BY <3>2
    <3> QED BY <3>1, <3>2, <3>3 DEF s
  <2>5. ASSUME NEW j \in 1..(n + 1)
        PROVE  Len(e[j]) <= Len(e[n + 2]) /\ \A p \in DOMAIN e[j] : e[n + 2][p] = e[j][p]
    <3>1. /\ Len(e[j]) <= Len(e[n + 1]) /\ e[j] \in Seq(X)
          /\ \A p \in DOMAIN e[j] : e[n + 1][p] = e[j][p]
      BY <2>1, <2>2
    <3>2. \A p \in DOMAIN e[j] : p \in DOMAIN e[n + 1]
      BY <3>1, <2>3
    <3>3. Len(e[j]) \in Nat /\ Len(e[n + 1]) \in Nat /\ Len(e[n + 2]) \in Nat
      BY <3>1, <2>3, <2>4, LenProperties
    <3> QED BY <3>1, <3>2, <3>3, <2>4
  <2>6. Len(e[n + 2]) <= Len(e[n + 2])
    BY <2>4
  <2>7. Grown(n + 2)
    <3>1. \A j \in 1..(n + 2) : j \in 1..(n + 1) \/ j = n + 2
      OBVIOUS
    <3> QED BY <3>1, <2>4, <2>5, <2>6
  <2>8. \A i \in 1..(n + 2) : i \in 1..(n + 1) \/ i = n + 2
    OBVIOUS
  <2> HIDE DEF Grown
  <2> QED BY <2>1, <2>7, <2>8
<1>5. Nat \subseteq Ok
  <2> HIDE DEF Ok
  <2> QED BY <1>3, <1>4, SetInduction
<1>6. \A i \in 1..Len(ss) : Grown(i)
  <2>1. Len(ss) - 1 \in Ok /\ (Len(ss) - 1) + 1 = Len(ss)
    <3> HIDE DEF Ok
    <3>1. Len(ss) - 1 \in Nat /\ (Len(ss) - 1) + 1 = Len(ss)
      BY <1>2
    <3> QED BY <3>1, <1>5
  <2> HIDE DEF Grown
  <2> QED BY <2>1, <1>2
<1> QED BY <1>6 DEF e

(* Where the parts begin.                                                  *)
Begins(st, ss, flat) ==
    /\ st \in [1..(Len(ss) + 1) -> Nat]
    /\ st[1] = 0 /\ Len(flat) = st[Len(ss) + 1]
    /\ \A a \in 1..Len(ss) : /\ st[a + 1] = st[a] + Len(ss[a])
                             /\ \A j \in DOMAIN ss[a] : flat[st[a] + j] = ss[a][j]
    /\ \A a, b \in 1..(Len(ss) + 1) : a <= b => st[a] <= st[b]
    /\ \A p \in DOMAIN flat : \E a \in 1..Len(ss) : p \in (st[a] + 1)..st[a + 1]

(* Each part stands in the flat sequence where those before it end.        *)
LEMMA FlattenIs ==
    ASSUME NEW X, NEW ss \in Seq(Seq(X)), ss # <<>>
    PROVE  FlattenSeq(ss) \in Seq(X) /\ \E st : Begins(st, ss, FlattenSeq(ss))
<1> DEFINE e == Joins(ss)
           n == Len(ss)
           flat == FlattenSeq(ss)
<1>1. flat = e[n] /\ e[1] = ss[1] /\ \A i \in 2..n : e[i] = e[i - 1] \o ss[i]
  BY JoinsAre
<1>2. n \in Nat \ {0} /\ \A i \in 1..n : ss[i] \in Seq(X)
  OBVIOUS
<1>3. \A i \in 1..n : /\ e[i] \in Seq(X)
                      /\ \A j \in 1..i : /\ Len(e[j]) <= Len(e[i])
                                         /\ \A p \in DOMAIN e[j] : e[i][p] = e[j][p]
  BY JoinsGrow
<1> HIDE DEF e, n, flat
<1> DEFINE st == [a \in 1..(n + 1) |-> IF a = 1 THEN 0 ELSE Len(e[a - 1])]
<1>4. ASSUME NEW a \in 1..n PROVE st[a + 1] = Len(e[a]) /\ Len(e[a]) \in Nat /\ DOMAIN e[a] = 1..Len(e[a])
  <2>1. a + 1 \in 1..(n + 1) /\ a + 1 # 1 /\ (a + 1) - 1 = a
    BY <1>2
  <2> QED BY <2>1, <1>3
<1>5. st[1] = 0 /\ DOMAIN st = 1..(n + 1)
  BY <1>2
<1> HIDE DEF st
<1>6. \A a \in 1..(n + 1) : a = 1 \/ (a - 1 \in 1..n /\ (a - 1) + 1 = a)
  BY <1>2
<1>7. ASSUME NEW a \in 1..(n + 1) PROVE st[a] \in Nat
  BY <1>4, <1>5, <1>6
<1>8. ASSUME NEW a \in 1..(n + 1), NEW b \in 1..(n + 1), a <= b PROVE st[a] <= st[b]
  <2>1. CASE a = 1
    BY <2>1, <1>5, <1>7
  <2>2. CASE a # 1
    <3>1. a - 1 \in 1..n /\ b - 1 \in 1..n /\ a - 1 \in 1..(b - 1) /\ (a - 1) + 1 = a /\ (b - 1) + 1 = b
      BY <2>2, <1>2, <1>8
    <3>2. Len(e[a - 1]) <= Len(e[b - 1])
      BY <3>1, <1>3
    <3>3. st[(a - 1) + 1] = Len(e[a - 1]) /\ st[(b - 1) + 1] = Len(e[b - 1])
      BY <3>1, <1>4
    <3> QED BY <3>1, <3>2, <3>3
  <2> QED BY <2>1, <2>2
<1>9. ASSUME NEW a \in 1..n
      PROVE  /\ st[a + 1] = st[a] + Len(ss[a])
             /\ \A j \in DOMAIN ss[a] : e[a][st[a] + j] = ss[a][j] /\ st[a] + j \in DOMAIN e[a]
  <2>1. CASE a = 1
    <3>1. Len(ss[1]) \in Nat /\ st[1 + 1] = Len(e[1])
      BY <1>2, <1>4, <2>1
    <3>2. \A j \in DOMAIN ss[1] : 0 + j = j
      BY <1>2
    <3> QED BY <3>1, <3>2, <2>1, <1>1, <1>5
  <2>2. CASE a # 1
    <3>1. a \in 2..n /\ a - 1 \in 1..n /\ (a - 1) + 1 = a
      BY <2>2, <1>2
    <3>2. e[a] = e[a - 1] \o ss[a] /\ e[a - 1] \in Seq(X) /\ ss[a] \in Seq(X) /\ st[a] = Len(e[a - 1])
      BY <3>1, <1>1, <1>2, <1>3, <1>4
    <3>3. /\ Len(e[a]) = Len(e[a - 1]) + Len(ss[a])
          /\ \A j \in DOMAIN ss[a] : j + Len(e[a - 1]) \in DOMAIN e[a] /\ e[a][j + Len(e[a - 1])] = ss[a][j]
      <4> DEFINE s == e[a - 1]
                 t == ss[a]
                 all == s \o t
      <4>1. s \in Seq(X) /\ t \in Seq(X) /\ e[a] = all
        BY <3>2
      <4> HIDE DEF s, t
      <4>2. /\ Len(all) = Len(s) + Len(t)
            /\ \A j \in DOMAIN t : j + Len(s) \in DOMAIN all /\ all[j + Len(s)] = t[j]
        BY <4>1, ConcatIs
      <4> HIDE DEF all
      <4> QED BY <4>1, <4>2 DEF s, t
    <3>4. \A j \in DOMAIN ss[a] : j + Len(e[a - 1]) = st[a] + j
      BY <3>2
    <3> QED BY <3>2, <3>3, <3>4, <1>4
  <2> QED BY <2>1, <2>2
<1>10. n \in 1..n /\ flat \in Seq(X) /\ Len(flat) = st[n + 1] /\ DOMAIN flat = 1..Len(flat)
  BY <1>1, <1>2, <1>3, <1>4
<1>11. ASSUME NEW a \in 1..n, NEW j \in DOMAIN ss[a] PROVE flat[st[a] + j] = ss[a][j]
  <2>1. a \in 1..n /\ n \in 1..n
    BY <1>2
  <2>2. st[a] + j \in DOMAIN e[a] /\ e[a][st[a] + j] = ss[a][j]
    BY <1>9
  <2>3. e[n][st[a] + j] = e[a][st[a] + j]
    BY <2>1, <2>2, <1>3
  <2> QED BY <2>2, <2>3, <1>1
<1>12. ASSUME NEW p \in DOMAIN flat PROVE \E a \in 1..n : p \in (st[a] + 1)..st[a + 1]
  <2> DEFINE S == {a \in 1..n : p <= st[a + 1]}
  <2>1. n \in S /\ S \in SUBSET Nat /\ p \in Nat \ {0}
    BY <1>10
  <2>2. PICK a \in S : \A m \in S : a <= m
    BY <2>1, LeastNumber
  <2>3. st[a] < p
    <3>1. CASE a = 1
      BY <3>1, <2>1, <1>5
    <3>2. CASE a # 1
      <4>1. a \in 1..n /\ a - 1 \in 1..n /\ (a - 1) + 1 = a /\ ~ (a <= a - 1)
        BY <3>2, <2>2, <1>2
      <4>2. a - 1 \notin S
        BY <4>1, <2>2
      <4>3. ~ (p <= st[a])
        BY <4>1, <4>2
      <4>4. st[a] \in Nat
        BY <4>1, <1>6, <1>7, <1>2
      <4> QED BY <4>3, <4>4, <2>1
    <3> QED BY <3>1, <3>2
  <2>4. a \in 1..(n + 1) /\ a + 1 \in 1..(n + 1)
    BY <2>2, <1>2
  <2> QED BY <2>1, <2>2, <2>3, <2>4, <1>7
<1>13. st \in [1..(n + 1) -> Nat]
  <2>1. st = [a \in 1..(n + 1) |-> st[a]]
    BY <1>5 DEF st
  <2> QED BY <2>1, <1>7
<1>14. Begins(st, ss, flat)
  BY <1>5, <1>8, <1>9, <1>10, <1>11, <1>12, <1>13 DEF Begins, n
<1> QED BY <1>10, <1>14 DEF flat
-----------------------------------------------------------------------------
(***************************************************************************)
(* The arguments the note lists.                                           *)
(***************************************************************************)
HiddenKinds == {"hidden_block_count_x", "hidden_block_count_y", "hidden_group_size_x",
                "hidden_group_size_y", "hidden_remainder_x"}

Keys  == {".address_space", ".name", ".offset", ".size", ".value_kind"}
(* What a field of an argument may hold: a number or one of the words.     *)
Words == {"global", "__pw_extra", "global_buffer", "by_value"} \union HiddenKinds
Pair  == Keys \X (Nat \union Words)

(* An argument as the compiler and the editors write it.                   *)
ArgIs(arg, at, size, kind) ==
    /\ arg \in Seq(Pair) /\ Len(arg) >= 3
    /\ arg[Len(arg) - 2] = <<".offset", at>>
    /\ arg[Len(arg) - 1] = <<".size", size>>
    /\ arg[Len(arg)] = <<".value_kind", kind>>
    /\ \A c \in 1..(Len(arg) - 3) : arg[c][1] \in {".address_space", ".name"}

(* A key that occurs once reads as its value.                              *)
LEMMA GetAt ==
    ASSUME NEW arg, DOMAIN arg \in SUBSET Nat, NEW c \in DOMAIN arg,
           \A d \in DOMAIN arg : arg[d][1] = arg[c][1] => d = c
    PROVE  Get(arg, arg[c][1]) = arg[c][2]
<1> DEFINE S == {d \in DOMAIN arg : arg[d][1] = arg[c][1]}
<1>1. S = {c}
  OBVIOUS
<1>2. Min({c}) = c
  <2>1. {c} \in SUBSET Nat /\ {c} # {}
    OBVIOUS
  <2>2. Min({c}) \in {c}
    BY <2>1, MinIs
  <2> QED BY <2>2
<1>3. Get(arg, arg[c][1]) = arg[Min(S)][2]
  BY DEF Get
<1> HIDE DEF S
<1> QED BY <1>1, <1>2, <1>3

(* The three fields every argument has are read as they were written.      *)
LEMMA GetIs ==
    ASSUME NEW arg, NEW at, NEW size, NEW kind, ArgIs(arg, at, size, kind)
    PROVE  Get(arg, ".offset") = at /\ Get(arg, ".size") = size /\ Get(arg, ".value_kind") = kind
<1> DEFINE n == Len(arg)
<1>1. n \in Nat /\ n >= 3 /\ DOMAIN arg = 1..n
  BY DEF ArgIs
<1>2. /\ arg[n - 2] = <<".offset", at>> /\ arg[n - 1] = <<".size", size>> /\ arg[n] = <<".value_kind", kind>>
      /\ \A c \in 1..(n - 3) : arg[c][1] \in {".address_space", ".name"}
  BY DEF ArgIs
<1> HIDE DEF n
<1>3. \A d \in 1..n : d \in 1..(n - 3) \/ d = n - 2 \/ d = n - 1 \/ d = n
  BY <1>1
<1>4. n - 2 \in 1..n /\ n - 1 \in 1..n /\ n \in 1..n /\ DOMAIN arg \in SUBSET Nat
  BY <1>1
<1>5. /\ arg[n - 2][1] = ".offset" /\ arg[n - 2][2] = at
      /\ arg[n - 1][1] = ".size" /\ arg[n - 1][2] = size
      /\ arg[n][1] = ".value_kind" /\ arg[n][2] = kind
  BY <1>2
<1>6. \A d \in DOMAIN arg : arg[d][1] = ".offset" => d = n - 2
  BY <1>1, <1>2, <1>3, <1>5
<1>7. \A d \in DOMAIN arg : arg[d][1] = ".size" => d = n - 1
  BY <1>1, <1>2, <1>3, <1>5
<1>8. \A d \in DOMAIN arg : arg[d][1] = ".value_kind" => d = n
  BY <1>1, <1>2, <1>3, <1>5
<1>9. Get(arg, arg[n - 2][1]) = arg[n - 2][2]
  BY <1>1, <1>4, <1>5, <1>6, GetAt
<1>10. Get(arg, arg[n - 1][1]) = arg[n - 1][2]
  BY <1>1, <1>4, <1>5, <1>7, GetAt
<1>11. Get(arg, arg[n][1]) = arg[n][2]
  BY <1>1, <1>4, <1>5, <1>8, GetAt
<1> QED BY <1>5, <1>9, <1>10, <1>11

(* An argument passed by value, or a hidden one.                           *)
LEMMA PlainIs ==
    ASSUME NEW at \in Nat, NEW size \in Nat, NEW kind \in Words
    PROVE  ArgIs(<< <<".offset", at>>, <<".size", size>>, <<".value_kind", kind>> >>, at, size, kind)
<1> DEFINE arg == << <<".offset", at>>, <<".size", size>>, <<".value_kind", kind>> >>
<1>1. <<".offset", at>> \in Pair /\ <<".size", size>> \in Pair /\ <<".value_kind", kind>> \in Pair
  <2>1. ".offset" \in Keys /\ ".size" \in Keys /\ ".value_kind" \in Keys
    BY DEF Keys
  <2> QED BY <2>1 DEF Pair
<1>2. arg \in Seq(Pair) /\ Len(arg) = 3
  <2> HIDE DEF Pair
  <2> QED BY <1>1
<1>3. arg[1] = <<".offset", at>> /\ arg[2] = <<".size", size>> /\ arg[3] = <<".value_kind", kind>>
  OBVIOUS
<1> HIDE DEF arg
<1>4. /\ arg[Len(arg) - 2] = <<".offset", at>> /\ arg[Len(arg) - 1] = <<".size", size>>
      /\ arg[Len(arg)] = <<".value_kind", kind>>
  BY <1>2, <1>3
<1>5. 1..(Len(arg) - 3) = {}
  BY <1>2
<1>6. ArgIs(arg, at, size, kind)
  BY <1>2, <1>4, <1>5 DEF ArgIs
<1> QED BY <1>6 DEF arg

(* Keys before those of a plain argument.                                  *)
LEMMA PrefixedIs ==
    ASSUME NEW pre \in Seq(Pair), \A c \in DOMAIN pre : pre[c][1] \in {".address_space", ".name"},
           NEW arg, NEW at, NEW size, NEW kind, ArgIs(arg, at, size, kind), Len(arg) = 3
    PROVE  ArgIs(pre \o arg, at, size, kind)
<1> DEFINE all == pre \o arg
           m == Len(pre)
<1>1. /\ arg \in Seq(Pair)
      /\ arg[1] = <<".offset", at>> /\ arg[2] = <<".size", size>> /\ arg[3] = <<".value_kind", kind>>
  BY DEF ArgIs
<1>2. m \in Nat /\ DOMAIN pre = 1..m /\ DOMAIN arg = 1..3
  BY <1>1
<1>3. /\ all \in Seq(Pair) /\ Len(all) = m + 3
      /\ \A r \in DOMAIN pre : all[r] = pre[r]
      /\ \A r \in DOMAIN arg : all[r + m] = arg[r]
  <2> HIDE DEF Pair
  <2>1. Joined(pre, arg, pre \o arg, Pair)
    BY <1>1, Concatenated
  <2> QED BY <2>1 DEF Joined
<1> HIDE DEF all, m
<1>4. all[1 + m] = arg[1] /\ all[2 + m] = arg[2] /\ all[3 + m] = arg[3]
  BY <1>2, <1>3
<1>5. /\ Len(all) - 2 = 1 + m /\ Len(all) - 1 = 2 + m /\ Len(all) = 3 + m /\ Len(all) - 3 = m /\ Len(all) >= 3
  BY <1>2, <1>3
<1>6. \A c \in 1..(Len(all) - 3) : all[c][1] \in {".address_space", ".name"}
  BY <1>2, <1>3, <1>5
<1>7. ArgIs(all, at, size, kind)
  BY <1>1, <1>3, <1>4, <1>5, <1>6 DEF ArgIs
<1> QED BY <1>7 DEF all

(* An argument that is a pointer, named or not.                            *)
LEMMA BufferIs ==
    ASSUME NEW at \in Nat, NEW i \in Nat, NEW s
    PROVE  ArgIs(<< <<".address_space", "global">> >>
                  \o (IF s.named THEN << <<".name", i>> >> ELSE <<>>)
                  \o << <<".offset", at>>, <<".size", 8>>, <<".value_kind", "global_buffer">> >>,
                 at, 8, "global_buffer")
<1> DEFINE tail == << <<".offset", at>>, <<".size", 8>>, <<".value_kind", "global_buffer">> >>
           a == <<".address_space", "global">>
           b == <<".name", i>>
           name == IF s.named THEN <<b>> ELSE <<>>
           pre == <<a>> \o name
<1>1. ArgIs(tail, at, 8, "global_buffer") /\ Len(tail) = 3
  <2>1. "global_buffer" \in Words
    BY DEF Words
  <2>2. ArgIs(tail, at, 8, "global_buffer")
    BY <2>1, PlainIs
  <2> QED BY <2>2
<1>2. a \in Pair /\ b \in Pair /\ a[1] = ".address_space" /\ b[1] = ".name"
  <2>1. ".address_space" \in Keys /\ ".name" \in Keys /\ "global" \in Words
    BY DEF Keys, Words
  <2> QED BY <2>1 DEF Pair
<1> HIDE DEF tail, a, b
<1>3. name \in Seq(Pair) /\ \A c \in DOMAIN name : name[c] = b
  <2>1. CASE s.named
    <3>1. name = <<b>>
      BY <2>1
    <3> HIDE DEF name
    <3> QED BY <3>1, <1>2
  <2>2. CASE ~ s.named
    <3>1. name = <<>>
      BY <2>2
    <3> HIDE DEF name
    <3> QED BY <3>1
  <2> QED BY <2>1, <2>2
<1>4. <<a>> \in Seq(Pair) /\ \A c \in DOMAIN <<a>> : <<a>>[c] = a
  BY <1>2
<1> HIDE DEF name
<1>5. pre \in Seq(Pair) /\ \A c \in DOMAIN pre : pre[c] \in {a, b}
  <2> DEFINE one == <<a>>
  <2>1. one \in Seq(Pair) /\ (\A c \in DOMAIN one : one[c] = a) /\ pre = one \o name
    BY <1>4
  <2> HIDE DEF one, pre
  <2>2. Joined(one, name, one \o name, Pair)
    BY <2>1, <1>3, Concatenated
  <2>3. /\ one \o name \in Seq(Pair)
        /\ \A c \in DOMAIN (one \o name) : \/ c \in DOMAIN one /\ (one \o name)[c] = one[c]
                                           \/ c - Len(one) \in DOMAIN name /\ (one \o name)[c] = name[c - Len(one)]
    BY <2>2 DEF Joined
  <2> QED BY <2>1, <2>3, <1>3
<1> HIDE DEF pre
<1>6. \A c \in DOMAIN pre : pre[c][1] \in {".address_space", ".name"}
  BY <1>2, <1>5
<1>7. ArgIs(pre \o tail, at, 8, "global_buffer")
  BY <1>1, <1>5, <1>6, PrefixedIs
<1> QED BY <1>7 DEF pre, name, tail, a, b

(* The parts of the hidden block lie one after the other and have names of *)
(* their own.                                                              *)
LEMMA HiddenBlocks ==
    /\ HiddenLayout \in Seq({HiddenLayout[j] : j \in 1..5}) /\ Len(HiddenLayout) = 5
    /\ DOMAIN HiddenLayout = 1..5
    /\ HiddenLayout[1] = <<"hidden_block_count_x", 0, 4>>
    /\ HiddenLayout[3] = <<"hidden_group_size_x", 12, 2>>
    /\ \A j \in 1..5 : /\ HiddenLayout[j][1] \in HiddenKinds
                       /\ HiddenLayout[j][2] \in Nat /\ HiddenLayout[j][3] \in Nat \ {0}
                       /\ HiddenLayout[j][2] + HiddenLayout[j][3] <= 256
    /\ \A j, l \in 1..5 : j < l => /\ HiddenLayout[j][2] + HiddenLayout[j][3] <= HiddenLayout[l][2]
                                   /\ HiddenLayout[j][1] # HiddenLayout[l][1]
<1> DEFINE h == HiddenLayout
<1>1. /\ h[1] = <<"hidden_block_count_x", 0, 4>> /\ h[2] = <<"hidden_block_count_y", 4, 4>>
      /\ h[3] = <<"hidden_group_size_x", 12, 2>> /\ h[4] = <<"hidden_group_size_y", 14, 2>>
      /\ h[5] = <<"hidden_remainder_x", 18, 2>>
      /\ DOMAIN h = 1..5 /\ Len(h) = 5
  BY DEF HiddenLayout
<1>2. h \in Seq({h[j] : j \in 1..5})
  <2>1. h = [j \in 1..5 |-> h[j]]
    BY DEF HiddenLayout
  <2> HIDE DEF h
  <2> QED BY <2>1
<1> HIDE DEF h
<1>3. \A j \in 1..5 : j = 1 \/ j = 2 \/ j = 3 \/ j = 4 \/ j = 5
  OBVIOUS
<1>4. /\ h[1][1] = "hidden_block_count_x" /\ h[1][2] = 0 /\ h[1][3] = 4
      /\ h[2][1] = "hidden_block_count_y" /\ h[2][2] = 4 /\ h[2][3] = 4
      /\ h[3][1] = "hidden_group_size_x" /\ h[3][2] = 12 /\ h[3][3] = 2
      /\ h[4][1] = "hidden_group_size_y" /\ h[4][2] = 14 /\ h[4][3] = 2
      /\ h[5][1] = "hidden_remainder_x" /\ h[5][2] = 18 /\ h[5][3] = 2
  BY <1>1
<1>5. \A j \in 1..5 : h[j][1] \in HiddenKinds
  BY <1>3, <1>4 DEF HiddenKinds
<1>6. \A j \in 1..5 : h[j][2] \in Nat /\ h[j][3] \in Nat \ {0} /\ h[j][2] + h[j][3] <= 256
  BY <1>3, <1>4
<1>7. ASSUME NEW j \in 1..5, NEW l \in 1..5, j < l PROVE h[j][2] + h[j][3] <= h[l][2]
  BY <1>3, <1>4, <1>7
<1>8. ASSUME NEW j \in 1..5, NEW l \in 1..5, j < l PROVE h[j][1] # h[l][1]
  BY <1>3, <1>4, <1>8
<1> QED BY <1>1, <1>2, <1>5, <1>6, <1>7, <1>8 DEF h

(* A function over 1..m is a sequence.                                     *)
LEMMA ListIs ==
    ASSUME NEW X, NEW m \in Nat, NEW f, f = [i \in 1..m |-> f[i]], \A i \in 1..m : f[i] \in X
    PROVE  f \in Seq(X) /\ Len(f) = m
OBVIOUS

(* The kind the compiler gives an explicit argument.                       *)
KindOf(s, b) == IF s.sizes[b] = 8 THEN "global_buffer" ELSE "by_value"

(* The list of a kernel: its own arguments, then the hidden ones.          *)
Listed(s, args) ==
    LET n == Len(s.sizes) IN
    /\ args \in Seq(Seq(Pair)) /\ Len(args) >= n + 5
    /\ \A b \in 1..n : ArgIs(args[b], OffsetOf(s.sizes)[b], s.sizes[b], KindOf(s, b))
    /\ \A j \in 1..5 : ArgIs(args[n + j], HiddenAt(s) + HiddenLayout[j][2], HiddenLayout[j][3], HiddenLayout[j][1])

(* The compiler lists the arguments so.                                    *)
LEMMA CompiledArgs ==
    ASSUME NEW s, s.sizes \in Seq({4, 8})
    PROVE  Listed(s, Compiled(s).args) /\ Len(Compiled(s).args) = Len(s.sizes) + 5
<1> DEFINE n == Len(s.sizes)
           o == OffsetOf(s.sizes)
           buffer(i) == << <<".address_space", "global">> >>
                        \o (IF s.named THEN << <<".name", i>> >> ELSE <<>>)
                        \o << <<".offset", o[i]>>, <<".size", 8>>, <<".value_kind", "global_buffer">> >>
           plain(at, size, kind) == << <<".offset", at>>, <<".size", size>>, <<".value_kind", kind>> >>
           x == [i \in DOMAIN s.sizes |-> IF s.sizes[i] = 8 THEN buffer(i) ELSE plain(o[i], 4, "by_value")]
           y == [i \in DOMAIN HiddenLayout |->
                    plain(HiddenAt(s) + HiddenLayout[i][2], HiddenLayout[i][3], HiddenLayout[i][1])]
<1>1. Compiled(s).args = x \o y
  BY DEF Compiled
<1>2. n \in Nat /\ DOMAIN s.sizes = 1..n /\ \A i \in 1..n : s.sizes[i] \in {4, 8}
  OBVIOUS
<1>3. o \in [1..(n + 1) -> Nat]
  BY Layout
<1>4. ASSUME NEW b \in 1..n PROVE x[b] \in Seq(Pair) /\ ArgIs(x[b], o[b], s.sizes[b], KindOf(s, b))
  <2>1. o[b] \in Nat /\ b \in Nat /\ b \in DOMAIN s.sizes
    BY <1>2, <1>3
  <2>2. CASE s.sizes[b] = 8
    <3>1. x[b] = buffer(b)
      BY <2>1, <2>2
    <3>2. ArgIs(buffer(b), o[b], 8, "global_buffer")
      <4> HIDE DEF o
      <4> QED BY <2>1, BufferIs
    <3>3. KindOf(s, b) = "global_buffer"
      BY <2>2 DEF KindOf
    <3> HIDE DEF x, buffer
    <3>4. ArgIs(x[b], o[b], s.sizes[b], KindOf(s, b))
      BY <3>1, <3>2, <3>3, <2>2
    <3> QED BY <3>4 DEF ArgIs
  <2>3. CASE s.sizes[b] # 8
    <3>1. x[b] = plain(o[b], 4, "by_value") /\ s.sizes[b] = 4
      BY <1>2, <2>1, <2>3
    <3>2. "by_value" \in Words
      BY DEF Words
    <3>3. ArgIs(plain(o[b], 4, "by_value"), o[b], 4, "by_value")
      <4> HIDE DEF o
      <4> QED BY <2>1, <3>2, PlainIs
    <3>4. KindOf(s, b) = "by_value"
      BY <2>3 DEF KindOf
    <3> HIDE DEF x, plain
    <3>5. ArgIs(x[b], o[b], s.sizes[b], KindOf(s, b))
      BY <3>1, <3>3, <3>4
    <3> QED BY <3>5 DEF ArgIs
  <2> QED BY <2>2, <2>3
<1>5. ASSUME NEW j \in 1..5
      PROVE  /\ y[j] \in Seq(Pair)
             /\ ArgIs(y[j], HiddenAt(s) + HiddenLayout[j][2], HiddenLayout[j][3], HiddenLayout[j][1])
  <2> DEFINE at == HiddenAt(s) + HiddenLayout[j][2]
             size == HiddenLayout[j][3]
             kind == HiddenLayout[j][1]
  <2>1. at \in Nat /\ size \in Nat /\ kind \in Words
    <3>1. HiddenAt(s) \in Nat
      BY HiddenNat
    <3>2. HiddenLayout[j][2] \in Nat /\ HiddenLayout[j][3] \in Nat /\ HiddenLayout[j][1] \in HiddenKinds
      BY HiddenBlocks
    <3> QED BY <3>1, <3>2 DEF Words
  <2>2. y[j] = plain(at, size, kind)
    BY HiddenBlocks
  <2> HIDE DEF at, size, kind
  <2>3. ArgIs(plain(at, size, kind), at, size, kind)
    BY <2>1, PlainIs
  <2> HIDE DEF plain, y
  <2>4. ArgIs(y[j], at, size, kind)
    BY <2>2, <2>3
  <2>5. y[j] \in Seq(Pair)
    BY <2>4 DEF ArgIs
  <2> QED BY <2>4, <2>5 DEF at, size, kind
<1>6. DOMAIN x = 1..n /\ DOMAIN y = 1..5
  BY <1>2, HiddenBlocks
<1> HIDE DEF buffer, plain, x, y
<1>7. x \in Seq(Seq(Pair)) /\ Len(x) = n /\ y \in Seq(Seq(Pair)) /\ Len(y) = 5
  <2>1. x = [i \in 1..n |-> x[i]] /\ y = [i \in 1..5 |-> y[i]]
    BY <1>6 DEF x, y
  <2>2. (\A i \in 1..n : x[i] \in Seq(Pair)) /\ (\A i \in 1..5 : y[i] \in Seq(Pair))
    BY <1>4, <1>5
  <2>3. x \in Seq(Seq(Pair)) /\ Len(x) = n
    BY <2>1, <2>2, <1>2, ListIs
  <2>4. y \in Seq(Seq(Pair)) /\ Len(y) = 5
    BY <2>1, <2>2, ListIs
  <2> QED BY <2>3, <2>4
<1> DEFINE A == x \o y
<1>8. /\ A \in Seq(Seq(Pair)) /\ Len(A) = n + 5
      /\ \A b \in 1..n : A[b] = x[b]
      /\ \A j \in 1..5 : A[j + n] = y[j]
  <2>1. Joined(x, y, x \o y, Seq(Pair))
    BY <1>7, Concatenated
  <2> QED BY <2>1, <1>6, <1>7 DEF Joined
<1> HIDE DEF A
<1>9. \A j \in 1..5 : j + n = n + j
  BY <1>2
<1>10. Listed(s, A)
  BY <1>2, <1>4, <1>5, <1>8, <1>9 DEF Listed
<1> QED BY <1>1, <1>8, <1>10 DEF A

-----------------------------------------------------------------------------
(* A clone has an offset and a size of its own and the kind of the buffer  *)
(* it is made from.                                                        *)
Holding(r, arg, key, val) ==
    /\ r \in Seq(Pair) /\ Has(r, key) /\ Get(r, key) = val
    /\ \A other \in Keys \ {key} : Has(arg, other) => Has(r, other) /\ Get(r, other) = Get(arg, other)

(* Put writes one field and leaves the others.                             *)
LEMMA PutIs ==
    ASSUME NEW arg \in Seq(Pair), NEW key \in Keys, NEW val \in Nat \union Words
    PROVE  Holding(Put(arg, key, val), arg, key, val)
<1> DEFINE r == Put(arg, key, val)
           new == <<key, val>>
           At(s, w) == {i \in DOMAIN s : s[i][1] = w}
<1>1. new \in Pair /\ new[1] = key /\ new[2] = val
  BY DEF Pair
<1>2. DOMAIN arg = 1..Len(arg) /\ Len(arg) \in Nat /\ \A i \in DOMAIN arg : arg[i] \in Pair
  OBVIOUS
<1> HIDE DEF new
<1>3. \A s, w : /\ Get(s, w) = s[Min(At(s, w))][2]
                /\ Has(s, w) <=> At(s, w) # {}
  BY DEF Get, Has
<1>4. CASE Has(arg, key)
  <2>1. r = [i \in DOMAIN arg |-> IF arg[i][1] = key THEN new ELSE arg[i]]
    BY <1>4 DEF Put, new
  <2> HIDE DEF r
  <2>2. r \in Seq(Pair)
    <3>1. \A i \in 1..Len(arg) : (IF arg[i][1] = key THEN new ELSE arg[i]) \in Pair
      BY <1>1, <1>2
    <3>2. r \in [1..Len(arg) -> Pair]
      BY <2>1, <3>1, <1>2
    <3> QED BY <3>2, <1>2
  <2>3. DOMAIN r = DOMAIN arg /\ \A i \in DOMAIN arg : r[i][1] = arg[i][1]
    BY <2>1, <1>1
  <2>4. \A w : At(r, w) = At(arg, w)
    BY <2>3
  <2>5. \A w : At(arg, w) \in SUBSET Nat
    BY <1>2
  <2> HIDE DEF At
  <2>6. ASSUME NEW w, At(arg, w) # {} PROVE Min(At(arg, w)) \in At(arg, w)
    BY <2>5, <2>6, MinIs
  <2>7. At(arg, key) # {}
    BY <1>3, <1>4
  <2>8. Get(r, key) = val
    <3>1. Min(At(arg, key)) \in DOMAIN arg /\ arg[Min(At(arg, key))][1] = key
      BY <2>6, <2>7 DEF At
    <3> QED BY <3>1, <2>1, <2>4, <1>1, <1>3
  <2>9. ASSUME NEW other \in Keys \ {key}, Has(arg, other)
        PROVE  Has(r, other) /\ Get(r, other) = Get(arg, other)
    <3>1. At(arg, other) # {}
      BY <2>9, <1>3
    <3>2. Min(At(arg, other)) \in DOMAIN arg /\ arg[Min(At(arg, other))][1] = other
      BY <2>6, <3>1 DEF At
    <3>3. r[Min(At(arg, other))] = arg[Min(At(arg, other))]
      BY <3>2, <2>1
    <3> QED BY <3>1, <3>3, <2>4, <1>3
  <2>10. Has(r, key)
    BY <2>4, <2>7, <1>3
  <2> QED BY <2>2, <2>8, <2>9, <2>10 DEF r, Holding
<1>5. CASE ~ Has(arg, key)
  <2> DEFINE m == Len(arg) + 1
  <2>1. r = Append(arg, new)
    BY <1>5 DEF Put, new
  <2> HIDE DEF r
  <2>2. /\ r \in Seq(Pair) /\ DOMAIN r = 1..m /\ m \in 1..m /\ r[m] = new
        /\ \A i \in 1..Len(arg) : i \in 1..m /\ r[i] = arg[i]
        /\ \A i \in 1..m : i = m \/ i \in 1..Len(arg)
    BY <2>1, <1>1, <1>2
  <2> HIDE DEF m
  <2>3. At(r, key) = {m}
    BY <2>2, <1>1, <1>2, <1>5 DEF Has
  <2>4. Get(r, key) = val
    <3>1. {m} \in SUBSET Nat /\ {m} # {}
      BY <1>2 DEF m
    <3>2. Min({m}) = m
      BY <3>1, MinIs
    <3> HIDE DEF At
    <3> QED BY <3>2, <2>2, <2>3, <1>1, <1>3
  <2>5. ASSUME NEW other \in Keys \ {key}, Has(arg, other)
        PROVE  Has(r, other) /\ Get(r, other) = Get(arg, other)
    <3>1. At(r, other) = At(arg, other)
      BY <2>2, <1>1, <1>2
    <3>2. At(arg, other) # {} /\ At(arg, other) \in SUBSET Nat
      <4>1. At(arg, other) \in SUBSET Nat
        BY <1>2
      <4> HIDE DEF At
      <4> QED BY <4>1, <2>5, <1>3
    <3>3. Min(At(arg, other)) \in 1..Len(arg)
      <4>1. Min(At(arg, other)) \in At(arg, other)
        <5> HIDE DEF At
        <5> QED BY <3>2, MinIs
      <4> QED BY <4>1, <1>2
    <3> HIDE DEF At
    <3> QED BY <3>1, <3>2, <3>3, <2>2, <1>3
  <2>6. Has(r, key)
    <3> HIDE DEF At
    <3> QED BY <2>3, <1>3
  <2> QED BY <2>2, <2>4, <2>5, <2>6 DEF r, Holding
<1> QED BY <1>4, <1>5

(* The argument that holds the per-wave buffer.                            *)
Extra(args, s) ==
    LET c == args[Len(s.sizes) + 6] IN
    Get(c, ".offset") = OriginalSize(s) /\ Get(c, ".size") = 8 /\ Get(c, ".value_kind") = "global_buffer"

(* Expanding keeps the list and, where the kernel is grown, adds one.      *)
LEMMA ExpandedListed ==
    ASSUME NEW s, s.sizes \in Seq({4, 8})
    PROVE  LET n == Len(s.sizes)
               args == ExpandedArgs(Compiled(s).args, OriginalSize(s))
               ksize == ExpandedSize(Compiled(s).args, OriginalSize(s))
           IN  /\ Listed(s, args)
               /\ \/ Len(args) = n + 5 /\ ksize = OriginalSize(s)
                  \/ Len(args) = n + 6 /\ Extra(args, s) /\ ksize = OriginalSize(s) + 8
<1> DEFINE n == Len(s.sizes)
           A == Compiled(s).args
           buffers == {i \in DOMAIN A : Get(A[i], ".value_kind") = "global_buffer"}
           size == OriginalSize(s)
           m == Min(buffers)
           c1 == Put(A[m], ".offset", size)
           c2 == Put(c1, ".size", 8)
           c == Put(c2, ".name", "__pw_extra")
<1>1. Listed(s, A) /\ Len(A) = n + 5
  BY CompiledArgs
<1>2. size \in Nat /\ _align(size) = size
  BY HiddenNat
<1>3. /\ ExpandedArgs(A, size) = IF buffers = {} THEN A ELSE A \o <<c>>
      /\ ExpandedSize(A, size) = IF buffers = {} THEN size ELSE size + 8
  <2> HIDE DEF A, size
  <2> QED BY <1>2 DEF ExpandedArgs, ExpandedSize
<1> HIDE DEF A, size
<1>4. CASE buffers = {}
  <2>1. ExpandedArgs(A, size) = A /\ ExpandedSize(A, size) = size
    BY <1>3, <1>4
  <2> HIDE DEF buffers
  <2> QED BY <2>1, <1>1 DEF A, size
<1>5. CASE buffers # {}
  <2>1. n \in Nat /\ A \in Seq(Seq(Pair)) /\ DOMAIN A = 1..(n + 5)
    BY <1>1 DEF Listed
  <2>2. m \in buffers
    <3>1. buffers \in SUBSET Nat
      BY <2>1
    <3> HIDE DEF buffers
    <3> QED BY <3>1, <1>5, MinIs
  <2>3. A[m] \in Seq(Pair) /\ Get(A[m], ".value_kind") = "global_buffer" /\ m \in 1..(n + 5)
    BY <2>1, <2>2
  <2> HIDE DEF m, buffers
  <2>4. Has(A[m], ".value_kind")
    <3>1. \E at, sz, kind : ArgIs(A[m], at, sz, kind)
      <4>1. m \in 1..n \/ (m - n \in 1..5 /\ n + (m - n) = m)
        <5>1. n \in Nat /\ m \in 1..(n + 5)
          BY <2>1, <2>3
        <5> HIDE DEF n
        <5> QED BY <5>1
      <4>2. CASE m \in 1..n
        BY <4>2, <1>1 DEF Listed
      <4>3. CASE m - n \in 1..5 /\ n + (m - n) = m
        BY <4>3, <1>1 DEF Listed
      <4> QED BY <4>1, <4>2, <4>3
    <3>2. Len(A[m]) \in DOMAIN A[m] /\ A[m][Len(A[m])][1] = ".value_kind"
      BY <3>1 DEF ArgIs
    <3> QED BY <3>2 DEF Has
  <2>5. /\ ".offset" \in Keys /\ ".size" \in Keys /\ ".name" \in Keys /\ ".value_kind" \in Keys
        /\ size \in Nat \union Words /\ 8 \in Nat \union Words /\ "__pw_extra" \in Nat \union Words
    BY <1>2 DEF Keys, Words
  <2>6. /\ c1 \in Seq(Pair) /\ Has(c1, ".offset") /\ Get(c1, ".offset") = size
        /\ Has(c1, ".value_kind") /\ Get(c1, ".value_kind") = "global_buffer"
    <3> ".value_kind" \in Keys \ {".offset"}
      BY DEF Keys
    <3>1. Holding(c1, A[m], ".offset", size)
      BY <2>3, <2>4, <2>5, PutIs
    <3> QED BY <3>1, <2>3, <2>4, <2>5 DEF Holding
  <2> HIDE DEF c1
  <2>7. /\ c2 \in Seq(Pair) /\ Has(c2, ".offset") /\ Get(c2, ".offset") = size
        /\ Has(c2, ".value_kind") /\ Get(c2, ".value_kind") = "global_buffer"
        /\ Has(c2, ".size") /\ Get(c2, ".size") = 8
    <3> ".value_kind" \in Keys \ {".size"} /\ ".offset" \in Keys \ {".size"}
      BY DEF Keys
    <3>1. Holding(c2, c1, ".size", 8)
      BY <2>5, <2>6, PutIs
    <3> QED BY <3>1, <2>5, <2>6 DEF Holding
  <2> HIDE DEF c2
  <2>8. c \in Seq(Pair) /\ Get(c, ".offset") = size /\ Get(c, ".value_kind") = "global_buffer" /\ Get(c, ".size") = 8
    <3> ".value_kind" \in Keys \ {".name"} /\ ".offset" \in Keys \ {".name"} /\ ".size" \in Keys \ {".name"}
      BY DEF Keys
    <3>1. Holding(c, c2, ".name", "__pw_extra")
      BY <2>5, <2>7, PutIs
    <3> QED BY <3>1, <2>5, <2>7 DEF Holding
  <2> HIDE DEF c
  <2> DEFINE one == <<c>>
             B == A \o one
  <2>9. one \in Seq(Seq(Pair)) /\ Len(one) = 1 /\ one[1] = c /\ DOMAIN one = 1..1
    BY <2>8
  <2> HIDE DEF one
  <2>10. /\ B \in Seq(Seq(Pair)) /\ Len(B) = n + 6
         /\ (\A i \in 1..(n + 5) : B[i] = A[i]) /\ B[n + 6] = c
    <3>1. Joined(A, one, B, Seq(Pair))
      BY <2>1, <2>9, Concatenated
    <3>2. B[1 + Len(A)] = one[1] /\ 1 + Len(A) = n + 6
      BY <3>1, <2>9, <2>1, <1>1 DEF Joined
    <3> HIDE DEF B
    <3>3. Len(A) + Len(one) = n + 6
      BY <1>1, <2>1, <2>9
    <3> QED BY <3>1, <3>2, <3>3, <2>1, <2>9 DEF Joined
  <2> HIDE DEF B
  <2>11. Listed(s, B)
    <3>1. \A b \in 1..n : b \in 1..(n + 5)
      BY <2>1
    <3>2. \A j \in 1..5 : n + j \in 1..(n + 5)
      BY <2>1
    <3>3. n + 6 >= n + 5
      BY <2>1
    <3> QED BY <3>1, <3>2, <3>3, <2>10, <1>1 DEF Listed
  <2>12. Extra(B, s)
    BY <2>8, <2>10 DEF Extra, size
  <2>13. ExpandedArgs(A, size) = B /\ ExpandedSize(A, size) = size + 8
    BY <1>3, <1>5 DEF B, one
  <2> QED BY <2>10, <2>11, <2>12, <2>13 DEF A, size
<1> QED BY <1>4, <1>5
-----------------------------------------------------------------------------
(***************************************************************************)
(* What the readers of the packed note find.                               *)
(***************************************************************************)
NoteOk(note, N) ==
    /\ N \in Nat \ {0} /\ DOMAIN note = 1..N
    /\ \A i \in 1..N : note[i].args \in Seq(Seq(Pair)) /\ note[i].args # <<>>

(* The packed note starts with the list of the first kernel.               *)
LEMMA PackedStarts ==
    ASSUME NEW note, NEW N, NoteOk(note, N)
    PROVE  LET p == Packed(note)
               f == FlattenSeq(note[1].args)
           IN  /\ p \in Seq(Pair) /\ f \in Seq(Pair) /\ Len(f) <= Len(p)
               /\ \A i \in DOMAIN f : p[i] = f[i]
<1> DEFINE ss == [i \in DOMAIN note |-> FlattenSeq(note[i].args)]
           p == Packed(note)
<1>1. N \in Nat \ {0} /\ DOMAIN note = 1..N
  BY DEF NoteOk
<1>2. ASSUME NEW i \in 1..N PROVE FlattenSeq(note[i].args) \in Seq(Pair)
  <2>1. note[i].args \in Seq(Seq(Pair)) /\ note[i].args # <<>>
    BY DEF NoteOk
  <2> HIDE DEF Pair
  <2> QED BY <2>1, FlattenIs
<1>3. p = FlattenSeq(ss)
  BY DEF Packed
<1>4. 1 \in 1..N
  BY <1>1
<1>5. ss[1] = FlattenSeq(note[1].args) /\ ss = [i \in 1..N |-> ss[i]] /\ \A i \in 1..N : ss[i] \in Seq(Pair)
  BY <1>1, <1>2, <1>4
<1> HIDE DEF ss, p
<1>6. ss \in Seq(Seq(Pair)) /\ Len(ss) = N
  BY <1>1, <1>5, ListIs
<1>7. ss # <<>>
  BY <1>1, <1>6
<1>8. FlattenSeq(ss) \in Seq(Pair) /\ \E st : Begins(st, ss, FlattenSeq(ss))
  BY <1>6, <1>7, FlattenIs
<1>9. PICK st : Begins(st, ss, p)
  BY <1>3, <1>8
<1>10. /\ st[1] = 0 /\ Len(p) = st[N + 1] /\ st[1 + 1] = st[1] + Len(ss[1]) /\ st[1 + 1] <= st[N + 1]
       /\ \A j \in DOMAIN ss[1] : p[st[1] + j] = ss[1][j]
  <2>1. 1 \in 1..N /\ 1 + 1 \in 1..(N + 1) /\ N + 1 \in 1..(N + 1) /\ 1 + 1 <= N + 1
    BY <1>1
  <2> QED BY <2>1, <1>6, <1>9 DEF Begins
<1>11. ss[1] \in Seq(Pair) /\ Len(ss[1]) \in Nat /\ DOMAIN ss[1] = 1..Len(ss[1])
  BY <1>4, <1>5
<1>12. Len(ss[1]) <= Len(p)
  BY <1>10, <1>11
<1>13. \A j \in DOMAIN ss[1] : p[j] = ss[1][j]
  BY <1>10, <1>11
<1> QED BY <1>3, <1>5, <1>8, <1>11, <1>12, <1>13 DEF p

(* What the b-th argument is, and where it lies.                           *)
KindAt(s, b) == IF b <= Len(s.sizes) THEN KindOf(s, b) ELSE HiddenLayout[b - Len(s.sizes)][1]

OffsetAt(s, b) ==
    IF b <= Len(s.sizes) THEN OffsetOf(s.sizes)[b]
    ELSE HiddenAt(s) + HiddenLayout[b - Len(s.sizes)][2]

(* Where the entries of the first kernel end, and what is read there.      *)
Reads(st, s, p) ==
    LET n == Len(s.sizes) IN
    /\ n \in Nat /\ p \in Seq(Pair)
    /\ st \in [1..(n + 6) -> Nat] /\ st[1] = 0
    /\ \A b \in 1..(n + 5) :
          /\ st[b] + 3 <= st[b + 1] /\ st[b + 1] <= Len(p)
          /\ p[st[b + 1]] = <<".value_kind", KindAt(s, b)>>
          /\ p[st[b + 1] - 1][1] = ".size"
          /\ p[st[b + 1] - 2] = <<".offset", OffsetAt(s, b)>>
          /\ \A i \in (st[b] + 1)..st[b + 1] : p[i][1] = ".value_kind" => i = st[b + 1]
    /\ \A a, b \in 1..(n + 6) : a <= b => st[a] <= st[b]

(* The packed note begins with the arguments of the first kernel, so that is*)
(* what a reader meets first.                                              *)
LEMMA FirstReads ==
    ASSUME NEW note, NEW N, NoteOk(note, N), NEW s, s.sizes \in Seq({4, 8}), Listed(s, note[1].args)
    PROVE  \E st : Reads(st, s, Packed(note))
<1> DEFINE n == Len(s.sizes)
           A == note[1].args
           f == FlattenSeq(A)
           p == Packed(note)
<1>1. n \in Nat /\ N \in Nat \ {0}
  BY DEF NoteOk
<1>2. A \in Seq(Seq(Pair)) /\ A # <<>> /\ Len(A) >= n + 5 /\ Len(A) \in Nat
  BY <1>1 DEF NoteOk, Listed
<1>3. p \in Seq(Pair) /\ f \in Seq(Pair) /\ Len(f) <= Len(p) /\ \A i \in DOMAIN f : p[i] = f[i]
  BY PackedStarts
<1>4. ASSUME NEW b \in 1..(n + 5)
      PROVE  \E size : ArgIs(A[b], OffsetAt(s, b), size, KindAt(s, b))
  <2>1. CASE b <= n
    <3>1. b \in 1..n
      BY <2>1
    <3>2. ArgIs(A[b], OffsetOf(s.sizes)[b], s.sizes[b], KindOf(s, b))
      BY <3>1 DEF Listed
    <3> QED BY <3>2, <2>1 DEF OffsetAt, KindAt
  <2>2. CASE ~ (b <= n)
    <3> DEFINE j == b - n
    <3>1. j \in 1..5 /\ n + j = b
      BY <1>1, <2>2
    <3>2. ArgIs(A[n + j], HiddenAt(s) + HiddenLayout[j][2], HiddenLayout[j][3], HiddenLayout[j][1])
      <4> HIDE DEF j
      <4> QED BY <3>1 DEF Listed
    <3> QED BY <3>1, <3>2, <2>2 DEF OffsetAt, KindAt
  <2> QED BY <2>1, <2>2
<1> HIDE DEF A
<1>5. PICK st : Begins(st, A, f)
  <2> HIDE DEF Pair
  <2> QED BY <1>2, FlattenIs
<1> HIDE DEF n, f, p
<1> DEFINE t == [a \in 1..(n + 6) |-> st[a]]
<1>6. /\ st \in [1..(Len(A) + 1) -> Nat] /\ st[1] = 0 /\ Len(f) = st[Len(A) + 1]
      /\ \A a \in 1..Len(A) : /\ st[a + 1] = st[a] + Len(A[a])
                              /\ \A j \in DOMAIN A[a] : f[st[a] + j] = A[a][j]
      /\ \A a, b \in 1..(Len(A) + 1) : a <= b => st[a] <= st[b]
  BY <1>5 DEF Begins
<1>7. \A a \in 1..(n + 6) : a \in 1..(Len(A) + 1) /\ st[a] \in Nat /\ t[a] = st[a]
  <2>1. \A a \in 1..(n + 6) : a \in 1..(Len(A) + 1)
    <3>1. n \in Nat /\ Len(A) \in Nat /\ Len(A) >= n + 5
      BY <1>1, <1>2 DEF n
    <3> QED BY <3>1
  <2> QED BY <2>1, <1>6
<1>8. t \in [1..(n + 6) -> Nat] /\ t[1] = 0
  BY <1>1, <1>6, <1>7
<1>9. \A a, b \in 1..(n + 6) : a <= b => t[a] <= t[b]
  BY <1>6, <1>7
<1> HIDE DEF t
<1>10. ASSUME NEW b \in 1..(n + 5)
       PROVE  /\ t[b] + 3 <= t[b + 1] /\ t[b + 1] <= Len(p)
              /\ p[t[b + 1]] = <<".value_kind", KindAt(s, b)>>
              /\ p[t[b + 1] - 1][1] = ".size"
              /\ p[t[b + 1] - 2] = <<".offset", OffsetAt(s, b)>>
              /\ \A i \in (t[b] + 1)..t[b + 1] : p[i][1] = ".value_kind" => i = t[b + 1]
  <2> DEFINE m == Len(A[b])
  <2>1. PICK size : ArgIs(A[b], OffsetAt(s, b), size, KindAt(s, b))
    BY <1>4
  <2>2. /\ A[b] \in Seq(Pair) /\ m \in Nat /\ m >= 3 /\ DOMAIN A[b] = 1..m
        /\ A[b][m - 2] = <<".offset", OffsetAt(s, b)>>
        /\ A[b][m - 1] = <<".size", size>>
        /\ A[b][m] = <<".value_kind", KindAt(s, b)>>
        /\ \A c \in 1..(m - 3) : A[b][c][1] \in {".address_space", ".name"}
    BY <2>1 DEF ArgIs
  <2> HIDE DEF m
  <2>3. b \in 1..Len(A) /\ b \in 1..(n + 6) /\ b + 1 \in 1..(n + 6) /\ b + 1 \in 1..(Len(A) + 1)
        /\ Len(A) + 1 \in 1..(Len(A) + 1) /\ b + 1 <= Len(A) + 1
    BY <1>1, <1>2
  <2>4. t[b] = st[b] /\ t[b + 1] = st[b + 1] /\ t[b] \in Nat /\ t[b + 1] \in Nat
    BY <1>7, <2>3
  <2>5. t[b + 1] = t[b] + m /\ \A j \in 1..m : f[t[b] + j] = A[b][j]
    BY <1>6, <2>2, <2>3, <2>4 DEF m
  <2>6. t[b + 1] <= Len(f) /\ Len(f) \in Nat /\ Len(p) \in Nat /\ DOMAIN f = 1..Len(f)
    BY <1>3, <1>6, <2>3, <2>4
  <2>7. ASSUME NEW j \in 1..m PROVE p[t[b] + j] = A[b][j]
    <3>1. t[b] + j \in DOMAIN f
      <4>1. m \in Nat /\ t[b] \in Nat /\ t[b] + m <= Len(f) /\ Len(f) \in Nat /\ DOMAIN f = 1..Len(f)
        BY <2>2, <2>4, <2>5, <2>6
      <4> QED BY <4>1
    <3> QED BY <3>1, <2>5, <1>3
  <2>8. /\ m - 2 \in 1..m /\ m - 1 \in 1..m /\ m \in 1..m
        /\ t[b] + (m - 2) = t[b + 1] - 2 /\ t[b] + (m - 1) = t[b + 1] - 1 /\ t[b] + m = t[b + 1]
    BY <2>2, <2>4, <2>5
  <2>9. /\ p[t[b + 1] - 2] = A[b][m - 2] /\ p[t[b + 1] - 1] = A[b][m - 1] /\ p[t[b + 1]] = A[b][m]
    BY <2>7, <2>8
  <2>10. ASSUME NEW i \in (t[b] + 1)..t[b + 1], p[i][1] = ".value_kind" PROVE i = t[b + 1]
    <3> DEFINE c == i - t[b]
    <3>1. c \in 1..m /\ t[b] + c = i
      <4>1. m \in Nat /\ t[b] \in Nat /\ i \in (t[b] + 1)..(t[b] + m)
        BY <2>2, <2>4, <2>5
      <4> QED BY <4>1
    <3> HIDE DEF c
    <3>2. A[b][c][1] = ".value_kind"
      BY <3>1, <2>7, <2>10
    <3>3. c \in 1..(m - 3) \/ c = m - 2 \/ c = m - 1 \/ c = m
      BY <3>1, <2>2
    <3>4. A[b][m - 2][1] = ".offset" /\ A[b][m - 1][1] = ".size"
      BY <2>2
    <3>5. c = m
      BY <3>2, <3>3, <3>4, <2>2
    <3> QED BY <3>1, <3>5, <2>5
  <2>11. p[t[b + 1] - 1][1] = ".size"
    BY <2>2, <2>9
  <2>12. t[b] + 3 <= t[b + 1] /\ t[b + 1] <= Len(p)
    BY <1>3, <2>2, <2>4, <2>5, <2>6
  <2> QED BY <2>2, <2>9, <2>10, <2>11, <2>12
<1>11. Reads(t, s, p)
  BY <1>1, <1>3, <1>8, <1>9, <1>10 DEF Reads, n
<1> QED BY <1>11 DEF p

(* A value kind that is read early is that of one of the entries.          *)
LEMMA KindsRead ==
    ASSUME NEW st, NEW s, NEW p, Reads(st, s, p), NEW b \in 1..(Len(s.sizes) + 5),
           NEW i \in DOMAIN p, p[i][1] = ".value_kind", i <= st[b + 1]
    PROVE  \E a \in 1..b : i = st[a + 1] /\ p[i][2] = KindAt(s, a)
<1> DEFINE n == Len(s.sizes)
           S == {a \in 1..(n + 5) : i <= st[a + 1]}
<1>1. /\ n \in Nat /\ p \in Seq(Pair) /\ st \in [1..(n + 6) -> Nat] /\ st[1] = 0
      /\ \A a \in 1..(n + 5) : /\ p[st[a + 1]] = <<".value_kind", KindAt(s, a)>>
                               /\ \A j \in (st[a] + 1)..st[a + 1] : p[j][1] = ".value_kind" => j = st[a + 1]
  BY DEF Reads
<1> HIDE DEF n
<1>2. b \in S /\ S \in SUBSET Nat /\ i \in Nat \ {0} /\ b \in 1..(n + 5)
  BY <1>1 DEF n
<1>3. PICK a \in S : \A m \in S : a <= m
  BY <1>2, LeastNumber
<1>4. a \in 1..(n + 5) /\ i <= st[a + 1] /\ a <= b /\ st[a] \in Nat /\ st[a + 1] \in Nat
  <2>1. a \in 1..(n + 5) /\ i <= st[a + 1] /\ a <= b /\ n \in Nat
    BY <1>1, <1>2, <1>3
  <2>2. a \in 1..(n + 6) /\ a + 1 \in 1..(n + 6)
    BY <2>1
  <2> QED BY <2>1, <2>2, <1>1
<1>5. st[a] < i
  <2>1. CASE a = 1
    BY <2>1, <1>1, <1>2
  <2>2. CASE a # 1
    <3>1. a - 1 \in 1..(n + 5) /\ (a - 1) + 1 = a /\ ~ (a <= a - 1)
      BY <2>2, <1>1, <1>4
    <3>2. a - 1 \notin S
      BY <3>1, <1>3
    <3>3. ~ (i <= st[a])
      BY <3>1, <3>2
    <3> QED BY <3>3, <1>2, <1>4
  <2> QED BY <2>1, <2>2
<1>6. i \in (st[a] + 1)..st[a + 1]
  BY <1>2, <1>4, <1>5
<1>7. i = st[a + 1]
  BY <1>1, <1>4, <1>6
<1>8. p[i][2] = KindAt(s, a)
  BY <1>1, <1>4, <1>7
<1>9. a \in 1..b
  BY <1>2, <1>4, <1>1
<1> QED BY <1>7, <1>8, <1>9

(* An explicit argument is never taken for a hidden one, and the hidden    *)
(* ones are told apart.                                                    *)
LEMMA KindsApart ==
    ASSUME NEW s, s.sizes \in Seq({4, 8})
    PROVE  LET n == Len(s.sizes) IN
           /\ \A b \in 1..n : KindAt(s, b) \in {"global_buffer", "by_value"}
           /\ \A j \in 1..5 : n + j \in 1..(n + 5) /\ KindAt(s, n + j) = HiddenLayout[j][1]
                              /\ OffsetAt(s, n + j) = HiddenAt(s) + HiddenLayout[j][2]
           /\ \A a, j \in 1..(n + 5) : a < j /\ j > n => KindAt(s, a) # KindAt(s, j)
<1> DEFINE n == Len(s.sizes)
<1>1. n \in Nat
  OBVIOUS
<1>2. \A b \in 1..n : KindAt(s, b) \in {"global_buffer", "by_value"}
  BY DEF KindAt, KindOf
<1>3. ASSUME NEW j \in 1..5
      PROVE  /\ n + j \in 1..(n + 5) /\ KindAt(s, n + j) = HiddenLayout[j][1]
             /\ OffsetAt(s, n + j) = HiddenAt(s) + HiddenLayout[j][2]
  <2>1. n + j \in 1..(n + 5) /\ ~ (n + j <= n) /\ (n + j) - n = j
    <3> HIDE DEF n
    <3> QED BY <1>1
  <2> QED BY <2>1 DEF KindAt, OffsetAt
<1>4. ASSUME NEW a \in 1..(n + 5), NEW j \in 1..(n + 5), a < j, j > n PROVE KindAt(s, a) # KindAt(s, j)
  <2> DEFINE l == j - n
             m == a - n
  <2>1. l \in 1..5 /\ n + l = j /\ KindAt(s, j) = HiddenLayout[l][1]
    <3>1. l \in 1..5 /\ n + l = j
      <4> HIDE DEF n
      <4> QED BY <1>1, <1>4
    <3> HIDE DEF l, n
    <3> QED BY <3>1, <1>3
  <2>2. CASE a <= n
    <3>1. KindAt(s, a) \in {"global_buffer", "by_value"}
      <4>1. a \in 1..n
        <5> HIDE DEF n
        <5> QED BY <1>1, <2>2
      <4> QED BY <4>1, <1>2
    <3>2. HiddenLayout[l][1] \in HiddenKinds
      <4> HIDE DEF l
      <4> QED BY <2>1, HiddenBlocks
    <3> HIDE DEF l
    <3> QED BY <3>1, <3>2, <2>1 DEF HiddenKinds
  <2>3. CASE ~ (a <= n)
    <3>1. m \in 1..5 /\ n + m = a /\ m < l
      <4> HIDE DEF n
      <4> QED BY <1>1, <1>4, <2>3
    <3> HIDE DEF l, m, n
    <3>2. KindAt(s, a) = HiddenLayout[m][1]
      BY <3>1, <1>3
    <3> QED BY <3>1, <3>2, <2>1, HiddenBlocks
  <2> QED BY <2>2, <2>3
<1> QED BY <1>2, <1>3, <1>4

(* co_read_explicit_arg_count counts the arguments of the signature.       *)
LEMMA ArgumentsCounted ==
    ASSUME NEW note, NEW N, NoteOk(note, N), NEW s, s.sizes \in Seq({4, 8}), s.sizes # <<>>,
           Listed(s, note[1].args)
    PROVE  co_read_explicit_arg_count(note) = Len(s.sizes)
<1> DEFINE n == Len(s.sizes)
           p == Packed(note)
           kinds == {i \in DOMAIN p : p[i][1] = ".value_kind"}
           H == {i \in kinds : p[i][2] \in hidden}
           C == {i \in kinds : \A h \in H : i < h}
<1>1. PICK st : Reads(st, s, p)
  BY FirstReads
<1>2. n \in Nat \ {0}
  OBVIOUS
<1>3. co_read_explicit_arg_count(note) = IF kinds = {} THEN Unread ELSE Cardinality(C)
  BY DEF co_read_explicit_arg_count
<1>4. /\ \A b \in 1..n : KindAt(s, b) \in {"global_buffer", "by_value"}
      /\ n + 1 \in 1..(n + 5) /\ KindAt(s, n + 1) = "hidden_block_count_x"
  <2>1. 1 \in 1..5
    OBVIOUS
  <2>2. KindAt(s, n + 1) = HiddenLayout[1][1]
    BY <2>1, KindsApart
  <2>3. HiddenLayout[1][1] = "hidden_block_count_x"
    BY HiddenBlocks
  <2> QED BY <2>1, <2>2, <2>3, KindsApart
<1> HIDE DEF n, p
<1>5. /\ p \in Seq(Pair) /\ DOMAIN p = 1..Len(p) /\ Len(p) \in Nat
      /\ st \in [1..(n + 6) -> Nat] /\ st[1] = 0
      /\ \A b \in 1..(n + 5) : /\ st[b] + 3 <= st[b + 1] /\ st[b + 1] <= Len(p)
                               /\ p[st[b + 1]] = <<".value_kind", KindAt(s, b)>>
      /\ \A a, b \in 1..(n + 6) : a <= b => st[a] <= st[b]
  BY <1>1 DEF Reads, n
<1>6. ASSUME NEW b \in 1..(n + 5)
      PROVE  /\ b \in 1..(n + 6) /\ b + 1 \in 1..(n + 6) /\ st[b] \in Nat /\ st[b + 1] \in Nat
             /\ st[b + 1] \in kinds /\ p[st[b + 1]][2] = KindAt(s, b)
  <2>1. b \in 1..(n + 6) /\ b + 1 \in 1..(n + 6)
    BY <1>2
  <2>2. st[b] \in Nat /\ st[b + 1] \in Nat /\ st[b] + 3 <= st[b + 1] /\ st[b + 1] <= Len(p)
    BY <2>1, <1>5
  <2>3. st[b + 1] \in 1..Len(p)
    BY <2>2, <1>5
  <2>4. p[st[b + 1]] = <<".value_kind", KindAt(s, b)>>
    BY <1>5
  <2> QED BY <2>1, <2>2, <2>3, <2>4, <1>5
<1> DEFINE g == [b \in 1..n |-> st[b + 1]]
           T == {g[b] : b \in 1..n}
<1>7. \A b \in 1..n : b \in 1..(n + 5) /\ g[b] = st[b + 1]
  BY <1>2
<1>8. st[n + 2] \in H /\ st[n + 2] \in Nat
  <2>1. n + 1 \in 1..(n + 5) /\ (n + 1) + 1 = n + 2
    BY <1>2
  <2>2. st[n + 2] \in kinds /\ p[st[n + 2]][2] = "hidden_block_count_x" /\ st[n + 2] \in Nat
    BY <2>1, <1>4, <1>6
  <2> QED BY <2>2 DEF hidden
<1>9. ASSUME NEW i \in C PROVE i \in T
  <2>1. i \in DOMAIN p /\ p[i][1] = ".value_kind" /\ i < st[n + 2]
    BY <1>8
  <2>2. i \in Nat /\ i <= st[n + 2]
    BY <2>1, <1>5, <1>8
  <2>3. n + 1 \in 1..(n + 5) /\ (n + 1) + 1 = n + 2
    BY <1>2
  <2>4. \E a \in 1..(n + 1) : i = st[a + 1] /\ p[i][2] = KindAt(s, a)
    <3>1. n + 1 \in 1..(Len(s.sizes) + 5) /\ i <= st[(n + 1) + 1]
      BY <2>2, <2>3 DEF n
    <3> QED BY <3>1, <2>1, <1>1, KindsRead
  <2>5. PICK a \in 1..(n + 1) : i = st[a + 1]
    BY <2>4
  <2>6. a # n + 1
    BY <2>1, <2>2, <2>3, <2>5, <1>8
  <2>7. a \in 1..n
    BY <2>6, <1>2
  <2> QED BY <2>5, <2>7, <1>7
<1>10. ASSUME NEW b \in 1..n PROVE g[b] \in C
  <2>1. b \in 1..(n + 5) /\ g[b] = st[b + 1] /\ g[b] \in kinds /\ g[b] \in Nat /\ b + 1 \in 1..(n + 6)
    BY <1>6, <1>7
  <2>2. ASSUME NEW h \in H, ~ (g[b] < h) PROVE FALSE
    <3>1. h \in DOMAIN p /\ p[h][1] = ".value_kind" /\ p[h][2] \in hidden /\ h \in Nat
      BY <1>5
    <3>2. h <= st[b + 1]
      BY <2>1, <2>2, <3>1
    <3>3. b \in 1..(Len(s.sizes) + 5)
      BY <2>1 DEF n
    <3>4. PICK a \in 1..b : h = st[a + 1] /\ p[h][2] = KindAt(s, a)
      BY <3>1, <3>2, <3>3, <1>1, KindsRead
    <3>5. a \in 1..n
      BY <1>2
    <3>6. KindAt(s, a) \in {"global_buffer", "by_value"}
      BY <3>5, <1>4
    <3> QED BY <3>1, <3>4, <3>6 DEF hidden
  <2> HIDE DEF g, H, kinds
  <2> QED BY <2>1, <2>2
<1> HIDE DEF C, H
<1>11. C = T /\ kinds # {}
  <2>1. 1 \in 1..(n + 5)
    BY <1>2
  <2>2. kinds # {}
    BY <2>1, <1>6
  <2> HIDE DEF g
  <2> QED BY <1>9, <1>10, <2>2
<1>12. g \in Bijection(1..n, T)
  <2>1. ASSUME NEW a \in 1..n, NEW b \in 1..n, a < b PROVE g[a] < g[b]
    <3>1. a + 1 \in 1..(n + 6) /\ b \in 1..(n + 6) /\ a + 1 <= b /\ b \in 1..(n + 5)
      BY <2>1, <1>2
    <3>2. st[a + 1] <= st[b] /\ st[b] + 3 <= st[b + 1] /\ st[a + 1] \in Nat /\ st[b] \in Nat /\ st[b + 1] \in Nat
      BY <3>1, <1>5, <1>6
    <3>3. st[a + 1] < st[b + 1]
      BY <3>2
    <3> QED BY <3>3, <1>7
  <2>2. \A b \in 1..n : g[b] \in Nat
    BY <1>6, <1>7
  <2>3. g \in [1..n -> T]
    OBVIOUS
  <2> HIDE DEF g
  <2>4. \A a, b \in 1..n : g[a] = g[b] => a = b
    <3>1. ASSUME NEW a \in 1..n, NEW b \in 1..n, g[a] = g[b], a # b PROVE FALSE
      <4>1. a < b \/ b < a
        BY <3>1, <1>2
      <4>2. g[a] < g[b] \/ g[b] < g[a]
        BY <4>1, <2>1
      <4> QED BY <4>2, <3>1, <2>2
    <3> QED BY <3>1
  <2> QED BY <2>3, <2>4 DEF Bijection, Injection, Surjection, IsInjective
<1>13. Cardinality(T) = n
  <2>1. IsFiniteSet(1..n) /\ Cardinality(1..n) = n
    BY <1>2, CountOff
  <2>2. ExistsBijection(1..n, T)
    BY <1>12 DEF ExistsBijection
  <2> HIDE DEF T
  <2> QED BY <2>1, <2>2, FS_Bijection
<1> HIDE DEF T, kinds
<1> QED BY <1>3, <1>11, <1>13 DEF n

(* co_read_kernarg_offset finds the offset of a hidden argument.           *)
LEMMA OffsetRead ==
    ASSUME NEW note, NEW N, NoteOk(note, N), NEW s, s.sizes \in Seq({4, 8}),
           Listed(s, note[1].args), NEW j \in 1..5
    PROVE  co_read_kernarg_offset(note, HiddenLayout[j][1]) = HiddenAt(s) + HiddenLayout[j][2]
<1> DEFINE n == Len(s.sizes)
           p == Packed(note)
           kind == HiddenLayout[j][1]
           P == {i \in DOMAIN p : p[i] = <<".value_kind", kind>>}
           Q == {i \in DOMAIN p : p[i][1] = ".offset" /\ i < Min(P)}
           b == n + j
<1>1. PICK st : Reads(st, s, p)
  BY FirstReads
<1>2. n \in Nat
  OBVIOUS
<1>3. co_read_kernarg_offset(note, kind) =
         IF P = {} THEN Unread ELSE IF Q = {} THEN Unread ELSE p[Max(Q)][2]
  BY DEF co_read_kernarg_offset
<1>4. /\ b \in 1..(n + 5) /\ KindAt(s, b) = kind /\ OffsetAt(s, b) = HiddenAt(s) + HiddenLayout[j][2]
      /\ \A a \in 1..(n + 5) : a < b => KindAt(s, a) # kind
  <2>1. b \in 1..(n + 5) /\ KindAt(s, b) = kind /\ OffsetAt(s, b) = HiddenAt(s) + HiddenLayout[j][2]
    BY KindsApart
  <2>2. b > n
    BY <1>2
  <2>3. \A a, c \in 1..(n + 5) : a < c /\ c > n => KindAt(s, a) # KindAt(s, c)
    BY KindsApart
  <2> HIDE DEF b, n, kind
  <2> QED BY <2>1, <2>2, <2>3
<1> HIDE DEF n, p, b, kind
<1>5. /\ p \in Seq(Pair) /\ DOMAIN p = 1..Len(p) /\ Len(p) \in Nat
      /\ st \in [1..(n + 6) -> Nat]
      /\ st[b] + 3 <= st[b + 1] /\ st[b + 1] <= Len(p)
      /\ p[st[b + 1]] = <<".value_kind", KindAt(s, b)>>
      /\ p[st[b + 1] - 1][1] = ".size"
      /\ p[st[b + 1] - 2] = <<".offset", OffsetAt(s, b)>>
      /\ \A a, c \in 1..(n + 6) : a <= c => st[a] <= st[c]
  <2>1. /\ p \in Seq(Pair) /\ st \in [1..(n + 6) -> Nat]
        /\ \A c \in 1..(n + 5) :
              /\ st[c] + 3 <= st[c + 1] /\ st[c + 1] <= Len(p)
              /\ p[st[c + 1]] = <<".value_kind", KindAt(s, c)>>
              /\ p[st[c + 1] - 1][1] = ".size"
              /\ p[st[c + 1] - 2] = <<".offset", OffsetAt(s, c)>>
        /\ \A a, c \in 1..(n + 6) : a <= c => st[a] <= st[c]
    BY <1>1 DEF Reads, n
  <2>2. DOMAIN p = 1..Len(p) /\ Len(p) \in Nat
    <3> HIDE DEF Pair
    <3> QED BY <2>1
  <2>3. b \in 1..(n + 5)
    BY <1>4
  <2> QED BY <2>1, <2>2, <2>3
<1> DEFINE q == st[b + 1]
<1>6. /\ b \in 1..(n + 6) /\ b + 1 \in 1..(n + 6)
      /\ st[b] \in Nat /\ q \in Nat /\ q \in 1..Len(p) /\ q - 1 \in 1..Len(p) /\ q - 2 \in 1..Len(p)
  <2>1. b \in 1..(n + 6) /\ b + 1 \in 1..(n + 6)
    BY <1>2, <1>4
  <2>2. st[b] \in Nat /\ q \in Nat /\ st[b] + 3 <= q /\ q <= Len(p) /\ Len(p) \in Nat
    BY <2>1, <1>5
  <2> HIDE DEF q
  <2> QED BY <2>1, <2>2
<1>7. q \in P
  BY <1>4, <1>5, <1>6
<1>8. ASSUME NEW i \in P, ~ (q <= i) PROVE FALSE
  <2>1. i \in DOMAIN p /\ p[i][1] = ".value_kind" /\ p[i][2] = kind /\ i \in Nat
    BY <1>5
  <2>2. i <= st[b + 1] /\ i # st[b + 1]
    BY <2>1, <1>6, <1>8
  <2>3. b \in 1..(Len(s.sizes) + 5)
    BY <1>4 DEF n
  <2>4. PICK a \in 1..b : i = st[a + 1] /\ p[i][2] = KindAt(s, a)
    BY <2>1, <2>2, <2>3, <1>1, KindsRead
  <2>5. a # b
    BY <2>2, <2>4
  <2>6. a \in 1..(n + 5) /\ a < b
    BY <2>5, <1>2, <1>4
  <2> QED BY <2>1, <2>4, <2>6, <1>4
<1>9. Min(P) = q
  <2>1. P \in SUBSET Nat /\ P # {}
    <3>1. DOMAIN p \in SUBSET Nat
      BY <1>5
    <3>2. P \in SUBSET DOMAIN p
      OBVIOUS
    <3> HIDE DEF P
    <3> QED BY <3>1, <3>2, <1>7
  <2>2. Min(P) \in P /\ \A i \in P : Min(P) <= i
    <3> HIDE DEF P
    <3> QED BY <2>1, MinIs
  <2>3. Min(P) <= q /\ q <= Min(P)
    <3> HIDE DEF P, q
    <3> QED BY <2>2, <1>7, <1>8
  <2>4. Min(P) \in Nat
    <3> HIDE DEF P
    <3> QED BY <2>1, <2>2
  <2> HIDE DEF P, q
  <2> QED BY <2>3, <2>4, <1>6
<1> HIDE DEF P, q
<1>10. q - 2 \in Q
  <2>1. p[q - 2][1] = ".offset" /\ q - 2 < q
    BY <1>5, <1>6 DEF q
  <2> QED BY <2>1, <1>5, <1>6, <1>9
<1>11. ASSUME NEW i \in Q PROVE i <= q - 2
  <2>1. i \in Nat /\ i < q /\ p[i][1] = ".offset"
    BY <1>5, <1>9
  <2>2. i # q - 1
    BY <2>1, <1>5 DEF q
  <2> HIDE DEF Q
  <2> QED BY <2>1, <2>2, <1>6
<1>12. Max(Q) = q - 2
  <2>1. Q \in SUBSET (1..Len(p))
    BY <1>5
  <2>2. Q \in SUBSET Nat /\ Q # {} /\ IsFiniteSet(Q)
    <3> HIDE DEF Q
    <3>1. IsFiniteSet(1..Len(p)) /\ Len(p) \in Nat
      BY <1>5, CountOff
    <3>2. IsFiniteSet(Q)
      BY <3>1, <2>1, FS_Subset
    <3>3. Q \in SUBSET Nat
      BY <3>1, <2>1
    <3> QED BY <3>2, <3>3, <1>10
  <2> HIDE DEF Q
  <2>3. Max(Q) \in Q /\ \A i \in Q : i <= Max(Q)
    BY <2>2, MaxIs
  <2>4. Max(Q) <= q - 2 /\ q - 2 <= Max(Q) /\ Max(Q) \in Nat /\ q - 2 \in Nat
    BY <2>2, <2>3, <1>10, <1>11
  <2> QED BY <2>4, <1>6
<1>13. p[q - 2][2] = HiddenAt(s) + HiddenLayout[j][2]
  BY <1>4, <1>5 DEF q
<1> HIDE DEF Q
<1>14. P # {} /\ Q # {}
  BY <1>7, <1>10
<1> QED BY <1>3, <1>12, <1>13, <1>14 DEF kind
-----------------------------------------------------------------------------
(***************************************************************************)
(* The segment: its parts lie apart, and the hosts fill each of them once. *)
(***************************************************************************)
Reading(w, at, size) ==
    LET hits == {i \in DOMAIN w : w[i].at < at + size /\ at < w[i].at + w[i].size} IN
    IF hits = {} THEN <<"zero">>
    ELSE LET e == w[Max(hits)] IN
         IF e.at = at /\ e.size = size THEN e.what ELSE <<"torn">>

(* The arguments, the parts of the hidden block, and what is after it.     *)
PartAt(s, b) == IF b = Len(s.sizes) + 6 THEN OriginalSize(s) ELSE OffsetAt(s, b)

(* How much of the segment a part takes, and what belongs there.           *)
PartSize(s, b) ==
    IF b = Len(s.sizes) + 6 THEN 8
    ELSE IF b <= Len(s.sizes) THEN s.sizes[b] ELSE HiddenLayout[b - Len(s.sizes)][3]

PartWhat(s, b) ==
    IF b = Len(s.sizes) + 6 THEN <<"buffer">>
    ELSE IF b <= Len(s.sizes) THEN Argument(b) ELSE <<HiddenLayout[b - Len(s.sizes)][1]>>

(* The parts by name.                                                      *)
LEMMA PartsAre ==
    ASSUME NEW s, s.sizes \in Seq({4, 8})
    PROVE  LET n == Len(s.sizes) IN
           /\ n \in Nat
           /\ \A b \in 1..n : /\ PartAt(s, b) = OffsetOf(s.sizes)[b] /\ PartSize(s, b) = s.sizes[b]
                              /\ PartWhat(s, b) = Argument(b)
           /\ \A j \in 1..5 : /\ PartAt(s, n + j) = HiddenAt(s) + HiddenLayout[j][2]
                              /\ PartSize(s, n + j) = HiddenLayout[j][3]
                              /\ PartWhat(s, n + j) = <<HiddenLayout[j][1]>>
           /\ PartAt(s, n + 6) = OriginalSize(s) /\ PartSize(s, n + 6) = 8
           /\ PartWhat(s, n + 6) = <<"buffer">>
           /\ \A b \in 1..(n + 6) : b \in 1..n \/ b = n + 6 \/ \E j \in 1..5 : b = n + j
<1> DEFINE n == Len(s.sizes)
<1>1. n \in Nat
  OBVIOUS
<1> HIDE DEF n
<1>2. ASSUME NEW b \in 1..n
      PROVE  /\ PartAt(s, b) = OffsetOf(s.sizes)[b] /\ PartSize(s, b) = s.sizes[b]
             /\ PartWhat(s, b) = Argument(b)
  <2>1. b <= n /\ b # n + 6
    BY <1>1
  <2> QED BY <2>1 DEF n, PartAt, PartSize, PartWhat, OffsetAt
<1>3. ASSUME NEW j \in 1..5
      PROVE  /\ PartAt(s, n + j) = HiddenAt(s) + HiddenLayout[j][2]
             /\ PartSize(s, n + j) = HiddenLayout[j][3]
             /\ PartWhat(s, n + j) = <<HiddenLayout[j][1]>>
  <2> DEFINE b == n + j
  <2>1. ~ (b <= n) /\ b # n + 6 /\ b - n = j
    BY <1>1
  <2> HIDE DEF b
  <2>2. PartAt(s, b) = HiddenAt(s) + HiddenLayout[b - n][2] /\ PartSize(s, b) = HiddenLayout[b - n][3]
        /\ PartWhat(s, b) = <<HiddenLayout[b - n][1]>>
    BY <2>1 DEF n, PartAt, PartSize, PartWhat, OffsetAt
  <2> QED BY <2>1, <2>2 DEF b
<1>4. PartAt(s, n + 6) = OriginalSize(s) /\ PartSize(s, n + 6) = 8 /\ PartWhat(s, n + 6) = <<"buffer">>
  BY DEF PartAt, PartSize, PartWhat, n
<1>5. ASSUME NEW b \in 1..(n + 6) PROVE b \in 1..n \/ b = n + 6 \/ \E j \in 1..5 : b = n + j
  <2>1. b \in 1..n \/ b = n + 6 \/ (b - n \in 1..5 /\ b = n + (b - n))
    BY <1>1
  <2> QED BY <2>1
<1> QED BY <1>1, <1>2, <1>3, <1>4, <1>5 DEF n

(* The parts are laid out in order, none reaching into the next.           *)
LEMMA PartsApart ==
    ASSUME NEW s, s.sizes \in Seq({4, 8})
    PROVE  \A a \in 1..(Len(s.sizes) + 6) :
              /\ PartAt(s, a) \in Nat /\ PartSize(s, a) \in Nat \ {0}
              /\ PartWhat(s, a) # <<"past the end">>
              /\ \A b \in 1..(Len(s.sizes) + 6) : a < b => PartAt(s, a) + PartSize(s, a) <= PartAt(s, b)
<1> DEFINE n == Len(s.sizes)
           o == OffsetOf(s.sizes)
           h == HiddenAt(s)
<1>1. /\ n \in Nat /\ h \in Nat /\ OriginalSize(s) = h + 256
      /\ o \in [1..(n + 1) -> Nat] /\ o[n + 1] = h
      /\ \A i \in 1..n : \A j \in (i + 1)..(n + 1) : o[i] + s.sizes[i] <= o[j]
      /\ \A i \in 1..n : s.sizes[i] \in {4, 8}
  BY Layout, HiddenNat DEF HiddenAt
<1>2. /\ \A b \in 1..n : PartAt(s, b) = o[b] /\ PartSize(s, b) = s.sizes[b] /\ PartWhat(s, b) = Argument(b)
      /\ \A j \in 1..5 : /\ PartAt(s, n + j) = h + HiddenLayout[j][2]
                         /\ PartSize(s, n + j) = HiddenLayout[j][3]
                         /\ PartWhat(s, n + j) = <<HiddenLayout[j][1]>>
      /\ PartAt(s, n + 6) = h + 256 /\ PartSize(s, n + 6) = 8 /\ PartWhat(s, n + 6) = <<"buffer">>
      /\ \A b \in 1..(n + 6) : b \in 1..n \/ b = n + 6 \/ \E j \in 1..5 : b = n + j
  BY <1>1, PartsAre
<1> HIDE DEF n, o, h
<1>3. \A b \in 1..n : b \in 1..(n + 1) /\ o[b] \in Nat /\ o[b] + s.sizes[b] <= h /\ s.sizes[b] \in {4, 8}
  <2>1. \A b \in 1..n : b \in 1..(n + 1) /\ n + 1 \in (b + 1)..(n + 1)
    BY <1>1
  <2> QED BY <2>1, <1>1
<1>4. \A j \in 1..5 : /\ HiddenLayout[j][2] \in Nat /\ HiddenLayout[j][3] \in Nat \ {0}
                      /\ HiddenLayout[j][2] + HiddenLayout[j][3] <= 256
                      /\ HiddenLayout[j][1] \in HiddenKinds
  BY HiddenBlocks
<1>5. ASSUME NEW a \in 1..(n + 6) PROVE PartAt(s, a) \in Nat /\ PartSize(s, a) \in Nat \ {0}
  <2>1. CASE a \in 1..n
    <3>1. o[a] \in Nat /\ s.sizes[a] \in {4, 8} /\ PartAt(s, a) = o[a] /\ PartSize(s, a) = s.sizes[a]
      BY <2>1, <1>2, <1>3
    <3> QED BY <3>1
  <2>2. CASE a = n + 6
    <3>1. PartAt(s, a) = h + 256 /\ PartSize(s, a) = 8
      BY <2>2, <1>2
    <3> QED BY <3>1, <1>1
  <2>3. CASE \E j \in 1..5 : a = n + j
    <3>1. PICK j \in 1..5 : a = n + j
      BY <2>3
    <3>2. PartAt(s, a) = h + HiddenLayout[j][2] /\ PartSize(s, a) = HiddenLayout[j][3]
      BY <3>1, <1>2
    <3> DEFINE c == HiddenLayout[j][2]
               d == HiddenLayout[j][3]
    <3>3. c \in Nat /\ d \in Nat \ {0} /\ PartAt(s, a) = h + c /\ PartSize(s, a) = d
      BY <3>2, <1>4
    <3> HIDE DEF c, d
    <3> QED BY <3>3, <1>1
  <2>4. a \in 1..n \/ a = n + 6 \/ \E j \in 1..5 : a = n + j
    BY <1>2
  <2> QED BY <2>1, <2>2, <2>3, <2>4
<1>6. ASSUME NEW a \in 1..(n + 6) PROVE PartWhat(s, a) # <<"past the end">>
  <2>0. ASSUME NEW x, x # "past the end" PROVE <<x>> # <<"past the end">>
    <3>1. <<x>>[1] = x
      OBVIOUS
    <3>2. << "past the end" >>[1] = "past the end"
      OBVIOUS
    <3> QED BY <3>1, <3>2, <2>0
  <2>1. CASE a \in 1..n
    <3>1. PartWhat(s, a) = <<"argument", a>>
      BY <2>1, <1>2 DEF Argument
    <3>2. Len(<<"argument", a>>) = 2 /\ Len(<<"past the end">>) = 1
      OBVIOUS
    <3> QED BY <3>1, <3>2
  <2>2. CASE a = n + 6
    <3>1. PartWhat(s, a) = <<"buffer">>
      BY <2>2, <1>2
    <3> QED BY <3>1, <2>0
  <2>3. CASE \E j \in 1..5 : a = n + j
    <3>1. PICK j \in 1..5 : a = n + j
      BY <2>3
    <3> DEFINE x == HiddenLayout[j][1]
    <3>2. PartWhat(s, a) = <<x>> /\ x \in HiddenKinds
      BY <3>1, <1>2, <1>4
    <3> HIDE DEF x
    <3>3. x # "past the end"
      BY <3>2 DEF HiddenKinds
    <3> QED BY <3>2, <3>3, <2>0
  <2>4. a \in 1..n \/ a = n + 6 \/ \E j \in 1..5 : a = n + j
    BY <1>2
  <2> QED BY <2>1, <2>2, <2>3, <2>4
<1>7. ASSUME NEW a \in 1..(n + 6), NEW b \in 1..(n + 6), a < b
      PROVE  PartAt(s, a) + PartSize(s, a) <= PartAt(s, b)
  <2>1. CASE a \in 1..n
    <3>1. PartAt(s, a) + PartSize(s, a) = o[a] + s.sizes[a] /\ o[a] \in Nat /\ s.sizes[a] \in Nat /\ o[a] + s.sizes[a] <= h
      BY <2>1, <1>2, <1>3
    <3>2. CASE b \in 1..n
      <4>1. b \in (a + 1)..(n + 1)
        BY <3>2, <1>1, <1>7
      <4> QED BY <4>1, <3>1, <3>2, <2>1, <1>1, <1>2
    <3>3. CASE b = n + 6
      <4>1. PartAt(s, b) = h + 256
        BY <3>3, <1>2
      <4> QED BY <4>1, <3>1, <1>1
    <3>4. CASE \E j \in 1..5 : b = n + j
      <4>1. PICK j \in 1..5 : b = n + j
        BY <3>4
      <4> DEFINE d == HiddenLayout[j][2]
      <4>2. PartAt(s, b) = h + d /\ d \in Nat
        BY <4>1, <1>2, <1>4
      <4> DEFINE x == PartAt(s, a) + PartSize(s, a)
      <4>3. x <= h /\ x \in Nat
        BY <3>1
      <4> HIDE DEF d, x
      <4>4. x <= PartAt(s, b)
        BY <4>2, <4>3, <1>1
      <4> QED BY <4>4 DEF x
    <3> QED BY <3>2, <3>3, <3>4, <1>2
  <2>2. CASE a = n + 6
    BY <2>2, <1>1, <1>7
  <2>3. CASE \E j \in 1..5 : a = n + j
    <3>1. PICK j \in 1..5 : a = n + j
      BY <2>3
    <3>2. /\ PartAt(s, a) + PartSize(s, a) = h + HiddenLayout[j][2] + HiddenLayout[j][3]
          /\ HiddenLayout[j][2] \in Nat /\ HiddenLayout[j][3] \in Nat
          /\ HiddenLayout[j][2] + HiddenLayout[j][3] <= 256
      BY <3>1, <1>2, <1>4
    <3>3. CASE b \in 1..n
      BY <3>3, <3>1, <1>1, <1>7
    <3>4. CASE b = n + 6
      <4>1. PartAt(s, b) = h + 256
        BY <3>4, <1>2
      <4> QED BY <4>1, <3>2, <1>1
    <3>5. CASE \E l \in 1..5 : b = n + l
      <4>1. PICK l \in 1..5 : b = n + l
        BY <3>5
      <4>2. j < l
        BY <3>1, <4>1, <1>1, <1>7
      <4>3. HiddenLayout[j][2] + HiddenLayout[j][3] <= HiddenLayout[l][2] /\ HiddenLayout[l][2] \in Nat
        BY <4>2, HiddenBlocks
      <4>4. PartAt(s, b) = h + HiddenLayout[l][2]
        BY <4>1, <1>2
      <4> DEFINE x == PartAt(s, a) + PartSize(s, a)
                 c == HiddenLayout[j][2]
                 d == HiddenLayout[j][3]
                 e == HiddenLayout[l][2]
      <4>5. x = h + c + d /\ c \in Nat /\ d \in Nat /\ c + d <= e /\ e \in Nat /\ PartAt(s, b) = h + e
        BY <4>3, <4>4, <3>2
      <4> HIDE DEF c, d, e, x
      <4>6. x <= PartAt(s, b)
        BY <4>5, <1>1
      <4> QED BY <4>6 DEF x
    <3> QED BY <3>3, <3>4, <3>5, <1>2
  <2> QED BY <2>1, <2>2, <2>3, <1>2
<1> QED BY <1>5, <1>6, <1>7 DEF n

(* Each of the parts B is written once, and nothing else is.               *)
Filled(w, s, B) ==
    /\ B \subseteq 1..(Len(s.sizes) + 6)
    /\ DOMAIN w \in SUBSET Nat
    /\ \E beta \in [DOMAIN w -> B] :
          /\ \A b \in B : \E i \in DOMAIN w : beta[i] = b
          /\ \A i, j \in DOMAIN w : beta[i] = beta[j] => i = j
          /\ \A i \in DOMAIN w : w[i] = Write(PartAt(s, beta[i]), PartSize(s, beta[i]), PartWhat(s, beta[i]))

(* A part that was filled once reads as what belongs there.                *)
LEMMA FilledReads ==
    ASSUME NEW s, s.sizes \in Seq({4, 8}), NEW w, NEW B, Filled(w, s, B)
    PROVE  /\ \A b \in B : Reading(w, PartAt(s, b), PartSize(s, b)) = PartWhat(s, b)
           /\ \A i \in DOMAIN w : w[i].what # <<"past the end">>
<1>1. PICK beta \in [DOMAIN w -> B] :
          /\ \A b \in B : \E i \in DOMAIN w : beta[i] = b
          /\ \A i, j \in DOMAIN w : beta[i] = beta[j] => i = j
          /\ \A i \in DOMAIN w : w[i] = Write(PartAt(s, beta[i]), PartSize(s, beta[i]), PartWhat(s, beta[i]))
  BY DEF Filled
<1>2. \A i \in DOMAIN w : /\ w[i].at = PartAt(s, beta[i]) /\ w[i].size = PartSize(s, beta[i])
                          /\ w[i].what = PartWhat(s, beta[i])
  BY <1>1 DEF Write
<1>3. B \subseteq 1..(Len(s.sizes) + 6) /\ DOMAIN w \in SUBSET Nat
  BY DEF Filled
<1>4. ASSUME NEW b \in B PROVE Reading(w, PartAt(s, b), PartSize(s, b)) = PartWhat(s, b)
  <2> DEFINE at == PartAt(s, b)
             size == PartSize(s, b)
             hits == {i \in DOMAIN w : w[i].at < at + size /\ at < w[i].at + w[i].size}
  <2>1. PICK i \in DOMAIN w : beta[i] = b
    BY <1>1
  <2>2. at \in Nat /\ size \in Nat \ {0} /\ w[i].at = at /\ w[i].size = size /\ w[i].what = PartWhat(s, b)
    BY <2>1, <1>2, <1>3, PartsApart
  <2>3. ASSUME NEW j \in hits, j # i PROVE FALSE
    <3> DEFINE c == beta[j]
    <3>1. j \in DOMAIN w /\ c \in B /\ c # b /\ w[j].at = PartAt(s, c) /\ w[j].size = PartSize(s, c)
          /\ w[j].at < at + size /\ at < w[j].at + w[j].size
      BY <2>1, <2>3, <1>1, <1>2
    <3> HIDE DEF c
    <3>2. b \in 1..(Len(s.sizes) + 6) /\ c \in 1..(Len(s.sizes) + 6)
      BY <3>1, <1>3
    <3>3. b < c \/ c < b
      <4>1. b \in Nat /\ c \in Nat
        BY <3>2
      <4> QED BY <4>1, <3>1
    <3>4. PartAt(s, c) \in Nat /\ PartSize(s, c) \in Nat
      BY <3>2, PartsApart
    <3>5. at + size <= PartAt(s, c) \/ PartAt(s, c) + PartSize(s, c) <= at
      BY <3>2, <3>3, PartsApart
    <3> HIDE DEF at, size
    <3> QED BY <3>1, <3>4, <3>5, <2>2
  <2>4. i \in hits
    <3> HIDE DEF at, size
    <3> QED BY <2>2
  <2>5. hits = {i}
    <3> HIDE DEF hits
    <3> QED BY <2>3, <2>4
  <2>6. Max({i}) = i
    <3>1. {i} \in SUBSET Nat /\ {i} # {} /\ IsFiniteSet({i})
      BY <1>3, FS_Singleton
    <3>2. Max({i}) \in {i}
      BY <3>1, MaxIs
    <3> QED BY <3>2
  <2>7. Reading(w, at, size) = IF hits = {} THEN <<"zero">>
                               ELSE IF w[Max(hits)].at = at /\ w[Max(hits)].size = size
                                    THEN w[Max(hits)].what ELSE <<"torn">>
    BY DEF Reading
  <2> HIDE DEF hits, at, size
  <2>8. Reading(w, at, size) = w[i].what
    BY <2>2, <2>5, <2>6, <2>7
  <2> QED BY <2>2, <2>8 DEF at, size
<1>5. ASSUME NEW i \in DOMAIN w PROVE w[i].what # <<"past the end">>
  <2>1. beta[i] \in 1..(Len(s.sizes) + 6)
    BY <1>1, <1>3
  <2> QED BY <2>1, <1>2, PartsApart
<1> QED BY <1>4, <1>5

(* beta says which part each write fills.                                  *)
Filling(w, s, B, beta) ==
    /\ B \subseteq 1..(Len(s.sizes) + 6)
    /\ DOMAIN w \in SUBSET Nat
    /\ \A i \in DOMAIN w : /\ beta[i] \in B
                           /\ w[i] = Write(PartAt(s, beta[i]), PartSize(s, beta[i]), PartWhat(s, beta[i]))
    /\ \A i, j \in DOMAIN w : beta[i] = beta[j] => i = j
    /\ \A b \in B : \E i \in DOMAIN w : beta[i] = b

(* Such a beta is a witness.                                               *)
LEMMA FilledBy ==
    ASSUME NEW s, NEW w, NEW beta, NEW B, Filling(w, s, B, beta)
    PROVE  Filled(w, s, B)
<1> DEFINE g == [i \in DOMAIN w |-> beta[i]]
<1>1. g \in [DOMAIN w -> B] /\ \A i \in DOMAIN w : g[i] = beta[i]
  BY DEF Filling
<1> HIDE DEF g
<1> QED BY <1>1 DEF Filled, Filling

(* Where the arguments of the launchers' signatures lie.                   *)
LEMMA FourOffsets ==
    ASSUME NEW sizes \in Seq({4, 8}), Len(sizes) >= 4,
           sizes[1] = 8, sizes[2] = 8, sizes[3] = 8, sizes[4] = 4
    PROVE  /\ EndOf(sizes)[4] = 28
           /\ OffsetOf(sizes)[1] = 0 /\ OffsetOf(sizes)[2] = 8 /\ OffsetOf(sizes)[3] = 16 /\ OffsetOf(sizes)[4] = 24
<1> DEFINE e == EndOf(sizes)
           n == Len(sizes)
           o == OffsetOf(sizes)
<1>1. n \in Nat /\ n >= 4
  OBVIOUS
<1>2. /\ e[0] = 0
      /\ \A i \in 1..n : e[i] = Fit(e[i - 1], sizes[i])
      /\ o = [i \in 1..(n + 1) |-> IF i > n THEN _align(e[i - 1]) ELSE e[i] - sizes[i]]
  BY EndsAre
<1> HIDE DEF e, n, o
<1>3. 1 \in 1..n /\ 2 \in 1..n /\ 3 \in 1..n /\ 4 \in 1..n
  BY <1>1
<1>4. e[1] = Fit(e[0], 8) /\ e[2] = Fit(e[1], 8) /\ e[3] = Fit(e[2], 8) /\ e[4] = Fit(e[3], 4)
  <2>1. e[1] = Fit(e[1 - 1], 8) /\ e[2] = Fit(e[2 - 1], 8) /\ e[3] = Fit(e[3 - 1], 8) /\ e[4] = Fit(e[4 - 1], 4)
    BY <1>2, <1>3
  <2> QED BY <2>1
<1>5. Fit(0, 8) = 8 /\ Fit(8, 8) = 16 /\ Fit(16, 8) = 24 /\ Fit(24, 4) = 28
  BY DEF Fit
<1>6. e[1] = 8 /\ e[2] = 16 /\ e[3] = 24 /\ e[4] = 28
  BY <1>2, <1>4, <1>5
<1>7. \A i \in 1..n : o[i] = e[i] - sizes[i]
  BY <1>1, <1>2
<1>8. o[1] = e[1] - 8 /\ o[2] = e[2] - 8 /\ o[3] = e[3] - 8 /\ o[4] = e[4] - 4
  BY <1>3, <1>7
<1> QED BY <1>6, <1>8 DEF e, o

(* The layout of the kernels the plain launcher starts ...                 *)
LEMMA LauncherOffsets ==
    ASSUME NEW s, s.sizes = <<8, 8, 8, 4>>
    PROVE  /\ s.sizes \in Seq({4, 8}) /\ Len(s.sizes) = 4
           /\ OffsetOf(s.sizes)[1] = 0 /\ OffsetOf(s.sizes)[2] = 8 /\ OffsetOf(s.sizes)[3] = 16
           /\ OffsetOf(s.sizes)[4] = 24 /\ HiddenAt(s) = 32
<1> DEFINE sizes == s.sizes
<1>1. sizes \in Seq({4, 8}) /\ Len(sizes) = 4 /\ sizes[1] = 8 /\ sizes[2] = 8 /\ sizes[3] = 8 /\ sizes[4] = 4
  OBVIOUS
<1> HIDE DEF sizes
<1>2. /\ EndOf(sizes)[4] = 28
      /\ OffsetOf(sizes)[1] = 0 /\ OffsetOf(sizes)[2] = 8 /\ OffsetOf(sizes)[3] = 16 /\ OffsetOf(sizes)[4] = 24
  BY <1>1, FourOffsets
<1>3. OffsetOf(sizes) = [i \in 1..(4 + 1) |-> IF i > 4 THEN _align(EndOf(sizes)[i - 1]) ELSE EndOf(sizes)[i] - sizes[i]]
  BY <1>1, EndsAre
<1>4. OffsetOf(sizes)[5] = _align(EndOf(sizes)[4])
  <2>1. 5 \in 1..(4 + 1) /\ 5 > 4 /\ 5 - 1 = 4
    OBVIOUS
  <2> QED BY <2>1, <1>3
<1>5. _align(28) = 32
  BY DEF _align
<1>6. HiddenAt(s) = OffsetOf(sizes)[5]
  <2>1. Len(sizes) + 1 = 5
    BY <1>1
  <2> QED BY <2>1 DEF HiddenAt, sizes
<1> QED BY <1>1, <1>2, <1>4, <1>5, <1>6 DEF sizes

(* ... and of those the N-dimensional one does.                            *)
LEMMA NDOffsets ==
    ASSUME NEW s, s.sizes \in NDSizes
    PROVE  /\ s.sizes \in Seq({4, 8}) /\ (Len(s.sizes) = 5 \/ Len(s.sizes) = 6)
           /\ OffsetOf(s.sizes)[1] = 0 /\ OffsetOf(s.sizes)[2] = 8 /\ OffsetOf(s.sizes)[3] = 16
           /\ OffsetOf(s.sizes)[4] = 24 /\ OffsetOf(s.sizes)[5] = 28
           /\ Len(s.sizes) = 6 => OffsetOf(s.sizes)[6] = 32 /\ s.sizes[6] = 4
           /\ s.sizes[1] = 8 /\ s.sizes[2] = 8 /\ s.sizes[3] = 8 /\ s.sizes[4] = 4 /\ s.sizes[5] = 4
<1> DEFINE sizes == s.sizes
           n == Len(sizes)
           e == EndOf(sizes)
           o == OffsetOf(sizes)
<1>1. /\ sizes \in Seq({4, 8}) /\ (n = 5 \/ n = 6)
      /\ sizes[1] = 8 /\ sizes[2] = 8 /\ sizes[3] = 8 /\ sizes[4] = 4 /\ sizes[5] = 4
      /\ n = 6 => sizes[6] = 4
  <2>1. CASE sizes = <<8, 8, 8, 4, 4>>
    BY <2>1
  <2>2. CASE sizes = <<8, 8, 8, 4, 4, 4>>
    BY <2>2
  <2> QED BY <2>1, <2>2 DEF NDSizes
<1> HIDE DEF sizes
<1>2. /\ \A i \in 1..n : e[i] = Fit(e[i - 1], sizes[i])
      /\ o = [i \in 1..(n + 1) |-> IF i > n THEN _align(e[i - 1]) ELSE e[i] - sizes[i]]
  BY <1>1, EndsAre
<1>3. e[4] = 28 /\ o[1] = 0 /\ o[2] = 8 /\ o[3] = 16 /\ o[4] = 24
  BY <1>1, FourOffsets
<1> HIDE DEF e, n, o
<1>4. \A i \in 1..n : o[i] = e[i] - sizes[i]
  BY <1>1, <1>2
<1>5. Fit(28, 4) = 32 /\ Fit(32, 4) = 36
  BY DEF Fit
<1>6. e[5] = 32
  <2>1. 5 \in 1..n /\ 5 - 1 = 4
    BY <1>1
  <2>2. e[5] = Fit(e[4], sizes[5])
    BY <2>1, <1>2
  <2> QED BY <2>2, <1>1, <1>3, <1>5
<1>7. o[5] = 28
  <2>1. 5 \in 1..n
    BY <1>1
  <2>2. o[5] = e[5] - sizes[5]
    BY <2>1, <1>4
  <2> QED BY <2>2, <1>1, <1>6
<1>8. ASSUME n = 6 PROVE o[6] = 32
  <2>1. 6 \in 1..n /\ 6 - 1 = 5
    BY <1>8
  <2>2. e[6] = Fit(e[5], sizes[6]) /\ o[6] = e[6] - sizes[6]
    BY <2>1, <1>2, <1>4
  <2> QED BY <2>2, <1>1, <1>5, <1>6, <1>8
<1> QED BY <1>1, <1>3, <1>7, <1>8 DEF n, o, sizes

(* The parts of the hidden block that the launchers fill.                  *)
LEMMA BlockAre ==
    /\ HiddenLayout[1] = <<"hidden_block_count_x", 0, 4>> /\ HiddenLayout[2] = <<"hidden_block_count_y", 4, 4>>
    /\ HiddenLayout[3] = <<"hidden_group_size_x", 12, 2>> /\ HiddenLayout[4] = <<"hidden_group_size_y", 14, 2>>
    /\ HiddenLayout[5] = <<"hidden_remainder_x", 18, 2>>
BY DEF HiddenLayout

(* The parts LauncherWrites fills, in its order.                           *)
LauncherParts == <<1, 2, 3, 4, 5, 7, 9, 10>>

(* The plain launcher fills each of its parts once.                        *)
LEMMA LauncherFills ==
    ASSUME NEW s, s.sizes = <<8, 8, 8, 4>>
    PROVE  Filled(LauncherWrites(s), s, {1, 2, 3, 4, 5, 7, 9, 10})
<1> DEFINE w == LauncherWrites(s)
           Part(b) == Write(PartAt(s, b), PartSize(s, b), PartWhat(s, b))
<1>1. /\ s.sizes \in Seq({4, 8}) /\ Len(s.sizes) = 4
      /\ OffsetOf(s.sizes)[1] = 0 /\ OffsetOf(s.sizes)[2] = 8 /\ OffsetOf(s.sizes)[3] = 16
      /\ OffsetOf(s.sizes)[4] = 24 /\ HiddenAt(s) = 32
  BY LauncherOffsets
<1>2. s.sizes[1] = 8 /\ s.sizes[2] = 8 /\ s.sizes[3] = 8 /\ s.sizes[4] = 4
  OBVIOUS
<1>3. OriginalSize(s) = 288 /\ KdSize(s) - 8 = 288
  BY <1>1 DEF OriginalSize, KdSize
<1>4. /\ \A b \in 1..4 : /\ PartAt(s, b) = OffsetOf(s.sizes)[b] /\ PartSize(s, b) = s.sizes[b]
                         /\ PartWhat(s, b) = Argument(b)
      /\ \A j \in 1..5 : /\ PartAt(s, 4 + j) = 32 + HiddenLayout[j][2]
                         /\ PartSize(s, 4 + j) = HiddenLayout[j][3]
                         /\ PartWhat(s, 4 + j) = <<HiddenLayout[j][1]>>
      /\ PartAt(s, 10) = 288 /\ PartSize(s, 10) = 8 /\ PartWhat(s, 10) = <<"buffer">>
  <2>1. 4 + 6 = 10
    OBVIOUS
  <2> DEFINE n == Len(s.sizes)
  <2>2. /\ \A b \in 1..n : /\ PartAt(s, b) = OffsetOf(s.sizes)[b] /\ PartSize(s, b) = s.sizes[b]
                           /\ PartWhat(s, b) = Argument(b)
        /\ \A j \in 1..5 : /\ PartAt(s, n + j) = HiddenAt(s) + HiddenLayout[j][2]
                           /\ PartSize(s, n + j) = HiddenLayout[j][3]
                           /\ PartWhat(s, n + j) = <<HiddenLayout[j][1]>>
        /\ PartAt(s, n + 6) = OriginalSize(s) /\ PartSize(s, n + 6) = 8 /\ PartWhat(s, n + 6) = <<"buffer">>
    BY <1>1, PartsAre
  <2>3. n = 4
    BY <1>1
  <2> HIDE DEF n
  <2> QED BY <2>1, <2>2, <2>3, <1>1, <1>3
<1>5. /\ Part(1) = Write(0, 8, Argument(1)) /\ Part(2) = Write(8, 8, Argument(2))
      /\ Part(3) = Write(16, 8, Argument(3)) /\ Part(4) = Write(24, 4, Argument(4))
  <2>1. 1 \in 1..4 /\ 2 \in 1..4 /\ 3 \in 1..4 /\ 4 \in 1..4
    OBVIOUS
  <2> QED BY <2>1, <1>1, <1>2, <1>4
<1>6. /\ Part(5) = Write(32, 4, <<"hidden_block_count_x">>)
      /\ Part(7) = Write(44, 2, <<"hidden_group_size_x">>)
      /\ Part(9) = Write(50, 2, <<"hidden_remainder_x">>)
  <2>1. 1 \in 1..5 /\ 3 \in 1..5 /\ 5 \in 1..5
    OBVIOUS
  <2>2. /\ PartAt(s, 4 + 1) = 32 + 0 /\ PartSize(s, 4 + 1) = 4 /\ PartWhat(s, 4 + 1) = <<"hidden_block_count_x">>
        /\ PartAt(s, 4 + 3) = 32 + 12 /\ PartSize(s, 4 + 3) = 2 /\ PartWhat(s, 4 + 3) = <<"hidden_group_size_x">>
        /\ PartAt(s, 4 + 5) = 32 + 18 /\ PartSize(s, 4 + 5) = 2 /\ PartWhat(s, 4 + 5) = <<"hidden_remainder_x">>
    BY <2>1, <1>4, BlockAre
  <2>3. 4 + 1 = 5 /\ 4 + 3 = 7 /\ 4 + 5 = 9 /\ 32 + 0 = 32 /\ 32 + 12 = 44 /\ 32 + 18 = 50
    OBVIOUS
  <2> QED BY <2>2, <2>3
<1>7. Part(10) = Write(KdSize(s) - 8, 8, <<"buffer">>)
  BY <1>3, <1>4
<1>8. w = <<Part(1), Part(2), Part(3), Part(4), Part(5), Part(7), Part(9), Part(10)>>
  BY <1>5, <1>6, <1>7 DEF LauncherWrites
<1> HIDE DEF w, Part
<1>9. ASSUME NEW i \in 1..8 PROVE LauncherParts[i] \in 1..10 /\ w[i] = Part(LauncherParts[i])
  <2>1. i = 1 \/ i = 2 \/ i = 3 \/ i = 4 \/ i = 5 \/ i = 6 \/ i = 7 \/ i = 8
    OBVIOUS
  <2> QED BY <2>1, <1>8 DEF LauncherParts
<1>10. \A i, j \in 1..8 : LauncherParts[i] = LauncherParts[j] => i = j
  <2>1. \A i \in 1..8 : i = 1 \/ i = 2 \/ i = 3 \/ i = 4 \/ i = 5 \/ i = 6 \/ i = 7 \/ i = 8
    OBVIOUS
  <2>2. /\ LauncherParts[1] = 1 /\ LauncherParts[2] = 2 /\ LauncherParts[3] = 3 /\ LauncherParts[4] = 4
        /\ LauncherParts[5] = 5 /\ LauncherParts[6] = 7 /\ LauncherParts[7] = 9 /\ LauncherParts[8] = 10
    BY DEF LauncherParts
  <2> QED BY <2>1, <2>2
<1>11. DOMAIN w = 1..8 /\ DOMAIN LauncherParts = 1..8 /\ Len(s.sizes) + 6 = 10
  BY <1>1, <1>8 DEF LauncherParts
<1>12. Filled(w, s, {1, 2, 3, 4, 5, 7, 9, 10})
  <2> DEFINE beta == LauncherParts
             m == 8
             B == {1, 2, 3, 4, 5, 7, 9, 10}
  <2>1. /\ beta[1] = 1 /\ beta[2] = 2 /\ beta[3] = 3 /\ beta[4] = 4
        /\ beta[5] = 5 /\ beta[6] = 7 /\ beta[7] = 9 /\ beta[8] = 10
    BY DEF LauncherParts
  <2>2. ASSUME NEW i \in 1..m
        PROVE  /\ beta[i] \in B
               /\ w[i] = Write(PartAt(s, beta[i]), PartSize(s, beta[i]), PartWhat(s, beta[i]))
    <3>1. i = 1 \/ i = 2 \/ i = 3 \/ i = 4 \/ i = 5 \/ i = 6 \/ i = 7 \/ i = 8
      OBVIOUS
    <3>2. beta[i] \in B
      BY <3>1, <2>1
    <3> QED BY <3>2, <1>9 DEF Part
  <2>3. ASSUME NEW b \in B PROVE \E i \in 1..m : beta[i] = b
    <3>1. 1 \in 1..m /\ 2 \in 1..m /\ 3 \in 1..m /\ 4 \in 1..m /\ 5 \in 1..m /\ 6 \in 1..m /\ 7 \in 1..m /\ 8 \in 1..m
      OBVIOUS
    <3> QED BY <3>1, <2>1
  <2>4. m \in Nat /\ DOMAIN w = 1..m /\ B \in SUBSET (1..(Len(s.sizes) + 6))
    BY <1>11
  <2>5. \A i, j \in 1..m : beta[i] = beta[j] => i = j
    BY <1>10
  <2> HIDE DEF beta, m, B
  <2>6. Filling(w, s, B, beta)
    BY <2>2, <2>3, <2>4, <2>5 DEF Filling
  <2>7. Filled(w, s, B)
    BY <2>6, FilledBy
  <2> QED BY <2>7 DEF B
<1> QED BY <1>12 DEF w

(* A sequence by its length, and two of them joined.                       *)
Row(s, m) == m \in Nat /\ s = [i \in 1..m |-> s[i]]

Glues(u, s, m, t, n) ==
    /\ Row(u, m + n)
    /\ \A i \in 1..m : u[i] = s[i]
    /\ \A i \in 1..n : u[m + i] = t[i]

LEMMA Glued == ASSUME NEW s, NEW m, Row(s, m), NEW t, NEW n, Row(t, n) PROVE Glues(s \o t, s, m, t, n)
<1>1. m \in Nat /\ n \in Nat /\ s = [i \in 1..m |-> s[i]] /\ t = [i \in 1..n |-> t[i]]
  BY DEF Row
<1>2. Len(s) = m /\ Len(t) = n
  BY <1>1
<1> QED BY <1>1, <1>2 DEF Row, Glues

(* The parts the N-dimensional launcher fills.                             *)
NDParts(n) == 1..(n + 4) \union {n + 6}

(* It fills each of them once.                                             *)
LEMMA NDFills ==
    ASSUME NEW s, s.sizes \in NDSizes, off.bc = HiddenAt(s), off.gs = HiddenAt(s) + 12
    PROVE  Filled(NDWrites(s), s, NDParts(Len(s.sizes)))
<1> DEFINE n == Len(s.sizes)
           h == HiddenAt(s)
           Part(b) == Write(PartAt(s, b), PartSize(s, b), PartWhat(s, b))
           x == << Write(0, 8, Argument(1)), Write(8, 8, Argument(2)), Write(16, 8, Argument(3)),
                   Write(24, 4, Argument(4)), Write(28, 4, Argument(5)) >>
           y == IF Len(s.sizes) = 6 THEN << Write(32, 4, Argument(6)) >> ELSE <<>>
           z == << Write(off.bc, 4, <<"hidden_block_count_x">>), Write(off.bc + 4, 4, <<"hidden_block_count_y">>),
                   Write(off.gs, 2, <<"hidden_group_size_x">>), Write(off.gs + 2, 2, <<"hidden_group_size_y">>),
                   Write(KdSize(s) - 8, 8, <<"buffer">>) >>
           xy == x \o y
           w == xy \o z
<1>1. /\ s.sizes \in Seq({4, 8}) /\ (n = 5 \/ n = 6)
      /\ OffsetOf(s.sizes)[1] = 0 /\ OffsetOf(s.sizes)[2] = 8 /\ OffsetOf(s.sizes)[3] = 16
      /\ OffsetOf(s.sizes)[4] = 24 /\ OffsetOf(s.sizes)[5] = 28
      /\ n = 6 => OffsetOf(s.sizes)[6] = 32 /\ s.sizes[6] = 4
      /\ s.sizes[1] = 8 /\ s.sizes[2] = 8 /\ s.sizes[3] = 8 /\ s.sizes[4] = 4 /\ s.sizes[5] = 4
  BY NDOffsets
<1>2. NDWrites(s) = w
  BY DEF NDWrites
<1>3. h \in Nat /\ OriginalSize(s) = h + 256 /\ KdSize(s) - 8 = h + 256
  <2>1. h \in Nat /\ OriginalSize(s) = h + 256
    BY <1>1, HiddenNat
  <2>2. KdSize(s) = OriginalSize(s) + 8
    BY DEF KdSize
  <2> HIDE DEF h
  <2> QED BY <2>1, <2>2
<1>4. /\ \A b \in 1..n : /\ PartAt(s, b) = OffsetOf(s.sizes)[b] /\ PartSize(s, b) = s.sizes[b]
                         /\ PartWhat(s, b) = Argument(b)
      /\ \A j \in 1..5 : /\ PartAt(s, n + j) = h + HiddenLayout[j][2]
                         /\ PartSize(s, n + j) = HiddenLayout[j][3]
                         /\ PartWhat(s, n + j) = <<HiddenLayout[j][1]>>
      /\ PartAt(s, n + 6) = OriginalSize(s) /\ PartSize(s, n + 6) = 8 /\ PartWhat(s, n + 6) = <<"buffer">>
  BY <1>1, PartsAre
<1> HIDE DEF n, h
<1>5. /\ Row(x, 5)
      /\ x[1] = Part(1) /\ x[2] = Part(2) /\ x[3] = Part(3) /\ x[4] = Part(4) /\ x[5] = Part(5)
  <2>1. 1 \in 1..n /\ 2 \in 1..n /\ 3 \in 1..n /\ 4 \in 1..n /\ 5 \in 1..n
    BY <1>1
  <2>2. /\ Part(1) = Write(0, 8, Argument(1)) /\ Part(2) = Write(8, 8, Argument(2))
        /\ Part(3) = Write(16, 8, Argument(3)) /\ Part(4) = Write(24, 4, Argument(4))
        /\ Part(5) = Write(28, 4, Argument(5))
    BY <2>1, <1>1, <1>4
  <2> HIDE DEF Part
  <2> QED BY <2>2 DEF Row
<1>6. Row(y, n - 5) /\ \A i \in 1..(n - 5) : y[i] = Part(5 + i)
  <2>1. CASE n = 5
    <3>1. y = <<>> /\ 1..(n - 5) = {}
      BY <2>1 DEF n
    <3> HIDE DEF y, Part
    <3> QED BY <2>1, <3>1 DEF Row
  <2>2. CASE n = 6
    <3>1. y = << Write(32, 4, Argument(6)) >> /\ n - 5 = 1
      BY <2>2 DEF n
    <3>2. Part(6) = Write(32, 4, Argument(6))
      <4>1. 6 \in 1..n
        BY <2>2
      <4> QED BY <4>1, <1>1, <1>4, <2>2
    <3> HIDE DEF y, Part
    <3>3. Row(y, 1) /\ y[1] = Part(6) /\ 5 + 1 = 6
      BY <3>1, <3>2 DEF Row
    <3> QED BY <3>1, <3>3
  <2> QED BY <2>1, <2>2, <1>1
<1>7. /\ Row(z, 5)
      /\ z[1] = Part(n + 1) /\ z[2] = Part(n + 2) /\ z[3] = Part(n + 3) /\ z[4] = Part(n + 4) /\ z[5] = Part(n + 6)
  <2>1. /\ Part(n + 1) = Write(h + 0, 4, <<"hidden_block_count_x">>)
        /\ Part(n + 2) = Write(h + 4, 4, <<"hidden_block_count_y">>)
        /\ Part(n + 3) = Write(h + 12, 2, <<"hidden_group_size_x">>)
        /\ Part(n + 4) = Write(h + 14, 2, <<"hidden_group_size_y">>)
    <3>1. 1 \in 1..5 /\ 2 \in 1..5 /\ 3 \in 1..5 /\ 4 \in 1..5
      OBVIOUS
    <3> QED BY <3>1, <1>4, BlockAre
  <2>2. Part(n + 6) = Write(KdSize(s) - 8, 8, <<"buffer">>)
    BY <1>3, <1>4
  <2>3. off.bc = h + 0 /\ off.bc + 4 = h + 4 /\ off.gs = h + 12 /\ off.gs + 2 = h + 14
    <3>1. off.bc = h /\ off.gs = h + 12
      BY DEF h
    <3> QED BY <3>1, <1>3
  <2> HIDE DEF Part
  <2> QED BY <2>1, <2>2, <2>3 DEF Row
<1> HIDE DEF x, y, z, Part
<1>8. Row(xy, n) /\ \A i \in 1..n : xy[i] = Part(i)
  <2>1. 5 \in Nat /\ n - 5 \in Nat /\ 5 + (n - 5) = n
    BY <1>1
  <2>2. /\ Row(x \o y, 5 + (n - 5))
        /\ \A i \in 1..5 : (x \o y)[i] = x[i]
        /\ \A i \in 1..(n - 5) : (x \o y)[5 + i] = y[i]
    <3>1. Row(x, 5) /\ Row(y, n - 5)
      BY <1>5, <1>6
    <3>2. Glues(x \o y, x, 5, y, n - 5)
      BY <3>1, Glued
    <3> QED BY <3>2 DEF Glues
  <2>3. ASSUME NEW i \in 1..n PROVE xy[i] = Part(i)
    <3>1. CASE i \in 1..5
      <4>1. i = 1 \/ i = 2 \/ i = 3 \/ i = 4 \/ i = 5
        BY <3>1
      <4>2. x[i] = Part(i)
        BY <4>1, <1>5
      <4> QED BY <4>2, <3>1, <2>2
    <3>2. CASE i \notin 1..5
      <4> DEFINE j == i - 5
      <4>1. j \in 1..(n - 5) /\ 5 + j = i
        BY <3>2, <1>1
      <4> HIDE DEF j
      <4> QED BY <4>1, <2>2, <1>6
    <3> QED BY <3>1, <3>2
  <2> QED BY <2>1, <2>2, <2>3
<1> HIDE DEF xy
<1>9. Row(w, n + 5) /\ \A i \in 1..(n + 5) : w[i] = Part(IF i = n + 5 THEN n + 6 ELSE i)
  <2>1. 5 \in Nat /\ n \in Nat
    BY <1>1
  <2>2. /\ Row(xy \o z, n + 5)
        /\ \A i \in 1..n : (xy \o z)[i] = xy[i]
        /\ \A i \in 1..5 : (xy \o z)[n + i] = z[i]
    <3>1. Row(xy, n) /\ Row(z, 5)
      BY <1>7, <1>8
    <3>2. Glues(xy \o z, xy, n, z, 5)
      BY <3>1, Glued
    <3> QED BY <3>2 DEF Glues
  <2>3. ASSUME NEW i \in 1..(n + 5) PROVE w[i] = Part(IF i = n + 5 THEN n + 6 ELSE i)
    <3>1. CASE i \in 1..n
      <4>1. i # n + 5
        BY <3>1, <2>1
      <4> QED BY <4>1, <3>1, <2>2, <1>8
    <3>2. CASE i \notin 1..n
      <4>1. i = n + 1 \/ i = n + 2 \/ i = n + 3 \/ i = n + 4 \/ i = n + 5
        BY <3>2, <2>1
      <4>2. 1 \in 1..5 /\ 2 \in 1..5 /\ 3 \in 1..5 /\ 4 \in 1..5 /\ 5 \in 1..5
        OBVIOUS
      <4>3. w[n + 1] = z[1] /\ w[n + 2] = z[2] /\ w[n + 3] = z[3] /\ w[n + 4] = z[4] /\ w[n + 5] = z[5]
        BY <4>2, <2>2
      <4>4. n + 1 # n + 5 /\ n + 2 # n + 5 /\ n + 3 # n + 5 /\ n + 4 # n + 5
        BY <2>1
      <4> QED BY <4>1, <4>3, <4>4, <1>7
    <3> QED BY <3>1, <3>2
  <2> QED BY <2>2, <2>3
<1> HIDE DEF w
<1> DEFINE B == NDParts(n)
           beta == [i \in 1..(n + 5) |-> IF i = n + 5 THEN n + 6 ELSE i]
<1>10. Filling(w, s, B, beta)
  <2>1. n \in Nat /\ DOMAIN w = 1..(n + 5) /\ DOMAIN w \in SUBSET Nat
    BY <1>1, <1>9 DEF Row
  <2>2. B \subseteq 1..(Len(s.sizes) + 6)
    BY <2>1 DEF NDParts, n
  <2>3. ASSUME NEW i \in 1..(n + 5) PROVE beta[i] \in B
    BY <2>1 DEF NDParts
  <2>4. ASSUME NEW i \in 1..(n + 5) PROVE w[i] = Write(PartAt(s, beta[i]), PartSize(s, beta[i]), PartWhat(s, beta[i]))
    <3>1. w[i] = Part(beta[i])
      BY <1>9
    <3> HIDE DEF beta
    <3> QED BY <3>1 DEF Part
  <2>5. \A i, j \in 1..(n + 5) : beta[i] = beta[j] => i = j
    BY <2>1
  <2>6. ASSUME NEW b \in B PROVE \E i \in 1..(n + 5) : beta[i] = b
    <3>1. CASE b = n + 6
      <4>1. n + 5 \in 1..(n + 5) /\ beta[n + 5] = b
        BY <3>1, <2>1
      <4> HIDE DEF beta
      <4> QED BY <4>1
    <3>2. CASE b \in 1..(n + 4)
      <4>1. b \in 1..(n + 5) /\ beta[b] = b
        BY <3>2, <2>1
      <4> HIDE DEF beta
      <4> QED BY <4>1
    <3> QED BY <3>1, <3>2 DEF NDParts
  <2> HIDE DEF beta, B
  <2> QED BY <2>1, <2>2, <2>3, <2>4, <2>5, <2>6 DEF Filling
<1>11. Filled(w, s, B)
  <2> HIDE DEF beta, B
  <2> QED BY <1>10, FilledBy
<1> QED BY <1>2, <1>11 DEF n

(* The kept indices when the first n are kept and at most one more.        *)
AtMostOneMore(I, n) == n \in Nat /\ 1..n \subseteq I /\ I \subseteq (1..n) \union {n + 6}

FirstThenMore(p, m, n) == \A r \in 1..m : (r <= n /\ p[r] = r) \/ (r = n + 1 /\ p[r] = n + 6)

(* Arguments copied in rising order: the kernel's own come first.          *)
LEMMA RisingFirst ==
    ASSUME NEW n, NEW m, NEW I, NEW p, Rising(p, m, I), AtMostOneMore(I, n)
    PROVE  FirstThenMore(p, m, n)
<1>0. n \in Nat /\ 1..n \subseteq I /\ I \subseteq (1..n) \union {n + 6}
  BY DEF AtMostOneMore
<1> DEFINE Ok == {x \in Nat : \A r \in 1..x : r <= n => r <= m /\ p[r] = r}
<1>1. /\ m \in Nat /\ n \in Nat /\ p \in [1..m -> I] /\ \A r, q \in 1..m : r < q => p[r] < p[q]
      /\ \A i \in I : \E r \in 1..m : p[r] = i
  BY <1>0 DEF Rising
<1>2. 0 \in Ok
  OBVIOUS
<1>3. ASSUME NEW x \in Nat, x \in Ok PROVE x + 1 \in Ok
  <2> SUFFICES ASSUME x + 1 <= n PROVE x + 1 <= m /\ p[x + 1] = x + 1
    <3>1. \A r \in 1..(x + 1) : r \in 1..x \/ r = x + 1
      OBVIOUS
    <3> QED BY <3>1, <1>0, <1>3
  <2>1. x + 1 \in I
    BY <1>0
  <2>2. PICK y \in 1..m : p[y] = x + 1
    BY <2>1, <1>1
  <2>3. \A r \in 1..x : p[r] = r /\ r <= m
    BY <1>0, <1>3
  <2>4. y \notin 1..x
    BY <2>2, <2>3
  <2>5. x + 1 <= y /\ x + 1 <= m /\ x + 1 \in 1..m
    BY <2>4, <1>1
  <2>6. ASSUME x + 1 # y PROVE FALSE
    <3> DEFINE z == p[x + 1]
    <3>1. z < x + 1
      <4>1. x + 1 < y
        BY <2>5, <2>6
      <4> QED BY <4>1, <2>2, <2>5, <1>1
    <3>2. z \in 1..x
      <4>1. z \in Nat /\ z # 0
        <5>1. z \in I
          BY <2>5, <1>1
        <5> HIDE DEF z
        <5> QED BY <5>1, <1>0
      <4> HIDE DEF z
      <4> QED BY <3>1, <4>1
    <3>3. p[z] = z /\ z \in 1..m /\ z < x + 1
      <4> HIDE DEF z
      <4> QED BY <3>2, <2>3, <1>1
    <3>4. p[z] < p[x + 1]
      <4> HIDE DEF z
      <4> QED BY <3>3, <2>5, <1>1
    <3>5. z \in Nat
      BY <3>2
    <3> QED BY <3>3, <3>4, <3>5
  <2> QED BY <2>2, <2>5, <2>6
<1>4. Nat \subseteq Ok
  <2> HIDE DEF Ok
  <2> QED BY <1>2, <1>3, SetInduction
<1>5. \A r \in 1..n : r \in 1..m /\ p[r] = r
  <2>1. n \in Ok
    BY <1>0, <1>4
  <2> QED BY <2>1, <1>1
<1>6. ASSUME NEW r \in 1..m, r > n PROVE p[r] = n + 6
  <2> DEFINE z == p[r]
  <2>1. z \in I
    BY <1>1
  <2>2. ASSUME z \in 1..n PROVE FALSE
    <3>1. p[z] = z /\ z \in 1..m /\ z < r /\ z \in Nat
      <4> HIDE DEF z
      <4> QED BY <2>2, <1>1, <1>5, <1>6
    <3>2. p[z] < p[r]
      <4> HIDE DEF z
      <4> QED BY <3>1, <1>1
    <3> QED BY <3>1, <3>2
  <2> QED BY <2>1, <2>2, <1>0
<1>7. ASSUME NEW r \in 1..m, r > n PROVE r = n + 1
  <2> SUFFICES ASSUME n + 1 < r PROVE FALSE
    BY <1>7, <1>1
  <2>1. n + 1 \in 1..m /\ n + 1 > n
    BY <1>1
  <2>2. p[n + 1] = n + 6 /\ p[r] = n + 6 /\ p[n + 1] < p[r]
    BY <2>1, <1>1, <1>6, <1>7
  <2> QED BY <2>2, <1>0
<1>8. \A r \in 1..m : r > n \/ r \in 1..n
  BY <1>1
<1> QED BY <1>5, <1>6, <1>7, <1>8 DEF FirstThenMore
-----------------------------------------------------------------------------
(***************************************************************************)
(* HIP copies the arguments by the note and adds the hidden ones.          *)
(***************************************************************************)
NoteArgs(s, args) ==
    /\ Listed(s, args)
    /\ \/ Len(args) = Len(s.sizes) + 5
       \/ Len(args) = Len(s.sizes) + 6 /\ Extra(args, s)

(* Each argument is put where the part of its number lies.                 *)
LEMMA ArgsAre ==
    ASSUME NEW s, s.sizes \in Seq({4, 8}), NEW args, NoteArgs(s, args)
    PROVE  LET n == Len(s.sizes) IN
           /\ n \in Nat /\ DOMAIN args = 1..Len(args) /\ Len(args) \in {n + 5, n + 6}
           /\ \A b \in DOMAIN args : /\ Get(args[b], ".offset") = PartAt(s, b)
                                     /\ Get(args[b], ".size") = PartSize(s, b)
           /\ \A b \in DOMAIN args : b \in 1..n \/ b = n + 6 =>
                 Get(args[b], ".value_kind") \in {"global_buffer", "by_value"}
           /\ \A j \in 1..5 : /\ n + j \in DOMAIN args
                              /\ Get(args[n + j], ".value_kind") = HiddenLayout[j][1]
                              /\ HiddenLayout[j][1] \notin {"global_buffer", "by_value"}
<1> DEFINE n == Len(s.sizes)
           L == Len(args)
<1>1. n \in Nat /\ DOMAIN args = 1..L /\ (L = n + 5 \/ L = n + 6)
  <2>1. args \in Seq(Seq(Pair)) /\ (L = n + 5 \/ L = n + 6)
    BY DEF NoteArgs, Listed
  <2>2. DOMAIN args = 1..L
    <3> HIDE DEF Pair
    <3> QED BY <2>1
  <2>3. n \in Nat
    OBVIOUS
  <2> HIDE DEF n, L
  <2> QED BY <2>1, <2>2, <2>3
<1>2. /\ \A b \in 1..n : ArgIs(args[b], OffsetOf(s.sizes)[b], s.sizes[b], KindOf(s, b))
      /\ \A j \in 1..5 : ArgIs(args[n + j], HiddenAt(s) + HiddenLayout[j][2], HiddenLayout[j][3], HiddenLayout[j][1])
  BY DEF NoteArgs, Listed
<1>3. /\ \A b \in 1..n : /\ PartAt(s, b) = OffsetOf(s.sizes)[b] /\ PartSize(s, b) = s.sizes[b]
      /\ \A j \in 1..5 : /\ PartAt(s, n + j) = HiddenAt(s) + HiddenLayout[j][2]
                         /\ PartSize(s, n + j) = HiddenLayout[j][3]
      /\ PartAt(s, n + 6) = OriginalSize(s) /\ PartSize(s, n + 6) = 8
      /\ \A b \in 1..(n + 6) : b \in 1..n \/ b = n + 6 \/ \E j \in 1..5 : b = n + j
  BY PartsAre
<1>4. L = n + 6 => Extra(args, s)
  <2>1. L = n + 5 \/ Extra(args, s)
    BY DEF NoteArgs
  <2> HIDE DEF n, L
  <2> QED BY <2>1, <1>1
<1>5. \A b \in 1..n : KindOf(s, b) \in {"global_buffer", "by_value"}
  BY DEF KindOf
<1>6. ASSUME Extra(args, s)
      PROVE  /\ Get(args[n + 6], ".offset") = OriginalSize(s) /\ Get(args[n + 6], ".size") = 8
             /\ Get(args[n + 6], ".value_kind") = "global_buffer"
  BY <1>6 DEF Extra
<1> HIDE DEF n, L
<1>7. ASSUME NEW b \in 1..n
      PROVE  /\ Get(args[b], ".offset") = PartAt(s, b) /\ Get(args[b], ".size") = PartSize(s, b)
             /\ Get(args[b], ".value_kind") \in {"global_buffer", "by_value"}
  <2>1. ArgIs(args[b], PartAt(s, b), PartSize(s, b), KindOf(s, b))
    BY <1>2, <1>3
  <2>2. Get(args[b], ".offset") = PartAt(s, b) /\ Get(args[b], ".size") = PartSize(s, b)
        /\ Get(args[b], ".value_kind") = KindOf(s, b)
    BY <2>1, GetIs
  <2> QED BY <2>2, <1>5
<1>8. ASSUME NEW j \in 1..5
      PROVE  /\ n + j \in DOMAIN args
             /\ Get(args[n + j], ".offset") = PartAt(s, n + j) /\ Get(args[n + j], ".size") = PartSize(s, n + j)
             /\ Get(args[n + j], ".value_kind") = HiddenLayout[j][1]
             /\ HiddenLayout[j][1] \notin {"global_buffer", "by_value"}
  <2>1. n + j \in DOMAIN args
    BY <1>1
  <2>2. ArgIs(args[n + j], PartAt(s, n + j), PartSize(s, n + j), HiddenLayout[j][1])
    BY <1>2, <1>3
  <2>3. Get(args[n + j], ".offset") = PartAt(s, n + j) /\ Get(args[n + j], ".size") = PartSize(s, n + j)
        /\ Get(args[n + j], ".value_kind") = HiddenLayout[j][1]
    BY <2>2, GetIs
  <2>4. HiddenLayout[j][1] \in HiddenKinds
    BY HiddenBlocks
  <2> QED BY <2>1, <2>3, <2>4 DEF HiddenKinds
<1>9. ASSUME NEW b \in DOMAIN args
      PROVE  /\ Get(args[b], ".offset") = PartAt(s, b) /\ Get(args[b], ".size") = PartSize(s, b)
             /\ b \in 1..n \/ b = n + 6 => Get(args[b], ".value_kind") \in {"global_buffer", "by_value"}
  <2>1. b \in 1..(n + 6) /\ (b = n + 6 => L = n + 6)
    BY <1>1
  <2>2. CASE b = n + 6
    <3>1. Extra(args, s)
      BY <2>1, <2>2, <1>4
    <3> QED BY <3>1, <2>2, <1>3, <1>6
  <2>3. CASE b \in 1..n
    BY <2>3, <1>7
  <2>4. CASE \E j \in 1..5 : b = n + j
    <3>1. PICK j \in 1..5 : b = n + j
      BY <2>4
    <3>2. ~ (b \in 1..n \/ b = n + 6)
      BY <3>1, <1>1
    <3> QED BY <3>1, <3>2, <1>8
  <2> QED BY <2>1, <2>2, <2>3, <2>4, <1>3
<1> QED BY <1>1, <1>8, <1>9 DEF n, L

(* The hook hands over the arguments of the signature, and the buffer      *)
(* behind them if it tells that the object was expanded.                   *)
LEMMA HookGives ==
    ASSUME NEW s, s.sizes \in Seq({4, 8}), pw_nargs(co.note, co.symbols) \in {Unread, Len(s.sizes)}
    PROVE  LET n == Len(s.sizes)
               given == hook_launch([i \in DOMAIN s.sizes |-> Argument(i)])
           IN  /\ \A i \in 1..n : i \in DOMAIN given /\ given[i] = Argument(i)
               /\ pw_nargs(co.note, co.symbols) = n => n + 1 \in DOMAIN given /\ given[n + 1] = <<"buffer">>
<1> DEFINE n == Len(s.sizes)
           a == [i \in DOMAIN s.sizes |-> Argument(i)]
           m == pw_nargs(co.note, co.symbols)
           given == hook_launch(a)
           x == [i \in 1..n |-> IF i \in DOMAIN a THEN a[i] ELSE <<"past the end">>]
           y == << <<"buffer">> >>
<1>1. n \in Nat /\ DOMAIN s.sizes = 1..n /\ a = [i \in 1..n |-> Argument(i)] /\ m \in {Unread, n}
  OBVIOUS
<1>2. given = IF m = Unread THEN a ELSE [i \in 1..m |-> IF i \in DOMAIN a THEN a[i] ELSE <<"past the end">>] \o y
  BY DEF hook_launch
<1> HIDE DEF given, m, a, n
<1>3. m = n => m # Unread
  BY <1>1, UnreadAssumption
<1>4. CASE m = Unread
  BY <1>4, <1>1, <1>2, <1>3 DEF given, m, a, n
<1>5. CASE m = n
  <2>1. given = x \o y
    BY <1>2, <1>3, <1>5
  <2>2. Row(x, n) /\ \A i \in 1..n : x[i] = Argument(i)
    BY <1>1 DEF Row
  <2>3. Row(y, 1) /\ y[1] = <<"buffer">>
    BY DEF Row
  <2> HIDE DEF x, y
  <2>4. Glues(x \o y, x, n, y, 1)
    BY <2>2, <2>3, Glued
  <2>5. /\ DOMAIN (x \o y) = 1..(n + 1) /\ \A i \in 1..n : (x \o y)[i] = x[i]
        /\ \A i \in 1..1 : (x \o y)[n + i] = y[i]
    BY <2>4 DEF Glues, Row
  <2>6. 1 \in 1..1 /\ n + 1 \in 1..(n + 1) /\ \A i \in 1..n : i \in 1..(n + 1)
    BY <1>1
  <2>7. /\ \A i \in 1..n : i \in DOMAIN given /\ given[i] = Argument(i)
        /\ n + 1 \in DOMAIN given /\ given[n + 1] = <<"buffer">>
    BY <2>1, <2>2, <2>3, <2>5, <2>6
  <2> QED BY <2>7 DEF given, m, a, n
<1> QED BY <1>1, <1>4, <1>5

(* The runtime's copy and the hidden arguments fill every part the note    *)
(* lists.                                                                  *)
LEMMA HipFills ==
    ASSUME NEW s, s.sizes \in Seq({4, 8}), NoteArgs(s, NoteOf(s).args),
           pw_nargs(co.note, co.symbols) \in {Unread, Len(s.sizes)},
           Len(NoteOf(s).args) = Len(s.sizes) + 6 => pw_nargs(co.note, co.symbols) = Len(s.sizes)
    PROVE  Filled(HipWrites(s), s, DOMAIN NoteOf(s).args)
<1> DEFINE args == NoteOf(s).args
           n == Len(s.sizes)
           D == DOMAIN args
           isHidden(a) == Get(a, ".value_kind") \notin {"global_buffer", "by_value"}
           I == {i \in DOMAIN args : ~isHidden(args[i])}
           J == {i \in DOMAIN args : isHidden(args[i])}
           explicit == Kept(args, I)
           implicit == Kept(args, J)
           given == hook_launch([i \in DOMAIN s.sizes |-> Argument(i)])
           put(a, what) == Write(Get(a, ".offset"), Get(a, ".size"), what)
           x == [i \in DOMAIN explicit |->
                    put(explicit[i], IF i \in DOMAIN given THEN given[i] ELSE <<"past the end">>)]
           y == [i \in DOMAIN implicit |-> put(implicit[i], <<Get(implicit[i], ".value_kind")>>)]
           Part(b) == Write(PartAt(s, b), PartSize(s, b), PartWhat(s, b))
           w == x \o y
<1>1. HipWrites(s) = w
  BY DEF HipWrites
<1>2. /\ n \in Nat /\ D = 1..Len(args) /\ Len(args) \in {n + 5, n + 6}
      /\ \A b \in D : Get(args[b], ".offset") = PartAt(s, b) /\ Get(args[b], ".size") = PartSize(s, b)
      /\ \A b \in D : b \in 1..n \/ b = n + 6 => ~isHidden(args[b])
      /\ \A j \in 1..5 : /\ n + j \in D /\ Get(args[n + j], ".value_kind") = HiddenLayout[j][1]
                         /\ isHidden(args[n + j])
  <2>1. NoteArgs(s, args)
    OBVIOUS
  <2> HIDE DEF args
  <2>2. /\ n \in Nat /\ DOMAIN args = 1..Len(args) /\ Len(args) \in {n + 5, n + 6}
        /\ \A b \in DOMAIN args : Get(args[b], ".offset") = PartAt(s, b) /\ Get(args[b], ".size") = PartSize(s, b)
        /\ \A b \in DOMAIN args : b \in 1..n \/ b = n + 6 => Get(args[b], ".value_kind") \in {"global_buffer", "by_value"}
        /\ \A j \in 1..5 : /\ n + j \in DOMAIN args /\ Get(args[n + j], ".value_kind") = HiddenLayout[j][1]
                           /\ HiddenLayout[j][1] \notin {"global_buffer", "by_value"}
    BY <2>1, ArgsAre
  <2> HIDE DEF n
  <2> QED BY <2>2
<1>3. /\ \A b \in 1..n : PartWhat(s, b) = Argument(b)
      /\ \A j \in 1..5 : PartWhat(s, n + j) = <<HiddenLayout[j][1]>>
      /\ PartWhat(s, n + 6) = <<"buffer">>
      /\ \A b \in 1..(n + 6) : b \in 1..n \/ b = n + 6 \/ \E j \in 1..5 : b = n + j
  BY PartsAre
<1>4. /\ \A i \in 1..n : i \in DOMAIN given /\ given[i] = Argument(i)
      /\ Len(args) = n + 6 => n + 1 \in DOMAIN given /\ given[n + 1] = <<"buffer">>
  BY HookGives
<1> HIDE DEF args, n, given
<1>5. IsFiniteSet(D) /\ D \in SUBSET Nat /\ D \subseteq 1..(n + 6) /\ \A b \in D : b = n + 6 => Len(args) = n + 6
  <2> DEFINE L == Len(args)
  <2>1. D = 1..L /\ L \in Nat /\ n \in Nat /\ (L = n + 5 \/ L = n + 6)
    <3>1. D = 1..L /\ n \in Nat /\ (L = n + 5 \/ L = n + 6)
      BY <1>2
    <3> HIDE DEF L, D
    <3> QED BY <3>1
  <2> HIDE DEF L, D
  <2>2. IsFiniteSet(1..L)
    BY <2>1, CountOff
  <2> QED BY <2>1, <2>2 DEF L
<1> HIDE DEF D
<1>6. I \subseteq D /\ J \subseteq D /\ I \intersect J = {} /\ I \union J = D
  BY DEF D
<1>7. ASSUME NEW i \in D PROVE (i \in 1..n \/ i = n + 6 => i \in I) /\ ((\E j \in 1..5 : i = n + j) => i \in J)
  BY <1>2 DEF D
<1>8. 1..n \subseteq I /\ I \subseteq (1..n) \union {n + 6}
  <2>1. 1..n \subseteq D
    <3>1. D = 1..Len(args) /\ (Len(args) = n + 5 \/ Len(args) = n + 6) /\ n \in Nat
      BY <1>2
    <3> QED BY <3>1
  <2> HIDE DEF I, J
  <2>2. \A i \in I : i \in 1..n \/ i = n + 6 \/ \E j \in 1..5 : i = n + j
    BY <1>3, <1>5, <1>6
  <2> QED BY <2>1, <2>2, <1>6, <1>7
<1>9. ASSUME NEW i \in J PROVE \E j \in 1..5 : i = n + j
  <2> HIDE DEF I, J
  <2>1. i \in 1..n \/ i = n + 6 \/ \E j \in 1..5 : i = n + j
    BY <1>3, <1>5, <1>6
  <2> QED BY <2>1, <1>6, <1>7
<1> DEFINE m == Cardinality(I)
           l == Cardinality(J)
<1>10. PICK p : Rising(p, m, I) /\ explicit = [r \in 1..m |-> args[p[r]]]
  <2>1. I \in SUBSET Nat /\ IsFiniteSet(I)
    <3> HIDE DEF I
    <3> QED BY <1>5, <1>6, FS_Subset
  <2> HIDE DEF I
  <2> QED BY <2>1, KeptIs
<1>11. PICK q : Rising(q, l, J) /\ implicit = [r \in 1..l |-> args[q[r]]]
  <2>1. J \in SUBSET Nat /\ IsFiniteSet(J)
    <3> HIDE DEF J
    <3> QED BY <1>5, <1>6, FS_Subset
  <2> HIDE DEF J
  <2> QED BY <2>1, KeptIs
<1> HIDE DEF explicit, implicit, I, J, m, l
<1>12. /\ m \in Nat /\ p \in [1..m -> I] /\ (\A i \in I : \E r \in 1..m : p[r] = i)
       /\ \A r, t \in 1..m : r < t => p[r] < p[t]
  BY <1>10 DEF Rising
<1>13. /\ l \in Nat /\ q \in [1..l -> J] /\ (\A i \in J : \E r \in 1..l : q[r] = i)
       /\ \A r, t \in 1..l : r < t => q[r] < q[t]
  BY <1>11 DEF Rising
<1>14. \A r \in 1..m : (r <= n /\ p[r] = r) \/ (r = n + 1 /\ p[r] = n + 6)
  <2>1. AtMostOneMore(I, n) /\ Rising(p, m, I)
    BY <1>2, <1>8, <1>10 DEF AtMostOneMore
  <2>2. FirstThenMore(p, m, n)
    BY <2>1, RisingFirst
  <2> QED BY <2>2 DEF FirstThenMore
<1>15. Row(x, m) /\ \A r \in 1..m : x[r] = Part(p[r])
  <2>1. DOMAIN explicit = 1..m /\ \A r \in 1..m : explicit[r] = args[p[r]]
    BY <1>10
  <2>2. ASSUME NEW r \in 1..m PROVE x[r] = Part(p[r])
    <3> DEFINE what == IF r \in DOMAIN given THEN given[r] ELSE <<"past the end">>
    <3>1. p[r] \in D
      BY <1>6, <1>12
    <3>2. x[r] = Write(Get(args[p[r]], ".offset"), Get(args[p[r]], ".size"), what)
      BY <2>1
    <3>3. x[r] = Write(PartAt(s, p[r]), PartSize(s, p[r]), what)
      BY <3>1, <3>2, <1>2
    <3>4. what = PartWhat(s, p[r])
      <4>1. CASE r <= n /\ p[r] = r
        <5>1. r \in 1..n
          BY <4>1, <1>2, <1>12
        <5> QED BY <5>1, <4>1, <1>3, <1>4
      <4>2. CASE r = n + 1 /\ p[r] = n + 6
        <5>1. Len(args) = n + 6
          BY <4>2, <3>1, <1>5
        <5> QED BY <5>1, <4>2, <1>3, <1>4
      <4> QED BY <4>1, <4>2, <1>14
    <3> HIDE DEF what, x
    <3> QED BY <3>3, <3>4
  <2>3. x = [r \in 1..m |-> x[r]]
    BY <2>1
  <2> HIDE DEF x, Part
  <2> QED BY <2>2, <2>3, <1>12 DEF Row
<1>16. Row(y, l) /\ \A r \in 1..l : y[r] = Part(q[r])
  <2>1. DOMAIN implicit = 1..l /\ \A r \in 1..l : implicit[r] = args[q[r]]
    BY <1>11
  <2>2. ASSUME NEW r \in 1..l PROVE y[r] = Part(q[r])
    <3> DEFINE what == <<Get(args[q[r]], ".value_kind")>>
    <3>1. q[r] \in D /\ q[r] \in J
      BY <1>6, <1>13
    <3>2. y[r] = Write(Get(args[q[r]], ".offset"), Get(args[q[r]], ".size"), what)
      BY <2>1
    <3>3. y[r] = Write(PartAt(s, q[r]), PartSize(s, q[r]), what)
      BY <3>1, <3>2, <1>2
    <3>4. what = PartWhat(s, q[r])
      <4>1. PICK j \in 1..5 : q[r] = n + j
        BY <3>1, <1>9
      <4> QED BY <4>1, <1>2, <1>3
    <3> HIDE DEF what, y
    <3> QED BY <3>3, <3>4
  <2>3. y = [r \in 1..l |-> y[r]]
    BY <2>1
  <2> HIDE DEF y, Part
  <2> QED BY <2>2, <2>3, <1>13 DEF Row
<1> HIDE DEF x, y, Part
<1>17. /\ Row(w, m + l) /\ (\A i \in 1..m : w[i] = x[i]) /\ \A i \in 1..l : w[m + i] = y[i]
  <2>1. Glues(x \o y, x, m, y, l)
    BY <1>15, <1>16, Glued
  <2> QED BY <2>1 DEF Glues
<1> HIDE DEF w
<1> DEFINE beta == [i \in 1..(m + l) |-> IF i <= m THEN p[i] ELSE q[i - m]]
<1>18. ASSUME NEW i \in 1..(m + l)
       PROVE  \/ i \in 1..m /\ beta[i] = p[i] /\ beta[i] \in I /\ w[i] = Part(beta[i])
              \/ i - m \in 1..l /\ beta[i] = q[i - m] /\ beta[i] \in J /\ w[i] = Part(beta[i])
  <2>1. CASE i <= m
    <3>1. i \in 1..m /\ beta[i] = p[i]
      BY <2>1, <1>12
    <3> HIDE DEF beta
    <3> QED BY <3>1, <1>12, <1>15, <1>17
  <2>2. CASE ~ (i <= m)
    <3> DEFINE j == i - m
    <3>1. j \in 1..l /\ m + j = i /\ beta[i] = q[j]
      BY <2>2, <1>12, <1>13
    <3> HIDE DEF beta, j
    <3>2. q[j] \in J /\ w[i] = Part(beta[i])
      BY <3>1, <1>13, <1>16, <1>17
    <3> QED BY <3>1, <3>2 DEF j
  <2> QED BY <2>1, <2>2
<1>19. ASSUME NEW b \in D PROVE \E i \in 1..(m + l) : beta[i] = b
  <2>1. CASE b \in I
    <3>1. PICK r \in 1..m : p[r] = b
      BY <2>1, <1>12
    <3>2. r \in 1..(m + l) /\ r <= m
      BY <1>12, <1>13
    <3> QED BY <3>1, <3>2
  <2>2. CASE b \in J
    <3>1. PICK r \in 1..l : q[r] = b
      BY <2>2, <1>13
    <3>2. m + r \in 1..(m + l) /\ ~ (m + r <= m) /\ (m + r) - m = r
      BY <1>12, <1>13
    <3>3. beta[m + r] = b
      BY <3>1, <3>2
    <3> HIDE DEF beta
    <3> QED BY <3>2, <3>3
  <2> QED BY <2>1, <2>2, <1>6
<1> HIDE DEF beta
<1>20. ASSUME NEW i \in 1..(m + l), NEW j \in 1..(m + l), beta[i] = beta[j] PROVE i = j
  <2>1. \A r, t \in 1..m : p[r] = p[t] => r = t
    <3> SUFFICES ASSUME NEW r \in 1..m, NEW t \in 1..m, p[r] = p[t], r # t PROVE FALSE
      OBVIOUS
    <3>1. p[r] \in Nat /\ p[t] \in Nat
      BY <1>5, <1>6, <1>12
    <3>2. r < t \/ t < r
      BY <1>12
    <3>3. p[r] < p[t] \/ p[t] < p[r]
      BY <3>2, <1>12
    <3> QED BY <3>1, <3>3
  <2>2. \A r, t \in 1..l : q[r] = q[t] => r = t
    <3> SUFFICES ASSUME NEW r \in 1..l, NEW t \in 1..l, q[r] = q[t], r # t PROVE FALSE
      OBVIOUS
    <3>1. q[r] \in Nat /\ q[t] \in Nat
      BY <1>5, <1>6, <1>13
    <3>2. r < t \/ t < r
      BY <1>13
    <3>3. q[r] < q[t] \/ q[t] < q[r]
      BY <3>2, <1>13
    <3> QED BY <3>1, <3>3
  <2>3. CASE beta[i] \in I
    <3>1. beta[i] \notin J /\ beta[j] \notin J
      BY <2>3, <1>6, <1>20
    <3>2. i \in 1..m /\ beta[i] = p[i] /\ j \in 1..m /\ beta[j] = p[j]
      BY <3>1, <1>18
    <3> QED BY <3>2, <2>1, <1>20
  <2>4. CASE beta[i] \in J
    <3>1. beta[i] \notin I /\ beta[j] \notin I
      BY <2>4, <1>6, <1>20
    <3>2. i - m \in 1..l /\ beta[i] = q[i - m] /\ j - m \in 1..l /\ beta[j] = q[j - m]
      BY <3>1, <1>18
    <3>3. i - m = j - m
      BY <3>2, <2>2, <1>20
    <3> QED BY <3>3, <1>12, <1>13
  <2> QED BY <2>3, <2>4, <1>18
<1>21. Filling(w, s, D, beta)
  <2>1. DOMAIN w = 1..(m + l) /\ DOMAIN w \in SUBSET Nat
    BY <1>17, <1>12, <1>13 DEF Row
  <2>2. D \subseteq 1..(Len(s.sizes) + 6)
    BY <1>5 DEF n
  <2>3. ASSUME NEW i \in 1..(m + l)
        PROVE  /\ beta[i] \in D
               /\ w[i] = Write(PartAt(s, beta[i]), PartSize(s, beta[i]), PartWhat(s, beta[i]))
    <3>1. beta[i] \in D /\ w[i] = Part(beta[i])
      BY <1>6, <1>18
    <3> QED BY <3>1 DEF Part
  <2> QED BY <2>1, <2>2, <2>3, <1>19, <1>20 DEF Filling
<1>22. Filled(w, s, D)
  BY <1>21, FilledBy
<1> QED BY <1>1, <1>22 DEF D, args

(* What a note that is in step with the kernels holds of each of them.     *)
LEMMA NotesAre ==
    ASSUME NoteInv, stage # "library", NEW i \in DOMAIN co.kernels
    PROVE  LET s == co.kernels[i]
               r == co.note[i]
           IN  /\ s.sizes \in Seq({4, 8}) /\ s.sizes # <<>>
               /\ NoteArgs(s, r.args)
               /\ r.ksize > OriginalSize(s) => Len(r.args) = Len(s.sizes) + 6
               /\ Len(r.args) = Len(s.sizes) + 6 => stage = "expanded"
<1> DEFINE s == co.kernels[i]
           r == co.note[i]
           n == Len(s.sizes)
<1>1. /\ s.sizes \in Seq({4, 8}) /\ s.sizes # <<>> /\ n \in Nat
      /\ CompiledEntry(r, s) \/ (stage = "expanded" /\ ExpandedEntry(r, s))
  <2>1. co.kernels \in CodeObjects
    BY DEF NoteInv
  <2>2. s.sizes \in Seq({4, 8}) /\ s.sizes # <<>>
    BY <2>1, ObjectKernels
  <2>3. CompiledEntry(r, s) \/ (stage = "expanded" /\ ExpandedEntry(r, s))
    BY DEF NoteInv
  <2>4. n \in Nat
    <3> HIDE DEF s
    <3> QED BY <2>2
  <2> QED BY <2>2, <2>3, <2>4
<1> HIDE DEF s, r
<1>2. OriginalSize(s) \in Nat
  BY <1>1, HiddenNat
<1>3. CASE CompiledEntry(r, s)
  <2>1. r.args = Compiled(s).args /\ r.ksize = OriginalSize(s)
    BY <1>3 DEF CompiledEntry
  <2>2. Listed(s, r.args) /\ Len(r.args) = n + 5
    BY <2>1, <1>1, CompiledArgs
  <2>3. NoteArgs(s, r.args)
    BY <2>2 DEF NoteArgs
  <2>4. ~ (r.ksize > OriginalSize(s)) /\ Len(r.args) # n + 6
    <3> HIDE DEF n
    <3> QED BY <2>1, <2>2, <1>1, <1>2
  <2> QED BY <1>1, <2>3, <2>4 DEF s, r
<1>4. CASE stage = "expanded" /\ ExpandedEntry(r, s)
  <2>1. /\ r.args = ExpandedArgs(Compiled(s).args, OriginalSize(s))
        /\ r.ksize = ExpandedSize(Compiled(s).args, OriginalSize(s))
    BY <1>4 DEF ExpandedEntry
  <2>2. /\ Listed(s, r.args)
        /\ \/ Len(r.args) = n + 5 /\ r.ksize = OriginalSize(s)
           \/ Len(r.args) = n + 6 /\ Extra(r.args, s) /\ r.ksize = OriginalSize(s) + 8
    BY <2>1, <1>1, ExpandedListed
  <2>3. NoteArgs(s, r.args)
    BY <2>2 DEF NoteArgs
  <2>4. r.ksize > OriginalSize(s) => Len(r.args) = n + 6
    <3> HIDE DEF n
    <3> QED BY <2>2, <1>2
  <2> QED BY <1>1, <1>4, <2>3, <2>4 DEF s, r
<1> QED BY <1>1, <1>3, <1>4

(* The readers of the packed note meet a note of the shape they expect.    *)
LEMMA NoteIsOk ==
    ASSUME NoteInv, stage # "library", NEW i \in DOMAIN co.kernels
    PROVE  NoteOk(co.note, Len(co.kernels)) /\ 1 \in DOMAIN co.kernels
<1> DEFINE N == Len(co.kernels)
<1>1. DOMAIN co.kernels = 1..N /\ N \in Nat /\ DOMAIN co.note = 1..N
  <2>1. co.kernels \in CodeObjects /\ DOMAIN co.note = DOMAIN co.kernels
    BY DEF NoteInv
  <2> QED BY <2>1, ObjectKernels
<1>2. N \in Nat \ {0}
  <2> HIDE DEF N
  <2> QED BY <1>1
<1>3. ASSUME NEW j \in 1..N PROVE co.note[j].args \in Seq(Seq(Pair)) /\ co.note[j].args # <<>>
  <2> DEFINE s == co.kernels[j]
             args == co.note[j].args
  <2>1. s.sizes \in Seq({4, 8}) /\ NoteArgs(s, args)
    BY <1>1, NotesAre
  <2> HIDE DEF s, args
  <2>2. args \in Seq(Seq(Pair)) /\ Len(args) >= Len(s.sizes) + 5 /\ Len(s.sizes) \in Nat
    BY <2>1 DEF NoteArgs, Listed
  <2>3. args # <<>>
    <3>1. Len(args) # 0
      BY <2>2
    <3> QED BY <3>1
  <2> QED BY <2>2, <2>3 DEF args
<1>4. NoteOk(co.note, N)
  <2> HIDE DEF N
  <2> QED BY <1>1, <1>2, <1>3 DEF NoteOk
<1>5. 1 \in 1..N
  <2> HIDE DEF N
  <2> QED BY <1>2
<1> QED BY <1>1, <1>4, <1>5

(* The hook counts the arguments of the first kernel, and those of the one *)
(* that is launched if the first stands for it, or it reads none at all.   *)
LEMMA HookCounts ==
    ASSUME NoteInv, stage # "library", NEW i \in DOMAIN co.kernels,
           \/ "__dyninst_pw_stride" \notin DOMAIN co.symbols
           \/ Len(co.kernels[1].sizes) = Len(co.kernels[i].sizes)
    PROVE  /\ pw_nargs(co.note, co.symbols) \in {Unread, Len(co.kernels[i].sizes)}
           /\ stage = "expanded" => pw_nargs(co.note, co.symbols) = Len(co.kernels[i].sizes)
<1>1. CASE stage # "expanded"
  <2>1. co.symbols = << >>
    BY <1>1 DEF NoteInv
  <2>2. co_read_symbol_u32(<< >>, "__dyninst_pw_stride", 0) = 0
    BY DEF co_read_symbol_u32
  <2> QED BY <2>1, <2>2, <1>1 DEF pw_nargs
<1>2. CASE stage = "expanded"
  <2>1. co.symbols = [mark \in {"__dyninst_pw_stride"} |-> 64]
    BY <1>2 DEF NoteInv
  <2>2. co_read_symbol_u32([mark \in {"__dyninst_pw_stride"} |-> 64], "__dyninst_pw_stride", 0) = 64
    BY DEF co_read_symbol_u32
  <2>3. pw_nargs(co.note, co.symbols) = co_read_explicit_arg_count(co.note)
    BY <2>1, <2>2 DEF pw_nargs
  <2>4. NoteOk(co.note, Len(co.kernels)) /\ 1 \in DOMAIN co.kernels
    BY NoteIsOk
  <2> DEFINE s == co.kernels[1]
  <2>5. s.sizes \in Seq({4, 8}) /\ s.sizes # <<>> /\ NoteArgs(s, co.note[1].args)
    BY <2>4, NotesAre
  <2>6. Len(s.sizes) = Len(co.kernels[i].sizes)
    BY <2>1
  <2> HIDE DEF s
  <2>7. Listed(s, co.note[1].args)
    BY <2>5 DEF NoteArgs
  <2>8. co_read_explicit_arg_count(co.note) = Len(s.sizes)
    BY <2>4, <2>5, <2>7, ArgumentsCounted
  <2> QED BY <2>3, <2>6, <2>8
<1> QED BY <1>1, <1>2
-----------------------------------------------------------------------------
(***************************************************************************)
(* The arguments of a launch: a launcher has its signature and the offsets *)
(* it read before it writes anything, and what is written fills the parts  *)
(* of the segment that the kernel looks at.                                *)
(***************************************************************************)
Grown == \E i \in DOMAIN co.note : co.note[i].name = k.name /\ co.note[i].ksize > OriginalSize(k)

(* The parts the kernel will look at: its arguments, the hidden ones the   *)
(* host is to supply and, where the kernel was grown for it, the buffer.   *)
Needed ==
    (1..Len(k.sizes)) \union {Len(k.sizes) + j : j \in Supplied}
        \union {b \in {Len(k.sizes) + 6} : host # "hip" \/ Grown}

(* Nothing is written before the launcher has its kernel and the offsets;  *)
(* what is written then fills parts that do not overlap, and among them are*)
(* the needed ones.                                                        *)
ArgumentsInv ==
    /\ main \in {"none", "start", "load", "freeze", "arguments"} => writes = <<>>
    /\ main \in {"start", "load", "freeze", "arguments"} =>
          \/ host = "launcher" /\ k.sizes \in LauncherSizes
          \/ /\ host = "launcher_nd" /\ k.sizes \in NDSizes
             /\ FirstStandsForK => off.bc = HiddenAt(k) /\ off.gs = HiddenAt(k) + 12
    /\ writes # <<>> /\ FirstStandsForK =>
          /\ k.sizes \in Seq({4, 8})
          /\ \E B : Filled(writes, k, B) /\ Needed \subseteq B

(* A step that leaves the launch as it is keeps the invariant.             *)
LEMMA ArgumentsStay ==
    ASSUME ArgumentsInv, UNCHANGED <<co, host, k, off, writes>>,
           main' \in {"none", "start", "load", "freeze", "arguments"} =>
              \/ main \in {"start", "load", "freeze", "arguments"}
              \/ main' = "none" /\ main = "none"
    PROVE  ArgumentsInv'
<1>1. Needed' = Needed
  BY DEF Needed, Grown, Supplied
<1>2. main' \in {"none", "start", "load", "freeze", "arguments"} =>
         main \in {"none", "start", "load", "freeze", "arguments"}
  OBVIOUS
<1>3. main' \in {"start", "load", "freeze", "arguments"} => main \in {"start", "load", "freeze", "arguments"}
  OBVIOUS
<1>4. (\E B : Filled(writes, k, B) /\ Needed \subseteq B)' <=> \E B : Filled(writes, k, B) /\ Needed \subseteq B
  BY <1>1
<1>5. FirstStandsForK' <=> FirstStandsForK
  BY DEF FirstStandsForK
<1> QED BY <1>2, <1>3, <1>4, <1>5 DEF ArgumentsInv

(* The offsets that launcher_nd.cpp reads are those of the hidden block of *)
(* the first kernel.                                                       *)
LEMMA ChosenOffsets ==
    ASSUME NoteInv, stage # "library", NEW i \in DOMAIN co.kernels
    PROVE  /\ co_read_kernarg_offset(co.note, "hidden_block_count_x") = HiddenAt(co.kernels[1])
           /\ co_read_kernarg_offset(co.note, "hidden_group_size_x") = HiddenAt(co.kernels[1]) + 12
<1> DEFINE s == co.kernels[1]
<1>1. NoteOk(co.note, Len(co.kernels)) /\ 1 \in DOMAIN co.kernels
  BY NoteIsOk
<1>3. s.sizes \in Seq({4, 8}) /\ s.sizes # <<>> /\ NoteArgs(s, co.note[1].args)
  BY <1>1, NotesAre
<1> HIDE DEF s
<1>4. Listed(s, co.note[1].args)
  BY <1>3 DEF NoteArgs
<1>5. 1 \in 1..5 /\ 3 \in 1..5
  OBVIOUS
<1>6. \A j \in 1..5 : co_read_kernarg_offset(co.note, HiddenLayout[j][1]) = HiddenAt(s) + HiddenLayout[j][2]
  BY <1>1, <1>3, <1>4, OffsetRead
<1>7. /\ HiddenLayout[1][1] = "hidden_block_count_x" /\ HiddenLayout[1][2] = 0
      /\ HiddenLayout[3][1] = "hidden_group_size_x" /\ HiddenLayout[3][2] = 12
  BY BlockAre
<1>8. HiddenAt(s) \in Nat
  BY <1>3, HiddenNat
<1>9. /\ co_read_kernarg_offset(co.note, "hidden_block_count_x") = HiddenAt(s)
      /\ co_read_kernarg_offset(co.note, "hidden_group_size_x") = HiddenAt(s) + 12
  <2>1. HiddenAt(s) + 0 = HiddenAt(s)
    BY <1>8
  <2>2. /\ co_read_kernarg_offset(co.note, HiddenLayout[1][1]) = HiddenAt(s) + HiddenLayout[1][2]
        /\ co_read_kernarg_offset(co.note, HiddenLayout[3][1]) = HiddenAt(s) + HiddenLayout[3][2]
    BY <1>5, <1>6
  <2> QED BY <2>1, <2>2, <1>7
<1> QED BY <1>9 DEF s

(* A launcher reads the offsets of the hidden arguments as it starts.      *)
LEMMA ChooseKeepsArguments ==
    ASSUME NoteInv, LaunchInv, ArgumentsInv, stage # "library", NEW i \in DOMAIN co.kernels,
           NEW h \in {"launcher", "launcher_nd"}, Choose(h, co.kernels[i])
    PROVE  ArgumentsInv'
<1> DEFINE s == co.kernels[i]
<1>1. /\ main = "none" /\ main' = "start" /\ host' = h /\ k' = s /\ writes' = writes
      /\ \/ h = "launcher" /\ s.sizes \in LauncherSizes
         \/ h = "launcher_nd" /\ s.sizes \in NDSizes
      /\ off' = [bc |-> co_read_kernarg_offset(co.note, "hidden_block_count_x"),
                 gs |-> co_read_kernarg_offset(co.note, "hidden_group_size_x")]
  BY DEF Choose, Step
<1>2. writes' = <<>>
  BY <1>1 DEF ArgumentsInv
<1>3. off'.bc = HiddenAt(co.kernels[1]) /\ off'.gs = HiddenAt(co.kernels[1]) + 12
  BY <1>1, ChosenOffsets
<1> HIDE DEF s
<1>4. \/ host' = "launcher" /\ k'.sizes \in LauncherSizes
      \/ /\ host' = "launcher_nd" /\ k'.sizes \in NDSizes
         /\ FirstStandsForK' => off'.bc = HiddenAt(k') /\ off'.gs = HiddenAt(k') + 12
  <2>1. host' = "launcher_nd" /\ FirstStandsForK' => HiddenAt(co.kernels[1]) = HiddenAt(k')
    <3>1. co' = co
      BY DEF Choose, build
    <3> QED BY <3>1 DEF FirstStandsForK
  <2> QED BY <1>1, <1>3, <2>1
<1> QED BY <1>2, <1>4 DEF ArgumentsInv

(* A launcher writes its arguments.                                        *)
LEMMA LauncherArguments ==
    ASSUME ArgumentsInv, Arguments
    PROVE  ArgumentsInv'
<1>1. /\ main = "arguments" /\ main' = "service"
      /\ writes' = IF host = "launcher" THEN LauncherWrites(k) ELSE NDWrites(k)
      /\ host' = host /\ k' = k /\ co' = co
  BY DEF Arguments, Step, build
<1> SUFFICES ASSUME FirstStandsForK' PROVE ArgumentsInv'
  BY <1>1 DEF ArgumentsInv
<1>0. FirstStandsForK
  BY <1>1 DEF FirstStandsForK
<1>2. \/ host = "launcher" /\ k.sizes \in LauncherSizes
      \/ /\ host = "launcher_nd" /\ k.sizes \in NDSizes
         /\ off.bc = HiddenAt(k) /\ off.gs = HiddenAt(k) + 12
  BY <1>1, <1>0 DEF ArgumentsInv
<1>3. Needed' = Needed
  BY <1>1 DEF Needed, Grown, Supplied
<1>4. CASE host = "launcher" /\ k.sizes \in LauncherSizes
  <2>1. k.sizes = <<8, 8, 8, 4>>
    BY <1>4 DEF LauncherSizes
  <2>2. Filled(LauncherWrites(k), k, {1, 2, 3, 4, 5, 7, 9, 10})
    BY <2>1, LauncherFills
  <2>3. k.sizes \in Seq({4, 8}) /\ Len(k.sizes) = 4
    BY <2>1, LauncherOffsets
  <2>4. \A j \in Supplied : j = 1 \/ j = 3 \/ j = 5
    <3>1. \A j \in Supplied : /\ j \in 1..5
                              /\ HiddenLayout[j][1] \notin {"hidden_block_count_y", "hidden_group_size_y"}
      BY <1>4, HiddenBlocks DEF Supplied
    <3>2. \A j \in 1..5 : j = 1 \/ j = 2 \/ j = 3 \/ j = 4 \/ j = 5
      OBVIOUS
    <3> QED BY <3>1, <3>2, BlockAre
  <2>5. Needed \subseteq {1, 2, 3, 4, 5, 7, 9, 10}
    BY <2>3, <2>4 DEF Needed
  <2> HIDE DEF Needed
  <2>6. writes' = LauncherWrites(k)
    BY <1>1, <1>4
  <2> QED BY <1>1, <1>3, <2>2, <2>3, <2>5, <2>6 DEF ArgumentsInv
<1>5. CASE /\ host = "launcher_nd" /\ k.sizes \in NDSizes
           /\ off.bc = HiddenAt(k) /\ off.gs = HiddenAt(k) + 12
  <2> DEFINE n == Len(k.sizes)
  <2>1. Filled(NDWrites(k), k, NDParts(n))
    BY <1>5, NDFills
  <2>2. k.sizes \in Seq({4, 8}) /\ n \in Nat
    BY <1>5, NDOffsets
  <2>3. \A j \in Supplied : j \in 1..4
    <3>1. \A j \in Supplied : j \in 1..5 /\ HiddenLayout[j][1] # "hidden_remainder_x"
      BY <1>5, HiddenBlocks DEF Supplied
    <3>2. HiddenLayout[5][1] = "hidden_remainder_x"
      BY BlockAre
    <3>3. \A j \in 1..5 : j \in 1..4 \/ j = 5
      OBVIOUS
    <3> QED BY <3>1, <3>2, <3>3
  <2>4. Needed \subseteq NDParts(n)
    <3> HIDE DEF n
    <3>1. Needed \subseteq (1..n) \union {n + j : j \in Supplied} \union {n + 6}
      BY DEF Needed, n
    <3> QED BY <3>1, <2>2, <2>3 DEF NDParts
  <2>5. writes' = NDWrites(k)
    BY <1>1, <1>5
  <2> HIDE DEF n
  <2> QED BY <1>1, <1>3, <2>1, <2>2, <2>4, <2>5 DEF ArgumentsInv
<1> QED BY <1>2, <1>4, <1>5

(* The runtime copies the arguments by the note.                           *)
LEMMA HipArguments ==
    ASSUME NoteInv, stage # "library", NEW i \in DOMAIN co.kernels, HipLaunches(co.kernels[i])
    PROVE  ArgumentsInv'
<1> DEFINE s == co.kernels[i]
           n == Len(s.sizes)
           args == co.note[i].args
           same == {j \in DOMAIN co.segment : co.segment[j].name = s.name}
<1>1. /\ stage \in {"synced", "expanded"} /\ main' = "ended" /\ host' = "hip" /\ k' = s
      /\ writes' = HipWrites(s) /\ co' = co
  BY DEF HipLaunches, Step, build
<1>2. /\ co.kernels \in CodeObjects /\ co.segment = co.note /\ DOMAIN co.note = DOMAIN co.kernels
      /\ \A j \in DOMAIN co.kernels : co.note[j].name = co.kernels[j].name
  BY <1>1 DEF NoteInv
<1>3. \A j \in DOMAIN co.note : co.note[j].name = s.name => j = i
  BY <1>2, ObjectKernels
<1>4. NoteOf(s).args = args
  <2>1. same = {i}
    BY <1>2, <1>3
  <2>2. Min({i}) = i
    <3>1. i \in Nat
      BY <1>2, ObjectKernels
    <3>2. {i} \in SUBSET Nat /\ {i} # {}
      BY <3>1
    <3>3. Min({i}) \in {i}
      BY <3>2, MinIs
    <3> QED BY <3>3
  <2>3. NoteOf(s) = co.segment[Min(same)]
    BY DEF NoteOf
  <2> HIDE DEF same, s
  <2> QED BY <2>1, <2>2, <2>3, <1>2
<1>5. /\ s.sizes \in Seq({4, 8}) /\ NoteArgs(s, args)
      /\ co.note[i].ksize > OriginalSize(s) => Len(args) = n + 6
      /\ Len(args) = n + 6 => stage = "expanded"
  BY NotesAre
<1> SUFFICES ASSUME FirstStandsForK' PROVE ArgumentsInv'
  BY <1>1 DEF ArgumentsInv
<1>6. pw_nargs(co.note, co.symbols) \in {Unread, n} /\ (stage = "expanded" => pw_nargs(co.note, co.symbols) = n)
  <2>1. "__dyninst_pw_stride" \notin DOMAIN co.symbols \/ Len(co.kernels[1].sizes) = n
    BY <1>1 DEF FirstStandsForK
  <2> QED BY <2>1, HookCounts
<1> HIDE DEF s, args
<1>7. Filled(HipWrites(s), s, DOMAIN args)
  BY <1>4, <1>5, <1>6, HipFills
<1>8. /\ n \in Nat /\ DOMAIN args = 1..Len(args) /\ Len(args) \in {n + 5, n + 6}
  BY <1>5, ArgsAre
<1>9. Needed' \subseteq DOMAIN args
  <2> DEFINE L == Len(args)
  <2>0. n \in Nat /\ DOMAIN args = 1..L /\ (L = n + 5 \/ L = n + 6)
    BY <1>8
  <2>1. (1..n) \subseteq DOMAIN args
    <3> HIDE DEF n, L
    <3> QED BY <2>0
  <2>2. \A j \in 1..5 : n + j \in DOMAIN args
    <3> HIDE DEF n, L
    <3> QED BY <2>0
  <2>3. Supplied' \subseteq 1..5
    BY HiddenBlocks DEF Supplied
  <2>4. Grown' => n + 6 \in DOMAIN args
    <3>1. Grown' => co.note[i].ksize > OriginalSize(s)
      BY <1>1, <1>3 DEF Grown
    <3>2. Grown' => Len(args) = n + 6
      BY <3>1, <1>5
    <3> HIDE DEF n
    <3> QED BY <3>2, <1>8
  <2>5. Needed' \subseteq (1..n) \union {n + j : j \in Supplied'} \union {b \in {n + 6} : Grown'}
    BY <1>1 DEF Needed
  <2> HIDE DEF n
  <2> QED BY <2>1, <2>2, <2>3, <2>4, <2>5
<1> HIDE DEF n
<1> QED BY <1>1, <1>5, <1>7, <1>9 DEF ArgumentsInv

(* Every step keeps the invariant.                                         *)
LEMMA ArgumentsStep == NoteInv /\ LaunchInv /\ ArgumentsInv /\ [Next]_vars => ArgumentsInv'
<1> SUFFICES ASSUME NoteInv, LaunchInv, ArgumentsInv, [Next]_vars PROVE ArgumentsInv'
  OBVIOUS
<1>1. CASE Edits \/ Builds
  <2>1. main = "none" /\ UNCHANGED <<launch, running>>
    BY <1>1, EditsStage, BuildsStage DEF Edits
  <2>2. main' = "none" /\ writes' = <<>>
    BY <2>1 DEF launch, running, ArgumentsInv
  <2> QED BY <2>2 DEF ArgumentsInv
<1>2. CASE Launches /\ UNCHANGED build
  <2>1. PICK i \in DOMAIN co.kernels :
           HipLaunches(co.kernels[i]) \/ \E h \in {"launcher", "launcher_nd"} : Choose(h, co.kernels[i])
    BY <1>2 DEF Launches
  <2>2. stage # "library"
    BY <1>2 DEF Launches
  <2> QED BY <2>1, <2>2, HipArguments, ChooseKeepsArguments
<1>3. CASE Main /\ UNCHANGED build
  <2>1. CASE Arguments
    BY <2>1, LauncherArguments
  <2>2. CASE Fails \/ SetUp \/ Load \/ Freeze \/ StartService \/ Dispatch
    BY <2>2, <1>3, ArgumentsStay DEF Fails, SetUp, Load, Freeze, StartService, Dispatch, Step, build, launch
  <2>3. CASE Completed \/ TimesOut \/ StopService \/ Join \/ Report
    BY <2>3, <1>3, ArgumentsStay DEF Completed, TimesOut, StopService, Join, Report, Step, build, launch
  <2> QED BY <2>1, <2>2, <2>3, <1>3 DEF Main
<1>4. CASE (Device \/ ServiceEnds \/ UNCHANGED vars) /\ UNCHANGED build
  <2>1. UNCHANGED <<co, host, k, off, writes, main>>
    BY <1>4 DEF Device, Call, Answer, KernelEnds, ServiceEnds, vars, launch, running, build
  <2> QED BY <2>1, ArgumentsStay
<1> QED BY <1>1, <1>2, <1>3, <1>4, Steps

(* Whichever host launches a kernel, and whatever has been done to its     *)
(* note, the kernel finds each of its arguments, the hidden ones the host  *)
(* supplies and the buffer where its code looks for them, if the hook is   *)
(* not told to pass a buffer or the first kernel of the note has as many   *)
(* arguments, and has its hidden ones where a reading launcher writes them.*)
THEOREM EveryArgumentArrives == Spec => []ArgumentsArrive
<1>1. ArgumentsInv => ArgumentsArrive
  <2> SUFFICES ASSUME ArgumentsInv, writes # <<>>, FirstStandsForK PROVE Arrived
    BY DEF ArgumentsArrive
  <2> DEFINE n == Len(k.sizes)
  <2>1. k.sizes \in Seq({4, 8}) /\ n \in Nat /\ DOMAIN k.sizes = 1..n
    BY DEF ArgumentsInv
  <2>2. PICK B : Filled(writes, k, B) /\ Needed \subseteq B
    BY DEF ArgumentsInv
  <2>3. /\ \A b \in B : Reading(writes, PartAt(k, b), PartSize(k, b)) = PartWhat(k, b)
        /\ \A i \in DOMAIN writes : writes[i].what # <<"past the end">>
    BY <2>1, <2>2, FilledReads
  <2>4. \A at, size : ReadsAs(at, size) = Reading(writes, at, size)
    BY DEF ReadsAs, Reading
  <2>5. /\ \A b \in 1..n : b \in B
        /\ \A j \in Supplied : n + j \in B
        /\ host # "hip" \/ Grown => n + 6 \in B
    BY <2>2 DEF Needed
  <2>6. /\ \A b \in 1..n : /\ PartAt(k, b) = OffsetOf(k.sizes)[b] /\ PartSize(k, b) = k.sizes[b]
                           /\ PartWhat(k, b) = Argument(b)
        /\ \A j \in 1..5 : /\ PartAt(k, n + j) = HiddenAt(k) + HiddenLayout[j][2]
                           /\ PartSize(k, n + j) = HiddenLayout[j][3]
                           /\ PartWhat(k, n + j) = <<HiddenLayout[j][1]>>
        /\ PartAt(k, n + 6) = OriginalSize(k) /\ PartSize(k, n + 6) = 8 /\ PartWhat(k, n + 6) = <<"buffer">>
    BY <2>1, PartsAre
  <2>7. Supplied \subseteq 1..5
    BY HiddenBlocks DEF Supplied
  <2> HIDE DEF n
  <2>8. \A i \in DOMAIN k.sizes : ReadsAs(OffsetOf(k.sizes)[i], k.sizes[i]) = Argument(i)
    BY <2>1, <2>3, <2>4, <2>5, <2>6
  <2>9. \A j \in Supplied :
           ReadsAs(HiddenAt(k) + HiddenLayout[j][2], HiddenLayout[j][3]) = <<HiddenLayout[j][1]>>
    BY <2>3, <2>4, <2>5, <2>6, <2>7
  <2>10. host # "hip" \/ Grown => ReadsAs(OriginalSize(k), 8) = <<"buffer">>
    BY <2>3, <2>4, <2>5, <2>6
  <2> QED BY <2>3, <2>8, <2>9, <2>10 DEF Arrived, Grown
<1>2. Init => ArgumentsInv
  BY DEF Init, ArgumentsInv
<1>3. BuildInv /\ ArgumentsInv /\ [Next]_vars => ArgumentsInv'
  BY ArgumentsStep DEF BuildInv
<1> QED BY <1>1, <1>2, <1>3, BuildInvariant, PTL DEF Spec
=============================================================================
