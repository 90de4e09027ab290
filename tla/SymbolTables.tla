---------------------------- MODULE SymbolTables ----------------------------
(***************************************************************************)
(* The symbol tables of a device library.  tools/add_object_aliases.py     *)
(* adds a GLOBAL OBJECT alias for every function defined in it, exports    *)
(* what the compiler found out about the registers each function uses,     *)
(* rewrites the hash tables over the new order of .dynsym and repairs the  *)
(* file the YAML round trip leaves.  Its readers look names up in .symtab  *)
(* (the GPU loader), through the hash tables (a dynamic linker), or by a   *)
(* scan of .dynsym (elf_dynsym in runtime/host/audit.cpp).                 *)
(***************************************************************************)
EXTENDS Integers, Sequences, SequencesExt, FiniteSetsExt, Functions

CONSTANTS Funcs,       \* functions the library's sources name
          Word,        \* bits of the one bloom word (64)
          Drift,       \* how far yaml2obj displaces what is not pinned
          Sections,    \* [name, addr, size, alloc, ro]: alloc, and not WRITE or EXEC
          DynTables,   \* of these, the ones with an entry for each symbol of .dynsym
          None

ASSUME TablesAssumption ==
    /\ Word \in Nat \ {0} /\ Drift \in Nat \ {0}
    /\ IsFiniteSet(Funcs) /\ IsFiniteSet(Sections) /\ DynTables \subseteq Sections
    /\ None \notin Nat /\ None # ".text"
    /\ \A s \in Sections :
          /\ s.addr \in Nat /\ s.size \in Nat
          /\ s.ro => s.alloc /\ s.addr > 0

REGUSAGE_KEYS == <<"num_vgpr", "private_seg_size">>
Shift2 == 1            \* 6 in a word of 64 bits

-----------------------------------------------------------------------------
(* Symbols.  A name is <<f>>, <<prefix, f>> or <<prefix, f, key>>; an      *)
(* undefined or absolute symbol names no section.                          *)

Prefixed(name) == <<".dyninst.">> \o name

is_local(s) == s.bind = "LOCAL"
is_defined(s) == s.section # None

object_alias(s) ==
    [name |-> Prefixed(s.name), type |-> "OBJECT", bind |-> "GLOBAL",
     section |-> s.section, value |-> s.value]

Named(symbols) == {symbols[i].name : i \in DOMAIN symbols}

(* The elements of S by the number of those that are earlier. *)
InOrder(S, earlier) ==
    [r \in 1..Cardinality(S) |-> CHOOSE i \in S : Cardinality(earlier[i]) = r - 1]

(* The elements of s at the indices p, in that order. *)
Permuted(s, p) == [k \in DOMAIN p |-> s[p[k]]]

(* What is left of s if those at other indices than in I are dropped. *)
Kept(s, I) == Permuted(s, InOrder(I, [i \in I |-> {j \in I : j < i}]))

collect_defined_funcs(lib) ==
    LET all   == lib.dyn \o lib.sym
        funcs == {i \in DOMAIN all : all[i].type = "FUNC" /\ is_defined(all[i])}
    IN  Kept(all, {i \in funcs : \A j \in funcs : j < i => all[j].name # all[i].name})

add_aliases(symbols, funcs) ==
    LET new == Kept(funcs, {i \in DOMAIN funcs : Prefixed(funcs[i].name) \notin Named(symbols)})
    IN  symbols \o [k \in DOMAIN new |-> object_alias(new[k])]

-----------------------------------------------------------------------------
(* Register usage.  asm is the list of ".set <<f, key>>, EXPR" directives  *)
(* of the compiler; an expression has a number of its own and the symbols  *)
(* of the functions called: their maximum, to which a scratch size is      *)
(* added and of which a register count is one more operand.                *)

Most(a, b) == IF a > b THEN a ELSE b
Combine(key, own, called) == IF key = "num_vgpr" THEN Most(own, called) ELSE own + called

(* A dictionary: a later directive replaces the value of an earlier one.   *)
Dictionary(asm) ==
    [n \in {asm[i].name : i \in DOMAIN asm} |->
        asm[Max({i \in DOMAIN asm : asm[i].name = n})]]

(* The evaluator: the maximum of the values of refs.  The memo is seen,    *)
(* the names looked into, and vals: None while that lasts and for ever if  *)
(* it failed.                                                              *)
ev(defs) ==
    LET names == DOMAIN defs \union UNION {Range(defs[n].refs) : n \in DOMAIN defs}
        all[q \in Seq(names) \X (SUBSET DOMAIN defs) \X [DOMAIN defs -> Nat \union {None}]] ==
            LET refs == q[1]
                name == Head(refs)
                memo(v, seen, vals) == [val |-> v, seen |-> seen, vals |-> vals]
                args == all[<<defs[name].refs, q[2] \union {name}, q[3]>>]
                v    == Combine(name[2], defs[name].own, args.val)
                head == IF name \in q[2] THEN memo(q[3][name], q[2], q[3])
                        ELSE IF name \notin DOMAIN defs THEN memo(None, q[2], q[3])
                        ELSE IF args.val = None THEN args
                        ELSE memo(v, args.seen, [args.vals EXCEPT ![name] = v])
                tail == all[<<Tail(refs), head.seen, head.vals>>]
            IN  IF refs = <<>> THEN memo(0, q[2], q[3])
                ELSE IF head.val = None THEN head
                ELSE IF tail.val = None THEN tail
                ELSE [tail EXCEPT !.val = Most(head.val, tail.val)]
    IN  all

(* One memo serves all the names.                                          *)
Evaluated(asm) ==
    LET defs == Dictionary(asm)
        look(m, d) == ev(defs)[<< <<d.name>>, m.seen, m.vals>>]
    IN  FoldLeft(look, [seen |-> {}, vals |-> [n \in DOMAIN defs |-> None]], asm).vals

(* A slip: a name that does not resolve is exported with its own number.   *)
ParsePartly(asm) ==
    LET vals == Evaluated(asm)
    IN  [n \in DOMAIN vals |-> IF vals[n] = None THEN Dictionary(asm)[n].own ELSE vals[n]]

(* A name that does not resolve is skipped.                                *)
parse_asm_regusage(asm) ==
    LET vals == Evaluated(asm)
    IN  [n \in {d \in DOMAIN vals : vals[d] # None} |-> vals[n]]

UsageName(f, key) == Prefixed(f.name) \o <<key>>

add_regusage_symbols(symbols, funcs, usage) ==
    LET wanted == [i \in 1..(2 * Len(funcs)) |->
                      [f |-> funcs[(i + 1) \div 2], key |-> REGUSAGE_KEYS[2 - (i % 2)]]]
        new == Kept(wanted, {i \in DOMAIN wanted :
                   /\ <<wanted[i].f.name[1], wanted[i].key>> \in DOMAIN usage
                   /\ UsageName(wanted[i].f, wanted[i].key) \notin Named(symbols)})
    IN  symbols \o [i \in DOMAIN new |->
            [name |-> UsageName(new[i].f, new[i].key), type |-> "NOTYPE", bind |-> "GLOBAL",
             section |-> None, value |-> usage[<<new[i].f.name[1], new[i].key>>]]]

-----------------------------------------------------------------------------
(* Hash tables.  An index counts from the null symbol, 0, so dyn[i] has    *)
(* index i; hash gives the (djb2 or SysV) hash value of every name.        *)

BloomBits(h) == {h % Word, (h \div (2 ^ Shift2)) % Word}

(* def in the order of its buckets, and within a bucket as it was. *)
Bucketed(def, bucket) ==
    Permuted(def, InOrder(DOMAIN def, [j \in DOMAIN def |->
        {i \in DOMAIN def : bucket[i] < bucket[j] \/ (bucket[i] = bucket[j] /\ i < j)}]))

(* The tables for def, in the order of its buckets, behind other symbols. *)
GnuTables(other, def, hash, nbuckets) ==
    LET symndx   == 1 + Len(other)
        value(i) == hash[def[i].name]
        inBucket(b) == {i \in DOMAIN def : value(i) % nbuckets = b}
    IN  [dyn     |-> other \o def,
         symndx  |-> symndx,
         bloom   |-> UNION {BloomBits(value(i)) : i \in DOMAIN def},
         buckets |-> [b \in 0..(nbuckets - 1) |->
                         IF inBucket(b) = {} THEN 0 ELSE symndx + Min(inBucket(b)) - 1],
         values  |-> [i \in DOMAIN def |->
                         [h |-> value(i) \div 2,
                          last |-> i = Len(def) \/ value(i) % nbuckets # value(i + 1) % nbuckets]]]

regen_gnu_hash(dyn, hash) ==
    LET locals  == Kept(dyn, {i \in DOMAIN dyn : is_local(dyn[i])})
        g_undef == Kept(dyn, {i \in DOMAIN dyn : ~is_local(dyn[i]) /\ ~is_defined(dyn[i])})
        def     == Kept(dyn, {i \in DOMAIN dyn : ~is_local(dyn[i]) /\ is_defined(dyn[i])})
        nbuckets == Most(1, Len(def))
    IN  GnuTables(locals \o g_undef,
                  Bucketed(def, [i \in DOMAIN def |-> hash[def[i].name] % nbuckets]),
                  hash, nbuckets)

regen_sysv_hash(dyn, hash) ==
    LET nbucket == Len(dyn) + 1
        mates(b, n) == {i \in 1..n : hash[dyn[i].name] % nbucket = b}
    IN  [bucket |-> [b \in 0..(nbucket - 1) |-> Max(mates(b, Len(dyn)) \union {0})],
         chain  |-> [i \in 1..Len(dyn) |->
                        Max(mates(hash[dyn[i].name] % nbucket, i - 1) \union {0})]]

(* A slip: the tables describe an order that .dynsym is not put in.        *)
RehashedUnordered(lib, hash) ==
    LET gnu == regen_gnu_hash(lib.dyn, hash)
    IN  [lib EXCEPT !.gnu = gnu, !.hash = hash, !.sysv = regen_sysv_hash(lib.dyn, hash), !.grown = TRUE]

Rehashed(lib, hash) ==
    LET gnu == regen_gnu_hash(lib.dyn, hash)
    IN  [lib EXCEPT !.dyn = gnu.dyn, !.gnu = gnu, !.hash = hash,
                    !.sysv = regen_sysv_hash(gnu.dyn, hash), !.grown = TRUE]

-----------------------------------------------------------------------------
(* The file around the tables.                                             *)

(* A slip: sections are left where yaml2obj puts them. *)
ReadNoOffsets(lib) == << >>

read_alloc_section_offsets(lib) ==
    Restrict(lib.off, {s \in DOMAIN lib.off : s.alloc})

(* A unit of length is an entry of the dynamic tables.                     *)
SizeOf(lib, s) == s.size + (IF s \in DynTables THEN Len(lib.dyn) ELSE 0)

(* External: obj2yaml and yaml2obj.  A section is displaced unless its     *)
(* offset is given, however long it has become; the first segment starts   *)
(* where nothing of it is, and a feature bit of e_flags is lost.           *)
RoundTrip(lib, pinned) ==
    [lib EXCEPT !.off = [s \in Sections |->
                            IF s \in DOMAIN pinned THEN pinned[s] ELSE s.addr + Drift],
                !.seg = [offset |-> Drift, vaddr |-> 0, size |-> Drift],
                !.flags = "dropped"]

preserve_eflags(src, lib) == [lib EXCEPT !.flags = src.flags]

fix_load_segment(lib) ==
    LET ro_end == Max({s.addr + SizeOf(lib, s) : s \in {x \in Sections : x.ro}} \union {0})
    IN  IF ro_end = 0 THEN lib
        ELSE [lib EXCEPT !.seg = [offset |-> 0, vaddr |-> 0, size |-> ro_end]]

(* External: the sections that tables which have grown where they are      *)
(* overlap, and these tables: either may be overwritten by the other.      *)
Room(lib, s) == lib.off[s]..(lib.off[s] + SizeOf(lib, s) - 1)

Clobbered(lib) ==
    LET loaded == {s \in Sections : s.alloc}
    IN  {s \in loaded : lib.grown /\ \E t \in loaded \ {s} :
            {s, t} \intersect DynTables # {} /\ Room(lib, s) \intersect Room(lib, t) # {}}

(* One run of the tool; hash is what the names of .dynsym hash to.         *)
Edited(lib, tables, asm, hash) ==
    LET funcs == collect_defined_funcs(lib)
        dyn   == IF tables \in {"dynsym", "both"} THEN add_aliases(lib.dyn, funcs) ELSE lib.dyn
        named == IF tables \in {"symtab", "both"} THEN add_aliases(lib.sym, funcs) ELSE lib.sym
        sym   == IF asm = None THEN named
                 ELSE add_regusage_symbols(named, funcs, parse_asm_regusage(asm))
        added == [lib EXCEPT !.dyn = dyn, !.sym = sym]
        file  == IF Len(dyn) > Len(lib.dyn) THEN Rehashed(added, hash) ELSE added
    IN  fix_load_segment(preserve_eflags(lib, RoundTrip(file, read_alloc_section_offsets(lib))))

-----------------------------------------------------------------------------
(* The readers.                                                            *)

(* External: the GPU loader's search of .symtab.                           *)
LoaderFinds(lib, name) ==
    {lib.sym[i].value : i \in {k \in DOMAIN lib.sym :
        lib.sym[k].name = name /\ lib.sym[k].bind = "GLOBAL" /\ is_defined(lib.sym[k])}}

(* External: a dynamic linker's lookup in each of the hash tables.         *)
GnuFinds(lib, name) ==
    LET h == lib.hash[name]
        first == lib.gnu.buckets[h % Cardinality(DOMAIN lib.gnu.buckets)]
        value(i) == lib.gnu.values[i - lib.gnu.symndx + 1]
        end == Min({i \in first..Len(lib.dyn) : value(i).last})
    IN  IF ~(BloomBits(h) \subseteq lib.gnu.bloom) \/ first = 0 THEN {}
        ELSE {lib.dyn[i].value : i \in {k \in first..end :
                  value(k).h = h \div 2 /\ lib.dyn[k].name = name}}

Chain(sysv, start) ==
    LET from[i \in 0..Len(sysv.chain)] == IF i = 0 THEN {} ELSE {i} \union from[sysv.chain[i]]
    IN  from[start]

SysvFinds(lib, name) ==
    LET h == lib.hash[name] % Cardinality(DOMAIN lib.sysv.bucket)
    IN  {lib.dyn[i].value : i \in {k \in Chain(lib.sysv, lib.sysv.bucket[h]) :
            lib.dyn[k].name = name /\ is_defined(lib.dyn[k])}}

(* elf_dynsym: the number of symbols is the length of the SysV chain, or   *)
(* is found by walking the last GNU chain to its end.                      *)
SymbolCount(lib, table) ==
    IF table = "hash" THEN Len(lib.sysv.chain) + 1
    ELSE LET last == Max(Range(lib.gnu.buckets)) IN
         IF last < lib.gnu.symndx THEN 0
         ELSE Min({i \in last..Len(lib.dyn) : lib.gnu.values[i - lib.gnu.symndx + 1].last}) + 1

elf_dynsym(lib, table, name) ==
    LET hits == {i \in 1..(SymbolCount(lib, table) - 1) :
                    lib.dyn[i].value # 0 /\ lib.dyn[i].name = name}
    IN  IF hits = {} THEN None ELSE lib.dyn[Min(hits)].value
=============================================================================
