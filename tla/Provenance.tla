------------------------------- MODULE Provenance -------------------------------
(***************************************************************************)
(* The forward pass of StructureAnalysis (analysis/cfrecovery/structure.C) *)
(* that says what registers hold in the terms of the source: seeds for the *)
(* registers the hardware fills, names for the arguments from the metadata *)
(* note, and a transfer per instruction that labels what it writes.        *)
(*                                                                         *)
(* A behaviour is a straight piece of code of one kernel.  values is what  *)
(* the registers really hold, stale what the pass lost sight of; the other *)
(* state is the pass's own.                                                *)
(*                                                                         *)
(* A register is a tuple, a scalar <<"s", i>> or a vector <<"v", i>>; an   *)
(* operand is the sequence of the registers it names, its format() in the  *)
(* code.  A label is a term, the string it is printed as in the code.      *)
(***************************************************************************)
EXTENDS Naturals, Sequences, FiniteSets, Functions

CONSTANTS Kernels,    \* kernels: [symbol, kd, props, wg, dims]
          Note,       \* amdhsa.kernels: [symbol, args], an argument being
                      \*   [hidden, name, param, offset, size]
          Temps,      \* scratch operands of one register
          TempPairs,  \* scratch operands of two
          Offsets,    \* offsets of loads
          MaxSteps,   \* instructions
          None

(* Enable bits 0 to 6 are the user SGPRs', 7 to 9 the block's coordinates'. *)
ASSUME KernelsAssumption ==
    \A k \in Kernels : k.kd \in BOOLEAN /\ k.props \subseteq 0 .. 6 /\ k.wg \subseteq 7 .. 9 /\ k.dims \in 0 .. 2

(* Symbols are unique; param is a source parameter's position among them;  *)
(* only an argument of two bytes may lie inside a dword.                   *)
ASSUME NoteAssumption ==
    /\ DOMAIN Note \subseteq Nat
    /\ \A i, j \in DOMAIN Note : Note[i].symbol = Note[j].symbol => i = j
    /\ \A i \in DOMAIN Note : LET args == Note[i].args IN
          \A p \in DOMAIN args :
             /\ args[p].hidden = None =>
                   args[p].param = Cardinality({q \in 1 .. p - 1 : args[q].hidden = None})
             /\ args[p].offset \in Nat
             /\ args[p].size = 2 \/ args[p].offset % 4 = 0

(* Operands are registers and pairs of consecutive registers, and scalar   *)
(* loads are of dwords.                                                    *)
Register(r) == r = <<r[1], r[2]>> /\ r[1] \in {"s", "v"} /\ r[2] \in Nat

ASSUME OperandsAssumption ==
    /\ \A n \in Temps : Register(n[1]) /\ n = <<n[1]>>
    /\ \A n \in TempPairs : Register(n[1]) /\ n = <<n[1], <<n[1][1], n[1][2] + 1>> >>
    /\ \A off \in Offsets : off \in Nat /\ off % 4 = 0
    /\ MaxSteps \in Nat

VARIABLES
    kernel,       \* the kernel
    values,       \* what each register holds
    labels,       \* state: what is said of an operand
    packed,       \* packed_: where an operand's dword was loaded from
    kernargBase,  \* the operand taken for the kernarg pointer
    steps,
    stale         \* operands of which the pass may be wrong by now

vars == <<kernel, values, labels, packed, kernargBase, steps, stale>>

Low(n)         == <<n[1]>>
Overlap(m, n)  == Range(m) \intersect Range(n) # {}
Over(f, g)     == [x \in DOMAIN f \union DOMAIN g |-> IF x \in DOMAIN f THEN f[x] ELSE g[x]]
S(i)           == <<"s", i>>
V(i)           == <<"v", i>>

-----------------------------------------------------------------------------
(* What the hardware does: user SGPRs in the order of their enable bits,   *)
(* then the block's coordinates.                                           *)

Size == [bit \in 0 .. 6 |-> CASE bit = 0 -> 4 [] bit = 6 -> 1 [] OTHER -> 2]

Before(bits, b) ==
    LET width(i) == IF i \in bits /\ i < b THEN Size[i] ELSE 0
    IN  width(0) + width(1) + width(2) + width(3) + width(4) + width(5) + width(6)

UserCount(k) == Before(k.props, 7)

PairAt(i)  == <<S(i), S(i + 1)>>
Pointer(k) == [seg \in {"kernarg", "dispatch"} |->
                 PairAt(Before(k.props, IF seg = "kernarg" THEN 3 ELSE 1))]
Live(k)    == {seg \in {"kernarg", "dispatch"} : (IF seg = "kernarg" THEN 3 ELSE 1) \in k.props}

BlockIdx(k, bit) == S(UserCount(k) + Cardinality({b \in k.wg : b < bit}))

Regs(k) == (UNION {Range(n) : n \in Temps \union TempPairs \union {Pointer(k)[s] : s \in Live(k)}})
           \union {BlockIdx(k, b) : b \in k.wg} \union {V(d) : d \in 0 .. k.dims}

AtEntry(k) ==
    [r \in Regs(k) |->
        IF \E seg \in Live(k) : r \in Range(Pointer(k)[seg])
        THEN LET seg == CHOOSE s \in Live(k) : r \in Range(Pointer(k)[s])
             IN  <<"half", seg, IF r = Pointer(k)[seg][1] THEN 1 ELSE 2>>
        ELSE IF \E b \in k.wg : r = BlockIdx(k, b)
        THEN <<"id", "blockIdx", CHOOSE b \in k.wg : r = BlockIdx(k, b)>>
        ELSE IF \E d \in 0 .. k.dims : r = V(d)
        THEN <<"id", "threadIdx", r[2]>>
        ELSE <<"entry", r>>]

Content(n) == [i \in DOMAIN n |-> values[n[i]]]

-----------------------------------------------------------------------------
(* When a label is true of a register's content.                           *)

OwnArgs(k) == UNION {Range(e.args) : e \in {e \in Range(Note) : e.symbol = k.symbol}}

(* hsa_kernel_dispatch_packet_t has three 16-bit and three 32-bit sizes,  *)
(* the segment of the arguments what the note of the kernel says.          *)
HalfWord(k, seg, off) ==
    \/ seg = "dispatch" /\ off \in {4, 6, 8}
    \/ seg = "kernarg" /\ \E a \in OwnArgs(k) : a.offset = off /\ a.size = 2

Named(k, name, seg, off) ==
    \/ /\ seg = "dispatch"
       /\ \E d \in 0 .. 2 : \/ name = <<"blockDim", d>> /\ off = 4 + 2 * d
                            \/ name = <<"gridSize", d>> /\ off = 12 + 4 * d
    \/ /\ seg = "kernarg"
       /\ \E a \in OwnArgs(k) :
             /\ a.offset = off
             /\ name = IF a.hidden # None THEN <<"hidden", a.hidden>>
                      ELSE IF a.name # None THEN <<"arg", a.name>>
                      ELSE <<"param", a.param>>

(* content[1] is the dword at off, or the 16-bit field alone. *)
Holds(k, content, seg, off) ==
    \/ \E w \in 1 .. 2 : content[1] = <<"dword", seg, off, w>>
    \/ content[1] = <<"lane", seg, off>> /\ HalfWord(k, seg, off)

(* a dword loaded on its own, or a field extracted from one *)
FromLoad(v) == v[1] = "lane" \/ (v[1] = "dword" /\ v[4] = 1)

Address(seg)    == << <<"half", seg, 1>>, <<"half", seg, 2>> >>
PointsTo(c)     == c[1][1] = "half" /\ c = Address(c[1][2])

(* A label is of the right kind for a content. *)
Fits(k, l, c) ==
    CASE l[1] = "raw"   -> TRUE
      [] l[1] = "&"     -> c = Address(l[2])
      [] l[1] = "id"    -> c = <<l>>
      [] l[1] = "field" -> /\ c[1][1] \in {"dword", "lane"}
                           /\ Holds(k, c, l[2], c[1][3]) /\ Named(k, l[3], l[2], c[1][3])
      [] l[1] = "at"    -> Holds(k, c, l[2], l[3])
      [] l[1] = "first" -> c[1][1] = "first"
      [] l[1] = "and"   -> c[1][1] \in {"and", "lane"}
      [] l[1] = "mem" /\ c[1][1] = "dword" -> l[2] = "s"
      [] OTHER -> /\ l[1] \in {"mem", "op"}
                  /\ c[1][1] = l[1] /\ c[1][2] = l[2] /\ Len(c[1][3]) = Len(l[3])

(* An address pair, and an operand of what is said of one register, counts *)
(* by its low half.                                                        *)
ByLow(l, c) == IF l[1] = "mem" THEN l[2] = "v" /\ Len(l[3]) = 1 ELSE Len(c) = 1

(* What it says by the labels in it, each of a content in the content.  A  *)
(* field of 16 bits is its dword masked, or itself masked again.           *)
Parts(l, c) ==
    CASE l[1] = "first" -> {<<l[2], c[1][2]>>}
      [] l[1] = "and" /\ c[1][1] = "lane" ->
            {<<l[2], IF l[2][1] = "and" THEN c ELSE << <<"dword", c[1][2], c[1][3], 1>> >> >>}
      [] l[1] = "and" /\ c[1][1] # "lane" -> {<<l[2], c[1][2]>>}
      [] l[1] = "mem" /\ c[1][1] = "dword" -> {<<l[3][1], Address(c[1][2])>>}
      [] l[1] = "op" \/ (l[1] = "mem" /\ c[1][1] # "dword") ->
            {<<l[3][i], IF ByLow(l, c) THEN Low(c[1][3][i]) ELSE c[1][3][i]>> : i \in DOMAIN l[3]}
      [] OTHER -> {}

(* Every instruction makes a label at most one level deeper. *)
Says(k, l, content) ==
    LET Level[d \in 0 .. MaxSteps] ==
            IF d = 0 THEN {<<l, content>>}
            ELSE UNION {Parts(p[1], p[2]) : p \in Level[d - 1]}
    IN  \A d \in 0 .. MaxSteps : \A p \in Level[d] : Fits(k, p[1], p[2])

-----------------------------------------------------------------------------
(* Slips: what the transfers below could get wrong.                        *)

EmptyLabels == [n \in {} |-> None]
Val(n)      == IF n \in DOMAIN labels THEN labels[n] ELSE <<"raw", n>>

(* the queue pointer is overlooked when user SGPRs are counted *)
UserAtNoQueue(k, bit) ==
    LET width(b, n) == IF b \in k.props /\ b < bit THEN n ELSE 0
    IN  width(0, 4) + width(1, 2)

(* the names of whichever kernel the note has first *)
ArgsOfFirst(k) == Note[1].args

(* a written operand keeps where it was loaded from *)
OriginKept(dst, origin) == Over(origin, packed)

-----------------------------------------------------------------------------
(* abiSeeds: the position of a user SGPR by its enable bit, and the labels *)
(* of what the descriptor says the hardware fills.                         *)
UserAt(k, bit) ==
    LET width(b, n) == IF b \in k.props /\ b < bit THEN n ELSE 0
    IN  width(0, 4) + width(1, 2) + width(2, 2)

AbiSeeds(k) ==
    LET ptr(bit, seg) == [n \in {PairAt(UserAt(k, bit)) : b \in {bit} \intersect k.props} |-> <<"&", seg>>]
        wg(bit)       == <<S(UserCount(k) + Cardinality({b \in k.wg : b < bit}))>>
        blocks        == [n \in {wg(b) : b \in k.wg} |-> <<"id", "blockIdx", CHOOSE b \in k.wg : n = wg(b)>>]
        threads(dims) == [n \in {<<V(d)>> : d \in 0 .. dims} |-> <<"id", "threadIdx", n[1][2]>>]
    IN  IF ~ k.kd THEN threads(0)
        ELSE Over(threads(k.dims), Over(blocks, Over(ptr(3, "kernarg"), ptr(1, "dispatch"))))

(* kernargNameMap: hidden arguments by their kind, explicit ones by name,  *)
(* or by their position among the explicit ones.                           *)
ArgsOf(k) ==
    LET mine == {i \in DOMAIN Note : k.kd /\ Note[i].symbol = k.symbol}
    IN  IF mine = {} THEN <<>> ELSE Note[CHOOSE i \in mine : \A j \in mine : i <= j].args

ArgName(args, i) ==
    IF args[i].hidden # None THEN <<"hidden", args[i].hidden>>
    ELSE IF args[i].name # None THEN <<"arg", args[i].name>>
    ELSE <<"param", Cardinality({j \in 1 .. i - 1 : args[j].hidden = None})>>

KernargNames(args) ==
    [off \in {a.offset : a \in Range(args)} |->
        ArgName(args, CHOOSE i \in DOMAIN args : args[i].offset = off)]

PacketField ==
    [off \in {4, 6, 8, 12, 16, 20} |->
        IF off < 12 THEN <<"blockDim", (off - 4) \div 2>> ELSE <<"gridSize", (off - 12) \div 4>>]

NamesIn(k, seg) == IF seg = "dispatch" THEN PacketField ELSE KernargNames(ArgsOf(k))

HasLabel(k, seg, off) == off \in DOMAIN NamesIn(k, seg)
LabelAt(k, seg, off)  == <<"field", seg, NamesIn(k, seg)[off]>>

Init ==
    /\ kernel \in Kernels
    /\ values = AtEntry(kernel)
    /\ labels = AbiSeeds(kernel)
    /\ packed = EmptyLabels
    /\ kernargBase = IF kernel.kd /\ 3 \in kernel.props THEN PairAt(UserAt(kernel, 3)) ELSE None
    /\ steps = 0
    /\ stale = {}

-----------------------------------------------------------------------------
(* applyTransfer                                                           *)

Scalar(n)   == n[1][1] = "s"
Pairs       == TempPairs \union {Pointer(kernel)[seg] : seg \in Live(kernel)}
Singles     == Temps \union {<<BlockIdx(kernel, b)>> : b \in kernel.wg}
SPairs      == {n \in Pairs : Scalar(n)}
VPairs      == Pairs \ SPairs
SSingles    == {n \in Singles : Scalar(n)}
VSingles    == Singles \ SSingles
Operands    == Singles \union Pairs \union {Low(n) : n \in Pairs}

Origin(dst, origin) == Over(origin, Restrict(packed, DOMAIN packed \ {dst}))

(* dst is written: content is what it gets, said the new labels, erased    *)
(* the operands that lose theirs, origin where dst's dword was loaded.     *)
(* The pass goes by names of operands.  What it keeps of others that share *)
(* a register with dst is stale; so is what is written if the pass did not *)
(* follow the instruction, or what it read was stale.                      *)
Write(dst, content, said, erased, origin, follows) ==
    /\ steps' = steps + 1
    /\ values' = [r \in DOMAIN values |-> IF r \in Range(dst)
                                          THEN content[CHOOSE i \in DOMAIN dst : dst[i] = r]
                                          ELSE values[r]]
    /\ labels' = Over(said, Restrict(labels, DOMAIN labels \ erased))
    /\ packed' = Origin(dst, origin)
    /\ LET kept == ((DOMAIN labels' \ DOMAIN said) \union DOMAIN packed') \ {dst}
       IN  stale' = {n \in stale : ~ Overlap(n, dst)}
                    \union {n \in kept : Overlap(n, dst)}
                    \union {n \in Operands : ~ follows /\ Overlap(n, dst)}
    /\ UNCHANGED kernel

Sound(reads) == reads \intersect stale = {}

(* x says it all of dst, if there is an x. *)
Keep(dst, xs) == [n \in {dst : x \in xs} |-> CHOOSE x \in xs : TRUE]

(* What was filled on its own is copied on its own, an address whole. *)
Entire(c) ==
    PointsTo(c) \/ \A i \in DOMAIN c : c[i][1] # "half" /\ (FromLoad(c[i]) => Len(c) = 1)

(* S_LOAD: the first base that nothing is known of is taken for the        *)
(* kernarg pointer if the descriptor did not tell.                         *)
SLoad(dst, base, off) ==
    LET first   == kernargBase = None /\ base \notin DOMAIN labels
        meaning == IF first \/ base = kernargBase THEN <<"&", "kernarg">> ELSE Val(base)
        segment == meaning[1] = "&"
        seg     == meaning[2]
        label   == IF ~ segment THEN <<"mem", "s", <<meaning>> >>
                   ELSE IF HasLabel(kernel, seg, off) THEN LabelAt(kernel, seg, off)
                   ELSE <<"at", seg, off>>
        word(i) == IF PointsTo(Content(base))
                   THEN <<"dword", values[base[1]][2], off + 4 * (i - 1), Len(dst)>>
                   ELSE <<IF i = 1 THEN "mem" ELSE "high", "s", <<Content(base)>> >>
    IN  /\ Write(dst, [i \in DOMAIN dst |-> word(i)],
                 [n \in {dst} \union (IF segment THEN {Low(dst)} ELSE {}) |-> label],
                 {dst},
                 Keep(dst, IF segment THEN {[base |-> seg, off |-> off]} ELSE {}),
                 Sound({base}) /\ (segment => Content(base) = Address(seg)))
        /\ kernargBase' = IF first THEN base ELSE kernargBase

(* GLOBAL_LOAD, FLAT_LOAD: off a scalar base, or through an address pair.  *)
VLoad(dst, args) ==
    LET read(n) == IF Scalar(n) THEN n ELSE Low(n)
    IN  /\ Write(dst, << <<"mem", "v", [i \in DOMAIN args |-> Content(args[i])]>> >>,
                 Keep(dst, {<<"mem", "v", [i \in DOMAIN args |-> Val(read(args[i]))]>>}),
                 {dst}, EmptyLabels, Sound({read(args[i]) : i \in DOMAIN args}))
        /\ UNCHANGED kernargBase

LabelOf(src)  == {labels[n] : n \in DOMAIN labels \intersect {src}}
OriginOf(src) == {packed[n] : n \in DOMAIN packed \intersect {src}}

Mov(dst, src) ==
    /\ Write(dst, Content(src), Keep(dst, LabelOf(src)), {dst}, Keep(dst, OriginOf(src)),
             Sound({src}) /\ Entire(Content(src)))
    /\ UNCHANGED kernargBase

ReadFirstLane(dst, src) ==
    /\ Write(dst, << <<"first", Content(src)>> >>, Keep(dst, {<<"first", Val(src)>>}), {dst},
             EmptyLabels, Sound({src}))
    /\ UNCHANGED kernargBase

(* The label of src & mask. *)
Masked(src, mask) ==
    IF src \in DOMAIN packed THEN LabelOf(src) ELSE {<<"and", l>> : l \in LabelOf(src)}

(* Masks of a loaded dword are taken for the extraction of its low half. *)
And(dst, src, mask) ==
    LET v    == values[src[1]]
        half == /\ mask = "ffff"
                /\ FromLoad(v)
                /\ HalfWord(kernel, v[2], v[3])
    IN  /\ Write(dst, <<IF half THEN <<"lane", v[2], v[3]>> ELSE <<"and", Content(src)>> >>,
                 Keep(dst, Masked(src, mask)), {dst}, Keep(dst, OriginOf(src)),
                 Sound({src}) /\ (src \in DOMAIN packed => half))
        /\ UNCHANGED kernargBase

(* S_LSHR by 16: the field two bytes on. *)
HighHalf(src) ==
    {[base |-> o.base, off |-> o.off + 2] :
        o \in {o \in OriginOf(src) : HasLabel(kernel, o.base, o.off + 2)}}

Lshr16(dst, src) ==
    LET v == values[src[1]]
        h == HighHalf(src)
    IN  /\ Write(dst, <<IF v[1] = "dword" /\ FromLoad(v) /\ HalfWord(kernel, v[2], v[3] + 2)
                        THEN <<"lane", v[2], v[3] + 2>> ELSE <<"shr", Content(src)>> >>,
                 Keep(dst, {LabelAt(kernel, o.base, o.off) : o \in h}), {dst}, Keep(dst, h),
                 Sound({src}) /\ v[1] # "lane")
        /\ UNCHANGED kernargBase

(* V_MAX, V_MIN, and MUL, LSHL, ADD: srcs, and an immediate if it is one. *)
Arith(dst, op, srcs) ==
    LET known == \E i \in DOMAIN srcs : {srcs[i], Low(srcs[i])} \intersect DOMAIN labels # {}
        args  == [i \in DOMAIN srcs |-> Content(srcs[i])]
        term(n) == <<"op", op, [i \in DOMAIN srcs |->
                        IF n = Low(dst) THEN Val(Low(srcs[i])) ELSE Val(srcs[i])]>>
    IN  /\ Write(dst, [i \in DOMAIN dst |-> <<IF i = 1 THEN "op" ELSE "high", op, args>>],
                 [n \in IF known THEN {dst, Low(dst)} ELSE {} |-> term(n)],
                 {dst, Low(dst)}, EmptyLabels, Sound(UNION {{n, Low(n)} : n \in Range(srcs)}))
        /\ UNCHANGED kernargBase

Other(dst) ==
    /\ Write(dst, [i \in DOMAIN dst |-> <<"other">>], EmptyLabels, {dst}, EmptyLabels, TRUE)
    /\ UNCHANGED kernargBase

-----------------------------------------------------------------------------
(* substituted and callTarget: what is printed of an operand of a compare  *)
(* and of the target of an indirect call.                                  *)
Substituted(n) == Val(n)
CallTarget(n)  == Val(n)

Next ==
    /\ steps < MaxSteps
    /\ \/ \E dst \in SSingles \union SPairs, base \in SPairs, off \in Offsets : SLoad(dst, base, off)
       \/ \E dst \in VSingles, base \in SPairs, off \in VSingles : VLoad(dst, <<base, off>>)
       \/ \E dst \in VSingles, n \in VPairs : VLoad(dst, <<n>>)
       \/ \E dst, src \in Singles : dst # src /\ Mov(dst, src)
       \/ \E dst, src \in SPairs : dst # src /\ Mov(dst, src)
       \/ \E dst \in SSingles, src \in VSingles : ReadFirstLane(dst, src)
       \/ \E dst, src \in SSingles, mask \in {"1", "ffff"} : And(dst, src, mask)
       \/ \E dst, src \in SSingles : Lshr16(dst, src)
       \/ \E dst, src \in VSingles : \E n \in Singles : Arith(dst, "max", <<src, n>>)
       \/ \E dst, src \in VSingles : Arith(dst, "add", <<src>>)
       \/ \E dst, src \in VPairs : Arith(dst, "shl", <<src>>)
       \/ \E dst \in Singles : Other(dst)

Spec == Init /\ [][Next]_vars

-----------------------------------------------------------------------------
(* The meanings printed of a compare's operands and of an indirect call's  *)
(* target are true of what the registers hold there, whatever was copied   *)
(* and loaded before, and again after a register that had another meaning  *)
(* was overwritten under its own name ("kill-on-overwrite",                *)
(* structure.C:693-696).  More is promised there than is kept: operands    *)
(* that are stale, by a write under another name, a load through a reused  *)
(* pointer or a mask that splits nothing, are not covered.                 *)
LabelsTrue ==
    /\ \A n \in Singles \ stale : Says(kernel, Substituted(n), Content(n))
    /\ \A n \in Pairs \ stale : Says(kernel, CallTarget(n), Content(n))

(* A dword that a later shift by 16 will split is still the one that was   *)
(* loaded from the segment and offset remembered of it (structure.C:348),  *)
(* unless its operand is stale.                                            *)
LanesKnown ==
    \A n \in DOMAIN packed \ stale : Holds(kernel, Content(n), packed[n].base, packed[n].off)

(* A register that holds a named field, loaded on its own or extracted     *)
(* from the dword it shares, goes by that name (structure.C:737-740),      *)
(* unless its operand is stale.                                            *)
FieldsNamed ==
    \A n \in Singles \ stale :
        LET v == values[n[1]] IN
        FromLoad(v) /\ HasLabel(kernel, v[2], v[3]) /\ kernel.kd
        => Val(n) = LabelAt(kernel, v[2], v[3])

-----------------------------------------------------------------------------
(* What is promised without exception.                                     *)

Called(n, kinds) == n \in DOMAIN labels /\ labels[n][1] \in kinds

(* "A value's meaning is position-correct even when the kernel reuses the  *)
(* kernarg-pointer" (structure.C:694-695): what was loaded through         *)
(* anything else than a segment's address is not called a field of one.    *)
ReusedPointerForgotten ==
    kernel.kd => \A n \in Singles : Content(n)[1][1] = "mem" => ~ Called(n, {"field", "at"})

(* "Kill-on-overwrite" (structure.C:694): a pair that is called an address *)
(* holds it.                                                               *)
OverwrittenForgotten ==
    kernel.kd => \A n \in Pairs : Called(n, {"&"}) => Content(n) = Address(labels[n][2])

(* "Bit-mask / test: build (x & imm)", the label stays with a packed field *)
(* that is extracted (structure.C:936).                                    *)
TestsAreNoFields ==
    kernel.kd => \A n \in Singles : Content(n)[1][1] = "and" => ~ Called(n, {"field", "at"})
===============================================================================
