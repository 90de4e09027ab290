--------------------------- MODULE ProvenanceProofs ---------------------------
(***************************************************************************)
(* What the labels of module Provenance say is true.  A label is shown     *)
(* true by evidence, a set of pairs of a label and a content that is       *)
(* closed under the parts of labels; every transfer builds the evidence of *)
(* what it says from that of its operands.                                 *)
(***************************************************************************)
EXTENDS Provenance, Integers, FiniteSetTheorems, WellFoundedInduction, TLAPS

-----------------------------------------------------------------------------
(***************************************************************************)
(* Least elements and induction over naturals, stated with a set.          *)
(***************************************************************************)

(* A set of naturals has a least element.                                  *)
LEMMA LeastNumber ==
    ASSUME NEW T \in SUBSET Nat, T # {}
    PROVE  \E n \in T : \A m \in T : n <= m
<1>1. IsWellFoundedOn(OpToRel(<, Nat), Nat)
  BY NatLessThanWellFounded
<1>2. PICK n \in T : \A m \in T : ~ (<<m, n>> \in OpToRel(<, Nat))
  BY <1>1, WFMin
<1>3. n \in Nat /\ \A m \in T : m \in Nat
  OBVIOUS
<1>4. \A m \in T : ~ (m < n)
  BY <1>2, <1>3 DEF OpToRel
<1>5. \A m \in T : n <= m
  BY <1>3, <1>4
<1> QED BY <1>5

(* Induction, for a set of naturals.                                       *)
LEMMA SetInduction ==
    ASSUME NEW T, 0 \in T, \A n \in Nat : n \in T => n + 1 \in T
    PROVE  Nat \subseteq T
<1> SUFFICES ASSUME Nat \ T # {} PROVE FALSE
  OBVIOUS
<1>1. PICK n \in Nat \ T : \A m \in Nat \ T : n <= m
  BY LeastNumber
<1>2. n - 1 \in Nat /\ n - 1 \notin Nat \ T /\ (n - 1) + 1 = n
  BY <1>1
<1> QED BY <1>1, <1>2

-----------------------------------------------------------------------------
(***************************************************************************)
(* Evidence.                                                               *)
(***************************************************************************)
Supports(k, E) == \A p \in E : Fits(k, p[1], p[2]) /\ Parts(p[1], p[2]) \subseteq E

Evident(k, l, c) == \E E : <<l, c>> \in E /\ Supports(k, E)

(* The parts of a label are pairs.                                         *)
LEMMA PartsPairs == ASSUME NEW l, NEW c, NEW p \in Parts(l, c) PROVE p = <<p[1], p[2]>>
<1>1. CASE l[1] = "first"
  BY <1>1 DEF Parts
<1>2. CASE l[1] = "and" /\ c[1][1] = "lane"
  BY <1>2 DEF Parts
<1>3. CASE l[1] = "and" /\ c[1][1] # "lane"
  BY <1>3 DEF Parts
<1>4. CASE l[1] = "mem" /\ c[1][1] = "dword"
  BY <1>4 DEF Parts
<1>5. CASE l[1] = "op" \/ (l[1] = "mem" /\ c[1][1] # "dword")
  BY <1>5 DEF Parts
<1>6. CASE l[1] \notin {"first", "and", "mem", "op"}
  BY <1>6 DEF Parts
<1> QED BY <1>1, <1>2, <1>3, <1>4, <1>5, <1>6

(* An evident label fits, and so do its parts.                             *)
LEMMA EvidentUsed ==
    ASSUME NEW k, NEW l, NEW c, Evident(k, l, c)
    PROVE  Fits(k, l, c) /\ \A p \in Parts(l, c) : Evident(k, p[1], p[2])
<1>1. PICK E : <<l, c>> \in E /\ Supports(k, E)
  BY DEF Evident
<1>2. Fits(k, l, c) /\ Parts(l, c) \subseteq E
  BY <1>1 DEF Supports
<1>3. ASSUME NEW p \in Parts(l, c) PROVE Evident(k, p[1], p[2])
  <2>1. <<p[1], p[2]>> \in E
    BY <1>2, PartsPairs
  <2> QED BY <1>1, <2>1 DEF Evident
<1> QED BY <1>2, <1>3

(* A label that fits and has evident parts is evident.                     *)
LEMMA EvidentBuilt ==
    ASSUME NEW k, NEW l, NEW c, Fits(k, l, c), \A p \in Parts(l, c) : Evident(k, p[1], p[2])
    PROVE  Evident(k, l, c)
<1> DEFINE of(p) == CHOOSE E : <<p[1], p[2]>> \in E /\ Supports(k, E)
           E0    == {<<l, c>>} \union UNION {of(p) : p \in Parts(l, c)}
<1>1. ASSUME NEW p \in Parts(l, c) PROVE p \in of(p) /\ Supports(k, of(p))
  <2>1. \E E : <<p[1], p[2]>> \in E /\ Supports(k, E)
    BY DEF Evident
  <2>2. <<p[1], p[2]>> \in of(p) /\ Supports(k, of(p))
    BY <2>1
  <2> QED BY <2>2, PartsPairs
<1> HIDE DEF of
<1>2. Parts(l, c) \subseteq E0
  BY <1>1
<1>3. ASSUME NEW q \in E0 PROVE Fits(k, q[1], q[2]) /\ Parts(q[1], q[2]) \subseteq E0
  <2>1. CASE q = <<l, c>>
    BY <2>1, <1>2
  <2>2. CASE q # <<l, c>>
    <3>1. PICK p \in Parts(l, c) : q \in of(p)
      BY <2>2
    <3>2. Fits(k, q[1], q[2]) /\ Parts(q[1], q[2]) \subseteq of(p)
      BY <3>1, <1>1 DEF Supports
    <3> QED BY <3>2
  <2> QED BY <2>1, <2>2
<1>4. Supports(k, E0) /\ <<l, c>> \in E0
  BY <1>3 DEF Supports
<1> QED BY <1>4 DEF Evident

(* The levels of a label: a recursive function of the depth.               *)
Levels(f, l, c) ==
    f = [d \in 0 .. MaxSteps |->
            IF d = 0 THEN {<<l, c>>} ELSE UNION {Parts(p[1], p[2]) : p \in f[d - 1]}]

LEMMA LevelsExist == ASSUME NEW l, NEW c PROVE \E f : Levels(f, l, c)
<1> DEFINE Upto(f, n) == /\ DOMAIN f = 0 .. n
                         /\ \A d \in 0 .. n : f[d] = IF d = 0 THEN {<<l, c>>}
                                ELSE UNION {Parts(p[1], p[2]) : p \in f[d - 1]}
           N == {n \in Nat : \E f : Upto(f, n)}
<1>1. 0 \in N
  <2>1. Upto([d \in 0 .. 0 |-> {<<l, c>>}], 0)
    OBVIOUS
  <2> HIDE DEF Upto
  <2> QED BY <2>1
<1>2. ASSUME NEW n \in Nat, n \in N PROVE n + 1 \in N
  <2>1. PICK f : Upto(f, n)
    BY <1>2
  <2> DEFINE g == [d \in 0 .. n + 1 |-> IF d <= n THEN f[d]
                       ELSE UNION {Parts(p[1], p[2]) : p \in f[n]}]
  <2>2. Upto(g, n + 1)
    <3>1. DOMAIN g = 0 .. n + 1
      OBVIOUS
    <3>2. ASSUME NEW d \in 0 .. n + 1
          PROVE  g[d] = IF d = 0 THEN {<<l, c>>} ELSE UNION {Parts(p[1], p[2]) : p \in g[d - 1]}
      <4>1. CASE d = 0
        BY <2>1, <4>1
      <4>2. CASE d # 0 /\ d <= n
        <5>1. g[d - 1] = f[d - 1] /\ g[d] = f[d]
          BY <4>2
        <5> QED BY <5>1, <4>2, <2>1
      <4>3. CASE d = n + 1
        <5>1. d - 1 = n /\ g[n] = f[n] /\ d # 0 /\ ~ (d <= n)
          BY <4>3
        <5> QED BY <5>1
      <4> QED BY <4>1, <4>2, <4>3
    <3> QED BY <3>1, <3>2
  <2> HIDE DEF Upto, g
  <2> QED BY <2>2
<1>3. MaxSteps \in N
  <2> HIDE DEF N
  <2> QED BY <1>1, <1>2, SetInduction, OperandsAssumption
<1>4. PICK f : Upto(f, MaxSteps)
  BY <1>3
<1> DEFINE h == [d \in 0 .. MaxSteps |-> f[d]]
<1>5. ASSUME NEW d \in 0 .. MaxSteps
      PROVE  h[d] = IF d = 0 THEN {<<l, c>>} ELSE UNION {Parts(p[1], p[2]) : p \in h[d - 1]}
  <2>1. CASE d = 0
    BY <1>4, <2>1
  <2>2. CASE d # 0
    <3>1. d - 1 \in 0 .. MaxSteps
      BY <2>2, OperandsAssumption
    <3>2. h[d - 1] = f[d - 1] /\ h[d] = f[d]
      BY <3>1
    <3> QED BY <3>2, <2>2, <1>4
  <2> QED BY <2>1, <2>2
<1>6. Levels(h, l, c)
  BY <1>5 DEF Levels
<1> QED BY <1>6

(* What is evident is said truly.                                          *)
LEMMA EvidentSays == ASSUME NEW k, NEW l, NEW c, Evident(k, l, c) PROVE Says(k, l, c)
<1>1. PICK E : <<l, c>> \in E /\ Supports(k, E)
  BY DEF Evident
<1> DEFINE f == CHOOSE f : Levels(f, l, c)
<1>2. Levels(f, l, c)
  BY LevelsExist
<1> HIDE DEF f
<1> DEFINE N == {n \in Nat : n \in 0 .. MaxSteps => f[n] \subseteq E}
<1>3. 0 \in N
  BY <1>1, <1>2 DEF Levels
<1>4. ASSUME NEW n \in Nat, n \in N PROVE n + 1 \in N
  <2>1. SUFFICES ASSUME n + 1 \in 0 .. MaxSteps PROVE f[n + 1] \subseteq E
    OBVIOUS
  <2>2. f[n + 1] = UNION {Parts(p[1], p[2]) : p \in f[n]}
    <3>1. n + 1 # 0 /\ (n + 1) - 1 = n
      OBVIOUS
    <3> QED BY <3>1, <2>1, <1>2 DEF Levels
  <2>3. f[n] \subseteq E
    BY <1>4, <2>1, OperandsAssumption
  <2> QED BY <2>2, <2>3, <1>1 DEF Supports
<1>5. \A d \in 0 .. MaxSteps : f[d] \subseteq E
  <2>1. Nat \subseteq N
    <3> HIDE DEF N
    <3> QED BY <1>3, <1>4, SetInduction
  <2> QED BY <2>1
<1>6. \A d \in 0 .. MaxSteps : \A p \in f[d] : Fits(k, p[1], p[2])
  BY <1>5, <1>1 DEF Supports
<1> QED BY <1>6 DEF Says, f, Levels

-----------------------------------------------------------------------------
(***************************************************************************)
(* Evidence for each kind of label.                                        *)
(***************************************************************************)
Segments == {"kernarg", "dispatch"}

LEMMA RawEvident == ASSUME NEW k, NEW n, NEW c PROVE Evident(k, <<"raw", n>>, c)
<1> DEFINE l == <<"raw", n>>
<1>1. Fits(k, l, c)
  BY DEF Fits
<1>2. Parts(l, c) = {}
  BY DEF Parts
<1> QED BY <1>1, <1>2, EvidentBuilt

LEMMA AddressEvident == ASSUME NEW k, NEW seg PROVE Evident(k, <<"&", seg>>, Address(seg))
<1> DEFINE l == <<"&", seg>>
<1>1. Fits(k, l, Address(seg))
  BY DEF Fits
<1>2. Parts(l, Address(seg)) = {}
  BY DEF Parts
<1> QED BY <1>1, <1>2, EvidentBuilt

LEMMA AddressUsed ==
    ASSUME NEW k, NEW l, NEW c, Evident(k, l, c), l[1] = "&" PROVE c = Address(l[2])
BY EvidentUsed DEF Fits

LEMMA IdEvident == ASSUME NEW k, NEW x, NEW d
                   PROVE  Evident(k, <<"id", x, d>>, << <<"id", x, d>> >>)
<1> DEFINE l == <<"id", x, d>>
<1>1. Fits(k, l, <<l>>)
  BY DEF Fits
<1>2. Parts(l, <<l>>) = {}
  BY DEF Parts
<1> QED BY <1>1, <1>2, EvidentBuilt

LEMMA AtEvident == ASSUME NEW k, NEW c, NEW seg, NEW off, Holds(k, c, seg, off)
                   PROVE  Evident(k, <<"at", seg, off>>, c)
<1> DEFINE l == <<"at", seg, off>>
<1>1. Fits(k, l, c)
  BY DEF Fits
<1>2. Parts(l, c) = {}
  BY DEF Parts
<1> QED BY <1>1, <1>2, EvidentBuilt

(* The note is a sequence, and so are the arguments of a kernel in it.     *)
WellNoted(args) ==
    \A p \in DOMAIN args :
       /\ args[p].hidden = None =>
             args[p].param = Cardinality({q \in 1 .. p - 1 : args[q].hidden = None})
       /\ args[p].offset \in Nat
       /\ args[p].size = 2 \/ args[p].offset % 4 = 0

LEMMA NoteIndexed == /\ DOMAIN Note \subseteq Nat
                     /\ \A e \in DOMAIN Note : WellNoted(Note[e].args)
BY NoteAssumption DEF WellNoted

(* A name of the notes or of the packet is one of the kernel's own.        *)
LEMMA NamesTrue ==
    ASSUME NEW k, k.kd \in BOOLEAN, NEW seg \in Segments, NEW off, HasLabel(k, seg, off)
    PROVE  Named(k, NamesIn(k, seg)[off], seg, off)
<1>1. CASE seg = "dispatch"
  <2>1. off \in {4, 6, 8, 12, 16, 20}
    BY <1>1 DEF HasLabel, NamesIn, PacketField
  <2>2. \E d \in 0 .. 2 :
           \/ PacketField[off] = <<"blockDim", d>> /\ off = 4 + 2 * d
           \/ PacketField[off] = <<"gridSize", d>> /\ off = 12 + 4 * d
    <3>1. CASE off < 12
      <4>1. (off - 4) \div 2 \in 0 .. 2 /\ off = 4 + 2 * ((off - 4) \div 2)
        BY <2>1, <3>1
      <4> QED BY <4>1, <2>1, <3>1 DEF PacketField
    <3>2. CASE ~ (off < 12)
      <4>1. (off - 12) \div 4 \in 0 .. 2 /\ off = 12 + 4 * ((off - 12) \div 4)
        BY <2>1, <3>2
      <4> QED BY <4>1, <2>1, <3>2 DEF PacketField
    <3> QED BY <3>1, <3>2
  <2> QED BY <1>1, <2>2 DEF Named, NamesIn
<1>2. CASE seg = "kernarg"
  <2> DEFINE args == ArgsOf(k)
             mine == {i \in DOMAIN Note : k.kd /\ Note[i].symbol = k.symbol}
  <2>1. off \in {a.offset : a \in Range(args)}
    BY <1>2 DEF HasLabel, NamesIn, KernargNames
  <2>2. NamesIn(k, seg)[off] = ArgName(args, CHOOSE i \in DOMAIN args : args[i].offset = off)
    BY <1>2, <2>1 DEF NamesIn, KernargNames
  <2>3. PICK i \in DOMAIN args : /\ args[i].offset = off
                                 /\ NamesIn(k, seg)[off] = ArgName(args, i)
    BY <2>1, <2>2 DEF Range
  <2>4. mine # {}
    <3>1. CASE mine = {}
      <4>1. args = <<>>
        BY <3>1 DEF ArgsOf
      <4> QED BY <2>3, <4>1
    <3> QED BY <3>1
  <2>5. PICK e \in mine : args = Note[e].args
    <3>1. \E e \in mine : \A j \in mine : e <= j
      <4>1. mine \subseteq Nat
        BY NoteIndexed
      <4> QED BY <4>1, <2>4, LeastNumber
    <3> QED BY <3>1, <2>4 DEF ArgsOf
  <2>6. args[i] \in OwnArgs(k)
    <3>1. Note[e] \in {x \in Range(Note) : x.symbol = k.symbol}
      BY DEF Range
    <3>2. args[i] \in Range(Note[e].args)
      BY <2>5, <2>3 DEF Range
    <3> QED BY <3>1, <3>2 DEF OwnArgs
  <2>7. args[i].hidden = None =>
          args[i].param = Cardinality({j \in 1 .. i - 1 : args[j].hidden = None})
    BY <2>3, <2>5, NoteIndexed DEF WellNoted
  <2>8. NamesIn(k, seg)[off] = IF args[i].hidden # None THEN <<"hidden", args[i].hidden>>
                               ELSE IF args[i].name # None THEN <<"arg", args[i].name>>
                               ELSE <<"param", args[i].param>>
    BY <2>3, <2>7 DEF ArgName
  <2> QED BY <1>2, <2>3, <2>6, <2>8 DEF Named
<1> QED BY <1>1, <1>2 DEF Segments

LEMMA FieldEvident ==
    ASSUME NEW k, k.kd \in BOOLEAN, NEW seg \in Segments, NEW off, NEW c,
           HasLabel(k, seg, off), Holds(k, c, seg, off)
    PROVE  Evident(k, LabelAt(k, seg, off), c)
<1> DEFINE l == LabelAt(k, seg, off)
<1>1. l[1] = "field" /\ l[2] = seg /\ l[3] = NamesIn(k, seg)[off]
  BY DEF LabelAt
<1> HIDE DEF l
<1>2. c[1][1] \in {"dword", "lane"} /\ c[1][3] = off
  BY DEF Holds
<1>3. Fits(k, l, c)
  BY <1>1, <1>2, NamesTrue DEF Fits
<1>4. Parts(l, c) = {}
  BY <1>1 DEF Parts
<1> QED BY <1>3, <1>4, EvidentBuilt DEF l
LEMMA FirstEvident ==
    ASSUME NEW k, NEW l, NEW c, Evident(k, l, c)
    PROVE  Evident(k, <<"first", l>>, << <<"first", c>> >>)
<1> DEFINE m == <<"first", l>>
           d == << <<"first", c>> >>
<1>1. Fits(k, m, d)
  BY DEF Fits
<1>2. Parts(m, d) = {<<l, c>>}
  BY DEF Parts
<1> HIDE DEF m, d
<1>3. \A p \in Parts(m, d) : Evident(k, p[1], p[2])
  BY <1>2
<1>4. Evident(k, m, d)
  BY <1>1, <1>3, EvidentBuilt
<1> QED BY <1>4 DEF m, d

LEMMA AndEvident ==
    ASSUME NEW k, NEW l, NEW c, Evident(k, l, c)
    PROVE  Evident(k, <<"and", l>>, << <<"and", c>> >>)
<1> DEFINE m == <<"and", l>>
           d == << <<"and", c>> >>
<1>1. Fits(k, m, d)
  BY DEF Fits
<1>2. Parts(m, d) = {<<l, c>>}
  BY DEF Parts
<1> HIDE DEF m, d
<1>3. \A p \in Parts(m, d) : Evident(k, p[1], p[2])
  BY <1>2
<1>4. Evident(k, m, d)
  BY <1>1, <1>3, EvidentBuilt
<1> QED BY <1>4 DEF m, d

(* A name true of a dword, or a 16-bit field, is true of that field and of *)
(* a dword there.                                                          *)
LEMMA NameMoves ==
    ASSUME NEW k, NEW l, NEW c, NEW d, NEW seg, NEW off,
           Evident(k, l, c), l[1] \in {"field", "at"},
           c[1] = <<"lane", seg, off>> \/ \E w : c[1] = <<"dword", seg, off, w>>,
           Holds(k, d, seg, off)
    PROVE  Evident(k, l, d)
<1>1. Fits(k, l, c)
  BY EvidentUsed
<1>2. d[1][1] \in {"dword", "lane"} /\ d[1][3] = off
  BY DEF Holds
<1>3. c[1][3] = off /\ c[1][2] = seg
  OBVIOUS
<1>4. CASE l[1] = "field"
  <2>1. Holds(k, c, l[2], off) /\ Named(k, l[3], l[2], off)
    BY <1>1, <1>3, <1>4 DEF Fits
  <2>2. l[2] = seg
    BY <2>1, <1>3 DEF Holds
  <2>3. Fits(k, l, d)
    BY <2>1, <2>2, <1>2, <1>4 DEF Fits
  <2>4. Parts(l, d) = {}
    BY <1>4 DEF Parts
  <2> QED BY <2>3, <2>4, EvidentBuilt
<1>5. CASE l[1] = "at"
  <2>1. Holds(k, c, l[2], l[3])
    BY <1>1, <1>5 DEF Fits
  <2>2. l[2] = seg /\ l[3] = off
    BY <2>1, <1>3 DEF Holds
  <2>3. Fits(k, l, d)
    BY <2>2, <1>5 DEF Fits
  <2>4. Parts(l, d) = {}
    BY <1>5 DEF Parts
  <2> QED BY <2>3, <2>4, EvidentBuilt
<1> QED BY <1>4, <1>5

(* What is said of a 16-bit field by a label that is no mask is said of    *)
(* the dword as well.                                                      *)
LEMMA FieldOfDword ==
    ASSUME NEW k, NEW l, NEW c, NEW seg, NEW off, Evident(k, l, c),
           c[1] = <<"lane", seg, off>>, l[1] # "and"
    PROVE  Evident(k, l, << <<"dword", seg, off, 1>> >>)
<1> DEFINE d == << <<"dword", seg, off, 1>> >>
<1>1. Fits(k, l, c)
  BY EvidentUsed
<1>2. CASE l[1] = "raw"
  <2>1. Fits(k, l, d)
    BY <1>2 DEF Fits
  <2>2. Parts(l, d) = {}
    BY <1>2 DEF Parts
  <2> QED BY <2>1, <2>2, EvidentBuilt
<1>3. CASE l[1] \in {"field", "at"}
  <2>1. Holds(k, d, seg, off)
    BY DEF Holds
  <2> QED BY <2>1, <1>3, NameMoves
<1>4. CASE l[1] = "&"
  BY <1>1, <1>4 DEF Fits, Address
<1>5. CASE l[1] = "id"
  BY <1>1, <1>5 DEF Fits
<1>6. CASE l[1] = "first"
  BY <1>1, <1>6 DEF Fits
<1>7. CASE l[1] \notin {"raw", "field", "at", "&", "id", "first"}
  BY <1>1, <1>7 DEF Fits
<1> QED BY <1>2, <1>3, <1>4, <1>5, <1>6, <1>7

(* A mask of a loaded dword or of a field of it is labelled truly.         *)
LEMMA LaneEvident ==
    ASSUME NEW k, NEW l, NEW c, NEW seg, NEW off, Evident(k, l, c),
           c = << <<"lane", seg, off>> >> \/ c = << <<"dword", seg, off, 1>> >>
    PROVE  Evident(k, <<"and", l>>, << <<"lane", seg, off>> >>)
<1> DEFINE m == <<"and", l>>
           d == << <<"lane", seg, off>> >>
<1>1. Fits(k, m, d)
  BY DEF Fits
<1>2. Parts(m, d) = {<<l, IF l[1] = "and" THEN d ELSE << <<"dword", seg, off, 1>> >> >>}
  BY DEF Parts
<1>3. Evident(k, l, IF l[1] = "and" THEN d ELSE << <<"dword", seg, off, 1>> >>)
  <2>1. CASE l[1] = "and"
    <3>1. Fits(k, l, c)
      BY EvidentUsed
    <3>2. c[1][1] \in {"and", "lane"}
      BY <2>1, <3>1 DEF Fits
    <3> QED BY <2>1, <3>2
  <2>2. CASE l[1] # "and" /\ c[1][1] = "lane"
    BY <2>2, FieldOfDword
  <2>3. CASE l[1] # "and" /\ c[1][1] # "lane"
    BY <2>3
  <2> QED BY <2>1, <2>2, <2>3
<1> HIDE DEF m, d
<1>4. \A p \in Parts(m, d) : Evident(k, p[1], p[2])
  BY <1>2, <1>3
<1>5. Evident(k, m, d)
  BY <1>1, <1>4, EvidentBuilt
<1> QED BY <1>5 DEF m, d
(* A scalar load off what a label says of the base.                        *)
LEMMA LoadEvident ==
    ASSUME NEW k, NEW m, NEW c, NEW d, NEW off, NEW w, Evident(k, m, c),
           d[1] = IF PointsTo(c) THEN <<"dword", c[1][2], off, w>> ELSE <<"mem", "s", <<c>> >>
    PROVE  Evident(k, <<"mem", "s", <<m>> >>, d)
<1> DEFINE l == <<"mem", "s", <<m>> >>
<1>0. l[1] = "mem" /\ l[2] = "s" /\ l[3] = <<m>> /\ l[3][1] = m /\ DOMAIN l[3] = {1} /\ Len(l[3]) = 1
  OBVIOUS
<1> HIDE DEF l
<1>1. CASE PointsTo(c)
  <2>1. d[1][1] = "dword" /\ c = Address(d[1][2])
    BY <1>1 DEF PointsTo
  <2>2. Fits(k, l, d)
    BY <1>0, <2>1 DEF Fits
  <2>3. Parts(l, d) = {<<m, c>>}
    BY <1>0, <2>1 DEF Parts
  <2>4. \A p \in Parts(l, d) : Evident(k, p[1], p[2])
    BY <2>3
  <2> QED BY <2>2, <2>4, EvidentBuilt DEF l
<1>2. CASE ~ PointsTo(c)
  <2>1. d[1][1] = "mem" /\ d[1][2] = "s" /\ d[1][3][1] = c /\ Len(d[1][3]) = 1
    BY <1>2
  <2>2. Fits(k, l, d)
    BY <1>0, <2>1 DEF Fits
  <2>3. ~ ByLow(l, d)
    BY <1>0 DEF ByLow
  <2>4. Parts(l, d) = {<<m, c>>}
    BY <1>0, <2>1, <2>3 DEF Parts
  <2>5. \A p \in Parts(l, d) : Evident(k, p[1], p[2])
    BY <2>4
  <2> QED BY <2>2, <2>5, EvidentBuilt DEF l
<1> QED BY <1>1, <1>2

(* A vector load, or an operation, of what labels say of the operands.     *)
LEMMA TermEvident ==
    ASSUME NEW k, NEW tag \in {"mem", "op"}, NEW x, NEW ls, NEW cs, NEW d,
           d[1] = <<tag, x, cs>>, Len(cs) = Len(ls),
           \A i \in DOMAIN ls :
              Evident(k, ls[i], IF ByLow(<<tag, x, ls>>, d) THEN Low(cs[i]) ELSE cs[i])
    PROVE  Evident(k, <<tag, x, ls>>, d)
<1> DEFINE l == <<tag, x, ls>>
<1>0. l[1] = tag /\ l[2] = x /\ l[3] = ls /\ d[1][1] = tag /\ d[1][2] = x /\ d[1][3] = cs
  OBVIOUS
<1>a. \A i \in DOMAIN ls : Evident(k, ls[i], IF ByLow(l, d) THEN Low(cs[i]) ELSE cs[i])
  OBVIOUS
<1> HIDE DEF l
<1>1. Fits(k, l, d)
  BY <1>0 DEF Fits
<1>2. Parts(l, d) = {<<ls[i], IF ByLow(l, d) THEN Low(cs[i]) ELSE cs[i]>> : i \in DOMAIN ls}
  BY <1>0 DEF Parts
<1>3. \A p \in Parts(l, d) : Evident(k, p[1], p[2])
  BY <1>2, <1>a
<1>4. Evident(k, l, d)
  BY <1>1, <1>3, EvidentBuilt
<1> QED BY <1>4 DEF l
-----------------------------------------------------------------------------
(***************************************************************************)
(* Registers and operands.                                                 *)
(***************************************************************************)
Bit(seg) == IF seg = "kernarg" THEN 3 ELSE 1

(* Where the pass looks for the address of a segment is where the hardware *)
(* puts it, below the block's coordinates.                                 *)
LEMMA PointerPlace ==
    ASSUME NEW k \in Kernels
    PROVE  /\ UserCount(k) \in Nat
           /\ \A seg \in Live(k) :
                 /\ seg \in Segments /\ Bit(seg) \in k.props
                 /\ Pointer(k)[seg] = PairAt(UserAt(k, Bit(seg)))
                 /\ UserAt(k, Bit(seg)) \in Nat
                 /\ UserAt(k, Bit(seg)) + 2 <= UserCount(k)
           /\ UserAt(k, 1) \in Nat /\ UserAt(k, 3) \in Nat
           /\ 1 \in k.props => UserAt(k, 1) + 2 <= UserAt(k, 3)
<1> DEFINE w(i, b) == IF i \in k.props /\ i < b THEN Size[i] ELSE 0
<1>1. /\ Size[0] = 4 /\ Size[1] = 2 /\ Size[2] = 2 /\ Size[3] = 2 /\ Size[4] = 2
      /\ Size[5] = 2 /\ Size[6] = 1
  BY DEF Size
<1>2. \A i \in 0 .. 6, b \in Nat : w(i, b) \in Nat
  <2>1. \A i \in 0 .. 6 : Size[i] \in Nat
    BY DEF Size
  <2> QED BY <2>1
<1>3. UserCount(k) = w(0, 7) + w(1, 7) + w(2, 7) + w(3, 7) + w(4, 7) + w(5, 7) + w(6, 7)
  BY DEF UserCount, Before
<1>4. Before(k.props, 3) = w(0, 3) + w(1, 3) + w(2, 3) + w(3, 3) + w(4, 3) + w(5, 3) + w(6, 3)
  BY DEF Before
<1>5. Before(k.props, 1) = w(0, 1) + w(1, 1) + w(2, 1) + w(3, 1) + w(4, 1) + w(5, 1) + w(6, 1)
  BY DEF Before
<1>6. /\ w(3, 3) = 0 /\ w(4, 3) = 0 /\ w(5, 3) = 0 /\ w(6, 3) = 0
      /\ w(1, 1) = 0 /\ w(2, 1) = 0 /\ w(3, 1) = 0 /\ w(4, 1) = 0 /\ w(5, 1) = 0 /\ w(6, 1) = 0
  OBVIOUS
<1>7. /\ w(0, 7) = w(0, 3) /\ w(0, 3) = w(0, 1)
      /\ w(1, 7) = w(1, 3) /\ w(2, 7) = w(2, 3)
  OBVIOUS
<1>8. UserAt(k, 3) = w(0, 3) + w(1, 3) + w(2, 3) /\ UserAt(k, 1) = w(0, 1)
  <2>1. UserAt(k, 3) = w(0, 3) + w(1, 3) + w(2, 3)
    BY <1>1 DEF UserAt
  <2>2. UserAt(k, 1) = w(0, 1) + 0 + 0
    BY <1>1 DEF UserAt
  <2> QED BY <2>1, <2>2, <1>2
<1>9. (3 \in k.props => w(3, 7) = 2) /\ (1 \in k.props => w(1, 7) = 2 /\ w(1, 3) = 2)
  BY <1>1
<1>10. /\ w(0, 7) \in Nat /\ w(1, 7) \in Nat /\ w(2, 7) \in Nat /\ w(3, 7) \in Nat
       /\ w(4, 7) \in Nat /\ w(5, 7) \in Nat /\ w(6, 7) \in Nat
  BY <1>2
<1> HIDE DEF w
<1>11. UserAt(k, 3) \in Nat /\ UserAt(k, 1) \in Nat /\ UserCount(k) \in Nat
  BY <1>3, <1>7, <1>8, <1>10
<1>12. Before(k.props, 3) = UserAt(k, 3) /\ Before(k.props, 1) = UserAt(k, 1)
  BY <1>4, <1>5, <1>6, <1>7, <1>8, <1>10
<1>13. 1 \in k.props => UserAt(k, 1) + 2 <= UserAt(k, 3) /\ UserAt(k, 1) + 2 <= UserCount(k)
  BY <1>3, <1>7, <1>8, <1>9, <1>10
<1>14. 3 \in k.props => UserAt(k, 3) + 2 <= UserCount(k)
  BY <1>3, <1>7, <1>8, <1>9, <1>10
<1>15. ASSUME NEW seg \in Live(k)
       PROVE  /\ seg \in Segments /\ Bit(seg) \in k.props
              /\ Pointer(k)[seg] = PairAt(UserAt(k, Bit(seg)))
              /\ UserAt(k, Bit(seg)) \in Nat
              /\ UserAt(k, Bit(seg)) + 2 <= UserCount(k)
  <2>1. seg \in Segments /\ Bit(seg) \in k.props
    BY DEF Live, Segments, Bit
  <2>2. CASE seg = "kernarg"
    BY <2>1, <2>2, <1>11, <1>12, <1>14 DEF Pointer, Bit
  <2>3. CASE seg = "dispatch"
    BY <2>1, <2>3, <1>11, <1>12, <1>13 DEF Pointer, Bit
  <2> QED BY <2>1, <2>2, <2>3 DEF Segments
<1> QED BY <1>11, <1>13, <1>15

(* A pair is two consecutive registers, and either of them tells it.       *)
LEMMA PairsShape ==
    ASSUME kernel \in Kernels, NEW p \in Pairs
    PROVE  /\ Register(p[1])
           /\ p = <<p[1], <<p[1][1], p[1][2] + 1>> >>
           /\ p[1] # p[2]
           /\ p[1] \in Regs(kernel) /\ p[2] \in Regs(kernel)
           /\ Range(p) = {p[1], p[2]}
<1>1. Register(p[1]) /\ p = <<p[1], <<p[1][1], p[1][2] + 1>> >>
  <2>1. CASE p \in TempPairs
    BY <2>1, OperandsAssumption
  <2>2. CASE p \notin TempPairs
    <3>1. PICK seg \in Live(kernel) : p = Pointer(kernel)[seg]
      BY <2>2 DEF Pairs
    <3>2. PICK i \in Nat : p = << <<"s", i>>, <<"s", i + 1>> >>
      BY <3>1, PointerPlace DEF PairAt, S
    <3> QED BY <3>2 DEF Register
  <2> QED BY <2>1, <2>2
<1>2. p[2] = <<p[1][1], p[1][2] + 1>> /\ p[1][2] \in Nat /\ p[1] = <<p[1][1], p[1][2]>>
  BY <1>1 DEF Register
<1>3. p[1] # p[2]
  <2>1. p[2][2] # p[1][2]
    BY <1>2
  <2> QED BY <2>1
<1>4. Range(p) = {p[1], p[2]}
  <2> DEFINE a == p[1]
             b == <<p[1][1], p[1][2] + 1>>
  <2>1. p = <<a, b>> /\ p[2] = b
    BY <1>1
  <2> HIDE DEF a, b
  <2>2. Range(<<a, b>>) = {a, b}
    BY DEF Range
  <2> QED BY <2>1, <2>2 DEF a
<1>5. Range(p) \subseteq Regs(kernel)
  BY DEF Pairs, Regs
<1> QED BY <1>1, <1>3, <1>4, <1>5

LEMMA PairsTold ==
    ASSUME kernel \in Kernels, NEW p \in Pairs, NEW q \in Pairs, p[1] = q[1] \/ p[2] = q[2]
    PROVE  p = q
<1>1. /\ p[1] = <<p[1][1], p[1][2]>> /\ p[1][2] \in Nat /\ p = <<p[1], <<p[1][1], p[1][2] + 1>> >>
      /\ q[1] = <<q[1][1], q[1][2]>> /\ q[1][2] \in Nat /\ q = <<q[1], <<q[1][1], q[1][2] + 1>> >>
  BY PairsShape DEF Register
<1>2. p[2] = <<p[1][1], p[1][2] + 1>> /\ q[2] = <<q[1][1], q[1][2] + 1>>
  BY <1>1
<1>3. CASE p[1] = q[1]
  BY <1>1, <1>3
<1>4. CASE p[2] = q[2]
  <2>1. p[1][1] = q[1][1] /\ p[1][2] + 1 = q[1][2] + 1
    BY <1>2, <1>4
  <2>2. p[1] = q[1]
    BY <2>1, <1>1
  <2> QED BY <2>2, <1>1
<1> QED BY <1>3, <1>4

LEMMA SinglesShape ==
    ASSUME kernel \in Kernels, NEW n \in Singles
    PROVE  n = <<n[1]>> /\ n[1] \in Regs(kernel) /\ Range(n) = {n[1]} /\ Low(n) = n
<1>1. n = <<n[1]>>
  BY OperandsAssumption DEF Singles
<1>2. Range(n) = {n[1]}
  <2> DEFINE a == n[1]
  <2>1. n = <<a>>
    BY <1>1
  <2> HIDE DEF a
  <2>2. Range(<<a>>) = {a}
    BY DEF Range
  <2> QED BY <2>1, <2>2 DEF a
<1>3. n[1] \in Regs(kernel)
  <2>1. CASE n \in Temps
    <3>1. Range(n) \subseteq Regs(kernel)
      BY <2>1 DEF Regs
    <3> QED BY <3>1, <1>2
  <2>2. CASE n \notin Temps
    <3>1. PICK b \in kernel.wg : n = <<BlockIdx(kernel, b)>>
      BY <2>2 DEF Singles
    <3> QED BY <3>1 DEF Regs
  <2> QED BY <2>1, <2>2
<1> QED BY <1>1, <1>2, <1>3 DEF Low

LEMMA Disjoint ==
    ASSUME kernel \in Kernels, NEW n \in Singles \union Pairs
    PROVE  /\ n \in Singles => n \notin Pairs /\ DOMAIN n = {1} /\ Len(n) = 1
           /\ n \in Pairs => n \notin Singles /\ DOMAIN n = {1, 2} /\ Len(n) = 2 /\ n # Low(n)
           /\ Range(n) \subseteq Regs(kernel)
           /\ \A i, j \in DOMAIN n : n[i] = n[j] => i = j
           /\ 1 \in DOMAIN n /\ \A i \in DOMAIN n : n[i] \in Range(n)
<1>1. ASSUME n \in Singles PROVE n = <<n[1]>> /\ DOMAIN n = {1} /\ Len(n) = 1 /\ Range(n) \subseteq Regs(kernel)
  <2> DEFINE a == n[1]
  <2>1. n = <<a>>
    BY <1>1, SinglesShape
  <2>2. Range(n) = {a} /\ a \in Regs(kernel)
    BY <1>1, SinglesShape
  <2> HIDE DEF a
  <2>3. DOMAIN <<a>> = {1} /\ Len(<<a>>) = 1
    OBVIOUS
  <2> QED BY <2>1, <2>2, <2>3 DEF a
<1>2. ASSUME n \in Pairs
      PROVE  n = <<n[1], n[2]>> /\ n[1] # n[2] /\ DOMAIN n = {1, 2} /\ Len(n) = 2 /\ Range(n) \subseteq Regs(kernel)
  <2> DEFINE a == n[1]
             b == <<n[1][1], n[1][2] + 1>>
  <2>1. n = <<a, b>>
    BY <1>2, PairsShape
  <2>2. Range(n) \subseteq Regs(kernel) /\ n[1] # n[2]
    BY <1>2, PairsShape
  <2> HIDE DEF a, b
  <2>3. DOMAIN <<a, b>> = {1, 2} /\ Len(<<a, b>>) = 2
    OBVIOUS
  <2> QED BY <2>1, <2>2, <2>3 DEF a
<1>3. \A i \in DOMAIN n : n[i] \in Range(n)
  BY DEF Range
<1> QED BY <1>1, <1>2, <1>3 DEF Low

-----------------------------------------------------------------------------
(***************************************************************************)
(* The inductive invariant.                                                *)
(***************************************************************************)
Formed(v) ==
    /\ v[1] = "half"  => v[2] \in Segments /\ v[3] \in 1 .. 2
    /\ v[1] = "dword" => v = <<"dword", v[2], v[3], v[4]>>
    /\ v[1] = "lane"  => v = <<"lane", v[2], v[3]>>

TypeInv ==
    /\ kernel \in Kernels
    /\ values = [r \in Regs(kernel) |-> values[r]]
    /\ \A r \in Regs(kernel) : Formed(values[r])
    /\ \A n \in DOMAIN labels : Range(n) \subseteq Regs(kernel)
    /\ DOMAIN packed \subseteq Singles \union Pairs

(* Labels have evidence.                                                   *)
Told == \A n \in DOMAIN labels \ stale : Evident(kernel, labels[n], Content(n))

(* What is said of a loaded dword is where in the segment it is, at an     *)
(* offset that is a multiple of four.                                      *)
FromThere(n) ==
    LET o == packed[n]
        v == values[n[1]]
    IN  /\ o.base \in Segments
        /\ Holds(kernel, Content(n), o.base, o.off)
        /\ n \in Singles => FromLoad(v)
        /\ v[1] = "dword" => o.off \in Nat /\ o.off % 4 = 0
        /\ n \in DOMAIN labels => labels[n][1] \in {"field", "at"}

Traced == \A n \in DOMAIN packed \ stale : FromThere(n)

(* A pair that holds an address is called so.                              *)
Pointed ==
    \A p \in Pairs \ stale : PointsTo(Content(p)) =>
        p \in DOMAIN labels /\ labels[p] = <<"&", values[p[1]][2]>>

(* A dword loaded on its own or a field of one is known for it.            *)
Remembered ==
    \A n \in Singles \ stale : LET v == values[n[1]] IN
        FromLoad(v) => /\ n \in DOMAIN packed
                       /\ HasLabel(kernel, v[2], v[3]) =>
                             n \in DOMAIN labels /\ labels[n] = LabelAt(kernel, v[2], v[3])

IInv == TypeInv /\ Told /\ Traced /\ (kernel.kd => Pointed /\ Remembered)

-----------------------------------------------------------------------------
(***************************************************************************)
(* What a write changes.                                                   *)
(***************************************************************************)
LEMMA WriteEffect ==
    ASSUME TypeInv, NEW dst \in Singles \union Pairs, NEW content, NEW said, NEW erased,
           NEW origin, NEW follows, Write(dst, content, said, erased, origin, follows)
    PROVE  /\ values' = [r \in Regs(kernel) |-> values'[r]]
           /\ \A r \in Regs(kernel) : r \notin Range(dst) => values'[r] = values[r]
           /\ \A i \in DOMAIN dst : values'[dst[i]] = content[i]
<1>1. DOMAIN values = Regs(kernel) /\ kernel \in Kernels
  BY DEF TypeInv
<1>2. values' = [r \in Regs(kernel) |-> IF r \in Range(dst)
                                        THEN content[CHOOSE i \in DOMAIN dst : dst[i] = r]
                                        ELSE values[r]]
  BY <1>1 DEF Write
<1>3. ASSUME NEW i \in DOMAIN dst PROVE values'[dst[i]] = content[i]
  <2>1. dst[i] \in Range(dst) /\ dst[i] \in Regs(kernel)
    BY <1>1, Disjoint
  <2> DEFINE j == CHOOSE j \in DOMAIN dst : dst[j] = dst[i]
  <2>2. j \in DOMAIN dst /\ dst[j] = dst[i]
    OBVIOUS
  <2>3. j = i
    BY <2>2, <1>1, Disjoint
  <2>4. values'[dst[i]] = content[j]
    BY <2>1, <1>2
  <2> QED BY <2>3, <2>4
<1>4. \A r \in Regs(kernel) : r \notin Range(dst) => values'[r] = values[r]
  BY <1>2
<1>5. values' = [r \in Regs(kernel) |-> values'[r]]
  BY <1>2
<1> QED BY <1>3, <1>4, <1>5

LEMMA WriteContent ==
    ASSUME TypeInv, NEW dst \in Singles \union Pairs, NEW content, NEW said, NEW erased,
           NEW origin, NEW follows, Write(dst, content, said, erased, origin, follows),
           content = [i \in DOMAIN dst |-> content[i]]
    PROVE  /\ \A n : Range(n) \subseteq Regs(kernel) /\ ~ Overlap(n, dst) => Content(n)' = Content(n)
           /\ Content(dst)' = content
           /\ Content(Low(dst))' = <<content[1]>>
<1>1. /\ \A r \in Regs(kernel) : r \notin Range(dst) => values'[r] = values[r]
      /\ \A i \in DOMAIN dst : values'[dst[i]] = content[i]
  BY WriteEffect
<1>2. ASSUME NEW n, Range(n) \subseteq Regs(kernel), ~ Overlap(n, dst)
      PROVE  Content(n)' = Content(n)
  <2>1. \A i \in DOMAIN n : n[i] \in Range(n)
    BY DEF Range
  <2>2. \A i \in DOMAIN n : values'[n[i]] = values[n[i]]
    BY <2>1, <1>2, <1>1 DEF Overlap
  <2> QED BY <2>2 DEF Content
<1>3. Content(dst)' = content
  BY <1>1 DEF Content
<1>4. Content(Low(dst))' = <<content[1]>>
  <2>1. values'[dst[1]] = content[1]
    BY <1>1, Disjoint DEF TypeInv
  <2>2. DOMAIN Low(dst) = {1} /\ Low(dst)[1] = dst[1]
    BY DEF Low
  <2>3. Content(Low(dst))' = [i \in {1} |-> content[1]]
    BY <2>1, <2>2 DEF Content
  <2> QED BY <2>3
<1> QED BY <1>2, <1>3, <1>4

(* What a transfer has to show of what it writes: the labels it gives have *)
(* evidence, the dword it says was loaded was, and a register it fills     *)
(* with half of an address or a loaded field is said to hold it.           *)
TrueOf(dst, content, said) ==
    \A n \in DOMAIN said :
        Evident(kernel, said[n], IF n = dst THEN content ELSE <<content[1]>>)

LoadedFrom(dst, content, said, origin) ==
    dst \in DOMAIN origin =>
        LET o == origin[dst] IN
        /\ o.base \in Segments
        /\ Holds(kernel, content, o.base, o.off)
        /\ dst \in Singles => FromLoad(content[1])
        /\ content[1][1] = "dword" => o.off \in Nat /\ o.off % 4 = 0
        /\ dst \in DOMAIN said => said[dst][1] \in {"field", "at"}

AddressSaid(dst, content, said) ==
    \A i \in DOMAIN dst : content[i][1] = "half" =>
        /\ dst \in Pairs /\ content[i][3] = i
        /\ dst \in DOMAIN said /\ said[dst] = <<"&", content[i][2]>>

FieldSaid(dst, content, said, origin) ==
    \A i \in DOMAIN dst : FromLoad(content[i]) =>
        /\ dst \in Singles /\ dst \in DOMAIN origin
        /\ HasLabel(kernel, content[i][2], content[i][3]) =>
              dst \in DOMAIN said /\ said[dst] = LabelAt(kernel, content[i][2], content[i][3])

LEMMA WriteKeeps ==
    ASSUME IInv, NEW dst \in Singles \union Pairs, NEW content, NEW said, NEW erased,
           NEW origin, NEW follows, Write(dst, content, said, erased, origin, follows),
           content = [i \in DOMAIN dst |-> content[i]], \A i \in DOMAIN dst : Formed(content[i]),
           DOMAIN said \subseteq {dst, Low(dst)}, dst \in erased, erased \subseteq {dst, Low(dst)},
           DOMAIN origin \subseteq {dst},
           follows => TrueOf(dst, content, said) /\ LoadedFrom(dst, content, said, origin),
           follows /\ kernel.kd =>
               AddressSaid(dst, content, said) /\ FieldSaid(dst, content, said, origin)
    PROVE  IInv'
<1>1. /\ TypeInv /\ kernel \in Kernels /\ kernel' = kernel
      /\ Told /\ Traced /\ (kernel.kd => Pointed /\ Remembered)
  BY DEF IInv, TypeInv, Write
<1>2. /\ Singles' = Singles /\ Pairs' = Pairs
  BY <1>1 DEF Singles, Pairs
<1>3. /\ values' = [r \in Regs(kernel) |-> values'[r]]
      /\ \A r \in Regs(kernel) : r \notin Range(dst) => values'[r] = values[r]
      /\ \A i \in DOMAIN dst : values'[dst[i]] = content[i]
  BY <1>1, WriteEffect
<1>4. /\ \A n : Range(n) \subseteq Regs(kernel) /\ ~ Overlap(n, dst) => Content(n)' = Content(n)
      /\ Content(dst)' = content
      /\ Content(Low(dst))' = <<content[1]>>
  BY <1>1, WriteContent
<1>5. /\ DOMAIN labels' = DOMAIN said \union (DOMAIN labels \ erased)
      /\ \A n \in DOMAIN said : labels'[n] = said[n]
      /\ \A n \in DOMAIN labels \ erased : n \notin DOMAIN said => labels'[n] = labels[n]
  <2>1. labels' = Over(said, Restrict(labels, DOMAIN labels \ erased))
    BY DEF Write
  <2>2. DOMAIN Restrict(labels, DOMAIN labels \ erased) = DOMAIN labels \ erased
    BY DEF Restrict
  <2>3. \A n \in DOMAIN labels \ erased : Restrict(labels, DOMAIN labels \ erased)[n] = labels[n]
    BY DEF Restrict
  <2> QED BY <2>1, <2>2, <2>3 DEF Over
<1>6. /\ DOMAIN packed' = DOMAIN origin \union (DOMAIN packed \ {dst})
      /\ \A n \in DOMAIN origin : packed'[n] = origin[n]
      /\ \A n \in DOMAIN packed \ {dst} : packed'[n] = packed[n]
  <2>1. packed' = Over(origin, Restrict(packed, DOMAIN packed \ {dst}))
    BY DEF Write, Origin
  <2>2. DOMAIN Restrict(packed, DOMAIN packed \ {dst}) = DOMAIN packed \ {dst}
    BY DEF Restrict
  <2>3. \A n \in DOMAIN packed \ {dst} : Restrict(packed, DOMAIN packed \ {dst})[n] = packed[n]
    BY DEF Restrict
  <2> QED BY <2>1, <2>2, <2>3 DEF Over
<1>7. /\ Range(dst) \subseteq Regs(kernel) /\ 1 \in DOMAIN dst
      /\ \A i \in DOMAIN dst : dst[i] \in Range(dst)
      /\ \A r \in Range(dst) : \E i \in DOMAIN dst : dst[i] = r
      /\ Range(Low(dst)) = {dst[1]}
  <2>1. Range(Low(dst)) = {dst[1]}
    <3> DEFINE a == dst[1]
    <3>1. Low(dst) = <<a>>
      BY DEF Low
    <3> HIDE DEF a
    <3>2. Range(<<a>>) = {a}
      BY DEF Range
    <3> QED BY <3>1, <3>2 DEF a
  <2>2. \A r \in Range(dst) : \E i \in DOMAIN dst : dst[i] = r
    BY DEF Range
  <2> QED BY <2>1, <2>2, <1>1, Disjoint
<1>8. \A n \in DOMAIN said : Overlap(n, dst)
  BY <1>7 DEF Overlap
<1>9. TypeInv'
  <2>1. \A r \in Regs(kernel) : Formed(values'[r])
    BY <1>1, <1>3, <1>7 DEF TypeInv
  <2>2. \A n \in DOMAIN labels' : Range(n) \subseteq Regs(kernel)
    BY <1>1, <1>5, <1>7 DEF TypeInv
  <2>3. DOMAIN packed' \subseteq Singles' \union Pairs'
    BY <1>1, <1>2, <1>6 DEF TypeInv
  <2>4. Regs(kernel') = Regs(kernel)
    BY <1>1
  <2> QED BY <1>1, <2>1, <2>2, <2>3, <2>4, <1>3 DEF TypeInv
<1>10. dst \in Operands /\ Low(dst) \in Operands /\ Singles \union Pairs \subseteq Operands
  BY <1>1, SinglesShape DEF Operands
(* What is not stale is followed, if it is written, or as it was.          *)
<1>11. ASSUME NEW n, n \notin stale'
       PROVE  /\ n \in Operands /\ Overlap(n, dst) => follows
              /\ n # dst /\ n \in (DOMAIN labels' \ DOMAIN said) \union DOMAIN packed' => ~ Overlap(n, dst)
              /\ ~ Overlap(n, dst) => n \notin stale
  BY <1>11 DEF Write
<1>12. Told'
  <2>1. ASSUME NEW n \in DOMAIN labels' \ stale' PROVE Evident(kernel, labels'[n], Content(n)')
    <3>1. CASE n \in DOMAIN said
      <4>1. Content(n)' = IF n = dst THEN content ELSE <<content[1]>>
        BY <3>1, <1>4
      <4>2. follows
        BY <3>1, <1>8, <1>10, <1>11
      <4> QED BY <4>1, <4>2, <3>1, <1>5 DEF TrueOf
    <3>2. CASE n \notin DOMAIN said
      <4>1. n \in DOMAIN labels /\ labels'[n] = labels[n] /\ n # dst
        BY <3>2, <1>5
      <4>2. ~ Overlap(n, dst) /\ n \notin stale
        BY <4>1, <3>2, <1>11
      <4>3. Content(n)' = Content(n)
        BY <4>1, <4>2, <1>1, <1>4 DEF TypeInv
      <4> QED BY <4>1, <4>2, <4>3, <1>1 DEF Told
    <3> QED BY <3>1, <3>2
  <2> QED BY <2>1, <1>1 DEF Told
<1>13. ASSUME NEW n \in Singles \union Pairs, ~ Overlap(n, dst)
       PROVE  Content(n)' = Content(n) /\ values'[n[1]] = values[n[1]]
  <2>1. Range(n) \subseteq Regs(kernel) /\ n[1] \in Range(n)
    BY <1>1, Disjoint
  <2> QED BY <2>1, <1>3, <1>4, <1>13 DEF Overlap
<1>14. Traced'
  <2>1. ASSUME NEW n \in DOMAIN packed' \ stale' PROVE FromThere(n)'
    <3>1. CASE n = dst
      <4>1. dst \in DOMAIN origin /\ packed'[n] = origin[dst]
        BY <3>1, <1>6
      <4>2. n \in DOMAIN labels' => dst \in DOMAIN said /\ labels'[n] = said[dst]
        BY <3>1, <1>5
      <4>3. Content(n)' = content /\ values'[n[1]] = content[1]
        BY <3>1, <1>3, <1>4, <1>7
      <4>4. LoadedFrom(dst, content, said, origin)
        BY <3>1, <1>7, <1>10, <1>11 DEF Overlap
      <4> QED BY <4>1, <4>2, <4>3, <4>4, <3>1, <1>1, <1>2 DEF FromThere, LoadedFrom
    <3>2. CASE n # dst
      <4>1. n \in DOMAIN packed \ stale /\ packed'[n] = packed[n] /\ ~ Overlap(n, dst)
        BY <3>2, <1>6, <1>11
      <4>2. n \in DOMAIN labels' => n \in DOMAIN labels /\ labels'[n] = labels[n]
        BY <4>1, <1>5, <1>8
      <4>3. Content(n)' = Content(n) /\ values'[n[1]] = values[n[1]]
        BY <4>1, <1>1, <1>13 DEF TypeInv
      <4>4. FromThere(n)
        BY <4>1, <1>1 DEF Traced
      <4> QED BY <4>1, <4>2, <4>3, <4>4, <1>1, <1>2 DEF FromThere
    <3> QED BY <3>1, <3>2
  <2> QED BY <2>1 DEF Traced
<1>15. ASSUME kernel.kd PROVE Pointed'
  <2>1. ASSUME NEW p \in Pairs \ stale', PointsTo(Content(p)')
        PROVE  p \in DOMAIN labels' /\ labels'[p] = <<"&", values'[p[1]][2]>>
    <3>0. /\ Range(p) = {p[1], p[2]} /\ p[1] \in Regs(kernel) /\ p[2] \in Regs(kernel)
          /\ DOMAIN p = {1, 2}
      BY <1>1, PairsShape, Disjoint
    <3>1. CASE Overlap(p, dst)
      <4>1. AddressSaid(dst, content, said)
        BY <2>1, <3>1, <1>10, <1>11, <1>15
      <4>2. PICK j \in {1, 2}, i \in DOMAIN dst : p[j] = dst[i] /\ values'[p[j]] = content[i]
        BY <3>0, <3>1, <1>3, <1>7 DEF Overlap
      <4>3. values'[p[j]][1] = "half" /\ values'[p[j]][3] = j /\ values'[p[j]][2] = values'[p[1]][2]
        <5>1. Content(p)' = [x \in {1, 2} |-> values'[p[x]]]
          BY <3>0 DEF Content
        <5>2. Content(p)' = Address(Content(p)'[1][2])
          BY <2>1 DEF PointsTo
        <5>3. PICK s : Content(p)' = << <<"half", s, 1>>, <<"half", s, 2>> >>
          BY <5>2 DEF Address
        <5>4. values'[p[1]] = <<"half", s, 1>> /\ values'[p[2]] = <<"half", s, 2>>
          BY <5>1, <5>3
        <5> QED BY <5>4
      <4>4. /\ dst \in Pairs /\ i = j
            /\ dst \in DOMAIN said /\ said[dst] = <<"&", content[i][2]>>
        BY <4>1, <4>2, <4>3 DEF AddressSaid
      <4>5. p = dst
        BY <4>2, <4>4, <1>1, PairsTold
      <4> QED BY <4>2, <4>3, <4>4, <4>5, <1>5
    <3>2. CASE ~ Overlap(p, dst)
      <4>1. p \notin stale /\ Content(p)' = Content(p) /\ values'[p[1]] = values[p[1]]
        BY <2>1, <3>2, <1>11, <1>13
      <4>2. p \in DOMAIN labels /\ labels[p] = <<"&", values[p[1]][2]>>
        BY <4>1, <2>1, <1>1, <1>15 DEF Pointed
      <4>3. p # dst
        BY <3>2, <1>7 DEF Overlap
      <4>4. p # Low(dst)
        <5>1. Low(dst) = <<dst[1]>> /\ Len(Low(dst)) = 1
          BY DEF Low
        <5>2. Len(p) = 2
          BY <1>1, Disjoint
        <5> QED BY <5>1, <5>2
      <4> QED BY <4>1, <4>2, <4>3, <4>4, <1>5
    <3> QED BY <3>1, <3>2
  <2> QED BY <2>1, <1>1, <1>2 DEF Pointed
<1>16. ASSUME kernel.kd PROVE Remembered'
  <2>1. ASSUME NEW n \in Singles \ stale', FromLoad(values'[n[1]])
        PROVE  /\ n \in DOMAIN packed'
               /\ HasLabel(kernel, values'[n[1]][2], values'[n[1]][3]) =>
                     /\ n \in DOMAIN labels'
                     /\ labels'[n] = LabelAt(kernel, values'[n[1]][2], values'[n[1]][3])
    <3>0. n = <<n[1]>> /\ Range(n) = {n[1]} /\ n[1] \in Regs(kernel)
      BY <1>1, SinglesShape
    <3>1. CASE n[1] \in Range(dst)
      <4>1. PICK i \in DOMAIN dst : n[1] = dst[i] /\ values'[n[1]] = content[i]
        BY <3>1, <1>3, <1>7
      <4>2. FieldSaid(dst, content, said, origin)
        BY <3>0, <3>1, <1>10, <1>11, <1>16 DEF Overlap
      <4>3. /\ dst \in Singles /\ dst \in DOMAIN origin
            /\ HasLabel(kernel, content[i][2], content[i][3]) =>
                 dst \in DOMAIN said /\ said[dst] = LabelAt(kernel, content[i][2], content[i][3])
        BY <4>1, <4>2, <2>1 DEF FieldSaid
      <4>4. n = dst
        <5>1. dst = <<dst[1]>> /\ DOMAIN dst = {1}
          BY <4>3, <1>1, SinglesShape, Disjoint
        <5> QED BY <5>1, <4>1, <3>0
      <4> QED BY <4>1, <4>3, <4>4, <1>5, <1>6
    <3>2. CASE n[1] \notin Range(dst)
      <4>1. ~ Overlap(n, dst) /\ values'[n[1]] = values[n[1]] /\ n \notin stale
        BY <3>0, <3>2, <1>3, <1>11 DEF Overlap
      <4>2. n \notin {dst, Low(dst)}
        <5>1. n # dst
          BY <3>2, <1>7
        <5>2. n # Low(dst)
          BY <3>0, <3>2, <1>7
        <5> QED BY <5>1, <5>2
      <4>3. /\ n \in DOMAIN packed
            /\ HasLabel(kernel, values'[n[1]][2], values'[n[1]][3]) =>
                  n \in DOMAIN labels /\ labels[n] = LabelAt(kernel, values'[n[1]][2], values'[n[1]][3])
        BY <4>1, <2>1, <1>1, <1>16 DEF Remembered
      <4> QED BY <4>2, <4>3, <1>5, <1>6
    <3> QED BY <3>1, <3>2
  <2> QED BY <2>1, <1>1, <1>2 DEF Remembered
<1> QED BY <1>1, <1>9, <1>12, <1>14, <1>15, <1>16 DEF IInv

-----------------------------------------------------------------------------
(***************************************************************************)
(* The transfers.                                                          *)
(***************************************************************************)
(* What is said of an operand, if only its name, has evidence.             *)
LEMMA ValEvident == ASSUME Told, NEW n, n \notin stale PROVE Evident(kernel, Val(n), Content(n))
BY RawEvident DEF Told, Val

LEMMA LowContent ==
    ASSUME kernel \in Kernels, NEW n \in Singles \union Pairs
    PROVE  Content(Low(n)) = Low(Content(n))
<1>1. DOMAIN Low(n) = {1} /\ Low(n)[1] = n[1]
  BY DEF Low
<1>2. Content(Low(n)) = <<values[n[1]]>>
  BY <1>1 DEF Content
<1>3. Content(n)[1] = values[n[1]]
  BY Disjoint DEF Content
<1> QED BY <1>2, <1>3 DEF Low

(* What Keep says: of dst, what there is to say.                           *)
LEMMA KeepShape ==
    ASSUME NEW dst, NEW xs, NEW said, said = Keep(dst, xs)
    PROVE  /\ DOMAIN said \subseteq {dst}
           /\ dst \in DOMAIN said => said[dst] \in xs
           /\ xs # {} => dst \in DOMAIN said
<1>1. DOMAIN said = {dst : x \in xs}
  BY DEF Keep
<1>2. dst \in DOMAIN said => said[dst] = CHOOSE x \in xs : TRUE
  BY DEF Keep
<1>3. dst \in DOMAIN said => \E x \in xs : TRUE
  BY <1>1
<1> QED BY <1>1, <1>2, <1>3

LEMMA KeepOne ==
    ASSUME NEW dst, NEW x, NEW said, said = Keep(dst, {x})
    PROVE  DOMAIN said = {dst} /\ said[dst] = x
BY KeepShape

(* A field that shares its dword has a name if the kernel has a descriptor.*)
LEMMA HalfNamed ==
    ASSUME NEW k, k.kd, NEW seg, NEW off, HalfWord(k, seg, off)
    PROVE  HasLabel(k, seg, off)
<1>1. CASE seg = "dispatch"
  BY <1>1 DEF HalfWord, HasLabel, NamesIn, PacketField
<1>2. CASE seg # "dispatch"
  <2>1. seg = "kernarg" /\ \E a \in OwnArgs(k) : a.offset = off
    BY <1>2 DEF HalfWord
  <2>2. PICK a \in OwnArgs(k) : a.offset = off
    BY <2>1
  <2>3. PICK e \in Range(Note) : e.symbol = k.symbol /\ a \in Range(e.args)
    BY <2>2 DEF OwnArgs
  <2>4. PICK n \in DOMAIN Note : Note[n] = e
    BY <2>3 DEF Range
  <2> DEFINE mine == {i \in DOMAIN Note : k.kd /\ Note[i].symbol = k.symbol}
  <2>5. mine = {n}
    BY <2>3, <2>4, NoteAssumption
  <2>6. ArgsOf(k) = e.args
    <3>1. mine # {} /\ ArgsOf(k) = Note[CHOOSE i \in mine : \A j \in mine : i <= j].args
      BY <2>5 DEF ArgsOf
    <3>2. \E m \in mine : \A j \in mine : m <= j
      BY <2>5, NoteIndexed
    <3>3. (CHOOSE i \in mine : \A j \in mine : i <= j) = n
      BY <2>5, <3>2
    <3> QED BY <3>1, <3>3, <2>4
  <2>7. off \in DOMAIN KernargNames(ArgsOf(k))
    BY <2>2, <2>3, <2>6 DEF KernargNames
  <2> QED BY <2>1, <2>7 DEF HasLabel, NamesIn
<1> QED BY <1>1, <1>2

(* A name two bytes into a dword is of a field that shares it.             *)
LEMMA NamedHalf ==
    ASSUME NEW k, NEW seg \in Segments, NEW off \in Nat, off % 4 = 0, HasLabel(k, seg, off + 2)
    PROVE  HalfWord(k, seg, off + 2)
<1>1. CASE seg = "dispatch"
  <2>1. off + 2 \in {4, 6, 8, 12, 16, 20}
    BY <1>1 DEF HasLabel, NamesIn, PacketField
  <2>2. off + 2 = 6
    <3>1. CASE off + 2 = 4
      BY <3>1
    <3>2. CASE off + 2 = 8
      BY <3>2
    <3>3. CASE off + 2 = 12
      BY <3>3
    <3>4. CASE off + 2 = 16
      BY <3>4
    <3>5. CASE off + 2 = 20
      BY <3>5
    <3> QED BY <2>1, <3>1, <3>2, <3>3, <3>4, <3>5
  <2> QED BY <1>1, <2>2 DEF HalfWord
<1>2. CASE seg = "kernarg"
  <2> DEFINE mine == {i \in DOMAIN Note : k.kd /\ Note[i].symbol = k.symbol}
  <2>1. PICK a \in Range(ArgsOf(k)) : a.offset = off + 2
    BY <1>2 DEF HasLabel, NamesIn, KernargNames
  <2>2. mine # {}
    <3>1. CASE mine = {}
      <4>1. ArgsOf(k) = <<>>
        BY <3>1 DEF ArgsOf
      <4> QED BY <2>1, <4>1 DEF Range
    <3> QED BY <3>1
  <2>3. PICK e \in mine : ArgsOf(k) = Note[e].args
    <3>1. \E e \in mine : \A j \in mine : e <= j
      <4>1. mine \subseteq Nat
        BY NoteIndexed
      <4> QED BY <4>1, <2>2, LeastNumber
    <3> QED BY <3>1, <2>2 DEF ArgsOf
  <2>4. a \in OwnArgs(k)
    <3>1. Note[e] \in {x \in Range(Note) : x.symbol = k.symbol}
      BY DEF Range
    <3> QED BY <3>1, <2>1, <2>3 DEF OwnArgs
  <2>5. a.size = 2
    <3>1. PICK p \in DOMAIN Note[e].args : a = Note[e].args[p]
      BY <2>1, <2>3 DEF Range
    <3>2. a.size = 2 \/ a.offset % 4 = 0
      BY <3>1, NoteIndexed DEF WellNoted
    <3>3. (off + 2) % 4 # 0
      OBVIOUS
    <3> QED BY <3>2, <3>3, <2>1
  <2> QED BY <1>2, <2>1, <2>4, <2>5 DEF HalfWord
<1> QED BY <1>1, <1>2 DEF Segments

(* What the pass remembers of a register that it knows.                    *)
LEMMA SourceContent ==
    ASSUME TypeInv, NEW n \in Singles \union Pairs
    PROVE  /\ Content(n) = [i \in DOMAIN n |-> Content(n)[i]]
           /\ DOMAIN Content(n) = DOMAIN n
           /\ \A i \in DOMAIN n : Content(n)[i] = values[n[i]] /\ Formed(Content(n)[i])
           /\ Content(n)[1] = values[n[1]] /\ Formed(values[n[1]])
           /\ n \in Singles => Content(n) = <<values[n[1]]>> /\ Len(Content(n)) = 1
           /\ n \in Pairs => Content(n) = <<values[n[1]], values[n[2]]>> /\ Len(Content(n)) = 2
<1>1. Range(n) \subseteq Regs(kernel) /\ 1 \in DOMAIN n /\ \A i \in DOMAIN n : n[i] \in Range(n)
  BY Disjoint DEF TypeInv
<1>2. \A i \in DOMAIN n : Content(n)[i] = values[n[i]] /\ Formed(values[n[i]])
  BY <1>1 DEF Content, TypeInv
<1>3. Content(n) = [i \in DOMAIN n |-> values[n[i]]]
  BY DEF Content
<1>4. n \in Singles => Content(n) = <<values[n[1]]>>
  BY <1>3, Disjoint DEF TypeInv
<1>5. n \in Pairs => Content(n) = <<values[n[1]], values[n[2]]>>
  BY <1>3, Disjoint DEF TypeInv
<1>6. Len(<<values[n[1]]>>) = 1 /\ Len(<<values[n[1]], values[n[2]]>>) = 2
  OBVIOUS
<1> QED BY <1>1, <1>2, <1>3, <1>4, <1>5, <1>6

(* What is known where an instruction stands.                              *)
LEMMA Known ==
    ASSUME IInv
    PROVE  TypeInv /\ kernel \in Kernels /\ Told /\ Traced /\ (kernel.kd => Pointed /\ Remembered)
BY DEF IInv, TypeInv

(* A result that is no half of an address and no loaded field.             *)
LEMMA PlainSaid ==
    ASSUME NEW dst, NEW content, NEW said,
           \A i \in DOMAIN dst : content[i][1] \notin {"half", "dword", "lane"}
    PROVE  /\ \A i \in DOMAIN dst : Formed(content[i])
           /\ AddressSaid(dst, content, said) /\ FieldSaid(dst, content, said, EmptyLabels)
           /\ LoadedFrom(dst, content, said, EmptyLabels) /\ DOMAIN EmptyLabels = {}
BY DEF Formed, AddressSaid, FieldSaid, LoadedFrom, FromLoad, EmptyLabels

LEMMA OtherKeeps == ASSUME IInv, NEW dst \in Singles, Other(dst) PROVE IInv'
<1> DEFINE content == [i \in DOMAIN dst |-> <<"other">>]
<1>1. Write(dst, content, EmptyLabels, {dst}, EmptyLabels, TRUE)
  BY DEF Other
<1>2. content = [i \in DOMAIN dst |-> content[i]] /\ \A i \in DOMAIN dst : content[i][1] = "other"
  OBVIOUS
<1> HIDE DEF content
<1>3. /\ \A i \in DOMAIN dst : Formed(content[i])
      /\ AddressSaid(dst, content, EmptyLabels) /\ FieldSaid(dst, content, EmptyLabels, EmptyLabels)
      /\ LoadedFrom(dst, content, EmptyLabels, EmptyLabels) /\ DOMAIN EmptyLabels = {}
  BY <1>2, PlainSaid
<1>4. TrueOf(dst, content, EmptyLabels)
  BY <1>3 DEF TrueOf
<1> QED BY <1>1, <1>2, <1>3, <1>4, WriteKeeps

LEMMA ReadFirstLaneKeeps ==
    ASSUME IInv, NEW dst \in Singles, NEW src \in Singles, ReadFirstLane(dst, src)
    PROVE  IInv'
<1>0. TypeInv /\ kernel \in Kernels /\ Told
  BY Known
<1>1. PICK c : c = Content(src)
  OBVIOUS
<1>2. PICK l : l = Val(src)
  OBVIOUS
<1>3. PICK said : said = Keep(dst, {<<"first", l>>})
  OBVIOUS
<1> DEFINE content == << <<"first", c>> >>
<1>f. PICK follows \in BOOLEAN : follows <=> Sound({src})
  OBVIOUS
<1>4. Write(dst, content, said, {dst}, EmptyLabels, follows)
  <2>1. Write(dst, content, said, {dst}, EmptyLabels, Sound({src}))
    BY <1>1, <1>2, <1>3 DEF ReadFirstLane
  <2> HIDE DEF content
  <2> QED BY <2>1, <1>f DEF Write
<1>5. DOMAIN dst = {1}
  BY <1>0, Disjoint
<1>6. content = [i \in DOMAIN dst |-> content[i]] /\ \A i \in DOMAIN dst : content[i][1] = "first"
  BY <1>5
<1>7. ASSUME follows PROVE Evident(kernel, <<"first", l>>, content)
  <2>1. src \notin stale
    BY <1>7, <1>f DEF Sound
  <2> QED BY <2>1, <1>0, <1>1, <1>2, ValEvident, FirstEvident
<1> HIDE DEF content
<1>8. /\ \A i \in DOMAIN dst : Formed(content[i])
      /\ AddressSaid(dst, content, said) /\ FieldSaid(dst, content, said, EmptyLabels)
      /\ LoadedFrom(dst, content, said, EmptyLabels) /\ DOMAIN EmptyLabels = {}
  BY <1>6, PlainSaid
<1>9. DOMAIN said = {dst} /\ said[dst] = <<"first", l>>
  BY <1>3, KeepOne
<1>10. ASSUME follows PROVE TrueOf(dst, content, said)
  BY <1>7, <1>9, <1>10 DEF TrueOf
<1> QED BY <1>4, <1>6, <1>8, <1>9, <1>10, WriteKeeps

(* What a vector load says of each operand has evidence.                   *)
LEMMA VLoadKeeps ==
    ASSUME IInv, NEW dst \in Singles, NEW args,
           \/ \E base \in SPairs, off \in VSingles : args = <<base, off>>
           \/ \E n \in VPairs : args = <<n>>,
           VLoad(dst, args)
    PROVE  IInv'
<1>0. TypeInv /\ kernel \in Kernels /\ Told
  BY Known
<1> DEFINE read(n) == IF Scalar(n) THEN n ELSE Low(n)
<1>1. PICK cs : cs = [i \in DOMAIN args |-> Content(args[i])]
  OBVIOUS
<1>2. PICK ls : ls = [i \in DOMAIN args |-> Val(read(args[i]))]
  OBVIOUS
<1>f. PICK follows \in BOOLEAN : follows <=> Sound({read(args[i]) : i \in DOMAIN args})
  OBVIOUS
<1>3. PICK said : said = Keep(dst, {<<"mem", "v", ls>>})
  OBVIOUS
<1> DEFINE content == << <<"mem", "v", cs>> >>
           l == <<"mem", "v", ls>>
<1>4. Write(dst, content, said, {dst}, EmptyLabels, follows)
  <2>1. Write(dst, content, said, {dst}, EmptyLabels, Sound({read(args[i]) : i \in DOMAIN args}))
    BY <1>1, <1>2, <1>3 DEF VLoad
  <2>2. PICK reads : reads = {read(args[i]) : i \in DOMAIN args}
    OBVIOUS
  <2> HIDE DEF content, read
  <2> QED BY <2>1, <2>2, <1>f DEF Write
<1>5. DOMAIN dst = {1}
  BY <1>0, Disjoint
<1>6. content = [i \in DOMAIN dst |-> content[i]] /\ \A i \in DOMAIN dst : content[i][1] = "mem"
  BY <1>5
<1>a. l[2] = "v" /\ l[3] = ls /\ l[1] = "mem"
  OBVIOUS
<1>b. content[1] = <<"mem", "v", cs>>
  OBVIOUS
<1> HIDE DEF content, l
<1>7. ASSUME follows PROVE Evident(kernel, l, content)
  <2>0. \A i \in DOMAIN args : read(args[i]) \notin stale
    BY <1>7, <1>f DEF Sound
  <2>1. CASE \E base \in SPairs, off \in VSingles : args = <<base, off>>
    <3>1. PICK base \in SPairs, off \in VSingles : args = <<base, off>>
      BY <2>1
    <3>2. base[1][1] = "s" /\ off[1][1] # "s" /\ off \in Singles /\ Low(off) = off
      BY <1>0, SinglesShape DEF SPairs, VSingles, SSingles, Scalar
    <3>3. cs = <<Content(base), Content(off)>> /\ ls = <<Val(base), Val(off)>>
      BY <3>1, <3>2, <1>1, <1>2 DEF Scalar
    <3>4. Len(cs) = Len(ls) /\ DOMAIN ls = {1, 2} /\ Len(ls) = 2
      BY <3>3
    <3>5. ~ ByLow(l, content)
      BY <3>4, <1>a DEF ByLow
    <3>6. \A i \in DOMAIN ls : Evident(kernel, ls[i], cs[i])
      <4>1. base \notin stale /\ off \notin stale
        <5>1. args[1] = base /\ args[2] = off /\ 1 \in DOMAIN args /\ 2 \in DOMAIN args
          BY <3>1
        <5> QED BY <5>1, <3>2, <2>0 DEF Scalar
      <4> QED BY <4>1, <3>3, <3>4, <1>0, ValEvident
    <3> QED BY <3>4, <3>5, <3>6, <1>b, TermEvident DEF l
  <2>2. CASE \E n \in VPairs : args = <<n>>
    <3>1. PICK n \in VPairs : args = <<n>>
      BY <2>2
    <3>2. n[1][1] # "s" /\ n \in Pairs
      BY DEF VPairs, SPairs, Scalar
    <3>3. cs = <<Content(n)>> /\ ls = <<Val(Low(n))>>
      BY <3>1, <3>2, <1>1, <1>2 DEF Scalar
    <3>4. Len(cs) = Len(ls) /\ DOMAIN ls = {1} /\ Len(ls) = 1
      BY <3>3
    <3>5. ByLow(l, content)
      BY <3>4, <1>a DEF ByLow
    <3>6. \A i \in DOMAIN ls : Evident(kernel, ls[i], Low(cs[i]))
      <4>1. Content(Low(n)) = Low(Content(n))
        BY <1>0, <3>2, LowContent
      <4>2. Evident(kernel, Val(Low(n)), Low(Content(n)))
        <5>1. args[1] = n /\ 1 \in DOMAIN args
          BY <3>1
        <5>2. Low(n) \notin stale
          BY <5>1, <3>2, <2>0 DEF Scalar
        <5> QED BY <5>2, <4>1, <1>0, ValEvident
      <4> QED BY <4>2, <3>3, <3>4
    <3> QED BY <3>4, <3>5, <3>6, <1>b, TermEvident DEF l
  <2> QED BY <2>1, <2>2
<1>8. /\ \A i \in DOMAIN dst : Formed(content[i])
      /\ AddressSaid(dst, content, said) /\ FieldSaid(dst, content, said, EmptyLabels)
      /\ LoadedFrom(dst, content, said, EmptyLabels) /\ DOMAIN EmptyLabels = {}
  BY <1>6, PlainSaid
<1>9. DOMAIN said = {dst} /\ said[dst] = l
  BY <1>3, KeepOne DEF l
<1>10. ASSUME follows PROVE TrueOf(dst, content, said)
  BY <1>7, <1>9, <1>10 DEF TrueOf
<1> QED BY <1>4, <1>6, <1>8, <1>9, <1>10, WriteKeeps

(* An operation says the same of the pair it writes and of its low half.   *)
LEMMA ArithKeeps ==
    ASSUME IInv, NEW dst \in Singles \union Pairs, NEW op, NEW srcs,
           srcs = [i \in DOMAIN srcs |-> srcs[i]], Len(srcs) \in Nat, DOMAIN srcs = 1 .. Len(srcs),
           \A i \in DOMAIN srcs : srcs[i] \in Singles \union Pairs,
           Arith(dst, op, srcs)
    PROVE  IInv'
<1>0. TypeInv /\ kernel \in Kernels /\ Told
  BY Known
<1> DEFINE term(n) == <<"op", op, [i \in DOMAIN srcs |->
                          IF n = Low(dst) THEN Val(Low(srcs[i])) ELSE Val(srcs[i])]>>
           named   == IF \E i \in DOMAIN srcs : {srcs[i], Low(srcs[i])} \intersect DOMAIN labels # {}
                      THEN {dst, Low(dst)} ELSE {}
<1>1. PICK cs : cs = [i \in DOMAIN srcs |-> Content(srcs[i])]
  OBVIOUS
<1>2. PICK ls : ls = [i \in DOMAIN srcs |-> Val(srcs[i])]
  OBVIOUS
<1>3. PICK ms : ms = [i \in DOMAIN srcs |-> Val(Low(srcs[i]))]
  OBVIOUS
<1>4. PICK said : said = [n \in named |-> term(n)]
  OBVIOUS
<1> DEFINE content == [i \in DOMAIN dst |-> <<IF i = 1 THEN "op" ELSE "high", op, cs>>]
<1>f. PICK follows \in BOOLEAN : follows <=> Sound(UNION {{n, Low(n)} : n \in Range(srcs)})
  OBVIOUS
<1>5. Write(dst, content, said, {dst, Low(dst)}, EmptyLabels, follows)
  <2>1. Write(dst, content, said, {dst, Low(dst)}, EmptyLabels, Sound(UNION {{n, Low(n)} : n \in Range(srcs)}))
    BY <1>1, <1>4 DEF Arith
  <2> HIDE DEF content
  <2> QED BY <2>1, <1>f DEF Write
<1>6. /\ content = [i \in DOMAIN dst |-> content[i]]
      /\ \A i \in DOMAIN dst : content[i][1] \in {"op", "high"}
  OBVIOUS
<1>7. content[1] = <<"op", op, cs>>
  BY <1>0, Disjoint
<1>8. Len(content) = 1 <=> dst \in Singles
  <2>1. dst \in Singles => content = << <<"op", op, cs>> >>
    BY <1>0, <1>7, Disjoint
  <2>2. dst \in Pairs => content = << <<"op", op, cs>>, <<"high", op, cs>> >>
    BY <1>0, <1>7, Disjoint
  <2>3. Len(<< <<"op", op, cs>> >>) = 1 /\ Len(<< <<"op", op, cs>>, <<"high", op, cs>> >>) = 2
    OBVIOUS
  <2> QED BY <2>1, <2>2, <2>3, <1>0, Disjoint
<1> HIDE DEF content
<1>9. /\ DOMAIN cs = 1 .. Len(srcs) /\ DOMAIN ls = 1 .. Len(srcs) /\ DOMAIN ms = 1 .. Len(srcs)
      /\ Len(cs) = Len(srcs) /\ Len(ls) = Len(srcs) /\ Len(ms) = Len(srcs)
  BY <1>1, <1>2, <1>3
<1>10. ASSUME follows
       PROVE  \A i \in DOMAIN srcs : /\ Evident(kernel, ls[i], cs[i])
                                     /\ Evident(kernel, ms[i], Low(cs[i]))
  <2>1. ASSUME NEW i \in DOMAIN srcs
        PROVE  Evident(kernel, ls[i], cs[i]) /\ Evident(kernel, ms[i], Low(cs[i]))
    <3>1. Content(Low(srcs[i])) = Low(Content(srcs[i]))
      BY <1>0, LowContent
    <3>2. /\ Evident(kernel, Val(srcs[i]), Content(srcs[i]))
          /\ Evident(kernel, Val(Low(srcs[i])), Content(Low(srcs[i])))
      <4>1. srcs[i] \in Range(srcs)
        BY DEF Range
      <4>2. srcs[i] \notin stale /\ Low(srcs[i]) \notin stale
        BY <4>1, <1>10, <1>f DEF Sound
      <4> QED BY <4>2, <1>0, ValEvident
    <3> QED BY <3>1, <3>2, <1>1, <1>2, <1>3
  <2> QED BY <2>1
<1>11. ASSUME follows, NEW d, d[1] = <<"op", op, cs>>, Len(d) = 1 PROVE Evident(kernel, <<"op", op, ms>>, d)
  <2> DEFINE l == <<"op", op, ms>>
  <2>1. ByLow(l, d)
    BY <1>11 DEF ByLow
  <2> HIDE DEF l
  <2> QED BY <2>1, <1>9, <1>10, <1>11, TermEvident DEF l
<1>12. ASSUME follows, NEW d, d[1] = <<"op", op, cs>>, Len(d) # 1 PROVE Evident(kernel, <<"op", op, ls>>, d)
  <2> DEFINE l == <<"op", op, ls>>
  <2>1. ~ ByLow(l, d)
    BY <1>12 DEF ByLow
  <2> HIDE DEF l
  <2> QED BY <2>1, <1>9, <1>10, <1>12, TermEvident DEF l
<1>13. ASSUME follows PROVE TrueOf(dst, content, said)
  <2>1. ASSUME NEW n \in DOMAIN said
        PROVE  Evident(kernel, said[n], IF n = dst THEN content ELSE <<content[1]>>)
    <3>1. n \in {dst, Low(dst)} /\ said[n] = <<"op", op, IF n = Low(dst) THEN ms ELSE ls>>
      BY <1>2, <1>3, <1>4
    <3>2. CASE dst \in Singles
      <4>1. n = Low(dst) /\ n = dst
        BY <3>1, <3>2, <1>0, SinglesShape
      <4> QED BY <4>1, <3>1, <3>2, <1>7, <1>8, <1>11, <1>13
    <3>3. CASE dst \notin Singles /\ n = dst
      <4>1. dst # Low(dst)
        BY <3>3, <1>0, Disjoint
      <4> QED BY <4>1, <3>1, <3>3, <1>7, <1>8, <1>12, <1>13
    <3>4. CASE dst \notin Singles /\ n # dst
      <4>1. n = Low(dst)
        BY <3>1, <3>4
      <4>2. Len(<<content[1]>>) = 1 /\ <<content[1]>>[1] = content[1]
        OBVIOUS
      <4>3. Evident(kernel, <<"op", op, ms>>, <<content[1]>>)
        BY <4>2, <1>7, <1>11, <1>13
      <4> QED BY <4>1, <4>3, <3>1, <3>4
    <3> QED BY <3>2, <3>3, <3>4
  <2> QED BY <2>1 DEF TrueOf
<1>14. /\ \A i \in DOMAIN dst : Formed(content[i])
       /\ AddressSaid(dst, content, said) /\ FieldSaid(dst, content, said, EmptyLabels)
       /\ LoadedFrom(dst, content, said, EmptyLabels) /\ DOMAIN EmptyLabels = {}
  BY <1>6, PlainSaid
<1>15. DOMAIN said \subseteq {dst, Low(dst)}
  BY <1>4
<1> QED BY <1>5, <1>6, <1>13, <1>14, <1>15, WriteKeeps

LEMMA SourceOf ==
    ASSUME NEW src
    PROVE  /\ src \in DOMAIN labels => LabelOf(src) = {labels[src]}
           /\ src \notin DOMAIN labels => LabelOf(src) = {}
           /\ src \in DOMAIN packed => OriginOf(src) = {packed[src]}
           /\ src \notin DOMAIN packed => OriginOf(src) = {}
BY DEF LabelOf, OriginOf

LEMMA MovKeeps ==
    ASSUME IInv, NEW dst, NEW src,
           (dst \in Singles /\ src \in Singles) \/ (dst \in Pairs /\ src \in Pairs),
           Mov(dst, src)
    PROVE  IInv'
<1>0. TypeInv /\ kernel \in Kernels /\ Told /\ Traced /\ (kernel.kd => Pointed /\ Remembered)
  BY Known
<1>1. PICK content : content = Content(src)
  OBVIOUS
<1>2. PICK said : said = Keep(dst, LabelOf(src))
  OBVIOUS
<1>3. PICK origin : origin = Keep(dst, OriginOf(src))
  OBVIOUS
<1>4. PICK follows \in BOOLEAN : follows <=> (Sound({src}) /\ Entire(content))
  OBVIOUS
<1>5. Write(dst, content, said, {dst}, origin, follows)
  BY <1>1, <1>2, <1>3, <1>4 DEF Mov, Write
<1>6. /\ DOMAIN dst = DOMAIN src /\ dst \in Singles \union Pairs /\ src \in Singles \union Pairs
      /\ dst \in Singles <=> src \in Singles
  BY <1>0, Disjoint
<1>7. /\ content = [i \in DOMAIN dst |-> content[i]] /\ \A i \in DOMAIN dst : Formed(content[i])
      /\ content[1] = values[src[1]]
      /\ Len(content) = 1 <=> dst \in Singles
  <2>1. /\ content = [i \in DOMAIN dst |-> content[i]] /\ \A i \in DOMAIN dst : Formed(content[i])
        /\ content[1] = values[src[1]]
    BY <1>0, <1>1, <1>6, SourceContent
  <2>2. (src \in Singles => Len(content) = 1) /\ (src \in Pairs => Len(content) = 2)
    BY <1>0, <1>1, SourceContent
  <2> QED BY <2>1, <2>2, <1>6
<1>8. /\ DOMAIN said \subseteq {dst}
      /\ dst \in DOMAIN said <=> src \in DOMAIN labels
      /\ dst \in DOMAIN said => said[dst] = labels[src]
  BY <1>2, KeepShape, SourceOf
<1>9. /\ DOMAIN origin \subseteq {dst}
      /\ dst \in DOMAIN origin <=> src \in DOMAIN packed
      /\ dst \in DOMAIN origin => origin[dst] = packed[src]
  BY <1>3, KeepShape, SourceOf
<1>s. follows => src \notin stale
  BY <1>4 DEF Sound
<1>10. ASSUME follows PROVE TrueOf(dst, content, said)
  BY <1>0, <1>1, <1>8, <1>10, <1>s DEF TrueOf, Told
<1>11. ASSUME follows PROVE LoadedFrom(dst, content, said, origin)
  <2>1. SUFFICES ASSUME dst \in DOMAIN origin PROVE LoadedFrom(dst, content, said, origin)
    BY DEF LoadedFrom
  <2>2. FromThere(src)
    BY <2>1, <1>0, <1>9, <1>11, <1>s DEF Traced
  <2> QED BY <2>1, <2>2, <1>1, <1>6, <1>7, <1>8, <1>9 DEF FromThere, LoadedFrom
<1>12. ASSUME follows, kernel.kd PROVE AddressSaid(dst, content, said)
  <2>1. SUFFICES ASSUME NEW i \in DOMAIN dst, content[i][1] = "half"
                 PROVE  /\ dst \in Pairs /\ content[i][3] = i
                        /\ dst \in DOMAIN said /\ said[dst] = <<"&", content[i][2]>>
    BY DEF AddressSaid
  <2>2. PointsTo(content)
    <3>1. DOMAIN content = DOMAIN dst
      BY <1>7
    <3> QED BY <3>1, <2>1, <1>4, <1>12 DEF Entire
  <2>3. content = Address(content[1][2])
    BY <2>2 DEF PointsTo
  <2>4. Len(content) = 2 /\ DOMAIN content = {1, 2} /\ content[1][2] = content[2][2]
        /\ content[1][3] = 1 /\ content[2][3] = 2
    BY <2>3 DEF Address
  <2>5. dst \in Pairs /\ src \in Pairs /\ i \in {1, 2}
    BY <2>4, <1>6, <1>7
  <2>6. src \in DOMAIN labels /\ labels[src] = <<"&", values[src[1]][2]>>
    BY <2>2, <2>5, <1>0, <1>1, <1>12, <1>s DEF Pointed
  <2> QED BY <2>4, <2>5, <2>6, <1>7, <1>8
<1>13. ASSUME follows, kernel.kd PROVE FieldSaid(dst, content, said, origin)
  <2>1. SUFFICES ASSUME NEW i \in DOMAIN dst, FromLoad(content[i])
                 PROVE  /\ dst \in Singles /\ dst \in DOMAIN origin
                        /\ HasLabel(kernel, content[i][2], content[i][3]) =>
                              /\ dst \in DOMAIN said
                              /\ said[dst] = LabelAt(kernel, content[i][2], content[i][3])
    BY DEF FieldSaid
  <2>2. DOMAIN content = DOMAIN dst
    BY <1>7
  <2>3. ~ PointsTo(content)
    <3>1. SUFFICES ASSUME PointsTo(content) PROVE FALSE
      OBVIOUS
    <3>2. content = Address(content[1][2])
      BY <3>1 DEF PointsTo
    <3>3. DOMAIN content = {1, 2} /\ content[1][1] = "half" /\ content[2][1] = "half"
      BY <3>2 DEF Address
    <3> QED BY <3>3, <2>1, <2>2 DEF FromLoad
  <2>4. Len(content) = 1
    BY <2>1, <2>2, <2>3, <1>4, <1>13 DEF Entire
  <2>5. dst \in Singles /\ src \in Singles /\ i = 1
    BY <2>4, <1>0, <1>6, <1>7, Disjoint
  <2>6. FromLoad(values[src[1]])
    BY <2>1, <2>5, <1>7
  <2> QED BY <2>5, <2>6, <1>0, <1>7, <1>8, <1>9, <1>13, <1>s DEF Remembered
<1> QED BY <1>5, <1>6, <1>7, <1>8, <1>9, <1>10, <1>11, <1>12, <1>13, WriteKeeps

LEMMA AndKeeps ==
    ASSUME IInv, NEW dst \in Singles, NEW src \in Singles, NEW mask, And(dst, src, mask)
    PROVE  IInv'
<1>0. TypeInv /\ kernel \in Kernels /\ Told /\ Traced /\ (kernel.kd => Pointed /\ Remembered)
  BY Known
<1>1. PICK v : v = values[src[1]]
  OBVIOUS
<1>2. PICK c : c = Content(src)
  OBVIOUS
<1> DEFINE half == mask = "ffff" /\ FromLoad(v) /\ HalfWord(kernel, v[2], v[3])
<1>3. half => FromLoad(v) /\ HalfWord(kernel, v[2], v[3])
  OBVIOUS
<1>4. PICK said : said = Keep(dst, Masked(src, mask))
  OBVIOUS
<1>5. PICK origin : origin = Keep(dst, OriginOf(src))
  OBVIOUS
<1>6. PICK follows \in BOOLEAN : follows <=> (Sound({src}) /\ (src \in DOMAIN packed => half))
  OBVIOUS
<1>s. follows => src \notin stale
  BY <1>6 DEF Sound
<1>7. PICK w : w = IF half THEN <<"lane", v[2], v[3]>> ELSE <<"and", c>>
  OBVIOUS
<1> DEFINE content == <<w>>
<1>8. Write(dst, content, said, {dst}, origin, follows)
  <2>1. Write(dst, <<IF half THEN <<"lane", v[2], v[3]>> ELSE <<"and", Content(src)>> >>, said, {dst}, origin,
              Sound({src}) /\ (src \in DOMAIN packed => half))
    BY <1>1, <1>4, <1>5 DEF And, Write
  <2> HIDE DEF half
  <2>2. content = <<IF half THEN <<"lane", v[2], v[3]>> ELSE <<"and", Content(src)>> >>
    BY <1>2, <1>7
  <2>3. Write(dst, content, said, {dst}, origin, Sound({src}) /\ (src \in DOMAIN packed => half))
    BY <2>1, <2>2 DEF Write
  <2> HIDE DEF content
  <2> QED BY <2>3, <1>6 DEF Write
<1> HIDE DEF half
<1>9. c = <<v>> /\ Formed(v) /\ DOMAIN dst = {1}
  BY <1>0, <1>1, <1>2, SourceContent, Disjoint
<1>10. /\ content = [i \in DOMAIN dst |-> content[i]] /\ \A i \in DOMAIN dst : Formed(content[i])
       /\ content[1] = w /\ w[1] \in {"lane", "and"} /\ \A i \in DOMAIN dst : content[i] = w
  BY <1>7, <1>9 DEF Formed
<1>11. /\ DOMAIN origin \subseteq {dst}
       /\ dst \in DOMAIN origin <=> src \in DOMAIN packed
       /\ dst \in DOMAIN origin => origin[dst] = packed[src]
  BY <1>5, KeepShape, SourceOf
<1>12. ASSUME FromLoad(v) PROVE v = <<"lane", v[2], v[3]>> \/ v = <<"dword", v[2], v[3], 1>>
  BY <1>9, <1>12 DEF FromLoad, Formed
<1>13. /\ DOMAIN said \subseteq {dst}
       /\ dst \in DOMAIN said <=> src \in DOMAIN labels
       /\ dst \in DOMAIN said =>
             said[dst] = IF src \in DOMAIN packed THEN labels[src] ELSE <<"and", labels[src]>>
  <2>1. CASE src \in DOMAIN labels
    <3>1. Masked(src, mask) = {IF src \in DOMAIN packed THEN labels[src] ELSE <<"and", labels[src]>>}
      BY <2>1, SourceOf DEF Masked
    <3>2. DOMAIN said = {dst}
          /\ said[dst] = IF src \in DOMAIN packed THEN labels[src] ELSE <<"and", labels[src]>>
      BY <3>1, <1>4, KeepOne
    <3> QED BY <3>2, <2>1
  <2>2. CASE src \notin DOMAIN labels
    <3>1. Masked(src, mask) = {}
      BY <2>2, SourceOf DEF Masked
    <3> QED BY <3>1, <2>2, <1>4, KeepShape
  <2> QED BY <2>1, <2>2
<1>14. follows /\ src \in DOMAIN packed =>
          /\ packed[src].base \in Segments /\ Holds(kernel, c, packed[src].base, packed[src].off)
          /\ FromLoad(v) /\ (src \in DOMAIN labels => labels[src][1] \in {"field", "at"})
  BY <1>0, <1>1, <1>2, <1>s DEF Traced, FromThere
<1>15. ASSUME follows PROVE TrueOf(dst, content, said)
  <2>1. SUFFICES ASSUME src \in DOMAIN labels PROVE Evident(kernel, said[dst], content)
    BY <1>13 DEF TrueOf
  <2>2. Evident(kernel, labels[src], c)
    BY <2>1, <1>0, <1>2, <1>15, <1>s DEF Told
  <2>3. CASE src \in DOMAIN packed
    <3>1. half
      BY <2>3, <1>6, <1>15
    <3>2. w = <<"lane", v[2], v[3]>> /\ HalfWord(kernel, v[2], v[3])
      BY <3>1, <1>3, <1>7
    <3>3. Holds(kernel, content, v[2], v[3])
      BY <3>2, <1>10 DEF Holds
    <3>4. c[1] = <<"lane", v[2], v[3]>> \/ \E x : c[1] = <<"dword", v[2], v[3], x>>
      BY <2>3, <1>9, <1>12, <1>14, <1>15
    <3>5. Evident(kernel, labels[src], content)
      BY <2>1, <2>2, <2>3, <3>3, <3>4, <1>14, <1>15, NameMoves
    <3> QED BY <3>5, <2>1, <2>3, <1>13
  <2>4. CASE src \notin DOMAIN packed /\ half
    <3>1. w = <<"lane", v[2], v[3]>> /\ FromLoad(v)
      BY <2>4, <1>3, <1>7
    <3>2. c = << <<"lane", v[2], v[3]>> >> \/ c = << <<"dword", v[2], v[3], 1>> >>
      BY <3>1, <1>9, <1>12
    <3>3. Evident(kernel, <<"and", labels[src]>>, content)
      BY <3>1, <3>2, <2>2, LaneEvident
    <3> QED BY <3>3, <2>1, <2>4, <1>13
  <2>5. CASE src \notin DOMAIN packed /\ ~ half
    <3>1. w = <<"and", c>>
      BY <2>5, <1>7
    <3>2. Evident(kernel, <<"and", labels[src]>>, content)
      BY <3>1, <2>2, AndEvident
    <3> QED BY <3>2, <2>1, <2>5, <1>13
  <2> QED BY <2>3, <2>4, <2>5
<1>16. ASSUME follows PROVE LoadedFrom(dst, content, said, origin)
  <2>1. SUFFICES ASSUME dst \in DOMAIN origin PROVE LoadedFrom(dst, content, said, origin)
    BY DEF LoadedFrom
  <2>2. src \in DOMAIN packed /\ origin[dst] = packed[src] /\ half
    BY <2>1, <1>6, <1>11, <1>16
  <2>3. w = <<"lane", v[2], v[3]>> /\ HalfWord(kernel, v[2], v[3])
    BY <2>2, <1>3, <1>7
  <2>4. packed[src].base = v[2] /\ packed[src].off = v[3]
    <3>1. v = <<"lane", v[2], v[3]>> \/ v = <<"dword", v[2], v[3], 1>>
      BY <2>2, <1>12, <1>14, <1>16
    <3>2. Holds(kernel, <<v>>, packed[src].base, packed[src].off)
      BY <2>2, <1>9, <1>14, <1>16
    <3> QED BY <3>1, <3>2 DEF Holds
  <2>5. Holds(kernel, content, v[2], v[3])
    BY <2>3, <1>10 DEF Holds
  <2>6. FromLoad(w) /\ w[1] # "dword"
    BY <2>3 DEF FromLoad
  <2> QED BY <2>2, <2>4, <2>5, <2>6, <1>10, <1>13, <1>14, <1>16 DEF LoadedFrom
<1>17. ASSUME follows, kernel.kd PROVE AddressSaid(dst, content, said)
  BY <1>10 DEF AddressSaid
<1>18. ASSUME follows, kernel.kd PROVE FieldSaid(dst, content, said, origin)
  <2>1. SUFFICES ASSUME FromLoad(w)
                 PROVE  /\ dst \in DOMAIN origin
                        /\ HasLabel(kernel, w[2], w[3]) =>
                              dst \in DOMAIN said /\ said[dst] = LabelAt(kernel, w[2], w[3])
    BY <1>10 DEF FieldSaid
  <2>2. half
    BY <2>1, <1>7 DEF FromLoad
  <2>3. w[2] = v[2] /\ w[3] = v[3] /\ FromLoad(v)
    BY <2>2, <1>3, <1>7
  <2>4. /\ src \in DOMAIN packed
        /\ HasLabel(kernel, v[2], v[3]) =>
              src \in DOMAIN labels /\ labels[src] = LabelAt(kernel, v[2], v[3])
    BY <2>3, <1>0, <1>1, <1>18, <1>s DEF Remembered
  <2> QED BY <2>3, <2>4, <1>11, <1>13
<1> HIDE DEF content
<1> QED BY <1>8, <1>10, <1>11, <1>13, <1>15, <1>16, <1>17, <1>18, WriteKeeps

LEMMA Lshr16Keeps ==
    ASSUME IInv, NEW dst \in Singles, NEW src \in Singles, Lshr16(dst, src)
    PROVE  IInv'
<1>0. /\ TypeInv /\ kernel \in Kernels /\ kernel.kd \in BOOLEAN
      /\ Told /\ Traced /\ (kernel.kd => Pointed /\ Remembered)
  BY Known, KernelsAssumption
<1>1. PICK v : v = values[src[1]]
  OBVIOUS
<1>2. PICK h : h = HighHalf(src)
  OBVIOUS
<1>3. PICK said : said = Keep(dst, {LabelAt(kernel, o.base, o.off) : o \in h})
  OBVIOUS
<1>4. PICK origin : origin = Keep(dst, h)
  OBVIOUS
<1>5. PICK follows \in BOOLEAN : follows <=> (Sound({src}) /\ v[1] # "lane")
  OBVIOUS
<1>s. follows => src \notin stale
  BY <1>5 DEF Sound
<1>6. PICK w : w = IF v[1] = "dword" /\ FromLoad(v) /\ HalfWord(kernel, v[2], v[3] + 2)
                   THEN <<"lane", v[2], v[3] + 2>> ELSE <<"shr", Content(src)>>
  OBVIOUS
<1> DEFINE content == <<w>>
<1>7. Write(dst, content, said, {dst}, origin, follows)
  <2>1. Write(dst, content, said, {dst}, origin, Sound({src}) /\ v[1] # "lane")
    BY <1>1, <1>2, <1>3, <1>4, <1>6 DEF Lshr16
  <2> HIDE DEF content
  <2> QED BY <2>1, <1>5 DEF Write
<1>8. Content(src) = <<v>> /\ Formed(v) /\ DOMAIN dst = {1}
  BY <1>0, <1>1, SourceContent, Disjoint
<1>9. /\ content = [i \in DOMAIN dst |-> content[i]] /\ \A i \in DOMAIN dst : Formed(content[i])
      /\ content[1] = w /\ w[1] \in {"lane", "shr"} /\ \A i \in DOMAIN dst : content[i] = w
  BY <1>6, <1>8 DEF Formed
<1> HIDE DEF content
(* What a name two bytes on tells of the source.                           *)
<1>10. ASSUME follows, NEW o \in h
       PROVE  /\ h = {o} /\ src \in DOMAIN packed /\ o.off = packed[src].off + 2
              /\ o.base = packed[src].base /\ o.base \in Segments
              /\ v = <<"dword", o.base, packed[src].off, 1>>
              /\ HasLabel(kernel, o.base, o.off)
              /\ w = <<"lane", o.base, o.off>> /\ HalfWord(kernel, o.base, o.off)
  <2>1. src \in DOMAIN packed
    BY <1>2, SourceOf DEF HighHalf
  <2>2. PICK q : q = packed[src]
    OBVIOUS
  <2>3. /\ h = {[base |-> q.base, off |-> q.off + 2]} /\ HasLabel(kernel, q.base, q.off + 2)
        /\ o = [base |-> q.base, off |-> q.off + 2]
    BY <2>1, <2>2, <1>2, SourceOf DEF HighHalf
  <2>4. /\ q.base \in Segments /\ Holds(kernel, <<v>>, q.base, q.off) /\ FromLoad(v)
        /\ v[1] = "dword" => q.off \in Nat /\ q.off % 4 = 0
    BY <2>1, <2>2, <1>0, <1>1, <1>8, <1>10, <1>s DEF Traced, FromThere
  <2>5. v[1] = "dword" /\ v[4] = 1 /\ v = <<"dword", v[2], v[3], v[4]>>
    BY <2>4, <1>5, <1>8, <1>10 DEF FromLoad, Formed
  <2>6. v[2] = q.base /\ v[3] = q.off
    BY <2>4, <2>5 DEF Holds
  <2>7. HalfWord(kernel, q.base, q.off + 2)
    BY <2>3, <2>4, <2>5, NamedHalf
  <2>8. w = <<"lane", q.base, q.off + 2>>
    BY <2>4, <2>5, <2>6, <2>7, <1>6
  <2>9. o.base = q.base /\ o.off = q.off + 2 /\ h = {o}
    BY <2>3
  <2> QED BY <2>1, <2>2, <2>3, <2>4, <2>5, <2>6, <2>7, <2>8, <2>9
<1>11. /\ DOMAIN said \subseteq {dst}
       /\ \A o : h = {o} => dst \in DOMAIN said /\ said[dst] = LabelAt(kernel, o.base, o.off)
       /\ dst \in DOMAIN said => h # {}
  <2>1. DOMAIN said \subseteq {dst} /\ (dst \in DOMAIN said => h # {})
    BY <1>3, KeepShape
  <2>2. ASSUME NEW o, h = {o} PROVE dst \in DOMAIN said /\ said[dst] = LabelAt(kernel, o.base, o.off)
    <3>1. PICK xs : xs = {LabelAt(kernel, x.base, x.off) : x \in h}
      OBVIOUS
    <3>2. said = Keep(dst, xs)
      BY <3>1, <1>3
    <3>3. xs = {LabelAt(kernel, o.base, o.off)}
      BY <3>1, <2>2
    <3> QED BY <3>2, <3>3, KeepShape
  <2> QED BY <2>1, <2>2
<1>12. /\ DOMAIN origin \subseteq {dst}
       /\ \A o : h = {o} => dst \in DOMAIN origin /\ origin[dst] = o
       /\ dst \in DOMAIN origin => h # {}
  BY <1>4, KeepShape
<1>13. ASSUME follows PROVE TrueOf(dst, content, said)
  <2>1. SUFFICES ASSUME NEW o \in h PROVE Evident(kernel, said[dst], content)
    BY <1>11 DEF TrueOf
  <2>2. Holds(kernel, content, o.base, o.off)
    BY <1>9, <1>10, <1>13 DEF Holds
  <2>3. said[dst] = LabelAt(kernel, o.base, o.off) /\ o.base \in Segments /\ HasLabel(kernel, o.base, o.off)
    BY <1>10, <1>11, <1>13
  <2> QED BY <2>2, <2>3, <1>0, FieldEvident
<1>14. ASSUME follows PROVE LoadedFrom(dst, content, said, origin)
  <2>1. SUFFICES ASSUME NEW o \in h PROVE LoadedFrom(dst, content, said, origin)
    BY <1>12 DEF LoadedFrom
  <2>2. /\ Holds(kernel, content, o.base, o.off) /\ FromLoad(w) /\ w[1] # "dword"
        /\ o.base \in Segments
    BY <1>9, <1>10, <1>14 DEF Holds, FromLoad
  <2>3. said[dst][1] = "field" /\ origin[dst] = o
    BY <1>10, <1>11, <1>12, <1>14 DEF LabelAt
  <2> QED BY <2>2, <2>3, <1>9 DEF LoadedFrom
<1>15. ASSUME follows, kernel.kd PROVE AddressSaid(dst, content, said)
  BY <1>9 DEF AddressSaid
<1>16. ASSUME follows, kernel.kd PROVE FieldSaid(dst, content, said, origin)
  <2>1. SUFFICES ASSUME FromLoad(w)
                 PROVE  /\ dst \in DOMAIN origin /\ dst \in DOMAIN said
                        /\ said[dst] = LabelAt(kernel, w[2], w[3])
    BY <1>9 DEF FieldSaid
  <2>2. /\ v[1] = "dword" /\ FromLoad(v) /\ HalfWord(kernel, v[2], v[3] + 2)
        /\ w = <<"lane", v[2], v[3] + 2>>
    BY <2>1, <1>6 DEF FromLoad
  <2>3. src \in DOMAIN packed
    BY <2>2, <1>0, <1>1, <1>16, <1>s DEF Remembered
  <2>4. packed[src].base = v[2] /\ packed[src].off = v[3]
    <3>1. Holds(kernel, <<v>>, packed[src].base, packed[src].off)
      BY <2>3, <1>0, <1>8, <1>16, <1>s DEF Traced, FromThere
    <3>2. v = <<"dword", v[2], v[3], v[4]>>
      BY <2>2, <1>8 DEF Formed
    <3> QED BY <3>1, <3>2 DEF Holds
  <2>5. HasLabel(kernel, v[2], v[3] + 2)
    BY <2>2, <1>16, HalfNamed
  <2>6. h # {}
    <3>1. PICK q : q = packed[src]
      OBVIOUS
    <3>2. q \in OriginOf(src) /\ HasLabel(kernel, q.base, q.off + 2)
      BY <3>1, <2>3, <2>4, <2>5, SourceOf
    <3>3. [base |-> q.base, off |-> q.off + 2] \in h
      BY <3>2, <1>2 DEF HighHalf
    <3> QED BY <3>3
  <2>7. PICK o \in h : TRUE
    BY <2>6
  <2>8. h = {o} /\ w = <<"lane", o.base, o.off>>
    BY <1>10, <1>16
  <2> QED BY <2>8, <1>11, <1>12
<1> QED BY <1>7, <1>9, <1>11, <1>12, <1>13, <1>14, <1>15, <1>16, WriteKeeps

LEMMA SLoadKeeps ==
    ASSUME IInv, NEW dst \in Singles \union Pairs, NEW base \in Pairs, NEW off \in Offsets,
           SLoad(dst, base, off)
    PROVE  IInv'
<1>0. /\ TypeInv /\ kernel \in Kernels /\ kernel.kd \in BOOLEAN
      /\ Told /\ Traced /\ (kernel.kd => Pointed /\ Remembered)
  BY Known, KernelsAssumption
<1>1. PICK first \in BOOLEAN : first <=> (kernargBase = None /\ base \notin DOMAIN labels)
  OBVIOUS
<1>2. PICK meaning : meaning = IF first \/ base = kernargBase THEN <<"&", "kernarg">> ELSE Val(base)
  OBVIOUS
<1>3. PICK segment \in BOOLEAN : segment <=> meaning[1] = "&"
  OBVIOUS
<1>4. PICK seg : seg = meaning[2]
  OBVIOUS
<1>5. PICK label : label = IF ~ segment THEN <<"mem", "s", <<meaning>> >>
                           ELSE IF HasLabel(kernel, seg, off) THEN LabelAt(kernel, seg, off)
                           ELSE <<"at", seg, off>>
  OBVIOUS
<1>6. PICK c : c = Content(base)
  OBVIOUS
<1> DEFINE word(i) == IF PointsTo(c) THEN <<"dword", c[1][2], off + 4 * (i - 1), Len(dst)>>
                      ELSE <<IF i = 1 THEN "mem" ELSE "high", "s", <<c>> >>
<1>7. PICK content : content = [i \in DOMAIN dst |-> word(i)]
  OBVIOUS
<1>8. PICK said : said = [n \in {dst} \union (IF segment THEN {Low(dst)} ELSE {}) |-> label]
  OBVIOUS
<1>9. PICK origin : origin = Keep(dst, IF segment THEN {[base |-> seg, off |-> off]} ELSE {})
  OBVIOUS
<1>10. PICK follows \in BOOLEAN : follows <=> (Sound({base}) /\ (segment => c = Address(seg)))
  OBVIOUS
<1>s. follows => base \notin stale
  BY <1>10 DEF Sound
<1>11. c[1] = values[base[1]] /\ Formed(c[1]) /\ base[1] \in Regs(kernel)
  BY <1>0, <1>6, SourceContent, PairsShape
<1>12. Write(dst, content, said, {dst}, origin, follows)
  <2> DEFINE first0   == kernargBase = None /\ base \notin DOMAIN labels
             meaning0 == IF first0 \/ base = kernargBase THEN <<"&", "kernarg">> ELSE Val(base)
             segment0 == meaning0[1] = "&"
             seg0     == meaning0[2]
             label0   == IF ~ segment0 THEN <<"mem", "s", <<meaning0>> >>
                         ELSE IF HasLabel(kernel, seg0, off) THEN LabelAt(kernel, seg0, off)
                         ELSE <<"at", seg0, off>>
             word0(i) == IF PointsTo(Content(base))
                         THEN <<"dword", values[base[1]][2], off + 4 * (i - 1), Len(dst)>>
                         ELSE <<IF i = 1 THEN "mem" ELSE "high", "s", <<Content(base)>> >>
  <2>1. Write(dst, [i \in DOMAIN dst |-> word0(i)],
              [n \in {dst} \union (IF segment0 THEN {Low(dst)} ELSE {}) |-> label0], {dst},
              Keep(dst, IF segment0 THEN {[base |-> seg0, off |-> off]} ELSE {}),
              Sound({base}) /\ (segment0 => Content(base) = Address(seg0)))
    BY DEF SLoad
  <2>2. content = [i \in DOMAIN dst |-> word0(i)]
    BY <1>6, <1>7, <1>11
  <2>3. meaning0 = meaning
    BY <1>1, <1>2
  <2> HIDE DEF meaning0, word0
  <2>4. (segment0 <=> segment) /\ seg0 = seg
    BY <2>3, <1>3, <1>4
  <2> HIDE DEF segment0, seg0
  <2>5. label0 = label
    BY <2>3, <2>4, <1>5
  <2> HIDE DEF label0
  <2>6. said = [n \in {dst} \union (IF segment0 THEN {Low(dst)} ELSE {}) |-> label0]
    BY <2>4, <2>5, <1>8
  <2>7. origin = Keep(dst, IF segment0 THEN {[base |-> seg0, off |-> off]} ELSE {})
    BY <2>4, <1>9
  <2>8. Write(dst, content, said, {dst}, origin,
              Sound({base}) /\ (segment0 => Content(base) = Address(seg0)))
    BY <2>1, <2>2, <2>6, <2>7 DEF Write
  <2> QED BY <2>8, <2>4, <1>6, <1>10 DEF Write
<1>13. /\ off \in Nat /\ off % 4 = 0
       /\ 1 \in DOMAIN dst /\ Len(dst) \in 1 .. 2 /\ (Len(dst) = 1 <=> dst \in Singles)
       /\ dst \in Singles => Low(dst) = dst /\ DOMAIN dst = {1}
  BY <1>0, Disjoint, SinglesShape, OperandsAssumption
<1>14. /\ content = [i \in DOMAIN dst |-> content[i]]
       /\ \A i \in DOMAIN dst : content[i] = word(i)
  BY <1>7
<1>15. /\ \A i \in DOMAIN dst : Formed(content[i]) /\ content[i][1] \notin {"half", "lane"}
       /\ \A i \in DOMAIN dst : FromLoad(content[i]) => PointsTo(c) /\ Len(dst) = 1
       /\ content[1] = IF PointsTo(c) THEN <<"dword", c[1][2], off, Len(dst)>> ELSE <<"mem", "s", <<c>> >>
  <2>1. \A i \in DOMAIN dst : PointsTo(c) => content[i] = <<"dword", c[1][2], off + 4 * (i - 1), Len(dst)>>
    BY <1>14
  <2>2. \A i \in DOMAIN dst : ~ PointsTo(c) => content[i] = <<IF i = 1 THEN "mem" ELSE "high", "s", <<c>> >>
    BY <1>14
  <2>3. ASSUME NEW i \in DOMAIN dst
        PROVE  /\ Formed(content[i]) /\ content[i][1] \notin {"half", "lane"}
               /\ FromLoad(content[i]) => PointsTo(c) /\ Len(dst) = 1
    <3>1. CASE PointsTo(c)
      <4>1. content[i] = <<"dword", c[1][2], off + 4 * (i - 1), Len(dst)>>
        BY <2>1, <3>1
      <4> QED BY <3>1, <4>1 DEF Formed, FromLoad
    <3>2. CASE ~ PointsTo(c)
      <4>1. content[i][1] \in {"mem", "high"}
        BY <2>2, <3>2
      <4> QED BY <4>1 DEF Formed, FromLoad
    <3> QED BY <3>1, <3>2
  <2>4. content[1] = IF PointsTo(c) THEN <<"dword", c[1][2], off, Len(dst)>> ELSE <<"mem", "s", <<c>> >>
    <3>1. off + 4 * (1 - 1) = off
      BY <1>13
    <3> QED BY <2>1, <2>2, <3>1, <1>13
  <2> QED BY <2>3, <2>4
<1> HIDE DEF word
<1>16. /\ DOMAIN said = {dst} \union (IF segment THEN {Low(dst)} ELSE {})
       /\ \A n \in DOMAIN said : said[n] = label
  BY <1>8
<1>17. /\ DOMAIN origin \subseteq {dst}
       /\ dst \in DOMAIN origin <=> segment
       /\ dst \in DOMAIN origin => origin[dst] = [base |-> seg, off |-> off]
  <2>1. PICK xs : xs = IF segment THEN {[base |-> seg, off |-> off]} ELSE {}
    OBVIOUS
  <2>2. origin = Keep(dst, xs)
    BY <2>1, <1>9
  <2>3. CASE segment
    <3>1. PICK o : o = [base |-> seg, off |-> off]
      OBVIOUS
    <3>2. xs = {o}
      BY <3>1, <2>1, <2>3
    <3>3. DOMAIN origin = {dst} /\ origin[dst] = o
      BY <3>2, <2>2, KeepOne
    <3> QED BY <3>1, <3>3, <2>3
  <2>4. CASE ~ segment
    <3>1. xs = {}
      BY <2>1, <2>4
    <3> QED BY <3>1, <2>2, <2>4, KeepShape
  <2> QED BY <2>3, <2>4
(* A load off an address that the pass takes for the address it is.        *)
<1>18. ASSUME follows, segment
       PROVE  /\ seg \in Segments /\ PointsTo(c) /\ content[1] = <<"dword", seg, off, Len(dst)>>
              /\ Holds(kernel, content, seg, off) /\ Holds(kernel, <<content[1]>>, seg, off)
  <2>1. c[1] = <<"half", seg, 1>>
    BY <1>10, <1>18 DEF Address
  <2>2. PointsTo(c)
    BY <2>1, <1>10, <1>18 DEF PointsTo
  <2>3. seg \in Segments
    BY <2>1, <1>11 DEF Formed
  <2>4. content[1] = <<"dword", seg, off, Len(dst)>>
    BY <2>1, <2>2, <1>15
  <2> QED BY <2>2, <2>3, <2>4, <1>13 DEF Holds
<1>19. ASSUME follows PROVE TrueOf(dst, content, said)
  <2>1. CASE segment
    <3>1. ASSUME NEW d, Holds(kernel, d, seg, off) PROVE Evident(kernel, label, d)
      BY <2>1, <3>1, <1>0, <1>5, <1>18, <1>19, FieldEvident, AtEvident
    <3> QED BY <3>1, <2>1, <1>16, <1>18, <1>19 DEF TrueOf
  <2>2. CASE ~ segment
    <3>1. meaning = Val(base)
      BY <2>2, <1>2, <1>3
    <3>2. Evident(kernel, meaning, c)
      BY <3>1, <1>0, <1>6, <1>19, <1>s, ValEvident
    <3>3. label = <<"mem", "s", <<meaning>> >>
      BY <2>2, <1>5
    <3>4. Evident(kernel, label, content)
      BY <3>2, <3>3, <1>15, LoadEvident
    <3> QED BY <3>4, <2>2, <1>16 DEF TrueOf
  <2> QED BY <2>1, <2>2
<1>20. ASSUME follows PROVE LoadedFrom(dst, content, said, origin)
  <2>1. SUFFICES ASSUME segment PROVE LoadedFrom(dst, content, said, origin)
    BY <1>17 DEF LoadedFrom
  <2>2. label[1] \in {"field", "at"}
    BY <2>1, <1>5 DEF LabelAt
  <2>3. dst \in Singles => FromLoad(content[1])
    BY <2>1, <1>13, <1>18, <1>20 DEF FromLoad
  <2> QED BY <2>1, <2>2, <2>3, <1>13, <1>16, <1>17, <1>18, <1>20 DEF LoadedFrom
<1>21. ASSUME follows, kernel.kd PROVE AddressSaid(dst, content, said)
  BY <1>15 DEF AddressSaid
<1>22. ASSUME follows, kernel.kd PROVE FieldSaid(dst, content, said, origin)
  <2>1. SUFFICES ASSUME NEW i \in DOMAIN dst, FromLoad(content[i])
                 PROVE  /\ dst \in Singles /\ dst \in DOMAIN origin
                        /\ HasLabel(kernel, content[i][2], content[i][3]) =>
                              /\ dst \in DOMAIN said
                              /\ said[dst] = LabelAt(kernel, content[i][2], content[i][3])
    BY DEF FieldSaid
  <2>2. dst \in Singles /\ i = 1 /\ PointsTo(c)
    <3>1. PointsTo(c) /\ Len(dst) = 1
      BY <2>1, <1>15
    <3>2. dst \in Singles
      BY <3>1, <1>13
    <3> QED BY <3>1, <3>2, <2>1, <1>13
  <2>3. base \in DOMAIN labels /\ labels[base] = <<"&", c[1][2]>>
    BY <2>2, <1>0, <1>6, <1>11, <1>22, <1>s DEF Pointed
  <2>4. segment
    BY <2>3, <1>1, <1>2, <1>3 DEF Val
  <2>5. content[i] = <<"dword", seg, off, Len(dst)>>
    BY <2>2, <2>4, <1>18, <1>22
  <2> QED BY <2>2, <2>4, <2>5, <1>5, <1>16, <1>17
<1>23. DOMAIN said \subseteq {dst, Low(dst)}
  BY <1>16
<1> QED BY <1>12, <1>14, <1>15, <1>17, <1>19, <1>20, <1>21, <1>22, <1>23, WriteKeeps

-----------------------------------------------------------------------------
(***************************************************************************)
(* What the hardware fills is what the pass takes it to fill.              *)
(***************************************************************************)
PointerHome(k, seg) == UserAt(k, Bit(seg))

LEMMA PointerShape ==
    ASSUME NEW k \in Kernels, NEW seg \in Live(k)
    PROVE  /\ Pointer(k)[seg] = <<S(PointerHome(k, seg)), S(PointerHome(k, seg) + 1)>>
           /\ Range(Pointer(k)[seg]) = {S(PointerHome(k, seg)), S(PointerHome(k, seg) + 1)}
           /\ PointerHome(k, seg) \in Nat /\ PointerHome(k, seg) + 2 <= UserCount(k)
           /\ Range(Pointer(k)[seg]) \subseteq Regs(k)
<1>1. Pointer(k)[seg] = <<S(PointerHome(k, seg)), S(PointerHome(k, seg) + 1)>>
  BY PointerPlace DEF PointerHome, PairAt
<1>2. Range(Pointer(k)[seg]) = {S(PointerHome(k, seg)), S(PointerHome(k, seg) + 1)}
  <2> DEFINE a == S(PointerHome(k, seg))
             b == S(PointerHome(k, seg) + 1)
  <2>1. Pointer(k)[seg] = <<a, b>>
    BY <1>1
  <2> HIDE DEF a, b
  <2>2. Range(<<a, b>>) = {a, b}
    BY DEF Range
  <2> QED BY <2>1, <2>2 DEF a, b
<1>3. Range(Pointer(k)[seg]) \subseteq Regs(k)
  BY DEF Regs
<1> QED BY <1>1, <1>2, <1>3, PointerPlace DEF PointerHome

LEMMA PointersApart ==
    ASSUME NEW k \in Kernels, NEW r, NEW a \in Live(k), NEW b \in Live(k),
           r \in Range(Pointer(k)[a]), r \in Range(Pointer(k)[b])
    PROVE  a = b
<1>1. a \in Segments /\ b \in Segments
  BY DEF Live, Segments
<1>2. \A s \in Live(k) : r \in Range(Pointer(k)[s]) =>
          r[2] \in Nat /\ PointerHome(k, s) <= r[2] /\ r[2] < PointerHome(k, s) + 2
  <2>1. ASSUME NEW s \in Live(k), r \in Range(Pointer(k)[s])
        PROVE  r[2] \in Nat /\ PointerHome(k, s) <= r[2] /\ r[2] < PointerHome(k, s) + 2
    <3>1. r = S(PointerHome(k, s)) \/ r = S(PointerHome(k, s) + 1)
      BY <2>1, PointerShape
    <3>2. r[2] = PointerHome(k, s) \/ r[2] = PointerHome(k, s) + 1
      BY <3>1 DEF S
    <3> QED BY <3>2, PointerShape
  <2> QED BY <2>1
<1>3. ASSUME a # b PROVE FALSE
  <2>1. "kernarg" \in Live(k) /\ "dispatch" \in Live(k)
        /\ r \in Range(Pointer(k)["kernarg"]) /\ r \in Range(Pointer(k)["dispatch"])
    BY <1>1, <1>3 DEF Segments
  <2>2. PointerHome(k, "dispatch") + 2 <= PointerHome(k, "kernarg")
    <3>1. 1 \in k.props
      BY <2>1, PointerPlace DEF Bit
    <3> QED BY <3>1, PointerPlace DEF PointerHome, Bit
  <2>3. /\ r[2] \in Nat /\ PointerHome(k, "kernarg") <= r[2]
        /\ r[2] < PointerHome(k, "dispatch") + 2
    BY <2>1, <1>2
  <2>4. PointerHome(k, "dispatch") \in Nat /\ PointerHome(k, "kernarg") \in Nat
    BY <2>1, PointerShape
  <2> QED BY <2>2, <2>3, <2>4
<1> QED BY <1>3

LEMMA BlockPlace ==
    ASSUME NEW k \in Kernels, NEW b \in k.wg
    PROVE  /\ BlockIdx(k, b) = S(UserCount(k) + Cardinality({c \in k.wg : c < b}))
           /\ BlockIdx(k, b)[1] = "s" /\ BlockIdx(k, b)[2] \in Nat
           /\ BlockIdx(k, b)[2] >= UserCount(k)
           /\ BlockIdx(k, b) \in Regs(k)
           /\ \A seg \in Live(k) : BlockIdx(k, b) \notin Range(Pointer(k)[seg])
<1>1. Cardinality({c \in k.wg : c < b}) \in Nat
  <2>1. IsFiniteSet(7 .. 9)
    <3>1. 7 \in Int /\ 9 \in Int
      OBVIOUS
    <3> QED BY <3>1, FS_Interval
  <2>2. {c \in k.wg : c < b} \subseteq 7 .. 9
    BY KernelsAssumption
  <2> QED BY <2>1, <2>2, FS_Subset, FS_CardinalityType
<1>2. BlockIdx(k, b) = S(UserCount(k) + Cardinality({c \in k.wg : c < b}))
  BY DEF BlockIdx
<1>3. BlockIdx(k, b)[1] = "s" /\ BlockIdx(k, b)[2] \in Nat /\ BlockIdx(k, b)[2] >= UserCount(k)
  <2>1. UserCount(k) \in Nat
    BY PointerPlace
  <2> QED BY <2>1, <1>1, <1>2 DEF S
<1>4. ASSUME NEW seg \in Live(k), BlockIdx(k, b) \in Range(Pointer(k)[seg]) PROVE FALSE
  <2>1. \/ BlockIdx(k, b)[2] = PointerHome(k, seg)
        \/ BlockIdx(k, b)[2] = PointerHome(k, seg) + 1
    BY <1>4, PointerShape DEF S
  <2> QED BY <2>1, <1>3, PointerShape, PointerPlace
<1>5. BlockIdx(k, b) \in Regs(k)
  BY DEF Regs
<1> QED BY <1>2, <1>3, <1>4, <1>5

LEMMA Entry ==
    ASSUME NEW k \in Kernels
    PROVE  /\ \A seg \in Live(k) : /\ AtEntry(k)[Pointer(k)[seg][1]] = <<"half", seg, 1>>
                                   /\ AtEntry(k)[Pointer(k)[seg][2]] = <<"half", seg, 2>>
           /\ \A b \in k.wg : AtEntry(k)[BlockIdx(k, b)] =
                  <<"id", "blockIdx", CHOOSE c \in k.wg : BlockIdx(k, b) = BlockIdx(k, c)>>
           /\ \A d \in 0 .. k.dims : V(d) \in Regs(k) /\ AtEntry(k)[V(d)] = <<"id", "threadIdx", d>>
           /\ \A r \in Regs(k) : \/ AtEntry(k)[r][1] \in {"id", "entry"}
                                 \/ \E seg \in Live(k), j \in 1 .. 2 :
                                       Pointer(k)[seg][j] = r /\ AtEntry(k)[r] = <<"half", seg, j>>
<1> DEFINE AtPointer(r) == \E seg \in Live(k) : r \in Range(Pointer(k)[seg])
           AtBlock(r)   == \E b \in k.wg : r = BlockIdx(k, b)
           AtThread(r)  == \E d \in 0 .. k.dims : r = V(d)
           home(r)      == CHOOSE s \in Live(k) : r \in Range(Pointer(k)[s])
           block(r)     == CHOOSE b \in k.wg : r = BlockIdx(k, b)
<1>1. ASSUME NEW r \in Regs(k)
      PROVE  AtEntry(k)[r] =
                IF AtPointer(r) THEN <<"half", home(r), IF r = Pointer(k)[home(r)][1] THEN 1 ELSE 2>>
                ELSE IF AtBlock(r) THEN <<"id", "blockIdx", block(r)>>
                ELSE IF AtThread(r) THEN <<"id", "threadIdx", r[2]>>
                ELSE <<"entry", r>>
  BY DEF AtEntry
<1>2. \A r : AtPointer(r) => home(r) \in Live(k) /\ r \in Range(Pointer(k)[home(r)])
  OBVIOUS
<1> HIDE DEF home
<1>3. ASSUME NEW seg \in Live(k)
      PROVE  /\ AtEntry(k)[Pointer(k)[seg][1]] = <<"half", seg, 1>>
             /\ AtEntry(k)[Pointer(k)[seg][2]] = <<"half", seg, 2>>
  <2> DEFINE p == Pointer(k)[seg]
  <2>1. /\ p[1] \in Range(p) /\ p[2] \in Range(p) /\ Range(p) \subseteq Regs(k) /\ p[2] # p[1]
    <3>1. /\ p[1] = S(PointerHome(k, seg)) /\ p[2] = S(PointerHome(k, seg) + 1)
          /\ Range(p) = {p[1], p[2]} /\ Range(p) \subseteq Regs(k)
      BY PointerShape
    <3>2. PointerHome(k, seg) # PointerHome(k, seg) + 1
      BY PointerShape
    <3> QED BY <3>1, <3>2 DEF S
  <2>2. AtPointer(p[1]) /\ AtPointer(p[2])
    BY <2>1
  <2>3. home(p[1]) = seg /\ home(p[2]) = seg
    BY <2>1, <2>2, <1>2, PointersApart
  <2> QED BY <2>1, <2>2, <2>3, <1>1
<1>4. ASSUME NEW b \in k.wg
      PROVE  AtEntry(k)[BlockIdx(k, b)] = <<"id", "blockIdx", block(BlockIdx(k, b))>>
  BY <1>1, BlockPlace
<1>5. ASSUME NEW d \in 0 .. k.dims
      PROVE  V(d) \in Regs(k) /\ AtEntry(k)[V(d)] = <<"id", "threadIdx", d>>
  <2>1. V(d) \in Regs(k) /\ V(d)[1] = "v" /\ V(d)[2] = d
    BY DEF Regs, V
  <2>2. ~ AtPointer(V(d))
    <3>1. \A seg \in Live(k) : \A r \in Range(Pointer(k)[seg]) : r[1] = "s"
      BY PointerShape DEF S
    <3> QED BY <3>1, <2>1
  <2>3. ~ AtBlock(V(d))
    BY <2>1, BlockPlace
  <2>4. AtThread(V(d))
    OBVIOUS
  <2> QED BY <2>1, <2>2, <2>3, <2>4, <1>1
<1>6. ASSUME NEW r \in Regs(k), AtPointer(r)
      PROVE  \E seg \in Live(k), j \in 1 .. 2 :
                 Pointer(k)[seg][j] = r /\ AtEntry(k)[r] = <<"half", seg, j>>
  <2>1. PICK seg \in Live(k) : r \in Range(Pointer(k)[seg])
    BY <1>6
  <2>2. \E j \in 1 .. 2 : r = Pointer(k)[seg][j]
    <3>1. r = Pointer(k)[seg][1] \/ r = Pointer(k)[seg][2]
      BY <2>1, PointerShape
    <3>2. 1 \in 1 .. 2 /\ 2 \in 1 .. 2
      OBVIOUS
    <3> QED BY <3>1, <3>2
  <2>3. PICK j \in 1 .. 2 : r = Pointer(k)[seg][j]
    BY <2>2
  <2>4. AtEntry(k)[r] = <<"half", seg, j>>
    <3>1. CASE j = 1
      BY <2>3, <3>1, <1>3
    <3>2. CASE j = 2
      BY <2>3, <3>2, <1>3
    <3> QED BY <3>1, <3>2
  <2> QED BY <2>3, <2>4
<1> HIDE DEF AtPointer, AtBlock, AtThread, block
<1>7. ASSUME NEW r \in Regs(k), ~ AtPointer(r) PROVE AtEntry(k)[r][1] \in {"id", "entry"}
  <2>1. AtEntry(k)[r] = IF AtBlock(r) THEN <<"id", "blockIdx", block(r)>>
                        ELSE IF AtThread(r) THEN <<"id", "threadIdx", r[2]>>
                        ELSE <<"entry", r>>
    BY <1>1, <1>7
  <2> QED BY <2>1
<1>8. \A b \in k.wg : AtEntry(k)[BlockIdx(k, b)] =
         <<"id", "blockIdx", CHOOSE c \in k.wg : BlockIdx(k, b) = BlockIdx(k, c)>>
  BY <1>4 DEF block
<1> QED BY <1>3, <1>5, <1>6, <1>7, <1>8

(* The labels the descriptor gives.                                        *)
LEMMA OverAt ==
    ASSUME NEW f, NEW g, NEW x \in DOMAIN Over(f, g)
    PROVE  \/ x \in DOMAIN f /\ Over(f, g)[x] = f[x]
           \/ x \in DOMAIN g /\ Over(f, g)[x] = g[x]
BY DEF Over

LEMMA Seeds ==
    ASSUME NEW k \in Kernels
    PROVE  /\ \A n \in DOMAIN AbiSeeds(k) :
              \/ \E d \in 0 .. k.dims : n = <<V(d)>> /\ AbiSeeds(k)[n] = <<"id", "threadIdx", d>>
              \/ \E b \in k.wg : /\ n = <<BlockIdx(k, b)>>
                                 /\ AbiSeeds(k)[n] =
                                      <<"id", "blockIdx", CHOOSE c \in k.wg : BlockIdx(k, b) = BlockIdx(k, c)>>
              \/ \E seg \in Live(k) : n = Pointer(k)[seg] /\ AbiSeeds(k)[n] = <<"&", seg>>
           /\ k.kd => \A seg \in Live(k) : Pointer(k)[seg] \in DOMAIN AbiSeeds(k)
<1> DEFINE ptr(bit, seg) == [n \in {PairAt(UserAt(k, bit)) : b \in {bit} \intersect k.props} |-> <<"&", seg>>]
           wg(bit)       == <<S(UserCount(k) + Cardinality({b \in k.wg : b < bit}))>>
           blocks        == [n \in {wg(b) : b \in k.wg} |-> <<"id", "blockIdx", CHOOSE b \in k.wg : n = wg(b)>>]
           threads(dims) == [n \in {<<V(d)>> : d \in 0 .. dims} |-> <<"id", "threadIdx", n[1][2]>>]
           p3 == ptr(3, "kernarg")
           p1 == ptr(1, "dispatch")
           th == threads(k.dims)
           t0 == threads(0)
<1>1. AbiSeeds(k) = IF ~ k.kd THEN t0 ELSE Over(th, Over(blocks, Over(p3, p1)))
  BY DEF AbiSeeds
<1>2. k.dims \in 0 .. 2
  BY KernelsAssumption
<1>3. ASSUME NEW n \in DOMAIN t0
      PROVE  \E d \in 0 .. k.dims : n = <<V(d)>> /\ t0[n] = <<"id", "threadIdx", d>>
  <2>1. PICK d \in 0 .. 0 : n = <<V(d)>>
    OBVIOUS
  <2> QED BY <2>1, <1>2 DEF V
<1>4. ASSUME NEW n \in DOMAIN th
      PROVE  \E d \in 0 .. k.dims : n = <<V(d)>> /\ th[n] = <<"id", "threadIdx", d>>
  <2>1. PICK d \in 0 .. k.dims : n = <<V(d)>>
    OBVIOUS
  <2> QED BY <2>1 DEF V
<1>5. ASSUME NEW n \in DOMAIN blocks
      PROVE  \E b \in k.wg :
                /\ n = <<BlockIdx(k, b)>>
                /\ blocks[n] = <<"id", "blockIdx", CHOOSE c \in k.wg : BlockIdx(k, b) = BlockIdx(k, c)>>
  <2>1. \A b : wg(b) = <<BlockIdx(k, b)>>
    BY DEF BlockIdx
  <2>2. PICK b \in k.wg : n = <<BlockIdx(k, b)>>
    BY <2>1
  <2>3. \A c \in k.wg : n = wg(c) <=> BlockIdx(k, b) = BlockIdx(k, c)
    BY <2>1, <2>2
  <2>4. blocks[n] = <<"id", "blockIdx", CHOOSE c \in k.wg : n = wg(c)>>
    OBVIOUS
  <2> HIDE DEF wg
  <2>5. (CHOOSE c \in k.wg : n = wg(c)) = (CHOOSE c \in k.wg : BlockIdx(k, b) = BlockIdx(k, c))
    BY <2>3
  <2> QED BY <2>2, <2>4, <2>5
<1>6. ASSUME NEW n \in DOMAIN p3
      PROVE  \E seg \in Live(k) : n = Pointer(k)[seg] /\ p3[n] = <<"&", seg>>
  <2>1. 3 \in k.props /\ n = PairAt(UserAt(k, 3)) /\ p3[n] = <<"&", "kernarg">>
    OBVIOUS
  <2>2. "kernarg" \in Live(k)
    BY <2>1 DEF Live
  <2> QED BY <2>1, <2>2, PointerPlace DEF Bit
<1>7. ASSUME NEW n \in DOMAIN p1
      PROVE  \E seg \in Live(k) : n = Pointer(k)[seg] /\ p1[n] = <<"&", seg>>
  <2>1. 1 \in k.props /\ n = PairAt(UserAt(k, 1)) /\ p1[n] = <<"&", "dispatch">>
    OBVIOUS
  <2>2. "dispatch" \in Live(k)
    BY <2>1 DEF Live
  <2> QED BY <2>1, <2>2, PointerPlace DEF Bit
<1>8. ASSUME NEW seg \in Live(k) PROVE Pointer(k)[seg] \in DOMAIN p3 \union DOMAIN p1
  <2>1. CASE seg = "kernarg"
    <3>1. 3 \in k.props /\ Pointer(k)[seg] = PairAt(UserAt(k, 3))
      BY <2>1, PointerPlace DEF Bit
    <3> QED BY <3>1
  <2>2. CASE seg # "kernarg"
    <3>1. 1 \in k.props /\ Pointer(k)[seg] = PairAt(UserAt(k, 1))
      BY <2>2, PointerPlace DEF Bit
    <3> QED BY <3>1
  <2> QED BY <2>1, <2>2
<1> HIDE DEF t0, th, blocks, p3, p1
<1>9. CASE k.kd
  <2>1. AbiSeeds(k) = Over(th, Over(blocks, Over(p3, p1)))
    BY <1>1, <1>9
  <2>2. ASSUME NEW n \in DOMAIN AbiSeeds(k)
        PROVE  \/ n \in DOMAIN th /\ AbiSeeds(k)[n] = th[n]
               \/ n \in DOMAIN blocks /\ AbiSeeds(k)[n] = blocks[n]
               \/ n \in DOMAIN p3 /\ AbiSeeds(k)[n] = p3[n]
               \/ n \in DOMAIN p1 /\ AbiSeeds(k)[n] = p1[n]
    BY <2>1, OverAt
  <2>3. DOMAIN p3 \union DOMAIN p1 \subseteq DOMAIN AbiSeeds(k)
    BY <2>1 DEF Over
  <2> QED BY <2>2, <2>3, <1>4, <1>5, <1>6, <1>7, <1>8
<1>10. CASE ~ k.kd
  BY <1>1, <1>3, <1>10
<1> QED BY <1>9, <1>10

(* The invariant holds where the kernel starts.                            *)
LEMMA InitIInv == Init => IInv
<1> SUFFICES ASSUME Init PROVE IInv
  OBVIOUS
<1>1. kernel \in Kernels /\ values = AtEntry(kernel) /\ labels = AbiSeeds(kernel) /\ packed = EmptyLabels
  BY DEF Init
<1>2. DOMAIN packed = {}
  BY <1>1 DEF EmptyLabels
<1>3. DOMAIN values = Regs(kernel) /\ values = [r \in Regs(kernel) |-> values[r]]
  BY <1>1 DEF AtEntry
<1>4. ASSUME NEW r \in Regs(kernel)
      PROVE  \/ values[r][1] \in {"id", "entry"}
             \/ \E seg \in Live(kernel), j \in 1 .. 2 :
                   Pointer(kernel)[seg][j] = r /\ values[r] = <<"half", seg, j>>
  BY <1>1, Entry
<1>5. \A seg \in Live(kernel) : seg \in Segments
  BY <1>1, PointerPlace
<1>6. ASSUME NEW n \in DOMAIN labels
      PROVE  Range(n) \subseteq Regs(kernel) /\ Evident(kernel, labels[n], Content(n))
  <2>1. ASSUME NEW d \in 0 .. kernel.dims, n = <<V(d)>>, labels[n] = <<"id", "threadIdx", d>>
        PROVE  Range(n) \subseteq Regs(kernel) /\ Evident(kernel, labels[n], Content(n))
    <3>1. V(d) \in Regs(kernel) /\ values[V(d)] = <<"id", "threadIdx", d>>
      BY <1>1, Entry
    <3> DEFINE r == V(d)
    <3> HIDE DEF r
    <3>2. Range(<<r>>) = {r} /\ Content(<<r>>) = <<values[r]>>
      BY DEF Range, Content
    <3>3. Range(n) \subseteq Regs(kernel) /\ Content(n) = << <<"id", "threadIdx", d>> >>
      BY <3>1, <3>2, <2>1 DEF r
    <3> QED BY <3>3, <2>1, IdEvident
  <2>2. ASSUME NEW b \in kernel.wg, n = <<BlockIdx(kernel, b)>>,
               labels[n] = <<"id", "blockIdx", CHOOSE c \in kernel.wg : BlockIdx(kernel, b) = BlockIdx(kernel, c)>>
        PROVE  Range(n) \subseteq Regs(kernel) /\ Evident(kernel, labels[n], Content(n))
    <3> DEFINE r == BlockIdx(kernel, b)
               x == CHOOSE c \in kernel.wg : BlockIdx(kernel, b) = BlockIdx(kernel, c)
    <3>1. r \in Regs(kernel) /\ values[r] = <<"id", "blockIdx", x>>
      BY <1>1, Entry, BlockPlace
    <3>2. n = <<r>> /\ labels[n] = <<"id", "blockIdx", x>>
      BY <2>2
    <3> HIDE DEF r, x
    <3>3. Range(<<r>>) = {r} /\ Content(<<r>>) = <<values[r]>>
      BY DEF Range, Content
    <3>4. Range(n) \subseteq Regs(kernel) /\ Content(n) = << <<"id", "blockIdx", x>> >>
      BY <3>1, <3>2, <3>3
    <3> QED BY <3>2, <3>4, IdEvident
  <2>3. ASSUME NEW seg \in Live(kernel), n = Pointer(kernel)[seg], labels[n] = <<"&", seg>>
        PROVE  Range(n) \subseteq Regs(kernel) /\ Evident(kernel, labels[n], Content(n))
    <3>1. Range(n) \subseteq Regs(kernel)
      BY <2>3, <1>1, PointerShape
    <3>2. Content(n) = Address(seg)
      <4> DEFINE a == S(PointerHome(kernel, seg))
                 b == S(PointerHome(kernel, seg) + 1)
      <4>1. n = <<a, b>>
        BY <2>3, <1>1, PointerShape
      <4>2. values[n[1]] = <<"half", seg, 1>> /\ values[n[2]] = <<"half", seg, 2>>
        BY <2>3, <1>1, Entry
      <4> HIDE DEF a, b
      <4>3. Content(n) = <<values[n[1]], values[n[2]]>>
        BY <4>1 DEF Content
      <4> QED BY <4>2, <4>3 DEF Address
    <3> QED BY <3>1, <3>2, <2>3, AddressEvident
  <2> QED BY <2>1, <2>2, <2>3, <1>1, Seeds
<1>7. TypeInv
  <2>1. \A r \in Regs(kernel) : Formed(values[r])
    <3>1. ASSUME NEW r \in Regs(kernel) PROVE Formed(values[r])
      <4>1. CASE values[r][1] \in {"id", "entry"}
        BY <4>1 DEF Formed
      <4>2. CASE values[r][1] \notin {"id", "entry"}
        <5>1. PICK seg \in Live(kernel), j \in 1 .. 2 : values[r] = <<"half", seg, j>>
          BY <4>2, <1>4
        <5> QED BY <5>1, <1>5 DEF Formed
      <4> QED BY <4>1, <4>2
    <3> QED BY <3>1
  <2> QED BY <2>1, <1>1, <1>2, <1>3, <1>6 DEF TypeInv
<1>8. Told /\ Traced
  BY <1>2, <1>6 DEF Told, Traced
<1>9. ASSUME kernel.kd PROVE Pointed
  <2>1. SUFFICES ASSUME NEW p \in Pairs, PointsTo(Content(p))
                 PROVE  p \in DOMAIN labels /\ labels[p] = <<"&", values[p[1]][2]>>
    BY DEF Pointed
  <2>2. /\ Content(p)[1] = values[p[1]] /\ Content(p)[2] = values[p[2]]
        /\ p[1] \in Regs(kernel) /\ p[2] \in Regs(kernel)
    BY <1>1, <1>7, SourceContent, PairsShape, Disjoint
  <2>3. values[p[1]] = <<"half", values[p[1]][2], 1>>
    BY <2>1, <2>2 DEF PointsTo, Address
  <2>4. PICK seg \in Live(kernel), j \in 1 .. 2 :
            Pointer(kernel)[seg][j] = p[1] /\ values[p[1]] = <<"half", seg, j>>
    BY <2>2, <2>3, <1>4
  <2>5. j = 1 /\ values[p[1]][2] = seg
    BY <2>3, <2>4
  <2>6. p = Pointer(kernel)[seg]
    <3>1. Pointer(kernel)[seg] \in Pairs /\ Pointer(kernel)[seg][1] = p[1]
      BY <2>4, <2>5 DEF Pairs
    <3> QED BY <3>1, <1>1, PairsTold
  <2>7. p \in DOMAIN labels
    BY <2>6, <1>1, <1>9, Seeds
  <2>8. PICK s \in Live(kernel) : p = Pointer(kernel)[s] /\ labels[p] = <<"&", s>>
    <3>1. Len(p) = 2
      BY <1>1, Disjoint
    <3>2. \A x : Len(<<x>>) = 1
      OBVIOUS
    <3>3. /\ \A d : p # <<V(d)>>
          /\ \A b : p # <<BlockIdx(kernel, b)>>
      BY <3>1, <3>2
    <3> QED BY <3>3, <2>7, <1>1, Seeds
  <2>9. values[p[1]] = <<"half", s, 1>>
    <3>1. values[Pointer(kernel)[s][1]] = <<"half", s, 1>>
      BY <1>1, Entry
    <3> QED BY <3>1, <2>8
  <2> QED BY <2>7, <2>8, <2>9
<1>10. Remembered
  <2>1. ASSUME NEW n \in Singles PROVE ~ FromLoad(values[n[1]])
    <3>1. n[1] \in Regs(kernel)
      BY <1>1, SinglesShape
    <3>2. values[n[1]][1] \in {"id", "entry", "half"}
      BY <3>1, <1>4
    <3> QED BY <3>2 DEF FromLoad
  <2> QED BY <2>1 DEF Remembered
<1> QED BY <1>7, <1>8, <1>9, <1>10 DEF IInv

(* Every instruction keeps it.                                             *)
LEMMA NextIInv == IInv /\ [Next]_vars => IInv'
<1> SUFFICES ASSUME IInv, [Next]_vars PROVE IInv'
  OBVIOUS
<1>1. ASSUME UNCHANGED vars PROVE IInv'
  <2>1. /\ kernel' = kernel /\ values' = values /\ labels' = labels /\ packed' = packed /\ stale' = stale
    BY <1>1 DEF vars
  <2>2. Pairs' = Pairs /\ Singles' = Singles /\ \A n : Content(n)' = Content(n)
    BY <2>1 DEF Pairs, Singles, Content
  <2>3. TypeInv' <=> TypeInv
    BY <2>1, <2>2 DEF TypeInv
  <2>4. Told' <=> Told
    BY <2>1, <2>2 DEF Told
  <2>5. Traced' <=> Traced
    BY <2>1, <2>2 DEF Traced, FromThere
  <2>6. Pointed' <=> Pointed
    BY <2>1, <2>2 DEF Pointed
  <2>7. Remembered' <=> Remembered
    BY <2>1, <2>2 DEF Remembered
  <2> QED BY <2>1, <2>3, <2>4, <2>5, <2>6, <2>7 DEF IInv
<1>2. ASSUME Next PROVE IInv'
  <2>0. /\ SSingles \subseteq Singles /\ VSingles \subseteq Singles
        /\ SPairs \subseteq Pairs /\ VPairs \subseteq Pairs
    BY <1>2 DEF Next, SSingles, VSingles, SPairs, VPairs
  <2>1. ASSUME NEW dst \in SSingles \union SPairs, NEW base \in SPairs, NEW off \in Offsets,
               SLoad(dst, base, off)
        PROVE  IInv'
    BY <2>0, <2>1, SLoadKeeps
  <2>2. ASSUME NEW dst \in VSingles, NEW base \in SPairs, NEW off \in VSingles,
               VLoad(dst, <<base, off>>)
        PROVE  IInv'
    BY <2>0, <2>2, VLoadKeeps
  <2>3. ASSUME NEW dst \in VSingles, NEW n \in VPairs, VLoad(dst, <<n>>) PROVE IInv'
    BY <2>0, <2>3, VLoadKeeps
  <2>4. ASSUME NEW dst \in Singles, NEW src \in Singles, Mov(dst, src) PROVE IInv'
    BY <2>0, <2>4, MovKeeps
  <2>5. ASSUME NEW dst \in SPairs, NEW src \in SPairs, Mov(dst, src) PROVE IInv'
    BY <2>0, <2>5, MovKeeps
  <2>6. ASSUME NEW dst \in SSingles, NEW src \in VSingles, ReadFirstLane(dst, src) PROVE IInv'
    BY <2>0, <2>6, ReadFirstLaneKeeps
  <2>7. ASSUME NEW dst \in SSingles, NEW src \in SSingles, NEW mask, And(dst, src, mask) PROVE IInv'
    BY <2>0, <2>7, AndKeeps
  <2>8. ASSUME NEW dst \in SSingles, NEW src \in SSingles, Lshr16(dst, src) PROVE IInv'
    BY <2>0, <2>8, Lshr16Keeps
  <2>9. ASSUME NEW dst \in VSingles, NEW src \in VSingles, NEW n \in Singles,
               Arith(dst, "max", <<src, n>>)
        PROVE  IInv'
    <3> DEFINE srcs == <<src, n>>
    <3>1. /\ srcs = [i \in DOMAIN srcs |-> srcs[i]] /\ Len(srcs) = 2 /\ DOMAIN srcs = 1 .. 2
          /\ \A i \in DOMAIN srcs : srcs[i] \in Singles \union Pairs
      BY <2>0
    <3>2. Arith(dst, "max", srcs)
      BY <2>9
    <3> HIDE DEF srcs
    <3> QED BY <3>1, <3>2, <2>0, ArithKeeps
  <2>10. ASSUME NEW dst \in VSingles \union VPairs, NEW op, NEW src \in VSingles \union VPairs,
                Arith(dst, op, <<src>>)
         PROVE  IInv'
    <3> DEFINE srcs == <<src>>
    <3>1. /\ srcs = [i \in DOMAIN srcs |-> srcs[i]] /\ Len(srcs) = 1 /\ DOMAIN srcs = 1 .. 1
          /\ \A i \in DOMAIN srcs : srcs[i] \in Singles \union Pairs
      BY <2>0
    <3>2. Arith(dst, op, srcs)
      BY <2>10
    <3> HIDE DEF srcs
    <3> QED BY <3>1, <3>2, <2>0, ArithKeeps
  <2>11. ASSUME NEW dst \in Singles, Other(dst) PROVE IInv'
    BY <2>0, <2>11, OtherKeeps
  <2> QED BY <1>2, <2>1, <2>2, <2>3, <2>4, <2>5, <2>6, <2>7, <2>8, <2>9, <2>10, <2>11 DEF Next
<1> QED BY <1>1, <1>2

(* Registers, labels and origins keep their shape, and of operands that    *)
(* are not stale every label has evidence and every address and loaded     *)
(* field is known for what it is, through any straight code of any kernel  *)
(* (the forward pass of structure.C).                                      *)
THEOREM ProvenanceInvariant == Spec => []IInv
<1>1. Init => IInv
  BY InitIInv
<1>2. IInv /\ [Next]_vars => IInv'
  BY NextIInv
<1> QED BY <1>1, <1>2, PTL DEF Spec

(* What is printed of a compare's operands and of a call's target is true  *)
(* of the registers there, unless the operand is stale; a transfer from    *)
(* operands that are not makes what it writes sound again, whatever came   *)
(* before (structure.C:693-696).                                           *)
THEOREM LabelsAreTrue == Spec => []LabelsTrue
<1>1. IInv => LabelsTrue
  BY Known, ValEvident, EvidentSays DEF Substituted, CallTarget, LabelsTrue
<1> QED BY <1>1, ProvenanceInvariant, PTL

(* A remembered dword is the one at the segment and offset remembered of   *)
(* it, so a shift that splits it names the right field (structure.C:348),  *)
(* unless the operand is stale.                                            *)
THEOREM LanesAreKnown == Spec => []LanesKnown
<1>1. IInv => LanesKnown
  BY DEF IInv, Traced, FromThere, LanesKnown
<1> QED BY <1>1, ProvenanceInvariant, PTL

(* A register that holds a field the notes or the packet name goes by that *)
(* name, if the kernel has a descriptor (structure.C:737), unless the      *)
(* operand is stale.                                                       *)
THEOREM FieldsAreNamed == Spec => []FieldsNamed
<1>1. IInv => FieldsNamed
  BY DEF IInv, Remembered, FieldsNamed, Val
<1> QED BY <1>1, ProvenanceInvariant, PTL
===============================================================================
