--------------------------- MODULE RegionTreeProofs ---------------------------
(***************************************************************************)
(* Proofs about RegionTree for every set of conditions and any number of   *)
(* regions: the stack of open regions follows the nesting of the masks,    *)
(* and the guard put together for a region holds for just the lanes that   *)
(* run its body.                                                           *)
(***************************************************************************)
EXTENDS RegionTree, SequenceTheorems, TLAPS

(* No divergent loop lies inside of an if.                                 *)
LoopsOutside == LoopDepth = 0

(* A mask waits for an instruction, and there is room for the else that    *)
(* the second instruction of one makes.                                    *)
PendingInv ==
    /\ pending.code = <<>> => pending = Nothing
    /\ pending.code = <<OnExec("s_xor")>> => Len(all) < MaxRegions

(* A region refers to regions made before it.                              *)
BackInv == \A r \in DOMAIN all :
    /\ r = Root  => all[r].parent = 0 /\ all[r].pairedIf = 0
    /\ r # Root => /\ all[r].parent \in 1 .. r - 1
                   /\ all[r].pairedIf \in 0 .. r - 1

(* The open regions were made in the order in which they lie on the stack. *)
AscendInv == \A c, d \in DOMAIN stack : c < d => stack[c] < stack[d]

TypeInv == TypeOK /\ PendingInv /\ BackInv /\ AscendInv

(* The end of a loop comes outside of every region.                        *)
LoopInv == pending.code = <<OnExec("s_or")>> => outer = <<>>

NestInv == TypeInv /\ LoopInv /\ StackIsNesting

(* A short circuit refines an if that was just opened: nothing was made    *)
(* after it, and it has no body yet.                                       *)
EnteredInv ==
    entered => /\ Cur = Len(all) /\ Cur # Root
               /\ all[Cur].kind = "If"
               /\ pending = Nothing
               /\ \A k \in DOMAIN ran : ran[k].region # Cur

(* The equations that define LocalGuard, EffCond and Rests, at each region *)
(* of the tree: functions with larger domains solve them too.              *)
SolvesL(L) == \A r \in DOMAIN all :
    L[r] = IF all[r].kind = "Else" /\ all[r].pairedIf # 0
           THEN Lanes \ L[all[r].pairedIf]
           ELSE {l \in Lanes : all[r].cond \subseteq l}

SolvesE(L, E) == \A r \in DOMAIN all :
    E[r] = L[r] \cap (IF r = Root THEN Lanes ELSE E[all[r].parent])

SolvesR(R) == \A r \in DOMAIN all :
    R[r] = {r} \union (IF all[r].pairedIf # 0 THEN R[all[r].pairedIf] ELSE {})
               \union (IF r # Root THEN R[all[r].parent] ELSE {})

(* There are solutions: the recursive definitions define something.        *)
Solvable ==
    /\ \E L : SolvesL(L)
    /\ \A L : SolvesL(L) => \E E : SolvesE(L, E)
    /\ \E R : SolvesR(R)

(* A guard is put together from regions made before.                       *)
RestsBack == \A R : SolvesR(R) => \A r \in DOMAIN all : R[r] \subseteq 1 .. r

Clean(R, r) == \A q \in R[r] : ~ all[q].rerouted

(* What E says of a regular region: the lanes that opened it, that run in  *)
(* it, or that will when the end of a loop is passed, and that ran it.     *)
Tells(E, R) ==
    /\ \A d \in DOMAIN outer : Clean(R, stack[d]) => outer[d] = E[stack[d]]
    /\ Clean(R, Cur) => (IF pending = Nothing THEN exec ELSE pending.lanes) = E[Cur]
    /\ \A k \in DOMAIN ran : Clean(R, ran[k].region) => ran[k].lanes = E[ran[k].region]

(* Every else is one instruction, and any solution tells the lanes.        *)
GuardInv ==
    /\ NestInv /\ EnteredInv /\ Solvable /\ RestsBack
    /\ pending.code # <<OnExec("s_xor")>>
    /\ \A L, E, R : SolvesL(L) /\ SolvesE(L, E) /\ SolvesR(R) => Tells(E, R)

-----------------------------------------------------------------------------
(* The data.                                                               *)

LEMMA Roles ==
    /\ classify(AndSave) = "Open"
    /\ classify(OrSave) = "Else"
    /\ classify(SelfFlip) = "Else"
    /\ classify(RouteNext) = "Reroute"
    /\ classify(OnExec("s_xor")) = "Else"
    /\ classify(OnExec("s_andn2")) = "Else"
    /\ classify(OnExec("s_or")) = "Close"
    /\ classify(OnExec("s_mov")) = "Close"
    /\ classify(OnExec("s_and")) = "Narrow"
    /\ classify(Plain("s_swappc")) = "Call"
    /\ classify(Plain("v_cndmask")) = "Select"
    /\ classify(Plain("v_cmp")) = "Compare"
    /\ \A op \in ScalarOps : classify(Plain(op)) \in {"Compare", "None"}
BY DEF classify, AndSave, OrSave, SelfFlip, RouteNext, OnExec, Plain, Insn, ScalarOps

(* Where each role leads.                                                  *)
LEMMA Follows ==
    ASSUME NEW in, Follow(in)
    PROVE  /\ classify(in) = "Open"    => OpenRegion
           /\ classify(in) = "Else"    => ElseRegion
           /\ classify(in) = "Reroute" => RerouteRegion
           /\ classify(in) = "Close"   => CloseRegion
           /\ classify(in) = "Narrow"  => NarrowRegion
           /\ classify(in) \in {"Call", "Select"}  => AddBody
           /\ classify(in) \in {"Compare", "None"} => UNCHANGED tree
BY DEF Follow

LEMMA FrontOf ==
    ASSUME NEW S, NEW s \in Seq(S), s # <<>>
    PROVE  /\ Front(s) \in Seq(S)
           /\ Len(Front(s)) = Len(s) - 1
           /\ \A i \in 1 .. Len(s) - 1 : Front(s)[i] = s[i]
<1>1. Len(s) \in Nat /\ Len(s) > 0 /\ \A i \in 1 .. Len(s) - 1 : s[i] \in S
  OBVIOUS
<1>2. Len(s) - 1 \in Int /\ 1 \in Int
  BY <1>1
<1> HIDE DEF Front
<1>3. /\ SubSeq(s, 1, Len(s) - 1) \in Seq(S)
      /\ Len(SubSeq(s, 1, Len(s) - 1)) = IF 1 <= Len(s) - 1 THEN Len(s) - 1 - 1 + 1 ELSE 0
      /\ \A i \in 1 .. Len(s) - 1 - 1 + 1 : SubSeq(s, 1, Len(s) - 1)[i] = s[1 + i - 1]
  BY ONLY <1>1, <1>2, SubSeqProperties
<1>4. Front(s) = SubSeq(s, 1, Len(s) - 1)
  BY DEF Front
<1>5. Len(s) - 1 - 1 + 1 = Len(s) - 1
  BY <1>1
<1>6. \A i \in 1 .. Len(s) - 1 : 1 + i - 1 = i
  BY <1>1
<1>7. ~ (1 <= Len(s) - 1) => Len(s) - 1 = 0
  <2>1. \A n \in Nat : n > 0 => (~ (1 <= n - 1) => n - 1 = 0)
    OBVIOUS
  <2> QED BY ONLY <1>1, <2>1
<1> QED BY ONLY <1>3, <1>4, <1>5, <1>6, <1>7

LEMMA Lasts ==
    ASSUME NEW S, NEW s \in Seq(S)
    PROVE  /\ s # <<>> => Last(s) \in S /\ Last(s) = s[Len(s)] /\ Len(s) \in Nat \ {0}
           /\ \A x \in S : /\ Append(s, x) \in Seq(S)
                           /\ Len(Append(s, x)) = Len(s) + 1
                           /\ Append(s, x)[Len(s) + 1] = x
                           /\ \A i \in 1 .. Len(s) : Append(s, x)[i] = s[i]
BY DEF Last

-----------------------------------------------------------------------------
(* Types.                                                                  *)

TreeOK ==
    /\ all \in Seq(Region) /\ Len(all) \in 1 .. MaxRegions
    /\ stack \in Seq(DOMAIN all) /\ stack # <<>> /\ stack[1] = Root
    /\ ran \in Seq([region : DOMAIN all, lanes : SUBSET Lanes])
    /\ BackInv /\ AscendInv

LEMMA CurOf ==
    ASSUME TreeOK
    PROVE  /\ Len(all) \in Nat /\ DOMAIN all = 1 .. Len(all) /\ Root \in DOMAIN all
           /\ Len(stack) \in Nat \ {0} /\ DOMAIN stack = 1 .. Len(stack)
           /\ Cur \in DOMAIN all /\ Cur = stack[Len(stack)]
           /\ Cur # Root => Len(stack) > 1
           /\ \A d \in 1 .. Len(stack) - 1 : stack[d] < Cur
           /\ all[Cur] \in Region
BY Lasts DEF TreeOK, Cur, Last, Root, AscendInv

(* A region is made, that refers to regions there are.                     *)
LEMMA Made ==
    ASSUME TreeOK, Len(all) < MaxRegions,
           NEW e \in Region, e.parent \in DOMAIN all, e.pairedIf \in 0 .. Len(all),
           all' = Append(all, e), ran' = ran
    PROVE  /\ all' \in Seq(Region) /\ Len(all') \in 1 .. MaxRegions
           /\ Len(all') = New /\ DOMAIN all' = 1 .. New
           /\ all'[New] = e
           /\ \A r \in DOMAIN all : all'[r] = all[r]
           /\ ran' \in Seq([region : DOMAIN all', lanes : SUBSET Lanes])
           /\ BackInv'
<1> USE DEF TreeOK, New
<1>1. /\ all' \in Seq(Region) /\ Len(all') = New /\ DOMAIN all' = 1 .. New
      /\ all'[New] = e /\ \A r \in DOMAIN all : all'[r] = all[r]
  OBVIOUS
<1>2. ran' \in Seq([region : DOMAIN all', lanes : SUBSET Lanes])
  <2>1. [region : DOMAIN all, lanes : SUBSET Lanes] \subseteq [region : DOMAIN all', lanes : SUBSET Lanes]
    BY <1>1
  <2>2. ran \in Seq([region : DOMAIN all, lanes : SUBSET Lanes])
    OBVIOUS
  <2> QED BY ONLY <2>1, <2>2, ran' = ran, SeqMonotonic
<1>3. BackInv'
  BY <1>1 DEF BackInv, Root
<1> QED BY <1>1, <1>2, <1>3, RegionsAssumption

(* A sequence whose last element is above the ones it keeps, in order.     *)
LEMMA StaysSorted ==
    ASSUME TreeOK, NEW n \in Nat, DOMAIN stack' = 1 .. n, n <= Len(stack) + 1,
           \A d \in 1 .. n - 1 : d <= Len(stack) /\ stack'[d] = stack[d],
           n > 0 => stack'[n] = New \/ (n <= Len(stack) /\ stack'[n] = stack[n])
    PROVE  AscendInv'
<1> SUFFICES ASSUME NEW c \in 1 .. n, NEW d \in 1 .. n, c < d
             PROVE  stack'[c] < stack'[d]
  BY DEF AscendInv
<1>1. DOMAIN stack = 1 .. Len(stack) /\ \A i \in 1 .. Len(stack) : stack[i] \in 1 .. Len(all)
  BY DEF TreeOK
<1>2. stack'[c] = stack[c] /\ c \in 1 .. Len(stack)
  BY <1>1 DEF TreeOK
<1>3. CASE stack'[d] = New
  BY <1>1, <1>2, <1>3 DEF New, TreeOK
<1>4. CASE stack'[d] = stack[d] /\ d \in 1 .. Len(stack)
  BY <1>1, <1>2, <1>4 DEF TreeOK, AscendInv
<1> QED BY <1>3, <1>4, <1>1 DEF TreeOK

LEMMA MakeRegionType ==
    ASSUME NEW kind \in Kind, NEW parent \in 0 .. MaxRegions
    PROVE  MakeRegion(kind, parent) \in Region
BY RegionsAssumption DEF MakeRegion, Region, Kind

LEMMA Refined ==
    ASSUME NEW m \in Region
    PROVE  /\ \A c \in SUBSET Conds : [m EXCEPT !.cond = c] \in Region
           /\ \A p \in 0 .. MaxRegions : [m EXCEPT !.pairedIf = p] \in Region
           /\ \A b \in BOOLEAN : [m EXCEPT !.balanced = b] \in Region
           /\ \A b \in BOOLEAN : [m EXCEPT !.rerouted = b] \in Region
BY DEF Region

(* What a region is made with. *)
OpenedIf   == [MakeRegion("If", Cur) EXCEPT !.cond = {vcc}]
ElseArm    == [MakeRegion("Else", all[Cur].parent) EXCEPT !.pairedIf = Cur]
RerouteArm == [MakeRegion("Else", all[Cur].parent) EXCEPT !.balanced = FALSE,
                                                         !.rerouted = TRUE]

LEMMA NewRegions ==
    ASSUME TreeOK
    PROVE  /\ vcc \in Conds => OpenedIf \in Region
           /\ OpenedIf.kind = "If" /\ OpenedIf.cond = {vcc} /\ OpenedIf.parent = Cur
           /\ OpenedIf.pairedIf = 0 /\ OpenedIf.rerouted = FALSE
           /\ ElseArm \in Region
           /\ ElseArm.kind = "Else" /\ ElseArm.parent = all[Cur].parent
           /\ ElseArm.pairedIf = Cur /\ ElseArm.rerouted = FALSE
           /\ RerouteArm \in Region
           /\ RerouteArm.kind = "Else" /\ RerouteArm.parent = all[Cur].parent
           /\ RerouteArm.pairedIf = 0 /\ RerouteArm.rerouted = TRUE
<1>1. Cur \in 0 .. MaxRegions /\ all[Cur].parent \in 0 .. MaxRegions
  <2>1. Cur \in 1 .. Len(all) /\ Len(all) \in 1 .. MaxRegions
    BY CurOf DEF TreeOK
  <2>2. all[Cur].parent \in 0 .. MaxRegions
    BY CurOf DEF Region
  <2> HIDE DEF Cur
  <2> QED BY <2>1, <2>2, RegionsAssumption
<1>2. MakeRegion("If", Cur) \in Region /\ MakeRegion("Else", all[Cur].parent) \in Region
  BY <1>1, MakeRegionType DEF Kind
<1>3. /\ vcc \in Conds => OpenedIf \in Region
      /\ ElseArm \in Region
      /\ [MakeRegion("Else", all[Cur].parent) EXCEPT !.balanced = FALSE] \in Region
  <2> HIDE DEF MakeRegion, Cur, Region
  <2> QED BY <1>1, <1>2, Refined DEF OpenedIf, ElseArm
<1>4. RerouteArm \in Region
  <2> HIDE DEF MakeRegion, Cur, Region
  <2> QED BY <1>3, Refined DEF RerouteArm
<1> QED BY <1>3, <1>4 DEF OpenedIf, ElseArm, RerouteArm, MakeRegion

(* The tree has a new region e. *)
Grown(e) ==
    /\ DOMAIN all' = 1 .. New
    /\ all'[New] = e
    /\ \A r \in DOMAIN all : all'[r] = all[r]

LEMMA OpenTree ==
    ASSUME TreeOK, vcc \in Conds, Len(all) < MaxRegions, OpenRegion
    PROVE  /\ TreeOK' /\ Grown(OpenedIf) /\ ran' = ran
           /\ Len(stack') = Len(stack) + 1
           /\ stack'[Len(stack) + 1] = New
           /\ \A d \in 1 .. Len(stack) : stack'[d] = stack[d]
<1> DEFINE e == OpenedIf
<1>2. all' = Append(all, e) /\ ran' = ran /\ stack' = Append(stack, New)
  BY DEF OpenRegion, OpenedIf
<1>1. e \in Region /\ e.parent \in DOMAIN all /\ e.pairedIf \in 0 .. Len(all)
  BY NewRegions, CurOf
<1> HIDE DEF e
<1>3. /\ Len(all') = New /\ DOMAIN all' = 1 .. New /\ all' \in Seq(Region) /\ Grown(e)
      /\ Len(all') \in 1 .. MaxRegions /\ BackInv'
      /\ ran' \in Seq([region : DOMAIN all', lanes : SUBSET Lanes])
  BY <1>1, <1>2, Made DEF Grown
<1>4. /\ stack' \in Seq(DOMAIN all') /\ Len(stack') = Len(stack) + 1
      /\ stack'[Len(stack) + 1] = New /\ \A d \in 1 .. Len(stack) : stack'[d] = stack[d]
  BY <1>2, <1>3, CurOf DEF TreeOK, New
<1>5. AscendInv'
  <2>1. Len(stack) + 1 \in Nat /\ DOMAIN stack' = 1 .. Len(stack) + 1
        /\ \A d \in 1 .. Len(stack) + 1 - 1 : d <= Len(stack) /\ stack'[d] = stack[d]
    BY <1>4, CurOf
  <2> QED BY ONLY <2>1, <1>4, CurOf, TreeOK, StaysSorted
<1> QED BY <1>2, <1>3, <1>4, <1>5, CurOf DEF TreeOK, Root, e

(* Else and Reroute: the top of the stack is replaced.                     *)
LEMMA ReplaceTree ==
    ASSUME TreeOK, Len(all) < MaxRegions, Cur # Root,
           NEW e \in Region, e.parent = all[Cur].parent, e.pairedIf \in {0, Cur},
           all' = Append(all, e), ReplaceTop(New), ran' = ran
    PROVE  /\ TreeOK' /\ Grown(e) /\ ran' = ran
           /\ Len(stack') = Len(stack)
           /\ stack'[Len(stack)] = New
           /\ \A d \in 1 .. Len(stack) - 1 : stack'[d] = stack[d]
<1>1. e.parent \in DOMAIN all /\ e.pairedIf \in 0 .. Len(all)
  BY CurOf DEF TreeOK, BackInv
<1>2. /\ Len(all') = New /\ DOMAIN all' = 1 .. New /\ all' \in Seq(Region) /\ Grown(e)
      /\ Len(all') \in 1 .. MaxRegions /\ BackInv'
      /\ ran' \in Seq([region : DOMAIN all', lanes : SUBSET Lanes])
  BY <1>1, Made DEF Grown
<1>3. /\ stack' \in Seq(DOMAIN all') /\ Len(stack') = Len(stack)
      /\ stack'[Len(stack)] = New /\ \A d \in 1 .. Len(stack) - 1 : stack'[d] = stack[d]
  <2>1. DOMAIN all \subseteq DOMAIN all' /\ New \in DOMAIN all' /\ Len(stack) \in 1 .. Len(stack)
    BY <1>2, CurOf DEF New
  <2>2. stack \in Seq(DOMAIN all')
    BY ONLY <2>1, TreeOK, SeqMonotonic DEF TreeOK
  <2>3. stack' = [stack EXCEPT ![Len(stack)] = New]
    BY DEF ReplaceTop
  <2>4. Len(stack) \in DOMAIN stack
    BY CurOf
  <2> DEFINE n == Len(stack)
  <2>5. n \in Nat /\ DOMAIN stack = 1 .. n
    BY CurOf
  <2> HIDE DEF n
  <2>6. \A d \in 1 .. n - 1 : d \in DOMAIN stack /\ d # n
    BY ONLY <2>5
  <2>7. \A d \in 1 .. Len(stack) - 1 : d \in DOMAIN stack /\ d # Len(stack)
    BY ONLY <2>6 DEF n
  <2> HIDE DEF New
  <2> QED BY ONLY <2>1, <2>2, <2>3, <2>4, <2>7, ExceptSeq
<1>4. AscendInv'
  <2> DEFINE n == Len(stack)
  <2>1. n \in Nat
    BY CurOf
  <2>2. DOMAIN stack' = 1 .. n /\ \A d \in 1 .. n - 1 : stack'[d] = stack[d]
    BY ONLY <1>3 DEF n
  <2> HIDE DEF n
  <2>3. n \in Nat /\ DOMAIN stack' = 1 .. n /\ n <= n + 1
        /\ \A d \in 1 .. n - 1 : d <= n /\ stack'[d] = stack[d]
    BY ONLY <2>1, <2>2
  <2> QED BY ONLY <2>3, <1>3, TreeOK, StaysSorted DEF n
<1> QED BY <1>2, <1>3, <1>4, CurOf DEF TreeOK, Root

LEMMA ElseTree ==
    ASSUME TreeOK, Len(all) < MaxRegions, ElseRegion
    PROVE  /\ TreeOK' /\ ran' = ran
           /\ Len(stack') = Len(stack)
           /\ Cur = Root => UNCHANGED tree
           /\ Cur # Root =>
                 /\ Grown(ElseArm)
                 /\ stack'[Len(stack)] = New
                 /\ \A d \in 1 .. Len(stack) - 1 : stack'[d] = stack[d]
<1>1. CASE Cur = Root
  BY <1>1, CurOf DEF ElseRegion, tree, TreeOK, BackInv, AscendInv
<1>2. CASE Cur # Root
  <2> DEFINE e == ElseArm
  <2>1. e \in Region /\ e.parent = all[Cur].parent /\ e.pairedIf = Cur
    BY NewRegions
  <2>2. all' = Append(all, e) /\ ReplaceTop(New) /\ ran' = ran
    BY <1>2 DEF ElseRegion, ElseArm
  <2> HIDE DEF e
  <2> QED BY <1>2, <2>1, <2>2, ReplaceTree DEF e
<1> QED BY <1>1, <1>2

LEMMA RerouteTree ==
    ASSUME TreeOK, Len(all) < MaxRegions, RerouteRegion
    PROVE  /\ TreeOK' /\ ran' = ran
           /\ Len(stack') = Len(stack)
           /\ Cur = Root => UNCHANGED tree
           /\ Cur # Root =>
                 /\ Grown(RerouteArm)
                 /\ stack'[Len(stack)] = New
                 /\ \A d \in 1 .. Len(stack) - 1 : stack'[d] = stack[d]
<1>1. CASE Cur = Root
  BY <1>1, CurOf DEF RerouteRegion, tree, TreeOK, BackInv, AscendInv
<1>2. CASE Cur # Root
  <2> DEFINE e == RerouteArm
  <2>1. e \in Region /\ e.parent = all[Cur].parent /\ e.pairedIf = 0
    BY NewRegions
  <2>2. all' = Append(all, e) /\ ReplaceTop(New) /\ ran' = ran
    BY <1>2 DEF RerouteRegion, RerouteArm
  <2> HIDE DEF e
  <2> QED BY <1>2, <2>1, <2>2, ReplaceTree DEF e
<1> QED BY <1>1, <1>2

LEMMA CloseTree ==
    ASSUME TreeOK, CloseRegion
    PROVE  /\ TreeOK'
           /\ DOMAIN all' = DOMAIN all
           /\ \A r \in DOMAIN all : /\ all'[r].kind = all[r].kind
                                    /\ all'[r].cond = all[r].cond
                                    /\ all'[r].parent = all[r].parent
                                    /\ all'[r].pairedIf = all[r].pairedIf
                                    /\ all'[r].rerouted = all[r].rerouted
           /\ ran' = ran
           /\ Len(stack) > 1 => Len(stack') = Len(stack) - 1
           /\ Len(stack) <= 1 => UNCHANGED tree
           /\ \A d \in 1 .. Len(stack) - 1 : stack'[d] = stack[d]
<1>1. CASE Len(stack) <= 1
  BY <1>1, CurOf DEF CloseRegion, tree, TreeOK, BackInv, AscendInv
<1>2. CASE ~ (Len(stack) <= 1)
  <2>1. PICK b \in BOOLEAN : all' = [all EXCEPT ![Cur].balanced = b]
    BY <1>2 DEF CloseRegion, BalancedAtClose
  <2>2. stack' = Front(stack) /\ ran' = ran
    BY <1>2 DEF CloseRegion
  <2>3. /\ all' \in Seq(Region) /\ Len(all') = Len(all) /\ DOMAIN all' = DOMAIN all
        /\ \A r \in DOMAIN all : /\ all'[r].kind = all[r].kind
                                 /\ all'[r].cond = all[r].cond
                                 /\ all'[r].parent = all[r].parent
                                 /\ all'[r].pairedIf = all[r].pairedIf
                                 /\ all'[r].rerouted = all[r].rerouted
    <3>1. \A r \in DOMAIN all : all'[r] = IF r = Cur THEN [all[r] EXCEPT !.balanced = b] ELSE all[r]
      BY <2>1, CurOf DEF TreeOK
    <3>2. \A r \in DOMAIN all : all[r] \in Region
      BY DEF TreeOK
    <3>3. \A r \in DOMAIN all : all'[r] \in Region
      BY <3>1, <3>2 DEF Region
    <3>4. all' \in Seq(Region) /\ Len(all') = Len(all) /\ DOMAIN all' = DOMAIN all
      <4>1. [all[Cur] EXCEPT !.balanced = b] \in Region
        BY <3>1, <3>3, CurOf
      <4> HIDE DEF Region, Cur
      <4> QED BY ONLY <2>1, <4>1, ExceptSeq, CurOf, TreeOK DEF TreeOK
    <3> QED BY <3>1, <3>2, <3>4 DEF Region
  <2>4. BackInv'
    BY <2>3 DEF BackInv, TreeOK
  <2>5. /\ stack' \in Seq(DOMAIN all') /\ Len(stack') = Len(stack) - 1
        /\ \A d \in 1 .. Len(stack) - 1 : stack'[d] = stack[d]
    BY <2>2, <2>3, FrontOf DEF TreeOK
  <2>6. AscendInv'
    <3> DEFINE n == Len(stack) - 1
    <3>1. n \in Nat /\ DOMAIN stack' = 1 .. n /\ n <= Len(stack) + 1
          /\ \A d \in 1 .. n : d <= Len(stack) /\ stack'[d] = stack[d]
      BY <1>2, <2>5, CurOf
    <3>2. /\ \A d \in 1 .. n - 1 : d <= Len(stack) /\ stack'[d] = stack[d]
          /\ n > 0 => n <= Len(stack) /\ stack'[n] = stack[n]
      BY <3>1
    <3> HIDE DEF n
    <3> QED BY ONLY <3>1, <3>2, TreeOK, StaysSorted
  <2> QED BY <1>2, <2>2, <2>3, <2>4, <2>5, <2>6, CurOf DEF TreeOK, Root
<1> QED BY <1>1, <1>2

LEMMA NarrowTree ==
    ASSUME TreeOK, vcc \in Conds, NarrowRegion
    PROVE  /\ TreeOK' /\ stack' = stack /\ ran' = ran
           /\ DOMAIN all' = DOMAIN all
           /\ \A r \in DOMAIN all :
                 all'[r] = IF r = Cur /\ Cur # Root
                           THEN [all[r] EXCEPT !.cond = all[r].cond \union {vcc}] ELSE all[r]
           /\ \A r \in DOMAIN all : /\ all'[r].kind = all[r].kind
                                    /\ all'[r].parent = all[r].parent
                                    /\ all'[r].pairedIf = all[r].pairedIf
                                    /\ all'[r].rerouted = all[r].rerouted
<1>1. stack' = stack /\ ran' = ran
  BY DEF NarrowRegion
<1>2. \A r \in DOMAIN all :
         all'[r] = IF r = Cur /\ Cur # Root
                   THEN [all[r] EXCEPT !.cond = all[r].cond \union {vcc}] ELSE all[r]
  BY CurOf DEF NarrowRegion, TreeOK
<1>3. \A r \in DOMAIN all : all[r] \in Region
  BY DEF TreeOK
<1>4. \A r \in DOMAIN all : all'[r] \in Region /\ all'[r].parent = all[r].parent
                            /\ all'[r].pairedIf = all[r].pairedIf
  <2> SUFFICES ASSUME NEW r \in DOMAIN all
               PROVE  all'[r] \in Region /\ all'[r].parent = all[r].parent
                      /\ all'[r].pairedIf = all[r].pairedIf
    OBVIOUS
  <2>1. all[r].cond \union {vcc} \in SUBSET Conds
    BY <1>3 DEF Region
  <2>2. [all[r] EXCEPT !.cond = all[r].cond \union {vcc}] \in Region
    <3> DEFINE c == all[r].cond \union {vcc}
    <3>1. c \in SUBSET Conds
      BY <2>1
    <3> HIDE DEF c
    <3> QED BY <1>3, <3>1 DEF Region
  <2> QED BY <1>2, <1>3, <2>2 DEF Region
<1>5. all' \in Seq(Region) /\ Len(all') = Len(all) /\ DOMAIN all' = DOMAIN all
  <2>1. CASE Cur = Root
    BY <2>1 DEF NarrowRegion, TreeOK
  <2>2. CASE Cur # Root
    <3>1. all' = [all EXCEPT ![Cur].cond = @ \union {vcc}]
      BY <2>2 DEF NarrowRegion
    <3>2. [all[Cur] EXCEPT !.cond = all[Cur].cond \union {vcc}] \in Region
      BY <1>2, <1>4, <2>2, CurOf
    <3> DEFINE e == [all[Cur] EXCEPT !.cond = all[Cur].cond \union {vcc}]
    <3>3. e \in Region /\ all' = [all EXCEPT ![Cur] = e]
      BY <3>1, <3>2
    <3> HIDE DEF e
    <3> QED BY ONLY <3>3, ExceptSeq, CurOf, TreeOK DEF TreeOK
  <2> QED BY <2>1, <2>2
<1>6. BackInv' /\ AscendInv'
  BY <1>1, <1>4, <1>5 DEF BackInv, AscendInv, TreeOK
<1>7. \A r \in DOMAIN all : all'[r].kind = all[r].kind /\ all'[r].rerouted = all[r].rerouted
  BY <1>2, <1>3 DEF Region
<1> QED BY <1>1, <1>2, <1>4, <1>5, <1>6, <1>7 DEF TreeOK

LEMMA BodyTree ==
    ASSUME TreeOK, exec \subseteq Lanes, AddBody
    PROVE  TreeOK' /\ all' = all /\ stack' = stack
<1>1. /\ ran' = Append(ran, [region |-> Cur, lanes |-> exec])
      /\ all' = all /\ stack' = stack
  BY DEF AddBody
<1>2. [region |-> Cur, lanes |-> exec] \in [region : DOMAIN all, lanes : SUBSET Lanes]
  BY CurOf
<1>3. ran' \in Seq([region : DOMAIN all, lanes : SUBSET Lanes])
  BY <1>1, <1>2, Lasts DEF TreeOK
<1> QED BY <1>1, <1>3 DEF TreeOK, BackInv, AscendInv

(* The masks. *)
MaskOK ==
    /\ exec \subseteq Lanes
    /\ outer \in Seq(SUBSET Lanes)
    /\ entered \in BOOLEAN
    /\ vcc \in Conds
    /\ pending \in [code  : {<<>>, <<OnExec("s_xor")>>, <<OnExec("s_or")>>},
                   lanes : SUBSET Lanes]

LEMMA TypeParts == TypeInv <=> MaskOK /\ TreeOK /\ PendingInv
BY DEF TypeInv, TypeOK, MaskOK, TreeOK

(* The second instructions. *)
LEMMA Seconds ==
    /\ Nothing \in [code  : {<<>>, <<OnExec("s_xor")>>, <<OnExec("s_or")>>},
                   lanes : SUBSET Lanes]
    /\ Nothing.code = <<>>
    /\ <<OnExec("s_xor")>> # <<>> /\ <<OnExec("s_or")>> # <<>>
    /\ <<OnExec("s_xor")>> # <<OnExec("s_or")>>
    /\ Head(<<OnExec("s_xor")>>) = OnExec("s_xor")
    /\ Head(<<OnExec("s_or")>>) = OnExec("s_or")
BY DEF Nothing, OnExec, Insn

(* An else is one instruction or two, and all of them are Else to classify. *)
LEMMA ElseCodes ==
    ASSUME NEW code \in ElseCode
    PROVE  /\ classify(Head(code)) = "Else"
           /\ Len(code) = 1 \/ (Len(code) = 2 /\ Tail(code) = <<OnExec("s_xor")>> /\ SplitElses)
<1>1. code = <<SelfFlip>> \/ code = <<OnExec("s_xor")>>
      \/ (code = <<OrSave, OnExec("s_xor")>> /\ SplitElses)
  BY DEF ElseCode
<1>2. CASE code = <<SelfFlip>>
  <2>1. Head(code) = SelfFlip /\ Len(code) = 1
    BY <1>2
  <2> QED BY <2>1, Roles
<1>3. CASE code = <<OnExec("s_xor")>>
  <2>1. Head(code) = OnExec("s_xor") /\ Len(code) = 1
    BY <1>3
  <2> QED BY <2>1, Roles
<1>4. CASE code = <<OrSave, OnExec("s_xor")>> /\ SplitElses
  <2>1. Head(code) = OrSave /\ Len(code) = 2 /\ Tail(code) = <<OnExec("s_xor")>>
    BY <1>4
  <2> QED BY <1>4, <2>1, Roles
<1> QED BY <1>1, <1>2, <1>3, <1>4

(* Which transition of the tree each action makes, and its room.           *)
LEMMA Transitions ==
    ASSUME TypeInv
    PROVE  /\ Compare => UNCHANGED tree /\ pending = Nothing
           /\ Scalar  => UNCHANGED tree /\ pending = Nothing
           /\ Open    => OpenRegion /\ Len(all) < MaxRegions /\ pending = Nothing
           /\ Narrow  => NarrowRegion /\ pending = Nothing
           /\ Else    => ElseRegion /\ Len(all) < MaxRegions /\ pending = Nothing
           /\ Reroute => RerouteRegion /\ Len(all) < MaxRegions /\ pending = Nothing
           /\ Close   => CloseRegion /\ pending = Nothing
           /\ Latch   => ElseRegion /\ Len(all) < MaxRegions /\ pending = Nothing
           /\ Second  => \/ pending.code = <<OnExec("s_xor")>> /\ ElseRegion /\ Len(all) < MaxRegions
                         \/ pending.code = <<OnExec("s_or")>> /\ CloseRegion
           /\ Body    => AddBody /\ pending = Nothing
<1>0. /\ MaxRegions \in Nat /\ Len(all) \in Nat
      /\ Fits(1) => Len(all) < MaxRegions /\ pending = Nothing
      /\ Fits(0) => pending = Nothing
  BY CurOf, TypeParts, RegionsAssumption DEF Fits
<1>1. Compare => UNCHANGED tree /\ pending = Nothing
  BY <1>0, Roles, Follows DEF Compare
<1>2. Scalar => UNCHANGED tree /\ pending = Nothing
  BY <1>0, Roles, Follows DEF Scalar
<1>3. Open => OpenRegion /\ Len(all) < MaxRegions /\ pending = Nothing
  BY <1>0, Roles, Follows DEF Open
<1>4. Narrow => NarrowRegion /\ pending = Nothing
  BY <1>0, Roles, Follows DEF Narrow
<1>5. Else => ElseRegion /\ Len(all) < MaxRegions /\ pending = Nothing
  <2> SUFFICES ASSUME Else
               PROVE  ElseRegion /\ Len(all) < MaxRegions /\ pending = Nothing
    OBVIOUS
  <2>1. PICK code \in ElseCode : Fits(Len(code)) /\ Follow(Head(code))
    BY DEF Else
  <2>2. classify(Head(code)) = "Else" /\ (Len(code) = 1 \/ Len(code) = 2)
    BY ElseCodes
  <2>3. ElseRegion
    BY <2>1, <2>2, Follows
  <2> QED BY <1>0, <2>1, <2>2, <2>3 DEF Fits
<1>6. Reroute => RerouteRegion /\ Len(all) < MaxRegions /\ pending = Nothing
  BY <1>0, Roles, Follows DEF Reroute
<1>7. Close => CloseRegion /\ pending = Nothing
  BY <1>0, Roles, Follows DEF Close
<1>8. Latch => ElseRegion /\ Len(all) < MaxRegions /\ pending = Nothing
  BY <1>0, Roles, Follows DEF Latch
<1>9. Second => \/ pending.code = <<OnExec("s_xor")>> /\ ElseRegion /\ Len(all) < MaxRegions
                \/ pending.code = <<OnExec("s_or")>> /\ CloseRegion
  <2> SUFFICES ASSUME Second
               PROVE  \/ pending.code = <<OnExec("s_xor")>> /\ ElseRegion /\ Len(all) < MaxRegions
                      \/ pending.code = <<OnExec("s_or")>> /\ CloseRegion
    OBVIOUS
  <2>1. pending.code \in {<<OnExec("s_xor")>>, <<OnExec("s_or")>>}
    BY TypeParts DEF Second, MaskOK, PendingInv
  <2>2. Follow(Head(pending.code))
    BY DEF Second
  <2>3. CASE pending.code = <<OnExec("s_xor")>>
    <3>1. Follow(OnExec("s_xor"))
      BY <2>2, <2>3, Seconds
    <3>2. ElseRegion
      BY <3>1, Roles, Follows
    <3> QED BY <2>3, <3>2, TypeParts DEF PendingInv
  <2>4. CASE pending.code = <<OnExec("s_or")>>
    <3>1. Follow(OnExec("s_or"))
      BY <2>2, <2>4, Seconds
    <3> QED BY <2>4, <3>1, Roles, Follows
  <2> QED BY <2>1, <2>3, <2>4
<1>10. Body => AddBody /\ pending = Nothing
  BY <1>0, Roles, Follows DEF Body
<1> QED BY <1>1, <1>2, <1>3, <1>4, <1>5, <1>6, <1>7, <1>8, <1>9, <1>10

LEMMA TreeStep ==
    ASSUME TypeInv, [Next]_vars
    PROVE  TreeOK'
<1> USE TypeParts
<1>1. CASE UNCHANGED tree
  BY <1>1 DEF tree, TreeOK, BackInv, AscendInv
<1>2. CASE Open
  BY <1>2, Transitions, OpenTree DEF MaskOK
<1>3. CASE Narrow
  BY <1>3, Transitions, NarrowTree DEF MaskOK
<1>4. CASE Else \/ Latch
  BY <1>4, Transitions, ElseTree
<1>5. CASE Reroute
  BY <1>5, Transitions, RerouteTree
<1>6. CASE Close
  BY <1>6, Transitions, CloseTree
<1>7. CASE Second
  BY <1>7, Transitions, ElseTree, CloseTree
<1>8. CASE Body
  BY <1>8, Transitions, BodyTree DEF MaskOK
<1>9. CASE Compare \/ Scalar \/ UNCHANGED vars
  BY <1>1, <1>9, Transitions DEF vars
<1> QED BY <1>2, <1>3, <1>4, <1>5, <1>6, <1>7, <1>8, <1>9 DEF Next

LEMMA MaskStep ==
    ASSUME TypeInv, [Next]_vars
    PROVE  MaskOK' /\ PendingInv'
<1> USE TypeParts
<1> DEFINE Pends == [code : {<<>>, <<OnExec("s_xor")>>, <<OnExec("s_or")>>}, lanes : SUBSET Lanes]
<1>0. /\ exec \subseteq Lanes /\ outer \in Seq(SUBSET Lanes) /\ entered \in BOOLEAN
      /\ vcc \in Conds /\ pending \in Pends /\ Nothing \in Pends
  BY Seconds DEF MaskOK
<1>a. ASSUME pending' = Nothing
      PROVE  pending' \in Pends /\ PendingInv'
  BY <1>0, <1>a, Seconds DEF PendingInv
<1>b. outer # <<>> => Last(outer) \subseteq Lanes /\ Front(outer) \in Seq(SUBSET Lanes)
  BY <1>0, Lasts, FrontOf
<1>1. CASE Compare
  BY <1>0, <1>1, <1>a, Transitions DEF Compare, MaskOK
<1>2. CASE Scalar
  BY <1>0, <1>2, <1>a, Transitions DEF Scalar, MaskOK, masks
<1>3. CASE Open
  BY <1>0, <1>3, <1>a, Transitions DEF Open, MaskOK
<1>4. CASE Narrow
  BY <1>0, <1>4, <1>a, Transitions DEF Narrow, MaskOK
<1>5. CASE Else
  <2>1. PICK code \in ElseCode :
            /\ Fits(Len(code))
            /\ IF Len(code) = 1
               THEN exec' = Last(outer) \ exec /\ UNCHANGED pending
               ELSE exec' = Last(outer)
                    /\ pending' = [code |-> Tail(code), lanes |-> Last(outer) \ exec]
    BY <1>5 DEF Else
  <2>2. outer # <<>> /\ entered' = FALSE /\ UNCHANGED <<outer, vcc>> /\ pending = Nothing
    BY <1>5, Transitions DEF Else
  <2>3. CASE Len(code) = 1
    BY <1>0, <1>a, <1>b, <2>1, <2>2, <2>3 DEF MaskOK
  <2>4. CASE Len(code) # 1
    <3>1. Len(code) = 2 /\ Tail(code) = <<OnExec("s_xor")>>
      BY <2>4, ElseCodes
    <3>2. pending' = [code |-> <<OnExec("s_xor")>>, lanes |-> Last(outer) \ exec]
          /\ exec' = Last(outer)
      BY <2>1, <2>4, <3>1
    <3>3. pending' \in Pends /\ pending'.code = <<OnExec("s_xor")>>
      BY <1>b, <2>2, <3>2
    <3>4. Len(all') < MaxRegions
      <4>1. Len(all) + 2 <= MaxRegions /\ Len(all) \in Nat
        BY <2>1, <3>1, CurOf DEF Fits
      <4>2. TreeOK' /\ DOMAIN all' \in {DOMAIN all, 1 .. New}
        BY <1>5, Transitions, ElseTree DEF Grown, tree
      <4>3. Len(all') \in {Len(all), New}
        <5>1. DOMAIN all' = 1 .. Len(all') /\ Len(all') \in Nat /\ Len(all') # 0
          BY <4>2 DEF TreeOK
        <5>2. DOMAIN all = 1 .. Len(all) /\ Len(all) # 0
          BY CurOf DEF TreeOK
        <5> DEFINE n == Len(all')
                   m == Len(all)
        <5>3. n \in Nat /\ m \in Nat /\ n # 0 /\ (1 .. n = 1 .. m \/ 1 .. n = 1 .. m + 1)
          BY <4>1, <4>2, <5>1, <5>2 DEF New
        <5> HIDE DEF n, m
        <5>4. n = m \/ n = m + 1
          BY <5>3
        <5> QED BY <5>4 DEF n, m, New
      <4> QED BY <4>1, <4>3, RegionsAssumption DEF New
    <3>5. PendingInv'
      BY <3>3, <3>4, Seconds DEF PendingInv
    <3> QED BY <1>0, <1>b, <2>2, <3>2, <3>3, <3>5 DEF MaskOK
  <2> QED BY <2>3, <2>4
<1>6. CASE Reroute
  BY <1>0, <1>6, <1>a, <1>b, Transitions DEF Reroute, MaskOK
<1>7. CASE Close
  BY <1>0, <1>7, <1>a, <1>b, Transitions DEF Close, MaskOK
<1>8. CASE Latch
  <2>1. pending' \in Pends /\ pending'.code = <<OnExec("s_or")>> /\ exec' = {}
    BY <1>0, <1>8 DEF Latch
  <2> QED BY <1>0, <1>8, <2>1, Seconds DEF Latch, MaskOK, PendingInv
<1>9. CASE Second
  BY <1>0, <1>9, <1>a DEF Second, MaskOK
<1>10. CASE Body
  BY <1>0, <1>10, <1>a, Transitions DEF Body, MaskOK
<1>11. CASE UNCHANGED vars
  BY <1>0, <1>11 DEF vars, masks, tree, MaskOK, PendingInv
<1> QED BY <1>1, <1>2, <1>3, <1>4, <1>5, <1>6, <1>7, <1>8, <1>9, <1>10, <1>11 DEF Next

LEMMA TypeStart == Init => TypeInv
<1> SUFFICES ASSUME Init PROVE TypeInv
  OBVIOUS
<1>1. MakeRegion("Root", 0) \in Region /\ MakeRegion("Root", 0).parent = 0
      /\ MakeRegion("Root", 0).pairedIf = 0
  BY RegionsAssumption, MakeRegionType DEF Kind, MakeRegion
<1>2. all \in Seq(Region) /\ Len(all) = 1 /\ DOMAIN all = {1} /\ all[1] = MakeRegion("Root", 0)
  BY <1>1 DEF Init
<1>3. stack \in Seq(DOMAIN all) /\ stack # <<>> /\ stack[1] = Root /\ DOMAIN stack = {1}
  BY <1>2 DEF Init, Root
<1>4. TreeOK
  BY <1>1, <1>2, <1>3, RegionsAssumption DEF TreeOK, BackInv, AscendInv, Root, Init
<1>5. MaskOK /\ PendingInv
  <2>1. pending = Nothing /\ pending.code = <<>>
    BY Seconds DEF Init
  <2>2. PendingInv
    BY <2>1, Seconds DEF PendingInv
  <2>3. outer = <<>> /\ exec = Lanes /\ entered \in BOOLEAN /\ vcc \in Conds
    BY DEF Init
  <2>4. outer \in Seq(SUBSET Lanes)
    BY ONLY <2>3
  <2> QED BY <2>1, <2>2, <2>3, <2>4, Seconds DEF MaskOK
<1> QED BY <1>4, <1>5, TypeParts

THEOREM TreeTypes == Spec => []TypeInv
<1>1. TypeInv /\ [Next]_vars => TypeInv'
  <2>1. TypeInv' <=> MaskOK' /\ TreeOK' /\ PendingInv'
    BY DEF TypeInv, TypeOK, MaskOK, TreeOK
  <2> QED BY <2>1, TreeStep, MaskStep
<1> QED BY <1>1, TypeStart, PTL DEF Spec

(* Every reachable state is of its type: the stack holds regions of the    *)
(* tree, the root below all of them (structure.C:836-1050).                *)
THEOREM TreeTypeOK == Spec => []TypeOK
BY TreeTypes, PTL DEF TypeInv

-----------------------------------------------------------------------------
(* Nesting.                                                                *)

(* The top of the stack is the root just outside of every region.          *)
LEMMA Depth ==
    ASSUME NestInv
    PROVE  /\ Len(outer) \in Nat /\ DOMAIN outer = 1 .. Len(outer)
           /\ Len(stack) = Len(outer) + 1
           /\ outer = <<>> <=> Len(outer) = 0
           /\ outer = <<>> <=> Cur = Root
           /\ TreeOK /\ MaskOK
<1>1. TreeOK /\ MaskOK /\ StackIsNesting
  BY TypeParts DEF NestInv
<1>2. /\ Len(outer) \in Nat /\ DOMAIN outer = 1 .. Len(outer)
      /\ outer = <<>> <=> Len(outer) = 0
  BY <1>1 DEF MaskOK
<1>3. Len(stack) = Len(outer) + 1
  BY <1>1 DEF StackIsNesting
<1>4. Len(stack) = 1 => Cur = Root
  BY <1>1, CurOf DEF TreeOK
<1>5. Len(stack) # 1 => Cur # Root
  <2> SUFFICES ASSUME Len(stack) # 1 PROVE Cur # Root
    OBVIOUS
  <2>1. 1 \in 1 .. Len(stack) - 1
    BY <1>1, CurOf
  <2> QED BY <1>1, <2>1, CurOf DEF TreeOK, Root
<1>6. outer = <<>> <=> Len(stack) = 1
  BY <1>2, <1>3
<1> QED BY <1>1, <1>2, <1>3, <1>4, <1>5, <1>6

(* An else or a reroute takes the place of the arm that it follows.        *)
LEMMA NestSibling ==
    ASSUME NestInv, Cur # Root, NEW e, Grown(e), e.parent = all[Cur].parent,
           Len(stack') = Len(stack), stack'[Len(stack)] = New,
           \A d \in 1 .. Len(stack) - 1 : stack'[d] = stack[d], outer' = outer
    PROVE  StackIsNesting'
<1>1. Len(stack') = Len(outer') + 1 /\ DOMAIN outer' = 1 .. Len(stack) - 1
  BY Depth
<1>2. ASSUME NEW d \in DOMAIN outer' PROVE all'[stack'[d + 1]].parent = stack'[d]
  <2>1. d \in 1 .. Len(stack) - 1 /\ Len(stack) \in Nat /\ d \in DOMAIN outer
    BY <1>1, <1>2, Depth, CurOf
  <2>2. stack'[d] = stack[d] /\ all[stack[d + 1]].parent = stack[d]
    BY <2>1 DEF NestInv, StackIsNesting
  <2>3. CASE d + 1 = Len(stack)
    <3>1. stack[d + 1] = Cur
      BY <2>3, Depth, CurOf
    <3>2. all'[stack'[d + 1]].parent = all[Cur].parent
      BY <2>3 DEF Grown
    <3> QED BY <2>2, <3>1, <3>2
  <2>4. CASE d + 1 # Len(stack)
    <3>1. d + 1 \in 1 .. Len(stack) - 1 /\ stack[d + 1] \in DOMAIN all
      BY <2>1, <2>4, Depth DEF TreeOK
    <3>2. stack'[d + 1] = stack[d + 1] /\ all'[stack[d + 1]] = all[stack[d + 1]]
      BY <3>1 DEF Grown
    <3> QED BY <2>2, <3>2
  <2> QED BY <2>3, <2>4
<1> QED BY <1>1, <1>2 DEF StackIsNesting

LEMMA NestElse ==
    ASSUME NestInv, Len(all) < MaxRegions, ElseRegion, outer' = outer
    PROVE  StackIsNesting'
<1>1. CASE Cur = Root
  BY <1>1, Depth, ElseTree DEF tree, NestInv, StackIsNesting
<1>2. CASE Cur # Root
  BY <1>2, Depth, ElseTree, NewRegions, NestSibling
<1> QED BY <1>1, <1>2

LEMMA NestReroute ==
    ASSUME NestInv, Len(all) < MaxRegions, RerouteRegion, outer' = outer
    PROVE  StackIsNesting'
<1>1. CASE Cur = Root
  BY <1>1, Depth, RerouteTree DEF tree, NestInv, StackIsNesting
<1>2. CASE Cur # Root
  BY <1>2, Depth, RerouteTree, NewRegions, NestSibling
<1> QED BY <1>1, <1>2

LEMMA NestOpen ==
    ASSUME NestInv, Len(all) < MaxRegions, OpenRegion, outer' = Append(outer, exec)
    PROVE  StackIsNesting'
<1>1. /\ Grown(OpenedIf) /\ Len(stack') = Len(stack) + 1 /\ stack'[Len(stack) + 1] = New
      /\ \A d \in 1 .. Len(stack) : stack'[d] = stack[d]
  BY Depth, OpenTree DEF MaskOK
<1>2. Len(outer') = Len(outer) + 1 /\ DOMAIN outer' = 1 .. Len(stack)
  BY Depth DEF MaskOK
<1>3. ASSUME NEW d \in 1 .. Len(stack) PROVE all'[stack'[d + 1]].parent = stack'[d]
  <2>1. CASE d = Len(stack)
    BY <1>1, <2>1, Depth, CurOf, NewRegions DEF Grown
  <2>2. CASE d # Len(stack)
    <3>1. d \in DOMAIN outer /\ d + 1 \in 1 .. Len(stack) /\ stack[d + 1] \in DOMAIN all
      BY <2>2, Depth, CurOf DEF TreeOK
    <3>2. all[stack[d + 1]].parent = stack[d]
      BY <3>1 DEF NestInv, StackIsNesting
    <3> QED BY <1>1, <3>1, <3>2 DEF Grown
  <2> QED BY <2>1, <2>2
<1> QED BY <1>1, <1>2, <1>3, Depth DEF StackIsNesting

LEMMA NestClose ==
    ASSUME NestInv, CloseRegion,
           IF outer = <<>> THEN outer' = outer ELSE outer' = Front(outer)
    PROVE  StackIsNesting'
<1>1. CASE outer = <<>>
  BY <1>1, Depth, CloseTree DEF tree, NestInv, StackIsNesting
<1>2. CASE outer # <<>>
  <2>1. Len(outer') = Len(outer) - 1 /\ outer' \in Seq(SUBSET Lanes)
    BY <1>2, Depth, FrontOf DEF MaskOK
  <2>2. /\ Len(stack') = Len(stack) - 1
        /\ \A d \in 1 .. Len(stack) - 1 : stack'[d] = stack[d]
        /\ \A r \in DOMAIN all : all'[r].parent = all[r].parent
    BY <1>2, Depth, CloseTree
  <2>3. ASSUME NEW d \in DOMAIN outer' PROVE all'[stack'[d + 1]].parent = stack'[d]
    <3>1. /\ d \in DOMAIN outer /\ d \in 1 .. Len(stack) - 1 /\ d + 1 \in 1 .. Len(stack) - 1
          /\ stack[d + 1] \in DOMAIN all
      BY <2>1, <2>3, Depth, CurOf DEF TreeOK
    <3> QED BY <2>2, <3>1 DEF NestInv, StackIsNesting
  <2> QED BY <2>1, <2>2, <2>3, Depth DEF StackIsNesting
<1> QED BY <1>1, <1>2

LEMMA NestStep ==
    ASSUME LoopsOutside, NestInv, [Next]_vars
    PROVE  StackIsNesting' /\ LoopInv'
<1> USE DEF NestInv
<1>1. CASE Compare \/ Scalar \/ UNCHANGED vars
  <2>1. UNCHANGED <<all, stack, outer, pending>>
    BY <1>1, Transitions DEF Compare, Scalar, vars, masks, tree
  <2> QED BY <2>1 DEF StackIsNesting, LoopInv
<1>2. CASE Open
  BY <1>2, Transitions, Seconds, NestOpen DEF Open, LoopInv
<1>3. CASE Narrow
  <2>1. StackIsNesting'
    <3>1. stack' = stack /\ outer' = outer /\ \A r \in DOMAIN all : all'[r].parent = all[r].parent
      BY <1>3, Depth, Transitions, NarrowTree DEF Narrow, MaskOK
    <3>2. \A d \in DOMAIN outer : stack[d + 1] \in DOMAIN all
      BY Depth DEF TreeOK
    <3> QED BY <3>1, <3>2 DEF StackIsNesting
  <2> QED BY <1>3, <2>1, Transitions, Seconds DEF Narrow, LoopInv
<1>4. CASE Else
  <2>1. StackIsNesting'
    BY <1>4, Transitions, NestElse DEF Else
  <2>2. LoopInv'
    <3>1. PICK code \in ElseCode :
              IF Len(code) = 1 THEN UNCHANGED pending
              ELSE pending' = [code |-> Tail(code), lanes |-> Last(outer) \ exec]
      BY <1>4 DEF Else
    <3>2. pending'.code # <<OnExec("s_or")>>
      <4>1. CASE Len(code) = 1
        BY <1>4, <3>1, <4>1, Transitions, Seconds
      <4>2. CASE Len(code) # 1
        <5>1. pending' = [code |-> <<OnExec("s_xor")>>, lanes |-> Last(outer) \ exec]
          BY <3>1, <4>2, ElseCodes
        <5>2. pending'.code = <<OnExec("s_xor")>>
          BY <5>1
        <5> QED BY <5>2, Seconds
      <4> QED BY <4>1, <4>2
    <3> QED BY <3>2 DEF LoopInv
  <2> QED BY <2>1, <2>2
<1>5. CASE Reroute
  BY <1>5, Transitions, Seconds, NestReroute DEF Reroute, LoopInv
<1>6. CASE Close
  BY <1>6, Transitions, Seconds, NestClose DEF Close, LoopInv
<1>7. CASE Latch
  <2>1. outer = <<>> /\ outer' = outer
    BY <1>7, Depth DEF Latch, LoopsOutside
  <2> QED BY <1>7, <2>1, Transitions, NestElse DEF LoopInv
<1>8. CASE Second
  <2>1. outer' = outer /\ pending' = Nothing
    BY <1>8 DEF Second
  <2>2. CASE pending.code = <<OnExec("s_xor")>>
    BY <1>8, <2>1, <2>2, Transitions, Seconds, NestElse DEF LoopInv
  <2>3. CASE pending.code = <<OnExec("s_or")>>
    BY <1>8, <2>1, <2>3, Transitions, Seconds, NestClose DEF LoopInv
  <2> QED BY <1>8, <2>2, <2>3, Transitions
<1>9. CASE Body
  BY <1>9, Transitions, Seconds DEF Body, AddBody, StackIsNesting, LoopInv
<1> QED BY <1>1, <1>2, <1>3, <1>4, <1>5, <1>6, <1>7, <1>8, <1>9 DEF Next

LEMMA NestStart == Init => NestInv
<1>1. Init => StackIsNesting /\ LoopInv
  BY Seconds DEF Init, StackIsNesting, LoopInv
<1> QED BY <1>1, TypeStart DEF NestInv

LEMMA NestNext == LoopsOutside /\ NestInv /\ [Next]_vars => NestInv'
<1>1. TypeInv /\ [Next]_vars => TypeInv'
  <2>1. TypeInv' <=> MaskOK' /\ TreeOK' /\ PendingInv'
    BY DEF TypeInv, TypeOK, MaskOK, TreeOK
  <2> QED BY <2>1, TreeStep, MaskStep
<1> QED BY <1>1, NestStep DEF NestInv

(* However deep the ifs and however many elses and reroutes, the stack of  *)
(* open regions is a path of the tree with one region for every mask still *)
(* to be restored (structure.C:652), as long as no divergent loop lies     *)
(* inside of a region: the end of one would close that region.             *)
THEOREM StackFollowsNesting ==
    ASSUME LoopsOutside
    PROVE  Spec => []StackIsNesting
<1>1. LoopsOutside /\ NestInv /\ [Next]_vars => NestInv'
  BY NestNext
<1>2. NestInv => StackIsNesting
  BY DEF NestInv
<1> QED BY <1>1, <1>2, NestStart, LoopsOutside, PTL DEF Spec

-----------------------------------------------------------------------------
(* Guards.  The equations of a tree that has grown, or was refined at the  *)
(* region made last, are those of the tree before, but for that region.    *)

LEMMA Refs ==
    ASSUME TreeOK, NEW r \in DOMAIN all
    PROVE  /\ r \in 1 .. Len(all)
           /\ r # Root => all[r].parent \in DOMAIN all /\ all[r].parent < r
           /\ all[r].pairedIf # 0 => all[r].pairedIf \in DOMAIN all /\ all[r].pairedIf < r
BY CurOf DEF TreeOK, BackInv

LEMMA GrownSolves ==
    ASSUME TreeOK, NEW e, Grown(e), NEW L, NEW E, NEW R
    PROVE  /\ SolvesL(L)' => SolvesL(L)
           /\ SolvesE(L, E)' => SolvesE(L, E)
           /\ SolvesR(R)' => SolvesR(R)
<1>1. \A r \in DOMAIN all : r \in DOMAIN all' /\ all'[r] = all[r]
  BY CurOf DEF Grown, New
<1>2. SolvesL(L)' => SolvesL(L)
  BY <1>1 DEF SolvesL
<1>3. SolvesE(L, E)' => SolvesE(L, E)
  BY <1>1 DEF SolvesE
<1>4. SolvesR(R)' => SolvesR(R)
  BY <1>1 DEF SolvesR
<1> QED BY <1>2, <1>3, <1>4

LEMMA GrownSolvable ==
    ASSUME TreeOK, Solvable, NEW e, Grown(e),
           e.parent \in DOMAIN all, e.pairedIf \in 0 .. Len(all)
    PROVE  Solvable'
<1>0. /\ \A r \in DOMAIN all' : r \in DOMAIN all \/ r = New
      /\ \A r \in DOMAIN all : r \in DOMAIN all' /\ all'[r] = all[r] /\ r # New
      /\ New \in DOMAIN all' /\ all'[New] = e /\ New # Root
      /\ e.pairedIf # 0 => e.pairedIf \in DOMAIN all
  BY CurOf DEF Grown, New, Root
<1> HIDE DEF New
<1>1. \E L : SolvesL(L)'
  <2>1. PICK L : SolvesL(L)
    BY DEF Solvable
  <2> DEFINE M == [r \in DOMAIN all' |->
                     IF r = New
                     THEN IF e.kind = "Else" /\ e.pairedIf # 0 THEN Lanes \ L[e.pairedIf]
                          ELSE {l \in Lanes : e.cond \subseteq l}
                     ELSE L[r]]
  <2>2. \A r \in DOMAIN all : M[r] = L[r]
    BY <1>0
  <2>3. M[New] = IF e.kind = "Else" /\ e.pairedIf # 0 THEN Lanes \ M[e.pairedIf]
                 ELSE {l \in Lanes : e.cond \subseteq l}
    BY <1>0, <2>2
  <2> HIDE DEF M
  <2>4. ASSUME NEW r \in DOMAIN all
        PROVE  M[r] = IF all[r].kind = "Else" /\ all[r].pairedIf # 0 THEN Lanes \ M[all[r].pairedIf]
                      ELSE {l \in Lanes : all[r].cond \subseteq l}
    BY <2>1, <2>2, Refs DEF SolvesL
  <2>5. ASSUME NEW r \in DOMAIN all'
        PROVE  M[r] = IF all'[r].kind = "Else" /\ all'[r].pairedIf # 0 THEN Lanes \ M[all'[r].pairedIf]
                      ELSE {l \in Lanes : all'[r].cond \subseteq l}
    <3>1. CASE r = New
      BY <1>0, <2>3, <3>1
    <3>2. CASE r \in DOMAIN all
      BY <1>0, <2>4, <3>2
    <3> QED BY <1>0, <3>1, <3>2
  <2> QED BY <2>5 DEF SolvesL
<1>2. ASSUME NEW L, SolvesL(L)' PROVE \E E : SolvesE(L, E)'
  <2>1. PICK E : SolvesE(L, E)
    BY <1>2, GrownSolves DEF Solvable
  <2> DEFINE F == [r \in DOMAIN all' |-> IF r = New THEN L[New] \cap E[e.parent] ELSE E[r]]
  <2>2. \A r \in DOMAIN all : F[r] = E[r]
    BY <1>0
  <2>3. F[New] = L[New] \cap F[e.parent]
    BY <1>0, <2>2
  <2> HIDE DEF F
  <2>4. ASSUME NEW r \in DOMAIN all
        PROVE  F[r] = L[r] \cap (IF r = Root THEN Lanes ELSE F[all[r].parent])
    BY <2>1, <2>2, Refs DEF SolvesE
  <2> QED BY <1>0, <2>3, <2>4 DEF SolvesE
<1>3. \E R : SolvesR(R)'
  <2>1. PICK R : SolvesR(R)
    BY DEF Solvable
  <2> DEFINE Q == [r \in DOMAIN all' |->
                     IF r = New
                     THEN {New} \union (IF e.pairedIf # 0 THEN R[e.pairedIf] ELSE {})
                                \union R[e.parent]
                     ELSE R[r]]
  <2>2. \A r \in DOMAIN all : Q[r] = R[r]
    BY <1>0
  <2>3. Q[New] = {New} \union (IF e.pairedIf # 0 THEN Q[e.pairedIf] ELSE {}) \union Q[e.parent]
    BY <1>0, <2>2
  <2> HIDE DEF Q
  <2>4. ASSUME NEW r \in DOMAIN all
        PROVE  Q[r] = {r} \union (IF all[r].pairedIf # 0 THEN Q[all[r].pairedIf] ELSE {})
                          \union (IF r # Root THEN Q[all[r].parent] ELSE {})
    BY <2>1, <2>2, Refs DEF SolvesR
  <2> QED BY <1>0, <2>3, <2>4 DEF SolvesR
<1> QED BY <1>1, <1>2, <1>3 DEF Solvable

LEMMA GrownRests ==
    ASSUME TreeOK, RestsBack, NEW e, Grown(e),
           e.parent \in DOMAIN all, e.pairedIf \in 0 .. Len(all)
    PROVE  RestsBack'
<1> SUFFICES ASSUME NEW R, SolvesR(R)', NEW r \in DOMAIN all'
             PROVE  R[r] \subseteq 1 .. r
  BY DEF RestsBack
<1>1. \A p \in DOMAIN all : R[p] \subseteq 1 .. p
  BY GrownSolves DEF RestsBack
<1>2. CASE r \in DOMAIN all
  BY <1>1, <1>2
<1>3. CASE r \notin DOMAIN all
  <2>1. r = New /\ New \in Nat /\ New # Root /\ all'[New] = e /\ DOMAIN all = 1 .. New - 1
    BY <1>3, CurOf DEF Grown, New, Root
  <2>2. R[New] = {New} \union (IF e.pairedIf # 0 THEN R[e.pairedIf] ELSE {}) \union R[e.parent]
    BY <2>1 DEF SolvesR
  <2>3. R[e.parent] \subseteq 1 .. e.parent /\ e.parent \in 1 .. New - 1
    BY <1>1, <2>1
  <2>4. e.pairedIf # 0 => R[e.pairedIf] \subseteq 1 .. e.pairedIf /\ e.pairedIf \in 1 .. New - 1
    BY <1>1, <2>1, CurOf DEF New
  <2> HIDE DEF New
  <2> QED BY <2>1, <2>2, <2>3, <2>4
<1> QED BY <1>2, <1>3

(* A regular region stays so. *)
LEMMA CleanGrown ==
    ASSUME TreeOK, RestsBack, NEW e, Grown(e), NEW R, SolvesR(R), NEW r \in DOMAIN all
    PROVE  Clean(R, r)' <=> Clean(R, r)
<1>1. R[r] \subseteq DOMAIN all
  BY Refs, CurOf DEF RestsBack
<1> QED BY <1>1 DEF Clean, Grown

(* What a solution of the grown tree tells of the regions before.          *)
LEMMA OldTells ==
    ASSUME GuardInv, NEW e, Grown(e),
           NEW L, NEW E, NEW R, SolvesL(L)', SolvesE(L, E)', SolvesR(R)'
    PROVE  /\ Tells(E, R)
           /\ \A r \in DOMAIN all : Clean(R, r)' <=> Clean(R, r)
<1>1. TreeOK /\ RestsBack
  BY Depth DEF GuardInv
<1>2. SolvesL(L) /\ SolvesE(L, E) /\ SolvesR(R)
  BY <1>1, GrownSolves
<1> QED BY <1>1, <1>2, CleanGrown DEF GuardInv

(* The equations of the region e that was made, as number n.               *)
NewEquation(n, e, L, E, R) ==
    /\ L[n] = IF e.kind = "Else" /\ e.pairedIf # 0 THEN Lanes \ L[e.pairedIf]
              ELSE {l \in Lanes : e.cond \subseteq l}
    /\ E[n] = L[n] \cap E[e.parent]
    /\ R[n] = {n} \union (IF e.pairedIf # 0 THEN R[e.pairedIf] ELSE {}) \union R[e.parent]

LEMMA NewEquations ==
    ASSUME TreeOK, NEW e, Grown(e), NEW n, n = New,
           NEW L, NEW E, NEW R, SolvesL(L)', SolvesE(L, E)', SolvesR(R)'
    PROVE  NewEquation(n, e, L, E, R)
<1>1. n \in DOMAIN all' /\ n # Root /\ all'[n] = e
  BY CurOf DEF Grown, New, Root
<1> QED BY <1>1 DEF SolvesL, SolvesE, SolvesR, NewEquation

(* Another tree with the same equations. *)
SameEquations ==
    /\ DOMAIN all' = DOMAIN all
    /\ \A r \in DOMAIN all : /\ all'[r].kind = all[r].kind
                             /\ all'[r].cond = all[r].cond
                             /\ all'[r].parent = all[r].parent
                             /\ all'[r].pairedIf = all[r].pairedIf
                             /\ all'[r].rerouted = all[r].rerouted

LEMMA SameSolves ==
    ASSUME SameEquations, NEW L, NEW E, NEW R
    PROVE  /\ SolvesL(L)' <=> SolvesL(L)
           /\ SolvesE(L, E)' <=> SolvesE(L, E)
           /\ SolvesR(R)' <=> SolvesR(R)
<1>1. SolvesL(L)' <=> SolvesL(L)
  BY DEF SameEquations, SolvesL
<1>2. SolvesE(L, E)' <=> SolvesE(L, E)
  BY DEF SameEquations, SolvesE
<1>3. SolvesR(R)' <=> SolvesR(R)
  BY DEF SameEquations, SolvesR
<1> QED BY <1>1, <1>2, <1>3

LEMMA SameTells ==
    ASSUME TreeOK, Solvable, RestsBack, SameEquations
    PROVE  /\ Solvable' /\ RestsBack'
           /\ \A R : SolvesR(R) => \A r \in DOMAIN all : Clean(R, r)' <=> Clean(R, r)
<1>1. Solvable'
  <2>1. PICK L : SolvesL(L)
    BY DEF Solvable
  <2>2. PICK R : SolvesR(R)
    BY DEF Solvable
  <2>3. ASSUME NEW K, SolvesL(K)' PROVE \E E : SolvesE(K, E)'
    <3>1. PICK E : SolvesE(K, E)
      BY <2>3, SameSolves DEF Solvable
    <3>2. SolvesE(K, E)'
      BY <3>1, SameSolves
    <3> QED BY <3>2
  <2>4. SolvesL(L)' /\ SolvesR(R)'
    BY <2>1, <2>2, SameSolves
  <2> QED BY <2>3, <2>4 DEF Solvable
<1>2. RestsBack'
  <2> SUFFICES ASSUME NEW R, SolvesR(R)', NEW r \in DOMAIN all' PROVE R[r] \subseteq 1 .. r
    BY DEF RestsBack
  <2>1. SolvesR(R) /\ r \in DOMAIN all
    BY SameSolves DEF SameEquations
  <2> QED BY <2>1 DEF RestsBack
<1>3. ASSUME NEW R, SolvesR(R), NEW r \in DOMAIN all PROVE Clean(R, r)' <=> Clean(R, r)
  <2>1. R[r] \subseteq DOMAIN all
    BY <1>3, Refs, CurOf DEF RestsBack
  <2> QED BY <2>1 DEF Clean, SameEquations
<1> QED BY <1>1, <1>2, <1>3

(* The condition of the region made last becomes c: solutions before and   *)
(* after differ at that region alone, for none refers to it.               *)
LEMMA NarrowedTree ==
    ASSUME GuardInv, entered, NarrowRegion
    PROVE  /\ DOMAIN all' = DOMAIN all /\ Cur \in DOMAIN all /\ Cur = Len(all) /\ Cur # Root
           /\ \A r \in DOMAIN all : /\ all'[r].kind = all[r].kind
                                    /\ all'[r].parent = all[r].parent
                                    /\ all'[r].pairedIf = all[r].pairedIf
                                    /\ all'[r].rerouted = all[r].rerouted
                                    /\ r # Cur => all'[r].cond = all[r].cond
           /\ all[Cur].kind = "If" /\ all'[Cur].cond = all[Cur].cond \union {vcc}
           /\ \A r \in DOMAIN all : /\ r # Root => all[r].parent # Cur
                                    /\ all[r].pairedIf # 0 => all[r].pairedIf # Cur
<1>1. TreeOK /\ MaskOK
  BY Depth DEF GuardInv
<1>2. /\ stack' = stack /\ DOMAIN all' = DOMAIN all
      /\ \A r \in DOMAIN all :
            all'[r] = IF r = Cur /\ Cur # Root
                      THEN [all[r] EXCEPT !.cond = all[r].cond \union {vcc}] ELSE all[r]
      /\ \A r \in DOMAIN all : /\ all'[r].kind = all[r].kind
                               /\ all'[r].parent = all[r].parent
                               /\ all'[r].pairedIf = all[r].pairedIf
                               /\ all'[r].rerouted = all[r].rerouted
  BY <1>1, NarrowTree DEF MaskOK
<1>3. Cur \in DOMAIN all /\ Cur = Len(all) /\ Cur # Root /\ all[Cur].kind = "If"
  BY <1>1, CurOf DEF GuardInv, EnteredInv
<1>4. all[Cur] \in Region
  BY <1>1, CurOf
<1>5. all'[Cur].cond = all[Cur].cond \union {vcc}
  BY <1>2, <1>3, <1>4 DEF Region
<1>6. \A r \in DOMAIN all : r # Cur => all'[r].cond = all[r].cond
  BY <1>2
<1>7. ASSUME NEW r \in DOMAIN all
      PROVE  /\ r # Root => all[r].parent # Cur
             /\ all[r].pairedIf # 0 => all[r].pairedIf # Cur
  <2>1. r <= Cur /\ r \in Nat /\ Cur \in Nat
    BY <1>1, <1>3, CurOf
  <2> HIDE DEF Cur
  <2> QED BY <1>1, <2>1, Refs DEF TreeOK
<1> QED BY <1>2, <1>3, <1>5, <1>6, <1>7

LEMMA NarrowSolvesR ==
    ASSUME GuardInv, entered, NarrowRegion, NEW R
    PROVE  SolvesR(R)' <=> SolvesR(R)
<1> HIDE DEF Cur
<1> QED BY NarrowedTree DEF SolvesR

(* L and E before, from those after. *)
BeforeL(L)    == [r \in DOMAIN all |-> IF r = Cur THEN {l \in Lanes : all[Cur].cond \subseteq l} ELSE L[r]]
BeforeE(L, E) == [r \in DOMAIN all |-> IF r = Cur THEN BeforeL(L)[Cur] \cap E[all[Cur].parent] ELSE E[r]]

LEMMA NarrowSolvesL ==
    ASSUME GuardInv, entered, NarrowRegion, NEW L, SolvesL(L)'
    PROVE  SolvesL(BeforeL(L)) /\ L[Cur] = BeforeL(L)[Cur] \cap Where(vcc)
<1> DEFINE M == BeforeL(L)
<1>1. /\ M[Cur] = {l \in Lanes : all[Cur].cond \subseteq l}
      /\ \A r \in DOMAIN all : r # Cur => M[r] = L[r]
  BY NarrowedTree DEF BeforeL
<1> HIDE DEF M, Cur
<1>2. L[Cur] = {l \in Lanes : all[Cur].cond \union {vcc} \subseteq l}
  BY NarrowedTree DEF SolvesL
<1>3. L[Cur] = M[Cur] \cap Where(vcc)
  BY <1>1, <1>2 DEF Where
<1>4. ASSUME NEW r \in DOMAIN all
      PROVE  M[r] = IF all[r].kind = "Else" /\ all[r].pairedIf # 0 THEN Lanes \ M[all[r].pairedIf]
                    ELSE {l \in Lanes : all[r].cond \subseteq l}
  <2>1. CASE r = Cur
    BY <1>1, <2>1, NarrowedTree
  <2>2. CASE r # Cur
    <3>1. L[r] = IF all[r].kind = "Else" /\ all[r].pairedIf # 0 THEN Lanes \ L[all[r].pairedIf]
                 ELSE {l \in Lanes : all[r].cond \subseteq l}
      BY <2>2, NarrowedTree DEF SolvesL
    <3>2. all[r].pairedIf # 0 => M[all[r].pairedIf] = L[all[r].pairedIf]
      BY <1>1, NarrowedTree, Refs, Depth DEF GuardInv
    <3> QED BY <1>1, <2>2, <3>1, <3>2
  <2> QED BY <2>1, <2>2
<1>5. SolvesL(M)
  BY <1>4 DEF SolvesL
<1> QED BY <1>3, <1>5 DEF M

LEMMA NarrowSolvesE ==
    ASSUME GuardInv, entered, NarrowRegion, NEW L, NEW E, SolvesL(L)', SolvesE(L, E)'
    PROVE  /\ SolvesE(BeforeL(L), BeforeE(L, E))
           /\ E[Cur] = BeforeE(L, E)[Cur] \cap Where(vcc)
           /\ \A r \in DOMAIN all : r # Cur => BeforeE(L, E)[r] = E[r]
<1> DEFINE M == BeforeL(L)
           F == BeforeE(L, E)
<1>1. /\ F[Cur] = M[Cur] \cap E[all[Cur].parent]
      /\ \A r \in DOMAIN all : r # Cur => F[r] = E[r] /\ M[r] = L[r]
  BY NarrowedTree DEF BeforeE, BeforeL
<1>2. L[Cur] = M[Cur] \cap Where(vcc)
  BY NarrowSolvesL
<1> HIDE DEF M, F, Cur
<1>3. E[Cur] = L[Cur] \cap E[all[Cur].parent]
  BY NarrowedTree DEF SolvesE
<1>4. ASSUME NEW r \in DOMAIN all
      PROVE  F[r] = M[r] \cap (IF r = Root THEN Lanes ELSE F[all[r].parent])
  <2>1. r # Root => all[r].parent \in DOMAIN all /\ F[all[r].parent] = E[all[r].parent]
    BY <1>1, NarrowedTree, Refs, Depth DEF GuardInv
  <2>2. CASE r = Cur
    BY <1>1, <2>1, <2>2, NarrowedTree
  <2>3. CASE r # Cur
    <3>1. E[r] = L[r] \cap (IF r = Root THEN Lanes ELSE E[all[r].parent])
      BY NarrowedTree DEF SolvesE
    <3> QED BY <1>1, <2>1, <2>3, <3>1
  <2> QED BY <2>2, <2>3
<1>5. SolvesE(M, F)
  BY <1>4 DEF SolvesE
<1>6. E[Cur] = F[Cur] \cap Where(vcc)
  BY <1>1, <1>2, <1>3
<1> QED BY <1>1, <1>5, <1>6 DEF M, F

LEMMA NarrowSolvable ==
    ASSUME GuardInv, entered, NarrowRegion
    PROVE  Solvable' /\ RestsBack'
<1> HIDE DEF Cur
<1>0. TreeOK /\ Solvable /\ RestsBack
  BY Depth DEF GuardInv
<1>1. \E L : SolvesL(L)'
  <2>1. PICK L : SolvesL(L)
    BY <1>0 DEF Solvable
  <2> DEFINE M == [r \in DOMAIN all |-> IF r = Cur THEN {l \in Lanes : all'[Cur].cond \subseteq l}
                                       ELSE L[r]]
  <2>2. /\ M[Cur] = {l \in Lanes : all'[Cur].cond \subseteq l}
        /\ \A r \in DOMAIN all : r # Cur => M[r] = L[r]
    BY NarrowedTree
  <2> HIDE DEF M
  <2>3. ASSUME NEW r \in DOMAIN all
        PROVE  M[r] = IF all'[r].kind = "Else" /\ all'[r].pairedIf # 0
                      THEN Lanes \ M[all'[r].pairedIf]
                      ELSE {l \in Lanes : all'[r].cond \subseteq l}
    <3>1. CASE r = Cur
      BY <2>2, <3>1, NarrowedTree
    <3>2. CASE r # Cur
      <4>1. all[r].pairedIf # 0 => M[all[r].pairedIf] = L[all[r].pairedIf]
        BY <1>0, <2>2, NarrowedTree, Refs
      <4>2. M[r] = IF all[r].kind = "Else" /\ all[r].pairedIf # 0 THEN Lanes \ L[all[r].pairedIf]
                   ELSE {l \in Lanes : all[r].cond \subseteq l}
        BY <2>1, <2>2, <3>2 DEF SolvesL
      <4>3. /\ all'[r].kind = all[r].kind /\ all'[r].pairedIf = all[r].pairedIf
            /\ all'[r].cond = all[r].cond
        BY <3>2, NarrowedTree
      <4> QED BY <4>1, <4>2, <4>3
    <3> QED BY <3>1, <3>2
  <2>4. DOMAIN all' = DOMAIN all
    BY NarrowedTree
  <2> QED BY ONLY <2>3, <2>4 DEF SolvesL
<1>2. ASSUME NEW L, SolvesL(L)' PROVE \E E : SolvesE(L, E)'
  <2>1. SolvesL(BeforeL(L))
    BY <1>2, NarrowSolvesL
  <2>2. PICK E : SolvesE(BeforeL(L), E)
    BY <1>0, <2>1 DEF Solvable
  <2> DEFINE F == [r \in DOMAIN all |-> IF r = Cur THEN L[Cur] \cap E[all[Cur].parent] ELSE E[r]]
  <2>3. /\ F[Cur] = L[Cur] \cap E[all[Cur].parent]
        /\ \A r \in DOMAIN all : r # Cur => F[r] = E[r] /\ BeforeL(L)[r] = L[r]
    BY NarrowedTree DEF BeforeL
  <2> HIDE DEF F
  <2>4. ASSUME NEW r \in DOMAIN all
        PROVE  F[r] = L[r] \cap (IF r = Root THEN Lanes ELSE F[all[r].parent])
    <3>1. r # Root => F[all[r].parent] = E[all[r].parent]
      BY <1>0, <2>3, NarrowedTree, Refs
    <3>2. CASE r = Cur
      BY <2>3, <3>1, <3>2, NarrowedTree
    <3>3. CASE r # Cur
      BY <2>2, <2>3, <3>1, <3>3 DEF SolvesE
    <3> QED BY <3>2, <3>3
  <2>5. DOMAIN all' = DOMAIN all /\ \A r \in DOMAIN all : all'[r].parent = all[r].parent
    BY NarrowedTree
  <2>6. \A r \in DOMAIN all' : F[r] = L[r] \cap (IF r = Root THEN Lanes ELSE F[all'[r].parent])
    BY ONLY <2>4, <2>5
  <2> QED BY ONLY <2>6 DEF SolvesE
<1>3. \E R : SolvesR(R)'
  <2>1. PICK R : SolvesR(R)
    BY <1>0 DEF Solvable
  <2> QED BY <2>1, NarrowSolvesR
<1>4. RestsBack'
  <2> SUFFICES ASSUME NEW R, SolvesR(R)', NEW r \in DOMAIN all' PROVE R[r] \subseteq 1 .. r
    BY DEF RestsBack
  <2>1. SolvesR(R) /\ r \in DOMAIN all
    BY NarrowSolvesR, NarrowedTree
  <2> QED BY <1>0, <2>1 DEF RestsBack
<1> QED BY <1>1, <1>2, <1>3, <1>4 DEF Solvable

-----------------------------------------------------------------------------
(* Each step keeps GuardInv.                                               *)

(* The invariant but for the nesting, which NestNext carries over. *)
Told ==
    /\ EnteredInv /\ Solvable /\ RestsBack
    /\ pending.code # <<OnExec("s_xor")>>
    /\ \A L, E, R : SolvesL(L) /\ SolvesE(L, E) /\ SolvesR(R) => Tells(E, R)

LEMMA Stands ==
    ASSUME GuardInv
    PROVE  /\ TreeOK /\ MaskOK /\ NestInv /\ TypeInv /\ Solvable /\ RestsBack
           /\ Len(stack) = Len(outer) + 1 /\ Len(outer) \in Nat
           /\ DOMAIN outer = 1 .. Len(outer)
           /\ \A d \in 1 .. Len(stack) : stack[d] \in DOMAIN all
           /\ \A k \in DOMAIN ran : ran[k].region \in DOMAIN all
           /\ outer = <<>> <=> Cur = Root
           /\ outer = <<>> <=> Len(outer) = 0
<1>1. TreeOK /\ MaskOK /\ NestInv /\ TypeInv /\ Solvable /\ RestsBack
  BY Depth DEF GuardInv, NestInv
<1>2. \A d \in 1 .. Len(stack) : stack[d] \in DOMAIN all
  BY <1>1 DEF TreeOK
<1>3. \A k \in DOMAIN ran : ran[k].region \in DOMAIN all
  <2> DEFINE S == [region : DOMAIN all, lanes : SUBSET Lanes]
  <2>1. \A x \in S : x.region \in DOMAIN all
    OBVIOUS
  <2>2. ran \in Seq(S)
    BY <1>1 DEF TreeOK
  <2> HIDE DEF S
  <2>3. \A k \in DOMAIN ran : ran[k] \in S
    BY <2>2
  <2> QED BY <2>1, <2>3
<1> QED BY <1>1, <1>2, <1>3, Depth

LEMMA GuardIdle ==
    ASSUME GuardInv, UNCHANGED <<tree, exec, outer, entered, pending>>
    PROVE  Told'
<1>1. UNCHANGED <<all, stack, ran, exec, outer, entered, pending>>
  BY DEF tree
<1>2. Solvable' /\ RestsBack'
  BY <1>1, Stands, SameTells DEF SameEquations
<1>4. EnteredInv'
  BY <1>1 DEF GuardInv, EnteredInv, Cur
<1>5. ASSUME NEW L, NEW E, NEW R, SolvesL(L)', SolvesE(L, E)', SolvesR(R)'
      PROVE  Tells(E, R)'
  <2>1. SolvesL(L) /\ SolvesE(L, E) /\ SolvesR(R)
    BY <1>1, <1>5 DEF SolvesL, SolvesE, SolvesR
  <2>2. Tells(E, R)
    BY <2>1 DEF GuardInv
  <2> QED BY <1>1, <2>2 DEF Tells, Clean, Cur
<1> QED BY <1>1, <1>2, <1>4, <1>5 DEF GuardInv, Told

LEMMA GuardOpen ==
    ASSUME GuardInv, Open
    PROVE  Told'
<1>0. TreeOK /\ MaskOK /\ TypeInv /\ Solvable /\ RestsBack
  BY Stands
<1>1. /\ OpenRegion /\ Len(all) < MaxRegions /\ pending = Nothing /\ pending' = Nothing
      /\ exec' = exec \cap Where(vcc) /\ outer' = Append(outer, exec)
  BY <1>0, Transitions DEF Open
<1>2. /\ Grown(OpenedIf) /\ ran' = ran /\ TreeOK'
      /\ Len(stack') = Len(stack) + 1 /\ stack'[Len(stack) + 1] = New
      /\ \A d \in 1 .. Len(stack) : stack'[d] = stack[d]
  BY <1>0, <1>1, OpenTree DEF MaskOK
<1>3. PICK n, c, e : n = New /\ c = Cur /\ e = OpenedIf
  OBVIOUS
<1>4. /\ e.kind = "If" /\ e.cond = {vcc} /\ e.parent = c
      /\ e.pairedIf = 0 /\ e.rerouted = FALSE /\ c \in DOMAIN all
  BY <1>0, <1>3, NewRegions, CurOf
<1>5. Cur' = n /\ n \notin DOMAIN all /\ n # Root /\ n = Len(all') /\ all'[n] = e
  <2>1. Cur' = stack'[Len(stack')]
    BY DEF Cur, Last
  <2>2. New \notin DOMAIN all /\ New # Root /\ New \in Nat
    BY <1>0, CurOf DEF New, Root
  <2>3. Len(all') = New
    BY <1>2, <2>2 DEF Grown, TreeOK
  <2> QED BY <1>2, <1>3, <2>1, <2>2, <2>3 DEF Grown
<1>6. EnteredInv'
  <2>1. \A k \in DOMAIN ran : ran[k].region # n
    BY <1>5, Stands
  <2> QED BY <1>1, <1>2, <1>4, <1>5, <2>1 DEF EnteredInv
<1>7. Grown(e) /\ e.parent \in DOMAIN all /\ e.pairedIf \in 0 .. Len(all)
  BY <1>0, <1>2, <1>3, <1>4, CurOf
<1>8. Solvable' /\ RestsBack'
  BY <1>0, <1>7, GrownSolvable, GrownRests
<1>9. ASSUME NEW L, NEW E, NEW R, SolvesL(L)', SolvesE(L, E)', SolvesR(R)'
      PROVE  Tells(E, R)'
  <2>1. Tells(E, R) /\ \A r \in DOMAIN all : Clean(R, r)' <=> Clean(R, r)
    BY <1>7, <1>9, OldTells
  <2>2. /\ L[n] = {l \in Lanes : {vcc} \subseteq l}
        /\ E[n] = L[n] \cap E[c]
        /\ R[n] = {n} \union R[c]
    <3>1. NewEquation(n, e, L, E, R)
      BY <1>0, <1>3, <1>7, <1>9, NewEquations
    <3> QED BY ONLY <1>4, <3>1 DEF NewEquation
  <2>3. Clean(R, n)' => Clean(R, c)
    BY <1>4, <2>1, <2>2 DEF Clean
  <2>4. Clean(R, c) => exec = E[c]
    BY <1>1, <1>3, <2>1 DEF Tells
  <2>5. Clean(R, n)' => exec' = E[n]
    BY <1>1, <2>2, <2>3, <2>4 DEF Where
  <2>6. ASSUME NEW d \in DOMAIN outer', NEW r, r = stack'[d], Clean(R, r)'
        PROVE  outer'[d] = E[r]
    <3>1. d \in 1 .. Len(stack) /\ r = stack[d] /\ r \in DOMAIN all /\ Clean(R, r)
      BY <1>1, <1>2, <2>1, <2>6, Stands DEF MaskOK
    <3>2. CASE d = Len(stack)
      BY <1>0, <1>1, <1>3, <2>4, <3>1, <3>2, Stands, CurOf DEF MaskOK
    <3>3. CASE d # Len(stack)
      <4>1. d \in DOMAIN outer /\ outer'[d] = outer[d]
        BY <1>1, <3>1, <3>3, Stands DEF MaskOK
      <4> QED BY <2>1, <3>1, <4>1 DEF Tells
    <3> QED BY <3>2, <3>3
  <2>7. ASSUME NEW k \in DOMAIN ran', Clean(R, ran[k].region)'
        PROVE  ran'[k].lanes = E[ran'[k].region]
    BY <1>2, <2>1, <2>7, Stands DEF Tells
  <2> QED BY <1>1, <1>2, <1>5, <2>5, <2>6, <2>7 DEF Tells
<1> QED BY <1>1, <1>6, <1>8, <1>9, Seconds DEF Told

(* An arm follows the current one: what the tree told it still tells, and  *)
(* what is left to show is that it tells the lanes of the new arm.         *)
LEMMA GuardSibling ==
    ASSUME GuardInv, Cur # Root, NEW e, NEW n, n = New,
           Grown(e), e.parent = all[Cur].parent, e.pairedIf \in {0, Cur},
           Len(stack') = Len(stack), stack'[Len(stack)] = New,
           \A d \in 1 .. Len(stack) - 1 : stack'[d] = stack[d],
           UNCHANGED <<ran, outer>>, entered' = FALSE, pending' = Nothing,
           \A L, E, R : SolvesL(L)' /\ SolvesE(L, E)' /\ SolvesR(R)' =>
                            (Clean(R, n)' => exec' = E[n])
    PROVE  Told'
<1>0. TreeOK /\ MaskOK /\ Solvable /\ RestsBack
  BY Stands
<1>1. e.parent \in DOMAIN all /\ e.pairedIf \in 0 .. Len(all)
  BY <1>0, CurOf, Refs
<1>2. Solvable' /\ RestsBack'
  BY <1>0, <1>1, GrownSolvable, GrownRests
<1>3. EnteredInv'
  BY DEF EnteredInv
<1>4. ASSUME NEW L, NEW E, NEW R, SolvesL(L)', SolvesE(L, E)', SolvesR(R)'
      PROVE  Tells(E, R)'
  <2>1. Tells(E, R) /\ \A r \in DOMAIN all : Clean(R, r)' <=> Clean(R, r)
    BY <1>4, OldTells
  <2>2. ASSUME NEW d \in DOMAIN outer', NEW r, r = stack'[d], Clean(R, r)'
        PROVE  outer'[d] = E[r]
    <3>1. d \in DOMAIN outer /\ r = stack[d] /\ r \in DOMAIN all /\ Clean(R, r)
      BY <2>1, <2>2, Stands
    <3> QED BY <2>1, <3>1 DEF Tells
  <2>3. ASSUME NEW k \in DOMAIN ran', Clean(R, ran[k].region)'
        PROVE  ran'[k].lanes = E[ran'[k].region]
    BY <2>1, <2>3, Stands DEF Tells
  <2>4. Cur' = n
    BY DEF Cur, Last
  <2>5. Clean(R, n)' => exec' = E[n]
    BY <1>4
  <2> QED BY <2>2, <2>3, <2>4, <2>5 DEF Tells
<1> QED BY <1>2, <1>3, <1>4, Seconds DEF Told

LEMMA GuardElse ==
    ASSUME ~ SplitElses, GuardInv, Else
    PROVE  Told'
<1>0. TreeOK /\ MaskOK /\ TypeInv /\ outer # <<>> /\ Cur # Root
  BY Stands DEF Else
<1>1. /\ ElseRegion /\ Len(all) < MaxRegions /\ pending = Nothing
      /\ exec' = Last(outer) \ exec /\ pending' = Nothing
      /\ entered' = FALSE /\ outer' = outer
  <2>1. PICK code \in ElseCode :
            IF Len(code) = 1 THEN exec' = Last(outer) \ exec /\ UNCHANGED pending
            ELSE exec' = Last(outer)
                 /\ pending' = [code |-> Tail(code), lanes |-> Last(outer) \ exec]
    BY DEF Else
  <2>2. Len(code) = 1
    BY ElseCodes
  <2> QED BY <1>0, <2>1, <2>2, Transitions DEF Else
<1>2. PICK n, c, e : n = New /\ c = Cur /\ e = ElseArm
  OBVIOUS
<1>3. /\ e.kind = "Else" /\ e.parent = all[c].parent /\ e.pairedIf = c /\ e.rerouted = FALSE
      /\ c \in DOMAIN all /\ c # 0 /\ c # Root
  <2>1. /\ e.kind = "Else" /\ e.parent = all[c].parent /\ e.pairedIf = c
        /\ e.rerouted = FALSE
    BY <1>0, <1>2, NewRegions
  <2>2. Cur \in 1 .. Len(all) /\ DOMAIN all = 1 .. Len(all)
    BY <1>0, CurOf
  <2> HIDE DEF Cur
  <2>3. c \in 1 .. Len(all) /\ c # 0
    BY <1>2, <2>2
  <2> QED BY <1>0, <1>2, <2>1, <2>2, <2>3
<1>4. /\ Grown(e) /\ ran' = ran /\ Len(stack') = Len(stack) /\ stack'[Len(stack)] = New
      /\ \A d \in 1 .. Len(stack) - 1 : stack'[d] = stack[d]
  BY <1>0, <1>1, <1>2, ElseTree
<1>5. ASSUME NEW L, NEW E, NEW R, SolvesL(L)', SolvesE(L, E)', SolvesR(R)', Clean(R, n)'
      PROVE  exec' = E[n]
  <2>1. PICK p : p = e.parent
    OBVIOUS
  <2>2. p \in DOMAIN all /\ p = stack[Len(outer)] /\ Len(outer) \in DOMAIN outer
    <3>1. Len(outer) \in DOMAIN outer /\ stack[Len(outer) + 1] = c
      BY <1>0, <1>2, Stands, CurOf
    <3> QED BY <1>0, <1>2, <1>3, <2>1, <3>1, Refs, Stands DEF NestInv, StackIsNesting
  <2>3. Tells(E, R) /\ \A r \in DOMAIN all : Clean(R, r)' <=> Clean(R, r)
    BY <1>4, <1>5, OldTells
  <2>4. NewEquation(n, e, L, E, R)
    BY <1>0, <1>2, <1>4, <1>5, NewEquations
  <2>5. L[n] = Lanes \ L[c] /\ E[n] = L[n] \cap E[p] /\ R[n] = {n} \union R[c] \union R[p]
    BY <1>3, <2>1, <2>4 DEF NewEquation
  <2>6. E[c] = L[c] \cap E[p]
    <3>1. SolvesE(L, E)
      BY <1>0, <1>4, <1>5, GrownSolves
    <3> QED BY <1>3, <2>1, <3>1 DEF SolvesE
  <2>7. Clean(R, c) /\ Clean(R, p)
    <3>1. Clean(R, c)' /\ Clean(R, p)'
      BY ONLY <1>5, <2>5 DEF Clean
    <3> QED BY <1>3, <2>2, <2>3, <3>1
  <2>8. exec = E[c]
    BY <1>1, <1>2, <2>3, <2>7 DEF Tells
  <2>9. Last(outer) = E[p] /\ Last(outer) \subseteq Lanes
    <3>1. Last(outer) = outer[Len(outer)] /\ Last(outer) \subseteq Lanes
      BY <1>0, Lasts DEF MaskOK
    <3> QED BY <2>2, <2>3, <2>7, <3>1 DEF Tells
  <2> QED BY <1>1, <2>5, <2>6, <2>8, <2>9
<1> QED BY <1>0, <1>1, <1>2, <1>3, <1>4, <1>5, GuardSibling

(* A reroute is irregular, and so is what comes after or inside of it.     *)
LEMMA GuardReroute ==
    ASSUME GuardInv, Reroute
    PROVE  Told'
<1>0. TreeOK /\ MaskOK /\ TypeInv /\ outer # <<>> /\ Cur # Root
  BY Stands DEF Reroute
<1>1. /\ RerouteRegion /\ Len(all) < MaxRegions /\ pending' = Nothing
      /\ entered' = FALSE /\ outer' = outer
  BY <1>0, Transitions DEF Reroute
<1>2. PICK n, c, e : n = New /\ c = Cur /\ e = RerouteArm
  OBVIOUS
<1>3. e.parent = all[c].parent /\ e.pairedIf = 0 /\ e.rerouted = TRUE
  BY <1>0, <1>2, NewRegions
<1>4. /\ Grown(e) /\ ran' = ran /\ Len(stack') = Len(stack) /\ stack'[Len(stack)] = New
      /\ \A d \in 1 .. Len(stack) - 1 : stack'[d] = stack[d]
  BY <1>0, <1>1, <1>2, RerouteTree
<1>5. ASSUME NEW L, NEW E, NEW R, SolvesL(L)', SolvesE(L, E)', SolvesR(R)'
      PROVE  ~ Clean(R, n)'
  <2>1. NewEquation(n, e, L, E, R)
    BY <1>0, <1>2, <1>4, <1>5, NewEquations
  <2>2. n \in R[n]
    BY <2>1 DEF NewEquation
  <2>3. all'[n].rerouted = TRUE
    BY <1>2, <1>3, <1>4 DEF Grown
  <2> QED BY <2>2, <2>3 DEF Clean
<1> QED BY <1>0, <1>1, <1>2, <1>3, <1>4, <1>5, GuardSibling

LEMMA GuardNarrow ==
    ASSUME GuardInv, Narrow
    PROVE  Told'
<1>0. TreeOK /\ MaskOK /\ TypeInv
  BY Stands
<1>1. /\ NarrowRegion /\ entered /\ entered' = entered /\ outer' = outer
      /\ pending = Nothing /\ pending' = Nothing /\ exec' = exec \cap Where(vcc)
      /\ stack' = stack /\ ran' = ran
  BY <1>0, Transitions, NarrowTree DEF Narrow, MaskOK
<1>2. Solvable' /\ RestsBack'
  BY <1>1, NarrowSolvable
<1>3. PICK c : c = Cur
  OBVIOUS
<1>4. /\ c \in DOMAIN all /\ c = Len(all) /\ c # Root /\ all[c].kind = "If" /\ Cur' = c
      /\ DOMAIN all' = DOMAIN all /\ all'[c].kind = all[c].kind
      /\ \A r \in DOMAIN all : all'[r].rerouted = all[r].rerouted
      /\ \A k \in DOMAIN ran : ran[k].region # c
  BY <1>1, <1>3, NarrowedTree DEF Cur, GuardInv, EnteredInv
<1>5. EnteredInv'
  <2>1. TreeOK'
    BY <1>0, <1>1, NarrowTree DEF MaskOK
  <2>2. Len(all') = Len(all)
    BY <1>0, <1>4, <2>1 DEF TreeOK
  <2> QED BY <1>1, <1>4, <2>2 DEF EnteredInv
<1>6. ASSUME NEW L, NEW E, NEW R, SolvesL(L)', SolvesE(L, E)', SolvesR(R)'
      PROVE  Tells(E, R)'
  <2>1. PICK F : F = BeforeE(L, E)
    OBVIOUS
  <2>2. E[c] = F[c] \cap Where(vcc) /\ \A r \in DOMAIN all : r # c => F[r] = E[r]
    BY <1>1, <1>3, <1>6, <2>1, NarrowSolvesE
  <2>3. Tells(F, R)
    BY <1>1, <1>6, <2>1, NarrowSolvesL, NarrowSolvesE, NarrowSolvesR DEF GuardInv
  <2>4. \A r \in DOMAIN all : Clean(R, r)' <=> Clean(R, r)
    <3>1. \A r \in DOMAIN all : R[r] \subseteq DOMAIN all
      <4>1. SolvesR(R) /\ RestsBack
        BY <1>1, <1>6, NarrowSolvesR, Stands
      <4> QED BY <1>0, <4>1, Refs, CurOf DEF RestsBack
    <3> QED BY <1>4, <3>1 DEF Clean
  <2>5. ASSUME NEW d \in DOMAIN outer', NEW r, r = stack'[d], Clean(R, r)'
        PROVE  outer'[d] = E[r]
    <3>1. d \in DOMAIN outer /\ r = stack[d] /\ r \in DOMAIN all /\ Clean(R, r)
      BY <1>1, <2>4, <2>5, Stands
    <3>2. r # c
      <4>1. d \in 1 .. Len(stack) - 1
        BY <3>1, Stands
      <4>2. stack[d] < Cur /\ Cur \in Nat
        BY <1>0, <4>1, CurOf
      <4> QED BY <1>3, <3>1, <4>2
    <3> QED BY <1>1, <2>2, <2>3, <3>1, <3>2 DEF Tells
  <2>6. ASSUME NEW k \in DOMAIN ran', Clean(R, ran[k].region)'
        PROVE  ran'[k].lanes = E[ran'[k].region]
    <3>1. k \in DOMAIN ran /\ ran[k].region \in DOMAIN all /\ Clean(R, ran[k].region)
          /\ ran[k].region # c
      BY <1>1, <1>4, <2>4, <2>6, Stands
    <3> QED BY <1>1, <2>2, <2>3, <3>1 DEF Tells
  <2>7. Clean(R, c)' => exec' = E[c]
    <3>1. Clean(R, c)' => exec = F[c]
      BY <1>1, <1>3, <1>4, <2>3, <2>4 DEF Tells
    <3> QED BY <1>1, <2>2, <3>1
  <2> QED BY <1>1, <1>4, <2>5, <2>6, <2>7 DEF Tells
<1> QED BY <1>1, <1>2, <1>5, <1>6, Seconds DEF Told

(* The close of a region, and the same instruction outside of all.         *)
LEMMA GuardClose ==
    ASSUME GuardInv, Close
    PROVE  Told'
<1>0. TreeOK /\ MaskOK /\ TypeInv /\ Solvable /\ RestsBack
  BY Stands
<1>1. /\ CloseRegion /\ pending = Nothing /\ pending' = Nothing /\ entered' = FALSE
      /\ IF outer = <<>> THEN UNCHANGED <<exec, outer>>
         ELSE exec' = Last(outer) /\ outer' = Front(outer)
  BY <1>0, Transitions DEF Close
<1>2. SameEquations /\ ran' = ran
  BY <1>0, <1>1, CloseTree DEF SameEquations
<1>3. Solvable' /\ RestsBack'
  BY <1>0, <1>2, SameTells
<1>4. EnteredInv'
  BY <1>1 DEF EnteredInv
<1>5. ASSUME NEW L, NEW E, NEW R, SolvesL(L)', SolvesE(L, E)', SolvesR(R)'
      PROVE  Tells(E, R)'
  <2>1. SolvesL(L) /\ SolvesE(L, E) /\ SolvesR(R)
    BY <1>2, <1>5, SameSolves
  <2>2. Tells(E, R) /\ \A r \in DOMAIN all : Clean(R, r)' <=> Clean(R, r)
    BY <1>0, <1>2, <2>1, SameTells DEF GuardInv
  <2>3. ASSUME NEW k \in DOMAIN ran', Clean(R, ran[k].region)'
        PROVE  ran'[k].lanes = E[ran'[k].region]
    BY <1>2, <2>2, <2>3, Stands DEF Tells
  <2>4. CASE outer = <<>>
    <3>1. UNCHANGED <<stack, exec, outer>>
      <4>1. Len(stack) = 1
        BY <2>4, Stands
      <4>2. UNCHANGED tree
        BY <1>0, <1>1, <4>1, CloseTree
      <4> QED BY <1>1, <2>4, <4>2 DEF tree
    <3>2. Cur' = Cur /\ Cur \in DOMAIN all /\ DOMAIN outer = {}
      BY <1>0, <2>4, <3>1, CurOf DEF Cur
    <3>3. Clean(R, Cur)' => Clean(R, Cur)
      BY <2>2, <3>1, <3>2 DEF Clean
    <3> QED BY <1>1, <2>2, <2>3, <3>1, <3>2, <3>3 DEF Tells
  <2>5. CASE outer # <<>>
    <3>1. /\ Len(stack') = Len(stack) - 1 /\ Len(stack) > 1
          /\ \A d \in 1 .. Len(stack) - 1 : stack'[d] = stack[d]
      BY <1>0, <1>1, <2>5, CloseTree, Stands
    <3>2. /\ Len(outer') = Len(outer) - 1 /\ DOMAIN outer' = 1 .. Len(outer) - 1
          /\ \A d \in 1 .. Len(outer) - 1 : outer'[d] = outer[d]
          /\ exec' = outer[Len(outer)] /\ Len(outer) \in DOMAIN outer
      <4>1. outer \in Seq(SUBSET Lanes) /\ Len(outer) \in Nat /\ Len(outer) # 0
        BY <1>0, <2>5, Stands DEF MaskOK
      <4>2. /\ outer' \in Seq(SUBSET Lanes) /\ Len(outer') = Len(outer) - 1
            /\ \A d \in 1 .. Len(outer) - 1 : outer'[d] = outer[d]
        BY <1>1, <2>5, <4>1, FrontOf
      <4>3. exec' = outer[Len(outer)]
        BY <1>1, <2>5, <4>1, Lasts
      <4>4. DOMAIN outer' = 1 .. Len(outer') /\ DOMAIN outer = 1 .. Len(outer)
        BY <4>1, <4>2
      <4> QED BY <4>1, <4>2, <4>3, <4>4
    <3>3. PICK c : c = stack[Len(outer)]
      OBVIOUS
    <3>4. Cur' = c /\ c \in DOMAIN all
      BY <3>1, <3>2, <3>3, Stands DEF Cur, Last
    <3>5. Clean(R, c)' => exec' = E[c]
      BY <2>2, <3>2, <3>3, <3>4 DEF Tells
    <3>6. ASSUME NEW d \in DOMAIN outer', NEW r, r = stack'[d], Clean(R, r)'
          PROVE  outer'[d] = E[r]
      <4>1. d \in DOMAIN outer /\ r = stack[d] /\ r \in DOMAIN all /\ Clean(R, r)
        BY <2>2, <3>1, <3>2, <3>6, Stands
      <4> QED BY <2>2, <3>2, <3>6, <4>1 DEF Tells
    <3> QED BY <1>1, <2>3, <3>4, <3>5, <3>6 DEF Tells
  <2> QED BY <2>4, <2>5
<1> QED BY <1>1, <1>3, <1>4, <1>5, Seconds DEF Told

(* The lanes that had left a loop come back when its end is passed; the    *)
(* tree has no region for the loop.                                        *)
LEMMA GuardLatch ==
    ASSUME LoopsOutside, GuardInv, Latch
    PROVE  Told'
<1>0. TreeOK /\ MaskOK /\ TypeInv /\ Solvable /\ RestsBack
  BY Stands
<1>1. /\ ElseRegion /\ Len(all) < MaxRegions /\ pending = Nothing /\ entered' = FALSE
      /\ outer' = outer /\ pending' = [code |-> <<OnExec("s_or")>>, lanes |-> exec]
  BY <1>0, Transitions DEF Latch
<1>2. outer = <<>>
  BY Stands DEF Latch, LoopsOutside
<1>3. UNCHANGED <<all, stack, ran>>
  BY <1>0, <1>1, <1>2, ElseTree, Stands DEF tree
<1>4. pending'.code = <<OnExec("s_or")>> /\ pending'.lanes = exec /\ pending' # Nothing
  BY <1>1, Seconds
<1>5. Solvable' /\ RestsBack'
  BY <1>0, <1>3, SameTells DEF SameEquations
<1>6. ASSUME NEW L, NEW E, NEW R, SolvesL(L)', SolvesE(L, E)', SolvesR(R)'
      PROVE  Tells(E, R)'
  <2>1. Tells(E, R)
    <3>1. SameEquations
      BY <1>3 DEF SameEquations
    <3>2. SolvesL(L) /\ SolvesE(L, E) /\ SolvesR(R)
      BY <1>6, <3>1, SameSolves
    <3> QED BY <3>2 DEF GuardInv
  <2> QED BY <1>1, <1>3, <1>4, <2>1 DEF Tells, Clean, Cur
<1> QED BY <1>1, <1>4, <1>5, <1>6, Seconds DEF Told, EnteredInv

LEMMA GuardSecond ==
    ASSUME GuardInv, Second
    PROVE  Told'
<1>0. TreeOK /\ MaskOK /\ TypeInv /\ Solvable /\ RestsBack
  BY Stands
<1>1. /\ pending.code = <<OnExec("s_or")>> /\ CloseRegion /\ pending # Nothing
      /\ exec' = pending.lanes /\ pending' = Nothing /\ outer' = outer /\ entered' = entered
  BY <1>0, Transitions DEF Second, GuardInv
<1>2. outer = <<>>
  BY <1>1, Stands DEF NestInv, LoopInv
<1>3. UNCHANGED <<all, stack, ran>>
  <2>1. Len(stack) = 1
    BY <1>2, Stands
  <2> QED BY <1>0, <1>1, <2>1, CloseTree DEF tree
<1>4. Solvable' /\ RestsBack'
  BY <1>0, <1>3, SameTells DEF SameEquations
<1>5. EnteredInv'
  BY <1>1 DEF GuardInv, EnteredInv
<1>6. ASSUME NEW L, NEW E, NEW R, SolvesL(L)', SolvesE(L, E)', SolvesR(R)'
      PROVE  Tells(E, R)'
  <2>1. Tells(E, R)
    <3>1. SameEquations
      BY <1>3 DEF SameEquations
    <3>2. SolvesL(L) /\ SolvesE(L, E) /\ SolvesR(R)
      BY <1>6, <3>1, SameSolves
    <3> QED BY <3>2 DEF GuardInv
  <2> QED BY <1>1, <1>3, <2>1 DEF Tells, Clean, Cur
<1> QED BY <1>1, <1>4, <1>5, <1>6, Seconds DEF Told

LEMMA GuardBody ==
    ASSUME GuardInv, Body
    PROVE  Told'
<1>0. TreeOK /\ MaskOK /\ TypeInv /\ Solvable /\ RestsBack
  BY Stands
<1>1. /\ ran' = Append(ran, [region |-> Cur, lanes |-> exec]) /\ all' = all /\ stack' = stack
      /\ entered' = FALSE /\ pending = Nothing /\ UNCHANGED <<exec, outer, pending>>
  BY <1>0, Transitions DEF Body, AddBody
<1>2. Solvable' /\ RestsBack'
  BY <1>0, <1>1, SameTells DEF SameEquations
<1>3. ASSUME NEW L, NEW E, NEW R, SolvesL(L)', SolvesE(L, E)', SolvesR(R)'
      PROVE  Tells(E, R)'
  <2>1. Tells(E, R)
    <3>1. SameEquations
      BY <1>1 DEF SameEquations
    <3>2. SolvesL(L) /\ SolvesE(L, E) /\ SolvesR(R)
      BY <1>3, <3>1, SameSolves
    <3> QED BY <3>2 DEF GuardInv
  <2>2. ASSUME NEW k \in DOMAIN ran', NEW r, r = ran'[k].region, Clean(R, r)
        PROVE  ran'[k].lanes = E[r]
    <3>1. CASE k \in DOMAIN ran
      <4>1. ran'[k] = ran[k]
        BY <1>0, <1>1, <3>1 DEF TreeOK
      <4> QED BY <2>1, <2>2, <3>1, <4>1 DEF Tells
    <3>2. CASE k \notin DOMAIN ran
      <4>1. ran'[k] = [region |-> Cur, lanes |-> exec]
        BY <1>0, <1>1, <3>2 DEF TreeOK
      <4> QED BY <1>1, <2>1, <2>2, <4>1 DEF Tells
    <3> QED BY <3>1, <3>2
  <2> QED BY <1>1, <2>1, <2>2 DEF Tells, Clean, Cur
<1> QED BY <1>1, <1>2, <1>3, Seconds DEF Told, EnteredInv

LEMMA GuardNext == LoopsOutside /\ ~ SplitElses /\ GuardInv /\ [Next]_vars => GuardInv'
<1> SUFFICES ASSUME LoopsOutside, ~ SplitElses, GuardInv, [Next]_vars
             PROVE  GuardInv'
  OBVIOUS
<1>1. NestInv'
  BY NestNext DEF GuardInv
<1>2. Told'
  <2>1. CASE Compare \/ Scalar \/ UNCHANGED vars
    <3>1. UNCHANGED <<tree, exec, outer, entered, pending>>
      BY <2>1, Transitions, Stands DEF Compare, Scalar, vars, masks, tree
    <3> QED BY <3>1, GuardIdle
  <2> QED BY <2>1, GuardOpen, GuardNarrow, GuardElse, GuardReroute, GuardClose,
             GuardLatch, GuardSecond, GuardBody DEF Next
<1> QED BY <1>1, <1>2 DEF GuardInv, Told

LEMMA GuardStart == Init => GuardInv
<1> SUFFICES ASSUME Init PROVE GuardInv
  OBVIOUS
<1>1. /\ DOMAIN all = {Root} /\ all[Root].kind = "Root" /\ all[Root].cond = {}
      /\ all[Root].pairedIf = 0
  BY DEF Init, MakeRegion, Root
<1>2. /\ Cur = Root /\ DOMAIN outer = {} /\ DOMAIN ran = {} /\ exec = Lanes /\ entered = FALSE
      /\ pending = Nothing
  BY DEF Init, Cur, Last, Root
<1>3. \A l \in Lanes : {} \subseteq l
  OBVIOUS
<1>4. Solvable
  <2>1. SolvesL([r \in {Root} |-> Lanes])
    BY <1>1, <1>3 DEF SolvesL
  <2>2. \A L : SolvesE(L, [r \in {Root} |-> L[Root] \cap Lanes])
    BY <1>1 DEF SolvesE
  <2>3. SolvesR([r \in {Root} |-> {Root}])
    BY <1>1 DEF SolvesR
  <2> QED BY <2>1, <2>2, <2>3 DEF Solvable
<1>5. RestsBack
  BY <1>1 DEF RestsBack, SolvesR, Root
<1>6. ASSUME NEW L, NEW E, NEW R, SolvesL(L), SolvesE(L, E), SolvesR(R)
      PROVE  Tells(E, R)
  <2>1. L[Root] = {l \in Lanes : {} \subseteq l}
    BY <1>1, <1>6 DEF SolvesL
  <2>2. E[Root] = Lanes
    BY <1>1, <1>3, <1>6, <2>1 DEF SolvesE
  <2> QED BY <1>2, <2>2 DEF Tells
<1> QED BY <1>2, <1>4, <1>5, <1>6, NestStart, Seconds DEF GuardInv, EnteredInv

(* The recursive definitions solve their equations. *)
LEMMA Defined ==
    ASSUME TreeOK, Solvable
    PROVE  SolvesL(LocalGuard) /\ SolvesE(LocalGuard, EffCond) /\ SolvesR(Rests)
<1>1. SolvesL(LocalGuard)
  <2> DEFINE Eq(f) == f = [r \in DOMAIN all |->
                             IF all[r].kind = "Else" /\ all[r].pairedIf # 0
                             THEN Lanes \ f[all[r].pairedIf]
                             ELSE {l \in Lanes : all[r].cond \subseteq l}]
  <2>1. PICK L : SolvesL(L)
    BY DEF Solvable
  <2> DEFINE g == [r \in DOMAIN all |-> L[r]]
  <2>2. Eq(g)
    BY <2>1, Refs DEF SolvesL
  <2>3. LocalGuard = CHOOSE f : Eq(f)
    BY DEF LocalGuard
  <2>4. Eq(LocalGuard)
    <3> HIDE DEF Eq
    <3> QED BY <2>2, <2>3
  <2> QED BY <2>4 DEF SolvesL
<1>2. SolvesE(LocalGuard, EffCond)
  <2> DEFINE Eq(f) == f = [r \in DOMAIN all |->
                             LocalGuard[r] \cap (IF r = Root THEN Lanes ELSE f[all[r].parent])]
  <2>1. PICK E : SolvesE(LocalGuard, E)
    BY <1>1 DEF Solvable
  <2> DEFINE g == [r \in DOMAIN all |-> E[r]]
  <2>2. Eq(g)
    BY <2>1, Refs DEF SolvesE
  <2>3. EffCond = CHOOSE f : Eq(f)
    BY DEF EffCond
  <2>4. Eq(EffCond)
    <3> HIDE DEF Eq
    <3> QED BY <2>2, <2>3
  <2> QED BY <2>4 DEF SolvesE
<1>3. SolvesR(Rests)
  <2> DEFINE Eq(f) == f = [r \in DOMAIN all |->
                             {r} \union (IF all[r].pairedIf # 0 THEN f[all[r].pairedIf] ELSE {})
                                 \union (IF r # Root THEN f[all[r].parent] ELSE {})]
  <2>1. PICK R : SolvesR(R)
    BY DEF Solvable
  <2> DEFINE g == [r \in DOMAIN all |-> R[r]]
  <2>2. Eq(g)
    BY <2>1, Refs DEF SolvesR
  <2>3. Rests = CHOOSE f : Eq(f)
    BY DEF Rests
  <2>4. Eq(Rests)
    <3> HIDE DEF Eq
    <3> QED BY <2>2, <2>3
  <2> QED BY <2>4 DEF SolvesR
<1> QED BY <1>1, <1>2, <1>3

(* The guard the analysis prints at a call or a select is the "full guard  *)
(* under which it executes" (structure.C:668-669), through any nesting of  *)
(* ifs, short circuits and elses: as long as an else is one instruction,   *)
(* no divergent loop lies inside of a region, and none of the arms that    *)
(* the guard is put together from is a reroute.                            *)
THEOREM GuardsAreLanes ==
    ASSUME LoopsOutside, ~ SplitElses
    PROVE  Spec => []GuardsTellLanes
<1>1. LoopsOutside /\ ~ SplitElses /\ GuardInv /\ [Next]_vars => GuardInv'
  BY GuardNext
<1>2. GuardInv => GuardsTellLanes
  <2> SUFFICES ASSUME GuardInv, NEW k \in DOMAIN ran, Regular(ran[k].region)
               PROVE  ran[k].lanes = EffCond[ran[k].region]
    BY DEF GuardsTellLanes
  <2>1. Tells(EffCond, Rests)
    BY Stands, Defined DEF GuardInv
  <2>2. Clean(Rests, ran[k].region)
    BY DEF Regular, Clean
  <2> QED BY <2>1, <2>2 DEF Tells
<1> QED BY <1>1, <1>2, GuardStart, LoopsOutside, ~ SplitElses, PTL DEF Spec
=============================================================================
