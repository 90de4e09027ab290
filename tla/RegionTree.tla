------------------------------ MODULE RegionTree ------------------------------
(***************************************************************************)
(* How StructureAnalysis (analysis/cfrecovery/structure.C) turns the       *)
(* EXEC-mask instructions of a kernel into a tree of regions: a stack of   *)
(* open regions, moved by the role classify() gives each instruction.  The *)
(* instructions come in control-flow order from the structured code of the *)
(* compiler, whose lanes are followed alongside: exec is what the masks    *)
(* really are, the tree is what the analysis says of them.                 *)
(*                                                                         *)
(* A condition is a member of Conds, and a lane is the set of conditions   *)
(* that hold for it.                                                       *)
(***************************************************************************)
EXTENDS Naturals, Sequences, SequencesExt

CONSTANTS Conds,       \* conditions that compares of the kernel leave in masks
          SplitElses,  \* an else may be s_or_saveexec and s_xor exec, two instructions
          LoopDepth,   \* regions a divergent loop may lie in
          MaxRegions,  \* regions in the tree, the root included
          MaxBody      \* calls and selects between the mask instructions

ASSUME RegionsAssumption ==
    /\ SplitElses \in BOOLEAN
    /\ LoopDepth \in Nat
    /\ MaxRegions \in Nat \ {0}
    /\ MaxBody \in Nat

Lanes == SUBSET Conds

VARIABLES
    exec,     \* the active lanes
    outer,    \* outer[d]: the lanes active where the region at depth d opened
    entered,  \* no body has followed the mask instruction that led here
    vcc,      \* the condition of the last compare
    pending,  \* the instruction that must come next, if any, and the mask it leaves
    all,      \* all_: the regions, in the order they were made; the first is the root
    stack,    \* indices into all_ of the open regions, the root at the bottom
    ran       \* the body addresses: their region, and the lanes that ran them

masks == <<exec, outer, entered, vcc, pending>>
tree  == <<all, stack, ran>>
vars  == <<masks, tree>>

(* An instruction: its opcode, whether it writes EXEC (writesExec), and    *)
(* whether destination and source are one register (isSelfFlip).           *)
Insn(op, exe, self) == [op |-> op, exec |-> exe, self |-> self]
OnExec(op) == Insn(op, TRUE, FALSE)
Plain(op)  == Insn(op, FALSE, FALSE)
AndSave    == OnExec("s_and_saveexec")
OrSave     == OnExec("s_or_saveexec")
SelfFlip   == Insn("s_andn2_saveexec", TRUE, TRUE)
RouteNext  == OnExec("s_andn2_saveexec")

(* Scalar operations that are about the mask when they write it.           *)
ScalarOps == {"s_or", "s_mov", "s_xor", "s_andn2", "s_and", "s_cmp"}

Root == 1
Kind == {"Root", "If", "Else"}

(* A region without parent or without pairedIf has index 0 there; rerouted *)
(* remembers which transition made it.                                     *)
Region == [kind : Kind, cond : SUBSET Conds, parent : 0 .. MaxRegions,
           pairedIf : 0 .. MaxRegions, balanced : BOOLEAN, rerouted : BOOLEAN]

MakeRegion(kind, parent) ==
    [kind |-> kind, cond |-> {}, parent |-> parent, pairedIf |-> 0,
     balanced |-> TRUE, rerouted |-> FALSE]

Nothing == [code |-> <<>>, lanes |-> {}]

TypeOK ==
    /\ exec \subseteq Lanes
    /\ outer \in Seq(SUBSET Lanes)
    /\ entered \in BOOLEAN
    /\ vcc \in Conds
    /\ pending \in [code  : {<<>>, <<OnExec("s_xor")>>, <<OnExec("s_or")>>},
                   lanes : SUBSET Lanes]
    /\ all \in Seq(Region) /\ Len(all) \in 1 .. MaxRegions
    /\ stack \in Seq(DOMAIN all) /\ stack # <<>> /\ stack[1] = Root
    /\ ran \in Seq([region : DOMAIN all, lanes : SUBSET Lanes])

Init ==
    /\ exec = Lanes
    /\ outer = <<>>
    /\ entered = FALSE
    /\ vcc \in Conds
    /\ pending = Nothing
    /\ all = <<MakeRegion("Root", 0)>>
    /\ stack = <<Root>>
    /\ ran = <<>>

Cur     == Last(stack)
New     == Len(all) + 1
Where(c) == {l \in Lanes : c \in l}
ReplaceTop(r) == stack' = [stack EXCEPT ![Len(stack)] = r]

-----------------------------------------------------------------------------
(* Slips.                                                                  *)

(* the region is popped without a look at the stack *)
CloseRegionUnguarded ==
    /\ stack' = Front(stack)
    /\ UNCHANGED <<all, ran>>

(* the else arm is stacked on the arm it follows *)
ElseRegionStacked ==
    IF Cur = Root THEN UNCHANGED tree
    ELSE /\ all' = Append(all, [MakeRegion("Else", all[Cur].parent) EXCEPT !.pairedIf = Cur])
         /\ stack' = Append(stack, New)
         /\ UNCHANGED ran

(* a refinement replaces the condition *)
NarrowRegionReplacing ==
    /\ all' = IF Cur = Root THEN all ELSE [all EXCEPT ![Cur].cond = {vcc}]
    /\ UNCHANGED <<stack, ran>>

-----------------------------------------------------------------------------
(* The role of an instruction.                                             *)

classify(in) ==
    CASE in.op = "s_and_saveexec" -> "Open"
      [] in.op \in {"s_or_saveexec", "s_xor_saveexec", "s_orn2_saveexec",
                    "s_nand_saveexec", "s_nor_saveexec", "s_xnor_saveexec"} -> "Else"
      [] in.op = "s_andn2_saveexec" -> IF in.self THEN "Else" ELSE "Reroute"
      [] in.op \in {"s_or", "s_mov"} /\ in.exec -> "Close"
      [] in.op \in {"s_xor", "s_andn2"} /\ in.exec -> "Else"
      [] in.op = "s_and" /\ in.exec -> "Narrow"
      [] in.op = "v_cndmask" -> "Select"
      [] in.op = "s_swappc" -> "Call"
      [] in.op \in {"v_cmp", "s_cmp"} -> "Compare"
      [] OTHER -> "None"

(* OPEN: an if inside the current region, on the condition recovered.      *)
OpenRegion ==
    /\ all' = Append(all, [MakeRegion("If", Cur) EXCEPT !.cond = {vcc}])
    /\ stack' = Append(stack, New)
    /\ UNCHANGED ran

(* ELSE: a sibling that replaces the arm it complements.                   *)
ElseRegion ==
    IF Cur = Root THEN UNCHANGED tree
    ELSE /\ all' = Append(all, [MakeRegion("Else", all[Cur].parent) EXCEPT !.pairedIf = Cur])
         /\ ReplaceTop(New)
         /\ UNCHANGED ran

(* REROUTE: a sibling too, not paired, and flagged irregular.              *)
RerouteRegion ==
    IF Cur = Root THEN UNCHANGED tree
    ELSE /\ all' = Append(all, [MakeRegion("Else", all[Cur].parent) EXCEPT !.balanced = FALSE,
                                                                       !.rerouted = TRUE])
         /\ ReplaceTop(New)
         /\ UNCHANGED ran

(* Only an if has a reconvergence address, its post-dominator's, and the   *)
(* close may come at either side of it: to any other region it is 0.       *)
BalancedAtClose(r) == IF all[r].kind = "If" THEN BOOLEAN ELSE {TRUE}

(* CLOSE: the root stays.                                                  *)
CloseRegion ==
    IF Len(stack) <= 1 THEN UNCHANGED tree
    ELSE /\ \E b \in BalancedAtClose(Cur) : all' = [all EXCEPT ![Cur].balanced = b]
         /\ stack' = Front(stack)
         /\ UNCHANGED ran

(* NARROW: `&&` onto the condition of the region.                          *)
NarrowRegion ==
    /\ all' = IF Cur = Root THEN all ELSE [all EXCEPT ![Cur].cond = @ \union {vcc}]
    /\ UNCHANGED <<stack, ran>>

(* CALL, SELECT: a body address of the current region.                     *)
AddBody ==
    /\ ran' = Append(ran, [region |-> Cur, lanes |-> exec])
    /\ UNCHANGED <<all, stack>>

Follow(in) ==
    LET role == classify(in) IN
    \/ role = "Open"    /\ OpenRegion
    \/ role = "Else"    /\ ElseRegion
    \/ role = "Reroute" /\ RerouteRegion
    \/ role = "Close"   /\ CloseRegion
    \/ role = "Narrow"  /\ NarrowRegion
    \/ role \in {"Call", "Select"}  /\ AddBody
    \/ role \in {"Compare", "None"} /\ UNCHANGED tree

-----------------------------------------------------------------------------
(* The instructions of the kernel, and what they do to the mask.  A        *)
(* region's arms divide the lanes it was opened with, and its close brings *)
(* them all back; the same close (s_mov exec) occurs outside of every      *)
(* region.                                                                 *)

Fits(n) == pending = Nothing /\ Len(all) + n <= MaxRegions

Compare ==
    /\ Fits(0)
    /\ vcc' \in Conds
    /\ Follow(Plain("v_cmp"))
    /\ UNCHANGED <<exec, outer, entered, pending>>

Scalar ==                                 \* arithmetic on other registers
    /\ Fits(0)
    /\ \E op \in ScalarOps : Follow(Plain(op))
    /\ UNCHANGED masks

Open ==
    /\ Fits(1)
    /\ Follow(AndSave)
    /\ exec' = exec \cap Where(vcc)
    /\ outer' = Append(outer, exec)
    /\ entered' = TRUE
    /\ UNCHANGED <<vcc, pending>>

Narrow ==                                 \* the next in a short circuit
    /\ Fits(0)
    /\ entered
    /\ Follow(OnExec("s_and"))
    /\ exec' = exec \cap Where(vcc)
    /\ UNCHANGED <<outer, entered, vcc, pending>>

(* The else of the compiler: the second of two instructions flips a mask   *)
(* that the first has widened to both arms.                                *)
ElseCode == {<<SelfFlip>>, <<OnExec("s_xor")>>}
            \union (IF SplitElses THEN {<<OrSave, OnExec("s_xor")>>} ELSE {})

Else ==
    /\ outer # <<>>
    /\ \E code \in ElseCode :
        LET rest == Last(outer) \ exec IN
        /\ Fits(Len(code))
        /\ Follow(Head(code))
        /\ IF Len(code) = 1
           THEN exec' = rest /\ UNCHANGED pending
           ELSE exec' = Last(outer) /\ pending' = [code |-> Tail(code), lanes |-> rest]
    /\ entered' = FALSE
    /\ UNCHANGED <<outer, vcc>>

Reroute ==
    /\ Fits(1)
    /\ outer # <<>>
    /\ exec' \in SUBSET (Last(outer) \ exec)
    /\ Follow(RouteNext)
    /\ entered' = FALSE
    /\ UNCHANGED <<outer, vcc, pending>>

Close ==
    /\ Fits(0)
    /\ \E op \in {"s_or", "s_mov"} : Follow(OnExec(op))
    /\ IF outer = <<>> THEN UNCHANGED <<exec, outer>>
       ELSE exec' = Last(outer) /\ outer' = Front(outer)
    /\ entered' = FALSE
    /\ UNCHANGED <<vcc, pending>>

(* The end of a divergent loop: control passes it when the last lane has   *)
(* left, and the lanes that had entered come back.                         *)
Latch ==
    /\ Fits(1)
    /\ Len(outer) <= LoopDepth
    /\ Follow(OnExec("s_andn2"))
    /\ exec' = {}
    /\ pending' = [code |-> <<OnExec("s_or")>>, lanes |-> exec]
    /\ entered' = FALSE
    /\ UNCHANGED <<outer, vcc>>

(* The second instruction of an else or of the end of a loop.              *)
Second ==
    /\ pending # Nothing
    /\ Follow(Head(pending.code))
    /\ exec' = pending.lanes
    /\ pending' = Nothing
    /\ UNCHANGED <<outer, entered, vcc>>

Body ==
    /\ Fits(0)
    /\ Len(ran) < MaxBody
    /\ \E op \in {"s_swappc", "v_cndmask"} : Follow(Plain(op))
    /\ entered' = FALSE
    /\ UNCHANGED <<exec, outer, vcc, pending>>

Next ==
    \/ Compare \/ Scalar \/ Open \/ Narrow \/ Else \/ Reroute
    \/ Close \/ Latch \/ Second \/ Body

Spec == Init /\ [][Next]_vars

-----------------------------------------------------------------------------
(* The guards, as sets of lanes.                                           *)

LocalGuard[r \in DOMAIN all] ==
    IF all[r].kind = "Else" /\ all[r].pairedIf # 0
    THEN Lanes \ LocalGuard[all[r].pairedIf]
    ELSE {l \in Lanes : all[r].cond \subseteq l}

EffCond[r \in DOMAIN all] ==
    LocalGuard[r] \cap (IF r = Root THEN Lanes ELSE EffCond[all[r].parent])

(* The regions from which the guard of r is put together. *)
Rests[r \in DOMAIN all] ==
    {r} \union (IF all[r].pairedIf # 0 THEN Rests[all[r].pairedIf] ELSE {})
        \union (IF r # Root THEN Rests[all[r].parent] ELSE {})

(* No arm before r, nor region around it, is a reroute. *)
Regular(r) == \A q \in Rests[r] : ~ all[q].rerouted

(* "full guard under which it executes" (structure.C:668-669): the lanes   *)
(* that run a body are those for which the guard printed at its region     *)
(* holds, through any nesting of ifs, short circuits and elses.            *)
GuardsTellLanes ==
    \A k \in DOMAIN ran :
        Regular(ran[k].region) => ran[k].lanes = EffCond[ran[k].region]

(* "the stack depth is the nesting depth" (structure.C:652): the open      *)
(* regions are a path of the tree, one for every mask still to be restored *)
(* and none that was closed or replaced by its else.                       *)
StackIsNesting ==
    /\ Len(stack) = Len(outer) + 1
    /\ \A d \in DOMAIN outer : all[stack[d + 1]].parent = stack[d]

(* What dump() says of a region: "[REROUTE/irregular]" or "[UNBALANCED]".  *)
Marked(r) == all[r].kind # "Root" /\ ~ all[r].balanced

(* "flag it irregular, so the output honestly marks" (structure.C:1025):   *)
(* an arm that a reroute began is still marked when the tree is printed.   *)
RerouteMarked == \A r \in DOMAIN all : all[r].rerouted => Marked(r)
===============================================================================
