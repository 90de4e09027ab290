------------------------------ MODULE ControlFlow ------------------------------
(***************************************************************************)
(* The graph algorithms of StructureAnalysis                               *)
(* (analysis/cfrecovery/structure.C): the order in which the blocks of a   *)
(* function are walked, the backward search for the instruction that       *)
(* defines a mask, a condition code or a loop counter, and what is said of *)
(* the branch that ends a loop.  Each behaviour runs one of them on one    *)
(* graph of blocks, statement by statement.                                *)
(*                                                                         *)
(* Edges and predecessors come from ParseAPI in no particular order.  An   *)
(* instruction matters only for whether it defines what is searched for.   *)
(***************************************************************************)
EXTENDS Integers, Sequences, FiniteSets, SequencesExt

CONSTANTS Blocks,   \* the blocks of the function
          Entry,    \* f->entry()
          Callee,   \* a block of another function
          Graphs,   \* the control-flow graphs: the targets of each block
          None      \* no definition

ASSUME FlowAssumption ==
    /\ Entry \in Blocks /\ Callee \notin Blocks /\ None \notin Blocks
    /\ IsFiniteSet(Blocks)
    /\ Graphs \subseteq [Blocks -> SUBSET (Blocks \union {Callee})]

VARIABLES
    targets,  \* the graph
    task,     \* what runs on it
    seen,     \* seen, visited: the blocks met so far
    work,     \* the work list of reversePostOrder: blocks, and whether they were expanded
    post,     \* the blocks in post-order
    uses,     \* where the searches start: the block of the use, or the preheaders
    defs,     \* the blocks with a definition, the use's with one before the use
    late,     \* the use's block has a definition after the use
    stay,     \* the loop that a search stays out of
    starts,   \* the blocks from which a search is still to be made
    path,     \* the calls of the search in progress
    found,    \* the block of the definition found
    said      \* what is said of a loop's branch, and what the branch does

query == <<uses, defs, late, stay>>
vars  == <<targets, task, seen, work, post, query, starts, path, found, said>>

Subsets(S, n) == {T \in SUBSET S : Cardinality(T) <= n}

-----------------------------------------------------------------------------
(* What the graph says, whatever the code does.                            *)

Succs(b) == targets[b] \intersect Blocks

(* What is reached from start by steps of next.                            *)
Closure(start, next) ==
    LET Within[n \in 0 .. Cardinality(Blocks)] ==
            IF n = 0 THEN start
            ELSE Within[n - 1] \union UNION {next[c] : c \in Within[n - 1]}
    IN  Within[Cardinality(Blocks)]

(* The blocks that control can reach from b, avoid not entered. *)
From(b, avoid) == Closure({b} \ avoid, [c \in Blocks |-> Succs(c) \ avoid])

Reachable       == From(Entry, {})
Dominates(d, b) == b \notin From(Entry, {d})

(* The natural loop of the back edges to h; empty when there are none. *)
LoopOf(h) ==
    LET latches == {b \in Reachable : h \in Succs(b) /\ Dominates(h, b)}
    IN  {b \in Reachable : /\ latches # {} /\ Dominates(h, b)
                           /\ b = h \/ latches \intersect From(b, {h}) # {}}

Headers == {h \in Reachable : LoopOf(h) # {}}

(* The definitions from which control reaches the uses without meeting     *)
(* another one on the way, nor the blocks to stay out of.                  *)
Reaching ==
    Closure(uses, [c \in Blocks |-> IF c \in defs THEN {}
                                   ELSE {b \in Blocks \ stay : c \in Succs(b)}])
        \intersect defs

-----------------------------------------------------------------------------
Init ==
    /\ targets \in Graphs
    /\ task = "start"
    /\ seen = {} /\ work = <<>> /\ post = <<>>
    /\ uses = {} /\ defs = {} /\ late = FALSE /\ stay = {}
    /\ starts = {} /\ path = <<>> /\ found = None
    /\ said = None

-----------------------------------------------------------------------------
(* Slips, and what they share with the code.                               *)

(* b is to be emitted when the blocks in new are done, in whatever order. *)
Push(b, new) ==
    \E s \in SetToSeqs(new) :
       work' = Append(Front(work), [block |-> b, expanded |-> TRUE])
               \o [i \in DOMAIN s |-> [block |-> s[i], expanded |-> FALSE]]

(* a block on the list twice is expanded twice *)
VisitUnchecked ==
    /\ task = "order" /\ work # <<>>
    /\ LET b   == Last(work).block
           new == targets[b] \intersect (Blocks \ (seen \union {b}))
       IN  /\ ~ Last(work).expanded
           /\ seen' = seen \union {b}
           /\ Push(b, new)
    /\ UNCHANGED <<targets, task, post, query, starts, path, found, said>>

(* a block counts as seen when it is put on the list *)
VisitSeenEarly ==
    /\ task = "order" /\ work # <<>>
    /\ LET b   == Last(work).block
           new == targets[b] \intersect (Blocks \ (seen \union {b}))
       IN  /\ ~ Last(work).expanded
           /\ seen' = seen \union {b} \union new
           /\ Push(b, new)
    /\ UNCHANGED <<targets, task, post, query, starts, path, found, said>>

(* post-order taken for the order *)
OrderUnreversed == post

(* the whole block of the use is scanned *)
DefinesAnywhere(b) == b \in defs \/ (late /\ b \in uses)

(* the sense of s_cbranch_scc0 is overlooked *)
SaysUnnegated(body, taken, whenTrue) ==
    [scc \in BOOLEAN |-> scc = (taken \in body)]

-----------------------------------------------------------------------------
(* COND_TAKEN, COND_NOT_TAKEN, DIRECT, FALLTHROUGH, CALL_FT, INDIRECT: all *)
(* but the edges of calls and returns.                                     *)
IntraEdges(b) == targets[b] \intersect Blocks

Preds(b) == {p \in Blocks : b \in IntraEdges(p)}

-----------------------------------------------------------------------------
(* reversePostOrder                                                        *)

StartOrder ==
    /\ task = "start"
    /\ task' = "order"
    /\ work' = <<[block |-> Entry, expanded |-> FALSE]>>
    /\ UNCHANGED <<targets, seen, post, query, starts, path, found, said>>

(* its successors are done: emit *)
Emit ==
    /\ task = "order" /\ work # <<>>
    /\ Last(work).expanded
    /\ post' = Append(post, Last(work).block)
    /\ work' = Front(work)
    /\ UNCHANGED <<targets, task, seen, query, starts, path, found, said>>

(* expanded already, from another predecessor *)
Skip ==
    /\ task = "order" /\ work # <<>>
    /\ ~ Last(work).expanded
    /\ Last(work).block \in seen
    /\ work' = Front(work)
    /\ UNCHANGED <<targets, task, seen, post, query, starts, path, found, said>>

Visit ==
    /\ task = "order" /\ work # <<>>
    /\ LET b   == Last(work).block
           new == IntraEdges(b) \ (seen \union {b})
       IN  /\ ~ Last(work).expanded
           /\ b \notin seen
           /\ seen' = seen \union {b}
           /\ Push(b, new)
    /\ UNCHANGED <<targets, task, post, query, starts, path, found, said>>

FinishOrder ==
    /\ task = "order" /\ work = <<>>
    /\ task' = "ordered"
    /\ UNCHANGED <<targets, seen, work, post, query, starts, path, found, said>>

Order == Reverse(post)

-----------------------------------------------------------------------------
(* reachingCond, reachingDefInsn, reachingDefByName: one search            *)

(* A definition that the scan of b from its end, or from the use, meets. *)
Defines(b) == b \in defs

(* recoverCond, or the compare of a branch: the use is in block u. *)
StartCond ==
    /\ task = "start"
    /\ task' = "search"
    /\ \E u \in Reachable : uses' = {u} /\ starts' = {u}
    /\ defs' \in Subsets(Blocks, 2)
    /\ late' \in BOOLEAN
    /\ UNCHANGED <<targets, seen, work, post, stay, path, found, said>>

(* The counter of a loop: a search from each predecessor of the header     *)
(* outside of the loop, until one finds the initial value.                 *)
StartInit ==
    /\ task = "start"
    /\ task' = "search"
    /\ \E h \in Headers :
          /\ stay' = LoopOf(h)
          /\ starts' = Preds(h) \ LoopOf(h)
          /\ uses' = starts'
    /\ defs' \in Subsets(Blocks, 2)
    /\ UNCHANGED <<targets, seen, work, post, late, path, found, said>>

Enter(b) ==
    IF Defines(b) THEN found' = b /\ task' = "found" /\ UNCHANGED path
    ELSE path' = Append(path, b) /\ UNCHANGED <<found, task>>

(* A search of its own, with its own set of visited blocks. *)
Begin ==
    /\ task = "search" /\ path = <<>>
    /\ \E b \in starts :
          /\ starts' = starts \ {b}
          /\ seen' = {b}
          /\ Enter(b)
    /\ UNCHANGED <<targets, work, post, query, said>>

Recurse ==
    /\ task = "search" /\ path # <<>>
    /\ \E p \in Preds(Last(path)) \ (seen \union stay) :
          /\ seen' = seen \union {p}
          /\ Enter(p)
    /\ UNCHANGED <<targets, work, post, query, starts, said>>

Return ==
    /\ task = "search" /\ path # <<>>
    /\ Preds(Last(path)) \ (seen \union stay) = {}
    /\ path' = Front(path)
    /\ UNCHANGED <<targets, task, seen, work, post, query, starts, found, said>>

GiveUp ==
    /\ task = "search" /\ path = <<>> /\ starts = {}
    /\ task' = "found"
    /\ UNCHANGED <<targets, seen, work, post, query, starts, path, found, said>>

-----------------------------------------------------------------------------
(* The s_cbranch_scc that ends a block of a loop: "continue-if c" says     *)
(* that the loop goes on under c, "exit-if c" that it ends, and c is       *)
(* negated for s_cbranch_scc0.                                             *)
Says(body, taken, whenTrue) ==
    [scc \in BOOLEAN |-> (scc = whenTrue) = (taken \in body)]

Does(body, taken, other, whenTrue) ==
    [scc \in BOOLEAN |-> (IF scc = whenTrue THEN taken ELSE other) \in body]

(* The compare before it, S_CMP_<COND>_<TYPE>, as it is printed between    *)
(* its operands a and b, and what a reader takes that for; order is the    *)
(* sign of a - b.                                                          *)
cmpOp(cond) ==
    CASE cond = "LT" -> "<"
      [] cond = "GT" -> ">"
      [] cond \in {"LE", "NGT"} -> "<="
      [] cond \in {"GE", "NLT"} -> ">="
      [] cond = "EQ" -> "=="
      [] cond \in {"NE", "LG", "NEQ"} -> "!="

Reads(op, order) ==
    \/ order < 0 /\ op \in {"<", "<=", "!="}
    \/ order = 0 /\ op \in {"<=", "==", ">="}
    \/ order > 0 /\ op \in {">", ">=", "!="}

(* The scalar compares, and the condition code they leave. *)
Scc == [LT |-> {-1}, LE |-> {-1, 0}, EQ |-> {0}, LG |-> {-1, 1}, GE |-> {0, 1}, GT |-> {1}]

Latch ==
    /\ task = "start"
    /\ task' = "told"
    /\ \E h \in Headers : \E b \in LoopOf(h), whenTrue \in BOOLEAN, cond \in DOMAIN Scc :
          \E taken, other \in IntraEdges(b) :
             LET says == Says(LoopOf(h), taken, whenTrue)
                 does == Does(LoopOf(h), taken, other, whenTrue)
             IN  /\ taken # other /\ IntraEdges(b) = {taken, other}
                 /\ said' = [by    |-> "scc",
                             says  |-> [order \in {-1, 0, 1} |-> says[Reads(cmpOp(cond), order)]],
                             does  |-> [order \in {-1, 0, 1} |-> does[(order \in Scc[cond])]],
                             exits |-> {taken, other} \ LoopOf(h) # {}]
    /\ UNCHANGED <<targets, seen, work, post, query, starts, path, found>>

(* The exec branch of a loop: that of the first block, in whatever order,  *)
(* that ends in one, be it s_cbranch_execnz (whileLanes) or s_cbranch_execz. *)
(* "repeat-while-lanes-remain" and "repeat-until-lanes-clear" both say that *)
(* the loop goes on just as long as lanes are left.  The compiler has lanes *)
(* that are left go on in the loop: s_cbranch_execz leaves it, or skips the *)
(* body of an if within.                                                   *)
ExecLoop ==
    /\ task = "start"
    /\ task' = "told"
    /\ \E h \in Headers : \E b \in LoopOf(h), whileLanes \in BOOLEAN :
          \E taken, other \in IntraEdges(b) :
             LET does == Does(LoopOf(h), taken, other, whileLanes) IN
             /\ taken # other /\ IntraEdges(b) = {taken, other}
             /\ does[TRUE]
             /\ said' = [by    |-> "exec",
                         says  |-> [lanes \in BOOLEAN |-> lanes],
                         does  |-> does,
                         exits |-> {taken, other} \ LoopOf(h) # {}]
    /\ UNCHANGED <<targets, seen, work, post, query, starts, path, found>>

Next ==
    \/ StartOrder \/ Emit \/ Skip \/ Visit \/ FinishOrder
    \/ StartCond \/ StartInit \/ Begin \/ Recurse \/ Return \/ GiveUp
    \/ Latch \/ ExecLoop

Spec == Init /\ [][Next]_vars

-----------------------------------------------------------------------------
Before(b, c) == \E i, j \in DOMAIN Order : i < j /\ Order[i] = b /\ Order[j] = c

(* The instruction list of the analysis holds the instructions of every    *)
(* block that can run, once (structure.C:641-644).                         *)
OrderComplete ==
    task = "ordered" => /\ ToSet(Order) = Reachable
                        /\ Len(Order) = Cardinality(Reachable)
                        /\ Order[1] = Entry

(* "each block is visited before its successors (except across backedges)" *)
(* (structure.C:605-606): only an edge that closes a cycle runs backward,  *)
(* so values flow to a block from all its predecessors but a loop's.       *)
EdgesForward ==
    task = "ordered" =>
        \A b \in Reachable : \A t \in Succs(b) :
            Before(b, t) \/ b \in From(t, {})

(* "a region's OPEN precedes its body precedes its reconvergence"          *)
(* (structure.C:606-607): between a block and one it dominates, the order  *)
(* has only blocks that run between them, so the stack machine never meets *)
(* another construct's body inside an open region.                         *)
RegionsTogether ==
    task = "ordered" =>
        \A a, p \in Reachable :
            a # p /\ Dominates(a, p) =>
                /\ Before(a, p)
                /\ \A x \in Reachable : Before(a, x) /\ Before(x, p) => x \in From(a, {p})

(* The condition, compare or initial value reported is one that control    *)
(* may carry to the use: no other definition lies between on some path,    *)
(* and a counter's is not its update in the loop (structure.C:362, 394).   *)
(* And "?" is reported only when no definition reaches, whatever block the *)
(* search visits first.  A definition behind the use in its own block,     *)
(* carried round a loop, is one the search does not know.                  *)
SearchFinds ==
    task = "found" => IF found = None THEN Reaching = {} ELSE found \in Reaching

(* What is printed of a branch that may leave a loop is what it does, for  *)
(* each compare before it, and each sense of the branch and of its taken   *)
(* edge (structure.C:270-287, 492-497).                                    *)
LatchTold ==
    task = "told" /\ said.exits => said.says = said.does

(* "the backedge is s_cbranch_execnz/execz", "else it's a scalar loop"     *)
(* (structure.C:521, 534): the loop of an exec branch is one that ends     *)
(* when its lanes are gone.                                                *)
ExecLoopsDiverge ==
    task = "told" /\ said.by = "exec" => said.exits
===============================================================================
