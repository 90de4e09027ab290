-------------------------- MODULE ControlFlowProofs --------------------------
(***************************************************************************)
(* Proofs about ControlFlow for every set of graphs: the order of blocks   *)
(* and where it puts the parts of a construct, what the backward searches  *)
(* find, and what is said of the branch of a loop.                         *)
(***************************************************************************)
EXTENDS ControlFlow, FiniteSetTheorems, SequenceTheorems, WellFoundedInduction, TLAPS

-----------------------------------------------------------------------------
(***************************************************************************)
(* Least elements and induction over naturals, stated with a set.          *)
(***************************************************************************)

(* A set of naturals has a least element.                                  *)
LEMMA LeastNumber ==
    ASSUME NEW S \in SUBSET Nat, S # {}
    PROVE  \E n \in S : \A m \in S : n <= m
<1>1. IsWellFoundedOn(OpToRel(<, Nat), Nat)
  BY NatLessThanWellFounded
<1>2. PICK n \in S : \A m \in S : ~ (<<m, n>> \in OpToRel(<, Nat))
  BY <1>1, WFMin
<1>3. n \in Nat /\ \A m \in S : m \in Nat
  OBVIOUS
<1>4. \A m \in S : ~ (m < n)
  BY <1>2, <1>3 DEF OpToRel
<1>5. \A m \in S : n <= m
  BY <1>3, <1>4
<1> QED BY <1>5

(* Induction, for a set of naturals.                                       *)
LEMMA SetInduction ==
    ASSUME NEW S, 0 \in S, \A n \in Nat : n \in S => n + 1 \in S
    PROVE  Nat \subseteq S
<1> SUFFICES ASSUME Nat \ S # {} PROVE FALSE
  OBVIOUS
<1>1. PICK n \in Nat \ S : \A m \in Nat \ S : n <= m
  BY LeastNumber
<1>2. n - 1 \in Nat /\ n - 1 \notin Nat \ S /\ (n - 1) + 1 = n
  BY <1>1
<1> QED BY <1>1, <1>2

-----------------------------------------------------------------------------
(***************************************************************************)
(* Closure adds whatever next leads to, and nothing else.                  *)
(***************************************************************************)
Stages(f, start, next, n) ==
    f = [i \in 0 .. n |-> IF i = 0 THEN start
                          ELSE f[i - 1] \union UNION {next[c] : c \in f[i - 1]}]

LEMMA StagesExist ==
    ASSUME NEW start, NEW next, NEW n \in Nat
    PROVE  \E f : Stages(f, start, next, n)
<1> DEFINE S == {k \in Nat : \E f : Stages(f, start, next, k)}
<1>1. 0 \in S
  <2> DEFINE f == [i \in 0 .. 0 |-> start]
  <2>1. Stages(f, start, next, 0)
    BY DEF Stages
  <2> QED BY <2>1
<1>2. ASSUME NEW k \in Nat, k \in S PROVE k + 1 \in S
  <2>1. PICK f : Stages(f, start, next, k)
    BY <1>2
  <2> DEFINE g == [i \in 0 .. k + 1 |-> IF i = 0 THEN start
                          ELSE f[i - 1] \union UNION {next[c] : c \in f[i - 1]}]
  <2>2. \A i \in 0 .. k : g[i] = f[i]
    <3>1. \A i \in 0 .. k : i \in 0 .. k + 1
      OBVIOUS
    <3> QED BY <2>1, <3>1 DEF Stages
  <2>3. \A i \in 0 .. k + 1 : i # 0 => i - 1 \in 0 .. k
    OBVIOUS
  <2>4. \A i \in 0 .. k + 1 : i # 0 => f[i - 1] = g[i - 1]
    BY <2>2, <2>3
  <2> DEFINE G(h) == [i \in 0 .. k + 1 |-> IF i = 0 THEN start
                          ELSE h[i - 1] \union UNION {next[c] : c \in h[i - 1]}]
  <2>5. g = G(g)
    <3> HIDE DEF g
    <3>1. g = G(f)
      BY DEF g
    <3>2. \A i \in 0 .. k + 1 : G(f)[i] = G(g)[i]
      BY <2>4
    <3>3. G(f) = G(g)
      BY <3>2
    <3> QED BY <3>1, <3>3
  <2>6. Stages(g, start, next, k + 1)
    BY <2>5 DEF Stages
  <2> QED BY <2>6
<1>3. Nat \subseteq S
  <2> HIDE DEF S
  <2> QED BY <1>1, <1>2, SetInduction
<1> QED BY <1>3

LEMMA ClosureStages ==
    ASSUME NEW start, NEW next
    PROVE  \E f : /\ Stages(f, start, next, Cardinality(Blocks))
                  /\ Closure(start, next) = f[Cardinality(Blocks)]
<1> DEFINE N == Cardinality(Blocks)
           f == CHOOSE g : Stages(g, start, next, N)
<1>1. N \in Nat
  BY FlowAssumption, FS_CardinalityType
<1>2. \E g : Stages(g, start, next, N)
  <2> HIDE DEF N
  <2> QED BY <1>1, StagesExist
<1>3. Stages(f, start, next, N)
  BY <1>2
<1>4. Closure(start, next) = f[N]
  BY DEF Closure, Stages
<1> QED BY <1>3, <1>4

(* There are no more stages than blocks: one that adds nothing is the last *)
(* one, and each before it adds a block.                                   *)
LEMMA ClosureIs ==
    ASSUME NEW start \in SUBSET Blocks, NEW next \in [Blocks -> SUBSET Blocks]
    PROVE  /\ Closure(start, next) \in SUBSET Blocks
           /\ start \subseteq Closure(start, next)
           /\ \A c \in Closure(start, next) : next[c] \subseteq Closure(start, next)
           /\ \A S : start \subseteq S /\ (\A c \in S \cap Blocks : next[c] \subseteq S)
                        => Closure(start, next) \subseteq S
<1> DEFINE N == Cardinality(Blocks)
           More(T) == T \union UNION {next[c] : c \in T}
<1>1. N \in Nat /\ IsFiniteSet(Blocks)
  BY FlowAssumption, FS_CardinalityType
<1>2. PICK f : Stages(f, start, next, N) /\ Closure(start, next) = f[N]
  BY ClosureStages
<1>3. f[0] = start /\ \A k \in Nat : k + 1 \in 0 .. N => f[k + 1] = More(f[k])
  <2> HIDE DEF N
  <2>1. f = [i \in 0 .. N |-> IF i = 0 THEN start
                          ELSE f[i - 1] \union UNION {next[c] : c \in f[i - 1]}]
    BY <1>2 DEF Stages
  <2>2. ASSUME NEW k \in Nat, k + 1 \in 0 .. N PROVE f[k + 1] = More(f[k])
    <3>1. k + 1 # 0 /\ (k + 1) - 1 = k
      OBVIOUS
    <3>2. f[k + 1] = f[(k + 1) - 1] \union UNION {next[c] : c \in f[(k + 1) - 1]}
      BY <2>1, <2>2, <3>1
    <3> QED BY <3>1, <3>2
  <2>3. 0 \in 0 .. N
    BY <1>1
  <2> QED BY <2>1, <2>2, <2>3
<1> HIDE DEF N
<1>4. \A T \in SUBSET Blocks : More(T) \in SUBSET Blocks /\ T \subseteq More(T)
  OBVIOUS
<1>5. \A k \in 0 .. N : f[k] \in SUBSET Blocks /\ start \subseteq f[k]
  <2> DEFINE S == {k \in Nat : k \in 0 .. N => f[k] \in SUBSET Blocks /\ start \subseteq f[k]}
  <2>1. 0 \in S
    BY <1>3
  <2>2. ASSUME NEW k \in Nat, k \in S PROVE k + 1 \in S
    <3> SUFFICES ASSUME k + 1 \in 0 .. N
                 PROVE  f[k + 1] \in SUBSET Blocks /\ start \subseteq f[k + 1]
      OBVIOUS
    <3>1. k \in 0 .. N
      BY <1>1
    <3>2. f[k + 1] = More(f[k]) /\ f[k] \in SUBSET Blocks /\ start \subseteq f[k]
      BY <1>3, <2>2, <3>1
    <3> QED BY <1>4, <3>2
  <2>3. Nat \subseteq S
    <3> HIDE DEF S
    <3> QED BY <2>1, <2>2, SetInduction
  <2> QED BY <1>1, <2>3
<1>6. \A k \in 0 .. N : More(f[k]) = f[k] \/ Cardinality(f[k]) > k
  <2> DEFINE S == {k \in Nat : k \in 0 .. N => More(f[k]) = f[k] \/ Cardinality(f[k]) > k}
  <2>1. 0 \in S
    <3>1. CASE start = {}
      BY <1>3, <3>1
    <3>2. CASE start # {}
      <4>1. IsFiniteSet(start)
        BY <1>1, FS_Subset
      <4>2. Cardinality(start) \in Nat /\ Cardinality(start) # 0
        BY <3>2, <4>1, FS_EmptySet, FS_CardinalityType
      <4> QED BY <1>3, <4>2
    <3> QED BY <3>1, <3>2
  <2>2. ASSUME NEW k \in Nat, k \in S PROVE k + 1 \in S
    <3> SUFFICES ASSUME k + 1 \in 0 .. N
                 PROVE  More(f[k + 1]) = f[k + 1] \/ Cardinality(f[k + 1]) > k + 1
      OBVIOUS
    <3>1. k \in 0 .. N
      BY <1>1
    <3>2. f[k + 1] = More(f[k])
      BY <1>3
    <3>3. CASE More(f[k]) = f[k]
      BY <3>2, <3>3
    <3>4. CASE More(f[k]) # f[k]
      <4>1. Cardinality(f[k]) > k
        BY <2>2, <3>1, <3>4
      <4>2. f[k] \in SUBSET Blocks /\ f[k + 1] \in SUBSET Blocks /\ f[k] \in SUBSET f[k + 1]
        BY <1>4, <1>5, <3>1, <3>2
      <4>3. IsFiniteSet(f[k + 1]) /\ IsFiniteSet(f[k])
        BY <1>1, <4>2, FS_Subset
      <4>4. Cardinality(f[k]) <= Cardinality(f[k + 1]) /\ Cardinality(f[k + 1]) # Cardinality(f[k])
        BY <3>2, <3>4, <4>2, <4>3, FS_Subset
      <4>5. Cardinality(f[k]) \in Nat /\ Cardinality(f[k + 1]) \in Nat
        BY <4>3, FS_CardinalityType
      <4> QED BY <4>1, <4>4, <4>5
    <3> QED BY <3>3, <3>4
  <2>3. Nat \subseteq S
    <3> HIDE DEF S
    <3> QED BY <2>1, <2>2, SetInduction
  <2> QED BY <1>1, <2>3
<1>7. More(f[N]) = f[N]
  <2>1. f[N] \in SUBSET Blocks /\ N \in 0 .. N
    BY <1>1, <1>5
  <2>2. Cardinality(f[N]) <= N /\ Cardinality(f[N]) \in Nat
    BY <1>1, <2>1, FS_Subset, FS_CardinalityType DEF N
  <2> QED BY <1>1, <1>6, <2>1, <2>2
<1>8. ASSUME NEW T, start \subseteq T, \A c \in T \cap Blocks : next[c] \subseteq T
      PROVE  f[N] \subseteq T
  <2> DEFINE S == {k \in Nat : k \in 0 .. N => f[k] \subseteq T}
  <2>1. 0 \in S
    BY <1>3, <1>8
  <2>2. ASSUME NEW k \in Nat, k \in S PROVE k + 1 \in S
    <3> SUFFICES ASSUME k + 1 \in 0 .. N PROVE f[k + 1] \subseteq T
      OBVIOUS
    <3>1. k \in 0 .. N
      BY <1>1
    <3>2. f[k + 1] = More(f[k]) /\ f[k] \subseteq T /\ f[k] \in SUBSET Blocks
      BY <1>3, <1>5, <2>2, <3>1
    <3> QED BY <1>8, <3>2
  <2>3. Nat \subseteq S
    <3> HIDE DEF S
    <3> QED BY <2>1, <2>2, SetInduction
  <2> QED BY <1>1, <2>3
<1>9. f[N] \in SUBSET Blocks /\ start \subseteq f[N]
  BY <1>1, <1>5
<1>10. \A c \in f[N] : next[c] \subseteq f[N]
  BY <1>7, <1>9
<1> QED BY <1>2, <1>8, <1>9, <1>10

(***************************************************************************)
(* The graph, and paths in it.                                             *)
(***************************************************************************)
Flow == [Blocks -> SUBSET (Blocks \union {Callee})]

Paths(g, b, avoid) == Closure({b} \ avoid, [c \in Blocks |-> (g[c] \cap Blocks) \ avoid])

(* a dominates p in g *)
Dom(g, a, p) == p \notin Paths(g, Entry, {a})

LEMMA FromIsPaths ==
    /\ \A b, avoid : From(b, avoid) = Paths(targets, b, avoid)
    /\ Reachable = Paths(targets, Entry, {})
    /\ \A a, p : Dominates(a, p) <=> Dom(targets, a, p)
BY DEF From, Paths, Succs, Reachable, Dominates, Dom

LEMMA PathsAre ==
    ASSUME NEW g \in Flow, NEW b \in Blocks, NEW avoid
    PROVE  /\ Paths(g, b, avoid) \in SUBSET (Blocks \ avoid)
           /\ b \notin avoid => b \in Paths(g, b, avoid)
           /\ \A c \in Paths(g, b, avoid) : \A d \in g[c] \cap Blocks :
                 d \notin avoid => d \in Paths(g, b, avoid)
           /\ \A S : /\ b \notin avoid => b \in S
                     /\ \A c \in S \cap Blocks : \A d \in g[c] \cap Blocks : d \notin avoid => d \in S
                     => Paths(g, b, avoid) \subseteq S
<1> DEFINE next == [c \in Blocks |-> (g[c] \cap Blocks) \ avoid]
           start == {b} \ avoid
           P == Paths(g, b, avoid)
<1>1. start \in SUBSET Blocks /\ next \in [Blocks -> SUBSET Blocks]
  OBVIOUS
<1>2. P = Closure(start, next)
  BY DEF Paths
<1>3. \A c \in Blocks : next[c] = (g[c] \cap Blocks) \ avoid
  OBVIOUS
<1> HIDE DEF next, start, P
<1>4. /\ P \in SUBSET Blocks /\ start \subseteq P
      /\ \A c \in P : next[c] \subseteq P
      /\ \A S : start \subseteq S /\ (\A c \in S \cap Blocks : next[c] \subseteq S) => P \subseteq S
  BY <1>1, <1>2, ClosureIs
<1>5. P \in SUBSET (Blocks \ avoid)
  <2>1. start \subseteq Blocks \ avoid
    BY DEF start
  <2>2. \A c \in (Blocks \ avoid) \cap Blocks : next[c] \subseteq Blocks \ avoid
    BY <1>3
  <2> QED BY <1>4, <2>1, <2>2
<1>6. b \notin avoid => b \in P
  BY <1>4 DEF start
<1>7. \A c \in P : \A d \in g[c] \cap Blocks : d \notin avoid => d \in P
  BY <1>3, <1>4
<1>8. ASSUME NEW S, b \notin avoid => b \in S,
             \A c \in S \cap Blocks : \A d \in g[c] \cap Blocks : d \notin avoid => d \in S
      PROVE  P \subseteq S
  <2>1. start \subseteq S
    BY <1>8 DEF start
  <2>2. \A c \in S \cap Blocks : next[c] \subseteq S
    BY <1>3, <1>8
  <2> QED BY <1>4, <2>1, <2>2
<1> QED BY <1>5, <1>6, <1>7, <1>8 DEF P

LEMMA PathsJoin ==
    ASSUME NEW g \in Flow, NEW b \in Blocks, NEW avoid,
           NEW c \in Paths(g, b, avoid)
    PROVE  Paths(g, c, avoid) \subseteq Paths(g, b, avoid)
<1> DEFINE P == Paths(g, b, avoid)
<1>1. c \in Blocks /\ P \in SUBSET Blocks
      /\ \A x \in P : \A d \in g[x] \cap Blocks : d \notin avoid => d \in P
  BY PathsAre
<1>2. c \in P
  OBVIOUS
<1> HIDE DEF P
<1>3. Paths(g, c, avoid) \subseteq P
  BY <1>1, <1>2, PathsAre
<1> QED BY <1>3 DEF P

(* What dominates a block dominates all from which control comes to it.    *)
LEMMA DomStep ==
    ASSUME NEW g \in Flow, NEW a \in Blocks, NEW c \in Blocks, NEW t \in g[c] \cap Blocks,
           Dom(g, a, t), a # t
    PROVE  Dom(g, a, c)
<1> SUFFICES ASSUME c \in Paths(g, Entry, {a}) PROVE t \in Paths(g, Entry, {a})
  BY DEF Dom
<1> QED BY PathsAre, FlowAssumption

(***************************************************************************)
(* The work list.                                                          *)
(***************************************************************************)
Entries == [block : Blocks, expanded : BOOLEAN]

Top == work[Len(work)]

LEMMA LastOf ==
    ASSUME NEW S, NEW s \in Seq(S), s # <<>>
    PROVE  /\ Len(s) \in Nat \ {0} /\ Last(s) = s[Len(s)] /\ Last(s) \in S
           /\ Front(s) \in Seq(S) /\ Len(Front(s)) = Len(s) - 1
           /\ \A i \in 1 .. Len(s) - 1 : Front(s)[i] = s[i]
<1>1. Len(s) \in Nat \ {0} /\ \A i \in 1 .. Len(s) : s[i] \in S
  BY EmptySeq, ElementOfSeq
<1>2. /\ SubSeq(s, 1, Len(s) - 1) \in Seq(S)
      /\ Len(SubSeq(s, 1, Len(s) - 1)) = Len(s) - 1
      /\ \A i \in 1 .. Len(s) - 1 : SubSeq(s, 1, Len(s) - 1)[i] = s[i]
  <2> DEFINE n == Len(s) - 1
  <2>1. n \in Nat /\ \A i \in 1 .. n : s[i] \in S
    BY <1>1
  <2> HIDE DEF n
  <2>2. /\ SubSeq(s, 1, n) \in Seq(S)
        /\ Len(SubSeq(s, 1, n)) = (IF 1 <= n THEN n - 1 + 1 ELSE 0)
        /\ \A i \in 1 .. n - 1 + 1 : SubSeq(s, 1, n)[i] = s[1 + i - 1]
    BY <2>1, SubSeqProperties
  <2>3. Len(SubSeq(s, 1, n)) = n /\ \A i \in 1 .. n : SubSeq(s, 1, n)[i] = s[i]
    BY <2>1, <2>2
  <2> QED BY <2>2, <2>3 DEF n
<1> QED BY <1>1, <1>2 DEF Front, Last

(* Each of a set of blocks is put on the list once, behind the expanded    *)
(* entry of b.                                                             *)
LEMMA Pushed ==
    ASSUME work \in Seq(Entries), work # <<>>, NEW b \in Blocks, NEW new \in SUBSET Blocks,
           Push(b, new)
    PROVE  \E m \in Nat :
             /\ work' \in Seq(Entries) /\ Len(work') = Len(work) + m
             /\ \A i \in 1 .. Len(work) - 1 : work'[i] = work[i]
             /\ work'[Len(work)] = [block |-> b, expanded |-> TRUE]
             /\ \A i \in Len(work) + 1 .. Len(work) + m :
                   ~ work'[i].expanded /\ work'[i].block \in new
             /\ \A t \in new : \E i \in Len(work) + 1 .. Len(work) + m : work'[i].block = t
<1>1. PICK s \in SetToSeqs(new) :
         work' = Append(Front(work), [block |-> b, expanded |-> TRUE])
                 \o [i \in DOMAIN s |-> [block |-> s[i], expanded |-> FALSE]]
  BY DEF Push
<1> DEFINE m == Cardinality(new)
           n == Len(work)
           front == Append(Front(work), [block |-> b, expanded |-> TRUE])
           back  == [i \in 1 .. m |-> [block |-> s[i], expanded |-> FALSE]]
<1>2. IsFiniteSet(new) /\ m \in Nat
  BY FlowAssumption, FS_Subset, FS_CardinalityType
<1>3. s \in [1 .. m -> new] /\ \A i, j \in 1 .. m : i # j => s[i] # s[j]
  BY DEF SetToSeqs
<1>4. \A t \in new : \E i \in 1 .. m : s[i] = t
  <2>1. s \in Injection(1 .. m, new)
    BY <1>3 DEF Injection, IsInjective
  <2>2. IsFiniteSet(1 .. m) /\ Cardinality(1 .. m) = m
    <3> HIDE DEF m
    <3> QED BY <1>2, FS_Interval
  <2>3. s \in Surjection(1 .. m, new)
    BY <1>2, <2>1, <2>2, FS_Injection
  <2> QED BY <2>3 DEF Surjection
<1>5. /\ n \in Nat \ {0} /\ Front(work) \in Seq(Entries) /\ Len(Front(work)) = n - 1
      /\ \A i \in 1 .. n - 1 : Front(work)[i] = work[i]
  BY LastOf
<1>6. [block |-> b, expanded |-> TRUE] \in Entries
  BY DEF Entries
<1>7. /\ front \in Seq(Entries) /\ Len(front) = n
      /\ \A i \in 1 .. n - 1 : front[i] = work[i]
      /\ front[n] = [block |-> b, expanded |-> TRUE]
  <2> DEFINE e == [block |-> b, expanded |-> TRUE]
             f == Front(work)
  <2> HIDE DEF e, f, n
  <2>1. /\ n \in Nat \ {0} /\ f \in Seq(Entries) /\ Len(f) = n - 1 /\ e \in Entries
        /\ \A i \in 1 .. n - 1 : f[i] = work[i]
    BY <1>5, <1>6 DEF e, f
  <2>2. /\ Append(f, e) \in Seq(Entries) /\ Len(Append(f, e)) = n
        /\ \A i \in 1 .. n - 1 : Append(f, e)[i] = work[i]
        /\ Append(f, e)[n] = e
    BY <2>1
  <2> QED BY <2>2 DEF e, f
<1>8. /\ back \in Seq(Entries) /\ Len(back) = m
      /\ \A i \in 1 .. m : back[i] = [block |-> s[i], expanded |-> FALSE]
  <2> HIDE DEF m
  <2>1. \A i \in 1 .. m : s[i] \in Blocks
    BY <1>3
  <2>2. \A i \in 1 .. m : [block |-> s[i], expanded |-> FALSE] \in Entries
    BY <2>1 DEF Entries
  <2> QED BY <1>2, <2>2
<1>9. DOMAIN s = 1 .. m /\ work' = front \o back
  <2>1. DOMAIN s = 1 .. m
    BY <1>3
  <2> QED BY <1>1, <2>1
<1> HIDE DEF m, n, front, back
<1>10. /\ work' \in Seq(Entries) /\ Len(work') = n + m
       /\ \A i \in 1 .. n + m : work'[i] = IF i <= n THEN front[i] ELSE back[i - n]
  BY <1>7, <1>8, <1>9, ConcatProperties
<1>11. \A i \in 1 .. n - 1 : work'[i] = work[i]
  BY <1>2, <1>5, <1>7, <1>10
<1>12. work'[n] = [block |-> b, expanded |-> TRUE]
  BY <1>2, <1>5, <1>7, <1>10
<1>13. \A i \in n + 1 .. n + m : /\ i - n \in 1 .. m
                                 /\ work'[i] = [block |-> s[i - n], expanded |-> FALSE]
  <2> SUFFICES ASSUME NEW i \in n + 1 .. n + m
               PROVE  i - n \in 1 .. m /\ work'[i] = [block |-> s[i - n], expanded |-> FALSE]
    OBVIOUS
  <2>1. i \in 1 .. n + m /\ ~ (i <= n) /\ i - n \in 1 .. m
    BY <1>2, <1>5
  <2> QED BY <1>8, <1>10, <2>1
<1>14. \A i \in n + 1 .. n + m : /\ i - n \in 1 .. m
                                 /\ work'[i].block = s[i - n] /\ work'[i].expanded = FALSE
  <2> SUFFICES ASSUME NEW i \in n + 1 .. n + m
               PROVE  /\ i - n \in 1 .. m
                      /\ work'[i].block = s[i - n] /\ work'[i].expanded = FALSE
    OBVIOUS
  <2> DEFINE e == s[i - n]
  <2>1. i - n \in 1 .. m /\ work'[i] = [block |-> e, expanded |-> FALSE]
    BY <1>13
  <2> HIDE DEF e
  <2>2. work'[i].block = e /\ work'[i].expanded = FALSE
    BY <2>1
  <2> QED BY <2>1, <2>2 DEF e
<1>15. ASSUME NEW t \in new PROVE \E i \in n + 1 .. n + m : work'[i].block = t
  <2>1. PICK i \in 1 .. m : s[i] = t
    BY <1>4
  <2>2. n + i \in n + 1 .. n + m /\ (n + i) - n = i
    BY <1>2, <1>5
  <2>3. work'[n + i].block = t
    BY <1>14, <2>1, <2>2
  <2> QED BY <2>2, <2>3
<1>16. \A i \in n + 1 .. n + m : ~ work'[i].expanded /\ work'[i].block \in new
  BY <1>3, <1>14
<1> QED BY <1>2, <1>10, <1>11, <1>12, <1>15, <1>16 DEF n

(* The blocks that are being expanded, and those that were emitted.        *)
Open == {b \in Blocks : \E i \in DOMAIN work : work[i].expanded /\ work[i].block = b}
Done == {b \in Blocks : \E i \in DOMAIN post : post[i] = b}

TypeInv ==
    /\ targets \in Flow
    /\ task \in {"start", "order", "ordered", "search", "found", "told"}
    /\ seen \in SUBSET Blocks
    /\ work \in Seq(Entries)
    /\ post \in Seq(Blocks)
    /\ uses \in SUBSET Blocks /\ defs \in SUBSET Blocks /\ stay \in SUBSET Blocks
    /\ starts \in SUBSET Blocks /\ path \in Seq(Blocks)
    /\ found \in Blocks \union {None}

(* A block that was met is expanded or emitted, and only blocks that can   *)
(* run are.                                                                *)
SeenInv ==
    /\ seen = Open \union Done
    /\ seen \subseteq Paths(targets, Entry, {})
    /\ \A i \in DOMAIN work : work[i].block \in Paths(targets, Entry, {})

(* And that once.                                                          *)
OnceInv ==
    /\ Open \cap Done = {}
    /\ \A i, j \in DOMAIN work :
          work[i].expanded /\ work[j].expanded /\ work[i].block = work[j].block => i = j
    /\ \A i, j \in DOMAIN post : post[i] = post[j] => i = j

(* The entry is the first to be expanded, and the last to be emitted.      *)
EntryInv ==
    /\ work # <<>> => /\ work[1].block = Entry
                      /\ work[1].expanded \/ (seen = {} /\ Len(work) = 1)
    /\ work = <<>> => post # <<>> /\ post[Len(post)] = Entry

(* The successors of a block that was expanded were met, or lie above it   *)
(* on the list; those of one that was emitted were met.                    *)
ChildrenInv ==
    /\ \A b \in Done : targets[b] \cap Blocks \subseteq seen
    /\ \A i \in DOMAIN work : work[i].expanded =>
          \A t \in targets[work[i].block] \cap Blocks :
             t \in seen \/ \E j \in DOMAIN work : j > i /\ work[j].block = t

(* From a block that is expanded a path of such blocks leads to each entry *)
(* above it.                                                               *)
PathInv ==
    \A i, j \in DOMAIN work : \A avoid \in SUBSET Blocks :
        /\ i <= j /\ work[i].expanded
        /\ \A k \in i .. j : work[k].expanded \/ k = j => work[k].block \notin avoid
        => work[j].block \in Paths(targets, work[i].block, avoid)

(* What dominates an entry is expanded below it, what dominates a block    *)
(* that was emitted is expanded or was emitted later.                      *)
DomInv ==
    /\ \A j \in DOMAIN work : \A a \in Paths(targets, Entry, {}) :
          a # work[j].block /\ Dom(targets, a, work[j].block)
          => \E i \in 1 .. j - 1 : work[i].expanded /\ work[i].block = a
    /\ \A k \in DOMAIN post : \A a \in Paths(targets, Entry, {}) :
          a # post[k] /\ Dom(targets, a, post[k])
          => a \in Open \/ \E m \in DOMAIN post : m > k /\ post[m] = a

ForwardInv ==
    \A k \in DOMAIN post : \A t \in targets[post[k]] \cap Blocks :
        \/ \E j \in 1 .. k - 1 : post[j] = t
        \/ post[k] \in Paths(targets, t, {})

(* What is emitted after p and before a, which dominates p, is on a path   *)
(* from a that p is not on.                                                *)
TogetherInv ==
    /\ \A k, l \in DOMAIN post : \A i \in DOMAIN work :
          /\ k < l /\ work[i].expanded /\ work[i].block # post[k]
          /\ Dom(targets, work[i].block, post[k])
          => post[l] \in Paths(targets, work[i].block, {post[k]})
    /\ \A k, l, m \in DOMAIN post :
          k < l /\ l < m /\ Dom(targets, post[m], post[k])
          => post[l] \in Paths(targets, post[m], {post[k]})

Walk ==
    /\ SeenInv /\ OnceInv /\ EntryInv /\ ChildrenInv
    /\ PathInv /\ DomInv /\ ForwardInv /\ TogetherInv

OrderInv ==
    /\ task \in {"order", "ordered"} => Walk
    /\ task = "ordered" => work = <<>>
    /\ task = "start" => work = <<>> /\ post = <<>> /\ seen = {}

(* One entry is on the list, not expanded.                                 *)
LEMMA StartWalk ==
    ASSUME TypeInv, OrderInv, StartOrder
    PROVE  Walk'
<1> DEFINE e == [block |-> Entry, expanded |-> FALSE]
<1>1. /\ seen' = {} /\ post' = <<>> /\ work' = <<e>> /\ targets' = targets /\ targets \in Flow
  BY DEF StartOrder, OrderInv, TypeInv
<1>2. /\ DOMAIN work' = {1} /\ Len(work') = 1 /\ work'[1].block = Entry /\ work'[1].expanded = FALSE
      /\ DOMAIN post' = {} /\ work' # <<>>
  BY <1>1
<1>3. Open' = {} /\ Done' = {}
  BY <1>2 DEF Open, Done
<1>4. Entry \in Paths(targets, Entry, {}) /\ \A a : Dom(targets, a, Entry) => a = Entry
  <2>1. Entry \in Blocks
    BY FlowAssumption
  <2>2. \A a : a # Entry => Entry \in Paths(targets, Entry, {a})
    BY <1>1, <2>1, PathsAre
  <2> QED BY <1>1, <2>1, <2>2, PathsAre DEF Dom
<1>5. SeenInv'
  BY <1>1, <1>2, <1>3, <1>4 DEF SeenInv
<1>6. OnceInv' /\ EntryInv' /\ ChildrenInv' /\ PathInv' /\ ForwardInv' /\ TogetherInv'
  BY <1>1, <1>2, <1>3 DEF OnceInv, EntryInv, ChildrenInv, PathInv, ForwardInv, TogetherInv
<1>7. DomInv'
  BY <1>1, <1>2, <1>4 DEF DomInv
<1> QED BY <1>5, <1>6, <1>7 DEF Walk

(* The top of the list is taken off: what holds of the entries below it    *)
(* still does.                                                             *)
LEMMA Popped ==
    ASSUME TypeInv, work # <<>>, work' = Front(work), targets' = targets
    PROVE  /\ Len(work) \in Nat \ {0} /\ DOMAIN work = 1 .. Len(work)
           /\ work' \in Seq(Entries) /\ Len(work') = Len(work) - 1
           /\ DOMAIN work' = 1 .. Len(work) - 1
           /\ \A i \in 1 .. Len(work) - 1 : work'[i] = work[i]
           /\ Last(work) = work[Len(work)] /\ Last(work) \in Entries
           /\ \A i \in 1 .. Len(work) - 1 : i \in DOMAIN work /\ work'[i] = work[i]
<1>1. /\ Len(work) \in Nat \ {0} /\ Last(work) = work[Len(work)] /\ Last(work) \in Entries
      /\ work' \in Seq(Entries) /\ Len(work') = Len(work) - 1
      /\ \A i \in 1 .. Len(work) - 1 : work'[i] = work[i]
  BY LastOf DEF TypeInv
<1>2. DOMAIN work = 1 .. Len(work) /\ DOMAIN work' = 1 .. Len(work')
  BY <1>1 DEF TypeInv
<1> QED BY <1>1, <1>2

LEMMA PoppedPaths ==
    ASSUME TypeInv, PathInv, DomInv, work # <<>>, work' = Front(work), targets' = targets
    PROVE  /\ PathInv'
           /\ \A j \in DOMAIN work' : \A a \in Paths(targets', Entry, {}) :
                 a # work'[j].block /\ Dom(targets', a, work'[j].block)
                 => \E i \in 1 .. j - 1 : work'[i].expanded /\ work'[i].block = a
<1> DEFINE n == Len(work)
<1>1. /\ n \in Nat \ {0} /\ DOMAIN work = 1 .. n /\ DOMAIN work' = 1 .. n - 1
      /\ \A i \in 1 .. n - 1 : i \in 1 .. n /\ work'[i] = work[i]
  BY Popped
<1> HIDE DEF n
<1>2. PathInv'
  <2> SUFFICES ASSUME NEW i \in 1 .. n - 1, NEW j \in 1 .. n - 1, NEW avoid \in SUBSET Blocks,
                      i <= j, work'[i].expanded,
                      \A k \in i .. j : work'[k].expanded \/ k = j => work'[k].block \notin avoid
               PROVE  work'[j].block \in Paths(targets, work'[i].block, avoid)
    BY <1>1 DEF PathInv
  <2>1. \A k \in i .. j : k \in 1 .. n - 1 /\ work'[k] = work[k]
    BY <1>1
  <2>2. \A k \in i .. j : work[k].expanded \/ k = j => work[k].block \notin avoid
    BY <2>1
  <2>3. work'[i] = work[i] /\ work'[j] = work[j] /\ i \in 1 .. n /\ j \in 1 .. n
    BY <1>1
  <2> QED BY <1>1, <2>2, <2>3 DEF PathInv
<1>3. ASSUME NEW j \in 1 .. n - 1, NEW a \in Paths(targets, Entry, {}),
             a # work'[j].block, Dom(targets, a, work'[j].block)
      PROVE  \E i \in 1 .. j - 1 : work'[i].expanded /\ work'[i].block = a
  <2>1. PICK i \in 1 .. j - 1 : work[i].expanded /\ work[i].block = a
    BY <1>1, <1>3 DEF DomInv
  <2>2. i \in 1 .. n - 1
    BY <1>1
  <2> QED BY <1>1, <2>1, <2>2
<1> QED BY <1>1, <1>2, <1>3

(* An entry that was expanded meanwhile goes.                              *)
LEMMA SkipWalk ==
    ASSUME TypeInv, Walk, Skip
    PROVE  Walk'
<1> DEFINE n == Len(work)
<1>1. /\ work # <<>> /\ work' = Front(work) /\ seen' = seen /\ post' = post /\ targets' = targets
      /\ ~ Last(work).expanded /\ Last(work).block \in seen
  BY DEF Skip
<1>2. /\ n \in Nat \ {0} /\ DOMAIN work = 1 .. n /\ DOMAIN work' = 1 .. n - 1
      /\ Len(work') = n - 1
      /\ \A i \in 1 .. n - 1 : i \in 1 .. n /\ work'[i] = work[i]
      /\ ~ work[n].expanded /\ work[n].block \in seen
  BY <1>1, Popped
<1> HIDE DEF n
<1>3. \A i \in 1 .. n : work[i].expanded => i \in 1 .. n - 1
  BY <1>2
<1>4. Open' = Open /\ Done' = Done
  BY <1>1, <1>2, <1>3 DEF Open, Done
<1>5. SeenInv'
  BY <1>1, <1>2, <1>4 DEF SeenInv, Walk
<1>6. OnceInv'
  BY <1>1, <1>2, <1>4 DEF OnceInv, Walk
<1>7. EntryInv'
  <2>1. work[1].block = Entry /\ (work[1].expanded \/ (seen = {} /\ n = 1))
    BY <1>1 DEF EntryInv, Walk, n
  <2>2. work[1].expanded /\ n # 1
    BY <1>2, <2>1
  <2>3. work' # <<>> /\ work'[1] = work[1]
    <3>1. n - 1 # 0 /\ 1 \in 1 .. n - 1
      BY <1>2, <2>2
    <3> QED BY <1>2, <3>1
  <2> QED BY <2>1, <2>2, <2>3 DEF EntryInv
<1>8. ChildrenInv'
  <2>1. \A b \in Done' : targets'[b] \cap Blocks \subseteq seen'
    BY <1>1, <1>4 DEF ChildrenInv, Walk
  <2>2. ASSUME NEW i \in 1 .. n - 1, work'[i].expanded,
               NEW t \in targets[work'[i].block] \cap Blocks, t \notin seen
        PROVE  \E j \in 1 .. n - 1 : j > i /\ work'[j].block = t
    <3>1. PICK j \in 1 .. n : j > i /\ work[j].block = t
      BY <1>2, <2>2 DEF ChildrenInv, Walk
    <3>2. j # n
      BY <1>2, <2>2, <3>1
    <3>3. j \in 1 .. n - 1
      BY <1>2, <3>1, <3>2
    <3> QED BY <1>2, <3>1, <3>3
  <2> QED BY <1>1, <1>2, <2>1, <2>2 DEF ChildrenInv
<1>9. PathInv' /\ \A j \in DOMAIN work' : \A a \in Paths(targets', Entry, {}) :
                    a # work'[j].block /\ Dom(targets', a, work'[j].block)
                    => \E i \in 1 .. j - 1 : work'[i].expanded /\ work'[i].block = a
  BY <1>1, PoppedPaths DEF Walk
<1>10. DomInv'
  BY <1>1, <1>4, <1>9 DEF DomInv, Walk
<1>11. ForwardInv'
  BY <1>1 DEF ForwardInv, Walk
<1>12. TogetherInv'
  <2>1. ASSUME NEW k \in DOMAIN post, NEW l \in DOMAIN post, NEW i \in 1 .. n - 1,
               k < l, work'[i].expanded, work'[i].block # post[k],
               Dom(targets, work'[i].block, post[k])
        PROVE  post[l] \in Paths(targets, work'[i].block, {post[k]})
    <3>1. work'[i] = work[i] /\ i \in DOMAIN work
      BY <1>2
    <3> QED BY <2>1, <3>1 DEF TogetherInv, Walk
  <2>2. ASSUME NEW k \in DOMAIN post, NEW l \in DOMAIN post, NEW j \in DOMAIN post,
               k < l, l < j, Dom(targets, post[j], post[k])
        PROVE  post[l] \in Paths(targets, post[j], {post[k]})
    BY <2>2 DEF TogetherInv, Walk
  <2> QED BY <1>1, <1>2, <2>1, <2>2 DEF TogetherInv
<1> QED BY <1>5, <1>6, <1>7, <1>8, <1>9, <1>10, <1>11, <1>12 DEF Walk

(* An expanded block is emitted.                                           *)
LEMMA EmitWalk ==
    ASSUME TypeInv, Walk, Emit
    PROVE  Walk'
<1> DEFINE n == Len(work)
           m == Len(post)
           b == work[Len(work)].block
<1>1. /\ work # <<>> /\ work' = Front(work) /\ seen' = seen /\ targets' = targets
      /\ Last(work).expanded /\ post' = Append(post, Last(work).block)
  BY DEF Emit
<1>2. /\ n \in Nat \ {0} /\ DOMAIN work = 1 .. n /\ DOMAIN work' = 1 .. n - 1
      /\ Len(work') = n - 1
      /\ \A i \in 1 .. n - 1 : i \in 1 .. n /\ work'[i] = work[i]
      /\ work[n].expanded /\ work[n].block = b /\ b \in Blocks
  BY <1>1, Popped DEF Entries
<1>3. /\ m \in Nat /\ DOMAIN post = 1 .. m /\ DOMAIN post' = 1 .. m + 1 /\ Len(post') = m + 1
      /\ \A i \in 1 .. m : i \in 1 .. m + 1 /\ post'[i] = post[i]
      /\ post'[m + 1] = b /\ \A i \in 1 .. m : post[i] \in Blocks
  <2>1. post' = Append(post, b)
    BY <1>1, Popped
  <2> HIDE DEF b
  <2> QED BY <1>2, <2>1 DEF TypeInv
<1> HIDE DEF n, m, b
<1>0. \A i \in 1 .. n : work[i].block \in Blocks
  <2>1. \A i \in 1 .. n : work[i] \in Entries
    BY ElementOfSeq DEF TypeInv, n
  <2> QED BY <2>1 DEF Entries
<1>4. b \in Open /\ b \notin Done
  BY <1>2 DEF Open, OnceInv, Walk
<1>5. Done' = Done \union {b}
  <2>1. \A i \in 1 .. m + 1 : i \in 1 .. m \/ i = m + 1
    BY <1>3
  <2>2. m + 1 \in 1 .. m + 1
    BY <1>3
  <2> QED BY <1>2, <1>3, <2>1, <2>2 DEF Done
<1>6. Open' = Open \ {b}
  <2>1. \A i \in 1 .. n - 1 : work[i].expanded => work[i].block # b
    <3> SUFFICES ASSUME NEW i \in 1 .. n - 1, work[i].expanded, work[i].block = b PROVE FALSE
      OBVIOUS
    <3>1. i \in 1 .. n /\ n \in 1 .. n /\ i # n
      BY <1>2
    <3> QED BY <1>2, <3>1 DEF OnceInv, Walk
  <2>2. \A i \in 1 .. n : i \in 1 .. n - 1 \/ i = n
    BY <1>2
  <2> QED BY <1>2, <2>1, <2>2 DEF Open
<1>7. SeenInv'
  <2>1. seen' = Open' \union Done'
    BY <1>1, <1>4, <1>5, <1>6 DEF SeenInv, Walk
  <2> QED BY <1>1, <1>2, <2>1 DEF SeenInv, Walk
<1>8. OnceInv'
  <2>1. Open' \cap Done' = {}
    BY <1>5, <1>6 DEF OnceInv, Walk
  <2>2. \A i \in 1 .. m : post[i] # b
    BY <1>3, <1>4 DEF Done
  <2>3. ASSUME NEW i \in 1 .. m + 1, NEW j \in 1 .. m + 1, post'[i] = post'[j]
        PROVE  i = j
    <3>1. (i \in 1 .. m \/ i = m + 1) /\ (j \in 1 .. m \/ j = m + 1)
      BY <1>3
    <3> QED BY <1>3, <2>2, <2>3, <3>1 DEF OnceInv, Walk
  <2> QED BY <1>2, <1>3, <2>1, <2>3 DEF OnceInv, Walk
<1>9. EntryInv'
  <2>1. work[1].block = Entry /\ (work[1].expanded \/ (seen = {} /\ n = 1))
    BY <1>1 DEF EntryInv, Walk, n
  <2>2. CASE n = 1
    <3>1. work' = <<>> /\ b = Entry /\ post' # <<>>
      <4>1. work' \in Seq(Entries) /\ Len(work') = 0
        BY <1>1, <1>2, <2>2, Popped
      <4>2. work' = <<>>
        BY <4>1, EmptySeq
      <4> QED BY <1>2, <1>3, <2>1, <2>2, <4>2
    <3> QED BY <1>3, <3>1 DEF EntryInv
  <2>3. CASE n # 1
    <3>1. 1 \in 1 .. n - 1 /\ n - 1 # 0
      BY <1>2, <2>3
    <3>2. work' # <<>> /\ work'[1] = work[1]
      BY <1>2, <3>1
    <3> QED BY <2>1, <2>3, <3>2 DEF EntryInv
  <2> QED BY <2>2, <2>3
<1>10. ChildrenInv'
  <2>1. \A t \in targets[b] \cap Blocks : t \in seen
    <3> SUFFICES ASSUME NEW t \in targets[b] \cap Blocks, t \notin seen PROVE FALSE
      OBVIOUS
    <3>1. PICK j \in 1 .. n : j > n
      BY <1>2 DEF ChildrenInv, Walk
    <3> QED BY <1>2, <3>1
  <2>2. \A c \in Done' : targets'[c] \cap Blocks \subseteq seen'
    BY <1>1, <1>5, <2>1 DEF ChildrenInv, Walk
  <2>3. ASSUME NEW i \in 1 .. n - 1, work'[i].expanded,
               NEW t \in targets[work'[i].block] \cap Blocks, t \notin seen
        PROVE  \E j \in 1 .. n - 1 : j > i /\ work'[j].block = t
    <3>1. PICK j \in 1 .. n : j > i /\ work[j].block = t
      BY <1>2, <2>3 DEF ChildrenInv, Walk
    <3>2. j # n
      BY <1>2, <1>4, <2>3, <3>1 DEF SeenInv, Walk
    <3>3. j \in 1 .. n - 1
      BY <1>2, <3>1, <3>2
    <3> QED BY <1>2, <3>1, <3>3
  <2> QED BY <1>1, <1>2, <2>2, <2>3 DEF ChildrenInv
<1>11. PathInv' /\ \A j \in DOMAIN work' : \A a \in Paths(targets', Entry, {}) :
                    a # work'[j].block /\ Dom(targets', a, work'[j].block)
                    => \E i \in 1 .. j - 1 : work'[i].expanded /\ work'[i].block = a
  BY <1>1, PoppedPaths DEF Walk
<1>12. \A k \in DOMAIN post' : \A a \in Paths(targets', Entry, {}) :
          a # post'[k] /\ Dom(targets', a, post'[k])
          => a \in Open' \/ \E l \in DOMAIN post' : l > k /\ post'[l] = a
  <2> SUFFICES ASSUME NEW k \in 1 .. m + 1, NEW a \in Paths(targets, Entry, {}),
                      a # post'[k], Dom(targets, a, post'[k])
               PROVE  a \in Open' \/ \E l \in 1 .. m + 1 : l > k /\ post'[l] = a
    BY <1>1, <1>3
  <2>1. CASE k = m + 1
    <3>1. PICK i \in 1 .. n - 1 : work[i].expanded /\ work[i].block = a
      BY <1>2, <1>3, <2>1 DEF DomInv, Walk
    <3>2. a \in Open
      BY <1>0, <1>2, <3>1 DEF Open
    <3> QED BY <1>3, <1>6, <2>1, <3>2
  <2>2. CASE k \in 1 .. m
    <3>1. a \in Open \/ \E l \in 1 .. m : l > k /\ post[l] = a
      BY <1>3, <2>2 DEF DomInv, Walk
    <3>2. m + 1 \in 1 .. m + 1 /\ m + 1 > k
      BY <1>3, <2>2
    <3> QED BY <1>3, <1>6, <3>1, <3>2
  <2> QED BY <1>3, <2>1, <2>2
<1>13. DomInv'
  BY <1>11, <1>12 DEF DomInv
<1>14. ForwardInv'
  <2> SUFFICES ASSUME NEW k \in 1 .. m + 1, NEW t \in targets[post'[k]] \cap Blocks
               PROVE  \/ \E j \in 1 .. k - 1 : post'[j] = t
                      \/ post'[k] \in Paths(targets, t, {})
    BY <1>1, <1>3 DEF ForwardInv
  <2>1. CASE k \in 1 .. m
    <3>1. \A j \in 1 .. k - 1 : j \in 1 .. m
      BY <1>3, <2>1
    <3> QED BY <1>3, <2>1, <3>1 DEF ForwardInv, Walk
  <2>2. CASE k = m + 1
    <3>1. t \in seen
      <4> SUFFICES ASSUME t \notin seen PROVE FALSE
        OBVIOUS
      <4>1. PICK j \in 1 .. n : j > n
        BY <1>2, <1>3, <2>2 DEF ChildrenInv, Walk
      <4> QED BY <1>2, <4>1
    <3>2. CASE t \in Done
      <4>1. PICK j \in 1 .. m : post[j] = t
        BY <1>3, <3>2 DEF Done
      <4>2. j \in 1 .. k - 1
        BY <1>3, <2>2
      <4> QED BY <1>3, <4>1, <4>2
    <3>3. CASE t \in Open
      <4>1. PICK i \in 1 .. n : work[i].expanded /\ work[i].block = t
        BY <1>2, <3>3 DEF Open
      <4>2. i <= n /\ n \in 1 .. n /\ {} \in SUBSET Blocks
        BY <1>2
      <4>3. b \in Paths(targets, t, {})
        BY <1>2, <4>1, <4>2 DEF PathInv, Walk
      <4> QED BY <1>3, <2>2, <4>3
    <3> QED BY <3>1, <3>2, <3>3 DEF SeenInv, Walk
  <2> QED BY <1>3, <2>1, <2>2
<1>15. TogetherInv'
  <2>1. ASSUME NEW k \in 1 .. m + 1, NEW l \in 1 .. m + 1, NEW i \in 1 .. n - 1,
               k < l, work'[i].expanded, work'[i].block # post'[k],
               Dom(targets, work'[i].block, post'[k])
        PROVE  post'[l] \in Paths(targets, work'[i].block, {post'[k]})
    <3>1. k \in 1 .. m /\ i \in 1 .. n /\ work'[i] = work[i] /\ post'[k] = post[k]
      BY <1>2, <1>3, <2>1
    <3>2. CASE l \in 1 .. m
      BY <1>2, <1>3, <2>1, <3>1, <3>2 DEF TogetherInv, Walk
    <3>3. CASE l = m + 1
      <4>1. post[k] \in Done /\ post[k] \in Blocks
        BY <1>3, <3>1 DEF Done
      <4>2. \A x \in i .. n : x \in 1 .. n
        BY <1>2
      <4>3. \A x \in i .. n : work[x].expanded \/ x = n => work[x].block \in Open
        BY <1>0, <1>2, <4>2 DEF Open
      <4>4. \A x \in i .. n : work[x].expanded \/ x = n => work[x].block \notin {post[k]}
        BY <4>1, <4>3 DEF OnceInv, Walk
      <4>5. i <= n /\ n \in 1 .. n /\ {post[k]} \in SUBSET Blocks /\ work[i].expanded
        BY <1>2, <2>1, <3>1, <4>1
      <4>6. work[n].block \in Paths(targets, work[i].block, {post[k]})
        BY <1>2, <3>1, <4>4, <4>5 DEF PathInv, Walk
      <4> QED BY <1>2, <1>3, <3>1, <3>3, <4>6
    <3> QED BY <1>3, <3>2, <3>3
  <2>2. ASSUME NEW k \in 1 .. m + 1, NEW l \in 1 .. m + 1, NEW j \in 1 .. m + 1,
               k < l, l < j, Dom(targets, post'[j], post'[k])
        PROVE  post'[l] \in Paths(targets, post'[j], {post'[k]})
    <3>1. k \in 1 .. m /\ l \in 1 .. m /\ post'[k] = post[k] /\ post'[l] = post[l]
      BY <1>3, <2>2
    <3>2. CASE j \in 1 .. m
      BY <1>3, <2>2, <3>1, <3>2 DEF TogetherInv, Walk
    <3>3. CASE j = m + 1
      <4>1. b # post[k]
        BY <1>3, <1>4, <3>1 DEF Done
      <4>2. n \in DOMAIN work /\ k \in DOMAIN post /\ l \in DOMAIN post /\ post'[j] = b
        BY <1>2, <1>3, <3>1, <3>3
      <4>3. work[n].block # post[k] /\ Dom(targets, work[n].block, post[k])
        BY <1>2, <2>2, <3>1, <4>1, <4>2
      <4>4. post[l] \in Paths(targets, work[n].block, {post[k]})
        BY <1>2, <2>2, <4>2, <4>3 DEF TogetherInv, Walk
      <4> QED BY <1>2, <3>1, <4>2, <4>4
    <3> QED BY <1>3, <3>2, <3>3
  <2> QED BY <1>1, <1>2, <1>3, <2>1, <2>2 DEF TogetherInv
<1> QED BY <1>7, <1>8, <1>9, <1>10, <1>11, <1>13, <1>14, <1>15 DEF Walk

(* A block is met for the first time.                                      *)
LEMMA VisitWalk ==
    ASSUME TypeInv, Walk, Visit
    PROVE  Walk'
<1> DEFINE n == Len(work)
           c == work[Len(work)].block
           new == (targets[c] \cap Blocks) \ (seen \union {c})
<1>1. /\ work # <<>> /\ post' = post /\ targets' = targets /\ targets \in Flow
      /\ n \in Nat \ {0} /\ Last(work) = work[n] /\ work[n] \in Entries
      /\ DOMAIN work = 1 .. n /\ \A i \in 1 .. n : work[i] \in Entries
  <2>1. work # <<>> /\ post' = post /\ targets' = targets /\ targets \in Flow
        /\ work \in Seq(Entries)
    BY DEF Visit, TypeInv
  <2>2. n \in Nat \ {0} /\ Last(work) = work[n] /\ work[n] \in Entries
    BY <2>1, LastOf
  <2>3. DOMAIN work = 1 .. n /\ \A i \in 1 .. n : work[i] \in Entries
    BY <2>1, ElementOfSeq
  <2> QED BY <2>1, <2>2, <2>3
<1>2. ~ work[n].expanded /\ c \notin seen /\ seen' = seen \union {c} /\ Push(c, new)
  BY <1>1 DEF Visit, IntraEdges
<1>3. c \in Blocks /\ c = work[n].block /\ new \in SUBSET Blocks
      /\ \A i \in 1 .. n : work[i].block \in Blocks
  BY <1>1 DEF Entries
<1>4. PICK m \in Nat :
             /\ work' \in Seq(Entries) /\ Len(work') = n + m
             /\ \A i \in 1 .. n - 1 : work'[i] = work[i]
             /\ work'[n] = [block |-> c, expanded |-> TRUE]
             /\ \A i \in n + 1 .. n + m : ~ work'[i].expanded /\ work'[i].block \in new
             /\ \A t \in new : \E i \in n + 1 .. n + m : work'[i].block = t
  <2> HIDE DEF c, new
  <2> QED BY <1>1, <1>2, <1>3, Pushed DEF TypeInv
<1>5. new \subseteq targets[c] \cap Blocks /\ new \cap seen = {} /\ c \notin new
      /\ \A t \in targets[c] \cap Blocks : t \in seen' \/ t \in new
  BY <1>2
<1> HIDE DEF n, c, new
<1>6. /\ DOMAIN work' = 1 .. n + m
      /\ \A i \in 1 .. n + m : i \in 1 .. n - 1 \/ i = n \/ i \in n + 1 .. n + m
      /\ \A i \in 1 .. n - 1 : i \in 1 .. n /\ i \in 1 .. n + m /\ i # n
      /\ n \in 1 .. n /\ n \in 1 .. n + m
      /\ work'[n].block = c /\ work'[n].expanded
  BY <1>1, <1>4
<1>7. \A i \in 1 .. n : work'[i].block = work[i].block
  BY <1>1, <1>3, <1>4, <1>6
<1>8. \A i \in 1 .. n + m : work'[i].expanded => i \in 1 .. n /\ (i = n \/ work[i].expanded)
  BY <1>4, <1>6
<1>9. Open' = Open \union {c} /\ Done' = Done
  <2>1. ASSUME NEW b \in Open' PROVE b \in Open \union {c}
    <3>1. PICK i \in 1 .. n + m : work'[i].expanded /\ work'[i].block = b
      BY <1>6 DEF Open
    <3>2. i \in 1 .. n /\ (i = n \/ work[i].expanded) /\ work[i].block = b
      BY <1>7, <1>8, <3>1
    <3> QED BY <1>1, <1>3, <3>2 DEF Open
  <2>2. ASSUME NEW b \in Open PROVE b \in Open'
    <3>1. PICK i \in 1 .. n : work[i].expanded /\ work[i].block = b
      BY <1>1 DEF Open
    <3>2. i \in 1 .. n - 1
      BY <1>1, <1>2, <3>1
    <3> QED BY <1>4, <1>6, <3>1, <3>2 DEF Open
  <2>3. c \in Open'
    BY <1>3, <1>6 DEF Open
  <2>4. Done' = Done
    BY <1>1 DEF Done
  <2> QED BY <2>1, <2>2, <2>3, <2>4
<1>10. c \notin Open /\ c \notin Done
  BY <1>2 DEF SeenInv, Walk
<1>11. c \in Paths(targets, Entry, {}) /\ new \subseteq Paths(targets, Entry, {})
       /\ Entry \in Blocks
  <2>1. c \in Paths(targets, Entry, {})
    BY <1>1, <1>3, <1>6 DEF SeenInv, Walk
  <2> QED BY <1>1, <1>5, <2>1, PathsAre, FlowAssumption
<1>12. SeenInv'
  <2>1. seen' = Open' \union Done' /\ seen' \subseteq Paths(targets', Entry, {})
    BY <1>1, <1>2, <1>9, <1>11 DEF SeenInv, Walk
  <2>2. \A i \in 1 .. n + m : work'[i].block \in Paths(targets, Entry, {})
    BY <1>1, <1>4, <1>6, <1>11 DEF SeenInv, Walk
  <2> QED BY <1>1, <1>6, <2>1, <2>2 DEF SeenInv
<1>13. OnceInv'
  <2>1. Open' \cap Done' = {}
    BY <1>9, <1>10 DEF OnceInv, Walk
  <2>2. ASSUME NEW i \in 1 .. n + m, NEW j \in 1 .. n + m,
               work'[i].expanded, work'[j].expanded, work'[i].block = work'[j].block
        PROVE  i = j
    <3>1. /\ i \in 1 .. n /\ (i = n \/ work[i].expanded) /\ work'[i].block = work[i].block
          /\ j \in 1 .. n /\ (j = n \/ work[j].expanded) /\ work'[j].block = work[j].block
      BY <1>7, <1>8, <2>2
    <3>2. \A k \in 1 .. n : work[k].expanded => work[k].block # c
      BY <1>1, <1>3, <1>10 DEF Open
    <3> QED BY <1>1, <1>3, <2>2, <3>1, <3>2 DEF OnceInv, Walk
  <2> QED BY <1>1, <1>6, <2>1, <2>2 DEF OnceInv, Walk
<1>14. EntryInv'
  <2>1. work[1].block = Entry /\ (work[1].expanded \/ (seen = {} /\ n = 1))
    BY <1>1 DEF EntryInv, Walk, n
  <2>2. 1 \in 1 .. n /\ 1 \in 1 .. n + m
    BY <1>1
  <2>3. work'[1].block = Entry
    BY <1>7, <2>1, <2>2
  <2>4. work'[1].expanded
    <3>1. CASE n = 1
      BY <1>6, <3>1
    <3>2. CASE n # 1
      <4>1. 1 \in 1 .. n - 1
        BY <1>1, <3>2
      <4> QED BY <1>4, <2>1, <3>2, <4>1
    <3> QED BY <3>1, <3>2
  <2>5. work' # <<>>
    BY <1>6, <2>2
  <2> QED BY <2>3, <2>4, <2>5 DEF EntryInv
<1>15. ChildrenInv'
  <2>1. \A b \in Done' : targets'[b] \cap Blocks \subseteq seen'
    BY <1>1, <1>2, <1>9 DEF ChildrenInv, Walk
  <2>2. ASSUME NEW i \in 1 .. n + m, work'[i].expanded,
               NEW t \in targets[work'[i].block] \cap Blocks, t \notin seen'
        PROVE  \E j \in 1 .. n + m : j > i /\ work'[j].block = t
    <3>1. i \in 1 .. n /\ (i = n \/ work[i].expanded) /\ work'[i].block = work[i].block
      BY <1>7, <1>8, <2>2
    <3>2. CASE i = n
      <4>1. t \in new
        BY <1>5, <1>6, <2>2, <3>2
      <4>2. PICK j \in n + 1 .. n + m : work'[j].block = t
        BY <1>4, <4>1
      <4>3. j \in 1 .. n + m /\ j > i
        BY <1>1, <3>2
      <4> QED BY <4>2, <4>3
    <3>3. CASE work[i].expanded
      <4>1. t \notin seen
        BY <1>2, <2>2
      <4>2. PICK j \in 1 .. n : j > i /\ work[j].block = t
        BY <1>1, <2>2, <3>1, <3>3, <4>1 DEF ChildrenInv, Walk
      <4>3. j \in 1 .. n + m
        BY <1>1
      <4> QED BY <1>7, <4>2, <4>3
    <3> QED BY <3>1, <3>2, <3>3
  <2> QED BY <1>1, <1>6, <2>1, <2>2 DEF ChildrenInv
<1>16. PathInv'
  <2> SUFFICES ASSUME NEW i \in 1 .. n + m, NEW j \in 1 .. n + m, NEW avoid \in SUBSET Blocks,
                      i <= j, work'[i].expanded,
                      \A k \in i .. j : work'[k].expanded \/ k = j => work'[k].block \notin avoid
               PROVE  work'[j].block \in Paths(targets, work'[i].block, avoid)
    BY <1>1, <1>6 DEF PathInv
  <2>1. i \in 1 .. n /\ (i = n \/ work[i].expanded) /\ work'[i].block = work[i].block
        /\ work[i].block \in Blocks
    BY <1>3, <1>7, <1>8
  <2>2. ASSUME NEW l \in 1 .. n, i <= l, l <= j, l = j \/ l = n
        PROVE  work[l].block \in Paths(targets, work[i].block, avoid)
    <3>1. \A k \in i .. l : k \in i .. j /\ k \in 1 .. n /\ (k \in 1 .. n - 1 \/ k = n)
      BY <1>1, <2>1, <2>2
    <3>2. \A k \in i .. l : work[k].expanded \/ k = l => work'[k].expanded \/ k = j
      BY <1>2, <1>4, <1>6, <2>2, <3>1
    <3>3. \A k \in i .. l : work[k].expanded \/ k = l => work[k].block \notin avoid
      BY <1>7, <3>1, <3>2
    <3>4. CASE i = n
      <4>1. l = n /\ l \in i .. l
        BY <1>1, <2>2, <3>4
      <4>2. c \notin avoid
        BY <1>3, <3>3, <4>1
      <4> QED BY <1>1, <1>3, <3>4, <4>1, <4>2, PathsAre
    <3>5. CASE i # n
      BY <1>1, <2>1, <2>2, <3>3, <3>5 DEF PathInv, Walk
    <3> QED BY <3>4, <3>5
  <2>3. CASE j \in 1 .. n
    <3>1. j <= j
      BY <1>1, <2>3
    <3>2. work[j].block \in Paths(targets, work[i].block, avoid)
      BY <2>2, <2>3, <3>1
    <3> QED BY <1>7, <2>1, <2>3, <3>2
  <2>4. CASE j \in n + 1 .. n + m
    <3>1. n <= j /\ i <= n /\ n \in 1 .. n /\ j \in i .. j
      BY <1>1, <2>1, <2>4
    <3>2. c \in Paths(targets, work[i].block, avoid)
      BY <1>3, <2>2, <3>1
    <3>3. work'[j].block \in targets[c] \cap Blocks /\ work'[j].block \notin avoid
      BY <1>4, <1>5, <2>4, <3>1
    <3> QED BY <1>1, <2>1, <3>2, <3>3, PathsAre
  <2> QED BY <1>6, <2>3, <2>4
<1>17. DomInv'
  <2>1. ASSUME NEW j \in 1 .. n + m, NEW a \in Paths(targets, Entry, {}),
               a # work'[j].block, Dom(targets, a, work'[j].block)
        PROVE  \E i \in 1 .. j - 1 : work'[i].expanded /\ work'[i].block = a
    <3>1. ASSUME NEW l \in 1 .. n, a # work[l].block, Dom(targets, a, work[l].block), l <= j
          PROVE  \E i \in 1 .. j - 1 : work'[i].expanded /\ work'[i].block = a
      <4>1. PICK i \in 1 .. l - 1 : work[i].expanded /\ work[i].block = a
        BY <1>1, <3>1 DEF DomInv, Walk
      <4>2. i \in 1 .. n - 1 /\ i \in 1 .. j - 1
        BY <1>1, <3>1
      <4> QED BY <1>4, <4>1, <4>2
    <3>2. CASE j \in 1 .. n
      <4>1. j <= j
        BY <1>1, <3>2
      <4> QED BY <1>7, <2>1, <3>1, <3>2, <4>1
    <3>3. CASE j \in n + 1 .. n + m
      <4>1. n \in 1 .. n /\ n <= j /\ n \in 1 .. j - 1
        BY <1>1, <3>3
      <4>2. work'[j].block \in targets[c] \cap Blocks
        BY <1>4, <1>5, <3>3
      <4>3. a \in Blocks
        BY <1>1, <1>11, PathsAre
      <4>4. Dom(targets, a, c)
        BY <1>1, <1>3, <2>1, <4>2, <4>3, DomStep
      <4>5. CASE a = c
        BY <1>6, <4>1, <4>5
      <4>6. CASE a # c
        BY <1>3, <3>1, <4>1, <4>4, <4>6
      <4> QED BY <4>5, <4>6
    <3> QED BY <1>6, <3>2, <3>3
  <2>2. \A k \in DOMAIN post' : \A a \in Paths(targets', Entry, {}) :
          a # post'[k] /\ Dom(targets', a, post'[k])
          => a \in Open' \/ \E l \in DOMAIN post' : l > k /\ post'[l] = a
    BY <1>1, <1>9 DEF DomInv, Walk
  <2> QED BY <1>1, <1>6, <2>1, <2>2 DEF DomInv
<1>18. ForwardInv'
  BY <1>1 DEF ForwardInv, Walk
<1>19. TogetherInv'
  <2>1. ASSUME NEW k \in DOMAIN post, NEW l \in DOMAIN post, NEW i \in 1 .. n + m,
               k < l, work'[i].expanded, work'[i].block # post[k],
               Dom(targets, work'[i].block, post[k])
        PROVE  post[l] \in Paths(targets, work'[i].block, {post[k]})
    <3>1. i \in 1 .. n /\ (i = n \/ work[i].expanded) /\ work'[i].block = work[i].block
      BY <1>7, <1>8, <2>1
    <3>2. CASE i = n
      <4>1. c \in Open \/ c \in Done
        BY <1>3, <1>11, <2>1, <3>1, <3>2 DEF DomInv, Walk, Done
      <4> QED BY <1>10, <4>1
    <3>3. CASE work[i].expanded
      BY <1>1, <2>1, <3>1, <3>3 DEF TogetherInv, Walk
    <3> QED BY <3>1, <3>2, <3>3
  <2>2. ASSUME NEW k \in DOMAIN post, NEW l \in DOMAIN post, NEW j \in DOMAIN post,
               k < l, l < j, Dom(targets, post[j], post[k])
        PROVE  post[l] \in Paths(targets, post[j], {post[k]})
    BY <2>2 DEF TogetherInv, Walk
  <2> QED BY <1>1, <1>6, <2>1, <2>2 DEF TogetherInv
<1> QED BY <1>12, <1>13, <1>14, <1>15, <1>16, <1>17, <1>18, <1>19 DEF Walk

LEMMA LoopIn ==
    ASSUME targets \in Flow
    PROVE  /\ Reachable \in SUBSET Blocks /\ Headers \subseteq Reachable
           /\ \A h : LoopOf(h) \in SUBSET Reachable
<1>1. Reachable \in SUBSET Blocks
  BY FlowAssumption, FromIsPaths, PathsAre
<1> QED BY <1>1 DEF Headers, LoopOf

LEMMA SubsetsAre == \A S, n : Subsets(S, n) \subseteq SUBSET S
BY DEF Subsets

LEMMA OrderTypes ==
    ASSUME TypeInv, StartOrder \/ Emit \/ Skip \/ Visit \/ FinishOrder
    PROVE  TypeInv'
<1>1. CASE StartOrder
  <2> DEFINE e == [block |-> Entry, expanded |-> FALSE]
  <2>1. e \in Entries
    BY FlowAssumption DEF Entries
  <2>2. <<e>> \in Seq(Entries)
    <3> HIDE DEF e
    <3> QED BY <2>1
  <2> QED BY <1>1, <2>2 DEF StartOrder, TypeInv, query
<1>2. CASE Emit
  <2>1. work # <<>> /\ work \in Seq(Entries) /\ work' = Front(work)
        /\ post' = Append(post, Last(work).block)
    BY <1>2 DEF Emit, TypeInv, query
  <2>2. Front(work) \in Seq(Entries) /\ Last(work) \in Entries
    BY <2>1, LastOf
  <2>3. Last(work).block \in Blocks
    BY <2>2 DEF Entries
  <2>4. post' \in Seq(Blocks)
    <3> DEFINE b == Last(work).block
    <3>1. b \in Blocks /\ post' = Append(post, b) /\ post \in Seq(Blocks)
      BY <2>1, <2>3 DEF TypeInv
    <3> HIDE DEF b
    <3> QED BY <3>1
  <2> QED BY <1>2, <2>1, <2>2, <2>4 DEF Emit, TypeInv, query
<1>3. CASE Skip
  <2>1. Front(work) \in Seq(Entries)
    BY <1>3, LastOf DEF Skip, TypeInv, query
  <2> QED BY <1>3, <2>1 DEF Skip, TypeInv, query
<1>4. CASE Visit
  <2> DEFINE c == Last(work).block
             new == IntraEdges(c) \ (seen \union {c})
  <2>1. work # <<>> /\ work \in Seq(Entries) /\ Push(c, new) /\ seen' = seen \union {c}
    BY <1>4 DEF Visit, TypeInv, query
  <2>2. c \in Blocks
    <3>1. Last(work) \in Entries
      BY <2>1, LastOf
    <3> QED BY <3>1 DEF Entries
  <2>3. new \in SUBSET Blocks
    BY DEF IntraEdges
  <2>4. work' \in Seq(Entries)
    <3> HIDE DEF c, new
    <3> QED BY <2>1, <2>2, <2>3, Pushed
  <2> QED BY <1>4, <2>1, <2>2, <2>4 DEF Visit, TypeInv, query
<1>5. CASE FinishOrder
  BY <1>5 DEF FinishOrder, TypeInv, query
<1> QED BY <1>1, <1>2, <1>3, <1>4, <1>5

LEMMA EnterTypes ==
    ASSUME TypeInv, NEW b \in Blocks, Enter(b), task = "search"
    PROVE  /\ task' \in {"search", "found"} /\ path' \in Seq(Blocks)
           /\ found' \in Blocks \union {None}
<1>1. CASE Defines(b)
  BY <1>1 DEF Enter, TypeInv
<1>2. CASE ~ Defines(b)
  <2>1. path' = Append(path, b) /\ found' = found /\ task' = task /\ path \in Seq(Blocks)
    BY <1>2 DEF Enter, TypeInv
  <2> QED BY <2>1 DEF TypeInv
<1> QED BY <1>1, <1>2

LEMMA SearchTypes ==
    ASSUME TypeInv, StartCond \/ StartInit \/ Begin \/ Recurse \/ Return \/ GiveUp
                    \/ Latch \/ ExecLoop
    PROVE  TypeInv'
<1>0. targets \in Flow /\ \A b : Preds(b) \in SUBSET Blocks
  BY DEF TypeInv, Preds
<1>1. CASE StartCond
  <2>1. PICK u \in Reachable : uses' = {u} /\ starts' = {u}
    BY <1>1 DEF StartCond
  <2>2. defs' \in SUBSET Blocks
    BY <1>1, SubsetsAre DEF StartCond
  <2> QED BY <1>0, <1>1, <2>1, <2>2, LoopIn DEF StartCond, TypeInv
<1>2. CASE StartInit
  <2>1. PICK h \in Headers : stay' = LoopOf(h) /\ starts' = Preds(h) \ LoopOf(h) /\ uses' = starts'
    BY <1>2 DEF StartInit
  <2>2. defs' \in SUBSET Blocks
    BY <1>2, SubsetsAre DEF StartInit
  <2>3. stay' \in SUBSET Blocks /\ starts' \in SUBSET Blocks /\ uses' \in SUBSET Blocks
    BY <1>0, <2>1, LoopIn
  <2> QED BY <1>2, <2>2, <2>3 DEF StartInit, TypeInv
<1>3. CASE Begin
  <2>1. PICK b \in starts : starts' = starts \ {b} /\ seen' = {b} /\ Enter(b)
    BY <1>3 DEF Begin
  <2>2. b \in Blocks /\ task = "search"
    BY <1>3 DEF Begin, TypeInv
  <2>3. UNCHANGED <<targets, work, post, uses, defs, stay>>
    BY <1>3 DEF Begin, query
  <2> QED BY <2>1, <2>2, <2>3, EnterTypes DEF TypeInv
<1>4. CASE Recurse
  <2>1. PICK p \in Preds(Last(path)) \ (seen \union stay) : seen' = seen \union {p} /\ Enter(p)
    BY <1>4 DEF Recurse
  <2>2. p \in Blocks /\ task = "search"
    BY <1>0, <1>4 DEF Recurse
  <2>3. UNCHANGED <<targets, work, post, uses, defs, stay, starts>>
    BY <1>4 DEF Recurse, query
  <2> QED BY <2>1, <2>2, <2>3, EnterTypes DEF TypeInv
<1>5. CASE Return
  <2>1. Front(path) \in Seq(Blocks)
    BY <1>5, LastOf DEF Return, TypeInv
  <2> QED BY <1>5, <2>1 DEF Return, TypeInv, query
<1>6. CASE GiveUp
  BY <1>6 DEF GiveUp, TypeInv, query
<1>7. CASE Latch
  BY <1>7 DEF Latch, TypeInv, query
<1>8. CASE ExecLoop
  BY <1>8 DEF ExecLoop, TypeInv, query
<1> QED BY <1>1, <1>2, <1>3, <1>4, <1>5, <1>6, <1>7, <1>8

(* Every step keeps the types.                                             *)
LEMMA TypeInit == Init => TypeInv
<1>1. Init => targets \in Flow
  BY FlowAssumption DEF Init, Flow
<1> QED BY <1>1 DEF Init, TypeInv

LEMMA TypeStep == TypeInv /\ [Next]_vars => TypeInv'
<1> SUFFICES ASSUME TypeInv, [Next]_vars PROVE TypeInv'
  OBVIOUS
<1>1. CASE UNCHANGED vars
  BY <1>1 DEF vars, query, TypeInv
<1>2. CASE Next
  BY <1>2, OrderTypes, SearchTypes DEF Next
<1> QED BY <1>1, <1>2

LEMMA OrderInit == Init => OrderInv
BY DEF Init, OrderInv

LEMMA OrderStep == TypeInv /\ OrderInv /\ [Next]_vars => OrderInv'
<1> SUFFICES ASSUME TypeInv, OrderInv, [Next]_vars PROVE OrderInv'
  OBVIOUS
<1>1. CASE StartOrder
  <2>1. Walk'
    BY <1>1, StartWalk
  <2> QED BY <1>1, <2>1 DEF StartOrder, OrderInv
<1>2. CASE Emit
  <2>1. task = "order" /\ task' = "order"
    BY <1>2 DEF Emit
  <2>2. Walk'
    BY <1>2, <2>1, EmitWalk DEF OrderInv
  <2> QED BY <2>1, <2>2 DEF OrderInv
<1>3. CASE Skip
  <2>1. task = "order" /\ task' = "order"
    BY <1>3 DEF Skip
  <2>2. Walk'
    BY <1>3, <2>1, SkipWalk DEF OrderInv
  <2> QED BY <2>1, <2>2 DEF OrderInv
<1>4. CASE Visit
  <2>1. task = "order" /\ task' = "order"
    BY <1>4 DEF Visit
  <2>2. Walk'
    BY <1>4, <2>1, VisitWalk DEF OrderInv
  <2> QED BY <2>1, <2>2 DEF OrderInv
<1>5. CASE FinishOrder \/ UNCHANGED vars
  <2>1. UNCHANGED <<targets, seen, work, post>>
    BY <1>5 DEF FinishOrder, vars
  <2>2. Walk => Walk'
    <3>1. Open' = Open /\ Done' = Done
      BY <2>1 DEF Open, Done
    <3>2. (SeenInv => SeenInv') /\ (OnceInv => OnceInv') /\ (EntryInv => EntryInv')
      BY <2>1, <3>1 DEF SeenInv, OnceInv, EntryInv
    <3>3. (ChildrenInv => ChildrenInv') /\ (ForwardInv => ForwardInv')
      BY <2>1, <3>1 DEF ChildrenInv, ForwardInv
    <3>4. PathInv => PathInv'
      BY <2>1 DEF PathInv
    <3>5. DomInv => DomInv'
      BY <2>1, <3>1 DEF DomInv
    <3>6. TogetherInv => TogetherInv'
      BY <2>1 DEF TogetherInv
    <3> QED BY <3>2, <3>3, <3>4, <3>5, <3>6 DEF Walk
  <2>3. CASE FinishOrder
    BY <2>1, <2>2, <2>3 DEF FinishOrder, OrderInv
  <2>4. CASE UNCHANGED vars
    BY <2>1, <2>2, <2>4 DEF vars, OrderInv
  <2> QED BY <1>5, <2>3, <2>4
<1>6. CASE StartCond \/ StartInit \/ Begin \/ Recurse \/ Return \/ GiveUp \/ Latch \/ ExecLoop
  <2>1. task' \in {"search", "found", "told"}
    <3>1. CASE Begin \/ Recurse
      BY <3>1 DEF Begin, Recurse, Enter
    <3>2. CASE StartCond \/ StartInit \/ Return \/ GiveUp \/ Latch \/ ExecLoop
      BY <3>2 DEF StartCond, StartInit, Return, GiveUp, Latch, ExecLoop
    <3> QED BY <1>6, <3>1, <3>2
  <2> QED BY <2>1 DEF OrderInv
<1> QED BY <1>1, <1>2, <1>3, <1>4, <1>5, <1>6 DEF Next

(***************************************************************************)
(* What the order is good for, once the list is empty.                     *)
(***************************************************************************)
LEMMA Ordered ==
    ASSUME TypeInv, OrderInv, task = "ordered"
    PROVE  /\ Done = Reachable
           /\ Len(post) \in Nat \ {0} /\ DOMAIN post = 1 .. Len(post)
           /\ post[Len(post)] = Entry
           /\ \A i, j \in DOMAIN post : post[i] = post[j] => i = j
           /\ \A i \in DOMAIN post : post[i] \in Reachable
<1>1. work = <<>> /\ Walk /\ targets \in Flow
  BY DEF OrderInv, TypeInv
<1>2. post # <<>> /\ post[Len(post)] = Entry /\ post \in Seq(Blocks)
  BY <1>1 DEF Walk, EntryInv, TypeInv
<1>3. Len(post) \in Nat \ {0} /\ DOMAIN post = 1 .. Len(post)
  BY <1>2, EmptySeq
<1>4. seen = Done
  <2>1. Open = {}
    BY <1>1 DEF Open
  <2> QED BY <1>1, <2>1 DEF Walk, SeenInv
<1>5. Done \subseteq Reachable
  BY <1>1, <1>4, FromIsPaths DEF Walk, SeenInv
<1>6. Reachable \subseteq Done
  <2>1. Entry \in Done
    BY <1>2, <1>3, FlowAssumption DEF Done
  <2>2. \A b \in Done \cap Blocks : \A t \in targets[b] \cap Blocks : t \in Done
    BY <1>1, <1>4 DEF Walk, ChildrenInv
  <2> QED BY <1>1, <2>1, <2>2, FlowAssumption, FromIsPaths, PathsAre
<1>7. \A i \in DOMAIN post : post[i] \in Done
  BY <1>2, <1>3 DEF Done
<1> QED BY <1>1, <1>2, <1>3, <1>5, <1>6, <1>7 DEF Walk, OnceInv

(* The order is the post-order reversed.                                   *)
LEMMA Reversed ==
    ASSUME TypeInv, OrderInv, task = "ordered"
    PROVE  /\ Len(Order) = Len(post) /\ DOMAIN Order = 1 .. Len(post)
           /\ \A i \in 1 .. Len(post) : /\ Len(post) + 1 - i \in 1 .. Len(post)
                                        /\ Order[i] = post[Len(post) + 1 - i]
           /\ \A i, j \in 1 .. Len(post) : i < j => Before(post[j], post[i])
           /\ \A b, c : Before(b, c) =>
                 \E i, j \in 1 .. Len(post) : i < j /\ post[j] = b /\ post[i] = c
<1> DEFINE n == Len(post)
<1>1. n \in Nat \ {0} /\ Order = [i \in 1 .. n |-> post[(n - i) + 1]]
  BY Ordered DEF Order, Reverse
<1> HIDE DEF n
<1>2. DOMAIN Order = 1 .. n /\ Len(Order) = n
  BY <1>1
<1>3. \A i \in 1 .. n : n + 1 - i \in 1 .. n /\ (n - i) + 1 = n + 1 - i
  BY <1>1
<1>4. \A i \in 1 .. n : Order[i] = post[n + 1 - i]
  BY <1>1, <1>3
<1>5. ASSUME NEW i \in 1 .. n, NEW j \in 1 .. n, i < j PROVE Before(post[j], post[i])
  <2> DEFINE x == n + 1 - j
             y == n + 1 - i
  <2>1. x \in 1 .. n /\ y \in 1 .. n /\ x < y /\ n + 1 - x = j /\ n + 1 - y = i
    BY <1>1, <1>5
  <2> HIDE DEF x, y
  <2>2. Order[x] = post[j] /\ Order[y] = post[i]
    BY <1>4, <2>1
  <2> QED BY <1>2, <2>1, <2>2 DEF Before
<1>6. ASSUME NEW b, NEW c, Before(b, c)
      PROVE  \E i, j \in 1 .. n : i < j /\ post[j] = b /\ post[i] = c
  <2>1. PICK x \in 1 .. n, y \in 1 .. n : x < y /\ Order[x] = b /\ Order[y] = c
    BY <1>2, <1>6 DEF Before
  <2> DEFINE j == n + 1 - x
             i == n + 1 - y
  <2>2. i \in 1 .. n /\ j \in 1 .. n /\ i < j
    BY <1>1, <2>1
  <2>3. post[j] = b /\ post[i] = c
    BY <1>4, <2>1
  <2> HIDE DEF i, j
  <2> QED BY <2>2, <2>3
<1> QED BY <1>2, <1>3, <1>4, <1>5, <1>6 DEF n

LEMMA OrderInvComplete == TypeInv /\ OrderInv => OrderComplete
<1> SUFFICES ASSUME TypeInv, OrderInv, task = "ordered"
             PROVE  /\ ToSet(Order) = Reachable
                    /\ Len(Order) = Cardinality(Reachable)
                    /\ Order[1] = Entry
  BY DEF OrderComplete
<1> DEFINE n == Len(post)
<1>1. /\ n \in Nat \ {0} /\ DOMAIN post = 1 .. n /\ post[n] = Entry
      /\ \A i, j \in 1 .. n : post[i] = post[j] => i = j
      /\ \A i \in 1 .. n : post[i] \in Reachable
      /\ Done = Reachable
  BY Ordered
<1>2. /\ Len(Order) = n /\ DOMAIN Order = 1 .. n
      /\ \A i \in 1 .. n : n + 1 - i \in 1 .. n /\ Order[i] = post[n + 1 - i]
  BY Reversed
<1> HIDE DEF n
<1>3. \A b \in Reachable : \E i \in 1 .. n : post[i] = b
  BY <1>1 DEF Done
<1>4. ToSet(Order) = Reachable
  <2>1. ASSUME NEW b \in Reachable PROVE \E i \in 1 .. n : Order[i] = b
    <3>1. PICK i \in 1 .. n : post[i] = b
      BY <1>3
    <3>2. n + 1 - i \in 1 .. n /\ n + 1 - (n + 1 - i) = i
      BY <1>1
    <3>3. Order[n + 1 - i] = post[n + 1 - (n + 1 - i)]
      BY <1>2, <3>2
    <3> QED BY <3>1, <3>2, <3>3
  <2>2. \A i \in 1 .. n : Order[i] \in Reachable
    BY <1>1, <1>2
  <2> QED BY <1>2, <2>1, <2>2 DEF ToSet
<1>5. Cardinality(Reachable) = n
  <2> DEFINE f == [i \in 1 .. n |-> post[i]]
  <2>1. f \in Bijection(1 .. n, Reachable)
    <3>1. f \in [1 .. n -> Reachable]
      BY <1>1
    <3>2. f \in Injection(1 .. n, Reachable)
      BY <1>1, <3>1 DEF Injection, IsInjective
    <3>3. f \in Surjection(1 .. n, Reachable)
      BY <1>3, <3>1 DEF Surjection
    <3> QED BY <3>2, <3>3 DEF Bijection
  <2>2. IsFiniteSet(1 .. n) /\ Cardinality(1 .. n) = n
    BY <1>1, FS_Interval
  <2>3. ExistsBijection(1 .. n, Reachable)
    BY <2>1 DEF ExistsBijection
  <2> QED BY <2>2, <2>3, FS_Bijection
<1>6. Order[1] = Entry
  <2>1. 1 \in 1 .. n /\ n + 1 - 1 = n
    BY <1>1
  <2> QED BY <1>1, <1>2, <2>1
<1> QED BY <1>2, <1>4, <1>5, <1>6

LEMMA OrderInvForward == TypeInv /\ OrderInv => EdgesForward
<1> SUFFICES ASSUME TypeInv, OrderInv, task = "ordered",
                    NEW b \in Reachable, NEW t \in Succs(b)
             PROVE  Before(b, t) \/ b \in From(t, {})
  BY DEF EdgesForward
<1>1. PICK i \in 1 .. Len(post) : post[i] = b
  BY Ordered DEF Done
<1>2. t \in targets[post[i]] \cap Blocks /\ i \in DOMAIN post
  BY <1>1, Ordered DEF Succs
<1>3. (\E j \in 1 .. i - 1 : post[j] = t) \/ b \in Paths(targets, t, {})
  BY <1>1, <1>2 DEF OrderInv, Walk, ForwardInv
<1>4. ASSUME NEW j \in 1 .. i - 1, post[j] = t PROVE Before(b, t)
  <2>1. j \in 1 .. Len(post) /\ j < i
    BY Ordered
  <2> QED BY <1>1, <1>4, <2>1, Reversed
<1> QED BY <1>3, <1>4, FromIsPaths

LEMMA OrderInvTogether == TypeInv /\ OrderInv => RegionsTogether
<1> SUFFICES ASSUME TypeInv, OrderInv, task = "ordered",
                    NEW a \in Reachable, NEW p \in Reachable, a # p, Dominates(a, p)
             PROVE  /\ Before(a, p)
                    /\ \A x \in Reachable : Before(a, x) /\ Before(x, p) => x \in From(a, {p})
  BY DEF RegionsTogether
<1>1. PICK k \in 1 .. Len(post) : post[k] = p
  BY Ordered DEF Done
<1>2. Dom(targets, a, p) /\ a \in Paths(targets, Entry, {})
  BY FromIsPaths
<1>3. work = <<>> /\ Walk /\ DOMAIN post = 1 .. Len(post)
  BY Ordered DEF OrderInv
<1>4. Open = {}
  BY <1>3 DEF Open
<1>5. PICK m \in 1 .. Len(post) : m > k /\ post[m] = a
  BY <1>1, <1>2, <1>3, <1>4 DEF Walk, DomInv
<1>6. Before(a, p)
  <2>1. k < m
    BY Ordered, <1>5
  <2> QED BY <1>1, <1>5, <2>1, Reversed
<1>7. ASSUME NEW x \in Reachable, Before(a, x), Before(x, p) PROVE x \in From(a, {p})
  <2>1. PICK l \in 1 .. Len(post), m1 \in 1 .. Len(post) : l < m1 /\ post[m1] = a /\ post[l] = x
    BY <1>7, Reversed
  <2>2. PICK k1 \in 1 .. Len(post), l1 \in 1 .. Len(post) : k1 < l1 /\ post[l1] = x /\ post[k1] = p
    BY <1>7, Reversed
  <2>3. l = l1 /\ k1 = k /\ m1 = m
    BY <1>1, <1>5, <2>1, <2>2, Ordered
  <2>4. post[l] \in Paths(targets, post[m], {post[k]})
    BY <1>1, <1>2, <1>3, <1>5, <2>1, <2>2, <2>3 DEF Walk, TogetherInv
  <2> QED BY <1>1, <1>5, <2>1, <2>4, FromIsPaths
<1> QED BY <1>6, <1>7

LEMMA OrderAlways == Spec => [](TypeInv /\ OrderInv)
<1>1. Init => TypeInv /\ OrderInv
  BY TypeInit, OrderInit
<1>2. TypeInv /\ OrderInv /\ [Next]_vars => (TypeInv /\ OrderInv)'
  BY TypeStep, OrderStep
<1> QED BY <1>1, <1>2, PTL DEF Spec

(* Every block that can run is in the order, once, and the entry first     *)
(* (structure.C:641-644).                                                  *)
THEOREM BlocksInOrder == Spec => []OrderComplete
BY OrderAlways, OrderInvComplete, PTL

(* Only an edge that closes a cycle runs backward in the order             *)
(* (structure.C:605-606).                                                  *)
THEOREM ForwardEdges == Spec => []EdgesForward
BY OrderAlways, OrderInvForward, PTL

(* Between a block and one it dominates are only blocks that run between   *)
(* them (structure.C:606-607).                                             *)
THEOREM RegionsStayTogether == Spec => []RegionsTogether
BY OrderAlways, OrderInvTogether, PTL

(***************************************************************************)
(* The searches.                                                           *)
(***************************************************************************)
Backward ==
    Closure(uses, [c \in Blocks |-> IF c \in defs THEN {}
                                    ELSE {b \in Blocks \ stay : c \in Succs(b)}])

(* u is in a set without definitions that control enters nowhere.          *)
Blank(u) ==
    \E S \in SUBSET Blocks : /\ u \in S /\ S \cap defs = {}
                             /\ \A c \in S : Preds(c) \ stay \subseteq S

(* The search in progress has met no definition, only blocks from which    *)
(* control reaches a use, and all the predecessors of those it has left;   *)
(* those that are over have missed nothing.                                *)
SearchInv ==
    /\ task \in {"start", "search"} => found = None
    /\ task = "start" => path = <<>>
    /\ task = "search" =>
          /\ starts \subseteq uses
          /\ \A u \in uses \ starts : Blank(u) \/ (path # <<>> /\ u \in seen)
          /\ path # <<>> =>
                /\ seen \subseteq Backward /\ seen \cap defs = {}
                /\ \A i \in DOMAIN path : path[i] \in seen
                /\ \A c \in seen : \/ \E i \in DOMAIN path : path[i] = c
                                   \/ Preds(c) \ stay \subseteq seen

LEMMA BackwardIs ==
    ASSUME TypeInv
    PROVE  /\ Reaching = Backward \cap defs
           /\ Backward \in SUBSET Blocks /\ uses \subseteq Backward
           /\ \A c \in Backward : c \notin defs => Preds(c) \ stay \subseteq Backward
           /\ \A S \in SUBSET Blocks :
                 uses \subseteq S /\ (\A c \in S : c \notin defs => Preds(c) \ stay \subseteq S)
                 => Backward \subseteq S
<1> DEFINE next == [c \in Blocks |-> IF c \in defs THEN {}
                                     ELSE {b \in Blocks \ stay : c \in Succs(b)}]
<1>1. Backward = Closure(uses, next) /\ Reaching = Backward \cap defs
  BY DEF Backward, Reaching
<1>2. next \in [Blocks -> SUBSET Blocks] /\ uses \in SUBSET Blocks
  BY DEF TypeInv
<1>3. \A c \in Blocks : next[c] = IF c \in defs THEN {} ELSE Preds(c) \ stay
  BY DEF Preds, IntraEdges, Succs
<1> HIDE DEF next
<1>4. /\ Backward \in SUBSET Blocks /\ uses \subseteq Backward
      /\ \A c \in Backward : next[c] \subseteq Backward
      /\ \A S : uses \subseteq S /\ (\A c \in S \cap Blocks : next[c] \subseteq S)
                   => Backward \subseteq S
  BY <1>1, <1>2, ClosureIs
<1>5. \A c \in Backward : c \notin defs => Preds(c) \ stay \subseteq Backward
  BY <1>3, <1>4
<1>6. ASSUME NEW S \in SUBSET Blocks, uses \subseteq S,
             \A c \in S : c \notin defs => Preds(c) \ stay \subseteq S
      PROVE  Backward \subseteq S
  <2>1. \A c \in S \cap Blocks : next[c] \subseteq S
    BY <1>3, <1>6
  <2> QED BY <1>4, <1>6, <2>1
<1> QED BY <1>1, <1>4, <1>5, <1>6

LEMMA SearchInit == Init => SearchInv /\ SearchFinds /\ LatchTold
BY DEF Init, SearchInv, SearchFinds, LatchTold

(* A block is entered: it holds a definition, or the search goes on there. *)
LEMMA EnterSearch ==
    ASSUME TypeInv, task = "search", found = None, UNCHANGED <<targets, uses, defs, stay>>,
           NEW b \in Blocks, Enter(b), b \in Backward, starts' \subseteq uses,
           path # <<>> => /\ \A i \in DOMAIN path : path[i] \in seen
                          /\ seen \subseteq Backward /\ seen \cap defs = {}
                          /\ \A c \in seen : \/ \E i \in DOMAIN path : path[i] = c
                                             \/ Preds(c) \ stay \subseteq seen,
           seen' = IF path = <<>> THEN {b} ELSE seen \union {b},
           \A u \in uses \ starts' : Blank(u) \/ u \in seen'
    PROVE  SearchInv' /\ SearchFinds'
<1>1. Backward' = Backward /\ Reaching' = Reaching /\ (\A c : Preds(c)' = Preds(c))
      /\ (\A u : Blank(u)' = Blank(u))
  BY DEF Backward, Reaching, Preds, IntraEdges, Succs, Blank
<1>2. CASE b \in defs
  <2>1. found' = b /\ task' = "found" /\ b # None
    BY <1>2, FlowAssumption DEF Enter, Defines
  <2>2. b \in Reaching
    BY <1>2, BackwardIs
  <2> QED BY <1>1, <2>1, <2>2 DEF SearchInv, SearchFinds
<1>3. CASE b \notin defs
  <2>1. path' = Append(path, b) /\ found' = found /\ task' = task /\ path \in Seq(Blocks)
    BY <1>3 DEF Enter, Defines, TypeInv
  <2>2. /\ path' # <<>> /\ DOMAIN path \subseteq DOMAIN path'
        /\ \A i \in DOMAIN path : path'[i] = path[i]
        /\ \A i \in DOMAIN path' : i \in DOMAIN path \/ path'[i] = b
        /\ \E i \in DOMAIN path' : path'[i] = b
    <3>1. /\ Len(path) \in Nat /\ DOMAIN path = 1 .. Len(path)
          /\ DOMAIN path' = 1 .. Len(path) + 1 /\ path'[Len(path) + 1] = b
          /\ \A i \in 1 .. Len(path) : path'[i] = path[i]
      BY <2>1
    <3>2. Len(path) + 1 \in 1 .. Len(path) + 1
      BY <3>1
    <3> QED BY <3>1, <3>2
  <2>3. path = <<>> => DOMAIN path = {}
    OBVIOUS
  <2>4. /\ seen' \subseteq Backward /\ seen' \cap defs = {}
        /\ \A i \in DOMAIN path' : path'[i] \in seen'
        /\ \A c \in seen' : \/ \E i \in DOMAIN path' : path'[i] = c
                            \/ Preds(c) \ stay \subseteq seen'
    <3>1. CASE path = <<>>
      BY <1>3, <2>2, <2>3, <3>1
    <3>2. CASE path # <<>>
      <4>1. seen' = seen \union {b}
        BY <3>2
      <4>2. seen' \subseteq Backward /\ seen' \cap defs = {}
        BY <1>3, <3>2, <4>1
      <4>3. \A i \in DOMAIN path' : path'[i] \in seen'
        BY <2>2, <3>2, <4>1
      <4>4. \A c \in seen' : \/ \E i \in DOMAIN path' : path'[i] = c
                             \/ Preds(c) \ stay \subseteq seen'
        BY <2>2, <3>2, <4>1
      <4> QED BY <4>2, <4>3, <4>4
    <3> QED BY <3>1, <3>2
  <2>5. \A u \in uses \ starts' : Blank(u) \/ (path' # <<>> /\ u \in seen')
    BY <2>2
  <2>6. SearchInv'
    <3>1. task' = "search" /\ found' = None /\ uses' = uses /\ defs' = defs /\ stay' = stay
      BY <2>1
    <3>2. \A u \in uses' \ starts' : Blank(u)' \/ (path' # <<>> /\ u \in seen')
      BY <1>1, <2>5, <3>1
    <3>3. /\ seen' \subseteq Backward' /\ seen' \cap defs' = {}
          /\ \A i \in DOMAIN path' : path'[i] \in seen'
      BY <1>1, <2>4, <3>1
    <3>4. \A c \in seen' : \/ \E i \in DOMAIN path' : path'[i] = c
                           \/ Preds(c)' \ stay' \subseteq seen'
      BY <1>1, <2>4, <3>1
    <3> QED BY <3>1, <3>2, <3>3, <3>4 DEF SearchInv
  <2> QED BY <2>1, <2>6 DEF SearchFinds
<1> QED BY <1>2, <1>3

LEMMA BeginSearch ==
    ASSUME TypeInv, SearchInv, Begin
    PROVE  SearchInv' /\ SearchFinds'
<1>1. PICK b \in starts : starts' = starts \ {b} /\ seen' = {b} /\ Enter(b)
  BY DEF Begin
<1>2. task = "search" /\ path = <<>> /\ UNCHANGED <<targets, uses, defs, stay>>
  BY DEF Begin, query
<1>3. b \in Blocks /\ b \in uses /\ starts' \subseteq uses /\ found = None
  BY <1>1, <1>2 DEF TypeInv, SearchInv
<1>4. b \in Backward
  BY <1>3, BackwardIs
<1>5. \A u \in uses \ starts' : Blank(u) \/ u \in seen'
  BY <1>1, <1>2 DEF SearchInv
<1> QED BY <1>1, <1>2, <1>3, <1>4, <1>5, EnterSearch

LEMMA RecurseSearch ==
    ASSUME TypeInv, SearchInv, Recurse
    PROVE  SearchInv' /\ SearchFinds'
<1>1. PICK p \in Preds(Last(path)) \ (seen \union stay) : seen' = seen \union {p} /\ Enter(p)
  BY DEF Recurse
<1>2. task = "search" /\ path # <<>> /\ UNCHANGED <<targets, uses, defs, stay, starts>>
  BY DEF Recurse, query
<1>3. Last(path) \in seen
  <2>1. path \in Seq(Blocks)
    BY DEF TypeInv
  <2>2. Len(path) \in Nat \ {0} /\ Last(path) = path[Len(path)]
    BY <1>2, <2>1, LastOf
  <2>3. Len(path) \in DOMAIN path
    BY <2>1, <2>2
  <2> QED BY <1>2, <2>2, <2>3 DEF SearchInv
<1>4. p \in Backward
  BY <1>1, <1>2, <1>3, BackwardIs DEF SearchInv
<1>5. p \in Blocks /\ found = None /\ starts' \subseteq uses
  BY <1>1, <1>2 DEF Preds, SearchInv
<1>6. \A u \in uses \ starts' : Blank(u) \/ u \in seen'
  BY <1>1, <1>2 DEF SearchInv
<1>7. /\ \A i \in DOMAIN path : path[i] \in seen
      /\ seen \subseteq Backward /\ seen \cap defs = {}
      /\ \A c \in seen : \/ \E i \in DOMAIN path : path[i] = c
                         \/ Preds(c) \ stay \subseteq seen
  BY <1>2 DEF SearchInv
<1>8. seen' = IF path = <<>> THEN {p} ELSE seen \union {p}
  BY <1>1, <1>2
<1> QED BY <1>1, <1>2, <1>4, <1>5, <1>6, <1>7, <1>8, EnterSearch

LEMMA ReturnSearch ==
    ASSUME TypeInv, SearchInv, Return
    PROVE  SearchInv' /\ SearchFinds'
<1> DEFINE n == Len(path)
<1>1. /\ task = "search" /\ path # <<>> /\ Preds(Last(path)) \ (seen \union stay) = {}
      /\ path' = Front(path)
      /\ UNCHANGED <<targets, task, seen, uses, defs, stay, starts, found>>
  BY DEF Return, query
<1>2. /\ n \in Nat \ {0} /\ DOMAIN path = 1 .. n /\ path' \in Seq(Blocks) /\ Len(path') = n - 1
      /\ \A i \in 1 .. n - 1 : path'[i] = path[i]
      /\ Last(path) = path[n]
  <2>1. path \in Seq(Blocks)
    BY DEF TypeInv
  <2>2. n \in Nat \ {0} /\ DOMAIN path = 1 .. n
    BY <1>1, <2>1, LastOf
  <2>3. /\ Front(path) \in Seq(Blocks) /\ Len(Front(path)) = n - 1
        /\ \A i \in 1 .. n - 1 : Front(path)[i] = path[i]
        /\ Last(path) = path[n]
    BY <1>1, <2>1, LastOf
  <2> QED BY <1>1, <2>2, <2>3
<1>3. DOMAIN path' = 1 .. n - 1
  BY <1>2
<1> HIDE DEF n
<1>4. /\ seen \subseteq Backward /\ seen \cap defs = {}
      /\ \A i \in 1 .. n : path[i] \in seen
      /\ \A c \in seen : (\E i \in 1 .. n : path[i] = c) \/ Preds(c) \ stay \subseteq seen
      /\ \A u \in uses \ starts : Blank(u) \/ u \in seen
      /\ starts \subseteq uses /\ found = None
  BY <1>1, <1>2 DEF SearchInv
<1>5. Backward' = Backward /\ (\A c : Preds(c)' = Preds(c)) /\ (\A u : Blank(u)' = Blank(u))
  BY <1>1 DEF Backward, Preds, IntraEdges, Succs, Blank
<1>6. \A c \in seen : (\E i \in 1 .. n - 1 : path[i] = c) \/ Preds(c) \ stay \subseteq seen
  <2> SUFFICES ASSUME NEW c \in seen, NEW i \in 1 .. n, path[i] = c
               PROVE  (\E j \in 1 .. n - 1 : path[j] = c) \/ Preds(c) \ stay \subseteq seen
    BY <1>4
  <2>1. CASE i = n
    BY <1>1, <1>2, <2>1
  <2>2. CASE i # n
    <3>1. i \in 1 .. n - 1
      BY <1>2, <2>2
    <3> QED BY <3>1
  <2> QED BY <2>1, <2>2
<1>7. \A u \in uses \ starts : Blank(u) \/ (path' # <<>> /\ u \in seen)
  <2>1. CASE path' = <<>>
    <3>1. \A i \in 1 .. n - 1 : FALSE
      BY <1>2, <1>3, <2>1
    <3>2. \A c \in seen : Preds(c) \ stay \subseteq seen
      BY <1>6, <3>1
    <3>3. \A u \in seen : Blank(u)
      BY <1>4, <3>2 DEF Blank, TypeInv
    <3> QED BY <1>4, <3>3
  <2>2. CASE path' # <<>>
    BY <1>4, <2>2
  <2> QED BY <2>1, <2>2
<1>8. SearchInv'
  <2>1. \A u \in uses' \ starts' : Blank(u)' \/ (path' # <<>> /\ u \in seen')
    BY <1>1, <1>5, <1>7
  <2>2. \A i \in DOMAIN path' : path'[i] \in seen'
    <3>1. \A i \in 1 .. n - 1 : i \in 1 .. n
      BY <1>2
    <3> QED BY <1>1, <1>2, <1>3, <1>4, <3>1
  <2>3. \A c \in seen' : (\E i \in DOMAIN path' : path'[i] = c) \/ Preds(c)' \ stay' \subseteq seen'
    BY <1>1, <1>2, <1>3, <1>5, <1>6
  <2> QED BY <1>1, <1>4, <1>5, <2>1, <2>2, <2>3 DEF SearchInv
<1> QED BY <1>1, <1>8 DEF SearchFinds

(* All that was reached without a definition is closed under predecessors. *)
LEMMA GiveUpSearch ==
    ASSUME TypeInv, SearchInv, GiveUp
    PROVE  SearchInv' /\ SearchFinds'
<1>1. /\ task = "search" /\ path = <<>> /\ starts = {} /\ task' = "found"
      /\ UNCHANGED <<targets, uses, defs, stay, found>>
  BY DEF GiveUp, query
<1>2. found = None /\ \A u \in uses : Blank(u)
  BY <1>1 DEF SearchInv
<1> DEFINE U == {c \in Blocks : Blank(c)}
<1>3. uses \subseteq U
  BY <1>2 DEF TypeInv
<1>4. U \cap defs = {}
  BY DEF Blank
<1>5. ASSUME NEW c \in U PROVE Preds(c) \ stay \subseteq U
  <2>1. PICK S \in SUBSET Blocks : /\ c \in S /\ S \cap defs = {}
                                   /\ \A d \in S : Preds(d) \ stay \subseteq S
    BY DEF Blank
  <2>2. \A d \in S : Blank(d)
    BY <2>1 DEF Blank
  <2> QED BY <2>1, <2>2
<1>6. Backward \subseteq U
  <2>1. U \in SUBSET Blocks
    OBVIOUS
  <2> HIDE DEF U
  <2> QED BY <1>3, <1>5, <2>1, BackwardIs
<1>7. Reaching = {}
  BY <1>4, <1>6, BackwardIs
<1>8. Reaching' = Reaching
  BY <1>1 DEF Reaching, Succs
<1> QED BY <1>1, <1>2, <1>7, <1>8 DEF SearchInv, SearchFinds

LEMMA SearchStep == TypeInv /\ SearchInv /\ SearchFinds /\ [Next]_vars => (SearchInv /\ SearchFinds)'
<1> SUFFICES ASSUME TypeInv, SearchInv, SearchFinds, [Next]_vars PROVE SearchInv' /\ SearchFinds'
  OBVIOUS
<1>1. CASE StartCond \/ StartInit
  <2>1. /\ task = "start" /\ task' = "search" /\ path' = path /\ found' = found
        /\ starts' = uses'
    BY <1>1 DEF StartCond, StartInit
  <2>2. found' = None /\ path' = <<>>
    BY <2>1 DEF SearchInv
  <2> QED BY <2>1, <2>2 DEF SearchInv, SearchFinds
<1>2. CASE Begin \/ Recurse \/ Return \/ GiveUp
  BY <1>2, BeginSearch, RecurseSearch, ReturnSearch, GiveUpSearch
<1>3. CASE StartOrder \/ Emit \/ Skip \/ Visit \/ FinishOrder \/ Latch \/ ExecLoop
  <2>1. task' \in {"order", "ordered", "told"}
    BY <1>3 DEF StartOrder, Emit, Skip, Visit, FinishOrder, Latch, ExecLoop
  <2> QED BY <2>1 DEF SearchInv, SearchFinds
<1>4. CASE UNCHANGED vars
  <2>1. UNCHANGED <<targets, task, seen, uses, defs, stay, starts, path, found>>
    BY <1>4 DEF vars, query
  <2>2. Backward' = Backward /\ (\A c : Preds(c)' = Preds(c)) /\ (\A u : Blank(u)' = Blank(u))
        /\ Reaching' = Reaching
    BY <2>1 DEF Backward, Reaching, Preds, IntraEdges, Succs, Blank
  <2>3. SearchInv'
    BY <2>1, <2>2 DEF SearchInv
  <2> QED BY <2>1, <2>2, <2>3 DEF SearchFinds
<1> QED BY <1>1, <1>2, <1>3, <1>4 DEF Next

(* What a search reports is a definition that control carries to the use,  *)
(* and it reports nothing only if there is none (structure.C:362, 394).    *)
THEOREM SearchesFind == Spec => []SearchFinds
<1>1. Init => TypeInv /\ SearchInv /\ SearchFinds
  BY TypeInit, SearchInit
<1>2. TypeInv /\ SearchInv /\ SearchFinds /\ [Next]_vars => (TypeInv /\ SearchInv /\ SearchFinds)'
  BY TypeStep, SearchStep
<1> QED BY <1>1, <1>2, PTL DEF Spec

-----------------------------------------------------------------------------
(***************************************************************************)
(* The branch of a loop.                                                   *)
(***************************************************************************)
LEMMA FirstStep ==
    ASSUME NEW g \in Flow, NEW b \in Blocks, NEW avoid, NEW c \in Paths(g, b, avoid), c # b
    PROVE  \E s \in (g[b] \cap Blocks) \ avoid : c \in Paths(g, s, avoid)
<1> DEFINE T == {b} \union {d \in Blocks : \E s \in (g[b] \cap Blocks) \ avoid :
                                              d \in Paths(g, s, avoid)}
<1>1. ASSUME NEW d \in T, NEW e \in g[d] \cap Blocks, e \notin avoid
      PROVE  e \in T
  <2>1. CASE d = b
    <3>1. e \in Paths(g, e, avoid)
      BY <1>1, PathsAre
    <3> QED BY <1>1, <2>1, <3>1
  <2>2. CASE d # b
    <3>1. PICK s \in (g[b] \cap Blocks) \ avoid : d \in Paths(g, s, avoid)
      BY <2>2
    <3>2. e \in Paths(g, s, avoid)
      BY <1>1, <3>1, PathsAre
    <3> QED BY <3>1, <3>2
  <2> QED BY <2>1, <2>2
<1>2. b \in T
  OBVIOUS
<1>3. Paths(g, b, avoid) \subseteq T
  <2> HIDE DEF T
  <2> QED BY <1>1, <1>2, PathsAre
<1> QED BY <1>3

(* A way to a block that h dominates goes through h, and on from there.    *)
LEMMA FirstStepThrough ==
    ASSUME NEW g \in Flow, NEW h \in Blocks, NEW c \in Paths(g, Entry, {}), Dom(g, h, c), c # h
    PROVE  \E s \in (g[h] \cap Blocks) \ {h} : c \in Paths(g, s, {h})
<1> DEFINE P == Paths(g, Entry, {h})
           T == P \union {h} \union {d \in Blocks : \E s \in (g[h] \cap Blocks) \ {h} :
                                                       d \in Paths(g, s, {h})}
<1>1. Entry \in T
  BY FlowAssumption, PathsAre
<1>2. ASSUME NEW d \in T, NEW e \in g[d] \cap Blocks
      PROVE  e \in T
  <2>1. CASE e = h
    BY <2>1
  <2>2. CASE e # h /\ d = h
    <3>1. e \in Paths(g, e, {h})
      BY <2>2, PathsAre
    <3> QED BY <1>2, <2>2, <3>1
  <2>3. CASE e # h /\ d \in P
    BY <2>3, FlowAssumption, PathsAre
  <2>4. CASE e # h /\ d # h /\ d \notin P
    <3>1. PICK s \in (g[h] \cap Blocks) \ {h} : d \in Paths(g, s, {h})
      BY <2>4
    <3>2. e \in Paths(g, s, {h})
      BY <2>4, <3>1, PathsAre
    <3> QED BY <3>1, <3>2
  <2> QED BY <2>1, <2>2, <2>3, <2>4
<1>3. Paths(g, Entry, {}) \subseteq T
  <2> HIDE DEF T
  <2> QED BY <1>1, <1>2, FlowAssumption, PathsAre
<1> QED BY <1>3 DEF Dom

(* From every block of a loop there is an edge that stays in it.           *)
LEMMA LoopGoesOn ==
    ASSUME targets \in Flow, NEW h \in Headers, NEW b \in LoopOf(h)
    PROVE  Succs(b) \cap LoopOf(h) # {}
<1> DEFINE L == {l \in Reachable : h \in Succs(l) /\ Dominates(h, l)}
<1>1. /\ h \in Blocks /\ h \in Reachable /\ Reachable = Paths(targets, Entry, {})
      /\ Reachable \subseteq Blocks
  BY FlowAssumption, FromIsPaths, PathsAre DEF Headers
<1>2. /\ b \in Reachable /\ L # {} /\ Dominates(h, b)
      /\ b = h \/ \E l \in L : l \in Paths(targets, b, {h})
  BY FromIsPaths DEF LoopOf
<1>3. h \in LoopOf(h)
  <2>1. Dominates(h, h)
    BY <1>1, FlowAssumption, FromIsPaths, PathsAre DEF Dom
  <2> QED BY <1>1, <1>2, <2>1 DEF LoopOf
<1>4. CASE b \in L
  BY <1>3, <1>4
<1>5. ASSUME NEW l \in L, NEW s \in Succs(b) \ {h}, l \in Paths(targets, s, {h})
      PROVE  s \in LoopOf(h)
  <2>1. s \in Reachable /\ s \in Blocks
    BY <1>1, <1>2, FlowAssumption, PathsAre DEF Succs
  <2>2. Dominates(h, s)
    <3>1. l \notin Paths(targets, Entry, {h})
      BY FromIsPaths DEF Dom
    <3>2. s \notin Paths(targets, Entry, {h})
      BY <1>5, <3>1, FlowAssumption, PathsJoin
    <3> QED BY <3>2, FromIsPaths DEF Dom
  <2> QED BY <1>2, <1>5, <2>1, <2>2, FromIsPaths DEF LoopOf
<1>6. CASE b = h /\ b \notin L
  <2>1. PICK l \in L : TRUE
    BY <1>2
  <2>2. l \in Paths(targets, Entry, {}) /\ Dom(targets, h, l) /\ l # h
    BY <1>1, <1>6, FromIsPaths
  <2>3. PICK s \in (targets[h] \cap Blocks) \ {h} : l \in Paths(targets, s, {h})
    BY <1>1, <2>2, FirstStepThrough
  <2> QED BY <1>5, <1>6, <2>3 DEF Succs
<1>7. CASE b # h /\ b \notin L
  <2>1. PICK l \in L : l \in Paths(targets, b, {h})
    BY <1>2, <1>7
  <2>2. b \in Blocks /\ l # b
    BY <1>1, <1>2, <1>7
  <2>3. PICK s \in (targets[b] \cap Blocks) \ {h} : l \in Paths(targets, s, {h})
    BY <2>1, <2>2, FirstStep
  <2> QED BY <1>5, <2>3 DEF Succs
<1> QED BY <1>4, <1>6, <1>7

(* The symbols that are printed read as the compares they stand for.       *)
LEMMA ComparesRead ==
    \A cond \in DOMAIN Scc, order \in {-1, 0, 1} :
       Reads(cmpOp(cond), order) <=> order \in Scc[cond]
<1> SUFFICES ASSUME NEW cond \in {"LT", "LE", "EQ", "LG", "GE", "GT"}, NEW order \in {-1, 0, 1}
             PROVE  Reads(cmpOp(cond), order) <=> order \in Scc[cond]
  BY DEF Scc
<1>1. CASE cond = "LT"
  <2>1. cmpOp(cond) = "<" /\ Scc[cond] = {-1}
    BY <1>1 DEF cmpOp, Scc
  <2> QED BY <2>1 DEF Reads
<1>2. CASE cond = "LE"
  <2>1. cmpOp(cond) = "<=" /\ Scc[cond] = {-1, 0}
    BY <1>2 DEF cmpOp, Scc
  <2> QED BY <2>1 DEF Reads
<1>3. CASE cond = "EQ"
  <2>1. cmpOp(cond) = "==" /\ Scc[cond] = {0}
    BY <1>3 DEF cmpOp, Scc
  <2> QED BY <2>1 DEF Reads
<1>4. CASE cond = "LG"
  <2>1. cmpOp(cond) = "!=" /\ Scc[cond] = {-1, 1}
    BY <1>4 DEF cmpOp, Scc
  <2> QED BY <2>1 DEF Reads
<1>5. CASE cond = "GE"
  <2>1. cmpOp(cond) = ">=" /\ Scc[cond] = {0, 1}
    BY <1>5 DEF cmpOp, Scc
  <2> QED BY <2>1 DEF Reads
<1>6. CASE cond = "GT"
  <2>1. cmpOp(cond) = ">" /\ Scc[cond] = {1}
    BY <1>6 DEF cmpOp, Scc
  <2> QED BY <2>1 DEF Reads
<1> QED BY <1>1, <1>2, <1>3, <1>4, <1>5, <1>6

LEMMA LatchStep == TypeInv /\ LatchTold /\ [Next]_vars => LatchTold'
<1> SUFFICES ASSUME TypeInv, LatchTold, [Next]_vars PROVE LatchTold'
  OBVIOUS
<1>1. CASE Latch
  <2> SUFFICES ASSUME said'.exits PROVE said'.says = said'.does
    BY DEF LatchTold
  <2> DEFINE Tells(h, b, whenTrue, cond) ==
          \E taken, other \in IntraEdges(b) :
             LET says == Says(LoopOf(h), taken, whenTrue)
                 does == Does(LoopOf(h), taken, other, whenTrue)
             IN  /\ taken # other /\ IntraEdges(b) = {taken, other}
                 /\ said' = [by    |-> "scc",
                             says  |-> [order \in {-1, 0, 1} |-> says[Reads(cmpOp(cond), order)]],
                             does  |-> [order \in {-1, 0, 1} |-> does[(order \in Scc[cond])]],
                             exits |-> {taken, other} \ LoopOf(h) # {}]
  <2>0. PICK h \in Headers :
          \E b \in LoopOf(h), whenTrue \in BOOLEAN, cond \in DOMAIN Scc : Tells(h, b, whenTrue, cond)
    BY <1>1 DEF Latch
  <2>1. PICK b \in LoopOf(h), whenTrue \in BOOLEAN, cond \in DOMAIN Scc : Tells(h, b, whenTrue, cond)
    BY <2>0
  <2>2. PICK taken \in IntraEdges(b), other \in IntraEdges(b) :
             LET says == Says(LoopOf(h), taken, whenTrue)
                 does == Does(LoopOf(h), taken, other, whenTrue)
             IN  /\ taken # other /\ IntraEdges(b) = {taken, other}
                 /\ said' = [by    |-> "scc",
                             says  |-> [order \in {-1, 0, 1} |-> says[Reads(cmpOp(cond), order)]],
                             does  |-> [order \in {-1, 0, 1} |-> does[(order \in Scc[cond])]],
                             exits |-> {taken, other} \ LoopOf(h) # {}]
    BY <2>1
  <2> DEFINE body == LoopOf(h)
             says == Says(body, taken, whenTrue)
             does == Does(body, taken, other, whenTrue)
             told == [order \in {-1, 0, 1} |-> says[Reads(cmpOp(cond), order)]]
             done == [order \in {-1, 0, 1} |-> does[(order \in Scc[cond])]]
  <2>3. {taken, other} \ body # {} /\ said'.says = told /\ said'.does = done
    BY <2>2
  <2>4. {taken, other} \cap body # {}
    <3>1. Succs(b) \cap body # {} /\ Succs(b) = {taken, other}
      BY <2>2, LoopGoesOn DEF TypeInv, Succs, IntraEdges
    <3> QED BY <3>1
  <2> HIDE DEF body
  <2>5. taken \in body <=> other \notin body
    BY <2>3, <2>4
  <2>6. \A scc \in BOOLEAN : says[scc] = does[scc]
    <3>1. says[TRUE] = does[TRUE] /\ says[FALSE] = does[FALSE]
      <4>1. says[TRUE] = ((TRUE = whenTrue) = (taken \in body)) /\ says[FALSE] = ((FALSE = whenTrue) = (taken \in body))
        BY DEF Says
      <4>2. does[TRUE] = ((IF TRUE = whenTrue THEN taken ELSE other) \in body) /\ does[FALSE] = ((IF FALSE = whenTrue THEN taken ELSE other) \in body)
        BY DEF Does
      <4>3. CASE whenTrue = TRUE
        <5>1. does[TRUE] = (taken \in body) /\ does[FALSE] = (other \in body)
          BY <4>2, <4>3
        <5>2. says[TRUE] = (taken \in body) /\ says[FALSE] = (taken \notin body)
          BY <4>1, <4>3
        <5> QED BY <5>1, <5>2, <2>5
      <4>4. CASE whenTrue = FALSE
        <5>1. does[TRUE] = (other \in body) /\ does[FALSE] = (taken \in body)
          BY <4>2, <4>4
        <5>2. says[TRUE] = (taken \notin body) /\ says[FALSE] = (taken \in body)
          BY <4>1, <4>4
        <5> QED BY <5>1, <5>2, <2>5
      <4> QED BY <4>3, <4>4
    <3> QED BY <3>1
  <2>7. \A order \in {-1, 0, 1} : told[order] = done[order]
    <3> SUFFICES ASSUME NEW order \in {-1, 0, 1}
                 PROVE  says[Reads(cmpOp(cond), order)] = does[(order \in Scc[cond])]
      OBVIOUS
    <3>1. Reads(cmpOp(cond), order) \in BOOLEAN
      BY DEF Reads
    <3>2. Reads(cmpOp(cond), order) = (order \in Scc[cond])
      BY <3>1, ComparesRead
    <3> HIDE DEF says, does
    <3> QED BY <2>6, <3>1, <3>2
  <2>8. told = done
    <3> HIDE DEF says, does
    <3> QED BY <2>7
  <2> QED BY <2>3, <2>8
<1>2. CASE ExecLoop
  <2> SUFFICES ASSUME said'.exits PROVE said'.says = said'.does
    BY DEF LatchTold
  <2> DEFINE Tells(h, b, whileLanes) ==
          \E taken, other \in IntraEdges(b) :
             LET does == Does(LoopOf(h), taken, other, whileLanes) IN
             /\ taken # other /\ IntraEdges(b) = {taken, other}
             /\ does[TRUE]
             /\ said' = [by    |-> "exec",
                         says  |-> [lanes \in BOOLEAN |-> lanes],
                         does  |-> does,
                         exits |-> {taken, other} \ LoopOf(h) # {}]
  <2>0. PICK h \in Headers : \E b \in LoopOf(h), whileLanes \in BOOLEAN : Tells(h, b, whileLanes)
    BY <1>2 DEF ExecLoop
  <2>1. PICK b \in LoopOf(h), whileLanes \in BOOLEAN : Tells(h, b, whileLanes)
    BY <2>0
  <2>2. PICK taken \in IntraEdges(b), other \in IntraEdges(b) :
             LET does == Does(LoopOf(h), taken, other, whileLanes) IN
             /\ taken # other /\ IntraEdges(b) = {taken, other}
             /\ does[TRUE]
             /\ said' = [by    |-> "exec",
                         says  |-> [lanes \in BOOLEAN |-> lanes],
                         does  |-> does,
                         exits |-> {taken, other} \ LoopOf(h) # {}]
    BY <2>1
  <2> DEFINE body == LoopOf(h)
             does == Does(body, taken, other, whileLanes)
  <2>3. /\ {taken, other} \ body # {} /\ does[TRUE]
        /\ said'.says = [lanes \in BOOLEAN |-> lanes] /\ said'.does = does
    BY <2>2
  <2> HIDE DEF body
  <2>4. does[TRUE] = TRUE /\ does[FALSE] = FALSE
    <3>1. does[TRUE] = ((IF TRUE = whileLanes THEN taken ELSE other) \in body)
      BY DEF Does
    <3>2. does[FALSE] = ((IF FALSE = whileLanes THEN taken ELSE other) \in body)
      BY DEF Does
    <3>3. CASE whileLanes = TRUE
      <4>1. does[TRUE] = (taken \in body) /\ does[FALSE] = (other \in body)
        BY <3>1, <3>2, <3>3
      <4> HIDE DEF does
      <4>2. does[TRUE] /\ (taken \notin body \/ other \notin body)
        BY <2>3
      <4>3. taken \in body /\ other \notin body
        BY <4>1, <4>2
      <4>4. (taken \in body) = TRUE /\ (other \in body) = FALSE
        BY <4>3
      <4> QED BY <4>1, <4>4
    <3>4. CASE whileLanes = FALSE
      <4>1. does[TRUE] = (other \in body) /\ does[FALSE] = (taken \in body)
        BY <3>1, <3>2, <3>4
      <4> HIDE DEF does
      <4>2. does[TRUE] /\ (taken \notin body \/ other \notin body)
        BY <2>3
      <4>3. other \in body /\ taken \notin body
        BY <4>1, <4>2
      <4>4. (other \in body) = TRUE /\ (taken \in body) = FALSE
        BY <4>3
      <4> QED BY <4>1, <4>4
    <3> QED BY <3>3, <3>4
  <2>5. does = [lanes \in BOOLEAN |-> lanes]
    <3>1. does = [lanes \in BOOLEAN |-> does[lanes]]
      BY DEF Does
    <3> HIDE DEF does
    <3> QED BY <2>4, <3>1
  <2> QED BY <2>3, <2>5
<1>3. CASE StartOrder \/ Emit \/ Skip \/ Visit \/ FinishOrder \/ StartCond \/ StartInit
           \/ Begin \/ Recurse \/ Return \/ GiveUp
  <2>1. task' # "told"
    BY <1>3 DEF StartOrder, Emit, Skip, Visit, FinishOrder, StartCond, StartInit,
                Begin, Recurse, Return, GiveUp, Enter
  <2> QED BY <2>1 DEF LatchTold
<1>4. CASE UNCHANGED vars
  BY <1>4 DEF LatchTold, vars
<1> QED BY <1>1, <1>2, <1>3, <1>4 DEF Next

(* What is printed of a branch that may leave a loop is what it does, in   *)
(* whatever graph, loop and block (structure.C:270-287, 492-497).          *)
THEOREM LatchesTold == Spec => []LatchTold
<1>1. Init => TypeInv /\ LatchTold
  BY TypeInit, SearchInit
<1>2. TypeInv /\ LatchTold /\ [Next]_vars => (TypeInv /\ LatchTold)'
  BY TypeStep, LatchStep
<1> QED BY <1>1, <1>2, PTL DEF Spec
=============================================================================
