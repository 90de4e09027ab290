------------------------- MODULE HostcallRingProofs -------------------------
(***************************************************************************)
(* Proofs about HostcallRing for every grid, ring size and number of       *)
(* resident waves: the typing invariant, the exclusive ownership of slots  *)
(* by ticket and turn, and the refinement of HostcallSpec.                 *)
(***************************************************************************)
EXTENDS HostcallRefinement, FiniteSetTheorems, TLAPS

-----------------------------------------------------------------------------
(***************************************************************************)
(* Division with remainder, for the slot and the generation of a ticket.   *)
(***************************************************************************)

(* A strictly larger factor makes the product larger by one whole factor.  *)
LEMMA MulMono == \A n, a, b \in Nat : a < b => n * a + n <= n * b
<1> SUFFICES ASSUME NEW n \in Nat, NEW a \in Nat, NEW b \in Nat, a < b
             PROVE  n * a + n <= n * b
  OBVIOUS
<1>1. PICK d \in Nat : b = a + 1 + d
  <2> WITNESS b - a - 1 \in Nat
  <2> QED OBVIOUS
<1>2. n * b = n * a + n + n * d
  BY <1>1
<1>3. n * d \in Nat
  OBVIOUS
<1> QED BY <1>2, <1>3

(* Quotient and remainder of a natural number.                             *)
LEMMA DivMod == \A p \in Nat, n \in Nat \ {0} :
                  /\ p \div n \in Nat
                  /\ p % n \in 0 .. n - 1
                  /\ p = n * (p \div n) + (p % n)
OBVIOUS

(* They are the only way to write the number.                              *)
LEMMA DivUnique == ASSUME NEW n \in Nat \ {0}, NEW g \in Nat, NEW s \in 0 .. n - 1
                   PROVE  (n * g + s) \div n = g /\ (n * g + s) % n = s
<1> DEFINE p == n * g + s
           q == p \div n
           r == p % n
<1>1. p \in Nat
  OBVIOUS
<1>2. q \in Nat /\ r \in 0 .. n - 1 /\ p = n * q + r
  BY <1>1, DivMod
<1> HIDE DEF q, r
<1>3. ~ (q < g)
  BY <1>2, MulMono
<1>4. ~ (g < q)
  BY <1>2, MulMono
<1>5. q = g
  BY <1>2, <1>3, <1>4
<1>6. r = s
  BY <1>2, <1>5
<1> QED BY <1>5, <1>6 DEF q, r

-----------------------------------------------------------------------------
(* Tickets.                                                                *)

(* The range of the tickets holds a whole round of the ring.               *)
LEMMA TModNat == TMod \in Nat \ {0} /\ NSLOTS <= TMod /\ TMod = NSLOTS * Gens
<1>1. NSLOTS * 0 + NSLOTS <= NSLOTS * Gens
  BY MulMono, RingAssumption
<1> QED BY <1>1, RingAssumption DEF TMod

(* A ticket is the pair of its slot and its generation.                    *)
LEMMA TicketParts ==
    ASSUME NEW p \in Ticket
    PROVE  /\ SlotOf(p) \in Slots
           /\ Gen(p) \in 0 .. Gens - 1
           /\ p = NSLOTS * Gen(p) + SlotOf(p)
<1> USE RingAssumption
<1>0. p \in Nat /\ p < NSLOTS * Gens
  BY TModNat DEF Ticket, TMod
<1>1. /\ Gen(p) \in Nat
      /\ SlotOf(p) \in 0 .. NSLOTS - 1
      /\ p = NSLOTS * Gen(p) + SlotOf(p)
  BY <1>0, DivMod DEF Gen, SlotOf
<1>2. ASSUME Gens <= Gen(p)  PROVE FALSE
  <2>1. NSLOTS * Gens <= NSLOTS * Gen(p)
    <3>1. CASE Gens = Gen(p)
      BY <3>1, <1>1
    <3>2. CASE Gens < Gen(p)
      BY <3>2, <1>1, MulMono
    <3> QED BY <1>1, <1>2, <3>1, <3>2
  <2> QED BY <1>0, <1>1, <2>1
<1> QED BY <1>1, <1>2 DEF Slots

(* Every such pair is a ticket.                                            *)
LEMMA TicketOf ==
    ASSUME NEW g \in 0 .. Gens - 1, NEW s \in Slots
    PROVE  /\ NSLOTS * g + s \in Ticket
           /\ Gen(NSLOTS * g + s) = g
           /\ SlotOf(NSLOTS * g + s) = s
<1> USE RingAssumption
<1>1. NSLOTS * g + NSLOTS <= NSLOTS * Gens
  BY MulMono
<1>2. NSLOTS * g \in Nat
  OBVIOUS
<1>3. NSLOTS * g + s \in Ticket
  BY <1>1, <1>2 DEF Ticket, TMod, Slots
<1> QED BY <1>3, DivUnique DEF Gen, SlotOf, Slots

(* 32-bit addition of less than the whole range wraps at most once.        *)
LEMMA AddWraps ==
    ASSUME NEW p \in Ticket, NEW k \in 0 .. TMod
    PROVE  TicketAdd(p, k) = IF p + k < TMod THEN p + k ELSE p + k - TMod
<1> USE RingAssumption
<1>1. TMod \in Nat \ {0}
  BY TModNat
<1>2. CASE p + k < TMod
  <2>1. (TMod * 0 + (p + k)) % TMod = p + k
    BY <1>1, <1>2, DivUnique DEF Ticket
  <2> QED BY <1>1, <1>2, <2>1 DEF TicketAdd, Ticket
<1>3. CASE ~ (p + k < TMod)
  <2>1. (TMod * 1 + (p + k - TMod)) % TMod = p + k - TMod
    <3> DEFINE s == p + k - TMod
    <3>1. s \in 0 .. TMod - 1
      BY <1>1, <1>3 DEF Ticket
    <3> HIDE DEF s
    <3>2. (TMod * 1 + s) % TMod = s
      BY <1>1, <3>1, DivUnique
    <3> QED BY <3>2 DEF s
  <2> QED BY <1>1, <1>3, <2>1 DEF TicketAdd, Ticket
<1> QED BY <1>2, <1>3

(* The next ticket goes to the next slot, the one after the last slot to   *)
(* slot 0 of the next generation.                                          *)
LEMMA NextTicket ==
    ASSUME NEW p \in Ticket
    PROVE  /\ TicketAdd(p, 1) \in Ticket
           /\ IF SlotOf(p) = NSLOTS - 1
              THEN /\ SlotOf(TicketAdd(p, 1)) = 0
                   /\ Gen(TicketAdd(p, 1)) = GenAdd(Gen(p), 1)
              ELSE /\ SlotOf(TicketAdd(p, 1)) = SlotOf(p) + 1
                   /\ Gen(TicketAdd(p, 1)) = Gen(p)
<1> USE RingAssumption
<1> DEFINE g == Gen(p)
           s == SlotOf(p)
<1>1. s \in Slots /\ g \in 0 .. Gens - 1 /\ p = NSLOTS * g + s
  BY TicketParts
<1>2. TMod \in Nat /\ 1 <= TMod /\ TMod = NSLOTS * Gens
  BY TModNat
<1>3. TicketAdd(p, 1) = IF p + 1 < TMod THEN p + 1 ELSE p + 1 - TMod
  BY <1>2, AddWraps
<1> HIDE DEF g, s
<1>4. CASE s # NSLOTS - 1
  <2>1. s + 1 \in Slots
    BY <1>1, <1>4 DEF Slots
  <2>2. NSLOTS * g + (s + 1) \in Ticket
    BY <1>1, <2>1, TicketOf
  <2>3. TicketAdd(p, 1) = NSLOTS * g + (s + 1)
    BY <1>1, <1>2, <1>3, <2>2 DEF Ticket, Slots
  <2> QED BY <1>1, <1>4, <2>1, <2>2, <2>3, TicketOf DEF g, s
<1>5. CASE s = NSLOTS - 1
  <2>1. 0 \in Slots
    BY DEF Slots
  <2>2. CASE g = Gens - 1
    <3>1. p + 1 = TMod
      <4>1. NSLOTS * Gens = NSLOTS * g + NSLOTS
        BY <1>1, <2>2
      <4> QED BY <1>1, <1>2, <1>5, <4>1 DEF Slots
    <3>2. TicketAdd(p, 1) = NSLOTS * 0 + 0
      <4>1. p + 1 - TMod = 0 /\ NSLOTS * 0 + 0 = 0
        BY <1>1, <1>2, <3>1
      <4> QED BY <1>2, <1>3, <3>1, <4>1
    <3>3. GenAdd(g, 1) = 0
      BY <1>1, <2>2 DEF GenAdd
    <3> QED BY <1>5, <2>1, <3>2, <3>3, TicketOf DEF g, s
  <2>3. CASE g # Gens - 1
    <3>1. g + 1 \in 0 .. Gens - 1 /\ GenAdd(g, 1) = g + 1
      BY <1>1, <2>3 DEF GenAdd
    <3>2. NSLOTS * (g + 1) + 0 \in Ticket
      BY <2>1, <3>1, TicketOf
    <3>3. NSLOTS * (g + 1) = NSLOTS * g + NSLOTS
      BY <1>1
    <3>4. TicketAdd(p, 1) = NSLOTS * (g + 1) + 0
      BY <1>1, <1>2, <1>3, <1>5, <3>2, <3>3 DEF Ticket, Slots
    <3> QED BY <1>5, <2>1, <3>1, <3>2, <3>4, TicketOf DEF g, s
  <2> QED BY <2>2, <2>3
<1> QED BY <1>4, <1>5

(* hc_release hands the slot to its next generation.                       *)
LEMMA NextGeneration ==
    ASSUME NEW p \in Ticket
    PROVE  /\ TicketAdd(p, NSLOTS) \in Ticket
           /\ SlotOf(TicketAdd(p, NSLOTS)) = SlotOf(p)
           /\ Gen(TicketAdd(p, NSLOTS)) = GenAdd(Gen(p), 1)
<1> USE RingAssumption
<1> DEFINE g == Gen(p)
           s == SlotOf(p)
<1>1. s \in Slots /\ g \in 0 .. Gens - 1 /\ p = NSLOTS * g + s
  BY TicketParts
<1>2. TMod \in Nat /\ NSLOTS <= TMod /\ TMod = NSLOTS * Gens
  BY TModNat
<1>3. TicketAdd(p, NSLOTS) = IF p + NSLOTS < TMod THEN p + NSLOTS ELSE p + NSLOTS - TMod
  BY <1>2, AddWraps
<1> HIDE DEF g, s
<1>4. CASE g = Gens - 1
  <2>1. NSLOTS * Gens = NSLOTS * g + NSLOTS
    BY <1>1, <1>4
  <2>2. TicketAdd(p, NSLOTS) = NSLOTS * 0 + s
    BY <1>1, <1>2, <1>3, <2>1 DEF Slots
  <2>3. GenAdd(g, 1) = 0
    BY <1>1, <1>4 DEF GenAdd
  <2> QED BY <1>1, <2>2, <2>3, TicketOf DEF g, s
<1>5. CASE g # Gens - 1
  <2>1. g + 1 \in 0 .. Gens - 1 /\ GenAdd(g, 1) = g + 1
    BY <1>1, <1>5 DEF GenAdd
  <2>2. NSLOTS * (g + 1) + s \in Ticket
    BY <1>1, <2>1, TicketOf
  <2>3. NSLOTS * (g + 1) = NSLOTS * g + NSLOTS
    BY <1>1
  <2>4. TicketAdd(p, NSLOTS) = NSLOTS * (g + 1) + s
    BY <1>1, <1>2, <1>3, <2>2, <2>3 DEF Ticket, Slots
  <2> QED BY <1>1, <2>1, <2>2, <2>4, TicketOf DEF g, s
<1> QED BY <1>4, <1>5

-----------------------------------------------------------------------------
(* Typing.                                                                 *)

(* A wave inside a hostcall has something to ask; TypeOK is not inductive  *)
(* without it, because Marshal copies the request to the cache.            *)
Asking   == {"ticket"} \union Holding
CallMade == \A w \in Waves : pc[w] \in Asking => call[w] \in Requests
TypeInv  == TypeOK /\ CallMade

(* 0 is a ticket and a slot, and so is every slot number.                  *)
LEMMA SmallNumbers == 0 \in Ticket /\ 0 \in Slots /\ Slots \subseteq Ticket
BY TModNat, RingAssumption DEF Ticket, Slots

LEMMA TypeInit == Init => TypeInv
<1> SUFFICES ASSUME Init PROVE TypeInv
  OBVIOUS
<1> USE SmallNumbers, DataAssumption DEF Init
<1>1. enqueue_pos \in Ticket /\ turn \in [Slots -> Ticket]
  OBVIOUS
<1>2. /\ status \in [Slots -> 0 .. 2]
      /\ request \in [Slots -> Requests \union {None}]
      /\ reply \in [Slots -> Reply \union {None}]
  OBVIOUS
<1>3. /\ pc \in [Waves -> Places]
      /\ pos \in [Waves -> Ticket]
      /\ call \in [Waves -> Requests \union {None}]
      /\ got \in [Waves -> Reply \union {None}]
      /\ calls \in [Waves -> 0 .. MaxCalls]
      /\ line \in [Waves -> Lines \union {None}]
  BY DEF Places
<1>4. run \in BOOLEAN /\ svc \in {"check", "scan", "serve", "publish", "exited"} /\ scan \in Slots
  OBVIOUS
<1>5. CallMade
  BY DEF CallMade, Asking, Holding, Owning
<1> QED BY <1>1, <1>2, <1>3, <1>4, <1>5 DEF TypeInv, TypeOK

(* What a write-back leaves in memory is a request.                        *)
LEMMA FlushedType ==
    ASSUME TypeInv, NEW w \in Waves
    PROVE  Flushed(w) \in [Slots -> Requests \union {None}]
<1>1. line[w] \in Lines \union {None} /\ request \in [Slots -> Requests \union {None}]
  BY DEF TypeInv, TypeOK
<1>2. line[w] # None /\ line[w].dirty => line[w].request \in Requests
  BY <1>1 DEF Lines
<1> QED BY <1>1, <1>2 DEF Flushed

(* The slot of every wave's ticket is a slot.                              *)
LEMMA CellType ==
    ASSUME TypeInv, NEW w \in Waves
    PROVE  pos[w] \in Ticket /\ Cell(w) \in Slots
BY TicketParts DEF TypeInv, TypeOK, Cell

LEMMA TypeNext == TypeInv /\ [Next]_vars => TypeInv'
<1> SUFFICES ASSUME TypeInv, [Next]_vars PROVE TypeInv'
  OBVIOUS
<1> USE DEF TypeInv, TypeOK, At, Goto
<1>1. ASSUME NEW w \in Waves, Dispatch(w) PROVE TypeInv'
  BY <1>1 DEF Dispatch, CallMade, Asking, Resident, Holding, Owning, Places, mem, host
<1>2. ASSUME NEW w \in Waves, EndWave(w) PROVE TypeInv'
  BY <1>2 DEF EndWave, CallMade, Asking, Resident, Holding, Owning, Places, mem, host
<1>3. ASSUME NEW w \in Waves, Call(w) PROVE TypeInv'
  <2>1. call' \in [Waves -> Requests \union {None}] /\ call'[w] \in Requests
    BY <1>3 DEF Call
  <2>2. calls' \in [Waves -> 0 .. MaxCalls]
    BY <1>3, DataAssumption DEF Call
  <2>3. pc' \in [Waves -> Places]
    BY <1>3 DEF Call, Places, Resident
  <2>4. CallMade'
    BY <1>3, <2>1 DEF Call, CallMade
  <2> QED BY <1>3, <2>1, <2>2, <2>3, <2>4 DEF Call, mem, host
<1>4. ASSUME NEW w \in Waves, TakeTicket(w) PROVE TypeInv'
  <2>1. enqueue_pos' \in Ticket /\ pos' \in [Waves -> Ticket]
    BY <1>4, NextTicket DEF TakeTicket
  <2>2. pc' \in [Waves -> Places] /\ CallMade'
    BY <1>4 DEF TakeTicket, Places, Resident, Holding, Asking, CallMade
  <2> QED BY <1>4, <2>1, <2>2 DEF TakeTicket, mem, host
<1>5. ASSUME NEW w \in Waves, AwaitTurn(w) PROVE TypeInv'
  BY <1>5 DEF AwaitTurn, CallMade, Asking, Resident, Holding, Owning, Places, mem, host
<1>6. ASSUME NEW w \in Waves, Marshal(w) PROVE TypeInv'
  <2>1. call[w] \in Requests /\ reply[Cell(w)] \in Reply \union {None}
    BY <1>6, CellType DEF Marshal, CallMade, Asking, Holding, Owning
  <2>2. line' \in [Waves -> Lines \union {None}]
    BY <1>6, <2>1 DEF Marshal, Lines
  <2>3. pc' \in [Waves -> Places] /\ CallMade'
    BY <1>6 DEF Marshal, Places, Resident, Holding, Owning, Asking, CallMade
  <2> QED BY <1>6, <2>2, <2>3 DEF Marshal, mem, host
<1>7. ASSUME NEW w \in Waves, WriteBack(w) PROVE TypeInv'
  <2>1. request' \in [Slots -> Requests \union {None}]
    BY <1>7, FlushedType DEF WriteBack
  <2>2. line' \in [Waves -> Lines \union {None}]
    <3>1. line[w] \in Lines \union {None}
      OBVIOUS
    <3>2. line[w] # None => [line[w] EXCEPT !.dirty = FALSE] \in Lines
      BY <3>1 DEF Lines
    <3> QED BY <1>7, <3>1, <3>2 DEF WriteBack
  <2>3. pc' \in [Waves -> Places] /\ CallMade'
    BY <1>7 DEF WriteBack, Places, Resident, Holding, Owning, Asking, CallMade
  <2> QED BY <1>7, <2>1, <2>2, <2>3 DEF WriteBack, host
<1>8. ASSUME NEW w \in Waves, Evict(w) PROVE TypeInv'
  <2>1. request' \in [Slots -> Requests \union {None}]
    BY <1>8, FlushedType DEF Evict
  <2> QED BY <1>8, <2>1 DEF Evict, wave, host, CallMade
<1>9. ASSUME NEW w \in Waves, Signal(w) PROVE TypeInv'
  <2>1. status' \in [Slots -> 0 .. 2]
    BY <1>9, CellType DEF Signal
  <2>2. pc' \in [Waves -> Places] /\ CallMade'
    BY <1>9 DEF Signal, Places, Resident, Holding, Owning, Asking, CallMade
  <2> QED BY <1>9, <2>1, <2>2 DEF Signal, host
<1>10. ASSUME NEW w \in Waves, AwaitDone(w) PROVE TypeInv'
  BY <1>10 DEF AwaitDone, CallMade, Asking, Resident, Holding, Owning, Places, mem, host
<1>11. ASSUME NEW w \in Waves, Invalidate(w) PROVE TypeInv'
  BY <1>11 DEF Invalidate, CallMade, Asking, Resident, Holding, Owning, Places, mem, host
<1>12. ASSUME NEW w \in Waves, ReadResult(w) PROVE TypeInv'
  <2>1. reply[Cell(w)] \in Reply \union {None}
    BY CellType
  <2>2. line[w] # None => line[w].reply \in Reply \union {None}
    BY DEF Lines
  <2>3. got' \in [Waves -> Reply \union {None}]
    BY <1>12, <2>1, <2>2 DEF ReadResult
  <2>4. pc' \in [Waves -> Places] /\ CallMade'
    BY <1>12 DEF ReadResult, Places, Resident, Holding, Owning, Asking, CallMade
  <2> QED BY <1>12, <2>3, <2>4 DEF ReadResult, mem, host
<1>13. ASSUME NEW w \in Waves, ClearStatus(w) PROVE TypeInv'
  <2>1. status' \in [Slots -> 0 .. 2]
    BY <1>13, CellType DEF ClearStatus
  <2>2. pc' \in [Waves -> Places] /\ CallMade'
    BY <1>13 DEF ClearStatus, Places, Resident, Holding, Owning, Asking, CallMade
  <2> QED BY <1>13, <2>1, <2>2 DEF ClearStatus, host
<1>14. ASSUME NEW w \in Waves, RereadTurn(w) PROVE TypeInv'
  <2>1. pos' \in [Waves -> Ticket]
    BY <1>14, CellType DEF RereadTurn
  <2>2. pc' \in [Waves -> Places] /\ CallMade'
    BY <1>14 DEF RereadTurn, Places, Resident, Holding, Owning, Asking, CallMade
  <2> QED BY <1>14, <2>1, <2>2 DEF RereadTurn, mem, host
<1>15. ASSUME NEW w \in Waves, PassTurn(w) PROVE TypeInv'
  <2>1. turn' \in [Slots -> Ticket]
    BY <1>15, CellType, NextGeneration DEF PassTurn
  <2>2. pos' \in [Waves -> Ticket]
    BY <1>15, SmallNumbers DEF PassTurn
  <2>3. /\ call' \in [Waves -> Requests \union {None}]
        /\ got' \in [Waves -> Reply \union {None}]
    BY <1>15 DEF PassTurn
  <2>4. pc' \in [Waves -> Places] /\ CallMade'
    BY <1>15 DEF PassTurn, Places, Resident, Holding, Owning, Asking, CallMade
  <2> QED BY <1>15, <2>1, <2>2, <2>3, <2>4 DEF PassTurn, host
<1>16. NextSlot => svc' \in {"check", "scan"} /\ scan' \in Slots
  BY RingAssumption, SmallNumbers DEF NextSlot, Slots
<1>17. ASSUME CheckRun PROVE TypeInv'
  BY <1>17 DEF CheckRun, mem, wave, CallMade
<1>18. ASSUME SkipSlot PROVE TypeInv'
  BY <1>16, <1>18 DEF SkipSlot, mem, wave, CallMade
<1>19. ASSUME PickSlot PROVE TypeInv'
  BY <1>19 DEF PickSlot, mem, wave, CallMade
<1>20. ASSUME ServiceSlot PROVE TypeInv'
  <2>1. PICK v \in Results :
            reply' = [reply EXCEPT ![scan] = [to |-> request[scan], val |-> v]]
    BY <1>20 DEF ServiceSlot
  <2>2. [to |-> request[scan], val |-> v] \in Reply
    BY DEF Reply
  <2>3. reply' \in [Slots -> Reply \union {None}]
    BY <2>1, <2>2
  <2> QED BY <1>20, <2>3 DEF ServiceSlot, wave, CallMade
<1>21. ASSUME Publish PROVE TypeInv'
  BY <1>16, <1>21 DEF Publish, wave, CallMade
<1>22. ASSUME Stop PROVE TypeInv'
  BY <1>22 DEF Stop, mem, wave, CallMade
<1>23. CASE UNCHANGED vars
  BY <1>23 DEF vars, mem, wave, host, CallMade
<1> QED
  BY <1>1, <1>2, <1>3, <1>4, <1>5, <1>6, <1>7, <1>8, <1>9, <1>10, <1>11, <1>12,
     <1>13, <1>14, <1>15, <1>17, <1>18, <1>19, <1>20, <1>21, <1>22, <1>23
     DEF Next, Kernel, Hostcall, Service, Finished

(* Type correctness, for all values of the constants.                      *)
THEOREM TypeCorrect == Spec => []TypeOK
<1>1. Spec => []TypeInv
  BY TypeInit, TypeNext, PTL DEF Spec
<1>2. TypeInv => TypeOK
  BY DEF TypeInv
<1> QED BY <1>1, <1>2, PTL

-----------------------------------------------------------------------------
(* Exclusive ownership.  TicketQueue counts the holders of a slot, so it   *)
(* needs the bound on resident waves to know that their tickets are all    *)
(* different, and it needs to know that an owner's ticket is the turn.     *)

OwnerAtTurn   == \A w \in Waves : pc[w] \in Owning => turn[Cell(w)] = pos[w]
ResidentBound == Cardinality(ResidentWaves) <= MaxResident
RingInv       == TypeInv /\ TicketQueue /\ OwnerAtTurn /\ ResidentBound

(* Generations count modulo Gens.                                          *)
LEMMA GenArithmetic ==
    ASSUME NEW g \in 0 .. Gens - 1, NEW h \in 0 .. Gens - 1
    PROVE  /\ GenSub(h, g) \in 0 .. Gens - 1
           /\ GenSub(h, g) = 0 <=> h = g
           /\ GenSub(h, g) # 0 => GenSub(h, GenAdd(g, 1)) = GenSub(h, g) - 1
           /\ \A k \in 0 .. Gens - 1 :
                  /\ GenSub(GenAdd(g, k), g) = k
                  /\ GenAdd(GenAdd(g, k), 1) = GenAdd(g, k + 1)
                  /\ GenAdd(GenAdd(g, 1), k) = GenAdd(g, k + 1)
BY RingAssumption DEF GenSub, GenAdd

(* Holders and residents are finite sets, and holders are resident.        *)
LEMMA HoldersFinite ==
    ASSUME NEW i \in Slots
    PROVE  /\ IsFiniteSet(Holders(i)) /\ IsFiniteSet(ResidentWaves)
           /\ Cardinality(Holders(i)) \in Nat /\ Cardinality(ResidentWaves) \in Nat
           /\ Holders(i) \subseteq ResidentWaves
<1>1. Holders(i) \subseteq Waves /\ ResidentWaves \subseteq Waves
  BY DEF Holders, ResidentWaves
<1>2. IsFiniteSet(Holders(i)) /\ IsFiniteSet(ResidentWaves)
  BY <1>1, FS_Subset, DataAssumption
<1>3. Holders(i) \subseteq ResidentWaves
  BY DEF Holders, ResidentWaves, Resident
<1> QED BY <1>2, <1>3, FS_CardinalityType

(* The parts of the tickets that TicketQueue speaks of.                    *)
LEMMA QueueTypes ==
    ASSUME TypeInv
    PROVE  /\ \A i \in Slots : Gen(turn[i]) \in 0 .. Gens - 1
           /\ \A w \in Waves : Gen(pos[w]) \in 0 .. Gens - 1 /\ Cell(w) \in Slots
           /\ Gen(enqueue_pos) \in 0 .. Gens - 1 /\ SlotOf(enqueue_pos) \in Slots
BY TicketParts DEF TypeInv, TypeOK, Cell

(* The queues depend on turns, tickets and who holds one, nothing else.    *)
LEMMA QueueFrame ==
    ASSUME TicketQueue,
           turn' = turn, enqueue_pos' = enqueue_pos,
           \A w \in Waves : /\ pc'[w] \in Holding <=> pc[w] \in Holding
                            /\ pc[w] \in Holding => pos'[w] = pos[w]
    PROVE  TicketQueue'
<1>1. \A i \in Slots : Holders(i)' = Holders(i)
  BY DEF Holders, Cell
<1>2. \A i \in Slots : \A w \in Holders(i) : Ahead(w)' = Ahead(w)
  BY DEF Holders, Ahead, Cell
<1>3. \A i \in Slots : NextGen(i)' = NextGen(i)
  BY DEF NextGen
<1> QED BY <1>1, <1>2, <1>3 DEF TicketQueue

(* No wave becomes resident: the bound stays.                              *)
LEMMA ResidentFrame ==
    ASSUME ResidentBound, \A w \in Waves : pc'[w] \in Resident => pc[w] \in Resident
    PROVE  ResidentBound'
<1>1. ResidentWaves' \subseteq ResidentWaves
  BY DEF ResidentWaves
<1>2. IsFiniteSet(ResidentWaves)
  BY FS_Subset, DataAssumption DEF ResidentWaves
<1>3. Cardinality(ResidentWaves') <= Cardinality(ResidentWaves)
  BY <1>1, <1>2, FS_Subset
<1>4. Cardinality(ResidentWaves') \in Nat /\ Cardinality(ResidentWaves) \in Nat
  BY <1>1, <1>2, FS_Subset, FS_CardinalityType
<1>5. ResidentBound' <=> Cardinality(ResidentWaves') <= MaxResident
  BY DEF ResidentBound
<1> QED BY <1>3, <1>4, <1>5, RingAssumption DEF ResidentBound

(* Two owners of one slot are both at distance 0, hence one wave.          *)
LEMMA QueueExclusive == TypeInv /\ TicketQueue /\ OwnerAtTurn => SlotExclusive
<1> SUFFICES ASSUME TypeInv, TicketQueue, OwnerAtTurn,
                    NEW v \in Waves, NEW w \in Waves,
                    pc[v] \in Owning, pc[w] \in Owning, Cell(v) = Cell(w)
             PROVE  v = w
  BY DEF SlotExclusive
<1>1. v \in Holders(Cell(v)) /\ w \in Holders(Cell(v)) /\ Cell(v) \in Slots
  BY CellType DEF Holders, Holding
<1>2. pos[v] = pos[w]
  BY DEF OwnerAtTurn
<1>3. Ahead(v) = Ahead(w)
  BY <1>2 DEF Ahead
<1> QED BY <1>1, <1>3 DEF TicketQueue

LEMMA RingInit == Init => RingInv
<1> SUFFICES ASSUME Init PROVE RingInv
  OBVIOUS
<1>1. TypeInv
  BY TypeInit
<1>2. \A i \in Slots : Holders(i) = {}
  BY DEF Init, Holders, Holding, Owning
<1>3. \A i \in Slots : SlotOf(i) = i /\ Gen(i) = 0
  <2> TAKE i \in Slots
  <2>1. NSLOTS * 0 + i = i
    BY RingAssumption DEF Slots
  <2> QED BY <2>1, TicketOf, RingAssumption
<1>4. \A i \in Slots : NextGen(i) = 0
  <2>1. enqueue_pos = 0 /\ 0 \in Slots
    BY SmallNumbers DEF Init
  <2> QED BY <1>3, <2>1 DEF NextGen, Slots
<1>5. GenAdd(0, 0) = 0
  BY RingAssumption DEF GenAdd
<1>6. TicketQueue
  BY <1>2, <1>3, <1>4, <1>5, FS_EmptySet DEF TicketQueue, Init
<1>7. OwnerAtTurn
  BY DEF OwnerAtTurn, Init, Owning
<1>8. ResidentBound
  <2>1. ResidentWaves = {}
    BY DEF ResidentWaves, Init, Resident, Holding, Owning
  <2> QED BY <2>1, FS_EmptySet, RingAssumption DEF ResidentBound
<1> QED BY <1>1, <1>6, <1>7, <1>8 DEF RingInv

(* A new ticket goes to the place behind the holders of its slot.          *)
LEMMA TakeTicketQueue ==
    ASSUME RingInv, NEW w \in Waves, TakeTicket(w)
    PROVE  TicketQueue'
<1>a. PICK j : j = SlotOf(enqueue_pos)
  OBVIOUS
<1>b. PICK k : k = Cardinality(Holders(j))
  OBVIOUS
<1> USE DEF RingInv
<1>1. /\ j \in Slots /\ Gen(enqueue_pos) \in 0 .. Gens - 1
      /\ \A i \in Slots : Gen(turn[i]) \in 0 .. Gens - 1
  BY <1>a, QueueTypes
<1>2. turn' = turn /\ enqueue_pos' = TicketAdd(enqueue_pos, 1)
  BY DEF TakeTicket, mem
<1>3. /\ pc[w] = "ticket" /\ pc'[w] = "turn" /\ pos'[w] = enqueue_pos
      /\ \A v \in Waves : v # w => pc'[v] = pc[v] /\ pos'[v] = pos[v]
  BY DEF TakeTicket, At, Goto, TypeInv, TypeOK
<1>4. w \notin Holders(j) /\ Holders(j)' = Holders(j) \union {w}
  BY <1>a, <1>3 DEF Holders, Cell, Holding, Owning
<1>5. \A i \in Slots : i # j => Holders(i)' = Holders(i)
  BY <1>a, <1>3 DEF Holders, Cell, Holding, Owning
<1>6. k \in 0 .. Gens - 1 /\ Cardinality(Holders(j)') = k + 1
  <2>1. Holders(j) \union {w} \subseteq ResidentWaves
    BY <1>1, <1>3, HoldersFinite DEF ResidentWaves, Resident
  <2>2. Cardinality(Holders(j) \union {w}) = k + 1
    BY <1>a, <1>b, <1>1, <1>4, HoldersFinite, FS_AddElement
  <2>3. Cardinality(Holders(j) \union {w}) <= Cardinality(ResidentWaves)
    BY <1>1, <2>1, HoldersFinite, FS_Subset
  <2>4. k \in Nat /\ Cardinality(ResidentWaves) \in Nat
    BY <1>a, <1>b, <1>1, HoldersFinite
  <2> QED BY <1>4, <2>2, <2>3, <2>4, RingAssumption DEF ResidentBound
<1>7. \A i \in Slots : \A v \in Holders(i) : Ahead(v)' = Ahead(v)
  BY <1>2, <1>3 DEF Holders, Ahead, Cell, Holding, Owning
<1>8. Ahead(w)' = k
  <2>1. Gen(enqueue_pos) = GenAdd(Gen(turn[j]), k)
    BY <1>a, <1>b, <1>1 DEF TicketQueue, NextGen, Slots
  <2>2. Ahead(w)' = GenSub(Gen(enqueue_pos), Gen(turn[j]))
    BY <1>a, <1>2, <1>3 DEF Ahead, Cell
  <2> QED BY <1>1, <1>6, <2>1, <2>2, GenArithmetic
<1>9. NextGen(j)' = GenAdd(Gen(turn[j]), k + 1)
  <2>1. Gen(enqueue_pos) = GenAdd(Gen(turn[j]), k)
    BY <1>a, <1>b, <1>1 DEF TicketQueue, NextGen, Slots
  <2>2. NextGen(j)' = GenAdd(Gen(enqueue_pos), 1)
    <3>1. CASE j = NSLOTS - 1
      <4>1. SlotOf(enqueue_pos') = 0 /\ Gen(enqueue_pos') = GenAdd(Gen(enqueue_pos), 1)
        BY <1>a, <1>2, <3>1, NextTicket DEF TypeInv, TypeOK
      <4> QED BY <1>1, <4>1 DEF NextGen, Slots
    <3>2. CASE j # NSLOTS - 1
      <4>1. SlotOf(enqueue_pos') = j + 1 /\ Gen(enqueue_pos') = Gen(enqueue_pos)
        BY <1>a, <1>2, <3>2, NextTicket DEF TypeInv, TypeOK
      <4> QED BY <1>1, <4>1, RingAssumption DEF NextGen, Slots, GenAdd
    <3> QED BY <3>1, <3>2
  <2> QED BY <1>1, <1>6, <2>1, <2>2, GenArithmetic
<1>10. \A i \in Slots : i # j => NextGen(i)' = NextGen(i)
  <2> TAKE i \in Slots
  <2> HAVE i # j
  <2>1. CASE j = NSLOTS - 1
    <3>1. SlotOf(enqueue_pos') = 0 /\ Gen(enqueue_pos') = GenAdd(Gen(enqueue_pos), 1)
      BY <1>a, <1>2, <2>1, NextTicket DEF TypeInv, TypeOK
    <3> QED BY <1>a, <1>1, <2>1, <3>1, RingAssumption DEF NextGen, Slots, GenAdd
  <2>2. CASE j # NSLOTS - 1
    <3>1. SlotOf(enqueue_pos') = j + 1 /\ Gen(enqueue_pos') = Gen(enqueue_pos)
      BY <1>a, <1>2, <2>2, NextTicket DEF TypeInv, TypeOK
    <3> QED BY <1>a, <1>1, <3>1, RingAssumption DEF NextGen, Slots
  <2> QED BY <2>1, <2>2
<1>11. \A i \in Slots : i # j =>
          /\ SlotOf(turn'[i]) = i
          /\ \A v \in Holders(i)' : Ahead(v)' < Cardinality(Holders(i)')
          /\ \A u, v \in Holders(i)' : Ahead(u)' = Ahead(v)' => u = v
          /\ NextGen(i)' = GenAdd(Gen(turn'[i]), Cardinality(Holders(i)'))
  BY <1>2, <1>5, <1>7, <1>10 DEF TicketQueue
<1>12. \A v \in Holders(j) : Ahead(v)' < k /\ Ahead(v)' \in Int
  <2>1. \A v \in Holders(j) : Ahead(v) \in Int
    <3> SUFFICES ASSUME NEW v \in Holders(j) PROVE Ahead(v) \in Int
      OBVIOUS
    <3>1. v \in Waves /\ Cell(v) = j
      BY DEF Holders
    <3>2. Gen(pos[v]) \in 0 .. Gens - 1 /\ Gen(turn[j]) \in 0 .. Gens - 1
      BY <1>1, <3>1, QueueTypes
    <3> QED BY <3>1, <3>2, GenArithmetic, RingAssumption DEF Ahead
  <2> QED BY <1>a, <1>b, <1>1, <1>7, <2>1 DEF TicketQueue
<1> HIDE DEF RingInv
<1>13. \A v \in Holders(j)' : Ahead(v)' < Cardinality(Holders(j)')
  BY <1>4, <1>6, <1>8, <1>12
<1>14. \A u, v \in Holders(j)' : Ahead(u)' = Ahead(v)' => u = v
  <2>1. \A u, v \in Holders(j) : Ahead(u)' = Ahead(v)' => u = v
    BY <1>1, <1>7 DEF TicketQueue, RingInv
  <2> QED BY <1>4, <1>6, <1>8, <1>12, <2>1
<1>15. SlotOf(turn'[j]) = j
  BY <1>1, <1>2 DEF TicketQueue, RingInv
<1>16. NextGen(j)' = GenAdd(Gen(turn'[j]), Cardinality(Holders(j)'))
  BY <1>2, <1>6, <1>9
<1> QED BY <1>11, <1>13, <1>14, <1>15, <1>16 DEF TicketQueue

(* The owner leaves the head of the queue and everybody moves up by one.   *)
LEMMA PassTurnQueue ==
    ASSUME RingInv, NEW w \in Waves, PassTurn(w)
    PROVE  TicketQueue'
<1>a. PICK j : j = Cell(w)
  OBVIOUS
<1>b. PICK k : k = Cardinality(Holders(j))
  OBVIOUS
<1> USE DEF RingInv
<1>1. /\ j \in Slots /\ \A v \in Waves : Gen(pos[v]) \in 0 .. Gens - 1
      /\ \A i \in Slots : Gen(turn[i]) \in 0 .. Gens - 1
  BY <1>a, QueueTypes
<1>2. /\ pc[w] = "pass" /\ pc'[w] = "running"
      /\ \A v \in Waves : v # w => pc'[v] = pc[v] /\ pos'[v] = pos[v]
      /\ enqueue_pos' = enqueue_pos
  BY DEF PassTurn, At, Goto, TypeInv, TypeOK
<1>3. /\ turn[j] = pos[w]
      /\ turn'[j] = TicketAdd(pos[w], NSLOTS)
      /\ \A i \in Slots : i # j => turn'[i] = turn[i]
  BY <1>a, <1>1, <1>2 DEF PassTurn, OwnerAtTurn, Owning, TypeInv, TypeOK
<1>4. SlotOf(turn'[j]) = j /\ Gen(turn'[j]) = GenAdd(Gen(turn[j]), 1)
  BY <1>1, <1>3, NextGeneration DEF TypeInv, TypeOK, TicketQueue
<1>5. w \in Holders(j) /\ Holders(j)' = Holders(j) \ {w}
  BY <1>a, <1>2 DEF Holders, Cell, Holding, Owning
<1>6. \A i \in Slots : i # j => Holders(i)' = Holders(i)
  BY <1>a, <1>2 DEF Holders, Cell, Holding, Owning
<1>7. k \in 1 .. Gens /\ Cardinality(Holders(j)') = k - 1
  <2>1. k <= Cardinality(ResidentWaves) /\ k \in Nat /\ Cardinality(ResidentWaves) \in Nat
    BY <1>a, <1>b, <1>1, HoldersFinite, FS_Subset
  <2>2. Cardinality(Holders(j) \ {w}) = k - 1 /\ k # 0
    BY <1>a, <1>b, <1>1, <1>5, HoldersFinite, FS_RemoveElement, FS_EmptySet
  <2> QED BY <1>5, <2>1, <2>2, RingAssumption DEF ResidentBound
<1>8. Ahead(w) = 0
  BY <1>a, <1>1, <1>3, GenArithmetic DEF Ahead
<1>9. \A v \in Holders(j) : v # w => /\ Ahead(v) \in Int /\ Ahead(v) < k
                                     /\ Ahead(v)' = Ahead(v) - 1
  <2> SUFFICES ASSUME NEW v \in Holders(j), v # w
               PROVE  Ahead(v) \in Int /\ Ahead(v) < k /\ Ahead(v)' = Ahead(v) - 1
    OBVIOUS
  <2>1. Ahead(v) # 0 /\ Ahead(v) < k
    BY <1>a, <1>b, <1>1, <1>5, <1>8 DEF TicketQueue
  <2>2. v \in Waves /\ Cell(v) = j /\ pos'[v] = pos[v]
    BY <1>2 DEF Holders
  <2>3. Ahead(v) = GenSub(Gen(pos[v]), Gen(turn[j]))
    BY <2>2 DEF Ahead
  <2>4. Ahead(v)' = GenSub(Gen(pos[v]), GenAdd(Gen(turn[j]), 1))
    BY <1>4, <2>2 DEF Ahead, Cell
  <2> QED BY <1>1, <2>1, <2>2, <2>3, <2>4, GenArithmetic
<1>10. \A i \in Slots : i # j => \A v \in Holders(i) : Ahead(v)' = Ahead(v)
  BY <1>a, <1>2, <1>3 DEF Holders, Ahead, Cell, Holding, Owning
<1>11. \A i \in Slots : NextGen(i)' = NextGen(i)
  BY <1>2 DEF NextGen
<1>12. \A i \in Slots : i # j =>
          /\ SlotOf(turn'[i]) = i
          /\ \A v \in Holders(i)' : Ahead(v)' < Cardinality(Holders(i)')
          /\ \A u, v \in Holders(i)' : Ahead(u)' = Ahead(v)' => u = v
          /\ NextGen(i)' = GenAdd(Gen(turn'[i]), Cardinality(Holders(i)'))
  BY <1>3, <1>6, <1>10, <1>11 DEF TicketQueue
<1>13. NextGen(j)' = GenAdd(Gen(turn'[j]), Cardinality(Holders(j)'))
  <2>1. NextGen(j) = GenAdd(Gen(turn[j]), k)
    BY <1>a, <1>b, <1>1 DEF TicketQueue
  <2>2. \A l \in 0 .. Gens - 1 : GenAdd(GenAdd(Gen(turn[j]), 1), l) = GenAdd(Gen(turn[j]), l + 1)
    BY <1>1, GenArithmetic
  <2>3. k - 1 \in 0 .. Gens - 1 /\ (k - 1) + 1 = k
    BY <1>7, RingAssumption
  <2> QED BY <1>1, <1>4, <1>7, <1>11, <2>1, <2>2, <2>3
<1> HIDE DEF RingInv
<1>14. \A v \in Holders(j)' : Ahead(v)' < Cardinality(Holders(j)')
  BY <1>5, <1>7, <1>9
<1>15. \A u, v \in Holders(j)' : Ahead(u)' = Ahead(v)' => u = v
  <2>1. \A u, v \in Holders(j) : Ahead(u) = Ahead(v) => u = v
    BY <1>1 DEF TicketQueue, RingInv
  <2> QED BY <1>5, <1>9, <2>1
<1> QED BY <1>4, <1>12, <1>13, <1>14, <1>15 DEF TicketQueue

(* Owners stay at the turn: only the owner moves it, and only the wave at  *)
(* the turn becomes owner.                                                 *)
LEMMA OwnerNext == RingInv /\ [Next]_vars => OwnerAtTurn'
<1> SUFFICES ASSUME RingInv, [Next]_vars, NEW v \in Waves, pc'[v] \in Owning
             PROVE  turn'[Cell(v)'] = pos'[v]
  BY DEF OwnerAtTurn
<1> USE DEF RingInv, TypeInv, TypeOK
<1>1. ASSUME pc[v] \in Owning, pos'[v] = pos[v], turn' = turn
      PROVE  turn'[Cell(v)'] = pos'[v]
  BY <1>1 DEF OwnerAtTurn, Cell
<1>2. ASSUME NEW w \in Waves, Dispatch(w) \/ Kernel(w)
      PROVE  turn'[Cell(v)'] = pos'[v]
  <2>1. pc[v] \in Owning /\ pos' = pos /\ turn' = turn
    BY <1>2 DEF Dispatch, Kernel, Call, EndWave, At, Goto, Owning, mem
  <2> QED BY <1>1, <2>1
<1>3. ASSUME NEW w \in Waves, TakeTicket(w)
      PROVE  turn'[Cell(v)'] = pos'[v]
  <2>1. pc[v] \in Owning /\ pos'[v] = pos[v] /\ turn' = turn
    BY <1>3 DEF TakeTicket, At, Goto, Owning, mem
  <2> QED BY <1>1, <2>1
<1>4. ASSUME NEW w \in Waves, AwaitTurn(w)
      PROVE  turn'[Cell(v)'] = pos'[v]
  <2>1. pos' = pos /\ turn' = turn
    BY <1>4 DEF AwaitTurn, mem
  <2>2. CASE v = w
    BY <1>4, <2>1, <2>2 DEF AwaitTurn, Cell
  <2>3. CASE v # w
    BY <1>1, <1>4, <2>1, <2>3 DEF AwaitTurn, At, Goto
  <2> QED BY <2>2, <2>3
<1>5. ASSUME NEW w \in Waves,
             \/ Marshal(w) \/ WriteBack(w) \/ Signal(w) \/ AwaitDone(w)
             \/ Invalidate(w) \/ ReadResult(w) \/ ClearStatus(w)
      PROVE  turn'[Cell(v)'] = pos'[v]
  <2>1. pc[v] \in Owning /\ pos' = pos /\ turn' = turn
    BY <1>5 DEF Marshal, WriteBack, Signal, AwaitDone, Invalidate, ReadResult,
                ClearStatus, At, Goto, Owning, mem
  <2> QED BY <1>1, <2>1
<1>6. ASSUME NEW w \in Waves, RereadTurn(w)
      PROVE  turn'[Cell(v)'] = pos'[v]
  <2>1. pc[v] \in Owning /\ turn' = turn
    BY <1>6 DEF RereadTurn, At, Goto, Owning, mem
  <2>2. pos'[v] = pos[v]
    BY <1>6 DEF RereadTurn, At, Owning, OwnerAtTurn
  <2> QED BY <1>1, <2>1, <2>2
<1>7. ASSUME NEW w \in Waves, PassTurn(w)
      PROVE  turn'[Cell(v)'] = pos'[v]
  <2>1. v # w /\ pc[v] \in Owning /\ pos'[v] = pos[v] /\ pc[w] \in Owning
    BY <1>7 DEF PassTurn, At, Goto, Owning
  <2>2. Cell(v) # Cell(w)
    BY <2>1, QueueExclusive DEF SlotExclusive
  <2>3. turn'[Cell(v)] = turn[Cell(v)]
    BY <1>7, <2>2, CellType DEF PassTurn
  <2> QED BY <2>1, <2>3 DEF OwnerAtTurn, Cell
<1>8. ASSUME NEW w \in Waves, Evict(w)
      PROVE  turn'[Cell(v)'] = pos'[v]
  BY <1>1, <1>8 DEF Evict, wave
<1>9. ASSUME Service \/ Stop \/ Finished \/ UNCHANGED vars
      PROVE  turn'[Cell(v)'] = pos'[v]
  <2>1. pc' = pc /\ pos' = pos /\ turn' = turn
    BY <1>9 DEF Service, CheckRun, SkipSlot, PickSlot, ServiceSlot, Publish, Stop,
                Finished, vars, mem, wave
  <2> QED BY <1>1, <2>1
<1> QED BY <1>2, <1>3, <1>4, <1>5, <1>6, <1>7, <1>8, <1>9 DEF Next, Hostcall

(* Only Dispatch makes a wave resident, and it counts first.               *)
LEMMA ResidentNext == RingInv /\ [Next]_vars => ResidentBound'
<1> SUFFICES ASSUME RingInv, [Next]_vars PROVE ResidentBound'
  OBVIOUS
<1> USE DEF RingInv, TypeInv, TypeOK
<1>1. ASSUME NEW w \in Waves, Dispatch(w) PROVE ResidentBound'
  <2>1. ResidentWaves' \subseteq ResidentWaves \union {w}
    BY <1>1 DEF Dispatch, Goto, ResidentWaves
  <2>2. IsFiniteSet(ResidentWaves) /\ w \notin ResidentWaves
    BY <1>1, FS_Subset, DataAssumption
       DEF Dispatch, At, ResidentWaves, Resident, Holding, Owning
  <2>3. /\ IsFiniteSet(ResidentWaves \union {w})
        /\ Cardinality(ResidentWaves \union {w}) = Cardinality(ResidentWaves) + 1
    BY <2>2, FS_AddElement
  <2>4. Cardinality(ResidentWaves') <= Cardinality(ResidentWaves \union {w})
    BY <2>1, <2>3, FS_Subset
  <2>5. Cardinality(ResidentWaves') \in Nat /\ Cardinality(ResidentWaves) \in Nat
    BY <2>1, <2>2, <2>3, FS_Subset, FS_CardinalityType
  <2>6. Cardinality(ResidentWaves) < MaxResident
    BY <1>1 DEF Dispatch
  <2>7. Cardinality(ResidentWaves') <= MaxResident
    BY <2>3, <2>4, <2>5, <2>6, RingAssumption
  <2> QED BY <2>7 DEF ResidentBound
<1>2. ASSUME NEW w \in Waves, Kernel(w) \/ Hostcall(w) PROVE ResidentBound'
  <2>1. \A v \in Waves : pc'[v] \in Resident => pc[v] \in Resident
    BY <1>2 DEF Kernel, Hostcall, Call, EndWave, TakeTicket, AwaitTurn, Marshal,
                WriteBack, Signal, AwaitDone, Invalidate, ReadResult, ClearStatus,
                RereadTurn, PassTurn, At, Goto, Resident, Holding, Owning
  <2> QED BY <2>1, ResidentFrame
<1>3. ASSUME \/ \E w \in Waves : Evict(w)
             \/ Service \/ Stop \/ Finished \/ UNCHANGED vars
      PROVE  ResidentBound'
  <2>1. pc' = pc
    BY <1>3 DEF Evict, Service, CheckRun, SkipSlot, PickSlot, ServiceSlot, Publish,
                Stop, Finished, vars, wave
  <2> QED BY <2>1, ResidentFrame
<1> QED BY <1>1, <1>2, <1>3 DEF Next

LEMMA QueueNext == RingInv /\ [Next]_vars => TicketQueue'
<1> SUFFICES ASSUME RingInv, [Next]_vars PROVE TicketQueue'
  OBVIOUS
<1> USE DEF RingInv, TypeInv, TypeOK
<1>1. ASSUME NEW w \in Waves,
             \/ Dispatch(w) \/ Kernel(w) \/ AwaitTurn(w) \/ Marshal(w)
             \/ WriteBack(w) \/ Signal(w) \/ AwaitDone(w) \/ Invalidate(w)
             \/ ReadResult(w) \/ ClearStatus(w)
      PROVE  TicketQueue'
  <2>1. turn' = turn /\ enqueue_pos' = enqueue_pos /\ pos' = pos
    BY <1>1 DEF Dispatch, Kernel, Call, EndWave, AwaitTurn, Marshal, WriteBack,
                Signal, AwaitDone, Invalidate, ReadResult, ClearStatus, mem
  <2>2. \A v \in Waves : pc'[v] \in Holding <=> pc[v] \in Holding
    BY <1>1 DEF Dispatch, Kernel, Call, EndWave, AwaitTurn, Marshal, WriteBack,
                Signal, AwaitDone, Invalidate, ReadResult, ClearStatus,
                At, Goto, Holding, Owning
  <2> QED BY <2>1, <2>2, QueueFrame
<1>2. ASSUME NEW w \in Waves, RereadTurn(w) PROVE TicketQueue'
  <2>1. turn' = turn /\ enqueue_pos' = enqueue_pos
    BY <1>2 DEF RereadTurn, mem
  <2>2. \A v \in Waves : pc'[v] \in Holding <=> pc[v] \in Holding
    BY <1>2 DEF RereadTurn, At, Goto, Holding, Owning
  <2>3. \A v \in Waves : pos'[v] = pos[v]
    BY <1>2 DEF RereadTurn, At, Owning, OwnerAtTurn
  <2> QED BY <2>1, <2>2, <2>3, QueueFrame
<1>3. ASSUME \/ \E w \in Waves : Evict(w)
             \/ Service \/ Stop \/ Finished \/ UNCHANGED vars
      PROVE  TicketQueue'
  <2>1. turn' = turn /\ enqueue_pos' = enqueue_pos /\ pos' = pos /\ pc' = pc
    BY <1>3 DEF Evict, Service, CheckRun, SkipSlot, PickSlot, ServiceSlot, Publish,
                Stop, Finished, vars, mem, wave
  <2> QED BY <2>1, QueueFrame
<1> QED BY <1>1, <1>2, <1>3, TakeTicketQueue, PassTurnQueue DEF Next, Hostcall

LEMMA RingInvariant == Spec => []RingInv
<1>1. RingInv /\ [Next]_vars => RingInv'
  BY TypeNext, QueueNext, OwnerNext, ResidentNext DEF RingInv
<1> QED BY <1>1, RingInit, PTL DEF Spec

(* The tickets of a slot's holders follow its turn without gap, doubling   *)
(* or wrap-around collision, for every number of slots and waves.          *)
THEOREM TicketsInOrder == Spec => []TicketQueue
<1>1. RingInv => TicketQueue
  BY DEF RingInv
<1> QED BY <1>1, RingInvariant, PTL

(* A slot has at most one owner at any time, also after 2^32 hostcalls, as *)
(* long as no more waves are resident than a slot has generations.         *)
THEOREM ExclusiveSlots == Spec => []SlotExclusive
<1>1. RingInv => SlotExclusive
  BY QueueExclusive DEF RingInv
<1> QED BY <1>1, RingInvariant, PTL
-----------------------------------------------------------------------------
(* Proofs about what passes through a slot of HostcallRing: the host reads *)
(* the request of the wave that waits, and the wave gets the answer to it, *)
(* whatever the scalar caches write back or give up meanwhile.             *)

(* An owner before its request and after its answer, and while it takes    *)
(* the answer.                                                             *)
Quiet  == {"marshal", "writeback", "signal", "reread", "pass"}
Taking == {"invalidate", "read", "clear"}

(* status tells how far the owner of a slot is.                            *)
StatusInv == \A w \in Waves :
    /\ pc[w] \in Quiet  => status[Cell(w)] = 0
    /\ At(w, "await")   => status[Cell(w)] \in {1, 2}
    /\ pc[w] \in Taking => status[Cell(w)] = 2

(* A slot that is not idle has an owner.                                   *)
InUseInv == \A i \in Slots :
    status[i] # 0 => \E w \in Waves : pc[w] \in Owning /\ Cell(w) = i

(* Only an owner's cache holds a line, and only one that is about to write *)
(* its request back holds a dirty one.                                     *)
LineInv == \A w \in Waves :
    line[w] # None =>
        /\ pc[w] \in {"writeback", "signal", "await", "invalidate"}
        /\ line[w].dirty => At(w, "writeback") /\ line[w].request = call[w]

(* From the write-back on, the request is in memory; before, it is there   *)
(* or in a dirty line.                                                     *)
RequestInv == \A w \in Waves :
    /\ pc[w] \in {"signal", "await"} => request[Cell(w)] = call[w]
    /\ At(w, "writeback") =>
          \/ request[Cell(w)] = call[w]
          \/ line[w] # None /\ line[w].dirty

(* The slot the host works on is one that waits, and what it is about to   *)
(* publish is the answer to the request there.                             *)
HostInv ==
    /\ svc \in {"serve", "publish"} => status[scan] = 1
    /\ svc = "publish" => reply[scan] # None /\ reply[scan].to = request[scan]

(* A published answer is the owner's until the owner has read it.          *)
ReplyInv == \A w \in Waves :
    pc[w] \in {"await", "invalidate", "read"} /\ status[Cell(w)] = 2 =>
        reply[Cell(w)] # None /\ reply[Cell(w)].to = call[w]

GotInv == \A w \in Waves :
    got[w] # None => pc[w] \in {"clear", "reread", "pass"} /\ got[w].to = call[w]

SlotInv == /\ StatusInv /\ InUseInv /\ LineInv /\ RequestInv
           /\ HostInv /\ ReplyInv /\ GotInv
AnswerInv == RingInv /\ SlotInv

-----------------------------------------------------------------------------
(* Slots and tickets.                                                      *)

(* Two owners of one slot are one wave, and a wave whose turn it is finds  *)
(* no owner there.                                                         *)
LEMMA OneOwner ==
    ASSUME RingInv, NEW v \in Waves, NEW w \in Waves,
           pc[v] \in Owning, Cell(v) = Cell(w),
           pc[w] \in Owning \/ (At(w, "turn") /\ turn[Cell(w)] = pos[w])
    PROVE  v = w
<1> USE DEF RingInv
<1>1. v \in Holders(Cell(v)) /\ w \in Holders(Cell(v)) /\ Cell(v) \in Slots
  BY CellType DEF Holders, Holding, At
<1>2. pos[v] = pos[w]
  BY DEF OwnerAtTurn
<1>3. Ahead(v) = Ahead(w)
  BY <1>2 DEF Ahead
<1> QED BY <1>1, <1>3 DEF TicketQueue

(* What a step leaves alone of a wave that owns a slot before and after.   *)
LEMMA OwnerFrame ==
    ASSUME RingInv, [Next]_vars, NEW v \in Waves,
           pc[v] \in Owning, pc'[v] \in Owning
    PROVE  Cell(v)' = Cell(v) /\ call'[v] = call[v]
<1> USE DEF RingInv, TypeInv, TypeOK, At, Goto
<1>1. ASSUME NEW w \in Waves, RereadTurn(w)
      PROVE  Cell(v)' = Cell(v) /\ call'[v] = call[v]
  BY <1>1 DEF RereadTurn, Owning, OwnerAtTurn, Cell
<1>2. ASSUME NEW w \in Waves,
             \/ Dispatch(w) \/ Kernel(w) \/ TakeTicket(w) \/ AwaitTurn(w)
             \/ Marshal(w) \/ WriteBack(w) \/ Signal(w) \/ AwaitDone(w)
             \/ Invalidate(w) \/ ReadResult(w) \/ ClearStatus(w) \/ PassTurn(w)
      PROVE  pos'[v] = pos[v] /\ call'[v] = call[v]
  BY <1>2 DEF Dispatch, Kernel, Call, EndWave, TakeTicket, AwaitTurn, Marshal, WriteBack,
              Signal, AwaitDone, Invalidate, ReadResult, ClearStatus, PassTurn, Owning
<1>3. ASSUME \/ \E w \in Waves : Evict(w)
             \/ Service \/ Stop \/ Finished \/ UNCHANGED vars
      PROVE  pos'[v] = pos[v] /\ call'[v] = call[v]
  BY <1>3 DEF Evict, Service, CheckRun, SkipSlot, PickSlot, ServiceSlot, Publish,
              Stop, Finished, vars, wave
<1> QED BY <1>1, <1>2, <1>3 DEF Next, Hostcall, Cell

(* A wave's cache writes to no slot but the wave's own.                    *)
LEMMA FlushedElsewhere ==
    ASSUME AnswerInv, NEW v \in Waves, NEW w \in Waves, v # w, pc[v] \in Owning
    PROVE  Flushed(w)[Cell(v)] = request[Cell(v)]
<1>1. CASE line[w] # None /\ line[w].dirty
  <2>1. RingInv /\ pc[w] \in Owning
    BY <1>1 DEF AnswerInv, SlotInv, LineInv, At, Owning
  <2>2. SlotExclusive
    BY <2>1, QueueExclusive DEF RingInv
  <2>3. Cell(v) # Cell(w)
    BY <2>1, <2>2 DEF SlotExclusive
  <2> QED BY <1>1, <2>1, <2>3, CellType DEF Flushed, RingInv, TypeInv, TypeOK
<1>2. CASE ~ (line[w] # None /\ line[w].dirty)
  BY <1>2 DEF Flushed
<1> QED BY <1>1, <1>2

(* The wave that waits at a slot whose status is 1, with its request.      *)
LEMMA WaitingOwner ==
    ASSUME AnswerInv, NEW i \in Slots, status[i] = 1
    PROVE  \E w \in Waves : At(w, "await") /\ Cell(w) = i /\ request[i] = call[w]
<1> USE DEF AnswerInv, SlotInv
<1>1. PICK w \in Waves : pc[w] \in Owning /\ Cell(w) = i
  BY DEF InUseInv
<1>2. At(w, "await")
  BY <1>1 DEF StatusInv, Owning, Quiet, Taking, At
<1> QED BY <1>1, <1>2 DEF RequestInv, At

-----------------------------------------------------------------------------
(* One lemma per part of the invariant.                                    *)

(* An owner stays owner until it passes the turn on.                       *)
LEMMA OwnerStays ==
    ASSUME RingInv, [Next]_vars, NEW v \in Waves, pc[v] \in Owning, ~ At(v, "pass")
    PROVE  pc'[v] \in Owning
<1> USE DEF RingInv, TypeInv, TypeOK, At, Goto, Owning
<1>1. ASSUME NEW w \in Waves, Dispatch(w) \/ Kernel(w) \/ Hostcall(w)
      PROVE  pc'[v] \in Owning
  BY <1>1 DEF Dispatch, Kernel, Call, EndWave, Hostcall, TakeTicket, AwaitTurn, Marshal,
              WriteBack, Signal, AwaitDone, Invalidate, ReadResult, ClearStatus,
              RereadTurn, PassTurn
<1>2. ASSUME \/ \E w \in Waves : Evict(w)
             \/ Service \/ Stop \/ Finished \/ UNCHANGED vars
      PROVE  pc'[v] \in Owning
  BY <1>2 DEF Evict, Service, CheckRun, SkipSlot, PickSlot, ServiceSlot, Publish,
              Stop, Finished, vars, wave
<1> QED BY <1>1, <1>2 DEF Next

(* A slot whose turn has come finds itself idle.                           *)
LEMMA IdleAtTurn ==
    ASSUME AnswerInv, NEW w \in Waves, At(w, "turn"), turn[Cell(w)] = pos[w]
    PROVE  status[Cell(w)] = 0
<1> SUFFICES ASSUME status[Cell(w)] # 0 PROVE FALSE
  OBVIOUS
<1>1. RingInv /\ Cell(w) \in Slots
  BY CellType DEF AnswerInv, RingInv
<1>2. PICK v \in Waves : pc[v] \in Owning /\ Cell(v) = Cell(w)
  BY <1>1 DEF AnswerInv, SlotInv, InUseInv
<1>3. v = w
  BY <1>1, <1>2, OneOwner
<1> QED BY <1>2, <1>3 DEF At, Owning

(* A wave that owns no slot of v's leaves its status alone.                *)
LEMMA StatusElsewhere ==
    ASSUME AnswerInv, NEW v \in Waves, NEW w \in Waves, v # w, pc[v] \in Owning,
           Signal(w) \/ ClearStatus(w)
    PROVE  status'[Cell(v)] = status[Cell(v)]
<1>1. SlotExclusive /\ RingInv
  BY QueueExclusive DEF AnswerInv, RingInv
<1>2. Cell(v) # Cell(w)
  BY <1>1 DEF SlotExclusive, Signal, ClearStatus, At, Owning
<1> QED BY <1>1, <1>2, CellType DEF Signal, ClearStatus, RingInv, TypeInv, TypeOK

(* Publish answers a wave that waits.                                      *)
LEMMA PublishTo ==
    ASSUME AnswerInv, NEW v \in Waves, pc[v] \in Owning, Publish
    PROVE  \/ status'[Cell(v)] = status[Cell(v)]
           \/ /\ At(v, "await") /\ Cell(v) = scan
              /\ status'[Cell(v)] = 2 /\ request[scan] = call[v]
<1>1. RingInv /\ Cell(v) \in Slots /\ scan \in Slots /\ status \in [Slots -> 0 .. 2]
  BY CellType DEF AnswerInv, RingInv, TypeInv, TypeOK
<1>2. CASE Cell(v) # scan
  BY <1>1, <1>2 DEF Publish
<1>3. CASE Cell(v) = scan
  <2>1. status[scan] = 1
    BY DEF Publish, AnswerInv, SlotInv, HostInv
  <2>2. PICK w \in Waves : At(w, "await") /\ Cell(w) = scan /\ request[scan] = call[w]
    BY <1>1, <2>1, WaitingOwner
  <2>3. SlotExclusive
    BY <1>1, QueueExclusive DEF RingInv
  <2>4. v = w
    BY <1>3, <2>2, <2>3 DEF SlotExclusive, At, Owning
  <2> QED BY <1>1, <1>3, <2>2, <2>4 DEF Publish
<1> QED BY <1>2, <1>3

LEMMA StatusNext == AnswerInv /\ [Next]_vars => StatusInv'
<1> DEFINE P(v) == /\ pc[v] \in Quiet  => status[Cell(v)] = 0
                   /\ At(v, "await")   => status[Cell(v)] \in {1, 2}
                   /\ pc[v] \in Taking => status[Cell(v)] = 2
<1> SUFFICES ASSUME AnswerInv, [Next]_vars, NEW v \in Waves, pc'[v] \in Owning PROVE P(v)'
  BY DEF StatusInv, Quiet, Taking, At, Owning
<1>a. RingInv /\ P(v) /\ Cell(v) \in Slots
  BY CellType DEF AnswerInv, SlotInv, StatusInv, RingInv
<1> USE DEF RingInv, TypeInv, TypeOK, At, Goto
<1>b. ASSUME pc'[v] = pc[v], pos'[v] = pos[v],
             \/ status'[Cell(v)] = status[Cell(v)]
             \/ At(v, "await") /\ status'[Cell(v)] = 2
      PROVE  P(v)'
  BY <1>a, <1>b DEF Cell, Quiet, Taking
<1> HIDE DEF P
<1>1. ASSUME NEW w \in Waves, Dispatch(w) \/ Kernel(w) \/ TakeTicket(w) PROVE P(v)'
  BY <1>1, <1>a, <1>b DEF Dispatch, Kernel, Call, EndWave, TakeTicket, Owning, mem
<1>2. ASSUME NEW w \in Waves, AwaitTurn(w) PROVE P(v)'
  <2>1. pos' = pos /\ status' = status /\ status[Cell(w)] = 0
    BY <1>2, IdleAtTurn DEF AwaitTurn, mem
  <2> QED BY <1>2, <1>a, <1>b, <2>1 DEF AwaitTurn, P, Cell, Quiet, Taking
<1>3. ASSUME NEW w \in Waves,
             \/ Marshal(w) \/ WriteBack(w) \/ AwaitDone(w) \/ Invalidate(w) \/ ReadResult(w)
      PROVE  P(v)'
  <2>1. pos' = pos /\ status' = status
    BY <1>3 DEF Marshal, WriteBack, AwaitDone, Invalidate, ReadResult, mem
  <2>2. CASE v = w
    BY <1>3, <1>a, <2>1, <2>2 DEF Marshal, WriteBack, AwaitDone, Invalidate, ReadResult,
                                  P, Cell, Quiet, Taking
  <2>3. CASE v # w
    BY <1>3, <1>a, <1>b, <2>1, <2>3 DEF Marshal, WriteBack, AwaitDone, Invalidate, ReadResult
  <2> QED BY <2>2, <2>3
<1>4. ASSUME NEW w \in Waves, Signal(w) \/ ClearStatus(w) PROVE P(v)'
  <2>1. CASE v = w
    BY <1>4, <1>a, <2>1 DEF Signal, ClearStatus, P, Cell, Quiet, Taking
  <2>2. CASE v # w
    <3>1. pc'[v] = pc[v] /\ pos'[v] = pos[v]
      BY <1>4, <1>a, <2>2 DEF Signal, ClearStatus
    <3> QED BY <1>4, <1>b, <2>2, <3>1, StatusElsewhere
  <2> QED BY <2>1, <2>2
<1>5. ASSUME NEW w \in Waves, RereadTurn(w) PROVE P(v)'
  <2>1. status' = status /\ pos'[v] = pos[v]
    BY <1>5, <1>a DEF RereadTurn, OwnerAtTurn, Owning, mem
  <2> QED BY <1>5, <1>a, <1>b, <2>1 DEF RereadTurn, P, Cell, Quiet, Taking
<1>6. ASSUME NEW w \in Waves, PassTurn(w) PROVE P(v)'
  BY <1>6, <1>a, <1>b DEF PassTurn, Owning
<1>7. ASSUME Publish PROVE P(v)'
  <2>1. pc' = pc /\ pos' = pos
    BY <1>7 DEF Publish, wave
  <2> QED BY <1>7, <1>b, <2>1, PublishTo
<1>8. ASSUME \/ \E w \in Waves : Evict(w)
             \/ CheckRun \/ SkipSlot \/ PickSlot \/ ServiceSlot
             \/ Stop \/ Finished \/ UNCHANGED vars
      PROVE  P(v)'
  BY <1>8, <1>b DEF Evict, CheckRun, SkipSlot, PickSlot, ServiceSlot,
                    Stop, Finished, vars, wave, mem
<1> QED BY <1>1, <1>2, <1>3, <1>4, <1>5, <1>6, <1>7, <1>8 DEF Next, Hostcall, Service

LEMMA InUseNext == AnswerInv /\ [Next]_vars => InUseInv'
<1> SUFFICES ASSUME AnswerInv, [Next]_vars, NEW i \in Slots, status'[i] # 0
             PROVE  \E w \in Waves : pc'[w] \in Owning /\ Cell(w)' = i
  BY DEF InUseInv
<1>a. RingInv
  BY DEF AnswerInv
<1>1. CASE status[i] # 0
  <2>1. PICK w \in Waves : pc[w] \in Owning /\ Cell(w) = i
    BY <1>1 DEF AnswerInv, SlotInv, InUseInv
  <2>2. ~ At(w, "pass")
    BY <1>1, <2>1 DEF AnswerInv, SlotInv, StatusInv, Quiet, At
  <2>3. pc'[w] \in Owning
    BY <1>a, <2>1, <2>2, OwnerStays
  <2> QED BY <1>a, <2>1, <2>3, OwnerFrame
<1>2. CASE status[i] = 0
  <2>1. status' # status
    BY <1>2
  <2>2. (\E w \in Waves : Signal(w) \/ ClearStatus(w)) \/ Publish
    BY <2>1 DEF Next, Dispatch, Kernel, Call, EndWave, Hostcall, TakeTicket, AwaitTurn,
                Marshal, WriteBack, AwaitDone, Invalidate, ReadResult, RereadTurn, PassTurn,
                Evict, Service, CheckRun, SkipSlot, PickSlot, ServiceSlot,
                Stop, Finished, vars, mem
  <2>3. ~ Publish
    BY <1>2, <1>a DEF Publish, AnswerInv, SlotInv, HostInv, RingInv, TypeInv, TypeOK
  <2>4. PICK w \in Waves : Signal(w) \/ ClearStatus(w)
    BY <2>2, <2>3
  <2>5. Signal(w) /\ Cell(w) = i
    BY <1>2, <1>a, <2>4 DEF Signal, ClearStatus, RingInv, TypeInv, TypeOK
  <2>6. pc'[w] \in Owning /\ Cell(w)' = Cell(w)
    BY <1>a, <2>5 DEF Signal, Goto, Owning, Cell, RingInv, TypeInv, TypeOK
  <2> QED BY <2>5, <2>6
<1> QED BY <1>1, <1>2

(* What a wave's steps do to another wave's cache, locals and place.       *)
LEMMA OthersFrame ==
    ASSUME TypeInv, NEW v \in Waves, NEW w \in Waves, v # w,
           Dispatch(w) \/ Kernel(w) \/ Hostcall(w) \/ Evict(w)
    PROVE  /\ pc'[v] = pc[v] /\ pos'[v] = pos[v] /\ call'[v] = call[v]
           /\ line'[v] = line[v] /\ got'[v] = got[v]
BY DEF TypeInv, TypeOK, Goto, Dispatch, Kernel, Call, EndWave, Hostcall, TakeTicket,
       AwaitTurn, Marshal, WriteBack, Signal, AwaitDone, Invalidate, ReadResult,
       ClearStatus, RereadTurn, PassTurn, Evict, wave

(* The host touches no wave.                                               *)
LEMMA HostFrame ==
    ASSUME Service \/ Stop \/ Finished \/ UNCHANGED vars
    PROVE  pc' = pc /\ pos' = pos /\ call' = call /\ line' = line /\ got' = got
BY DEF Service, CheckRun, SkipSlot, PickSlot, ServiceSlot, Publish, Stop, Finished,
       vars, wave

LEMMA LineNext == AnswerInv /\ [Next]_vars => LineInv'
<1> DEFINE P(v) == line[v] # None =>
                      /\ pc[v] \in {"writeback", "signal", "await", "invalidate"}
                      /\ line[v].dirty => At(v, "writeback") /\ line[v].request = call[v]
<1> SUFFICES ASSUME AnswerInv, [Next]_vars, NEW v \in Waves PROVE P(v)'
  BY DEF LineInv
<1>a. TypeInv /\ P(v)
  BY DEF AnswerInv, SlotInv, LineInv, RingInv
<1>1. ASSUME NEW w \in Waves, v # w, Dispatch(w) \/ Kernel(w) \/ Hostcall(w) \/ Evict(w)
      PROVE  P(v)'
  BY <1>1, <1>a, OthersFrame DEF At
<1>2. ASSUME Service \/ Stop \/ Finished \/ UNCHANGED vars PROVE P(v)'
  BY <1>2, <1>a, HostFrame DEF At
<1> USE DEF TypeInv, TypeOK, At, Goto
<1>3. ASSUME \/ Dispatch(v) \/ Kernel(v) \/ TakeTicket(v) \/ AwaitTurn(v)
             \/ ReadResult(v) \/ ClearStatus(v) \/ RereadTurn(v) \/ PassTurn(v)
      PROVE  P(v)'
  BY <1>3, <1>a DEF Dispatch, Kernel, Call, EndWave, TakeTicket, AwaitTurn,
                    ReadResult, ClearStatus, RereadTurn, PassTurn
<1>4. ASSUME Marshal(v) PROVE P(v)'
  BY <1>4, <1>a DEF Marshal
<1>5. ASSUME WriteBack(v) PROVE P(v)'
  <2>1. line[v] # None => line'[v].dirty = FALSE
    BY <1>5, <1>a DEF WriteBack, Lines
  <2> QED BY <1>5, <1>a, <2>1 DEF WriteBack
<1>6. ASSUME Signal(v) \/ AwaitDone(v) PROVE P(v)'
  BY <1>6, <1>a DEF Signal, AwaitDone
<1>7. ASSUME Invalidate(v) \/ Evict(v) PROVE P(v)'
  BY <1>7, <1>a DEF Invalidate, Evict
<1> QED BY <1>1, <1>2, <1>3, <1>4, <1>5, <1>6, <1>7 DEF Next, Hostcall

(* The request of an owner that has none in a dirty line stays in memory.  *)
LEMMA RequestStays ==
    ASSUME AnswerInv, [Next]_vars, NEW v \in Waves, pc[v] \in Owning,
           ~ (line[v] # None /\ line[v].dirty)
    PROVE  request'[Cell(v)] = request[Cell(v)]
<1>1. ASSUME NEW w \in Waves, WriteBack(w) \/ Evict(w)
      PROVE  request'[Cell(v)] = request[Cell(v)]
  <2>1. request' = Flushed(w)
    BY <1>1 DEF WriteBack, Evict
  <2>2. Flushed(v) = request
    BY DEF Flushed
  <2> QED BY <2>1, <2>2, FlushedElsewhere
<1>2. CASE request' = request
  BY <1>2
<1>3. \/ request' = request
      \/ \E w \in Waves : WriteBack(w) \/ Evict(w)
  BY DEF Next, Dispatch, Kernel, Call, EndWave, Hostcall, TakeTicket, AwaitTurn,
         Marshal, Signal, AwaitDone, Invalidate, ReadResult, ClearStatus, RereadTurn,
         PassTurn, Service, CheckRun, SkipSlot, PickSlot, ServiceSlot, Publish,
         Stop, Finished, vars, mem
<1> QED BY <1>1, <1>2, <1>3

(* A write-back or an eviction leaves an owner's request in memory.        *)
LEMMA FlushedOwn ==
    ASSUME AnswerInv, NEW v \in Waves, At(v, "writeback")
    PROVE  Flushed(v)[Cell(v)] = call[v]
<1>1. /\ request \in [Slots -> Requests \union {None}] /\ Cell(v) \in Slots
      /\ request[Cell(v)] = call[v] \/ (line[v] # None /\ line[v].dirty)
      /\ line[v] # None /\ line[v].dirty => line[v].request = call[v]
  BY CellType DEF AnswerInv, SlotInv, RequestInv, LineInv, RingInv, TypeInv, TypeOK
<1> QED BY <1>1 DEF Flushed

LEMMA RequestNext == AnswerInv /\ [Next]_vars => RequestInv'
<1> DEFINE P(v) == /\ pc[v] \in {"signal", "await"} => request[Cell(v)] = call[v]
                   /\ At(v, "writeback") => \/ request[Cell(v)] = call[v]
                                            \/ line[v] # None /\ line[v].dirty
<1> SUFFICES ASSUME AnswerInv, [Next]_vars, NEW v \in Waves,
                    pc'[v] \in {"writeback", "signal", "await"}
             PROVE  P(v)'
  BY DEF RequestInv, At
<1>a. /\ RingInv /\ TypeInv /\ P(v)
      /\ line[v] # None /\ line[v].dirty => At(v, "writeback")
  BY DEF AnswerInv, SlotInv, RequestInv, LineInv, RingInv
<1>b. ASSUME pc'[v] = pc[v], pos'[v] = pos[v], call'[v] = call[v], line'[v] = line[v]
      PROVE  P(v)'
  <2>1. pc[v] \in Owning
    BY <1>b DEF Owning
  <2>2. CASE line[v] # None /\ line[v].dirty
    BY <1>a, <1>b, <2>2 DEF At
  <2>3. CASE ~ (line[v] # None /\ line[v].dirty)
    <3>1. request'[Cell(v)] = request[Cell(v)]
      BY <2>1, <2>3, RequestStays
    <3> QED BY <1>a, <1>b, <2>3, <3>1 DEF At, Cell
  <2> QED BY <2>2, <2>3
<1>1. ASSUME NEW w \in Waves, v # w, Dispatch(w) \/ Kernel(w) \/ Hostcall(w) \/ Evict(w)
      PROVE  P(v)'
  <2>1. pc'[v] = pc[v] /\ pos'[v] = pos[v] /\ call'[v] = call[v] /\ line'[v] = line[v]
    BY <1>1, <1>a, OthersFrame
  <2> QED BY <1>b, <2>1
<1>2. ASSUME Service \/ Stop \/ Finished \/ UNCHANGED vars PROVE P(v)'
  BY <1>2, <1>b, HostFrame
<1> USE DEF TypeInv, TypeOK, At, Goto
<1>3. ASSUME \/ Dispatch(v) \/ Kernel(v) \/ TakeTicket(v) \/ AwaitTurn(v) \/ AwaitDone(v)
             \/ Invalidate(v) \/ ReadResult(v) \/ ClearStatus(v) \/ RereadTurn(v) \/ PassTurn(v)
      PROVE  P(v)'
  BY <1>3, <1>a DEF Dispatch, Kernel, Call, EndWave, TakeTicket, AwaitTurn, AwaitDone,
                    Invalidate, ReadResult, ClearStatus, RereadTurn, PassTurn
<1>4. ASSUME Marshal(v) PROVE P(v)'
  <2>1. line'[v] = [dirty |-> TRUE, request |-> call[v], reply |-> reply[Cell(v)]]
    BY <1>4, <1>a DEF Marshal
  <2>2. call[v] \in Requests /\ reply[Cell(v)] \in Reply \union {None}
    BY <1>4, <1>a, CellType DEF Marshal, CallMade, Asking, Holding, Owning
  <2>3. line'[v] \in Lines /\ line'[v].dirty
    BY <2>1, <2>2 DEF Lines
  <2> QED BY <1>4, <1>a, <2>3, NoneAssumption DEF Marshal
<1>5. ASSUME WriteBack(v) PROVE P(v)'
  BY <1>5, <1>a, FlushedOwn DEF WriteBack, Cell
<1>6. ASSUME Signal(v) PROVE P(v)'
  BY <1>6, <1>a DEF Signal, Cell
<1>7. ASSUME Evict(v) PROVE P(v)'
  <2>1. pc' = pc /\ pos' = pos /\ call' = call /\ request' = Flushed(v)
    BY <1>7 DEF Evict, wave
  <2>2. CASE At(v, "writeback")
    BY <2>1, <2>2, FlushedOwn DEF Cell
  <2>3. CASE ~ At(v, "writeback")
    <3>1. Flushed(v) = request
      BY <1>a, <2>3 DEF Flushed
    <3> QED BY <1>a, <2>1, <2>3, <3>1 DEF Cell
  <2> QED BY <2>2, <2>3
<1> QED BY <1>1, <1>2, <1>3, <1>4, <1>5, <1>6, <1>7 DEF Next, Hostcall

LEMMA HostNext == AnswerInv /\ [Next]_vars => HostInv'
<1> SUFFICES ASSUME AnswerInv, [Next]_vars PROVE HostInv'
  OBVIOUS
<1>a. /\ RingInv /\ HostInv /\ LineInv
      /\ status \in [Slots -> 0 .. 2] /\ reply \in [Slots -> Reply \union {None}]
      /\ scan \in Slots
      /\ request \in [Slots -> Requests \union {None}]
  BY DEF AnswerInv, SlotInv, RingInv, TypeInv, TypeOK
<1>b. ASSUME svc' = svc, scan' = scan, reply' = reply,
             svc \in {"serve", "publish"} =>
                 status'[scan] = 1 /\ request'[scan] = request[scan]
      PROVE  HostInv'
  BY <1>a, <1>b DEF HostInv
<1>1. ASSUME NEW w \in Waves, Dispatch(w) \/ Kernel(w) \/ Hostcall(w) \/ Evict(w)
      PROVE  HostInv'
  <2>1. svc' = svc /\ scan' = scan /\ reply' = reply
    BY <1>1 DEF Dispatch, Kernel, Call, EndWave, Hostcall, TakeTicket, AwaitTurn, Marshal,
                WriteBack, Signal, AwaitDone, Invalidate, ReadResult, ClearStatus,
                RereadTurn, PassTurn, Evict, mem, host
  <2>2. ASSUME svc \in {"serve", "publish"}
        PROVE  status'[scan] = 1 /\ request'[scan] = request[scan]
    <3>1. status[scan] = 1
      BY <1>a, <2>2 DEF HostInv
    <3>2. PICK v \in Waves : At(v, "await") /\ Cell(v) = scan
      BY <1>a, <3>1, WaitingOwner
    <3>3. pc[v] \in Owning /\ ~ (line[v] # None /\ line[v].dirty)
      BY <1>a, <3>2 DEF LineInv, At, Owning
    <3>4. request'[scan] = request[scan]
      BY <3>2, <3>3, RequestStays
    <3>5. CASE Signal(w)
      BY <1>a, <3>1, <3>5 DEF Signal
    <3>6. CASE ClearStatus(w)
      <4>1. v # w
        BY <3>2, <3>6 DEF ClearStatus, At
      <4> QED BY <3>1, <3>2, <3>3, <3>4, <3>6, <4>1, StatusElsewhere
    <3>7. CASE ~ Signal(w) /\ ~ ClearStatus(w)
      <4>1. status' = status
        BY <1>1, <3>7 DEF Dispatch, Kernel, Call, EndWave, Hostcall, TakeTicket, AwaitTurn,
                          Marshal, WriteBack, AwaitDone, Invalidate, ReadResult,
                          RereadTurn, PassTurn, Evict, mem
      <4> QED BY <3>1, <3>4, <4>1
    <3> QED BY <3>4, <3>5, <3>6, <3>7
  <2> QED BY <1>b, <2>1, <2>2
<1>2. ASSUME CheckRun \/ SkipSlot \/ Publish PROVE HostInv'
  <2>1. svc' \notin {"serve", "publish"}
    BY <1>2 DEF CheckRun, SkipSlot, Publish, NextSlot
  <2> QED BY <2>1 DEF HostInv
<1>3. ASSUME PickSlot PROVE HostInv'
  BY <1>3 DEF PickSlot, HostInv, mem
<1>4. ASSUME ServiceSlot PROVE HostInv'
  <2>1. PICK v \in Results :
            reply' = [reply EXCEPT ![scan] = [to |-> request[scan], val |-> v]]
    BY <1>4 DEF ServiceSlot
  <2>2. reply'[scan] \in Reply /\ reply'[scan].to = request[scan]
    BY <1>a, <2>1 DEF Reply
  <2> QED BY <1>4, <1>a, <2>2, NoneAssumption DEF ServiceSlot, HostInv
<1>5. ASSUME Stop \/ Finished \/ UNCHANGED vars PROVE HostInv'
  BY <1>5, <1>a DEF Stop, Finished, vars, mem, host, HostInv
<1> QED BY <1>1, <1>2, <1>3, <1>4, <1>5 DEF Next, Service

LEMMA ReplyNext == AnswerInv /\ [Next]_vars => ReplyInv'
<1> DEFINE Has(v) == reply[Cell(v)] # None /\ reply[Cell(v)].to = call[v]
<1> SUFFICES ASSUME AnswerInv, [Next]_vars, NEW v \in Waves,
                    pc'[v] \in {"await", "invalidate", "read"}, status'[Cell(v)'] = 2
             PROVE  Has(v)'
  BY DEF ReplyInv
<1>a. /\ RingInv /\ TypeInv /\ Cell(v) \in Slots
      /\ pc[v] \in {"await", "invalidate", "read"} /\ status[Cell(v)] = 2 => Has(v)
  BY CellType DEF AnswerInv, SlotInv, ReplyInv, RingInv
<1> HIDE DEF Has
<1>b. ASSUME pc[v] \in {"await", "invalidate", "read"}, status[Cell(v)] = 2,
             pos'[v] = pos[v], call'[v] = call[v], reply'[Cell(v)] = reply[Cell(v)]
      PROVE  Has(v)'
  BY <1>a, <1>b DEF Has, Cell
<1>1. ASSUME NEW w \in Waves, v # w, Dispatch(w) \/ Kernel(w) \/ Hostcall(w) \/ Evict(w)
      PROVE  Has(v)'
  <2>1. /\ pc'[v] = pc[v] /\ pos'[v] = pos[v] /\ call'[v] = call[v]
        /\ Cell(v)' = Cell(v) /\ pc[v] \in Owning
    BY <1>1, <1>a, OthersFrame DEF Cell, Owning
  <2>2. reply' = reply
    BY <1>1 DEF Dispatch, Kernel, Call, EndWave, Hostcall, TakeTicket, AwaitTurn, Marshal,
                WriteBack, Signal, AwaitDone, Invalidate, ReadResult, ClearStatus,
                RereadTurn, PassTurn, Evict, mem
  <2>3. status'[Cell(v)] = status[Cell(v)]
    <3>1. CASE Signal(w) \/ ClearStatus(w)
      BY <1>1, <2>1, <3>1, StatusElsewhere
    <3>2. CASE ~ (Signal(w) \/ ClearStatus(w))
      BY <1>1, <3>2 DEF Dispatch, Kernel, Call, EndWave, Hostcall, TakeTicket, AwaitTurn,
                        Marshal, WriteBack, AwaitDone, Invalidate, ReadResult,
                        RereadTurn, PassTurn, Evict, mem
    <3> QED BY <3>1, <3>2
  <2> QED BY <1>b, <2>1, <2>2, <2>3
<1>2. ASSUME ServiceSlot PROVE Has(v)'
  <2>1. pc' = pc /\ pos' = pos /\ call' = call /\ status' = status
    BY <1>2 DEF ServiceSlot, wave
  <2>2. Cell(v) # scan
    BY <1>2, <2>1 DEF AnswerInv, SlotInv, HostInv, ServiceSlot, Cell
  <2>3. reply'[Cell(v)] = reply[Cell(v)]
    BY <1>2, <1>a, <2>2 DEF ServiceSlot, TypeInv, TypeOK
  <2> QED BY <1>b, <2>1, <2>3 DEF Cell
<1>3. ASSUME Publish PROVE Has(v)'
  <2>1. pc' = pc /\ pos' = pos /\ call' = call /\ reply' = reply /\ Cell(v)' = Cell(v)
    BY <1>3 DEF Publish, wave, Cell
  <2>2. CASE status'[Cell(v)] = status[Cell(v)]
    BY <1>b, <2>1, <2>2
  <2>3. CASE Cell(v) = scan /\ request[scan] = call[v]
    <3>1. reply[scan] # None /\ reply[scan].to = request[scan]
      BY <1>3 DEF AnswerInv, SlotInv, HostInv, Publish
    <3> QED BY <2>1, <2>3, <3>1 DEF Has
  <2>4. pc[v] \in Owning
    BY <2>1 DEF Owning
  <2> QED BY <1>3, <2>2, <2>3, <2>4, PublishTo
<1>4. ASSUME \/ CheckRun \/ SkipSlot \/ PickSlot \/ Evict(v)
             \/ Stop \/ Finished \/ UNCHANGED vars
      PROVE  Has(v)'
  <2>1. pc' = pc /\ pos' = pos /\ call' = call /\ reply' = reply /\ status' = status
    BY <1>4 DEF CheckRun, SkipSlot, PickSlot, Evict, Stop, Finished, vars, mem, wave
  <2> QED BY <1>b, <2>1 DEF Cell
<1> USE DEF TypeInv, TypeOK, At, Goto
<1>5. ASSUME AwaitDone(v) \/ Invalidate(v) PROVE Has(v)'
  <2>1. /\ pos' = pos /\ call' = call /\ reply' = reply /\ status' = status
        /\ pc[v] \in {"await", "invalidate"}
    BY <1>5 DEF AwaitDone, Invalidate, mem
  <2> QED BY <1>b, <2>1 DEF Cell
<1>6. ASSUME Signal(v) PROVE Has(v)'
  <2>1. status'[Cell(v)'] = 1
    BY <1>6, <1>a DEF Signal, Cell
  <2> QED BY <2>1
<1>7. ASSUME \/ Dispatch(v) \/ Kernel(v) \/ TakeTicket(v) \/ AwaitTurn(v) \/ Marshal(v)
             \/ WriteBack(v) \/ ReadResult(v) \/ ClearStatus(v) \/ RereadTurn(v) \/ PassTurn(v)
      PROVE  FALSE
  BY <1>7, <1>a DEF Dispatch, Kernel, Call, EndWave, TakeTicket, AwaitTurn, Marshal,
                    WriteBack, ReadResult, ClearStatus, RereadTurn, PassTurn
<1> QED BY <1>1, <1>2, <1>3, <1>4, <1>5, <1>6, <1>7 DEF Next, Hostcall, Service

LEMMA GotNext == AnswerInv /\ [Next]_vars => GotInv'
<1> DEFINE P(v) == got[v] # None => /\ pc[v] \in {"clear", "reread", "pass"}
                                    /\ got[v].to = call[v]
<1> SUFFICES ASSUME AnswerInv, [Next]_vars, NEW v \in Waves PROVE P(v)'
  BY DEF GotInv
<1>a. TypeInv /\ P(v)
  BY DEF AnswerInv, SlotInv, GotInv, RingInv
<1>1. ASSUME NEW w \in Waves, v # w, Dispatch(w) \/ Kernel(w) \/ Hostcall(w) \/ Evict(w)
      PROVE  P(v)'
  BY <1>1, <1>a, OthersFrame
<1>2. ASSUME Service \/ Stop \/ Finished \/ UNCHANGED vars PROVE P(v)'
  BY <1>2, <1>a, HostFrame
<1> USE DEF TypeInv, TypeOK, At, Goto
<1>3. ASSUME \/ Dispatch(v) \/ Kernel(v) \/ TakeTicket(v) \/ AwaitTurn(v) \/ Marshal(v)
             \/ WriteBack(v) \/ Signal(v) \/ AwaitDone(v) \/ Invalidate(v)
             \/ ClearStatus(v) \/ RereadTurn(v) \/ PassTurn(v) \/ Evict(v)
      PROVE  P(v)'
  BY <1>3, <1>a DEF Dispatch, Kernel, Call, EndWave, TakeTicket, AwaitTurn, Marshal,
                    WriteBack, Signal, AwaitDone, Invalidate, ClearStatus, RereadTurn,
                    PassTurn, Evict, wave
<1>4. ASSUME ReadResult(v) PROVE P(v)'
  <2>1. line[v] = None /\ status[Cell(v)] = 2
    BY <1>4 DEF ReadResult, AnswerInv, SlotInv, LineInv, StatusInv, Taking
  <2>2. reply[Cell(v)].to = call[v]
    BY <1>4, <2>1 DEF ReadResult, AnswerInv, SlotInv, ReplyInv
  <2> QED BY <1>4, <1>a, <2>1, <2>2 DEF ReadResult
<1> QED BY <1>1, <1>2, <1>3, <1>4 DEF Next, Hostcall

LEMMA AnswerInit == Init => AnswerInv
<1> SUFFICES ASSUME Init PROVE SlotInv
  BY RingInit DEF AnswerInv
<1>1. \A w \in Waves : pc[w] = "queued" /\ line[w] = None /\ got[w] = None
  BY DEF Init
<1>2. svc = "check" /\ \A i \in Slots : status[i] = 0
  BY DEF Init
<1> QED BY <1>1, <1>2 DEF SlotInv, StatusInv, InUseInv, LineInv, RequestInv, HostInv,
                          ReplyInv, GotInv, Quiet, Taking, At

LEMMA AnswerInvariant == Spec => []AnswerInv
<1>1. RingInv /\ [Next]_vars => RingInv'
  BY TypeNext, QueueNext, OwnerNext, ResidentNext DEF RingInv
<1>2. AnswerInv /\ [Next]_vars => AnswerInv'
  BY <1>1, StatusNext, InUseNext, LineNext, RequestNext, HostNext, ReplyNext, GotNext
     DEF AnswerInv, SlotInv
<1> QED BY <1>2, AnswerInit, PTL DEF Spec

-----------------------------------------------------------------------------
(* Between picking a slot and publishing its answer the host works on the  *)
(* whole request of a wave that waits for it, for every grid and ring      *)
(* size and whatever the scalar caches write back and when.                *)
THEOREM OwnersRequest == Spec => []HostReadsOwnersRequest
<1>1. AnswerInv => HostReadsOwnersRequest
  <2> SUFFICES ASSUME AnswerInv, svc \in {"serve", "publish"}
               PROVE  \E w \in Waves : /\ At(w, "await") /\ Cell(w) = scan
                                       /\ status[scan] = 1 /\ request[scan] = call[w]
    BY DEF HostReadsOwnersRequest
  <2>1. status[scan] = 1 /\ scan \in Slots
    BY DEF AnswerInv, SlotInv, HostInv, RingInv, TypeInv, TypeOK
  <2> QED BY <2>1, WaitingOwner
<1> QED BY <1>1, AnswerInvariant, PTL

(* A hostcall never returns the answer to another wave's or to an earlier  *)
(* request: the write-back, the invalidation and the ticket order suffice. *)
THEOREM OwnAnswer == Spec => []AnswersOwnCall
<1>1. AnswerInv => AnswersOwnCall
  BY DEF AnswerInv, SlotInv, GotInv, AnswersOwnCall
<1> QED BY <1>1, AnswerInvariant, PTL

(* A slot changes hands only when it is idle and the host is done with it. *)
THEOREM Handover == Spec => HandoverWhenIdle
<1> DEFINE Calm == \A i \in Slots :
                      turn'[i] # turn[i] => /\ status[i] = 0
                                            /\ ~ (svc \in {"serve", "publish"} /\ scan = i)
<1>1. AnswerInv /\ [Next]_vars => [Calm]_vars
  <2> SUFFICES ASSUME AnswerInv, [Next]_vars, NEW i \in Slots, turn'[i] # turn[i]
               PROVE  status[i] = 0 /\ ~ (svc \in {"serve", "publish"} /\ scan = i)
    OBVIOUS
  <2>1. PICK w \in Waves : PassTurn(w)
    BY DEF Next, Dispatch, Kernel, Call, EndWave, Hostcall, TakeTicket, AwaitTurn, Marshal,
           WriteBack, Signal, AwaitDone, Invalidate, ReadResult, ClearStatus, RereadTurn,
           Evict, Service, CheckRun, SkipSlot, PickSlot, ServiceSlot, Publish,
           Stop, Finished, vars, mem
  <2>2. Cell(w) = i /\ At(w, "pass")
    BY <2>1 DEF PassTurn, AnswerInv, RingInv, TypeInv, TypeOK
  <2>3. status[i] = 0
    BY <2>2 DEF AnswerInv, SlotInv, StatusInv, Quiet, At
  <2> QED BY <2>3 DEF AnswerInv, SlotInv, HostInv
<1> QED BY <1>1, AnswerInvariant, PTL DEF Spec, HandoverWhenIdle

(* Between hostcalls the ring is as good as new: idle slots whose turns    *)
(* are at the tickets that will be handed out next.                        *)
THEOREM Restored == Spec => []RingRestored
<1>1. AnswerInv => RingRestored
  <2> SUFFICES ASSUME AnswerInv, \A w \in Waves : pc[w] \notin Holding, NEW i \in Slots
               PROVE  status[i] = 0 /\ SlotOf(turn[i]) = i /\ Gen(turn[i]) = NextGen(i)
    BY DEF RingRestored
  <2>1. status[i] = 0
    BY DEF AnswerInv, SlotInv, InUseInv, Holding
  <2>2. Holders(i) = {}
    BY DEF Holders
  <2>3. SlotOf(turn[i]) = i /\ NextGen(i) = GenAdd(Gen(turn[i]), 0)
    BY <2>2, FS_EmptySet DEF AnswerInv, RingInv, TicketQueue
  <2>4. Gen(turn[i]) \in 0 .. Gens - 1
    BY QueueTypes DEF AnswerInv, RingInv
  <2> QED BY <2>1, <2>3, <2>4, RingAssumption DEF GenAdd
<1> QED BY <1>1, AnswerInvariant, PTL

(* Wherever the service thread stops, a waiting wave's slot holds the      *)
(* wave's whole request or the whole answer to it.                         *)
THEOREM CleanStop == Spec => []StopLeavesNoHalfAnswer
<1>1. AnswerInv => StopLeavesNoHalfAnswer
  BY DEF AnswerInv, SlotInv, StatusInv, RequestInv, ReplyInv, StopLeavesNoHalfAnswer, At
<1> QED BY <1>1, AnswerInvariant, PTL

-----------------------------------------------------------------------------
(***************************************************************************)
(* The ring implements the safety part of HostcallSpec, for every grid and *)
(* ring size: each step of a wave or of the host asks, answers, collects,  *)
(* returns or closes in the promised service, or is invisible there.       *)
(***************************************************************************)
Outside == {"queued", "running", "ended"}
Done    == {"clear", "reread", "pass"}
Waiting == {"ticket", "turn", "marshal", "writeback", "signal"}

(* Between its hostcalls a wave has no request.                            *)
IdleInv == \A w \in Waves : pc[w] \in Outside => call[w] = None

PromiseInv == AnswerInv /\ IdleInv

LEMMA IdleNext == TypeInv /\ IdleInv /\ [Next]_vars => IdleInv'
<1> SUFFICES ASSUME TypeInv, IdleInv, [Next]_vars, NEW v \in Waves, pc'[v] \in Outside
             PROVE  call'[v] = None
  BY DEF IdleInv
<1> USE DEF TypeInv, TypeOK, At, Goto, Outside, IdleInv
<1>1. ASSUME NEW w \in Waves, Dispatch(w) \/ Kernel(w) \/ Hostcall(w)
      PROVE  call'[v] = None
  BY <1>1 DEF Dispatch, Kernel, Call, EndWave, Hostcall, TakeTicket, AwaitTurn, Marshal,
              WriteBack, Signal, AwaitDone, Invalidate, ReadResult, ClearStatus,
              RereadTurn, PassTurn
<1>2. ASSUME \E w \in Waves : Evict(w)
      PROVE  call'[v] = None
  BY <1>2 DEF Evict, wave
<1>3. ASSUME Service \/ Stop \/ Finished \/ UNCHANGED vars
      PROVE  call'[v] = None
  BY <1>3, HostFrame
<1> QED BY <1>1, <1>2, <1>3 DEF Next

LEMMA PromiseInvariant == Spec => []PromiseInv
<1>1. Init => IdleInv
  BY DEF Init, IdleInv
<1>2. AnswerInv => TypeInv
  BY DEF AnswerInv, RingInv
<1> QED BY <1>1, <1>2, IdleNext, AnswerInvariant, PTL DEF Spec, PromiseInv

-----------------------------------------------------------------------------
(* The abstract operation of a wave.                                       *)

(* The answer in a waiting wave's slot, or about to be published there.    *)
Ready(w) == status[Cell(w)] = 2 \/ (svc = "publish" /\ scan = Cell(w))

LEMMA OpFunction ==
    ASSUME NEW w \in Waves
    PROVE  /\ op[w] = Operation(w, Phase(w))
           /\ op'[w] = Operation(w, Phase(w))'
BY DEF op

LEMMA OpChanges ==
    ASSUME NEW w \in Waves, \A v \in Waves \ {w} : op'[v] = op[v]
    PROVE  op' = [op EXCEPT ![w] = op'[w]]
BY DEF op

(* Two fields of a wave's operation change.                                *)
LEMMA OpFields ==
    ASSUME NEW w \in Waves, NEW p, NEW x, \A v \in Waves \ {w} : op'[v] = op[v],
           op[w] = [phase |-> op[w].phase, request |-> op[w].request, reply |-> op[w].reply],
           op'[w] = [phase |-> p, request |-> op[w].request, reply |-> x]
    PROVE  op' = [op EXCEPT ![w].phase = p, ![w].reply = x]
<1> DEFINE new == [op EXCEPT ![w].phase = p, ![w].reply = x]
<1>1. op = [v \in Waves |-> op[v]] /\ op' = [v \in Waves |-> op'[v]]
  BY DEF op
<1>2. new = [v \in Waves |-> new[v]]
  BY <1>1
<1>3. new[w] = [op[w] EXCEPT !.phase = p, !.reply = x]
  BY <1>1
<1>4. new[w] = op'[w]
  BY <1>3
<1>5. \A v \in Waves \ {w} : new[v] = op[v]
  BY <1>1
<1> HIDE DEF new
<1>6. \A v \in Waves : new[v] = op'[v]
  BY <1>4, <1>5
<1>7. new = op'
  BY <1>1, <1>2, <1>6
<1> QED BY <1>7 DEF new

LEMMA OpStays ==
    ASSUME \A v \in Waves : op'[v] = op[v]
    PROVE  op' = op
BY DEF op

(* A wave's operation stays when its place and locals do, and neither its  *)
(* answer nor the host's progress towards it changes.                      *)
LEMMA SameOp ==
    ASSUME NEW w \in Waves,
           pc'[w] = pc[w], pos'[w] = pos[w], call'[w] = call[w], got'[w] = got[w],
           At(w, "await") => Ready(w)' = Ready(w),
           Answered(w) => reply'[Cell(w)] = reply[Cell(w)]
    PROVE  op'[w] = op[w]
<1>1. Cell(w)' = Cell(w)
  BY DEF Cell
<1>2. Answered(w)' = Answered(w)
  BY <1>1 DEF Answered, Ready, At
<1>3. Phase(w)' = Phase(w)
  BY <1>2 DEF Phase
<1>4. Operation(w, Phase(w))' = Operation(w, Phase(w))
  <2>1. Phase(w) = "answered" => Answered(w)
    BY DEF Phase
  <2> QED BY <1>1, <1>3, <2>1 DEF Operation
<1> QED BY <1>4, OpFunction

(* What the operation is at each place of the wave.                        *)
OpTable == \A w \in Waves :
    /\ pc[w] \in Outside =>
          op[w] = [phase |-> "idle", request |-> call[w], reply |-> None]
    /\ pc[w] \in Done =>
          op[w] = [phase |-> "collected", request |-> call[w], reply |-> got[w]]
    /\ Answered(w) =>
          op[w] = [phase |-> "answered", request |-> call[w], reply |-> reply[Cell(w)]]
    /\ pc[w] \in Waiting \/ (At(w, "await") /\ ~ Ready(w)) =>
          op[w] = [phase |-> "asked", request |-> call[w], reply |-> None]

LEMMA OpNow == OpTable
<1> SUFFICES ASSUME NEW w \in Waves
             PROVE  op[w] = Operation(w, Phase(w)) => OpTable!(w)
  BY OpFunction DEF OpTable
<1> QED BY DEF OpTable, Operation, Phase, Answered, Ready, At, Outside, Done, Waiting

LEMMA OpThen == OpTable'
BY OpNow, PTL

-----------------------------------------------------------------------------
(* The step of the promised service each step of the ring is.              *)

(* A step of wave w leaves the other waves' operations alone.              *)
LEMMA OthersOp ==
    ASSUME PromiseInv, NEW w \in Waves, Dispatch(w) \/ Kernel(w) \/ Hostcall(w) \/ Evict(w),
           NEW v \in Waves, v # w
    PROVE  op'[v] = op[v]
<1>1. AnswerInv /\ TypeInv
  BY DEF PromiseInv, AnswerInv, RingInv
<1>2. /\ pc'[v] = pc[v] /\ pos'[v] = pos[v] /\ call'[v] = call[v] /\ got'[v] = got[v]
  BY <1>1, OthersFrame
<1>3. reply' = reply /\ svc' = svc /\ scan' = scan
  BY DEF Dispatch, Kernel, Call, EndWave, Hostcall, TakeTicket, AwaitTurn, Marshal,
         WriteBack, Signal, AwaitDone, Invalidate, ReadResult, ClearStatus,
         RereadTurn, PassTurn, Evict, mem, host
<1>4. ASSUME At(v, "await") PROVE Ready(v)' = Ready(v)
  <2>1. Cell(v)' = Cell(v) /\ pc[v] \in Owning
    BY <1>2, <1>4 DEF Cell, At, Owning
  <2>2. status'[Cell(v)] = status[Cell(v)]
    <3>1. CASE Signal(w) \/ ClearStatus(w)
      BY <1>1, <2>1, <3>1, StatusElsewhere
    <3>2. CASE ~ (Signal(w) \/ ClearStatus(w))
      BY <3>2 DEF Dispatch, Kernel, Call, EndWave, Hostcall, TakeTicket, AwaitTurn,
                  Marshal, WriteBack, AwaitDone, Invalidate, ReadResult,
                  RereadTurn, PassTurn, Evict, mem
    <3> QED BY <3>1, <3>2
  <2> QED BY <1>3, <2>1, <2>2 DEF Ready
<1> QED BY <1>2, <1>3, <1>4, SameOp

(* The steps inside a phase.                                               *)
LEMMA QuietSteps ==
    ASSUME PromiseInv, NEW w \in Waves,
           \/ Dispatch(w) \/ EndWave(w) \/ TakeTicket(w) \/ AwaitTurn(w) \/ Marshal(w)
           \/ WriteBack(w) \/ Signal(w) \/ AwaitDone(w) \/ Invalidate(w)
           \/ ClearStatus(w) \/ RereadTurn(w) \/ Evict(w)
    PROVE  op'[w] = op[w]
<1>1. AnswerInv /\ TypeInv
  BY DEF PromiseInv, AnswerInv, RingInv
<1>2. OpTable /\ OpTable'
  BY OpNow, OpThen
<1> USE DEF TypeInv, TypeOK, At, Goto
<1>3. CASE Dispatch(w) \/ EndWave(w)
  <2>1. pc[w] \in Outside /\ pc'[w] \in Outside /\ call'[w] = call[w]
    BY <1>1, <1>3 DEF Dispatch, EndWave, Outside
  <2> QED BY <1>2, <2>1 DEF OpTable
<1>4. CASE TakeTicket(w) \/ AwaitTurn(w) \/ Marshal(w) \/ WriteBack(w)
  <2>1. pc[w] \in Waiting /\ pc'[w] \in Waiting /\ call'[w] = call[w]
    BY <1>1, <1>4 DEF TakeTicket, AwaitTurn, Marshal, WriteBack, Waiting
  <2> QED BY <1>2, <2>1 DEF OpTable
<1>5. CASE Signal(w)
  <2>1. pc[w] \in Waiting /\ pc'[w] = "await" /\ call'[w] = call[w] /\ Cell(w)' = Cell(w)
    BY <1>1, <1>5 DEF Signal, Waiting, Cell
  <2>2. Cell(w) \in Slots /\ status[Cell(w)] = 0
    BY <1>1, <1>5, CellType DEF Signal, AnswerInv, SlotInv, StatusInv, Quiet
  <2>3. status'[Cell(w)] = 1
    BY <1>1, <1>5, <2>2 DEF Signal
  <2>4. ~ (svc = "publish" /\ scan = Cell(w))
    BY <1>1, <2>2 DEF AnswerInv, SlotInv, HostInv
  <2>5. ~ Ready(w)'
    BY <1>5, <2>1, <2>3, <2>4 DEF Ready, Signal, host
  <2> QED BY <1>2, <2>1, <2>5 DEF OpTable
<1>6. CASE AwaitDone(w) \/ Invalidate(w)
  <2>1. /\ Answered(w) /\ Answered(w)' /\ call'[w] = call[w]
        /\ Cell(w)' = Cell(w) /\ reply' = reply
    BY <1>1, <1>6 DEF AwaitDone, Invalidate, Answered, Cell, mem
  <2> QED BY <1>2, <2>1 DEF OpTable
<1>7. CASE ClearStatus(w) \/ RereadTurn(w)
  <2>1. pc[w] \in Done /\ pc'[w] \in Done /\ call'[w] = call[w] /\ got'[w] = got[w]
    BY <1>1, <1>7 DEF ClearStatus, RereadTurn, Done
  <2> QED BY <1>2, <2>1 DEF OpTable
<1>8. CASE Evict(w)
  <2>1. /\ pc' = pc /\ pos' = pos /\ call' = call /\ got' = got
        /\ status' = status /\ reply' = reply /\ svc' = svc /\ scan' = scan
    BY <1>8 DEF Evict, wave, host
  <2> QED BY <2>1, SameOp DEF Ready, Cell
<1> QED BY <1>3, <1>4, <1>5, <1>6, <1>7, <1>8

(* The host answers when it has written the reply.                         *)
LEMMA HostAnswers ==
    ASSUME PromiseInv, ServiceSlot
    PROVE  \E w \in Waves : Promise!Answer(w)
<1>1. /\ AnswerInv /\ SlotExclusive /\ scan \in Slots
      /\ reply \in [Slots -> Reply \union {None}]
  BY QueueExclusive DEF PromiseInv, AnswerInv, RingInv, TypeInv, TypeOK
<1>2. status[scan] = 1
  BY DEF ServiceSlot, PromiseInv, AnswerInv, SlotInv, HostInv
<1>3. PICK w \in Waves : At(w, "await") /\ Cell(w) = scan /\ request[scan] = call[w]
  BY <1>1, <1>2, WaitingOwner
<1>4. PICK val \in Results :
         reply' = [reply EXCEPT ![scan] = [to |-> request[scan], val |-> val]]
  BY DEF ServiceSlot
<1>5. /\ pc' = pc /\ pos' = pos /\ call' = call /\ got' = got
      /\ status' = status /\ svc = "serve" /\ svc' = "publish" /\ scan' = scan
  BY DEF ServiceSlot, wave
<1>6. OpTable /\ OpTable'
  BY OpNow, OpThen
<1>7. op[w] = [phase |-> "asked", request |-> call[w], reply |-> None]
  <2>1. ~ Ready(w)
    BY <1>2, <1>3, <1>5 DEF Ready
  <2> QED BY <1>3, <1>6, <2>1 DEF OpTable
<1>8. op'[w] = [phase |-> "answered", request |-> call[w],
                reply |-> [to |-> call[w], val |-> val]]
  <2>1. Answered(w)' /\ Cell(w)' = scan
    BY <1>3, <1>5 DEF Answered, At, Cell
  <2>2. reply'[scan] = [to |-> call[w], val |-> val]
    BY <1>1, <1>3, <1>4
  <2> QED BY <1>5, <1>6, <2>1, <2>2 DEF OpTable
<1>9. ASSUME NEW v \in Waves \ {w} PROVE op'[v] = op[v]
  <2>1. ASSUME pc[v] \in Owning PROVE Cell(v) # scan
    BY <1>1, <1>3, <2>1 DEF SlotExclusive, At, Owning
  <2>2. ASSUME At(v, "await") PROVE Ready(v)' = Ready(v)
    BY <1>5, <2>1, <2>2 DEF Ready, At, Owning, Cell
  <2>3. ASSUME Answered(v) PROVE reply'[Cell(v)] = reply[Cell(v)]
    BY <1>1, <1>4, <2>1, <2>3 DEF Answered, At, Owning
  <2> QED BY <1>5, <2>2, <2>3, SameOp
<1>10. op[w] = [phase |-> op[w].phase, request |-> op[w].request, reply |-> op[w].reply]
  BY <1>7
<1>11. op' = [op EXCEPT ![w].phase = "answered",
                        ![w].reply = [to |-> op[w].request, val |-> val]]
  <2>1. op'[w] = [phase |-> "answered", request |-> op[w].request,
                  reply |-> [to |-> op[w].request, val |-> val]]
    BY <1>7, <1>8
  <2> QED BY <1>9, <1>10, <2>1, OpFields
<1>12. svc # "exited" /\ (svc # "exited")' = (svc # "exited")
  BY <1>5
<1>13. Promise!In(w, "asked")
  BY <1>7 DEF Promise!In
<1>14. Promise!Answer(w)
  BY <1>11, <1>12, <1>13 DEF Promise!Answer
<1> QED BY <1>14

(* Publishing shows the wave an answer it already had.                     *)
LEMMA PublishQuiet ==
    ASSUME PromiseInv, Publish
    PROVE  op' = op
<1>1. /\ AnswerInv /\ scan \in Slots /\ status \in [Slots -> 0 .. 2]
      /\ svc = "publish" /\ svc' # "publish" /\ status' = [status EXCEPT ![scan] = 2]
      /\ pc' = pc /\ pos' = pos /\ call' = call /\ got' = got /\ reply' = reply
  BY DEF PromiseInv, AnswerInv, RingInv, TypeInv, TypeOK, Publish, NextSlot, wave
<1>2. ASSUME NEW v \in Waves, At(v, "await") PROVE Ready(v)' = Ready(v)
  <2>1. Cell(v)' = Cell(v) /\ Cell(v) \in Slots
    BY <1>1, CellType DEF Cell, AnswerInv, RingInv
  <2>2. CASE Cell(v) = scan
    BY <1>1, <2>1, <2>2 DEF Ready
  <2>3. CASE Cell(v) # scan
    BY <1>1, <2>1, <2>3 DEF Ready
  <2> QED BY <2>2, <2>3
<1>3. \A v \in Waves : op'[v] = op[v]
  BY <1>1, <1>2, SameOp
<1> QED BY <1>3, OpStays

(* The wave collects what is in its slot: its cache holds no line of it.   *)
LEMMA WaveCollects ==
    ASSUME PromiseInv, NEW w \in Waves, ReadResult(w)
    PROVE  Promise!Collect(w)
<1>1. AnswerInv /\ TypeInv /\ line[w] = None
  BY DEF PromiseInv, AnswerInv, SlotInv, LineInv, RingInv, ReadResult, At
<1>2. OpTable /\ OpTable'
  BY OpNow, OpThen
<1>3. op[w] = [phase |-> "answered", request |-> call[w], reply |-> reply[Cell(w)]]
  BY <1>2 DEF OpTable, ReadResult, Answered, At
<1>4. op'[w] = [phase |-> "collected", request |-> call[w], reply |-> reply[Cell(w)]]
  <2>1. pc'[w] \in Done /\ call'[w] = call[w] /\ got'[w] = reply[Cell(w)]
    BY <1>1 DEF ReadResult, Goto, Done, TypeInv, TypeOK
  <2> QED BY <1>2, <2>1 DEF OpTable
<1>5. \A v \in Waves \ {w} : op'[v] = op[v]
  BY OthersOp DEF Hostcall
<1>6. op' = [op EXCEPT ![w].phase = "collected"]
  <2>1. op = [v \in Waves |-> op[v]] /\ op' = [v \in Waves |-> op'[v]]
    BY DEF op
  <2>2. op'[w] = [op[w] EXCEPT !.phase = "collected"]
    BY <1>3, <1>4
  <2> QED BY <1>5, <2>1, <2>2
<1>7. Promise!In(w, "answered")
  BY <1>3 DEF Promise!In
<1>8. svc' = svc
  BY DEF ReadResult, host
<1> QED BY <1>6, <1>7, <1>8 DEF Promise!Collect

(* The hostcall asks when it is entered and returns with the turn.         *)
LEMMA WaveAsks ==
    ASSUME PromiseInv, NEW w \in Waves, Call(w)
    PROVE  Promise!Ask(w)
<1>1. TypeInv /\ pc[w] \in Outside /\ call[w] = None
  BY DEF PromiseInv, AnswerInv, RingInv, IdleInv, Call, At, Outside
<1>2. OpTable /\ OpTable'
  BY OpNow, OpThen
<1>3. PICK r \in Requests : call' = [call EXCEPT ![w] = r]
  BY DEF Call
<1>4. op[w] = [phase |-> "idle", request |-> call[w], reply |-> None]
  BY <1>1, <1>2 DEF OpTable
<1>5. op'[w] = [phase |-> "asked", request |-> r, reply |-> None]
  <2>1. pc'[w] \in Waiting /\ call'[w] = r
    BY <1>1, <1>3 DEF Call, Goto, Waiting, TypeInv, TypeOK
  <2> QED BY <1>2, <2>1 DEF OpTable
<1>6. \A v \in Waves \ {w} : op'[v] = op[v]
  BY OthersOp DEF Kernel
<1>7. op' = [op EXCEPT ![w] = [phase |-> "asked", request |-> r, reply |-> None]]
  BY <1>5, <1>6, OpChanges
<1>8. Promise!In(w, "idle")
  BY <1>4 DEF Promise!In
<1>9. svc' = svc
  BY DEF Call, host
<1> QED BY <1>7, <1>8, <1>9 DEF Promise!Ask

LEMMA WaveReturns ==
    ASSUME PromiseInv, NEW w \in Waves, PassTurn(w)
    PROVE  Promise!Return(w)
<1>1. TypeInv /\ pc[w] \in Done
  BY DEF PromiseInv, AnswerInv, RingInv, PassTurn, At, Done
<1>2. OpTable /\ OpTable'
  BY OpNow, OpThen
<1>3. op[w] = [phase |-> "collected", request |-> call[w], reply |-> got[w]]
  BY <1>1, <1>2 DEF OpTable
<1>4. op'[w] = Promise!Idle
  <2>1. pc'[w] \in Outside /\ call'[w] = None
    BY <1>1 DEF PassTurn, Goto, Outside, TypeInv, TypeOK
  <2> QED BY <1>2, <2>1 DEF OpTable, Promise!Idle
<1>5. \A v \in Waves \ {w} : op'[v] = op[v]
  BY OthersOp DEF Hostcall
<1>6. op' = [op EXCEPT ![w] = Promise!Idle]
  BY <1>4, <1>5, OpChanges
<1>7. Promise!In(w, "collected")
  BY <1>3 DEF Promise!In
<1>8. svc' = svc
  BY DEF PassTurn, host
<1> QED BY <1>6, <1>7, <1>8 DEF Promise!Return

(* The rest of the host: closing, and steps nobody sees.                   *)
LEMMA HostRest ==
    ASSUME PromiseInv, CheckRun \/ SkipSlot \/ PickSlot \/ Stop \/ Finished \/ UNCHANGED vars
    PROVE  op' = op /\ (Promise!Close \/ (svc # "exited")' = (svc # "exited"))
<1>1. /\ pc' = pc /\ pos' = pos /\ call' = call /\ got' = got
      /\ status' = status /\ reply' = reply
      /\ \/ svc = "publish" /\ svc' = svc /\ scan' = scan
         \/ svc # "publish" /\ svc' # "publish"
  BY DEF CheckRun, SkipSlot, NextSlot, PickSlot, Stop, Finished, vars, mem, wave, host
<1>2. ASSUME NEW v \in Waves, At(v, "await") PROVE Ready(v)' = Ready(v)
  BY <1>1 DEF Ready, Cell
<1>3. \A v \in Waves : op'[v] = op[v]
  BY <1>1, <1>2, SameOp
<1>4. op' = op
  BY <1>3, OpStays
<1>5. CASE CheckRun /\ ~ run
  BY <1>4, <1>5 DEF CheckRun, Promise!Close
<1>6. CASE ~ (CheckRun /\ ~ run)
  <2>1. (svc # "exited")' = (svc # "exited")
    BY <1>6 DEF CheckRun, SkipSlot, NextSlot, PickSlot, Stop, Finished, vars, host
  <2> QED BY <1>4, <2>1
<1> QED BY <1>5, <1>6

(* Each step of the ring is a step of the promise or a stutter.            *)
LEMMA StepKeepsPromise ==
    ASSUME PromiseInv, [Next]_vars
    PROVE  [Promise!Next]_(Promise!vars)
<1> SUFFICES ASSUME ~ UNCHANGED Promise!vars PROVE Promise!Next
  OBVIOUS
<1> USE DEF Promise!Next, Promise!Proceed
<1>1. ASSUME NEW w \in Waves, Call(w) \/ ReadResult(w) \/ PassTurn(w) PROVE Promise!Next
  BY <1>1, WaveAsks, WaveCollects, WaveReturns
<1>2. CASE ServiceSlot
  BY <1>2, HostAnswers
<1>3. CASE Publish
  <2>1. (svc # "exited")' = (svc # "exited")
    BY <1>3 DEF Publish, NextSlot
  <2> QED BY <1>3, <2>1, PublishQuiet DEF Promise!vars
<1>4. CASE CheckRun \/ SkipSlot \/ PickSlot \/ Stop \/ Finished \/ UNCHANGED vars
  BY <1>4, HostRest DEF Promise!vars
<1>5. ASSUME NEW w \in Waves,
             \/ Dispatch(w) \/ EndWave(w) \/ TakeTicket(w) \/ AwaitTurn(w) \/ Marshal(w)
             \/ WriteBack(w) \/ Signal(w) \/ AwaitDone(w) \/ Invalidate(w)
             \/ ClearStatus(w) \/ RereadTurn(w) \/ Evict(w)
      PROVE  Promise!Next
  <2>1. Dispatch(w) \/ Kernel(w) \/ Hostcall(w) \/ Evict(w)
    BY <1>5 DEF Kernel, Hostcall
  <2>2. op'[w] = op[w]
    BY <1>5, QuietSteps
  <2>3. op' = op
    BY <2>1, <2>2, OthersOp, OpStays
  <2>4. svc' = svc
    BY <1>5 DEF Dispatch, EndWave, TakeTicket, AwaitTurn, Marshal, WriteBack, Signal,
                AwaitDone, Invalidate, ClearStatus, RereadTurn, Evict, host
  <2> QED BY <2>3, <2>4 DEF Promise!vars
<1> QED BY <1>1, <1>2, <1>3, <1>4, <1>5 DEF Next, Kernel, Hostcall, Service

(* The ring implements the promised service: for every grid, ring size and *)
(* number of resident waves, a request is answered at most once and while  *)
(* the service is open, with an answer to itself, which the wave collects  *)
(* before it returns; nothing else the ring does can be told apart from    *)
(* doing nothing.  (The promise's fairness is left to RingKeepsPromise.)   *)
THEOREM RingImplementsPromise == Spec => Promise!SafeSpec
<1>1. Init => Promise!Init
  <2> SUFFICES ASSUME Init PROVE Promise!Init
    OBVIOUS
  <2>1. \A w \in Waves : pc[w] \in Outside /\ call[w] = None
    BY DEF Init, Outside
  <2>2. \A w \in Waves : op[w] = Promise!Idle
    BY <2>1, OpNow DEF OpTable, Promise!Idle
  <2>3. op = [w \in Waves |-> op[w]]
    BY DEF op
  <2>4. op = [w \in Waves |-> Promise!Idle]
    BY <2>2, <2>3
  <2>5. svc = "check"
    BY DEF Init
  <2> QED BY <2>4, <2>5 DEF Promise!Init
<1>2. PromiseInv /\ [Next]_vars => [Promise!Next]_(Promise!vars)
  BY StepKeepsPromise
<1> QED BY <1>1, <1>2, PromiseInvariant, PTL DEF Spec, Promise!SafeSpec
=============================================================================
