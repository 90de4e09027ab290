---------------------------- MODULE HostcallRing ----------------------------
(***************************************************************************)
(* The mailbox between GPU wavefronts and the CPU service thread: a        *)
(* bounded multi-producer ring of slots (runtime/hostcalls.h), the device  *)
(* side of a hostcall (runtime/device/hostcall_lib.cpp) and the host loop  *)
(* that scans the slots (runtime/host/hostcall_service.cpp).               *)
(*                                                                         *)
(* What a request asks for and what the host does with it is the matter of *)
(* HostFiles; here a request is a member of Requests and the host answers  *)
(* it with some member of Results.  A reply remembers the request the host *)
(* found in the slot, so a wave that reads another wave's reply shows.     *)
(***************************************************************************)
EXTENDS Integers, FiniteSets

CONSTANTS Waves,        \* the wavefronts of the launched grid
          MaxResident,  \* how many of them the compute units hold at once
          NSLOTS,       \* HC_NSLOTS, slots of the ring
          Gens,         \* generations of a slot before a ticket comes round again
          MaxCalls,     \* hostcalls a wave may make before it ends
          Requests,     \* what a wave may ask (opcode and arguments)
          Results,      \* what the host may answer
          None,         \* the zeroed fields of a fresh mailbox
          EarlyStop     \* the host may stop serving while waves still run

(* HC_NSLOTS is 256 and the tickets are uint32_t: Gens is 2^24.  Tickets   *)
(* for one slot come round after Gens of them, and every ticket is held by *)
(* a resident wave, so a slot never has more holders than tickets.         *)
ASSUME RingAssumption ==
    /\ NSLOTS \in Nat \ {0}
    /\ Gens \in Nat \ {0}
    /\ MaxResident \in Nat
    /\ MaxResident <= Gens

ASSUME DataAssumption ==
    /\ IsFiniteSet(Waves)
    /\ MaxCalls \in Nat
    /\ None \notin Requests
    /\ EarlyStop \in BOOLEAN

TMod     == NSLOTS * Gens      \* 2^32
Slots    == 0 .. NSLOTS - 1
Ticket   == 0 .. TMod - 1
Reply    == [to : Requests \union {None}, val : Results]

(* A slip: the ticket counter does not wrap.                               *)
AddUnwrapped(p, k) == p + k

(* uint32_t addition, and the slot of a ticket: pos & (HC_NSLOTS - 1).     *)
TicketAdd(p, k) == (p + k) % TMod
SlotOf(p)       == p % NSLOTS

VARIABLES
    enqueue_pos,  \* the next ticket
    turn,         \* turn[i], status[i], request[i], reply[i]: slot i in memory
    status,
    request,
    reply,
    pc,           \* pc[w], pos[w], call[w], got[w]: a wave's control and locals
    pos,
    call,
    got,
    calls,        \* calls[w]: hostcalls wave w may still make
    line,         \* line[w]: the wave's copy of its slot in the scalar cache
    run,          \* the flag that keeps the service loop going
    svc,          \* where the service thread is
    scan          \* the slot it looks at

mem   == <<turn, status, request, reply>>
wave  == <<pc, pos, call, got, calls>>
host  == <<run, svc, scan>>
vars  == <<enqueue_pos, mem, wave, line, host>>

(* Where a wave holds a ticket, and where it owns the slot of its ticket.  *)
Owning   == {"marshal", "writeback", "signal", "await", "invalidate",
             "read", "clear", "reread", "pass"}
Holding  == {"turn"} \union Owning
Resident == {"running", "ticket"} \union Holding
Places   == {"queued", "ended"} \union Resident

Lines == [dirty : BOOLEAN, request : Requests, reply : Reply \union {None}]

(* "nothing" is told apart from what a slot or a cache line can hold.      *)
ASSUME NoneAssumption == None \notin Reply /\ None \notin Lines

TypeOK ==
    /\ enqueue_pos \in Ticket
    /\ turn \in [Slots -> Ticket]
    /\ status \in [Slots -> 0 .. 2]
    /\ request \in [Slots -> Requests \union {None}]
    /\ reply \in [Slots -> Reply \union {None}]
    /\ pc \in [Waves -> Places]
    /\ pos \in [Waves -> Ticket]
    /\ call \in [Waves -> Requests \union {None}]
    /\ got \in [Waves -> Reply \union {None}]
    /\ calls \in [Waves -> 0 .. MaxCalls]
    /\ line \in [Waves -> Lines \union {None}]
    /\ run \in BOOLEAN
    /\ svc \in {"check", "scan", "serve", "publish", "exited"}
    /\ scan \in Slots

Init ==
    /\ enqueue_pos = 0
    /\ turn = [i \in Slots |-> i]
    /\ status = [i \in Slots |-> 0]
    /\ request = [i \in Slots |-> None]
    /\ reply = [i \in Slots |-> None]
    /\ pc = [w \in Waves |-> "queued"]
    /\ pos = [w \in Waves |-> 0]
    /\ call = [w \in Waves |-> None]
    /\ got = [w \in Waves |-> None]
    /\ calls = [w \in Waves |-> MaxCalls]
    /\ line = [w \in Waves |-> None]
    /\ run = TRUE
    /\ svc = "check"
    /\ scan = 0

At(w, here)  == pc[w] = here
Goto(w, there) == pc' = [pc EXCEPT ![w] = there]
Cell(w) == SlotOf(pos[w])          \* the slot pointer s of the hostcall

-----------------------------------------------------------------------------
(* Slips: faulty variants of the steps below, each a mistake this code     *)
(* could contain.  No specification uses them; they show what the          *)
(* properties notice.                                                      *)

(* the ticket is taken by a load and a store instead of an atomic add *)
TakeTicketLosesUpdate(w) ==
    /\ At(w, "ticket")
    /\ pos' = [pos EXCEPT ![w] = enqueue_pos]
    /\ enqueue_pos' \in {enqueue_pos, TicketAdd(enqueue_pos, 1)}
    /\ Goto(w, "turn")
    /\ UNCHANGED <<mem, call, got, calls, line, host>>

(* no spin on turn *)
AwaitTurnUngated(w) ==
    /\ At(w, "turn")
    /\ Goto(w, "marshal")
    /\ UNCHANGED <<enqueue_pos, mem, pos, call, got, calls, line, host>>

(* no s_dcache_wb *)
WriteBackOmitted(w) ==
    /\ At(w, "writeback")
    /\ Goto(w, "signal")
    /\ UNCHANGED <<enqueue_pos, mem, pos, call, got, calls, line, host>>

(* the spin tests for "no longer idle" *)
AwaitDoneTooSoon(w) ==
    /\ At(w, "await")
    /\ status[Cell(w)] # 0
    /\ Goto(w, "invalidate")
    /\ UNCHANGED <<enqueue_pos, mem, pos, call, got, calls, line, host>>

(* no s_dcache_inv *)
InvalidateOmitted(w) ==
    /\ At(w, "invalidate")
    /\ Goto(w, "read")
    /\ UNCHANGED <<enqueue_pos, mem, pos, call, got, calls, line, host>>

(* hc_release forgets to mark the slot idle *)
ClearStatusOmitted(w) ==
    /\ At(w, "clear")
    /\ Goto(w, "reread")
    /\ UNCHANGED <<enqueue_pos, mem, pos, call, got, calls, line, host>>

(* turn moves on by one, as in a ticket lock *)
PassTurnToNextTicket(w) ==
    /\ At(w, "pass")
    /\ turn' = [turn EXCEPT ![Cell(w)] = TicketAdd(pos[w], 1)]
    /\ Goto(w, "running")
    /\ pos' = [pos EXCEPT ![w] = 0]
    /\ call' = [call EXCEPT ![w] = None]
    /\ got' = [got EXCEPT ![w] = None]
    /\ UNCHANGED <<enqueue_pos, status, request, reply, calls, line, host>>

(* the scan starts over without looking at run *)
NextSlotForever ==
    /\ svc' = "scan"
    /\ scan' = IF scan = NSLOTS - 1 THEN 0 ELSE scan + 1

(* the scan leaves out the last slot *)
NextSlotShort ==
    IF scan >= NSLOTS - 2 THEN svc' = "check" /\ scan' = 0
                          ELSE svc' = "scan" /\ scan' = scan + 1

(* a stopping service lets every waiting wave go *)
CheckRunReleasing ==
    /\ svc = "check"
    /\ svc' = IF run THEN "scan" ELSE "exited"
    /\ status' = IF run THEN status
                 ELSE [i \in Slots |-> IF status[i] = 1 THEN 2 ELSE status[i]]
    /\ UNCHANGED <<enqueue_pos, turn, request, reply, wave, line, run, scan>>

(* the slot is marked done before it is serviced *)
PickSlotPublishing ==
    /\ svc = "scan"
    /\ status[scan] = 1
    /\ status' = [status EXCEPT ![scan] = 2]
    /\ svc' = "serve"
    /\ UNCHANGED <<enqueue_pos, turn, request, reply, wave, line, run, scan>>

-----------------------------------------------------------------------------
(* The wavefront.                                                          *)

ResidentWaves == {w \in Waves : pc[w] \in Resident}

(* The dispatcher places a queued wave when there is room; a wave stays on *)
(* its compute unit, spinning or not, until it ends.                       *)
Dispatch(w) ==
    /\ At(w, "queued")
    /\ Cardinality(ResidentWaves) < MaxResident
    /\ Goto(w, "running")
    /\ UNCHANGED <<enqueue_pos, mem, pos, call, got, calls, line, host>>

EndWave(w) ==
    /\ At(w, "running")
    /\ Goto(w, "ended")
    /\ UNCHANGED <<enqueue_pos, mem, pos, call, got, calls, line, host>>

Call(w) ==
    /\ At(w, "running")
    /\ calls[w] > 0
    /\ \E r \in Requests : call' = [call EXCEPT ![w] = r]
    /\ calls' = [calls EXCEPT ![w] = @ - 1]
    /\ Goto(w, "ticket")
    /\ UNCHANGED <<enqueue_pos, mem, pos, got, line, host>>

TakeTicket(w) ==
    /\ At(w, "ticket")
    /\ pos' = [pos EXCEPT ![w] = enqueue_pos]
    /\ enqueue_pos' = TicketAdd(enqueue_pos, 1)
    /\ Goto(w, "turn")
    /\ UNCHANGED <<mem, call, got, calls, line, host>>

AwaitTurn(w) ==
    /\ At(w, "turn")
    /\ turn[Cell(w)] = pos[w]
    /\ Goto(w, "marshal")
    /\ UNCHANGED <<enqueue_pos, mem, pos, call, got, calls, line, host>>

(* Arguments and opcode are uniform over the wave: the compiler emits      *)
(* scalar stores, which stay in the scalar cache.  The store brings in the *)
(* whole line, with the reply that lies in the slot.                       *)
Marshal(w) ==
    /\ At(w, "marshal")
    /\ line' = [line EXCEPT ![w] = [dirty |-> TRUE,
                                    request |-> call[w],
                                    reply |-> reply[Cell(w)]]]
    /\ Goto(w, "writeback")
    /\ UNCHANGED <<enqueue_pos, mem, pos, call, got, calls, host>>

Flushed(w) ==
    IF line[w] # None /\ line[w].dirty
    THEN [request EXCEPT ![Cell(w)] = line[w].request]
    ELSE request

(* s_dcache_wb and the system fence.                                       *)
WriteBack(w) ==
    /\ At(w, "writeback")
    /\ request' = Flushed(w)
    /\ line' = [line EXCEPT ![w] = IF @ = None THEN @ ELSE [@ EXCEPT !.dirty = FALSE]]
    /\ Goto(w, "signal")
    /\ UNCHANGED <<enqueue_pos, turn, status, reply, pos, call, got, calls, host>>

(* The cache may give up a line whenever it likes.                         *)
Evict(w) ==
    /\ line[w] # None
    /\ request' = Flushed(w)
    /\ line' = [line EXCEPT ![w] = None]
    /\ UNCHANGED <<enqueue_pos, turn, status, reply, wave, host>>

Signal(w) ==
    /\ At(w, "signal")
    /\ status' = [status EXCEPT ![Cell(w)] = 1]
    /\ Goto(w, "await")
    /\ UNCHANGED <<enqueue_pos, turn, request, reply, pos, call, got, calls, line, host>>

AwaitDone(w) ==
    /\ At(w, "await")
    /\ status[Cell(w)] = 2
    /\ Goto(w, "invalidate")
    /\ UNCHANGED <<enqueue_pos, mem, pos, call, got, calls, line, host>>

(* s_dcache_inv and the system fence.                                      *)
Invalidate(w) ==
    /\ At(w, "invalidate")
    /\ line' = [line EXCEPT ![w] = None]
    /\ Goto(w, "read")
    /\ UNCHANGED <<enqueue_pos, mem, pos, call, got, calls, host>>

(* The handle, the byte count and fread's payload, copied before release.  *)
ReadResult(w) ==
    /\ At(w, "read")
    /\ got' = [got EXCEPT ![w] = IF line[w] = None THEN reply[Cell(w)]
                                                 ELSE line[w].reply]
    /\ Goto(w, "clear")
    /\ UNCHANGED <<enqueue_pos, mem, pos, call, calls, line, host>>

ClearStatus(w) ==
    /\ At(w, "clear")
    /\ status' = [status EXCEPT ![Cell(w)] = 0]
    /\ Goto(w, "reread")
    /\ UNCHANGED <<enqueue_pos, turn, request, reply, pos, call, got, calls, line, host>>

(* hc_release has no ticket argument: it finds its ticket in turn.         *)
RereadTurn(w) ==
    /\ At(w, "reread")
    /\ pos' = [pos EXCEPT ![w] = turn[Cell(w)]]
    /\ Goto(w, "pass")
    /\ UNCHANGED <<enqueue_pos, mem, call, got, calls, line, host>>

(* The atomic exchange; the hostcall returns and its locals die.           *)
PassTurn(w) ==
    /\ At(w, "pass")
    /\ turn' = [turn EXCEPT ![Cell(w)] = TicketAdd(pos[w], NSLOTS)]
    /\ Goto(w, "running")
    /\ pos' = [pos EXCEPT ![w] = 0]
    /\ call' = [call EXCEPT ![w] = None]
    /\ got' = [got EXCEPT ![w] = None]
    /\ UNCHANGED <<enqueue_pos, status, request, reply, calls, line, host>>

-----------------------------------------------------------------------------
(* The service thread.                                                     *)

NextSlot ==
    IF scan = NSLOTS - 1 THEN svc' = "check" /\ scan' = 0
                         ELSE svc' = "scan" /\ scan' = scan + 1

(* run is looked at between two scans of the ring, never inside one.       *)
CheckRun ==
    /\ svc = "check"
    /\ svc' = IF run THEN "scan" ELSE "exited"
    /\ UNCHANGED <<enqueue_pos, mem, wave, line, run, scan>>

SkipSlot ==
    /\ svc = "scan"
    /\ status[scan] # 1
    /\ NextSlot
    /\ UNCHANGED <<enqueue_pos, mem, wave, line, run>>

PickSlot ==
    /\ svc = "scan"
    /\ status[scan] = 1
    /\ svc' = "serve"
    /\ UNCHANGED <<enqueue_pos, mem, wave, line, run, scan>>

ServiceSlot ==
    /\ svc = "serve"
    /\ \E v \in Results :
          reply' = [reply EXCEPT ![scan] = [to |-> request[scan], val |-> v]]
    /\ svc' = "publish"
    /\ UNCHANGED <<enqueue_pos, turn, status, request, wave, line, run, scan>>

Publish ==
    /\ svc = "publish"
    /\ status' = [status EXCEPT ![scan] = 2]
    /\ NextSlot
    /\ UNCHANGED <<enqueue_pos, turn, request, reply, wave, line, run>>

AllEnded == \A w \in Waves : At(w, "ended")

(* The launchers clear run when the completion signal fires or its wait    *)
(* times out; the preloaded tool clears it when the process ends.          *)
Stop ==
    /\ run
    /\ EarlyStop \/ AllEnded
    /\ run' = FALSE
    /\ UNCHANGED <<enqueue_pos, mem, wave, line, svc, scan>>

(* The grid has ended and the service thread is joined.                    *)
Finished ==
    /\ AllEnded
    /\ svc = "exited"
    /\ UNCHANGED vars

-----------------------------------------------------------------------------
Hostcall(w) ==
    \/ TakeTicket(w) \/ AwaitTurn(w) \/ Marshal(w) \/ WriteBack(w) \/ Signal(w)
    \/ AwaitDone(w) \/ Invalidate(w) \/ ReadResult(w)
    \/ ClearStatus(w) \/ RereadTurn(w) \/ PassTurn(w)

Kernel(w)  == Call(w) \/ EndWave(w)
Service    == CheckRun \/ SkipSlot \/ PickSlot \/ ServiceSlot \/ Publish

Next ==
    \/ \E w \in Waves : Dispatch(w) \/ Kernel(w) \/ Hostcall(w) \/ Evict(w)
    \/ Service
    \/ Stop
    \/ Finished

Spec == Init /\ [][Next]_vars

(* A resident wave is issued again and again, the dispatcher fills free    *)
(* places, and the operating system runs the service thread.  Nothing is   *)
(* assumed of Evict or Stop.                                               *)
Fairness ==
    /\ \A w \in Waves : WF_vars(Dispatch(w)) /\ WF_vars(Kernel(w)) /\ WF_vars(Hostcall(w))
    /\ WF_vars(Service)

FairSpec == Spec /\ Fairness

-----------------------------------------------------------------------------
(* Safety.                                                                 *)

(* A slot is "owned exclusively by one wave per generation"                *)
(* (hostcalls.h:35): two waves past the gate never share a slot, also when *)
(* the 32-bit tickets have come round.                                     *)
SlotExclusive ==
    \A v, w \in Waves :
        /\ pc[v] \in Owning
        /\ pc[w] \in Owning
        /\ Cell(v) = Cell(w)
        => v = w

(* Ticket distances.  NextGen(i) is the generation of the next ticket that *)
(* goes to slot i, Ahead(w) the number of holders in front of wave w.      *)
Gen(p)     == p \div NSLOTS
GenAdd(a, k) == IF a + k < Gens THEN a + k ELSE a + k - Gens
GenSub(a, b) == IF a >= b THEN a - b ELSE a + Gens - b
NextGen(i) == IF i >= SlotOf(enqueue_pos) THEN Gen(enqueue_pos)
              ELSE IF Gen(enqueue_pos) = Gens - 1 THEN 0 ELSE Gen(enqueue_pos) + 1
Holders(i) == {w \in Waves : pc[w] \in Holding /\ Cell(w) = i}
Ahead(w)   == GenSub(Gen(pos[w]), Gen(turn[Cell(w)]))

(* The holders of a slot queue up behind its turn, no two at the same      *)
(* distance and none further than their number, and the next ticket for    *)
(* the slot is the place behind them: hc_release finds the ticket it hands *)
(* on in turn, and no ticket is skipped, doubled or forgotten.             *)
TicketQueue ==
    \A i \in Slots :
        /\ SlotOf(turn[i]) = i
        /\ \A w \in Holders(i) : Ahead(w) < Cardinality(Holders(i))
        /\ \A v, w \in Holders(i) : Ahead(v) = Ahead(w) => v = w
        /\ NextGen(i) = GenAdd(Gen(turn[i]), Cardinality(Holders(i)))

(* From the moment the host picks a slot until it publishes the answer,    *)
(* the slot belongs to a wave that waits for it, and the request in memory *)
(* is that wave's: neither a stale cache line nor the next generation.     *)
HostReadsOwnersRequest ==
    svc \in {"serve", "publish"} =>
        \E w \in Waves : /\ At(w, "await")
                         /\ Cell(w) = scan
                         /\ status[scan] = 1
                         /\ request[scan] = call[w]

(* What a hostcall returns is the host's answer to the very request this   *)
(* wave made, not a cached or an earlier occupant's one.                   *)
AnswersOwnCall ==
    \A w \in Waves : got[w] # None => got[w].to = call[w]

(* Once no wave is inside a hostcall the ring is as good as new: every     *)
(* slot idle, its turn at the next ticket that will be handed out for it.  *)
RingRestored ==
    (\A w \in Waves : pc[w] \notin Holding) =>
        \A i \in Slots : /\ status[i] = 0
                         /\ SlotOf(turn[i]) = i
                         /\ Gen(turn[i]) = NextGen(i)

(* When the service thread has gone although waves still wait, it has left *)
(* no request half done: a waiting wave's slot holds its request or its    *)
(* complete answer.                                                        *)
StopLeavesNoHalfAnswer ==
    svc = "exited" =>
        \A w \in Waves : At(w, "await") =>
            \/ status[Cell(w)] = 1 /\ request[Cell(w)] = call[w]
            \/ status[Cell(w)] = 2 /\ reply[Cell(w)] # None /\ reply[Cell(w)].to = call[w]

(* A slot changes hands only when it is idle and the host is done with it. *)
HandoverWhenIdle ==
    [][\A i \in Slots :
          turn'[i] # turn[i] => /\ status[i] = 0
                                /\ ~ (svc \in {"serve", "publish"} /\ scan = i)]_vars

-----------------------------------------------------------------------------
(* Liveness.                                                               *)

(* "a resident wave always makes progress" (hostcalls.h:11): a wave that   *)
(* enters a hostcall comes out of it, whatever the other waves do and      *)
(* however many of them are not resident, unless the host stops serving.   *)
EveryCallReturns ==
    \A w \in Waves : At(w, "ticket") ~> (At(w, "running") \/ ~ run)

(* A cleared run flag ends the service loop, so the join after it returns. *)
JoinReturns == ~ run ~> svc = "exited"

(* The grid drains although only MaxResident waves are resident, unless    *)
(* the host stops serving first.                                           *)
GridDrains == <>(AllEnded \/ ~ run)
=============================================================================
