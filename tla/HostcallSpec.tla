---------------------------- MODULE HostcallSpec ----------------------------
(***************************************************************************)
(* What a hostcall promises to the code that makes it, without mailbox,    *)
(* tickets or caches: a wave asks, the host answers that very request      *)
(* once, the wave collects the answer and goes on.  The host may close the *)
(* service, after which nobody is answered any more.                       *)
(***************************************************************************)
CONSTANTS Waves, Requests, Results, None

VARIABLES op,       \* op[w]: the hostcall of wave w
          serving   \* the service is open

vars == <<op, serving>>

Idle == [phase |-> "idle", request |-> None, reply |-> None]

Init ==
    /\ op = [w \in Waves |-> Idle]
    /\ serving = TRUE

In(w, phase) == op[w].phase = phase

Ask(w) ==
    /\ In(w, "idle")
    /\ \E r \in Requests :
          op' = [op EXCEPT ![w] = [phase |-> "asked", request |-> r, reply |-> None]]
    /\ UNCHANGED serving

Answer(w) ==
    /\ serving
    /\ In(w, "asked")
    /\ \E v \in Results :
          op' = [op EXCEPT ![w].phase = "answered",
                           ![w].reply = [to |-> op[w].request, val |-> v]]
    /\ UNCHANGED serving

Collect(w) ==
    /\ In(w, "answered")
    /\ op' = [op EXCEPT ![w].phase = "collected"]
    /\ UNCHANGED serving

Return(w) ==
    /\ In(w, "collected")
    /\ op' = [op EXCEPT ![w] = Idle]
    /\ UNCHANGED serving

Close ==
    /\ serving
    /\ serving' = FALSE
    /\ UNCHANGED op

Proceed(w) == Answer(w) \/ Collect(w) \/ Return(w)

Next == Close \/ \E w \in Waves : Ask(w) \/ Proceed(w)

(* A wave is in one phase at a time, which nothing but the step out of it  *)
(* (or closing, for an answer) ends: this is fairness of each of the three.*)
Fairness == \A w \in Waves : WF_vars(Proceed(w))

SafeSpec == Init /\ [][Next]_vars
Spec     == SafeSpec /\ Fairness
=============================================================================
