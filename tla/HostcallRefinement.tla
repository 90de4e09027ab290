------------------------- MODULE HostcallRefinement -------------------------
(* The ring implements HostcallSpec: the request counts as answered when   *)
(* the host has written the reply, and the answer as collected when the    *)
(* wave has read it; everything in between is invisible.                   *)
EXTENDS HostcallRing

Answered(w) ==
    \/ pc[w] \in {"invalidate", "read"}
    \/ /\ At(w, "await")
       /\ \/ status[Cell(w)] = 2
          \/ svc = "publish" /\ scan = Cell(w)

Phase(w) ==
    IF      pc[w] \in {"queued", "running", "ended"} THEN "idle"
    ELSE IF pc[w] \in {"clear", "reread", "pass"}    THEN "collected"
    ELSE IF Answered(w)                              THEN "answered"
    ELSE                                                  "asked"

Operation(w, phase) ==
    [phase   |-> phase,
     request |-> call[w],
     reply   |-> IF      phase = "answered"  THEN reply[Cell(w)]
                 ELSE IF phase = "collected" THEN got[w]
                 ELSE                             None]

op == [w \in Waves |-> Operation(w, Phase(w))]

Promise == INSTANCE HostcallSpec WITH serving <- (svc # "exited")

(* Every behaviour of the ring is one of the promised service, fairness    *)
(* included: each request is answered once, with its own answer, and the   *)
(* wave that asked returns with it unless the service has closed before.   *)
RingKeepsPromise == Promise!Spec
=============================================================================
