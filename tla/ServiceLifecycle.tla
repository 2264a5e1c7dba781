--------------------------- MODULE ServiceLifecycle ---------------------------
(* What the service layer promises its clients about one service instance:   *)
(* it is busy while an operation runs on it, every operation comes to an end *)
(* (or is abandoned, which leaves the instance stranded), and an instance    *)
(* that is gone stays gone.                                                  *)
CONSTANTS Instances, Existing

VARIABLE phase

Phases == {"none", "busy", "ready", "stranded", "gone"}

Init == phase = [i \in Instances |-> IF i \in Existing THEN "ready" ELSE "none"]

Moves(i, from, to) ==
  /\ phase[i] \in from
  /\ phase' = [phase EXCEPT ![i] = to]

Create(i)  == Moves(i, {"none"}, "busy")
Begin(i)   == Moves(i, {"ready", "stranded"}, "busy")
Finish(i)  == Moves(i, {"busy", "stranded"}, "ready")
Abandon(i) == Moves(i, {"busy"}, "stranded")
Remove(i)  == Moves(i, {"busy", "ready", "stranded"}, "gone")

EndsOperation(i) == phase[i] = "busy" /\ (Finish(i) \/ Abandon(i) \/ Remove(i))

Next ==
  \E i \in Instances : Create(i) \/ Begin(i) \/ Finish(i) \/ Abandon(i) \/ Remove(i)

\* The moves an instance makes, and that no operation runs for ever.
Safety == Init /\ [][Next]_phase

Spec ==
  /\ Safety
  /\ \A i \in Instances : WF_phase(EndsOperation(i))
============================================================================
