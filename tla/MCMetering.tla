--------------------------- MODULE MCMetering ---------------------------
(* Instances of Metering for TLC.                                         *)
EXTENDS Metering

CONSTANTS c1, c2, a1, a2, s1, s2, r1, r2, d1, d2

Owners == [c \in {c1, c2} |-> IF c = c1 THEN a1 ELSE a2]
Reports == [c \in {c1, c2} |-> IF c = c1 THEN <<"cpu", "ram">> ELSE <<"ram">>]

\* One account is there from the start, the other one is made in the first day and
\* expires in the last.
OpenedAt == [a \in {a1, a2} |-> IF a = a1 THEN -1 ELSE 1]
ExpiresAt == [a \in {a1, a2} |-> IF a = a1 THEN 5 ELSE 4]

\* Tasks and requests at once: who takes part in a behaviour.
Actors == {{s1, r1}, {s1, d1}, {r1, r2, d1}, {r1, d1, d2}}
Surveyors == {{s1, s2}}
============================================================================
