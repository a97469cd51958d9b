------------------------------ MODULE MCUploads ------------------------------
(* A small instance of Uploads for TLC: three types, of which two are          *)
(* supported, and the configurations that make lists empty, overlapping,       *)
(* disjoint and padded.                                                        *)
EXTENDS Uploads

CONSTANTS t1, t2, t3, m1, m2, g1, g2

S(w) == [word |-> w, padded |-> FALSE]
P(w) == [word |-> w, padded |-> TRUE]

L(T, M, G) == [types |-> T, models |-> M, groups |-> G]

Bind(n, t) == [name |-> n, type |-> t]

Two == <<Bind(S(g1), t1), Bind(P(g2), t2)>>
Twice == <<Bind(S(g2), t1), Bind(S(g1), t1)>>
One == <<Bind(S(g2), t1)>>

Row(e, l, g) == [enabled |-> e, lists |-> l, groups |-> g]

MCPlatformRows ==
    {Row(TRUE, L({}, {}, {}), Two),
     Row(TRUE, L({}, {}, {}), Twice),
     Row(TRUE, L({t1}, {S(m1), P(m2)}, {S(g1)}), Two),
     Row(TRUE, L({t1, t3}, {S(m1)}, {}), One),
     Row(FALSE, L({}, {}, {}), Two)}

MCGrantRows ==
    {[enabled |-> e, lists |-> l] :
       e \in BOOLEAN,
       l \in {L({}, {}, {}), L({t2}, {}, {}), L({}, {P(m1)}, {}), L({t1}, {}, {P(g2)})}}

MCRequested == {{}, {S(m1)}, {P(m1), S(m1), Empty}, {S(m2), P(m1)}}
===============================================================================
