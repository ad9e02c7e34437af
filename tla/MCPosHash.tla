------------------------------ MODULE MCPosHash ------------------------------
(* Three positions that meet in their first probes; four entries.           *)
EXTENDS PosHash

CONSTANTS k1, k2, k3, s1, s2, s3, s4

Order(a, b, c, d) == [n \in 0..3 |-> CASE n = 0 -> a [] n = 1 -> b
                                       [] n = 2 -> c [] OTHER -> d]

MCProbe == [k \in Key |-> CASE k = k1 -> Order(s1, s2, s3, s4)
                            [] k = k2 -> Order(s1, s3, s2, s4)
                            [] OTHER -> Order(s2, s1, s4, s3)]
=============================================================================
