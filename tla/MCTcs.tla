------------------------------- MODULE MCTcs -------------------------------
(* Model checking of Tcs: a table of two entries for three destinations, so  *)
(* that entries are replaced and a message waits for one to age.             *)
EXTENDS Tcs
CONSTANTS nonpri, dmnA, dmnB, a1, a2, LenA, LenB
MCPriority == {nonpri}
MCDest == {[domain |-> dmnA, addr |-> a1], [domain |-> dmnA, addr |-> a2],
           [domain |-> dmnB, addr |-> a1]}
MCDomainLen == [x \in {dmnA, dmnB} |-> IF x = dmnA THEN LenA ELSE LenB]
=============================================================================
