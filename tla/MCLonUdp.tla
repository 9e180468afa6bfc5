----------------------------- MODULE MCLonUdp -----------------------------
(* Model checking of LonUdp, in domains of one byte and of three. The IP      *)
(* addresses of each kind are one with a random node's address, and others    *)
(* that derive an address of their own domain or of another.                  *)
EXTENDS LonUdp

D == <<1, 2, 0>>
MCLonAddresses == {LonAddress(<<1>>, 1, 1), LonAddress(D, 1, 1), LonAddress(D, 2, 2)}
MCRandomAddresses == {[subnet |-> 1, node |-> 3], [subnet |-> 1, node |-> 4]}
MCIps == {<<10, 1, 0, 9>>, <<10, 2, 1, 1>>, <<1, 2, 1, 1>>, <<1, 2, 0, 9>>}
MCFirstIps ==
    {[x \in Nodes |-> IF x = "a" THEN <<10, 1, 0, 9>> ELSE <<10, 2, 1, 1>>],
     [x \in Nodes |-> IF x = "a" THEN <<1, 2, 1, 1>> ELSE <<1, 2, 0, 9>>]}
============================================================================
