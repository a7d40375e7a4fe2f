--------------------------- MODULE MCProxyRelay ---------------------------
(* Instances of the relay: one public port.  Its rule may change the agent *)
(* or narrow its sources, another rule may take the port over, and a       *)
(* retiring rule may keep one of two sources.                              *)
EXTENDS ProxyRelay, TLC

CONSTANTS s1, s2, r1, r2, x, y
MCRule(i, a, S) == [id |-> i, agent |-> a, allow |-> S]
MCRules == {MCRule(r1, x, {s1, s2}), MCRule(r1, x, {s1}),
            MCRule(r1, y, {s1, s2}), MCRule(r2, x, {s1, s2})}
MCKeeps == {{s1}}
RelaySymmetry == Permutations(Conns) \cup Permutations(Listeners)
=============================================================================
