---------------------------- MODULE MCReconciler ----------------------------
(* Small instances of Reconciler.                                          *)
EXTENDS Reconciler

CONSTANTS r1, r2, g1, g2, k1, k2, s1, s2

(* A transparent rule of g1 in a wide, a narrow and a disabled form, and   *)
(* the relayed rule of g2 it may become, wide and narrow.                  *)
MCValues ==
    LET wide == [listen |-> 1, agent |-> g1, relay |-> FALSE,
                 allow |-> Sources, enabled |-> TRUE]
        relayed == [wide EXCEPT !.agent = g2, !.relay = TRUE]
        narrow == Sources \ {s2}
    IN  {wide, [wide EXCEPT !.allow = narrow], [wide EXCEPT !.enabled = FALSE],
         relayed, [relayed EXCEPT !.allow = narrow]}

(* A database to start on: g1 is registered at the first address with a    *)
(* key, and g2 has not declared one.                                       *)
Started ==
    /\ addrOf[g1] = 2 /\ keyOf[g1] = k1
    /\ addrOf[g2] \in {3, None} /\ keyOf[g2] = None
    /\ \A r \in Rules : decl[r] # None => decl[r].enabled

MCInit == Init /\ Started
MCSpec == MCInit /\ [][Next]_vars
MCFairSpec == MCInit /\ [][Next]_vars /\ Fairness
=============================================================================
