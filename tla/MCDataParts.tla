---------------------------- MODULE MCDataParts ----------------------------
(***************************************************************************)
(* Bounded tables, checked in one run: the per-agent locks of the hub, the *)
(* pool that divides the flows among the rules and the table that          *)
(* reassembles fragments.  "part" says which of them a behaviour is of;    *)
(* the others stay in their initial state.                                 *)
(***************************************************************************)
EXTENDS LockTable, Pool, TLC

CONSTANTS Keys, Payloads, ECNs, FragEntries, Fragments, Bytes, Lifetime, MaxLength,
          MaxOffset, MaxNow

VARIABLES part, fragTable, closed, now, asked, packet

MCHeaders == {[len |-> 1, copied |-> "none"], [len |-> 2, copied |-> "rr"]}

F == INSTANCE FragTable WITH
        table <- fragTable, Entries <- FragEntries, Headers <- MCHeaders

frag == <<fragTable, closed, now, asked, packet>>

MCInit == part \in {"locks", "pool", "frag"} /\ TableInit /\ Init /\ F!Init

MCNext ==
    \/ part = "locks" /\ TableNext /\ UNCHANGED <<part, pool, frag>>
    \/ part = "pool" /\ Next /\ UNCHANGED <<part, tableVars, frag>>
    \/ part = "frag" /\ F!Next /\ UNCHANGED <<part, tableVars, pool>>

MCSpec == MCInit /\ [][MCNext]_<<part, tableVars, pool, frag>>

(* Listeners and fragment keys share their model values. *)
MCSymmetry == Permutations(Listeners) \cup Permutations(Regs)

-----------------------------------------------------------------------------
(***************************************************************************)
(* The properties of the instance, each of the part it is about: see the   *)
(* modules.                                                                *)
(***************************************************************************)

(* Fragments: what an entry holds fits together, the bytes held are counted
   and bounded, and a packet handed on is one packet, whole. *)
FragTableHolds ==
    part = "frag" => F!EntriesConsistent /\ F!BytesBounded /\ F!PacketsWhole
=============================================================================
