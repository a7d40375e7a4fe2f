------------------------------ MODULE FragTable ------------------------------
(***************************************************************************)
(* The bounded table of IPv4 reassembly (internal/ipv4frag, table.go),     *)
(* shared by the two user-space stacks.  Process, Sweep and Close run      *)
(* under one mutex and are one action each.                                *)
(*                                                                         *)
(* Offsets and lengths are in units of eight bytes; a fragment whose       *)
(* header does not parse is dropped before the table is looked at and is   *)
(* not an input here.  A payload is a member of Payloads, a header gives   *)
(* its length and the shape of the options it must repeat.  The pieces an  *)
(* entry holds are a set: which slots of the array they sit in decides     *)
(* nothing but whether one is left.                                        *)
(***************************************************************************)
EXTENDS Integers, FiniteSets, FiniteSetsExt

CONSTANTS
    Keys, Payloads,
    Headers,        \* records [len, copied]
    ECNs,           \* subset of {"notect", "ect", "ce"}
    Entries, Fragments,   \* Limits
    Bytes,          \* Limits.Bytes less the fixed cost of the table
    Lifetime,
    MaxLength,      \* 65535
    MaxOffset, MaxNow,    \* bounds of the model
    None

VARIABLES
    table,     \* [entries: slot -> entry or None, used: payload bytes held]
    closed,
    now,
    asked,     \* the key of the packet the last call was given, or None
    packet     \* the packet the last call completed, or None

vars == <<table, closed, now, asked, packet>>

Slots == 1..Entries

MinHeader == Min({h.len : h \in Headers})

(* What reaches the table: Process has checked the flags, the checksum,    *)
(* the options and the length.                                             *)
Packets ==
    {p \in [key : Keys, start : 0..MaxOffset, len : 1..(MaxOffset + 1), more : BOOLEAN,
            data : Payloads, header : Headers, ecn : ECNs] :
        /\ p.more \/ p.start > 0
        /\ p.header.len + p.len <= MaxLength /\ p.start + p.len <= MaxLength - MinHeader
        /\ p.start + p.len <= MaxOffset + 1}

Piece(p) == [start |-> p.start, len |-> p.len, more |-> p.more, data |-> p.data]

End(x) == x.start + x.len

NewEntry(p) ==
    [key |-> p.key, deadline |-> now + Lifetime, total |-> -1, covered |-> 0, parts |-> {},
     first |-> None, copied |-> None, ecn |-> {}]

Held(t) == {i \in Slots : t.entries[i] # None}

Parts(t) == UNION {{<<i, x>> : x \in t.entries[i].parts} : i \in Held(t)}

Length(S) == MapThenSumSet(LAMBDA ix : ix[2].len, S)

(* clearEntry, for each entry of S.                                        *)
Clear(t, S) ==
    [entries |-> [i \in Slots |-> IF i \in S THEN None ELSE t.entries[i]],
     used |-> t.used - Length({ix \in Parts(t) : ix[1] \in S})]

Init ==
    /\ table = [entries |-> [i \in Slots |-> None], used |-> 0]
    /\ closed = FALSE /\ now = 0 /\ asked = None /\ packet = None

-----------------------------------------------------------------------------
(* Every deadline is the admission time plus the same lifetime, so the     *)
(* first deadline is the oldest entry; ties go to the lower index.         *)
Older(t, i, j) ==
    \/ t.entries[i].deadline < t.entries[j].deadline
    \/ t.entries[i].deadline = t.entries[j].deadline /\ i < j

(* evictOldestLocked, repeated: the sets of entries other than keep that   *)
(* it can have taken so far.                                               *)
Evictions(t, keep) ==
    {S \in SUBSET (Held(t) \ {keep}) : \A i \in S, j \in Held(t) \ (S \cup {keep}) : Older(t, i, j)}

Fewest(F) == CHOOSE S \in F : \A S2 \in F : Cardinality(S) <= Cardinality(S2)

(* A fragment that the entry cannot hold together with what it has.        *)
Twin(p, x) == p.start = x.start /\ p.len = x.len /\ p.data = x.data

ConflictsWithPiece(p, x) ==
    IF Twin(p, x) THEN p.more # x.more
    ELSE \/ p.start < End(x) /\ x.start < End(p)
         \/ ~p.more /\ End(x) > End(p)
         \/ p.start = 0 /\ End(x) > MaxLength - p.header.len

ConflictsWithEntry(e, p) ==
    \/ p.start = 0 /\ e.first # None /\ e.first # p.header
    \/ p.start = 0 /\ e.total >= 0 /\ e.total > MaxLength - p.header.len
    \/ e.first # None /\ End(p) > MaxLength - e.first.len
    \/ e.total >= 0 /\ (End(p) > e.total \/ (~p.more /\ End(p) # e.total))
    \/ e.copied # None /\ p.header.copied # e.copied
    \/ {"notect", "ce"} \subseteq e.ecn \cup {p.ecn}

(* Overlap is looked for only at the start of the fragment. *)
ConflictsAtStart(e, p) ==
    ConflictsWithEntry(e, p)
    \/ \E x \in e.parts : p.start >= x.start /\ p.start < End(x) /\ ~(Twin(p, x) /\ p.more = x.more)

Conflicts(e, p) == ConflictsWithEntry(e, p) \/ \E x \in e.parts : ConflictsWithPiece(p, x)

(* The entry with the fragment added.                                      *)
Added(e, p) ==
    [e EXCEPT !.parts = @ \cup {Piece(p)}, !.covered = @ + p.len, !.ecn = @ \cup {p.ecn},
              !.copied = IF @ = None THEN p.header.copied ELSE @,
              !.first = IF p.start = 0 THEN p.header ELSE @,
              !.total = IF p.more THEN @ ELSE End(p)]

IsWhole(e) == e.first # None /\ e.total >= 0 /\ e.covered = e.total

(* The copy of the completed packet is not counted. *)
RoomWithoutCopy(t, p, e) == Cardinality(Parts(t)) < Fragments /\ p.len <= Bytes - t.used

(* Room for the piece and, when it completes the packet, for the copy that *)
(* exists next to all the retained pieces.                                 *)
Room(t, p, e) ==
    /\ Cardinality(Parts(t)) < Fragments
    /\ p.len <= Bytes - t.used
    /\ IsWhole(e) => e.first.len + e.total <= Bytes - t.used - p.len

(* Process, once entry i of table t is the one for the packet: the table   *)
(* that results and the packet completed.  Room is made by evicting the    *)
(* oldest other entries, all of them if that does not help.                *)
Insert(t, i, p) ==
    LET e == t.entries[i]
        new == Added(e, p)
        can == {S \in Evictions(t, i) : Room(Clear(t, S), p, new)}
        rest == Clear(t, IF can = {} THEN Held(t) \ {i} ELSE Fewest(can))
        put == [entries |-> [rest.entries EXCEPT ![i] = new], used |-> rest.used + p.len]
        Return(u) == [table |-> u, packet |-> None]
    IN  IF Conflicts(e, p) THEN Return(Clear(t, {i}))
        ELSE IF \E x \in e.parts : Twin(p, x)
        THEN Return([t EXCEPT !.entries[i].ecn = @ \cup {p.ecn}])
        ELSE IF Cardinality(e.parts) >= Fragments THEN Return(t)
        ELSE IF can = {} THEN Return(IF e.parts = {} THEN Clear(rest, {i}) ELSE rest)
        ELSE IF ~IsWhole(new) THEN Return(put)
        ELSE [table |-> Clear(put, {i}),
              packet |-> [of |-> new, peak |-> put.used + new.first.len + new.total]]

(* The entry a packet belongs to, or the free slot, or the slot of the     *)
(* oldest entry, emptied.                                                  *)
EntryFor(t, p) == {i \in Held(t) : t.entries[i].key = p.key}

Expired(e) == now >= e.deadline

Admitted(t, p) ==
    LET free == Slots \ Held(t)
        evict == Fewest({S \in Evictions(t, 0) : S # {}})
        u == IF free = {} THEN Clear(t, evict) ELSE t
        i == IF free = {} THEN CHOOSE x \in evict : TRUE ELSE Min(free)
    IN  Insert([u EXCEPT !.entries[i] = NewEntry(p)], i, p)

(* The time is not looked at when a fragment joins its entry. *)
ProcessIgnoringTime(p) ==
    /\ ~closed
    /\ LET r == IF EntryFor(table, p) = {} THEN Admitted(table, p)
                ELSE Insert(table, CHOOSE i \in EntryFor(table, p) : TRUE, p)
       IN  table' = r.table /\ packet' = r.packet /\ asked' = p.key
    /\ UNCHANGED <<closed, now>>

(* Process; a packet whose entry has expired only gets the entry cleared.  *)
Process(p) ==
    /\ ~closed
    /\ LET at == EntryFor(table, p)
           i == CHOOSE x \in at : TRUE
           r == IF at = {} THEN Admitted(table, p)
                ELSE IF Expired(table.entries[i]) THEN [table |-> Clear(table, {i}), packet |-> None]
                ELSE Insert(table, i, p)
       IN  table' = r.table /\ packet' = r.packet /\ asked' = p.key
    /\ UNCHANGED <<closed, now>>

Sweep ==
    /\ ~closed
    /\ table' = Clear(table, {i \in Held(table) : Expired(table.entries[i])})
    /\ asked' = None /\ packet' = None
    /\ UNCHANGED <<closed, now>>

Close ==
    /\ closed' = TRUE
    /\ table' = Clear(table, Held(table))
    /\ asked' = None /\ packet' = None
    /\ UNCHANGED now

(* External: the clock.                                                    *)
Tick ==
    /\ now < MaxNow
    /\ now' = now + 1 /\ asked' = None /\ packet' = None
    /\ UNCHANGED <<table, closed>>

Next == (\E p \in Packets : Process(p)) \/ Sweep \/ Close \/ Tick

Spec == Init /\ [][Next]_vars

-----------------------------------------------------------------------------
Disjoint(S) == \A x, y \in S : x = y \/ End(x) <= y.start \/ End(y) <= x.start

(* What an entry knows of its packet is what its pieces say: they do not   *)
(* overlap, covered is their length, total is the end of the one last      *)
(* fragment and nothing lies behind it, the packet with its first header   *)
(* fits in an IPv4 packet, and no entry waits without a piece.             *)
EntriesConsistent ==
    \A i \in Held(table) :
        LET e == table.entries[i]
        IN  /\ e.parts # {} /\ Disjoint(e.parts)
            /\ e.covered = MapThenSumSet(LAMBDA x : x.len, e.parts)
            /\ \A x \in e.parts : x.more <=> End(x) # e.total
            /\ e.total >= 0 => \A x \in e.parts : End(x) <= e.total
            /\ e.first # None <=> \E x \in e.parts : x.start = 0
            /\ e.first # None => \A x \in e.parts : End(x) <= MaxLength - e.first.len
            /\ ~IsWhole(e)
            /\ \A j \in Held(table) \ {i} : table.entries[j].key # e.key

(* The byte budget covers the pieces held and, at its largest, the copy    *)
(* made next to them (table.go, Limits.Bytes).                             *)
BytesBounded ==
    /\ table.used = Length(Parts(table))
    /\ table.used <= Bytes
    /\ packet # None => packet.peak <= Bytes
    /\ Cardinality(Parts(table)) <= Fragments

(* A packet handed up is put together from pieces that fill it without     *)
(* gaps or overlap, before its deadline, and congestion marked on any of   *)
(* its fragments is never combined with fragments that cannot carry it.    *)
PacketsWhole ==
    packet # None =>
        LET e == packet.of
        IN  /\ Disjoint(e.parts)
            /\ UNION {x.start..(End(x) - 1) : x \in e.parts} = 0..(e.total - 1)
            /\ now < e.deadline
            /\ ~({"notect", "ce"} \subseteq e.ecn)

=============================================================================
