-------------------------------- MODULE Pool --------------------------------
(***************************************************************************)
(* The flow budget of one protocol (internal/resource: Pool, Listener,     *)
(* Lease).  A rule that has accepting listeners has a registration; flows  *)
(* are counted in the registration they were taken in and move only when   *)
(* that registration retires.  Take judges against sums that are kept by   *)
(* additions and subtractions and rebuilt when the number of registrations *)
(* changes.                                                                *)
(*                                                                         *)
(* Every method runs under Pool.mu and is one action.  The pool is one     *)
(* record so that detach and attach, which SetRule performs in a row, are  *)
(* functions of it.  cell[l][g] is the flows that listener l carries and   *)
(* registration g counts; a Lease is one of them.                          *)
(***************************************************************************)
EXTENDS Integers, FiniteSets, FiniteSetsExt

CONSTANTS
    Listeners,
    Rules,
    Regs,         \* registration objects
    None,
    Total,        \* T
    FlowFloor     \* f, and the spare P

ASSUME PoolAssumption ==
    /\ Total \in Nat \ {0} /\ FlowFloor \in Nat \ {0}
    /\ None \notin Regs

VARIABLE pool

Short(want, have) == IF want > have THEN want - have ELSE 0

(* C and m. *)
RuleCap == (Total + 1) \div 2

MinimumFor(n) ==
    IF n < 2 THEN FlowFloor
    ELSE LET q == ((Total - FlowFloor) \div 2) \div (n - 1)
         IN  IF q > FlowFloor THEN q ELSE FlowFloor

Active(p) == {p.regs[r] : r \in Rules} \ {None}

Counted(p, l) == p.reg[l] # None

Flows(p, l) == MapThenSumSet(LAMBDA g : p.cell[l][g], Regs)

Unfilled(p, m) == MapThenSumSet(LAMBDA g : Short(m, p.count[g]), Active(p))

TypeOK ==
    pool \in [open : [Listeners -> BOOLEAN], accepting : [Listeners -> BOOLEAN],
              rule : [Listeners -> Rules], reg : [Listeners -> Regs \cup {None}],
              cell : [Listeners -> [Regs -> Nat]], regs : [Rules -> Regs \cup {None}],
              inUse : Nat, count : [Regs -> Nat], carried : [Regs -> Nat],
              minimum : Nat, unfilled : Nat, floorShort : Nat]

Init ==
    pool = [open |-> [l \in Listeners |-> FALSE], accepting |-> [l \in Listeners |-> FALSE],
            rule |-> [l \in Listeners |-> CHOOSE r \in Rules : TRUE],
            reg |-> [l \in Listeners |-> None],
            cell |-> [l \in Listeners |-> [g \in Regs |-> 0]],
            regs |-> [r \in Rules |-> None],
            inUse |-> 0, count |-> [g \in Regs |-> 0], carried |-> [g \in Regs |-> 0],
            minimum |-> MinimumFor(0), unfilled |-> 0, floorShort |-> 0]

-----------------------------------------------------------------------------
(* addCountLocked: the sums follow the count of an active registration.    *)
AddCount(p, g, delta) ==
    LET n == p.count[g] + delta
        q == [p EXCEPT !.count[g] = n]
    IN  IF g \notin Active(p) THEN q
        ELSE [q EXCEPT !.unfilled = @ - Short(p.minimum, p.count[g]) + Short(p.minimum, n),
                       !.floorShort = @ - Short(FlowFloor, p.count[g]) + Short(FlowFloor, n)]

(* refreshLocked, when N has changed.                                      *)
Refresh(p) ==
    LET m == MinimumFor(Cardinality(Active(p)))
    IN  [p EXCEPT !.minimum = m, !.unfilled = Unfilled(p, m),
                  !.floorShort = Unfilled(p, FlowFloor)]

(* moveCellLocked.                                                         *)
MoveCell(p, l, from, to) ==
    LET n == p.cell[l][from]
    IN  AddCount(AddCount([p EXCEPT !.cell[l] = [@ EXCEPT ![from] = 0, ![to] = @ + n]],
                          from, -n), to, n)

(* The registration that attaching l makes, if its rule has none: any of   *)
(* the objects nothing refers to.                                          *)
Fresh(p, l) ==
    IF p.regs[p.rule[l]] # None THEN {None}
    ELSE {g \in Regs : g \notin Active(p) /\ p.count[g] = 0}

(* attachLocked.  fresh is the registration made if the rule has none; the *)
(* flows l carries for retired registrations come along.                   *)
Attach(p, l, fresh) ==
    LET new == p.regs[p.rule[l]] = None
        g == IF new THEN fresh ELSE p.regs[p.rule[l]]
        made == IF new THEN Refresh([p EXCEPT !.regs[p.rule[l]] = g]) ELSE p
        joined == [made EXCEPT !.carried[g] = @ + Flows(p, l), !.reg[l] = g]
        orphans == {h \in Regs : p.cell[l][h] > 0 /\ h \notin Active(made)}
    IN  IF Counted(p, l) \/ ~p.open[l] \/ ~p.accepting[l] THEN p
        ELSE FoldSet(LAMBDA h, q : MoveCell(q, l, h, g), joined, orphans)

(* A retirement that leaves the flows where they are. *)
DetachKeepingFlows(p, l) ==
    LET g == p.reg[l]
        left == [p EXCEPT !.carried[g] = @ - Flows(p, l), !.reg[l] = None]
        gone == Refresh([left EXCEPT !.regs = [r \in Rules |-> IF @[r] = g THEN None ELSE @[r]]])
    IN  IF ~Counted(p, l) THEN p
        ELSE IF \E k \in Listeners \ {l} : p.reg[k] = g THEN left ELSE gone

(* detachLocked.  The registration retires with its last listener, and the *)
(* flows it counted that an accepting listener carries go to that          *)
(* listener's registration.                                                *)
Detach(p, l) ==
    LET g == p.reg[l]
        left == [p EXCEPT !.carried[g] = @ - Flows(p, l), !.reg[l] = None]
        gone == Refresh([left EXCEPT !.regs = [r \in Rules |-> IF @[r] = g THEN None ELSE @[r]]])
        carriers == {k \in Listeners : Counted(gone, k) /\ gone.cell[k][g] > 0}
    IN  IF ~Counted(p, l) THEN p
        ELSE IF \E k \in Listeners \ {l} : p.reg[k] = g THEN left
        ELSE FoldSet(LAMBDA k, q : MoveCell(q, k, g, gone.reg[k]), gone, carriers)

-----------------------------------------------------------------------------
Larger(a, b) == IF a > b THEN a ELSE b

Capped(p, g) == Cardinality(Active(p)) >= 2 /\ p.carried[g] >= RuleCap

Fits(p, kept) == p.inUse + 1 + kept <= Total

(* The shared part may eat the spare. *)
JudgeWithoutSpare(p, g) ==
    IF p.inUse >= Total THEN "budget"
    ELSE IF Capped(p, g) THEN "rule_cap"
    ELSE IF p.count[g] < FlowFloor THEN "granted"
    ELSE IF Larger(p.count[g], p.carried[g]) < p.minimum
    THEN IF Fits(p, p.floorShort + FlowFloor) THEN "granted" ELSE "floor"
    ELSE IF Fits(p, p.unfilled) THEN "granted" ELSE "reserve"

(* The reserved part is free for whoever is below the minimum. *)
JudgeReserveFree(p, g) ==
    IF p.inUse >= Total THEN "budget"
    ELSE IF Capped(p, g) THEN "rule_cap"
    ELSE IF p.count[g] < FlowFloor \/ Larger(p.count[g], p.carried[g]) < p.minimum THEN "granted"
    ELSE IF Fits(p, p.unfilled + FlowFloor) THEN "granted"
    ELSE IF ~Fits(p, p.unfilled) THEN "reserve" ELSE "spare"

(* The floor judged by what the listeners carry. *)
JudgeByCarried(p, g) ==
    IF p.inUse >= Total THEN "budget"
    ELSE IF Capped(p, g) THEN "rule_cap"
    ELSE IF p.carried[g] < FlowFloor THEN "granted"
    ELSE IF Larger(p.count[g], p.carried[g]) < p.minimum
    THEN IF Fits(p, p.floorShort + FlowFloor) THEN "granted" ELSE "floor"
    ELSE IF Fits(p, p.unfilled + FlowFloor) THEN "granted"
    ELSE IF ~Fits(p, p.unfilled) THEN "reserve" ELSE "spare"

(* judgeLocked: the budget, the cap of one rule, the floor, the reserved   *)
(* part, the shared part.                                                  *)
Judge(p, g) ==
    IF p.inUse >= Total THEN "budget"
    ELSE IF Capped(p, g) THEN "rule_cap"
    ELSE IF p.count[g] < FlowFloor THEN "granted"
    ELSE IF Larger(p.count[g], p.carried[g]) < p.minimum
    THEN IF Fits(p, p.floorShort + FlowFloor) THEN "granted" ELSE "floor"
    ELSE IF Fits(p, p.unfilled + FlowFloor) THEN "granted"
    ELSE IF ~Fits(p, p.unfilled) THEN "reserve" ELSE "spare"

Granted(p, l) ==
    LET g == p.reg[l]
    IN  AddCount([p EXCEPT !.inUse = @ + 1, !.carried[g] = @ + 1, !.cell[l][g] = @ + 1], g, 1)

(* Take; a refusal counts and changes nothing else.                        *)
Take(l) ==
    /\ Counted(pool, l)
    /\ Judge(pool, pool.reg[l]) = "granted"
    /\ pool' = Granted(pool, l)

(* Lease.Release, the first time; later ones change nothing.               *)
Release(l, g) ==
    /\ pool.cell[l][g] > 0
    /\ LET p == [pool EXCEPT !.inUse = @ - 1, !.cell[l][g] = @ - 1]
       IN  pool' = AddCount(IF Counted(pool, l) THEN [p EXCEPT !.carried[pool.reg[l]] = @ - 1]
                            ELSE p, g, -1)

(* Listener and PendingListener.                                           *)
Listen(l, r, accepting) ==
    /\ ~pool.open[l] /\ Flows(pool, l) = 0
    /\ LET p == [pool EXCEPT !.open[l] = TRUE, !.accepting[l] = accepting, !.rule[l] = r]
       IN  \E fresh \in Fresh(p, l) : pool' = Attach(p, l, fresh)

SetRule(l, r) ==
    /\ pool.open[l] /\ pool.rule[l] # r
    /\ LET p == [Detach(pool, l) EXCEPT !.rule[l] = r]
       IN  \E fresh \in Fresh(p, l) : pool' = Attach(p, l, fresh)

Accept(l) ==
    /\ pool.open[l] /\ ~pool.accepting[l]
    /\ \E fresh \in Fresh(pool, l) : pool' = Attach([pool EXCEPT !.accepting[l] = TRUE], l, fresh)

StopAccepting(l) ==
    /\ pool.open[l] /\ pool.accepting[l]
    /\ pool' = Detach([pool EXCEPT !.accepting[l] = FALSE], l)

Close(l) ==
    /\ pool.open[l]
    /\ pool' = Detach([pool EXCEPT !.open[l] = FALSE], l)

FlowStep == \E l \in Listeners : Take(l) \/ \E g \in Regs : Release(l, g)

RuleStep ==
    \E l \in Listeners :
        \/ \E r \in Rules : SetRule(l, r) \/ \E a \in BOOLEAN : Listen(l, r, a)
        \/ Accept(l) \/ StopAccepting(l) \/ Close(l)

Next == FlowStep \/ RuleStep

Spec == Init /\ [][Next]_pool

-----------------------------------------------------------------------------
Sum(f, S) == MapThenSumSet(LAMBDA x : f[x], S)

(* The kept numbers are the ones a full recount would give, after any      *)
(* sequence of splits, merges, closings and resumptions: ledger.go,        *)
(* CheckLedger.  In particular no flow an accepting listener carries is    *)
(* counted in a retired registration.                                      *)
Ledger ==
    LET p == pool
        A == Active(p)
    IN  /\ p.inUse = Sum(p.count, Regs) /\ p.inUse <= Total
        /\ \A g \in Regs :
              /\ p.count[g] = MapThenSumSet(LAMBDA l : p.cell[l][g], Listeners)
              /\ p.carried[g] = MapThenSumSet(LAMBDA l : Flows(p, l), {l \in Listeners : p.reg[l] = g})
        /\ p.minimum = MinimumFor(Cardinality(A))
        /\ p.unfilled = Unfilled(p, p.minimum)
        /\ p.floorShort = Unfilled(p, FlowFloor)
        /\ \A l \in Listeners :
              /\ Counted(p, l) <=> p.open[l] /\ p.accepting[l]
              /\ Counted(p, l) => /\ p.regs[p.rule[l]] = p.reg[l]
                                  /\ \A g \in Regs \ A : p.cell[l][g] = 0

Claim(p) == p.inUse + p.unfilled + FlowFloor

(* The claim u + S + P passes Total only when rules change: taking and     *)
(* returning flows never raises it above Total or raises it further.       *)
ClaimNotRaisedByFlows ==
    [][FlowStep => Claim(pool)' <= IF Claim(pool) > Total THEN Claim(pool) ELSE Total]_pool

FloorsKept(p) == p.inUse + p.floorShort + FlowFloor <= Total

(* As long as the budget can hold every unfilled floor and the spare, only *)
(* a new registration can end that: not a flow, a retirement, a change of  *)
(* the minimum or a move of flows.                                         *)
FloorsLostOnlyToNewRule ==
    [][FloorsKept(pool) /\ ~FloorsKept(pool)' =>
          \E r \in Rules : pool.regs[r] = None /\ pool'.regs[r] # None]_pool

(* While the claim fits, an active registration below its floor or its     *)
(* minimum is served unless its listeners already carry the cap, whoever   *)
(* else holds what; and nobody is refused for budget, reserve or floor.    *)
MinimumServed ==
    Claim(pool) <= Total =>
        \A g \in Active(pool) :
            /\ Judge(pool, g) \notin {"budget", "reserve", "floor"}
            /\ /\ pool.count[g] < FlowFloor \/ (pool.count[g] < pool.minimum
                                                /\ pool.carried[g] < pool.minimum)
               /\ pool.carried[g] < RuleCap
               => Judge(pool, g) = "granted"

(* The pool keeps its books and its promise: the numbers are those of a    *)
(* recount, and a rule below its minimum is served (pool.go: judgeLocked,  *)
(* minimumFor).                                                            *)
PoolHolds == Ledger /\ MinimumServed

(* Who may narrow the budget: flows never raise the claim past Total, and  *)
(* only a new rule can end that every floor fits (attachLocked,            *)
(* judgeLocked).                                                           *)
PoolNarrowsOnlyForRules == ClaimNotRaisedByFlows /\ FloorsLostOnlyToNewRule
=============================================================================
