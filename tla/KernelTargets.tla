--------------------------- MODULE KernelTargets ---------------------------
(***************************************************************************)
(* Which address the kernel-mode dataplane sends a rule to                 *)
(* (internal/agent/kernelmode, nft.PlanAgent).                             *)
(*                                                                         *)
(* The kernel's DNAT names one address.  A host name that resolves to      *)
(* several comes to the smallest one the allow list passes; when the       *)
(* lookup fails, the addresses it came to last are used on.  A TCP rule    *)
(* whose address failed the connection check of two consecutive 30-second  *)
(* checks, while another address of the name answers, is switched over to  *)
(* that one and stays there (a pin); a UDP rule cannot be checked and      *)
(* follows the TCP rules of its name.  A pin is part of the record of the  *)
(* publication, so that a restart keeps it.                                *)
(*                                                                         *)
(* A rule has one port.  Rules are numbered in the order of the record,    *)
(* TCP rules first.  Targets are host names; a literal address has no      *)
(* choice to make and takes no part here.                                  *)
(***************************************************************************)
EXTENDS Naturals, FiniteSets, FiniteSetsExt

CONSTANTS
    NTcp, NUdp,     \* rules 1 .. NTcp are TCP, the NUdp after them UDP
    Hosts, NAddrs,  \* host names; addresses are 1 .. NAddrs, in order
    Allow,          \* allowed addresses of a rule: [Rules -> SUBSET Addrs]
    Decls,          \* declarations: [Rules -> host or None]
    Answers,        \* lookups: [Hosts -> set of addresses or Failed]
    MaxCandidates,  \* other addresses of a rule one check may try
    MaxProbes,      \* destinations one check may try
    MaxChanges,     \* bound: declarations, lookups that differ, hosts that
                    \* come and go, failures and restarts
    None, Failed

Tcp == 1 .. NTcp
Rules == 1 .. NTcp + NUdp
Addrs == 1 .. NAddrs

VARIABLES
    decl,     \* the declaration in force (LastState)
    pending,  \* the declaration that waits to be applied, or None
    pub,      \* d.Pub: per rule the target, its address and the pin used
    lkg,      \* per rule the addresses its target came to last
    pin,      \* per rule the address used instead of the smallest
    failed,   \* per rule the destination that failed the last check
    tried,    \* failoverLast: the rule the last switch-over tried last, or 0
    leaving,  \* host and address pairs TCP rules left
    file,     \* the publication in the credentials file
    alive,    \* pairs of a TCP rule and an address that answers at its port
    answer,   \* what lookups come to now
    flows,    \* UDP flows: rule, address, and whether TCP rules of the name
              \* left the address while the flow used it
    phase,    \* where the 30-second tick is: "retry", "observe" or "refresh"
    changes,
    checked   \* the last check of the address in use: "none", "ok", "bad"

vars == <<decl, pending, pub, lkg, pin, failed, tried, leaving, file, alive,
          answer, flows, phase, changes, checked>>

Change == changes < MaxChanges /\ changes' = changes + 1

-----------------------------------------------------------------------------
(***************************************************************************)
(* planWith, planRules and PlanAgent.                                      *)
(***************************************************************************)
Unpublished(t) == [target |-> t, dest |-> None, pinned |-> None]

(* planAgentRule: the smallest allowed address, or the preferred one when it
   is among the addresses and allowed. *)
PlanRule(r, t, addrs, prefer) ==
    LET usable == addrs \cap Allow[r]
    IN  IF usable = {} THEN Unpublished(t)
        ELSE IF prefer \in usable THEN [target |-> t, dest |-> prefer, pinned |-> prefer]
        ELSE [target |-> t, dest |-> Min(usable), pinned |-> None]

(* The addresses of target t of rule r: the answer, or when the lookup
   failed the last ones of the same target. *)
AddrsFor(r, t) ==
    IF answer[t] # Failed THEN answer[t]
    ELSE IF lkg[r] # None /\ lkg[r].target = t THEN lkg[r].addrs ELSE {}

PlanRules(d, prefer) ==
    [r \in Rules |-> IF d[r] = None THEN Unpublished(None)
                     ELSE PlanRule(r, d[r], AddrsFor(r, d[r]), prefer[r])]

NextLkg(d) ==
    [r \in Rules |-> IF d[r] = None \/ AddrsFor(r, d[r]) = {} THEN None
                     ELSE [target |-> d[r], addrs |-> AddrsFor(r, d[r])]]

(* The pins of the TCP rules whose target stayed the same. *)
OwnPin(d, pins) ==
    [r \in Rules |-> IF r \in Tcp /\ pins[r] # None /\ pins[r].target = d[r]
                     THEN pins[r].addr ELSE None]

(* A UDP rule follows the first TCP rule of its name that is switched. *)
Follow(d, plan, prefer) ==
    [r \in Rules |->
        LET led == {q \in Tcp : plan[q].pinned # None /\ plan[q].target = d[r]}
        IN  IF r \notin Tcp /\ led # {} THEN plan[Min(led)].pinned ELSE prefer[r]]

Plan(d, pins) ==
    LET own == OwnPin(d, pins) IN PlanRules(d, Follow(d, PlanRules(d, own), own))

PinsOf(plan) ==
    [r \in Rules |-> IF r \in Tcp /\ plan[r].pinned # None
                     THEN [target |-> plan[r].target, addr |-> plan[r].pinned] ELSE None]

(* Mutant: a failure counts whatever the rule has been sent to since. *)
PruneUnpublished(fl, plan) == [r \in Rules |-> IF plan[r].dest = None THEN None ELSE fl[r]]

(* pruneFailed: a failure counts only for the destination it is of. *)
PruneFailed(fl, plan) ==
    [r \in Rules |-> IF fl[r] # None /\ fl[r].dest = plan[r].dest /\ fl[r].target = plan[r].target
                     THEN fl[r] ELSE None]

-----------------------------------------------------------------------------
(***************************************************************************)
(* failover.                                                               *)
(***************************************************************************)

(* AgentCandidates for the rule as it is published. *)
Candidates(r) == AddrsFor(r, pub[r].target) \cap Allow[r]

Firsts(S, n) == {a \in S : Cardinality({b \in S : b < a}) < n}

(* The other addresses one check may try. *)
Others(r) == Firsts(Candidates(r) \ {failed[r].dest}, MaxCandidates)

Eligible ==
    {r \in Tcp : /\ failed[r] # None /\ pub[r].dest # None
                 /\ failed[r].dest \in Candidates(r) /\ Others(r) # {}}

(* Mutant: every check starts at the first rule. *)
BeforeInOrder(a, b) == a < b

(* The rules after the one tried last come first. *)
Before(a, b) == IF (a > tried) = (b > tried) THEN a < b ELSE a > tried

Probes(r) == 1 + Cardinality(Others(r))

(* The rules tried: in turn, as long as their destinations fit.  No two rules
   share a destination, since their targets have different ports. *)
Tried ==
    {r \in Eligible :
        MapThenSumSet(Probes, {q \in Eligible : q = r \/ Before(q, r)}) <= MaxProbes}

Answering(r) == {a \in Others(r) : <<r, a>> \in alive}

Switched == {r \in Tried : <<r, failed[r].dest>> \notin alive /\ Answering(r) # {}}

PinsAfter ==
    [r \in Rules |->
        IF r \notin Switched THEN pin[r]
        ELSE IF Min(Answering(r)) = Min(Candidates(r)) THEN None
        ELSE [target |-> pub[r].target, addr |-> Min(Answering(r))]]

FailedAfter ==
    [r \in Rules |-> IF r \in Switched \/ (r \in Tried /\ <<r, failed[r].dest>> \in alive)
                     THEN None ELSE failed[r]]

Left == {<<pub[r].target, failed[r].dest>> : r \in Switched}

-----------------------------------------------------------------------------
(***************************************************************************)
(* publish: closeLeftUDP runs when the publication changes a destination.  *)
(***************************************************************************)
SameDNATs(plan) == \A r \in Rules : plan[r].dest = pub[r].dest

(* Mutant: any publication takes the addresses left. *)
LeavingAfterAny(plan, l) == {}

(* A publication of the same destinations has not moved the UDP rules. *)
LeavingAfter(plan, l) == IF SameDNATs(plan) THEN l ELSE {}

(* The UDP flows of fs that closeLeftUDP closes. *)
ClosedLeft(plan, l, fs) ==
    {f \in fs : /\ <<pub[f.rule].target, f.addr>> \in l
                /\ pub[f.rule].dest = f.addr
                /\ plan[f.rule].dest # f.addr \/ plan[f.rule].target # pub[f.rule].target}

(* Flows of a port whose declaration changed: the convergence closes them. *)
Undeclared(plan, fs) == {f \in fs : plan[f.rule].target # pub[f.rule].target}

(* The flows after a publication.  A flow stays abandoned until its rule was
   published anew at the same address, or closing flows failed. *)
FlowsAfter(plan, l, fs, closes) ==
    LET kept == fs \ (Undeclared(plan, fs)
                      \cup IF closes /\ ~SameDNATs(plan) THEN ClosedLeft(plan, l, fs) ELSE {})
        excused(f) == ~SameDNATs(plan) /\ (~closes \/ plan[f.rule].dest = f.addr)
    IN  {[f EXCEPT !.abandoned = @ /\ ~excused(f)] : f \in kept}

Checked(plan) ==
    [r \in Rules |-> IF plan[r].dest = pub[r].dest /\ plan[r].target = pub[r].target
                     THEN checked[r] ELSE "none"]

(* publish, and the save of the credentials file its caller makes. *)
Publish(d, plan, l, fs) ==
    \E closes, saved \in BOOLEAN :
        /\ pub' = plan
        /\ leaving' = LeavingAfter(plan, l)
        /\ flows' = FlowsAfter(plan, l, fs, closes)
        /\ checked' = Checked(plan)
        /\ file' = IF saved THEN [decl |-> d, pub |-> plan] ELSE file
        /\ IF closes /\ saved THEN UNCHANGED changes ELSE Change

(* The kernel, or reading it, refused: the old table and record stay. *)
NotPublished(l, fs) ==
    /\ Change
    /\ leaving' = l
    /\ flows' = fs
    /\ UNCHANGED <<pub, file, checked>>

-----------------------------------------------------------------------------
(***************************************************************************)
(* The agent's steps.                                                      *)
(***************************************************************************)
Receive(d) ==
    /\ d # decl
    /\ pending' = d
    /\ Change
    /\ UNCHANGED <<decl, pub, lkg, pin, failed, tried, leaving, file, alive,
                   answer, flows, checked, phase>>

(* What planWith keeps: the addresses, the pins and the failures. *)
Planned(d, pins, fl) ==
    /\ lkg' = NextLkg(d)
    /\ pin' = PinsOf(Plan(d, pins))
    /\ failed' = PruneFailed(fl, Plan(d, pins))

(* ApplyRules. *)
ApplyRules ==
    /\ pending # None
    /\ Planned(pending, pin, failed)
    /\ \/ Publish(pending, Plan(pending, pin), leaving, flows) /\ decl' = pending /\ pending' = None
       \/ NotPublished(leaving, flows) /\ UNCHANGED <<decl, pending>>
    /\ UNCHANGED <<tried, alive, answer>>

(* A state of the stream, or at the start the one of the file. *)
Apply == ApplyRules /\ UNCHANGED phase

(* The tick first tries again what could not be applied. *)
Retry ==
    /\ phase = "retry"
    /\ phase' = "observe"
    /\ \/ ApplyRules
       \/ /\ pending = None
          /\ UNCHANGED <<decl, pending, pub, lkg, pin, failed, tried, leaving, file,
                         alive, answer, flows, changes, checked>>

Abandoned ==
    {[f EXCEPT !.abandoned = @ \/ /\ <<pub[f.rule].target, f.addr>> \in Left
                                  /\ pub[f.rule].dest = f.addr] : f \in flows}

(* ObserveCommit: failover, planWith, and a publication when an address
   changed.  With no change only the record is written anew. *)
Review ==
    /\ phase = "observe"
    /\ phase' = "refresh"
    /\ pending = None
    /\ tried' = IF Tried = {} THEN tried
                ELSE CHOOSE r \in Tried : \A q \in Tried \ {r} : Before(q, r)
    /\ Planned(decl, PinsAfter, FailedAfter)
    /\ LET plan == Plan(decl, PinsAfter)
           l == leaving \cup Left
       IN  \/ Publish(decl, plan, l, Abandoned)
           \/ ~SameDNATs(plan) /\ NotPublished(l, Abandoned)
    /\ UNCHANGED <<decl, pending, alive, answer>>

(* The retry that is waited for will publish. *)
ReviewBusy ==
    /\ phase = "observe"
    /\ phase' = "refresh"
    /\ pending # None
    /\ UNCHANGED <<decl, pending, pub, lkg, pin, failed, tried, leaving, file, alive,
                   answer, flows, changes, checked>>

(* ObserveNotified: a change from outside is repaired with the publication as
   it is, without lookups. *)
Repair ==
    /\ pending = None
    /\ Change
    /\ leaving' = LeavingAfter(pub, leaving)
    /\ UNCHANGED <<decl, pending, pub, lkg, pin, failed, tried, file, alive,
                   answer, flows, checked, phase>>

(* Refresh: probeAll and noteFailures. *)
Refresh ==
    LET bad == {r \in Tcp : pub[r].dest # None /\ <<r, pub[r].dest>> \notin alive}
    IN  /\ phase = "refresh"
        /\ phase' = "retry"
        /\ failed' = [r \in Rules |-> IF r \in bad THEN [dest |-> pub[r].dest, target |-> pub[r].target]
                                      ELSE None]
        /\ checked' = [r \in Rules |-> IF r \in bad THEN "bad" ELSE "ok"]
        /\ UNCHANGED <<decl, pending, pub, lkg, pin, tried, leaving, file, alive,
                       answer, flows, changes>>

(* loadRecord: the addresses in use are all that is known of a name. *)
Loaded(p) ==
    /\ pub' = p
    /\ lkg' = [r \in Rules |-> IF p[r].dest = None THEN None
                               ELSE [target |-> p[r].target, addrs |-> {p[r].dest}]]
    /\ pin' = [r \in Rules |-> IF p[r].pinned = None THEN None
                               ELSE [target |-> p[r].target, addr |-> p[r].pinned]]

(* The agent stops at any point and starts again; its first work is to apply
   the state of the file. *)
Restart ==
    /\ Change
    /\ Loaded(file.pub)
    /\ decl' = file.decl
    /\ pending' = file.decl
    /\ failed' = [r \in Rules |-> None]
    /\ tried' = 0
    /\ phase' = "retry"
    /\ leaving' = {}
    /\ flows' = {[f EXCEPT !.abandoned = FALSE] : f \in flows}
    /\ checked' = [r \in Rules |-> "none"]
    /\ UNCHANGED <<file, alive, answer>>

-----------------------------------------------------------------------------
(***************************************************************************)
(* The environment: UDP traffic, targets that come and go, the name        *)
(* service.                                                                *)
(***************************************************************************)
NewFlow(r) ==
    /\ r \notin Tcp /\ pub[r].dest # None
    /\ \A f \in flows : f.rule # r \/ f.addr # pub[r].dest
    /\ flows' = flows \cup {[rule |-> r, addr |-> pub[r].dest, abandoned |-> FALSE]}
    /\ UNCHANGED <<decl, pending, pub, lkg, pin, failed, tried, leaving, file, alive,
                   answer, changes, checked, phase>>

Turn(r, a) ==
    /\ Change
    /\ alive' = IF <<r, a>> \in alive THEN alive \ {<<r, a>>} ELSE alive \cup {<<r, a>>}
    /\ UNCHANGED <<decl, pending, pub, lkg, pin, failed, tried, leaving, file,
                   answer, flows, checked, phase>>

Rename(w) ==
    /\ w # answer
    /\ Change
    /\ answer' = w
    /\ UNCHANGED <<decl, pending, pub, lkg, pin, failed, tried, leaving, file, alive,
                   flows, checked, phase>>

Init ==
    LET none == [r \in Rules |-> Unpublished(None)] IN
    /\ decl = [r \in Rules |-> None]
    /\ pending \in Decls
    /\ pub = none
    /\ lkg = [r \in Rules |-> None]
    /\ pin = [r \in Rules |-> None]
    /\ failed = [r \in Rules |-> None]
    /\ tried = 0
    /\ phase = "retry"
    /\ leaving = {}
    /\ file = [decl |-> decl, pub |-> none]
    /\ alive \in SUBSET (Tcp \X Addrs)
    /\ answer \in Answers
    /\ flows = {}
    /\ changes = 0
    /\ checked = [r \in Rules |-> "none"]

Next ==
    \/ \E d \in Decls : Receive(d)
    \/ Apply
    \/ Retry
    \/ Review
    \/ ReviewBusy
    \/ Repair
    \/ Refresh
    \/ Restart
    \/ \E r \in Rules : NewFlow(r)
    \/ \E r \in Tcp, a \in Addrs : Turn(r, a)
    \/ \E w \in Answers : Rename(w)

Spec == Init /\ [][Next]_vars

(* The timer goes on; the changes that make its steps fail are finitely
   many. *)
FairSpec == Spec /\ []<>(phase = "retry") /\ []<>(phase = "refresh")

-----------------------------------------------------------------------------
(***************************************************************************)
(* Properties.                                                             *)
(***************************************************************************)

(* A TCP rule is sent to another address than the smallest only after the
   address in use failed two checks in a row while the new one answers; a
   restart takes the choice from the record.  The choice is dropped only when
   the target changed, when the address is no longer one of the name's that
   the allow list passes, or when it failed in the same way (noteFailures,
   failover, planWith, pruneFailed, loadRecord). *)
PinStep ==
    \A r \in Tcp : pin'[r] # pin[r] =>
       \/ pub' = file.pub /\ pin'[r] = (IF file.pub[r].pinned = None THEN None
                                       ELSE [target |-> file.pub[r].target,
                                             addr |-> file.pub[r].pinned])
       \/ checked[r] = "bad" /\ <<r, pub[r].dest>> \notin alive
          /\ (pin'[r] = None \/ <<r, pin'[r].addr>> \in alive)
       \/ /\ pin'[r] = None
          /\ LET d == IF pending = None THEN decl ELSE pending
             IN  \/ pin[r].target # d[r]
                 \/ pin[r].addr \notin AddrsFor(r, d[r]) \cap Allow[r]

PinMovesOnlyOnFailure == [][PinStep]_vars

(* A UDP flow to an address that the TCP rules of its name left does not
   outlive the move of its own rule, however late that move is published
   (closeLeftUDP, publish): a user who keeps sending from one port would
   otherwise stay on the address that does not answer. *)
LeftFlowsClosed == \A f \in flows : f.abandoned => pub[f.rule].dest = f.addr

(* In the end no TCP rule is sent to an address that does not answer while
   one that the check may try does, however few destinations a check may try
   and however many rules fail for good; and the UDP rules are where the
   first switched TCP rule of their name is, if they may be. *)
Best(r) ==
    \/ pub[r].dest = None
    \/ <<r, pub[r].dest>> \in alive
    \/ \A a \in Firsts(Candidates(r) \ {pub[r].dest}, MaxCandidates) : <<r, a>> \notin alive

Following(r) ==
    \A q \in Tcp : /\ pub[q].pinned # None /\ pub[q].target = pub[r].target
                   /\ \A x \in 1 .. q - 1 : pub[x].pinned = None \/ pub[x].target # pub[r].target
                   /\ pub[q].pinned \in Candidates(r)
                   => pub[r].dest = pub[q].pinned

Settled == \A r \in Rules : pub[r].target # None => IF r \in Tcp THEN Best(r) ELSE Following(r)

Settles == <>[]Settled
=============================================================================
