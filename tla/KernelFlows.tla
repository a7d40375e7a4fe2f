---------------------------- MODULE KernelFlows ----------------------------
(***************************************************************************)
(* The kernel-mode dataplane of an agent (internal/agent/kernelmode): the  *)
(* table it publishes, the record it keeps of its publications, and the    *)
(* established flows it closes when a declaration changes.                 *)
(*                                                                         *)
(* Replacing table inet wgft_agent leaves the conntrack entries in place,  *)
(* so after every publication the dataplane closes the flows the new one   *)
(* no longer allows.  conntrack records the address a flow was sent to,    *)
(* not the declaration that sent it there: the dataplane tells its own     *)
(* flows, and what they were declared as, from the list of publications    *)
(* that were not converged yet.  The list lives in the credentials file    *)
(* and survives a restart.                                                 *)
(*                                                                         *)
(* The rules have one listening port each, and a port belongs to one rule. *)
(* A target is an address or a host name, and a publication gives every    *)
(* declared port its target and the address it is sent to, None when no    *)
(* address could be used.  Which address a host name comes to is chosen    *)
(* here; KernelTargets models the choice.                                  *)
(***************************************************************************)
EXTENDS Naturals, Sequences, FiniteSets

CONSTANTS
    Ports,           \* listening ports
    Hosts, Addrs,    \* host names and addresses
    HostAddrs,       \* the addresses a host name may resolve to
    Loopback,        \* the loopback addresses among Addrs
    Decls,           \* declarations: [Ports -> target or None]
    Allows,          \* target allow lists a process may be started with
    MaxUnconverged,  \* length of the list of unconverged publications
    MaxPubs,         \* bound: declarations and resolutions that change something
    MaxFaults,       \* bound: failures, crashes and changes from outside
    MaxFlows,        \* bound: established flows
    None

VARIABLES
    udp,       \* the ports of UDP rules
    up,        \* "down", "boot" before the recorded state was applied, or "run"
    allow,     \* its target allow list
    last,      \* rt.f.LastState: the declaration processed last, or None
    pending,   \* rt.pendingSt: a declaration to be published, or None
    prep,      \* the 30-second check between its two halves, or None
    dp,        \* the dataplane's memory
    file,      \* the credentials file
    table,     \* table inet wgft_agent
    link,      \* wgft0 is as declared
    localnet,  \* route_localnet of wgft0
    flows,     \* conntrack entries of flows that came in through wgft0
    touched,   \* an outsider touched the loopback guard since the last check
    faults, pubs

kernel == <<table, link, localnet, flows>>
vars == <<udp, up, allow, last, pending, prep, dp, file, table, link, localnet, flows,
          touched, faults, pubs>>

(***************************************************************************)
(* Publications.                                                           *)
(***************************************************************************)
Undeclared == [target |-> None, dest |-> None]

(* Addresses a target can be sent to under the allow list: PlanAgent. *)
Dests(t, al) == (IF t \in Hosts THEN HostAddrs[t] ELSE {t}) \cap al

(* A literal address is published when it is allowed; a host name may also
   have no address at the moment. *)
Planned(t, al) ==
    IF t = None THEN {Undeclared}
    ELSE LET to == IF t \in Hosts \/ Dests(t, al) = {}
                   THEN Dests(t, al) \cup {None} ELSE Dests(t, al)
         IN  {[target |-> t, dest |-> d] : d \in to}

Plans(d, al) ==
    {p \in [Ports -> UNION {Planned(d[q], al) : q \in Ports}] :
        \A q \in Ports : p[q] \in Planned(d[q], al)}

DNATs(p) == [q \in Ports |-> p[q].dest]
Declared(p) == [q \in Ports |-> p[q].target]
HasLoopback(p) == \E q \in Ports : p[q].dest \in Loopback

-----------------------------------------------------------------------------
(***************************************************************************)
(* The list of unconverged publications.                                   *)
(***************************************************************************)

AppendUnconverged(list, p) ==
    LET n == Len(list)
        long == IF n > 0 /\ DNATs(list[n]) = DNATs(p) /\ Declared(list[n]) = Declared(p)
                THEN [list EXCEPT ![n] = p] ELSE Append(list, p)
    IN  SubSeq(long, IF Len(long) > MaxUnconverged THEN Len(long) - MaxUnconverged + 1 ELSE 1,
               Len(long))

Overflows(list, p) == Len(AppendUnconverged(list, p)) < Len(list) + 1
                      /\ Len(list) = MaxUnconverged
                      /\ AppendUnconverged(list, p)[1] # list[1]

(***************************************************************************)
(* classifyAgentFlow.                                                      *)
(***************************************************************************)

(* The strength with which declaration d could have made a flow to an
   address: a host name is matched by the port alone. *)
Produced(d, to) ==
    IF d.target = None THEN "none"
    ELSE IF d.target \in Hosts THEN "port"
    ELSE IF d.target = to THEN "addr" ELSE "none"

Follow(origin, later) ==
    IF later.target = None THEN "removed"
    ELSE IF later.target # origin.target THEN "retargeted" ELSE "keep"

Newest(S) == CHOOSE i \in S : \A j \in S : j <= i

(* Mutant: the flow is judged by its declaration before its address. *)
OriginByDeclaration(f, list) ==
    LET made == {i \in 1 .. Len(list) : Produced(list[i][f.port], f.to) # "none"}
    IN  IF made # {} THEN Newest(made) ELSE 0

(* The publication the flow is taken to come from: the newest that sent the
   port to the flow's address, and otherwise the newest whose declaration
   could have.  0 when there is none. *)
Origin(f, list) ==
    LET sent == {i \in 1 .. Len(list) : list[i][f.port].dest = f.to}
        made == {i \in 1 .. Len(list) : Produced(list[i][f.port], f.to) # "none"}
    IN  IF sent # {} THEN Newest(sent)
        ELSE IF made # {} THEN Newest(made) ELSE 0

(* Mutant: a flow to a refused address is kept while its target is. *)
VerdictWithoutAllow(f, list, cur, al) ==
    LET i == Origin(f, list)
        later == Append(SubSeq(list, i + 1, Len(list)), cur)
        broken == {j \in 1 .. Len(later) :
                     Follow(list[i][f.port], later[j][f.port]) # "keep"}
    IN  IF cur[f.port].dest = f.to THEN "keep"
        ELSE IF i = 0 THEN "foreign"
        ELSE IF broken # {} THEN "retargeted" ELSE "keep"

(* Mutant: a flow is retargeted when its port is sent to another address. *)
VerdictByAddress(f, list, cur, al) ==
    IF cur[f.port].dest = f.to THEN "keep"
    ELSE IF Origin(f, list) = 0 THEN "foreign" ELSE "retargeted"

(* The later publications are followed in order, the current one last. *)
Verdict(f, list, cur, al) ==
    LET i == Origin(f, list)
        later == Append(SubSeq(list, i + 1, Len(list)), cur)
        broken == {j \in 1 .. Len(later) :
                     Follow(list[i][f.port], later[j][f.port]) # "keep"}
        byAddr == list[i][f.port].dest = f.to \/ Produced(list[i][f.port], f.to) = "addr"
    IN  IF cur[f.port].dest = f.to THEN "keep"
        ELSE IF i = 0 THEN "foreign"
        ELSE IF broken # {}
             THEN Follow(list[i][f.port],
                         later[CHOOSE j \in broken : \A m \in broken : j <= m][f.port])
        ELSE IF byAddr /\ f.to \notin al THEN "notAllowed" ELSE "keep"

(* convergeAgent and deleteCount: the flows that are to be deleted. *)
Doomed(S, list, cur, al) ==
    IF list = <<>> THEN {}
    ELSE {f \in S : Verdict(f, list, cur, al) \in {"removed", "retargeted", "notAllowed"}}

(***************************************************************************)
(* What a publication means for the flows, whatever the dataplane          *)
(* remembers.  decl is the target the flow is carried under.  A flow to    *)
(* the address now published is carried on; a flow is owed its end once    *)
(* its port is declared otherwise.  aged: a convergence kept the flow      *)
(* though the port is now sent elsewhere.  lost: the record of the         *)
(* publication that made the flow may be gone.                             *)
(***************************************************************************)
Judged(f, p) ==
    IF p[f.port].dest = f.to
    THEN [f EXCEPT !.decl = p[f.port].target, !.owed = FALSE, !.aged = FALSE, !.lost = FALSE]
    ELSE [f EXCEPT !.owed = @ \/ p[f.port].target # f.decl]

Aged(f, p) == [f EXCEPT !.aged = @ \/ p[f.port].dest # f.to]

LosesRecord(S) == {[f EXCEPT !.lost = TRUE] : f \in S}

-----------------------------------------------------------------------------
(***************************************************************************)
(* What can go wrong in one step.  fp: the fingerprint was read back.      *)
(* net: route_localnet could not be read, or not written.  conv:           *)
(* conntrack could not be read or an entry not deleted.  save: the         *)
(* credentials file was written.  A crash in the middle of a publication   *)
(* is the outcome in which neither the flows nor the record followed,      *)
(* and then Crash.                                                         *)
(***************************************************************************)
AllWell == [fp |-> TRUE, net |-> "ok", conv |-> TRUE, save |-> TRUE]
Outcomes == {AllWell,
             [AllWell EXCEPT !.fp = FALSE], [AllWell EXCEPT !.net = "noread"],
             [AllWell EXCEPT !.net = "nowrite"], [AllWell EXCEPT !.conv = FALSE],
             [AllWell EXCEPT !.save = FALSE], [AllWell EXCEPT !.conv = FALSE, !.save = FALSE]}
Spend(n) == faults + n <= MaxFaults /\ faults' = faults + n
Cost(o) == IF o = AllWell THEN 0 ELSE 1

(* syncLocalnet: the value after matching it to want, given the record p. *)
Synced(cur, want, net, p) ==
    IF net = "nowrite" THEN cur
    ELSE IF net = "noread" /\ ~want /\ (p = None \/ ~HasLoopback(p)) THEN cur
    ELSE want

NetDone(net) == net = "ok"

Saved(d, l) == [last |-> l, pub |-> d.pub, unconv |-> d.unconv]

(* convergeFlows: doomed flows are deleted; those in left could not be, and
   the list stays.  Flows kept by a convergence that finished are marked. *)
Converged(S, list, cur, left) ==
    LET doomed == Doomed(S, list, cur, allow)
    IN  IF left = None THEN {Aged(f, cur) : f \in S \ doomed} ELSE (S \ doomed) \cup left

Lefts(S, list, cur, ok) ==
    LET doomed == Doomed(S, list, cur, allow)
    IN  IF ok \/ list = <<>> THEN {None}
        ELSE IF doomed = {} THEN {{}} ELSE {left \in SUBSET doomed : left # {}}

(* closeLeftUDP: a review may close UDP flows to an address their rule left. *)
LeftUDP(S, next) ==
    {f \in S : f.port \in udp /\ f.decl \in Hosts /\ next[f.port].dest # f.to}

(* publish, after the batch went through: net0 is route_localnet before. *)
Publish(next, o, net0, gone) ==
    /\ table' = [present |-> TRUE, mine |-> TRUE, pub |-> next]
    /\ localnet' = Synced(net0, HasLoopback(next), o.net, next)
    /\ touched' = (touched /\ ~NetDone(o.net))
    /\ LET list == IF dp.pub = None THEN dp.unconv ELSE AppendUnconverged(dp.unconv, dp.pub)
           cut == dp.pub # None /\ Overflows(dp.unconv, dp.pub)
           known == IF cut THEN LosesRecord(flows) ELSE flows
           seen == {Judged(f, next) : f \in known \ gone}
       IN  \E left \in Lefts(seen, list, next, o.conv) :
             /\ flows' = Converged(seen, list, next, left)
             /\ dp' = [dp EXCEPT !.pub = next, !.fpKnown = o.fp, !.converged = TRUE,
                                 !.unconv = IF left = None THEN <<>> ELSE list]

(***************************************************************************)
(* ApplyRules of a full state, from the stream or retried, with what       *)
(* finishApplyLocked does after it.  wgft0 is converged first, and a table *)
(* that cannot be published leaves the old one and its record.             *)
(***************************************************************************)
Apply(d) ==
    /\ \E next \in Plans(d, allow), o \in Outcomes :
         /\ Spend(Cost(o))
         /\ Publish(next, o, localnet /\ link, {})
         /\ link' = TRUE
         /\ last' = d /\ pending' = None
         /\ prep' = IF prep = None THEN None ELSE [prep EXCEPT !.st = None]
         /\ file' = IF o.save THEN Saved(dp', d) ELSE file
    /\ up' = "run"
    /\ UNCHANGED allow

Receive(d) == up = "run" /\ pubs < MaxPubs /\ pubs' = pubs + 1 /\ Apply(d)

Retry == up # "down" /\ pending # None /\ Apply(pending) /\ UNCHANGED pubs

(* EnsureLink or the batch failed. *)
ApplyFails(d, linked) ==
    /\ up # "down" /\ (up = "boot" => d = pending) /\ Spend(1)
    /\ up' = "run"
    /\ pending' = d
    /\ link' = (link \/ linked) /\ localnet' = (localnet /\ (link \/ ~linked))
    /\ dp' = [dp EXCEPT !.converged = @ \/ linked]
    /\ UNCHANGED <<allow, last, prep, file, table, flows, touched, pubs>>

-----------------------------------------------------------------------------
(***************************************************************************)
(* The checks.  ObservePrepare resolves names without rt.mu; its result is *)
(* dropped when another declaration was processed meanwhile.  A check      *)
(* after a notification has no first half and keeps the published          *)
(* addresses.                                                              *)
(***************************************************************************)
Idle == last # None /\ pending = None /\ dp.converged

ObservePrepare ==
    /\ up = "run" /\ prep = None /\ last # None /\ pending = None
    /\ \E next \in Plans(last, allow) :
         /\ prep' = [st |-> last, next |-> next]
         /\ IF DNATs(next) = DNATs(dp.pub) THEN UNCHANGED pubs
            ELSE pubs < MaxPubs /\ pubs' = pubs + 1
    /\ UNCHANGED <<up, allow, last, pending, dp, file, kernel, touched, faults>>

(* Mutant: only a table that is gone is published again. *)
TableGone == ~table.present

TableDrift == ~table.present \/ ~dp.fpKnown \/ ~table.mine

(* Mutant: the guard is left as it is while the table is not ours. *)
NetOnReviewLate(net) ==
    IF link THEN Synced(localnet, HasLoopback(dp.pub), net, dp.pub) ELSE localnet

(* repair, before anything is written: while the table is not ours the
   loopback guard goes down, and when all is as declared it is put back. *)
NetOnReview(net) ==
    IF TableDrift THEN Synced(localnet, FALSE, net, dp.pub)
    ELSE IF link THEN Synced(localnet, HasLoopback(dp.pub), net, dp.pub)
    ELSE localnet

(* Nothing to publish: only the guard was looked at. *)
ReviewQuiet(next, net) ==
    /\ ~TableDrift /\ link /\ DNATs(next) = DNATs(dp.pub)
    /\ localnet' = NetOnReview(net)
    /\ touched' = (touched /\ ~NetDone(net))
    /\ UNCHANGED <<dp, file, table, link, flows>>

(* The gate is closed, wgft0 could not be converged, or the batch failed. *)
ReviewStops(next, net, linked) ==
    /\ TableDrift \/ ~link \/ DNATs(next) # DNATs(dp.pub)
    /\ localnet' = (NetOnReview(net) /\ (link \/ ~linked))
    /\ link' = (link \/ linked)
    /\ touched' = (touched /\ ~(TableDrift /\ NetDone(net)))
    /\ UNCHANGED <<dp, file, table, flows>>

ReviewPublishes(next, o, leaves) ==
    /\ TableDrift \/ ~link \/ DNATs(next) # DNATs(dp.pub)
    /\ Publish(next, o, NetOnReview(o.net) /\ link,
               IF leaves /\ DNATs(next) # DNATs(dp.pub) THEN LeftUDP(flows, next) ELSE {})
    /\ link' = TRUE
    /\ file' = IF o.save THEN Saved(dp', last) ELSE file

Review(next, leaves) ==
    \/ \E net \in {"ok", "noread", "nowrite"} :
         Spend(IF net = "ok" THEN 0 ELSE 1) /\ ReviewQuiet(next, net)
    \/ \E linked \in BOOLEAN : Spend(1) /\ ReviewStops(next, "ok", linked)
    \/ \E o \in Outcomes : Spend(Cost(o)) /\ ReviewPublishes(next, o, leaves)

ObserveCommit ==
    /\ prep # None
    /\ prep' = None
    /\ IF prep.st # None /\ Idle THEN \E leaves \in BOOLEAN : Review(prep.next, leaves)
       ELSE UNCHANGED <<dp, file, kernel, touched, faults>>
    /\ UNCHANGED <<up, allow, last, pending, pubs>>

ObserveNotified ==
    /\ up = "run" /\ Idle
    /\ Review(dp.pub, FALSE)
    /\ UNCHANGED <<up, allow, last, pending, prep, pubs>>

(* Refresh: a convergence that did not finish is tried again, with the table
   left as it is; the record is saved when it finished. *)
Refresh ==
    /\ up = "run" /\ dp.converged /\ dp.unconv # <<>>
    /\ \E ok, save \in BOOLEAN :
         /\ Spend(IF ok /\ save THEN 0 ELSE 1)
         /\ \E left \in Lefts(flows, dp.unconv, dp.pub, ok) :
              /\ flows' = Converged(flows, dp.unconv, dp.pub, left)
              /\ dp' = IF left = None THEN [dp EXCEPT !.unconv = <<>>] ELSE dp
         /\ file' = IF ok /\ save THEN Saved(dp', last) ELSE file
    /\ UNCHANGED <<up, allow, last, pending, prep, table, link, localnet, touched, pubs>>

-----------------------------------------------------------------------------
(***************************************************************************)
(* The process, the traffic and the world outside.                         *)
(***************************************************************************)
Fresh(f) == [pub |-> f.pub, unconv |-> f.unconv, fpKnown |-> FALSE, converged |-> FALSE]

(* loadRecord and Startup: without the table, wgft0's route_localnet is put
   to 0.  The declaration processed last is published first. *)
Start ==
    /\ up = "down"
    /\ \E al \in Allows, net \in {"ok", "noread", "nowrite"} :
         /\ Spend(IF net = "ok" THEN 0 ELSE 1)
         /\ allow' = al
         /\ localnet' = IF link /\ ~table.present
                        THEN Synced(localnet, FALSE, net, file.pub) ELSE localnet
         /\ touched' = (touched /\ ~(link /\ ~table.present /\ NetDone(net)))
    /\ up' = IF file.last = None THEN "run" ELSE "boot"
    /\ dp' = Fresh(file) /\ last' = file.last /\ pending' = file.last
    /\ UNCHANGED <<prep, file, table, link, flows, pubs>>

(* The kernel keeps wgft0, the table and the flows. *)
Crash ==
    /\ up # "down" /\ Spend(1)
    /\ up' = "down" /\ prep' = None /\ last' = None /\ pending' = None
    /\ dp' = Fresh(file)
    /\ flows' = IF file.pub = dp.pub /\ file.unconv = dp.unconv THEN flows ELSE LosesRecord(flows)
    /\ UNCHANGED <<allow, file, table, link, localnet, touched, pubs>>

(* A first packet of a flow: the kernel translates it by the table it has. *)
NewFlow(q) ==
    /\ link /\ table.present /\ table.pub[q].dest # None
    /\ Cardinality(flows) < MaxFlows
    /\ \A f \in flows : f.port = q => f.to # table.pub[q].dest
    /\ flows' = flows \cup {[port |-> q, to |-> table.pub[q].dest, decl |-> table.pub[q].target,
                             owed |-> FALSE, aged |-> FALSE, lost |-> table.pub # dp.pub]}
    /\ UNCHANGED <<up, allow, last, pending, prep, dp, file, table, link, localnet, touched,
                   faults, pubs>>

OutsideTable(stays) ==
    /\ table.present /\ Spend(1)
    /\ table' = [table EXCEPT !.present = stays, !.mine = FALSE]
    /\ touched' = TRUE
    /\ UNCHANGED <<up, allow, last, pending, prep, dp, file, link, localnet, flows, pubs>>

OutsideLink ==
    /\ link /\ Spend(1)
    /\ link' = FALSE /\ localnet' = FALSE
    /\ UNCHANGED <<up, allow, last, pending, prep, dp, file, table, flows, touched, pubs>>

OutsideLocalnet ==
    /\ link /\ Spend(1)
    /\ localnet' = ~localnet /\ touched' = TRUE
    /\ UNCHANGED <<up, allow, last, pending, prep, dp, file, table, link, flows, pubs>>

NoFile == [last |-> None, pub |-> None, unconv |-> <<>>]

Init ==
    /\ udp \in SUBSET Ports
    /\ up = "down" /\ allow \in Allows
    /\ last = None /\ pending = None /\ prep = None
    /\ file = NoFile /\ dp = Fresh(NoFile)
    /\ table = [present |-> FALSE, mine |-> FALSE, pub |-> [q \in Ports |-> Undeclared]]
    /\ link = FALSE /\ localnet = FALSE /\ flows = {}
    /\ touched = FALSE /\ faults = 0 /\ pubs = 0

Outside ==
    OutsideLink \/ OutsideLocalnet \/ (\E stays \in BOOLEAN : OutsideTable(stays))
    \/ (\E q \in Ports : NewFlow(q)) \/ Crash

Check == ObservePrepare \/ ObserveCommit \/ ObserveNotified \/ Refresh

Next ==
    /\ UNCHANGED udp
    /\ \/ Start \/ Check \/ Retry \/ Outside
       \/ \E d \in Decls : Receive(d) \/ \E linked \in BOOLEAN : ApplyFails(d, linked)

Spec == Init /\ [][Next]_vars

(* The 30-second check and the retries run on a ticker, the process is
   started again by its service manager. *)
Fairness ==
    /\ WF_vars(Start /\ UNCHANGED udp) /\ WF_vars(Retry /\ UNCHANGED udp) /\ WF_vars(Refresh /\ UNCHANGED udp)
    /\ WF_vars(ObservePrepare /\ UNCHANGED udp) /\ WF_vars(ObserveCommit /\ UNCHANGED udp)

FairSpec == Spec /\ Fairness

-----------------------------------------------------------------------------
FlowRecords ==
    [port : Ports, to : Addrs, decl : Hosts \cup Addrs, owed : BOOLEAN, aged : BOOLEAN,
     lost : BOOLEAN]

TypeOK ==
    /\ up \in {"down", "boot", "run"} /\ allow \in Allows
    /\ last \in Decls \cup {None} /\ pending \in Decls \cup {None}
    /\ Len(dp.unconv) <= MaxUnconverged /\ Len(file.unconv) <= MaxUnconverged
    /\ link \in BOOLEAN /\ localnet \in BOOLEAN /\ touched \in BOOLEAN
    /\ flows \subseteq FlowRecords
    /\ faults \in 0 .. MaxFaults /\ pubs \in 0 .. MaxPubs

Closing == {"removed", "retargeted", "notAllowed"}

(* A flow whose port was declared otherwise after it was made is closed, or
   the record still says that it has to be: the current publication and the
   list, in memory or in the file a restart reads, single it out.  This is
   what keeping the publications whose convergence failed is for. *)
OwedIsRemembered ==
    \A f \in flows :
        f.owed /\ ~f.aged /\ ~f.lost =>
            /\ dp.unconv # <<>>
            /\ Verdict(f, dp.unconv, dp.pub, allow) \in Closing

(* Once a convergence has finished, no flow is carried to a literal address
   that the allow list of this process refuses. *)
RefusedAddressesAreCut ==
    up = "run" /\ Idle /\ dp.unconv = <<>> =>
        \A f \in flows : f.decl \in Addrs /\ ~f.lost => f.to \in allow

(* wgft0 never accepts packets for the host's loopback while the table that
   guards it is missing, but from the moment an outsider removed the table
   to the next check that can write the setting. *)
LoopbackGuarded == localnet /\ ~table.present => touched

(* A flow is closed only if its port is declared otherwise, if its address
   is refused, or if it is a UDP flow to an address its rule has left: a name
   that resolves differently, a failed publication, a repair and a restart
   leave the established flows alone. *)
KeepingStep ==
    \A f \in flows :
       \/ \E g \in flows' : g.port = f.port /\ g.to = f.to
       \/ Judged(f, dp'.pub).owed
       \/ f.to \notin allow
       \/ f.lost
       \/ f.port \in udp /\ f.decl \in Hosts

KeptFlowsSurvive == [][KeepingStep]_vars

(* After a change of the declaration every flow that is still carried under
   another target is closed once a convergence has finished. *)
RetargetedFlowsClosed ==
    up = "run" /\ Idle /\ dp.unconv = <<>> => \A f \in flows : f.owed => f.lost

Settled ==
    /\ up = "run" /\ Idle
    /\ table.present /\ table.mine /\ table.pub = dp.pub /\ link
    /\ dp.unconv = <<>>
    /\ localnet = HasLoopback(dp.pub)
    /\ Declared(dp.pub) = last

(* When the failures and the changes stop, the table, wgft0, its loopback
   setting and the flows come to what was declared last. *)
Settles == <>[](file.last = None \/ Settled)
=============================================================================
