----------------------------- MODULE Enrolment -----------------------------
(***************************************************************************)
(* How an agent gets and loses its place: the join tokens and agents tables*)
(* of the server (internal/vpsd/store, agentapi) and the agent's side      *)
(* (internal/agent register.go, run.go, stream.go, enroll).                *)
(*                                                                         *)
(* The server issues a join string for a name: a token that registers once *)
(* and the hash of its certificate.  A host registers with it, gets a      *)
(* permanent token and an address, and keeps them in its credentials file. *)
(* A host that is refused (the agent was revoked) or finds another         *)
(* certificate (the server was built anew) registers again, if its join    *)
(* string is one it has not used.                                          *)
(***************************************************************************)
EXTENDS Naturals, FiniteSets, FiniteSetsExt

CONSTANTS
    Hosts, Names,
    NAddrs,     \* addresses 1 .. NAddrs
    MaxTokens,  \* bound: join strings issued
    MaxCerts,   \* bound: server builds
    MaxFaults,  \* bound: lost answers, failed saves, crashes, failed dials
    Absent

Tokens == 1 .. MaxTokens
Addrs == 1 .. NAddrs
NoCredentials ==
    [token |-> Absent, name |-> Absent, addr |-> Absent, used |-> Absent, pin |-> Absent]

VARIABLES
    cert,     \* the certificate in use
    joins,    \* join_tokens and what became of a token: "new", "used", "dead"
    nameOf,   \* the name a token was issued for
    certOf,   \* the certificate its join string pins
    agents,   \* the agents table: per name the permanent token and address
    issued,   \* tokens issued so far
    host,     \* per host: the process, its memory and WGFT_JOIN
    file,     \* per host: the credentials file
    answer,   \* per host: the answer of the registration API
    faults,
    revoked   \* per name: the join strings issued before its last removal

enrolVars == <<cert, joins, nameOf, certOf, agents, issued, host, file, answer, faults, revoked>>
serverTables == <<cert, joins, nameOf, certOf, agents, issued, revoked>>

Row == [token : Tokens, addr : Addrs]
Credentials ==
    [token : Tokens \cup {Absent}, name : Names \cup {Absent}, addr : Addrs \cup {Absent},
     used : Tokens \cup {Absent}, pin : Nat \cup {Absent}]
Answers == [kind : {"error", "refused"}]
           \cup [kind : {"ok"}, token : Tokens, name : Names, addr : Addrs]

ASSUME EnrolmentAssumption ==
    /\ {NAddrs, MaxTokens, MaxCerts, MaxFaults} \subseteq Nat
    /\ Absent \notin Nat \cup Names \cup Row \cup Answers

EnrolTypeOK ==
    /\ cert \in Nat /\ issued \in 0 .. MaxTokens /\ faults \in Nat
    /\ joins \in [Tokens -> {"new", "used", "dead"}]
    /\ nameOf \in [Tokens -> Names \cup {Absent}] /\ certOf \in [Tokens -> Nat \cup {Absent}]
    /\ agents \in [Names -> Row \cup {Absent}] /\ revoked \in [Names -> Nat]
    /\ host \in [Hosts -> [at : {"off", "stopped", "start", "again", "pinned", "run", "on"},
                           f : Credentials, join : Tokens \cup {Absent}]]
    /\ file \in [Hosts -> Credentials]
    /\ answer \in [Hosts -> Answers \cup {Absent}]

Fault == faults < MaxFaults /\ faults' = faults + 1

-----------------------------------------------------------------------------
(***************************************************************************)
(* The server.  A permanent token is named by the join token that made it. *)
(***************************************************************************)

(* Mutant: earlier join strings of the name stay good. *)
IssuedKeepingOld(n) == joins

(* The unused tokens of the name are deleted when another is issued. *)
Issued(n) == [t \in Tokens |-> IF nameOf[t] = n /\ joins[t] = "new" THEN "dead" ELSE joins[t]]

IssueJoinToken(n) ==
    /\ issued < MaxTokens
    /\ agents[n] = Absent
    /\ issued' = issued + 1
    /\ joins' = [Issued(n) EXCEPT ![issued + 1] = "new"]
    /\ nameOf' = [nameOf EXCEPT ![issued + 1] = n]
    /\ certOf' = [certOf EXCEPT ![issued + 1] = cert]
    /\ UNCHANGED <<cert, agents, host, file, answer, faults, revoked>>

Expire(t) ==
    /\ joins[t] = "new"
    /\ joins' = [joins EXCEPT ![t] = "dead"]
    /\ UNCHANGED <<cert, nameOf, certOf, agents, issued, host, file, answer, faults, revoked>>

Used == {agents[n].addr : n \in {m \in Names : agents[m] # Absent}}

(* Mutant: the address after the last one given. *)
FreeByCount == {a \in Addrs : a > Cardinality(Used)}

Free == Addrs \ Used

(* Mutant: a token that was used is good again once the name is free. *)
GrantedAgain(t) ==
    IF certOf[t] # cert THEN [kind |-> "error"]
    ELSE IF joins[t] = "dead" \/ agents[nameOf[t]] # Absent THEN [kind |-> "refused"]
    ELSE IF Free = {} THEN [kind |-> "error"]
    ELSE [kind |-> "ok", token |-> t, name |-> nameOf[t], addr |-> Min(Free)]

(* What a request with token t comes to: the row Register's transaction adds,
   a refusal (401, 409), or an error (no free address, or the client finds
   another certificate than the pinned one). *)
Granted(t) ==
    IF certOf[t] # cert THEN [kind |-> "error"]
    ELSE IF joins[t] # "new" \/ agents[nameOf[t]] # Absent THEN [kind |-> "refused"]
    ELSE IF Free = {} THEN [kind |-> "error"]
    ELSE [kind |-> "ok", token |-> t, name |-> nameOf[t], addr |-> Min(Free)]

Spent(t) == [joins EXCEPT ![t] = "used"]

Revoke(n) ==
    /\ agents[n] # Absent
    /\ agents' = [agents EXCEPT ![n] = Absent]
    /\ joins' = Issued(n)
    /\ revoked' = [revoked EXCEPT ![n] = issued]
    /\ UNCHANGED <<cert, nameOf, certOf, issued, host, file, answer, faults>>

(* teardown --purge and a new start: another certificate, an empty store. *)
Rebuild ==
    /\ cert < MaxCerts
    /\ cert' = cert + 1
    /\ agents' = [n \in Names |-> Absent]
    /\ joins' = [t \in Tokens |-> "dead"]
    /\ revoked' = [n \in Names |-> issued]
    /\ UNCHANGED <<nameOf, certOf, issued, host, file, answer, faults>>

-----------------------------------------------------------------------------
(***************************************************************************)
(* The agent on a host: "off", "stopped" (a refusal systemd does not       *)
(* restart), "start" and "again" (an answer of the registration API is     *)
(* waited for at the start, after a 401, "pinned" after another            *)
(* certificate), "run" and "on" (its stream is accepted).                  *)
(***************************************************************************)
Fresh(t, f) == t # Absent /\ t # f.used

(* After another certificate the join string must also pin another one. *)
JoinForNewPin(t, f) == Fresh(t, f) /\ certOf[t] # f.pin

(* The operator sets WGFT_JOIN to a newer string and restarts the agent. *)
Provide(h, t) ==
    /\ t <= issued
    /\ host[h].join # Absent => host[h].join < t
    /\ host' = [host EXCEPT ![h].join = t, ![h].at = "off"]
    /\ answer' = [answer EXCEPT ![h] = Absent]
    /\ UNCHANGED <<serverTables, file, faults>>

(* Run up to ensureRegistered. *)
Start(h) ==
    /\ host[h].at = "off"
    /\ host' = [host EXCEPT ![h].f = file[h],
                            ![h].at = IF file[h].token # Absent THEN "run"
                                      ELSE IF Fresh(host[h].join, file[h]) THEN "start"
                                      ELSE "stopped"]
    /\ UNCHANGED <<serverTables, file, answer, faults>>

(* Mutant: another certificate is never a reason to register again. *)
ConnectToOldCertOnly(h) ==
    LET f == host[h].f
        accepted == f.pin = cert /\ \E n \in Names : agents[n] # Absent /\ agents[n].token = f.token
    IN  /\ host[h].at = "run"
        /\ host' = [host EXCEPT ![h].at =
                      IF accepted THEN "on" ELSE IF f.pin # cert THEN "run"
                      ELSE IF Fresh(host[h].join, f) THEN "again" ELSE "stopped"]
        /\ UNCHANGED <<serverTables, file, answer, faults>>

(* The stream: authentication refused and another certificate lead to recover,
   anything else is tried again. *)
ConnectStream(h) ==
    LET f == host[h].f
        accepted == f.pin = cert /\ \E n \in Names : agents[n] # Absent /\ agents[n].token = f.token
    IN  /\ host[h].at = "run"
        /\ host' = [host EXCEPT ![h].at =
                      IF accepted THEN "on"
                      ELSE IF f.pin = cert
                           THEN IF Fresh(host[h].join, f) THEN "again" ELSE "stopped"
                           ELSE IF JoinForNewPin(host[h].join, f) THEN "pinned" ELSE "run"]
        /\ UNCHANGED <<serverTables, file, answer, faults>>

(* Mutant: any failure to connect is taken for a refusal. *)
DialFailsRecovers(h) ==
    /\ host[h].at = "on"
    /\ Fault
    /\ host' = [host EXCEPT ![h].at = IF Fresh(host[h].join, host[h].f) THEN "again" ELSE "run"]
    /\ UNCHANGED <<serverTables, file, answer>>

(* The server cannot be reached or answers 5xx: the stream is tried again. *)
DialFails(h) ==
    /\ host[h].at = "on"
    /\ Fault
    /\ host' = [host EXCEPT ![h].at = "run"]
    /\ UNCHANGED <<serverTables, file, answer>>

Disconnected(h) ==
    /\ host[h].at = "on"
    /\ ~(\E n \in Names : agents[n] # Absent /\ agents[n].token = host[h].f.token)
    /\ host' = [host EXCEPT ![h].at = "run"]
    /\ UNCHANGED <<serverTables, file, answer, faults>>

Asking(h) == host[h].at \in {"start", "again", "pinned"} /\ answer[h] = Absent

(* The request reaches the server, whose transaction decides it. *)
Register(h) ==
    LET t == host[h].join
        row == Granted(t)
    IN  /\ Asking(h)
        /\ answer' = [answer EXCEPT ![h] = row]
        /\ IF row.kind # "ok" THEN UNCHANGED <<agents, joins>>
           ELSE /\ agents' = [agents EXCEPT ![row.name] = [token |-> t, addr |-> row.addr]]
                /\ joins' = Spent(t)
        /\ UNCHANGED <<cert, nameOf, certOf, issued, host, file, faults, revoked>>

(* What the process does when registering did not work: the start and a 401
   end it, after another certificate it goes on. *)
GivenUp(h, s) == [host EXCEPT ![h].at = IF @ = "pinned" THEN "run" ELSE s]

Refused(h) ==
    /\ answer[h] # Absent /\ answer[h].kind # "ok"
    /\ answer' = [answer EXCEPT ![h] = Absent]
    /\ host' = GivenUp(h, IF answer[h].kind = "refused" THEN "stopped" ELSE "off")
    /\ UNCHANGED <<serverTables, file, faults>>

AnswerLost(h) ==
    /\ Asking(h) \/ answer[h] # Absent
    /\ Fault
    /\ answer' = [answer EXCEPT ![h] = Absent]
    /\ host' = GivenUp(h, "off")
    /\ UNCHANGED <<serverTables, file>>

(* enroll.Record and Save: the memory is changed first, so that a failed save
   leaves it with a token that the file lacks. *)
Registered(h) ==
    LET t == host[h].join
        f == [token |-> answer[h].token, name |-> answer[h].name, addr |-> answer[h].addr,
              used |-> t, pin |-> certOf[t]]
    IN  /\ answer[h] # Absent /\ answer[h].kind = "ok"
        /\ answer' = [answer EXCEPT ![h] = Absent]
        /\ \/ /\ file' = [file EXCEPT ![h] = f]
              /\ host' = [host EXCEPT ![h].f = f, ![h].at = "run"]
              /\ UNCHANGED faults
           \/ /\ Fault
              /\ host' = [GivenUp(h, "off") EXCEPT ![h].f = f]
              /\ UNCHANGED file
        /\ UNCHANGED serverTables

Crash(h) ==
    /\ host[h].at \notin {"off", "stopped"}
    /\ Fault
    /\ host' = [host EXCEPT ![h].at = "off"]
    /\ answer' = [answer EXCEPT ![h] = Absent]
    /\ UNCHANGED <<serverTables, file>>

-----------------------------------------------------------------------------
EnrolInit ==
    /\ cert = 1
    /\ joins = [t \in Tokens |-> "dead"]
    /\ nameOf = [t \in Tokens |-> Absent]
    /\ certOf = [t \in Tokens |-> Absent]
    /\ agents = [n \in Names |-> Absent]
    /\ issued = 0
    /\ host = [h \in Hosts |-> [at |-> "stopped", f |-> NoCredentials, join |-> Absent]]
    /\ file = [h \in Hosts |-> NoCredentials]
    /\ answer = [h \in Hosts |-> Absent]
    /\ faults = 0
    /\ revoked = [n \in Names |-> 0]

HostStep(h) ==
    \/ Start(h) \/ ConnectStream(h) \/ Disconnected(h)
    \/ Register(h) \/ Refused(h) \/ Registered(h)

EnrolNext ==
    \/ \E n \in Names : IssueJoinToken(n) \/ Revoke(n)
    \/ \E t \in Tokens : Expire(t)
    \/ Rebuild
    \/ \E h \in Hosts :
          \/ \E t \in Tokens : Provide(h, t)
          \/ HostStep(h) \/ DialFails(h) \/ AnswerLost(h) \/ Crash(h)

EnrolSpec == EnrolInit /\ [][EnrolNext]_enrolVars
(* A process goes on as long as nothing stops it: systemd starts it again
   after an error, and the stream is tried again. *)
EnrolFairSpec == EnrolSpec /\ \A h \in Hosts : WF_enrolVars(HostStep(h))

-----------------------------------------------------------------------------
(***************************************************************************)
(* Properties.                                                             *)
(***************************************************************************)

(* Of the join strings issued for a name only the newest can register, and
   none while the name is registered (IssueJoinToken, Register, RevokeAgent);
   so ErrAgentAlreadyRegistered, which the code keeps for the case, never
   comes up. *)
OneGoodJoinString ==
    \A n \in Names :
        LET good == {t \in Tokens : joins[t] = "new" /\ nameOf[t] = n}
        IN  Cardinality(good) <= 1 /\ (agents[n] # Absent => good = {})

(* After an agent was removed no join string issued before the removal brings
   the name back, whichever host holds it and however late its request
   arrives (RevokeAgent; the purge of a rebuilt server). *)
RevokedStaysOut == \A n \in Names : agents[n] # Absent => agents[n].token > revoked[n]

(* No two agents have one tunnel address, also when addresses of removed
   agents are given again (allocateAddress). *)
AddressesDistinct ==
    \A m, n \in Names :
        m # n /\ agents[m] # Absent /\ agents[n] # Absent => agents[m].addr # agents[n].addr

(* What the store keeps of names and join strings is consistent. *)
JoinStringsHold == OneGoodJoinString /\ RevokedStaysOut /\ AddressesDistinct

Works(f) == f.pin = cert /\ \E n \in Names : agents[n] # Absent /\ agents[n].token = f.token

(* The credentials file is replaced only when what it holds is of no use any
   more: a lost connection, an expired join string or a failed registration
   never costs an agent a token that works (recover, ensureRegistered). *)
TokenStep == \A h \in Hosts : file'[h] # file[h] => ~Works(file[h])

WorkingTokenIsKept == [][TokenStep]_enrolVars

(* The inductive invariant behind these.  A token that can register is of  *)
(* a name without an agent and newer than the name's last removal; the     *)
(* token in a file or in a host's memory has been spent, so that it never  *)
(* begins to work again once it does not; and a host asks for another only *)
(* when the one in its file does not work.                                 *)
StoreInv ==
    /\ \A t \in Tokens :
          /\ t <= issued => nameOf[t] \in Names /\ certOf[t] \in Nat /\ certOf[t] <= cert
          /\ joins[t] = "new" =>
                t <= issued /\ agents[nameOf[t]] = Absent /\ t > revoked[nameOf[t]]
    /\ \A t, u \in Tokens : joins[t] = "new" /\ joins[u] = "new" /\ nameOf[t] = nameOf[u] => t = u
    /\ \A n \in Names : revoked[n] <= issued
    /\ RevokedStaysOut /\ AddressesDistinct

SpentToken(f) ==
    /\ f.token # Absent => f.token <= issued /\ joins[f.token] # "new"
    /\ f.pin # Absent => f.pin <= cert

HostHolds(h) ==
    /\ SpentToken(file[h]) /\ SpentToken(host[h].f)
    /\ host[h].join # Absent => host[h].join <= issued
    /\ answer[h] # Absent => host[h].at \in {"start", "again", "pinned"}
    /\ answer[h] # Absent /\ answer[h].kind = "ok" =>
          answer[h].token = host[h].join /\ joins[answer[h].token] # "new"
    /\ host[h].at \in {"start", "again", "pinned"} => host[h].join # Absent /\ ~Works(file[h])
    /\ host[h].at \in {"run", "on"} => file[h] = host[h].f \/ ~Works(file[h])

HostInv == \A h \in Hosts : HostHolds(h)

EnrolInv == EnrolTypeOK /\ StoreInv /\ HostInv

(* An agent whose join string is good comes to an accepted stream without
   anybody's help, whatever its credentials were: it registers at its start,
   after a refusal, or on finding the certificate of a rebuilt server
   (streamLoop, recover, joinForNewPin). *)
GoodJoinStringWorks ==
    \A h \in Hosts :
        (host[h].join # Absent /\ joins[host[h].join] = "new" /\ certOf[host[h].join] = cert)
            ~> (host[h].at = "on" \/ host[h].join = Absent \/ joins[host[h].join] # "new")
=============================================================================
