------------------------------- MODULE TcpTables -------------------------------
(***************************************************************************)
(* The life of a TCP connection of the userspace network stack across its  *)
(* tables (internal/wgstack: listener.go, syn.go, timewait.go, tcb.go,     *)
(* conn.go, stack.go): a row of the half-open table, a connection slot     *)
(* reached through the index of four-tuples and the accept queue, a row of *)
(* the TIME_WAIT table.  Module Tcp is what happens inside one connection; *)
(* here a segment is what it does to the tables.                           *)
(*                                                                         *)
(* Two kinds of lock protect them: tmu the tables, and each slot's mu the  *)
(* connection in it, taken before tmu.  An action is one stretch under a   *)
(* slot's mu (with the tmu sections inside it, which nobody else can see   *)
(* apart) or one tmu section on its own.  A slot that is handed from one   *)
(* stretch to the next (the index to the receiver, the half-open row to    *)
(* the slot, the queue to Accept, the queue to Close) can change hands in  *)
(* between; a generation number tells the next holder of the slot from the *)
(* last.                                                                   *)
(***************************************************************************)
EXTENDS Naturals, Sequences, FiniteSets, SequencesExt, FiniteSetsExt

CONSTANTS
  Slots,        \* connection slots (stack.conns)
  Tuples,       \* four-tuples, each of a WireGuard peer of its own, to one local port
  Listeners,    \* listeners opened one after the other on that port
  SynRows,      \* rows of the half-open table
  TwRows,       \* rows of the TIME_WAIT table
  AcceptQ,      \* connections in all accept queues
  MaxGen,       \* bound: connections per slot
  None

ASSUME TablesAssumption ==
  /\ SynRows \in Nat /\ TwRows \in Nat \ {0} /\ AcceptQ \in Nat /\ MaxGen \in Nat
  /\ None \notin Slots \cup Tuples \cup Listeners

\* What a segment is to the tables: a SYN that RFC 6191 lets reuse a tuple, an
\* RST with the right number, the ACK that ends a handshake and acknowledges
\* what was sent, with or without data and FIN.
Segments == {"syn", "rst", "ack"}

VARIABLES
  tab,       \* everything tmu guards, and the slots
  rcv,       \* rcv[t]: where the receiver of the peer of t is in inputTCP; wireguard-go
             \* writes the packets of one peer one after the other
  acc,       \* acc[l]: the connection Accept took off the queue of l
  cls,       \* cls[l]: the connections Close of l still has to end
  dev,       \* the slots Device.Close still has to visit, or None
  handles,   \* the Conn values Accept returned
  strayed    \* history: a call through a Conn touched another connection

vars == <<tab, rcv, acc, cls, dev, handles, strayed>>

NoConn == [st |-> "free", tup |-> None, accepted |-> FALSE, appClosed |-> FALSE]

Init ==
  /\ tab = [slot |-> [s \in Slots |-> NoConn], gen |-> [s \in Slots |-> 0],
            indexed |-> [s \in Slots |-> FALSE],
            free |-> Slots, index |-> [t \in Tuples |-> None],
            syn |-> [t \in Tuples |-> None], tw |-> <<>>,
            open |-> None, q |-> [l \in Listeners |-> <<>>],
            qLen |-> [l \in Listeners |-> 0], queued |-> 0,
            used |-> {}, closed |-> FALSE]
  /\ rcv = [t \in Tuples |-> [at |-> "idle"]]
  /\ acc = [l \in Listeners |-> None]
  /\ cls = [l \in Listeners |-> <<>>]
  /\ dev = None /\ handles = {} /\ strayed = FALSE

--------------------------------------------------------------------------------
(* The accept queue and the slots.  T is a value of tab.                    *)

IsOpen(T, l) == T.open = l

QueueOf(T, s) == {l \in Listeners : s \in Range(T.q[l])}

\* listener.dequeue: off the queue, and the reservation goes back.
Dequeue(T, s) ==
  IF QueueOf(T, s) = {} THEN T
  ELSE LET l == CHOOSE m \in QueueOf(T, s) : TRUE IN
       [T EXCEPT !.q[l] = SelectSeq(@, LAMBDA x : x # s),
                 !.qLen[l] = @ - 1, !.queued = @ - 1]

\* unindexLocked
Unindex(T, s) ==
  IF T.indexed[s]
  THEN [T EXCEPT !.index[T.slot[s].tup] = None, !.indexed[s] = FALSE]
  ELSE T

\* freeSlotLocked: off the queue, the generation moves on, back to the free list.
FreeSlot(T, s) ==
  LET d == Dequeue(T, s) IN
  [d EXCEPT !.gen[s] = @ + 1, !.slot[s] = NoConn, !.free = @ \cup {s}]

\* release
Release(T, s) ==
  IF T.slot[s].st = "free" THEN T ELSE FreeSlot(Unindex(T, s), s)

\* toClosed: CLOSED, out of the index and the queue; the slot goes back if the
\* application has closed the connection, and stays for the unread data if not.
ToClosed(T, s) ==
  IF T.slot[s].st = "free" THEN T
  ELSE LET c == Dequeue(Unindex([T EXCEPT !.slot[s].st = "closed"], s), s) IN
       IF c.slot[s].appClosed THEN Release(c, s) ELSE c

\* Mutant of ResetByPeer: every connection is left for its reader.
ResetByPeerForReader(T, s) == ToClosed(T, s)

\* resetByPeer: nobody has accepted the connection, so nobody will close it.
ResetByPeer(T, s) ==
  IF T.slot[s].accepted THEN ToClosed(T, s) ELSE Release(T, s)

\* abortWith
AbortWith(T, s) ==
  IF T.slot[s].appClosed \/ ~T.slot[s].accepted THEN Release(T, s) ELSE ToClosed(T, s)

--------------------------------------------------------------------------------
(* The TIME_WAIT table: a sequence, the oldest row first.                    *)

RowOf(T, t) == SelectInSeq(T.tw, LAMBDA r : r.tup = t)

RemoveRow(T, k) == [T EXCEPT !.tw = RemoveAt(@, k)]

\* addTWRow: the oldest row makes way when the table is full.  The row keeps the
\* slot and the generation of the connection it came from.
AddTWRow(T, s, state) ==
  LET room == IF Len(T.tw) = TwRows THEN Tail(T.tw) ELSE T.tw IN
  [T EXCEPT !.tw = Append(room, [tup |-> T.slot[s].tup, origin |-> s,
                                 gen |-> T.gen[s], st |-> state])]

\* Mutant of TryRetire: the row is added before the index forgets the tuple, and
\* the index keeps it.
TryRetireIndexed(T, s, empty) ==
  LET c == T.slot[s] IN
  IF ~c.appClosed THEN T
  ELSE IF c.st = "closed" THEN Release(T, s)
  ELSE IF ~empty \/ c.st \notin {"finWait2", "timeWait"} THEN T
  ELSE FreeSlot(IF ~T.closed /\ T.indexed[s]
                THEN AddTWRow(T, s, c.st) ELSE T, s)

\* tryRetire: once the application has closed it, a connection with nothing left
\* to deliver moves to a row and its slot is free.  On a closed device no row is
\* made and the index, which nobody reads any more, keeps the entry.
TryRetire(T, s, empty) ==
  LET c == T.slot[s] IN
  IF ~c.appClosed THEN T
  ELSE IF c.st = "closed" THEN Release(T, s)
  ELSE IF ~empty \/ c.st \notin {"finWait2", "timeWait"} THEN T
  ELSE FreeSlot(IF ~T.closed /\ T.indexed[s]
                THEN AddTWRow(Unindex(T, s), s, c.st) ELSE T, s)

--------------------------------------------------------------------------------
(* The half-open table.  A tuple has at most one row.                        *)

RowsOf(T, l) == {t \in Tuples : T.syn[t] # None /\ T.syn[t].lst = l}

HalfOpen(T) == {t \in Tuples : T.syn[t] # None}

\* synRoom: a free row, and one listener uses half of them at most.
SynRoom(T) ==
  /\ T.open # None
  /\ Cardinality(HalfOpen(T)) < SynRows
  /\ Cardinality(RowsOf(T, T.open)) < SynRows \div 2

\* newSynRow.  after: the initial sequence number starts past the last
\* connection of the tuple.
NewSynRow(T, t, after) ==
  IF SynRoom(T)
  THEN [T EXCEPT !.syn[t] = [lst |-> T.open, promoting |-> FALSE, after |-> after]]
  ELSE T

RemoveSynRow(T, t) == [T EXCEPT !.syn[t] = None]

\* The guard of synInput on the ACK that ends the handshake.
MayPromote(T, l) ==
  /\ IsOpen(T, l)
  /\ T.qLen[l] < AcceptQ \div 2
  /\ T.queued < AcceptQ
  /\ T.free # {}

\* synInput on that ACK: a slot and a place in the queue are set aside, and the
\* row stays until promote has moved it.
Reserve(T, t, s) ==
  [T EXCEPT !.free = @ \ {s}, !.syn[t].promoting = TRUE,
            !.queued = @ + 1, !.qLen[T.syn[t].lst] = @ + 1]

\* The row a promotion set out with is still there.
RowKept(T, t) == T.syn[t] # None /\ T.syn[t].promoting

\* Mutant of PromoteTo: whether the listener is open was settled by synInput.
PromoteToUnchecked(T, s, t, l) ==
  LET gone == IF RowKept(T, t) THEN RemoveSynRow(T, t) ELSE T
      conn == [NoConn EXCEPT !.st = "established", !.tup = t]
  IN IF ~T.closed /\ RowKept(T, t)
     THEN [gone EXCEPT !.slot[s] = conn, !.index[t] = [slot |-> s, gen |-> T.gen[s]],
                       !.indexed[s] = TRUE, !.q[l] = Append(@, s)]
     ELSE Release([gone EXCEPT !.slot[s] = conn, !.queued = @ - 1, !.qLen[l] = @ - 1], s)

\* Mutant of PromoteTo: the failing path gives back the slot and forgets the queue.
PromoteToKeepsPlace(T, s, t, l) ==
  LET gone == IF RowKept(T, t) THEN RemoveSynRow(T, t) ELSE T
      conn == [NoConn EXCEPT !.st = "established", !.tup = t]
  IN IF ~T.closed /\ IsOpen(T, l) /\ RowKept(T, t)
     THEN [gone EXCEPT !.slot[s] = conn, !.index[t] = [slot |-> s, gen |-> T.gen[s]],
                       !.indexed[s] = TRUE, !.q[l] = Append(@, s)]
     ELSE Release([gone EXCEPT !.slot[s] = conn], s)

\* promote: establish in the slot, then under tmu into the index and the queue,
\* unless the listener or the device was closed meanwhile.
PromoteTo(T, s, t, l) ==
  LET gone == IF RowKept(T, t) THEN RemoveSynRow(T, t) ELSE T
      conn == [NoConn EXCEPT !.st = "established", !.tup = t]
  IN IF ~T.closed /\ IsOpen(T, l) /\ RowKept(T, t)
     THEN [gone EXCEPT !.slot[s] = conn, !.index[t] = [slot |-> s, gen |-> T.gen[s]],
                       !.indexed[s] = TRUE, !.q[l] = Append(@, s)]
     ELSE Release([gone EXCEPT !.slot[s] = conn, !.queued = @ - 1, !.qLen[l] = @ - 1], s)

--------------------------------------------------------------------------------
(* inputTCP                                                                  *)

Idle(t) == rcv' = [rcv EXCEPT ![t] = [at |-> "idle"]]

\* The part of a lookup after the index and the TIME_WAIT rows: the half-open
\* row, then the listener.  A segment that does not fit the row is answered, or a
\* retransmitted SYN is, and the tables stay as they are; so they do when the last
\* ACK finds no place, and its row waits for the next.
LookFurther(T, t, seg, after) ==
  IF T.syn[t] # None
  THEN \/ tab' = T /\ Idle(t)
       \/ /\ seg \in {"rst", "syn"} /\ ~T.syn[t].promoting
          /\ tab' = RemoveSynRow(T, t) /\ Idle(t)
       \/ /\ seg = "ack" /\ ~T.syn[t].promoting
          /\ MayPromote(T, T.syn[t].lst)
          /\ \E s \in T.free :
               /\ T.gen[s] < MaxGen
               /\ tab' = Reserve(T, t, s)
               /\ rcv' = [rcv EXCEPT ![t] = [at |-> "promote",
                                             slot |-> s, lst |-> T.syn[t].lst]]
  ELSE /\ tab' = IF seg = "syn" /\ T.open # None THEN NewSynRow(T, t, after) ELSE T
       /\ Idle(t)

\* twInput, and what follows when it removes the row: a row past its deadline
\* (anywhere in the table, the deadlines are not in its order), or a SYN that may
\* reuse the tuple and that has room to become a half-open row.
HitRow(t, seg, after) ==
  LET i == RowOf(tab, t)
      row == tab.tw[i]
      gone == RemoveRow(tab, i)
      later == [gone EXCEPT !.tw = Append(@, [row EXCEPT !.st = "timeWait"])]
  IN \/ LookFurther(gone, t, seg, after)                    \* past its deadline
     \/ /\ seg = "syn" /\ row.st = "timeWait" /\ SynRoom(tab)
        /\ LookFurther(gone, t, seg, TRUE)
     \/ /\ Idle(t)
        /\ \/ UNCHANGED tab                                    \* at most an ACK
           \/ seg = "rst" /\ tab' = gone
           \/ seg = "ack" /\ tab' = later                      \* the FIN, or again
           \/ seg = "ack" /\ row.st = "finWait2" /\ tab' = gone  \* data after Close

\* One pass of the loop of inputTCP, under tmu.
Lookup(t, seg, tries, after) ==
  \/ tab.closed /\ Idle(t) /\ UNCHANGED tab
  \/ /\ ~tab.closed /\ tab.index[t] # None
     /\ rcv' = [rcv EXCEPT ![t] = [at |-> "found", seg |-> seg, tries |-> tries,
                                   after |-> after, conn |-> tab.index[t]]]
     /\ UNCHANGED tab
  \/ /\ ~tab.closed /\ tab.index[t] = None /\ RowOf(tab, t) # 0
     /\ HitRow(t, seg, after)
  \/ /\ ~tab.closed /\ tab.index[t] = None /\ RowOf(tab, t) = 0
     /\ LookFurther(tab, t, seg, after)

Arrive(t, seg) ==
  /\ rcv[t].at = "idle" /\ ~tab.closed
  /\ Lookup(t, seg, 1, FALSE)
  /\ UNCHANGED <<acc, cls, dev, handles, strayed>>

LookAgain(t) ==
  /\ rcv[t].at = "again"
  /\ Lookup(t, rcv[t].seg, rcv[t].tries, rcv[t].after)
  /\ UNCHANGED <<acc, cls, dev, handles, strayed>>

\* finRecv
FinRecv(T, s) ==
  LET next == [established |-> "closeWait", finWait1 |-> "closing", finWait2 |-> "timeWait"] IN
  [T EXCEPT !.slot[s].st = IF @ \in DOMAIN next THEN next[@] ELSE @]

\* finAckedState
FinAcked(T, s) ==
  LET next == [finWait1 |-> "finWait2", closing |-> "timeWait"] IN
  IF T.slot[s].st = "lastAck" THEN ToClosed(T, s)
  ELSE [T EXCEPT !.slot[s].st = IF @ \in DOMAIN next THEN next[@] ELSE @]

\* The last ACK may bring data and the FIN.
Promote(t) ==
  /\ rcv[t].at = "promote"
  /\ LET p == PromoteTo(tab, rcv[t].slot, t, rcv[t].lst) IN
     tab' \in {p, FinRecv(p, rcv[t].slot)}
  /\ Idle(t)
  /\ UNCHANGED <<acc, cls, dev, handles, strayed>>

\* processAck, inputData and afterInput on a segment that acknowledges the FIN
\* (acked), brings new data, brings the FIN (fin); empty: nothing is buffered.
Receive(T, s, acked, data, fin, empty) ==
  LET seen == IF acked THEN FinAcked(T, s) ELSE T
      st == seen.slot[s].st
      receiving == st \in {"established", "finWait1", "finWait2"}
  IN IF st \in {"free", "closed"} THEN seen
     ELSE IF receiving /\ data /\ seen.slot[s].appClosed THEN Release(seen, s)
     ELSE TryRetire(IF fin THEN FinRecv(seen, s) ELSE seen, s, empty)

\* The connection found in the index, under its mu: it may have left the slot or
\* the index.  A SYN that reuses its TIME_WAIT ends it and is looked up again.
Deliver(t) ==
  LET r == rcv[t]
      s == r.conn.slot
      again(after) == rcv' = [rcv EXCEPT ![t] =
                        IF r.tries < 3
                        THEN [at |-> "again", seg |-> r.seg,
                              tries |-> r.tries + 1, after |-> after]
                        ELSE [at |-> "idle"]]
  IN /\ r.at = "found"
     /\ \/ /\ tab.gen[s] # r.conn.gen \/ ~tab.indexed[s]
           /\ again(r.after) /\ UNCHANGED tab
        \/ /\ tab.gen[s] = r.conn.gen /\ tab.indexed[s]
           /\ \/ r.seg = "rst" /\ tab.slot[s].st # "timeWait"
                 /\ tab' = ResetByPeer(tab, s) /\ Idle(t)
              \/ r.seg = "rst" /\ tab.slot[s].st = "timeWait"
                 /\ tab' = ToClosed(tab, s) /\ Idle(t)
              \/ r.seg = "syn" /\ tab.slot[s].st = "timeWait" /\ SynRoom(tab)
                 /\ tab' = ToClosed(tab, s) /\ again(TRUE)
              \/ r.seg = "syn" /\ ~(tab.slot[s].st = "timeWait" /\ SynRoom(tab))
                 /\ Idle(t) /\ UNCHANGED tab
              \/ /\ r.seg = "ack" /\ tab.slot[s].st # "timeWait"
                 /\ \E acked, data, fin, empty \in BOOLEAN :
                      tab' = Receive(tab, s, acked, data, fin, empty)
                 /\ Idle(t)
              \/ /\ r.seg = "ack" /\ tab.slot[s].st = "timeWait"
                 /\ \E empty \in BOOLEAN : tab' = TryRetire(tab, s, empty)
                 /\ Idle(t)
     /\ UNCHANGED <<acc, cls, dev, handles, strayed>>

--------------------------------------------------------------------------------
(* Listeners, timers, the application, the end of the device.                *)

\* listenTCP
Listen(l) ==
  /\ ~tab.closed /\ tab.open = None /\ l \notin tab.used
  /\ tab' = [tab EXCEPT !.open = l, !.used = @ \cup {l}]
  /\ UNCHANGED <<rcv, acc, cls, dev, handles, strayed>>

\* Accept, its first half: the connection at the head, with its generation.
AcceptTake(l) ==
  /\ acc[l] = None /\ IsOpen(tab, l) /\ ~tab.closed /\ tab.q[l] # <<>>
  /\ LET s == Head(tab.q[l]) IN
     /\ acc' = [acc EXCEPT ![l] = [slot |-> s, gen |-> tab.gen[s]]]
     /\ tab' = Dequeue(tab, s)
  /\ UNCHANGED <<rcv, cls, dev, handles, strayed>>

\* The slot still holds the connection the reference is to.
Holds(T, ref) == T.gen[ref.slot] = ref.gen /\ T.slot[ref.slot].st # "free"

\* Accept, its second half, under the connection's mu.
AcceptFinish(l) ==
  /\ acc[l] # None
  /\ acc' = [acc EXCEPT ![l] = None]
  /\ IF Holds(tab, acc[l])
     THEN LET s == acc[l].slot IN
          /\ tab' = [tab EXCEPT !.slot[s].accepted = TRUE]
          /\ handles' = handles \cup {[slot |-> s, gen |-> acc[l].gen, tup |-> tab.slot[s].tup]}
     ELSE UNCHANGED <<tab, handles>>
  /\ UNCHANGED <<rcv, cls, dev, strayed>>

\* TCPListener.Close: the rows not being promoted go, the queue is emptied.
CloseListener(l) ==
  /\ IsOpen(tab, l) /\ ~tab.closed
  /\ cls' = [cls EXCEPT ![l] = [k \in DOMAIN tab.q[l] |->
                                  [slot |-> tab.q[l][k], gen |-> tab.gen[tab.q[l][k]]]]]
  /\ tab' = [tab EXCEPT !.open = None,
                        !.syn = [t \in Tuples |-> IF t \in RowsOf(tab, l) /\ ~tab.syn[t].promoting
                                                  THEN None ELSE tab.syn[t]],
                        !.q[l] = <<>>, !.qLen[l] = @ - Len(tab.q[l]),
                        !.queued = @ - Len(tab.q[l])]
  /\ UNCHANGED <<rcv, acc, dev, handles, strayed>>

\* The rest of Close, one connection at a time under its mu.
CloseQueued(l) ==
  /\ cls[l] # <<>>
  /\ tab' = IF Holds(tab, Head(cls[l])) THEN Release(tab, Head(cls[l]).slot) ELSE tab
  /\ strayed' = (strayed \/ (tab' # tab /\ tab.gen[Head(cls[l]).slot] # Head(cls[l]).gen))
  /\ cls' = [cls EXCEPT ![l] = Tail(@)]
  /\ UNCHANGED <<rcv, acc, dev, handles>>

\* The timers of a connection: it gives up retransmitting or probing (abortWith),
\* or FIN_WAIT_2 or TIME_WAIT has lasted long enough.
Timer(s) ==
  /\ ~tab.closed /\ tab.slot[s].st \notin {"free", "closed"}
  /\ \/ tab.slot[s].st # "timeWait" /\ tab' = AbortWith(tab, s)
     \/ tab.slot[s].st \in {"timeWait", "finWait2"} /\ tab' = ToClosed(tab, s)
  /\ UNCHANGED <<rcv, acc, cls, dev, handles, strayed>>

\* expireSynRows: a row that is being promoted is left alone.
ExpireSyn(t) ==
  /\ ~tab.closed /\ tab.syn[t] # None /\ ~tab.syn[t].promoting
  /\ tab' = RemoveSynRow(tab, t)
  /\ UNCHANGED <<rcv, acc, cls, dev, handles, strayed>>

\* expireTWRows
ExpireTW ==
  /\ ~tab.closed /\ tab.tw # <<>>
  /\ tab' = RemoveRow(tab, 1)
  /\ UNCHANGED <<rcv, acc, cls, dev, handles, strayed>>

\* shutdownWrite
Shutdown(T, s) ==
  LET next == [established |-> "finWait1", closeWait |-> "lastAck"] IN
  [T EXCEPT !.slot[s].st = IF @ \in DOMAIN next THEN next[@] ELSE @]

\* Conn.CloseWrite
CloseWrite(h) ==
  /\ Holds(tab, h) /\ ~tab.slot[h.slot].appClosed
  /\ tab' = Shutdown(tab, h.slot)
  /\ strayed' = (strayed \/ tab.gen[h.slot] # h.gen)
  /\ UNCHANGED <<rcv, acc, cls, dev, handles>>

\* Conn.Close: unread data make it a reset.
Close(h) ==
  /\ Holds(tab, h) /\ ~tab.slot[h.slot].appClosed
  /\ LET c == [tab EXCEPT !.slot[h.slot].appClosed = TRUE] IN
     \/ tab' = Release(c, h.slot)
     \/ /\ tab.slot[h.slot].st # "closed"
        /\ \E empty \in BOOLEAN : tab' = TryRetire(Shutdown(c, h.slot), h.slot, empty)
  /\ strayed' = (strayed \/ tab.gen[h.slot] # h.gen)
  /\ UNCHANGED <<rcv, acc, cls, dev, handles>>

\* Mutant of OwnRow: the tuple is enough to know it by.
OwnRowByTuple(h) == {k \in DOMAIN tab.tw : tab.tw[k].tup = h.tup}

\* The row of a connection whose slot has gone, if it is this connection's.
OwnRow(h) ==
  {k \in DOMAIN tab.tw : /\ tab.tw[k].tup = h.tup
                         /\ tab.tw[k].origin = h.slot /\ tab.tw[k].gen = h.gen}

\* Conn.Abort: the slot, or the TIME_WAIT row the connection has moved to.
Abort(h) ==
  /\ \/ /\ Holds(tab, h)
        /\ tab' = Release(tab, h.slot)
        /\ strayed' = (strayed \/ tab.gen[h.slot] # h.gen)
     \/ /\ ~Holds(tab, h) /\ (tab.closed \/ OwnRow(h) = {})
        /\ UNCHANGED <<tab, strayed>>
     \/ /\ ~Holds(tab, h) /\ ~tab.closed
        /\ \E k \in OwnRow(h) :
             /\ tab' = RemoveRow(tab, k)
             /\ strayed' = (strayed \/ tab.tw[k].gen # h.gen \/ tab.tw[k].origin # h.slot)
  /\ handles' = handles \ {h}
  /\ UNCHANGED <<rcv, acc, cls, dev>>

\* stack.close, under tmu, once the timers have stopped.
CloseDevice ==
  /\ ~tab.closed
  /\ tab' = [tab EXCEPT !.closed = TRUE, !.open = None,
                        !.syn = [t \in Tuples |-> None], !.tw = <<>>]
  /\ dev' = Slots
  /\ UNCHANGED <<rcv, acc, cls, handles, strayed>>

\* Mutant of CloseSlot: a connection the application holds is left to it.
CloseSlotUnlessHeld(s) ==
  /\ dev # None /\ s \in dev
  /\ tab' = IF tab.slot[s].accepted THEN tab ELSE Release(tab, s)
  /\ dev' = dev \ {s}
  /\ UNCHANGED <<rcv, acc, cls, handles, strayed>>

\* stack.close: the slots, one at a time under their mu.
CloseSlot(s) ==
  /\ dev # None /\ s \in dev
  /\ tab' = Release(tab, s)
  /\ dev' = dev \ {s}
  /\ UNCHANGED <<rcv, acc, cls, handles, strayed>>

Next ==
  \/ \E t \in Tuples :
       \/ \E seg \in Segments : Arrive(t, seg)
       \/ LookAgain(t) \/ Deliver(t) \/ Promote(t) \/ ExpireSyn(t)
  \/ \E l \in Listeners : Listen(l) \/ AcceptTake(l) \/ AcceptFinish(l)
                          \/ CloseListener(l) \/ CloseQueued(l)
  \/ \E s \in Slots : Timer(s) \/ CloseSlot(s)
  \/ ExpireTW
  \/ \E h \in handles : CloseWrite(h) \/ Close(h) \/ Abort(h)
  \/ CloseDevice

Spec == Init /\ [][Next]_vars

--------------------------------------------------------------------------------
(* Properties                                                                *)

Promoting(l) == {t \in Tuples : rcv[t].at = "promote" /\ rcv[t].lst = l}

\* The accept-queue counters are the connections queued and the places promote
\* has still to fill or give back, whichever way a connection left the queue
\* (Accept, RST, give-up, Close of the listener or the device), and never pass
\* their limits (listener.enqueue, dequeue, synInput, promote).
QueueIsCounted ==
  /\ \A l \in Listeners : /\ tab.qLen[l] = Len(tab.q[l]) + Cardinality(Promoting(l))
                          /\ tab.qLen[l] <= AcceptQ \div 2
  /\ tab.queued = FoldFunction(+, 0, tab.qLen)
  /\ tab.queued <= AcceptQ

\* A four-tuple is in one table at a time, and the index and the slots agree on
\* where its connection is, so a segment has one place to go to (inputTCP).
OneHome ==
  ~tab.closed =>
    /\ \A t \in Tuples :
         Cardinality({x \in {"index", "row", "syn"} :
                        \/ x = "index" /\ tab.index[t] # None
                        \/ x = "row" /\ \E k \in DOMAIN tab.tw : tab.tw[k].tup = t
                        \/ x = "syn" /\ tab.syn[t] # None}) <= 1
    /\ \A t \in Tuples : tab.index[t] # None =>
         LET s == tab.index[t].slot IN
         tab.indexed[s] /\ tab.slot[s].tup = t /\ tab.gen[s] = tab.index[t].gen
    /\ \A s \in Slots : tab.indexed[s] =>
         tab.slot[s].st \notin {"free", "closed"} /\ tab.index[tab.slot[s].tup] # None

\* Someone still answers for a connection in a slot: the accept queue, the Accept
\* or Close that took it off the queue, the application through its Conn, or the
\* protocol with its timers once the application has closed it.
Answered(s) ==
  \/ QueueOf(tab, s) # {}
  \/ \E l \in Listeners :
       \/ acc[l] # None /\ acc[l].slot = s /\ acc[l].gen = tab.gen[s]
       \/ \E k \in DOMAIN cls[l] : cls[l][k].slot = s /\ cls[l][k].gen = tab.gen[s]
  \/ dev # None /\ s \in dev
  \/ tab.slot[s].accepted /\ ~tab.slot[s].appClosed
       /\ \E h \in handles : h.slot = s /\ h.gen = tab.gen[s]
  \/ tab.slot[s].appClosed /\ tab.slot[s].st \notin {"established", "closeWait", "closed"}

\* No slot is lost: it is on the free list, or set aside for one promotion, or
\* holds a connection that someone still answers for (release, toClosed,
\* tryRetire, promote, Accept, Close).
NoSlotLost ==
  \A s \in Slots :
    LET kept == {t \in Tuples : rcv[t].at = "promote" /\ rcv[t].slot = s} IN
    IF tab.slot[s].st = "free"
    THEN IF s \in tab.free THEN kept = {} ELSE Cardinality(kept) = 1
    ELSE s \notin tab.free /\ kept = {} /\ Answered(s)

\* A call through a Conn, and the end Close of a listener puts to a connection it
\* took off its queue, touch that connection only, never the next one in the slot
\* or the TIME_WAIT row of another with the same tuple (Conn.lock, abortTWRow).
OnlyOwnConnection == ~strayed

\* Nothing of a closed listener is left behind: no connection in its queue and no
\* half-open row but one that is being promoted and will be refused.
ClosedListenerIsEmpty ==
  \A l \in tab.used : tab.open # l /\ ~tab.closed =>
    tab.q[l] = <<>> /\ \A t \in RowsOf(tab, l) : tab.syn[t].promoting

\* Device.Close gives back every slot, those whose promotion was under way too.
ClosedDeviceIsFree ==
  dev = {} /\ (\A t \in Tuples : rcv[t].at # "promote") => tab.free = Slots /\ tab.queued = 0

\* A connection in TIME_WAIT is given up for a SYN only if the SYN gets a half-open
\* row: dropped instead, it comes again and starts from the clock alone, not past
\* the old connection (comments at refuseReuse and in twInput).
ReuseHasRoom ==
  \A t \in Tuples : rcv[t].at = "again" /\ rcv[t].after /\ tab.open # None => SynRoom(tab)

================================================================================
