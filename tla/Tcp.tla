-------------------------------- MODULE Tcp --------------------------------
(***************************************************************************)
(* One TCP connection of the userspace stack, src/internal/wgstack: the    *)
(* connection code (tcb.go, tcpin.go, ack.go, tcpout.go, timers.go,        *)
(* rcvwin.go, conn.go and the TIME_WAIT rows of timewait.go) run at both   *)
(* ends of a network that loses, duplicates and reorders.  The connection  *)
(* starts established, SACK negotiated; the handshake and the tables are   *)
(* module TcpTables.                                                       *)
(*                                                                         *)
(* One unit of data stands for one full segment (MSS = 1), sequence        *)
(* numbers are taken modulo Modulus and compared as seqLT compares the     *)
(* 32 bit ones.  A unit's content is its position in the writer's stream.  *)
(* An armed timer fires when nothing else is going on; one that fires      *)
(* early is one of the rare events, as every loss, duplicate, reordering   *)
(* and suppressed ACK is, of which a behaviour has at most MaxRare.  The   *)
(* congestion window, RACK and the TLP probe decide when a unit is sent    *)
(* again, never what is sent: LossDetected stands for them, and pipe = 0   *)
(* always lets something out.                                              *)
(***************************************************************************)
EXTENDS Integers, Sequences, FiniteSets

CONSTANTS Ends,        \* the two ends
          ISS,         \* the initial sequence number of each end
          Units,       \* how many units each application writes at most
          SendCap,     \* sndCap
          RecvFloor,   \* the receive buffer without the boost slot
          RecvBoost,   \* the receive buffer with it
          Modulus,     \* sequence numbers are taken modulo this
          NetRoom,     \* segments in flight to one end
          MaxRare,     \* rare events of one behaviour
          MayAbort     \* ends that may abort, time out or close early

ASSUME TcpAssumption ==
  /\ Cardinality(Ends) = 2
  /\ ISS \in [Ends -> 0 .. Modulus - 1]
  /\ Units \in [Ends -> Nat]
  /\ {SendCap, RecvFloor, RecvBoost, NetRoom} \subseteq Nat \ {0}
  /\ RecvFloor <= RecvBoost
  /\ Modulus \in Nat /\ Modulus % 2 = 0
  /\ \A e \in Ends : 2 * (Units[e] + RecvBoost + 2) < Modulus
  /\ MayAbort \subseteq Ends

VARIABLES tcb,      \* tcb: what each end keeps of the connection
          net,      \* the segments on their way to each end
          rare,     \* rare events so far
          read,     \* what each application has read
          hist,     \* what each end has ever written and received
          broken    \* the connection was reset or given up

vars == <<tcb, net, rare, read, hist, broken>>

Peer(e) == CHOOSE p \in Ends : p # e

----------------------------------------------------------------------------
(* Sequence numbers (index.go).                                            *)

Seq32(x)   == x % Modulus
SeqLT(a, b) == Seq32(a - b) >= Modulus \div 2
SeqLE(a, b) == a = b \/ SeqLT(a, b)
SeqGT(a, b) == SeqLT(b, a)
SeqGE(a, b) == SeqLE(b, a)

Smaller(a, b) == IF a < b THEN a ELSE b

----------------------------------------------------------------------------
(* The connection.  sndNxt never goes back, so it is sndMax too.  sacked   *)
(* and lost are the units of the scoreboard that the peer has reported and *)
(* that wait to be sent again.  held is the receive ring: offset and       *)
(* content of what is unread or out of order.                              *)

NoFin == -1

Released ==
  [st |-> "free", iss |-> 0, irs |-> 0, una |-> 0, nxt |-> 0, unaOff |-> 0,
   tail |-> 0, shut |-> FALSE, finSent |-> FALSE, joint |-> FALSE, wnd |-> 0,
   wl1 |-> 0, wl2 |-> 0, persist |-> FALSE, probe |-> FALSE, rto |-> FALSE,
   backoff |-> FALSE, sacked |-> {}, lost |-> {}, outq |-> FALSE, rnxt |-> 0,
   readOff |-> 0, nxtOff |-> 0, held |-> {}, finRcvd |-> FALSE,
   oooFin |-> NoFin, adv |-> 0, cap |-> 0, ackNow |-> FALSE,
   delack |-> FALSE, closed |-> TRUE, err |-> FALSE]

Established(e) ==
  LET iss == ISS[e]
      irs == ISS[Peer(e)]
  IN  [Released EXCEPT
         !.st = "established", !.iss = iss, !.irs = irs,
         !.una = Seq32(iss + 1), !.nxt = Seq32(iss + 1), !.wnd = RecvFloor,
         !.wl1 = Seq32(irs + 1), !.wl2 = Seq32(iss + 1),
         !.rnxt = Seq32(irs + 1), !.adv = RecvFloor, !.cap = RecvFloor,
         !.closed = FALSE]

Rows == {"rowFinWait2", "rowTimeWait"}
Gone == Rows \cup {"free", "closed"}

DataEnd(c) == Seq32(c.iss + 1 + c.tail)
FinSeq(c)  == DataEnd(c)
FinAcked(c) == c.finSent /\ SeqGT(c.una, FinSeq(c))
InFlight(c) == Seq32(c.nxt - c.una)
Outstanding(c) == {Seq32(c.una + i) : i \in 0 .. InFlight(c) - 1}
Pipe(c) == InFlight(c) - Cardinality(c.sacked) - Cardinality(c.lost)

\* The data unit that shares its record with the FIN: no SACK block covers
\* the whole record, so it is never marked.
WithFin(c, s) == c.joint /\ Seq32(s + 1) = FinSeq(c)

Record(c, s) == {s} \cup IF WithFin(c, s) THEN {FinSeq(c)} ELSE {}

FirstOf(c, S) == CHOOSE s \in S : \A t \in S : SeqLE(s, t)

Unread(c) == c.nxtOff - c.readOff
Ooo(c) == {h \in c.held : h[1] >= c.nxtOff}
RcvEmpty(c) == Unread(c) = 0 /\ Ooo(c) = {}

----------------------------------------------------------------------------
(* The receive window (rcvwin.go).  The advertised right edge never moves  *)
(* back.                                                                   *)

RcvFree(c) ==
  LET used == Unread(c) + Cardinality(Ooo(c))
  IN  IF c.cap > used THEN c.cap - used ELSE 0

RcvTarget(c) == c.nxtOff + RcvFree(c)
RcvWindow(c) == IF c.adv > c.nxtOff THEN c.adv - c.nxtOff ELSE 0

\* windowField: the right edge moves when it gains one segment or half of
\* the buffer, whichever is less.
OpenWindow(c) ==
  IF RcvTarget(c) > c.adv /\ RcvTarget(c) - c.adv >= Smaller(c.cap \div 2, 1)
  THEN [c EXCEPT !.adv = RcvTarget(c)]
  ELSE c

\* windowUpdate: a read that at least doubles a small window announces it.
WindowUpdate(c) ==
  LET cur  == RcvWindow(c)
      next == RcvTarget(c) - c.nxtOff
  IN  IF 2 * cur <= c.cap /\ next > 0 /\ next >= 2 * cur /\ next > cur
      THEN [c EXCEPT !.ackNow = TRUE]
      ELSE c

----------------------------------------------------------------------------
(* What may be sent (tcpout.go).                                           *)

ResendAllowed(c) ==
  /\ c.lost # {}
  /\ ~c.persist
  /\ LET s == FirstOf(c, c.lost)
     IN  s = c.una \/ SeqLT(s, Seq32(c.una + c.wnd))

Avail(c) == IF SeqLT(c.nxt, DataEnd(c)) THEN Seq32(DataEnd(c) - c.nxt) ELSE 0
Usable(c) == IF c.wnd > InFlight(c) THEN c.wnd - InFlight(c) ELSE 0
FinPending(c) == c.shut /\ SeqLE(c.nxt, FinSeq(c))

NewData(c) ==
  Avail(c) > 0 /\ Usable(c) > 0 /\ ~(c.persist /\ c.wnd = 0)
NewFin(c) ==
  /\ FinPending(c)
  /\ \/ Avail(c) = 0 /\ Usable(c) > 0
     \/ Avail(c) = 1 /\ Usable(c) > 1

HasUnsent(c) == c.lost # {} \/ SeqLT(c.nxt, DataEnd(c)) \/ FinPending(c)

WantOutput(c) ==
  CASE c.st \in {"free", "closed"} -> FALSE
    [] c.st = "timeWait" \/ c.st \in Rows -> c.ackNow
    [] OTHER -> \/ c.probe \/ c.ackNow
                \/ ResendAllowed(c) \/ NewData(c) \/ NewFin(c)

----------------------------------------------------------------------------
(* Timers shared by the retransmission and the window probe (timers.go).   *)

EnterPersist(c) ==
  [c EXCEPT !.persist = TRUE, !.rto = FALSE, !.backoff = FALSE]

LeavePersist(c) ==
  [c EXCEPT !.persist = FALSE, !.backoff = FALSE, !.rto = InFlight(c) > 0]

EnterTimeWait(c) ==
  [c EXCEPT !.st = "timeWait", !.persist = FALSE, !.rto = FALSE,
            !.probe = FALSE]

----------------------------------------------------------------------------
(* The end of a connection (tcb.go).                                       *)

\* toClosed: unread data stays readable, everything else goes.
ToClosed(c, err) ==
  IF c.closed THEN Released
  ELSE [c EXCEPT !.st = "closed", !.err = @ \/ err, !.unaOff = c.tail,
                 !.sacked = {}, !.lost = {}, !.outq = FALSE,
                 !.persist = FALSE, !.probe = FALSE, !.rto = FALSE,
                 !.ackNow = FALSE, !.delack = FALSE,
                 !.held = {h \in @ : h[1] < c.nxtOff}]

\* addTWRow: the row keeps the numbers, the window and an ACK still owed.
TwRow(c, st) ==
  [Released EXCEPT !.st = st, !.nxt = c.nxt, !.rnxt = c.rnxt,
                   !.wnd = RcvWindow(OpenWindow(c)),
                   !.ackNow = c.ackNow, !.outq = c.ackNow]

MayRetire(c) ==
  /\ c.closed /\ RcvEmpty(c) /\ InFlight(c) = 0 /\ FinAcked(c)
  /\ c.st \in {"finWait2", "timeWait"}

\* afterInput, tryRetire included: every handler ends here.
AfterInputWithoutProbes(c) ==
  LET queued == [c EXCEPT !.outq = @ \/ WantOutput(c)]
  IN  CASE c.st = "free" \/ c.st \in Rows -> c
        [] c.closed /\ c.st = "closed" -> Released
        [] MayRetire(c) ->
             TwRow(c, IF c.st = "finWait2" THEN "rowFinWait2" ELSE "rowTimeWait")
        [] OTHER -> queued
AfterInput(c) ==
  LET queued == [c EXCEPT !.outq = @ \/ WantOutput(c)]
  IN  CASE c.st = "free" \/ c.st \in Rows -> c
        [] c.closed /\ c.st = "closed" -> Released
        [] MayRetire(c) ->
             TwRow(c, IF c.st = "finWait2" THEN "rowFinWait2" ELSE "rowTimeWait")
        [] OTHER ->
             IF /\ c.wnd = 0 /\ ~c.persist /\ Pipe(c) = 0
                /\ HasUnsent(c) /\ c.st # "closed"
             THEN EnterPersist(queued)
             ELSE queued
----------------------------------------------------------------------------
(* Segments.  Every one carries an ACK, except the RST that answers a      *)
(* segment nobody owns.                                                    *)

NoData == -1

Segment(seq, ack) ==
  [seq |-> seq, ack |-> ack, data |-> NoData, fin |-> FALSE, rst |-> FALSE,
   wnd |-> 0, sack |-> {}]

PayLen(seg) == IF seg.data = NoData THEN 0 ELSE 1
SeqLen(seg) == PayLen(seg) + (IF seg.fin THEN 1 ELSE 0)

Rst(c) == [Segment(c.nxt, c.rnxt) EXCEPT !.rst = TRUE]
ReplyRst(seg) ==
  IF seg.rst THEN <<>> ELSE <<[Segment(seg.ack, 0) EXCEPT !.rst = TRUE]>>

\* What a handler leaves behind: the connection, control segments, and
\* whether the connection was cut.
Left(c, ctl, cut) == [c |-> c, ctl |-> ctl, cut |-> cut]

----------------------------------------------------------------------------
(* Input of a segment (tcpin.go, ack.go).                                  *)

InWindow(x, nxt, wnd) == SeqGE(x, nxt) /\ SeqLT(x, Seq32(nxt + wnd))

Acceptable(c, seg) ==
  LET wnd  == RcvWindow(c)
      last == Seq32(seg.seq + SeqLen(seg) - 1)
  IN  IF wnd = 0 THEN seg.seq = c.rnxt
      ELSE \/ InWindow(seg.seq, c.rnxt, wnd)
           \/ SeqLen(seg) > 0 /\ InWindow(last, c.rnxt, wnd)

\* oowAck and challengeAck: the rate limit may suppress the ACK.
LimitedAck(c, quiet) == IF quiet THEN c ELSE [c EXCEPT !.ackNow = TRUE]

UpdateSendWindow(c, seg) ==
  IF SeqLT(c.wl1, seg.seq) \/ (c.wl1 = seg.seq /\ SeqLE(c.wl2, seg.ack))
  THEN [c EXCEPT !.wnd = seg.wnd, !.wl1 = seg.seq, !.wl2 = seg.ack]
  ELSE c

FinAckedStateOnAnyAck(c) ==
  IF c.st = "finWait1" THEN [c EXCEPT !.st = "finWait2"] ELSE c
FinAckedStateOfTheFirst(c) ==
  IF FinAcked(c) /\ c.st = "finWait1" THEN [c EXCEPT !.st = "finWait2"] ELSE c
FinAckedState(c) ==
  IF ~FinAcked(c) THEN c
  ELSE CASE c.st = "finWait1" -> [c EXCEPT !.st = "finWait2"]
         [] c.st = "closing" -> EnterTimeWait(c)
         [] c.st = "lastAck" -> ToClosed(c, FALSE)
         [] OTHER -> c

\* newAck with retireAcked: the FIN is not a byte of the ring.
NewAckKeepsLost(c, ack) ==
  FinAckedState(
    [c EXCEPT !.unaOff = @ + Smaller(Seq32(ack - c.una), c.tail - @),
              !.una = ack, !.backoff = FALSE, !.rto = ack # c.nxt])
NewAck(c, ack) ==
  LET acked  == Seq32(ack - c.una)
      bytes  == Smaller(acked, c.tail - c.unaOff)
      behind(S) == {s \in S : SeqGE(s, ack)}
  IN  FinAckedState(
        [c EXCEPT !.unaOff = @ + bytes, !.una = ack, !.backoff = FALSE,
                  !.sacked = behind(@), !.lost = behind(@),
                  !.rto = IF c.persist THEN @ ELSE ack # c.nxt])

\* markSACK: the blocks of one segment are dropped together when one of them
\* lies outside what was sent.
MarkSACK(c, seg) ==
  IF \E s \in seg.sack :
       SeqGE(s, c.nxt) \/ SeqLT(s, Seq32(c.una - RecvBoost))
  THEN c
  ELSE LET got == {s \in seg.sack : SeqGE(s, c.una) /\ ~WithFin(c, s)}
       IN  [c EXCEPT !.sacked = @ \cup got, !.lost = @ \ got]

ProcessAck(c, seg) ==
  LET c1 == UpdateSendWindow(c, seg)
      c2 == IF SeqGT(seg.ack, c1.una) THEN NewAck(c1, seg.ack) ELSE c1
      c3 == MarkSACK(c2, seg)
  IN  IF c2.st \in Gone THEN c2
      ELSE IF c3.wnd > 0 /\ c3.persist THEN LeavePersist(c3) ELSE c3

\* finRecv.
FinRecv(c) ==
  LET c1 == [c EXCEPT !.finRcvd = TRUE, !.oooFin = NoFin, !.ackNow = TRUE,
                      !.rnxt = Seq32(c.irs + 1 + c.nxtOff + 1)]
  IN  CASE c.st = "established" -> [c1 EXCEPT !.st = "closeWait"]
        [] c.st = "finWait1" ->
             IF FinAcked(c) THEN EnterTimeWait(c1)
             ELSE [c1 EXCEPT !.st = "closing"]
        [] OTHER -> EnterTimeWait(c1)

\* recvBuf.insert of at most one unit: what is in order takes the adjacent
\* out of order units with it.
NextGap(held, from) ==
  CHOOSE n \in from .. from + RecvBoost :
    /\ \A i \in from .. n - 1 : \E h \in held : h[1] = i
    /\ ~\E h \in held : h[1] = n

Insert(c, off, seg) ==
  LET limit == Smaller(c.adv, c.readOff + c.cap)
      known == off < c.nxtOff \/ \E h \in c.held : h[1] = off
      held  == c.held \cup {<<off, seg.data>>}
  IN  IF seg.data = NoData \/ off >= limit \/ known THEN c
      ELSE [c EXCEPT !.held = held, !.nxtOff = NextGap(held, c.nxtOff)]

Trimmed(c, off, seg) ==
  seg.data # NoData /\ off >= Smaller(c.adv, c.readOff + c.cap)

\* A FIN beyond a gap is remembered until the gap is filled.
TakeFinAtOnce(c, fin) == IF fin >= c.nxtOff THEN FinRecv(c) ELSE c
TakeFin(c, fin) ==
  CASE fin = c.nxtOff -> FinRecv(c)
    [] fin > c.nxtOff -> [c EXCEPT !.oooFin = fin]
    [] OTHER -> c

\* inputData.  With delay, the ACK of an in order segment waits for the
\* delayed ACK timer.
InputData(c, seg, delay) ==
  LET off  == c.nxtOff + (LET d == Seq32(seg.seq - (c.irs + 1 + c.nxtOff))
                          IN  IF d >= Modulus \div 2 THEN d - Modulus ELSE d)
      c1   == Insert(c, off, seg)
      fin  == off + PayLen(seg)
      c2   == IF ~seg.fin \/ Trimmed(c, off, seg) THEN c1
              ELSE TakeFin(c1, fin)
      c3   == IF ~c2.finRcvd /\ c2.oooFin = c2.nxtOff THEN FinRecv(c2) ELSE c2
      c4   == IF c3.finRcvd THEN c3
              ELSE [c3 EXCEPT !.rnxt = Seq32(c.irs + 1 + c3.nxtOff)]
      plain == c1.nxtOff = c.nxtOff + 1 /\ Ooo(c4) = {}
  IN  CASE SeqLen(seg) = 0 -> Left(c, <<>>, FALSE)
        [] c.st \notin {"established", "finWait1", "finWait2"} ->
             Left([c EXCEPT !.ackNow = TRUE], <<>>, FALSE)
        [] c.closed /\ PayLen(seg) > 0 /\ SeqGT(Seq32(seg.seq + 1), c.rnxt) ->
             Left(Released, <<Rst(c)>>, TRUE)
        [] off < 0 -> Left(c, <<>>, FALSE)
        [] seg.data = NoData /\ Ooo(c4) = {} -> Left(c4, <<>>, FALSE)
        [] plain /\ delay -> Left([c4 EXCEPT !.delack = TRUE], <<>>, FALSE)
        [] OTHER -> Left([c4 EXCEPT !.ackNow = TRUE], <<>>, FALSE)

\* timeWaitInput: a connection that is in TIME_WAIT and not yet a row.
TimeWaitInput(c, seg, quiet) ==
  CASE seg.rst -> IF seg.seq = c.rnxt THEN ToClosed(c, FALSE) ELSE c
    [] seg.fin /\ Seq32(seg.seq + PayLen(seg) + 1) = c.rnxt ->
         [c EXCEPT !.ackNow = TRUE]
    [] SeqLen(seg) > 0 \/ seg.seq # c.rnxt -> LimitedAck(c, quiet)
    [] OTHER -> c

\* input.
ConnInput(c, seg, quiet, delay) ==
  LET acked == ProcessAck(c, seg)
      res   == InputData(acked, seg, delay)
  IN  CASE c.st = "timeWait" ->
             Left(AfterInput(TimeWaitInput(c, seg, quiet)), <<>>, FALSE)
        [] ~Acceptable(c, seg) ->
             Left(AfterInput(IF seg.rst THEN c ELSE LimitedAck(c, quiet)),
                  <<>>, FALSE)
        [] seg.rst ->
             IF seg.seq = c.rnxt THEN Left(ToClosed(c, TRUE), <<>>, TRUE)
             ELSE Left(AfterInput(LimitedAck(c, quiet)), <<>>, FALSE)
        [] SeqGT(seg.ack, c.nxt) \/ SeqLT(seg.ack, Seq32(c.una - RecvBoost)) ->
             Left(AfterInput(LimitedAck(c, quiet)), <<>>, FALSE)
        [] acked.st \in {"free", "closed"} -> Left(acked, <<>>, FALSE)
        [] OTHER -> [res EXCEPT !.c = AfterInput(@)]

\* twInput: a row.  RowAck queues the row's ACK.
RowAck(r, quiet) ==
  IF quiet THEN r ELSE [r EXCEPT !.ackNow = TRUE, !.outq = TRUE]

RowAcceptable(r, seg) ==
  IF r.wnd = 0 THEN SeqLen(seg) = 0 /\ seg.seq = r.rnxt
  ELSE \/ InWindow(seg.seq, r.rnxt, r.wnd)
       \/ /\ SeqLen(seg) > 0
          /\ InWindow(Seq32(seg.seq + SeqLen(seg) - 1), r.rnxt, r.wnd)

RowInput(r, seg, quiet) ==
  LET payEnd == Seq32(seg.seq + PayLen(seg))
  IN  CASE seg.rst ->
             Left(IF seg.seq = r.rnxt THEN Released ELSE r, <<>>, FALSE)
        [] r.st = "rowFinWait2" /\ ~RowAcceptable(r, seg) ->
             Left(RowAck(r, quiet), <<>>, FALSE)
        [] r.st = "rowFinWait2" /\ PayLen(seg) > 0 /\ SeqGT(payEnd, r.rnxt) ->
             Left(Released, ReplyRst(seg), TRUE)
        [] r.st = "rowFinWait2" ->
             Left(IF seg.fin /\ payEnd = r.rnxt
                  THEN RowAck([r EXCEPT !.rnxt = Seq32(@ + 1),
                                        !.st = "rowTimeWait"], FALSE)
                  ELSE r, <<>>, FALSE)
        [] seg.fin /\ Seq32(payEnd + 1) = r.rnxt ->
             Left(RowAck(r, FALSE), <<>>, FALSE)
        [] SeqLen(seg) > 0 \/ seg.seq # r.rnxt ->
             Left(RowAck(r, quiet), <<>>, FALSE)
        [] OTHER -> Left(r, <<>>, FALSE)

\* inputTCP for a segment of this connection: an unindexed one is answered
\* with RST.
Input(c, seg, quiet, delay) ==
  CASE c.st \in {"free", "closed"} -> Left(c, ReplyRst(seg), FALSE)
    [] c.st \in Rows -> RowInput(c, seg, quiet)
    [] OTHER -> ConnInput(c, seg, quiet, delay)
----------------------------------------------------------------------------
(* Output (poll, build and emit of tcpout.go; pollTWRow).                  *)

\* emit with ackSent.
EmitStillOwing(c, seq, data, fin) ==
  LET c1 == OpenWindow(c)
  IN  [c   |-> c1,
       seg |-> [Segment(seq, c.rnxt) EXCEPT
                  !.data = data, !.fin = fin, !.wnd = RcvWindow(c1),
                  !.sack = {Seq32(c.irs + 1 + h[1]) : h \in Ooo(c)}]]
EmitCountingHeld(c, seq, data, fin) ==
  LET c1 == [OpenWindow(c) EXCEPT !.ackNow = FALSE, !.delack = FALSE]
  IN  [c   |-> c1,
       seg |-> [Segment(seq, Seq32(c.rnxt + Cardinality(Ooo(c)))) EXCEPT
                  !.data = data, !.fin = fin, !.wnd = RcvWindow(c1)]]
Emit(c, seq, data, fin) ==
  LET c1 == [OpenWindow(c) EXCEPT !.ackNow = FALSE, !.delack = FALSE]
  IN  [c   |-> c1,
       seg |-> [Segment(seq, c.rnxt) EXCEPT
                  !.data = data, !.fin = fin, !.wnd = RcvWindow(c1),
                  !.sack = {Seq32(c.irs + 1 + h[1]) : h \in Ooo(c)}]]

\* The content the send ring holds for sequence number s.
ContentFromRingStart(c, s) == Seq32(s - c.una)
Content(c, s) == c.unaOff + Seq32(s - c.una)

\* sendRangeOK: a retransmission stays inside what was sent and is still
\* held.  When it does not, the code cuts the connection (accountingFault).
SendRangeOK(c, s) ==
  /\ s \in Outstanding(c)
  /\ s # FinSeq(c) => Content(c, s) < c.tail

BuildResend(c) ==
  LET s   == FirstOf(c, c.lost)
      bare == c.finSent /\ s = FinSeq(c)
      fin == bare \/ WithFin(c, s)
      c1  == [c EXCEPT !.lost = @ \ Record(c, s), !.rto = TRUE]
  IN  Emit(c1, s, IF bare THEN NoData ELSE Content(c, s), fin)

BuildNew(c) ==
  LET n   == IF NewData(c) THEN 1 ELSE 0
      fin == NewFin(c)
      c1  == [c EXCEPT !.nxt = Seq32(@ + n + IF fin THEN 1 ELSE 0),
                       !.finSent = @ \/ fin, !.joint = @ \/ (fin /\ n = 1),
                       !.rto = @ \/ ~c.persist]
  IN  Emit(c1, c.nxt, IF n = 1 THEN Content(c, c.nxt) ELSE NoData, fin)

BuildRow(r) ==
  [c   |-> [r EXCEPT !.ackNow = FALSE],
   seg |-> [Segment(r.nxt, r.rnxt) EXCEPT !.wnd = r.wnd]]

CanBuild(c) == WantOutput(c)

Build(c) ==
  CASE c.st \in Rows -> BuildRow(c)
    [] c.probe ->
         Emit([c EXCEPT !.probe = FALSE], Seq32(c.una - 1), NoData, FALSE)
    [] c.st # "timeWait" /\ ResendAllowed(c) -> BuildResend(c)
    [] c.st # "timeWait" /\ (NewData(c) \/ NewFin(c)) -> BuildNew(c)
    [] OTHER -> Emit(c, c.nxt, NoData, FALSE)

----------------------------------------------------------------------------
(* The specification.                                                      *)

Init ==
  /\ tcb = [e \in Ends |-> Established(e)]
  /\ net = [e \in Ends |-> <<>>]
  /\ rare = 0
  /\ read = [e \in Ends |-> <<>>]
  /\ hist = [e \in Ends |-> [wrote |-> 0, got |-> 0, fin |-> FALSE,
                             eof |-> FALSE]]
  /\ broken = FALSE

\* The history of an end whose connection is c: the most it ever received in
\* order.
Note(h, c) ==
  [h EXCEPT !.got = IF c.nxtOff > @ THEN c.nxtOff ELSE @,
            !.fin = @ \/ c.finRcvd \/ c.st = "rowTimeWait"]

Put(e, c) ==
  /\ tcb' = [tcb EXCEPT ![e] = c]
  /\ hist' = [hist EXCEPT ![e] = Note(@, c)]

\* A full control ring drops the RST.
Control(n, e, ctl) ==
  IF Len(n[e]) + Len(ctl) <= NetRoom THEN [n EXCEPT ![e] = @ \o ctl] ELSE n

Without(seq, i) == SubSeq(seq, 1, i - 1) \o SubSeq(seq, i + 1, Len(seq))
Cost(bad) == IF bad THEN 1 ELSE 0

Deliver(e) ==
  \E i \in DOMAIN net[e], dup, quiet \in BOOLEAN :
    LET Results(q) == {Input(tcb[e], net[e][i], q, delay) : delay \in BOOLEAN}
        left == IF dup THEN net ELSE [net EXCEPT ![e] = Without(@, i)]
        cost == Cost(i # 1) + Cost(dup) + Cost(quiet)
    IN  /\ rare + cost <= MaxRare
        /\ rare' = rare + cost
        /\ \E res \in IF quiet THEN Results(TRUE) \ Results(FALSE) ELSE Results(FALSE) :
             /\ net' = Control(left, Peer(e), res.ctl)
             /\ Put(e, res.c)
             /\ broken' = (broken \/ res.cut)
        /\ UNCHANGED read

Lose(e) ==
  /\ net[e] # <<>>
  /\ rare < MaxRare
  /\ net' = [net EXCEPT ![e] = Tail(@)]
  /\ rare' = rare + 1
  /\ UNCHANGED <<tcb, read, hist, broken>>

\* poll: the connection is taken from the output list, and goes back while
\* it built a segment and has more.
Output(e) ==
  /\ tcb[e].outq
  /\ Len(net[Peer(e)]) < NetRoom
  /\ IF CanBuild(tcb[e])
     THEN LET out == Build(tcb[e])
          IN  /\ Put(e, [out.c EXCEPT !.outq = WantOutput(out.c)])
              /\ net' = [net EXCEPT ![Peer(e)] = Append(@, out.seg)]
     ELSE /\ Put(e, [tcb[e] EXCEPT !.outq = FALSE])
          /\ UNCHANGED net
  /\ UNCHANGED <<rare, read, broken>>

Settle(e, c) == Put(e, AfterInput(c)) /\ UNCHANGED <<net, rare, read, broken>>

\* Timers are slow: one that fires while segments are still on their way, or
\* before the poller has run, is one of the rare events.
Idle == \A e \in Ends : net[e] = <<>> /\ ~tcb[e].outq
Fire(e, c) ==
  /\ rare + Cost(~Idle) <= MaxRare
  /\ rare' = rare + Cost(~Idle)
  /\ Put(e, AfterInput(c))
  /\ UNCHANGED <<net, read, broken>>

\* onRTO.  The first one may mark the head alone (F-RTO); a second one, or a
\* head the peer claimed to hold, takes back what the peer reported.
RTO(e) ==
  LET c       == tcb[e]
      reneged == /\ c.sacked # {}
                 /\ c.backoff \/ c.una \in c.sacked
      sacked  == IF reneged THEN {} ELSE c.sacked
      all     == Outstanding(c) \ sacked
  IN  /\ c.rto /\ ~c.persist
      /\ InFlight(c) > 0 /\ c.st \notin Gone
      /\ \E lost \in {all} \cup
             (IF c.backoff \/ reneged \/ InFlight(c) = 1
              THEN {} ELSE {c.lost \cup Record(c, c.una)}) :
           Fire(e, [c EXCEPT !.lost = lost, !.sacked = sacked,
                              !.backoff = TRUE])

\* RACK, the duplicate ACK threshold and the PMTU drop mark what lies below
\* something the peer has reported.
LossDetected(e) ==
  LET c == tcb[e]
  IN  /\ c.st \notin Gone
      /\ \E s \in Outstanding(c) \ (c.sacked \cup c.lost) :
           /\ \E t \in c.sacked : SeqGT(t, s)
           /\ Fire(e, [c EXCEPT !.lost = @ \cup Record(c, s)])

\* onPersist.
PersistTimer(e) ==
  LET c == tcb[e]
  IN  /\ c.persist
      /\ Fire(e, IF c.wnd # 0 \/ ~HasUnsent(c) THEN LeavePersist(c)
                  ELSE [c EXCEPT !.probe = TRUE])

DelackTimer(e) ==
  /\ tcb[e].delack
  /\ Fire(e, [tcb[e] EXCEPT !.ackNow = TRUE, !.delack = FALSE])

\* The deadline of TIME_WAIT and FIN_WAIT_2, or the eviction of a row.
CloseTimer(e) ==
  LET c == tcb[e]
  IN  \/ c.st \in Rows /\ Fire(e, Released)
      \/ /\ c.st = "timeWait" \/ (c.st = "finWait2" /\ c.closed)
         /\ Fire(e, ToClosed(c, FALSE))
----------------------------------------------------------------------------
(* The application (conn.go).                                              *)

Write(e) ==
  LET c == tcb[e]
  IN  /\ ~c.closed /\ ~c.err /\ ~c.shut
      /\ c.st \in {"established", "closeWait"}
      /\ c.tail - c.unaOff < SendCap
      /\ hist[e].wrote < Units[e]
      /\ tcb' = [tcb EXCEPT ![e] = AfterInput([c EXCEPT !.tail = @ + 1])]
      /\ hist' = [hist EXCEPT ![e].wrote = @ + 1]
      /\ UNCHANGED <<net, rare, read, broken>>

\* Read takes what is unread in one call, and answers EOF after the FIN or on
\* a connection that ended without an error.
Read(e) ==
  LET c     == tcb[e]
      at(i) == (CHOOSE h \in c.held : h[1] = c.readOff + i - 1)[2]
      c1    == [c EXCEPT !.readOff = c.nxtOff, !.held = Ooo(c),
                         !.ackNow = @ \/ c.delack]
  IN  /\ ~c.closed /\ Unread(c) > 0
      /\ read' = [read EXCEPT ![e] = @ \o [i \in 1 .. Unread(c) |-> at(i)]]
      /\ Put(e, AfterInput(IF c.st = "closed" THEN c1 ELSE WindowUpdate(c1)))
      /\ UNCHANGED <<net, rare, broken>>

ReadEOF(e) ==
  /\ ~tcb[e].closed /\ Unread(tcb[e]) = 0 /\ ~hist[e].eof
  /\ tcb[e].finRcvd \/ (tcb[e].st = "closed" /\ ~tcb[e].err)
  /\ hist' = [hist EXCEPT ![e].eof = TRUE]
  /\ UNCHANGED <<tcb, net, rare, read, broken>>

ShutdownWrite(c) ==
  CASE c.shut -> c
    [] c.st = "established" -> [c EXCEPT !.st = "finWait1", !.shut = TRUE]
    [] c.st = "closeWait" -> [c EXCEPT !.st = "lastAck", !.shut = TRUE]
    [] OTHER -> c

\* The writer has written all it has, or is one that may stop early.
MayStop(e) == hist[e].wrote = Units[e] \/ e \in MayAbort

CloseWrite(e) ==
  /\ ~tcb[e].closed /\ ~tcb[e].shut /\ MayStop(e)
  /\ Settle(e, ShutdownWrite(tcb[e]))

\* Close.  With unread data it is an RST.  The relay closes after it has seen
\* the end of the stream; an end in MayAbort closes whenever it likes.
Close(e) ==
  LET c  == tcb[e]
      c1 == [c EXCEPT !.closed = TRUE]
  IN  /\ ~c.closed /\ MayStop(e)
      /\ hist[e].eof \/ c.err \/ e \in MayAbort
      /\ CASE c.st = "closed" ->
                Put(e, Released) /\ UNCHANGED <<net, broken>>
           [] c.st # "closed" /\ Unread(c) > 0 ->
                /\ Put(e, Released)
                /\ net' = Control(net, Peer(e), <<Rst(c)>>)
                /\ broken' = TRUE
           [] OTHER ->
                Put(e, AfterInput(ShutdownWrite(c1))) /\ UNCHANGED <<net, broken>>
      /\ UNCHANGED <<rare, read>>

\* Abort, also of the row a closed connection has become (abortTWRow).
Abort(e) ==
  LET c == tcb[e]
  IN  /\ e \in MayAbort /\ c.st # "free"
      /\ Put(e, Released)
      /\ net' = IF c.st = "closed" THEN net
                ELSE Control(net, Peer(e), <<Rst(c)>>)
      /\ broken' = TRUE
      /\ UNCHANGED <<rare, read>>

\* The retransmission deadline or the probe limit: RST and abortWith.
GiveUp(e) ==
  LET c == tcb[e]
  IN  /\ e \in MayAbort /\ c.st \notin Gone
      /\ \/ c.rto /\ InFlight(c) > 0
         \/ c.persist /\ c.wnd = 0 /\ HasUnsent(c)
      /\ Put(e, ToClosed(c, TRUE))
      /\ net' = Control(net, Peer(e), <<Rst(c)>>)
      /\ broken' = TRUE
      /\ UNCHANGED <<rare, read>>

\* tryBoost with growRecv, and demote, which takes back what lies outside the
\* smaller buffer although the peer was told of it, and does not shrink the
\* advertised window.
Boost(e) ==
  LET c == tcb[e]
  IN  /\ c.st \notin Gone /\ ~c.closed /\ c.cap < RecvBoost
      /\ rare < MaxRare /\ rare' = rare + 1
      /\ Put(e, AfterInput([c EXCEPT !.cap = RecvBoost]))
      /\ UNCHANGED <<net, read, broken>>

Demote(e) ==
  LET c == tcb[e]
  IN  /\ c.st \notin Gone /\ c.cap > RecvFloor
      /\ Unread(c) <= RecvFloor
      /\ rare < MaxRare /\ rare' = rare + 1
      /\ Put(e, [c EXCEPT !.cap = RecvFloor,
                          !.held = {h \in @ : h[1] < c.readOff + RecvFloor}])
      /\ UNCHANGED <<net, read, broken>>

Next ==
  \E e \in Ends :
    \/ Deliver(e) \/ Lose(e) \/ Output(e)
    \/ RTO(e) \/ LossDetected(e) \/ PersistTimer(e) \/ DelackTimer(e)
    \/ CloseTimer(e)
    \/ Write(e) \/ Read(e) \/ ReadEOF(e) \/ CloseWrite(e) \/ Close(e)
    \/ Abort(e) \/ GiveUp(e) \/ Boost(e) \/ Demote(e)

Spec == Init /\ [][Next]_vars

----------------------------------------------------------------------------
(* Properties.                                                             *)

\* Every byte an application reads is the byte the other application wrote at
\* that position: nothing is lost, doubled or out of place, whatever the
\* network does, across wrapping sequence numbers, retransmissions of parts
\* of a record and data the receiver gave up and got again.
StreamIntact ==
  \A e \in Ends :
    /\ Len(read[e]) <= hist[Peer(e)].wrote
    /\ \A i \in DOMAIN read[e] : read[e][i] = i - 1

\* A unit the sender has dropped from its ring because it was confirmed was
\* received in order by the other end.
ConfirmedIsReceived ==
  \A e \in Ends :
    tcb[e].st \notin Gone => tcb[e].unaOff <= hist[Peer(e)].got

\* Delivered() of a closed connection that was never cut: the peer has every
\* unit and the FIN.
Delivered(c) ==
  /\ c.closed
  /\ \/ c.st \in Gone \cup {"timeWait"}
     \/ c.st = "finWait2" /\ RcvEmpty(c)
DeliveredIsTrue ==
  \A e \in Ends :
    Delivered(tcb[e]) /\ ~broken =>
      /\ hist[Peer(e)].got = hist[e].wrote
      /\ hist[Peer(e)].fin

\* An application that reads EOF has read everything the peer wrote, unless
\* the connection was cut.
EofIsTheEnd ==
  \A e \in Ends :
    hist[e].eof /\ ~broken => Len(read[e]) = hist[Peer(e)].wrote

\* What an end is told is true: a confirmed unit was received, a delivered
\* stream arrived, an EOF is the end of the stream (newAck, finRecv, Delivered).
ClaimsAreTrue == ConfirmedIsReceived /\ DeliveredIsTrue /\ EofIsTheEnd

\* Everything the send side may send again is inside what was sent and what
\* the ring holds: accountingFault is never reached.  What is held never exceeds
\* the buffer, although the advertised window reaches beyond it after a demotion.
AccountingHolds ==
  \A e \in Ends :
    LET c == tcb[e]
    IN  c.st \notin Gone =>
          /\ Cardinality(c.held) <= c.cap
          /\ \A s \in c.lost : SendRangeOK(c, s)
          /\ c.sacked \subseteq Outstanding(c) /\ c.sacked \cap c.lost = {}

----------------------------------------------------------------------------
(* Liveness.  The network, the poller, the timers and the applications     *)
(* keep running: what stays possible for good happens again and again.     *)
(* This is weak fairness with the guard of each action written out; a step *)
(* is told by what it changes.  The network's faults are finitely many.    *)

MayReadEOF(e) ==
  /\ ~tcb[e].closed /\ Unread(tcb[e]) = 0 /\ ~hist[e].eof
  /\ tcb[e].finRcvd \/ (tcb[e].st = "closed" /\ ~tcb[e].err)
MayCloseWrite(e) ==
  /\ ~tcb[e].closed /\ ~tcb[e].shut /\ MayStop(e)
  /\ tcb[e].st \in {"established", "closeWait"}
MayClose(e) ==
  /\ ~tcb[e].closed /\ MayStop(e)
  /\ hist[e].eof \/ tcb[e].err \/ e \in MayAbort
Expiring(e) ==
  \/ tcb[e].st \in Rows \cup {"timeWait"}
  \/ tcb[e].st = "finWait2" /\ tcb[e].closed

QuietSpec == Spec /\ ([]<>Idle \/ []<><<TRUE>>_vars)

FairSpec ==
  /\ QuietSpec
  /\ \A e \in Ends :
       /\ \/ []<>~(tcb[e].rto /\ InFlight(tcb[e]) > 0)
          \/ []<><<tcb'[e].lost # tcb[e].lost>>_vars
       /\ []<>~tcb[e].persist \/ []<><<tcb'[e].probe # tcb[e].probe>>_vars
       /\ []<>~Expiring(e) \/ []<><<tcb'[e].st # tcb[e].st>>_vars
       /\ \/ []<>(tcb[e].closed \/ Unread(tcb[e]) = 0)
          \/ []<><<read'[e] # read[e]>>_vars
       /\ []<>~tcb[e].delack
       /\ []<>~MayReadEOF(e) /\ []<>~MayCloseWrite(e) /\ []<>~MayClose(e)

\* Without a timer the two ends fall silent: no exchange of ACKs, challenge
\* ACKs and window updates goes on for ever.
GoesQuiet == []<>Idle

\* What one end writes the other end reads, unless the connection is cut or
\* the reader has closed: no lost window update, no reneged SACK and no
\* missed wakeup stops the stream.
EverythingIsRead ==
  \A e \in Ends :
    \A n \in 1 .. Units[e] :
      hist[e].wrote >= n ~>
        (Len(read[Peer(e)]) >= n \/ broken \/ tcb[Peer(e)].closed)

\* Both ends give their slots and rows back.
BothEnd ==
  (\A e \in Ends : tcb[e].closed) ~> (\A e \in Ends : tcb[e].st = "free")

\* A stream is carried to its end: everything written is read, and then both
\* ends give their connection back (persist and retransmission timers, TIME_WAIT).
StreamsComplete == EverythingIsRead /\ BothEnd
=============================================================================
