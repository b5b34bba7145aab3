---------------------------- MODULE ConnExchange ----------------------------
(***************************************************************************)
(* The confirmable-exchange layer of one connection                        *)
(* (src/ascon/connection/conn.go, midelement.go) against its peer over a   *)
(* UDP link that loses and reorders datagrams.                             *)
(*                                                                         *)
(* Writers are user goroutines.  Each one either sends a Confirmable GET   *)
(* through writeMessage and waits for the acknowledgement (Do, Get, ...),  *)
(* or fires an AsyncPing.  The periodic runner calls CheckExpirations,     *)
(* which retransmits or expires the entries of midHandlerContainer.  The   *)
(* read loop calls Process for each datagram from the peer: a Confirmable  *)
(* moves the MID counter (checkMyMessageID), then any message whose MID    *)
(* matches an entry runs that entry's handler (handleSpecialMessages).     *)
(*                                                                         *)
(* Time is counted in whole ticks.  Every entry and every blocked writer   *)
(* keeps its age since it started, saturated at Horizon, past which no     *)
(* guard changes.  The 32-bit msgID counter is kept modulo 2^16: every use *)
(* of it truncates to uint16 and 2^16 divides 2^32, so this is exact.      *)
(***************************************************************************)
EXTENDS Naturals, FiniteSets, Sequences, Bags, Functions

CONSTANTS
    Writers,        \* user goroutines issuing requests or pings
    NStart,         \* Transmission.nStart
    SemCap,         \* weight of numOutstandingInteraction (math.MaxInt64)
    AckTimeout,     \* Transmission.acknowledgeTimeout, in ticks
    MaxRetransmit,  \* Transmission.maxRetransmit
    Deadlines,      \* request-context deadlines, in ticks after the start, or NoDeadline
    NoDeadline,     \* a context without deadline (the zero time.Time)
    InitMsgID,      \* the counter's start, GetMID() - 0xffff/2, modulo 2^16
    MaxAlloc,       \* bound on message IDs the connection allocates
    PeerOffsets,    \* MIDs of peer Confirmables, as offsets from our counter
    MaxPeerCons     \* bound on Confirmables the peer sends

ASSUME /\ NStart \in Nat \ {0} /\ SemCap \in Nat /\ SemCap >= NStart
       /\ AckTimeout \in Nat \ {0} /\ MaxRetransmit \in Nat
       /\ Deadlines \subseteq Nat \cup {NoDeadline}
       /\ InitMsgID \in 0..65535 /\ MaxAlloc \in Nat
       /\ PeerOffsets \subseteq 0..65535 /\ MaxPeerCons \in Nat

MIDs == 0..65535
FiniteDeadlines == Deadlines \ {NoDeadline}
Horizon == LET limits == {AckTimeout * (MaxRetransmit + 1)} \cup FiniteDeadlines
           IN CHOOSE h \in limits : \A l \in limits : l <= h

\* An entry of midHandlerContainer: the waiting writer or pinger it belongs
\* to, its handler kind, Int32 retransmit counter, age since start and the
\* deadline of its context.
Entry == [mid : MIDs, owner : Writers, kind : {"req", "ping"},
          retx : 0..MaxRetransmit + 1, age : 0..Horizon + 1, deadline : Deadlines \cup {NoDeadline}]
Datagram == [to : {"peer", "us"}, type : {"CON", "ACK"}, mid : MIDs]

VARIABLES
    msgID,      \* Conn.msgID modulo 2^16
    entries,    \* midHandlerContainer
    held,       \* permits of numOutstandingInteraction held by requests
    wst,        \* writer: "idle", "acquire", "wait" (writeMessage), "pinged" (AsyncPing returned)
    wmid,       \* the MID of the writer's current request or ping
    wdl,        \* the deadline of the writer's request context
    wage,       \* ticks since the writer's request started
    resp,       \* the writer's respChan has been closed by its handler
    net,        \* datagrams in flight
    peerCons,   \* Confirmables the peer has sent
    allocated,  \* history: the MIDs GetMessageID returned, in order
    tx,         \* history: bag of the MIDs of every Confirmable we transmitted
    snap,       \* the copy of midHandlerContainer a CheckExpirations pass ranges over
    released,   \* MIDs of elements of snap whose message clone has been released
    taken       \* MIDs whose clone GetMessage took and WriteMessage has not yet sent

vars == <<msgID, entries, held, wst, wmid, wdl, wage, resp, net,
          peerCons, allocated, tx, snap, released, taken>>

TypeOK ==
    /\ msgID \in MIDs
    /\ entries \subseteq Entry
    /\ \A e, f \in entries : e.mid = f.mid => e = f
    /\ held \in Nat
    /\ wst \in [Writers -> {"idle", "acquire", "wait", "pinged"}]
    /\ wmid \in [Writers -> MIDs] /\ wdl \in [Writers -> Deadlines \cup {NoDeadline}]
    /\ wage \in [Writers -> 0..Horizon + 1]
    /\ resp \in [Writers -> BOOLEAN]
    /\ net \subseteq Datagram /\ peerCons \in 0..MaxPeerCons
    /\ allocated \in Seq(MIDs) /\ IsABag(tx)
    /\ snap \subseteq [mid : MIDs, expired : BOOLEAN] /\ released \subseteq MIDs /\ taken \subseteq MIDs

Init ==
    /\ msgID = InitMsgID /\ entries = {} /\ held = 0
    /\ wst = [w \in Writers |-> "idle"] /\ wmid = [w \in Writers |-> 0]
    /\ wdl = [w \in Writers |-> NoDeadline] /\ wage = [w \in Writers |-> 0]
    /\ resp = [w \in Writers |-> FALSE]
    /\ net = {} /\ peerCons = 0
    /\ allocated = <<>> /\ tx = EmptyBag
    /\ snap = {} /\ released = {} /\ taken = {}

Con(mid) == [to |-> "peer", type |-> "CON", mid |-> mid]
Send(mids) == /\ net' = net \cup {Con(m) : m \in mids}
              /\ tx' = tx (+) SetToBag(mids)
UsedMIDs == {e.mid : e \in entries}
\* A release is observable only through an element a CheckExpirations pass
\* still holds in its copy (no other step writes a MID again), so released
\* keeps the MIDs of those.
SnapMIDs == {e.mid : e \in snap}
-----------------------------------------------------------------------------
(* Operators translated from the code *)

\* Mutant of GetMessageID: the counter is not truncated to 16 bits.
GetMessageIDWide(id) == id + 1

\* GetMessageID: msgID.Inc(), truncated to uint16.
GetMessageID(id) == (id + 1) % 65536

\* Mutant of AcquireWeight: the + 1 is dropped.
AcquireWeightOffByOne == SemCap - NStart

\* acquireOutstandingInteraction: the weight a request acquires before it
\* hands all but one permit back.
AcquireWeight == SemCap - NStart + 1

\* Mutant of CheckMyMessageID: the counter jumps by 0xffff.
CheckMyMessageIDFullJump(id, mid) ==
    IF (mid - id) % 65536 < 16383 THEN (id + 65535) % 65536 ELSE id

\* checkMyMessageID for a Confirmable with MID mid: when the peer's MID is
\* less than 0xffff/4 ahead of our counter, jump the counter by 0xffff/2.
CheckMyMessageID(id, mid) ==
    IF (mid - id) % 65536 < 16383 THEN (id + 32767) % 65536 ELSE id

\* Mutant of IsExpired: the budget test is off by one.
IsExpiredLate(e) ==
    \/ e.deadline # NoDeadline /\ e.age > e.deadline
    \/ e.retx > MaxRetransmit

\* Mutant of IsExpired: only the context deadline expires an element.
IsExpiredDeadlineOnly(e) ==
    e.deadline # NoDeadline /\ e.age > e.deadline

\* midElement.IsExpired: the context deadline has passed, or the budget of
\* retransmissions is spent.
IsExpired(e) ==
    \/ e.deadline # NoDeadline /\ e.age > e.deadline
    \/ e.retx >= MaxRetransmit

\* midElement.Retransmit: the next acknowledgement timeout has passed.
Retransmit(e) == e.age > AckTimeout * (e.retx + 1)

\* The handler of an entry, run by handleSpecialMessages for a datagram of
\* type t: writeMessage's closes respChan whatever t is; AsyncPing's calls
\* receivedPong only for an Acknowledgement or a Reset, which this module
\* does not follow (the ping's entry is deleted either way).
ReqHandlerFires(t) == TRUE

\* handleSpecialMessages: the element LoadAndDelete found releases its
\* message clone before its handler runs.
ReleaseOnHit(hit) == released \cup ({e.mid : e \in hit} \cap SnapMIDs)

\* Mutant of CtxDone: waitForAcknowledge does not select on the request's
\* context.
CtxDoneIgnored(w) == FALSE

\* The request's context is done: its deadline has passed.
CtxDone(w) == wdl[w] # NoDeadline /\ wage[w] > wdl[w]
-----------------------------------------------------------------------------
(* Writers *)

\* writeMessage, first part: UpsertMessageID(cc.GetMessageID()) on a
\* request whose context has deadline dl (GetMessageID always runs).
WriterRequest(w, dl) ==
    /\ wst[w] \in {"idle", "pinged"} /\ Len(allocated) < MaxAlloc
    /\ msgID' = GetMessageID(msgID)
    /\ wmid' = [wmid EXCEPT ![w] = msgID']
    /\ allocated' = Append(allocated, msgID')
    /\ wst' = [wst EXCEPT ![w] = "acquire"]
    /\ wdl' = [wdl EXCEPT ![w] = dl] /\ wage' = [wage EXCEPT ![w] = 0]
    /\ resp' = [resp EXCEPT ![w] = FALSE]
    /\ UNCHANGED <<entries, held, net, peerCons, tx, snap, released, taken>>

\* prepareWriteMessage and the write: acquireOutstandingInteraction
\* (Acquire(n) blocks until n permits are free, then n - 1 go back), then
\* LoadOrStore of the entry; a MID already in the container fails the call
\* and closeFns hands the permit back.  Otherwise Session.WriteMessage sends
\* the request and waitForAcknowledge starts.
WriterSend(w) ==
    /\ wst[w] = "acquire"
    /\ held + AcquireWeight <= SemCap
    /\ IF wmid[w] \in UsedMIDs
       THEN /\ wst' = [wst EXCEPT ![w] = "idle"]
            /\ UNCHANGED <<entries, held, net, tx, snap, released, taken>>
       ELSE /\ entries' = entries \cup
                  {[mid |-> wmid[w], owner |-> w, kind |-> "req", retx |-> 0,
                    age |-> 0, deadline |-> wdl[w]]}
            /\ Send({wmid[w]})
            /\ held' = held + 1
            /\ wst' = [wst EXCEPT ![w] = "wait"]
    /\ UNCHANGED <<msgID, wmid, wdl, wage, resp, peerCons, allocated, snap, released, taken>>

\* The request's context is done while Acquire blocks: Acquire fails.
WriterAcquireTimeout(w) ==
    /\ wst[w] = "acquire" /\ CtxDone(w)
    /\ wst' = [wst EXCEPT ![w] = "idle"]
    /\ UNCHANGED <<msgID, entries, held, wmid, wdl, wage, resp, net,
                   peerCons, allocated, tx, snap, released, taken>>

\* waitForAcknowledge returns when respChan is closed or the request's
\* context is done; the deferred closeFn deletes the MID's entry and
\* releases the permit.  It does not release the element's clone.
WriterReturn(w) ==
    /\ wst[w] = "wait" /\ (resp[w] \/ CtxDone(w))
    /\ entries' = {e \in entries : e.mid # wmid[w]}
    /\ held' = held - 1
    /\ wst' = [wst EXCEPT ![w] = "idle"]
    /\ UNCHANGED <<msgID, wmid, wdl, wage, resp, net, peerCons,
                   allocated, tx, snap, released, taken>>

\* AsyncPing: a Confirmable empty message with a fresh MID, an entry with no
\* deadline whose handler calls receivedPong, the write; it returns at once
\* with the cancel function (or an error when the MID is taken).
WriterPing(w) ==
    /\ wst[w] \in {"idle", "pinged"} /\ Len(allocated) < MaxAlloc
    /\ msgID' = GetMessageID(msgID)
    /\ wmid' = [wmid EXCEPT ![w] = msgID']
    /\ allocated' = Append(allocated, msgID')
    /\ IF msgID' \in UsedMIDs
       THEN /\ wst' = [wst EXCEPT ![w] = "idle"]
            /\ UNCHANGED <<entries, net, tx>>
       ELSE /\ entries' = entries \cup
                  {[mid |-> msgID', owner |-> w, kind |-> "ping", retx |-> 0,
                    age |-> 0, deadline |-> NoDeadline]}
            /\ Send({msgID'})
            /\ wst' = [wst EXCEPT ![w] = "pinged"]
    /\ UNCHANGED <<held, wdl, wage, resp, peerCons, snap, released, taken>>

\* The cancel function AsyncPing returned: LoadAndDelete of the ping's MID,
\* and the release of the clone of the element it found.
PingCancel(w) ==
    /\ wst[w] = "pinged"
    /\ entries' = {e \in entries : e.mid # wmid[w]}
    /\ released' = released \cup ({e.mid : e \in entries \ entries'} \cap SnapMIDs)
    /\ wst' = [wst EXCEPT ![w] = "idle"]
    /\ UNCHANGED <<msgID, held, wmid, wdl, wage, resp, net, peerCons,
                   allocated, tx, snap, taken>>
-----------------------------------------------------------------------------
(* Time and the periodic runner *)

Saturate(n) == IF n > Horizon THEN Horizon + 1 ELSE n

\* A tick of the clock: every entry and every blocked writer ages.
Tick ==
    /\ wage' = [w \in Writers |->
                  IF wst[w] \in {"acquire", "wait"} THEN Saturate(wage[w] + 1)
                  ELSE wage[w]]
    /\ entries' = {[e EXCEPT !.age = Saturate(e.age + 1)] : e \in entries}
    /\ <<wage', entries'>> # <<wage, entries>>
    /\ UNCHANGED <<msgID, held, wst, wmid, wdl, resp, net, peerCons,
                   allocated, tx, snap, released, taken>>

\* CheckExpirations, with one now and the transmission settings loaded
\* once: Range over a copy of midHandlerContainer taken under its lock (the
\* callback deletes from the container, so Range cannot hold the lock
\* across it).  Elements stored after the copy are not visited; an element
\* deleted after it still is.  The visit reads the element's deadline and
\* start, its counter (which only this pass moves) and the pass's now, so
\* what it does is fixed when the copy is taken: the copy keeps, for each
\* element expired or due, its MID and whether it is expired.  A visit of
\* any other element changes nothing, and a pass with none is left out.
CheckExpirationsStart ==
    /\ snap = {} /\ taken = {}
    /\ snap' = {[mid |-> e.mid, expired |-> IsExpired(e)] :
                e \in {f \in entries : IsExpired(f) \/ Retransmit(f)}}
    /\ snap' # {}
    /\ UNCHANGED <<msgID, entries, held, wst, wmid, wdl, wage, resp, net,
                   peerCons, allocated, tx, released, taken>>

\* checkMidHandlerContainer for one element v of the copy.  An expired
\* element is deleted by its key (its clone released, its writer told
\* only through cc.errors).  Otherwise Retransmit has found the timeout
\* passed: the element's counter goes up and GetMessage takes a clone of
\* the message under the element's lock, or finds it released and returns
\* not ok.  The read loop may run between Retransmit and GetMessage; that
\* is the same as running before the visit.  Range visits one element at
\* a time: the next visit starts once the clone taken is written.
CheckElement(v) ==
    /\ v \in snap /\ taken = {}
    /\ snap' = snap \ {v}
    /\ released' = released \ {v.mid}
    /\ IF v.expired
       THEN /\ entries' = {f \in entries : f.mid # v.mid}
            /\ UNCHANGED taken
       ELSE /\ entries' = {IF f.mid = v.mid THEN [f EXCEPT !.retx = @ + 1] ELSE f :
                           f \in entries}
            /\ taken' = IF v.mid \in released THEN {} ELSE {v.mid}
    /\ UNCHANGED <<msgID, held, wst, wmid, wdl, wage, resp, net,
                   peerCons, allocated, tx>>

\* The end of the visit: session.WriteMessage sends the clone GetMessage
\* took, whatever the read loop has matched or released since.
CheckElementWrite ==
    /\ taken # {}
    /\ Send(taken)
    /\ taken' = {}
    /\ UNCHANGED <<msgID, entries, held, wst, wmid, wdl, wage, resp,
                   peerCons, allocated, snap, released>>
-----------------------------------------------------------------------------
(* The peer and the network *)

\* The peer acknowledges each copy of our Confirmable it receives (a
\* duplicate is answered from its response cache with the same MID).
PeerReceive(d) ==
    /\ d.to = "peer"
    /\ net' = (net \ {d}) \cup {[to |-> "us", type |-> "ACK", mid |-> d.mid]}
    /\ UNCHANGED <<msgID, entries, held, wst, wmid, wdl, wage, resp,
                   peerCons, allocated, tx, snap, released, taken>>

\* The peer sends a Confirmable request of its own.  Its MID comes from the
\* peer's counter, unrelated to ours; PeerOffsets picks representatives
\* relative to our counter (0: our latest MID, inside or outside the
\* window of checkMyMessageID).
PeerRequest(o) ==
    /\ peerCons < MaxPeerCons
    /\ net' = net \cup {[to |-> "us", type |-> "CON", mid |-> (msgID + o) % 65536]}
    /\ peerCons' = peerCons + 1
    /\ UNCHANGED <<msgID, entries, held, wst, wmid, wdl, wage, resp,
                   allocated, tx, snap, released, taken>>

\* Conn.Process of a datagram from the peer, after it decoded: a
\* Confirmable runs checkMyMessageID; then handleSpecialMessages does
\* LoadAndDelete on the datagram's MID, whatever its type, and runs the
\* handler of the entry it finds.  (A message that matches nothing goes to
\* the received-message queue, which this module does not follow.)
Process(d) ==
    /\ d.to = "us"
    /\ net' = net \ {d}
    /\ msgID' = IF d.type = "CON" THEN CheckMyMessageID(msgID, d.mid) ELSE msgID
    /\ LET hit == {e \in entries : e.mid = d.mid}
       IN /\ entries' = entries \ hit
          /\ resp' = [w \in Writers |->
                        resp[w] \/ \E e \in hit : e.owner = w /\ e.kind = "req"
                                                  /\ ReqHandlerFires(d.type)]
          /\ released' = ReleaseOnHit(hit)
    /\ UNCHANGED <<held, wst, wmid, wdl, wage, peerCons, allocated, tx, snap, taken>>

\* UDP loses d.
Lose(d) ==
    /\ net' = net \ {d}
    /\ UNCHANGED <<msgID, entries, held, wst, wmid, wdl, wage, resp,
                   peerCons, allocated, tx, snap, released, taken>>

Next ==
    \/ \E w \in Writers :
          \/ \E dl \in Deadlines : WriterRequest(w, dl)
          \/ WriterSend(w) \/ WriterAcquireTimeout(w) \/ WriterReturn(w)
          \/ WriterPing(w) \/ PingCancel(w)
    \/ Tick \/ CheckExpirationsStart \/ \E v \in snap : CheckElement(v)
    \/ CheckElementWrite
    \/ \E o \in PeerOffsets : PeerRequest(o)
    \/ \E d \in net : PeerReceive(d) \/ Process(d) \/ Lose(d)

\* The clock runs, the periodic runner keeps running, and a goroutine
\* blocked in a select or in Acquire wakes once it can.  The network,
\* the peer and the user's calls are not fair.
Fairness ==
    /\ WF_vars(Tick) /\ WF_vars(CheckExpirationsStart)
    /\ WF_vars(\E v \in snap : CheckElement(v)) /\ WF_vars(CheckElementWrite)
    /\ \A w \in Writers : WF_vars(WriterReturn(w)) /\ WF_vars(WriterAcquireTimeout(w))

Spec == Init /\ [][Next]_vars /\ Fairness
-----------------------------------------------------------------------------
(* Properties *)

\* No more requests are outstanding than NStart allows, and every permit of
\* numOutstandingInteraction is held by a waiting writer: the weight
\* arithmetic of acquireOutstandingInteraction, the release on a MID
\* collision and the release in the deferred closeFn agree.
NStartBound ==
    /\ held = Cardinality({w \in Writers : wst[w] = "wait"})
    /\ held <= NStart

\* A Confirmable is put on the wire at most 1 + MaxRetransmit times
\* (spec: at most MaxRetransmit retransmissions), across the original write
\* and every CheckExpirations pass, however acknowledgements, deadlines and
\* retransmission timeouts interleave.
RetransmitBudget ==
    \A m \in BagToSet(tx) : CopiesIn(m, tx) <= MaxRetransmit + 1

\* GetMessageID never returns a MID it returned before, short of a full
\* 16-bit wrap (spec: consecutive Confirmables carry different MIDs until
\* a wrap), even though checkMyMessageID moves the counter on peer input.
NoEarlyMIDReuse ==
    IsInjective(allocated)

\* Every writer blocked in acquireOutstandingInteraction or in
\* waitForAcknowledge eventually returns, also when its exchange expires in
\* CheckExpirations (spec: an exhausted retransmit budget is reported to
\* the caller).
WaiterReturns ==
    \A w \in Writers : wst[w] \in {"acquire", "wait"} ~> wst[w] = "idle"
\* Every element a writer puts in midHandlerContainer eventually leaves it,
\* also an AsyncPing whose user never calls the cancel function and whose
\* peer never answers: its element has no deadline, so only the periodic
\* runner's CheckExpirations, retransmitting it until IsExpired finds the
\* budget spent, deletes it (spec: an entry persists from send to ACK or
\* expiry).
EntriesLeave ==
    \A w \in Writers :
        (\E e \in entries : e.owner = w) ~> ~\E e \in entries : e.owner = w
====
