----------------------------- MODULE AsconServer -----------------------------
(***************************************************************************)
(* The connection table of the server (src/ascon/server.go) and the close  *)
(* path of a server connection (session.go Close/Shutdown/popOnClose).     *)
(*                                                                         *)
(* Two goroutines share the table conns (remote address -> Conn) under     *)
(* connsMutex: the Serve loop, which for each datagram runs getConn        *)
(* (getOrCreateConn, then a check of the connection's context: a closed     *)
(* connection is shut down and getConn retries once) and then Process, and *)
(* the periodic runner, whose handleInactivityMonitors takes a snapshot of *)
(* the table and, for each connection, shuts a closed one down or runs its *)
(* CheckExpirations, where the 16-second inactivity monitor of the default *)
(* server configuration closes an idle connection.                          *)
(*                                                                         *)
(* Shutting a connection down is the close function stored under closeKey: *)
(* session.Close (cancel the context), then Shutdown, which pops the        *)
(* onClose list under the session mutex and then runs it; the onClose that *)
(* getOrCreateConn registered removes the table entry if it is still this  *)
(* connection.  Popping and running are separate steps.                    *)
(***************************************************************************)
EXTENDS Naturals, FiniteSets

CONSTANTS
    Addrs,          \* remote addresses of clients
    ConnIds,        \* connections the server can create over a run
    MaxDatagrams,   \* datagrams the listener reads over a run
    None

VARIABLES
    conns,      \* the table: address -> connection, or None
    cst,        \* per connection: "new" (not created), "open", "closed"
    caddr,      \* per connection: its remote address
    onClose,    \* per connection: its onClose list is still registered
    stale,      \* connections idle for longer than the inactivity timeout
    sv,         \* the Serve goroutine: [pc, addr, cc, first, pending]
    rn,         \* the periodic runner: [pc, snapshot, cc, pending]
    nread,      \* datagrams read so far
    rejected    \* datagrams getConn failed to find an open connection for

vars == <<conns, cst, caddr, onClose, stale, sv, rn, nread, rejected>>

ServePCs == {"read", "get", "expire", "check", "onClose", "process", "enqueue",
             "swap", "closing", "sessionOnClose", "done"}
RunnerPCs == {"idle", "scan", "onClose"}

TypeOK ==
    /\ conns \in [Addrs -> ConnIds \cup {None}]
    /\ cst \in [ConnIds -> {"new", "open", "closed"}]
    /\ caddr \in [ConnIds -> Addrs]
    /\ onClose \in [ConnIds -> BOOLEAN]
    /\ stale \subseteq ConnIds
    /\ sv \in [pc : ServePCs, addr : Addrs, cc : ConnIds \cup {None},
               first : BOOLEAN, pending : BOOLEAN, left : SUBSET ConnIds]
    /\ rn \in [pc : RunnerPCs, snapshot : SUBSET ConnIds,
               cc : ConnIds \cup {None}, pending : BOOLEAN]
    /\ nread \in 0..MaxDatagrams
    /\ rejected \in 0..MaxDatagrams

Init ==
    /\ conns = [a \in Addrs |-> None]
    /\ cst = [c \in ConnIds |-> "new"]
    /\ caddr = [c \in ConnIds |-> CHOOSE a \in Addrs : TRUE]
    /\ onClose = [c \in ConnIds |-> FALSE]
    /\ stale = {}
    /\ sv = [pc |-> "read", addr |-> CHOOSE a \in Addrs : TRUE, cc |-> None,
             first |-> TRUE, pending |-> FALSE, left |-> {}]
    /\ rn = [pc |-> "idle", snapshot |-> {}, cc |-> None, pending |-> FALSE]
    /\ nread = 0
    /\ rejected = 0

-----------------------------------------------------------------------------
(* Helpers, each the condition or value of one line of the code.          *)

\* Mutant of GetConns: the snapshot is built over every address, empty
\* table slots included.
GetConnsAllSlots == {conns[a] : a \in Addrs}

\* getConns: the connections in the table, copied under connsMutex.
GetConns == {conns[a] : a \in {b \in Addrs : conns[b] # None}}

\* Mutant of OnCloseMatches: the onClose comparison never matches.
OnCloseMatchesNever(c) == FALSE

\* The onClose of getOrCreateConn: if cc == s.conns[key].
OnCloseMatches(c) == conns[caddr[c]] = c

\* Mutant of RunnerSeesDone: handleInactivityMonitors never takes the
\* <-cc.Context().Done() case.
RunnerSeesDoneNever(c) == FALSE

\* handleInactivityMonitors: select on <-cc.Context().Done().
RunnerSeesDone(c) == cst[c] = "closed"

\* CheckExpirations -> CheckInactivity: an idle connection is closed by the
\* monitor's onInactive (cc.Close cancels its context).
AfterInactivityCheck(c) ==
    IF c \in stale /\ cst[c] = "open"
       THEN [cst EXCEPT ![c] = "closed"] ELSE cst

\* Mutant of StoreConn: getOrCreateConn registers the onClose but never
\* stores the new connection in the table.
StoreConnNever(c) == conns' = conns

\* getOrCreateConn: s.conns[key] = cc.
StoreConn(c) == conns' = [conns EXCEPT ![caddr'[c]] = c]

\* The first half of the close function: session.Close, then Shutdown's
\* popOnClose, which takes the onClose list and leaves nil behind.
PopOnClose(c) == onClose' = [onClose EXCEPT ![c] = FALSE]

\* The second half: the popped onClose runs, under connsMutex.
RunOnClose(c, pending) ==
    conns' = IF pending /\ OnCloseMatches(c)
                THEN [conns EXCEPT ![caddr[c]] = None] ELSE conns

-----------------------------------------------------------------------------
(* The Serve goroutine.                                                    *)

\* l.ReadWithContext returns a datagram from some client.
ServeRead ==
    /\ sv.pc = "read" /\ nread < MaxDatagrams
    /\ \E a \in Addrs : sv' = [sv EXCEPT !.pc = "get", !.addr = a, !.first = TRUE]
    /\ nread' = nread + 1
    /\ UNCHANGED <<conns, cst, caddr, onClose, stale, rn, rejected>>

\* getOrCreateConn, under connsMutex: the table's connection, or a new one
\* with its onClose registered and stored in the table.
ServeGetOrCreate ==
    /\ sv.pc = "get"
    /\ IF conns[sv.addr] # None
          THEN /\ sv' = [sv EXCEPT !.pc = "expire", !.cc = conns[sv.addr]]
               /\ UNCHANGED <<conns, cst, caddr, onClose>>
          ELSE \E c \in ConnIds :
                  /\ cst[c] = "new"
                  /\ cst' = [cst EXCEPT ![c] = "open"]
                  /\ caddr' = [caddr EXCEPT ![c] = sv.addr]
                  /\ onClose' = [onClose EXCEPT ![c] = TRUE]
                  /\ StoreConn(c)
                  /\ sv' = [sv EXCEPT !.pc = "check", !.cc = c]
    /\ UNCHANGED <<stale, rn, nread, rejected>>

\* getConn on an existing connection: cc.CheckExpirations(now + 10ms), then
\* InactivityMonitor().Notify() if the context is still alive.
ServeExpire ==
    /\ sv.pc = "expire"
    /\ cst' = AfterInactivityCheck(sv.cc)
    /\ stale' = stale \ {sv.cc}
    /\ sv' = [sv EXCEPT !.pc = "check"]
    /\ UNCHANGED <<conns, caddr, onClose, rn, nread, rejected>>

\* getConn: if cc.Context().Err() != nil, run the close function (its first
\* half here); otherwise hand the datagram to the connection.
ServeCheck ==
    /\ sv.pc = "check"
    /\ IF cst[sv.cc] = "closed"
          THEN /\ PopOnClose(sv.cc)
               /\ sv' = [sv EXCEPT !.pc = "onClose", !.pending = onClose[sv.cc]]
          ELSE /\ sv' = [sv EXCEPT !.pc = "process"]
               /\ UNCHANGED onClose
    /\ UNCHANGED <<conns, cst, caddr, stale, rn, nread, rejected>>

\* The popped onClose runs; then getConn retries once (firstTime), and the
\* second time returns "connection is closed": Serve logs it and drops the
\* datagram.
ServeOnClose ==
    /\ sv.pc = "onClose"
    /\ RunOnClose(sv.cc, sv.pending)
    /\ IF sv.first
          THEN /\ sv' = [sv EXCEPT !.pc = "get", !.first = FALSE, !.pending = FALSE]
               /\ UNCHANGED rejected
          ELSE /\ sv' = [sv EXCEPT !.pc = "read", !.pending = FALSE]
               /\ rejected' = rejected + 1
    /\ UNCHANGED <<cst, caddr, onClose, stale, rn, nread>>

\* cc.Process(buf).  A datagram over MaxMessageSize, or one that does not
\* decode, is an error: Serve closes the connection (closeConnection) and
\* leaves it in the table.  Otherwise the inactivity monitor is notified; a
\* hello or a ping is answered by handleSpecialMessages, and any other
\* message is sent on the received-message queue: at once if it has room,
\* else Process blocks in its select.  How full the queue is depends on how
\* fast the connection's reader runs its handlers, which nothing bounds, so
\* the model keeps no count and either outcome may happen.
ServeProcess ==
    /\ sv.pc = "process"
    /\ \/ /\ cst' = [cst EXCEPT ![sv.cc] = "closed"]
          /\ sv' = [sv EXCEPT !.pc = "read"]
          /\ UNCHANGED stale
       \/ /\ stale' = stale \ {sv.cc}
          /\ \E pc \in {"read", "enqueue"} : sv' = [sv EXCEPT !.pc = pc]
          /\ UNCHANGED cst
    /\ UNCHANGED <<conns, caddr, onClose, rn, nread, rejected>>

\* Mutant of EnqueueGivesUp: the select has no <-cc.Context().Done() case.
EnqueueGivesUpNever(c) == FALSE

\* Process's select: case <-cc.Context().Done().
EnqueueGivesUp(c) == cst[c] = "closed"

\* Process blocked in its select on a full queue, and the connection's
\* context is done: the message is dropped and Process returns nil.
ServeEnqueue ==
    /\ sv.pc = "enqueue" /\ EnqueueGivesUp(sv.cc)
    /\ sv' = [sv EXCEPT !.pc = "read"]
    /\ UNCHANGED <<conns, cst, caddr, onClose, stale, rn, nread, rejected>>

\* l.ReadWithContext fails: the listener was closed.  Serve returns nil
\* (IsCancelOrCloseError) and its deferred function starts.
ServeReturn ==
    /\ sv.pc = "read"
    /\ sv' = [sv EXCEPT !.pc = "swap"]
    /\ UNCHANGED <<conns, cst, caddr, onClose, stale, rn, nread, rejected>>

\* Mutant of CloseSessionsSwap: the table is read after it was replaced.
CloseSessionsSwapLate ==
    /\ sv.pc = "swap"
    /\ conns' = [a \in Addrs |-> None]
    /\ sv' = [sv EXCEPT !.pc = "closing", !.left = {}]
    /\ UNCHANGED <<cst, caddr, onClose, stale, rn, nread, rejected>>

\* closeSessions, under connsMutex: take the table and put an empty one in
\* its place.
CloseSessionsSwap ==
    /\ sv.pc = "swap"
    /\ conns' = [a \in Addrs |-> None]
    /\ sv' = [sv EXCEPT !.pc = "closing", !.left = GetConns]
    /\ UNCHANGED <<cst, caddr, onClose, stale, rn, nread, rejected>>

\* For a connection of the old table: closeConnection (cc.Close cancels its
\* context), then the close function: session.Close again and Shutdown's
\* popOnClose.
CloseSessionsShutdown(c) ==
    /\ sv.pc = "closing" /\ c \in sv.left
    /\ cst' = [cst EXCEPT ![c] = "closed"]
    /\ PopOnClose(c)
    /\ sv' = [sv EXCEPT !.pc = "sessionOnClose", !.cc = c,
                        !.left = @ \ {c}, !.pending = onClose[c]]
    /\ UNCHANGED <<conns, caddr, stale, rn, nread, rejected>>

\* The popped onClose runs against the new, empty table.
CloseSessionsOnClose ==
    /\ sv.pc = "sessionOnClose"
    /\ RunOnClose(sv.cc, sv.pending)
    /\ sv' = [sv EXCEPT !.pc = "closing", !.pending = FALSE]
    /\ UNCHANGED <<cst, caddr, onClose, stale, rn, nread, rejected>>

\* The loop is done: doneCancel, and the listener is released.  The server
\* context is not cancelled, so the periodic runner keeps going.
CloseSessionsDone ==
    /\ sv.pc = "closing" /\ sv.left = {}
    /\ sv' = [sv EXCEPT !.pc = "done"]
    /\ UNCHANGED <<conns, cst, caddr, onClose, stale, rn, nread, rejected>>

-----------------------------------------------------------------------------
(* The periodic runner: handleInactivityMonitors on every tick.            *)

\* A tick: getConns copies the table under connsMutex.
RunnerTick ==
    /\ rn.pc = "idle"
    /\ rn' = [rn EXCEPT !.pc = "scan", !.snapshot = GetConns]
    /\ UNCHANGED <<conns, cst, caddr, onClose, stale, sv, nread, rejected>>

\* The loop over the snapshot is done (responseMsgCache.CheckExpirations of
\* the server holds nothing this model tells apart).
RunnerDone ==
    /\ rn.pc = "scan" /\ rn.snapshot = {}
    /\ rn' = [rn EXCEPT !.pc = "idle"]
    /\ UNCHANGED <<conns, cst, caddr, onClose, stale, sv, nread, rejected>>

\* A connection of the snapshot whose context is done: the close function's
\* first half.
RunnerShutdown(c) ==
    /\ rn.pc = "scan" /\ c \in rn.snapshot /\ RunnerSeesDone(c)
    /\ PopOnClose(c)
    /\ rn' = [rn EXCEPT !.pc = "onClose", !.snapshot = @ \ {c}, !.cc = c,
                        !.pending = onClose[c]]
    /\ UNCHANGED <<conns, cst, caddr, stale, sv, nread, rejected>>

\* The popped onClose runs; the loop goes on with the snapshot.
RunnerOnClose ==
    /\ rn.pc = "onClose"
    /\ RunOnClose(rn.cc, rn.pending)
    /\ rn' = [rn EXCEPT !.pc = "scan", !.pending = FALSE]
    /\ UNCHANGED <<cst, caddr, onClose, stale, sv, nread, rejected>>

\* A connection of the snapshot still alive: cc.CheckExpirations(now).
RunnerCheck(c) ==
    /\ rn.pc = "scan" /\ c \in rn.snapshot /\ ~RunnerSeesDone(c)
    /\ cst' = AfterInactivityCheck(c)
    /\ rn' = [rn EXCEPT !.snapshot = @ \ {c}]
    /\ UNCHANGED <<conns, caddr, onClose, stale, sv, nread, rejected>>

\* The inactivity timeout (16 s) passes without a Notify for c.  One
\* iteration of the Serve loop takes far less, so a connection Serve is
\* handling does not go idle before Serve is done with it, unless Serve is
\* blocked in Process on its full queue.
Idle(c) ==
    /\ cst[c] = "open" /\ c \notin stale
    /\ sv.pc \in {"read", "enqueue"} \/ sv.cc # c
    /\ stale' = stale \cup {c}
    /\ UNCHANGED <<conns, cst, caddr, onClose, sv, rn, nread, rejected>>

\* The received-message reader of the connection Serve is blocked on takes
\* a message off its full queue (and runs ProcessReceivedMessage): Process's
\* send goes through and it returns nil.  The handler it runs may block for
\* any time, so the reader is not fair.
ReaderTake ==
    /\ sv.pc = "enqueue" /\ cst[sv.cc] = "open"
    /\ sv' = [sv EXCEPT !.pc = "read"]
    /\ UNCHANGED <<conns, cst, caddr, onClose, stale, rn, nread, rejected>>

\* While Serve is blocked in Process on c, nothing notifies c's inactivity
\* monitor (only Serve's getConn and Process do), so c goes idle.
IdleWhileBlocked == sv.pc = "enqueue" /\ Idle(sv.cc)

ServeStep ==
    \/ ServeGetOrCreate \/ ServeExpire \/ ServeCheck \/ ServeOnClose
    \/ ServeProcess \/ ServeEnqueue
    \/ CloseSessionsSwap \/ CloseSessionsOnClose \/ CloseSessionsDone
    \/ \E c \in ConnIds : CloseSessionsShutdown(c)

RunnerStep ==
    \/ RunnerTick \/ RunnerDone \/ RunnerOnClose
    \/ \E c \in ConnIds : RunnerShutdown(c) \/ RunnerCheck(c)

Next ==
    \/ ServeRead \/ ServeReturn \/ ServeStep \/ RunnerStep
    \/ \E c \in ConnIds : Idle(c)
    \/ ReaderTake

\* Both goroutines run while the server's context lives: a goroutine that
\* can take a step eventually does.  Datagrams, readers and idleness are
\* not fair, except that the inactivity timeout passes for a connection
\* Serve is blocked on.
Fairness == WF_vars(ServeStep) /\ WF_vars(RunnerStep) /\ WF_vars(IdleWhileBlocked)

Spec == Init /\ [][Next]_vars /\ Fairness

-----------------------------------------------------------------------------
(* Properties.                                                             *)

\* The onClose a connection is in flight in: popped by Serve or the runner
\* and not yet run.
OnCloseInFlight(c) ==
    \/ sv.pc = "onClose" /\ sv.pending /\ sv.cc = c
    \/ rn.pc = "onClose" /\ rn.pending /\ rn.cc = c

\* No open connection is orphaned: each is in the table under its own
\* address, where getConn, the runner's snapshot and closeSessions' swap
\* find it, or in the old table closeSessions is still shutting down.  An
\* open connection outside both would never be closed by the server (its
\* goroutines, monitor and cache outlive Serve).  It takes getOrCreateConn's
\* store, the onClose removals of Serve, the runner and closeSessions, and
\* the swap to agree.
NoOrphanConn ==
    \A c \in ConnIds :
        cst[c] = "open" => conns[caddr[c]] = c \/ c \in sv.left

\* A closed connection still in the table is eventually removed from it,
\* also when its client sends nothing more: the periodic runner shuts it
\* down (spec: a connection is removed from the table iff closed).
ClosedEventuallyRemoved ==
    \A c \in ConnIds :
        cst[c] = "closed" /\ conns[caddr[c]] = c ~> conns[caddr[c]] # c

\* A connection is shut down: closed, its onClose popped and run.
ShutDown(c) == cst[c] = "closed" /\ ~onClose[c] /\ ~OnCloseInFlight(c)

\* Once Serve has returned, every connection the server created is
\* eventually closed and its onClose has run, whichever of closeSessions
\* and the runner's handleInactivityMonitors (whose snapshot may predate
\* the swap) shuts it down: no session outlives its server.
ServeReturnShutsDownAll ==
    sv.pc = "done" ~> \A c \in ConnIds : cst[c] # "new" => ShutDown(c)

\* Serve never stays blocked in Process on a connection whose received-
\* message queue is full and whose reader never drains it (its handler may
\* block): nothing notifies that connection's inactivity monitor while
\* Serve waits, the periodic runner closes it after the timeout, and the
\* <-cc.Context().Done() case of Process's select lets Serve go back to
\* reading for every remote.
ServeNeverStuck == sv.pc = "enqueue" ~> sv.pc = "read"

\* getConn finds an open connection for every datagram: a closed one is
\* shut down and replaced on the retry (the firstTime recursion), so Serve
\* never drops a datagram with "connection is closed".
ServeNeverRejects ==
    rejected = 0
====
