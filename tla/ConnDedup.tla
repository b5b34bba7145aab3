------------------------------ MODULE ConnDedup ------------------------------
(***************************************************************************)
(* Request deduplication on the server side of a connection               *)
(* (src/ascon/connection/conn.go: Process, handleReq, checkResponseCache,  *)
(* getResponseFromCache, processResponse, addResponseToCache,              *)
(* ProcessReceivedMessageWithHandler and writeMessageAsync).               *)
(*                                                                         *)
(* Process hands each request of the peer to the received-message queue;   *)
(* reader goroutines take requests off it and run handleReq under the lock *)
(* of the request's message ID: answer from the response cache if an entry *)
(* is there, else run the handler, cache its reply, unlock, and only then  *)
(* write the reply.  The cache holds replies marshalled by the process-wide *)
(* coder.DefaultCoder, whose secret every goroutine of the process sets     *)
(* before it encodes or decodes: it is the variable coder.                 *)
(*                                                                         *)
(* Data is abstracted: a reply is the number of the handler run that made  *)
(* it (Garbage: bytes no handler produced), a request its message ID.      *)
(***************************************************************************)
EXTENDS Naturals, Sequences, Functions, TLC, AsconCoder

CONSTANTS
    Readers,        \* goroutines reading the received-message queue
    MIDs,           \* message IDs of the peer's requests
    ReqTypes,       \* types the peer sends requests with, within {"CON","NON"}
    Outcomes,       \* what the handler does with the response writer
    ServerKey,      \* the session's serverSecret
    Keyed,          \* the session has a serverSecret and has sent its hello ACK
    MaxCopies,      \* copies the peer sends of one request
    QueueSize,      \* cfg.ReceivedMessageQueueSize
    NoReader, NoReply, Garbage

\* Outcomes of the handler, as processResponse distinguishes them:
\*   "piggy": the handler set a response (piggybacked, cached);
\*   "empty": the handler left the response unmodified;
\*   "reset": the handler answered with a Reset or an empty-code message.
ASSUME Outcomes \subseteq {"piggy", "empty", "reset"}
ASSUME ReqTypes \subseteq {"CON", "NON"} /\ Keyed \in BOOLEAN

VARIABLES
    queue,      \* the received-message queue: message IDs
    copies,     \* per MID: copies the peer has sent
    reqType,    \* per MID: "unseen" or the request's type
    outcome,    \* per MID: what the handler does with this request
    lockOwner,  \* per MID: the reader holding msgIDMutex for it, or NoReader
    cache,      \* responseMsgCache: MID -> [enc, content]
    evictions,  \* per MID: cache entries expired (history)
    coder,      \* the secret of coder.DefaultCoder
    runs,       \* per MID: handler runs
    rpc,        \* per reader: where it is in handleReq
    rmid,       \* per reader: the MID of its request
    rcontent,   \* per reader: the reply it holds
    renc,       \* per reader: the secret of the cache entry it loaded
    closed,     \* the connection was closed
    replies     \* replies written to the peer: <<mid, content>>

vars == <<queue, copies, reqType, outcome, lockOwner, cache, evictions,
          coder, runs, rpc, rmid, rcontent, renc, closed, replies>>

Content == 0..MaxCopies
CacheEntry == [enc : {NoKey, ServerKey}, content : Content]

TypeOK ==
    /\ queue \in Seq(MIDs) /\ Len(queue) <= QueueSize
    /\ copies \in [MIDs -> 0..MaxCopies]
    /\ reqType \in [MIDs -> ReqTypes \cup {"unseen"}]
    /\ outcome \in [MIDs -> Outcomes]
    /\ lockOwner \in [MIDs -> Readers \cup {NoReader}]
    /\ \E D \in SUBSET MIDs : cache \in [D -> CacheEntry]
    /\ evictions \in [MIDs -> 0..MaxCopies]
    /\ coder \in {NoKey, ServerKey}
    /\ runs \in [MIDs -> 0..MaxCopies]
    /\ rpc \in [Readers -> {"idle", "lock", "check", "hit", "store", "write"}]
    /\ rmid \in [Readers -> MIDs]
    /\ rcontent \in [Readers -> Content \cup {Garbage}]
    /\ renc \in [Readers -> {NoKey, ServerKey}]
    /\ closed \in BOOLEAN
    /\ replies \subseteq MIDs \X (Content \cup {Garbage})

Init ==
    /\ queue = <<>>
    /\ copies = [m \in MIDs |-> 0]
    /\ reqType = [m \in MIDs |-> "unseen"]
    /\ outcome \in [MIDs -> Outcomes]
    /\ lockOwner = [m \in MIDs |-> NoReader]
    /\ cache = [m \in {} |-> CHOOSE e \in CacheEntry : TRUE]
    /\ evictions = [m \in MIDs |-> 0]
    /\ coder = NoKey
    /\ runs = [m \in MIDs |-> 0]
    /\ rpc = [r \in Readers |-> "idle"]
    /\ rmid = [r \in Readers |-> CHOOSE m \in MIDs : TRUE]
    /\ rcontent = [r \in Readers |-> 0]
    /\ renc = [r \in Readers |-> NoKey]
    /\ closed = FALSE
    /\ replies = {}

-----------------------------------------------------------------------------
(* Helpers, each the condition of one branch of the code.                  *)

\* Process blocks on cc.receivedMessageReader.C() <- req while the buffered
\* channel is full.
QueueHasRoom == Len(queue) < QueueSize

\* Mutant of MidLockFree: handleReq does not take the per-MID lock.
MidLockFreeAlways(m) == TRUE

\* msgIDMutex.Lock(reqMid) returns once no other goroutine holds m's lock.
MidLockFree(m) == lockOwner[m] = NoReader

Cached(m) == m \in DOMAIN cache

\* processResponse adds the response to the cache: an unmodified response to
\* a CON (the empty ACK), or a piggybacked response; never a pong or Reset.
Cacheable(m) ==
    \/ outcome[m] = "piggy"
    \/ outcome[m] = "empty" /\ reqType[m] = "CON"

\* addResponseToCache keys the entry by the response's MID: the request's
\* for a CON (the ACK carries it), a fresh cc.GetMessageID() for the
\* piggybacked response to a NON.  No request of the peer in this model
\* carries one of our MIDs, so such an entry is never looked up.
CachedUnderRequestMID(m) == reqType[m] = "CON"

\* ProcessReceivedMessageWithHandler writes a response if it was modified.
Replied(m) == outcome[m] # "empty" \/ reqType[m] = "CON"

Unlock(r) == lockOwner' = [lockOwner EXCEPT ![rmid[r]] = NoReader]

-----------------------------------------------------------------------------
(* The peer and the connection's read loop.                                *)

\* Process: the datagram is decoded with DefaultCoder.SetSecret(clientSecret)
\* (nil on a server connection), then handed to the queue.  Every copy of
\* one request has the same type.
Arrive(m) ==
    /\ ~closed /\ copies[m] < MaxCopies /\ QueueHasRoom
    /\ \E t \in ReqTypes :
          /\ reqType[m] \in {"unseen", t}
          /\ reqType' = [reqType EXCEPT ![m] = t]
    /\ coder' = NoKey
    /\ copies' = [copies EXCEPT ![m] = @ + 1]
    /\ queue' = Append(queue, m)
    /\ UNCHANGED <<outcome, lockOwner, cache, evictions, runs, rpc, rmid,
                   rcontent, renc, closed, replies>>

\* CheckExpirations: responseMsgCache drops m's entry after ExchangeLifetime.
Evict(m) ==
    /\ Cached(m)
    /\ cache' = Restrict(cache, DOMAIN cache \ {m})
    /\ evictions' = [evictions EXCEPT ![m] = @ + 1]
    /\ UNCHANGED <<queue, copies, reqType, outcome, lockOwner, coder, runs,
                   rpc, rmid, rcontent, renc, closed, replies>>

-----------------------------------------------------------------------------
(* A reader goroutine running handleReq for one request.                   *)

\* The reader loop takes the next request off the queue.
Dequeue(r) ==
    /\ rpc[r] = "idle" /\ queue # <<>>
    /\ rmid' = [rmid EXCEPT ![r] = Head(queue)]
    /\ queue' = Tail(queue)
    /\ rpc' = [rpc EXCEPT ![r] = "lock"]
    /\ UNCHANGED <<copies, reqType, outcome, lockOwner, cache, evictions,
                   coder, runs, rcontent, renc, closed, replies>>

\* handleReq: l := cc.msgIDMutex.Lock(reqMid).
Lock(r) ==
    /\ rpc[r] = "lock" /\ MidLockFree(rmid[r])
    /\ lockOwner' = [lockOwner EXCEPT ![rmid[r]] = r]
    /\ rpc' = [rpc EXCEPT ![r] = "check"]
    /\ UNCHANGED <<queue, copies, reqType, outcome, cache, evictions, coder,
                   runs, rmid, rcontent, renc, closed, replies>>

\* checkResponseCache finds an entry: getResponseFromCache loads it and
\* calls DefaultCoder.SetSecret(clientSecret) before unmarshalling.
CacheHit(r) ==
    /\ rpc[r] = "check" /\ Cached(rmid[r])
    /\ rcontent' = [rcontent EXCEPT ![r] = cache[rmid[r]].content]
    /\ renc' = [renc EXCEPT ![r] = cache[rmid[r]].enc]
    /\ coder' = NoKey
    /\ rpc' = [rpc EXCEPT ![r] = "hit"]
    /\ UNCHANGED <<queue, copies, reqType, outcome, lockOwner, cache,
                   evictions, runs, rmid, closed, replies>>

\* UnmarshalWithDecoder decodes the entry with whatever secret the shared
\* coder holds now.  On an error handleReq closes the connection; a decoded
\* message is the response, written after the deferred unlock.
CacheReplay(r) ==
    /\ rpc[r] = "hit"
    /\ Unlock(r)
    /\ \E o \in DecodeOutcomes(coder, [enc |-> renc[r]]) :
          \/ /\ o = "ok"
             /\ rpc' = [rpc EXCEPT ![r] = "write"]
             /\ UNCHANGED <<rcontent, closed>>
          \/ /\ o = "forged"
             /\ rcontent' = [rcontent EXCEPT ![r] = Garbage]
             /\ rpc' = [rpc EXCEPT ![r] = "write"]
             /\ UNCHANGED closed
          \/ /\ o = "parseError"
             /\ closed' = TRUE
             /\ rpc' = [rpc EXCEPT ![r] = "idle"]
             /\ UNCHANGED rcontent
    /\ UNCHANGED <<queue, copies, reqType, outcome, cache, evictions, coder,
                   runs, rmid, renc, replies>>

\* No cache entry: handleReq runs the handler (cc.handle) and then
\* processResponse.  A response it caches is marshalled by addResponseToCache
\* after DefaultCoder.SetSecret(clientSecret), still under the lock; any other
\* response is released with the lock, and an unmodified response to a NON
\* is not written at all.
Handle(r) ==
    LET m == rmid[r] IN
    /\ rpc[r] = "check" /\ ~Cached(m)
    /\ runs' = [runs EXCEPT ![m] = @ + 1]
    /\ rcontent' = [rcontent EXCEPT ![r] = runs'[m]]
    /\ IF Cacheable(m)
          THEN /\ coder' = NoKey
               /\ rpc' = [rpc EXCEPT ![r] = "store"]
               /\ UNCHANGED lockOwner
          ELSE /\ Unlock(r)
               /\ rpc' = [rpc EXCEPT ![r] = IF Replied(m) THEN "write" ELSE "idle"]
               /\ UNCHANGED coder
    /\ UNCHANGED <<queue, copies, reqType, outcome, cache, evictions, rmid,
                   renc, closed, replies>>

\* addResponseToCache: MarshalWithEncoder seals with the shared coder's
\* current secret, and LoadOrStore keeps an entry already there; then the
\* deferred unlock.  The entry of a NON's reply, under our own MID, is not
\* kept.
CacheStore(r) ==
    LET m == rmid[r] IN
    /\ rpc[r] = "store"
    /\ cache' = IF Cached(m) \/ ~CachedUnderRequestMID(m) THEN cache
                ELSE (m :> [enc |-> coder, content |-> rcontent[r]]) @@ cache
    /\ Unlock(r)
    /\ rpc' = [rpc EXCEPT ![r] = "write"]
    /\ UNCHANGED <<queue, copies, reqType, outcome, evictions, coder, runs,
                   rmid, rcontent, renc, closed, replies>>

\* ProcessReceivedMessageWithHandler: nothing is sent once the connection's
\* context is done; otherwise writeMessageAsync -> Session.WriteMessage, whose
\* resolveCoder sets the shared coder to serverSecret on a keyed session.
Write(r) ==
    /\ rpc[r] = "write"
    /\ IF closed
          THEN UNCHANGED <<replies, coder>>
          ELSE /\ replies' = replies \cup {<<rmid[r], rcontent[r]>>}
               /\ coder' = IF Keyed THEN ServerKey ELSE coder
    /\ rpc' = [rpc EXCEPT ![r] = "idle"]
    /\ UNCHANGED <<queue, copies, reqType, outcome, lockOwner, cache,
                   evictions, runs, rmid, rcontent, renc, closed>>

Next ==
    \/ \E m \in MIDs : Arrive(m) \/ Evict(m)
    \/ \E r \in Readers :
          \/ Dequeue(r) \/ Lock(r) \/ CacheHit(r) \/ CacheReplay(r)
          \/ Handle(r) \/ CacheStore(r) \/ Write(r)

Spec == Init /\ [][Next]_vars

-----------------------------------------------------------------------------
(* Properties.                                                             *)

CacheReplayIntact ==
    /\ ~closed
    /\ \A p \in replies : p[2] # Garbage

\* The refinement mapping onto ResponseDedup.  A reply being cached under
\* the request's MID by a reader that holds m's lock counts as stored; a reply a reader holds and
\* has not yet written counts as produced.
Storing(m) ==
    {r \in Readers : rpc[r] = "store" /\ rmid[r] = m /\ CachedUnderRequestMID(m)}

StoredMap ==
    [m \in MIDs |->
        IF Cached(m) THEN cache[m].content
        ELSE IF Storing(m) # {} THEN rcontent[CHOOSE r \in Storing(m) : TRUE]
        ELSE NoReply]

RepliesMap ==
    replies \cup {<<rmid[r], rcontent[r]>> :
                    r \in {s \in Readers : rpc[s] \in {"store", "write"}}}

Abs == INSTANCE ResponseDedup
          WITH kind <- reqType, runs <- runs, stored <- StoredMap,
               replies <- RepliesMap, open <- ~closed

\* The connection's deduplication implements ResponseDedup: each handler run
\* for a message ID is one Handle of the abstract specification, a replayed
\* reply is one already produced, and the cache is only ever forgotten.
DedupRefinement == Abs!Spec
====
