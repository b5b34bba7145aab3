----------------------------- MODULE AsconKeying -----------------------------
(***************************************************************************)
(* Key establishment and keyed traffic between one client connection      *)
(* (src/ascon/client.go) and the server connection the server creates for *)
(* it (src/ascon/server.go), over UDP that may reorder, lose and, when    *)
(* Faults says so, duplicate datagrams.                                   *)
(*                                                                         *)
(* Each process has one coder.DefaultCoder whose secret every encode and  *)
(* decode reads: Conn.Process pokes cc.clientSecret into it before each   *)
(* decode (conn.go:565), Session.resolveCoder pokes the server secret     *)
(* into it before each encode (session.go:172), addResponseToCache pokes  *)
(* cc.clientSecret into it (conn.go:352).  cCoder and sCoder are those two *)
(* process-wide secrets.  On the server two goroutines use sCoder: the    *)
(* Serve loop (ServerReceive) and the received-message reader             *)
(* (ServerHandle, ServerEmit); encoding a reply is split into the         *)
(* resolveCoder step and the Encode that reads the secret, as in the code. *)
(*                                                                         *)
(* A server key pair is numbered by the hello that created it; the shared *)
(* secret both sides derive from it is that number.                       *)
(***************************************************************************)
EXTENDS Naturals, Sequences, AsconCoder

CONSTANTS
    Requests,       \* requests the client issues after the handshake
    MaxRetransmit,  \* retransmissions of one confirmable request (Transmission.maxRetransmit)
    MaxHellos,      \* bound on server key pairs (handleClientHello calls)
    QueueSize,      \* ReceivedMessageQueueSize of the server connection
    Faults          \* subset of {"loss", "dup"}: what the network may do

ASSUME /\ Requests \in Nat /\ MaxRetransmit \in Nat
       /\ MaxHellos \in Nat \ {0} /\ QueueSize \in Nat \ {0}
       /\ Faults \subseteq {"loss", "dup"}

Keys == 1..MaxHellos
Secrets == Keys \cup {NoKey}
Kinds == {"Hello", "HelloAck", "Req", "Resp"}
Datagram == [kind : Kinds, seq : 0..Requests, body : 0..MaxHellos, enc : Secrets]

VARIABLES
    net,        \* datagrams in flight
    cPhase,     \* client: "Dial", "Hello" (handshake in progress), "Ready", "Closed", "Failed"
    cSecret,    \* Conn.clientSecret of the client connection
    cCoder,     \* DefaultCoder.secret in the client process
    cSent,      \* number of requests the client has issued
    cWaiting,   \* the client is blocked waiting for the answer to request cSent (or the hello)
    cRetx,      \* retransmissions of the current request
    sOpen,      \* the server connection for the client's address is open
    sSecret,    \* Session.serverSecret
    sReady,     \* Session.isSecretReady
    sCoder,     \* DefaultCoder.secret in the server process
    sKeys,      \* server key pairs generated so far
    sQueue,     \* received-message queue of the server connection (request seqs; 0: forged)
    sEmit,      \* reply the reader goroutine has resolved a coder for and not yet encoded
    sMisdecode  \* history: the server decoded a datagram under a key it was not sealed with

vars == <<net, cPhase, cSecret, cCoder, cSent, cWaiting, cRetx, sOpen, sSecret,
          sReady, sCoder, sKeys, sQueue, sEmit, sMisdecode>>
clientVars == <<cPhase, cSecret, cCoder, cSent, cWaiting, cRetx>>
serverVars == <<sOpen, sSecret, sReady, sCoder, sKeys, sQueue, sEmit, sMisdecode>>

TypeOK ==
    /\ net \subseteq Datagram
    /\ cPhase \in {"Dial", "Hello", "Ready", "Closed", "Failed"}
    /\ cSecret \in Secrets /\ cCoder \in Secrets /\ sSecret \in Secrets /\ sCoder \in Secrets
    /\ cSent \in 0..Requests /\ cWaiting \in BOOLEAN /\ cRetx \in 0..MaxRetransmit
    /\ sOpen \in BOOLEAN /\ sReady \in BOOLEAN /\ sKeys \in 0..MaxHellos
    /\ sQueue \in Seq(0..Requests) /\ Len(sQueue) <= QueueSize
    /\ sEmit \in Seq(0..Requests) /\ Len(sEmit) <= 1
    /\ sMisdecode \in BOOLEAN

Init ==
    /\ net = {}
    /\ cPhase = "Dial" /\ cSecret = NoKey /\ cCoder = NoKey
    /\ cSent = 0 /\ cWaiting = FALSE /\ cRetx = 0
    /\ sOpen = FALSE /\ sSecret = NoKey /\ sReady = FALSE /\ sCoder = NoKey
    /\ sKeys = 0 /\ sQueue = <<>> /\ sEmit = <<>>
    /\ sMisdecode = FALSE

Msg(kind, seq, body) == [kind |-> kind, seq |-> seq, body |-> body, enc |-> NoKey]

\* The network hands d to its receiver, once or, with "dup", keeping a copy,
\* while the receiver's step puts the datagrams in out on the wire.
Remaining(d) == {net \ {d}} \cup (IF "dup" \in Faults THEN {net} ELSE {})
Deliver(d, out) == \E rest \in Remaining(d) : net' = rest \cup out

\* Session.resolveCoder: the coder and isSecretReady after it ran, given the
\* session's serverSecret, isSecretReady and the process coder's secret.
ResolveCoder(secret, ready, coder) ==
    IF secret = NoKey THEN [coder |-> coder, ready |-> ready]
    ELSE IF ready THEN [coder |-> secret, ready |-> TRUE]
    ELSE [coder |-> coder, ready |-> TRUE]

\* handleClientHello: the key pair it generates and the one its reply carries.
NewServerKey == sKeys + 1
HelloReplyKey == sKeys + 1
-----------------------------------------------------------------------------
(* Client *)

\* handshake(): send the Confirmable HANDSHAKE request carrying the client
\* public key, through Do -> writeMessage -> Session.WriteMessage.
ClientHello ==
    /\ cPhase = "Dial"
    /\ net' = net \cup {Encode(Msg("Hello", 0, 0), cCoder)}
    /\ cPhase' = "Hello" /\ cWaiting' = TRUE
    /\ UNCHANGED <<cSecret, cCoder, cSent, cRetx, serverVars>>

\* The 1 s handshake context expires; handshake returns an error and
\* client() calls log.Fatalf: the client process exits.
ClientHandshakeTimeout ==
    /\ cPhase = "Hello"
    /\ cPhase' = "Failed" /\ cWaiting' = FALSE
    /\ UNCHANGED <<net, cSecret, cCoder, cSent, cRetx, serverVars>>

\* Get/Do of the next request: a Confirmable GET written with whatever
\* secret the process coder holds (the client session has no serverSecret).
ClientRequest ==
    /\ cPhase = "Ready" /\ ~cWaiting /\ cSent < Requests
    /\ net' = net \cup {Encode(Msg("Req", cSent + 1, 0), cCoder)}
    /\ cSent' = cSent + 1 /\ cWaiting' = TRUE /\ cRetx' = 0
    /\ UNCHANGED <<cPhase, cSecret, cCoder, serverVars>>

\* CheckExpirations re-sends the cloned request, encoded afresh.
ClientRetransmit ==
    /\ cPhase = "Ready" /\ cWaiting /\ cRetx < MaxRetransmit
    /\ net' = net \cup {Encode(Msg("Req", cSent, 0), cCoder)}
    /\ cRetx' = cRetx + 1
    /\ UNCHANGED <<cPhase, cSecret, cCoder, cSent, cWaiting, serverVars>>

\* The request's context expires (or the exchange is abandoned): Do returns.
ClientRequestTimeout ==
    /\ cPhase = "Ready" /\ cWaiting
    /\ cWaiting' = FALSE
    /\ UNCHANGED <<net, cPhase, cSecret, cCoder, cSent, cRetx, serverVars>>

\* Session.Run reads d and calls Conn.Process: the coder gets clientSecret,
\* then d is decoded.  A decode error ends Run and closes the connection
\* (during the handshake, handshake fails and the process exits).  A hello
\* ACK completes the handshake: the client keeps the first 16 bytes of the
\* secret derived from the server public key in its body.  A response to the
\* request being waited for completes it; a late one is dropped.  (A hello
\* ACK never decodes "ok" once the client is keyed: later server keys differ.)
ClientReceive(d) ==
    /\ d \in net /\ d.kind \in {"HelloAck", "Resp"}
    /\ cPhase \in {"Hello", "Ready"}
    /\ Deliver(d, {})
    /\ cCoder' = cSecret
    /\ \E o \in DecodeOutcomes(cSecret, d) :
        \/ /\ o = "parseError"
           /\ cPhase' = IF cPhase = "Hello" THEN "Failed" ELSE "Closed"
           /\ cWaiting' = FALSE
           /\ UNCHANGED <<cSecret>>
        \/ /\ o = "forged"
           /\ UNCHANGED <<cPhase, cSecret, cWaiting>>
        \/ /\ o = "ok" /\ d.kind = "HelloAck" /\ cPhase = "Hello"
           /\ cSecret' = d.body /\ cPhase' = "Ready" /\ cWaiting' = FALSE
        \/ /\ o = "ok" /\ d.kind = "Resp" /\ cPhase = "Ready"
           /\ cWaiting' = (cWaiting /\ d.seq # cSent)
           /\ UNCHANGED <<cPhase, cSecret>>
    /\ UNCHANGED <<cSent, cRetx, serverVars>>
-----------------------------------------------------------------------------
(* Server *)

\* One iteration of Server.Serve for datagram d.  getConn: a closed
\* connection is shut down and replaced by a fresh one (no serverSecret,
\* isSecretReady false, empty queue).  Conn.Process: the coder gets the
\* connection's clientSecret, which on the server is never set, and d is
\* decoded.  A decode error makes Serve close the connection.  A client hello
\* goes to handleClientHello: a new key pair, SetServerSecret, and the ACK
\* carrying the server public key written at once through resolveCoder.
\* Any other message is pushed on the received-message queue (Process blocks
\* while it is full).
ServerReceive(d) ==
    /\ d \in net /\ d.kind \in {"Hello", "Req"}
    /\ sMisdecode' = (sMisdecode \/ d.enc # NoKey)
    /\ LET secret0 == IF sOpen THEN sSecret ELSE NoKey
           ready0 == sOpen /\ sReady
           queue0 == IF sOpen THEN sQueue ELSE <<>>
       IN \E o \in DecodeOutcomes(NoKey, d) :
          \/ /\ o = "parseError"
             /\ Deliver(d, {})
             /\ sOpen' = FALSE /\ sCoder' = NoKey
             /\ sSecret' = secret0 /\ sReady' = ready0 /\ sQueue' = queue0
             /\ UNCHANGED sKeys
          \/ /\ o = "ok" /\ d.kind = "Hello" /\ sKeys < MaxHellos
             /\ LET r == ResolveCoder(NewServerKey, ready0, NoKey)
                IN /\ Deliver(d, {Encode(Msg("HelloAck", 0, HelloReplyKey), r.coder)})
                   /\ sCoder' = r.coder /\ sReady' = r.ready
             /\ sOpen' = TRUE /\ sSecret' = NewServerKey /\ sKeys' = sKeys + 1
             /\ sQueue' = queue0
          \/ /\ \/ o = "ok" /\ d.kind = "Req"
                \/ o = "forged"
             /\ Len(queue0) < QueueSize
             /\ Deliver(d, {})
             /\ sQueue' = Append(queue0, IF o = "ok" THEN d.seq ELSE 0)
             /\ sOpen' = TRUE /\ sCoder' = NoKey
             /\ sSecret' = secret0 /\ sReady' = ready0
             /\ UNCHANGED sKeys
    /\ UNCHANGED <<sEmit, clientVars>>

\* The reader goroutine takes the next queued request through handleReq:
\* cached or handler-made response, addResponseToCache (the coder gets the
\* nil clientSecret), then, unless the connection has been closed meanwhile,
\* writeMessageAsync -> Session.WriteMessage -> resolveCoder.
ServerHandle ==
    /\ sQueue # <<>> /\ sEmit = <<>>
    /\ sQueue' = Tail(sQueue)
    /\ IF sOpen
       THEN LET r == ResolveCoder(sSecret, sReady, NoKey)
            IN /\ sCoder' = r.coder /\ sReady' = r.ready
               /\ sEmit' = <<Head(sQueue)>>
       ELSE /\ sCoder' = NoKey
            /\ UNCHANGED <<sReady, sEmit>>
    /\ UNCHANGED <<net, sOpen, sSecret, sKeys, sMisdecode, clientVars>>

\* ... and Coder.Encode reads the process coder's secret as it is now.
ServerEmit ==
    /\ sEmit # <<>>
    /\ net' = net \cup {Encode(Msg("Resp", Head(sEmit), 0), sCoder)}
    /\ sEmit' = <<>>
    /\ UNCHANGED <<sOpen, sSecret, sReady, sCoder, sKeys, sQueue, sMisdecode, clientVars>>

\* UDP loses d.
Lose(d) ==
    /\ "loss" \in Faults /\ d \in net
    /\ net' = net \ {d}
    /\ UNCHANGED <<clientVars, serverVars>>

Next ==
    \/ ClientHello \/ ClientHandshakeTimeout \/ ClientRequest
    \/ ClientRetransmit \/ ClientRequestTimeout
    \/ ServerHandle \/ ServerEmit
    \/ \E d \in net : ClientReceive(d) \/ ServerReceive(d) \/ Lose(d)

Spec == Init /\ [][Next]_vars
-----------------------------------------------------------------------------
(* Properties *)

\* Once the session has spent its one-shot isSecretReady on the plaintext
\* hello ACK, every reply the server connection writes is sealed (spec:
\* the ACK is the one plaintext datagram, all subsequent outgoing datagrams
\* are encrypted).  Session.resolveCoder sets serverSecret on the process-
\* wide DefaultCoder and the Encode of WriteMessage reads it afterwards; the
\* Serve goroutine's Process sets the nil clientSecret on that coder for
\* every datagram it decodes, also between those two reads.
ServerRepliesSealed ==
    [][\A d \in net' \ net : d.kind = "Resp" /\ sOpen /\ sReady => d.enc # NoKey]_vars

\* The server decodes every datagram under the key it was sealed with;
\* Conn.Process decodes under cc.clientSecret, never set on the server.
ServerDecodesUnderSenderKey ==
    ~sMisdecode

=============================================================================
