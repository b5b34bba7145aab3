---------------------------- MODULE ResponseDedup ----------------------------
(***************************************************************************)
(* What request deduplication of a connection promises (spec: Connection, *)
(* Deduplication, and the properties "a handler runs at most once per      *)
(* (remote, mid) within Exchange Lifetime; the second copy receives the    *)
(* cached response").  Requests are identified by their message ID.        *)
(*                                                                         *)
(* Handling a request runs the application handler once, which yields the  *)
(* reply numbered by that run; the reply is stored for the exchange        *)
(* lifetime, and while it is stored every copy of the request is answered  *)
(* with it.  Only once it is forgotten may the handler run again.  A       *)
(* Non-confirmable request whose reply is not kept may be handled again.   *)
(* Deduplication never closes the connection.                              *)
(***************************************************************************)
EXTENDS Naturals

CONSTANTS
    MIDs,       \* message IDs of the peer's requests
    NoReply     \* no reply stored

VARIABLES
    kind,       \* per MID: "unseen", or the type of the request, "CON" or "NON"
    runs,       \* per MID: number of handler runs
    stored,     \* per MID: the number of the run whose reply is stored, or NoReply
    replies,    \* the replies produced: pairs <<mid, run>>
    open        \* the connection is open

vars == <<kind, runs, stored, replies, open>>

Init ==
    /\ kind = [m \in MIDs |-> "unseen"]
    /\ runs = [m \in MIDs |-> 0]
    /\ stored = [m \in MIDs |-> NoReply]
    /\ replies = {}
    /\ open = TRUE

\* The first copy of request m arrives.
Arrive(m, t) ==
    /\ kind[m] = "unseen"
    /\ kind' = [kind EXCEPT ![m] = t]
    /\ UNCHANGED <<runs, stored, replies, open>>

\* The handler runs for m; its reply is produced and stored.
Handle(m) ==
    /\ kind[m] # "unseen" /\ stored[m] = NoReply
    /\ runs' = [runs EXCEPT ![m] = @ + 1]
    /\ stored' = [stored EXCEPT ![m] = runs'[m]]
    /\ replies' = replies \cup {<<m, runs'[m]>>}
    /\ UNCHANGED <<kind, open>>

\* A Non-confirmable request is handled without keeping a reply; it may or
\* may not produce one.
HandleUnstored(m) ==
    /\ kind[m] = "NON" /\ stored[m] = NoReply
    /\ runs' = [runs EXCEPT ![m] = @ + 1]
    /\ replies' \in {replies, replies \cup {<<m, runs'[m]>>}}
    /\ UNCHANGED <<kind, stored, open>>

\* The exchange lifetime of m's reply ends.
Forget(m) ==
    /\ stored[m] # NoReply
    /\ stored' = [stored EXCEPT ![m] = NoReply]
    /\ UNCHANGED <<kind, runs, replies, open>>

Next ==
    \E m \in MIDs :
        \/ \E t \in {"CON", "NON"} : Arrive(m, t)
        \/ Handle(m) \/ HandleUnstored(m) \/ Forget(m)

Spec == Init /\ [][Next]_vars
====
