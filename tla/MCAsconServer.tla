--------------------------- MODULE MCAsconServer ---------------------------
(* Instances of AsconServer for TLC. *)
EXTENDS AsconServer

CONSTANTS a1, a2, c1, c2, c3
\* Two clients: one connection's close path runs while the other's
\* datagrams are served.
MCAddrs == {a1, a2}
\* Three datagrams: the first creates a connection, the second finds it
\* closed (by a Process error or the inactivity monitor) and replaces it,
\* the third reaches the replacement or the other client.
\* A connection getOrCreateConn creates is still open when getConn checks
\* it, so each datagram creates at most one connection: three never run
\* out.
MCMaxDatagrams == 3
MCConnIds == {c1, c2, c3}
====
