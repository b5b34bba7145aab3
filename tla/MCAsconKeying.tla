---------------------------- MODULE MCAsconKeying ----------------------------
(* Model-checking instance of AsconKeying: the constant values the runs use. *)
EXTENDS AsconKeying, TLC

\* two requests after the handshake, one retransmission each: enough for a
\* retransmitted request to overlap the reader writing the first reply
MCRequests == 2
MCMaxRetransmit == 1
\* two key pairs: a second hello (duplicated by the network) re-keys once
MCMaxHellos == 2
MCQueueSize == 1
MCLossy == {"loss"}
MCLossyDup == {"loss", "dup"}
=============================================================================
