--------------------------- MODULE MCConnExchange ---------------------------
(* Instances of ConnExchange for TLC. *)
EXTENDS ConnExchange, TLC

CONSTANTS w1, w2
\* One writer, or two that compete for the NStart permit; the writers are
\* interchangeable, so the safety runs use symmetry.
MCOneWriter == {w1}
MCTwoWriters == {w1, w2}
MCWriterSymmetry == Permutations(MCTwoWriters)

\* Default NStart of config.go; a semaphore weight of 3 stands for
\* math.MaxInt64: the acquire arithmetic only needs it to exceed NStart.
MCNStart == 1
MCSemCap == 3
\* One tick stands for AckTimeout; one retransmission reaches the budget,
\* after which the exchange expires.
MCAckTimeout == 1
MCMaxRetransmit == 1
\* A deadline that falls after the last retransmission is due.
MCDeadlines == {2}
\* The same, and a context without deadline (context.Background()).
MCDeadlinesUnbounded == {2, NoDeadline}
\* One below the wrap: the first MID allocated wraps to 0.
MCInitMsgID == 65535
MCMaxAlloc == 3
\* With two writers, one call each.
MCMaxAllocTwo == 2
\* The peer's Confirmable carries our latest MID, or sits just outside the
\* window of checkMyMessageID.
MCPeerOffsets == {0, 16383}
\* A peer Confirmable that carries our latest MID: it moves our counter and
\* its MID-only match deletes our element.
MCPeerOffsetsOurs == {0}
MCMaxPeerCons == 1
MCNoPeerCons == 0
MCMaxPeerConsTwo == 2
====
