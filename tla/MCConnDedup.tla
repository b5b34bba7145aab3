---------------------------- MODULE MCConnDedup ----------------------------
(* Instances of ConnDedup for TLC. *)
EXTENDS ConnDedup

CONSTANTS r1, r2, m1, m2
\* Two readers: ReceivedMessageReader.TryToReplaceLoop lets a second loop
\* start while the first one is inside a handler, so two handleReq run at
\* once.  They are interchangeable.
MCReaders == {r1, r2}
MCReaderSymmetry == Permutations(MCReaders)
\* Two requests of the peer, each sent twice: the original and a
\* retransmission.
MCMIDs == {m1, m2}
MCMaxCopies == 2
MCQueueSize == 2
MCReqTypes == {"CON", "NON"}
\* Handlers whose responses processResponse caches.
MCCachedOutcomes == {"piggy", "empty"}
MCAllOutcomes == {"piggy", "empty", "reset"}
====
