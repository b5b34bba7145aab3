----------------------------- MODULE MCAsconAead -----------------------------
(* Instances of AsconAead for TLC. *)
EXTENDS AsconAead

\* One key and one nonce: the properties compare the two ends of one
\* datagram, and the permutation treats every key and nonce alike.
MCKeys == {<<16, 17, 34, 51, 68, 85, 102, 119, 136, 153, 170, 187, 204, 221, 238, 255>>}
MCNonces == {<<0, 1, 2, 3, 4, 5, 6, 7, 8, 9, 10, 11, 12, 13, 14, 15>>}

\* Messages whose encodings are 4 (the shortest Decode accepts), 7, 8, 9
\* and 16 bytes: one and two blocks, the last block partial or full, the
\* 8-byte one ending in 0x80; all four types, tokens of 0, 2 and 3 bytes.
MCMessages ==
    { [type |-> 0, token |-> <<>>, code |-> 1, mid |-> 4660,
       payload |-> <<>>, options |-> FALSE],
      [type |-> 2, token |-> <<170, 187, 204>>, code |-> 0, mid |-> 4660,
       payload |-> <<>>, options |-> FALSE],
      [type |-> 3, token |-> <<>>, code |-> 69, mid |-> 4660,
       payload |-> <<111, 107, 128>>, options |-> FALSE],
      [type |-> 0, token |-> <<>>, code |-> 69, mid |-> 65535,
       payload |-> <<104, 101, 108, 108, 111>>, options |-> FALSE],
      [type |-> 1, token |-> <<170, 187>>, code |-> 69, mid |-> 1,
       payload |-> <<48, 49, 50, 51, 52, 53, 54, 55, 56>>, options |-> FALSE] }

\* The lowest and the highest bit of the first and of the last byte of the
\* ciphertext, the tag and the nonce.
MCFlips == [part : {"ct", "tag", "nonce"}, at : {"first", "last"}, mask : {1, 128}]

\* Cuts below 4 bytes, inside the trailer, exactly the trailer, one byte of
\* ciphertext left, and one byte of the shortest datagram's nonce lost.
MCTruncations == {3, 20, 32, 33, 35}

\* No datagram is cut: the flips alone.
MCNoTruncations == {}
====
