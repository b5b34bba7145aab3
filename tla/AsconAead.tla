------------------------------ MODULE AsconAead ------------------------------
(***************************************************************************)
(* The ASCON-128 authenticated encryption of src/ascon/coder/ascon.go over *)
(* the block operations of AsconBlock, inside the keyed Coder.Encode and   *)
(* Coder.Decode of coder.go (AsconCodec).  A behaviour is one keyed Encode *)
(* of a message: Encrypt(msg, key, nonce, plain) on its CoAP bytes and the      *)
(* datagram C || T || nonce; the datagram travelling to the peer intact,   *)
(* with one bit flipped or cut short; and the peer's keyed Decode: the     *)
(* split by size, Decrypt, and the parse of what copy left.  Every step    *)
(* is one statement group of the code: makeAscon, one permutation round,   *)
(* the key XOR of initialize, one iteration of the absorb loops, the last  *)
(* block, and the two halves of finalize around its permutation.          *)
(*                                                                         *)
(* The Ascon state is a function 0..4 -> Block (state[0] is the rate).     *)
(* A byte string is a sequence of bytes; Go's index i is the sequence      *)
(* position i + 1.  Decrypt's nil result is the empty sequence, which is   *)
(* what its caller (copy in Coder.Decode) sees of it.                      *)
(***************************************************************************)
EXTENDS Naturals, Sequences, AsconBlock, AsconCodec

CONSTANTS
    Keys,           \* 16-byte keys (the first half of the shared secret)
    Nonces,         \* 16-byte nonces (RandomBytes(16) in Coder.Encode)
    Messages,       \* the messages Coder.Encode is called on
    Truncations,    \* lengths a datagram may be cut to on the way
    Flips           \* the bit flips the datagram may suffer on the way:
                    \* [part |-> "ct", "tag" or "nonce",
                    \*  at |-> "first" or "last" byte, mask |-> a byte]

\* BlockBytes of block.go
BlockBytes == 8

\* The 8 bytes of s from Go index i on, as a block.
BlockAt(s, i) == [j \in 0..7 |-> s[i + j + 1]]

\* The bytes of a block, as a byte string.
BlockBytesOf(b) == [j \in 1..8 |-> b[j - 1]]

\* makeAscon: the initialization vector 80 40 0c 06 00 00 00 00, the twelve
\* round constants (in the last byte), the rotation amounts, the rounds a
\* and b, and the state [iv, key0, key1, nonce0, nonce1].
IV == [i \in 0..7 |-> <<128, 64, 12, 6, 0, 0, 0, 0>>[i + 1]]
RoundConstant(k) ==
    [i \in 0..7 |->
        IF i = 7
        THEN <<240, 225, 210, 195, 180, 165, 150, 135, 120, 105, 90, 75>>[k + 1]
        ELSE 0]
Difusion == <<<<19, 28>>, <<61, 39>>, <<1, 6>>, <<10, 17>>, <<7, 41>>>>
RoundsA == 12
RoundsB == 6
\* makeAscon with the nonce blocks left zero.
MakeStateNoNonce(key, nonce) ==
    [i \in 0..4 |->
        CASE i = 0 -> IV
          [] i \in {1, 2} -> BlockAt(key, 8 * (i - 1))
          [] i \in {3, 4} -> [j \in 0..7 |-> 0]]
MakeState(key, nonce) ==
    [i \in 0..4 |->
        CASE i = 0 -> IV
          [] i \in {1, 2} -> BlockAt(key, 8 * (i - 1))
          [] i \in {3, 4} -> BlockAt(nonce, 8 * (i - 3))]

\* Ascon.addConstant: round i of an x-round permutation XORs constant
\* 12 - x + i into state[2].
AddConstant(S, i, x) == [S EXCEPT ![2] = XOR(@, RoundConstant(12 - x + i))]

\* Ascon.sbox: x0 ^= x4, x4 ^= x3, x2 ^= x1; t_i = ~x_i & x_(i+1);
\* x_i ^= t_(i+1); x1 ^= x0, x0 ^= x4, x3 ^= x2, x2 = ~x2.
Sbox(S) ==
    LET s == [S EXCEPT ![0] = XOR(S[0], S[4]), ![4] = XOR(S[4], S[3]),
                       ![2] = XOR(S[2], S[1])]
        t == [i \in 0..4 |-> AND(NOT(s[i]), s[(i + 1) % 5])]
        u == [i \in 0..4 |-> XOR(s[i], t[(i + 1) % 5])]
    IN  [u EXCEPT ![1] = XOR(u[1], u[0]), ![0] = XOR(u[0], u[4]),
                  ![3] = XOR(u[3], u[2]), ![2] = NOT(u[2])]

\* Ascon.diffuse: every lane XORed with two rotations of itself.
Diffuse(S) ==
    [i \in 0..4 |->
        XOR(S[i], XOR(ROTATE(S[i], Difusion[i + 1][1]),
                      ROTATE(S[i], Difusion[i + 1][2])))]

\* One round of Ascon.permutation(x): round i adds constant 12 - x + i,
\* then the S-box and the linear diffusion layer.
AsconRound(S, i, x) == Diffuse(Sbox(AddConstant(S, i, x)))

\* processPlaintext's padding: P || 0x80 || 0...0 when the length is not a
\* multiple of 8, P unchanged when it is.
Pad(p) ==
    LET l == Len(p) % BlockBytes
    IN  IF l > 0 THEN p \o <<128>> \o [j \in 1..(BlockBytes - l - 1) |-> 0]
        ELSE p

\* lastByte of processPlaintext and processCyphertext: the Go index of the
\* last block of a text of length n.
LastByte(n) == IF n % BlockBytes > 0 THEN n - (n % BlockBytes) ELSE n - BlockBytes

\* processCyphertext's new rate for a partial last block of l bytes: the
\* first l bytes of Sr replaced by Ct, byte l flipped by 0x80 (and with
\* the flip left out).
ReplacePartialNoFlip(s0, ct, l) ==
    [j \in 0..7 |-> IF j < l THEN ct[j + 1] ELSE s0[j]]
ReplacePartial(s0, ct, l) ==
    [j \in 0..7 |-> CASE j < l -> ct[j + 1]
                       [] j = l -> s0[j] ^^ 128
                       [] OTHER -> s0[j]]

\* Ascon.finalize's result: state[3] || state[4].
TagOf(S) == BlockBytesOf(S[3]) \o BlockBytesOf(S[4])

\* The parts of the datagram Coder.Encode sends, ciphertext, tag and
\* nonce, and one bit flipped in one of them.
Flip(s, f) ==
    LET k == IF f.at = "first" THEN 1 ELSE Len(s)
    IN  [s EXCEPT ![k] = @ ^^ f.mask]
Flipped(d, f) == [d EXCEPT ![f.part] = Flip(@, f)]

\* Coder.Encode's keyed datagram: fullBuf[:size] holding the ciphertext,
\* then the tag and the nonce appended.
Wire(d) == d.ct \o d.tag \o d.nonce

\* The datagrams that may arrive for one sent: intact, one bit flipped, or
\* its first n bytes.
Arrivals(d) ==
    {Wire(d)} \cup {Wire(Flipped(d, f)) : f \in Flips}
              \cup {SubSeq(Wire(d), 1, n) : n \in {t \in Truncations : t < Len(Wire(d))}}

\* Coder.Decode's split of a keyed datagram of size bytes (line 139): the
\* nonce is the last 16, the tag the 16 before, the ciphertext the rest.
CtOf(dg)    == SubSeq(dg, 1, Len(dg) - 32)
TagIn(dg)   == SubSeq(dg, Len(dg) - 31, Len(dg) - 16)
NonceIn(dg) == SubSeq(dg, Len(dg) - 15, Len(dg))

-----------------------------------------------------------------------------
VARIABLES
    call,       \* "Encrypt", "sent" (the datagram on its way), "arrived",
                \* "Decrypt", or "decoded"
    pc,         \* the step of the call: "initialize", "absorb", "finalize"
                \* or "tag"
    S,          \* the Ascon state of the call
    ri, rx,     \* the permutation in progress: next round ri of rx rounds
    msg,        \* the message Coder.Encode is called on
    key, nonce, plain,  \* Encrypt's arguments
    text,       \* the text absorbed: padded plaintext or ciphertext
    pos,        \* the Go index i of the absorb loop
    out,        \* the bytes emitted so far
    sent,       \* the datagram Encrypt's results make: [ct, tag, nonce]
    dgram,      \* the bytes that reach the peer's Coder.Decode
    result,     \* Decrypt's result
    decoded     \* Decode's outcome: a message, DecodeError or DecodePanic

vars == <<call, pc, S, ri, rx, msg, key, nonce, plain, text, pos, out, sent,
          dgram, result, decoded>>

NoDatagram == [ct |-> <<>>, tag |-> <<>>, nonce |-> <<>>]

\* The permutation the call started has run all its rounds and the call is
\* at step p.
Permuted(p) == ri = rx /\ pc = p

\* Starting Ascon.permutation(x).
StartPermutation(x) == ri' = 0 /\ rx' = x

\* Coder.Encode of a message with a secret: the CoAP bytes of Size(m)
\* bytes, a random nonce, and Encrypt: makeAscon, and initialize's
\* permutation p_a started.
Init ==
    /\ msg \in Messages /\ key \in Keys /\ nonce \in Nonces
    /\ plain = SubSeq(EncodeBytes(msg), 1, Size(msg))
    /\ call = "Encrypt" /\ pc = "initialize"
    /\ S = MakeState(key, nonce)
    /\ ri = 0 /\ rx = RoundsA
    /\ text = Pad(plain) /\ pos = 0 /\ out = <<>>
    /\ sent = NoDatagram /\ dgram = <<>> /\ result = <<>>
    /\ decoded = DecodeError
\* One round of the permutation in progress.
Round ==
    /\ ri < rx
    /\ S' = AsconRound(S, ri, rx)
    /\ ri' = ri + 1
    /\ UNCHANGED <<call, pc, rx, msg, key, nonce, plain, text, pos, out, sent,
                   dgram, result, decoded>>

\* Ascon.initialize after p_a: the key XORed into state[3] and state[4];
\* the absorb loop starts at i = 0.
InitializeKey ==
    /\ Permuted("initialize")
    /\ S' = [S EXCEPT ![3] = XOR(@, BlockAt(key, 0)),
                      ![4] = XOR(@, BlockAt(key, 8))]
    /\ pc' = "absorb"
    /\ UNCHANGED <<call, ri, rx, msg, key, nonce, plain, text, pos, out, sent,
                   dgram, result, decoded>>

\* processPlaintext, one iteration of the loop over the blocks before the
\* last: Sr ^= Pi, Ci = Sr emitted, p_b.
AbsorbPlaintext ==
    /\ call = "Encrypt" /\ Permuted("absorb")
    /\ pos < LastByte(Len(plain))
    /\ LET s0 == XOR(S[0], BlockAt(text, pos))
       IN  /\ S' = [S EXCEPT ![0] = s0]
           /\ out' = out \o BlockBytesOf(s0)
    /\ pos' = pos + BlockBytes
    /\ StartPermutation(RoundsB)
    /\ UNCHANGED <<call, pc, msg, key, nonce, plain, text, sent, dgram, result, decoded>>

\* processPlaintext, the last (padded) block: Sr ^= Pt, Ct = Sr emitted
\* and not permuted; the output truncated to the plaintext's length.
LastPlaintext ==
    /\ call = "Encrypt" /\ Permuted("absorb")
    /\ pos >= LastByte(Len(plain))
    /\ LET s0 == XOR(S[0], BlockAt(text, LastByte(Len(plain))))
       IN  /\ S' = [S EXCEPT ![0] = s0]
           /\ out' = SubSeq(out \o BlockBytesOf(s0), 1, Len(plain))
    /\ pc' = "finalize"
    /\ UNCHANGED <<call, ri, rx, msg, key, nonce, plain, text, pos, sent, dgram,
                   result, decoded>>

\* processCyphertext, one iteration of the loop over the blocks before the
\* last: Pi = Sr ^ Ci emitted, Sr = Ci, p_b.
AbsorbCyphertext ==
    /\ call = "Decrypt" /\ Permuted("absorb")
    /\ pos < LastByte(Len(text))
    /\ LET c == BlockAt(text, pos)
       IN  /\ out' = out \o BlockBytesOf(XOR(S[0], c))
           /\ S' = [S EXCEPT ![0] = c]
    /\ pos' = pos + BlockBytes
    /\ StartPermutation(RoundsB)
    /\ UNCHANGED <<call, pc, msg, key, nonce, plain, text, sent, dgram, result, decoded>>

\* processCyphertext, a last block that is full (l = 0): as a block of the
\* loop, without the permutation.
LastCyphertextFull ==
    /\ call = "Decrypt" /\ Permuted("absorb")
    /\ pos >= LastByte(Len(text)) /\ Len(text) % BlockBytes = 0
    /\ LET c == BlockAt(text, LastByte(Len(text)))
       IN  /\ out' = out \o BlockBytesOf(XOR(S[0], c))
           /\ S' = [S EXCEPT ![0] = c]
    /\ pc' = "finalize"
    /\ UNCHANGED <<call, ri, rx, msg, key, nonce, plain, text, pos, sent, dgram,
                   result, decoded>>

\* processCyphertext, a partial last block of l bytes: Pt = the first l
\* bytes of Sr ^ Ct (XORP); the first l bytes of Sr replaced by Ct and byte
\* l flipped by 0x80.
LastCyphertextPartial ==
    /\ call = "Decrypt" /\ Permuted("absorb")
    /\ pos >= LastByte(Len(text))
    /\ LET l  == Len(text) % BlockBytes
           lb == LastByte(Len(text))
       IN  /\ l > 0
           /\ out' = out \o [j \in 1..l |-> S[0][j - 1] ^^ text[lb + j]]
           /\ S' = [S EXCEPT ![0] = ReplacePartial(@, SubSeq(text, lb + 1, lb + l), l)]
    /\ pc' = "finalize"
    /\ UNCHANGED <<call, ri, rx, msg, key, nonce, plain, text, pos, sent, dgram,
                   result, decoded>>

\* Ascon.finalize up to p_a: the key XORed into state[0] and state[1].
FinalizeKey ==
    /\ pc = "finalize"
    /\ S' = [S EXCEPT ![0] = XOR(@, BlockAt(key, 0)),
                      ![1] = XOR(@, BlockAt(key, 8))]
    /\ StartPermutation(RoundsA)
    /\ pc' = "tag"
    /\ UNCHANGED <<call, msg, key, nonce, plain, text, pos, out, sent, dgram,
                   result, decoded>>

\* The rest of finalize: the key XORed into state[3] and state[4], the tag
\* state[3] || state[4].
Finalized == [S EXCEPT ![3] = XOR(@, BlockAt(key, 0)),
                       ![4] = XOR(@, BlockAt(key, 8))]

\* Encrypt returns (cyphertext, tag); Coder.Encode sends C || T || nonce.
EncryptReturn ==
    /\ call = "Encrypt" /\ Permuted("tag")
    /\ S' = Finalized
    /\ sent' = [ct |-> out, tag |-> TagOf(Finalized), nonce |-> nonce]
    /\ call' = "sent"
    /\ UNCHANGED <<pc, ri, rx, msg, key, nonce, plain, text, pos, out, dgram,
                   result, decoded>>

\* The datagram reaches the peer: intact, with one bit flipped, or cut.
Deliver ==
    /\ call = "sent"
    /\ dgram' \in Arrivals(sent)
    /\ call' = "arrived"
    /\ UNCHANGED <<pc, S, ri, rx, msg, key, nonce, plain, text, pos, out, sent,
                   result, decoded>>

\* Coder.Decode with the secret set, up to the Decrypt call: fewer than 4
\* bytes is ErrMessageTruncated; below 32 bytes the slices of line 139
\* are out of range, and at exactly 32 Decrypt's processCyphertext slices
\* an empty ciphertext at lastByte = -8: a panic either way.  Otherwise
\* Decrypt(secret, nonce, ciphertext, tag): makeAscon with the received
\* nonce, p_a started.
DecodeStart ==
    /\ call = "arrived"
    /\ \/ /\ Len(dgram) < 4
          /\ decoded' = DecodeError /\ call' = "decoded"
          /\ UNCHANGED <<pc, S, ri, rx, text, pos, out>>
       \/ /\ Len(dgram) \in 4..32
          /\ decoded' = DecodePanic /\ call' = "decoded"
          /\ UNCHANGED <<pc, S, ri, rx, text, pos, out>>
       \/ /\ Len(dgram) > 32
          /\ S' = MakeState(key, NonceIn(dgram))
          /\ text' = CtOf(dgram)
          /\ call' = "Decrypt" /\ pc' = "initialize"
          /\ StartPermutation(RoundsA)
          /\ pos' = 0 /\ out' = <<>>
          /\ UNCHANGED decoded
    /\ UNCHANGED <<msg, key, nonce, plain, sent, dgram, result>>

\* Decode's parse of the (non-empty) bytes Decrypt left: data[0] is checked
\* first, and reading data[1:4] of fewer than 4 bytes panics.
DecryptedOutcomes(data) ==
    CASE Len(data) >= 4            -> ParseOutcomes(data)
      [] HeaderByteRejects(data)   -> {DecodeError}
      [] OTHER                     -> {DecodePanic}

\* Decrypt returns the plaintext if the received tag equals the computed
\* one (bytes.Equal), nil otherwise; Decode copies it over the datagram
\* (nil copies nothing, leaving the ciphertext), keeps the first size - 32
\* bytes and parses them (DecryptedOutcomes).
DecryptReturn ==
    /\ call = "Decrypt" /\ Permuted("tag")
    /\ S' = Finalized
    /\ LET r    == IF TagIn(dgram) = TagOf(Finalized) THEN out ELSE <<>>
           data == IF r = <<>> THEN text ELSE r
       IN  /\ result' = r
           /\ decoded' \in DecryptedOutcomes(data)
    /\ call' = "decoded"
    /\ UNCHANGED <<pc, ri, rx, msg, key, nonce, plain, text, pos, out, sent,
                   dgram>>

Next ==
    \/ Round \/ InitializeKey \/ FinalizeKey
    \/ AbsorbPlaintext \/ LastPlaintext \/ EncryptReturn
    \/ Deliver \/ DecodeStart
    \/ AbsorbCyphertext \/ LastCyphertextFull \/ LastCyphertextPartial
    \/ DecryptReturn

Spec == Init /\ [][Next]_vars

-----------------------------------------------------------------------------
\* The bytes Decode was called on are not the datagram Encode produced.
Tampered == dgram # Wire(sent)

\* Decrypt was called: the datagram was longer than the 32-byte trailer.
Decrypted == call = "decoded" /\ Len(dgram) > 32

\* Codec round trip (spec: Decode(Encode(m)) = m): the keyed Decode of the
\* datagram the keyed Encode produced yields the message -- through
\* Size's buffer, the header packing, the split of the trailer, Decrypt
\* (the ciphertext a multiple of the 8-byte rate or not) and the parse.
RoundTrip == call = "decoded" /\ ~Tampered => decoded = msg

\* AEAD authenticity: Decrypt returns nil for a datagram with a bit of its
\* ciphertext, tag or nonce flipped, or cut to a prefix of its bytes (which
\* misaligns the tag and nonce Decode splits off).  Not every cut: dropping
\* the last ciphertext byte of an 8k-byte plaintext ending in 0x80 keeps
\* the tag valid (a hazard of processPlaintext's padding, not generated).
Authenticity == Decrypted /\ Tampered => result = <<>>

\* The spec's decoder rule: a datagram that does not authenticate under
\* the key is rejected -- Decode returns an error for it, and neither
\* panics nor hands a message on.
DecodeRejectsTampered == call = "decoded" /\ Tampered => decoded = DecodeError
====
