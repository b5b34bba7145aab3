----------------------------- MODULE AsconCoder -----------------------------
(***************************************************************************)
(* The datagram codec of src/ascon/coder/coder.go, abstracted to what the  *)
(* keying properties tell apart.  A datagram is a record whose field enc   *)
(* is the secret it was sealed under (NoKey: sent as plain CoAP).  The     *)
(* ASCON arithmetic itself is abstracted: decrypting under the sealing key *)
(* recovers the message, decrypting under any other key fails the tag.     *)
(***************************************************************************)
CONSTANT NoKey          \* a nil secret: the coder encodes and decodes plain CoAP

\* Coder.Encode: with a secret the datagram is C || T || nonce, sealed under
\* the coder's secret at the moment Encode reads it; without one it is plain.
Encode(msg, secret) == [msg EXCEPT !.enc = secret]

\* Coder.Decode together with Decrypt.  With the sender's key the message is
\* recovered ("ok").  Otherwise the bytes handed to the CoAP parser are not
\* the sender's message: without a secret the ciphertext is parsed as CoAP;
\* with a secret, Decrypt returns nil on a tag mismatch, copy(data, nil)
\* copies nothing, and the undecrypted bytes minus the 32-byte trailer are
\* parsed.  Either the parser rejects them ("parseError": bad version,
\* token length, options) or it yields a message nobody sent ("forged").
DecodeOutcomes(secret, d) ==
    IF secret = d.enc THEN {"ok"} ELSE {"parseError", "forged"}

=============================================================================
