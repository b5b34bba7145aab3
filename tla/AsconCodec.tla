------------------------------ MODULE AsconCodec ------------------------------
(***************************************************************************)
(* The CoAP layout of Coder.Size, Coder.Encode and Coder.Decode            *)
(* (src/ascon/coder/coder.go) as operators on byte strings.  A byte string *)
(* is a sequence of bytes; Go's index i is position i + 1.                 *)
(*                                                                         *)
(* A message is a record [type, token, code, mid, payload, options]. The   *)
(* option codec is go-coap's (outside this repository) and a black box of  *)
(* the spec: the messages sent here carry no options, whose marshalled     *)
(* form is empty, and Options.Unmarshal consumes a leading 0xff payload   *)
(* marker and stops; bytes that start with anything else are options, and *)
(* for those it either fails or yields options (options = TRUE) whose     *)
(* content the model does not track.                                       *)
(***************************************************************************)
EXTENDS Naturals, Sequences

\* The outcomes of Decode that are not a message: an error returned, and a
\* run-time panic (a slice or index out of range).  Records, like messages.
DecodeError == [outcome |-> "error"]
DecodePanic == [outcome |-> "panic"]

\* Coder.Size of a message with no options: header, token, and the payload
\* with its 0xff separator.
Size(m) ==
    4 + Len(m.token) + (IF Len(m.payload) > 0 THEN Len(m.payload) + 1 ELSE 0)

\* Coder.Encode's bytes before encryption: Ver = 1, T, TKL (0xf & len),
\* code (byte of the 16-bit Code), the message ID big-endian, the token,
\* and 0xff and the payload if there is one.
EncodeBytes(m) ==
    << 64 + m.type * 16 + (Len(m.token) % 16), m.code % 256,
       m.mid \div 256, m.mid % 256 >>
    \o m.token
    \o (IF Len(m.payload) > 0 THEN <<255>> \o m.payload ELSE <<>>)

\* Coder.Decode's checks of data[0], made before data[1] and data[2:4] are
\* read: the version is not 1, or TKL > 8.
HeaderByteRejects(data) ==
    data[1] \div 64 # 1 \/ data[1] % 16 > 8

\* Coder.Decode after the key is handled, on data of at least 4 bytes: the
\* version check, TKL > 8, a token longer than what is left, then the
\* options and the payload.  A token or payload of length 0 is nil, which
\* is the empty sequence here.
ParseOutcomes(data) ==
    LET b0   == data[1]
        tkl  == b0 % 16
        rest == SubSeq(data, 5 + tkl, Len(data))
        Msg(payload, opts) ==
            [type |-> (b0 \div 16) % 4, token |-> SubSeq(data, 5, 4 + tkl),
             code |-> data[2], mid |-> data[3] * 256 + data[4],
             payload |-> payload, options |-> opts]
    IN  CASE HeaderByteRejects(data) -> {DecodeError}
          [] Len(data) - 4 < tkl     -> {DecodeError}
          [] rest = <<>>             -> {Msg(<<>>, FALSE)}
          [] rest[1] = 255           -> {Msg(Tail(rest), FALSE)}
          [] OTHER                   -> {DecodeError, Msg(<<>>, TRUE)}
====
