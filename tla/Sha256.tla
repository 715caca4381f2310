------------------------------- MODULE Sha256 -------------------------------
(***************************************************************************)
(* SHA-256, HMAC and the password-based key of the CMP client              *)
(* (c99_client.c).  The compression of a block is a parameter: nothing     *)
(* here depends on which function it is.  What is modelled is what the     *)
(* client's code adds to it: cutting a message given in pieces into        *)
(* blocks, padding, the count of its bits, and the keyed construction.     *)
(***************************************************************************)
EXTENDS DerHeader, SequencesExt

CONSTANTS
  Block,           \* octets of a block: 64
  LengthOctets,    \* octets of the bit count at the end of the last block: 8
  DigestOctets,    \* 32
  InitialState,    \* states are numbers of DigestOctets octets
  Compress(_, _)   \* the state after a block

ASSUME Sha256Assumption ==
  /\ Block \in Nat /\ LengthOctets \in 1 .. Block - 1
  /\ DigestOctets \in 1 .. Block

BigEndian(n, k) == [i \in 1 .. k |-> Digit(n, 256, k, i)]
Zeros(n) == [i \in 1 .. n |-> 0]

Octets == 0 .. 255

(* The blocks of a message, and the state after each of its whole blocks.  *)
BlockOf(octets, i) == SubSeq(octets, (i - 1) * Block + 1, i * Block)
Whole(octets) == Len(octets) \div Block
Compressed(state, octets) ==
  LET after[i \in 0 .. Whole(octets)] ==
        IF i = 0 THEN state ELSE Compress(after[i - 1], BlockOf(octets, i))
  IN after

(* data is ctx->data[0 .. ctx->datalen - 1]                                *)
Sha256Init == [data |-> <<>>, bitlen |-> 0, state |-> InitialState]

(* The octets are taken one by one; whole blocks are compressed.           *)
Sha256Update(ctx, octets) ==
  LET held == ctx.data \o octets
      whole == Whole(held)
  IN [data |-> SubSeq(held, whole * Block + 1, Len(held)),
      bitlen |-> ctx.bitlen + 8 * (whole * Block),
      state |-> Compressed(ctx.state, held)[whole]]

(* Does the bit count go into the block that the message ends in?          *)
LengthFitsWithMarker(datalen) == datalen <= Block - LengthOctets   \* mutant
LengthFits(datalen) == datalen < Block - LengthOctets

Sha256Final(ctx) ==
  LET room == Block - LengthOctets
      datalen == Len(ctx.data)
      marked == Append(ctx.data, 128)
      full == marked \o Zeros(Block - 1 - datalen)
      before == IF LengthFits(datalen) THEN ctx.state ELSE Compress(ctx.state, full)
      start == IF LengthFits(datalen) THEN SubSeq(full, 1, room) ELSE Zeros(room)
      bits == BigEndian(ctx.bitlen + 8 * datalen, LengthOctets)
  IN BigEndian(Compress(before, start \o bits), DigestOctets)

Hash(octets) == Sha256Final(Sha256Update(Sha256Init, octets))

Bit(n, i) == (n \div 2 ^ i) % 2
Xor(a, b) == FoldLeft(LAMBDA n, i : 2 * n + ((Bit(a, 8 - i) + Bit(b, 8 - i)) % 2), 0, [i \in 1 .. 8 |-> i])

KeyPad(key, octet) ==
  LET k == IF Len(key) > Block THEN Hash(key) ELSE key
  IN [i \in 1 .. Block |-> Xor(IF i <= Len(k) THEN k[i] ELSE 0, octet)]

(* Each hash is fed in two pieces.                                         *)
Sha256Of2(a, b) == Sha256Final(Sha256Update(Sha256Update(Sha256Init, a), b))

(* hmac_sha256: its output holds the inner digest, then the outer one.     *)
InnerDigest(key, data) == Sha256Of2(KeyPad(key, 54), data)
OuterDigest(key, inner) == Sha256Of2(KeyPad(key, 92), inner)
HmacSha256(key, data) == OuterDigest(key, InnerDigest(key, data))

-----------------------------------------------------------------------------
(* Reference: the padding of FIPS 180-4 (5.1.1) and the HMAC of RFC 2104,  *)
(* on whole messages.                                                      *)

Padded(m) ==
  LET zeros == CHOOSE k \in 0 .. Block - 1 : (Len(m) + 1 + k + LengthOctets) % Block = 0
  IN Append(m, 128) \o Zeros(zeros) \o BigEndian(8 * Len(m), LengthOctets)

StandardHash(m) ==
  LET p == Padded(m)
  IN BigEndian(Compressed(InitialState, p)[Whole(p)], DigestOctets)

StandardHmac(key, m) ==
  LET k == IF Len(key) > Block THEN StandardHash(key) ELSE key
      pad(octet) == [i \in 1 .. Block |-> Xor(IF i <= Len(k) THEN k[i] ELSE 0, octet)]
  IN StandardHash(pad(92) \o StandardHash(pad(54) \o m))

(* RFC 4210, 5.1.3.1: the one-way function applied iterationCount times to *)
(* the password with the salt appended.                                    *)
StandardKeys(password, salt, iterations) ==
  LET keys[i \in 0 .. iterations] == IF i = 0 THEN password \o salt ELSE StandardHash(keys[i - 1])
  IN keys
StandardKey(password, salt, iterations) == StandardKeys(password, salt, iterations)[iterations]
=============================================================================
