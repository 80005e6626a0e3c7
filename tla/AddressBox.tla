----------------------------- MODULE AddressBox -----------------------------
(***************************************************************************)
(* Addresses byte by byte: the two functions of cbor.c that read and write *)
(* a token (with endian.h), the views of bufView.h that the bytes are read *)
(* and written through, crc32.c, and the boxes of addressUtils.c.          *)
(*                                                                         *)
(* A number of up to 64 bits is the sequence of its bytes, most            *)
(* significant first, without leading zeros: zero is <<>>.                 *)
(***************************************************************************)
EXTENDS Naturals, SequencesExt

OK == "OK"
ERR_NOT_ENOUGH_INPUT == "ERR_NOT_ENOUGH_INPUT"
ERR_UNEXPECTED_TOKEN == "ERR_UNEXPECTED_TOKEN"
ERR_INVALID_DATA == "ERR_INVALID_DATA"
ERR_DATA_TOO_LARGE == "ERR_DATA_TOO_LARGE"

BUFFER_SIZE_PARANOIA == 1024

Bytes == 0 .. 255
Significant(bytes) ==
  LET zeros == {k \in DOMAIN bytes : \A j \in 1 .. k : bytes[j] = 0}
  IN SubSeq(bytes, Cardinality(zeros) + 1, Len(bytes))
Number(n) == Significant(<<n \div 256, n % 256>>)
Padded(number, width) == [k \in 1 .. width - Len(number) |-> 0] \o number

\* Numbers of at most two bytes, as numbers.
IsSmall(number) == Len(number) <= 2
Small(number) == FoldLeft(LAMBDA n, b : 256 * n + b, 0, number)

-----------------------------------------------------------------------------
(***************************************************************************)
(* Tokens.                                                                 *)
(***************************************************************************)
CBOR_TYPE_UNSIGNED == 0
CBOR_TYPE_BYTES == 64
CBOR_TYPE_ARRAY == 128
CBOR_TYPE_MAP == 160
CBOR_TYPE_TAG == 192
CBOR_TYPE_ARRAY_INDEF == 159
CBOR_TYPE_INDEF_END == 255

Types == {CBOR_TYPE_UNSIGNED, CBOR_TYPE_BYTES, CBOR_TYPE_ARRAY, CBOR_TYPE_MAP, CBOR_TYPE_TAG}
Unlimited == {CBOR_TYPE_ARRAY_INDEF, CBOR_TYPE_INDEF_END}

\* VALUE_MIN_W1 .. VALUE_MIN_W8: a value in `width` bytes needs all of them, or more
\* than the next shorter width has; and a plausible bug, which takes any.
IsCanonical_Always(value, width) == TRUE
IsCanonical(value, width) ==
  IF width = 1 THEN Len(value) = 1 /\ value[1] >= 24 ELSE 2 * Len(value) > width

Token(type, width, value) ==
  [error |-> OK, type |-> type, width |-> width, value |-> value]
NoToken(e) == [Token(0, 0, <<>>) EXCEPT !.error = e]

\* The token whose value is `width` bytes after the first byte of `buf`.
LongToken(type, width, buf) ==
  LET value == Significant(SubSeq(buf, 2, 1 + width))
  IN IF Len(buf) < 1 + width THEN NoToken(ERR_NOT_ENOUGH_INPUT)
     ELSE IF IsCanonical(value, width) THEN Token(type, width, value)
     ELSE NoToken(ERR_UNEXPECTED_TOKEN)

cbor_parseToken(buf) ==
  IF buf = <<>> THEN NoToken(ERR_NOT_ENOUGH_INPUT)
  ELSE IF buf[1] \in Unlimited THEN Token(buf[1], 0, <<>>)
  ELSE
    LET val == buf[1] % 32
        type == buf[1] - val
    IN IF type \notin Types \/ val > 27 THEN NoToken(ERR_UNEXPECTED_TOKEN)
       ELSE IF val < 24 THEN Token(type, 0, Number(val))
       ELSE LongToken(type, 2 ^ (val - 24), buf)

\* The bytes of a token, and what cbor_writeToken makes of `room` bytes.
TokenBytes(type, value) ==
  IF type \in Unlimited THEN <<type>>
  ELSE IF IsSmall(value) /\ Small(value) < 24 THEN <<type + Small(value)>>
  ELSE LET k == CHOOSE k \in 0 .. 3 :
                  2 ^ k >= Len(value) /\ \A j \in 0 .. k - 1 : 2 ^ j < Len(value)
       IN <<type + 24 + k>> \o Padded(value, 2 ^ k)

cbor_writeToken(type, value, room) ==
  IF type \notin Types \cup Unlimited THEN [error |-> ERR_UNEXPECTED_TOKEN, bytes |-> <<>>]
  ELSE IF Len(TokenBytes(type, value)) > room
  THEN [error |-> ERR_DATA_TOO_LARGE, bytes |-> <<>>]
  ELSE [error |-> OK, bytes |-> TokenBytes(type, value)]

-----------------------------------------------------------------------------
(***************************************************************************)
(* Views.  A write view is what has been written into `size` bytes, a read *)
(* view what is left to read, and what its last operation has read.  After *)
(* an exception a view stays as it is: the operations are chained.         *)
(***************************************************************************)
make_write_view(size) == [error |-> OK, written |-> <<>>, size |-> size]

view_appendToken(view, type, value) ==
  LET token == cbor_writeToken(type, value, view.size - Len(view.written))
  IN IF view.error # OK THEN view
     ELSE [view EXCEPT !.error = token.error, !.written = @ \o token.bytes]

view_appendData(view, data) ==
  IF view.error # OK THEN view
  ELSE IF Len(data) > view.size - Len(view.written)
  THEN [view EXCEPT !.error = ERR_DATA_TOO_LARGE]
  ELSE [view EXCEPT !.written = @ \o data]

make_read_view(bytes) == [error |-> OK, rest |-> bytes, type |-> 0, value |-> <<>>]
view_remainingSize(view) == Len(view.rest)

\* VALIDATE of a condition on what has been read.
Validate(view, condition, e) ==
  IF view.error = OK /\ ~condition THEN [view EXCEPT !.error = e] ELSE view

TokenRead(view, token) ==
  IF token.error # OK THEN [view EXCEPT !.error = token.error]
  ELSE [error |-> OK, type |-> token.type, value |-> token.value,
        rest |-> SubSeq(view.rest, 2 + token.width, Len(view.rest))]

view_readToken(view) ==
  IF view.error # OK THEN view ELSE TokenRead(view, cbor_parseToken(view.rest))

\* view_skipBytes: what is skipped is the view's value then.
view_skipBytes(view, n) ==
  IF view.error # OK THEN view
  ELSE IF n > view_remainingSize(view)
  THEN [view EXCEPT !.error = ERR_NOT_ENOUGH_INPUT]
  ELSE [view EXCEPT !.value = SubSeq(view.rest, 1, n),
                    !.rest = SubSeq(view.rest, n + 1, Len(view.rest))]

-----------------------------------------------------------------------------
(***************************************************************************)
(* crc32.  A word is its 32 bits, the lowest first.                        *)
(***************************************************************************)
\* 0xEDB88320.
Polynomial ==
  <<0, 0, 0, 0, 0, 1, 0, 0, 1, 1, 0, 0, 0, 0, 0, 1,
    0, 0, 0, 1, 1, 1, 0, 1, 1, 0, 1, 1, 0, 1, 1, 1>>

WithByte(word, byte) ==
  [i \in 1 .. 8 |-> (word[i] + byte \div 2 ^ (i - 1)) % 2] \o SubSeq(word, 9, 32)

Shifted(word) ==
  [i \in 1 .. 31 |-> (word[i + 1] + word[1] * Polynomial[i]) % 2]
    \o <<word[1] * Polynomial[32]>>

Words == [1 .. 32 -> 0 .. 1]

shifts[word \in Words, n \in 0 .. 8] == IF n = 0 THEN word ELSE shifts[Shifted(word), n - 1]

remainder[word \in Words, bytes \in Seq(Bytes)] ==
  IF bytes = <<>> THEN word
  ELSE remainder[shifts[WithByte(word, Head(bytes)), 8], Tail(bytes)]

crc32(bytes) ==
  LET crc == remainder[[i \in 1 .. 32 |-> 1], bytes]
      byteOf(k) ==
        FoldLeft(LAMBDA n, j : 2 * n + 1 - crc[8 * k + 9 - j], 0, [j \in 1 .. 8 |-> j])
  IN Significant(<<byteOf(3), byteOf(2), byteOf(1), byteOf(0)>>)

-----------------------------------------------------------------------------
(***************************************************************************)
(* addressUtils.c.                                                         *)
(***************************************************************************)
CBOR_TAG_EMBEDDED_CBOR_BYTE_STRING == 24
CARDANO_ADDRESS_TYPE_PUBKEY == 0
EXTENDED_PUBKEY_SIZE == 64

\* What is written, in order; and all of it, into `size` bytes.
Item(type, value) == [kind |-> "token", type |-> type, value |-> value]
Data(bytes) == [kind |-> "data", bytes |-> bytes]
Written(size, items) ==
  FoldLeft(LAMBDA view, item :
             IF item.kind = "token" THEN view_appendToken(view, item.type, item.value)
                                    ELSE view_appendData(view, item.bytes),
           make_write_view(size), items)

\* addressRootFromExtPubKey, up to its two hashes.
AddressRootPreimage(extPubKey) ==
  Written(64 + 10,
    <<Item(CBOR_TYPE_ARRAY, Number(3)),
      Item(CBOR_TYPE_UNSIGNED, Number(CARDANO_ADDRESS_TYPE_PUBKEY)),
      Item(CBOR_TYPE_ARRAY, Number(2)), Item(CBOR_TYPE_UNSIGNED, Number(0)),
      Item(CBOR_TYPE_BYTES, Number(EXTENDED_PUBKEY_SIZE)), Data(extPubKey),
      Item(CBOR_TYPE_MAP, Number(0))>>)

cborEncodePubkeyAddressInner(addressRoot, outSize) ==
  Written(outSize,
    <<Item(CBOR_TYPE_ARRAY, Number(3)),
      Item(CBOR_TYPE_BYTES, Number(Len(addressRoot))), Data(addressRoot),
      Item(CBOR_TYPE_MAP, Number(0)),
      Item(CBOR_TYPE_UNSIGNED, Number(CARDANO_ADDRESS_TYPE_PUBKEY))>>)

cborPackRawAddressWithChecksum(raw, outputSize) ==
  Written(outputSize,
    <<Item(CBOR_TYPE_ARRAY, Number(2)),
      Item(CBOR_TYPE_TAG, Number(CBOR_TAG_EMBEDDED_CBOR_BYTE_STRING)),
      Item(CBOR_TYPE_BYTES, Number(Len(raw))), Data(raw),
      Item(CBOR_TYPE_UNSIGNED, crc32(raw))>>)

IsToken(read, type) == Validate(read, read.type = type, ERR_INVALID_DATA)
parseToken(view, type) == IsToken(view_readToken(view), type)

HasValue(read, value) == Validate(read, read.value = value, ERR_INVALID_DATA)
parseTokenWithValue(view, type, value) == HasValue(parseToken(view, type), value)

\* The address whose size has just been read; its checksum, and nothing after it.
RawAddress(size) ==
  view_skipBytes(
    Validate(size,
             /\ IsSmall(size.value)
             /\ Small(size.value) < BUFFER_SIZE_PARANOIA
             /\ Small(size.value) <= view_remainingSize(size),
             ERR_INVALID_DATA),
    Small(size.value))
Checksum(raw) == parseTokenWithValue(raw, CBOR_TYPE_UNSIGNED, crc32(raw.value))
AtEnd(view) == Validate(view, view_remainingSize(view) = 0, ERR_INVALID_DATA)

Unboxed(raw, outputSize) ==
  LET fits == Validate(AtEnd(Checksum(raw)), Len(raw.value) <= outputSize,
                       ERR_DATA_TOO_LARGE)
  IN [error |-> fits.error, raw |-> IF fits.error = OK THEN raw.value ELSE <<>>]

unboxChecksummedAddress(box, outputSize) ==
  LET pair == parseTokenWithValue(make_read_view(box), CBOR_TYPE_ARRAY, Number(2))
      tag == parseTokenWithValue(pair, CBOR_TYPE_TAG,
                                 Number(CBOR_TAG_EMBEDDED_CBOR_BYTE_STRING))
  IN Unboxed(RawAddress(parseToken(tag, CBOR_TYPE_BYTES)), outputSize)

\* deriveAddress, of a path whose address root is given.
deriveAddress(addressRoot, outSize) ==
  LET raw == cborEncodePubkeyAddressInner(addressRoot, 40)
  IN IF raw.error # OK THEN raw ELSE cborPackRawAddressWithChecksum(raw.written, outSize)
=============================================================================
