----------------------------- MODULE TxEncoding -----------------------------
(***************************************************************************)
(* What a transaction looks like on the wire: the structure that           *)
(* attestUtxo.c's comments and doc/ins_attest_utxo.md give, written with   *)
(* cbor.c's writer.  The parser is checked against this definition.        *)
(*                                                                         *)
(* A transaction is [inputs, outputs]: of an input only the size of its    *)
(* address data matters, of an output the size of its address, its         *)
(* checksum and its amount.                                                *)
(***************************************************************************)
EXTENDS TxParser, SequencesExt

\* cbor_writeToken: the shortest form of a value, most significant byte first.
WidthOf(value) ==
  IF value < VALUE_MIN_W1 THEN 0
  ELSE IF value < VALUE_MIN_W2 THEN 1
  ELSE IF value < VALUE_MIN_W4 THEN 2
  ELSE IF value < VALUE_MIN_W8 THEN 4
  ELSE MAX_WIDTH

BytesOf(token) == [i \in 1 .. 1 + token.width |-> [token |-> token, at |-> i - 1]]
cbor_writeToken(type, value) ==
  BytesOf([type |-> type, value |-> value, width |-> WidthOf(value)])

\* The token at place i has a value its width can hold; its bytes, and what belongs
\* to a byte string, follow unless they are cut, and then another token begins.
TokenAt(bytes, i) ==
  LET t == bytes[i].token
      after == i + 1 + t.width
  IN /\ WidthOf(t.value) <= t.width
     /\ \A j \in DOMAIN bytes \cap (i .. i + t.width) : bytes[j] = [token |-> t, at |-> j - i]
     /\ after \in DOMAIN bytes => bytes[after].at = 0
     /\ t.type = "BYTES" =>
          \A j \in DOMAIN bytes \cap (after .. after + t.value - 1) : bytes[j] = Content

\* What sequences of bytes there are, read from the first one on: token after token.
Coherent(bytes) ==
  /\ bytes # <<>> => bytes[1].at = 0
  /\ \A i \in DOMAIN bytes : bytes[i].at = 0 => TokenAt(bytes, i)

INDEF == cbor_writeToken("ARRAY_INDEF", 0)
END_INDEF == cbor_writeToken("INDEF_END", 0)

EncodeAddress(size) ==
  cbor_writeToken("TAG", CBOR_TAG_EMBEDDED_CBOR_BYTE_STRING)
    \o cbor_writeToken("BYTES", size) \o [i \in 1 .. size |-> Content]

EncodeInput(size) ==
  cbor_writeToken("ARRAY", 2) \o cbor_writeToken("UNSIGNED", 0) \o EncodeAddress(size)

EncodeOutput(output) ==
  cbor_writeToken("ARRAY", 2)
    \o cbor_writeToken("ARRAY", 2) \o EncodeAddress(output.address)
    \o cbor_writeToken("UNSIGNED", output.checksum)
    \o cbor_writeToken("UNSIGNED", output.amount)

EncodeAll(Encode(_), elements) == FlattenSeq([i \in DOMAIN elements |-> Encode(elements[i])])

EncodeTx(tx) ==
  cbor_writeToken("ARRAY", 3)
    \o INDEF \o EncodeAll(EncodeInput, tx.inputs) \o END_INDEF
    \o INDEF \o EncodeAll(EncodeOutput, tx.outputs) \o END_INDEF
    \o cbor_writeToken("MAP", 0)

\* The output that is asked for exists and has an amount the device accepts.
Attestable(tx, index) ==
  /\ index < Len(tx.outputs)
  /\ tx.outputs[index + 1].amount <= LOVELACE_MAX_SUPPLY
=============================================================================
