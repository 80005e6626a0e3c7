------------------------ MODULE AttestUtxoInvariant ------------------------
(***************************************************************************)
(* The inductive invariants behind the safety properties of AttestUtxo: at *)
(* every step of the parser what has been hashed is the encoding of what   *)
(* the parser has read so far, up to the state it is in, followed by what  *)
(* it has not read yet; and if a transaction begins with what has been     *)
(* hashed, the parser has the rest of that transaction before it.          *)
(***************************************************************************)
EXTENDS AttestUtxo

\* The inputs and outputs a transaction may have.
Output == [address: Nat, checksum: Nat, amount: Nat]
InputLists == Seq(Nat)
OutputLists == Seq(Output)
AllTransactions == [inputs: InputLists, outputs: OutputLists]

\* Transactions leaves none out that the host can send: when a stream begins with
\* the encoding of a transaction, that is one of Transactions.
TransactionsAreAll ==
  \A tx \in AllTransactions, s \in Streams :
    IsPrefix(EncodeTx(tx), s) => tx \in Transactions

-----------------------------------------------------------------------------
(***************************************************************************)
(* What has been read of an element, of address data and of the whole.     *)
(***************************************************************************)
Array(n) == cbor_writeToken("ARRAY", n)
Unsigned(n) == cbor_writeToken("UNSIGNED", n)
Tag == cbor_writeToken("TAG", CBOR_TAG_EMBEDDED_CBOR_BYTE_STRING)
Contents(n) == [i \in 1 .. n |-> Content]

\* Of address data of this size, with so much of it still to come.
AddressRead(size, remaining) ==
  Tag \o cbor_writeToken("BYTES", size) \o Contents(size - remaining)

\* Of an input of which `size` is the size of its address data.
InputRead(p, size) ==
  LET state == p.inputState
  IN CASE state \in {"none", "NOT_STARTED", "EXPECT_PREAMBLE"} -> <<>>
       [] state = "EXPECT_TYPE" -> Array(2)
       [] state = "EXPECT_TAG" -> Array(2) \o Unsigned(0)
       [] state = "EXPECT_ADDRESS_DATA_PREAMBLE" -> Array(2) \o Unsigned(0) \o Tag
       [] state = "IN_ADDRESS_DATA" ->
            Array(2) \o Unsigned(0) \o AddressRead(size, p.addressDataRemainingBytes)
       [] state = "FINISHED" -> EncodeInput(size)

\* Of an output.
OutputRead(p, o) ==
  LET state == p.outputState
      head == Array(2) \o Array(2)
      addressed == head \o EncodeAddress(o.address)
  IN CASE state \in {"none", "NOT_STARTED", "EXPECT_PREAMBLE"} -> <<>>
       [] state = "EXPECT_ADDRESS_PREAMBLE" -> Array(2)
       [] state = "EXPECT_ADDRESS_TAG" -> head
       [] state = "EXPECT_ADDRESS_DATA_PREAMBLE" -> head \o Tag
       [] state = "IN_ADDRESS_DATA" ->
            head \o AddressRead(o.address, p.addressDataRemainingBytes)
       [] state = "EXPECT_ADDRESS_CHECKSUM" -> addressed
       [] state = "EXPECT_AMOUNT" -> addressed \o Unsigned(o.checksum)
       [] state = "FINISHED" -> EncodeOutput(o)

\* Up to the end of these inputs, and of these outputs.
InputsRead(ins) == Array(3) \o INDEF \o EncodeAll(EncodeInput, ins)
OutputsRead(ins, outs) ==
  InputsRead(ins) \o END_INDEF \o INDEF \o EncodeAll(EncodeOutput, outs)

\* What a parser may have read: these inputs and outputs, and `input` or `output`
\* as far as it is.
SoFar == [inputs: InputLists, outputs: OutputLists, input: Nat, output: Output]

\* Of the transaction.
Read(p, r) ==
  LET state == p.mainState
      inputs == InputsRead(r.inputs)
      outputs == OutputsRead(r.inputs, r.outputs)
  IN CASE state \in {"none", "NOT_STARTED", "EXPECT_TX_PREAMBLE"} -> <<>>
       [] state = "EXPECT_INPUTS_PREAMBLE" -> Array(3)
       [] state = "EXPECT_END_OR_INPUT" -> inputs
       [] state = "IN_INPUT" -> inputs \o InputRead(p, r.input)
       [] state = "EXPECT_OUTPUTS_PREAMBLE" -> inputs \o END_INDEF
       [] state = "EXPECT_END_OR_OUTPUT" -> outputs
       [] state = "IN_OUTPUT" -> outputs \o OutputRead(p, r.output)
       [] state = "EXPECT_METADATA_PREAMBLE" -> outputs \o END_INDEF
       [] state = "FINISHED" -> EncodeTx([inputs |-> r.inputs, outputs |-> r.outputs])

\* The outputs are counted, and the amount of the one that is asked for is kept.
AmountsRead(p, r) ==
  LET state == p.mainState
      index == p.attestedOutputIndex
  IN /\ state \in {"EXPECT_END_OR_OUTPUT", "IN_OUTPUT", "EXPECT_METADATA_PREAMBLE",
                   "FINISHED"} =>
          /\ p.currentOutputIndex = Len(r.outputs)
          /\ index < Len(r.outputs) => p.outputAmount = r.outputs[index + 1].amount
     /\ state = "IN_OUTPUT" /\ p.outputState = "FINISHED" /\ index = Len(r.outputs) =>
          p.outputAmount = r.output.amount

\* In address data: what remains of this size is ahead.
ContentAhead(p, size, ahead) ==
  /\ p.addressDataRemainingBytes <= size
  /\ \A j \in DOMAIN ahead : j <= p.addressDataRemainingBytes => ahead[j] = Content

AddressAhead(p, r, ahead) ==
  /\ p.mainState = "IN_INPUT" /\ p.inputState = "IN_ADDRESS_DATA" =>
       ContentAhead(p, r.input, ahead)
  /\ p.mainState = "IN_OUTPUT" /\ p.outputState = "IN_ADDRESS_DATA" =>
       ContentAhead(p, r.output.address, ahead)

\* Parser p has read all of `bytes` but what it has not read yet; `ahead` is that
\* and what is still to be sent.
HasRead(p, bytes, ahead) ==
  \E r \in SoFar :
    /\ bytes = Read(p, r) \o p.unread
    /\ AmountsRead(p, r)
    /\ AddressAhead(p, r, ahead)

\* The machine of an element has been started before it is run.
Started(p) ==
  /\ p.mainState # "none"
  /\ p.mainState = "IN_INPUT" => p.inputState # "none"
  /\ p.mainState = "IN_OUTPUT" => p.outputState # "none"

-----------------------------------------------------------------------------
\* A call that does not end with the answer under transmission, if any.
InCall == currentInstruction = ATTEST_UTXO /\ reply.then # "idle"

\* The device never resets; in a call the context is that of this call.
ControlInv ==
  /\ On
  /\ ~Sending => reply = NoReply
  /\ parsing => InCall /\ ~Sending
  /\ InCall => magic
  /\ InCall /\ ~parsing => parser.mainState # "FINISHED"

\* How far the parser is.
ParserInv ==
  InCall =>
    /\ Started(parser)
    /\ hashed \o toSend \in Streams
    /\ Coherent(parser.unread \o toSend)
    /\ HasRead(parser, hashed, parser.unread \o toSend)

\* A certificate is about a transaction that a stream begins with.
CertificateInv ==
  Sending /\ reply.data.kind = "certificate" =>
    \E tx \in AllTransactions :
      /\ reply.data.hash = EncodeTx(tx)
      /\ Attestable(tx, reply.data.index)
      /\ reply.data.amount = tx.outputs[reply.data.index + 1].amount
      /\ \E s \in Streams : IsPrefix(EncodeTx(tx), s)

\* The inductive invariant.
Inv ==
  /\ TypeOK
  /\ ControlInv
  /\ ParserInv
  /\ LeftoverIsPartialToken
  /\ CertificateInv

-----------------------------------------------------------------------------
(***************************************************************************)
(* The same from the other side: when what has been hashed is the          *)
(* beginning of a transaction, what the parser has not read yet and the    *)
(* remaining bytes of that transaction are what the state the parser is in *)
(* goes on with.                                                           *)
(***************************************************************************)

\* The elements of a transaction as they are sent, and those after the first k.
Inputs(tx) == [i \in DOMAIN tx.inputs |-> EncodeInput(tx.inputs[i])]
Outputs(tx) == [i \in DOMAIN tx.outputs |-> EncodeOutput(tx.outputs[i])]
After(elements, k) == FlattenSeq(SubSeq(elements, k + 1, Len(elements)))

\* From behind the first k outputs, and the first k inputs, to the end.
OutputsToCome(tx, k) ==
  After(Outputs(tx), k) \o (END_INDEF \o cbor_writeToken("MAP", 0))
InputsToCome(tx, k) ==
  After(Inputs(tx), k) \o (END_INDEF \o (INDEF \o OutputsToCome(tx, 0)))

AddressToCome(size, next) ==
  Tag \o (cbor_writeToken("BYTES", size) \o (Contents(size) \o next))

\* From the state of an input of this size, and of an output, up to `next`, what
\* comes after it.
InputToCome(p, size, next) ==
  LET state == p.inputState
      address == AddressToCome(size, next)
  IN CASE state \in {"none", "NOT_STARTED", "EXPECT_PREAMBLE"} ->
            Array(2) \o (Unsigned(0) \o address)
       [] state = "EXPECT_TYPE" -> Unsigned(0) \o address
       [] state = "EXPECT_TAG" -> address
       [] state = "EXPECT_ADDRESS_DATA_PREAMBLE" ->
            cbor_writeToken("BYTES", size) \o (Contents(size) \o next)
       [] state = "IN_ADDRESS_DATA" -> Contents(p.addressDataRemainingBytes) \o next
       [] state = "FINISHED" -> next

OutputToCome(p, o, next) ==
  LET state == p.outputState
      amount == Unsigned(o.amount) \o next
      checksum == Unsigned(o.checksum) \o amount
      address == AddressToCome(o.address, checksum)
  IN CASE state \in {"none", "NOT_STARTED", "EXPECT_PREAMBLE"} ->
            Array(2) \o (Array(2) \o address)
       [] state = "EXPECT_ADDRESS_PREAMBLE" -> Array(2) \o address
       [] state = "EXPECT_ADDRESS_TAG" -> address
       [] state = "EXPECT_ADDRESS_DATA_PREAMBLE" ->
            cbor_writeToken("BYTES", o.address) \o (Contents(o.address) \o checksum)
       [] state = "IN_ADDRESS_DATA" -> Contents(p.addressDataRemainingBytes) \o checksum
       [] state = "EXPECT_ADDRESS_CHECKSUM" -> checksum
       [] state = "EXPECT_AMOUNT" -> amount
       [] state = "FINISHED" -> next

\* From the state of the parser, which has i inputs of the transaction behind it.
ToCome(p, tx, i) ==
  LET state == p.mainState
      k == p.currentOutputIndex
  IN CASE state \in {"none", "NOT_STARTED", "EXPECT_TX_PREAMBLE"} ->
            Array(3) \o (INDEF \o InputsToCome(tx, 0))
       [] state = "EXPECT_INPUTS_PREAMBLE" -> INDEF \o InputsToCome(tx, 0)
       [] state = "EXPECT_END_OR_INPUT" -> InputsToCome(tx, i)
       [] state = "IN_INPUT" ->
            InputToCome(p, tx.inputs[i + 1], InputsToCome(tx, i + 1))
       [] state = "EXPECT_OUTPUTS_PREAMBLE" -> INDEF \o OutputsToCome(tx, 0)
       [] state = "EXPECT_END_OR_OUTPUT" -> OutputsToCome(tx, k)
       [] state = "IN_OUTPUT" ->
            OutputToCome(p, tx.outputs[k + 1], OutputsToCome(tx, k + 1))
       [] state = "EXPECT_METADATA_PREAMBLE" -> cbor_writeToken("MAP", 0)
       [] state = "FINISHED" -> <<>>

\* The output it is at is one there is, and it has kept the amount it is asked for.
OutputAt(p, tx) ==
  LET state == p.mainState
      index == p.attestedOutputIndex
      k == p.currentOutputIndex
  IN /\ state \in {"EXPECT_END_OR_OUTPUT", "IN_OUTPUT", "EXPECT_METADATA_PREAMBLE",
                   "FINISHED"} =>
          /\ k <= Len(tx.outputs)
          /\ index < k => p.outputAmount = tx.outputs[index + 1].amount
     /\ state = "IN_OUTPUT" =>
          /\ k < Len(tx.outputs)
          /\ p.outputState = "FINISHED" /\ index = k =>
               p.outputAmount = tx.outputs[k + 1].amount
     /\ state \in {"EXPECT_METADATA_PREAMBLE", "FINISHED"} => k = Len(tx.outputs)

\* Parser p is on the way through the transaction, of which `more` is to be sent.
OnTheWay(p, tx, i, more) ==
  /\ i <= Len(tx.inputs)
  /\ p.mainState = "IN_INPUT" => i < Len(tx.inputs)
  /\ OutputAt(p, tx)
  /\ p.unread \o more = ToCome(p, tx, i)

\* Whatever transaction the bytes are the beginning of, the parser is on its way.
OnTheWayInv ==
  InCall =>
    \A tx \in AllTransactions, more \in Seq(Byte) :
      hashed \o more = EncodeTx(tx) => \E i \in Nat : OnTheWay(parser, tx, i, more)

\* The answers, about any transaction.
RefusalInv ==
  Answered /\ reply.code = ERR_INVALID_DATA =>
    \A tx \in AllTransactions :
      Attestable(tx, parser.attestedOutputIndex) => ~IsPrefix(hashed, EncodeTx(tx))

AskingInv ==
  Answered /\ reply.code = SUCCESS /\ reply.data = NoData =>
    \A tx \in AllTransactions : hashed # EncodeTx(tx)

\* What is inductive together with Inv.
AnswersInv == OnTheWayInv /\ RefusalInv /\ AskingInv
=============================================================================
