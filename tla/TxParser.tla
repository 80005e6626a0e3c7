------------------------------ MODULE TxParser ------------------------------
(***************************************************************************)
(* The incremental CBOR parser of attestUtxo.c, with its byte stream       *)
(* (stream.c) and the tokens it reads (cbor.c).                            *)
(*                                                                         *)
(* A transaction arrives in chunks cut anywhere.  The parser takes one     *)
(* token at a time from the bytes it has and throws ERR_NOT_ENOUGH_INPUT   *)
(* when the next one is not complete; it then goes on where it was when    *)
(* the next chunk has been appended.                                       *)
(*                                                                         *)
(* A byte of a token is [token, at]: which token it belongs to, and its    *)
(* place in it.  The content of a byte string is made of bytes of the      *)
(* pseudo-token Content, which no parser state ever looks into.            *)
(*                                                                         *)
(* Two counters have no width here.  The program stops by an ASSERT when   *)
(* its 32-bit streamPos, which nothing reads, would wrap, and counts       *)
(* outputs modulo 2^32: a stream is taken to be shorter than 2^32 bytes.   *)
(***************************************************************************)
EXTENDS Naturals, Sequences

CONSTANTS
  STREAM_BUFFER_SIZE,           \* stream.h
  LOVELACE_MAX_SUPPLY,          \* cardano.h
  VALUE_MIN_W1, VALUE_MIN_W2,   \* cbor.c: least value that needs this many bytes
  VALUE_MIN_W4, VALUE_MIN_W8

ASSUME WidthsAssumption ==
  /\ {VALUE_MIN_W1, VALUE_MIN_W2, VALUE_MIN_W4, VALUE_MIN_W8} \subseteq Nat
  /\ 0 < VALUE_MIN_W1 /\ VALUE_MIN_W1 < VALUE_MIN_W2
  /\ VALUE_MIN_W2 < VALUE_MIN_W4 /\ VALUE_MIN_W4 < VALUE_MIN_W8

ASSUME ParserAssumption ==
  /\ STREAM_BUFFER_SIZE \in Nat
  /\ LOVELACE_MAX_SUPPLY \in Nat

OK == "SUCCESS"
ERR_NOT_ENOUGH_INPUT == "ERR_NOT_ENOUGH_INPUT"
ERR_UNEXPECTED_TOKEN == "ERR_UNEXPECTED_TOKEN"
ERR_DATA_TOO_LARGE == "ERR_DATA_TOO_LARGE"
ASSERT_STREAM_STATE == "ASSERT_STREAM_STATE" \* stream.c: checkState and stream space
ASSERT_PARSER_STATE == "ASSERT_PARSER_STATE" \* attestUtxo.c: ASSERT(false)

-----------------------------------------------------------------------------
(***************************************************************************)
(* cbor.c.  A token has a type, a value and the width of the value: the    *)
(* number of bytes that follow the first one.  Types the parser does not   *)
(* know, and lengths that are not CBOR, are UNSUPPORTED.                   *)
(***************************************************************************)
MAX_WIDTH == 8
TokenTypes == {"UNSIGNED", "BYTES", "ARRAY", "MAP", "TAG", "ARRAY_INDEF", "INDEF_END"}
Token == [type: TokenTypes \cup {"UNSUPPORTED", "CONTENT"}, value: Nat,
          width: {0, 1, 2, 4, MAX_WIDTH}]
Byte == [token: Token, at: 0 .. MAX_WIDTH]

Content == [token |-> [type |-> "CONTENT", value |-> 0, width |-> 0], at |-> 0]

CBOR_TAG_EMBEDDED_CBOR_BYTE_STRING == 24

\* limit_min of a width: values below it would fit in fewer bytes (and a limit that
\* excludes the least value).
LimitMin_TooHigh(width) ==
  CASE width = 0 -> 0
    [] width = 1 -> VALUE_MIN_W1 + 1
    [] width = 2 -> VALUE_MIN_W2 + 1
    [] width = 4 -> VALUE_MIN_W4 + 1
    [] width = MAX_WIDTH -> VALUE_MIN_W8 + 1

LimitMin(width) ==
  CASE width = 0 -> 0
    [] width = 1 -> VALUE_MIN_W1
    [] width = 2 -> VALUE_MIN_W2
    [] width = 4 -> VALUE_MIN_W4
    [] width = MAX_WIDTH -> VALUE_MIN_W8

\* ENSURE_AVAILABLE_BYTES (and one that asks for a byte too many).
HasBytes_OffByOne(bytes, n) == n < Len(bytes)
HasBytes(bytes, n) == n <= Len(bytes)

\* What cbor_parseToken throws on the bytes at the head of the stream.
cbor_parseError(bytes) ==
  IF bytes = <<>> THEN ERR_NOT_ENOUGH_INPUT
  ELSE LET t == Head(bytes).token
       IN IF t.type \notin TokenTypes THEN ERR_UNEXPECTED_TOKEN
          ELSE IF ~HasBytes(bytes, 1 + t.width) THEN ERR_NOT_ENOUGH_INPUT
          ELSE IF t.value < LimitMin(t.width) THEN ERR_UNEXPECTED_TOKEN
          ELSE OK

-----------------------------------------------------------------------------
(***************************************************************************)
(* The parser state.  `unread` is what stream_head points to, `bufferPos`  *)
(* the number of bytes before it that have been consumed.                  *)
(***************************************************************************)
MainStates ==
  {"none", "NOT_STARTED", "EXPECT_TX_PREAMBLE", "EXPECT_INPUTS_PREAMBLE",
   "EXPECT_END_OR_INPUT", "IN_INPUT", "EXPECT_OUTPUTS_PREAMBLE",
   "EXPECT_END_OR_OUTPUT", "IN_OUTPUT", "EXPECT_METADATA_PREAMBLE", "FINISHED"}

InputStates ==
  {"none", "NOT_STARTED", "EXPECT_PREAMBLE", "EXPECT_TYPE", "EXPECT_TAG",
   "EXPECT_ADDRESS_DATA_PREAMBLE", "IN_ADDRESS_DATA", "FINISHED"}

OutputStates ==
  {"none", "NOT_STARTED", "EXPECT_PREAMBLE", "EXPECT_ADDRESS_PREAMBLE",
   "EXPECT_ADDRESS_TAG", "EXPECT_ADDRESS_DATA_PREAMBLE", "IN_ADDRESS_DATA",
   "EXPECT_ADDRESS_CHECKSUM", "EXPECT_AMOUNT", "FINISHED"}

\* LOVELACE_INVALID is no amount: here a number above the supply.
LOVELACE_INVALID == LOVELACE_MAX_SUPPLY + 1

ZeroParser ==
  [mainState |-> "none", inputState |-> "none", outputState |-> "none",
   unread |-> <<>>, bufferPos |-> 0, addressDataRemainingBytes |-> 0,
   currentOutputIndex |-> 0, attestedOutputIndex |-> 0, outputAmount |-> 0]

parser_init(outputIndex) ==
  [ZeroParser EXCEPT !.mainState = "NOT_STARTED", !.outputAmount = LOVELACE_INVALID,
                     !.attestedOutputIndex = outputIndex]

\* One step of the parser: the state it leaves, and what it throws, if anything.
Goes(p) == [error |-> OK, parser |-> p]
Throws(p, error) == [error |-> error, parser |-> p]

\* stream_advancePos (and one that advances before it knows it can).
stream_advancePos(p, n) ==
  [p EXCEPT !.unread = SubSeq(@, n + 1, Len(@)), !.bufferPos = @ + n]

\* stream_appendData, with the stream_shift in it (and without).
stream_shift_None(p) == p
stream_shift(p) == [p EXCEPT !.bufferPos = 0]

stream_appendData(p, bytes) ==
  LET shifted == stream_shift(p)
      end == shifted.bufferPos + Len(shifted.unread)
  IN IF Len(bytes) > STREAM_BUFFER_SIZE - Len(p.unread) THEN Throws(p, ERR_DATA_TOO_LARGE)
     ELSE IF end + Len(bytes) > STREAM_BUFFER_SIZE THEN Throws(shifted, ASSERT_STREAM_STATE)
     ELSE Goes([shifted EXCEPT !.unread = @ \o bytes])

\* cbor_takeToken and cbor_takeTokenWithValue: consume a token of this type and
\* a value in the domain of `next`, the state to go on in, or throw and consume
\* nothing (and one that consumes a byte of a token that is not complete).
Taken(p, type, next) ==
  LET t == Head(p.unread).token
  IN IF t.type # type \/ t.value \notin DOMAIN next THEN Throws(p, ERR_UNEXPECTED_TOKEN)
     ELSE Goes(stream_advancePos(next[t.value], 1 + t.width))

Take_NotAtomic(p, type, next) ==
  LET error == cbor_parseError(p.unread)
  IN IF error = OK THEN Taken(p, type, next)
     ELSE IF p.unread = <<>> THEN Throws(p, error)
     ELSE Throws(stream_advancePos(p, 1), error)

Take(p, type, next) ==
  LET error == cbor_parseError(p.unread)
  IN IF error # OK THEN Throws(p, error) ELSE Taken(p, type, next)

-----------------------------------------------------------------------------
(***************************************************************************)
(* parser_skipThroughAddressBytes and the three state machines.  Where the *)
(* code says TRANSITION_TO, the step ends in the next state.               *)
(***************************************************************************)
SmallerOf(m, n) == IF m < n THEN m ELSE n

\* Without stream_ensureAvailableBytes(stream, 1) the step might consume nothing.
parser_skipThroughAddressBytes_OrNone(p) ==
  LET n == SmallerOf(Len(p.unread), p.addressDataRemainingBytes)
  IN Goes([stream_advancePos(p, n) EXCEPT !.addressDataRemainingBytes = @ - n])

parser_skipThroughAddressBytes(p) ==
  LET n == SmallerOf(Len(p.unread), p.addressDataRemainingBytes)
  IN IF p.unread = <<>> THEN Throws(p, ERR_NOT_ENOUGH_INPUT)
     ELSE Goes([stream_advancePos(p, n) EXCEPT !.addressDataRemainingBytes = @ - n])

\* Array(2)[ Unsigned[0], Tag(24):Bytes[utxo cbor] ]
parser_advanceInputState(p) ==
  LET To(next) == [p EXCEPT !.inputState = next]
      state == p.inputState
  IN CASE state = "NOT_STARTED" -> Goes(To("EXPECT_PREAMBLE"))
       [] state = "EXPECT_PREAMBLE" -> Take(p, "ARRAY", [v \in {2} |-> To("EXPECT_TYPE")])
       [] state = "EXPECT_TYPE" -> Take(p, "UNSIGNED", [v \in {0} |-> To("EXPECT_TAG")])
       [] state = "EXPECT_TAG" ->
            Take(p, "TAG",
                 [v \in {CBOR_TAG_EMBEDDED_CBOR_BYTE_STRING} |-> To("EXPECT_ADDRESS_DATA_PREAMBLE")])
       [] state = "EXPECT_ADDRESS_DATA_PREAMBLE" ->
            Take(p, "BYTES",
                 [v \in Nat |-> [To("IN_ADDRESS_DATA") EXCEPT !.addressDataRemainingBytes = v]])
       [] state = "IN_ADDRESS_DATA" ->
            IF p.addressDataRemainingBytes # 0
            THEN parser_skipThroughAddressBytes(p) ELSE Goes(To("FINISHED"))
       [] OTHER -> Throws(p, ASSERT_PARSER_STATE)

\* The amount of the output that is asked for is kept.
IsAttested(p) == p.currentOutputIndex = p.attestedOutputIndex

\* Array(2)[ Array(2)[ Tag(24):Bytes[raw address], Unsigned[checksum] ], Unsigned[amount] ]
parser_advanceOutputState(p) ==
  LET To(next) == [p EXCEPT !.outputState = next]
      state == p.outputState
  IN CASE state = "NOT_STARTED" -> Goes(To("EXPECT_PREAMBLE"))
       [] state = "EXPECT_PREAMBLE" ->
            Take(p, "ARRAY", [v \in {2} |-> To("EXPECT_ADDRESS_PREAMBLE")])
       [] state = "EXPECT_ADDRESS_PREAMBLE" ->
            Take(p, "ARRAY", [v \in {2} |-> To("EXPECT_ADDRESS_TAG")])
       [] state = "EXPECT_ADDRESS_TAG" ->
            Take(p, "TAG",
                 [v \in {CBOR_TAG_EMBEDDED_CBOR_BYTE_STRING} |-> To("EXPECT_ADDRESS_DATA_PREAMBLE")])
       [] state = "EXPECT_ADDRESS_DATA_PREAMBLE" ->
            Take(p, "BYTES",
                 [v \in Nat |-> [To("IN_ADDRESS_DATA") EXCEPT !.addressDataRemainingBytes = v]])
       [] state = "IN_ADDRESS_DATA" ->
            IF p.addressDataRemainingBytes # 0
            THEN parser_skipThroughAddressBytes(p) ELSE Goes(To("EXPECT_ADDRESS_CHECKSUM"))
       [] state = "EXPECT_ADDRESS_CHECKSUM" ->
            Take(p, "UNSIGNED", [v \in Nat |-> To("EXPECT_AMOUNT")])
       [] state = "EXPECT_AMOUNT" ->
            Take(p, "UNSIGNED",
                 [v \in Nat |-> [To("FINISHED") EXCEPT
                                      !.outputAmount = IF IsAttested(p) THEN v ELSE @]])
       [] OTHER -> Throws(p, ASSERT_PARSER_STATE)

\* cbor_peekNextIsIndefEnd: the end of an indefinite array, or another element.
EndOrElement(p, End, Element) ==
  LET error == cbor_parseError(p.unread)
  IN IF error # OK THEN Throws(p, error)
     ELSE IF Head(p.unread).token.type = "INDEF_END"
          THEN Take(p, "INDEF_END", [v \in {0} |-> End])
     ELSE Goes(Element)

parser_advanceMainState(p) ==
  LET To(next) == [p EXCEPT !.mainState = next]
      state == p.mainState
  IN CASE state = "NOT_STARTED" -> Goes(To("EXPECT_TX_PREAMBLE"))
       [] state = "EXPECT_TX_PREAMBLE" ->
            Take(p, "ARRAY", [v \in {3} |-> To("EXPECT_INPUTS_PREAMBLE")])
       [] state = "EXPECT_INPUTS_PREAMBLE" ->
            Take(p, "ARRAY_INDEF", [v \in {0} |-> To("EXPECT_END_OR_INPUT")])
       [] state = "EXPECT_END_OR_INPUT" ->
            EndOrElement(p, To("EXPECT_OUTPUTS_PREAMBLE"),
                         [To("IN_INPUT") EXCEPT !.inputState = "NOT_STARTED"])
       [] state = "IN_INPUT" ->
            IF p.inputState # "FINISHED"
            THEN parser_advanceInputState(p) ELSE Goes(To("EXPECT_END_OR_INPUT"))
       [] state = "EXPECT_OUTPUTS_PREAMBLE" ->
            Take(p, "ARRAY_INDEF",
                 [v \in {0} |-> [To("EXPECT_END_OR_OUTPUT") EXCEPT !.currentOutputIndex = 0]])
       [] state = "EXPECT_END_OR_OUTPUT" ->
            EndOrElement(p, To("EXPECT_METADATA_PREAMBLE"),
                         [To("IN_OUTPUT") EXCEPT !.outputState = "NOT_STARTED"])
       [] state = "IN_OUTPUT" ->
            IF p.outputState # "FINISHED"
            THEN parser_advanceOutputState(p)
            ELSE Goes([To("EXPECT_END_OR_OUTPUT") EXCEPT !.currentOutputIndex = @ + 1])
       [] state = "EXPECT_METADATA_PREAMBLE" ->
            Take(p, "MAP", [v \in {0} |-> To("FINISHED")])
       [] OTHER -> Throws(p, ASSERT_PARSER_STATE)

\* parser_getAttestedAmount (and one that does not look at the supply).
parser_getAttestedAmount_AnyAmount(p) ==
  IF p.mainState # "FINISHED" \/ p.currentOutputIndex <= p.attestedOutputIndex
  THEN LOVELACE_INVALID ELSE p.outputAmount
parser_getAttestedAmount(p) ==
  IF \/ p.mainState # "FINISHED"
     \/ p.currentOutputIndex <= p.attestedOutputIndex
     \/ p.outputAmount > LOVELACE_MAX_SUPPLY
  THEN LOVELACE_INVALID ELSE p.outputAmount

\* The types of attest_utxo_parser_state_t.
Parser ==
  [mainState: MainStates, inputState: InputStates, outputState: OutputStates,
   unread: Seq(Byte), bufferPos: Nat, addressDataRemainingBytes: Nat,
   currentOutputIndex: Nat, attestedOutputIndex: Nat, outputAmount: Nat]
=============================================================================
