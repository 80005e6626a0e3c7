----------------------------- MODULE AttestUtxo -----------------------------
(***************************************************************************)
(* INS 0x20, attestUtxo.c: the host streams a transaction, in chunks cut   *)
(* anywhere, and obtains a certificate that binds the hash of it, the      *)
(* index of one output and the amount of that output.                      *)
(*                                                                         *)
(* A P1 = 2 APDU is one handler run, but its parser loop may take any      *)
(* number of steps; here each of them is a step of its own, between which  *)
(* nothing else happens: the application waits nowhere in the loop.        *)
(***************************************************************************)
EXTENDS Platform, TxEncoding

CONSTANTS
  Transactions, \* transactions there are
  Streams,   \* byte sequences the host may set out to send
  MaxChunk,  \* bytes of data in an APDU at most: 255
  Indexes    \* output numbers the host may ask for

ASSUME ChunksAssumption ==
  /\ Transactions \subseteq
       [inputs: Seq(Nat), outputs: Seq([address: Nat, checksum: Nat, amount: Nat])]
  /\ Streams \subseteq Seq(Byte)
  /\ \A s \in Streams : Coherent(s)
  /\ Indexes \subseteq Nat
  /\ MaxChunk \in Nat
  /\ MaxChunk + MAX_WIDTH <= STREAM_BUFFER_SIZE

VARIABLES
  parser,   \* instructionState.attestUtxoContext.parserState
  magic,    \* whether initializedMagic is set
  hashed,   \* bytes appended to txHashCtx
  parsing,  \* the handler is in parser_keepParsing
  toSend    \* of the host: the bytes it has yet to send in this call

attestVars == <<parser, magic, hashed, parsing, toSend>>
vars == <<platformVars, attestVars>>

ATTEST_UTXO == "ATTEST_UTXO"
ASSERT_MAGIC == "ASSERT_MAGIC" \* initializedMagic == ATTEST_INIT_MAGIC

Certificate == [kind |-> "certificate", hash |-> hashed,
                index |-> parser.attestedOutputIndex,
                amount |-> parser_getAttestedAmount(parser)]

-----------------------------------------------------------------------------
(***************************************************************************)
(* attestUTxO_handleAPDU.                                                  *)
(***************************************************************************)
\* What cardano_main does to the context before the handler of a new call.
CallContext ==
  IF IsNewCall THEN parser' = ZeroParser /\ magic' = FALSE /\ hashed' = <<>>
  ELSE UNCHANGED <<parser, magic, hashed>>

Refused(error) ==
  /\ Throw(ATTEST_UTXO, error)
  /\ CallContext
  /\ UNCHANGED <<parsing, toSend>>

\* P1 = 1, and what it validates once the call is known to be new.
InitError(p2, sizeOk) ==
  IF p2 # 0 THEN ERR_INVALID_REQUEST_PARAMETERS
  ELSE IF ~sizeOk THEN ERR_INVALID_DATA
  ELSE OK

HandleInit(p2, sizeOk, index, stream) ==
  LET accepted == InitError(p2, sizeOk) = OK
  IN /\ Accepts(ATTEST_UTXO)
     /\ ~parsing
     /\ IF ~IsNewCall THEN Refused(ERR_INVALID_STATE)
        ELSE /\ parser' = IF accepted THEN parser_init(index) ELSE ZeroParser
             /\ magic' = accepted
             /\ hashed' = <<>>
             /\ toSend' = stream
             /\ parsing' = FALSE
             /\ IF accepted THEN Respond(ATTEST_UTXO, SUCCESS, NoData, "busy")
                ELSE Throw(ATTEST_UTXO, InitError(p2, sizeOk))

\* P1 = 2, with the next bytes of the stream: what is thrown before the parser is
\* entered, of which ERR_DATA_TOO_LARGE has no CATCH.
DataError(p2, chunk) ==
  IF IsNewCall THEN ERR_INVALID_STATE
  ELSE IF ~magic THEN ASSERT_MAGIC
  ELSE IF p2 # 0 THEN ERR_INVALID_REQUEST_PARAMETERS
  ELSE stream_appendData(parser, chunk).error

HandleData(p2, n) ==
  LET chunk == SubSeq(toSend, 1, n)
  IN /\ Accepts(ATTEST_UTXO)
     /\ ~parsing
     /\ n <= Len(toSend)
     /\ IF DataError(p2, chunk) # OK THEN Refused(DataError(p2, chunk))
        ELSE /\ parser' = stream_appendData(parser, chunk).parser
             /\ hashed' = hashed \o chunk
             /\ toSend' = SubSeq(toSend, n + 1, Len(toSend))
             /\ parsing' = TRUE
             /\ ioState' = IoStateInside
             /\ awaiting' = TRUE
             /\ UNCHANGED <<crashed, currentInstruction, display, reply, locked, magic>>

\* An unknown P1: not the first of a call, and not one of the switch either.
HandleUnknownP1 ==
  /\ Accepts(ATTEST_UTXO)
  /\ ~parsing
  /\ Refused(IF IsNewCall THEN ERR_INVALID_STATE ELSE ERR_INVALID_REQUEST_PARAMETERS)

\* A turn of the loop of parser_keepParsing.  What it throws ends the loop: not
\* enough input is answered and the call goes on, an unexpected token is an error.
KeepParsing ==
  LET step == parser_advanceMainState(parser)
  IN /\ parsing
     /\ parser.mainState # "FINISHED"
     /\ parser' = step.parser
     /\ UNCHANGED <<magic, hashed, toSend>>
     /\ parsing' = (step.error = OK)
     /\ CASE step.error = OK -> UNCHANGED platformVars
          [] step.error = ERR_NOT_ENOUGH_INPUT ->
               Respond(ATTEST_UTXO, SUCCESS, NoData, "nothing")
          [] step.error = ERR_UNEXPECTED_TOKEN -> Throw(ATTEST_UTXO, ERR_INVALID_DATA)
          [] OTHER -> Throw(ATTEST_UTXO, step.error)

\* Whether bytes are left after the transaction (and a check that is missing).
NothingLeft_Unchecked(p) == TRUE
NothingLeft(p) == p.unread = <<>>

\* The loop is over: attestUtxo_sendResponse.
Finish ==
  /\ parsing
  /\ parser.mainState = "FINISHED"
  /\ parsing' = FALSE
  /\ UNCHANGED <<parser, magic, hashed, toSend>>
  /\ IF NothingLeft(parser) /\ parser_getAttestedAmount(parser) # LOVELACE_INVALID
     THEN Respond(ATTEST_UTXO, SUCCESS, Certificate, "idle")
     ELSE Throw(ATTEST_UTXO, ERR_INVALID_DATA)

\* io_send_buf returns; ui_displayBusy, ui_idle or nothing follows.
SendDone == Transmitted(reply.then) /\ UNCHANGED attestVars

PlatformStep ==
  /\ ~parsing
  /\ RejectApdu \/ LockDevice \/ UnlockDevice
  /\ UNCHANGED attestVars

\* EXCEPTION_IO_RESET from a wait, or the user opening the application again.
StartOver ==
  /\ ~parsing
  /\ IoReset \/ Restart
  /\ toSend' = <<>>
  /\ UNCHANGED <<parser, magic, hashed, parsing>>

Init ==
  /\ PlatformInit
  /\ parser = ZeroParser
  /\ magic = FALSE
  /\ hashed = <<>>
  /\ parsing = FALSE
  /\ toSend = <<>>

Next ==
  \/ \E p2 \in {0, 1}, sizeOk \in BOOLEAN, i \in Indexes, s \in Streams :
       HandleInit(p2, sizeOk, i, s)
  \/ \E p2 \in {0, 1}, n \in 0 .. MaxChunk : HandleData(p2, n)
  \/ HandleUnknownP1
  \/ KeepParsing
  \/ Finish
  \/ SendDone
  \/ PlatformStep
  \/ StartOver

Spec == Init /\ [][Next]_vars

(***************************************************************************)
(* The processor goes on, and a transmission ends.                         *)
(***************************************************************************)
FairSpec == Spec /\ WF_vars(KeepParsing) /\ WF_vars(Finish) /\ WF_vars(SendDone)

-----------------------------------------------------------------------------
(***************************************************************************)
(* Types.                                                                  *)
(***************************************************************************)
HostCrashes == {ASSERT_IO_STATE}
InternalCrashes ==
  {ASSERT_MAGIC, ASSERT_PARSER_STATE, ASSERT_STREAM_STATE, ERR_DATA_TOO_LARGE}

CertificateData ==
  [kind: {"certificate"}, hash: Seq(Byte), index: Nat, amount: 0 .. LOVELACE_MAX_SUPPLY]

\* Every variable stays in its range; the parser never holds more bytes than its
\* buffer has.
TypeOK ==
  /\ crashed \in {NotCrashed} \cup HostCrashes \cup InternalCrashes
  /\ ioState \in {"IO", "NONE"}
  /\ currentInstruction \in {INS_NONE, ATTEST_UTXO}
  /\ display \in {Menu, BusyScreen}
  /\ reply \in [code: {NoCode, SUCCESS} \cup AutoRespond, data: {NoData} \cup CertificateData,
                then: {"none", "idle", "busy", "nothing"}]
  /\ locked \in BOOLEAN
  /\ awaiting \in BOOLEAN
  /\ parser \in Parser
  /\ parser.bufferPos + Len(parser.unread) <= STREAM_BUFFER_SIZE
  /\ magic \in BOOLEAN
  /\ hashed \in Seq(Byte)
  /\ parsing \in BOOLEAN
  /\ toSend \in Seq(Byte)

-----------------------------------------------------------------------------
(***************************************************************************)
(* Properties.                                                             *)
(***************************************************************************)

\* However the stream is cut, no assertion of the parser, of the stream or about
\* the context fails, and the buffer always has room for another APDU: less than
\* a token is ever left over (STREAM_BUFFER_SIZE against the size of an APDU).
InternalAssertionsHold == crashed \notin InternalCrashes

\* What waits for the next chunk is the beginning of one token, or nothing: a
\* token that is not complete is left as it was (cbor.c: "*consume* expected value,
\* or *throw* but not consume anything from the stream").
LeftoverIsPartialToken ==
  On /\ ~parsing /\ currentInstruction = ATTEST_UTXO /\ reply.then # "idle" =>
    \/ parser.unread = <<>>
    \/ LET t == parser.unread[1].token
       IN /\ t # Content.token
          /\ IsStrictPrefix(parser.unread, BytesOf(t))

\* A certificate is about a transaction: its hash is over the bytes of exactly
\* one, neither a prefix nor with anything after it, and index and amount are
\* those of one of its outputs (attestUtxo_sendResponse).
CertificateIsTrue ==
  Sending /\ reply.data.kind = "certificate" =>
    \E tx \in Transactions :
      /\ reply.data.hash = EncodeTx(tx)
      /\ Attestable(tx, reply.data.index)
      /\ reply.data.amount = tx.outputs[reply.data.index + 1].amount

\* The data handler has run and answers what follows from the parser.
Answered == Sending /\ magic /\ parser.mainState # "NOT_STARTED"

\* However a transaction is cut into chunks, it is not refused on the way.
RefusesOnlyOthers ==
  Answered /\ reply.code = ERR_INVALID_DATA =>
    \A tx \in Transactions :
      Attestable(tx, parser.attestedOutputIndex) => ~IsPrefix(hashed, EncodeTx(tx))

\* The host is asked for more only if there is more to come: once the last byte
\* has arrived the answer is final.
AsksOnlyForMore ==
  Answered /\ reply.code = SUCCESS /\ reply.data = NoData =>
    \A tx \in Transactions : hashed # EncodeTx(tx)

\* The parser loop ends, and every request is answered: none of the state machines
\* turns in a circle without consuming anything.
EveryRequestIsAnswered == awaiting ~> (~awaiting \/ ~On)
=============================================================================
