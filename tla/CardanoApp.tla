----------------------------- MODULE CardanoApp -----------------------------
(***************************************************************************)
(* The application: handlers.c's table of instructions over one main loop, *)
(* one screen and one union of contexts (state.h).                         *)
(*                                                                         *)
(* Each instruction is an instance of its own module.  What one of them    *)
(* leaves in the union is gone when another one starts; what they do share *)
(* is the attestation key: a certificate that attestUtxo.c has made is     *)
(* what signTx.c takes for the amount of an input.  In SignTx the          *)
(* certified UTxOs come out of nowhere and are what they say; here they    *)
(* are the certificates of AttestUtxo, and their hash, index and amount    *)
(* are whatever the host made the parser find.                             *)
(***************************************************************************)
EXTENDS Platform, Functions

CONSTANTS
  \* AttestUtxo
  Transactions, Streams, MaxChunk, Indexes, STREAM_BUFFER_SIZE, LOVELACE_MAX_SUPPLY,
  VALUE_MIN_W1, VALUE_MIN_W2, VALUE_MIN_W4, VALUE_MIN_W8,
  \* SignTx
  NoUtxo, AmountMod, SIGN_MAX_INPUTS, SIGN_MAX_OUTPUTS, CountMod, WireCounts,
  WireAmounts, RawAddresses, Destinations, WireWitnesses,
  WireUtxos, \* hash, index and amount the host may claim for an input
  \* PublicKeys
  WirePaths

VARIABLES
  signCtx, signGhost,                       \* SignTx
  parser, magic, hashed, parsing, toSend,   \* AttestUtxo
  keysCtx, keysGhost,                       \* PublicKeys
  certificates, \* those of this run's attestation key
  asked         \* history: what the user has been asked since the request

signVars == <<signCtx, signGhost>>
attestVars == <<parser, magic, hashed, parsing, toSend>>
keysVars == <<keysCtx, keysGhost>>
vars == <<platformVars, signVars, attestVars, keysVars, certificates, asked>>

\* The modules with what is proved of SignTx, AttestUtxo and PublicKeys: the proofs
\* about the application cite it of these instances.
Sign == INSTANCE SignTxHistoryProofs WITH
  ctx <- signCtx, ghost <- signGhost,
  attested <- certificates,
  Utxos <- WireUtxos, AmountOf <- [u \in WireUtxos |-> u.amount],
  MaxSupply <- LOVELACE_MAX_SUPPLY
Attest == INSTANCE AttestUtxoProofs
Keys == INSTANCE PublicKeysProofs WITH ctx <- keysCtx, ghost <- keysGhost

ASSUME ParametersAssumption ==
  /\ Sign!AmountsAssumption /\ Sign!UtxosAssumption
  /\ Sign!CountsAssumption /\ Sign!DestinationsAssumption
  /\ Attest!WidthsAssumption /\ Attest!ParserAssumption /\ Attest!ChunksAssumption
  /\ Keys!WirePathsAssumption

-----------------------------------------------------------------------------
(***************************************************************************)
(* The union.  For a new call cardano_main zeroes all of it; during a call *)
(* only the open instruction's view of it means anything, and the views of *)
(* the others are kept at zero.                                            *)
(***************************************************************************)
NoSigning == signCtx' = Sign!ZeroContext /\ signGhost' = Sign!ZeroGhost
NoAttesting ==
  /\ parser' = Attest!ZeroParser
  /\ magic' = FALSE
  /\ hashed' = <<>>
  /\ toSend' = <<>>
  /\ parsing' = FALSE
NoExport == keysCtx' = Keys!ZeroContext /\ keysGhost' = Keys!ZeroGhost

Signs(A) ==
  /\ ~parsing
  /\ UNCHANGED certificates
  /\ A
  /\ IF IsNewCall THEN NoAttesting /\ NoExport ELSE UNCHANGED <<attestVars, keysVars>>

Attests(A) ==
  /\ A
  /\ IF IsNewCall THEN NoSigning /\ NoExport ELSE UNCHANGED <<signVars, keysVars>>

Exports(A) ==
  /\ ~parsing
  /\ A
  /\ IF IsNewCall THEN NoSigning /\ NoAttesting ELSE UNCHANGED <<signVars, attestVars>>
  /\ UNCHANGED certificates

-----------------------------------------------------------------------------
(***************************************************************************)
(* Requests.                                                               *)
(***************************************************************************)
SignRequest ==
  \/ \E p2 \in {0, 1}, sizeOk \in BOOLEAN, i \in WireCounts, o \in WireCounts :
       Signs(Sign!HandleInit(p2, sizeOk, [inputs |-> i, outputs |-> o]))
  \/ \E p2 \in {0, 1}, form \in {"utxo", "malformed"}, u \in WireUtxos :
       Signs(Sign!HandleInput(p2, form, u))
  \/ \E p2 \in {0, 1}, n \in WireAmounts, d \in Destinations :
       Signs(Sign!HandleOutput(p2, n, d))
  \/ \E p2 \in {0, 1}, sizeOk \in BOOLEAN : Signs(Sign!HandleConfirm(p2, sizeOk))
  \/ \E p2 \in {0, 1}, w \in WireWitnesses : Signs(Sign!HandleWitness(p2, w))
  \/ Signs(Sign!HandleUnknownP1)

AttestRequest ==
  /\ \/ \E p2 \in {0, 1}, sizeOk \in BOOLEAN, i \in Indexes, s \in Streams :
          Attests(Attest!HandleInit(p2, sizeOk, i, s))
     \/ \E p2 \in {0, 1}, n \in 0 .. MaxChunk : Attests(Attest!HandleData(p2, n))
     \/ Attests(Attest!HandleUnknownP1)
  /\ UNCHANGED certificates

ExportRequest ==
  \/ \E paramsOk \in BOOLEAN, w \in WirePaths :
       \/ Exports(Keys!HandleExport(paramsOk, w))
       \/ Exports(Keys!HandleReturn(paramsOk, w))
       \/ Exports(Keys!HandleDisplay(paramsOk, w))
  \/ \E paramsOk \in BOOLEAN : Exports(Keys!HandleGetVersion(paramsOk))

-----------------------------------------------------------------------------
(***************************************************************************)
(* The attestation key (attestKey.c).  A certificate is the HMAC of hash,  *)
(* index and amount; it verifies as long as the key is the same.           *)
(***************************************************************************)
ParseOn == Attest!KeepParsing /\ UNCHANGED <<signVars, keysVars, certificates>>

\* attest_writeHmac is called when the answer is put together.
attest_writeHmac(data) ==
  certificates' = IF data = NoData THEN certificates
                  ELSE certificates \cup {[hash |-> data.hash, index |-> data.index,
                                           amount |-> data.amount]}

FinishParsing ==
  /\ Attest!Finish
  /\ attest_writeHmac(reply'.data)
  /\ UNCHANGED <<signVars, keysVars>>

\* attestKey_initialize, each time main starts over.
attestKey_initialize == {}

StartOver ==
  /\ ~parsing
  /\ IoReset \/ Restart
  /\ toSend' = <<>>
  /\ certificates' = attestKey_initialize
  /\ UNCHANGED <<signVars, keysVars, parser, magic, hashed, parsing>>

-----------------------------------------------------------------------------
\* A button runs the function the screen was set up with.
SignFlows == Sign!Flows \ {"none"}
ExportFlows == {"export", "return", "display"}

UserConfirms ==
  /\ ~parsing
  /\ UNCHANGED <<attestVars, certificates>>
  /\ \/ /\ display.callback \in SignFlows
        /\ Sign!UserConfirms
        /\ UNCHANGED keysVars
     \/ /\ display.callback \in ExportFlows
        /\ Keys!UserConfirms
        /\ UNCHANGED signVars

UserRejectsPrompt == UserRejects /\ UNCHANGED <<signVars, attestVars, keysVars, certificates>>

\* The end of a transmission, and what the function that called io_send_buf does
\* then.
SendDone ==
  /\ UNCHANGED certificates
  /\ \/ /\ currentInstruction = Sign!SIGN_TX
        /\ Sign!SendDone
        /\ UNCHANGED <<attestVars, keysVars>>
     \/ /\ currentInstruction = Attest!ATTEST_UTXO
        /\ Attest!SendDone
        /\ UNCHANGED <<signVars, keysVars>>
     \/ /\ currentInstruction \notin {Sign!SIGN_TX, Attest!ATTEST_UTXO}
        /\ Keys!SendDone
        /\ UNCHANGED <<signVars, attestVars>>

PlatformStep ==
  /\ ~parsing
  /\ RejectApdu \/ ApduDuringUi \/ LockDevice
  /\ UNCHANGED <<signVars, attestVars, keysVars, certificates>>

Unlock == UnlockDevice /\ UNCHANGED <<signVars, attestVars, keysVars, certificates>>

-----------------------------------------------------------------------------
(***************************************************************************)
(* What the outside sees.                                                  *)
(***************************************************************************)
PhaseOf(cause, rep, io) ==
  CASE cause # NotCrashed -> "down"
    [] cause = NotCrashed /\ rep.code # NoCode -> "sending"
    [] cause = NotCrashed /\ rep.code = NoCode ->
         CASE io = "IO" -> "ready" [] io = "UI" -> "asking" [] io = "NONE" -> "working"

Phase == PhaseOf(crashed, reply, ioState)
NoQuestion == [kind |-> "none"]
Question ==
  IF Phase = "asking" THEN [kind |-> display.kind, what |-> display.what] ELSE NoQuestion

\* A history of the questions of one request.
Remember ==
  asked' = CASE PhaseOf(crashed', reply', ioState') \in {"ready", "down"} -> {}
             [] PhaseOf(crashed', reply', ioState') = "asking" ->
                  asked \cup {[kind |-> display'.kind, what |-> display'.what]}
             [] OTHER -> asked

Init ==
  /\ PlatformInit
  /\ signCtx = Sign!ZeroContext /\ signGhost = Sign!ZeroGhost
  /\ parser = Attest!ZeroParser /\ magic = FALSE /\ hashed = <<>>
  /\ parsing = FALSE /\ toSend = <<>>
  /\ keysCtx = Keys!ZeroContext /\ keysGhost = Keys!ZeroGhost
  /\ certificates = {}
  /\ asked = {}

Step ==
  \/ SignRequest
  \/ AttestRequest
  \/ ExportRequest
  \/ ParseOn
  \/ FinishParsing
  \/ UserConfirms
  \/ UserRejectsPrompt
  \/ SendDone
  \/ PlatformStep
  \/ Unlock
  \/ StartOver

Next == Step /\ Remember

Spec == Init /\ [][Next]_vars

-----------------------------------------------------------------------------
(***************************************************************************)
(* Properties.                                                             *)
(***************************************************************************)

\* Hash, index and amount are those of an output of a transaction.
IsTrue(u) ==
  \E tx \in Transactions :
    /\ u.hash = Attest!EncodeTx(tx)
    /\ Attest!Attestable(tx, u.index)
    /\ u.amount = tx.outputs[u.index + 1].amount

Items(h, kind) == {k \in DOMAIN h : h[k].item = kind}

\* The reason for the two instructions to exist (doc/ins_attest_utxo.md): the fee
\* the user confirms is what the inputs are worth in the transactions they come
\* from, less the outputs, whatever hash, index and amount the host made the
\* parser certify -- unless an output amount wraps the 64-bit sum.
ConfirmedFeeIsTrue ==
  LET h == signGhost.confirmedHash
  IN h # Sign!ZeroHash /\ Sign!OutputsDoNotWrap(h) =>
       /\ \A k \in Items(h, "input") : IsTrue(h[k].utxo)
       /\ Sign!FeeShown + SumFunction([k \in Items(h, "output") |-> h[k].amount])
            = SumFunction([k \in Items(h, "input") |-> h[k].utxo.amount])

\* Whatever the instruction, requests, questions and answers follow CallProtocol:
\* no instruction's screen or answer turns up in another's call, no question is
\* asked twice for one request, and an error ends the call.
Protocol == INSTANCE CallProtocol WITH
  NoCall <- INS_NONE, Success <- SUCCESS, Rejected <- ERR_REJECTED_BY_USER,
  DeviceLocked <- ERR_DEVICE_LOCKED,
  phase <- Phase,
  call <- IF On THEN currentInstruction ELSE INS_NONE,
  question <- Question,
  answer <- IF On THEN reply.code ELSE NoCode

FollowsProtocol == Protocol!Spec
=============================================================================
