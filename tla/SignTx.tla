------------------------------- MODULE SignTx -------------------------------
(***************************************************************************)
(* INS 0x21, the signing of a transaction: signTx.c with txHashBuilder.c   *)
(* and messageSigning.c, on top of the platform.                           *)
(*                                                                         *)
(* One call is a series of APDUs (P1 = 1 Init, 2 Input, 3 Output,          *)
(* 4 Confirm, 5 Witness) that share one context.  For each P1 an operator  *)
(* XxxHandler(c, ...) says what the C handler does to the context before   *)
(* it reaches its UI, and XxxStep(c) is the run-step function, entered     *)
(* from the handler and again from every button that leads to it.          *)
(*                                                                         *)
(* The hash is modelled by what was fed to it: `hashed` is the sequence of *)
(* items appended so far, and a finished txHash is that sequence.  The     *)
(* buffer that memset left at zero is the empty sequence, which no hash    *)
(* is equal to.                                                            *)
(***************************************************************************)
EXTENDS Platform, SecurityPolicy, Subsequences

CONSTANTS
  Utxos,             \* unspent outputs the host may name (tx hash and index)
  NoUtxo,            \* none of them
  AmountOf,          \* what each of them is worth, the amount its certificate binds
  MaxSupply,         \* LOVELACE_MAX_SUPPLY
  AmountMod,         \* 2^64, where the sums in the context wrap
  SIGN_MAX_INPUTS,   \* signTx.h
  SIGN_MAX_OUTPUTS,  \* signTx.h
  CountMod,          \* 2^16, where the announced counts are truncated
  WireCounts,        \* 32-bit counts the host may announce
  WireAmounts,       \* 64-bit amounts the host may send
  RawAddresses,      \* raw addresses of third parties, by identity
  Destinations,      \* what may follow the amount of an output
  WireWitnesses      \* paths the host may ask a witness for

VARIABLES
  ctx,       \* instructionState.signTxContext
  attested,  \* UTxOs certified under the attestation key of this run of the app
  ghost      \* history of the open call, for the properties only

signTxVars == <<ctx, attested, ghost>>
vars == <<platformVars, signTxVars>>

SIGN_TX == "SIGN_TX"

(***************************************************************************)
(* An output's destination on the wire: a boxed address (form "valid",     *)
(* "invalid": a wrong token, checksum or trailing byte; "truncated";       *)
(* "badToken"), a path, an unknown type byte, or an APDU too short to hold *)
(* amount and type.                                                        *)
(***************************************************************************)
Boxed(form, a) == [type |-> "address", form |-> form, address |-> a]
ToPath(w) == [type |-> "path", wire |-> w]

Address == [id: RawAddresses \cup {"none", "derived"}, path: Path, size: Nat, crcSize: Nat]
RawAddress == [id: RawAddresses, path: {<<>>}, size: Nat, crcSize: Nat]
IsDestination(d) ==
  \/ d \in [type: {"address"}, form: {"valid", "invalid", "truncated", "badToken"},
            address: RawAddress]
  \/ d.type = "path" /\ d = ToPath(d.wire) /\ WellFormedWire(d.wire)
  \/ d \in [type: {"unknown", "short"}]

ASSUME AmountsAssumption ==
  /\ MaxSupply \in Nat
  /\ AmountMod \in Nat
  /\ 2 * MaxSupply < AmountMod
  /\ WireAmounts \subseteq 0 .. AmountMod - 1

ASSUME UtxosAssumption ==
  /\ NoUtxo \notin Utxos
  /\ AmountOf \in [Utxos -> 0 .. MaxSupply]

ASSUME CountsAssumption ==
  /\ CountMod \in Nat \ {0}
  /\ SIGN_MAX_INPUTS \in Nat
  /\ SIGN_MAX_OUTPUTS \in Nat
  /\ WireCounts \subseteq Nat

ASSUME DestinationsAssumption ==
  /\ \A d \in Destinations : IsDestination(d)
  /\ \A w \in WireWitnesses : WellFormedWire(w)

-----------------------------------------------------------------------------
(***************************************************************************)
(* What can stop the device.  The first set says what a host that does not *)
(* follow the protocol can bring about; the second are assertions about    *)
(* the program itself.                                                     *)
(***************************************************************************)
ASSERT_CURRENT_INPUT == "ASSERT_CURRENT_INPUT" \* currentInput < numInputs
ASSERT_CURRENT_OUTPUT == "ASSERT_CURRENT_OUTPUT" \* currentOutput < numOutputs
ASSERT_CURRENT_WITNESS == "ASSERT_CURRENT_WITNESS" \* currentWitness < numWitnesses
ASSERT_PATH_LENGTH == "ASSERT_PATH_LENGTH" \* pathSpec->length < 10
ASSERT_ADDRESS_SIZE == "ASSERT_ADDRESS_SIZE" \* address fits its buffers
ERR_NOT_ENOUGH_INPUT == "ERR_NOT_ENOUGH_INPUT"
ERR_UNEXPECTED_TOKEN == "ERR_UNEXPECTED_TOKEN"
ERR_DATA_TOO_LARGE == "ERR_DATA_TOO_LARGE"

HostCrashes ==
  {ASSERT_IO_STATE, ASSERT_CURRENT_INPUT, ASSERT_CURRENT_OUTPUT, ASSERT_CURRENT_WITNESS,
   ASSERT_PATH_LENGTH, ASSERT_ADDRESS_SIZE, ERR_NOT_ENOUGH_INPUT, ERR_UNEXPECTED_TOKEN,
   ERR_DATA_TOO_LARGE}

ASSERT_BUILDER_STATE == "ASSERT_BUILDER_STATE" \* txHashBuilder state
ASSERT_AMOUNT_SUM == "ASSERT_AMOUNT_SUM" \* *sumPtr <= LOVELACE_MAX_SUPPLY
ASSERT_UI_STEP == "ASSERT_UI_STEP" \* ui_step

InternalCrashes == {ASSERT_BUTTON, ASSERT_BUILDER_STATE, ASSERT_AMOUNT_SUM, ASSERT_UI_STEP}

-----------------------------------------------------------------------------
(***************************************************************************)
(* txHashBuilder.c.  builder is tx_hash_builder_t's state; an append to    *)
(* the hash is one item: an opening or closing token, an input, an output. *)
(***************************************************************************)
Token(t) == [item |-> t, utxo |-> NoUtxo, address |-> NoAddress, amount |-> 0]
InputItem(u) == [Token("input") EXCEPT !.utxo = u]
OutputItem(a, n) == [Token("output") EXCEPT !.address = a, !.amount = n]

ZeroHash == <<>>

BuilderStates ==
  {"none", "INIT", "IN_INPUTS", "IN_OUTPUTS", "IN_METADATA", "FINISHED"}

txHashBuilder_init(c) == [c EXCEPT !.builder = "INIT", !.hashed = <<Token("tx")>>]

txHashBuilder_enterInputs(c) ==
  [c EXCEPT !.builder = "IN_INPUTS", !.hashed = Append(@, Token("inputs"))]

txHashBuilder_addUtxoInput(c, u) == [c EXCEPT !.hashed = Append(@, InputItem(u))]

txHashBuilder_enterOutputs(c) ==
  [c EXCEPT !.builder = "IN_OUTPUTS", !.hashed = Append(@, Token("outputs"))]

txHashBuilder_addOutput(c, a, n) == [c EXCEPT !.hashed = Append(@, OutputItem(a, n))]

txHashBuilder_enterMetadata(c) ==
  [c EXCEPT !.builder = "IN_METADATA", !.hashed = Append(@, Token("metadata"))]

txHashBuilder_finalize(c) == [c EXCEPT !.builder = "FINISHED", !.txHash = c.hashed]

-----------------------------------------------------------------------------
(***************************************************************************)
(* amountSum_incrementBy over uint64_t (and over a narrower integer).      *)
(***************************************************************************)
SumWrapped_Narrow(sum, amount) == (sum + amount) % (AmountMod \div 4)
SumWrapped(sum, amount) == (sum + amount) % AmountMod
amountSum_accepts(sum, amount) == SumWrapped(sum, amount) <= MaxSupply

(***************************************************************************)
(* addressUtils.c, as far as sizes go.  A raw address of `size` bytes is   *)
(* packed as array(2)[tag(24):bytes(size), crc], the crc taking crcSize    *)
(* bytes.  currentAddress and unboxChecksummedAddress' output have 200     *)
(* bytes, base58.c's buffer 124.                                           *)
(***************************************************************************)
ADDRESS_BUFFER == 200
BASE58_BUFFER == 124
BytesHeaderSize(n) == IF n < 24 THEN 1 ELSE 2
PackedSize(a) == 1 + 2 + BytesHeaderSize(a.size) + a.size + a.crcSize

\* deriveRawAddress: array(3)[bytes(28), map(0), unsigned(0)] of the path's key.
DerivedAddress(p) == [id |-> "derived", path |-> p, size |-> 33, crcSize |-> 5]

unboxError(d) ==
  CASE d.form = "truncated" -> ERR_NOT_ENOUGH_INPUT
    [] d.form = "badToken" -> ERR_UNEXPECTED_TOKEN
    [] d.form = "invalid" -> ERR_INVALID_DATA
    [] d.form = "valid" /\ d.address.size > ADDRESS_BUFFER -> ERR_DATA_TOO_LARGE
    [] OTHER -> SUCCESS

-----------------------------------------------------------------------------
(***************************************************************************)
(* ins_sign_tx_context_t.                                                  *)
(***************************************************************************)
Stages == {"NONE", "INPUTS", "OUTPUTS", "CONFIRM", "WITNESSES"}

UiSteps ==
  {"none", "INIT_CONFIRM", "INIT_RESPOND", "INPUT_RESPOND",
   "OUTPUT_DISPLAY_AMOUNT", "OUTPUT_DISPLAY_ADDRESS", "OUTPUT_RESPOND",
   "CONFIRM_DISPLAY_FEE", "CONFIRM_FINAL_CONFIRM", "CONFIRM_RESPOND",
   "WITNESS_WARNING", "WITNESS_DISPLAY", "WITNESS_CONFIRM", "WITNESS_RESPOND",
   "INVALID"}

NoWitness == [kind |-> "signature", path |-> <<>>, hash |-> ZeroHash]

ZeroContext ==
  [stage |-> "NONE", numInputs |-> 0, numOutputs |-> 0, numWitnesses |-> 0,
   currentInput |-> 0, currentOutput |-> 0, currentWitness |-> 0,
   sumAmountInputs |-> 0, sumAmountOutputs |-> 0,
   builder |-> "none", hashed |-> ZeroHash, txHash |-> ZeroHash,
   currentWitnessData |-> NoWitness, currentAmount |-> 0,
   currentAddress |-> NoAddress, currentPath |-> <<>>, uiStep |-> "none"]

(***************************************************************************)
(* History of the open call: the counts the host announced, the exact sums *)
(* of what was fed to the hash, the screens the user has acknowledged, the *)
(* hash on whose final prompt the user pressed "confirm" and the number of *)
(* signatures handed out.                                                  *)
(***************************************************************************)
ZeroGhost ==
  [announced |-> [inputs |-> 0, outputs |-> 0], exactIn |-> 0, exactOut |-> 0,
   acknowledged |-> <<>>, confirmedHash |-> ZeroHash, signatures |-> 0]

\* signTx_handleAPDU: a new call starts from zeroed memory (and a plausible bug).
CallContext_Kept == ctx
CallContext == IF IsNewCall THEN ZeroContext ELSE ctx
CallGhost == IF IsNewCall THEN ZeroGhost ELSE ghost

\* How a handler ends before its UI, and the context it leaves.
Refuse(error, c) == [verdict |-> error, ctx |-> c]
Proceed(c, step) == [verdict |-> SUCCESS, ctx |-> [c EXCEPT !.uiStep = step]]

CHECK_STAGE_Off(c, expected) == TRUE
CHECK_STAGE(c, expected) == c.stage = expected

\* ASSERT inside a run-step function: go on with A, or reset.
AssertFails(cause) == Crash(cause) /\ UNCHANGED ctx
Asserting(cond, cause, A) == IF cond THEN A ELSE AssertFails(cause)

-----------------------------------------------------------------------------
(***************************************************************************)
(* P1 = 1, Init.                                                           *)
(***************************************************************************)
\* u4be_read into a uint16_t (and one that compares before it narrows).
Truncated_Kept(n) == n
Truncated(n) == n % CountMod

CountsFit(c) ==
  /\ c.numInputs < SIGN_MAX_INPUTS
  /\ c.numOutputs < SIGN_MAX_OUTPUTS
  /\ c.numInputs > 0
  /\ c.numOutputs > 0

InitHandler(c, p2, sizeOk, counts) ==
  IF ~CHECK_STAGE(c, "NONE") THEN Refuse(ERR_INVALID_STATE, c)
  ELSE IF p2 # 0 THEN Refuse(ERR_INVALID_REQUEST_PARAMETERS, c)
  ELSE LET reset == [txHashBuilder_init(c) EXCEPT
                       !.currentInput = 0, !.currentOutput = 0, !.currentWitness = 0,
                       !.sumAmountInputs = 0, !.sumAmountOutputs = 0]
           counted == [reset EXCEPT !.numInputs = Truncated(counts.inputs),
                                    !.numOutputs = Truncated(counts.outputs)]
       IN IF ~sizeOk THEN Refuse(ERR_INVALID_DATA, reset)
          ELSE IF ~CountsFit(counted) THEN Refuse(ERR_INVALID_DATA, counted)
          ELSE Proceed([counted EXCEPT !.numWitnesses = counted.numInputs], "INIT_CONFIRM")

InitStep(c) ==
  CASE c.uiStep = "INIT_CONFIRM" ->
         /\ ui_displayPrompt(SIGN_TX, Says("StartNewTransaction"), "init")
         /\ ctx' = [c EXCEPT !.uiStep = "INIT_RESPOND"]
    [] c.uiStep = "INIT_RESPOND" ->
         Asserting(c.builder = "INIT", ASSERT_BUILDER_STATE,
           /\ Respond(SIGN_TX, SUCCESS, NoData, "busy")
           /\ ctx' = [txHashBuilder_enterInputs(c) EXCEPT !.stage = "INPUTS"])
    [] OTHER -> AssertFails(ASSERT_UI_STEP)

(***************************************************************************)
(* P1 = 2, Input.  A certificate is what attest_isCorrectHmac lets pass:   *)
(* one made under the present key, for this UTxO and its amount.  Any      *)
(* other payload is refused with the same error at the same point.         *)
(***************************************************************************)
\* attest_isCorrectHmac (and a comparison that is always true).
IsCertified_Always(u) == TRUE
IsCertified(u) == u \in attested

InputHandler(c, p2, form, u) ==
  IF ~(c.currentInput < c.numInputs) THEN Refuse(ASSERT_CURRENT_INPUT, c)
  ELSE IF ~CHECK_STAGE(c, "INPUTS") THEN Refuse(ERR_INVALID_STATE, c)
  ELSE IF p2 # 0 THEN Refuse(ERR_INVALID_REQUEST_PARAMETERS, c)
  ELSE IF form # "utxo" \/ ~IsCertified(u) THEN Refuse(ERR_INVALID_DATA, c)
  ELSE IF c.sumAmountInputs > MaxSupply THEN Refuse(ASSERT_AMOUNT_SUM, c)
  ELSE IF ~amountSum_accepts(c.sumAmountInputs, AmountOf[u]) THEN Refuse(ERR_INVALID_DATA, c)
  ELSE LET summed == [c EXCEPT !.sumAmountInputs = SumWrapped(@, AmountOf[u])]
       IN IF c.builder # "IN_INPUTS" THEN Refuse(ASSERT_BUILDER_STATE, summed)
          ELSE Proceed(txHashBuilder_addUtxoInput(summed, u), "INPUT_RESPOND")

\* Whether the input just counted was the last (and an off-by-one of it).
AllInputs_OffByOne(c) == c.currentInput + 1 >= c.numInputs
AllInputs(c) == c.currentInput = c.numInputs

InputStep(c) ==
  CASE c.uiStep = "INPUT_RESPOND" ->
         LET next == [c EXCEPT !.currentInput = @ + 1]
         IN Asserting(AllInputs(next) => next.builder = "IN_INPUTS", ASSERT_BUILDER_STATE,
              /\ Respond(SIGN_TX, SUCCESS, NoData, "busy")
              /\ ctx' = IF AllInputs(next)
                        THEN [txHashBuilder_enterOutputs(next) EXCEPT !.stage = "OUTPUTS"]
                        ELSE next)
    [] OTHER -> AssertFails(ASSERT_UI_STEP)

-----------------------------------------------------------------------------
(***************************************************************************)
(* P1 = 3, Output.  OutputAddress is the switch on the output type: the    *)
(* raw address and the policy, or the error; the sum and the amount of the *)
(* context have already been updated when it runs.                         *)
(***************************************************************************)
NoOutput(error, c) ==
  [verdict |-> error, ctx |-> c, address |-> NoAddress, policy |-> POLICY_DENY]

OutputAddress(c, d) ==
  CASE d.type = "address" ->
         IF unboxError(d) # SUCCESS THEN NoOutput(unboxError(d), c)
         ELSE [verdict |-> SUCCESS, ctx |-> c, address |-> d.address,
               policy |-> POLICY_SHOW_BEFORE_RESPONSE]
    [] d.type = "path" ->
         IF ~Parses(d.wire) THEN NoOutput(ERR_INVALID_DATA, c)
         ELSE LET p == ParsedPath(d.wire)
                  parsed == [c EXCEPT !.currentPath = p]
              IN IF ParsedSize(d.wire) # d.wire.size THEN NoOutput(ERR_INVALID_DATA, parsed)
                 ELSE IF policyForSignTxOutputPath(p) = POLICY_DENY
                      THEN NoOutput(ERR_REJECTED_BY_POLICY, parsed)
                 ELSE IF ~Derivable(p) THEN NoOutput(ASSERT_PATH_LENGTH, parsed)
                 ELSE [verdict |-> SUCCESS, ctx |-> parsed, address |-> DerivedAddress(p),
                       policy |-> policyForSignTxOutputPath(p)]
    [] OTHER -> NoOutput(ERR_INVALID_DATA, c)

\* Where the screens of an output start (and a start that skips the amount).
OutputFirstStep_NoAmount(policy) ==
  IF policy = POLICY_SHOW_BEFORE_RESPONSE THEN "OUTPUT_DISPLAY_ADDRESS" ELSE "OUTPUT_RESPOND"
OutputFirstStep(policy) ==
  IF policy = POLICY_SHOW_BEFORE_RESPONSE THEN "OUTPUT_DISPLAY_AMOUNT" ELSE "OUTPUT_RESPOND"

OutputHandler(c, p2, n, d) ==
  IF ~(c.currentOutput < c.numOutputs) THEN Refuse(ASSERT_CURRENT_OUTPUT, c)
  ELSE IF ~CHECK_STAGE(c, "OUTPUTS") THEN Refuse(ERR_INVALID_STATE, c)
  ELSE IF p2 # 0 THEN Refuse(ERR_INVALID_REQUEST_PARAMETERS, c)
  ELSE IF d.type = "short" THEN Refuse(ERR_NOT_ENOUGH_INPUT, c)
  ELSE IF c.sumAmountOutputs > MaxSupply THEN Refuse(ASSERT_AMOUNT_SUM, c)
  ELSE IF ~amountSum_accepts(c.sumAmountOutputs, n) THEN Refuse(ERR_INVALID_DATA, c)
  ELSE LET summed == [c EXCEPT !.sumAmountOutputs = SumWrapped(@, n), !.currentAmount = n]
           out == OutputAddress(summed, d)
           added == [txHashBuilder_addOutput(out.ctx, out.address, n) EXCEPT
                       !.currentAddress = out.address]
       IN IF out.verdict # SUCCESS THEN Refuse(out.verdict, out.ctx)
          ELSE IF out.address.size = 0 THEN Refuse(ASSERT_ADDRESS_SIZE, out.ctx)
          ELSE IF c.builder # "IN_OUTPUTS" THEN Refuse(ASSERT_BUILDER_STATE, out.ctx)
          ELSE IF PackedSize(out.address) > ADDRESS_BUFFER
               THEN Refuse(ERR_DATA_TOO_LARGE, out.ctx)
          ELSE Proceed(added, OutputFirstStep(out.policy))

OutputStep(c) ==
  CASE c.uiStep = "OUTPUT_DISPLAY_AMOUNT" ->
         /\ ui_displayPaginatedText(SIGN_TX, SaysAmount("SendAda", c.currentAmount), "output")
         /\ ctx' = [c EXCEPT !.uiStep = "OUTPUT_DISPLAY_ADDRESS"]
    [] c.uiStep = "OUTPUT_DISPLAY_ADDRESS" ->
         Asserting(PackedSize(c.currentAddress) <= BASE58_BUFFER, ASSERT_ADDRESS_SIZE,
           /\ ui_displayPaginatedText(SIGN_TX, SaysAddress("ToAddress", c.currentAddress),
                                      "output")
           /\ ctx' = [c EXCEPT !.uiStep = "OUTPUT_RESPOND"])
    [] c.uiStep = "OUTPUT_RESPOND" ->
         LET next == [c EXCEPT !.currentOutput = @ + 1]
             last == next.currentOutput = next.numOutputs
         IN Asserting(last => next.builder = "IN_OUTPUTS", ASSERT_BUILDER_STATE,
              /\ Respond(SIGN_TX, SUCCESS, NoData, "busy")
              /\ ctx' = IF last
                        THEN [txHashBuilder_enterMetadata(next) EXCEPT !.stage = "CONFIRM"]
                        ELSE next)
    [] OTHER -> AssertFails(ASSERT_UI_STEP)

-----------------------------------------------------------------------------
(***************************************************************************)
(* P1 = 4, Confirm.                                                        *)
(***************************************************************************)
ConfirmHandler(c, p2, sizeOk) ==
  IF p2 # 0 \/ ~sizeOk THEN Refuse(ERR_INVALID_REQUEST_PARAMETERS, c)
  ELSE IF ~CHECK_STAGE(c, "CONFIRM") THEN Refuse(ERR_INVALID_STATE, c)
  ELSE IF ~(c.sumAmountInputs > c.sumAmountOutputs) THEN Refuse(ERR_INVALID_DATA, c)
  ELSE IF c.builder # "IN_METADATA" THEN Refuse(ASSERT_BUILDER_STATE, c)
  ELSE Proceed([txHashBuilder_finalize(c) EXCEPT
                  !.currentAmount = c.sumAmountInputs - c.sumAmountOutputs],
               "CONFIRM_DISPLAY_FEE")

HashData(c) == [kind |-> "hash", hash |-> c.txHash]

\* The step after the fee has been shown (and one that forgets the prompt).
AfterFee_NoPrompt == "CONFIRM_RESPOND"
AfterFee == "CONFIRM_FINAL_CONFIRM"

ConfirmStep(c) ==
  CASE c.uiStep = "CONFIRM_DISPLAY_FEE" ->
         /\ ui_displayPaginatedText(SIGN_TX, SaysAmount("TransactionFee", c.currentAmount),
                                    "confirm")
         /\ ctx' = [c EXCEPT !.uiStep = AfterFee]
    [] c.uiStep = "CONFIRM_FINAL_CONFIRM" ->
         /\ ui_displayPrompt(SIGN_TX, Says("ConfirmTransaction"), "confirm")
         /\ ctx' = [c EXCEPT !.uiStep = "CONFIRM_RESPOND"]
    [] c.uiStep = "CONFIRM_RESPOND" ->
         /\ Respond(SIGN_TX, SUCCESS, HashData(c), "busy")
         /\ ctx' = [c EXCEPT !.stage = "WITNESSES"]
    [] OTHER -> AssertFails(ASSERT_UI_STEP)

-----------------------------------------------------------------------------
(***************************************************************************)
(* P1 = 5, Witness.  The signature is made here, over whatever txHash      *)
(* holds; this handler is the one without a CHECK_STAGE.                   *)
(***************************************************************************)
getTxWitness(c, p) == [kind |-> "signature", path |-> p, hash |-> c.txHash]

WitnessFirstStep_NeverWarns(policy) == "WITNESS_RESPOND"
WitnessFirstStep(policy) ==
  IF policy = POLICY_PROMPT_WARN_UNUSUAL THEN "WITNESS_WARNING" ELSE "WITNESS_RESPOND"

WitnessesLeft(c) == c.currentWitness < c.numWitnesses

WitnessHandler(c, p2, w) ==
  IF p2 # 0 THEN Refuse(ERR_INVALID_REQUEST_PARAMETERS, c)
  ELSE IF ~WitnessesLeft(c) THEN Refuse(ASSERT_CURRENT_WITNESS, c)
  ELSE IF ~Parses(w) THEN Refuse(ERR_INVALID_DATA, c)
  ELSE LET p == ParsedPath(w)
           parsed == [c EXCEPT !.currentPath = p]
       IN IF ParsedSize(w) # w.size THEN Refuse(ERR_INVALID_DATA, parsed)
          ELSE IF policyForSignTxWitness(p) = POLICY_DENY
               THEN Refuse(ERR_REJECTED_BY_POLICY, parsed)
          ELSE IF ~Derivable(p) THEN Refuse(ASSERT_PATH_LENGTH, parsed)
          ELSE Proceed([parsed EXCEPT !.currentWitnessData = getTxWitness(c, p)],
                       WitnessFirstStep(policyForSignTxWitness(p)))

WitnessStep(c) ==
  CASE c.uiStep = "WITNESS_WARNING" ->
         /\ ui_displayPaginatedText(SIGN_TX, Says("UnusualWitness"), "witness")
         /\ ctx' = [c EXCEPT !.uiStep = "WITNESS_DISPLAY"]
    [] c.uiStep = "WITNESS_DISPLAY" ->
         Asserting(Derivable(c.currentPath), ASSERT_PATH_LENGTH,
           /\ ui_displayPaginatedText(SIGN_TX, SaysPath("WitnessPath", c.currentPath),
                                      "witness")
           /\ ctx' = [c EXCEPT !.uiStep = "WITNESS_CONFIRM"])
    [] c.uiStep = "WITNESS_CONFIRM" ->
         /\ ui_displayPrompt(SIGN_TX, Says("SignUsingThisWitness"), "witness")
         /\ ctx' = [c EXCEPT !.uiStep = "WITNESS_RESPOND"]
    [] c.uiStep = "WITNESS_RESPOND" ->
         /\ Respond(SIGN_TX, SUCCESS, c.currentWitnessData, "witness")
         /\ ctx' = c
    [] OTHER -> AssertFails(ASSERT_UI_STEP)

\* What follows the io_send_buf of a witness: the last one ends the call.
LastWitness(c) == c.currentWitness + 1 = c.numWitnesses

WitnessSent_KeepsCount(c) == [c EXCEPT !.uiStep = "INVALID"]
WitnessSent(c) ==
  [c EXCEPT !.currentWitness = @ + 1, !.uiStep = "INVALID",
            !.stage = IF LastWitness(c) THEN "NONE" ELSE @]

-----------------------------------------------------------------------------
(***************************************************************************)
(* Actions.  signTx_handleAPDU's dispatch on P1, one action per value.     *)
(***************************************************************************)
Failed(r) == Throw(SIGN_TX, r.verdict) /\ ctx' = r.ctx

HandleInit(p2, sizeOk, counts) ==
  LET r == InitHandler(CallContext, p2, sizeOk, counts)
  IN /\ Accepts(SIGN_TX)
     /\ IF r.verdict = SUCCESS THEN InitStep(r.ctx) ELSE Failed(r)
     /\ ghost' = IF r.verdict = SUCCESS
                 THEN [CallGhost EXCEPT !.announced = counts]
                 ELSE CallGhost
     /\ UNCHANGED attested

HandleInput(p2, form, u) ==
  LET r == InputHandler(CallContext, p2, form, u)
  IN /\ Accepts(SIGN_TX)
     /\ IF r.verdict = SUCCESS THEN InputStep(r.ctx) ELSE Failed(r)
     /\ ghost' = IF r.verdict = SUCCESS
                 THEN [CallGhost EXCEPT !.exactIn = @ + AmountOf[u]]
                 ELSE CallGhost
     /\ UNCHANGED attested

HandleOutput(p2, n, d) ==
  LET r == OutputHandler(CallContext, p2, n, d)
  IN /\ Accepts(SIGN_TX)
     /\ IF r.verdict = SUCCESS THEN OutputStep(r.ctx) ELSE Failed(r)
     /\ ghost' = IF r.verdict = SUCCESS
                 THEN [CallGhost EXCEPT !.exactOut = @ + n]
                 ELSE CallGhost
     /\ UNCHANGED attested

HandleConfirm(p2, sizeOk) ==
  LET r == ConfirmHandler(CallContext, p2, sizeOk)
  IN /\ Accepts(SIGN_TX)
     /\ IF r.verdict = SUCCESS THEN ConfirmStep(r.ctx) ELSE Failed(r)
     /\ ghost' = CallGhost
     /\ UNCHANGED attested

HandleWitness(p2, w) ==
  LET r == WitnessHandler(CallContext, p2, w)
  IN /\ Accepts(SIGN_TX)
     /\ IF r.verdict = SUCCESS THEN WitnessStep(r.ctx) ELSE Failed(r)
     /\ ghost' = CallGhost
     /\ UNCHANGED attested

\* lookup_subhandler returns NULL.
HandleUnknownP1 ==
  /\ Accepts(SIGN_TX)
  /\ Failed(Refuse(ERR_INVALID_REQUEST_PARAMETERS, CallContext))
  /\ ghost' = CallGhost
  /\ UNCHANGED attested

\* The screen's callback goes to the run-step function it was set up with.
RunStep ==
  CASE display.callback = "init" -> InitStep(ctx)
    [] display.callback = "output" -> OutputStep(ctx)
    [] display.callback = "confirm" -> ConfirmStep(ctx)
    [] display.callback = "witness" -> WitnessStep(ctx)

FinalPrompt == Says("ConfirmTransaction")

\* The button that goes on: the right one of a prompt, both of a text.
UserConfirms ==
  /\ AwaitsButton({"text", "prompt"})
  /\ IF ButtonAsserts THEN RunStep ELSE AssertFails(ASSERT_BUTTON)
  /\ ghost' = [ghost EXCEPT
                 !.acknowledged = Append(@, display.what),
                 !.confirmedHash = IF display.what = FinalPrompt THEN ctx.txHash ELSE @]
  /\ UNCHANGED attested

\* io_send_buf returns, and the run-step function or the CATCH clause goes on.
SendDone ==
  LET witness == reply.then = "witness"
  IN /\ Transmitted(IF ~witness THEN reply.then
                    ELSE IF LastWitness(ctx) THEN "idle" ELSE "busy")
     /\ ctx' = CASE witness -> WitnessSent(ctx)
                 [] reply.then = "busy" -> [ctx EXCEPT !.uiStep = "INVALID"]
                 [] OTHER -> ctx
     /\ ghost' = IF witness THEN [ghost EXCEPT !.signatures = @ + 1] ELSE ghost
     /\ UNCHANGED attested

\* Steps of the platform, which leave the context alone.
PlatformStep ==
  /\ RejectApdu \/ ApduDuringUi \/ UserRejects \/ LockDevice \/ UnlockDevice
  /\ UNCHANGED signTxVars

\* A whole attestUtxo call in between (AttestUtxo.tla has it in detail).
AttestUtxo(u) ==
  /\ Accepts("ATTEST_UTXO")
  /\ IsNewCall
  /\ attested' = attested \cup {u}
  /\ UNCHANGED <<platformVars, ctx, ghost>>

\* main() starts over and attestKey_initialize draws a new key, under which no
\* certificate made before is worth anything.
StartOver ==
  /\ IoReset \/ Restart
  /\ attested' = {}
  /\ UNCHANGED <<ctx, ghost>>

Init ==
  /\ PlatformInit
  /\ ctx = ZeroContext
  /\ attested = {}
  /\ ghost = ZeroGhost

Next ==
  \/ \E p2 \in {0, 1}, sizeOk \in BOOLEAN, i \in WireCounts, o \in WireCounts :
       HandleInit(p2, sizeOk, [inputs |-> i, outputs |-> o])
  \/ \E p2 \in {0, 1}, form \in {"utxo", "malformed"}, u \in Utxos : HandleInput(p2, form, u)
  \/ \E p2 \in {0, 1}, n \in WireAmounts, d \in Destinations : HandleOutput(p2, n, d)
  \/ \E p2 \in {0, 1}, sizeOk \in BOOLEAN : HandleConfirm(p2, sizeOk)
  \/ \E p2 \in {0, 1}, w \in WireWitnesses : HandleWitness(p2, w)
  \/ HandleUnknownP1
  \/ UserConfirms
  \/ SendDone
  \/ PlatformStep
  \/ \E u \in Utxos : AttestUtxo(u)
  \/ StartOver

Spec == Init /\ [][Next]_vars

(***************************************************************************)
(* A transmission ends: the SDK retries it or throws EXCEPTION_IO_RESET.   *)
(* A user in front of a screen sooner or later unlocks the device and      *)
(* presses one of its buttons; locking may interrupt that again and again, *)
(* hence strong fairness.  Nothing is assumed of the host.                 *)
(***************************************************************************)
Fairness ==
  /\ WF_vars(SendDone)
  /\ WF_vars(UnlockDevice /\ UNCHANGED signTxVars)
  /\ SF_vars(UserConfirms \/ (UserRejects /\ UNCHANGED signTxVars))

FairSpec == Spec /\ Fairness

-----------------------------------------------------------------------------
(***************************************************************************)
(* Types.                                                                  *)
(***************************************************************************)
Flows == {"none", "init", "output", "confirm", "witness"}
Amounts == 0 .. AmountMod - 1
Counts == 0 .. CountMod - 1

Item == [item: {"tx", "inputs", "input", "outputs", "output", "metadata"},
         utxo: Utxos \cup {NoUtxo}, address: Address, amount: Amounts]

Headers ==
  {"menu", "busy", "StartNewTransaction", "SendAda", "ToAddress", "TransactionFee",
   "ConfirmTransaction", "UnusualWitness", "WitnessPath",
   "SignUsingThisWitness"}

Saying == [head: Headers, amount: Amounts, address: Address, path: Path]

SignatureData == [kind: {"signature"}, path: Path, hash: Seq(Item)]
ReplyData == {NoData} \cup [kind: {"hash"}, hash: Seq(Item)] \cup SignatureData

Context ==
  [stage: Stages, numInputs: Counts, numOutputs: Counts, numWitnesses: Counts,
   currentInput: Counts, currentOutput: Counts, currentWitness: Counts,
   sumAmountInputs: Amounts, sumAmountOutputs: Amounts,
   builder: BuilderStates, hashed: Seq(Item), txHash: Seq(Item),
   currentWitnessData: SignatureData, currentAmount: Amounts,
   currentAddress: Address, currentPath: Path, uiStep: UiSteps]

Ghost ==
  [announced: [inputs: Nat, outputs: Nat], exactIn: Nat, exactOut: Nat,
   acknowledged: Seq(Saying), confirmedHash: Seq(Item), signatures: Nat]

\* All but `attested`, for which CardanoApp has its certificates.
CallTypeOK ==
  /\ crashed \in {NotCrashed} \cup HostCrashes \cup InternalCrashes
  /\ ioState \in {"IO", "UI", "NONE"}
  /\ currentInstruction \in {INS_NONE, SIGN_TX}
  /\ display \in [kind: {"menu", "busy", "text", "prompt"}, what: Saying,
                  callback: Flows, run: BOOLEAN]
  /\ reply \in [code: {NoCode, SUCCESS} \cup AutoRespond, data: ReplyData,
                then: {"none", "idle", "busy", "witness"}]
  /\ locked \in BOOLEAN
  /\ awaiting \in BOOLEAN
  /\ ctx \in Context
  /\ ghost \in Ghost

\* Every variable stays in its range; the counters of the context in particular
\* never wrap and the sums never leave uint64_t.
TypeOK == CallTypeOK /\ attested \subseteq Utxos

-----------------------------------------------------------------------------
(***************************************************************************)
(* Properties.                                                             *)
(***************************************************************************)

\* The assertions of the program about itself never fail, whatever the host
\* sends and in whatever order: no append reaches the hash builder in the wrong
\* state, no sum starts above the supply, no run-step function is entered at a
\* step it does not have, no button finds the transport in another state.
InternalAssertionsHold == crashed \notin InternalCrashes

\* A complete transaction: i inputs, then o outputs, all tokens in their places.
IsTransaction(h, i, o) ==
  /\ Len(h) = i + o + 4
  /\ h[1] = Token("tx")
  /\ h[2] = Token("inputs")
  /\ \A k \in 3 .. i + 2 : h[k].item = "input"
  /\ h[i + 3] = Token("outputs")
  /\ \A k \in i + 4 .. i + o + 3 : h[k].item = "output"
  /\ h[i + o + 4] = Token("metadata")

\* A hash that exists is the hash of exactly one complete transaction with the
\* numbers of inputs and outputs the context was set up for.
HashIsWholeTransaction ==
  ctx.txHash # ZeroHash => IsTransaction(ctx.txHash, ctx.numInputs, ctx.numOutputs)

\* ins_sign_tx.md: "ledger should check that the tx contains exactly the
\* announced number of inputs before proceeding to outputs" -- announced on the
\* wire in 32 bits, kept by the device in 16.
HashHasAnnouncedCounts ==
  ctx.txHash # ZeroHash =>
    IsTransaction(ctx.txHash, ghost.announced.inputs, ghost.announced.outputs)

\* The outputs of a hash the user has to see: third parties' addresses and own
\* addresses outside the range that can be searched exhaustively.
MustBeSeen(it) ==
  /\ it.item = "output"
  /\ it.address.path = <<>> \/ ~IsOrdinaryAddress(it.address.path)

Seen(h) == Selected(h, {k \in DOMAIN h : MustBeSeen(h[k])})

\* The screens about the transaction itself, as against those about a witness.
IsAboutTx(what) ==
  what.head \in {"StartNewTransaction", "SendAda", "ToAddress", "TransactionFee",
                 FinalPrompt.head}
ScreensAboutTx(a) == Selected(a, {k \in DOMAIN a : IsAboutTx(a[k])})
TxScreens == ScreensAboutTx(ghost.acknowledged)

\* What you see is what you sign: before a hash counts as confirmed the user has
\* acknowledged, in this order, the start of the transaction, amount and address
\* of every output that must be seen, the fee and the final prompt, and nothing
\* else about a transaction (the screens of signTx_handle*_ui_runStep).
UserSawTransaction ==
  ghost.confirmedHash # ZeroHash =>
    LET seen == Seen(ghost.confirmedHash)
        n == Len(seen)
        a == TxScreens
    IN /\ Len(a) = 2 * n + 3
       /\ a[1] = Says("StartNewTransaction")
       /\ \A k \in 1 .. n : /\ a[2 * k] = SaysAmount("SendAda", seen[k].amount)
                            /\ a[2 * k + 1] = SaysAddress("ToAddress", seen[k].address)
       /\ a[2 * n + 2].head = "TransactionFee"
       /\ a[2 * n + 3] = FinalPrompt

\* The host obtains the hash only after the user has confirmed that very hash.
HashReleasedOnlyConfirmed ==
  Sending /\ reply.data.kind = "hash" =>
    reply.data.hash # ZeroHash /\ reply.data.hash = ghost.confirmedHash

\* No output amount alone makes the sum wrap past 2^64 back into the supply.
OutputsDoNotWrap(h) == \A k \in DOMAIN h : h[k].amount + MaxSupply < AmountMod

FeeShown == TxScreens[Len(TxScreens) - 1].amount

\* The fee the user has acknowledged is what the inputs are worth less what the
\* outputs get, counted exactly, unless an output amount wraps the 64-bit sum.
FeeIsExact ==
  ghost.confirmedHash # ZeroHash /\ OutputsDoNotWrap(ghost.confirmedHash) =>
    /\ ghost.exactIn > ghost.exactOut
    /\ FeeShown = ghost.exactIn - ghost.exactOut

\* ins_sign_tx.md: "Ledger needs to calculate and display transaction fee" --
\* the same with no restriction on the amounts.
FeeIsInputsLessOutputs ==
  ghost.confirmedHash # ZeroHash =>
    FeeShown + ghost.exactOut = ghost.exactIn

\* A signature in an answer.
SendsSignature == Sending /\ reply.data.kind = "signature"

\* A signature is over the hash the user has confirmed in this call, or over the
\* zeroes the buffer holds before there is a hash -- never over a hash that has
\* been computed but not confirmed, nor over one of an earlier call.
SignsOnlyConfirmedOrZero ==
  SendsSignature => reply.data.hash \in {ZeroHash, ghost.confirmedHash}

\* ins_sign_tx.md lists the witnesses as phase 5, after the final confirmation:
\* a signature is over the transaction the user has confirmed.
SignsOnlyConfirmed ==
  SendsSignature => ghost.confirmedHash # ZeroHash /\ reply.data.hash = ghost.confirmedHash

\* A witness for a path outside the ordinary range leaves the device only after
\* the user has been warned, has seen that very path and has agreed to it.
UnusualWitnessIsConfirmed ==
  SendsSignature /\ ~IsOrdinaryAddress(reply.data.path) =>
    LET a == ghost.acknowledged
        n == Len(a)
    IN /\ n >= 3
       /\ a[n - 2] = Says("UnusualWitness")
       /\ a[n - 1] = SaysPath("WitnessPath", reply.data.path)
       /\ a[n] = Says("SignUsingThisWitness")

\* signTx.c: "do not allow more witnesses than inputs".  Signatures handed out in
\* a call, the one under way included, never outnumber the announced inputs.
WitnessBudget ==
  ghost.signatures + (IF On /\ SendsSignature THEN 1 ELSE 0) <= ghost.announced.inputs

\* Every input fed to the hash of an open call is certified under the key of the
\* present run: a certificate never outlives the session it was made in.
InputsAreCertified ==
  On /\ currentInstruction = SIGN_TX =>
    \A k \in DOMAIN ctx.hashed :
      ctx.hashed[k].item = "input" => ctx.hashed[k].utxo \in attested

\* errors.h calls a failed ASSERT an "unexpected programming error": a host that
\* follows no protocol at all should meet ERR_INVALID_STATE, not an ASSERT.
OutOfOrderIsAnError ==
  crashed \notin {ASSERT_CURRENT_INPUT, ASSERT_CURRENT_OUTPUT, ASSERT_CURRENT_WITNESS}

\* Every request is answered, unless the device resets: a transmission ends, and
\* the screens of a request are finitely many and all lead to an answer.
EveryRequestIsAnswered == awaiting ~> (~awaiting \/ ~On)
=============================================================================
