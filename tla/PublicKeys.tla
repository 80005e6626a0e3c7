----------------------------- MODULE PublicKeys -----------------------------
(***************************************************************************)
(* The instructions that answer in one APDU: INS 0x10 (the extended public *)
(* key of a path, getExtendedPublicKey.c), INS 0x11 (the address of a      *)
(* path, returned or displayed, deriveAddress.c) and INS 0x00              *)
(* (getVersion.c), on top of the platform.                                 *)
(*                                                                         *)
(* All of them end with ui_idle, so that a handler always finds a new call *)
(* and a context that has just been zeroed.                                *)
(***************************************************************************)
EXTENDS Platform, SecurityPolicy

CONSTANT WirePaths \* paths the host may send

ASSUME WirePathsAssumption == \A w \in WirePaths : WellFormedWire(w)

VARIABLES
  ctx,   \* instructionState.extPubKeyContext or .deriveAddressContext
  ghost  \* history of the open call, for the properties only

publicKeysVars == <<ctx, ghost>>
vars == <<platformVars, publicKeysVars>>

GET_VERSION == "GET_VERSION"
GET_EXT_PUB_KEY == "GET_EXT_PUB_KEY"
DERIVE_ADDRESS == "DERIVE_ADDRESS"

ASSERT_PATH_LENGTH == "ASSERT_PATH_LENGTH" \* pathSpec->length < 10
ASSERT_MAGIC == "ASSERT_MAGIC" \* responseReadyMagic == RESPONSE_READY_MAGIC
ASSERT_UI_STEP == "ASSERT_UI_STEP" \* ui_step
ASSERT_POLICY == "ASSERT_POLICY" \* the default of the switch on the policy

HostCrashes == {ASSERT_IO_STATE, ASSERT_PATH_LENGTH}
InternalCrashes == {ASSERT_BUTTON, ASSERT_MAGIC, ASSERT_UI_STEP, ASSERT_POLICY}

UiSteps ==
  {"none", "EXPORT_WARNING", "EXPORT_PATH", "EXPORT_CONFIRM", "EXPORT_RESPOND",
   "RETURN_WARNING", "RETURN_PATH", "RETURN_CONFIRM", "RETURN_RESPOND",
   "DISPLAY_WARNING", "DISPLAY_INSTRUCTIONS", "DISPLAY_PATH", "DISPLAY_ADDRESS",
   "DISPLAY_RESPOND", "INVALID"}

\* `ready` is responseReadyMagic; `derived` is the path whose key or address the
\* context's buffer holds.
ZeroContext == [ready |-> FALSE, path |-> <<>>, derived |-> <<>>, uiStep |-> "none"]

\* What the host asked for, and the screens the user has acknowledged since.
ZeroGhost == [request |-> "none", asked |-> <<>>, acknowledged |-> <<>>]

-----------------------------------------------------------------------------
(***************************************************************************)
(* The three handlers of a path differ in the policy and in where their    *)
(* screens start.                                                          *)
(***************************************************************************)
Refuse(error, c) == [verdict |-> error, ctx |-> c]
Proceed(c, step) == [verdict |-> SUCCESS, ctx |-> [c EXCEPT !.uiStep = step]]

PathHandler(paramsOk, w, policy, firstStep) ==
  LET p == ParsedPath(w)
      parsed == [ZeroContext EXCEPT !.path = p]
  IN IF ~paramsOk THEN Refuse(ERR_INVALID_REQUEST_PARAMETERS, ZeroContext)
     ELSE IF ~Parses(w) THEN Refuse(ERR_INVALID_DATA, ZeroContext)
     ELSE IF ParsedSize(w) # w.size THEN Refuse(ERR_INVALID_DATA, parsed)
     ELSE IF policy = POLICY_DENY THEN Refuse(ERR_REJECTED_BY_POLICY, parsed)
     ELSE IF ~Derivable(p) THEN Refuse(ASSERT_PATH_LENGTH, parsed)
     ELSE LET derived == [parsed EXCEPT !.ready = TRUE, !.derived = p]
          IN IF firstStep = "none" THEN Refuse(ASSERT_POLICY, derived)
             ELSE Proceed(derived, firstStep)

\* The switch on the policy; its default is an ASSERT or an error no CATCH answers.
ExportFirstStep(policy) ==
  CASE policy = POLICY_PROMPT_WARN_UNUSUAL -> "EXPORT_WARNING"
    [] policy = POLICY_PROMPT_BEFORE_RESPONSE -> "EXPORT_PATH"
    [] policy = POLICY_ALLOW_WITHOUT_PROMPT -> "EXPORT_RESPOND"
    [] OTHER -> "none"

\* (and one that goes to the prompt without the path)
ReturnFirstStep_NoPath(policy) ==
  CASE policy = POLICY_PROMPT_WARN_UNUSUAL -> "RETURN_WARNING"
    [] policy = POLICY_PROMPT_BEFORE_RESPONSE -> "RETURN_CONFIRM"
    [] policy = POLICY_ALLOW_WITHOUT_PROMPT -> "RETURN_RESPOND"
    [] OTHER -> "none"
ReturnFirstStep(policy) ==
  CASE policy = POLICY_PROMPT_WARN_UNUSUAL -> "RETURN_WARNING"
    [] policy = POLICY_PROMPT_BEFORE_RESPONSE -> "RETURN_PATH"
    [] policy = POLICY_ALLOW_WITHOUT_PROMPT -> "RETURN_RESPOND"
    [] OTHER -> "none"

\* (and one that treats a policy of deriveAddress_handleReturn as unknown)
DisplayFirstStep_AsReturn(policy) ==
  CASE policy = POLICY_PROMPT_WARN_UNUSUAL -> "DISPLAY_WARNING"
    [] policy = POLICY_PROMPT_BEFORE_RESPONSE -> "DISPLAY_INSTRUCTIONS"
    [] OTHER -> "none"
DisplayFirstStep(policy) ==
  CASE policy = POLICY_PROMPT_WARN_UNUSUAL -> "DISPLAY_WARNING"
    [] policy = POLICY_SHOW_BEFORE_RESPONSE -> "DISPLAY_INSTRUCTIONS"
    [] OTHER -> "none"

ExportHandler(paramsOk, w) ==
  LET policy == policyForGetExtendedPublicKey(ParsedPath(w))
  IN PathHandler(paramsOk, w, policy, ExportFirstStep(policy))
ReturnHandler(paramsOk, w) ==
  LET policy == policyForReturnDeriveAddress(ParsedPath(w))
  IN PathHandler(paramsOk, w, policy, ReturnFirstStep(policy))
DisplayHandler(paramsOk, w) ==
  LET policy == policyForShowDeriveAddress(ParsedPath(w))
  IN PathHandler(paramsOk, w, policy, DisplayFirstStep(policy))

-----------------------------------------------------------------------------
(***************************************************************************)
(* The run-step functions.                                                 *)
(***************************************************************************)
AssertFails(cause) == Crash(cause) /\ UNCHANGED ctx

Text(ins, what, callback, c, next) ==
  /\ ui_displayPaginatedText(ins, what, callback)
  /\ ctx' = [c EXCEPT !.uiStep = next]
Prompt(ins, what, callback, c, next) ==
  /\ ui_displayPrompt(ins, what, callback)
  /\ ctx' = [c EXCEPT !.uiStep = next]
PathText(ins, head, callback, c, next) ==
  IF Derivable(c.path) THEN Text(ins, SaysPath(head, c.path), callback, c, next)
  ELSE AssertFails(ASSERT_PATH_LENGTH)

KeyOf(p) == [kind |-> "key", path |-> p]
AddressOf(p) == [kind |-> "address", path |-> p]

\* What is under the warning that a path is unusual (and a warning that is also
\* the confirmation).
AfterExportWarning_Respond == "EXPORT_RESPOND"
AfterExportWarning == "EXPORT_PATH"

ExportStep(c) ==
  CASE c.uiStep = "EXPORT_WARNING" ->
         Text(GET_EXT_PUB_KEY, Says("UnusualRequest"), "export", c, AfterExportWarning)
    [] c.uiStep = "EXPORT_PATH" ->
         PathText(GET_EXT_PUB_KEY, "ExportPublicKey", "export", c, "EXPORT_CONFIRM")
    [] c.uiStep = "EXPORT_CONFIRM" ->
         Prompt(GET_EXT_PUB_KEY, Says("ConfirmExportPublicKey"), "export", c, "EXPORT_RESPOND")
    [] c.uiStep = "EXPORT_RESPOND" ->
         IF c.ready
         THEN Respond(GET_EXT_PUB_KEY, SUCCESS, KeyOf(c.derived), "idle") /\ ctx' = c
         ELSE AssertFails(ASSERT_MAGIC)
    [] OTHER -> AssertFails(ASSERT_UI_STEP)

ReturnStep(c) ==
  IF ~c.ready THEN AssertFails(ASSERT_MAGIC)
  ELSE
  CASE c.uiStep = "RETURN_WARNING" ->
         Text(DERIVE_ADDRESS, Says("UnusualRequest"), "return", c, "RETURN_PATH")
    [] c.uiStep = "RETURN_PATH" ->
         PathText(DERIVE_ADDRESS, "ExportAddress", "return", c, "RETURN_CONFIRM")
    [] c.uiStep = "RETURN_CONFIRM" ->
         Prompt(DERIVE_ADDRESS, Says("ConfirmExportAddress"), "return", c, "RETURN_RESPOND")
    [] c.uiStep = "RETURN_RESPOND" ->
         /\ Respond(DERIVE_ADDRESS, SUCCESS, AddressOf(c.derived), "idle")
         /\ ctx' = [c EXCEPT !.ready = FALSE]
    [] OTHER -> AssertFails(ASSERT_UI_STEP)

\* The address fits base58.c's buffers: a derived one packs to 43 bytes.
DisplayStep(c) ==
  IF ~c.ready THEN AssertFails(ASSERT_MAGIC)
  ELSE
  CASE c.uiStep = "DISPLAY_WARNING" ->
         Text(DERIVE_ADDRESS, Says("UnusualRequest"), "display", c, "DISPLAY_INSTRUCTIONS")
    [] c.uiStep = "DISPLAY_INSTRUCTIONS" ->
         Text(DERIVE_ADDRESS, Says("VerifyAddress"), "display", c, "DISPLAY_PATH")
    [] c.uiStep = "DISPLAY_PATH" ->
         PathText(DERIVE_ADDRESS, "AddressPath", "display", c, "DISPLAY_ADDRESS")
    [] c.uiStep = "DISPLAY_ADDRESS" ->
         Text(DERIVE_ADDRESS, SaysPath("Address", c.derived), "display", c, "DISPLAY_RESPOND")
    [] c.uiStep = "DISPLAY_RESPOND" ->
         Respond(DERIVE_ADDRESS, SUCCESS, NoData, "idle") /\ ctx' = c
    [] OTHER -> AssertFails(ASSERT_UI_STEP)

-----------------------------------------------------------------------------
(***************************************************************************)
(* Actions.  `paramsOk` stands for the VALIDATEs on P1 and P2 that come    *)
(* before the path is parsed, an unknown P1 of deriveAddress among them.   *)
(***************************************************************************)
Requested(request, w) == [ZeroGhost EXCEPT !.request = request, !.asked = w.words]

HandleExport(paramsOk, w) ==
  LET r == ExportHandler(paramsOk, w)
  IN /\ Accepts(GET_EXT_PUB_KEY)
     /\ IF r.verdict = SUCCESS THEN ExportStep(r.ctx)
        ELSE Throw(GET_EXT_PUB_KEY, r.verdict) /\ ctx' = r.ctx
     /\ ghost' = Requested("export", w)

HandleReturn(paramsOk, w) ==
  LET r == ReturnHandler(paramsOk, w)
  IN /\ Accepts(DERIVE_ADDRESS)
     /\ IF r.verdict = SUCCESS THEN ReturnStep(r.ctx)
        ELSE Throw(DERIVE_ADDRESS, r.verdict) /\ ctx' = r.ctx
     /\ ghost' = Requested("return", w)

HandleDisplay(paramsOk, w) ==
  LET r == DisplayHandler(paramsOk, w)
  IN /\ Accepts(DERIVE_ADDRESS)
     /\ IF r.verdict = SUCCESS THEN DisplayStep(r.ctx)
        ELSE Throw(DERIVE_ADDRESS, r.verdict) /\ ctx' = r.ctx
     /\ ghost' = Requested("display", w)

\* getVersion_handleAPDU has no context of its own, but cardano_main has zeroed
\* the one there is.
HandleGetVersion(paramsOk) ==
  /\ Accepts(GET_VERSION)
  /\ IF paramsOk THEN Respond(GET_VERSION, SUCCESS, [kind |-> "version"], "idle")
     ELSE Throw(GET_VERSION, ERR_INVALID_REQUEST_PARAMETERS)
  /\ ctx' = ZeroContext
  /\ ghost' = ZeroGhost

\* The screen's callback goes to the run-step function it was set up with.
RunStep ==
  CASE display.callback = "export" -> ExportStep(ctx)
    [] display.callback = "return" -> ReturnStep(ctx)
    [] display.callback = "display" -> DisplayStep(ctx)

UserConfirms ==
  /\ AwaitsButton({"text", "prompt"})
  /\ IF ButtonAsserts THEN RunStep ELSE AssertFails(ASSERT_BUTTON)
  /\ ghost' = [ghost EXCEPT !.acknowledged = Append(@, display.what)]

\* io_send_buf returns; ui_idle and, in a run-step function, UI_STEP_END follow.
SendDone ==
  /\ Transmitted(reply.then)
  /\ ctx' = IF reply.code = SUCCESS /\ reply.data.kind # "version"
            THEN [ctx EXCEPT !.uiStep = "INVALID"] ELSE ctx
  /\ UNCHANGED ghost

PlatformStep ==
  /\ \/ RejectApdu \/ ApduDuringUi \/ UserRejects \/ LockDevice \/ UnlockDevice
     \/ IoReset \/ Restart
  /\ UNCHANGED publicKeysVars

Init ==
  /\ PlatformInit
  /\ ctx = ZeroContext
  /\ ghost = ZeroGhost

Next ==
  \/ \E paramsOk \in BOOLEAN, w \in WirePaths :
       \/ HandleExport(paramsOk, w)
       \/ HandleReturn(paramsOk, w)
       \/ HandleDisplay(paramsOk, w)
  \/ \E paramsOk \in BOOLEAN : HandleGetVersion(paramsOk)
  \/ UserConfirms
  \/ SendDone
  \/ PlatformStep

Spec == Init /\ [][Next]_vars

\* As for SignTx: transmissions end, and a user in front of a screen presses one
\* of its buttons once the device is unlocked.
Fairness ==
  /\ WF_vars(SendDone)
  /\ WF_vars(UnlockDevice /\ UNCHANGED publicKeysVars)
  /\ SF_vars(UserConfirms \/ (UserRejects /\ UNCHANGED publicKeysVars))

FairSpec == Spec /\ Fairness

-----------------------------------------------------------------------------
(***************************************************************************)
(* Types.                                                                  *)
(***************************************************************************)
Headers ==
  {"menu", "busy", "UnusualRequest", "ExportPublicKey", "ConfirmExportPublicKey",
   "ExportAddress", "ConfirmExportAddress", "VerifyAddress", "AddressPath", "Address"}

Saying == [head: Headers, amount: {0}, address: {NoAddress}, path: Path]

\* Every variable stays in its range.
TypeOK ==
  /\ crashed \in {NotCrashed} \cup HostCrashes \cup InternalCrashes
  /\ ioState \in {"IO", "UI", "NONE"}
  /\ currentInstruction \in {INS_NONE, GET_VERSION, GET_EXT_PUB_KEY, DERIVE_ADDRESS}
  /\ display \in [kind: {"menu", "text", "prompt"}, what: Saying,
                  callback: {"none", "export", "return", "display"}, run: BOOLEAN]
  /\ reply \in [code: {NoCode, SUCCESS} \cup AutoRespond,
                data: {NoData, [kind |-> "version"]} \cup [kind: {"key", "address"}, path: Path],
                then: {"none", "idle"}]
  /\ locked \in BOOLEAN
  /\ awaiting \in BOOLEAN
  /\ ctx \in [ready: BOOLEAN, path: Path, derived: Path, uiStep: UiSteps]
  /\ ghost \in [request: {"none", "export", "return", "display"}, asked: Path,
                acknowledged: Seq(Saying)]

-----------------------------------------------------------------------------
(***************************************************************************)
(* Properties.                                                             *)
(***************************************************************************)

\* The assertions of the program about itself never fail: no run-step function is
\* entered at a step it does not have or without a result that is ready, no policy
\* is one the switch does not know.
InternalAssertionsHold == crashed \notin InternalCrashes

\* Paths that need no warning, and paths the device answers at all, written out
\* from the documentation of the instructions.
IsAccountPath(p) ==
  \E a \in 0 .. 9 : p = <<Hardened(44), Hardened(1815), Hardened(a)>>
IsUsualAddressPath(p) ==
  /\ Len(p) = 5
  /\ IsAccountPath(SubSeq(p, 1, 3))
  /\ p[4] \in {Plain(0), Plain(1)}
  /\ ~p[5].hard /\ p[5].idx <= 1000000
IsCardanoPath(p) ==
  Len(p) >= 3 /\ p[1] = Hardened(44) /\ p[2] = Hardened(1815)
IsCardanoAddressPath(p) ==
  IsCardanoPath(p) /\ Len(p) >= 5 /\ p[4] \in {Plain(0), Plain(1)}

Warning(usual) == IF usual THEN <<>> ELSE <<Says("UnusualRequest")>>

\* A public key leaves the device only for the path the host has asked for, a
\* Cardano path, after the user has acknowledged the warning (unless it is a usual
\* path), has seen that very path and has confirmed the export.
KeyExportIsConfirmed ==
  Sending /\ reply.data.kind = "key" =>
    /\ ghost.request = "export"
    /\ reply.data.path = ghost.asked
    /\ IsCardanoPath(ghost.asked)
    /\ ghost.acknowledged =
         Warning(IsAccountPath(ghost.asked))
           \o <<SaysPath("ExportPublicKey", ghost.asked), Says("ConfirmExportPublicKey")>>

\* An address leaves the device on the same conditions.
AddressExportIsConfirmed ==
  Sending /\ reply.data.kind = "address" =>
    /\ ghost.request = "return"
    /\ reply.data.path = ghost.asked
    /\ IsCardanoAddressPath(ghost.asked)
    /\ ghost.acknowledged =
         Warning(IsUsualAddressPath(ghost.asked))
           \o <<SaysPath("ExportAddress", ghost.asked), Says("ConfirmExportAddress")>>

\* ins_derive_address.md: "If the request is to show the address Ledger should wait
\* with the response".  The host hears SUCCESS only after the user has gone through
\* all the screens, with the address of the path the host has asked for.
ShownAddressIsAcknowledged ==
  Sending /\ reply.code = SUCCESS /\ reply.data = NoData =>
    /\ ghost.request = "display"
    /\ IsCardanoAddressPath(ghost.asked)
    /\ ghost.acknowledged =
         Warning(IsUsualAddressPath(ghost.asked))
           \o <<Says("VerifyAddress"), SaysPath("AddressPath", ghost.asked),
                SaysPath("Address", ghost.asked)>>

\* ins_get_extended_public_key.md: "path_len <= 10".  A path of a documented length
\* does not stop the device.
DocumentedPathsAreServed == crashed # ASSERT_PATH_LENGTH

\* Every request is answered unless the device resets.
EveryRequestIsAnswered == awaiting ~> (~awaiting \/ ~On)
=============================================================================
