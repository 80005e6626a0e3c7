---------------------------- MODULE PlatformSteps ----------------------------
(***************************************************************************)
(* What the handlers and the run-step functions of all instructions have   *)
(* in common as seen from the platform: each of them answers, puts the     *)
(* next screen of the request up, or stops the device.                     *)
(***************************************************************************)
EXTENDS Platform

\* The turn of a screen among those of its request.
TurnOf(head) ==
  CASE head \in {"StartNewTransaction", "SendAda", "TransactionFee", "UnusualWitness",
                 "UnusualRequest"} -> 1
    [] head \in {"ToAddress", "ConfirmTransaction", "WitnessPath", "ExportPublicKey",
                 "ExportAddress", "VerifyAddress"} -> 2
    [] head \in {"SignUsingThisWitness", "ConfirmExportPublicKey", "ConfirmExportAddress",
                 "AddressPath"} -> 3
    [] OTHER -> 4

\* The turn that a run-step function entered at `step` is at; the steps that show
\* nothing come after all screens.
TurnAt(step) ==
  CASE step \in {"INIT_CONFIRM", "OUTPUT_DISPLAY_AMOUNT", "CONFIRM_DISPLAY_FEE",
                 "WITNESS_WARNING", "EXPORT_WARNING", "RETURN_WARNING",
                 "DISPLAY_WARNING"} -> 1
    [] step \in {"OUTPUT_DISPLAY_ADDRESS", "CONFIRM_FINAL_CONFIRM", "WITNESS_DISPLAY",
                 "EXPORT_PATH", "RETURN_PATH", "DISPLAY_INSTRUCTIONS"} -> 2
    [] step \in {"WITNESS_CONFIRM", "EXPORT_CONFIRM", "RETURN_CONFIRM",
                 "DISPLAY_PATH"} -> 3
    [] step = "DISPLAY_ADDRESS" -> 4
    [] OTHER -> 5

\* The instruction whose run-step function a screen's callback is.
Owner(callback) ==
  CASE callback \in {"init", "output", "confirm", "witness"} -> "SIGN_TX"
    [] callback = "export" -> "GET_EXT_PUB_KEY"
    [] OTHER -> "DERIVE_ADDRESS"

\* An answer of instruction ins.
RespondsFor(ins) ==
  \E code \in {SUCCESS} \cup AutoRespond : \E data, then : Respond(ins, code, data, then)

\* The screen of a run-step function entered at `step` that goes on at `next`.
AsksFor(ins, step, next) ==
  \E kind \in {"text", "prompt"} : \E what, callback :
    /\ Show(ins, Screen(kind, what, callback))
    /\ Owner(callback) = ins
    /\ TurnAt(step) <= TurnOf(what.head)
    /\ TurnOf(what.head) < TurnAt(next)

\* A failed assertion, or an error that no host is told.
Stops == \E cause : cause # NotCrashed /\ Crash(cause)

\* What a handler, or a run-step function entered at `step`, of instruction ins does
\* when its context afterwards is at `next`.
Moves(ins, step, next) ==
  /\ On /\ ~Sending
  /\ RespondsFor(ins) \/ AsksFor(ins, step, next) \/ Stops

-----------------------------------------------------------------------------
\* Between calls: ready for a request, or still telling the host that the last one
\* was for no instruction there is.
ErrorReply(e) == [code |-> e, data |-> NoData, then |-> "idle"]

Idle ==
  /\ display = Menu
  /\ \/ reply = NoReply /\ ioState = "IO" /\ ~awaiting
     \/ \E e \in AutoRespond : reply = ErrorReply(e) /\ ioState = "NONE" /\ awaiting
=============================================================================
