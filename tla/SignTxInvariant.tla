-------------------------- MODULE SignTxInvariant --------------------------
(***************************************************************************)
(* The inductive invariant behind the safety properties of SignTx: which   *)
(* contexts an open call can have between two steps, and which screen or   *)
(* answer goes with them.                                                  *)
(***************************************************************************)
EXTENDS SignTx

\* The context of the open call will be used again: the call does not end with
\* the answer under way.
Live == On /\ currentInstruction = SIGN_TX /\ reply.then # "idle"

\* A screen is up and its button has not been pressed.
WaitsForUser == On /\ ~Sending /\ ioState = "UI"

\* The run-step function the user can enter next, if any.
NextCallback == IF WaitsForUser THEN display.callback ELSE "none"

-----------------------------------------------------------------------------
(***************************************************************************)
(* Contexts c with history g, when the user is looking at a screen with    *)
(* callback cb, or at none.                                                *)
(***************************************************************************)

\* What is expected next is below the announced count, so that no increment
\* leaves uint16_t or skips its limit; the sums are within the supply.
CountersOk(c) ==
  /\ c.numWitnesses = c.numInputs
  /\ c.currentWitness < c.numWitnesses
  /\ c.stage \in {"NONE", "INPUTS"} => c.currentInput < c.numInputs
  /\ c.stage \in {"NONE", "INPUTS", "OUTPUTS"} => c.currentOutput < c.numOutputs
  /\ c.sumAmountInputs <= MaxSupply
  /\ c.sumAmountOutputs <= MaxSupply

\* The hash builder is where the stage says it is.  A stage is NONE only under
\* the first prompt, and the hash is finished before CONFIRM is left only under
\* the screens of the confirmation.
BuilderOk(c, cb) ==
  /\ c.stage = "NONE" => c.builder = "INIT" /\ cb = "init"
  /\ c.stage = "INPUTS" => c.builder = "IN_INPUTS"
  /\ c.stage = "OUTPUTS" => c.builder = "IN_OUTPUTS"
  /\ c.stage = "CONFIRM" => c.builder = IF cb = "confirm" THEN "FINISHED" ELSE "IN_METADATA"
  /\ c.stage = "WITNESSES" => c.builder = "FINISHED"

\* There is a hash once the builder has finished, and in the stage of witnesses
\* it is the one the user has confirmed.
HashOk(c, g) ==
  /\ c.hashed # ZeroHash
  /\ c.txHash = ZeroHash <=> c.builder # "FINISHED"
  /\ c.stage = "WITNESSES" => c.txHash = g.confirmedHash

ContextOk(c, g, cb) == CountersOk(c) /\ BuilderOk(c, cb) /\ HashOk(c, g)

\* A signature is over the confirmed hash or over no hash.
SignatureOk(data, g) == data.hash \in {ZeroHash, g.confirmedHash}

\* A screen leads back to the step that its run-step function is at.
ScreenOk(c, g, what, cb) ==
  /\ cb # "confirm" => what # FinalPrompt
  /\ \/ cb = "init" /\ c.uiStep = "INIT_RESPOND" /\ c.stage = "NONE"
     \/ /\ cb = "output"
        /\ c.uiStep \in {"OUTPUT_DISPLAY_ADDRESS", "OUTPUT_RESPOND"}
        /\ c.stage = "OUTPUTS"
     \/ /\ cb = "confirm"
        /\ c.uiStep \in {"CONFIRM_FINAL_CONFIRM", "CONFIRM_RESPOND"}
        /\ c.uiStep = "CONFIRM_RESPOND" <=> what = FinalPrompt
        /\ c.stage = "CONFIRM"
     \/ /\ cb = "witness"
        /\ c.uiStep \in {"WITNESS_DISPLAY", "WITNESS_CONFIRM", "WITNESS_RESPOND"}
        /\ c.stage # "NONE"
        /\ c.currentWitnessData.kind = "signature"
        /\ SignatureOk(c.currentWitnessData, g)

\* What an answer of SUCCESS carries has been confirmed.
DataOk(data, g) ==
  /\ data.kind = "hash" => data.hash # ZeroHash /\ data.hash = g.confirmedHash
  /\ data.kind = "signature" => SignatureOk(data, g)

-----------------------------------------------------------------------------
ContextInv == Live => ContextOk(ctx, ghost, NextCallback)

ScreenInv ==
  WaitsForUser => /\ currentInstruction = SIGN_TX
                  /\ ScreenOk(ctx, ghost, display.what, display.callback)

\* An answer with an error ends the call, one with SUCCESS goes on with it.
ReplyInv ==
  Sending =>
    /\ reply.code = SUCCESS => /\ reply.then \in {"busy", "witness"}
                               /\ currentInstruction = SIGN_TX
                               /\ DataOk(reply.data, ghost)
    /\ reply.code # SUCCESS => reply.then = "idle" /\ reply.data = NoData

\* The application waits for exactly one of: a request, the user, the end of a
\* transmission.
ControlInv ==
  /\ OneAnswerPerRequest
  /\ NoStaleScreen
  /\ Sending => On /\ display.run
  /\ ~Sending => reply = NoReply
  /\ display.kind \in {"menu", "busy"} => display.run

\* The inductive invariant.
Inv ==
  /\ CallTypeOK
  /\ ControlInv
  /\ ContextInv
  /\ ScreenInv
  /\ ReplyInv
  /\ InternalAssertionsHold
=============================================================================
