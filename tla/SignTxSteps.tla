----------------------------- MODULE SignTxSteps -----------------------------
(***************************************************************************)
(* The steps of SignTx seen from the call: the few ways in which a step    *)
(* that succeeds goes on from context c and history g, and everything else *)
(* lumped together as what ends the call or leaves it alone.  SignTxProofs *)
(* shows that there are no others; what is proved about the history of a   *)
(* call is proved once for each of them.                                   *)
(***************************************************************************)
EXTENDS SignTxInvariant, PlatformSteps

(***************************************************************************)
(* Where a step starts.                                                    *)
(***************************************************************************)

\* A request: to a call that it opens, or to one that waits for nothing else.
Begins(c, g) ==
  \/ IsNewCall /\ ~Live /\ c = ZeroContext /\ g = ZeroGhost
  \/ Live /\ ~WaitsForUser /\ ~Sending /\ c = ctx /\ g = ghost

\* A button under the screen of run-step function cb.
Presses(c, g, cb) ==
  /\ Live /\ WaitsForUser
  /\ display.callback = cb
  /\ c = ctx
  /\ g = [ghost EXCEPT
            !.acknowledged = Append(@, display.what),
            !.confirmedHash = IF display.what = FinalPrompt THEN ctx.txHash ELSE @]

(***************************************************************************)
(* Where it leads.                                                         *)
(***************************************************************************)
Leaves(c, g) == Live' /\ ctx' = c /\ ghost' = g /\ attested' = attested

Shows(what, cb, c, g) ==
  /\ WaitsForUser'
  /\ display'.what = what
  /\ display'.callback = cb
  /\ Leaves(c, g)

Answers(data, then, c, g) ==
  /\ Sending' /\ ~WaitsForUser'
  /\ reply' = [code |-> SUCCESS, data |-> data, then |-> then]
  /\ Leaves(c, g)

(***************************************************************************)
(* P1 = 1 and its prompt.                                                  *)
(***************************************************************************)
CountedContext(counts) ==
  [ZeroContext EXCEPT
     !.numInputs = Truncated(counts.inputs),
     !.numOutputs = Truncated(counts.outputs),
     !.numWitnesses = Truncated(counts.inputs),
     !.builder = "INIT", !.hashed = <<Token("tx")>>, !.uiStep = "INIT_RESPOND"]

StartsCall(counts) ==
  /\ Begins(ZeroContext, ZeroGhost)
  /\ CountsFit(CountedContext(counts))
  /\ Shows(Says("StartNewTransaction"), "init", CountedContext(counts),
           [ZeroGhost EXCEPT !.announced = counts])

OpensInputs(c, g) ==
  /\ Presses(c, g, "init")
  /\ Answers(NoData, "busy", [txHashBuilder_enterInputs(c) EXCEPT !.stage = "INPUTS"], g)

(***************************************************************************)
(* P1 = 2.                                                                 *)
(***************************************************************************)
WithInput(c, u) ==
  [c EXCEPT !.sumAmountInputs = SumWrapped(@, AmountOf[u]),
            !.hashed = Append(@, InputItem(u)),
            !.currentInput = @ + 1, !.uiStep = "INPUT_RESPOND"]

CountedInput(c) ==
  IF AllInputs(c) THEN [txHashBuilder_enterOutputs(c) EXCEPT !.stage = "OUTPUTS"] ELSE c

AddsInput(c, g, u) ==
  /\ Begins(c, g)
  /\ c.stage = "INPUTS"
  /\ IsCertified(u)
  /\ amountSum_accepts(c.sumAmountInputs, AmountOf[u])
  /\ Answers(NoData, "busy", CountedInput(WithInput(c, u)),
             [g EXCEPT !.exactIn = @ + AmountOf[u]])

(***************************************************************************)
(* P1 = 3 and its screens.                                                 *)
(***************************************************************************)
WithOutput(c, p, a, n, step) ==
  [c EXCEPT !.sumAmountOutputs = SumWrapped(@, n), !.currentAmount = n,
            !.currentPath = p, !.hashed = Append(@, OutputItem(a, n)),
            !.currentAddress = a, !.uiStep = step]

CountedOutput(c) ==
  LET next == [c EXCEPT !.currentOutput = @ + 1]
  IN IF next.currentOutput = next.numOutputs
     THEN [txHashBuilder_enterMetadata(next) EXCEPT !.stage = "CONFIRM"]
     ELSE next

AddsOutput(c, g, p, a, n) ==
  /\ Begins(c, g)
  /\ c.stage = "OUTPUTS"
  /\ amountSum_accepts(c.sumAmountOutputs, n)
  /\ LET h == [g EXCEPT !.exactOut = @ + n]
     IN \/ /\ MustBeSeen(OutputItem(a, n))
           /\ Shows(SaysAmount("SendAda", n), "output",
                    WithOutput(c, p, a, n, "OUTPUT_DISPLAY_ADDRESS"), h)
        \/ /\ ~MustBeSeen(OutputItem(a, n))
           /\ Answers(NoData, "busy",
                      CountedOutput(WithOutput(c, p, a, n, "OUTPUT_RESPOND")), h)

ShowsAddress(c, g) ==
  /\ Presses(c, g, "output")
  /\ c.uiStep = "OUTPUT_DISPLAY_ADDRESS"
  /\ Shows(SaysAddress("ToAddress", c.currentAddress), "output",
           [c EXCEPT !.uiStep = "OUTPUT_RESPOND"], g)

FinishesOutput(c, g) ==
  /\ Presses(c, g, "output")
  /\ c.uiStep = "OUTPUT_RESPOND"
  /\ Answers(NoData, "busy", CountedOutput(c), g)

(***************************************************************************)
(* P1 = 4 and its screens.                                                 *)
(***************************************************************************)
WithFee(c) ==
  [txHashBuilder_finalize(c) EXCEPT
     !.currentAmount = c.sumAmountInputs - c.sumAmountOutputs,
     !.uiStep = "CONFIRM_FINAL_CONFIRM"]

ShowsFee(c, g) ==
  /\ Begins(c, g)
  /\ c.stage = "CONFIRM"
  /\ c.sumAmountInputs > c.sumAmountOutputs
  /\ Shows(SaysAmount("TransactionFee", c.sumAmountInputs - c.sumAmountOutputs), "confirm",
           WithFee(c), g)

AsksToConfirm(c, g) ==
  /\ Presses(c, g, "confirm")
  /\ c.uiStep = "CONFIRM_FINAL_CONFIRM"
  /\ Shows(FinalPrompt, "confirm", [c EXCEPT !.uiStep = "CONFIRM_RESPOND"], g)

ReleasesHash(c, g) ==
  /\ Presses(c, g, "confirm")
  /\ c.uiStep = "CONFIRM_RESPOND"
  /\ Answers(HashData(c), "busy", [c EXCEPT !.stage = "WITNESSES"], g)

(***************************************************************************)
(* P1 = 5 and its screens.                                                 *)
(***************************************************************************)
WithWitness(c, p, step) ==
  [c EXCEPT !.currentPath = p, !.currentWitnessData = getTxWitness(c, p), !.uiStep = step]

MakesSignature(c, g, p) ==
  /\ Begins(c, g)
  /\ WitnessesLeft(c)
  /\ \/ /\ ~IsOrdinaryAddress(p)
        /\ Shows(Says("UnusualWitness"), "witness", WithWitness(c, p, "WITNESS_DISPLAY"), g)
     \/ /\ IsOrdinaryAddress(p)
        /\ Answers(getTxWitness(c, p), "witness", WithWitness(c, p, "WITNESS_RESPOND"), g)

ShowsWitnessPath(c, g) ==
  /\ Presses(c, g, "witness")
  /\ c.uiStep = "WITNESS_DISPLAY"
  /\ Shows(SaysPath("WitnessPath", c.currentPath), "witness",
           [c EXCEPT !.uiStep = "WITNESS_CONFIRM"], g)

AsksForWitness(c, g) ==
  /\ Presses(c, g, "witness")
  /\ c.uiStep = "WITNESS_CONFIRM"
  /\ Shows(Says("SignUsingThisWitness"), "witness", [c EXCEPT !.uiStep = "WITNESS_RESPOND"], g)

SendsWitness(c, g) ==
  /\ Presses(c, g, "witness")
  /\ c.uiStep = "WITNESS_RESPOND"
  /\ Answers(c.currentWitnessData, "witness", c, g)

(***************************************************************************)
(* An answer of SUCCESS has been transmitted and the call goes on.         *)
(***************************************************************************)
GoesOn ==
  /\ Live /\ Sending /\ reply.code = SUCCESS
  /\ ~WaitsForUser' /\ reply' = NoReply
  /\ \/ /\ reply.then = "busy"
        /\ Leaves([ctx EXCEPT !.uiStep = "INVALID"], ghost)
     \/ /\ reply.then = "witness"
        /\ ~LastWitness(ctx)
        /\ Leaves(WitnessSent(ctx), [ghost EXCEPT !.signatures = @ + 1])

(***************************************************************************)
(* The call ends, or there was none: with its last signature, or by an     *)
(* error, a rejection, a failed ASSERT or a reset.                         *)
(***************************************************************************)
BarelyBegun(c) == c.hashed = <<Token("tx")>> /\ c.txHash = ZeroHash

SameTransaction(c, d) ==
  /\ d.hashed = c.hashed
  /\ d.txHash = c.txHash
  /\ d.numInputs = c.numInputs
  /\ d.numOutputs = c.numOutputs

NoCall == ~Live' /\ ~WaitsForUser' /\ reply'.code # SUCCESS

Ends ==
  /\ NoCall
  /\ \/ \* a handler has thrown
        \E c \in Context, g \in Ghost :
          /\ Begins(c, g)
          /\ BarelyBegun(ctx') \/ SameTransaction(c, ctx')
          /\ ghost' = g
          /\ attested' = attested
     \/ \* the address or the path is too long for the screen after this one
        \E c \in Context, g \in Ghost :
          /\ Presses(c, g, "output") \/ Presses(c, g, "witness")
          /\ ctx' = c
          /\ ghost' = g
          /\ attested' = attested
     \/ \* the last signature has been transmitted
        /\ Live /\ Sending /\ reply.code = SUCCESS /\ reply.then = "witness"
        /\ LastWitness(ctx)
        /\ ctx' = WitnessSent(ctx)
        /\ ghost' = [ghost EXCEPT !.signatures = @ + 1]
        /\ attested' = attested
     \/ \* the main loop, the user or a reset
        /\ UNCHANGED <<ctx, ghost>>
        /\ \/ attested' = attested /\ On /\ currentInstruction' = currentInstruction
           \/ currentInstruction' = INS_NONE /\ attested' \in {attested, {}}

\* Nothing happens to the call.
Idles ==
  /\ UNCHANGED <<ctx, ghost, display, reply, crashed, currentInstruction>>
  /\ Live' = Live /\ WaitsForUser' = WaitsForUser
  /\ attested' = attested \/ (IsNewCall /\ attested \subseteq attested')

\* One of them is every step.
CallStep ==
  \/ \E counts \in [inputs: Nat, outputs: Nat] : StartsCall(counts)
  \/ \E c \in Context, g \in Ghost :
       \/ OpensInputs(c, g)
       \/ \E u \in Utxos : AddsInput(c, g, u)
       \/ \E p \in Path, a \in Address, n \in Amounts : AddsOutput(c, g, p, a, n)
       \/ ShowsAddress(c, g)
       \/ FinishesOutput(c, g)
       \/ ShowsFee(c, g)
       \/ AsksToConfirm(c, g)
       \/ ReleasesHash(c, g)
       \/ \E p \in Path : MakesSignature(c, g, p)
       \/ ShowsWitnessPath(c, g)
       \/ AsksForWitness(c, g)
       \/ SendsWitness(c, g)
  \/ GoesOn
  \/ Ends
  \/ Idles
=============================================================================
