----------------------------- MODULE SignTxHistory -----------------------------
(***************************************************************************)
(* The inductive invariant behind the properties of SignTx that are about  *)
(* a whole call: what has been fed to the hash, what the user has seen of  *)
(* it, what it is worth, and how many signatures have been handed out.     *)
(* What the context and the history have to do with each other is said of  *)
(* a call that is live; the rest survives it.                              *)
(***************************************************************************)
EXTENDS SignTxSteps, Functions

(***************************************************************************)
(* The hash.                                                               *)
(***************************************************************************)
HasInputs(h, i) ==
  /\ h[1] = Token("tx")
  /\ h[2] = Token("inputs")
  /\ \A k \in 3 .. i + 2 : h[k].item = "input"

HasOutputs(h, i, o) ==
  /\ HasInputs(h, i)
  /\ h[i + 3] = Token("outputs")
  /\ \A k \in i + 4 .. i + o + 3 : h[k].item = "output"

\* The output under the screens of P1 = 3 has been hashed but not counted.
OutputsHashed(c, cb) == IF cb = "output" THEN c.currentOutput + 1 ELSE c.currentOutput

\* What has been fed to the hash is what has been counted.
HashedOk(c, cb) ==
  /\ c.stage = "NONE" => /\ c.hashed = <<Token("tx")>>
                         /\ c.currentInput = 0 /\ c.currentOutput = 0
  /\ c.stage = "INPUTS" => /\ c.currentOutput = 0
                           /\ Len(c.hashed) = c.currentInput + 2
                           /\ HasInputs(c.hashed, c.currentInput)
  /\ c.stage = "OUTPUTS" => LET o == OutputsHashed(c, cb)
                            IN /\ Len(c.hashed) = c.numInputs + o + 3
                               /\ HasOutputs(c.hashed, c.numInputs, o)
  /\ c.stage \in {"CONFIRM", "WITNESSES"} => IsTransaction(c.hashed, c.numInputs, c.numOutputs)

\* A finished hash is over all that has been hashed.
TxHashOk(c) == c.builder = "FINISHED" => c.txHash = c.hashed

(***************************************************************************)
(* The counts and the sums.                                                *)
(***************************************************************************)
BudgetOk(c, g) ==
  /\ c.numInputs = Truncated(g.announced.inputs)
  /\ g.signatures = c.currentWitness

SumsOk(c, g) ==
  /\ g.exactIn = c.sumAmountInputs
  /\ OutputsDoNotWrap(c.hashed) => g.exactOut = c.sumAmountOutputs

(***************************************************************************)
(* The screens about the transaction: t are those acknowledged, s are the  *)
(* outputs that must be seen, in the order in which they were hashed.      *)
(***************************************************************************)

\* As far as they go, the screens are those of the outputs.
Follows(t, s) ==
  /\ Len(t) >= 1 => t[1] = Says("StartNewTransaction")
  /\ \A k \in 1 .. Len(s) :
       /\ 2 * k <= Len(t) => t[2 * k] = SaysAmount("SendAda", s[k].amount)
       /\ 2 * k + 1 <= Len(t) => t[2 * k + 1] = SaysAddress("ToAddress", s[k].address)

\* Every output that must be seen has been.
AllSeen(t, s) == Len(t) = 2 * Len(s) + 1 /\ Follows(t, s)

\* The first prompt.
InitScreenOk(c, t, s, what) ==
  /\ t = <<>>
  /\ s = <<>>
  /\ what = Says("StartNewTransaction")

\* The last output is being shown.
OutputScreenOk(c, t, s, what) ==
  LET n == Len(s)
  IN /\ n >= 1
     /\ s[n] = OutputItem(c.currentAddress, c.currentAmount)
     /\ \/ /\ c.uiStep = "OUTPUT_DISPLAY_ADDRESS"
           /\ what = SaysAmount("SendAda", c.currentAmount)
           /\ Len(t) = 2 * n - 1 /\ Follows(t, s)
        \/ /\ c.uiStep = "OUTPUT_RESPOND"
           /\ what = SaysAddress("ToAddress", c.currentAddress)
           /\ Len(t) = 2 * n /\ Follows(t, s)

\* The fee, and then the final prompt, are being shown.
ConfirmScreenOk(c, t, s, what) ==
  LET fee == SaysAmount("TransactionFee", c.currentAmount)
  IN /\ c.sumAmountInputs > c.sumAmountOutputs
     /\ c.currentAmount = c.sumAmountInputs - c.sumAmountOutputs
     /\ \/ /\ c.uiStep = "CONFIRM_FINAL_CONFIRM"
           /\ what = fee
           /\ AllSeen(t, s)
        \/ /\ c.uiStep = "CONFIRM_RESPOND"
           /\ what = FinalPrompt
           /\ Len(t) = 2 * Len(s) + 2 /\ t[2 * Len(s) + 2] = fee /\ Follows(t, s)

\* A witness is being shown: the warning, then its path, then the prompt.
WitnessScreenOk(c, g, what) ==
  LET a == g.acknowledged
      n == Len(a)
      warning == Says("UnusualWitness")
      path == SaysPath("WitnessPath", c.currentPath)
  IN /\ c.currentWitnessData = getTxWitness(c, c.currentPath)
     /\ \/ c.uiStep = "WITNESS_DISPLAY" /\ what = warning
        \/ /\ c.uiStep = "WITNESS_CONFIRM" /\ what = path
           /\ n >= 1 /\ a[n] = warning
        \/ /\ c.uiStep = "WITNESS_RESPOND" /\ what = Says("SignUsingThisWitness")
           /\ n >= 2 /\ a[n - 1] = warning /\ a[n] = path

\* What the user has seen is what has been hashed, until it is confirmed.
SeenOk(c, g, cb, what) ==
  LET t == ScreensAboutTx(g.acknowledged)
      s == Seen(c.hashed)
  IN /\ c.stage # "WITNESSES" => g.confirmedHash = ZeroHash
     /\ cb = "init" => InitScreenOk(c, t, s, what)
     /\ cb = "output" => OutputScreenOk(c, t, s, what)
     /\ cb = "confirm" => ConfirmScreenOk(c, t, s, what)
     /\ cb = "witness" => WitnessScreenOk(c, g, what)
     /\ cb \in {"none", "witness"} /\ c.stage # "WITNESSES" => AllSeen(t, s)

-----------------------------------------------------------------------------
\* The context c and the history g of a live call whose user is looking at
\* the screen `what` with callback cb, or at none.
CallOk(c, g, cb, what) ==
  /\ HashedOk(c, cb)
  /\ TxHashOk(c)
  /\ BudgetOk(c, g)
  /\ SumsOk(c, g)
  /\ SeenOk(c, g, cb, what)

\* What follows a transmission goes with what is transmitted.
AnswerOk == reply.then = "witness" <=> reply.data.kind = "signature"

\* The inductive invariant, relative to Inv.
HistoryInv ==
  /\ Live => CallOk(ctx, ghost, NextCallback, display.what)
  /\ Live /\ Sending => AnswerOk
  /\ ghost.signatures <= ghost.announced.inputs
  /\ InputsAreCertified
  /\ HashIsWholeTransaction
  /\ UserSawTransaction
  /\ FeeIsExact
  /\ UnusualWitnessIsConfirmed

-----------------------------------------------------------------------------
(***************************************************************************)
(* The exact sums of the history are those of what has been hashed, also   *)
(* once it has been confirmed.  Inductive relative to Inv and HistoryInv.  *)
(***************************************************************************)
Items(h, kind) == {k \in DOMAIN h : h[k].item = kind}

InputAmounts(h) == [k \in Items(h, "input") |-> AmountOf[h[k].utxo]]
OutputAmounts(h) == [k \in Items(h, "output") |-> h[k].amount]

\* The inputs are among the UTxOs the host may name.
Named(h) == \A k \in Items(h, "input") : h[k].utxo \in Utxos

WorthOk(h, g) ==
  /\ Named(h)
  /\ g.exactIn = SumFunction(InputAmounts(h))
  /\ g.exactOut = SumFunction(OutputAmounts(h))

ConfirmedWorthOk(g) == g.confirmedHash # ZeroHash => WorthOk(g.confirmedHash, g)

WorthInv ==
  /\ Live => WorthOk(ctx.hashed, ghost)
  /\ ConfirmedWorthOk(ghost)

\* A step that makes another hash the confirmed one: it is what a live call, all
\* inputs of which are certified, has hashed.
ConfirmsHashed == Live /\ ghost'.confirmedHash = ctx.hashed

ConfirmationStep ==
  \/ ghost'.confirmedHash \in {ghost.confirmedHash, ZeroHash}
  \/ ConfirmsHashed
=============================================================================
