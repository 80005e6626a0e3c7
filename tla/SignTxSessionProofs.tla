-------------------------- MODULE SignTxSessionProofs --------------------------
(***************************************************************************)
(* SignTx implements SigningSession: the first state maps to a first state *)
(* of the session, and each step of SignTxSteps to a step of the session   *)
(* or to none.                                                             *)
(***************************************************************************)
EXTENDS SignTxSession, SignTxHistoryProofs

-----------------------------------------------------------------------------
(***************************************************************************)
(* The items of a hash that stand for something.                           *)
(***************************************************************************)

\* An item that is hashed is one more of them, or is not.
LEMMA ContentAppend ==
  ASSUME NEW h \in Seq(Item), NEW it \in Item
  PROVE  /\ Content(h) \in Seq(Item)
         /\ Content(Append(h, it)) =
              IF IsInputOrOutput(it) THEN Append(Content(h), it) ELSE Content(h)
<1> DEFINE K == {k \in DOMAIN h : IsInputOrOutput(h[k])}
           t == Append(h, it)
           L == {k \in DOMAIN t : IsInputOrOutput(t[k])}
<1>1. /\ DOMAIN h = 1 .. Len(h) /\ DOMAIN t = 1 .. Len(h) + 1 /\ Len(h) \in Nat
      /\ t[Len(h) + 1] = it
      /\ \A i \in 1 .. Len(h) : t[i] = h[i]
  BY AppendProperties, LenProperties
<1>2. \A i \in 1 .. Len(h) : i \in K <=> i \in L
  BY <1>1
<1>3. Len(h) + 1 \in L <=> IsInputOrOutput(it)
  BY <1>1
<1> HIDE DEF K, L
<1>4. /\ Selected(h, K) \in Seq(Item)
      /\ Selected(t, L) = IF Len(h) + 1 \in L THEN Append(Selected(h, K), it) ELSE Selected(h, K)
  BY <1>2, SelectedType, SelectedAppend
<1> QED
  BY <1>3, <1>4 DEF Content, K, L

\* Tokens stand for nothing.
LEMMA ContentOfTokens ==
  /\ Content(<<>>) = <<>>
  /\ Content(<<Token("tx")>>) = <<>>
  /\ \A t \in {"tx", "inputs", "outputs", "metadata"} : ~IsInputOrOutput(Token(t))
<1>1. Content(<<>>) = <<>>
  BY SelectedEmpty DEF Content
<1>2. \A t \in {"tx", "inputs", "outputs", "metadata"} : ~IsInputOrOutput(Token(t))
  BY DEF IsInputOrOutput, Token
<1>3. Token("tx") \in Item /\ <<>> \in Seq(Item) /\ Append(<<>>, Token("tx")) = <<Token("tx")>>
  BY TokenType
<1>4. Content(Append(<<>>, Token("tx"))) = Content(<<>>)
  BY <1>2, <1>3, ContentAppend
<1> QED
  BY <1>1, <1>2, <1>3, <1>4, Zenon

\* One item more is one item more of the proposal.
LEMMA OneMoreItem ==
  ASSUME NEW s \in Seq(Item), NEW it \in Item
  PROVE  /\ Len(Append(s, it)) = Len(s) + 1
         /\ Session!IsPrefix(s, Append(s, it))
         /\ Session!Last(Append(s, it)) = it
<1> DEFINE t == Append(s, it)
<1>1. /\ t \in Seq(Item) /\ Len(t) = Len(s) + 1 /\ t[Len(s) + 1] = it /\ Len(s) \in Nat
      /\ \A i \in 1 .. Len(s) : t[i] = s[i]
  BY AppendProperties, LenProperties
<1>2. SubSeq(s, 1, Len(s)) = SubSeq(t, 1, Len(s))
  <2>1. /\ SubSeq(s, 1, Len(s)) = [i \in 1 .. Len(s) |-> s[i]]
        /\ SubSeq(t, 1, Len(s)) = [i \in 1 .. Len(s) |-> t[i]]
    BY <1>1
  <2> QED
    BY <1>1, <2>1
<1> QED
  BY <1>1, <1>2 DEF Session!IsPrefix, Session!Last

-----------------------------------------------------------------------------
(***************************************************************************)
(* The state of the session.                                               *)
(***************************************************************************)
Silent == [kind |-> "none"]
Emission(data) ==
  IF data.kind \in {"hash", "signature"}
  THEN [kind |-> data.kind, over |-> Content(data.hash)]
  ELSE Silent

\* The state of the session that stands for context c and history g.
SessionIs(c, g, emission) ==
  /\ InSession
  /\ Proposal = Content(c.hashed)
  /\ Agreement = Content(g.confirmedHash)
  /\ SignaturesLeft = c.numWitnesses - c.currentWitness
  /\ Emitted = emission

\* It is under way while the call is live.
LEMMA LiveSession ==
  ASSUME Live, ctx \in Context, ContextOk(ctx, ghost, NextCallback)
  PROVE  SessionIs(ctx, ghost, IF Sending THEN Emission(reply.data) ELSE Silent)
<1>1. ctx.numWitnesses > 0
  BY DEF ContextOk, CountersOk, Context, Counts
<1> QED
  BY <1>1 DEF SessionIs, InSession, Proposal, Agreement, SignaturesLeft, Emitted, Emission,
              Silent

\* There is none without a live call.
LEMMA NoSession ==
  ASSUME ~Live
  PROVE  /\ ~InSession /\ Proposal = <<>> /\ Agreement = <<>> /\ SignaturesLeft = 0
         /\ Emitted = Silent
  BY DEF InSession, Proposal, Agreement, SignaturesLeft, Emitted, Silent

\* A request meets the session of its call,
LEMMA BeginsSession ==
  ASSUME Inv, HistoryInv, NEW c, NEW g, Begins(c, g), c.stage # "NONE" \/ WitnessesLeft(c)
  PROVE  SessionIs(c, g, Silent)
<1>1. c = ctx /\ g = ghost /\ c \in Context
  BY BeginsOld
<1>2. Live /\ ~Sending
  BY DEF Begins, ZeroContext, WitnessesLeft
<1>3. ContextOk(ctx, ghost, NextCallback)
  BY <1>2 DEF Inv, ContextInv
<1> QED
  BY <1>1, <1>2, <1>3, LiveSession

\* and so does a button.
LEMMA PressesSession ==
  ASSUME Inv, HistoryInv, NEW c, NEW g, NEW cb, Presses(c, g, cb)
  PROVE  SessionIs(c, ghost, Silent)
<1>1. c = ctx /\ c \in Context
  BY PressesOld
<1>2. Live /\ ~Sending
  BY DEF Presses, WaitsForUser
<1>3. ContextOk(ctx, ghost, NextCallback)
  BY <1>2 DEF Inv, ContextInv
<1> QED
  BY <1>1, <1>2, <1>3, LiveSession

\* A screen tells the host nothing,
LEMMA ShowsSession ==
  ASSUME Inv', NEW c, NEW g, NEW what, NEW cb, Shows(what, cb, c, g)
  PROVE  SessionIs(c, g, Silent)' /\ attested' = attested
<1>1. /\ Live' /\ ctx' = c /\ ghost' = g /\ attested' = attested
      /\ ~Sending' /\ c \in Context
  BY DEF Shows, Leaves, WaitsForUser, Inv, CallTypeOK
<1>2. ctx'.numWitnesses > 0
  <2>1. ContextOk(ctx', ghost', NextCallback')
    BY <1>1 DEF Inv, ContextInv
  <2> QED
    BY <1>1, <2>1 DEF ContextOk, CountersOk, Context, Counts
<1> QED
  BY <1>1, <1>2 DEF SessionIs, InSession, Proposal, Agreement, SignaturesLeft, Emitted, Silent

\* an answer what it carries.
LEMMA AnswersSession ==
  ASSUME Inv', NEW c, NEW g, NEW data, NEW then, Answers(data, then, c, g)
  PROVE  SessionIs(c, g, Emission(data))' /\ attested' = attested
<1>1. /\ Live' /\ ctx' = c /\ ghost' = g /\ attested' = attested
      /\ Sending' /\ reply'.data = data /\ c \in Context
  BY DEF Answers, Leaves, Inv, CallTypeOK
<1>2. ctx'.numWitnesses > 0
  <2>1. ContextOk(ctx', ghost', NextCallback')
    BY <1>1 DEF Inv, ContextInv
  <2> QED
    BY <1>1, <2>1 DEF ContextOk, CountersOk, Context, Counts
<1> QED
  BY <1>1, <1>2 DEF SessionIs, InSession, Proposal, Agreement, SignaturesLeft, Emitted,
                    Emission, Silent

-----------------------------------------------------------------------------
(***************************************************************************)
(* The steps of the session.                                               *)
(***************************************************************************)
SessionStep == [Session!Next]_(Session!vars)

\* What a context and a history stand for in the session.
SameSession(c, g, d, h) ==
  /\ Content(d.hashed) = Content(c.hashed)
  /\ Content(h.confirmedHash) = Content(g.confirmedHash)
  /\ d.numWitnesses = c.numWitnesses
  /\ d.currentWitness = c.currentWitness

\* From a context to another that stands for the same.
LEMMA SilentStep ==
  ASSUME NEW c, NEW g, NEW d, NEW h, SessionIs(c, g, Silent), SessionIs(d, h, Silent)',
         attested' = attested, SameSession(c, g, d, h)
  PROVE  SessionStep
<1>1. /\ InSession' = InSession /\ Proposal' = Proposal /\ Agreement' = Agreement
      /\ SignaturesLeft' = SignaturesLeft /\ Emitted' = Emitted
  BY DEF SessionIs, SameSession
<1> QED
  BY <1>1 DEF SessionStep, Session!vars

\* Without a session before and after.
LEMMA NoSessionStep ==
  ASSUME ~Live, ~Live', attested' \in {attested, {}} \/ attested \subseteq attested'
  PROVE  SessionStep
<1>1. /\ ~InSession /\ Proposal = <<>> /\ Agreement = <<>> /\ SignaturesLeft = 0
      /\ Emitted = Silent
  BY NoSession
<1>2. /\ ~InSession' /\ Proposal' = <<>> /\ Agreement' = <<>> /\ SignaturesLeft' = 0
      /\ Emitted' = Silent
  BY DEF InSession, Proposal, Agreement, SignaturesLeft, Emitted, Silent
<1>3. InSession' = InSession
  BY <1>1, <1>2 DEF InSession
<1>4. CASE attested' = attested
  BY <1>1, <1>2, <1>3, <1>4 DEF SessionStep, Session!vars
<1>5. CASE attested' = {}
  BY <1>1, <1>2, <1>3, <1>5 DEF SessionStep, Session!Next, Session!Forget
<1>6. CASE attested \subseteq attested'
  BY <1>1, <1>2, <1>3, <1>6 DEF SessionStep, Session!Next, Session!Vouch
<1> QED
  BY <1>4, <1>5, <1>6

\* P1 = 1 opens the session.
LEMMA StartsCallSession ==
  ASSUME Inv, Inv', NEW counts \in [inputs: Nat, outputs: Nat], StartsCall(counts)
  PROVE  SessionStep
<1> DEFINE c == CountedContext(counts)
           g == [ZeroGhost EXCEPT !.announced = counts]
           what == Says("StartNewTransaction")
<1>1. ~Live /\ Shows(what, "init", c, g) /\ CountsFit(c)
  <2>1. Begins(ZeroContext, ZeroGhost) /\ Shows(what, "init", c, g) /\ CountsFit(c)
    BY DEF StartsCall
  <2>2. ~ContextOk(ZeroContext, ghost, NextCallback)
    BY DEF ContextOk, CountersOk, ZeroContext
  <2> QED
    BY <2>1, <2>2 DEF Begins, Inv, ContextInv
<1>2. /\ c.hashed = <<Token("tx")>> /\ c.numWitnesses = c.numInputs /\ c.currentWitness = 0
      /\ c.numInputs = Truncated(counts.inputs) /\ g.confirmedHash = <<>>
  BY DEF CountedContext, ZeroContext, ZeroGhost, ZeroHash
<1>3. counts.inputs \in Nat
  OBVIOUS
<1>4. SessionIs(c, g, Silent)' /\ attested' = attested
  BY <1>1, ShowsSession
<1> HIDE DEF c, g, what
<1>5. c.numWitnesses - c.currentWitness \in Nat \ {0}
  BY <1>1, <1>2, <1>3, TruncatedIsLess DEF CountsFit
<1>6. Content(c.hashed) = <<>> /\ Content(g.confirmedHash) = <<>>
  BY <1>2, ContentOfTokens
<1>7. /\ ~InSession /\ Proposal = <<>> /\ Agreement = <<>> /\ SignaturesLeft = 0
      /\ Emitted = Silent
  BY <1>1, NoSession
<1>8. Session!Open
  BY <1>4, <1>5, <1>6, <1>7 DEF SessionIs, Session!Open
<1> QED
  BY <1>8 DEF SessionStep, Session!Next

\* An answer of no data is as silent as a screen.
LEMMA SilentAnswer ==
  ASSUME Inv', NEW c, NEW g, Answers(NoData, "busy", c, g)
  PROVE  SessionIs(c, g, Silent)' /\ attested' = attested
<1>1. Emission(NoData) = Silent
  BY DEF Emission, NoData
<1>2. SessionIs(c, g, Emission(NoData))' /\ attested' = attested
  BY AnswersSession
<1> QED
  BY <1>1, <1>2, Zenon DEF SessionIs

\* A button under any screen but the final prompt confirms no hash.
LEMMA ConfirmsNothing ==
  ASSUME Inv, HistoryInv, NEW c, NEW g, NEW cb, Presses(c, g, cb),
         cb # "confirm" \/ c.uiStep # "CONFIRM_RESPOND"
  PROVE  g.confirmedHash = ghost.confirmedHash
<1> DEFINE what == display.what
<1>1. /\ c \in Context /\ ghost \in Ghost /\ what \in Saying
      /\ g = Acknowledged(c, ghost, what) /\ ScreenOk(c, ghost, what, cb)
  BY PressesOld
<1>2. what # FinalPrompt
  BY <1>1 DEF ScreenOk
<1> HIDE DEF what
<1>3. g.confirmedHash = IF what = FinalPrompt THEN c.txHash ELSE ghost.confirmedHash
  BY <1>1, AcknowledgedFields
<1> QED
  BY <1>2, <1>3

\* What has been hashed stays, but for a token.
HashedAsBefore(c, d) ==
  /\ \/ d.hashed = c.hashed
     \/ \E t \in {"tx", "inputs", "outputs", "metadata"} :
          d.hashed = Append(c.hashed, Token(t))
  /\ d.numWitnesses = c.numWitnesses
  /\ d.currentWitness = c.currentWitness

\* The proposal of the session does not change when a button or a witness is handled:
\* at most the end of the encoding is added to the hash.
LEMMA ContentAsBefore ==
  ASSUME NEW c, c.hashed \in Seq(Item), NEW d, HashedAsBefore(c, d)
  PROVE  Content(d.hashed) = Content(c.hashed)
<1>1. CASE d.hashed = c.hashed
  BY <1>1
<1>2. ASSUME NEW t \in {"tx", "inputs", "outputs", "metadata"},
             d.hashed = Append(c.hashed, Token(t))
      PROVE  Content(d.hashed) = Content(c.hashed)
  <2>1. ~IsInputOrOutput(Token(t)) /\ Token(t) \in Item /\ c.hashed \in Seq(Item)
    BY <1>2, ContentOfTokens, TokenType
  <2>2. Content(Append(c.hashed, Token(t))) = Content(c.hashed)
    BY <2>1, ContentAppend
  <2> QED
    BY <1>2, <2>2
<1> QED
  BY <1>1, <1>2 DEF HashedAsBefore

\* A button that leads to another screen or to an answer of no data is nothing to
\* the session,
LEMMA PressIsSilent ==
  ASSUME Inv, HistoryInv, Inv', NEW c, NEW g, NEW cb, Presses(c, g, cb),
         cb # "confirm" \/ c.uiStep # "CONFIRM_RESPOND",
         NEW d, HashedAsBefore(c, d),
         \/ \E what, cb2 : Shows(what, cb2, d, g)
         \/ Answers(NoData, "busy", d, g)
  PROVE  SessionStep
<1>1. SessionIs(c, ghost, Silent) /\ c \in Context
  BY PressesSession, PressesOld
<1>2. SessionIs(d, g, Silent)' /\ attested' = attested
  BY ShowsSession, SilentAnswer
<1>3. Content(d.hashed) = Content(c.hashed) /\ g.confirmedHash = ghost.confirmedHash
  BY <1>1, ContentAsBefore, ConfirmsNothing DEF Context
<1>4. PICK h : h = ghost /\ SessionIs(c, h, Silent)
  BY <1>1
<1>5. SameSession(c, h, d, g)
  BY <1>3, <1>4 DEF SameSession, HashedAsBefore
<1> QED
  BY <1>2, <1>4, <1>5, SilentStep

\* and so is a request that leads to a screen.
LEMMA RequestIsSilent ==
  ASSUME Inv, HistoryInv, Inv', NEW c, NEW g, Begins(c, g), c.stage # "NONE" \/ WitnessesLeft(c),
         NEW d, HashedAsBefore(c, d), NEW what, NEW cb, Shows(what, cb, d, g)
  PROVE  SessionStep
<1>1. SessionIs(c, g, Silent) /\ c \in Context
  BY BeginsSession, BeginsOld
<1>2. SessionIs(d, g, Silent)' /\ attested' = attested
  BY ShowsSession
<1>3. SameSession(c, g, d, g)
  BY <1>1, ContentAsBefore DEF SameSession, HashedAsBefore, Context
<1> QED
  BY <1>1, <1>2, <1>3, SilentStep

-----------------------------------------------------------------------------
(***************************************************************************)
(* Steps that are nothing to the session.                                  *)
(***************************************************************************)
LEMMA OpensInputsSession ==
  ASSUME Inv, HistoryInv, Inv', NEW c, NEW g, OpensInputs(c, g)
  PROVE  SessionStep
<1> DEFINE d == [txHashBuilder_enterInputs(c) EXCEPT !.stage = "INPUTS"]
<1>1. Presses(c, g, "init") /\ Answers(NoData, "busy", d, g)
  BY DEF OpensInputs
<1>2. HashedAsBefore(c, d)
  BY <1>1, PressesOld DEF HashedAsBefore, txHashBuilder_enterInputs, Context
<1> QED
  BY <1>1, <1>2, PressIsSilent

\* Showing the address of an output is a stutter of the session.
LEMMA ShowsAddressSession ==
  ASSUME Inv, HistoryInv, Inv', NEW c, NEW g, ShowsAddress(c, g)
  PROVE  SessionStep
<1> DEFINE d == [c EXCEPT !.uiStep = "OUTPUT_RESPOND"]
           what == SaysAddress("ToAddress", c.currentAddress)
<1>1. Presses(c, g, "output") /\ Shows(what, "output", d, g)
  BY DEF ShowsAddress
<1>2. HashedAsBefore(c, d)
  BY <1>1, PressesOld DEF HashedAsBefore, Context
<1> QED
  BY <1>1, <1>2, PressIsSilent

\* Acknowledging an output is a stutter of the session: it was proposed when it was sent.
LEMMA FinishesOutputSession ==
  ASSUME Inv, HistoryInv, Inv', NEW c, NEW g, FinishesOutput(c, g)
  PROVE  SessionStep
<1> DEFINE d == CountedOutput(c)
<1>1. Presses(c, g, "output") /\ Answers(NoData, "busy", d, g)
  BY DEF FinishesOutput
<1>2. HashedAsBefore(c, d)
  BY <1>1, PressesOld DEF HashedAsBefore, CountedOutput, txHashBuilder_enterMetadata, Context
<1> QED
  BY <1>1, <1>2, PressIsSilent

\* Showing the fee is a stutter of the session.
LEMMA ShowsFeeSession ==
  ASSUME Inv, HistoryInv, Inv', NEW c, NEW g, ShowsFee(c, g)
  PROVE  SessionStep
<1> DEFINE d == WithFee(c)
           what == SaysAmount("TransactionFee", c.sumAmountInputs - c.sumAmountOutputs)
<1>1. Begins(c, g) /\ c.stage = "CONFIRM" /\ Shows(what, "confirm", d, g)
  BY DEF ShowsFee
<1>2. HashedAsBefore(c, d)
  BY <1>1, BeginsOld DEF HashedAsBefore, WithFee, txHashBuilder_finalize, Context
<1> QED
  BY <1>1, <1>2, RequestIsSilent

\* Putting the last question is a stutter of the session: nothing is agreed to yet.
LEMMA AsksToConfirmSession ==
  ASSUME Inv, HistoryInv, Inv', NEW c, NEW g, AsksToConfirm(c, g)
  PROVE  SessionStep
<1> DEFINE d == [c EXCEPT !.uiStep = "CONFIRM_RESPOND"]
<1>1. /\ Presses(c, g, "confirm") /\ c.uiStep = "CONFIRM_FINAL_CONFIRM"
      /\ Shows(FinalPrompt, "confirm", d, g)
  BY DEF AsksToConfirm
<1>2. HashedAsBefore(c, d)
  BY <1>1, PressesOld DEF HashedAsBefore, Context
<1> QED
  BY <1>1, <1>2, PressIsSilent

\* Showing the path of a witness is a stutter of the session.
LEMMA ShowsWitnessPathSession ==
  ASSUME Inv, HistoryInv, Inv', NEW c, NEW g, ShowsWitnessPath(c, g)
  PROVE  SessionStep
<1> DEFINE d == [c EXCEPT !.uiStep = "WITNESS_CONFIRM"]
           what == SaysPath("WitnessPath", c.currentPath)
<1>1. Presses(c, g, "witness") /\ Shows(what, "witness", d, g)
  BY DEF ShowsWitnessPath
<1>2. HashedAsBefore(c, d)
  BY <1>1, PressesOld DEF HashedAsBefore, Context
<1> QED
  BY <1>1, <1>2, PressIsSilent

\* Asking for a signature is a stutter of the session: none has been given.
LEMMA AsksForWitnessSession ==
  ASSUME Inv, HistoryInv, Inv', NEW c, NEW g, AsksForWitness(c, g)
  PROVE  SessionStep
<1> DEFINE d == [c EXCEPT !.uiStep = "WITNESS_RESPOND"]
<1>1. Presses(c, g, "witness") /\ Shows(Says("SignUsingThisWitness"), "witness", d, g)
  BY DEF AsksForWitness
<1>2. HashedAsBefore(c, d)
  BY <1>1, PressesOld DEF HashedAsBefore, Context
<1> QED
  BY <1>1, <1>2, PressIsSilent

-----------------------------------------------------------------------------
(***************************************************************************)
(* Steps of the proposal.                                                  *)
(***************************************************************************)

\* One item more, before there is an agreement.
LEMMA ProposeStep ==
  ASSUME NEW c, NEW g, NEW d, NEW h, SessionIs(c, g, Silent), SessionIs(d, h, Silent)',
         attested' = attested,
         Content(c.hashed) \in Seq(Item), NEW it \in Item,
         Content(d.hashed) = Append(Content(c.hashed), it),
         it.item = "input" => it.utxo \in attested,
         g.confirmedHash = ZeroHash, h.confirmedHash = ZeroHash,
         d.numWitnesses = c.numWitnesses, d.currentWitness = c.currentWitness
  PROVE  SessionStep
<1>1. /\ InSession /\ InSession' /\ InSession' = InSession
      /\ Proposal = Content(c.hashed) /\ Proposal' = Append(Content(c.hashed), it)
      /\ SignaturesLeft' = SignaturesLeft /\ Emitted' = Emitted
  BY DEF SessionIs
<1>2. Agreement = <<>> /\ Agreement' = <<>>
  BY ContentOfTokens DEF SessionIs, ZeroHash
<1>3. /\ Len(Proposal') = Len(Proposal) + 1
      /\ Session!IsPrefix(Proposal, Proposal')
      /\ Session!Last(Proposal') = it
  <2>1. PICK s \in Seq(Item) : s = Content(c.hashed)
    OBVIOUS
  <2>2. /\ Len(Append(s, it)) = Len(s) + 1 /\ Session!IsPrefix(s, Append(s, it))
        /\ Session!Last(Append(s, it)) = it
    BY OneMoreItem
  <2> QED
    BY <1>1, <2>1, <2>2, Zenon
<1>4. Session!Propose
  BY <1>1, <1>2, <1>3 DEF Session!Propose, Session!Nothing
<1> QED
  BY <1>4 DEF SessionStep, Session!Next

\* P1 = 2 proposes an input,
LEMMA AddsInputSession ==
  ASSUME Inv, HistoryInv, Inv', NEW c, NEW g, NEW u \in Utxos, AddsInput(c, g, u)
  PROVE  SessionStep
<1> DEFINE w == WithInput(c, u)
           d == CountedInput(w)
           h == [g EXCEPT !.exactIn = @ + AmountOf[u]]
           it == InputItem(u)
<1>1. /\ Begins(c, g) /\ c.stage = "INPUTS" /\ u \in attested
      /\ Answers(NoData, "busy", d, h)
  BY DEF AddsInput, IsCertified
<1>2. /\ c \in Context /\ g \in Ghost
      /\ CallOk(c, g, "none", display.what)
      /\ SessionIs(c, g, Silent)
  BY <1>1, BeginsOld, BeginsSession
<1>3. SessionIs(d, h, Silent)' /\ attested' = attested
  BY <1>1, SilentAnswer
<1>4. /\ w.hashed = Append(c.hashed, it)
      /\ w.numWitnesses = c.numWitnesses /\ w.currentWitness = c.currentWitness
  BY <1>2 DEF WithInput, Context
<1>5. HashedAsBefore(w, d)
  BY <1>2 DEF HashedAsBefore, CountedInput, txHashBuilder_enterOutputs, WithInput, Context
<1>6. /\ it \in Item /\ it.utxo = u /\ IsInputOrOutput(it) /\ c.hashed \in Seq(Item)
  BY <1>2, InputItemType DEF InputItem, Token, IsInputOrOutput, Context
<1>7. g.confirmedHash = ZeroHash /\ h.confirmedHash = ZeroHash
  BY <1>1, <1>2 DEF CallOk, SeenOk, Ghost
<1> HIDE DEF w, d, h, it
<1>8. Content(c.hashed) \in Seq(Item) /\ Content(w.hashed) = Append(Content(c.hashed), it)
  BY <1>4, <1>6, ContentAppend
<1>9. Content(d.hashed) = Append(Content(c.hashed), it)
  <2>1. w.hashed \in Seq(Item)
    BY <1>4, <1>6, AppendToHash
  <2>2. Content(d.hashed) = Content(w.hashed)
    BY <1>5, <2>1, ContentAsBefore
  <2> QED
    BY <1>8, <2>2
<1>10. d.numWitnesses = c.numWitnesses /\ d.currentWitness = c.currentWitness
  BY <1>4, <1>5 DEF HashedAsBefore
<1> QED
  BY <1>1, <1>2, <1>3, <1>6, <1>7, <1>8, <1>9, <1>10, ProposeStep

\* P1 = 3 an output, whether it is shown or not.
LEMMA AddsOutputSession ==
  ASSUME Inv, HistoryInv, Inv', NEW c, NEW g,
         NEW p \in Path, NEW a \in Address, NEW n \in Amounts, AddsOutput(c, g, p, a, n)
  PROVE  SessionStep
<1> DEFINE w(step) == WithOutput(c, p, a, n, step)
           h == [g EXCEPT !.exactOut = @ + n]
           it == OutputItem(a, n)
<1>1. /\ Begins(c, g) /\ c.stage = "OUTPUTS"
      /\ \/ Shows(SaysAmount("SendAda", n), "output", w("OUTPUT_DISPLAY_ADDRESS"), h)
         \/ Answers(NoData, "busy", CountedOutput(w("OUTPUT_RESPOND")), h)
  BY DEF AddsOutput
<1>2. /\ c \in Context /\ g \in Ghost
      /\ CallOk(c, g, "none", display.what)
      /\ SessionIs(c, g, Silent)
  BY <1>1, BeginsOld, BeginsSession
<1>3. PICK step, d :
        /\ d = w(step) \/ d = CountedOutput(w(step))
        /\ SessionIs(d, h, Silent)' /\ attested' = attested
  <2>1. CASE Shows(SaysAmount("SendAda", n), "output", w("OUTPUT_DISPLAY_ADDRESS"), h)
    BY <2>1, ShowsSession
  <2>2. CASE Answers(NoData, "busy", CountedOutput(w("OUTPUT_RESPOND")), h)
    BY <2>2, SilentAnswer
  <2> QED
    BY <1>1, <2>1, <2>2
<1>4. /\ w(step).hashed = Append(c.hashed, it)
      /\ w(step).numWitnesses = c.numWitnesses /\ w(step).currentWitness = c.currentWitness
  BY <1>2 DEF WithOutput, Context
<1>5. HashedAsBefore(w(step), d)
  BY <1>2, <1>3 DEF HashedAsBefore, CountedOutput, txHashBuilder_enterMetadata, WithOutput,
                    Context
<1>6. it \in Item /\ it.item # "input" /\ IsInputOrOutput(it) /\ c.hashed \in Seq(Item)
  BY <1>2, OutputItemType DEF OutputItem, Token, IsInputOrOutput, Context
<1>7. g.confirmedHash = ZeroHash /\ h.confirmedHash = ZeroHash
  BY <1>1, <1>2 DEF CallOk, SeenOk, Ghost
<1> HIDE DEF w, h, it
<1>8. Content(c.hashed) \in Seq(Item) /\ Content(w(step).hashed) = Append(Content(c.hashed), it)
  BY <1>4, <1>6, ContentAppend
<1>9. Content(d.hashed) = Append(Content(c.hashed), it)
  <2>1. w(step).hashed \in Seq(Item)
    BY <1>4, <1>6, AppendToHash
  <2>2. Content(d.hashed) = Content(w(step).hashed)
    BY <1>5, <2>1, ContentAsBefore
  <2> QED
    BY <1>8, <2>2
<1>10. d.numWitnesses = c.numWitnesses /\ d.currentWitness = c.currentWitness
  BY <1>4, <1>5 DEF HashedAsBefore
<1> QED
  BY <1>1, <1>2, <1>3, <1>6, <1>7, <1>8, <1>9, <1>10, ProposeStep

-----------------------------------------------------------------------------
(***************************************************************************)
(* Steps of the agreement and the signatures.                              *)
(***************************************************************************)

\* A whole transaction has inputs.
LEMMA WholeIsSomething ==
  ASSUME NEW h \in Seq(Item), NEW i \in Nat \ {0}, NEW o \in Nat, IsTransaction(h, i, o)
  PROVE  Content(h) # <<>>
<1> DEFINE K == {k \in DOMAIN h : IsInputOrOutput(h[k])}
<1>1. 3 \in 1 .. Len(h) /\ DOMAIN h = 1 .. Len(h) /\ h[3].item = "input"
  BY LenProperties DEF IsTransaction
<1>2. 3 \in K
  BY <1>1 DEF IsInputOrOutput
<1> HIDE DEF K
<1>3. Selected(h, K) # <<>>
  BY <1>1, <1>2, SelectedSome
<1> QED
  BY <1>3 DEF Content, K

\* The user agrees to what has been proposed, and the hash of it is sent.
LEMMA ReleasesHashSession ==
  ASSUME Inv, HistoryInv, Inv', NEW c, NEW g, ReleasesHash(c, g)
  PROVE  SessionStep
<1> DEFINE d == [c EXCEPT !.stage = "WITNESSES"]
           what == display.what
<1>1. /\ Presses(c, g, "confirm") /\ c.uiStep = "CONFIRM_RESPOND"
      /\ Answers(HashData(c), "busy", d, g)
  BY DEF ReleasesHash
<1>2. /\ c \in Context /\ ghost \in Ghost /\ what \in Saying
      /\ g = Acknowledged(c, ghost, what)
      /\ ContextOk(c, ghost, "confirm")
      /\ ScreenOk(c, ghost, what, "confirm")
      /\ CallOk(c, ghost, "confirm", what)
      /\ SessionIs(c, ghost, Silent)
  BY <1>1, PressesOld, PressesSession
<1>3. SessionIs(d, g, Emission(HashData(c)))' /\ attested' = attested
  BY <1>1, AnswersSession
<1>4. what = FinalPrompt /\ c.stage = "CONFIRM"
  BY <1>1, <1>2 DEF ScreenOk
<1>5. g.confirmedHash = c.txHash
  <2>1. g.confirmedHash = IF what = FinalPrompt THEN c.txHash ELSE ghost.confirmedHash
    BY <1>2, AcknowledgedFields
  <2> QED
    BY <1>4, <2>1
<1>6. c.txHash = c.hashed /\ ghost.confirmedHash = <<>>
      /\ IsTransaction(c.hashed, c.numInputs, c.numOutputs)
  BY <1>2, <1>4 DEF CallOk, TxHashOk, HashedOk, SeenOk, ContextOk, BuilderOk, ZeroHash
<1>7. Content(c.hashed) # <<>>
  <2>1. c.hashed \in Seq(Item) /\ c.numInputs \in Nat \ {0} /\ c.numOutputs \in Nat
    BY <1>2 DEF Context, Counts, ContextOk, CountersOk
  <2> QED
    BY <1>6, <2>1, WholeIsSomething
<1>8. /\ d.hashed = c.hashed /\ d.numWitnesses = c.numWitnesses
      /\ d.currentWitness = c.currentWitness
  BY <1>2 DEF Context
<1>9. Emission(HashData(c)) = [kind |-> "hash", over |-> Content(c.txHash)]
  BY DEF Emission, HashData
<1> HIDE DEF d, what
<1>10. /\ InSession /\ InSession' = InSession
       /\ Proposal = Content(c.hashed) /\ Proposal' = Proposal
       /\ Agreement = <<>> /\ Agreement' = Proposal
       /\ SignaturesLeft' = SignaturesLeft
  BY <1>2, <1>3, <1>5, <1>6, <1>8, ContentOfTokens DEF SessionIs
<1>11. Emitted' = [kind |-> "hash", over |-> Proposal]
  <2>1. Emitted' = Emission(HashData(c))
    BY <1>3 DEF SessionIs, Emission, HashData
  <2> QED
    BY <1>6, <1>9, <1>10, <2>1
<1>12. Session!Agree
  BY <1>3, <1>7, <1>10, <1>11 DEF Session!Agree, Session!Nothing, Session!HashOf
<1> QED
  BY <1>12 DEF SessionStep, Session!Next

\* Except under the screens of P1 = 4 the hash of the context is the confirmed one,
\* or neither exists.
LEMMA HashIsAgreed ==
  ASSUME NEW c \in Context, NEW g, NEW cb \in {"none", "witness"}, NEW what,
         ContextOk(c, g, cb), CallOk(c, g, cb, what)
  PROVE  c.txHash = g.confirmedHash
<1>1. CASE c.stage = "WITNESSES"
  BY <1>1 DEF ContextOk, HashOk
<1>2. CASE c.stage # "WITNESSES"
  <2>1. c.builder # "FINISHED"
    BY <1>2 DEF ContextOk, BuilderOk, Context, Stages
  <2> QED
    BY <1>2, <2>1 DEF ContextOk, HashOk, CallOk, SeenOk
<1> QED
  BY <1>1, <1>2

\* A signature leaves the device.
LEMMA SignStep ==
  ASSUME NEW c \in Context, NEW g, NEW d, NEW h, NEW data,
         SessionIs(c, g, Silent), SessionIs(d, h, Emission(data))',
         attested' = attested, SameSession(c, g, d, h),
         c.currentWitness < c.numWitnesses,
         data.kind = "signature", data.hash = g.confirmedHash
  PROVE  SessionStep
<1>1. Emission(data) = [kind |-> "signature", over |-> Content(g.confirmedHash)]
  BY DEF Emission
<1>2. /\ InSession /\ InSession' = InSession /\ Proposal' = Proposal /\ Agreement' = Agreement
      /\ SignaturesLeft' = SignaturesLeft /\ Emitted = Silent
      /\ Agreement = Content(g.confirmedHash)
      /\ SignaturesLeft = c.numWitnesses - c.currentWitness
  BY DEF SessionIs, SameSession
<1>3. Emitted' = [kind |-> "signature", over |-> Agreement]
  <2>1. Emitted' = Emission(data)
    BY DEF SessionIs, Emission
  <2> QED
    BY <1>1, <1>2, <2>1
<1>4. SignaturesLeft > 0
  BY <1>2 DEF Context, Counts
<1>5. Session!Sign
  BY <1>2, <1>3, <1>4 DEF Session!Sign, Session!SignatureOver, Session!Silence, Silent
<1> QED
  BY <1>5 DEF SessionStep, Session!Next

\* P1 = 5, where the path is ordinary,
LEMMA MakesSignatureSession ==
  ASSUME Inv, HistoryInv, Inv', NEW c, NEW g, NEW p \in Path, MakesSignature(c, g, p)
  PROVE  SessionStep
<1>1. Begins(c, g) /\ WitnessesLeft(c)
  BY DEF MakesSignature
<1>2. /\ c \in Context /\ ContextOk(c, g, "none") /\ CallOk(c, g, "none", display.what)
      /\ SessionIs(c, g, Silent)
  BY <1>1, BeginsOld, BeginsSession
<1>3. ASSUME NEW step
      PROVE  HashedAsBefore(c, WithWitness(c, p, step))
  BY <1>2 DEF HashedAsBefore, WithWitness, Context
<1>4. CASE Shows(Says("UnusualWitness"), "witness", WithWitness(c, p, "WITNESS_DISPLAY"), g)
  BY <1>1, <1>3, <1>4, RequestIsSilent
<1>5. CASE Answers(getTxWitness(c, p), "witness", WithWitness(c, p, "WITNESS_RESPOND"), g)
  <2> DEFINE d == WithWitness(c, p, "WITNESS_RESPOND")
             data == getTxWitness(c, p)
  <2>1. SessionIs(d, g, Emission(data))' /\ attested' = attested
    BY <1>5, AnswersSession
  <2>2. data.kind = "signature" /\ data.hash = g.confirmedHash
    BY <1>2, HashIsAgreed DEF getTxWitness
  <2>3. SameSession(c, g, d, g)
    <3>1. HashedAsBefore(c, d) /\ c.hashed \in Seq(Item)
      BY <1>2, <1>3 DEF Context
    <3> HIDE DEF d
    <3> QED
      BY <3>1, ContentAsBefore DEF SameSession, HashedAsBefore
  <2>4. c.currentWitness < c.numWitnesses
    BY <1>2 DEF ContextOk, CountersOk
  <2> HIDE DEF d, data
  <2> QED
    BY <1>2, <2>1, <2>2, <2>3, <2>4, SignStep
<1> QED
  BY <1>4, <1>5 DEF MakesSignature

\* or where the user has agreed to one that is not.
LEMMA SendsWitnessSession ==
  ASSUME Inv, HistoryInv, Inv', NEW c, NEW g, SendsWitness(c, g)
  PROVE  SessionStep
<1> DEFINE data == c.currentWitnessData
<1>1. Presses(c, g, "witness") /\ Answers(data, "witness", c, g)
  BY DEF SendsWitness
<1>2. PICK h : /\ h = ghost /\ c \in Context
               /\ ContextOk(c, h, "witness") /\ CallOk(c, h, "witness", display.what)
               /\ SessionIs(c, h, Silent)
  BY <1>1, PressesOld, PressesSession
<1>3. SessionIs(c, g, Emission(data))' /\ attested' = attested
  BY <1>1, AnswersSession
<1>4. g.confirmedHash = h.confirmedHash
  BY <1>1, <1>2, ConfirmsNothing
<1>5. data.kind = "signature" /\ data.hash = h.confirmedHash
  <2>1. c.txHash = h.confirmedHash
    BY <1>2, HashIsAgreed
  <2>2. data = getTxWitness(c, c.currentPath)
    BY <1>2 DEF CallOk, SeenOk, WitnessScreenOk
  <2> QED
    BY <2>1, <2>2 DEF getTxWitness
<1>6. SameSession(c, h, c, g)
  BY <1>4 DEF SameSession
<1>7. c.currentWitness < c.numWitnesses
  BY <1>2 DEF ContextOk, CountersOk
<1> QED
  BY <1>2, <1>3, <1>5, <1>6, <1>7, SignStep

-----------------------------------------------------------------------------
(***************************************************************************)
(* The ends of transmissions and of calls.                                 *)
(***************************************************************************)

\* A transmission ends and the call goes on.
LEMMA GoesOnSession ==
  ASSUME Inv, HistoryInv, Inv', GoesOn
  PROVE  SessionStep
<1> DEFINE data == reply.data
<1>1. /\ Live /\ Sending /\ Live' /\ attested' = attested /\ ~Sending' /\ reply.code = SUCCESS
      /\ ctx \in Context /\ ghost \in Ghost /\ ctx' \in Context
  BY DEF GoesOn, Leaves, Inv, CallTypeOK, Sending, NoReply
<1>2. ContextOk(ctx, ghost, NextCallback) /\ ContextOk(ctx', ghost', NextCallback')
  BY <1>1 DEF Inv, ContextInv
<1>3. SessionIs(ctx, ghost, Emission(data))
  BY <1>1, <1>2, LiveSession
<1>4. /\ InSession' /\ Proposal' = Content(ctx'.hashed)
      /\ Agreement' = Content(ghost'.confirmedHash)
      /\ SignaturesLeft' = ctx'.numWitnesses - ctx'.currentWitness
      /\ Emitted' = Silent
  <2>1. ctx'.numWitnesses > 0
    BY <1>1, <1>2 DEF ContextOk, CountersOk, Context, Counts
  <2> QED
    BY <1>1, <2>1 DEF InSession, Proposal, Agreement, SignaturesLeft, Emitted, Silent
<1>5. reply.then = "witness" <=> data.kind = "signature"
  BY <1>1 DEF HistoryInv, AnswerOk
<1>6. /\ ctx'.hashed = ctx.hashed /\ ghost'.confirmedHash = ghost.confirmedHash
      /\ ctx'.numWitnesses = ctx.numWitnesses
      /\ ctx'.currentWitness = IF data.kind = "signature" THEN ctx.currentWitness + 1
                                                          ELSE ctx.currentWitness
  <2>1. CASE reply.then = "busy"
    <3>1. ctx' = [ctx EXCEPT !.uiStep = "INVALID"] /\ ghost' = ghost
      BY <2>1 DEF GoesOn, Leaves
    <3> QED
      BY <1>1, <1>5, <2>1, <3>1 DEF Context
  <2>2. CASE reply.then = "witness"
    <3>1. ctx' = WitnessSent(ctx) /\ ghost' = [ghost EXCEPT !.signatures = @ + 1]
      BY <2>2 DEF GoesOn, Leaves
    <3>2. /\ ctx'.hashed = ctx.hashed /\ ctx'.numWitnesses = ctx.numWitnesses
          /\ ctx'.currentWitness = ctx.currentWitness + 1
      BY <1>1, <3>1 DEF WitnessSent, Context
    <3>3. ghost'.confirmedHash = ghost.confirmedHash
      BY <1>1, <3>1 DEF Ghost
    <3> QED
      BY <1>5, <2>2, <3>2, <3>3
  <2> QED
    BY <2>1, <2>2 DEF GoesOn
<1> HIDE DEF data
<1>7. /\ InSession' = InSession /\ Proposal' = Proposal /\ Agreement' = Agreement
      /\ SignaturesLeft' = IF data.kind = "signature" THEN SignaturesLeft - 1
                                                      ELSE SignaturesLeft
  <2>1. /\ InSession /\ Proposal = Content(ctx.hashed)
        /\ Agreement = Content(ghost.confirmedHash)
        /\ SignaturesLeft = ctx.numWitnesses - ctx.currentWitness
    BY <1>3 DEF SessionIs
  <2>2. InSession' = InSession
    BY <1>4, <2>1 DEF InSession
  <2>3. Proposal' = Proposal /\ Agreement' = Agreement
    BY <1>4, <1>6, <2>1
  <2>4. PICK n \in Int, w \in Int : n = ctx.numWitnesses /\ w = ctx.currentWitness
    BY <1>1 DEF Context, Counts
  <2>5. CASE data.kind = "signature"
    <3>1. SignaturesLeft = n - w /\ SignaturesLeft' = n - (w + 1)
      BY <1>4, <1>6, <2>1, <2>4, <2>5
    <3>2. n - (w + 1) = (n - w) - 1
      OBVIOUS
    <3> QED
      BY <2>2, <2>3, <2>5, <3>1, <3>2
  <2>6. CASE data.kind # "signature"
    BY <1>4, <1>6, <2>1, <2>2, <2>3, <2>6
  <2> QED
    BY <2>5, <2>6
<1>8. Emitted = Emission(data) /\ Emitted' = Silent
  BY <1>3, <1>4 DEF SessionIs
<1>9. CASE data.kind \in {"hash", "signature"}
  <2>1. Emitted = [kind |-> data.kind, over |-> Content(data.hash)]
    BY <1>8, <1>9 DEF Emission
  <2>2. Emitted # Silent /\ Emitted.kind = data.kind
    <3>1. Emitted.kind = data.kind /\ Silent.kind = "none"
      BY <2>1 DEF Silent
    <3> QED
      BY <1>9, <3>1
  <2>3. Session!Deliver
    BY <1>1, <1>7, <1>8, <2>2 DEF Session!Deliver, Session!Silence, Silent
  <2> QED
    BY <2>3 DEF SessionStep, Session!Next
<1>10. CASE data.kind \notin {"hash", "signature"}
  <2>1. Emitted' = Emitted
    BY <1>8, <1>10 DEF Emission
  <2> QED
    BY <1>1, <1>7, <1>10, <2>1 DEF SessionStep, Session!vars
<1> QED
  BY <1>9, <1>10

\* The call ends.
LEMMA EndsSession ==
  ASSUME Inv, HistoryInv, Ends
  PROVE  SessionStep
<1>1. ~Live' /\ attested' \in {attested, {}}
  BY DEF Ends, NoCall
<1>2. CASE ~Live
  BY <1>1, <1>2, NoSessionStep
<1>3. CASE Live
  <2>1. InSession
    <3>1. ContextOk(ctx, ghost, NextCallback) /\ ctx \in Context
      BY <1>3 DEF Inv, ContextInv, CallTypeOK
    <3> QED
      BY <1>3, <3>1, LiveSession DEF SessionIs
  <2>2. /\ ~InSession' /\ Proposal' = <<>> /\ Agreement' = <<>> /\ SignaturesLeft' = 0
        /\ Emitted' = [kind |-> "none"]
    BY <1>1 DEF InSession, Proposal, Agreement, SignaturesLeft, Emitted
  <2>3. Session!Close
    BY <1>1, <2>1, <2>2 DEF Session!Close, Session!Nothing, Session!Silence
  <2> QED
    BY <2>3 DEF SessionStep, Session!Next
<1> QED
  BY <1>2, <1>3

\* Nothing happens to the call.
LEMMA IdlesSession ==
  ASSUME Idles
  PROVE  SessionStep
<1>1. /\ ctx' = ctx /\ ghost' = ghost /\ reply' = reply /\ Live' = Live
      /\ attested' = attested \/ (IsNewCall /\ attested \subseteq attested')
  BY DEF Idles
<1>2. CASE attested' = attested
  BY <1>1, <1>2 DEF SessionStep, Session!vars, InSession, Proposal, Agreement, SignaturesLeft,
                    Emitted, Sending
<1>3. CASE IsNewCall /\ attested \subseteq attested'
  <2>1. ~Live
    BY <1>3 DEF IsNewCall, Live, INS_NONE, SIGN_TX
  <2> QED
    BY <1>1, <1>3, <2>1, NoSessionStep
<1> QED
  BY <1>1, <1>2, <1>3

-----------------------------------------------------------------------------
(***************************************************************************)
(* Together.                                                               *)
(***************************************************************************)

\* At first there is no session.
LEMMA InitSession == Init => Session!Init
<1> SUFFICES ASSUME Init PROVE Session!Init
  OBVIOUS
<1>1. ~Live /\ attested = {}
  BY DEF Init, PlatformInit, Live, INS_NONE, SIGN_TX
<1> QED
  BY <1>1, NoSession DEF Session!Init, Session!Nothing, Session!Silence, Silent

\* Every step of a call is one of its session, or none.
LEMMA CallStepSession ==
  ASSUME Inv, HistoryInv, Inv', CallStep
  PROVE  SessionStep
<1>1. CASE \E counts \in [inputs: Nat, outputs: Nat] : StartsCall(counts)
  BY <1>1, StartsCallSession
<1>2. CASE \E c \in Context, g \in Ghost :
             \/ OpensInputs(c, g)
             \/ \E u \in Utxos : AddsInput(c, g, u)
             \/ \E p \in Path, a \in Address, n \in Amounts : AddsOutput(c, g, p, a, n)
             \/ ShowsAddress(c, g)
             \/ FinishesOutput(c, g)
             \/ ShowsFee(c, g)
             \/ AsksToConfirm(c, g)
             \/ ReleasesHash(c, g)
             \/ \E p \in Path : MakesSignature(c, g, p)
             \/ ShowsWitnessPath(c, g)
             \/ AsksForWitness(c, g)
             \/ SendsWitness(c, g)
  BY <1>2, OpensInputsSession, AddsInputSession, AddsOutputSession, ShowsAddressSession,
     FinishesOutputSession, ShowsFeeSession, AsksToConfirmSession, ReleasesHashSession,
     MakesSignatureSession, ShowsWitnessPathSession, AsksForWitnessSession,
     SendsWitnessSession
<1>3. CASE GoesOn
  BY <1>3, GoesOnSession
<1>4. CASE Ends
  BY <1>4, EndsSession
<1>5. CASE Idles
  BY <1>5, IdlesSession
<1> QED
  BY <1>1, <1>2, <1>3, <1>4, <1>5 DEF CallStep

\* Every behaviour of signTx.c, of its screens and of the platform under it is one
\* of SigningSession: the transaction grows item by item and never after the user
\* has agreed to it, its hash is sent with the agreement, every signature is over
\* what has been agreed to at that moment and within the budget, and a call that
\* ends, however it ends, leaves nothing behind.
THEOREM Implements == Spec => ImplementsSession
<1>1. Init => Session!Init
  BY InitSession
<1>2. Inv /\ HistoryInv /\ Inv' /\ HistoryInv' /\ [CallStep]_vars => [Session!Next]_(Session!vars)
  <2> SUFFICES ASSUME Inv, HistoryInv, Inv', [CallStep]_vars
               PROVE  [Session!Next]_(Session!vars)
    OBVIOUS
  <2>1. CASE CallStep
    BY <2>1, CallStepSession DEF SessionStep
  <2>2. CASE UNCHANGED vars
    BY <2>2 DEF vars, platformVars, signTxVars, Session!vars, InSession, Live, On, Proposal,
                Agreement, SignaturesLeft, Emitted, Sending
  <2> QED
    BY <2>1, <2>2
<1> QED
  BY <1>1, <1>2, History, CallSteps, PTL DEF Spec, ImplementsSession, Session!Spec
=============================================================================
