---------------------------- MODULE SignTxProofs ----------------------------
(***************************************************************************)
(* Proofs about SignTx: its invariant, and that every step of it is one of *)
(* the steps of SignTxSteps.                                               *)
(***************************************************************************)
EXTENDS SignTxSteps, SequenceTheorems, TLAPS

-----------------------------------------------------------------------------
(***************************************************************************)
(* Types of the values the context is built from.                          *)
(***************************************************************************)

\* The zero address is an address and the empty path a path.
LEMMA EmptyTypes == NoAddress \in Address /\ <<>> \in Path /\ ZeroHash \in Seq(Item)
<1>1. <<>> \in Path /\ ZeroHash \in Seq(Item)
  BY DEF Path, ZeroHash
<1>2. NoAddress \in Address
  BY <1>1 DEF NoAddress, Address
<1> QED
  BY <1>1, <1>2

\* Zero is a count and an amount.
LEMMA ZeroInRange == 0 \in Counts /\ 0 \in Amounts /\ MaxSupply \in Amounts
  BY AmountsAssumption, CountsAssumption DEF Counts, Amounts

\* What the hash builder appends is an item.
LEMMA TokenType ==
  ASSUME NEW t \in {"tx", "inputs", "outputs", "metadata"}
  PROVE  Token(t) \in Item
  BY EmptyTypes, ZeroInRange DEF Token, Item

\* An input appended to the hash is an item.
LEMMA InputItemType ==
  ASSUME NEW u \in Utxos
  PROVE  InputItem(u) \in Item
  BY EmptyTypes, ZeroInRange DEF InputItem, Token, Item

\* An output appended to the hash is an item.
LEMMA OutputItemType ==
  ASSUME NEW a \in Address, NEW n \in Amounts
  PROVE  OutputItem(a, n) \in Item
  BY EmptyTypes, ZeroInRange DEF OutputItem, Token, Item

\* An append to the hash leaves something hashed.
LEMMA AppendToHash ==
  ASSUME NEW h \in Seq(Item), NEW it \in Item
  PROVE  Append(h, it) \in Seq(Item) /\ Append(h, it) # ZeroHash
  BY AppendProperties DEF ZeroHash

\* A count is never out of range once it has been truncated, nor a sum once it
\* has wrapped.
LEMMA TruncatedType ==
  ASSUME NEW n \in Nat
  PROVE  Truncated(n) \in Counts
  BY CountsAssumption DEF Truncated, Counts

\* A sum that has wrapped is an amount again.
LEMMA SumWrappedType ==
  ASSUME NEW s \in Amounts, NEW n \in Amounts
  PROVE  SumWrapped(s, n) \in Amounts
  BY AmountsAssumption DEF SumWrapped, Amounts

\* A context of zeroes, and an empty history, are well typed.
LEMMA ZeroContextType == ZeroContext \in Context /\ ZeroGhost \in Ghost
  BY EmptyTypes, ZeroInRange
     DEF ZeroContext, ZeroGhost, Context, Ghost, Stages, BuilderStates, UiSteps,
         SignatureData, NoWitness

\* P1 = 1: either an error is thrown, or a zeroed call now has counts within the
\* limits, a hash that has begun and the step of the first prompt.
LEMMA InitHandlerResult ==
  ASSUME NEW c \in Context, NEW p2, NEW sizeOk,
         NEW counts \in [inputs: Nat, outputs: Nat],
         NEW r, r = InitHandler(c, p2, sizeOk, counts)
  PROVE  /\ r.ctx \in Context
         /\ r.verdict \in {SUCCESS, ERR_INVALID_STATE, ERR_INVALID_REQUEST_PARAMETERS,
                           ERR_INVALID_DATA}
         /\ r.verdict = SUCCESS =>
              /\ c.stage = "NONE"
              /\ r.ctx.stage = "NONE"
              /\ r.ctx.builder = "INIT"
              /\ r.ctx.hashed # ZeroHash
              /\ r.ctx.txHash = c.txHash
              /\ r.ctx.uiStep = "INIT_CONFIRM"
              /\ r.ctx.numWitnesses = r.ctx.numInputs
              /\ 0 < r.ctx.numInputs /\ 0 < r.ctx.numOutputs
              /\ r.ctx.currentInput = 0 /\ r.ctx.currentOutput = 0 /\ r.ctx.currentWitness = 0
              /\ r.ctx.sumAmountInputs = 0 /\ r.ctx.sumAmountOutputs = 0
<1> DEFINE reset == [txHashBuilder_init(c) EXCEPT
                       !.currentInput = 0, !.currentOutput = 0, !.currentWitness = 0,
                       !.sumAmountInputs = 0, !.sumAmountOutputs = 0]
           counted == [reset EXCEPT !.numInputs = Truncated(counts.inputs),
                                    !.numOutputs = Truncated(counts.outputs)]
           done == [counted EXCEPT !.numWitnesses = counted.numInputs,
                                   !.uiStep = "INIT_CONFIRM"]
<1>1. <<Token("tx")>> \in Seq(Item)
  BY TokenType
<1>2. reset \in Context
  BY <1>1, ZeroInRange DEF txHashBuilder_init, Context, BuilderStates
<1>3. counted \in Context
  BY <1>2, TruncatedType DEF Context
<1>4. done \in Context
  BY <1>3 DEF Context, UiSteps
<1> QED
  BY <1>1, <1>2, <1>3, <1>4
     DEF InitHandler, Refuse, Proceed, CountsFit, CHECK_STAGE, txHashBuilder_init, Context,
         ZeroHash, SUCCESS, ERR_INVALID_STATE, ERR_INVALID_REQUEST_PARAMETERS, ERR_INVALID_DATA

\* The fields that say how far the call has got; a handler other than P1 = 1 and
\* P1 = 4 leaves them to its run-step function.
SameProgress(c, d) ==
  /\ d.stage = c.stage /\ d.builder = c.builder /\ d.txHash = c.txHash
  /\ d.numInputs = c.numInputs /\ d.numOutputs = c.numOutputs
  /\ d.numWitnesses = c.numWitnesses
  /\ d.currentInput = c.currentInput /\ d.currentOutput = c.currentOutput
  /\ d.currentWitness = c.currentWitness

\* P1 = 2: an input of a SUCCESS is one of those announced, and its amount has
\* been added within the supply.
LEMMA InputHandlerResult ==
  ASSUME NEW c \in Context, NEW p2, NEW form, NEW u \in Utxos,
         c.sumAmountInputs <= MaxSupply,
         c.stage = "INPUTS" => c.builder = "IN_INPUTS",
         NEW r, r = InputHandler(c, p2, form, u)
  PROVE  /\ r.ctx \in Context
         /\ r.verdict \in {SUCCESS, ERR_INVALID_STATE, ERR_INVALID_REQUEST_PARAMETERS,
                           ERR_INVALID_DATA, ASSERT_CURRENT_INPUT}
         /\ r.verdict = SUCCESS =>
              /\ c.stage = "INPUTS"
              /\ c.currentInput < c.numInputs
              /\ SameProgress(c, r.ctx)
              /\ r.ctx.sumAmountOutputs = c.sumAmountOutputs
              /\ r.ctx.hashed # ZeroHash
              /\ r.ctx.sumAmountInputs <= MaxSupply
              /\ r.ctx.uiStep = "INPUT_RESPOND"
<1> DEFINE s == SumWrapped(c.sumAmountInputs, AmountOf[u])
           summed == [c EXCEPT !.sumAmountInputs = s]
           h == Append(c.hashed, InputItem(u))
           done == [summed EXCEPT !.hashed = h, !.uiStep = "INPUT_RESPOND"]
<1>1. AmountOf[u] \in Amounts
  BY UtxosAssumption, AmountsAssumption DEF Amounts
<1>2. s \in Amounts
  BY <1>1, SumWrappedType DEF Context
<1>3. h \in Seq(Item) /\ h # ZeroHash
  BY InputItemType, AppendToHash DEF Context
<1>4. summed \in Context
  BY <1>2 DEF Context
<1>5. done \in Context
  BY <1>3, <1>4 DEF Context, UiSteps
<1>6. done = Proceed(txHashBuilder_addUtxoInput(summed, u), "INPUT_RESPOND").ctx
  BY <1>4 DEF Proceed, txHashBuilder_addUtxoInput, Context
<1>7. amountSum_accepts(c.sumAmountInputs, AmountOf[u]) => s <= MaxSupply
  BY DEF amountSum_accepts
<1>8. SameProgress(c, done) /\ done.hashed = h /\ done.sumAmountOutputs = c.sumAmountOutputs
      /\ done.sumAmountInputs = s
      /\ done.uiStep = "INPUT_RESPOND" /\ summed.builder = c.builder
  BY DEF SameProgress, Context
<1> HIDE DEF s, h, summed, done
<1> QED
  <2>1. CASE r = Refuse(ASSERT_CURRENT_INPUT, c) \/ r = Refuse(ERR_INVALID_STATE, c)
             \/ r = Refuse(ERR_INVALID_REQUEST_PARAMETERS, c) \/ r = Refuse(ERR_INVALID_DATA, c)
    BY <2>1 DEF Refuse, ASSERT_CURRENT_INPUT, ERR_INVALID_STATE,
                ERR_INVALID_REQUEST_PARAMETERS, ERR_INVALID_DATA, SUCCESS
  <2>2. CASE /\ r = Proceed(txHashBuilder_addUtxoInput(summed, u), "INPUT_RESPOND")
             /\ c.stage = "INPUTS" /\ c.currentInput < c.numInputs
             /\ amountSum_accepts(c.sumAmountInputs, AmountOf[u])
    <3>1. r.verdict = SUCCESS /\ r.ctx = done
      BY <2>2, <1>6 DEF Proceed
    <3> QED
      BY <2>2, <3>1, <1>3, <1>5, <1>7, <1>8 
  <2>3. ~(c.sumAmountInputs > MaxSupply)
    BY AmountsAssumption DEF Context, Amounts
  <2> QED
    BY <2>1, <2>2, <2>3, <1>8 DEF InputHandler, CHECK_STAGE, summed, s

\* A prefix of a sequence has its elements.
LEMMA PrefixType ==
  ASSUME NEW S, NEW s \in Seq(S), NEW n \in Nat, n <= Len(s)
  PROVE  SubSeq(s, 1, n) \in Seq(S)
<1>1. \A i \in 1 .. n : s[i] \in S
  BY ElementOfSeq, LenProperties
<1> QED
  BY <1>1, SubSeqProperties

\* A path on the wire that declares n words and passes the size check has them.
LEMMA WordsFit ==
  ASSUME NEW length \in Nat, NEW size \in Nat, NEW words \in Nat,
         length * 4 + 1 <= size, size < 5 + 4 * words
  PROVE  length <= words
  OBVIOUS

\* A path that parses is a path: its bytes hold all the components it declares.
LEMMA ParsedPathType ==
  ASSUME NEW w, WellFormedWire(w), Parses(w)
  PROVE  ParsedPath(w) \in Path
<1>1. w \in WirePath
  BY DEF WellFormedWire
<1>2. w.words \in Seq(Component) /\ w.length \in Nat /\ w.size \in Nat
  <2>1. w.words \in Path /\ w.length \in 0 .. 255 /\ w.size \in Nat
    BY <1>1 DEF WirePath
  <2>2. w.words \in Seq(Component)
    BY <2>1, Zenon DEF Path
  <2>3. w.length \in Nat
    BY <2>1
  <2> QED
    BY <2>1, <2>2, <2>3
<1>3. Len(w.words) \in Nat
  BY <1>2, LenProperties
<1>4. w.length * 4 + 1 <= w.size
  BY DEF Parses
<1>5. w.size < 5 + 4 * Len(w.words)
  <2>1. w.size > 0
    BY <1>2, <1>4
  <2> QED
    BY <2>1 DEF WellFormedWire
<1>6. w.length <= Len(w.words)
  BY <1>2, <1>3, <1>4, <1>5, WordsFit
<1> QED
  BY <1>2, <1>6, PrefixType DEF ParsedPath, Path

\* P1 = 3.  A destination gives an address, or one of the errors.
LEMMA OutputAddressResult ==
  ASSUME NEW c \in Context, NEW d, IsDestination(d),
         NEW o, o = OutputAddress(c, d)
  PROVE  /\ \E p \in Path : o.ctx = c \/ o.ctx = [c EXCEPT !.currentPath = p]
         /\ o.address \in Address
         /\ o.verdict \in {SUCCESS, ERR_INVALID_DATA, ERR_REJECTED_BY_POLICY,
                           ERR_NOT_ENOUGH_INPUT, ERR_UNEXPECTED_TOKEN, ERR_DATA_TOO_LARGE,
                           ASSERT_PATH_LENGTH}
<1>1. CASE d.type = "address"
  <2>1. d.address \in RawAddress
    BY <1>1 DEF IsDestination
  <2>2. d.address \in Address
    BY <2>1, EmptyTypes DEF RawAddress, Address
  <2> QED
    BY <1>1, <2>2, EmptyTypes DEF OutputAddress, NoOutput, unboxError
<1>2. CASE d.type = "path"
  <2>1. WellFormedWire(d.wire)
    BY <1>2 DEF IsDestination
  <2>2. Parses(d.wire) => ParsedPath(d.wire) \in Path
    BY <2>1, ParsedPathType
  <2>3. ParsedPath(d.wire) \in Path => DerivedAddress(ParsedPath(d.wire)) \in Address
    BY DEF DerivedAddress, Address
  <2> QED
    BY <1>2, <2>2, <2>3, EmptyTypes DEF OutputAddress, NoOutput
<1>3. CASE d.type # "address" /\ d.type # "path"
  BY <1>3, EmptyTypes DEF OutputAddress, NoOutput
<1> QED
  BY <1>1, <1>2, <1>3

\* P1 = 3: likewise for an output.
LEMMA OutputHandlerResult ==
  ASSUME NEW c \in Context, NEW p2, NEW n \in Amounts, NEW d, IsDestination(d),
         c.sumAmountOutputs <= MaxSupply,
         c.stage = "OUTPUTS" => c.builder = "IN_OUTPUTS",
         NEW r, r = OutputHandler(c, p2, n, d)
  PROVE  /\ r.ctx \in Context
         /\ r.verdict \in {SUCCESS, ERR_INVALID_STATE, ERR_INVALID_REQUEST_PARAMETERS,
                           ERR_INVALID_DATA, ERR_REJECTED_BY_POLICY, ERR_NOT_ENOUGH_INPUT,
                           ERR_UNEXPECTED_TOKEN, ERR_DATA_TOO_LARGE, ASSERT_CURRENT_OUTPUT,
                           ASSERT_PATH_LENGTH, ASSERT_ADDRESS_SIZE}
         /\ r.verdict = SUCCESS =>
              /\ c.stage = "OUTPUTS"
              /\ c.currentOutput < c.numOutputs
              /\ SameProgress(c, r.ctx)
              /\ r.ctx.sumAmountInputs = c.sumAmountInputs
              /\ r.ctx.hashed # ZeroHash
              /\ r.ctx.sumAmountOutputs <= MaxSupply
              /\ r.ctx.uiStep \in {"OUTPUT_DISPLAY_AMOUNT", "OUTPUT_RESPOND"}
<1> DEFINE s == SumWrapped(c.sumAmountOutputs, n)
           summed == [c EXCEPT !.sumAmountOutputs = s, !.currentAmount = n]
           out == OutputAddress(summed, d)
           added == [txHashBuilder_addOutput(out.ctx, out.address, n) EXCEPT
                       !.currentAddress = out.address]
           step == OutputFirstStep(out.policy)
           done == Proceed(added, step).ctx
           Early == \/ r = Refuse(ASSERT_CURRENT_OUTPUT, c)
                    \/ r = Refuse(ERR_INVALID_STATE, c)
                    \/ r = Refuse(ERR_INVALID_REQUEST_PARAMETERS, c)
                    \/ r = Refuse(ERR_NOT_ENOUGH_INPUT, c)
                    \/ r = Refuse(ERR_INVALID_DATA, c)
           Late == \/ r = Refuse(out.verdict, out.ctx) /\ out.verdict # SUCCESS
                   \/ r = Refuse(ASSERT_ADDRESS_SIZE, out.ctx)
                   \/ r = Refuse(ERR_DATA_TOO_LARGE, out.ctx)
           Fine == /\ r = Proceed(added, step)
                   /\ c.stage = "OUTPUTS" /\ c.currentOutput < c.numOutputs
                   /\ amountSum_accepts(c.sumAmountOutputs, n)
<1>1. s \in Amounts
  BY SumWrappedType DEF Context
<1>2. summed \in Context /\ SameProgress(c, summed)
      /\ summed.sumAmountInputs = c.sumAmountInputs /\ summed.sumAmountOutputs = s
  BY <1>1 DEF Context, SameProgress
<1>3. /\ \E p \in Path : out.ctx = summed \/ out.ctx = [summed EXCEPT !.currentPath = p]
      /\ out.address \in Address
      /\ out.verdict \in {SUCCESS, ERR_INVALID_DATA, ERR_REJECTED_BY_POLICY,
                          ERR_NOT_ENOUGH_INPUT, ERR_UNEXPECTED_TOKEN, ERR_DATA_TOO_LARGE,
                          ASSERT_PATH_LENGTH}
  <2> HIDE DEF summed
  <2> QED
    BY <1>2, OutputAddressResult
<1>4. step \in {"OUTPUT_DISPLAY_AMOUNT", "OUTPUT_RESPOND"}
  BY DEF OutputFirstStep
<1> HIDE DEF s, summed, out, step
<1>5. out.ctx \in Context /\ SameProgress(c, out.ctx)
      /\ out.ctx.sumAmountInputs = c.sumAmountInputs /\ out.ctx.sumAmountOutputs = s
  BY <1>2, <1>3 DEF Context, SameProgress
<1>6. /\ done \in Context /\ SameProgress(c, done) /\ done.hashed # ZeroHash
      /\ done.sumAmountInputs = c.sumAmountInputs /\ done.sumAmountOutputs = s
      /\ done.uiStep = step
  <2> DEFINE h == Append(out.ctx.hashed, OutputItem(out.address, n))
  <2>1. h \in Seq(Item) /\ h # ZeroHash
    BY <1>3, <1>5, OutputItemType, AppendToHash DEF Context
  <2>2. done = [out.ctx EXCEPT !.hashed = h, !.currentAddress = out.address, !.uiStep = step]
    BY <1>5 DEF Proceed, txHashBuilder_addOutput, Context
  <2> HIDE DEF h, done
  <2> QED
    BY <2>1, <2>2, <1>3, <1>4, <1>5 DEF Context, SameProgress, UiSteps
<1>7. Early \/ Late \/ Fine
  <2>1. ~(c.sumAmountOutputs > MaxSupply)
    BY AmountsAssumption DEF Context, Amounts
  <2> QED
    BY <2>1 DEF OutputHandler, CHECK_STAGE, s, summed, out, step
<1>8. CASE Early
  BY <1>8 DEF Refuse, ASSERT_CURRENT_OUTPUT, ERR_INVALID_STATE, ERR_INVALID_DATA,
              ERR_INVALID_REQUEST_PARAMETERS, ERR_NOT_ENOUGH_INPUT, SUCCESS
<1>9. CASE Late
  BY <1>3, <1>5, <1>9 DEF Refuse, ASSERT_ADDRESS_SIZE, ERR_DATA_TOO_LARGE, SUCCESS
<1>10. CASE Fine
  <2>1. r.verdict = SUCCESS /\ r.ctx = done
    BY <1>10 DEF Proceed
  <2>2. s <= MaxSupply
    BY <1>10 DEF amountSum_accepts, s
  <2> HIDE DEF done, added
  <2> QED
    BY <1>4, <1>6, <1>10, <2>1, <2>2
<1> QED
  BY <1>7, <1>8, <1>9, <1>10

\* What P1 = 4 does to the hash.
Finalized(c) == [c EXCEPT !.builder = "FINISHED", !.txHash = c.hashed]

\* P1 = 4: a SUCCESS finishes the hash of the builder.
LEMMA ConfirmHandlerResult ==
  ASSUME NEW c \in Context, NEW p2, NEW sizeOk,
         c.stage = "CONFIRM" => c.builder = "IN_METADATA",
         NEW r, r = ConfirmHandler(c, p2, sizeOk)
  PROVE  /\ r.ctx \in Context
         /\ r.verdict \in {SUCCESS, ERR_INVALID_STATE, ERR_INVALID_REQUEST_PARAMETERS,
                           ERR_INVALID_DATA}
         /\ r.verdict = SUCCESS =>
              /\ c.stage = "CONFIRM"
              /\ SameProgress(Finalized(c), r.ctx)
              /\ r.ctx.hashed = c.hashed
              /\ r.ctx.sumAmountInputs = c.sumAmountInputs
              /\ r.ctx.sumAmountOutputs = c.sumAmountOutputs
              /\ r.ctx.uiStep = "CONFIRM_DISPLAY_FEE"
<1> DEFINE fee == c.sumAmountInputs - c.sumAmountOutputs
           done == [c EXCEPT !.builder = "FINISHED", !.txHash = c.hashed,
                             !.currentAmount = fee, !.uiStep = "CONFIRM_DISPLAY_FEE"]
           fine == Proceed([txHashBuilder_finalize(c) EXCEPT
                              !.currentAmount = c.sumAmountInputs - c.sumAmountOutputs],
                           "CONFIRM_DISPLAY_FEE")
<1>1. fine.verdict = SUCCESS /\ fine.ctx = done
  BY DEF Proceed, txHashBuilder_finalize, Context
<1>2. c.sumAmountInputs > c.sumAmountOutputs => fee \in Amounts
  BY AmountsAssumption DEF Context, Amounts
<1>3. fee \in Amounts => done \in Context
  BY DEF Context, BuilderStates, UiSteps
<1>4. SameProgress(Finalized(c), done)
      /\ done.hashed = c.hashed /\ done.uiStep = "CONFIRM_DISPLAY_FEE"
      /\ done.sumAmountInputs = c.sumAmountInputs
      /\ done.sumAmountOutputs = c.sumAmountOutputs
  BY DEF Context, SameProgress, Finalized
<1>5. \/ r = Refuse(ERR_INVALID_STATE, c)
      \/ r = Refuse(ERR_INVALID_REQUEST_PARAMETERS, c)
      \/ r = Refuse(ERR_INVALID_DATA, c)
      \/ r = fine /\ c.stage = "CONFIRM" /\ c.sumAmountInputs > c.sumAmountOutputs
  BY DEF ConfirmHandler, CHECK_STAGE
<1> HIDE DEF fine, done, fee
<1>6. CASE r = fine /\ c.stage = "CONFIRM" /\ c.sumAmountInputs > c.sumAmountOutputs
  BY <1>1, <1>2, <1>3, <1>4, <1>6
<1>7. CASE \/ r = Refuse(ERR_INVALID_STATE, c)
           \/ r = Refuse(ERR_INVALID_REQUEST_PARAMETERS, c)
           \/ r = Refuse(ERR_INVALID_DATA, c)
  BY <1>7 DEF Refuse, SUCCESS, ERR_INVALID_STATE, ERR_INVALID_DATA,
              ERR_INVALID_REQUEST_PARAMETERS
<1> QED
  BY <1>5, <1>6, <1>7

\* P1 = 5: a SUCCESS has signed what txHash held, whatever the stage.
LEMMA WitnessHandlerResult ==
  ASSUME NEW c \in Context, NEW p2, NEW w, WellFormedWire(w),
         NEW r, r = WitnessHandler(c, p2, w)
  PROVE  /\ r.ctx \in Context
         /\ r.verdict \in {SUCCESS, ERR_INVALID_REQUEST_PARAMETERS, ERR_INVALID_DATA,
                           ERR_REJECTED_BY_POLICY, ASSERT_CURRENT_WITNESS,
                           ASSERT_PATH_LENGTH}
         /\ r.verdict = SUCCESS =>
              /\ c.currentWitness < c.numWitnesses
              /\ SameProgress(c, r.ctx)
              /\ r.ctx.hashed = c.hashed
              /\ r.ctx.sumAmountInputs = c.sumAmountInputs
              /\ r.ctx.sumAmountOutputs = c.sumAmountOutputs
              /\ r.ctx.currentWitnessData.hash = c.txHash
              /\ r.ctx.currentWitnessData.kind = "signature"
              /\ r.ctx.uiStep \in {"WITNESS_WARNING", "WITNESS_RESPOND"}
<1> DEFINE p == ParsedPath(w)
           parsed == [c EXCEPT !.currentPath = p]
           step == WitnessFirstStep(policyForSignTxWitness(p))
           done == [c EXCEPT !.currentPath = p, !.currentWitnessData = getTxWitness(c, p),
                             !.uiStep = step]
           fine == Proceed([parsed EXCEPT !.currentWitnessData = getTxWitness(c, p)], step)
<1>1. Parses(w) => p \in Path
  BY ParsedPathType
<1>2. step \in {"WITNESS_WARNING", "WITNESS_RESPOND"}
  BY DEF WitnessFirstStep
<1>3. p \in Path => getTxWitness(c, p) \in SignatureData
  BY DEF getTxWitness, SignatureData, Context
<1>4. getTxWitness(c, p).hash = c.txHash /\ getTxWitness(c, p).kind = "signature"
  BY DEF getTxWitness
<1>5. fine.verdict = SUCCESS /\ fine.ctx = done
  BY DEF Proceed, Context
<1>6. \/ r = Refuse(ERR_INVALID_REQUEST_PARAMETERS, c)
      \/ r = Refuse(ASSERT_CURRENT_WITNESS, c)
      \/ r = Refuse(ERR_INVALID_DATA, c)
      \/ /\ Parses(w)
         /\ \/ r = Refuse(ERR_INVALID_DATA, parsed)
            \/ r = Refuse(ERR_REJECTED_BY_POLICY, parsed)
            \/ r = Refuse(ASSERT_PATH_LENGTH, parsed)
            \/ r = fine /\ c.currentWitness < c.numWitnesses
  BY DEF WitnessHandler, WitnessesLeft
<1> HIDE DEF p, step
<1>7. p \in Path => parsed \in Context
  BY DEF Context
<1>8. p \in Path => done \in Context
  BY <1>2, <1>3 DEF Context, UiSteps
<1>9. /\ SameProgress(c, done) /\ done.hashed = c.hashed /\ done.uiStep = step
      /\ done.sumAmountInputs = c.sumAmountInputs
      /\ done.sumAmountOutputs = c.sumAmountOutputs
      /\ done.currentWitnessData = getTxWitness(c, p)
  BY DEF Context, SameProgress
<1> HIDE DEF fine, done, parsed
<1>10. CASE Parses(w) /\ r = fine /\ c.currentWitness < c.numWitnesses
  BY <1>1, <1>2, <1>4, <1>5, <1>8, <1>9, <1>10
<1>11. CASE r.verdict # SUCCESS
  BY <1>1, <1>5, <1>6, <1>7, <1>11
     DEF Refuse, ERR_INVALID_REQUEST_PARAMETERS, ERR_INVALID_DATA, ERR_REJECTED_BY_POLICY,
         ASSERT_CURRENT_WITNESS, ASSERT_PATH_LENGTH
<1> QED
  BY <1>6, <1>10, <1>11
     DEF Refuse, SUCCESS, ERR_INVALID_REQUEST_PARAMETERS, ERR_INVALID_DATA,
         ERR_REJECTED_BY_POLICY, ASSERT_CURRENT_WITNESS, ASSERT_PATH_LENGTH

-----------------------------------------------------------------------------
(***************************************************************************)
(* The four ways a step of the call can end: with a screen, with an answer *)
(* of SUCCESS, with an error, with a reset of the device.                  *)
(***************************************************************************)

\* A screen that leads back to the context it was set up for.
LEMMA ShowInv ==
  ASSUME Inv, On, ~Sending,
         NEW c \in Context, NEW g \in Ghost, NEW kind \in {"text", "prompt"},
         NEW what \in Saying, NEW cb \in Flows \ {"none"},
         ContextOk(c, g, cb), ScreenOk(c, g, what, cb),
         Show(SIGN_TX, Screen(kind, what, cb)),
         ctx' = c, ghost' = g, attested' = attested
  PROVE  Inv'
<1>1. CallTypeOK'
  BY DEF Inv, CallTypeOK, Show, Screen
<1>2. ControlInv' /\ InternalAssertionsHold'
  BY DEF Inv, ControlInv, Show, Screen, OneAnswerPerRequest, NoStaleScreen, On, Sending,
         InternalAssertionsHold
<1>3. WaitsForUser' /\ NextCallback' = cb
  BY DEF Show, Screen, WaitsForUser, NextCallback, On, Sending
<1>4. ContextInv' /\ ScreenInv'
  BY <1>3 DEF ContextInv, ScreenInv, Show, Screen
<1>5. ReplyInv'
  BY DEF ReplyInv, Show, Sending
<1> QED
  BY <1>1, <1>2, <1>4, <1>5 DEF Inv

\* An answer after which the call goes on.
LEMMA AnswerInv ==
  ASSUME Inv, On, ~Sending,
         NEW c \in Context, NEW g \in Ghost, NEW data \in ReplyData,
         NEW then \in {"busy", "witness"},
         ContextOk(c, g, "none"), DataOk(data, g),
         Respond(SIGN_TX, SUCCESS, data, then),
         ctx' = c, ghost' = g, attested' = attested
  PROVE  Inv'
<1>1. CallTypeOK'
  BY DEF Inv, CallTypeOK, Respond, IoStateInside
<1>2. Sending' /\ On' /\ display'.run /\ display'.kind = display.kind
  BY DEF Respond, Sending, On, Inv, CallTypeOK, SUCCESS, NoCode
<1>3. ControlInv' /\ InternalAssertionsHold'
  BY <1>2 DEF Inv, ControlInv, Respond, IoStateInside, OneAnswerPerRequest, NoStaleScreen, On,
              InternalAssertionsHold
<1>4. ~WaitsForUser' /\ NextCallback' = "none"
  BY <1>2 DEF WaitsForUser, NextCallback
<1>5. ContextInv' /\ ScreenInv'
  BY <1>4 DEF ContextInv, ScreenInv
<1>6. ReplyInv'
  BY DEF ReplyInv, Respond
<1> QED
  BY <1>1, <1>3, <1>5, <1>6 DEF Inv

\* An error the host is told of: nothing is asked of the context any more.
LEMMA ErrorInv ==
  ASSUME Inv, On, ~Sending, NEW e \in AutoRespond, NEW ins \in {INS_NONE, SIGN_TX},
         Respond(ins, e, NoData, "idle"),
         ctx' \in Context, ghost' \in Ghost, attested' = attested
  PROVE  Inv'
<1>1. e # SUCCESS /\ e # NoCode
  BY DEF AutoRespond, SUCCESS, NoCode, ERR_MALFORMED_REQUEST_HEADER, ERR_BAD_CLA,
         ERR_UNKNOWN_INS, ERR_STILL_IN_CALL, ERR_INVALID_REQUEST_PARAMETERS,
         ERR_INVALID_STATE, ERR_INVALID_DATA, ERR_REJECTED_BY_USER,
         ERR_REJECTED_BY_POLICY, ERR_DEVICE_LOCKED
<1>2. NoData \in ReplyData
  BY DEF ReplyData
<1>3. CallTypeOK'
  BY <1>2 DEF Inv, CallTypeOK, Respond, IoStateInside
<1>4. Sending' /\ On' /\ display'.run /\ display'.kind = display.kind
  BY <1>1 DEF Respond, Sending, On, Inv, CallTypeOK
<1>5. ControlInv' /\ InternalAssertionsHold'
  BY <1>4 DEF Inv, ControlInv, Respond, IoStateInside, OneAnswerPerRequest, NoStaleScreen, On,
              InternalAssertionsHold
<1>6. ~WaitsForUser' /\ ~Live'
  BY <1>4 DEF WaitsForUser, Live, Respond
<1>7. ContextInv' /\ ScreenInv'
  BY <1>6 DEF ContextInv, ScreenInv
<1>8. ReplyInv'
  BY <1>1 DEF ReplyInv, Respond
<1> QED
  BY <1>3, <1>5, <1>7, <1>8 DEF Inv

\* A reset that the host has brought about.
LEMMA CrashInv ==
  ASSUME Inv, On, ~Sending, NEW cause \in HostCrashes, Crash(cause),
         ctx' \in Context, ghost' \in Ghost, attested' = attested
  PROVE  Inv'
<1>1. cause # NotCrashed /\ cause \notin InternalCrashes
  BY DEF HostCrashes, InternalCrashes, NotCrashed, ASSERT_IO_STATE, ASSERT_CURRENT_INPUT,
         ASSERT_CURRENT_OUTPUT, ASSERT_CURRENT_WITNESS, ASSERT_PATH_LENGTH,
         ASSERT_ADDRESS_SIZE, ERR_NOT_ENOUGH_INPUT, ERR_UNEXPECTED_TOKEN,
         ERR_DATA_TOO_LARGE, ASSERT_BUTTON, ASSERT_BUILDER_STATE, ASSERT_AMOUNT_SUM,
         ASSERT_UI_STEP
<1>2. CallTypeOK'
  BY DEF Inv, CallTypeOK, Crash
<1>3. ~On' /\ ~Sending'
  BY <1>1 DEF Crash, On, Sending
<1>4. ControlInv' /\ InternalAssertionsHold'
  BY <1>1, <1>3 DEF Inv, ControlInv, Crash, OneAnswerPerRequest, NoStaleScreen,
                    InternalAssertionsHold
<1>5. ContextInv' /\ ScreenInv' /\ ReplyInv'
  BY <1>3 DEF ContextInv, ScreenInv, ReplyInv, Live, WaitsForUser
<1> QED
  BY <1>2, <1>4, <1>5 DEF Inv

\* A handler that throws.
LEMMA FailedInv ==
  ASSUME Inv, On, ~Sending, NEW r, Failed(r),
         r.ctx \in Context, r.verdict \in AutoRespond \cup HostCrashes,
         ghost' \in Ghost, attested' = attested
  PROVE  Inv'
<1>1. ctx' \in Context /\ Throw(SIGN_TX, r.verdict)
  BY DEF Failed
<1>2. CASE r.verdict \in AutoRespond /\ Respond(SIGN_TX, r.verdict, NoData, "idle")
  BY <1>1, <1>2, ErrorInv
<1>3. CASE r.verdict \notin AutoRespond /\ Crash(r.verdict)
  BY <1>1, <1>3, CrashInv
<1> QED
  BY <1>1, <1>2, <1>3 DEF Throw

-----------------------------------------------------------------------------
(***************************************************************************)
(* The run-step functions.                                                 *)
(***************************************************************************)

\* Apart from "init" and "confirm", a context does not depend on the screen.
LEMMA OtherScreens ==
  ASSUME NEW c, NEW g, NEW cb1, NEW cb2, ContextOk(c, g, cb1),
         cb1 \notin {"init", "confirm"}, cb2 \notin {"init", "confirm"}
  PROVE  ContextOk(c, g, cb2)
  BY DEF ContextOk, BuilderOk

\* The steps of P1 = 1 begin the hash and lead to the inputs.
LEMMA InitStepInv ==
  ASSUME Inv, On, ~Sending, NEW c \in Context, NEW g \in Ghost,
         ContextOk(c, g, "init"), c.stage = "NONE",
         c.uiStep \in {"INIT_CONFIRM", "INIT_RESPOND"},
         InitStep(c), ghost' = g, attested' = attested
  PROVE  Inv'
<1>1. CASE c.uiStep = "INIT_CONFIRM"
  <2> DEFINE d == [c EXCEPT !.uiStep = "INIT_RESPOND"]
             what == Says("StartNewTransaction")
  <2>1. d \in Context /\ ContextOk(d, g, "init") /\ d.uiStep = "INIT_RESPOND"
        /\ d.stage = "NONE"
    BY DEF Context, UiSteps, ContextOk, CountersOk, BuilderOk, HashOk
  <2>2. what \in Saying /\ what # FinalPrompt
    BY EmptyTypes, ZeroInRange DEF Says, Saying, Headers, FinalPrompt
  <2>3. Show(SIGN_TX, Screen("prompt", what, "init")) /\ ctx' = d
    BY <1>1 DEF InitStep, ui_displayPrompt
  <2>4. ScreenOk(d, g, what, "init")
    BY <2>1, <2>2 DEF ScreenOk
  <2> HIDE DEF d, what
  <2>5. "init" \in Flows \ {"none"}
    BY DEF Flows
  <2> QED
    BY <2>1, <2>2, <2>3, <2>4, <2>5, ShowInv
<1>2. CASE c.uiStep = "INIT_RESPOND"
  <2> DEFINE d == [txHashBuilder_enterInputs(c) EXCEPT !.stage = "INPUTS"]
             h == Append(c.hashed, Token("inputs"))
  <2>1. Respond(SIGN_TX, SUCCESS, NoData, "busy") /\ ctx' = d
    BY <1>2 DEF InitStep, Asserting, ContextOk, BuilderOk
  <2>2. h \in Seq(Item) /\ h # ZeroHash
    BY TokenType, AppendToHash DEF Context
  <2>3. d = [c EXCEPT !.builder = "IN_INPUTS", !.hashed = h, !.stage = "INPUTS"]
    BY DEF txHashBuilder_enterInputs, Context
  <2> HIDE DEF d, h
  <2>4. d \in Context
    BY <2>2, <2>3 DEF Context, Stages, BuilderStates
  <2>5. ContextOk(d, g, "none")
    BY <2>2, <2>3 DEF Context, ContextOk, CountersOk, BuilderOk, HashOk
  <2>6. NoData \in ReplyData /\ DataOk(NoData, g)
    BY DEF NoData, ReplyData, DataOk
  <2> QED
    BY <2>1, <2>4, <2>5, <2>6, AnswerInv
<1> QED
  BY <1>1, <1>2

\* The step of P1 = 2 counts the input and, after the last, leads to the outputs.
LEMMA InputStepInv ==
  ASSUME Inv, On, ~Sending, NEW c \in Context, NEW g \in Ghost,
         ContextOk(c, g, "none"), c.stage = "INPUTS", c.uiStep = "INPUT_RESPOND",
         InputStep(c), ghost' = g, attested' = attested
  PROVE  Inv'
<1> DEFINE next == [c EXCEPT !.currentInput = @ + 1]
           h == Append(next.hashed, Token("outputs"))
           last == [txHashBuilder_enterOutputs(next) EXCEPT !.stage = "OUTPUTS"]
<1>1. c.currentInput \in Nat /\ c.numInputs \in Nat /\ c.currentInput + 1 <= c.numInputs
      /\ c.currentInput + 1 \in Counts
  BY CountsAssumption DEF ContextOk, CountersOk, Context, Counts
<1>2. next \in Context /\ next.currentInput = c.currentInput + 1
      /\ next.numInputs = c.numInputs
  BY <1>1 DEF Context
<1>3. next.builder = "IN_INPUTS"
  BY DEF ContextOk, BuilderOk, Context
<1>4. Respond(SIGN_TX, SUCCESS, NoData, "busy")
      /\ ctx' = IF AllInputs(next) THEN last ELSE next
  BY <1>3 DEF InputStep, Asserting
<1>5. NoData \in ReplyData /\ DataOk(NoData, g)
  BY DEF NoData, ReplyData, DataOk
<1>6. CASE AllInputs(next)
  <2>1. h \in Seq(Item) /\ h # ZeroHash
    BY <1>2, TokenType, AppendToHash DEF Context
  <2>2. last = [next EXCEPT !.builder = "IN_OUTPUTS", !.hashed = h, !.stage = "OUTPUTS"]
    BY <1>2 DEF txHashBuilder_enterOutputs, Context
  <2>3. ContextOk(next, g, "none") \/ next.currentInput = next.numInputs
    BY <1>6 DEF AllInputs
  <2>4. last \in Context
    <3> HIDE DEF h, next, last
    <3> QED
      BY <1>2, <2>1, <2>2 DEF Context, Stages, BuilderStates
  <2>5. ContextOk(last, g, "none")
    BY <2>1, <2>2 DEF Context, ContextOk, CountersOk, BuilderOk, HashOk
  <2> HIDE DEF h, next, last
  <2> QED
    BY <1>4, <1>5, <1>6, <2>4, <2>5, AnswerInv
<1>7. CASE ~AllInputs(next)
  <2>1. ContextOk(next, g, "none")
    BY <1>1, <1>2, <1>7 DEF Context, ContextOk, CountersOk, BuilderOk, HashOk, AllInputs
  <2> HIDE DEF h, next, last
  <2> QED
    BY <1>2, <1>4, <1>5, <1>7, <2>1, AnswerInv
<1> QED
  BY <1>6, <1>7

\* The steps of P1 = 3 show amount and address, count the output and, after the
\* last, lead to the confirmation.
LEMMA OutputStepInv ==
  ASSUME Inv, On, ~Sending, NEW c \in Context, NEW g \in Ghost,
         ContextOk(c, g, "output"), c.stage = "OUTPUTS",
         c.uiStep \in {"OUTPUT_DISPLAY_AMOUNT", "OUTPUT_DISPLAY_ADDRESS", "OUTPUT_RESPOND"},
         OutputStep(c), ghost' = g, attested' = attested
  PROVE  Inv'
<1>0. "output" \in Flows \ {"none"} /\ NoData \in ReplyData /\ DataOk(NoData, g)
  BY DEF Flows, NoData, ReplyData, DataOk
<1>1. CASE c.uiStep = "OUTPUT_DISPLAY_AMOUNT"
  <2> DEFINE d == [c EXCEPT !.uiStep = "OUTPUT_DISPLAY_ADDRESS"]
             what == SaysAmount("SendAda", c.currentAmount)
  <2>1. d \in Context /\ ContextOk(d, g, "output") /\ d.uiStep = "OUTPUT_DISPLAY_ADDRESS"
        /\ d.stage = "OUTPUTS"
    BY DEF Context, UiSteps, ContextOk, CountersOk, BuilderOk, HashOk
  <2>2. what \in Saying /\ what # FinalPrompt
    BY EmptyTypes, ZeroInRange DEF SaysAmount, Says, Saying, Headers, FinalPrompt, Context
  <2>3. Show(SIGN_TX, Screen("text", what, "output")) /\ ctx' = d
    BY <1>1 DEF OutputStep, ui_displayPaginatedText
  <2>4. ScreenOk(d, g, what, "output")
    BY <2>1, <2>2 DEF ScreenOk
  <2> HIDE DEF d, what
  <2> QED
    BY <1>0, <2>1, <2>2, <2>3, <2>4, ShowInv
<1>2. CASE c.uiStep = "OUTPUT_DISPLAY_ADDRESS"
  <2> DEFINE d == [c EXCEPT !.uiStep = "OUTPUT_RESPOND"]
             what == SaysAddress("ToAddress", c.currentAddress)
  <2>1. d \in Context /\ ContextOk(d, g, "output") /\ d.uiStep = "OUTPUT_RESPOND"
        /\ d.stage = "OUTPUTS"
    BY DEF Context, UiSteps, ContextOk, CountersOk, BuilderOk, HashOk
  <2>2. what \in Saying /\ what # FinalPrompt
    BY EmptyTypes, ZeroInRange DEF SaysAddress, Says, Saying, Headers, FinalPrompt, Context
  <2>3. \/ Show(SIGN_TX, Screen("text", what, "output")) /\ ctx' = d
        \/ Crash(ASSERT_ADDRESS_SIZE) /\ ctx' = ctx
    BY <1>2 DEF OutputStep, ui_displayPaginatedText, Asserting, AssertFails
  <2>4. ScreenOk(d, g, what, "output")
    BY <2>1, <2>2 DEF ScreenOk
  <2> HIDE DEF d, what
  <2>5. CASE Show(SIGN_TX, Screen("text", what, "output")) /\ ctx' = d
    BY <1>0, <2>1, <2>2, <2>4, <2>5, ShowInv
  <2>6. CASE Crash(ASSERT_ADDRESS_SIZE) /\ ctx' = ctx
    <3>1. ctx \in Context /\ ASSERT_ADDRESS_SIZE \in HostCrashes
      BY DEF Inv, CallTypeOK, HostCrashes
    <3> QED
      BY <2>6, <3>1, CrashInv
  <2> QED
    BY <2>3, <2>5, <2>6
<1>3. CASE c.uiStep = "OUTPUT_RESPOND"
  <2> DEFINE next == [c EXCEPT !.currentOutput = @ + 1]
             isLast == next.currentOutput = next.numOutputs
             h == Append(next.hashed, Token("metadata"))
             last == [txHashBuilder_enterMetadata(next) EXCEPT !.stage = "CONFIRM"]
  <2>1. c.currentOutput \in Nat /\ c.numOutputs \in Nat
        /\ c.currentOutput + 1 <= c.numOutputs /\ c.currentOutput + 1 \in Counts
    BY CountsAssumption DEF ContextOk, CountersOk, Context, Counts
  <2>2. next \in Context /\ next.currentOutput = c.currentOutput + 1
        /\ next.numOutputs = c.numOutputs
    BY <2>1 DEF Context
  <2>3. next.builder = "IN_OUTPUTS"
    BY DEF ContextOk, BuilderOk, Context
  <2>4. Respond(SIGN_TX, SUCCESS, NoData, "busy")
        /\ ctx' = IF isLast THEN last ELSE next
    BY <1>3, <2>3 DEF OutputStep, Asserting
  <2>5. CASE isLast
    <3>1. h \in Seq(Item) /\ h # ZeroHash
      BY <2>2, TokenType, AppendToHash DEF Context
    <3>2. last = [next EXCEPT !.builder = "IN_METADATA", !.hashed = h, !.stage = "CONFIRM"]
      BY <2>2 DEF txHashBuilder_enterMetadata, Context
    <3>3. last \in Context
      <4> HIDE DEF h, next, last
      <4> QED
        BY <2>2, <3>1, <3>2 DEF Context, Stages, BuilderStates
    <3>4. ContextOk(last, g, "none")
      BY <3>1, <3>2 DEF Context, ContextOk, CountersOk, BuilderOk, HashOk
    <3> HIDE DEF h, next, last
    <3> QED
      BY <1>0, <2>4, <2>5, <3>3, <3>4, AnswerInv
  <2>6. CASE ~isLast
    <3>1. ContextOk(next, g, "none")
      BY <2>1, <2>2, <2>6 DEF Context, ContextOk, CountersOk, BuilderOk, HashOk
    <3> HIDE DEF h, next, last
    <3> QED
      BY <1>0, <2>2, <2>4, <2>6, <3>1, AnswerInv
  <2> QED
    BY <2>5, <2>6
<1> QED
  BY <1>1, <1>2, <1>3

\* The steps of P1 = 4 show the fee, ask for the final confirmation and, after it,
\* release the hash and open the stage of the witnesses.
LEMMA ConfirmStepInv ==
  ASSUME Inv, On, ~Sending, NEW c \in Context, NEW g \in Ghost,
         ContextOk(c, g, "confirm"), c.stage = "CONFIRM",
         c.uiStep \in {"CONFIRM_DISPLAY_FEE", "CONFIRM_FINAL_CONFIRM", "CONFIRM_RESPOND"},
         c.uiStep = "CONFIRM_RESPOND" => c.txHash = g.confirmedHash,
         ConfirmStep(c), ghost' = g, attested' = attested
  PROVE  Inv'
<1>0. "confirm" \in Flows \ {"none"}
  BY DEF Flows
<1>1. CASE c.uiStep = "CONFIRM_DISPLAY_FEE"
  <2> DEFINE d == [c EXCEPT !.uiStep = "CONFIRM_FINAL_CONFIRM"]
             what == SaysAmount("TransactionFee", c.currentAmount)
  <2>1. d \in Context /\ ContextOk(d, g, "confirm") /\ d.uiStep = "CONFIRM_FINAL_CONFIRM"
        /\ d.stage = "CONFIRM"
    BY DEF Context, UiSteps, ContextOk, CountersOk, BuilderOk, HashOk
  <2>2. what \in Saying /\ what # FinalPrompt
    BY EmptyTypes, ZeroInRange DEF SaysAmount, Says, Saying, Headers, FinalPrompt, Context
  <2>3. Show(SIGN_TX, Screen("text", what, "confirm")) /\ ctx' = d
    BY <1>1 DEF ConfirmStep, ui_displayPaginatedText, AfterFee
  <2>4. ScreenOk(d, g, what, "confirm")
    BY <2>1, <2>2 DEF ScreenOk
  <2> HIDE DEF d, what
  <2> QED
    BY <1>0, <2>1, <2>2, <2>3, <2>4, ShowInv
<1>2. CASE c.uiStep = "CONFIRM_FINAL_CONFIRM"
  <2> DEFINE d == [c EXCEPT !.uiStep = "CONFIRM_RESPOND"]
             what == Says("ConfirmTransaction")
  <2>1. d \in Context /\ ContextOk(d, g, "confirm") /\ d.uiStep = "CONFIRM_RESPOND"
        /\ d.stage = "CONFIRM"
    BY DEF Context, UiSteps, ContextOk, CountersOk, BuilderOk, HashOk
  <2>2. what \in Saying /\ what = FinalPrompt
    BY EmptyTypes, ZeroInRange DEF Says, Saying, Headers, FinalPrompt
  <2>3. Show(SIGN_TX, Screen("prompt", what, "confirm")) /\ ctx' = d
    BY <1>2 DEF ConfirmStep, ui_displayPrompt
  <2>4. ScreenOk(d, g, what, "confirm")
    BY <2>1, <2>2 DEF ScreenOk
  <2> HIDE DEF d, what
  <2> QED
    BY <1>0, <2>1, <2>2, <2>3, <2>4, ShowInv
<1>3. CASE c.uiStep = "CONFIRM_RESPOND"
  <2> DEFINE d == [c EXCEPT !.stage = "WITNESSES"]
  <2>1. Respond(SIGN_TX, SUCCESS, HashData(c), "busy") /\ ctx' = d
    BY <1>3 DEF ConfirmStep
  <2>2. d \in Context
    BY DEF Context, Stages
  <2>3. ContextOk(d, g, "none")
    BY <1>3 DEF Context, ContextOk, CountersOk, BuilderOk, HashOk
  <2>4. HashData(c) \in ReplyData
    BY DEF HashData, ReplyData, Context
  <2>5. DataOk(HashData(c), g)
    BY <1>3 DEF HashData, DataOk, ContextOk, BuilderOk, HashOk
  <2> HIDE DEF d
  <2> QED
    BY <2>1, <2>2, <2>3, <2>4, <2>5, AnswerInv
<1> QED
  BY <1>1, <1>2, <1>3

\* The steps of P1 = 5 warn, show the path, ask, and hand the signature out.
LEMMA WitnessStepInv ==
  ASSUME Inv, On, ~Sending, NEW c \in Context, NEW g \in Ghost,
         ContextOk(c, g, "witness"), c.stage # "NONE",
         c.uiStep \in {"WITNESS_WARNING", "WITNESS_DISPLAY", "WITNESS_CONFIRM",
                       "WITNESS_RESPOND"},
         c.currentWitnessData.kind = "signature", SignatureOk(c.currentWitnessData, g),
         WitnessStep(c), ghost' = g, attested' = attested
  PROVE  Inv'
<1>0. "witness" \in Flows \ {"none"}
  BY DEF Flows
<1>1. CASE c.uiStep = "WITNESS_WARNING"
  <2> DEFINE d == [c EXCEPT !.uiStep = "WITNESS_DISPLAY"]
             what == Says("UnusualWitness")
  <2>1. d \in Context /\ ContextOk(d, g, "witness") /\ d.uiStep = "WITNESS_DISPLAY"
        /\ d.stage # "NONE" /\ d.currentWitnessData = c.currentWitnessData
    BY DEF Context, UiSteps, ContextOk, CountersOk, BuilderOk, HashOk
  <2>2. what \in Saying /\ what # FinalPrompt
    BY EmptyTypes, ZeroInRange DEF Says, Saying, Headers, FinalPrompt
  <2>3. Show(SIGN_TX, Screen("text", what, "witness")) /\ ctx' = d
    BY <1>1 DEF WitnessStep, ui_displayPaginatedText
  <2>4. ScreenOk(d, g, what, "witness")
    BY <2>1, <2>2 DEF ScreenOk
  <2> HIDE DEF d, what
  <2> QED
    BY <1>0, <2>1, <2>2, <2>3, <2>4, ShowInv
<1>2. CASE c.uiStep = "WITNESS_DISPLAY"
  <2> DEFINE d == [c EXCEPT !.uiStep = "WITNESS_CONFIRM"]
             what == SaysPath("WitnessPath", c.currentPath)
  <2>1. d \in Context /\ ContextOk(d, g, "witness") /\ d.uiStep = "WITNESS_CONFIRM"
        /\ d.stage # "NONE" /\ d.currentWitnessData = c.currentWitnessData
    BY DEF Context, UiSteps, ContextOk, CountersOk, BuilderOk, HashOk
  <2>2. what \in Saying /\ what # FinalPrompt
    BY EmptyTypes, ZeroInRange DEF SaysPath, Says, Saying, Headers, FinalPrompt, Context
  <2>3. \/ Show(SIGN_TX, Screen("text", what, "witness")) /\ ctx' = d
        \/ Crash(ASSERT_PATH_LENGTH) /\ ctx' = ctx
    BY <1>2 DEF WitnessStep, ui_displayPaginatedText, Asserting, AssertFails
  <2>4. ScreenOk(d, g, what, "witness")
    BY <2>1, <2>2 DEF ScreenOk
  <2> HIDE DEF d, what
  <2>5. CASE Show(SIGN_TX, Screen("text", what, "witness")) /\ ctx' = d
    BY <1>0, <2>1, <2>2, <2>4, <2>5, ShowInv
  <2>6. CASE Crash(ASSERT_PATH_LENGTH) /\ ctx' = ctx
    <3>1. ctx \in Context /\ ASSERT_PATH_LENGTH \in HostCrashes
      BY DEF Inv, CallTypeOK, HostCrashes
    <3> QED
      BY <2>6, <3>1, CrashInv
  <2> QED
    BY <2>3, <2>5, <2>6
<1>3. CASE c.uiStep = "WITNESS_CONFIRM"
  <2> DEFINE d == [c EXCEPT !.uiStep = "WITNESS_RESPOND"]
             what == Says("SignUsingThisWitness")
  <2>1. d \in Context /\ ContextOk(d, g, "witness") /\ d.uiStep = "WITNESS_RESPOND"
        /\ d.stage # "NONE" /\ d.currentWitnessData = c.currentWitnessData
    BY DEF Context, UiSteps, ContextOk, CountersOk, BuilderOk, HashOk
  <2>2. what \in Saying /\ what # FinalPrompt
    BY EmptyTypes, ZeroInRange DEF Says, Saying, Headers, FinalPrompt
  <2>3. Show(SIGN_TX, Screen("prompt", what, "witness")) /\ ctx' = d
    BY <1>3 DEF WitnessStep, ui_displayPrompt
  <2>4. ScreenOk(d, g, what, "witness")
    BY <2>1, <2>2 DEF ScreenOk
  <2> HIDE DEF d, what
  <2> QED
    BY <1>0, <2>1, <2>2, <2>3, <2>4, ShowInv
<1>4. CASE c.uiStep = "WITNESS_RESPOND"
  <2>1. Respond(SIGN_TX, SUCCESS, c.currentWitnessData, "witness") /\ ctx' = c
    BY <1>4 DEF WitnessStep
  <2>2. ContextOk(c, g, "none")
    BY OtherScreens
  <2>3. c.currentWitnessData \in ReplyData
    BY DEF ReplyData, Context
  <2>4. DataOk(c.currentWitnessData, g)
    BY DEF DataOk
  <2> QED
    BY <2>1, <2>2, <2>3, <2>4, AnswerInv
<1> QED
  BY <1>1, <1>2, <1>3, <1>4

-----------------------------------------------------------------------------
(***************************************************************************)
(* The actions.                                                            *)
(***************************************************************************)

\* When a handler starts, its call is either new and zeroed or open and in order.
LEMMA CallIsReady ==
  ASSUME Inv, Accepts(SIGN_TX)
  PROVE  /\ On /\ ~Sending
         /\ CallContext \in Context /\ CallGhost \in Ghost
         /\ \/ CallContext = ZeroContext
            \/ ContextOk(CallContext, CallGhost, "none")
<1>1. On /\ ~Sending
  BY DEF Accepts
<1>2. CallContext \in Context /\ CallGhost \in Ghost
  BY ZeroContextType DEF CallContext, CallGhost, Inv, CallTypeOK
<1>3. ~IsNewCall => ContextOk(ctx, ghost, "none")
  <2> SUFFICES ASSUME ~IsNewCall PROVE ContextOk(ctx, ghost, "none")
    OBVIOUS
  <2>1. currentInstruction = SIGN_TX /\ ioState = "IO" /\ reply = NoReply
    BY <1>1 DEF Accepts, IsNewCall, Inv, ControlInv
  <2>2. Live /\ NextCallback = "none"
    BY <1>1, <2>1 DEF Live, NextCallback, WaitsForUser, NoReply
  <2> QED
    BY <2>2 DEF Inv, ContextInv
<1> QED
  BY <1>1, <1>2, <1>3 DEF CallContext, CallGhost

\* Of the history, a context only depends on the confirmed hash.
LEMMA SameConfirmed ==
  ASSUME NEW c, NEW g, NEW h, NEW cb, ContextOk(c, g, cb),
         h.confirmedHash = g.confirmedHash
  PROVE  ContextOk(c, h, cb)
  BY DEF ContextOk, HashOk

\* A step within a stage keeps the context in order.
LEMMA SameProgressOk ==
  ASSUME NEW c, NEW d, NEW g, NEW cb, ContextOk(c, g, cb), SameProgress(c, d),
         d.hashed # ZeroHash,
         d.sumAmountInputs <= MaxSupply, d.sumAmountOutputs <= MaxSupply
  PROVE  ContextOk(d, g, cb)
  BY DEF ContextOk, CountersOk, BuilderOk, HashOk, SameProgress

\* The verdicts of the handlers are errors for the host or causes of a reset.
LEMMA Verdicts ==
  /\ {ERR_INVALID_STATE, ERR_INVALID_REQUEST_PARAMETERS, ERR_INVALID_DATA,
      ERR_REJECTED_BY_POLICY} \subseteq AutoRespond
  /\ {ASSERT_CURRENT_INPUT, ASSERT_CURRENT_OUTPUT, ASSERT_CURRENT_WITNESS,
      ASSERT_PATH_LENGTH, ASSERT_ADDRESS_SIZE, ERR_NOT_ENOUGH_INPUT, ERR_UNEXPECTED_TOKEN,
      ERR_DATA_TOO_LARGE} \subseteq HostCrashes
  BY DEF AutoRespond, HostCrashes

\* P1 = 1 keeps the invariant, whatever it is sent and whenever.
LEMMA HandleInitInv ==
  ASSUME Inv, NEW p2, NEW sizeOk, NEW counts \in [inputs: Nat, outputs: Nat],
         HandleInit(p2, sizeOk, counts)
  PROVE  Inv'
<1> DEFINE c == CallContext
           r == InitHandler(c, p2, sizeOk, counts)
           g == [CallGhost EXCEPT !.announced = counts]
<1>1. /\ On /\ ~Sending /\ c \in Context /\ CallGhost \in Ghost
      /\ c = ZeroContext \/ ContextOk(c, CallGhost, "none")
  BY CallIsReady DEF HandleInit
<1>2. g \in Ghost /\ attested' = attested
      /\ ghost' = IF r.verdict = SUCCESS THEN g ELSE CallGhost
  BY <1>1 DEF Ghost, HandleInit
<1>3. IF r.verdict = SUCCESS THEN InitStep(r.ctx) ELSE Failed(r)
  BY DEF HandleInit
<1> HIDE DEF c, r, g
<1>4. CASE r.verdict = SUCCESS
  <2>1. /\ r.ctx \in Context /\ c.stage = "NONE"
        /\ r.ctx.stage = "NONE" /\ r.ctx.builder = "INIT" /\ r.ctx.hashed # ZeroHash
        /\ r.ctx.txHash = c.txHash /\ r.ctx.uiStep = "INIT_CONFIRM"
        /\ r.ctx.numWitnesses = r.ctx.numInputs
        /\ 0 < r.ctx.numInputs /\ 0 < r.ctx.numOutputs
        /\ r.ctx.currentInput = 0 /\ r.ctx.currentOutput = 0 /\ r.ctx.currentWitness = 0
        /\ r.ctx.sumAmountInputs = 0 /\ r.ctx.sumAmountOutputs = 0
    BY <1>1, <1>4, InitHandlerResult DEF r
  <2>2. c.txHash = ZeroHash
    BY <1>1, <2>1 DEF ContextOk, BuilderOk, ZeroContext
  <2>3. ContextOk(r.ctx, g, "init")
    BY <2>1, <2>2, AmountsAssumption DEF ContextOk, CountersOk, BuilderOk, HashOk
  <2> QED
    BY <1>1, <1>2, <1>3, <1>4, <2>1, <2>3, InitStepInv
<1>5. CASE r.verdict # SUCCESS
  <2>1. r.ctx \in Context /\ r.verdict \in AutoRespond
    BY <1>1, <1>5, InitHandlerResult, Verdicts DEF r
  <2> QED
    BY <1>1, <1>2, <1>3, <1>5, <2>1, FailedInv
<1> QED
  BY <1>4, <1>5

\* P1 = 2 keeps the invariant.
LEMMA HandleInputInv ==
  ASSUME Inv, NEW p2, NEW form, NEW u \in Utxos, HandleInput(p2, form, u)
  PROVE  Inv'
<1> DEFINE c == CallContext
           r == InputHandler(c, p2, form, u)
           g == [CallGhost EXCEPT !.exactIn = @ + AmountOf[u]]
<1>1. /\ On /\ ~Sending /\ c \in Context /\ CallGhost \in Ghost
      /\ c = ZeroContext \/ ContextOk(c, CallGhost, "none")
  BY CallIsReady DEF HandleInput
<1>2. g \in Ghost /\ g.confirmedHash = CallGhost.confirmedHash /\ attested' = attested
      /\ ghost' = IF r.verdict = SUCCESS THEN g ELSE CallGhost
  <2>1. AmountOf[u] \in Nat
    BY UtxosAssumption, AmountsAssumption
  <2>2. CallGhost.exactIn + AmountOf[u] \in Nat
    BY <1>1, <2>1 DEF Ghost
  <2> QED
    BY <1>1, <2>2 DEF Ghost, HandleInput
<1>3. IF r.verdict = SUCCESS THEN InputStep(r.ctx) ELSE Failed(r)
  BY DEF HandleInput
<1>4. c.sumAmountInputs <= MaxSupply /\ (c.stage = "INPUTS" => c.builder = "IN_INPUTS")
  BY <1>1, AmountsAssumption DEF ZeroContext, ContextOk, CountersOk, BuilderOk
<1> HIDE DEF c, r, g
<1>5. CASE r.verdict = SUCCESS
  <2>1. /\ r.ctx \in Context /\ c.stage = "INPUTS" /\ SameProgress(c, r.ctx)
        /\ r.ctx.sumAmountOutputs = c.sumAmountOutputs
        /\ r.ctx.hashed # ZeroHash /\ r.ctx.sumAmountInputs <= MaxSupply
        /\ r.ctx.uiStep = "INPUT_RESPOND"
    BY <1>1, <1>4, <1>5, InputHandlerResult DEF r
  <2>2. ContextOk(c, g, "none")
    BY <1>1, <1>2, <2>1, SameConfirmed DEF ZeroContext
  <2>3. ContextOk(r.ctx, g, "none")
    BY <2>1, <2>2, SameProgressOk DEF ContextOk, CountersOk
  <2>4. r.ctx.stage = "INPUTS"
    BY <2>1 DEF SameProgress
  <2> QED
    BY <1>1, <1>2, <1>3, <1>5, <2>1, <2>3, <2>4, InputStepInv
<1>6. CASE r.verdict # SUCCESS
  <2>1. r.ctx \in Context /\ r.verdict \in AutoRespond \cup HostCrashes
    BY <1>1, <1>4, <1>6, InputHandlerResult, Verdicts DEF r
  <2> QED
    BY <1>1, <1>2, <1>3, <1>6, <2>1, FailedInv
<1> QED
  BY <1>5, <1>6

\* P1 = 3 keeps the invariant.
LEMMA HandleOutputInv ==
  ASSUME Inv, NEW p2, NEW n \in Amounts, NEW d, IsDestination(d), HandleOutput(p2, n, d)
  PROVE  Inv'
<1> DEFINE c == CallContext
           r == OutputHandler(c, p2, n, d)
           g == [CallGhost EXCEPT !.exactOut = @ + n]
<1>1. /\ On /\ ~Sending /\ c \in Context /\ CallGhost \in Ghost
      /\ c = ZeroContext \/ ContextOk(c, CallGhost, "none")
  BY CallIsReady DEF HandleOutput
<1>2. g \in Ghost /\ g.confirmedHash = CallGhost.confirmedHash /\ attested' = attested
      /\ ghost' = IF r.verdict = SUCCESS THEN g ELSE CallGhost
  <2>1. CallGhost.exactOut + n \in Nat
    BY <1>1, AmountsAssumption DEF Ghost, Amounts
  <2> QED
    BY <1>1, <2>1 DEF Ghost, HandleOutput
<1>3. IF r.verdict = SUCCESS THEN OutputStep(r.ctx) ELSE Failed(r)
  BY DEF HandleOutput
<1>4. c.sumAmountOutputs <= MaxSupply /\ (c.stage = "OUTPUTS" => c.builder = "IN_OUTPUTS")
  BY <1>1, AmountsAssumption DEF ZeroContext, ContextOk, CountersOk, BuilderOk
<1> HIDE DEF c, r, g
<1>5. CASE r.verdict = SUCCESS
  <2>1. /\ r.ctx \in Context /\ c.stage = "OUTPUTS" /\ SameProgress(c, r.ctx)
        /\ r.ctx.sumAmountInputs = c.sumAmountInputs
        /\ r.ctx.hashed # ZeroHash /\ r.ctx.sumAmountOutputs <= MaxSupply
        /\ r.ctx.uiStep \in {"OUTPUT_DISPLAY_AMOUNT", "OUTPUT_RESPOND"}
    BY <1>1, <1>4, <1>5, OutputHandlerResult DEF r
  <2>2. ContextOk(c, g, "none")
    BY <1>1, <1>2, <2>1, SameConfirmed DEF ZeroContext
  <2>3. ContextOk(r.ctx, g, "output")
    BY <2>1, <2>2, SameProgressOk, OtherScreens DEF ContextOk, CountersOk
  <2>4. r.ctx.stage = "OUTPUTS"
    BY <2>1 DEF SameProgress
  <2> QED
    BY <1>1, <1>2, <1>3, <1>5, <2>1, <2>3, <2>4, OutputStepInv
<1>6. CASE r.verdict # SUCCESS
  <2>1. r.ctx \in Context /\ r.verdict \in AutoRespond \cup HostCrashes
    BY <1>1, <1>4, <1>6, OutputHandlerResult, Verdicts DEF r
  <2> QED
    BY <1>1, <1>2, <1>3, <1>6, <2>1, FailedInv
<1> QED
  BY <1>5, <1>6

\* P1 = 4 keeps the invariant.
LEMMA HandleConfirmInv ==
  ASSUME Inv, NEW p2, NEW sizeOk, HandleConfirm(p2, sizeOk)
  PROVE  Inv'
<1> DEFINE c == CallContext
           g == CallGhost
           r == ConfirmHandler(c, p2, sizeOk)
<1>1. /\ On /\ ~Sending /\ c \in Context /\ g \in Ghost
      /\ c = ZeroContext \/ ContextOk(c, g, "none")
  BY CallIsReady DEF HandleConfirm
<1>2. attested' = attested /\ ghost' = g
  BY DEF HandleConfirm
<1>3. IF r.verdict = SUCCESS THEN ConfirmStep(r.ctx) ELSE Failed(r)
  BY DEF HandleConfirm
<1>4. c.stage = "CONFIRM" => c.builder = "IN_METADATA"
  BY <1>1 DEF ZeroContext, ContextOk, BuilderOk
<1> HIDE DEF c, r, g
<1>5. CASE r.verdict = SUCCESS
  <2>1. /\ r.ctx \in Context /\ c.stage = "CONFIRM"
        /\ SameProgress(Finalized(c), r.ctx)
        /\ r.ctx.hashed = c.hashed
        /\ r.ctx.sumAmountInputs = c.sumAmountInputs
        /\ r.ctx.sumAmountOutputs = c.sumAmountOutputs
        /\ r.ctx.uiStep = "CONFIRM_DISPLAY_FEE"
    BY <1>1, <1>4, <1>5, ConfirmHandlerResult DEF r
  <2>2. ContextOk(c, g, "none")
    BY <1>1, <2>1 DEF ZeroContext
  <2>3. ContextOk(Finalized(c), g, "confirm")
    BY <1>1, <2>1, <2>2 DEF Finalized, ContextOk, CountersOk, BuilderOk, HashOk, Context
  <2>4. ContextOk(r.ctx, g, "confirm")
    <3>1. r.ctx.hashed # ZeroHash /\ r.ctx.sumAmountInputs <= MaxSupply
          /\ r.ctx.sumAmountOutputs <= MaxSupply
      BY <2>1, <2>2 DEF ContextOk, CountersOk, HashOk
    <3> QED
      BY <2>1, <2>3, <3>1, SameProgressOk
  <2>5. r.ctx.stage = "CONFIRM"
    BY <1>1, <2>1 DEF Finalized, SameProgress, Context
  <2> QED
    BY <1>1, <1>2, <1>3, <1>5, <2>1, <2>4, <2>5, ConfirmStepInv
<1>6. CASE r.verdict # SUCCESS
  <2>1. r.ctx \in Context /\ r.verdict \in AutoRespond
    BY <1>1, <1>4, <1>6, ConfirmHandlerResult, Verdicts DEF r
  <2> QED
    BY <1>1, <1>2, <1>3, <1>6, <2>1, FailedInv
<1> QED
  BY <1>5, <1>6

\* P1 = 5 keeps the invariant, in every stage.
LEMMA HandleWitnessInv ==
  ASSUME Inv, NEW p2, NEW w, WellFormedWire(w), HandleWitness(p2, w)
  PROVE  Inv'
<1> DEFINE c == CallContext
           g == CallGhost
           r == WitnessHandler(c, p2, w)
<1>1. /\ On /\ ~Sending /\ c \in Context /\ g \in Ghost
      /\ c = ZeroContext \/ ContextOk(c, g, "none")
  BY CallIsReady DEF HandleWitness
<1>2. attested' = attested /\ ghost' = g
  BY DEF HandleWitness
<1>3. IF r.verdict = SUCCESS THEN WitnessStep(r.ctx) ELSE Failed(r)
  BY DEF HandleWitness
<1> HIDE DEF c, r, g
<1>5. CASE r.verdict = SUCCESS
  <2>1. /\ r.ctx \in Context /\ c.currentWitness < c.numWitnesses /\ SameProgress(c, r.ctx)
        /\ r.ctx.hashed = c.hashed
        /\ r.ctx.sumAmountInputs = c.sumAmountInputs
        /\ r.ctx.sumAmountOutputs = c.sumAmountOutputs
        /\ r.ctx.currentWitnessData.hash = c.txHash
        /\ r.ctx.currentWitnessData.kind = "signature"
        /\ r.ctx.uiStep \in {"WITNESS_WARNING", "WITNESS_RESPOND"}
    BY <1>1, <1>5, WitnessHandlerResult DEF r
  <2>2. ContextOk(c, g, "none")
    BY <1>1, <2>1 DEF ZeroContext
  <2>3. ContextOk(r.ctx, g, "none")
    BY <2>1, <2>2, SameProgressOk DEF ContextOk, CountersOk, HashOk
  <2>4. r.ctx.stage # "NONE" /\ ContextOk(r.ctx, g, "witness")
    BY <2>3, OtherScreens DEF ContextOk, BuilderOk
  <2>5. SignatureOk(r.ctx.currentWitnessData, g)
    BY <1>1, <2>1, <2>2 DEF SignatureOk, ContextOk, BuilderOk, HashOk, Context, Stages
  <2> QED
    BY <1>1, <1>2, <1>3, <1>5, <2>1, <2>4, <2>5, WitnessStepInv
<1>6. CASE r.verdict # SUCCESS
  <2>1. r.ctx \in Context /\ r.verdict \in AutoRespond \cup HostCrashes
    BY <1>1, <1>6, WitnessHandlerResult, Verdicts DEF r
  <2> QED
    BY <1>1, <1>2, <1>3, <1>6, <2>1, FailedInv
<1> QED
  BY <1>5, <1>6

\* A P1 that no subhandler serves keeps the invariant.
LEMMA HandleUnknownP1Inv ==
  ASSUME Inv, HandleUnknownP1
  PROVE  Inv'
<1> DEFINE r == Refuse(ERR_INVALID_REQUEST_PARAMETERS, CallContext)
<1>1. On /\ ~Sending /\ CallContext \in Context /\ CallGhost \in Ghost
  BY CallIsReady DEF HandleUnknownP1
<1>2. r.ctx \in Context /\ r.verdict \in AutoRespond \cup HostCrashes
  BY <1>1, Verdicts DEF Refuse
<1>3. Failed(r) /\ ghost' \in Ghost /\ attested' = attested
  BY <1>1 DEF HandleUnknownP1
<1> HIDE DEF r
<1> QED
  BY <1>1, <1>2, <1>3, FailedInv

\* A button that counts is pressed under a screen of the open call.
LEMMA ButtonScreen ==
  ASSUME Inv, NEW kinds, kinds \subseteq {"text", "prompt"}, AwaitsButton(kinds)
  PROVE  /\ On /\ ~Sending /\ ButtonAsserts
         /\ currentInstruction = SIGN_TX
         /\ ContextOk(ctx, ghost, display.callback)
         /\ ScreenOk(ctx, ghost, display.what, display.callback)
<1>1. On /\ ~display.run /\ display.kind \in {"text", "prompt"}
  BY DEF AwaitsButton
<1>2. ~Sending /\ ioState = "UI"
  BY <1>1 DEF Inv, ControlInv, OneAnswerPerRequest
<1>3. WaitsForUser
  BY <1>1, <1>2 DEF WaitsForUser
<1>4. currentInstruction = SIGN_TX /\ ScreenOk(ctx, ghost, display.what, display.callback)
  BY <1>3 DEF Inv, ScreenInv
<1>5. Live /\ NextCallback = display.callback
  BY <1>1, <1>2, <1>3, <1>4 DEF Live, NextCallback, Inv, ControlInv, NoReply
<1> QED
  BY <1>1, <1>2, <1>4, <1>5 DEF Inv, ContextInv, ButtonAsserts

\* A button that goes on keeps the invariant, under each of the four callbacks.
LEMMA UserConfirmsInv ==
  ASSUME Inv, UserConfirms
  PROVE  Inv'
<1> DEFINE what == display.what
           cb == display.callback
           g == [ghost EXCEPT
                   !.acknowledged = Append(@, what),
                   !.confirmedHash = IF what = FinalPrompt THEN ctx.txHash ELSE @]
<1>1. On /\ ~Sending /\ ButtonAsserts /\ ContextOk(ctx, ghost, cb)
      /\ ScreenOk(ctx, ghost, what, cb)
  BY ButtonScreen DEF UserConfirms
<1>2. ctx \in Context /\ ghost \in Ghost /\ what \in Saying
  BY DEF Inv, CallTypeOK
<1>3. g \in Ghost
      /\ g.confirmedHash = IF what = FinalPrompt THEN ctx.txHash ELSE ghost.confirmedHash
  BY <1>2, AppendProperties DEF Ghost, Context
<1>4. RunStep /\ ghost' = g /\ attested' = attested
  BY <1>1 DEF UserConfirms
<1> HIDE DEF what, g
<1>5. what # FinalPrompt => ContextOk(ctx, g, cb)
  BY <1>1, <1>3, SameConfirmed
<1>6. CASE cb = "init"
  <2>1. InitStep(ctx)
    BY <1>4, <1>6 DEF RunStep
  <2>2. ContextOk(ctx, g, "init") /\ ctx.stage = "NONE" /\ ctx.uiStep = "INIT_RESPOND"
    BY <1>1, <1>5, <1>6 DEF ScreenOk
  <2> QED
    BY <1>1, <1>2, <1>3, <1>4, <2>1, <2>2, InitStepInv
<1>7. CASE cb = "output"
  <2>1. OutputStep(ctx)
    BY <1>4, <1>7 DEF RunStep
  <2>2. ContextOk(ctx, g, "output") /\ ctx.stage = "OUTPUTS"
        /\ ctx.uiStep \in {"OUTPUT_DISPLAY_ADDRESS", "OUTPUT_RESPOND"}
    BY <1>1, <1>5, <1>7 DEF ScreenOk
  <2> QED
    BY <1>1, <1>2, <1>3, <1>4, <2>1, <2>2, OutputStepInv
<1>8. CASE cb = "confirm"
  <2>1. ConfirmStep(ctx)
    BY <1>4, <1>8 DEF RunStep
  <2>2. /\ ctx.stage = "CONFIRM"
        /\ ctx.uiStep \in {"CONFIRM_FINAL_CONFIRM", "CONFIRM_RESPOND"}
        /\ ctx.uiStep = "CONFIRM_RESPOND" <=> what = FinalPrompt
    BY <1>1, <1>8 DEF ScreenOk
  <2>3. ctx.uiStep = "CONFIRM_RESPOND" => ctx.txHash = g.confirmedHash
    BY <1>3, <2>2
  <2>4. ContextOk(ctx, g, "confirm")
    BY <1>1, <1>8, <2>2 DEF ContextOk, HashOk
  <2> QED
    BY <1>1, <1>2, <1>3, <1>4, <2>1, <2>2, <2>3, <2>4, ConfirmStepInv
<1>9. CASE cb = "witness"
  <2>1. WitnessStep(ctx)
    BY <1>4, <1>9 DEF RunStep
  <2>2. /\ what # FinalPrompt
        /\ ctx.uiStep \in {"WITNESS_DISPLAY", "WITNESS_CONFIRM", "WITNESS_RESPOND"}
        /\ ctx.stage # "NONE" /\ ctx.currentWitnessData.kind = "signature"
        /\ SignatureOk(ctx.currentWitnessData, ghost)
    BY <1>1, <1>9 DEF ScreenOk
  <2>3. ContextOk(ctx, g, "witness") /\ SignatureOk(ctx.currentWitnessData, g)
    BY <1>3, <1>5, <1>9, <2>2 DEF SignatureOk
  <2> QED
    BY <1>1, <1>2, <1>3, <1>4, <2>1, <2>2, <2>3, WitnessStepInv
<1> QED
  BY <1>1, <1>6, <1>7, <1>8, <1>9 DEF ScreenOk

\* The end of a transmission, whatever it leaves: the application is ready.
LEMMA TransmittedInv ==
  ASSUME Inv, NEW then \in {"idle", "busy"}, Transmitted(then),
         NEW c \in Context, NEW g \in Ghost, ctx' = c, ghost' = g, attested' = attested,
         then = "busy" => currentInstruction = SIGN_TX /\ ContextOk(c, g, "none")
  PROVE  Inv'
<1>1. Says("menu") \in Saying /\ Says("busy") \in Saying
  BY EmptyTypes, ZeroInRange DEF Says, Saying, Headers
<1>2. /\ Menu \in [kind: {"menu", "busy", "text", "prompt"}, what: Saying,
                   callback: Flows, run: BOOLEAN]
      /\ BusyScreen \in [kind: {"menu", "busy", "text", "prompt"}, what: Saying,
                         callback: Flows, run: BOOLEAN]
      /\ Menu.kind = "menu" /\ Menu.run /\ BusyScreen.kind = "busy" /\ BusyScreen.run
  <2> HIDE DEF Says, Saying
  <2> QED
    BY <1>1 DEF Menu, BusyScreen, Screen, Flows
<1>3. NoReply \in [code: {NoCode, SUCCESS} \cup AutoRespond, data: ReplyData,
                   then: {"none", "idle", "busy", "witness"}]
      /\ NoReply.code = NoCode
  BY DEF NoReply, ReplyData
<1>4. display' = (IF then = "idle" THEN Menu ELSE BusyScreen)
      /\ reply' = NoReply /\ ioState' = "IO" /\ awaiting' = FALSE
      /\ crashed' = crashed /\ locked' = locked /\ On
      /\ currentInstruction' = IF then = "idle" THEN INS_NONE ELSE currentInstruction
  BY DEF Transmitted, ScreenAfter
<1> HIDE DEF Menu, BusyScreen, NoReply
<1>5. CallTypeOK'
  BY <1>2, <1>3, <1>4 DEF Inv, CallTypeOK
<1>6. On' /\ ~Sending' /\ ~WaitsForUser' /\ NextCallback' = "none"
  BY <1>3, <1>4 DEF On, Sending, WaitsForUser, NextCallback
<1>7. ControlInv' /\ InternalAssertionsHold'
  BY <1>2, <1>4, <1>6
     DEF Inv, ControlInv, OneAnswerPerRequest, NoStaleScreen, InternalAssertionsHold,
         INS_NONE, SIGN_TX
<1>8. ContextInv'
  BY <1>4, <1>6 DEF ContextInv, Live, INS_NONE, SIGN_TX
<1>9. ScreenInv' /\ ReplyInv'
  BY <1>6 DEF ScreenInv, ReplyInv
<1> QED
  BY <1>5, <1>7, <1>8, <1>9 DEF Inv

\* The end of a transmission keeps the invariant.
LEMMA SendDoneInv ==
  ASSUME Inv, SendDone
  PROVE  Inv'
<1>1. On /\ Sending /\ ctx \in Context /\ ghost \in Ghost /\ attested' = attested
  BY DEF SendDone, Transmitted, Inv, CallTypeOK
<1>3. \/ reply.then = "idle"
      \/ /\ reply.then \in {"busy", "witness"}
         /\ currentInstruction = SIGN_TX
         /\ ContextOk(ctx, ghost, "none")
  <2>1. ASSUME reply.code = SUCCESS
        PROVE  /\ reply.then \in {"busy", "witness"}
               /\ currentInstruction = SIGN_TX
               /\ ContextOk(ctx, ghost, "none")
    <3>1. reply.then \in {"busy", "witness"} /\ currentInstruction = SIGN_TX
      BY <1>1, <2>1 DEF Inv, ReplyInv
    <3>2. Live /\ NextCallback = "none"
      BY <1>1, <3>1 DEF Live, NextCallback, WaitsForUser
    <3> QED
      BY <3>1, <3>2 DEF Inv, ContextInv
  <2> QED
    BY <1>1, <2>1 DEF Inv, ReplyInv
<1>4. CASE reply.then = "idle"
  BY <1>1, <1>4, TransmittedInv DEF SendDone
<1>5. CASE reply.then = "busy" /\ currentInstruction = SIGN_TX /\ ContextOk(ctx, ghost, "none")
  <2> DEFINE c == [ctx EXCEPT !.uiStep = "INVALID"]
  <2>1. c \in Context /\ ContextOk(c, ghost, "none")
    BY <1>1, <1>5 DEF Context, UiSteps, ContextOk, CountersOk, BuilderOk, HashOk
  <2>2. Transmitted("busy") /\ ctx' = c /\ ghost' = ghost
    BY <1>5 DEF SendDone
  <2> HIDE DEF c
  <2> QED
    BY <1>1, <1>5, <2>1, <2>2, TransmittedInv
<1>6. CASE reply.then = "witness" /\ currentInstruction = SIGN_TX
           /\ ContextOk(ctx, ghost, "none")
  <2> DEFINE c == WitnessSent(ctx)
             g == [ghost EXCEPT !.signatures = @ + 1]
  <2>1. g \in Ghost /\ g.confirmedHash = ghost.confirmedHash
    BY <1>1 DEF Ghost
  <2>2. ctx.currentWitness + 1 \in Counts /\ ctx.currentWitness + 1 <= ctx.numWitnesses
    BY <1>1, <1>6, CountsAssumption DEF Context, Counts, ContextOk, CountersOk
  <2>3. c = [ctx EXCEPT !.currentWitness = ctx.currentWitness + 1, !.uiStep = "INVALID",
                        !.stage = IF LastWitness(ctx) THEN "NONE" ELSE ctx.stage]
    BY DEF WitnessSent
  <2>4. c \in Context
    BY <1>1, <2>2, <2>3 DEF Context, Stages, UiSteps
  <2>5. ~LastWitness(ctx) => ContextOk(c, ghost, "none")
    <3>1. ~LastWitness(ctx) => ctx.currentWitness + 1 < ctx.numWitnesses
      BY <1>1, <2>2 DEF LastWitness, Context, Counts
    <3> QED
      BY <1>1, <1>6, <2>3, <3>1 DEF Context, ContextOk, CountersOk, BuilderOk, HashOk
  <2>6. ~LastWitness(ctx) => ContextOk(c, g, "none")
    BY <2>1, <2>5, SameConfirmed
  <2>7. Transmitted(IF LastWitness(ctx) THEN "idle" ELSE "busy") /\ ctx' = c /\ ghost' = g
    BY <1>6 DEF SendDone
  <2> HIDE DEF c, g
  <2>8. CASE LastWitness(ctx)
    BY <1>1, <2>1, <2>4, <2>7, <2>8, TransmittedInv
  <2>9. CASE ~LastWitness(ctx)
    BY <1>1, <1>6, <2>1, <2>4, <2>6, <2>7, <2>9, TransmittedInv
  <2> QED
    BY <2>8, <2>9
<1> QED
  BY <1>3, <1>4, <1>5, <1>6

\* The steps of the main loop, a rejection and the lock keep the invariant.
LEMMA PlatformStepInv ==
  ASSUME Inv, PlatformStep
  PROVE  Inv'
<1>1. ctx' \in Context /\ ghost' \in Ghost /\ attested' = attested
      /\ ctx' = ctx /\ ghost' = ghost /\ currentInstruction \in {INS_NONE, SIGN_TX}
  BY DEF PlatformStep, signTxVars, Inv, CallTypeOK
<1>2. CASE RejectApdu
  <2>1. MainLoopErrors \subseteq AutoRespond
    BY DEF MainLoopErrors, AutoRespond
  <2>2. PICK e \in AutoRespond : Respond(currentInstruction, e, NoData, "idle")
    BY <1>2, <2>1 DEF RejectApdu
  <2>3. On /\ ~Sending
    BY <1>2 DEF RejectApdu
  <2> QED
    BY <1>1, <2>2, <2>3, ErrorInv
<1>3. CASE ApduDuringUi
  BY <1>1, <1>3, CrashInv DEF ApduDuringUi, HostCrashes
<1>4. CASE UserRejects
  <2>1. On /\ ~Sending /\ ButtonAsserts
    BY <1>4, ButtonScreen DEF UserRejects
  <2>2. Respond(currentInstruction, ERR_REJECTED_BY_USER, NoData, "idle")
    BY <1>4, <2>1 DEF UserRejects, RejectThen
  <2>3. ERR_REJECTED_BY_USER \in AutoRespond
    BY DEF AutoRespond
  <2> QED
    BY <1>1, <2>1, <2>2, <2>3, ErrorInv
<1>5. CASE LockDevice \/ UnlockDevice
  <2>1. /\ crashed' = crashed /\ ioState' = ioState /\ display' = display /\ reply' = reply
        /\ currentInstruction' = currentInstruction /\ awaiting' = awaiting
        /\ locked' \in BOOLEAN
    BY <1>5 DEF LockDevice, UnlockDevice
  <2>2. CallTypeOK'
    BY <1>1, <2>1 DEF Inv, CallTypeOK
  <2>3. ControlInv' /\ InternalAssertionsHold'
    BY <2>1 DEF Inv, ControlInv, OneAnswerPerRequest, NoStaleScreen, On, Sending,
                InternalAssertionsHold
  <2>4. ContextInv' /\ ScreenInv' /\ ReplyInv'
    BY <1>1, <2>1 DEF Inv, ContextInv, ScreenInv, ReplyInv, Live, NextCallback, WaitsForUser,
                      On, Sending
  <2> QED
    BY <2>2, <2>3, <2>4 DEF Inv
<1> QED
  BY <1>2, <1>3, <1>4, <1>5 DEF PlatformStep

\* A certificate changes what inputs are accepted, not the state of the call; a
\* step that changes nothing changes nothing.
LEMMA OtherStepsInv ==
  ASSUME Inv, UNCHANGED <<platformVars, ctx, ghost>>
  PROVE  Inv'
<1>1. CallTypeOK'
  BY DEF Inv, CallTypeOK, platformVars
<1>2. ControlInv' /\ InternalAssertionsHold'
  BY DEF platformVars, Inv, ControlInv, OneAnswerPerRequest, NoStaleScreen, On, Sending,
         InternalAssertionsHold
<1>3. ContextInv' /\ ScreenInv' /\ ReplyInv'
  BY DEF platformVars, Inv, ContextInv, ScreenInv, ReplyInv, Live, NextCallback,
         WaitsForUser, On, Sending
<1> QED
  BY <1>1, <1>2, <1>3 DEF Inv

\* Whatever the device was doing, it boots into the invariant: a context that is
\* left over is never used.
LEMMA BootInv ==
  ASSUME Boot, locked' \in BOOLEAN, ctx' \in Context, ghost' \in Ghost
  PROVE  Inv'
<1>1. Says("menu") \in Saying
  BY EmptyTypes, ZeroInRange DEF Says, Saying, Headers
<1>2. /\ Menu \in [kind: {"menu", "busy", "text", "prompt"}, what: Saying,
                   callback: Flows, run: BOOLEAN]
      /\ Menu.kind = "menu" /\ Menu.run
  <2> HIDE DEF Says, Saying
  <2> QED
    BY <1>1 DEF Menu, Screen, Flows
<1>3. NoReply \in [code: {NoCode, SUCCESS} \cup AutoRespond, data: ReplyData,
                   then: {"none", "idle", "busy", "witness"}]
      /\ NoReply.code = NoCode
  BY DEF NoReply, ReplyData
<1> HIDE DEF Menu, NoReply
<1>4. CallTypeOK'
  BY <1>2, <1>3 DEF Boot, CallTypeOK
<1>5. On' /\ ~Sending' /\ ~WaitsForUser' /\ ~Live'
  BY <1>3 DEF Boot, On, Sending, WaitsForUser, Live, INS_NONE, SIGN_TX
<1>6. ControlInv' /\ InternalAssertionsHold'
  BY <1>2, <1>5
     DEF Boot, ControlInv, OneAnswerPerRequest, NoStaleScreen, InternalAssertionsHold,
         InternalCrashes, NotCrashed, ASSERT_BUTTON, ASSERT_BUILDER_STATE,
         ASSERT_AMOUNT_SUM, ASSERT_UI_STEP
<1>7. ContextInv' /\ ScreenInv' /\ ReplyInv'
  BY <1>5 DEF ContextInv, ScreenInv, ReplyInv
<1> QED
  BY <1>4, <1>6, <1>7 DEF Inv

\* An EXCEPTION_IO_RESET or a restart restores the invariant.
LEMMA StartOverInv ==
  ASSUME Inv, StartOver
  PROVE  Inv'
<1>1. Boot /\ locked' \in BOOLEAN
  BY DEF StartOver, IoReset, Restart, Inv, CallTypeOK
<1>2. ctx' \in Context /\ ghost' \in Ghost
  BY DEF StartOver, Inv, CallTypeOK
<1> QED
  BY <1>1, <1>2, BootInv

\* The application starts as it boots.
LEMMA InitInv == Init => Inv
<1> SUFFICES ASSUME Init PROVE Inv
  OBVIOUS
<1>1. Says("menu") \in Saying
  BY EmptyTypes, ZeroInRange DEF Says, Saying, Headers
<1>2. /\ Menu \in [kind: {"menu", "busy", "text", "prompt"}, what: Saying,
                   callback: Flows, run: BOOLEAN]
      /\ Menu.kind = "menu" /\ Menu.run
  <2> HIDE DEF Says, Saying
  <2> QED
    BY <1>1 DEF Menu, Screen, Flows
<1>3. NoReply \in [code: {NoCode, SUCCESS} \cup AutoRespond, data: ReplyData,
                   then: {"none", "idle", "busy", "witness"}]
      /\ NoReply.code = NoCode
  BY DEF NoReply, ReplyData
<1> HIDE DEF Menu, NoReply
<1>4. CallTypeOK
  BY <1>2, <1>3, ZeroContextType DEF Init, PlatformInit, CallTypeOK
<1>5. On /\ ~Sending /\ ~WaitsForUser /\ ~Live
  BY <1>3 DEF Init, PlatformInit, On, Sending, WaitsForUser, Live, INS_NONE, SIGN_TX
<1>6. ControlInv /\ InternalAssertionsHold
  BY <1>2, <1>5
     DEF Init, PlatformInit, ControlInv, OneAnswerPerRequest, NoStaleScreen,
         InternalAssertionsHold, InternalCrashes, NotCrashed, ASSERT_BUTTON,
         ASSERT_BUILDER_STATE, ASSERT_AMOUNT_SUM, ASSERT_UI_STEP
<1>7. ContextInv /\ ScreenInv /\ ReplyInv
  BY <1>5 DEF ContextInv, ScreenInv, ReplyInv
<1> QED
  BY <1>4, <1>6, <1>7 DEF Inv

-----------------------------------------------------------------------------
(***************************************************************************)
(* The theorems.                                                           *)
(***************************************************************************)

\* Inv is inductive: every step of the application keeps it.
LEMMA NextInv ==
  ASSUME Inv, [Next]_vars
  PROVE  Inv'
<1>1. CASE \E p2 \in {0, 1}, sizeOk \in BOOLEAN, i \in WireCounts, o \in WireCounts :
             HandleInit(p2, sizeOk, [inputs |-> i, outputs |-> o])
  <2>1. PICK p2 \in {0, 1}, sizeOk \in BOOLEAN, i \in WireCounts, o \in WireCounts :
          HandleInit(p2, sizeOk, [inputs |-> i, outputs |-> o])
    BY <1>1
  <2>2. [inputs |-> i, outputs |-> o] \in [inputs: Nat, outputs: Nat]
    BY CountsAssumption
  <2> QED
    BY <2>1, <2>2, HandleInitInv
<1>2. CASE \E p2 \in {0, 1}, form \in {"utxo", "malformed"}, u \in Utxos :
             HandleInput(p2, form, u)
  BY <1>2, HandleInputInv
<1>3. CASE \E p2 \in {0, 1}, n \in WireAmounts, d \in Destinations : HandleOutput(p2, n, d)
  <2>1. PICK p2 \in {0, 1}, n \in WireAmounts, d \in Destinations : HandleOutput(p2, n, d)
    BY <1>3
  <2>2. n \in Amounts /\ IsDestination(d)
    BY AmountsAssumption, DestinationsAssumption DEF Amounts
  <2> QED
    BY <2>1, <2>2, HandleOutputInv
<1>4. CASE \E p2 \in {0, 1}, sizeOk \in BOOLEAN : HandleConfirm(p2, sizeOk)
  BY <1>4, HandleConfirmInv
<1>5. CASE \E p2 \in {0, 1}, w \in WireWitnesses : HandleWitness(p2, w)
  <2>1. PICK p2 \in {0, 1}, w \in WireWitnesses : HandleWitness(p2, w)
    BY <1>5
  <2>2. WellFormedWire(w)
    BY DestinationsAssumption
  <2> QED
    BY <2>1, <2>2, HandleWitnessInv
<1>6. CASE HandleUnknownP1
  BY <1>6, HandleUnknownP1Inv
<1>7. CASE UserConfirms
  BY <1>7, UserConfirmsInv
<1>8. CASE SendDone
  BY <1>8, SendDoneInv
<1>9. CASE PlatformStep
  BY <1>9, PlatformStepInv
<1>10. CASE \E u \in Utxos : AttestUtxo(u)
  <2>1. UNCHANGED <<platformVars, ctx, ghost>>
    BY <1>10 DEF AttestUtxo
  <2> QED
    BY <2>1, OtherStepsInv
<1>11. CASE StartOver
  BY <1>11, StartOverInv
<1>12. CASE UNCHANGED vars
  <2>1. UNCHANGED <<platformVars, ctx, ghost>>
    BY <1>12 DEF vars, signTxVars
  <2> QED
    BY <2>1, OtherStepsInv
<1> QED
  BY <1>1, <1>2, <1>3, <1>4, <1>5, <1>6, <1>7, <1>8, <1>9, <1>10, <1>11, <1>12 DEF Next

\* The inductive invariant holds in every reachable state, for any set of UTxOs,
\* any amounts, any limits and whatever the host sends.
THEOREM Invariant == Spec => []Inv
<1>1. Init => Inv
  BY InitInv
<1>2. Inv /\ [Next]_vars => Inv'
  BY NextInv
<1> QED
  BY <1>1, <1>2, PTL DEF Spec

\* Every variable stays in its range: no counter of the context leaves uint16_t
\* and no sum leaves uint64_t (the types of ins_sign_tx_context_t).
THEOREM TypeCorrect == Spec => []TypeOK
<1> DEFINE Certified == attested \subseteq Utxos
<1>1. Init => Certified
  BY DEF Init
<1>2. Certified /\ [Next]_vars => Certified'
  BY DEF Next, vars, signTxVars, HandleInit, HandleInput, HandleOutput, HandleConfirm,
         HandleWitness, HandleUnknownP1, UserConfirms, SendDone, PlatformStep, AttestUtxo,
         StartOver
<1>3. Inv /\ Certified => TypeOK
  BY DEF Inv, TypeOK
<1> HIDE DEF Certified
<1> QED
  BY <1>1, <1>2, <1>3, Invariant, PTL DEF Spec

\* io_state, the screen's callback state and the pending answer always agree, so
\* that every request has exactly one answer in the making.
THEOREM OneAnswer == Spec => []OneAnswerPerRequest
<1>1. Inv => OneAnswerPerRequest
  BY DEF Inv, ControlInv
<1> QED
  BY <1>1, Invariant, PTL

\* No screen of a finished request stays up (ui_idle and ui_displayBusy follow
\* every answer).
THEOREM FreshScreens == Spec => []NoStaleScreen
<1>1. Inv => NoStaleScreen
  BY DEF Inv, ControlInv
<1> QED
  BY <1>1, Invariant, PTL

\* No host, whatever the order of its requests, makes an ASSERT about the
\* program itself fail: the states of the hash builder, the sums, the UI steps
\* and the buttons.
THEOREM NoInternalAssertFails == Spec => []InternalAssertionsHold
<1>1. Inv => InternalAssertionsHold
  BY DEF Inv
<1> QED
  BY <1>1, Invariant, PTL

\* The hash goes to the host only after the final prompt has been confirmed on
\* it (signTx_handleConfirm_ui_runStep).
THEOREM HashIsConfirmed == Spec => []HashReleasedOnlyConfirmed
<1>1. Inv => HashReleasedOnlyConfirmed
  <2> SUFFICES ASSUME Inv, Sending, reply.data.kind = "hash"
               PROVE  reply.data.hash # ZeroHash /\ reply.data.hash = ghost.confirmedHash
    BY DEF HashReleasedOnlyConfirmed
  <2>1. reply.code = SUCCESS
    BY DEF Inv, ReplyInv, NoData
  <2> QED
    BY <2>1 DEF Inv, ReplyInv, DataOk
<1> QED
  BY <1>1, Invariant, PTL

\* Though signTx_handleWitness does not check the stage, what it signs is the
\* hash the user has confirmed in this call or the zeroes that memset left.
THEOREM SignaturesAreConfirmedOrZero == Spec => []SignsOnlyConfirmedOrZero
<1>1. Inv => SignsOnlyConfirmedOrZero
  <2> SUFFICES ASSUME Inv, Sending, reply.data.kind = "signature"
               PROVE  reply.data.hash \in {ZeroHash, ghost.confirmedHash}
    BY DEF SignsOnlyConfirmedOrZero, SendsSignature
  <2>1. reply.code = SUCCESS
    BY DEF Inv, ReplyInv, NoData
  <2> QED
    BY <2>1 DEF Inv, ReplyInv, DataOk, SignatureOk
<1> QED
  BY <1>1, Invariant, PTL

\* While an answer is under transmission only its end, a disconnection or the
\* lock can happen: no handler runs and no button counts.
LEMMA WhileSending ==
  ASSUME Inv, On, Sending, [Next]_vars
  PROVE  \/ SendDone
         \/ reply' = NoReply /\ currentInstruction' = INS_NONE
         \/ reply' = reply
<1>1. ~Accepts(SIGN_TX) /\ ~Accepts("ATTEST_UTXO")
  BY DEF Accepts
<1>2. ~UserConfirms /\ ~UserRejects
  BY ButtonScreen DEF UserConfirms, UserRejects
<1>3. CASE PlatformStep
  BY <1>2, <1>3 DEF PlatformStep, RejectApdu, ApduDuringUi, LockDevice, UnlockDevice
<1>4. CASE StartOver
  BY <1>4 DEF StartOver, IoReset, Restart, Boot
<1>5. CASE UNCHANGED vars
  BY <1>5 DEF vars, platformVars
<1> QED
  BY <1>1, <1>2, <1>3, <1>4, <1>5
     DEF Next, HandleInit, HandleInput, HandleOutput, HandleConfirm, HandleWitness,
         HandleUnknownP1, AttestUtxo

\* An answer with an error, user rejections included, closes the call: what it
\* has accumulated can never be resumed (errors.h on the autorespond errors).
THEOREM ErrorsEndCalls == Spec => ErrorEndsCall
<1>1. Inv /\ [Next]_vars =>
        [On /\ Sending /\ reply.code # SUCCESS /\ reply'.code = NoCode
         => currentInstruction' = INS_NONE]_platformVars
  <2> SUFFICES ASSUME Inv, [Next]_vars, On, Sending, reply.code # SUCCESS,
                      reply'.code = NoCode
               PROVE  currentInstruction' = INS_NONE
    OBVIOUS
  <2>1. reply.then = "idle"
    BY DEF Inv, ReplyInv
  <2>2. CASE SendDone
    BY <2>1, <2>2 DEF SendDone, Transmitted
  <2> QED
    BY <2>2, WhileSending DEF Sending
<1> QED
  BY <1>1, Invariant, PTL DEF Spec, ErrorEndsCall

\* A transmission ends before the next answer can begin, whatever buttons are
\* pressed meanwhile.
THEOREM OneTransmission == Spec => NeverAnswersTwice
<1>1. Inv /\ [Next]_vars =>
        [Sending /\ On => ~On' \/ reply'.code = NoCode \/ UNCHANGED reply]_platformVars
  <2> SUFFICES ASSUME Inv, [Next]_vars, On, Sending
               PROVE  reply'.code = NoCode \/ reply' = reply
    OBVIOUS
  <2>1. CASE SendDone
    BY <2>1 DEF SendDone, Transmitted, NoReply
  <2> QED
    BY <2>1, WhileSending DEF NoReply
<1> QED
  BY <1>1, Invariant, PTL DEF Spec, NeverAnswersTwice

-----------------------------------------------------------------------------
(***************************************************************************)
(* Where a step starts and where it leads.                                 *)
(***************************************************************************)

\* A handler starts on a call that it opens or that waits for it.
LEMMA HandlerBegins ==
  ASSUME Inv, Accepts(SIGN_TX)
  PROVE  /\ Begins(CallContext, CallGhost)
         /\ CallContext \in Context /\ CallGhost \in Ghost
         /\ On /\ ~Sending
<1>1. On /\ ~Sending /\ CallContext \in Context /\ CallGhost \in Ghost
  BY CallIsReady
<1>2. CASE IsNewCall
  BY <1>1, <1>2 DEF Begins, CallContext, CallGhost, Live, IsNewCall, INS_NONE, SIGN_TX
<1>3. CASE ~IsNewCall
  <2>1. currentInstruction = SIGN_TX /\ ioState = "IO" /\ reply = NoReply
    BY <1>1, <1>3 DEF Accepts, IsNewCall, Inv, ControlInv
  <2> QED
    BY <1>1, <1>3, <2>1
       DEF Begins, CallContext, CallGhost, Live, WaitsForUser, NoReply
<1> QED
  BY <1>1, <1>2, <1>3

\* A button that counts is pressed on the screen of the open call.
LEMMA ButtonPresses ==
  ASSUME Inv, AwaitsButton({"text", "prompt"}),
         NEW g, g = [ghost EXCEPT
                       !.acknowledged = Append(@, display.what),
                       !.confirmedHash = IF display.what = FinalPrompt THEN ctx.txHash ELSE @]
  PROVE  /\ Presses(ctx, g, display.callback)
         /\ ctx \in Context /\ g \in Ghost
         /\ On /\ ~Sending /\ ButtonAsserts
         /\ ContextOk(ctx, ghost, display.callback)
         /\ ScreenOk(ctx, ghost, display.what, display.callback)
<1>1. /\ On /\ ~Sending /\ ButtonAsserts /\ currentInstruction = SIGN_TX
      /\ ContextOk(ctx, ghost, display.callback)
      /\ ScreenOk(ctx, ghost, display.what, display.callback)
  BY ButtonScreen
<1>2. Live /\ WaitsForUser
  BY <1>1 DEF Live, WaitsForUser, ButtonAsserts, Inv, ControlInv, NoReply
<1>3. ctx \in Context /\ g \in Ghost
  BY AppendProperties DEF Inv, CallTypeOK, Ghost, Context
<1> QED
  BY <1>1, <1>2, <1>3 DEF Presses

\* A screen is shown in the open call.
LEMMA ShowIsShows ==
  ASSUME Inv, On, ~Sending, NEW c, NEW g, NEW kind, NEW what, NEW cb,
         Show(SIGN_TX, Screen(kind, what, cb)),
         ctx' = c, ghost' = g, attested' = attested
  PROVE  Shows(what, cb, c, g)
  BY DEF Show, Screen, Shows, Leaves, Live, WaitsForUser, On, Sending, Inv, ControlInv, NoReply

\* An answer of SUCCESS is sent and the call stays open.
LEMMA RespondIsAnswers ==
  ASSUME On, NEW c, NEW g, NEW data, NEW then \in {"busy", "witness"},
         Respond(SIGN_TX, SUCCESS, data, then),
         ctx' = c, ghost' = g, attested' = attested
  PROVE  Answers(data, then, c, g)
  BY DEF Respond, Answers, Leaves, Live, WaitsForUser, On, Sending, SUCCESS, NoCode

\* An error that the host is told of leaves no call.
LEMMA ErrorLeavesNoCall ==
  ASSUME NEW e \in AutoRespond, NEW ins, Respond(ins, e, NoData, "idle")
  PROVE  NoCall
<1>1. e # SUCCESS /\ e # NoCode
  BY DEF AutoRespond, SUCCESS, NoCode, ERR_MALFORMED_REQUEST_HEADER, ERR_BAD_CLA,
         ERR_UNKNOWN_INS, ERR_STILL_IN_CALL, ERR_INVALID_REQUEST_PARAMETERS,
         ERR_INVALID_STATE, ERR_INVALID_DATA, ERR_REJECTED_BY_USER,
         ERR_REJECTED_BY_POLICY, ERR_DEVICE_LOCKED
<1> QED
  BY <1>1 DEF NoCall, Respond, Live, WaitsForUser, Sending

\* Nor does a reset of the device.
LEMMA CrashLeavesNoCall ==
  ASSUME ~Sending, NEW cause, cause # NotCrashed, Crash(cause)
  PROVE  NoCall
  BY DEF Crash, NoCall, Live, WaitsForUser, On, Sending, NoCode, SUCCESS

\* The causes of a reset are not NotCrashed.
LEMMA HostCrashesAreCrashes == NotCrashed \notin HostCrashes
  BY DEF HostCrashes, NotCrashed, ASSERT_IO_STATE, ASSERT_CURRENT_INPUT,
         ASSERT_CURRENT_OUTPUT, ASSERT_CURRENT_WITNESS, ASSERT_PATH_LENGTH,
         ASSERT_ADDRESS_SIZE, ERR_NOT_ENOUGH_INPUT, ERR_UNEXPECTED_TOKEN, ERR_DATA_TOO_LARGE

\* A handler that throws ends the call and touches no hash.
LEMMA FailedEnds ==
  ASSUME ~Sending, NEW c \in Context, NEW g \in Ghost, Begins(c, g),
         NEW r, r.verdict \in AutoRespond \cup HostCrashes, Failed(r),
         BarelyBegun(r.ctx) \/ SameTransaction(c, r.ctx),
         ghost' = g, attested' = attested
  PROVE  Ends
<1>1. CASE r.verdict \in AutoRespond /\ Respond(SIGN_TX, r.verdict, NoData, "idle")
  BY <1>1, ErrorLeavesNoCall DEF Failed, Ends
<1>2. CASE r.verdict \notin AutoRespond /\ Crash(r.verdict)
  BY <1>2, CrashLeavesNoCall, HostCrashesAreCrashes DEF Failed, Ends
<1> QED
  BY <1>1, <1>2 DEF Failed, Throw

\* A screen that cannot be printed resets the device.
LEMMA UnprintableEnds ==
  ASSUME ~Sending, NEW g \in Ghost, ctx \in Context,
         Presses(ctx, g, "output") \/ Presses(ctx, g, "witness"),
         NEW cause \in HostCrashes, Crash(cause),
         ctx' = ctx, ghost' = g, attested' = attested
  PROVE  Ends
<1>1. NoCall
  BY CrashLeavesNoCall, HostCrashesAreCrashes
<1> QED
  BY <1>1 DEF Ends

-----------------------------------------------------------------------------
(***************************************************************************)
(* The buttons.                                                            *)
(***************************************************************************)

\* What holds when a button has been pressed under callback cb.
Pressed(g, cb) ==
  /\ Presses(ctx, g, cb) /\ ctx \in Context /\ g \in Ghost
  /\ On /\ ~Sending
  /\ ContextOk(ctx, ghost, cb) /\ ScreenOk(ctx, ghost, display.what, cb)
  /\ ghost' = g /\ attested' = attested

\* The prompt of P1 = 1 leads to the inputs.
LEMMA InitButton ==
  ASSUME Inv, NEW g, Pressed(g, "init"), InitStep(ctx)
  PROVE  OpensInputs(ctx, g)
<1> DEFINE d == [txHashBuilder_enterInputs(ctx) EXCEPT !.stage = "INPUTS"]
<1>1. ctx.uiStep = "INIT_RESPOND" /\ ctx.builder = "INIT"
  BY DEF Pressed, ScreenOk, ContextOk, BuilderOk
<1>2. Respond(SIGN_TX, SUCCESS, NoData, "busy") /\ ctx' = d
  BY <1>1 DEF InitStep, Asserting
<1>3. On /\ Presses(ctx, g, "init") /\ ghost' = g /\ attested' = attested
  BY DEF Pressed
<1> HIDE DEF d
<1>4. Answers(NoData, "busy", d, g)
  BY <1>2, <1>3, RespondIsAnswers
<1> QED
  BY <1>3, <1>4 DEF OpensInputs, d

\* The screens of P1 = 3 lead from the amount to the address and from there to
\* the next output, unless the address is too long to be shown.
LEMMA OutputButton ==
  ASSUME Inv, NEW g, Pressed(g, "output"), OutputStep(ctx)
  PROVE  ShowsAddress(ctx, g) \/ FinishesOutput(ctx, g) \/ Ends
<1>1. /\ On /\ ~Sending /\ Presses(ctx, g, "output") /\ ghost' = g /\ attested' = attested
      /\ ctx \in Context /\ g \in Ghost
  BY DEF Pressed
<1>2. ctx.uiStep \in {"OUTPUT_DISPLAY_ADDRESS", "OUTPUT_RESPOND"} /\ ctx.builder = "IN_OUTPUTS"
  BY DEF Pressed, ScreenOk, ContextOk, BuilderOk
<1>3. CASE ctx.uiStep = "OUTPUT_DISPLAY_ADDRESS"
  <2> DEFINE d == [ctx EXCEPT !.uiStep = "OUTPUT_RESPOND"]
             what == SaysAddress("ToAddress", ctx.currentAddress)
  <2>1. \/ Show(SIGN_TX, Screen("text", what, "output")) /\ ctx' = d
        \/ Crash(ASSERT_ADDRESS_SIZE) /\ ctx' = ctx
    BY <1>3 DEF OutputStep, ui_displayPaginatedText, Asserting, AssertFails
  <2> HIDE DEF d, what
  <2>2. CASE Show(SIGN_TX, Screen("text", what, "output")) /\ ctx' = d
    <3>1. Shows(what, "output", d, g)
      BY <1>1, <2>2, ShowIsShows
    <3> QED
      BY <1>1, <1>3, <3>1 DEF ShowsAddress, d, what
  <2>3. CASE Crash(ASSERT_ADDRESS_SIZE) /\ ctx' = ctx
    <3>1. ASSERT_ADDRESS_SIZE \in HostCrashes
      BY DEF HostCrashes
    <3> QED
      BY <1>1, <2>3, <3>1, UnprintableEnds
  <2> QED
    BY <2>1, <2>2, <2>3
<1>4. CASE ctx.uiStep = "OUTPUT_RESPOND"
  <2>1. [ctx EXCEPT !.currentOutput = @ + 1].builder = "IN_OUTPUTS"
    BY <1>1, <1>2 DEF Context
  <2>2. Respond(SIGN_TX, SUCCESS, NoData, "busy") /\ ctx' = CountedOutput(ctx)
    BY <1>4, <2>1 DEF OutputStep, Asserting, CountedOutput
  <2>3. Answers(NoData, "busy", CountedOutput(ctx), g)
    BY <1>1, <2>2, RespondIsAnswers
  <2> QED
    BY <1>1, <1>4, <2>3 DEF FinishesOutput
<1> QED
  BY <1>2, <1>3, <1>4

\* The screens of P1 = 4 lead from the fee to the final prompt and from there to
\* the hash.
LEMMA ConfirmButton ==
  ASSUME Inv, NEW g, Pressed(g, "confirm"), ConfirmStep(ctx)
  PROVE  AsksToConfirm(ctx, g) \/ ReleasesHash(ctx, g)
<1>1. /\ On /\ ~Sending /\ Presses(ctx, g, "confirm") /\ ghost' = g /\ attested' = attested
      /\ ctx.uiStep \in {"CONFIRM_FINAL_CONFIRM", "CONFIRM_RESPOND"}
  BY DEF Pressed, ScreenOk
<1>2. CASE ctx.uiStep = "CONFIRM_FINAL_CONFIRM"
  <2> DEFINE d == [ctx EXCEPT !.uiStep = "CONFIRM_RESPOND"]
  <2>1. Show(SIGN_TX, Screen("prompt", FinalPrompt, "confirm")) /\ ctx' = d
    BY <1>2 DEF ConfirmStep, ui_displayPrompt, FinalPrompt
  <2> HIDE DEF d
  <2>2. Shows(FinalPrompt, "confirm", d, g)
    BY <1>1, <2>1, ShowIsShows
  <2> QED
    BY <1>1, <1>2, <2>2 DEF AsksToConfirm, d
<1>3. CASE ctx.uiStep = "CONFIRM_RESPOND"
  <2> DEFINE d == [ctx EXCEPT !.stage = "WITNESSES"]
  <2>1. Respond(SIGN_TX, SUCCESS, HashData(ctx), "busy") /\ ctx' = d
    BY <1>3 DEF ConfirmStep
  <2> HIDE DEF d
  <2>2. Answers(HashData(ctx), "busy", d, g)
    BY <1>1, <2>1, RespondIsAnswers
  <2> QED
    BY <1>1, <1>3, <2>2 DEF ReleasesHash, d
<1> QED
  BY <1>1, <1>2, <1>3

\* The screens of P1 = 5 lead from the warning to the path, to the prompt and to
\* the signature, unless the path is too long to be shown.
LEMMA WitnessButton ==
  ASSUME Inv, NEW g, Pressed(g, "witness"), WitnessStep(ctx)
  PROVE  ShowsWitnessPath(ctx, g) \/ AsksForWitness(ctx, g) \/ SendsWitness(ctx, g) \/ Ends
<1>1. /\ On /\ ~Sending /\ Presses(ctx, g, "witness") /\ ghost' = g /\ attested' = attested
      /\ ctx \in Context /\ g \in Ghost
      /\ ctx.uiStep \in {"WITNESS_DISPLAY", "WITNESS_CONFIRM", "WITNESS_RESPOND"}
  BY DEF Pressed, ScreenOk
<1>2. CASE ctx.uiStep = "WITNESS_DISPLAY"
  <2> DEFINE d == [ctx EXCEPT !.uiStep = "WITNESS_CONFIRM"]
             what == SaysPath("WitnessPath", ctx.currentPath)
  <2>1. \/ Show(SIGN_TX, Screen("text", what, "witness")) /\ ctx' = d
        \/ Crash(ASSERT_PATH_LENGTH) /\ ctx' = ctx
    BY <1>2 DEF WitnessStep, ui_displayPaginatedText, Asserting, AssertFails
  <2> HIDE DEF d, what
  <2>2. CASE Show(SIGN_TX, Screen("text", what, "witness")) /\ ctx' = d
    <3>1. Shows(what, "witness", d, g)
      BY <1>1, <2>2, ShowIsShows
    <3> QED
      BY <1>1, <1>2, <3>1 DEF ShowsWitnessPath, d, what
  <2>3. CASE Crash(ASSERT_PATH_LENGTH) /\ ctx' = ctx
    <3>1. ASSERT_PATH_LENGTH \in HostCrashes
      BY DEF HostCrashes
    <3> QED
      BY <1>1, <2>3, <3>1, UnprintableEnds
  <2> QED
    BY <2>1, <2>2, <2>3
<1>3. CASE ctx.uiStep = "WITNESS_CONFIRM"
  <2> DEFINE d == [ctx EXCEPT !.uiStep = "WITNESS_RESPOND"]
             what == Says("SignUsingThisWitness")
  <2>1. Show(SIGN_TX, Screen("prompt", what, "witness")) /\ ctx' = d
    BY <1>3 DEF WitnessStep, ui_displayPrompt
  <2> HIDE DEF d, what
  <2>2. Shows(what, "witness", d, g)
    BY <1>1, <2>1, ShowIsShows
  <2> QED
    BY <1>1, <1>3, <2>2 DEF AsksForWitness, d, what
<1>4. CASE ctx.uiStep = "WITNESS_RESPOND"
  <2>1. Respond(SIGN_TX, SUCCESS, ctx.currentWitnessData, "witness") /\ ctx' = ctx
    BY <1>4 DEF WitnessStep
  <2>2. Answers(ctx.currentWitnessData, "witness", ctx, g)
    BY <1>1, <2>1, RespondIsAnswers
  <2> QED
    BY <1>1, <1>4, <2>2 DEF SendsWitness
<1> QED
  BY <1>1, <1>2, <1>3, <1>4

\* The button that goes on is one of these.
LEMMA UserConfirmsStep ==
  ASSUME Inv, UserConfirms
  PROVE  CallStep
<1> DEFINE cb == display.callback
           g == [ghost EXCEPT
                   !.acknowledged = Append(@, display.what),
                   !.confirmedHash = IF display.what = FinalPrompt THEN ctx.txHash ELSE @]
<1>1. AwaitsButton({"text", "prompt"}) /\ ghost' = g /\ attested' = attested
  BY DEF UserConfirms
<1> HIDE DEF g
<1>2. ButtonAsserts /\ Pressed(g, cb) /\ ctx \in Context /\ g \in Ghost
  BY <1>1, ButtonPresses DEF Pressed, g
<1>3. RunStep
  BY <1>2 DEF UserConfirms
<1>4. cb \in {"init", "output", "confirm", "witness"}
  BY <1>2 DEF Pressed, ScreenOk
<1>5. CASE cb = "init"
  <2>1. InitStep(ctx)
    BY <1>3, <1>5 DEF RunStep
  <2> QED
    BY <1>2, <1>5, <2>1, InitButton DEF CallStep
<1>6. CASE cb = "output"
  <2>1. OutputStep(ctx)
    BY <1>3, <1>6 DEF RunStep
  <2> QED
    BY <1>2, <1>6, <2>1, OutputButton DEF CallStep
<1>7. CASE cb = "confirm"
  <2>1. ConfirmStep(ctx)
    BY <1>3, <1>7 DEF RunStep
  <2> QED
    BY <1>2, <1>7, <2>1, ConfirmButton DEF CallStep
<1>8. CASE cb = "witness"
  <2>1. WitnessStep(ctx)
    BY <1>3, <1>8 DEF RunStep
  <2> QED
    BY <1>2, <1>8, <2>1, WitnessButton DEF CallStep
<1> QED
  BY <1>4, <1>5, <1>6, <1>7, <1>8

-----------------------------------------------------------------------------
(***************************************************************************)
(* The requests.                                                           *)
(***************************************************************************)

\* What holds when a handler starts with context c and history g.
Begun(c, g) ==
  /\ Begins(c, g) /\ c \in Context /\ g \in Ghost
  /\ On /\ ~Sending
  /\ c = ZeroContext \/ ContextOk(c, g, "none")
  /\ attested' = attested

\* A request that is refused ends the call.
LEMMA RefusedEnds ==
  ASSUME NEW c, NEW g, Begun(c, g), NEW r, Failed(r), ghost' = g,
         r.verdict \in AutoRespond \cup HostCrashes,
         BarelyBegun(r.ctx) \/ SameTransaction(c, r.ctx)
  PROVE  Ends
  BY FailedEnds DEF Begun

\* A context that is left as it is holds the same transaction.
LEMMA SameIsSame == ASSUME NEW c PROVE SameTransaction(c, c)
  BY DEF SameTransaction

\* Contexts with the same fields are the same.
LEMMA SameFields ==
  ASSUME NEW c \in Context, NEW d \in Context,
         c.stage = d.stage, c.numInputs = d.numInputs, c.numOutputs = d.numOutputs,
         c.numWitnesses = d.numWitnesses, c.currentInput = d.currentInput,
         c.currentOutput = d.currentOutput, c.currentWitness = d.currentWitness,
         c.sumAmountInputs = d.sumAmountInputs, c.sumAmountOutputs = d.sumAmountOutputs,
         c.builder = d.builder, c.hashed = d.hashed, c.txHash = d.txHash,
         c.currentWitnessData = d.currentWitnessData, c.currentAmount = d.currentAmount,
         c.currentAddress = d.currentAddress, c.currentPath = d.currentPath,
         c.uiStep = d.uiStep
  PROVE  c = d
  BY DEF Context

\* P1 = 1 opens a call and only a call that is new.
LEMMA HandleInitStep ==
  ASSUME Inv, NEW p2, NEW sizeOk, NEW counts \in [inputs: Nat, outputs: Nat],
         HandleInit(p2, sizeOk, counts)
  PROVE  StartsCall(counts) \/ Ends
<1> DEFINE c == CallContext
           r == InitHandler(c, p2, sizeOk, counts)
           g == CallGhost
           h == [g EXCEPT !.announced = counts]
<1>1. Begun(c, g)
  BY HandlerBegins, CallIsReady DEF HandleInit, Begun
<1>2. /\ IF r.verdict = SUCCESS THEN InitStep(r.ctx) ELSE Failed(r)
      /\ ghost' = IF r.verdict = SUCCESS THEN h ELSE g
  BY DEF HandleInit
<1> HIDE DEF c, g
<1>3. CASE c.stage # "NONE"
  <2>1. r = Refuse(ERR_INVALID_STATE, c)
    BY <1>3 DEF InitHandler, CHECK_STAGE
  <2>2. r.verdict = ERR_INVALID_STATE /\ r.ctx = c /\ r.verdict # SUCCESS
    BY <2>1 DEF Refuse, ERR_INVALID_STATE, SUCCESS
  <2> HIDE DEF r
  <2> QED
    BY <1>1, <1>2, <2>2, RefusedEnds, SameIsSame, Verdicts
<1>4. CASE c.stage = "NONE"
  <2>1. c = ZeroContext
    BY <1>1, <1>4 DEF Begun, ContextOk, BuilderOk
  <2>2. g = ZeroGhost
    BY <1>1, <1>4 DEF Begun, Begins, c, g, CallContext, CallGhost, ContextOk, BuilderOk, Inv,
                      ContextInv, NextCallback
  <2>3. CASE r.verdict = SUCCESS
    <3> DEFINE done == [CountedContext(counts) EXCEPT !.uiStep = "INIT_CONFIRM"]
    <3>1. r.ctx = done /\ CountsFit(CountedContext(counts))
      <4> DEFINE reset == [txHashBuilder_init(c) EXCEPT
                             !.currentInput = 0, !.currentOutput = 0, !.currentWitness = 0,
                             !.sumAmountInputs = 0, !.sumAmountOutputs = 0]
                 counted == [reset EXCEPT !.numInputs = Truncated(counts.inputs),
                                          !.numOutputs = Truncated(counts.outputs)]
                 last == [counted EXCEPT !.numWitnesses = counted.numInputs]
      <4>1. CountsFit(counted) /\ r = Proceed(last, "INIT_CONFIRM")
        BY <2>3 DEF InitHandler, Refuse, SUCCESS, ERR_INVALID_DATA, ERR_INVALID_STATE,
                    ERR_INVALID_REQUEST_PARAMETERS
      <4>2. <<Token("tx")>> \in Seq(Item) /\ c \in Context
        BY TokenType, <1>1 DEF Begun
      <4>3. done = [last EXCEPT !.uiStep = "INIT_CONFIRM"]
        <5> DEFINE done2 == [last EXCEPT !.uiStep = "INIT_CONFIRM"]
        <5>1. reset \in Context
          BY <4>2, ZeroInRange DEF txHashBuilder_init, Context, BuilderStates
        <5>2. counted \in Context
          BY <5>1, TruncatedType DEF Context
        <5>3. done2 \in Context
          BY <5>2 DEF Context, UiSteps
        <5>4. done \in Context
          BY <4>2, ZeroInRange, ZeroContextType, TruncatedType
             DEF CountedContext, Context, UiSteps, BuilderStates
        <5> QED
          <6> DEFINE Fields(d) ==
                 /\ d.stage = "NONE" /\ d.numInputs = Truncated(counts.inputs)
                 /\ d.numOutputs = Truncated(counts.outputs)
                 /\ d.numWitnesses = Truncated(counts.inputs) /\ d.currentInput = 0
                 /\ d.currentOutput = 0 /\ d.currentWitness = 0 /\ d.sumAmountInputs = 0
                 /\ d.sumAmountOutputs = 0 /\ d.builder = "INIT"
                 /\ d.hashed = <<Token("tx")>> /\ d.txHash = ZeroHash
                 /\ d.currentWitnessData = NoWitness /\ d.currentAmount = 0
                 /\ d.currentAddress = NoAddress /\ d.currentPath = <<>>
                 /\ d.uiStep = "INIT_CONFIRM"
          <6>1. Fields(done2)
            BY <2>1, <4>2, <5>1, <5>2 DEF ZeroContext, txHashBuilder_init, Context
          <6>2. Fields(done)
            BY DEF CountedContext, ZeroContext
          <6>3. done2 = done
            <7> HIDE DEF done, done2
            <7> QED
              BY <5>3, <5>4, <6>1, <6>2, SameFields
          <6> QED
            BY <6>3
      <4>4. CountsFit(CountedContext(counts))
        BY <2>1, <4>1 DEF CountsFit, CountedContext, ZeroContext, txHashBuilder_init
      <4> HIDE DEF last, done, r
      <4>5. r.ctx = done
        BY <4>1, <4>3 DEF Proceed
      <4> QED
        BY <4>4, <4>5
    <3>2. done.uiStep = "INIT_CONFIRM"
          /\ [done EXCEPT !.uiStep = "INIT_RESPOND"] = CountedContext(counts)
      BY DEF CountedContext, ZeroContext
    <3> HIDE DEF done, r
    <3>3. Show(SIGN_TX, Screen("prompt", Says("StartNewTransaction"), "init"))
          /\ ctx' = CountedContext(counts)
      BY <1>2, <2>3, <3>1, <3>2 DEF InitStep, ui_displayPrompt
    <3>4. Shows(Says("StartNewTransaction"), "init", CountedContext(counts), h)
      BY <1>1, <1>2, <2>3, <3>3, ShowIsShows DEF Begun
    <3> QED
      BY <1>1, <2>1, <2>2, <3>1, <3>4 DEF StartsCall, Begun
  <2>4. CASE r.verdict # SUCCESS
    <3>1. r.verdict \in AutoRespond
      BY <1>1, <2>4, InitHandlerResult, Verdicts DEF Begun
    <3>2. BarelyBegun(r.ctx) \/ SameTransaction(c, r.ctx)
      BY <1>4, <2>1, <2>4, SameIsSame
         DEF InitHandler, Refuse, Proceed, txHashBuilder_init, ZeroContext, CHECK_STAGE,
             BarelyBegun
    <3> HIDE DEF r
    <3> QED
      BY <1>1, <1>2, <2>4, <3>1, <3>2, RefusedEnds
  <2> QED
    BY <2>3, <2>4
<1> QED
  BY <1>3, <1>4

\* P1 = 2 adds a certified input.
LEMMA HandleInputStep ==
  ASSUME Inv, NEW p2, NEW form, NEW u \in Utxos, HandleInput(p2, form, u)
  PROVE  AddsInput(CallContext, CallGhost, u) \/ Ends
<1> DEFINE c == CallContext
           g == CallGhost
           h == [g EXCEPT !.exactIn = @ + AmountOf[u]]
           r == InputHandler(c, p2, form, u)
           summed == [c EXCEPT !.sumAmountInputs = SumWrapped(@, AmountOf[u])]
           fine == Proceed(txHashBuilder_addUtxoInput(summed, u), "INPUT_RESPOND")
<1>1. Begun(c, g)
  BY HandlerBegins, CallIsReady DEF HandleInput, Begun
<1>2. /\ IF r.verdict = SUCCESS THEN InputStep(r.ctx) ELSE Failed(r)
      /\ ghost' = IF r.verdict = SUCCESS THEN h ELSE g
  BY DEF HandleInput
<1> HIDE DEF c, g
<1>3. c \in Context /\ c.sumAmountInputs <= MaxSupply
      /\ (c.stage = "INPUTS" => c.builder = "IN_INPUTS")
  BY <1>1, AmountsAssumption DEF Begun, ZeroContext, ContextOk, CountersOk, BuilderOk
<1>4. \/ r = Refuse(ASSERT_CURRENT_INPUT, c)
      \/ r = Refuse(ERR_INVALID_STATE, c)
      \/ r = Refuse(ERR_INVALID_REQUEST_PARAMETERS, c)
      \/ r = Refuse(ERR_INVALID_DATA, c)
      \/ /\ r = fine
         /\ c.stage = "INPUTS" /\ IsCertified(u)
         /\ amountSum_accepts(c.sumAmountInputs, AmountOf[u])
  <2>1. ~(c.sumAmountInputs > MaxSupply) /\ summed.builder = c.builder
    BY <1>3, AmountsAssumption DEF Context, Amounts
  <2> QED
    BY <1>3, <2>1 DEF InputHandler, CHECK_STAGE
<1>5. r.verdict \in {SUCCESS} \cup AutoRespond \cup HostCrashes
  BY <1>3, InputHandlerResult, Verdicts
<1>6. CASE /\ r = fine
           /\ c.stage = "INPUTS" /\ IsCertified(u)
           /\ amountSum_accepts(c.sumAmountInputs, AmountOf[u])
  <2> DEFINE d == r.ctx
             next == [d EXCEPT !.currentInput = @ + 1]
  <2>1. r.verdict = SUCCESS /\ d.uiStep = "INPUT_RESPOND" /\ next.builder = "IN_INPUTS"
        /\ next = WithInput(c, u)
    <3>1. d = [c EXCEPT !.sumAmountInputs = SumWrapped(@, AmountOf[u]),
                        !.hashed = Append(@, InputItem(u)), !.uiStep = "INPUT_RESPOND"]
          /\ r.verdict = SUCCESS
      BY <1>3, <1>6 DEF Proceed, txHashBuilder_addUtxoInput, Context
    <3> HIDE DEF r
    <3> QED
      BY <1>3, <1>6, <3>1 DEF WithInput, Context
  <2> HIDE DEF r
  <2>2. Respond(SIGN_TX, SUCCESS, NoData, "busy") /\ ctx' = CountedInput(WithInput(c, u))
        /\ ghost' = h
    BY <1>2, <2>1 DEF InputStep, Asserting, CountedInput
  <2>3. Answers(NoData, "busy", CountedInput(WithInput(c, u)), h)
    BY <1>1, <2>2, RespondIsAnswers DEF Begun
  <2>4. AddsInput(c, g, u)
    BY <1>1, <1>6, <2>3 DEF AddsInput, Begun
  <2> QED
    BY <2>4 DEF c, g
<1>7. CASE \/ r = Refuse(ASSERT_CURRENT_INPUT, c) \/ r = Refuse(ERR_INVALID_STATE, c)
           \/ r = Refuse(ERR_INVALID_REQUEST_PARAMETERS, c) \/ r = Refuse(ERR_INVALID_DATA, c)
  <2>1. r.verdict # SUCCESS /\ r.ctx = c
    BY <1>7 DEF Refuse, SUCCESS, ASSERT_CURRENT_INPUT, ERR_INVALID_STATE, ERR_INVALID_DATA,
                ERR_INVALID_REQUEST_PARAMETERS
  <2> HIDE DEF r
  <2> QED
    BY <1>1, <1>2, <1>5, <2>1, RefusedEnds, SameIsSame
<1> QED
  BY <1>4, <1>6, <1>7

\* Of an own address the policy shows exactly those that must be seen.
LEMMA ShownPaths ==
  ASSUME NEW p \in Path, policyForSignTxOutputPath(p) # POLICY_DENY
  PROVE  /\ p # <<>>
         /\ policyForSignTxOutputPath(p) \in
              {POLICY_SHOW_BEFORE_RESPONSE, POLICY_ALLOW_WITHOUT_PROMPT}
         /\ policyForSignTxOutputPath(p) = POLICY_SHOW_BEFORE_RESPONSE
              <=> ~IsOrdinaryAddress(p)
<1>1. IsAddressPath(p)
  BY DEF policyForSignTxOutputPath, AddressPathPolicy
<1>2. Len(p) >= 5
  BY <1>1 DEF IsAddressPath, has_valid_change_and_any_address, bip44_containsAddress,
              BIP44_I_ADDRESS
<1>3. p # <<>>
  BY <1>2
<1> QED
  BY <1>1, <1>3 DEF policyForSignTxOutputPath, AddressPathPolicy, POLICY_DENY,
                    POLICY_SHOW_BEFORE_RESPONSE, POLICY_ALLOW_WITHOUT_PROMPT

\* A destination gives an address, shown exactly when it must be seen, and leaves
\* nothing but its path in the context.
LEMMA OutputAddressShown ==
  ASSUME NEW c \in Context, NEW d, IsDestination(d), NEW n \in Amounts,
         NEW o, o = OutputAddress(c, d), o.verdict = SUCCESS
  PROVE  /\ \E p \in Path : o.ctx = [c EXCEPT !.currentPath = p]
         /\ o.address \in Address
         /\ o.policy = POLICY_SHOW_BEFORE_RESPONSE <=> MustBeSeen(OutputItem(o.address, n))
<1>1. \A a : MustBeSeen(OutputItem(a, n)) <=> a.path = <<>> \/ ~IsOrdinaryAddress(a.path)
  <2> TAKE a
  <2>1. OutputItem(a, n).item = "output" /\ OutputItem(a, n).address = a
    BY DEF OutputItem, Token
  <2> QED
    BY <2>1 DEF MustBeSeen
<1>2. CASE d.type = "address"
  <2>1. d.address \in RawAddress
    BY <1>2 DEF IsDestination
  <2>2. d.address \in Address /\ d.address.path = <<>>
    BY <2>1, EmptyTypes DEF RawAddress, Address
  <2>3. o.ctx = c /\ o.address = d.address /\ o.policy = POLICY_SHOW_BEFORE_RESPONSE
    <3>1. o = IF unboxError(d) # SUCCESS THEN NoOutput(unboxError(d), c)
              ELSE [verdict |-> SUCCESS, ctx |-> c, address |-> d.address,
                    policy |-> POLICY_SHOW_BEFORE_RESPONSE]
      BY <1>2 DEF OutputAddress
    <3>2. unboxError(d) # SUCCESS => NoOutput(unboxError(d), c).verdict # SUCCESS
      BY DEF NoOutput
    <3> QED
      BY <3>1, <3>2
  <2>4. c = [c EXCEPT !.currentPath = c.currentPath] /\ c.currentPath \in Path
    BY DEF Context
  <2> QED
    BY <1>1, <2>2, <2>3, <2>4
<1>3. CASE d.type = "path"
  <2> DEFINE p == ParsedPath(d.wire)
  <2>1. /\ Parses(d.wire) /\ policyForSignTxOutputPath(p) # POLICY_DENY
        /\ o.ctx = [c EXCEPT !.currentPath = p]
        /\ o.address = DerivedAddress(p)
        /\ o.policy = policyForSignTxOutputPath(p)
    BY <1>3 DEF OutputAddress, NoOutput, SUCCESS, ERR_INVALID_DATA, ERR_REJECTED_BY_POLICY,
                ASSERT_PATH_LENGTH
  <2>2. p \in Path
    BY <1>3, <2>1, ParsedPathType DEF IsDestination
  <2> HIDE DEF p
  <2>3. DerivedAddress(p) \in Address /\ DerivedAddress(p).path = p
    BY <2>2 DEF DerivedAddress, Address
  <2> QED
    BY <1>1, <2>1, <2>2, <2>3, ShownPaths
<1>4. CASE d.type # "address" /\ d.type # "path"
  BY <1>4 DEF OutputAddress, NoOutput, SUCCESS, ERR_INVALID_DATA
<1> QED
  BY <1>2, <1>3, <1>4

\* P1 = 3 adds an output, and shows its amount if it must be seen.
LEMMA HandleOutputStep ==
  ASSUME Inv, NEW p2, NEW n \in Amounts, NEW d, IsDestination(d), HandleOutput(p2, n, d)
  PROVE  \/ \E p \in Path, a \in Address : AddsOutput(CallContext, CallGhost, p, a, n)
         \/ Ends
<1> DEFINE c == CallContext
           g == CallGhost
           h == [g EXCEPT !.exactOut = @ + n]
           r == OutputHandler(c, p2, n, d)
           summed == [c EXCEPT !.sumAmountOutputs = SumWrapped(@, n), !.currentAmount = n]
           o == OutputAddress(summed, d)
           added == [txHashBuilder_addOutput(o.ctx, o.address, n) EXCEPT
                       !.currentAddress = o.address]
           step == OutputFirstStep(o.policy)
           Fine == /\ r = Proceed(added, step) /\ o.verdict = SUCCESS
                   /\ c.stage = "OUTPUTS" /\ amountSum_accepts(c.sumAmountOutputs, n)
<1>1. Begun(c, g)
  BY HandlerBegins, CallIsReady DEF HandleOutput, Begun
<1>2. /\ IF r.verdict = SUCCESS THEN OutputStep(r.ctx) ELSE Failed(r)
      /\ ghost' = IF r.verdict = SUCCESS THEN h ELSE g
  BY DEF HandleOutput
<1> HIDE DEF c, g
<1>3. c \in Context /\ c.sumAmountOutputs <= MaxSupply
      /\ (c.stage = "OUTPUTS" => c.builder = "IN_OUTPUTS")
  BY <1>1, AmountsAssumption DEF Begun, ZeroContext, ContextOk, CountersOk, BuilderOk
<1>4. summed \in Context /\ SameTransaction(c, summed)
  BY <1>3, SumWrappedType DEF Context, SameTransaction
<1>5. /\ r.verdict \in {SUCCESS} \cup AutoRespond \cup HostCrashes
      /\ SameTransaction(c, o.ctx)
      /\ r.verdict = SUCCESS => r.ctx.builder = c.builder
  <2>1. \E p \in Path : o.ctx = summed \/ o.ctx = [summed EXCEPT !.currentPath = p]
    <3> HIDE DEF summed
    <3> QED
      BY <1>4, OutputAddressResult
  <2>2. SameTransaction(c, o.ctx)
    <3> HIDE DEF summed, o
    <3> QED
      BY <1>4, <2>1 DEF Context, SameTransaction
  <2> HIDE DEF r
  <2>3. r = OutputHandler(c, p2, n, d)
    BY DEF r
  <2> HIDE DEF o, summed, added, step
  <2> QED
    BY <1>3, <2>2, <2>3, OutputHandlerResult, Verdicts DEF SameProgress
<1>6. \/ Fine
      \/ r.verdict # SUCCESS /\ (r.ctx = c \/ r.ctx = o.ctx)
  <2>1. ~(c.sumAmountOutputs > MaxSupply)
    BY <1>3, AmountsAssumption DEF Context, Amounts
  <2>2. \/ Fine
        \/ \E e \in {ASSERT_CURRENT_OUTPUT, ERR_INVALID_STATE, ERR_INVALID_REQUEST_PARAMETERS,
                     ERR_NOT_ENOUGH_INPUT, ERR_INVALID_DATA} : r = Refuse(e, c)
        \/ r = Refuse(o.verdict, o.ctx) /\ o.verdict # SUCCESS
        \/ r = Refuse(ASSERT_ADDRESS_SIZE, o.ctx)
        \/ r = Refuse(ERR_DATA_TOO_LARGE, o.ctx)
    <3> HIDE DEF o, added, step
    <3> QED
      BY <1>3, <2>1 DEF OutputHandler, CHECK_STAGE, o, added, step
  <2> HIDE DEF r, o
  <2> QED
    BY <2>2 DEF Refuse, SUCCESS, ASSERT_CURRENT_OUTPUT, ERR_INVALID_STATE, ERR_INVALID_DATA,
                ERR_INVALID_REQUEST_PARAMETERS, ERR_NOT_ENOUGH_INPUT, ASSERT_ADDRESS_SIZE,
                ERR_DATA_TOO_LARGE
<1>7. CASE r.verdict # SUCCESS /\ (r.ctx = c \/ r.ctx = o.ctx)
  <2> HIDE DEF r, o
  <2> QED
    BY <1>1, <1>2, <1>5, <1>7, RefusedEnds, SameIsSame
<1>8. CASE Fine
  <2>1. PICK p \in Path : o.ctx = [summed EXCEPT !.currentPath = p]
    <3> HIDE DEF summed
    <3> QED
      BY <1>4, <1>8, OutputAddressShown
  <2>2. /\ o.address \in Address
        /\ o.policy = POLICY_SHOW_BEFORE_RESPONSE <=> MustBeSeen(OutputItem(o.address, n))
    <3> HIDE DEF summed
    <3> QED
      BY <1>4, <1>8, OutputAddressShown
  <2> DEFINE a == o.address
  <2>3. r.verdict = SUCCESS /\ r.ctx = WithOutput(c, p, a, n, step)
    <3>1. r.verdict = SUCCESS /\ r.ctx = [added EXCEPT !.uiStep = step]
      BY <1>8 DEF Proceed
    <3>2. [added EXCEPT !.uiStep = step] = WithOutput(c, p, a, n, step)
      <4> HIDE DEF o, step
      <4> QED
        BY <1>3, <2>1 DEF WithOutput, txHashBuilder_addOutput, Context
    <3> QED
      BY <3>1, <3>2
  <2>4. AddsOutput(c, g, p, a, n)
    <3> HIDE DEF r, o, a
    <3>1. c.stage = "OUTPUTS" /\ amountSum_accepts(c.sumAmountOutputs, n) /\ Begins(c, g)
      BY <1>1, <1>8 DEF Begun
    <3>2. OutputStep(WithOutput(c, p, a, n, step)) /\ ghost' = h
      BY <1>2, <2>3
    <3>3. CASE MustBeSeen(OutputItem(a, n))
      <4>1. step = "OUTPUT_DISPLAY_AMOUNT"
        BY <2>2, <3>3 DEF OutputFirstStep, a
      <4> DEFINE b == WithOutput(c, p, a, n, "OUTPUT_DISPLAY_AMOUNT")
                 what == SaysAmount("SendAda", n)
                 e == WithOutput(c, p, a, n, "OUTPUT_DISPLAY_ADDRESS")
      <4>2. b.uiStep = "OUTPUT_DISPLAY_AMOUNT" /\ b.currentAmount = n
            /\ [b EXCEPT !.uiStep = "OUTPUT_DISPLAY_ADDRESS"] = e
        BY <1>3 DEF WithOutput, Context
      <4> HIDE DEF b, e, what
      <4>3. Show(SIGN_TX, Screen("text", what, "output")) /\ ctx' = e
        BY <3>2, <4>1, <4>2 DEF OutputStep, ui_displayPaginatedText, b, what
      <4> HIDE DEF step
      <4>4. Shows(what, "output", e, h)
        BY <1>1, <3>2, <4>3, ShowIsShows DEF Begun
      <4> QED
        BY <3>1, <3>3, <4>4 DEF AddsOutput, e, what
    <3>4. CASE ~MustBeSeen(OutputItem(a, n))
      <4>1. step = "OUTPUT_RESPOND"
        BY <2>2, <3>4 DEF OutputFirstStep, a
      <4> DEFINE b == WithOutput(c, p, a, n, "OUTPUT_RESPOND")
      <4>2. b.uiStep = "OUTPUT_RESPOND" /\ b.builder = c.builder
            /\ [b EXCEPT !.currentOutput = @ + 1].builder = b.builder
        BY <1>3 DEF WithOutput, Context
      <4> HIDE DEF b
      <4>3. Respond(SIGN_TX, SUCCESS, NoData, "busy") /\ ctx' = CountedOutput(b)
        BY <1>3, <3>1, <3>2, <4>1, <4>2 DEF OutputStep, Asserting, CountedOutput, b
      <4> HIDE DEF step
      <4>4. Answers(NoData, "busy", CountedOutput(b), h)
        BY <1>1, <3>2, <4>3, RespondIsAnswers DEF Begun
      <4> QED
        BY <3>1, <3>4, <4>4 DEF AddsOutput, b
    <3> QED
      BY <3>3, <3>4
  <2> HIDE DEF r, a
  <2> QED
    BY <2>1, <2>2, <2>4 DEF c, g, a
<1> QED
  BY <1>6, <1>7, <1>8

\* P1 = 4 finishes the hash and shows the fee.
LEMMA HandleConfirmStep ==
  ASSUME Inv, NEW p2, NEW sizeOk, HandleConfirm(p2, sizeOk)
  PROVE  ShowsFee(CallContext, CallGhost) \/ Ends
<1> DEFINE c == CallContext
           g == CallGhost
           r == ConfirmHandler(c, p2, sizeOk)
           fee == c.sumAmountInputs - c.sumAmountOutputs
           paid == [txHashBuilder_finalize(c) EXCEPT !.currentAmount = fee]
<1>1. Begun(c, g)
  BY HandlerBegins, CallIsReady DEF HandleConfirm, Begun
<1>2. /\ IF r.verdict = SUCCESS THEN ConfirmStep(r.ctx) ELSE Failed(r)
      /\ ghost' = g
  BY DEF HandleConfirm
<1> HIDE DEF c, g
<1>3. c \in Context /\ (c.stage = "CONFIRM" => c.builder = "IN_METADATA")
  BY <1>1 DEF Begun, ZeroContext, ContextOk, BuilderOk
<1>4. \/ \E e \in {ERR_INVALID_STATE, ERR_INVALID_REQUEST_PARAMETERS, ERR_INVALID_DATA} :
           r = Refuse(e, c)
      \/ /\ r = Proceed(paid, "CONFIRM_DISPLAY_FEE")
         /\ c.stage = "CONFIRM" /\ c.sumAmountInputs > c.sumAmountOutputs
  BY <1>3 DEF ConfirmHandler, CHECK_STAGE
<1> HIDE DEF r
<1>5. CASE \E e \in {ERR_INVALID_STATE, ERR_INVALID_REQUEST_PARAMETERS, ERR_INVALID_DATA} :
             r = Refuse(e, c)
  <2>1. r.verdict \in AutoRespond /\ r.verdict # SUCCESS /\ r.ctx = c
    BY <1>5, Verdicts DEF Refuse, SUCCESS, ERR_INVALID_STATE, ERR_INVALID_REQUEST_PARAMETERS,
                          ERR_INVALID_DATA
  <2> QED
    BY <1>1, <1>2, <2>1, RefusedEnds, SameIsSame
<1>6. CASE /\ r = Proceed(paid, "CONFIRM_DISPLAY_FEE")
           /\ c.stage = "CONFIRM" /\ c.sumAmountInputs > c.sumAmountOutputs
  <2> DEFINE d == r.ctx
             what == SaysAmount("TransactionFee", fee)
  <2>1. /\ r.verdict = SUCCESS /\ d.uiStep = "CONFIRM_DISPLAY_FEE" /\ d.currentAmount = fee
        /\ [d EXCEPT !.uiStep = AfterFee] = WithFee(c)
    BY <1>3, <1>6 DEF Proceed, WithFee, txHashBuilder_finalize, Context, AfterFee
  <2>2. Show(SIGN_TX, Screen("text", what, "confirm")) /\ ctx' = WithFee(c)
    BY <1>2, <2>1 DEF ConfirmStep, ui_displayPaginatedText
  <2> HIDE DEF what
  <2>3. Shows(what, "confirm", WithFee(c), g)
    BY <1>1, <1>2, <2>2, ShowIsShows DEF Begun
  <2>4. ShowsFee(c, g)
    BY <1>1, <1>6, <2>3 DEF ShowsFee, Begun, what
  <2> QED
    BY <2>4 DEF c, g
<1> QED
  BY <1>4, <1>5, <1>6

\* Of the paths that may sign, the policy warns of exactly the unusual ones.
LEMMA WarnedPaths ==
  ASSUME NEW p, policyForSignTxWitness(p) # POLICY_DENY
  PROVE  policyForSignTxWitness(p) = POLICY_PROMPT_WARN_UNUSUAL <=> ~IsOrdinaryAddress(p)
  BY DEF policyForSignTxWitness, AddressPathPolicy, POLICY_DENY, POLICY_PROMPT_WARN_UNUSUAL,
         POLICY_ALLOW_WITHOUT_PROMPT

\* P1 = 5 makes a signature, and warns of it if its path is unusual.
LEMMA HandleWitnessStep ==
  ASSUME Inv, NEW p2, NEW w, WellFormedWire(w), HandleWitness(p2, w)
  PROVE  \/ \E p \in Path : MakesSignature(CallContext, CallGhost, p)
         \/ Ends
<1> DEFINE c == CallContext
           g == CallGhost
           r == WitnessHandler(c, p2, w)
           p == ParsedPath(w)
           parsed == [c EXCEPT !.currentPath = p]
           signed == [parsed EXCEPT !.currentWitnessData = getTxWitness(c, p)]
           step == WitnessFirstStep(policyForSignTxWitness(p))
           Fine == /\ r = Proceed(signed, step)
                   /\ Parses(w) /\ policyForSignTxWitness(p) # POLICY_DENY
                   /\ WitnessesLeft(c)
<1>1. Begun(c, g)
  BY HandlerBegins, CallIsReady DEF HandleWitness, Begun
<1>2. /\ IF r.verdict = SUCCESS THEN WitnessStep(r.ctx) ELSE Failed(r)
      /\ ghost' = g
  BY DEF HandleWitness
<1> HIDE DEF c, g
<1>3. c \in Context /\ SameTransaction(c, parsed)
  BY <1>1 DEF Begun, SameTransaction, Context
<1>4. r.verdict \in {SUCCESS} \cup AutoRespond \cup HostCrashes
  BY <1>3, WitnessHandlerResult, Verdicts
<1>5. Fine \/ (r.verdict # SUCCESS /\ (r.ctx = c \/ r.ctx = parsed))
  <2>1. \/ Fine
        \/ \E e \in {ERR_INVALID_REQUEST_PARAMETERS, ASSERT_CURRENT_WITNESS, ERR_INVALID_DATA} :
             r = Refuse(e, c)
        \/ \E e \in {ERR_INVALID_DATA, ERR_REJECTED_BY_POLICY, ASSERT_PATH_LENGTH} :
             r = Refuse(e, parsed)
    BY DEF WitnessHandler
  <2> HIDE DEF r, parsed
  <2> QED
    BY <2>1 DEF Refuse, SUCCESS, ERR_INVALID_REQUEST_PARAMETERS, ASSERT_CURRENT_WITNESS,
                ERR_INVALID_DATA, ERR_REJECTED_BY_POLICY, ASSERT_PATH_LENGTH
<1>6. CASE r.verdict # SUCCESS /\ (r.ctx = c \/ r.ctx = parsed)
  <2> HIDE DEF r, parsed
  <2> QED
    BY <1>1, <1>2, <1>3, <1>4, <1>6, RefusedEnds, SameIsSame
<1>7. CASE Fine
  <2>1. p \in Path
    BY <1>7, ParsedPathType
  <2>2. r.verdict = SUCCESS /\ r.ctx = WithWitness(c, p, step)
    <3>1. r.verdict = SUCCESS /\ r.ctx = [signed EXCEPT !.uiStep = step]
      BY <1>7 DEF Proceed
    <3>2. [signed EXCEPT !.uiStep = step] = WithWitness(c, p, step)
      <4> HIDE DEF p, step
      <4> QED
        BY <1>3 DEF WithWitness, Context
    <3> QED
      BY <3>1, <3>2
  <2>3. step = IF IsOrdinaryAddress(p) THEN "WITNESS_RESPOND" ELSE "WITNESS_WARNING"
    BY <1>7, WarnedPaths DEF WitnessFirstStep
  <2>4. WitnessesLeft(c)
    BY <1>7
  <2> HIDE DEF p, step, r
  <2>5. WitnessStep(WithWitness(c, p, step))
    BY <1>2, <2>2
  <2>6. CASE ~IsOrdinaryAddress(p)
    <3> DEFINE b == WithWitness(c, p, "WITNESS_WARNING")
               d == WithWitness(c, p, "WITNESS_DISPLAY")
               what == Says("UnusualWitness")
    <3>1. b.uiStep = "WITNESS_WARNING" /\ [b EXCEPT !.uiStep = "WITNESS_DISPLAY"] = d
      BY <1>3 DEF WithWitness, Context
    <3>2. WitnessStep(b)
      BY <2>3, <2>5, <2>6
    <3> HIDE DEF b, d
    <3>3. Show(SIGN_TX, Screen("text", what, "witness")) /\ ctx' = d
      BY <3>1, <3>2 DEF WitnessStep, ui_displayPaginatedText
    <3> HIDE DEF what
    <3>4. Shows(what, "witness", d, g)
      BY <1>1, <1>2, <3>3, ShowIsShows DEF Begun
    <3>5. MakesSignature(c, g, p)
      BY <1>1, <2>4, <2>6, <3>4 DEF MakesSignature, Begun, d, what
    <3> QED
      BY <2>1, <3>5 DEF c, g
  <2>7. CASE IsOrdinaryAddress(p)
    <3> DEFINE d == WithWitness(c, p, "WITNESS_RESPOND")
               data == getTxWitness(c, p)
    <3>1. d.uiStep = "WITNESS_RESPOND" /\ d.currentWitnessData = data
      BY <1>3 DEF WithWitness, Context
    <3>2. WitnessStep(d)
      BY <2>3, <2>5, <2>7
    <3> HIDE DEF d, data
    <3>3. Respond(SIGN_TX, SUCCESS, data, "witness") /\ ctx' = d
      BY <3>1, <3>2 DEF WitnessStep
    <3>4. Answers(data, "witness", d, g)
      BY <1>1, <1>2, <3>3, RespondIsAnswers DEF Begun
    <3>5. MakesSignature(c, g, p)
      BY <1>1, <2>4, <2>7, <3>4 DEF MakesSignature, Begun, d, data
    <3> QED
      BY <2>1, <3>5 DEF c, g
  <2> QED
    BY <2>6, <2>7
<1> QED
  BY <1>5, <1>6, <1>7

\* An unknown P1 ends the call.
LEMMA HandleUnknownP1Step ==
  ASSUME Inv, HandleUnknownP1
  PROVE  Ends
<1> DEFINE r == Refuse(ERR_INVALID_REQUEST_PARAMETERS, CallContext)
<1>1. Begun(CallContext, CallGhost)
  BY HandlerBegins, CallIsReady DEF HandleUnknownP1, Begun
<1>2. r.verdict \in AutoRespond /\ r.ctx = CallContext
  BY Verdicts DEF Refuse
<1>3. Failed(r) /\ ghost' = CallGhost
  BY DEF HandleUnknownP1
<1> HIDE DEF r
<1> QED
  BY <1>1, <1>2, <1>3, RefusedEnds, SameIsSame

-----------------------------------------------------------------------------
(***************************************************************************)
(* The other steps.                                                        *)
(***************************************************************************)

\* The end of a transmission goes on with the call or ends it.
LEMMA SendDoneStep ==
  ASSUME Inv, SendDone
  PROVE  GoesOn \/ Ends
<1>1. On /\ Sending /\ attested' = attested
  BY DEF SendDone, Transmitted
<1>2. \/ reply.then = "idle"
      \/ /\ reply.then \in {"busy", "witness"} /\ reply.code = SUCCESS
         /\ currentInstruction = SIGN_TX
  BY <1>1 DEF Inv, ReplyInv
<1>3. ASSUME NEW then, Transmitted(then)
      PROVE  /\ On' /\ ~Sending' /\ ~WaitsForUser' /\ reply' = NoReply
             /\ reply'.code # SUCCESS
             /\ currentInstruction' = IF then = "idle" THEN INS_NONE ELSE currentInstruction
  BY <1>3 DEF Transmitted, On, Sending, WaitsForUser, NoReply, NoCode, SUCCESS
<1>4. CASE reply.then = "idle"
  <2>1. Transmitted("idle") /\ ctx' = ctx /\ ghost' = ghost
    BY <1>4 DEF SendDone
  <2>2. NoCall
    BY <1>3, <2>1 DEF NoCall, Live, INS_NONE, SIGN_TX
  <2> QED
    BY <1>1, <1>3, <2>1, <2>2 DEF Ends
<1>5. CASE reply.then = "busy" /\ reply.code = SUCCESS /\ currentInstruction = SIGN_TX
  <2>1. /\ Transmitted("busy") /\ ghost' = ghost
        /\ ctx' = [ctx EXCEPT !.uiStep = "INVALID"]
    BY <1>5 DEF SendDone
  <2>2. Live /\ Live'
    BY <1>1, <1>3, <1>5, <2>1 DEF Live, NoReply
  <2> QED
    BY <1>1, <1>3, <1>5, <2>1, <2>2 DEF GoesOn, Leaves
<1>6. CASE reply.then = "witness" /\ reply.code = SUCCESS /\ currentInstruction = SIGN_TX
  <2>1. /\ Transmitted(IF LastWitness(ctx) THEN "idle" ELSE "busy")
        /\ ghost' = [ghost EXCEPT !.signatures = @ + 1]
        /\ ctx' = WitnessSent(ctx)
    BY <1>6 DEF SendDone
  <2>2. Live
    BY <1>1, <1>6 DEF Live
  <2>3. CASE LastWitness(ctx)
    <3>1. NoCall
      BY <1>3, <2>1, <2>3 DEF NoCall, Live, INS_NONE, SIGN_TX
    <3> QED
      BY <1>1, <1>6, <2>1, <2>2, <2>3, <3>1 DEF Ends
  <2>4. CASE ~LastWitness(ctx)
    <3>1. Live'
      BY <1>3, <1>6, <2>1, <2>4 DEF Live, NoReply
    <3> QED
      BY <1>1, <1>3, <1>6, <2>1, <2>2, <2>4, <3>1 DEF GoesOn, Leaves
  <2> QED
    BY <2>3, <2>4
<1> QED
  BY <1>2, <1>4, <1>5, <1>6

\* The main loop and the user end the call, a lock leaves it alone.
LEMMA PlatformCallStep ==
  ASSUME Inv, PlatformStep
  PROVE  Ends \/ Idles
<1>1. ctx' = ctx /\ ghost' = ghost /\ attested' = attested
  BY DEF PlatformStep, signTxVars
<1>2. CASE RejectApdu
  <2>1. MainLoopErrors \subseteq AutoRespond
    BY DEF MainLoopErrors, AutoRespond
  <2>2. PICK e \in AutoRespond : Respond(currentInstruction, e, NoData, "idle")
    BY <1>2, <2>1 DEF RejectApdu
  <2> QED
    BY <1>1, <1>2, <2>2, ErrorLeavesNoCall DEF Ends, RejectApdu, Respond
<1>3. CASE ApduDuringUi
  <2>1. ~Sending /\ Crash(ASSERT_IO_STATE) /\ ASSERT_IO_STATE # NotCrashed
    BY <1>3 DEF ApduDuringUi, ASSERT_IO_STATE, NotCrashed
  <2> QED
    BY <1>1, <1>3, <2>1, CrashLeavesNoCall DEF Ends, ApduDuringUi, Crash
<1>4. CASE UserRejects
  <2>1. ButtonAsserts
    BY <1>4, ButtonScreen DEF UserRejects
  <2>2. Respond(currentInstruction, ERR_REJECTED_BY_USER, NoData, "idle")
    BY <1>4, <2>1 DEF UserRejects, RejectThen
  <2>3. ERR_REJECTED_BY_USER \in AutoRespond
    BY DEF AutoRespond
  <2> QED
    BY <1>1, <1>4, <2>2, <2>3, ErrorLeavesNoCall DEF Ends, UserRejects, AwaitsButton, Respond
<1>5. CASE LockDevice \/ UnlockDevice
  BY <1>1, <1>5 DEF LockDevice, UnlockDevice, Idles, Live, WaitsForUser, On, Sending
<1> QED
  BY <1>2, <1>3, <1>4, <1>5 DEF PlatformStep

\* A step that leaves the application alone leaves the call alone.
LEMMA OtherIdles ==
  ASSUME UNCHANGED <<platformVars, ctx, ghost>>,
         attested' = attested \/ (IsNewCall /\ attested \subseteq attested')
  PROVE  Idles
  BY DEF platformVars, Idles, Live, WaitsForUser, On, Sending

\* A boot leaves no call.
LEMMA StartOverEnds ==
  ASSUME StartOver
  PROVE  Ends
<1>1. Boot /\ ctx' = ctx /\ ghost' = ghost /\ attested' = {}
  BY DEF StartOver, IoReset, Restart
<1>2. NoCall /\ currentInstruction' = INS_NONE
  BY <1>1 DEF Boot, NoCall, Live, WaitsForUser, NoReply, NoCode, SUCCESS, INS_NONE, SIGN_TX
<1> QED
  BY <1>1, <1>2 DEF Ends

\* There are no other steps.
LEMMA NextIsCallStep ==
  ASSUME Inv, [Next]_vars
  PROVE  CallStep
<1>0. ASSUME Accepts(SIGN_TX)
      PROVE  CallContext \in Context /\ CallGhost \in Ghost
  BY <1>0, CallIsReady
<1>1. CASE \E p2 \in {0, 1}, sizeOk \in BOOLEAN, i \in WireCounts, o \in WireCounts :
             HandleInit(p2, sizeOk, [inputs |-> i, outputs |-> o])
  <2>1. PICK p2 \in {0, 1}, sizeOk \in BOOLEAN, i \in WireCounts, o \in WireCounts :
          HandleInit(p2, sizeOk, [inputs |-> i, outputs |-> o])
    BY <1>1
  <2>2. [inputs |-> i, outputs |-> o] \in [inputs: Nat, outputs: Nat]
    BY CountsAssumption
  <2> QED
    BY <2>1, <2>2, HandleInitStep DEF CallStep
<1>2. CASE \E p2 \in {0, 1}, form \in {"utxo", "malformed"}, u \in Utxos :
             HandleInput(p2, form, u)
  <2>1. PICK p2 \in {0, 1}, form \in {"utxo", "malformed"}, u \in Utxos :
          HandleInput(p2, form, u)
    BY <1>2
  <2>2. CallContext \in Context /\ CallGhost \in Ghost
    BY <1>0, <2>1 DEF HandleInput
  <2> QED
    BY <2>1, <2>2, HandleInputStep DEF CallStep
<1>3. CASE \E p2 \in {0, 1}, n \in WireAmounts, d \in Destinations : HandleOutput(p2, n, d)
  <2>1. PICK p2 \in {0, 1}, n \in WireAmounts, d \in Destinations : HandleOutput(p2, n, d)
    BY <1>3
  <2>2. n \in Amounts /\ IsDestination(d)
    BY AmountsAssumption, DestinationsAssumption DEF Amounts
  <2>3. CallContext \in Context /\ CallGhost \in Ghost
    BY <1>0, <2>1 DEF HandleOutput
  <2>4. \/ \E p \in Path, a \in Address : AddsOutput(CallContext, CallGhost, p, a, n)
        \/ Ends
    BY <2>1, <2>2, HandleOutputStep
  <2> QED
    BY <2>2, <2>3, <2>4 DEF CallStep
<1>4. CASE \E p2 \in {0, 1}, sizeOk \in BOOLEAN : HandleConfirm(p2, sizeOk)
  <2>1. PICK p2 \in {0, 1}, sizeOk \in BOOLEAN : HandleConfirm(p2, sizeOk)
    BY <1>4
  <2>2. CallContext \in Context /\ CallGhost \in Ghost
    BY <1>0, <2>1 DEF HandleConfirm
  <2> QED
    BY <2>1, <2>2, HandleConfirmStep DEF CallStep
<1>5. CASE \E p2 \in {0, 1}, w \in WireWitnesses : HandleWitness(p2, w)
  <2>1. PICK p2 \in {0, 1}, w \in WireWitnesses : HandleWitness(p2, w)
    BY <1>5
  <2>2. CallContext \in Context /\ CallGhost \in Ghost
    BY <1>0, <2>1 DEF HandleWitness
  <2>3. \/ \E p \in Path : MakesSignature(CallContext, CallGhost, p)
        \/ Ends
    BY <2>1, DestinationsAssumption, HandleWitnessStep
  <2> QED
    BY <2>2, <2>3 DEF CallStep
<1>6. CASE HandleUnknownP1
  BY <1>6, HandleUnknownP1Step DEF CallStep
<1>7. CASE UserConfirms
  BY <1>7, UserConfirmsStep
<1>8. CASE SendDone
  BY <1>8, SendDoneStep DEF CallStep
<1>9. CASE PlatformStep
  BY <1>9, PlatformCallStep DEF CallStep
<1>10. CASE \E u \in Utxos : AttestUtxo(u)
  <2>1. Idles
    BY <1>10, OtherIdles DEF AttestUtxo
  <2> QED
    BY <2>1 DEF CallStep
<1>11. CASE StartOver
  BY <1>11, StartOverEnds DEF CallStep
<1>12. CASE UNCHANGED vars
  <2>1. Idles
    BY <1>12, OtherIdles DEF vars, signTxVars
  <2> QED
    BY <2>1 DEF CallStep
<1> QED
  BY <1>1, <1>2, <1>3, <1>4, <1>5, <1>6, <1>7, <1>8, <1>9, <1>10, <1>11, <1>12 DEF Next

\* The steps of a call are these, whatever the host sends and the user does.
THEOREM CallSteps == Spec => [][CallStep]_vars
<1>1. Inv /\ [Next]_vars => CallStep
  BY NextIsCallStep
<1> QED
  BY <1>1, Invariant, PTL DEF Spec

-----------------------------------------------------------------------------
(***************************************************************************)
(* The steps as the platform sees them (PlatformSteps): what the whole     *)
(* application needs to know of them.                                      *)
(***************************************************************************)

\* A failed ASSERT stops the device.
LEMMA AssertStops ==
  ASSUME NEW cause \in HostCrashes \cup InternalCrashes, AssertFails(cause)
  PROVE  Stops
  BY DEF AssertFails, Stops, HostCrashes, InternalCrashes, NotCrashed, ASSERT_IO_STATE,
         ASSERT_CURRENT_INPUT, ASSERT_CURRENT_OUTPUT, ASSERT_CURRENT_WITNESS,
         ASSERT_PATH_LENGTH, ASSERT_ADDRESS_SIZE, ERR_NOT_ENOUGH_INPUT,
         ERR_UNEXPECTED_TOKEN, ERR_DATA_TOO_LARGE, ASSERT_BUTTON, ASSERT_BUILDER_STATE,
         ASSERT_AMOUNT_SUM, ASSERT_UI_STEP

\* SUCCESS is an answer.
LEMMA SuccessResponds ==
  ASSUME NEW data, NEW then, Respond(SIGN_TX, SUCCESS, data, then)
  PROVE  RespondsFor(SIGN_TX)
  BY DEF RespondsFor

\* A screen and the step that its button leads to.
LEMMA TextAsks ==
  ASSUME NEW c, NEW step, NEW next, NEW what, NEW callback \in Flows \ {"none"},
         ctx' = [c EXCEPT !.uiStep = next], ctx' \in Context,
         \/ ui_displayPaginatedText(SIGN_TX, what, callback)
         \/ ui_displayPrompt(SIGN_TX, what, callback),
         TurnAt(step) <= TurnOf(what.head), TurnOf(what.head) < TurnAt(next)
  PROVE  AsksFor(SIGN_TX, step, ctx'.uiStep)
<1>1. ctx'.uiStep = next
  BY DEF Context
<1>2. Owner(callback) = SIGN_TX
  BY DEF Owner, Flows, SIGN_TX
<1> HIDE DEF Context
<1> QED
  BY <1>1, <1>2 DEF AsksFor, ui_displayPaginatedText, ui_displayPrompt

\* What a screen says begins with its header.
LEMMA HeadIs ==
  /\ \A h : Says(h).head = h
  /\ \A h, n : SaysAmount(h, n).head = h
  /\ \A h, a : SaysAddress(h, a).head = h
  /\ \A h, p : SaysPath(h, p).head = h
  BY DEF Says, SaysAmount, SaysAddress, SaysPath

\* Each run-step function answers, shows the screen whose turn it is, or stops the
\* device.
LEMMA InitStepMoves ==
  ASSUME On, ~Sending, NEW c, ctx' \in Context, InitStep(c)
  PROVE  Moves(SIGN_TX, c.uiStep, ctx'.uiStep)
<1>1. CASE c.uiStep = "INIT_CONFIRM"
  <2>1. /\ ui_displayPrompt(SIGN_TX, Says("StartNewTransaction"), "init")
        /\ ctx' = [c EXCEPT !.uiStep = "INIT_RESPOND"]
    BY <1>1 DEF InitStep
  <2>2. /\ TurnAt(c.uiStep) = 1 /\ TurnAt("INIT_RESPOND") = 5
        /\ TurnOf(Says("StartNewTransaction").head) = 1
    BY <1>1, HeadIs DEF TurnAt, TurnOf
  <2>3. AsksFor(SIGN_TX, c.uiStep, ctx'.uiStep)
    BY <2>1, <2>2, TextAsks DEF Flows
  <2> QED
    BY <2>3 DEF Moves
<1>2. CASE c.uiStep # "INIT_CONFIRM"
  <2>1. \/ Respond(SIGN_TX, SUCCESS, NoData, "busy")
        \/ AssertFails(ASSERT_BUILDER_STATE) \/ AssertFails(ASSERT_UI_STEP)
    BY <1>2 DEF InitStep, Asserting
  <2> QED
    BY <2>1, AssertStops, SuccessResponds DEF Moves, InternalCrashes
<1> QED
  BY <1>1, <1>2

\* (signTx_handleInput_ui_runStep has no screen)
LEMMA InputStepMoves ==
  ASSUME On, ~Sending, NEW c, InputStep(c)
  PROVE  Moves(SIGN_TX, c.uiStep, ctx'.uiStep)
<1>1. \/ Respond(SIGN_TX, SUCCESS, NoData, "busy")
      \/ AssertFails(ASSERT_BUILDER_STATE) \/ AssertFails(ASSERT_UI_STEP)
  BY DEF InputStep, Asserting
<1> QED
  BY <1>1, AssertStops, SuccessResponds DEF Moves, InternalCrashes

\* (signTx_handleOutput_ui_runStep)
LEMMA OutputStepMoves ==
  ASSUME On, ~Sending, NEW c, ctx' \in Context, OutputStep(c)
  PROVE  Moves(SIGN_TX, c.uiStep, ctx'.uiStep)
<1>1. \/ /\ c.uiStep = "OUTPUT_DISPLAY_AMOUNT"
         /\ ui_displayPaginatedText(SIGN_TX, SaysAmount("SendAda", c.currentAmount), "output")
         /\ ctx' = [c EXCEPT !.uiStep = "OUTPUT_DISPLAY_ADDRESS"]
      \/ /\ c.uiStep = "OUTPUT_DISPLAY_ADDRESS"
         /\ ui_displayPaginatedText(SIGN_TX, SaysAddress("ToAddress", c.currentAddress),
                                    "output")
         /\ ctx' = [c EXCEPT !.uiStep = "OUTPUT_RESPOND"]
      \/ Respond(SIGN_TX, SUCCESS, NoData, "busy")
      \/ \E cause \in HostCrashes \cup InternalCrashes : AssertFails(cause)
  BY DEF OutputStep, Asserting, HostCrashes, InternalCrashes
<1>2. /\ TurnAt("OUTPUT_DISPLAY_AMOUNT") = 1 /\ TurnAt("OUTPUT_DISPLAY_ADDRESS") = 2
      /\ TurnAt("OUTPUT_RESPOND") = 5 /\ TurnOf("SendAda") = 1 /\ TurnOf("ToAddress") = 2
  BY DEF TurnAt, TurnOf
<1> QED
  BY <1>1, <1>2, HeadIs, TextAsks, AssertStops, SuccessResponds DEF Moves, Flows

\* (signTx_handleConfirm_ui_runStep)
LEMMA ConfirmStepMoves ==
  ASSUME On, ~Sending, NEW c, ctx' \in Context, ConfirmStep(c)
  PROVE  Moves(SIGN_TX, c.uiStep, ctx'.uiStep)
<1>1. \/ /\ c.uiStep = "CONFIRM_DISPLAY_FEE"
         /\ ui_displayPaginatedText(SIGN_TX, SaysAmount("TransactionFee", c.currentAmount),
                                    "confirm")
         /\ ctx' = [c EXCEPT !.uiStep = "CONFIRM_FINAL_CONFIRM"]
      \/ /\ c.uiStep = "CONFIRM_FINAL_CONFIRM"
         /\ ui_displayPrompt(SIGN_TX, Says("ConfirmTransaction"), "confirm")
         /\ ctx' = [c EXCEPT !.uiStep = "CONFIRM_RESPOND"]
      \/ Respond(SIGN_TX, SUCCESS, HashData(c), "busy")
      \/ \E cause \in HostCrashes \cup InternalCrashes : AssertFails(cause)
  BY DEF ConfirmStep, AfterFee, InternalCrashes
<1>2. /\ TurnAt("CONFIRM_DISPLAY_FEE") = 1 /\ TurnAt("CONFIRM_FINAL_CONFIRM") = 2
      /\ TurnAt("CONFIRM_RESPOND") = 5
      /\ TurnOf("TransactionFee") = 1 /\ TurnOf("ConfirmTransaction") = 2
  BY DEF TurnAt, TurnOf
<1>3. CASE \/ /\ c.uiStep = "CONFIRM_DISPLAY_FEE"
            /\ ui_displayPaginatedText(SIGN_TX,
                                       SaysAmount("TransactionFee", c.currentAmount),
                                       "confirm")
            /\ ctx' = [c EXCEPT !.uiStep = "CONFIRM_FINAL_CONFIRM"]
         \/ /\ c.uiStep = "CONFIRM_FINAL_CONFIRM"
            /\ ui_displayPrompt(SIGN_TX, Says("ConfirmTransaction"), "confirm")
            /\ ctx' = [c EXCEPT !.uiStep = "CONFIRM_RESPOND"]
  <2>1. CASE /\ c.uiStep = "CONFIRM_DISPLAY_FEE"
             /\ ui_displayPaginatedText(SIGN_TX,
                                        SaysAmount("TransactionFee", c.currentAmount),
                                        "confirm")
             /\ ctx' = [c EXCEPT !.uiStep = "CONFIRM_FINAL_CONFIRM"]
    BY <1>2, <2>1, HeadIs, TextAsks DEF Moves, Flows
  <2>2. CASE /\ c.uiStep = "CONFIRM_FINAL_CONFIRM"
             /\ ui_displayPrompt(SIGN_TX, Says("ConfirmTransaction"), "confirm")
             /\ ctx' = [c EXCEPT !.uiStep = "CONFIRM_RESPOND"]
    BY <1>2, <2>2, HeadIs, TextAsks DEF Moves, Flows
  <2> QED
    BY <1>3, <2>1, <2>2
<1> QED
  BY <1>1, <1>3, AssertStops, SuccessResponds DEF Moves

\* (signTx_handleWitness_ui_runStep)
LEMMA WitnessStepMoves ==
  ASSUME On, ~Sending, NEW c, ctx' \in Context, WitnessStep(c)
  PROVE  Moves(SIGN_TX, c.uiStep, ctx'.uiStep)
<1>1. \/ /\ c.uiStep = "WITNESS_WARNING"
         /\ ui_displayPaginatedText(SIGN_TX, Says("UnusualWitness"), "witness")
         /\ ctx' = [c EXCEPT !.uiStep = "WITNESS_DISPLAY"]
      \/ /\ c.uiStep = "WITNESS_DISPLAY"
         /\ ui_displayPaginatedText(SIGN_TX, SaysPath("WitnessPath", c.currentPath),
                                    "witness")
         /\ ctx' = [c EXCEPT !.uiStep = "WITNESS_CONFIRM"]
      \/ /\ c.uiStep = "WITNESS_CONFIRM"
         /\ ui_displayPrompt(SIGN_TX, Says("SignUsingThisWitness"), "witness")
         /\ ctx' = [c EXCEPT !.uiStep = "WITNESS_RESPOND"]
      \/ Respond(SIGN_TX, SUCCESS, c.currentWitnessData, "witness")
      \/ \E cause \in HostCrashes \cup InternalCrashes : AssertFails(cause)
  BY DEF WitnessStep, Asserting, HostCrashes, InternalCrashes
<1>2. /\ TurnAt("WITNESS_WARNING") = 1 /\ TurnAt("WITNESS_DISPLAY") = 2
      /\ TurnAt("WITNESS_CONFIRM") = 3 /\ TurnAt("WITNESS_RESPOND") = 5
      /\ TurnOf("UnusualWitness") = 1 /\ TurnOf("WitnessPath") = 2
      /\ TurnOf("SignUsingThisWitness") = 3
  BY DEF TurnAt, TurnOf
<1>3. CASE \/ /\ c.uiStep = "WITNESS_WARNING"
            /\ ui_displayPaginatedText(SIGN_TX, Says("UnusualWitness"), "witness")
            /\ ctx' = [c EXCEPT !.uiStep = "WITNESS_DISPLAY"]
         \/ /\ c.uiStep = "WITNESS_DISPLAY"
            /\ ui_displayPaginatedText(SIGN_TX, SaysPath("WitnessPath", c.currentPath),
                                       "witness")
            /\ ctx' = [c EXCEPT !.uiStep = "WITNESS_CONFIRM"]
         \/ /\ c.uiStep = "WITNESS_CONFIRM"
            /\ ui_displayPrompt(SIGN_TX, Says("SignUsingThisWitness"), "witness")
            /\ ctx' = [c EXCEPT !.uiStep = "WITNESS_RESPOND"]
  <2>1. CASE /\ c.uiStep = "WITNESS_WARNING"
             /\ ui_displayPaginatedText(SIGN_TX, Says("UnusualWitness"), "witness")
             /\ ctx' = [c EXCEPT !.uiStep = "WITNESS_DISPLAY"]
    BY <1>2, <2>1, HeadIs, TextAsks DEF Moves, Flows
  <2>2. CASE /\ c.uiStep = "WITNESS_DISPLAY"
             /\ ui_displayPaginatedText(SIGN_TX, SaysPath("WitnessPath", c.currentPath),
                                        "witness")
             /\ ctx' = [c EXCEPT !.uiStep = "WITNESS_CONFIRM"]
    BY <1>2, <2>2, HeadIs, TextAsks DEF Moves, Flows
  <2>3. CASE /\ c.uiStep = "WITNESS_CONFIRM"
             /\ ui_displayPrompt(SIGN_TX, Says("SignUsingThisWitness"), "witness")
             /\ ctx' = [c EXCEPT !.uiStep = "WITNESS_RESPOND"]
    BY <1>2, <2>3, HeadIs, TextAsks DEF Moves, Flows
  <2> QED
    BY <1>3, <2>1, <2>2, <2>3
<1> QED
  BY <1>1, <1>3, AssertStops, SuccessResponds DEF Moves

\* No handler ends with what stands for a device that is running.
LEMMA VerdictsAreErrors ==
  /\ \A c, p2, sizeOk, counts : InitHandler(c, p2, sizeOk, counts).verdict # NotCrashed
  /\ \A c, p2, form, u : InputHandler(c, p2, form, u).verdict # NotCrashed
  /\ \A c, p2, n, d : OutputHandler(c, p2, n, d).verdict # NotCrashed
  /\ \A c, p2, sizeOk : ConfirmHandler(c, p2, sizeOk).verdict # NotCrashed
  /\ \A c, p2, w : WitnessHandler(c, p2, w).verdict # NotCrashed
<1>1. \A c, p2, sizeOk, counts : InitHandler(c, p2, sizeOk, counts).verdict # NotCrashed
  BY DEF InitHandler, Refuse, Proceed, NotCrashed, SUCCESS, ERR_INVALID_STATE,
         ERR_INVALID_REQUEST_PARAMETERS, ERR_INVALID_DATA
<1>2. \A c, p2, form, u : InputHandler(c, p2, form, u).verdict # NotCrashed
  BY DEF InputHandler, Refuse, Proceed, NotCrashed, SUCCESS, ERR_INVALID_STATE,
         ERR_INVALID_REQUEST_PARAMETERS, ERR_INVALID_DATA, ASSERT_CURRENT_INPUT,
         ASSERT_AMOUNT_SUM, ASSERT_BUILDER_STATE
<1>3. \A c, p2, n, d : OutputHandler(c, p2, n, d).verdict # NotCrashed
  <2>1. \A c, d : OutputAddress(c, d).verdict # NotCrashed
    BY DEF OutputAddress, NoOutput, unboxError, NotCrashed, SUCCESS, ERR_INVALID_DATA,
           ERR_REJECTED_BY_POLICY, ASSERT_PATH_LENGTH, ERR_NOT_ENOUGH_INPUT,
           ERR_UNEXPECTED_TOKEN, ERR_DATA_TOO_LARGE
  <2> HIDE DEF OutputAddress
  <2> QED
    BY <2>1
       DEF OutputHandler, Refuse, Proceed, NotCrashed, SUCCESS, ERR_INVALID_STATE,
           ERR_INVALID_REQUEST_PARAMETERS, ERR_INVALID_DATA, ASSERT_CURRENT_OUTPUT,
           ASSERT_AMOUNT_SUM, ASSERT_BUILDER_STATE, ERR_NOT_ENOUGH_INPUT,
           ASSERT_ADDRESS_SIZE, ERR_DATA_TOO_LARGE
<1>4. \A c, p2, sizeOk : ConfirmHandler(c, p2, sizeOk).verdict # NotCrashed
  BY DEF ConfirmHandler, Refuse, Proceed, NotCrashed, SUCCESS, ERR_INVALID_STATE,
         ERR_INVALID_REQUEST_PARAMETERS, ERR_INVALID_DATA, ASSERT_BUILDER_STATE
<1>5. \A c, p2, w : WitnessHandler(c, p2, w).verdict # NotCrashed
  BY DEF WitnessHandler, Refuse, Proceed, NotCrashed, SUCCESS, ERR_INVALID_DATA,
         ERR_INVALID_REQUEST_PARAMETERS, ASSERT_CURRENT_WITNESS, ERR_REJECTED_BY_POLICY,
         ASSERT_PATH_LENGTH
<1> QED
  BY <1>1, <1>2, <1>3, <1>4, <1>5

\* What a handler throws is answered or stops the device.
LEMMA FailedMoves ==
  ASSUME On, ~Sending, NEW r, r.verdict # NotCrashed, Failed(r)
  PROVE  \A step : Moves(SIGN_TX, step, ctx'.uiStep)
  BY DEF Failed, Throw, Moves, RespondsFor, Stops

\* So does every request, and every button.
LEMMA RequestMoves ==
  ASSUME ctx' \in Context,
         \/ \E p2, sizeOk, counts : HandleInit(p2, sizeOk, counts)
         \/ \E p2, form, u : HandleInput(p2, form, u)
         \/ \E p2, n, d : HandleOutput(p2, n, d)
         \/ \E p2, sizeOk : HandleConfirm(p2, sizeOk)
         \/ \E p2, w : HandleWitness(p2, w)
         \/ HandleUnknownP1
  PROVE  \E step : Moves(SIGN_TX, step, ctx'.uiStep)
<1>1. On /\ ~Sending
  BY DEF HandleInit, HandleInput, HandleOutput, HandleConfirm, HandleWitness,
         HandleUnknownP1, Accepts
<1>2. \E r : /\ r.verdict # NotCrashed
             /\ \/ Failed(r)
                \/ InitStep(r.ctx) \/ InputStep(r.ctx) \/ OutputStep(r.ctx)
                \/ ConfirmStep(r.ctx) \/ WitnessStep(r.ctx)
  <2>1. Refuse(ERR_INVALID_REQUEST_PARAMETERS, CallContext).verdict # NotCrashed
    BY DEF Refuse, ERR_INVALID_REQUEST_PARAMETERS, NotCrashed
  <2> HIDE DEF Refuse
  <2> QED
    BY <2>1, VerdictsAreErrors
       DEF HandleInit, HandleInput, HandleOutput, HandleConfirm, HandleWitness,
           HandleUnknownP1
<1> QED
  BY <1>1, <1>2, FailedMoves, InitStepMoves, InputStepMoves, OutputStepMoves,
     ConfirmStepMoves, WitnessStepMoves

\* A button goes on from the step that its screen has left in the context.
LEMMA ButtonMoves ==
  ASSUME Inv, ctx' \in Context, UserConfirms
  PROVE  Moves(SIGN_TX, ctx.uiStep, ctx'.uiStep)
<1>1. /\ On /\ ~Sending /\ ButtonAsserts
      /\ ScreenOk(ctx, ghost, display.what, display.callback)
  BY ButtonScreen DEF UserConfirms
<1>2. InitStep(ctx) \/ OutputStep(ctx) \/ ConfirmStep(ctx) \/ WitnessStep(ctx)
  BY <1>1 DEF UserConfirms, RunStep, ScreenOk
<1> QED
  BY <1>1, <1>2, InitStepMoves, OutputStepMoves, ConfirmStepMoves, WitnessStepMoves

-----------------------------------------------------------------------------
(***************************************************************************)
(* Between calls, whichever instruction had the last one.                  *)
(***************************************************************************)

\* What is, or is not, under transmission between calls.
LEMMA BetweenCallsReply ==
  ASSUME Idle
  PROVE  /\ reply \in [code: {NoCode} \cup AutoRespond, data: {NoData},
                       then: {"none", "idle"}]
         /\ Sending => reply.then = "idle" /\ reply.code # SUCCESS
         /\ Sending <=> awaiting
         /\ Sending <=> ioState # "IO"
         /\ ioState \in {"IO", "NONE"}
         /\ ~Sending => reply = NoReply
<1>1. CASE reply = NoReply /\ ioState = "IO" /\ ~awaiting
  BY <1>1 DEF NoReply, Sending
<1>2. CASE \E e \in AutoRespond : reply = ErrorReply(e) /\ ioState = "NONE" /\ awaiting
  <2>1. PICK e \in AutoRespond : reply = ErrorReply(e) /\ ioState = "NONE" /\ awaiting
    BY <1>2
  <2>2. e # NoCode /\ e # SUCCESS
    BY <2>1
       DEF AutoRespond, NoCode, SUCCESS, ERR_MALFORMED_REQUEST_HEADER, ERR_BAD_CLA,
           ERR_UNKNOWN_INS, ERR_STILL_IN_CALL, ERR_INVALID_REQUEST_PARAMETERS,
           ERR_INVALID_STATE, ERR_INVALID_DATA, ERR_REJECTED_BY_USER,
           ERR_REJECTED_BY_POLICY, ERR_DEVICE_LOCKED
  <2> HIDE DEF NoData, AutoRespond
  <2> QED
    BY <2>1, <2>2 DEF ErrorReply, Sending
<1> QED
  BY <1>1, <1>2 DEF Idle

\* A context of its kind is all that Inv asks for then.
LEMMA BetweenCallsInv ==
  ASSUME On, currentInstruction = INS_NONE, Idle, ctx \in Context, ghost \in Ghost,
         locked \in BOOLEAN, awaiting \in BOOLEAN
  PROVE  Inv /\ ~Live /\ ~WaitsForUser
<1>1. Says("menu") \in Saying
  BY EmptyTypes, ZeroInRange DEF Says, Saying, Headers
<1>2. /\ display \in [kind: {"menu", "busy", "text", "prompt"}, what: Saying,
                      callback: Flows, run: BOOLEAN]
      /\ display.kind = "menu" /\ display.run
  <2> HIDE DEF Says, Saying
  <2> QED
    BY <1>1 DEF Idle, Menu, Screen, Flows
<1>3. reply \in [code: {NoCode, SUCCESS} \cup AutoRespond, data: ReplyData,
                then: {"none", "idle", "busy", "witness"}]
  <2> HIDE DEF AutoRespond, NoData
  <2> QED
    BY BetweenCallsReply DEF ReplyData
<1> HIDE DEF Idle
<1>4. ~Live /\ ~WaitsForUser
  BY BetweenCallsReply DEF Live, WaitsForUser, INS_NONE, SIGN_TX
<1>5. CallTypeOK
  BY <1>2, <1>3, BetweenCallsReply DEF CallTypeOK, On
<1>6. ControlInv /\ InternalAssertionsHold
  BY <1>2, BetweenCallsReply
     DEF ControlInv, OneAnswerPerRequest, NoStaleScreen, InternalAssertionsHold,
         InternalCrashes, On, NotCrashed, ASSERT_BUTTON, ASSERT_BUILDER_STATE,
         ASSERT_AMOUNT_SUM, ASSERT_UI_STEP
<1>7. ContextInv /\ ScreenInv /\ ReplyInv
  BY <1>4, BetweenCallsReply DEF ContextInv, ScreenInv, ReplyInv
<1> QED
  BY <1>4, <1>5, <1>6, <1>7 DEF Inv
=============================================================================
