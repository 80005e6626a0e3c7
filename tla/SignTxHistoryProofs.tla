-------------------------- MODULE SignTxHistoryProofs --------------------------
(***************************************************************************)
(* HistoryInv is an invariant of SignTx, and with it the properties of a   *)
(* whole call.  What a step does to the context and the history is shown   *)
(* of each conjunct of CallOk on its own, then of each step of SignTxSteps.*)
(* So is WorthInv: the sums of a call are those of what has been hashed.   *)
(***************************************************************************)
EXTENDS SignTxHistory, SignTxProofs, SubsequencesProofs

-----------------------------------------------------------------------------
(***************************************************************************)
(* Selections.                                                             *)
(***************************************************************************)

\* An item that is hashed is one more to be seen, or is not.
LEMMA SeenAppend ==
  ASSUME NEW h \in Seq(Item), NEW it \in Item
  PROVE  /\ Seen(h) \in Seq(Item)
         /\ Seen(Append(h, it)) =
              IF MustBeSeen(it) THEN Append(Seen(h), it) ELSE Seen(h)
<1> DEFINE K == {k \in DOMAIN h : MustBeSeen(h[k])}
           t == Append(h, it)
           L == {k \in DOMAIN t : MustBeSeen(t[k])}
<1>1. /\ DOMAIN h = 1 .. Len(h) /\ DOMAIN t = 1 .. Len(h) + 1 /\ Len(h) \in Nat
      /\ t[Len(h) + 1] = it
      /\ \A i \in 1 .. Len(h) : t[i] = h[i]
  BY AppendProperties, LenProperties
<1>2. \A i \in 1 .. Len(h) : i \in K <=> i \in L
  BY <1>1
<1>3. Len(h) + 1 \in L <=> MustBeSeen(it)
  BY <1>1
<1> HIDE DEF K, L
<1>4. /\ Selected(h, K) \in Seq(Item)
      /\ Selected(t, L) = IF Len(h) + 1 \in L THEN Append(Selected(h, K), it) ELSE Selected(h, K)
  BY <1>2, SelectedType, SelectedAppend
<1> QED
  BY <1>3, <1>4 DEF Seen, K, L

\* A screen that is acknowledged is one more about the transaction, or is not.
LEMMA ScreensAppend ==
  ASSUME NEW a \in Seq(Saying), NEW what \in Saying
  PROVE  /\ ScreensAboutTx(a) \in Seq(Saying)
         /\ ScreensAboutTx(Append(a, what)) =
              IF IsAboutTx(what) THEN Append(ScreensAboutTx(a), what) ELSE ScreensAboutTx(a)
<1> DEFINE K == {k \in DOMAIN a : IsAboutTx(a[k])}
           t == Append(a, what)
           L == {k \in DOMAIN t : IsAboutTx(t[k])}
<1>1. /\ DOMAIN a = 1 .. Len(a) /\ DOMAIN t = 1 .. Len(a) + 1 /\ Len(a) \in Nat
      /\ t[Len(a) + 1] = what
      /\ \A i \in 1 .. Len(a) : t[i] = a[i]
  BY AppendProperties, LenProperties
<1>2. \A i \in 1 .. Len(a) : i \in K <=> i \in L
  BY <1>1
<1>3. Len(a) + 1 \in L <=> IsAboutTx(what)
  BY <1>1
<1> HIDE DEF K, L
<1>4. /\ Selected(a, K) \in Seq(Saying)
      /\ Selected(t, L) = IF Len(a) + 1 \in L THEN Append(Selected(a, K), what)
                                              ELSE Selected(a, K)
  BY <1>2, SelectedType, SelectedAppend
<1> QED
  BY <1>3, <1>4 DEF ScreensAboutTx, K, L

\* Nothing has been seen of nothing.
LEMMA NothingSeen ==
  /\ ScreensAboutTx(<<>>) = <<>>
  /\ Seen(<<Token("tx")>>) = <<>>
<1>1. ScreensAboutTx(<<>>) = <<>>
  BY SelectedEmpty DEF ScreensAboutTx
<1>2. Seen(<<>>) = <<>>
  BY SelectedEmpty DEF Seen
<1>3. ~MustBeSeen(Token("tx")) /\ Token("tx") \in Item /\ <<>> \in Seq(Item)
  BY TokenType DEF MustBeSeen, Token
<1>4. Append(<<>>, Token("tx")) = <<Token("tx")>>
  OBVIOUS
<1>5. Seen(Append(<<>>, Token("tx"))) = Seen(<<>>)
  BY <1>3, SeenAppend
<1> QED
  BY <1>1, <1>2, <1>4, <1>5

-----------------------------------------------------------------------------
(***************************************************************************)
(* The hash.                                                               *)
(***************************************************************************)

\* The inputs stay when something is appended.
LEMMA InputsStay ==
  ASSUME NEW h \in Seq(Item), NEW it \in Item, NEW i \in Nat, i + 2 <= Len(h), HasInputs(h, i)
  PROVE  HasInputs(Append(h, it), i)
<1>1. \A k \in 1 .. Len(h) : Append(h, it)[k] = h[k]
  BY AppendProperties
<1> QED
  BY <1>1, LenProperties DEF HasInputs

\* So do the outputs.
LEMMA OutputsStay ==
  ASSUME NEW h \in Seq(Item), NEW it \in Item, NEW i \in Nat, NEW o \in Nat,
         i + o + 3 <= Len(h), HasOutputs(h, i, o)
  PROVE  HasOutputs(Append(h, it), i, o)
<1>1. \A k \in 1 .. Len(h) : Append(h, it)[k] = h[k]
  BY AppendProperties
<1>2. HasInputs(Append(h, it), i)
  BY InputsStay, LenProperties DEF HasOutputs
<1> QED
  BY <1>1, <1>2, LenProperties DEF HasOutputs

\* One more input.
LEMMA InputAppended ==
  ASSUME NEW h \in Seq(Item), NEW i \in Nat, Len(h) = i + 2, HasInputs(h, i), NEW u \in Utxos
  PROVE  /\ Len(Append(h, InputItem(u))) = i + 3
         /\ HasInputs(Append(h, InputItem(u)), i + 1)
<1> DEFINE t == Append(h, InputItem(u))
<1>1. Len(t) = i + 3 /\ t[i + 3] = InputItem(u) /\ InputItem(u).item = "input"
  BY AppendProperties, InputItemType DEF InputItem, Token
<1>2. HasInputs(t, i)
  BY InputItemType, InputsStay
<1> HIDE DEF t
<1>3. \A k \in 3 .. i + 3 : k \in 3 .. i + 2 \/ k = i + 3
  OBVIOUS
<1>4. HasInputs(t, i + 1)
  BY <1>1, <1>2, <1>3 DEF HasInputs
<1> QED
  BY <1>1, <1>4 DEF t

\* The inputs are complete.
LEMMA OutputsOpened ==
  ASSUME NEW h \in Seq(Item), NEW i \in Nat, Len(h) = i + 2, HasInputs(h, i)
  PROVE  /\ Len(Append(h, Token("outputs"))) = i + 3
         /\ HasOutputs(Append(h, Token("outputs")), i, 0)
<1>1. Token("outputs") \in Item
  BY TokenType
<1>2. HasInputs(Append(h, Token("outputs")), i)
  BY <1>1, InputsStay
<1> QED
  BY <1>1, <1>2, AppendProperties DEF HasOutputs

\* One more output.
LEMMA OutputAppended ==
  ASSUME NEW h \in Seq(Item), NEW i \in Nat, NEW o \in Nat, Len(h) = i + o + 3,
         HasOutputs(h, i, o), NEW a \in Address, NEW n \in Amounts
  PROVE  /\ Len(Append(h, OutputItem(a, n))) = i + o + 4
         /\ HasOutputs(Append(h, OutputItem(a, n)), i, o + 1)
<1> DEFINE t == Append(h, OutputItem(a, n))
<1>1. Len(t) = i + o + 4 /\ t[i + o + 4] = OutputItem(a, n) /\ OutputItem(a, n).item = "output"
  <2>1. OutputItem(a, n) \in Item /\ OutputItem(a, n).item = "output"
    BY OutputItemType DEF OutputItem, Token
  <2> QED
    BY <2>1, AppendProperties
<1>2. HasOutputs(t, i, o)
  BY OutputItemType, OutputsStay
<1> HIDE DEF t
<1>3. \A k \in i + 4 .. i + o + 4 : k \in i + 4 .. i + o + 3 \/ k = i + o + 4
  OBVIOUS
<1>4. HasOutputs(t, i, o + 1)
  BY <1>1, <1>2, <1>3 DEF HasOutputs
<1> QED
  BY <1>1, <1>4 DEF t

\* The outputs are complete, and so is the transaction.
LEMMA TransactionComplete ==
  ASSUME NEW h \in Seq(Item), NEW i \in Nat, NEW o \in Nat, Len(h) = i + o + 3,
         HasOutputs(h, i, o)
  PROVE  IsTransaction(Append(h, Token("metadata")), i, o)
<1> DEFINE t == Append(h, Token("metadata"))
<1>1. Len(t) = i + o + 4 /\ t[i + o + 4] = Token("metadata")
  BY AppendProperties, TokenType
<1>2. HasOutputs(t, i, o)
  BY TokenType, OutputsStay
<1> HIDE DEF t
<1>3. IsTransaction(t, i, o)
  BY <1>1, <1>2 DEF HasOutputs, HasInputs, IsTransaction
<1> QED
  BY <1>3 DEF t

-----------------------------------------------------------------------------
(***************************************************************************)
(* What the steps do to the hash.                                          *)
(***************************************************************************)

\* The fields that HashedOk and TxHashOk are about.
SameHashed(c, d) ==
  /\ d.stage = c.stage /\ d.builder = c.builder /\ d.hashed = c.hashed /\ d.txHash = c.txHash
  /\ d.numInputs = c.numInputs /\ d.numOutputs = c.numOutputs
  /\ d.currentInput = c.currentInput /\ d.currentOutput = c.currentOutput

\* A step that leaves those alone leaves the hash in order; outside the screens of
\* an output it does not matter which screen is up.
LEMMA HashedStays ==
  ASSUME NEW c, NEW d, SameHashed(c, d), NEW cb1, NEW cb2,
         cb1 = "output" <=> cb2 = "output"
  PROVE  /\ HashedOk(c, cb1) => HashedOk(d, cb2)
         /\ TxHashOk(c) => TxHashOk(d)
  BY DEF SameHashed, HashedOk, TxHashOk, OutputsHashed

\* P1 = 1 begins the hash.
LEMMA HashedInit ==
  ASSUME NEW counts
  PROVE  HashedOk(CountedContext(counts), "init") /\ TxHashOk(CountedContext(counts))
  BY DEF CountedContext, ZeroContext, HashedOk, TxHashOk

\* Its prompt opens the inputs.
LEMMA HashedOpensInputs ==
  ASSUME NEW c \in Context, HashedOk(c, "init"), c.stage = "NONE",
         NEW d, d = [txHashBuilder_enterInputs(c) EXCEPT !.stage = "INPUTS"]
  PROVE  HashedOk(d, "none") /\ TxHashOk(d)
<1>1. /\ d.stage = "INPUTS" /\ d.builder = "IN_INPUTS"
      /\ d.hashed = Append(c.hashed, Token("inputs"))
      /\ d.currentInput = c.currentInput /\ d.currentOutput = c.currentOutput
  BY DEF txHashBuilder_enterInputs, Context
<1>2. c.hashed = <<Token("tx")>> /\ c.currentInput = 0 /\ c.currentOutput = 0
  BY DEF HashedOk
<1>3. d.hashed = <<Token("tx"), Token("inputs")>>
  BY <1>1, <1>2
<1>4. Len(d.hashed) = 2 /\ HasInputs(d.hashed, 0)
  BY <1>3 DEF HasInputs
<1>5. d.currentInput = 0 /\ d.currentOutput = 0
  BY <1>1, <1>2
<1>6. Len(d.hashed) = d.currentInput + 2
  <2>1. \A i, n : i = 0 /\ n = 2 => n = i + 2
    OBVIOUS
  <2> QED
    BY <1>4, <1>5, <2>1, Zenon
<1>7. HasInputs(d.hashed, d.currentInput)
  BY <1>4, <1>5, Zenon
<1> QED
  BY <1>1, <1>5, <1>6, <1>7 DEF HashedOk, TxHashOk

\* P1 = 2 adds an input, and the last one opens the outputs.
LEMMA HashedAddsInput ==
  ASSUME NEW c \in Context, HashedOk(c, "none"), c.stage = "INPUTS", c.builder = "IN_INPUTS",
         NEW u \in Utxos,
         NEW d, d = CountedInput(WithInput(c, u))
  PROVE  HashedOk(d, "none") /\ TxHashOk(d)
<1> DEFINE h == Append(c.hashed, InputItem(u))
           w == WithInput(c, u)
           i == c.currentInput + 1
<1>1. /\ w.hashed = h /\ w.currentInput = i /\ w.stage = "INPUTS" /\ w.builder = "IN_INPUTS"
      /\ w.numInputs = c.numInputs /\ w.currentOutput = 0
  BY DEF WithInput, Context, HashedOk
<1>2. c.hashed \in Seq(Item) /\ c.currentInput \in Nat /\ Len(c.hashed) = c.currentInput + 2
      /\ HasInputs(c.hashed, c.currentInput)
  BY DEF Context, Counts, HashedOk
<1>3. Len(h) = i + 2 /\ HasInputs(h, i) /\ h \in Seq(Item)
  BY <1>2, InputAppended, InputItemType, AppendProperties
<1> HIDE DEF h, w
<1>4. CASE ~AllInputs(w)
  BY <1>1, <1>3, <1>4 DEF CountedInput, w, HashedOk, TxHashOk
<1>5. CASE AllInputs(w)
  <2> DEFINE t == Append(h, Token("outputs"))
  <2>1. /\ d.stage = "OUTPUTS" /\ d.builder = "IN_OUTPUTS" /\ d.hashed = t
        /\ d.numInputs = i /\ d.currentOutput = 0
    <3>1. d = [txHashBuilder_enterOutputs(w) EXCEPT !.stage = "OUTPUTS"] /\ w.numInputs = i
      BY <1>1, <1>5 DEF CountedInput, w, AllInputs
    <3>2. w.hashed = h /\ w.currentOutput = 0
      BY <1>1
    <3> QED
      BY <3>1, <3>2 DEF txHashBuilder_enterOutputs, WithInput, w, Context
  <2>2. Len(t) = i + 3 /\ HasOutputs(t, i, 0)
    BY <1>2, <1>3, OutputsOpened
  <2> HIDE DEF t
  <2> QED
    BY <1>2, <2>1, <2>2 DEF HashedOk, TxHashOk, OutputsHashed
<1> QED
  BY <1>4, <1>5

\* P1 = 3 adds an output,
LEMMA HashedAddsOutput ==
  ASSUME NEW c \in Context, HashedOk(c, "none"), c.stage = "OUTPUTS",
         c.builder = "IN_OUTPUTS",
         NEW p, NEW a \in Address, NEW n \in Amounts, NEW step,
         NEW d, d = WithOutput(c, p, a, n, step)
  PROVE  HashedOk(d, "output") /\ TxHashOk(d)
<1>1. /\ d.hashed = Append(c.hashed, OutputItem(a, n)) /\ d.stage = "OUTPUTS"
      /\ d.builder = "IN_OUTPUTS"
      /\ d.numInputs = c.numInputs /\ d.currentOutput = c.currentOutput
  BY DEF WithOutput, Context
<1>2. /\ c.hashed \in Seq(Item) /\ c.numInputs \in Nat /\ c.currentOutput \in Nat
      /\ Len(c.hashed) = c.numInputs + c.currentOutput + 3
      /\ HasOutputs(c.hashed, c.numInputs, c.currentOutput)
  BY DEF Context, Counts, HashedOk, OutputsHashed
<1>3. /\ Len(d.hashed) = c.numInputs + c.currentOutput + 4
      /\ HasOutputs(d.hashed, c.numInputs, c.currentOutput + 1)
  <2> DEFINE h == c.hashed
             i == c.numInputs
             o == c.currentOutput
  <2>1. h \in Seq(Item) /\ i \in Nat /\ o \in Nat /\ Len(h) = i + o + 3 /\ HasOutputs(h, i, o)
    BY <1>2
  <2> HIDE DEF h, i, o
  <2>2. Len(Append(h, OutputItem(a, n))) = i + o + 4 /\ HasOutputs(Append(h, OutputItem(a, n)), i, o + 1)
    BY <2>1, OutputAppended
  <2> QED
    BY <1>1, <2>2 DEF h, i, o
<1> QED
  BY <1>1, <1>2, <1>3 DEF HashedOk, TxHashOk, OutputsHashed

\* and the last one, when it is counted, completes the transaction.
LEMMA HashedCountsOutput ==
  ASSUME NEW c \in Context, HashedOk(c, "output"), c.stage = "OUTPUTS",
         c.builder = "IN_OUTPUTS", NEW d, d = CountedOutput(c)
  PROVE  HashedOk(d, "none") /\ TxHashOk(d)
<1> DEFINE o == c.currentOutput + 1
           next == [c EXCEPT !.currentOutput = @ + 1]
<1>1. /\ c.hashed \in Seq(Item) /\ c.numInputs \in Nat /\ o \in Nat
      /\ Len(c.hashed) = c.numInputs + o + 3
      /\ HasOutputs(c.hashed, c.numInputs, o)
  BY DEF Context, Counts, HashedOk, OutputsHashed
<1>2. /\ next.hashed = c.hashed /\ next.currentOutput = o /\ next.stage = "OUTPUTS"
      /\ next.builder = "IN_OUTPUTS" /\ next.numInputs = c.numInputs
      /\ next.numOutputs = c.numOutputs
  BY DEF Context
<1>3. CASE o # c.numOutputs
  <2>1. d = next
    BY <1>2, <1>3 DEF CountedOutput
  <2> HIDE DEF next, o
  <2> QED
    BY <1>1, <1>2, <2>1 DEF HashedOk, TxHashOk, OutputsHashed
<1>4. CASE o = c.numOutputs
  <2>1. d = [txHashBuilder_enterMetadata(next) EXCEPT !.stage = "CONFIRM"]
    BY <1>2, <1>4 DEF CountedOutput
  <2>2. /\ d.stage = "CONFIRM" /\ d.builder = "IN_METADATA"
        /\ d.hashed = Append(c.hashed, Token("metadata"))
        /\ d.numInputs = c.numInputs /\ d.numOutputs = c.numOutputs
    BY <2>1 DEF txHashBuilder_enterMetadata, Context
  <2>3. IsTransaction(d.hashed, c.numInputs, o)
    BY <1>1, <2>2, TransactionComplete
  <2> HIDE DEF next, o
  <2> QED
    BY <1>4, <2>2, <2>3 DEF HashedOk, TxHashOk
<1> QED
  BY <1>3, <1>4

\* P1 = 4 finishes the hash of a whole transaction.
LEMMA HashedFinalized ==
  ASSUME NEW c \in Context, HashedOk(c, "none"), c.stage = "CONFIRM",
         NEW d, d = WithFee(c)
  PROVE  /\ HashedOk(d, "confirm") /\ TxHashOk(d)
         /\ d.txHash = c.hashed
         /\ IsTransaction(d.txHash, d.numInputs, d.numOutputs)
<1>1. /\ d.hashed = c.hashed /\ d.txHash = c.hashed /\ d.stage = "CONFIRM"
      /\ d.numInputs = c.numInputs /\ d.numOutputs = c.numOutputs
  BY DEF WithFee, txHashBuilder_finalize, Context
<1> QED
  BY <1>1 DEF HashedOk, TxHashOk

\* The confirmed hash stays what it is when the witnesses begin.
LEMMA HashedReleased ==
  ASSUME NEW c \in Context, HashedOk(c, "confirm"), TxHashOk(c), c.stage = "CONFIRM",
         NEW d, d = [c EXCEPT !.stage = "WITNESSES"]
  PROVE  HashedOk(d, "none") /\ TxHashOk(d)
<1>1. /\ d.hashed = c.hashed /\ d.txHash = c.txHash /\ d.stage = "WITNESSES"
      /\ d.builder = c.builder
      /\ d.numInputs = c.numInputs /\ d.numOutputs = c.numOutputs
  BY DEF Context
<1> QED
  BY <1>1 DEF HashedOk, TxHashOk

-----------------------------------------------------------------------------
(***************************************************************************)
(* What the steps do to the counts and the sums.                           *)
(***************************************************************************)

\* If an amount does not wrap the sum, nor did those before it.
LEMMA NoWrapBefore ==
  ASSUME NEW h \in Seq(Item), NEW it \in Item, OutputsDoNotWrap(Append(h, it))
  PROVE  OutputsDoNotWrap(h) /\ it.amount + MaxSupply < AmountMod
<1> DEFINE t == Append(h, it)
<1>1. /\ Len(t) = Len(h) + 1 /\ t[Len(h) + 1] = it /\ Len(h) \in Nat
      /\ DOMAIN t = 1 .. Len(t) /\ DOMAIN h = 1 .. Len(h)
      /\ \A k \in 1 .. Len(h) : t[k] = h[k]
  BY AppendProperties, LenProperties
<1>2. \A k \in 1 .. Len(h) : k \in DOMAIN t
  BY <1>1
<1>3. Len(h) + 1 \in DOMAIN t
  BY <1>1
<1>4. \A k \in DOMAIN t : t[k].amount + MaxSupply < AmountMod
  BY DEF OutputsDoNotWrap
<1> HIDE DEF t
<1> QED
  BY <1>1, <1>2, <1>3, <1>4 DEF OutputsDoNotWrap

\* A sum that does not wrap is exact.
LEMMA SumIsExact ==
  ASSUME NEW s \in Nat, NEW n \in Nat, s <= MaxSupply, n + MaxSupply < AmountMod
  PROVE  SumWrapped(s, n) = s + n
<1>1. s + n \in Nat /\ AmountMod \in Nat /\ s + n < AmountMod
  BY AmountsAssumption
<1> QED
  BY <1>1 DEF SumWrapped

\* An input never wraps the sum: it is worth no more than the supply.
LEMMA InputIsExact ==
  ASSUME NEW s \in Nat, NEW u \in Utxos, s <= MaxSupply
  PROVE  SumWrapped(s, AmountOf[u]) = s + AmountOf[u] /\ AmountOf[u] \in Nat
<1>1. AmountOf[u] \in 0 .. MaxSupply /\ MaxSupply \in Nat /\ AmountMod \in Nat
      /\ 2 * MaxSupply < AmountMod
  BY UtxosAssumption, AmountsAssumption
<1>2. AmountOf[u] \in Nat /\ AmountOf[u] + MaxSupply < AmountMod
  BY <1>1
<1> QED
  BY <1>2, SumIsExact

\* What the sums stand for stays when the sums stay, and more can be hashed.
LEMMA SumsStay ==
  ASSUME NEW c \in Context, NEW g, SumsOk(c, g), NEW d, NEW h,
         d.hashed = c.hashed \/ \E it \in Item : d.hashed = Append(c.hashed, it),
         d.sumAmountInputs = c.sumAmountInputs, d.sumAmountOutputs = c.sumAmountOutputs,
         h.exactIn = g.exactIn, h.exactOut = g.exactOut
  PROVE  SumsOk(d, h)
<1>1. OutputsDoNotWrap(d.hashed) => OutputsDoNotWrap(c.hashed)
  <2>1. CASE d.hashed = c.hashed
    BY <2>1
  <2>2. CASE \E it \in Item : d.hashed = Append(c.hashed, it)
    BY <2>2, NoWrapBefore DEF Context
  <2> QED
    BY <2>1, <2>2
<1> QED
  BY <1>1 DEF SumsOk

\* P1 = 2 adds to both sums of the inputs.
LEMMA SumsAddInput ==
  ASSUME NEW c \in Context, NEW g \in Ghost, SumsOk(c, g), c.sumAmountInputs <= MaxSupply,
         NEW u \in Utxos
  PROVE  SumsOk(WithInput(c, u), [g EXCEPT !.exactIn = @ + AmountOf[u]])
<1> DEFINE d == WithInput(c, u)
           h == [g EXCEPT !.exactIn = @ + AmountOf[u]]
<1>1. /\ d.hashed = Append(c.hashed, InputItem(u)) /\ d.sumAmountOutputs = c.sumAmountOutputs
      /\ d.sumAmountInputs = SumWrapped(c.sumAmountInputs, AmountOf[u])
  BY DEF WithInput, Context
<1>2. h.exactOut = g.exactOut /\ h.exactIn = g.exactIn + AmountOf[u]
  BY DEF Ghost
<1>3. SumWrapped(c.sumAmountInputs, AmountOf[u]) = c.sumAmountInputs + AmountOf[u]
  BY InputIsExact DEF Context, Amounts
<1>4. OutputsDoNotWrap(Append(c.hashed, InputItem(u))) => OutputsDoNotWrap(c.hashed)
  BY NoWrapBefore, InputItemType DEF Context
<1> HIDE DEF d, h
<1>5. SumsOk(d, h)
  BY <1>1, <1>2, <1>3, <1>4 DEF SumsOk
<1> QED
  BY <1>5 DEF d, h

\* P1 = 3 adds to both sums of the outputs, as long as none of them wraps.
LEMMA SumsAddOutput ==
  ASSUME NEW c \in Context, NEW g \in Ghost, SumsOk(c, g), c.sumAmountOutputs <= MaxSupply,
         NEW p, NEW a \in Address, NEW n \in Amounts, NEW step
  PROVE  SumsOk(WithOutput(c, p, a, n, step), [g EXCEPT !.exactOut = @ + n])
<1> DEFINE d == WithOutput(c, p, a, n, step)
           h == [g EXCEPT !.exactOut = @ + n]
           t == Append(c.hashed, OutputItem(a, n))
<1>1. /\ d.hashed = t /\ d.sumAmountInputs = c.sumAmountInputs
      /\ d.sumAmountOutputs = SumWrapped(c.sumAmountOutputs, n)
  BY DEF WithOutput, Context
<1>2. h.exactIn = g.exactIn /\ h.exactOut = g.exactOut + n
  BY DEF Ghost
<1>3. OutputItem(a, n).amount = n /\ OutputItem(a, n) \in Item
  BY OutputItemType DEF OutputItem, Token
<1>4. OutputsDoNotWrap(t) => OutputsDoNotWrap(c.hashed) /\ n + MaxSupply < AmountMod
  BY <1>3, NoWrapBefore DEF Context
<1>5. n + MaxSupply < AmountMod =>
        SumWrapped(c.sumAmountOutputs, n) = c.sumAmountOutputs + n
  BY SumIsExact DEF Context, Amounts
<1> HIDE DEF d, h, t
<1>6. SumsOk(d, h)
  BY <1>1, <1>2, <1>4, <1>5 DEF SumsOk
<1> QED
  BY <1>6 DEF d, h

\* The 16 bits a count is kept in are no more than the 32 it is announced in.
LEMMA TruncatedIsLess ==
  ASSUME NEW n \in Nat
  PROVE  Truncated(n) <= n /\ Truncated(n) \in Nat
  BY CountsAssumption DEF Truncated

-----------------------------------------------------------------------------
(***************************************************************************)
(* What the steps do to the screens.                                       *)
(***************************************************************************)

\* Which screens are about the transaction.
LEMMA Heads ==
  /\ IsAboutTx(Says("StartNewTransaction")) /\ IsAboutTx(FinalPrompt)
  /\ \A n : IsAboutTx(SaysAmount("SendAda", n)) /\ IsAboutTx(SaysAmount("TransactionFee", n))
  /\ \A a : IsAboutTx(SaysAddress("ToAddress", a))
  /\ ~IsAboutTx(Says("UnusualWitness")) /\ ~IsAboutTx(Says("SignUsingThisWitness"))
  /\ \A p : ~IsAboutTx(SaysPath("WitnessPath", p))
  BY DEF IsAboutTx, Says, SaysAmount, SaysAddress, SaysPath, FinalPrompt

\* Tokens and inputs need not be seen.
LEMMA NotSeen ==
  /\ \A t \in {"tx", "inputs", "outputs", "metadata"} : ~MustBeSeen(Token(t))
  /\ \A u : ~MustBeSeen(InputItem(u))
  BY DEF MustBeSeen, Token, InputItem

\* Where a number is with respect to another one and its successor.
LEMMA Trichotomy ==
  ASSUME NEW a \in Nat, NEW b \in Nat
  PROVE  a = b + 1 \/ a <= b \/ a > b + 1
  OBVIOUS

\* One more screen, if it is the right one.
LEMMA FollowsScreen ==
  ASSUME NEW t \in Seq(Saying), NEW s \in Seq(Item), Follows(t, s), NEW x \in Saying,
         Len(t) = 0 => x = Says("StartNewTransaction"),
         \A k \in 1 .. Len(s) :
           /\ 2 * k = Len(t) + 1 => x = SaysAmount("SendAda", s[k].amount)
           /\ 2 * k = Len(t) => x = SaysAddress("ToAddress", s[k].address)
  PROVE  Follows(Append(t, x), s) /\ Len(Append(t, x)) = Len(t) + 1
<1> DEFINE r == Append(t, x)
           m == Len(t)
<1>1. /\ m \in Nat /\ Len(r) = m + 1 /\ r[m + 1] = x
      /\ \A i \in 1 .. m : r[i] = t[i]
  BY AppendProperties, LenProperties
<1>2. Len(s) \in Nat
  BY LenProperties
<1> HIDE DEF r
<1>3. r[1] = Says("StartNewTransaction")
  <2>1. CASE m = 0
    BY <1>1, <2>1
  <2>2. CASE m # 0
    <3>1. m >= 1
      BY <1>1, <2>2
    <3>2. r[1] = t[1]
      BY <1>1, <3>1
    <3> QED
      BY <3>1, <3>2 DEF Follows
  <2> QED
    BY <2>1, <2>2
<1>4. ASSUME NEW k \in 1 .. Len(s)
      PROVE  /\ 2 * k <= m + 1 => r[2 * k] = SaysAmount("SendAda", s[k].amount)
             /\ 2 * k + 1 <= m + 1 => r[2 * k + 1] = SaysAddress("ToAddress", s[k].address)
  <2>1. k \in Nat /\ k >= 1
    BY <1>2
  <2>2. CASE 2 * k = m + 1
    BY <1>1, <2>1, <2>2
  <2>3. CASE 2 * k <= m
    <3>1. r[2 * k] = t[2 * k] /\ t[2 * k] = SaysAmount("SendAda", s[k].amount)
      BY <1>1, <2>1, <2>3 DEF Follows
    <3>2. CASE 2 * k = m
      BY <1>1, <2>1, <3>1, <3>2
    <3>3. CASE 2 * k + 1 <= m
      <4>1. r[2 * k + 1] = t[2 * k + 1]
            /\ t[2 * k + 1] = SaysAddress("ToAddress", s[k].address)
        BY <1>1, <2>1, <3>3 DEF Follows
      <4> QED
        BY <3>1, <4>1
    <3> QED
      BY <1>1, <2>1, <2>3, <3>2, <3>3
  <2>4. CASE 2 * k > m + 1
    BY <1>1, <2>1, <2>4
  <2>5. 2 * k = m + 1 \/ 2 * k <= m \/ 2 * k > m + 1
    <3>1. 2 * k \in Nat
      BY <2>1
    <3> QED
      BY <1>1, <3>1, Trichotomy
  <2> QED
    BY ONLY <2>2, <2>3, <2>4, <2>5
<1>5. Follows(r, s)
  BY <1>1, <1>3, <1>4 DEF Follows
<1> QED
  BY <1>1, <1>5 DEF r

\* One more output to be seen: none of its screens has been shown.
LEMMA FollowsOutput ==
  ASSUME NEW t \in Seq(Saying), NEW s \in Seq(Item), Follows(t, s), NEW it \in Item,
         Len(t) <= 2 * Len(s) + 1
  PROVE  /\ Follows(t, Append(s, it))
         /\ Len(Append(s, it)) = Len(s) + 1
         /\ Append(s, it)[Len(s) + 1] = it
<1> DEFINE r == Append(s, it)
           n == Len(s)
<1>1. /\ n \in Nat /\ Len(r) = n + 1 /\ r[n + 1] = it /\ Len(t) \in Nat
      /\ \A i \in 1 .. n : r[i] = s[i]
  BY AppendProperties, LenProperties
<1> HIDE DEF r
<1>2. ASSUME NEW k \in 1 .. n + 1
      PROVE  /\ 2 * k <= Len(t) => t[2 * k] = SaysAmount("SendAda", r[k].amount)
             /\ 2 * k + 1 <= Len(t) => t[2 * k + 1] = SaysAddress("ToAddress", r[k].address)
  <2>1. CASE k = n + 1
    BY <1>1, <2>1
  <2>2. CASE k \in 1 .. n
    BY <1>1, <2>2 DEF Follows
  <2> QED
    BY <1>1, <2>1, <2>2
<1>3. Follows(t, r)
  BY <1>1, <1>2 DEF Follows
<1> QED
  BY <1>1, <1>3 DEF r

\* The history after a screen has been acknowledged in context c.
Acknowledged(c, g, what) ==
  [g EXCEPT !.acknowledged = Append(@, what),
            !.confirmedHash = IF what = FinalPrompt THEN c.txHash ELSE @]

\* A screen is acknowledged, and nothing else happens to the history.
LEMMA AcknowledgedFields ==
  ASSUME NEW c \in Context, NEW g \in Ghost, NEW what \in Saying,
         NEW h, h = Acknowledged(c, g, what)
  PROVE  /\ h \in Ghost
         /\ h.acknowledged = Append(g.acknowledged, what)
         /\ h.confirmedHash = IF what = FinalPrompt THEN c.txHash ELSE g.confirmedHash
         /\ h.announced = g.announced /\ h.exactIn = g.exactIn /\ h.exactOut = g.exactOut
         /\ h.signatures = g.signatures
         /\ ScreensAboutTx(h.acknowledged) =
              IF IsAboutTx(what) THEN Append(ScreensAboutTx(g.acknowledged), what)
                                 ELSE ScreensAboutTx(g.acknowledged)
<1>1. /\ h.acknowledged = Append(g.acknowledged, what)
      /\ h.confirmedHash = IF what = FinalPrompt THEN c.txHash ELSE g.confirmedHash
      /\ h.announced = g.announced /\ h.exactIn = g.exactIn /\ h.exactOut = g.exactOut
      /\ h.signatures = g.signatures
  BY DEF Acknowledged, Ghost
<1>2. g.acknowledged \in Seq(Saying)
  BY DEF Ghost
<1>3. h \in Ghost
  BY <1>2, AppendProperties DEF Acknowledged, Ghost, Context
<1> QED
  BY <1>1, <1>2, <1>3, ScreensAppend

\* A screen about the transaction other than the final prompt.
LEMMA AcknowledgedTx ==
  ASSUME NEW c \in Context, NEW g \in Ghost, NEW what \in Saying,
         IsAboutTx(what), what # FinalPrompt,
         NEW h, h = Acknowledged(c, g, what)
  PROVE  /\ ScreensAboutTx(h.acknowledged) = Append(ScreensAboutTx(g.acknowledged), what)
         /\ h.confirmedHash = g.confirmedHash
<1>1. h.confirmedHash = IF what = FinalPrompt THEN c.txHash ELSE g.confirmedHash
  BY AcknowledgedFields
<1>2. h.acknowledged = Append(g.acknowledged, what) /\ g.acknowledged \in Seq(Saying)
  BY AcknowledgedFields DEF Ghost
<1>3. ScreensAboutTx(Append(g.acknowledged, what)) = Append(ScreensAboutTx(g.acknowledged), what)
  BY <1>2, ScreensAppend
<1> QED
  BY <1>1, <1>2, <1>3, Zenon

\* P1 = 1 shows the first prompt.
LEMMA SeenInit ==
  ASSUME NEW counts
  PROVE  SeenOk(CountedContext(counts), [ZeroGhost EXCEPT !.announced = counts], "init",
                Says("StartNewTransaction"))
<1>1. CountedContext(counts).hashed = <<Token("tx")>>
  BY DEF CountedContext, ZeroContext
<1>2. [ZeroGhost EXCEPT !.announced = counts].acknowledged = <<>>
      /\ [ZeroGhost EXCEPT !.announced = counts].confirmedHash = ZeroHash
  BY DEF ZeroGhost
<1> QED
  BY <1>1, <1>2, NothingSeen DEF SeenOk, InitScreenOk

\* Once it is acknowledged everything there is has been seen.
LEMMA SeenOpensInputs ==
  ASSUME NEW c \in Context, NEW g \in Ghost, NEW what \in Saying,
         HashedOk(c, "init"), SeenOk(c, g, "init", what), c.stage = "NONE",
         NEW h, h = Acknowledged(c, g, what),
         NEW d, d = [txHashBuilder_enterInputs(c) EXCEPT !.stage = "INPUTS"], NEW w
  PROVE  SeenOk(d, h, "none", w)
<1>1. /\ ScreensAboutTx(g.acknowledged) = <<>> /\ Seen(c.hashed) = <<>>
      /\ what = Says("StartNewTransaction") /\ g.confirmedHash = ZeroHash
  BY DEF SeenOk, InitScreenOk
<1>2. what # FinalPrompt
  BY <1>1 DEF Says, FinalPrompt
<1>3. h.confirmedHash = ZeroHash /\ ScreensAboutTx(h.acknowledged) = <<what>>
  <2>1. IsAboutTx(what)
    BY <1>1, Heads
  <2>2. /\ ScreensAboutTx(h.acknowledged) = Append(ScreensAboutTx(g.acknowledged), what)
        /\ h.confirmedHash = g.confirmedHash
    BY <1>2, <2>1, AcknowledgedTx
  <2>3. ScreensAboutTx(h.acknowledged) = Append(<<>>, what) /\ h.confirmedHash = ZeroHash
    BY <1>1, <2>2, Zenon
  <2> QED
    BY <2>3
<1>4. d.hashed = Append(c.hashed, Token("inputs")) /\ d.stage = "INPUTS"
  BY DEF txHashBuilder_enterInputs, Context
<1>5. Seen(d.hashed) = <<>>
  BY <1>1, <1>4, SeenAppend, NotSeen, TokenType DEF Context
<1>6. AllSeen(<<what>>, <<>>)
  BY <1>1 DEF AllSeen, Follows
<1> QED
  BY <1>3, <1>4, <1>5, <1>6 DEF SeenOk

\* What need not be seen can be hashed without a screen.
LEMMA SeenStays ==
  ASSUME NEW c, NEW g, NEW what, SeenOk(c, g, "none", what),
         NEW d, NEW h, NEW w,
         c.stage # "WITNESSES", Seen(d.hashed) = Seen(c.hashed),
         h.acknowledged = g.acknowledged, h.confirmedHash = g.confirmedHash
  PROVE  SeenOk(d, h, "none", w)
  BY DEF SeenOk

\* P1 = 2 hashes nothing that must be seen.
LEMMA SeenAddsInput ==
  ASSUME NEW c \in Context, NEW u \in Utxos
  PROVE  Seen(CountedInput(WithInput(c, u)).hashed) = Seen(c.hashed)
<1> DEFINE h == Append(c.hashed, InputItem(u))
           w == WithInput(c, u)
           d == CountedInput(w)
<1>1. w.hashed = h /\ h \in Seq(Item) /\ Seen(h) = Seen(c.hashed)
  BY SeenAppend, NotSeen, InputItemType, AppendProperties DEF WithInput, Context
<1>2. d.hashed = h \/ d.hashed = Append(h, Token("outputs"))
  BY <1>1 DEF CountedInput, txHashBuilder_enterOutputs, WithInput, Context
<1>3. Seen(Append(h, Token("outputs"))) = Seen(h)
  BY <1>1, SeenAppend, NotSeen, TokenType
<1> QED
  BY <1>1, <1>2, <1>3

\* Nor does the end of the outputs.
LEMMA SeenCountsOutput ==
  ASSUME NEW c \in Context
  PROVE  Seen(CountedOutput(c).hashed) = Seen(c.hashed)
<1> DEFINE d == CountedOutput(c)
<1>1. d.hashed = c.hashed \/ d.hashed = Append(c.hashed, Token("metadata"))
  BY DEF CountedOutput, txHashBuilder_enterMetadata, Context
<1>2. Seen(Append(c.hashed, Token("metadata"))) = Seen(c.hashed)
  BY SeenAppend, NotSeen, TokenType DEF Context
<1> QED
  BY <1>1, <1>2

\* P1 = 3 shows the amount of an output that must be seen,
LEMMA SeenAddsOutput ==
  ASSUME NEW c \in Context, NEW g \in Ghost, NEW what, SeenOk(c, g, "none", what),
         c.stage = "OUTPUTS", NEW p, NEW a \in Address, NEW n \in Amounts,
         MustBeSeen(OutputItem(a, n)),
         NEW d, d = WithOutput(c, p, a, n, "OUTPUT_DISPLAY_ADDRESS"),
         NEW h, h.acknowledged = g.acknowledged, h.confirmedHash = g.confirmedHash
  PROVE  SeenOk(d, h, "output", SaysAmount("SendAda", n))
<1> DEFINE t == ScreensAboutTx(g.acknowledged)
           s == Seen(c.hashed)
           r == Seen(d.hashed)
<1>1. /\ d.hashed = Append(c.hashed, OutputItem(a, n)) /\ d.stage = "OUTPUTS"
      /\ d.currentAddress = a /\ d.currentAmount = n /\ d.uiStep = "OUTPUT_DISPLAY_ADDRESS"
  BY DEF WithOutput, Context
<1>2. OutputItem(a, n) \in Item /\ c.hashed \in Seq(Item)
  BY OutputItemType DEF Context
<1>3. s \in Seq(Item) /\ r = Append(s, OutputItem(a, n))
  BY <1>1, <1>2, SeenAppend
<1>4. t \in Seq(Saying) /\ AllSeen(t, s) /\ g.confirmedHash = ZeroHash
  <2>1. g.acknowledged \in Seq(Saying)
    BY DEF Ghost
  <2>2. ScreensAboutTx(g.acknowledged) \in Seq(Saying)
    BY <2>1, SelectedType DEF ScreensAboutTx
  <2> QED
    BY <2>2 DEF SeenOk
<1>5. Len(s) \in Nat
  BY <1>3, LenProperties
<1> HIDE DEF t, s, r
<1>6. /\ Follows(t, r) /\ Len(r) = Len(s) + 1 /\ r[Len(s) + 1] = OutputItem(a, n)
      /\ Len(t) = 2 * Len(s) + 1
  BY <1>2, <1>3, <1>4, <1>5, FollowsOutput DEF AllSeen
<1>7. Len(t) = 2 * Len(r) - 1 /\ Len(r) >= 1 /\ r[Len(r)] = OutputItem(a, n)
  BY <1>5, <1>6
<1>8. OutputScreenOk(d, t, r, SaysAmount("SendAda", n))
  BY <1>1, <1>6, <1>7 DEF OutputScreenOk
<1> QED
  BY <1>1, <1>4, <1>8 DEF SeenOk, t, r

\* or hashes one that need not be.
LEMMA SeenAddsOwnOutput ==
  ASSUME NEW c \in Context, NEW p, NEW a \in Address, NEW n \in Amounts, NEW step,
         ~MustBeSeen(OutputItem(a, n))
  PROVE  Seen(WithOutput(c, p, a, n, step).hashed) = Seen(c.hashed)
<1>1. WithOutput(c, p, a, n, step).hashed = Append(c.hashed, OutputItem(a, n))
  BY DEF WithOutput, Context
<1> QED
  BY <1>1, SeenAppend, OutputItemType DEF Context

\* Both screens of an output are about the transaction and not the final prompt.
LEMMA OutputScreens ==
  /\ \A n : IsAboutTx(SaysAmount("SendAda", n)) /\ SaysAmount("SendAda", n) # FinalPrompt
  /\ \A a : IsAboutTx(SaysAddress("ToAddress", a)) /\ SaysAddress("ToAddress", a) # FinalPrompt
  BY DEF IsAboutTx, Says, SaysAmount, SaysAddress, FinalPrompt

\* When the amount is acknowledged the address is shown,
LEMMA SeenShowsAddress ==
  ASSUME NEW c \in Context, NEW g \in Ghost, NEW what \in Saying,
         SeenOk(c, g, "output", what), c.stage = "OUTPUTS",
         c.uiStep = "OUTPUT_DISPLAY_ADDRESS",
         NEW h, h = Acknowledged(c, g, what),
         NEW d, d = [c EXCEPT !.uiStep = "OUTPUT_RESPOND"]
  PROVE  SeenOk(d, h, "output", SaysAddress("ToAddress", c.currentAddress))
<1> DEFINE t == ScreensAboutTx(g.acknowledged)
           s == Seen(c.hashed)
           n == Len(s)
<1>1. /\ d.hashed = c.hashed /\ d.stage = "OUTPUTS" /\ d.uiStep = "OUTPUT_RESPOND"
      /\ d.currentAddress = c.currentAddress /\ d.currentAmount = c.currentAmount
  BY DEF Context
<1>2. t \in Seq(Saying) /\ s \in Seq(Item)
  BY SelectedType DEF ScreensAboutTx, Seen, Ghost, Context
<1>3. n \in Nat /\ Len(t) \in Nat
  BY <1>2, LenProperties
<1>4. /\ what = SaysAmount("SendAda", c.currentAmount)
      /\ Len(t) = 2 * n - 1 /\ n >= 1 /\ Follows(t, s)
      /\ s[n] = OutputItem(c.currentAddress, c.currentAmount)
      /\ g.confirmedHash = ZeroHash
  BY DEF SeenOk, OutputScreenOk
<1>5. ScreensAboutTx(h.acknowledged) = Append(t, what) /\ h.confirmedHash = ZeroHash
  <2>1. IsAboutTx(what) /\ what # FinalPrompt
    BY <1>4, OutputScreens
  <2> QED
    BY <1>4, <2>1, AcknowledgedTx
<1> HIDE DEF t, s
<1>6. s[n].amount = c.currentAmount
  BY <1>4 DEF OutputItem, Token
<1>7. Follows(Append(t, what), s) /\ Len(Append(t, what)) = Len(t) + 1
  <2>1. \A k \in 1 .. n : /\ 2 * k = Len(t) + 1 => k = n
                          /\ 2 * k # Len(t)
    BY <1>3, <1>4
  <2>2. \A k \in 1 .. n :
           /\ 2 * k = Len(t) + 1 => what = SaysAmount("SendAda", s[k].amount)
           /\ 2 * k = Len(t) => what = SaysAddress("ToAddress", s[k].address)
    BY <1>4, <1>6, <2>1, Zenon
  <2>3. Len(t) # 0
    BY <1>3, <1>4
  <2> QED
    BY <1>2, <1>4, <2>2, <2>3, FollowsScreen
<1>8. Len(Append(t, what)) = 2 * n
  BY <1>3, <1>4, <1>7
<1>9. OutputScreenOk(d, Append(t, what), s, SaysAddress("ToAddress", c.currentAddress))
  BY <1>1, <1>4, <1>7, <1>8 DEF OutputScreenOk
<1> QED
  BY <1>1, <1>5, <1>9 DEF SeenOk, s

\* and when the address is acknowledged the output has been seen.
LEMMA SeenFinishesOutput ==
  ASSUME NEW c \in Context, NEW g \in Ghost, NEW what \in Saying,
         SeenOk(c, g, "output", what), c.stage = "OUTPUTS", c.uiStep = "OUTPUT_RESPOND",
         NEW h, h = Acknowledged(c, g, what),
         NEW d, d = CountedOutput(c), NEW w
  PROVE  SeenOk(d, h, "none", w)
<1> DEFINE t == ScreensAboutTx(g.acknowledged)
           s == Seen(c.hashed)
           n == Len(s)
<1>1. Seen(d.hashed) = s
  BY SeenCountsOutput
<1>2. t \in Seq(Saying) /\ s \in Seq(Item)
  BY SelectedType DEF ScreensAboutTx, Seen, Ghost, Context
<1>3. n \in Nat /\ Len(t) \in Nat
  BY <1>2, LenProperties
<1>4. /\ what = SaysAddress("ToAddress", c.currentAddress)
      /\ Len(t) = 2 * n /\ n >= 1 /\ Follows(t, s)
      /\ s[n] = OutputItem(c.currentAddress, c.currentAmount)
      /\ g.confirmedHash = ZeroHash
  BY DEF SeenOk, OutputScreenOk
<1>5. ScreensAboutTx(h.acknowledged) = Append(t, what) /\ h.confirmedHash = ZeroHash
  <2>1. IsAboutTx(what) /\ what # FinalPrompt
    BY <1>4, OutputScreens
  <2> QED
    BY <1>4, <2>1, AcknowledgedTx
<1> HIDE DEF t, s
<1>6. s[n].address = c.currentAddress
  BY <1>4 DEF OutputItem, Token
<1>7. Follows(Append(t, what), s) /\ Len(Append(t, what)) = Len(t) + 1
  <2>1. \A k \in 1 .. n : /\ 2 * k = Len(t) => k = n
                          /\ 2 * k # Len(t) + 1
    BY <1>3, <1>4
  <2>2. \A k \in 1 .. n :
           /\ 2 * k = Len(t) + 1 => what = SaysAmount("SendAda", s[k].amount)
           /\ 2 * k = Len(t) => what = SaysAddress("ToAddress", s[k].address)
    BY <1>4, <1>6, <2>1, Zenon
  <2>3. Len(t) # 0
    BY <1>3, <1>4
  <2> QED
    BY <1>2, <1>4, <2>2, <2>3, FollowsScreen
<1>8. AllSeen(Append(t, what), s)
  BY <1>3, <1>4, <1>7 DEF AllSeen
<1> QED
  BY <1>1, <1>5, <1>8 DEF SeenOk, s

\* P1 = 4 shows the fee when every output has been seen,
LEMMA SeenShowsFee ==
  ASSUME NEW c \in Context, NEW g, NEW what, SeenOk(c, g, "none", what),
         c.stage = "CONFIRM", c.sumAmountInputs > c.sumAmountOutputs,
         NEW d, d = WithFee(c)
  PROVE  SeenOk(d, g, "confirm",
                SaysAmount("TransactionFee", c.sumAmountInputs - c.sumAmountOutputs))
<1>1. /\ d.hashed = c.hashed /\ d.stage = "CONFIRM" /\ d.uiStep = "CONFIRM_FINAL_CONFIRM"
      /\ d.sumAmountInputs = c.sumAmountInputs /\ d.sumAmountOutputs = c.sumAmountOutputs
      /\ d.currentAmount = c.sumAmountInputs - c.sumAmountOutputs
  BY DEF WithFee, txHashBuilder_finalize, Context
<1>2. g.confirmedHash = ZeroHash /\ AllSeen(ScreensAboutTx(g.acknowledged), Seen(c.hashed))
  BY DEF SeenOk
<1> QED
  BY <1>1, <1>2 DEF SeenOk, ConfirmScreenOk

\* the final prompt when the fee is acknowledged,
LEMMA SeenAsksToConfirm ==
  ASSUME NEW c \in Context, NEW g \in Ghost, NEW what \in Saying,
         SeenOk(c, g, "confirm", what), c.stage = "CONFIRM",
         c.uiStep = "CONFIRM_FINAL_CONFIRM",
         NEW h, h = Acknowledged(c, g, what),
         NEW d, d = [c EXCEPT !.uiStep = "CONFIRM_RESPOND"]
  PROVE  SeenOk(d, h, "confirm", FinalPrompt)
<1> DEFINE t == ScreensAboutTx(g.acknowledged)
           s == Seen(c.hashed)
           n == Len(s)
           fee == SaysAmount("TransactionFee", c.currentAmount)
<1>1. /\ d.hashed = c.hashed /\ d.stage = "CONFIRM" /\ d.uiStep = "CONFIRM_RESPOND"
      /\ d.sumAmountInputs = c.sumAmountInputs /\ d.sumAmountOutputs = c.sumAmountOutputs
      /\ d.currentAmount = c.currentAmount
  BY DEF Context
<1>2. t \in Seq(Saying) /\ s \in Seq(Item)
  BY SelectedType DEF ScreensAboutTx, Seen, Ghost, Context
<1>3. n \in Nat /\ Len(t) \in Nat
  BY <1>2, LenProperties
<1>4. /\ what = fee /\ AllSeen(t, s) /\ g.confirmedHash = ZeroHash
      /\ c.sumAmountInputs > c.sumAmountOutputs
      /\ c.currentAmount = c.sumAmountInputs - c.sumAmountOutputs
  BY DEF SeenOk, ConfirmScreenOk
<1>5. ScreensAboutTx(h.acknowledged) = Append(t, what) /\ h.confirmedHash = ZeroHash
  <2>1. IsAboutTx(what) /\ what # FinalPrompt
    BY <1>4 DEF IsAboutTx, SaysAmount, Says, FinalPrompt
  <2> QED
    BY <1>4, <2>1, AcknowledgedTx
<1> HIDE DEF t, s, fee
<1>6. Follows(Append(t, what), s) /\ Len(Append(t, what)) = Len(t) + 1
  <2>1. Len(t) = 2 * n + 1 /\ Follows(t, s)
    BY <1>4 DEF AllSeen
  <2>2. Len(t) # 0 /\ \A k \in 1 .. n : 2 * k # Len(t) + 1 /\ 2 * k # Len(t)
    BY <1>3, <2>1
  <2> QED
    BY <1>2, <2>1, <2>2, FollowsScreen
<1>7. Len(Append(t, what)) = 2 * n + 2 /\ Append(t, what)[2 * n + 2] = fee
  <2>1. Len(t) = 2 * n + 1
    BY <1>4 DEF AllSeen
  <2>2. Append(t, what)[Len(t) + 1] = what
    BY <1>2, AppendProperties
  <2> QED
    BY <1>3, <1>4, <1>6, <2>1, <2>2
<1>8. ConfirmScreenOk(d, Append(t, what), s, FinalPrompt)
  BY <1>1, <1>4, <1>6, <1>7 DEF ConfirmScreenOk, fee
<1> QED
  BY <1>1, <1>5, <1>8 DEF SeenOk, s

\* and releases the hash when everything has been seen, the true fee included.
LEMMA SeenReleasesHash ==
  ASSUME NEW c \in Context, NEW g \in Ghost, NEW what \in Saying,
         SeenOk(c, g, "confirm", what), c.stage = "CONFIRM", c.uiStep = "CONFIRM_RESPOND",
         NEW h, h = Acknowledged(c, g, what)
  PROVE  LET t == ScreensAboutTx(h.acknowledged)
             s == Seen(c.hashed)
             n == Len(s)
         IN /\ h.confirmedHash = c.txHash
            /\ Follows(t, s) /\ Len(t) = 2 * n + 3 /\ n \in Nat
            /\ t[2 * n + 2] = SaysAmount("TransactionFee", c.currentAmount)
            /\ t[2 * n + 3] = FinalPrompt
            /\ c.sumAmountInputs > c.sumAmountOutputs
            /\ c.currentAmount = c.sumAmountInputs - c.sumAmountOutputs
<1> DEFINE t == ScreensAboutTx(g.acknowledged)
           s == Seen(c.hashed)
           n == Len(s)
           fee == SaysAmount("TransactionFee", c.currentAmount)
           r == Append(t, what)
<1>2. t \in Seq(Saying) /\ s \in Seq(Item)
  BY SelectedType DEF ScreensAboutTx, Seen, Ghost, Context
<1>3. n \in Nat /\ Len(t) \in Nat
  BY <1>2, LenProperties
<1>4. /\ what = FinalPrompt /\ Len(t) = 2 * n + 2 /\ t[2 * n + 2] = fee /\ Follows(t, s)
      /\ c.sumAmountInputs > c.sumAmountOutputs
      /\ c.currentAmount = c.sumAmountInputs - c.sumAmountOutputs
  BY DEF SeenOk, ConfirmScreenOk
<1>5. h.acknowledged = Append(g.acknowledged, what) /\ g.acknowledged \in Seq(Saying)
      /\ h.confirmedHash = c.txHash
  <2>1. h.acknowledged = Append(g.acknowledged, what) /\ g.acknowledged \in Seq(Saying)
    BY DEF Acknowledged, Ghost
  <2>2. h.confirmedHash = IF what = FinalPrompt THEN c.txHash ELSE g.confirmedHash
    BY AcknowledgedFields
  <2> QED
    BY <1>4, <2>1, <2>2, Zenon
<1>6. IsAboutTx(what)
  BY <1>4, Heads
<1>7. ScreensAboutTx(h.acknowledged) = r
  BY <1>5, <1>6, ScreensAppend
<1> HIDE DEF t, s, fee
<1>8. Follows(r, s) /\ Len(r) = Len(t) + 1
  <2>1. Len(t) # 0 /\ \A k \in 1 .. n : 2 * k # Len(t) + 1 /\ 2 * k # Len(t)
    BY <1>3, <1>4
  <2> QED
    BY <1>2, <1>4, <2>1, FollowsScreen
<1>9. r[2 * n + 2] = fee /\ r[2 * n + 3] = FinalPrompt /\ Len(r) = 2 * n + 3
  <2>1. /\ Len(t) = 2 * n + 2 /\ 2 * n + 2 \in 1 .. Len(t)
        /\ 2 * n + 3 = Len(t) + 1 /\ Len(t) + 1 = 2 * n + 3
    BY <1>3, <1>4
  <2>2. r[Len(t) + 1] = what /\ \A i \in 1 .. Len(t) : r[i] = t[i]
    BY <1>2, AppendProperties
  <2> HIDE DEF r, n
  <2> QED
    BY <1>4, <1>8, <2>1, <2>2, Zenon
<1> QED
  BY <1>3, <1>4, <1>5, <1>7, <1>8, <1>9 DEF s, fee

\* P1 = 5 shows the warning,
LEMMA SeenMakesSignature ==
  ASSUME NEW c \in Context, NEW g, NEW what, SeenOk(c, g, "none", what), NEW p,
         NEW d, d = WithWitness(c, p, "WITNESS_DISPLAY")
  PROVE  SeenOk(d, g, "witness", Says("UnusualWitness"))
<1>1. /\ d.hashed = c.hashed /\ d.stage = c.stage /\ d.uiStep = "WITNESS_DISPLAY"
      /\ d.currentPath = p /\ d.currentWitnessData = getTxWitness(d, p)
  BY DEF WithWitness, getTxWitness, Context
<1> QED
  BY <1>1 DEF SeenOk, WitnessScreenOk

\* or nothing at all,
LEMMA SeenSigns ==
  ASSUME NEW c \in Context, NEW g, NEW what, SeenOk(c, g, "none", what), NEW p,
         NEW d, d = WithWitness(c, p, "WITNESS_RESPOND"), NEW w
  PROVE  SeenOk(d, g, "none", w)
<1>1. d.hashed = c.hashed /\ d.stage = c.stage
  BY DEF WithWitness, Context
<1> QED
  BY <1>1 DEF SeenOk

\* A screen about a witness is none about the transaction.
LEMMA AcknowledgedWitness ==
  ASSUME NEW c \in Context, NEW g \in Ghost, NEW what \in Saying,
         ~IsAboutTx(what),
         NEW h, h = Acknowledged(c, g, what)
  PROVE  /\ ScreensAboutTx(h.acknowledged) = ScreensAboutTx(g.acknowledged)
         /\ h.confirmedHash = g.confirmedHash
         /\ Len(h.acknowledged) = Len(g.acknowledged) + 1
         /\ Len(g.acknowledged) \in Nat
         /\ h.acknowledged[Len(g.acknowledged) + 1] = what
         /\ \A k \in 1 .. Len(g.acknowledged) : h.acknowledged[k] = g.acknowledged[k]
<1>1. what # FinalPrompt
  BY Heads
<1>2. /\ h.confirmedHash = g.confirmedHash
      /\ h.acknowledged = Append(g.acknowledged, what) /\ g.acknowledged \in Seq(Saying)
  <2>1. h.acknowledged = Append(g.acknowledged, what) /\ g.acknowledged \in Seq(Saying)
    BY DEF Acknowledged, Ghost
  <2>2. h.confirmedHash = IF what = FinalPrompt THEN c.txHash ELSE g.confirmedHash
    BY AcknowledgedFields
  <2> QED
    BY <1>1, <2>1, <2>2, Zenon
<1>3. ScreensAboutTx(Append(g.acknowledged, what)) = ScreensAboutTx(g.acknowledged)
  BY <1>2, ScreensAppend
<1>4. /\ Len(Append(g.acknowledged, what)) = Len(g.acknowledged) + 1
      /\ Len(g.acknowledged) \in Nat
      /\ Append(g.acknowledged, what)[Len(g.acknowledged) + 1] = what
      /\ \A k \in 1 .. Len(g.acknowledged) :
           Append(g.acknowledged, what)[k] = g.acknowledged[k]
  BY <1>2, AppendProperties, LenProperties
<1> QED
  BY <1>2, <1>3, <1>4

\* then the path,
LEMMA SeenShowsWitnessPath ==
  ASSUME NEW c \in Context, NEW g \in Ghost, NEW what \in Saying,
         SeenOk(c, g, "witness", what), c.uiStep = "WITNESS_DISPLAY",
         NEW h, h = Acknowledged(c, g, what),
         NEW d, d = [c EXCEPT !.uiStep = "WITNESS_CONFIRM"]
  PROVE  SeenOk(d, h, "witness", SaysPath("WitnessPath", c.currentPath))
<1>1. /\ d.hashed = c.hashed /\ d.stage = c.stage /\ d.uiStep = "WITNESS_CONFIRM"
      /\ d.currentPath = c.currentPath /\ d.currentWitnessData = c.currentWitnessData
      /\ getTxWitness(d, c.currentPath) = getTxWitness(c, c.currentPath)
  BY DEF Context, getTxWitness
<1>2. what = Says("UnusualWitness") /\ c.currentWitnessData = getTxWitness(c, c.currentPath)
  BY DEF SeenOk, WitnessScreenOk
<1>3. ~IsAboutTx(what)
  BY <1>2, Heads
<1>4. /\ ScreensAboutTx(h.acknowledged) = ScreensAboutTx(g.acknowledged)
      /\ h.confirmedHash = g.confirmedHash
      /\ Len(h.acknowledged) = Len(g.acknowledged) + 1 /\ Len(g.acknowledged) \in Nat
      /\ h.acknowledged[Len(g.acknowledged) + 1] = what
  BY <1>3, AcknowledgedWitness
<1>5. Len(h.acknowledged) >= 1 /\ h.acknowledged[Len(h.acknowledged)] = what
  BY <1>4
<1>6. WitnessScreenOk(d, h, SaysPath("WitnessPath", c.currentPath))
  BY <1>1, <1>2, <1>5 DEF WitnessScreenOk
<1> QED
  BY <1>1, <1>4, <1>6 DEF SeenOk

\* then the prompt,
LEMMA SeenAsksForWitness ==
  ASSUME NEW c \in Context, NEW g \in Ghost, NEW what \in Saying,
         SeenOk(c, g, "witness", what), c.uiStep = "WITNESS_CONFIRM",
         NEW h, h = Acknowledged(c, g, what),
         NEW d, d = [c EXCEPT !.uiStep = "WITNESS_RESPOND"]
  PROVE  SeenOk(d, h, "witness", Says("SignUsingThisWitness"))
<1> DEFINE a == g.acknowledged
           b == h.acknowledged
           path == SaysPath("WitnessPath", c.currentPath)
<1>1. /\ d.hashed = c.hashed /\ d.stage = c.stage /\ d.uiStep = "WITNESS_RESPOND"
      /\ d.currentPath = c.currentPath /\ d.currentWitnessData = c.currentWitnessData
      /\ getTxWitness(d, c.currentPath) = getTxWitness(c, c.currentPath)
  BY DEF Context, getTxWitness
<1>2. /\ what = path /\ c.currentWitnessData = getTxWitness(c, c.currentPath)
      /\ Len(a) >= 1 /\ a[Len(a)] = Says("UnusualWitness")
  BY DEF SeenOk, WitnessScreenOk
<1>3. ~IsAboutTx(what)
  BY <1>2, Heads
<1>4. /\ ScreensAboutTx(b) = ScreensAboutTx(a) /\ h.confirmedHash = g.confirmedHash
      /\ Len(b) = Len(a) + 1 /\ Len(a) \in Nat /\ b[Len(a) + 1] = what
      /\ \A k \in 1 .. Len(a) : b[k] = a[k]
  BY <1>3, AcknowledgedWitness
<1> HIDE DEF a, b, path
<1>5. Len(b) >= 2 /\ b[Len(b)] = path /\ b[Len(b) - 1] = Says("UnusualWitness")
  <2>1. Len(b) - 1 = Len(a) /\ Len(a) \in 1 .. Len(a) /\ Len(b) >= 2
    BY <1>2, <1>4
  <2> QED
    BY <1>2, <1>4, <2>1
<1>6. WitnessScreenOk(d, h, Says("SignUsingThisWitness"))
  BY <1>1, <1>2, <1>5 DEF WitnessScreenOk, b, path
<1> QED
  BY <1>1, <1>4, <1>6 DEF SeenOk, a, b

\* then sends the signature: three screens have been acknowledged.
LEMMA SeenSendsWitness ==
  ASSUME NEW c \in Context, NEW g \in Ghost, NEW what \in Saying,
         SeenOk(c, g, "witness", what), c.uiStep = "WITNESS_RESPOND",
         NEW h, h = Acknowledged(c, g, what), NEW w
  PROVE  /\ SeenOk(c, h, "none", w)
         /\ LET b == h.acknowledged
            IN /\ Len(b) >= 3
               /\ b[Len(b) - 2] = Says("UnusualWitness")
               /\ b[Len(b) - 1] = SaysPath("WitnessPath", c.currentWitnessData.path)
               /\ b[Len(b)] = Says("SignUsingThisWitness")
<1> DEFINE a == g.acknowledged
           b == h.acknowledged
           path == SaysPath("WitnessPath", c.currentPath)
<1>2. /\ what = Says("SignUsingThisWitness") /\ c.currentWitnessData.path = c.currentPath
      /\ Len(a) >= 2 /\ a[Len(a) - 1] = Says("UnusualWitness") /\ a[Len(a)] = path
  BY DEF SeenOk, WitnessScreenOk, getTxWitness
<1>3. ~IsAboutTx(what)
  BY <1>2, Heads
<1>4. /\ ScreensAboutTx(b) = ScreensAboutTx(a) /\ h.confirmedHash = g.confirmedHash
      /\ Len(b) = Len(a) + 1 /\ Len(a) \in Nat /\ b[Len(a) + 1] = what
      /\ \A k \in 1 .. Len(a) : b[k] = a[k]
  BY <1>3, AcknowledgedWitness
<1>5. SeenOk(c, h, "none", w)
  BY <1>4 DEF SeenOk
<1> HIDE DEF a, b, path
<1>6. Len(b) >= 3 /\ b[Len(b) - 2] = Says("UnusualWitness") /\ b[Len(b) - 1] = path
      /\ b[Len(b)] = what
  <2>1. /\ Len(b) - 1 = Len(a) /\ Len(a) \in 1 .. Len(a) /\ Len(b) >= 3
        /\ Len(b) - 2 = Len(a) - 1 /\ Len(a) - 1 \in 1 .. Len(a)
    BY <1>2, <1>4
  <2> QED
    BY <1>2, <1>4, <2>1
<1> QED
  BY <1>2, <1>5, <1>6 DEF b, path

-----------------------------------------------------------------------------
(***************************************************************************)
(* The rest of HistoryInv, of a context c, a history g and the UTxOs that  *)
(* are certified.                                                          *)
(***************************************************************************)
Certified(h, certified) ==
  \A k \in DOMAIN h : h[k].item = "input" => h[k].utxo \in certified

WholeHash(c) == c.txHash # ZeroHash => IsTransaction(c.txHash, c.numInputs, c.numOutputs)

SawTransaction(g) ==
  g.confirmedHash # ZeroHash =>
    LET s == Seen(g.confirmedHash)
        n == Len(s)
        t == ScreensAboutTx(g.acknowledged)
    IN /\ Len(t) = 2 * n + 3
       /\ t[1] = Says("StartNewTransaction")
       /\ \A k \in 1 .. n : /\ t[2 * k] = SaysAmount("SendAda", s[k].amount)
                            /\ t[2 * k + 1] = SaysAddress("ToAddress", s[k].address)
       /\ t[2 * n + 2].head = "TransactionFee"
       /\ t[2 * n + 3] = FinalPrompt

ExactFee(g) ==
  g.confirmedHash # ZeroHash /\ OutputsDoNotWrap(g.confirmedHash) =>
    LET t == ScreensAboutTx(g.acknowledged)
    IN /\ g.exactIn > g.exactOut
       /\ t[Len(t) - 1].amount = g.exactIn - g.exactOut

Budget(g) == g.signatures <= g.announced.inputs

RestOk(c, g, certified) ==
  /\ Certified(c.hashed, certified)
  /\ WholeHash(c)
  /\ SawTransaction(g)
  /\ ExactFee(g)
  /\ Budget(g)

\* They are what HistoryInv says.
LEMMA RestOfHistory ==
  ASSUME HistoryInv
  PROVE  /\ Live => Certified(ctx.hashed, attested)
         /\ WholeHash(ctx) /\ SawTransaction(ghost) /\ ExactFee(ghost) /\ Budget(ghost)
<1>1. Live => Certified(ctx.hashed, attested)
  BY DEF HistoryInv, InputsAreCertified, Live, Certified
<1>2. WholeHash(ctx) /\ Budget(ghost)
  BY DEF HistoryInv, HashIsWholeTransaction, WholeHash, Budget
<1>3. SawTransaction(ghost)
  BY DEF HistoryInv, UserSawTransaction, SawTransaction, TxScreens
<1>4. ExactFee(ghost)
  BY DEF HistoryInv, FeeIsExact, ExactFee, TxScreens, FeeShown
<1> QED
  BY <1>1, <1>2, <1>3, <1>4

\* What they say of a state is what HistoryInv needs of it.
LEMMA HistoryOfRest ==
  ASSUME NEW c, NEW g, ctx' = c, ghost' = g, RestOk(c, g, attested')
  PROVE  /\ InputsAreCertified' /\ HashIsWholeTransaction'
         /\ UserSawTransaction' /\ FeeIsExact'
         /\ (ghost.signatures <= ghost.announced.inputs)'
<1>1. InputsAreCertified'
  BY DEF RestOk, InputsAreCertified, Certified
<1>2. HashIsWholeTransaction' /\ (ghost.signatures <= ghost.announced.inputs)'
  BY DEF RestOk, HashIsWholeTransaction, WholeHash, Budget
<1>3. UserSawTransaction'
  BY DEF RestOk, UserSawTransaction, SawTransaction, TxScreens
<1>4. FeeIsExact'
  BY DEF RestOk, FeeIsExact, ExactFee, TxScreens, FeeShown
<1> QED
  BY <1>1, <1>2, <1>3, <1>4

\* A step to a screen.
LEMMA ShowsHistory ==
  ASSUME NEW c, NEW g, NEW cb, NEW what, Shows(what, cb, c, g),
         CallOk(c, g, cb, what), RestOk(c, g, attested)
  PROVE  HistoryInv'
<1>1. /\ ctx' = c /\ ghost' = g /\ attested' = attested
      /\ WaitsForUser' /\ display'.what = what /\ display'.callback = cb
  BY DEF Shows, Leaves
<1>2. CallOk(ctx', ghost', NextCallback', display'.what)
  BY <1>1 DEF NextCallback
<1>3. UnusualWitnessIsConfirmed' /\ ~Sending'
  BY <1>1 DEF WaitsForUser, UnusualWitnessIsConfirmed, SendsSignature
<1>4. /\ InputsAreCertified' /\ HashIsWholeTransaction'
      /\ UserSawTransaction' /\ FeeIsExact'
      /\ (ghost.signatures <= ghost.announced.inputs)'
  BY <1>1, HistoryOfRest
<1> QED
  BY <1>2, <1>3, <1>4 DEF HistoryInv

\* The three screens before a witness that is not ordinary.
WitnessSeen(data, g) ==
  LET a == g.acknowledged
      n == Len(a)
  IN /\ n >= 3
     /\ a[n - 2] = Says("UnusualWitness")
     /\ a[n - 1] = SaysPath("WitnessPath", data.path)
     /\ a[n] = Says("SignUsingThisWitness")

\* A step to an answer.
LEMMA AnswersHistory ==
  ASSUME NEW c, NEW g, NEW data, NEW then, Answers(data, then, c, g),
         \A w : CallOk(c, g, "none", w), RestOk(c, g, attested),
         then = "witness" <=> data.kind = "signature",
         data.kind = "signature" /\ ~IsOrdinaryAddress(data.path) => WitnessSeen(data, g)
  PROVE  HistoryInv'
<1>1. /\ ctx' = c /\ ghost' = g /\ attested' = attested
      /\ ~WaitsForUser' /\ reply'.data = data /\ reply'.then = then
  BY DEF Answers, Leaves
<1>2. CallOk(ctx', ghost', NextCallback', display'.what)
  BY <1>1 DEF NextCallback
<1>3. UnusualWitnessIsConfirmed'
  BY <1>1 DEF UnusualWitnessIsConfirmed, SendsSignature, WitnessSeen
<1>4. /\ InputsAreCertified' /\ HashIsWholeTransaction'
      /\ UserSawTransaction' /\ FeeIsExact'
      /\ (ghost.signatures <= ghost.announced.inputs)'
  BY <1>1, HistoryOfRest
<1>5. AnswerOk'
  BY <1>1 DEF AnswerOk
<1> QED
  BY <1>2, <1>3, <1>4, <1>5 DEF HistoryInv

-----------------------------------------------------------------------------
(***************************************************************************)
(* What is known where a step starts.                                      *)
(***************************************************************************)

\* A request that needs an open call finds it as HistoryInv has it.
LEMMA BeginsOld ==
  ASSUME Inv, HistoryInv, NEW c, NEW g, Begins(c, g), c.stage # "NONE" \/ WitnessesLeft(c)
  PROVE  /\ c = ctx /\ g = ghost /\ c \in Context /\ g \in Ghost
         /\ ContextOk(c, g, "none")
         /\ CallOk(c, g, "none", display.what)
         /\ RestOk(c, g, attested)
<1>1. ZeroContext.stage = "NONE" /\ ~WitnessesLeft(ZeroContext)
  BY DEF ZeroContext, WitnessesLeft
<1>2. Live /\ ~WaitsForUser /\ c = ctx /\ g = ghost
  BY <1>1 DEF Begins
<1>3. NextCallback = "none"
  BY <1>2 DEF NextCallback
<1>4. ctx \in Context /\ ghost \in Ghost
  BY DEF Inv, CallTypeOK
<1>5. ContextOk(c, g, "none") /\ CallOk(c, g, "none", display.what)
  BY <1>2, <1>3 DEF Inv, ContextInv, HistoryInv
<1>6. RestOk(c, g, attested)
  BY <1>2, RestOfHistory DEF RestOk
<1> QED
  BY <1>2, <1>4, <1>5, <1>6

\* So does a button.
LEMMA PressesOld ==
  ASSUME Inv, HistoryInv, NEW c, NEW g, NEW cb, Presses(c, g, cb)
  PROVE  /\ c = ctx /\ c \in Context /\ ghost \in Ghost /\ g \in Ghost
         /\ display.what \in Saying
         /\ g = Acknowledged(c, ghost, display.what)
         /\ ContextOk(c, ghost, cb)
         /\ ScreenOk(c, ghost, display.what, cb)
         /\ CallOk(c, ghost, cb, display.what)
         /\ RestOk(c, ghost, attested)
<1>1. Live /\ WaitsForUser /\ display.callback = cb /\ c = ctx
      /\ g = Acknowledged(c, ghost, display.what)
  BY DEF Presses, Acknowledged
<1>2. NextCallback = cb
  BY <1>1 DEF NextCallback
<1>3. ctx \in Context /\ ghost \in Ghost /\ display.what \in Saying
  BY DEF Inv, CallTypeOK
<1>4. ContextOk(c, ghost, cb) /\ CallOk(c, ghost, cb, display.what)
  BY <1>1, <1>2 DEF Inv, ContextInv, HistoryInv
<1>5. ScreenOk(c, ghost, display.what, cb)
  BY <1>1 DEF Inv, ScreenInv
<1>6. RestOk(c, ghost, attested)
  BY <1>1, RestOfHistory DEF RestOk
<1>7. g \in Ghost
  BY <1>1, <1>3, AcknowledgedFields
<1> QED
  BY <1>1, <1>3, <1>4, <1>5, <1>6, <1>7

\* An item that is no input is certified.
LEMMA CertifiedAppend ==
  ASSUME NEW h \in Seq(Item), NEW it \in Item, NEW certified, Certified(h, certified),
         it.item = "input" => it.utxo \in certified
  PROVE  Certified(Append(h, it), certified)
<1> DEFINE t == Append(h, it)
<1>1. /\ Len(t) = Len(h) + 1 /\ t[Len(h) + 1] = it /\ Len(h) \in Nat
      /\ DOMAIN t = 1 .. Len(t) /\ DOMAIN h = 1 .. Len(h)
      /\ \A k \in 1 .. Len(h) : t[k] = h[k]
  BY AppendProperties, LenProperties
<1> HIDE DEF t
<1>2. \A k \in DOMAIN t : k \in DOMAIN h \/ k = Len(h) + 1
  BY <1>1
<1>3. Certified(t, certified)
  BY <1>1, <1>2 DEF Certified
<1> QED
  BY <1>3 DEF t

\* Tokens and outputs are no inputs.
LEMMA NotInputs ==
  /\ \A t \in {"tx", "inputs", "outputs", "metadata"} : Token(t).item # "input"
  /\ \A a, n : OutputItem(a, n).item # "input"
  BY DEF Token, OutputItem

\* Before a hash is confirmed nothing is claimed of what the user has seen.
LEMMA NotConfirmed ==
  ASSUME NEW g, g.confirmedHash = ZeroHash
  PROVE  SawTransaction(g) /\ ExactFee(g)
  BY DEF SawTransaction, ExactFee

\* What has been claimed holds on while the screens and the sums are the same.
LEMMA SameClaims ==
  ASSUME NEW g, NEW h, h.confirmedHash = g.confirmedHash,
         ScreensAboutTx(h.acknowledged) = ScreensAboutTx(g.acknowledged),
         h.exactIn = g.exactIn, h.exactOut = g.exactOut
  PROVE  /\ SawTransaction(g) => SawTransaction(h)
         /\ ExactFee(g) => ExactFee(h)
  BY DEF SawTransaction, ExactFee

-----------------------------------------------------------------------------
(***************************************************************************)
(* The steps.                                                              *)
(***************************************************************************)

\* P1 = 1.
LEMMA StartsCallHistory ==
  ASSUME NEW counts \in [inputs: Nat, outputs: Nat], StartsCall(counts)
  PROVE  HistoryInv'
<1> DEFINE c == CountedContext(counts)
           g == [ZeroGhost EXCEPT !.announced = counts]
           what == Says("StartNewTransaction")
<1>1. Shows(what, "init", c, g)
  BY DEF StartsCall
<1>2. HashedOk(c, "init") /\ TxHashOk(c)
  BY HashedInit
<1>3. SeenOk(c, g, "init", what)
  BY SeenInit
<1>4. /\ c.numInputs = Truncated(counts.inputs) /\ c.currentWitness = 0
      /\ c.sumAmountInputs = 0 /\ c.sumAmountOutputs = 0
      /\ c.hashed = <<Token("tx")>> /\ c.txHash = ZeroHash
  BY DEF CountedContext, ZeroContext
<1>5. /\ g.announced = counts /\ g.signatures = 0 /\ g.exactIn = 0 /\ g.exactOut = 0
      /\ g.confirmedHash = ZeroHash
  BY DEF ZeroGhost
<1> HIDE DEF c, g, what
<1>6. BudgetOk(c, g) /\ SumsOk(c, g)
  BY <1>4, <1>5 DEF BudgetOk, SumsOk
<1>7. Certified(c.hashed, attested)
  <2>1. Token("tx").item # "input"
    BY NotInputs
  <2> QED
    BY <1>4, <2>1 DEF Certified
<1>8. WholeHash(c) /\ Budget(g) /\ SawTransaction(g) /\ ExactFee(g)
  BY <1>4, <1>5, NotConfirmed DEF WholeHash, Budget
<1>9. CallOk(c, g, "init", what)
  BY <1>2, <1>3, <1>6 DEF CallOk
<1>10. RestOk(c, g, attested)
  BY <1>7, <1>8 DEF RestOk
<1> QED
  BY <1>1, <1>9, <1>10, ShowsHistory

\* The prompt of P1 = 1.
LEMMA OpensInputsHistory ==
  ASSUME Inv, HistoryInv, NEW c, NEW g, OpensInputs(c, g)
  PROVE  HistoryInv'
<1> DEFINE d == [txHashBuilder_enterInputs(c) EXCEPT !.stage = "INPUTS"]
           what == display.what
<1>1. Presses(c, g, "init") /\ Answers(NoData, "busy", d, g)
  BY DEF OpensInputs
<1>2. /\ c \in Context /\ ghost \in Ghost /\ what \in Saying
      /\ g = Acknowledged(c, ghost, what)
      /\ ContextOk(c, ghost, "init")
      /\ ScreenOk(c, ghost, what, "init")
      /\ CallOk(c, ghost, "init", what)
      /\ RestOk(c, ghost, attested)
  BY <1>1, PressesOld
<1>3. c.stage = "NONE"
  BY <1>2 DEF ScreenOk
<1>4. /\ HashedOk(c, "init") /\ SeenOk(c, ghost, "init", what)
      /\ BudgetOk(c, ghost) /\ SumsOk(c, ghost)
  BY <1>2 DEF CallOk
<1>5. /\ d.stage = "INPUTS" /\ d.hashed = Append(c.hashed, Token("inputs"))
      /\ d.txHash = c.txHash /\ d.numInputs = c.numInputs /\ d.numOutputs = c.numOutputs
      /\ d.sumAmountInputs = c.sumAmountInputs /\ d.sumAmountOutputs = c.sumAmountOutputs
      /\ d.currentWitness = c.currentWitness
  BY <1>2 DEF txHashBuilder_enterInputs, Context
<1>6. /\ g.announced = ghost.announced /\ g.exactIn = ghost.exactIn
      /\ g.exactOut = ghost.exactOut /\ g.signatures = ghost.signatures
  BY <1>2, AcknowledgedFields
<1>7. HashedOk(d, "none") /\ TxHashOk(d)
  BY <1>2, <1>3, <1>4, HashedOpensInputs
<1>8. \A w : SeenOk(d, g, "none", w)
  BY <1>2, <1>3, <1>4, SeenOpensInputs
<1>9. c.hashed \in Seq(Item) /\ Token("inputs") \in Item /\ Token("inputs").item # "input"
  BY <1>2, TokenType, NotInputs DEF Context
<1> HIDE DEF d, what
<1>10. SumsOk(d, g) /\ BudgetOk(d, g)
  <2>1. SumsOk(d, g)
    BY <1>2, <1>4, <1>5, <1>6, <1>9, SumsStay
  <2> QED
    BY <1>4, <1>5, <1>6, <2>1 DEF BudgetOk
<1>11. Certified(d.hashed, attested)
  BY <1>2, <1>5, <1>9, CertifiedAppend DEF RestOk
<1>12. WholeHash(d) /\ Budget(g)
  BY <1>2, <1>5, <1>6 DEF RestOk, WholeHash, Budget
<1>13. SawTransaction(g) /\ ExactFee(g)
  <2>1. g.confirmedHash = ZeroHash
    BY <1>5, <1>8 DEF SeenOk
  <2> QED
    BY <2>1, NotConfirmed
<1>14. \A w : CallOk(d, g, "none", w)
  BY <1>7, <1>8, <1>10 DEF CallOk
<1>15. RestOk(d, g, attested)
  BY <1>11, <1>12, <1>13 DEF RestOk
<1>16. NoData.kind # "signature"
  BY DEF NoData
<1> QED
  BY <1>1, <1>14, <1>15, <1>16, AnswersHistory DEF d

\* P1 = 2.
LEMMA AddsInputHistory ==
  ASSUME Inv, HistoryInv, NEW c, NEW g, NEW u \in Utxos, AddsInput(c, g, u)
  PROVE  HistoryInv'
<1> DEFINE w == WithInput(c, u)
           d == CountedInput(w)
           h == [g EXCEPT !.exactIn = @ + AmountOf[u]]
<1>1. /\ Begins(c, g) /\ c.stage = "INPUTS" /\ u \in attested
      /\ Answers(NoData, "busy", d, h)
  BY DEF AddsInput, IsCertified
<1>2. /\ c \in Context /\ g \in Ghost
      /\ ContextOk(c, g, "none")
      /\ CallOk(c, g, "none", display.what)
      /\ RestOk(c, g, attested)
  BY <1>1, BeginsOld
<1>3. /\ HashedOk(c, "none") /\ SeenOk(c, g, "none", display.what)
      /\ BudgetOk(c, g) /\ SumsOk(c, g)
  BY <1>2 DEF CallOk
<1>4. c.builder = "IN_INPUTS" /\ c.sumAmountInputs <= MaxSupply
  BY <1>1, <1>2 DEF ContextOk, BuilderOk, CountersOk
<1>5. /\ w.stage = "INPUTS" /\ w.hashed = Append(c.hashed, InputItem(u))
      /\ w.txHash = c.txHash /\ w.numInputs = c.numInputs /\ w.numOutputs = c.numOutputs
      /\ w.currentWitness = c.currentWitness
  BY <1>1, <1>2 DEF WithInput, Context
<1>6. /\ d.hashed = w.hashed \/ d.hashed = Append(w.hashed, Token("outputs"))
      /\ d.txHash = c.txHash /\ d.numInputs = c.numInputs /\ d.numOutputs = c.numOutputs
      /\ d.sumAmountInputs = w.sumAmountInputs /\ d.sumAmountOutputs = w.sumAmountOutputs
      /\ d.currentWitness = c.currentWitness /\ d.stage \in {"INPUTS", "OUTPUTS"}
  BY <1>2, <1>5 DEF CountedInput, txHashBuilder_enterOutputs, WithInput, Context
<1>7. /\ h.announced = g.announced /\ h.exactOut = g.exactOut
      /\ h.signatures = g.signatures /\ h.confirmedHash = g.confirmedHash
      /\ h.acknowledged = g.acknowledged
  BY <1>2 DEF Ghost
<1>8. HashedOk(d, "none") /\ TxHashOk(d)
  BY <1>1, <1>2, <1>3, <1>4, HashedAddsInput
<1>9. Seen(d.hashed) = Seen(c.hashed)
  BY <1>2, SeenAddsInput
<1>10. SumsOk(w, h)
  BY <1>2, <1>3, <1>4, SumsAddInput
<1>11. /\ c.hashed \in Seq(Item) /\ InputItem(u) \in Item
       /\ w.hashed \in Seq(Item)
       /\ Token("outputs") \in Item /\ Token("outputs").item # "input"
       /\ InputItem(u).utxo = u
  BY <1>2, <1>5, TokenType, InputItemType, NotInputs, AppendToHash DEF Context, InputItem, Token
<1> HIDE DEF w, d, h
<1>12. \A x : SeenOk(d, h, "none", x)
  BY <1>1, <1>3, <1>7, <1>9, SeenStays
<1>13. SumsOk(d, h)
  <2>1. OutputsDoNotWrap(Append(w.hashed, Token("outputs"))) => OutputsDoNotWrap(w.hashed)
    BY <1>11, NoWrapBefore
  <2>2. OutputsDoNotWrap(d.hashed) => OutputsDoNotWrap(w.hashed)
    BY <1>6, <2>1, Zenon
  <2> QED
    BY <1>6, <1>10, <2>2 DEF SumsOk
<1>14. BudgetOk(d, h)
  BY <1>3, <1>6, <1>7 DEF BudgetOk
<1>15. Certified(d.hashed, attested)
  <2>1. Certified(w.hashed, attested)
    BY <1>1, <1>2, <1>5, <1>11, CertifiedAppend DEF RestOk
  <2> QED
    BY <1>6, <1>11, <2>1, CertifiedAppend
<1>16. WholeHash(d) /\ Budget(h)
  BY <1>2, <1>6, <1>7 DEF RestOk, WholeHash, Budget
<1>17. SawTransaction(h) /\ ExactFee(h)
  <2>1. h.confirmedHash = ZeroHash
    BY <1>1, <1>3, <1>7 DEF SeenOk
  <2> QED
    BY <2>1, NotConfirmed
<1>18. \A x : CallOk(d, h, "none", x)
  BY <1>8, <1>12, <1>13, <1>14 DEF CallOk
<1>19. RestOk(d, h, attested)
  BY <1>15, <1>16, <1>17 DEF RestOk
<1>20. NoData.kind # "signature"
  BY DEF NoData
<1> QED
  BY <1>1, <1>18, <1>19, <1>20, AnswersHistory DEF d, h, w

\* P1 = 3.
LEMMA AddsOutputHistory ==
  ASSUME Inv, HistoryInv, NEW c, NEW g,
         NEW p \in Path, NEW a \in Address, NEW n \in Amounts, AddsOutput(c, g, p, a, n)
  PROVE  HistoryInv'
<1> DEFINE h == [g EXCEPT !.exactOut = @ + n]
           it == OutputItem(a, n)
<1>1. Begins(c, g) /\ c.stage = "OUTPUTS"
  BY DEF AddsOutput
<1>2. /\ c \in Context /\ g \in Ghost
      /\ ContextOk(c, g, "none")
      /\ CallOk(c, g, "none", display.what)
      /\ RestOk(c, g, attested)
  BY <1>1, BeginsOld
<1>3. /\ HashedOk(c, "none") /\ SeenOk(c, g, "none", display.what)
      /\ BudgetOk(c, g) /\ SumsOk(c, g)
  BY <1>2 DEF CallOk
<1>4. c.builder = "IN_OUTPUTS" /\ c.sumAmountOutputs <= MaxSupply
  BY <1>1, <1>2 DEF ContextOk, BuilderOk, CountersOk
<1>5. /\ h.announced = g.announced /\ h.exactIn = g.exactIn
      /\ h.signatures = g.signatures /\ h.confirmedHash = g.confirmedHash
      /\ h.acknowledged = g.acknowledged
  BY <1>2 DEF Ghost
<1>6. it \in Item /\ it.item # "input" /\ c.hashed \in Seq(Item)
  BY <1>2, OutputItemType, NotInputs DEF Context
<1>7. g.confirmedHash = ZeroHash
  BY <1>1, <1>3 DEF SeenOk
<1>8. Certified(Append(c.hashed, it), attested)
  BY <1>2, <1>6, CertifiedAppend DEF RestOk
<1>9. ASSUME NEW step \in {"OUTPUT_DISPLAY_ADDRESS", "OUTPUT_RESPOND"},
             NEW d, d = WithOutput(c, p, a, n, step)
      PROVE  /\ d.stage = "OUTPUTS" /\ d.builder = "IN_OUTPUTS" /\ d \in Context
             /\ d.hashed = Append(c.hashed, it)
             /\ d.txHash = c.txHash /\ d.numInputs = c.numInputs
             /\ d.numOutputs = c.numOutputs /\ d.currentWitness = c.currentWitness
  <2>1. SumWrapped(c.sumAmountOutputs, n) \in Amounts
    BY <1>2, SumWrappedType DEF Context
  <2>2. Append(c.hashed, it) \in Seq(Item)
    BY <1>6, AppendToHash
  <2>3. step \in UiSteps
    BY DEF UiSteps
  <2>4. d = [c EXCEPT !.sumAmountOutputs = SumWrapped(@, n), !.currentAmount = n,
                      !.currentPath = p, !.hashed = Append(@, it),
                      !.currentAddress = a, !.uiStep = step]
    BY <1>9 DEF WithOutput
  <2> HIDE DEF it
  <2>5. d \in Context
    BY <1>2, <2>1, <2>2, <2>3, <2>4 DEF Context
  <2> QED
    BY <1>1, <1>2, <1>4, <2>4, <2>5 DEF Context
<1>10. CASE /\ MustBeSeen(it)
            /\ Shows(SaysAmount("SendAda", n), "output",
                     WithOutput(c, p, a, n, "OUTPUT_DISPLAY_ADDRESS"), h)
  <2> DEFINE d == WithOutput(c, p, a, n, "OUTPUT_DISPLAY_ADDRESS")
             what == SaysAmount("SendAda", n)
  <2>1. /\ d.hashed = Append(c.hashed, it)
        /\ d.txHash = c.txHash /\ d.numInputs = c.numInputs
        /\ d.numOutputs = c.numOutputs /\ d.currentWitness = c.currentWitness
    BY <1>9
  <2>2. HashedOk(d, "output") /\ TxHashOk(d)
    BY <1>1, <1>2, <1>3, <1>4, HashedAddsOutput
  <2>3. SeenOk(d, h, "output", what)
    BY <1>1, <1>2, <1>3, <1>5, <1>10, SeenAddsOutput
  <2>4. SumsOk(d, h)
    BY <1>2, <1>3, <1>4, SumsAddOutput
  <2> HIDE DEF d, h, what, it
  <2>5. BudgetOk(d, h)
    BY <1>3, <1>5, <2>1 DEF BudgetOk
  <2>6. CallOk(d, h, "output", what)
    BY <2>2, <2>3, <2>4, <2>5 DEF CallOk
  <2>7. WholeHash(d) /\ Budget(h) /\ SawTransaction(h) /\ ExactFee(h)
    BY <1>2, <1>5, <1>7, <2>1, NotConfirmed DEF RestOk, WholeHash, Budget
  <2>8. RestOk(d, h, attested)
    BY <1>8, <2>1, <2>7 DEF RestOk
  <2> QED
    BY <1>10, <2>6, <2>8, ShowsHistory DEF d, what
<1>11. CASE /\ ~MustBeSeen(it)
            /\ Answers(NoData, "busy",
                       CountedOutput(WithOutput(c, p, a, n, "OUTPUT_RESPOND")), h)
  <2> DEFINE w == WithOutput(c, p, a, n, "OUTPUT_RESPOND")
             d == CountedOutput(w)
  <2>1. /\ w.stage = "OUTPUTS" /\ w.builder = "IN_OUTPUTS" /\ w \in Context
        /\ w.hashed = Append(c.hashed, it)
        /\ w.txHash = c.txHash /\ w.numInputs = c.numInputs
        /\ w.numOutputs = c.numOutputs /\ w.currentWitness = c.currentWitness
    BY <1>9
  <2>2. HashedOk(w, "output")
    BY <1>1, <1>2, <1>3, <1>4, HashedAddsOutput
  <2>3. Seen(w.hashed) = Seen(c.hashed)
    BY <1>2, <1>11, SeenAddsOwnOutput
  <2>4. SumsOk(w, h)
    BY <1>2, <1>3, <1>4, SumsAddOutput
  <2> HIDE DEF w, h, it
  <2>5. /\ d.hashed = w.hashed \/ d.hashed = Append(w.hashed, Token("metadata"))
        /\ d.txHash = w.txHash /\ d.numInputs = w.numInputs /\ d.numOutputs = w.numOutputs
        /\ d.sumAmountInputs = w.sumAmountInputs /\ d.sumAmountOutputs = w.sumAmountOutputs
        /\ d.currentWitness = w.currentWitness /\ d.stage \in {"OUTPUTS", "CONFIRM"}
    BY <2>1 DEF CountedOutput, txHashBuilder_enterMetadata, Context
  <2>6. HashedOk(d, "none") /\ TxHashOk(d)
    BY <2>1, <2>2, HashedCountsOutput
  <2>7. Seen(d.hashed) = Seen(c.hashed)
    BY <2>1, <2>3, SeenCountsOutput
  <2>8. /\ w.hashed \in Seq(Item) /\ Token("metadata") \in Item
        /\ Token("metadata").item # "input"
    BY <2>1, TokenType, NotInputs DEF Context
  <2> HIDE DEF d
  <2>9. \A x : SeenOk(d, h, "none", x)
    BY <1>1, <1>3, <1>5, <2>7, SeenStays
  <2>10. SumsOk(d, h)
    <3>1. OutputsDoNotWrap(Append(w.hashed, Token("metadata"))) => OutputsDoNotWrap(w.hashed)
      BY <2>8, NoWrapBefore
    <3>2. OutputsDoNotWrap(d.hashed) => OutputsDoNotWrap(w.hashed)
      BY <2>5, <3>1, Zenon
    <3> QED
      BY <2>4, <2>5, <3>2 DEF SumsOk
  <2>11. BudgetOk(d, h)
    BY <1>3, <1>5, <2>1, <2>5 DEF BudgetOk
  <2>12. Certified(d.hashed, attested)
    BY <1>8, <2>1, <2>5, <2>8, CertifiedAppend
  <2>13. \A x : CallOk(d, h, "none", x)
    BY <2>6, <2>9, <2>10, <2>11 DEF CallOk
  <2>14. WholeHash(d) /\ Budget(h) /\ SawTransaction(h) /\ ExactFee(h)
    BY <1>2, <1>5, <1>7, <2>1, <2>5, NotConfirmed DEF RestOk, WholeHash, Budget
  <2>15. RestOk(d, h, attested)
    BY <2>12, <2>14 DEF RestOk
  <2>16. NoData.kind # "signature"
    BY DEF NoData
  <2> QED
    BY <1>11, <2>13, <2>15, <2>16, AnswersHistory DEF d, w
<1> QED
  BY <1>10, <1>11 DEF AddsOutput

\* The amount of an output has been acknowledged.
LEMMA ShowsAddressHistory ==
  ASSUME Inv, HistoryInv, NEW c, NEW g, ShowsAddress(c, g)
  PROVE  HistoryInv'
<1> DEFINE d == [c EXCEPT !.uiStep = "OUTPUT_RESPOND"]
           what == display.what
           next == SaysAddress("ToAddress", c.currentAddress)
<1>1. /\ Presses(c, g, "output") /\ c.uiStep = "OUTPUT_DISPLAY_ADDRESS"
      /\ Shows(next, "output", d, g)
  BY DEF ShowsAddress
<1>2. /\ c \in Context /\ ghost \in Ghost /\ what \in Saying
      /\ g = Acknowledged(c, ghost, what)
      /\ ScreenOk(c, ghost, what, "output")
      /\ CallOk(c, ghost, "output", what)
      /\ RestOk(c, ghost, attested)
  BY <1>1, PressesOld
<1>3. c.stage = "OUTPUTS"
  BY <1>2 DEF ScreenOk
<1>4. /\ HashedOk(c, "output") /\ TxHashOk(c) /\ SeenOk(c, ghost, "output", what)
      /\ BudgetOk(c, ghost) /\ SumsOk(c, ghost)
  BY <1>2 DEF CallOk
<1>5. SameHashed(c, d) /\ d.stage = "OUTPUTS"
      /\ d.sumAmountInputs = c.sumAmountInputs /\ d.sumAmountOutputs = c.sumAmountOutputs
      /\ d.currentWitness = c.currentWitness
  BY <1>2, <1>3 DEF SameHashed, Context
<1>6. /\ g.announced = ghost.announced /\ g.exactIn = ghost.exactIn
      /\ g.exactOut = ghost.exactOut /\ g.signatures = ghost.signatures
  BY <1>2, AcknowledgedFields
<1>7. SeenOk(d, g, "output", next)
  BY <1>1, <1>2, <1>3, <1>4, SeenShowsAddress
<1> HIDE DEF d, what, next
<1>8. HashedOk(d, "output") /\ TxHashOk(d)
  BY <1>4, <1>5, HashedStays
<1>9. SumsOk(d, g) /\ BudgetOk(d, g)
  BY <1>4, <1>5, <1>6 DEF SumsOk, BudgetOk, SameHashed
<1>10. g.confirmedHash = ZeroHash
  BY <1>5, <1>7 DEF SeenOk
<1>11. CallOk(d, g, "output", next)
  BY <1>7, <1>8, <1>9 DEF CallOk
<1>12. Certified(d.hashed, attested) /\ WholeHash(d) /\ Budget(g)
  BY <1>2, <1>5, <1>6 DEF RestOk, WholeHash, Budget, SameHashed
<1>13. RestOk(d, g, attested)
  BY <1>10, <1>12, NotConfirmed DEF RestOk
<1> QED
  BY <1>1, <1>11, <1>13, ShowsHistory

\* Its address has been acknowledged.
LEMMA FinishesOutputHistory ==
  ASSUME Inv, HistoryInv, NEW c, NEW g, FinishesOutput(c, g)
  PROVE  HistoryInv'
<1> DEFINE d == CountedOutput(c)
           what == display.what
<1>1. /\ Presses(c, g, "output") /\ c.uiStep = "OUTPUT_RESPOND"
      /\ Answers(NoData, "busy", d, g)
  BY DEF FinishesOutput
<1>2. /\ c \in Context /\ ghost \in Ghost /\ what \in Saying
      /\ g = Acknowledged(c, ghost, what)
      /\ ContextOk(c, ghost, "output")
      /\ ScreenOk(c, ghost, what, "output")
      /\ CallOk(c, ghost, "output", what)
      /\ RestOk(c, ghost, attested)
  BY <1>1, PressesOld
<1>3. c.stage = "OUTPUTS" /\ c.builder = "IN_OUTPUTS"
  BY <1>2 DEF ScreenOk, ContextOk, BuilderOk
<1>4. /\ HashedOk(c, "output") /\ SeenOk(c, ghost, "output", what)
      /\ BudgetOk(c, ghost) /\ SumsOk(c, ghost)
  BY <1>2 DEF CallOk
<1>5. /\ d.hashed = c.hashed \/ d.hashed = Append(c.hashed, Token("metadata"))
      /\ d.txHash = c.txHash /\ d.numInputs = c.numInputs /\ d.numOutputs = c.numOutputs
      /\ d.sumAmountInputs = c.sumAmountInputs /\ d.sumAmountOutputs = c.sumAmountOutputs
      /\ d.currentWitness = c.currentWitness /\ d.stage \in {"OUTPUTS", "CONFIRM"}
  BY <1>2, <1>3 DEF CountedOutput, txHashBuilder_enterMetadata, Context
<1>6. /\ g.announced = ghost.announced /\ g.exactIn = ghost.exactIn
      /\ g.exactOut = ghost.exactOut /\ g.signatures = ghost.signatures
  BY <1>2, AcknowledgedFields
<1>7. HashedOk(d, "none") /\ TxHashOk(d)
  BY <1>2, <1>3, <1>4, HashedCountsOutput
<1>8. \A w : SeenOk(d, g, "none", w)
  BY <1>1, <1>2, <1>3, <1>4, SeenFinishesOutput
<1>9. /\ c.hashed \in Seq(Item) /\ Token("metadata") \in Item
      /\ Token("metadata").item # "input"
  BY <1>2, TokenType, NotInputs DEF Context
<1> HIDE DEF d, what
<1>10. SumsOk(d, g) /\ BudgetOk(d, g)
  <2>1. SumsOk(d, g)
    BY <1>2, <1>4, <1>5, <1>6, <1>9, SumsStay
  <2> QED
    BY <1>4, <1>5, <1>6, <2>1 DEF BudgetOk
<1>11. Certified(d.hashed, attested)
  BY <1>2, <1>5, <1>9, CertifiedAppend DEF RestOk
<1>12. WholeHash(d) /\ Budget(g)
  BY <1>2, <1>5, <1>6 DEF RestOk, WholeHash, Budget
<1>13. SawTransaction(g) /\ ExactFee(g)
  <2>1. g.confirmedHash = ZeroHash
    BY <1>5, <1>8 DEF SeenOk
  <2> QED
    BY <2>1, NotConfirmed
<1>14. \A w : CallOk(d, g, "none", w)
  BY <1>7, <1>8, <1>10 DEF CallOk
<1>15. RestOk(d, g, attested)
  BY <1>11, <1>12, <1>13 DEF RestOk
<1>16. NoData.kind # "signature"
  BY DEF NoData
<1> QED
  BY <1>1, <1>14, <1>15, <1>16, AnswersHistory

\* P1 = 4.
LEMMA ShowsFeeHistory ==
  ASSUME Inv, HistoryInv, NEW c, NEW g, ShowsFee(c, g)
  PROVE  HistoryInv'
<1> DEFINE d == WithFee(c)
           next == SaysAmount("TransactionFee", c.sumAmountInputs - c.sumAmountOutputs)
<1>1. /\ Begins(c, g) /\ c.stage = "CONFIRM" /\ c.sumAmountInputs > c.sumAmountOutputs
      /\ Shows(next, "confirm", d, g)
  BY DEF ShowsFee
<1>2. /\ c \in Context /\ g \in Ghost
      /\ CallOk(c, g, "none", display.what)
      /\ RestOk(c, g, attested)
  BY <1>1, BeginsOld
<1>3. /\ HashedOk(c, "none") /\ SeenOk(c, g, "none", display.what)
      /\ BudgetOk(c, g) /\ SumsOk(c, g)
  BY <1>2 DEF CallOk
<1>4. /\ d.hashed = c.hashed /\ d.stage = "CONFIRM"
      /\ d.numInputs = c.numInputs /\ d.currentWitness = c.currentWitness
      /\ d.sumAmountInputs = c.sumAmountInputs /\ d.sumAmountOutputs = c.sumAmountOutputs
  BY <1>1, <1>2 DEF WithFee, txHashBuilder_finalize, Context
<1>5. /\ HashedOk(d, "confirm") /\ TxHashOk(d)
      /\ IsTransaction(d.txHash, d.numInputs, d.numOutputs)
  BY <1>1, <1>2, <1>3, HashedFinalized
<1>6. SeenOk(d, g, "confirm", next)
  BY <1>1, <1>2, <1>3, SeenShowsFee
<1> HIDE DEF d, next
<1>7. SumsOk(d, g) /\ BudgetOk(d, g)
  BY <1>3, <1>4 DEF SumsOk, BudgetOk
<1>8. g.confirmedHash = ZeroHash
  BY <1>4, <1>6 DEF SeenOk
<1>9. CallOk(d, g, "confirm", next)
  BY <1>5, <1>6, <1>7 DEF CallOk
<1>10. Certified(d.hashed, attested) /\ WholeHash(d) /\ Budget(g)
  BY <1>2, <1>4, <1>5 DEF RestOk, WholeHash
<1>11. RestOk(d, g, attested)
  BY <1>8, <1>10, NotConfirmed DEF RestOk
<1> QED
  BY <1>1, <1>9, <1>11, ShowsHistory

\* The fee has been acknowledged.
LEMMA AsksToConfirmHistory ==
  ASSUME Inv, HistoryInv, NEW c, NEW g, AsksToConfirm(c, g)
  PROVE  HistoryInv'
<1> DEFINE d == [c EXCEPT !.uiStep = "CONFIRM_RESPOND"]
           what == display.what
<1>1. /\ Presses(c, g, "confirm") /\ c.uiStep = "CONFIRM_FINAL_CONFIRM"
      /\ Shows(FinalPrompt, "confirm", d, g)
  BY DEF AsksToConfirm
<1>2. /\ c \in Context /\ ghost \in Ghost /\ what \in Saying
      /\ g = Acknowledged(c, ghost, what)
      /\ ScreenOk(c, ghost, what, "confirm")
      /\ CallOk(c, ghost, "confirm", what)
      /\ RestOk(c, ghost, attested)
  BY <1>1, PressesOld
<1>3. c.stage = "CONFIRM"
  BY <1>2 DEF ScreenOk
<1>4. /\ HashedOk(c, "confirm") /\ TxHashOk(c) /\ SeenOk(c, ghost, "confirm", what)
      /\ BudgetOk(c, ghost) /\ SumsOk(c, ghost)
  BY <1>2 DEF CallOk
<1>5. SameHashed(c, d) /\ d.stage = "CONFIRM"
      /\ d.sumAmountInputs = c.sumAmountInputs /\ d.sumAmountOutputs = c.sumAmountOutputs
      /\ d.currentWitness = c.currentWitness
  BY <1>2, <1>3 DEF SameHashed, Context
<1>6. /\ g.announced = ghost.announced /\ g.exactIn = ghost.exactIn
      /\ g.exactOut = ghost.exactOut /\ g.signatures = ghost.signatures
  BY <1>2, AcknowledgedFields
<1>7. SeenOk(d, g, "confirm", FinalPrompt)
  BY <1>1, <1>2, <1>3, <1>4, SeenAsksToConfirm
<1> HIDE DEF d, what
<1>8. HashedOk(d, "confirm") /\ TxHashOk(d)
  BY <1>4, <1>5, HashedStays
<1>9. SumsOk(d, g) /\ BudgetOk(d, g)
  BY <1>4, <1>5, <1>6 DEF SumsOk, BudgetOk, SameHashed
<1>10. g.confirmedHash = ZeroHash
  BY <1>5, <1>7 DEF SeenOk
<1>11. CallOk(d, g, "confirm", FinalPrompt)
  BY <1>7, <1>8, <1>9 DEF CallOk
<1>12. Certified(d.hashed, attested) /\ WholeHash(d) /\ Budget(g)
  BY <1>2, <1>5, <1>6 DEF RestOk, WholeHash, Budget, SameHashed
<1>13. RestOk(d, g, attested)
  BY <1>10, <1>12, NotConfirmed DEF RestOk
<1> QED
  BY <1>1, <1>11, <1>13, ShowsHistory

\* The final prompt has been acknowledged: the user has seen the transaction and
\* its true fee.
LEMMA ReleasesHashHistory ==
  ASSUME Inv, HistoryInv, NEW c, NEW g, ReleasesHash(c, g)
  PROVE  HistoryInv'
<1> DEFINE d == [c EXCEPT !.stage = "WITNESSES"]
           what == display.what
<1>1. /\ Presses(c, g, "confirm") /\ c.uiStep = "CONFIRM_RESPOND"
      /\ Answers(HashData(c), "busy", d, g)
  BY DEF ReleasesHash
<1>2. /\ c \in Context /\ ghost \in Ghost /\ what \in Saying
      /\ g = Acknowledged(c, ghost, what)
      /\ ContextOk(c, ghost, "confirm")
      /\ ScreenOk(c, ghost, what, "confirm")
      /\ CallOk(c, ghost, "confirm", what)
      /\ RestOk(c, ghost, attested)
  BY <1>1, PressesOld
<1>3. c.stage = "CONFIRM" /\ c.builder = "FINISHED"
  BY <1>2 DEF ScreenOk, ContextOk, BuilderOk
<1>4. /\ HashedOk(c, "confirm") /\ TxHashOk(c) /\ SeenOk(c, ghost, "confirm", what)
      /\ BudgetOk(c, ghost) /\ SumsOk(c, ghost)
  BY <1>2 DEF CallOk
<1>5. /\ d.stage = "WITNESSES" /\ d.hashed = c.hashed /\ d.txHash = c.txHash
      /\ d.numInputs = c.numInputs /\ d.numOutputs = c.numOutputs
      /\ d.sumAmountInputs = c.sumAmountInputs /\ d.sumAmountOutputs = c.sumAmountOutputs
      /\ d.currentWitness = c.currentWitness
  BY <1>2 DEF Context
<1>6. /\ g.announced = ghost.announced /\ g.exactIn = ghost.exactIn
      /\ g.exactOut = ghost.exactOut /\ g.signatures = ghost.signatures
  BY <1>2, AcknowledgedFields
<1>7. HashedOk(d, "none") /\ TxHashOk(d)
  BY <1>2, <1>3, <1>4, HashedReleased
<1>8. /\ c.txHash = c.hashed
      /\ g.confirmedHash = c.hashed
      /\ LET t == ScreensAboutTx(g.acknowledged)
             s == Seen(c.hashed)
             n == Len(s)
         IN /\ Follows(t, s) /\ Len(t) = 2 * n + 3 /\ n \in Nat
            /\ t[2 * n + 2] = SaysAmount("TransactionFee", c.currentAmount)
            /\ t[2 * n + 3] = FinalPrompt
            /\ c.sumAmountInputs > c.sumAmountOutputs
            /\ c.currentAmount = c.sumAmountInputs - c.sumAmountOutputs
  <2>1. c.txHash = c.hashed
    BY <1>3, <1>4 DEF TxHashOk
  <2>2. LET t == ScreensAboutTx(g.acknowledged)
            s == Seen(c.hashed)
            n == Len(s)
        IN /\ g.confirmedHash = c.txHash
           /\ Follows(t, s) /\ Len(t) = 2 * n + 3 /\ n \in Nat
           /\ t[2 * n + 2] = SaysAmount("TransactionFee", c.currentAmount)
           /\ t[2 * n + 3] = FinalPrompt
           /\ c.sumAmountInputs > c.sumAmountOutputs
           /\ c.currentAmount = c.sumAmountInputs - c.sumAmountOutputs
    BY <1>1, <1>2, <1>3, <1>4, SeenReleasesHash
  <2> QED
    BY <2>1, <2>2
<1> HIDE DEF d, what
<1>9. SawTransaction(g)
  <2> DEFINE t == ScreensAboutTx(g.acknowledged)
             s == Seen(c.hashed)
             n == Len(s)
  <2>1. /\ Len(t) = 2 * n + 3 /\ n \in Nat
        /\ t[2 * n + 2].head = "TransactionFee" /\ t[2 * n + 3] = FinalPrompt
    BY <1>8 DEF SaysAmount, Says
  <2>2. Follows(t, s)
    BY <1>8
  <2> HIDE DEF t, s
  <2>3. t[1] = Says("StartNewTransaction")
    BY <2>1, <2>2 DEF Follows
  <2>4. \A k \in 1 .. n : 2 * k <= Len(t) /\ 2 * k + 1 <= Len(t)
    BY <2>1
  <2>5. \A k \in 1 .. n : /\ t[2 * k] = SaysAmount("SendAda", s[k].amount)
                          /\ t[2 * k + 1] = SaysAddress("ToAddress", s[k].address)
    BY <2>2, <2>4 DEF Follows
  <2> QED
    BY <1>8, <2>1, <2>3, <2>5 DEF SawTransaction, t, s
<1>10. ExactFee(g)
  <2> DEFINE t == ScreensAboutTx(g.acknowledged)
             n == Len(Seen(c.hashed))
  <2>1. /\ Len(t) = 2 * n + 3 /\ n \in Nat
        /\ t[2 * n + 2].amount = c.currentAmount
        /\ c.sumAmountInputs > c.sumAmountOutputs
        /\ c.currentAmount = c.sumAmountInputs - c.sumAmountOutputs
    BY <1>8 DEF SaysAmount, Says
  <2> HIDE DEF t, n
  <2>2. t[Len(t) - 1].amount = c.currentAmount
    <3>1. Len(t) - 1 = 2 * n + 2
      BY <2>1
    <3> QED
      BY <2>1, <3>1
  <2>3. SumsOk(c, g)
    BY <1>4, <1>6 DEF SumsOk
  <2>4. OutputsDoNotWrap(g.confirmedHash) =>
          g.exactIn = c.sumAmountInputs /\ g.exactOut = c.sumAmountOutputs
    BY <1>8, <2>3 DEF SumsOk
  <2> QED
    BY <2>1, <2>2, <2>4 DEF ExactFee, t
<1>11. SumsOk(d, g) /\ BudgetOk(d, g)
  BY <1>4, <1>5, <1>6 DEF SumsOk, BudgetOk
<1>12. \A w : SeenOk(d, g, "none", w)
  BY <1>5 DEF SeenOk
<1>13. \A w : CallOk(d, g, "none", w)
  BY <1>7, <1>11, <1>12 DEF CallOk
<1>14. Certified(d.hashed, attested) /\ WholeHash(d) /\ Budget(g)
  BY <1>2, <1>5, <1>6 DEF RestOk, WholeHash, Budget
<1>15. RestOk(d, g, attested)
  BY <1>9, <1>10, <1>14 DEF RestOk
<1>16. HashData(c).kind # "signature"
  BY DEF HashData
<1> QED
  BY <1>1, <1>13, <1>15, <1>16, AnswersHistory

\* P1 = 5.
LEMMA MakesSignatureHistory ==
  ASSUME Inv, HistoryInv, NEW c, NEW g, NEW p \in Path, MakesSignature(c, g, p)
  PROVE  HistoryInv'
<1>1. Begins(c, g) /\ WitnessesLeft(c)
  BY DEF MakesSignature
<1>2. /\ c \in Context /\ g \in Ghost
      /\ CallOk(c, g, "none", display.what)
      /\ RestOk(c, g, attested)
  BY <1>1, BeginsOld
<1>3. /\ HashedOk(c, "none") /\ TxHashOk(c) /\ SeenOk(c, g, "none", display.what)
      /\ BudgetOk(c, g) /\ SumsOk(c, g)
  BY <1>2 DEF CallOk
<1>4. ASSUME NEW step, NEW d, d = WithWitness(c, p, step)
      PROVE  /\ HashedOk(d, "none") /\ HashedOk(d, "witness") /\ TxHashOk(d)
             /\ SumsOk(d, g) /\ BudgetOk(d, g)
             /\ RestOk(d, g, attested)
  <2>1. SameHashed(c, d)
        /\ d.sumAmountInputs = c.sumAmountInputs /\ d.sumAmountOutputs = c.sumAmountOutputs
        /\ d.currentWitness = c.currentWitness
    BY <1>2, <1>4 DEF WithWitness, SameHashed, Context
  <2>2. HashedOk(d, "none") /\ HashedOk(d, "witness") /\ TxHashOk(d)
    BY <1>3, <2>1, HashedStays
  <2>3. SumsOk(d, g) /\ BudgetOk(d, g)
    BY <1>3, <2>1 DEF SumsOk, BudgetOk, SameHashed
  <2>4. RestOk(d, g, attested)
    BY <1>2, <2>1 DEF RestOk, WholeHash, SameHashed
  <2> QED
    BY <2>2, <2>3, <2>4
<1>5. CASE Shows(Says("UnusualWitness"), "witness", WithWitness(c, p, "WITNESS_DISPLAY"), g)
  <2> DEFINE d == WithWitness(c, p, "WITNESS_DISPLAY")
  <2>1. SeenOk(d, g, "witness", Says("UnusualWitness"))
    BY <1>2, <1>3, SeenMakesSignature
  <2>2. /\ HashedOk(d, "witness") /\ TxHashOk(d) /\ SumsOk(d, g) /\ BudgetOk(d, g)
        /\ RestOk(d, g, attested)
    BY <1>4
  <2> HIDE DEF d
  <2>3. CallOk(d, g, "witness", Says("UnusualWitness"))
    BY <2>1, <2>2 DEF CallOk
  <2> QED
    BY <1>5, <2>2, <2>3, ShowsHistory DEF d
<1>6. CASE /\ IsOrdinaryAddress(p)
           /\ Answers(getTxWitness(c, p), "witness", WithWitness(c, p, "WITNESS_RESPOND"), g)
  <2> DEFINE d == WithWitness(c, p, "WITNESS_RESPOND")
             data == getTxWitness(c, p)
  <2>1. \A w : SeenOk(d, g, "none", w)
    BY <1>2, <1>3, SeenSigns
  <2>2. /\ HashedOk(d, "none") /\ TxHashOk(d) /\ SumsOk(d, g) /\ BudgetOk(d, g)
        /\ RestOk(d, g, attested)
    BY <1>4
  <2>3. data.path = p /\ data.kind = "signature"
    BY DEF getTxWitness
  <2> HIDE DEF d, data
  <2>4. \A w : CallOk(d, g, "none", w)
    BY <2>1, <2>2 DEF CallOk
  <2>5. Answers(data, "witness", d, g) /\ IsOrdinaryAddress(data.path)
    BY <1>6, <2>3 DEF d, data
  <2> QED
    BY <2>2, <2>3, <2>4, <2>5, AnswersHistory
<1> QED
  BY <1>5, <1>6 DEF MakesSignature

\* A button under a screen of a witness leaves the transaction and what has been
\* claimed of it alone.
LEMMA WitnessPressed ==
  ASSUME Inv, HistoryInv, NEW c, NEW g, Presses(c, g, "witness"),
         NEW d, SameHashed(c, d),
         d.sumAmountInputs = c.sumAmountInputs, d.sumAmountOutputs = c.sumAmountOutputs,
         d.currentWitness = c.currentWitness
  PROVE  /\ HashedOk(d, "none") /\ HashedOk(d, "witness") /\ TxHashOk(d)
         /\ SumsOk(d, g) /\ BudgetOk(d, g)
         /\ RestOk(d, g, attested)
<1> DEFINE what == display.what
<1>1. /\ c \in Context /\ ghost \in Ghost /\ what \in Saying
      /\ g = Acknowledged(c, ghost, what)
      /\ CallOk(c, ghost, "witness", what)
      /\ RestOk(c, ghost, attested)
  BY PressesOld
<1>2. /\ HashedOk(c, "witness") /\ TxHashOk(c) /\ SeenOk(c, ghost, "witness", what)
      /\ BudgetOk(c, ghost) /\ SumsOk(c, ghost)
  BY <1>1 DEF CallOk
<1>3. ~IsAboutTx(what)
  <2>1. \/ what = Says("UnusualWitness")
        \/ what = SaysPath("WitnessPath", c.currentPath)
        \/ what = Says("SignUsingThisWitness")
    BY <1>2 DEF SeenOk, WitnessScreenOk
  <2> QED
    BY <2>1, Heads
<1>4. /\ ScreensAboutTx(g.acknowledged) = ScreensAboutTx(ghost.acknowledged)
      /\ g.confirmedHash = ghost.confirmedHash
  BY <1>1, <1>3, AcknowledgedWitness
<1>5. /\ g.announced = ghost.announced /\ g.exactIn = ghost.exactIn
      /\ g.exactOut = ghost.exactOut /\ g.signatures = ghost.signatures
  BY <1>1, AcknowledgedFields
<1> HIDE DEF what
<1>6. HashedOk(d, "none") /\ HashedOk(d, "witness") /\ TxHashOk(d)
  BY <1>2, HashedStays
<1>7. SumsOk(d, g) /\ BudgetOk(d, g)
  BY <1>2, <1>5 DEF SumsOk, BudgetOk, SameHashed
<1>8. SawTransaction(g) /\ ExactFee(g)
  BY <1>1, <1>4, <1>5, SameClaims DEF RestOk
<1>9. RestOk(d, g, attested)
  BY <1>1, <1>5, <1>8 DEF RestOk, WholeHash, Budget, SameHashed
<1> QED
  BY <1>6, <1>7, <1>9

\* The warning has been acknowledged.
LEMMA ShowsWitnessPathHistory ==
  ASSUME Inv, HistoryInv, NEW c, NEW g, ShowsWitnessPath(c, g)
  PROVE  HistoryInv'
<1> DEFINE d == [c EXCEPT !.uiStep = "WITNESS_CONFIRM"]
           next == SaysPath("WitnessPath", c.currentPath)
<1>1. /\ Presses(c, g, "witness") /\ c.uiStep = "WITNESS_DISPLAY"
      /\ Shows(next, "witness", d, g)
  BY DEF ShowsWitnessPath
<1>2. /\ c \in Context /\ ghost \in Ghost /\ display.what \in Saying
      /\ g = Acknowledged(c, ghost, display.what)
      /\ SeenOk(c, ghost, "witness", display.what)
  BY <1>1, PressesOld DEF CallOk
<1>3. SameHashed(c, d)
      /\ d.sumAmountInputs = c.sumAmountInputs /\ d.sumAmountOutputs = c.sumAmountOutputs
      /\ d.currentWitness = c.currentWitness
  BY <1>2 DEF SameHashed, Context
<1>4. SeenOk(d, g, "witness", next)
  BY <1>1, <1>2, SeenShowsWitnessPath
<1> HIDE DEF d, next
<1>5. /\ HashedOk(d, "witness") /\ TxHashOk(d) /\ SumsOk(d, g) /\ BudgetOk(d, g)
      /\ RestOk(d, g, attested)
  BY <1>1, <1>3, WitnessPressed
<1>6. CallOk(d, g, "witness", next)
  BY <1>4, <1>5 DEF CallOk
<1> QED
  BY <1>1, <1>5, <1>6, ShowsHistory

\* The path has been acknowledged.
LEMMA AsksForWitnessHistory ==
  ASSUME Inv, HistoryInv, NEW c, NEW g, AsksForWitness(c, g)
  PROVE  HistoryInv'
<1> DEFINE d == [c EXCEPT !.uiStep = "WITNESS_RESPOND"]
           next == Says("SignUsingThisWitness")
<1>1. /\ Presses(c, g, "witness") /\ c.uiStep = "WITNESS_CONFIRM"
      /\ Shows(next, "witness", d, g)
  BY DEF AsksForWitness
<1>2. /\ c \in Context /\ ghost \in Ghost /\ display.what \in Saying
      /\ g = Acknowledged(c, ghost, display.what)
      /\ SeenOk(c, ghost, "witness", display.what)
  BY <1>1, PressesOld DEF CallOk
<1>3. SameHashed(c, d)
      /\ d.sumAmountInputs = c.sumAmountInputs /\ d.sumAmountOutputs = c.sumAmountOutputs
      /\ d.currentWitness = c.currentWitness
  BY <1>2 DEF SameHashed, Context
<1>4. SeenOk(d, g, "witness", next)
  BY <1>1, <1>2, SeenAsksForWitness
<1> HIDE DEF d, next
<1>5. /\ HashedOk(d, "witness") /\ TxHashOk(d) /\ SumsOk(d, g) /\ BudgetOk(d, g)
      /\ RestOk(d, g, attested)
  BY <1>1, <1>3, WitnessPressed
<1>6. CallOk(d, g, "witness", next)
  BY <1>4, <1>5 DEF CallOk
<1> QED
  BY <1>1, <1>5, <1>6, ShowsHistory

\* The prompt for the witness has been acknowledged.
LEMMA SendsWitnessHistory ==
  ASSUME Inv, HistoryInv, NEW c, NEW g, SendsWitness(c, g)
  PROVE  HistoryInv'
<1>1. /\ Presses(c, g, "witness") /\ c.uiStep = "WITNESS_RESPOND"
      /\ Answers(c.currentWitnessData, "witness", c, g)
  BY DEF SendsWitness
<1>2. /\ c \in Context /\ ghost \in Ghost /\ display.what \in Saying
      /\ g = Acknowledged(c, ghost, display.what)
      /\ SeenOk(c, ghost, "witness", display.what)
  BY <1>1, PressesOld DEF CallOk
<1>3. SameHashed(c, c)
  BY DEF SameHashed
<1>4. /\ \A w : SeenOk(c, g, "none", w)
      /\ LET b == g.acknowledged
         IN /\ Len(b) >= 3
            /\ b[Len(b) - 2] = Says("UnusualWitness")
            /\ b[Len(b) - 1] = SaysPath("WitnessPath", c.currentWitnessData.path)
            /\ b[Len(b)] = Says("SignUsingThisWitness")
  BY <1>1, <1>2, SeenSendsWitness
<1>5. /\ HashedOk(c, "none") /\ TxHashOk(c) /\ SumsOk(c, g) /\ BudgetOk(c, g)
      /\ RestOk(c, g, attested)
  BY <1>1, <1>3, WitnessPressed
<1>6. \A w : CallOk(c, g, "none", w)
  BY <1>4, <1>5 DEF CallOk
<1>7. WitnessSeen(c.currentWitnessData, g) /\ c.currentWitnessData.kind = "signature"
  BY <1>2, <1>4 DEF WitnessSeen, SeenOk, WitnessScreenOk, getTxWitness
<1> QED
  BY <1>1, <1>5, <1>6, <1>7, AnswersHistory

\* Whatever screen there was, another one is as good if there is none.
LEMMA SeenGoesOn ==
  ASSUME NEW c, NEW g, NEW what, SeenOk(c, g, "none", what), NEW d, NEW h, NEW w,
         d.stage = c.stage, d.hashed = c.hashed,
         h.acknowledged = g.acknowledged, h.confirmedHash = g.confirmedHash
  PROVE  SeenOk(d, h, "none", w)
  BY DEF SeenOk

\* A signature under transmission is one of those announced.
LEMMA OneMoreSignature ==
  ASSUME Inv, HistoryInv, Live
  PROVE  ghost.signatures + 1 <= ghost.announced.inputs
<1>1. ContextOk(ctx, ghost, NextCallback) /\ CallOk(ctx, ghost, NextCallback, display.what)
  BY DEF Inv, ContextInv, HistoryInv
<1>2. /\ ctx.currentWitness < ctx.numWitnesses /\ ctx.numWitnesses = ctx.numInputs
      /\ ctx.numInputs = Truncated(ghost.announced.inputs)
      /\ ghost.signatures = ctx.currentWitness
  BY <1>1 DEF ContextOk, CountersOk, CallOk, BudgetOk
<1>3. ctx \in Context /\ ghost \in Ghost
  BY DEF Inv, CallTypeOK
<1>4. ghost.announced.inputs \in Nat /\ ghost.signatures \in Nat
      /\ ctx.currentWitness \in Nat /\ ctx.numInputs \in Nat
  BY <1>3 DEF Context, Ghost, Counts
<1>5. Truncated(ghost.announced.inputs) <= ghost.announced.inputs
  BY <1>4, TruncatedIsLess
<1> QED
  BY <1>2, <1>4, <1>5

\* A transmission has ended and the call goes on.
LEMMA GoesOnHistory ==
  ASSUME Inv, HistoryInv, GoesOn
  PROVE  HistoryInv'
<1>1. /\ Live /\ Sending /\ ~WaitsForUser' /\ reply' = NoReply
      /\ Live' /\ attested' = attested
      /\ ctx \in Context /\ ghost \in Ghost
  BY DEF GoesOn, Leaves, Inv, CallTypeOK
<1>2. NextCallback = "none" /\ NextCallback' = "none"
  BY <1>1 DEF NextCallback, WaitsForUser
<1>3. CallOk(ctx, ghost, "none", display.what)
  BY <1>1, <1>2 DEF HistoryInv
<1>4. RestOk(ctx, ghost, attested)
  BY <1>1, RestOfHistory DEF RestOk
<1>5. UnusualWitnessIsConfirmed' /\ ~Sending'
  BY <1>1 DEF UnusualWitnessIsConfirmed, SendsSignature, Sending, NoReply
<1>6. ASSUME NEW d, NEW h, SameHashed(ctx, d),
             d.sumAmountInputs = ctx.sumAmountInputs,
             d.sumAmountOutputs = ctx.sumAmountOutputs,
             h.announced = ghost.announced, h.exactIn = ghost.exactIn,
             h.exactOut = ghost.exactOut, h.acknowledged = ghost.acknowledged,
             h.confirmedHash = ghost.confirmedHash,
             h.signatures = d.currentWitness, h.signatures <= ghost.announced.inputs
      PROVE  /\ \A w : CallOk(d, h, "none", w)
             /\ RestOk(d, h, attested)
  <2>1. HashedOk(ctx, "none") /\ TxHashOk(ctx) /\ SeenOk(ctx, ghost, "none", display.what)
        /\ SumsOk(ctx, ghost) /\ BudgetOk(ctx, ghost)
    BY <1>3 DEF CallOk
  <2>2. HashedOk(d, "none") /\ TxHashOk(d)
    BY <1>6, <2>1, HashedStays
  <2>3. \A w : SeenOk(d, h, "none", w)
    BY <1>6, <2>1, SeenGoesOn DEF SameHashed
  <2>4. SumsOk(d, h) /\ BudgetOk(d, h)
    BY <1>6, <2>1 DEF SumsOk, BudgetOk, SameHashed
  <2>5. SawTransaction(h) /\ ExactFee(h)
    BY <1>4, <1>6, SameClaims DEF RestOk
  <2>6. RestOk(d, h, attested)
    BY <1>4, <1>6, <2>5 DEF RestOk, WholeHash, Budget, SameHashed
  <2> QED
    BY <2>2, <2>3, <2>4, <2>6 DEF CallOk
<1>7. \E d, h : /\ ctx' = d /\ ghost' = h
                /\ \A w : CallOk(d, h, "none", w)
                /\ RestOk(d, h, attested)
  <2>1. CASE Leaves([ctx EXCEPT !.uiStep = "INVALID"], ghost)
    <3> DEFINE d == [ctx EXCEPT !.uiStep = "INVALID"]
    <3>1. /\ SameHashed(ctx, d) /\ d.currentWitness = ctx.currentWitness
          /\ d.sumAmountInputs = ctx.sumAmountInputs
          /\ d.sumAmountOutputs = ctx.sumAmountOutputs
      BY <1>1 DEF SameHashed, Context
    <3>2. ghost.signatures = d.currentWitness /\ ghost.signatures <= ghost.announced.inputs
      BY <1>3, <3>1 DEF CallOk, BudgetOk, HistoryInv
    <3>3. ctx' = d /\ ghost' = ghost
      BY <2>1 DEF Leaves
    <3> HIDE DEF d
    <3>4. (\A w : CallOk(d, ghost, "none", w)) /\ RestOk(d, ghost, attested)
      BY <1>6, <3>1, <3>2
    <3> QED
      BY <3>3, <3>4
  <2>2. CASE /\ ~LastWitness(ctx)
             /\ Leaves(WitnessSent(ctx), [ghost EXCEPT !.signatures = @ + 1])
    <3> DEFINE d == WitnessSent(ctx)
               h == [ghost EXCEPT !.signatures = @ + 1]
    <3>1. /\ SameHashed(ctx, d) /\ d.currentWitness = ctx.currentWitness + 1
          /\ d.sumAmountInputs = ctx.sumAmountInputs
          /\ d.sumAmountOutputs = ctx.sumAmountOutputs
      BY <1>1, <2>2 DEF WitnessSent, SameHashed, Context
    <3>2. /\ h.announced = ghost.announced /\ h.exactIn = ghost.exactIn
          /\ h.exactOut = ghost.exactOut /\ h.acknowledged = ghost.acknowledged
          /\ h.confirmedHash = ghost.confirmedHash /\ h.signatures = ghost.signatures + 1
      BY <1>1 DEF Ghost
    <3>3. h.signatures = d.currentWitness
      BY <1>3, <3>1, <3>2 DEF CallOk, BudgetOk
    <3>4. h.signatures <= ghost.announced.inputs
      BY <1>1, <3>2, OneMoreSignature
    <3>5. ctx' = d /\ ghost' = h
      BY <2>2 DEF Leaves
    <3> HIDE DEF d, h
    <3>6. (\A w : CallOk(d, h, "none", w)) /\ RestOk(d, h, attested)
      BY <1>6, <3>1, <3>2, <3>3, <3>4
    <3> QED
      BY <3>5, <3>6
  <2> QED
    BY <2>1, <2>2 DEF GoesOn
<1>8. PICK d, h : /\ ctx' = d /\ ghost' = h
                  /\ \A w : CallOk(d, h, "none", w)
                  /\ RestOk(d, h, attested)
  BY <1>7
<1>9. CallOk(ctx', ghost', NextCallback', display'.what)
  BY <1>2, <1>8
<1>10. /\ InputsAreCertified' /\ HashIsWholeTransaction'
       /\ UserSawTransaction' /\ FeeIsExact'
       /\ (ghost.signatures <= ghost.announced.inputs)'
  BY <1>1, <1>8, HistoryOfRest
<1> QED
  BY <1>5, <1>9, <1>10 DEF HistoryInv

\* A handler that throws leaves the claims as they were, or none.
LEMMA ThrownRest ==
  ASSUME Inv, HistoryInv, NEW c, NEW g, Begins(c, g), NEW d,
         BarelyBegun(d) \/ SameTransaction(c, d)
  PROVE  RestOk(d, g, attested)
<1>1. RestOk(c, g, attested)
  <2>1. CASE Live /\ c = ctx /\ g = ghost
    BY <2>1, RestOfHistory DEF RestOk
  <2>2. CASE c = ZeroContext /\ g = ZeroGhost
    <3>1. c.hashed = <<>> /\ c.txHash = ZeroHash
      BY <2>2 DEF ZeroContext, ZeroHash
    <3>2. g.confirmedHash = ZeroHash /\ g.signatures = 0 /\ g.announced.inputs = 0
      BY <2>2 DEF ZeroGhost
    <3> QED
      BY <3>1, <3>2, NotConfirmed DEF RestOk, Certified, WholeHash, Budget
  <2> QED
    BY <2>1, <2>2 DEF Begins
<1>2. CASE BarelyBegun(d)
  <2>1. d.hashed = <<Token("tx")>> /\ d.txHash = ZeroHash /\ Token("tx").item # "input"
    BY <1>2, NotInputs DEF BarelyBegun
  <2> QED
    BY <1>1, <2>1 DEF RestOk, Certified, WholeHash
<1>3. CASE SameTransaction(c, d)
  BY <1>1, <1>3 DEF RestOk, WholeHash, SameTransaction
<1> QED
  BY <1>2, <1>3

\* So does a text that does not fit its screen.
LEMMA UnprintableRest ==
  ASSUME Inv, HistoryInv, NEW c, NEW g, Presses(c, g, "output") \/ Presses(c, g, "witness")
  PROVE  RestOk(c, g, attested)
<1>1. SameHashed(c, c)
  BY DEF SameHashed
<1>2. CASE Presses(c, g, "witness")
  BY <1>1, <1>2, WitnessPressed
<1>3. CASE Presses(c, g, "output")
  <2>1. /\ c \in Context /\ ghost \in Ghost /\ display.what \in Saying
        /\ g = Acknowledged(c, ghost, display.what)
        /\ ScreenOk(c, ghost, display.what, "output")
        /\ CallOk(c, ghost, "output", display.what)
        /\ RestOk(c, ghost, attested)
    BY <1>3, PressesOld
  <2>2. display.what # FinalPrompt /\ c.stage = "OUTPUTS"
    BY <2>1 DEF ScreenOk
  <2>3. ghost.confirmedHash = ZeroHash
    BY <2>1, <2>2 DEF CallOk, SeenOk
  <2>4. /\ g.confirmedHash = IF display.what = FinalPrompt THEN c.txHash ELSE ghost.confirmedHash
        /\ g.announced = ghost.announced /\ g.signatures = ghost.signatures
    BY <2>1, AcknowledgedFields
  <2>5. g.confirmedHash = ZeroHash
    BY <2>2, <2>3, <2>4
  <2> QED
    BY <2>1, <2>4, <2>5, NotConfirmed DEF RestOk, Budget
<1> QED
  BY <1>2, <1>3

\* The call ends, or there was none.
LEMMA EndsHistory ==
  ASSUME Inv, HistoryInv, Inv', Ends
  PROVE  HistoryInv'
<1>1. ~Live' /\ reply'.code # SUCCESS
  BY DEF Ends, NoCall
<1>2. UnusualWitnessIsConfirmed'
  <2>1. Sending' => reply'.data = NoData
    BY <1>1 DEF Inv, ReplyInv
  <2> QED
    BY <2>1 DEF UnusualWitnessIsConfirmed, SendsSignature, NoData
<1>3. ASSUME NEW d, NEW g, ctx' = d, ghost' = g, RestOk(d, g, attested')
      PROVE  HistoryInv'
  <2>1. /\ InputsAreCertified' /\ HashIsWholeTransaction'
        /\ UserSawTransaction' /\ FeeIsExact'
        /\ (ghost.signatures <= ghost.announced.inputs)'
    BY <1>3, HistoryOfRest
  <2> QED
    BY <1>1, <1>2, <2>1 DEF HistoryInv
<1>4. CASE \E c \in Context, g \in Ghost :
             /\ Begins(c, g)
             /\ BarelyBegun(ctx') \/ SameTransaction(c, ctx')
             /\ ghost' = g
             /\ attested' = attested
  <2>1. PICK c \in Context, g \in Ghost :
             /\ Begins(c, g)
             /\ BarelyBegun(ctx') \/ SameTransaction(c, ctx')
             /\ ghost' = g
             /\ attested' = attested
    BY <1>4
  <2>2. RestOk(ctx', g, attested)
    BY <2>1, ThrownRest
  <2> QED
    BY <1>3, <2>1, <2>2
<1>5. CASE \E c \in Context, g \in Ghost :
             /\ Presses(c, g, "output") \/ Presses(c, g, "witness")
             /\ ctx' = c
             /\ ghost' = g
             /\ attested' = attested
  <2>1. PICK c \in Context, g \in Ghost :
             /\ Presses(c, g, "output") \/ Presses(c, g, "witness")
             /\ ctx' = c
             /\ ghost' = g
             /\ attested' = attested
    BY <1>5
  <2>2. RestOk(c, g, attested)
    BY <2>1, UnprintableRest
  <2> QED
    BY <1>3, <2>1, <2>2
<1>6. CASE /\ Live
           /\ ctx' = WitnessSent(ctx)
           /\ ghost' = [ghost EXCEPT !.signatures = @ + 1]
           /\ attested' = attested
  <2> DEFINE d == WitnessSent(ctx)
             h == [ghost EXCEPT !.signatures = @ + 1]
  <2>1. ctx \in Context /\ ghost \in Ghost
    BY DEF Inv, CallTypeOK
  <2>2. /\ d.hashed = ctx.hashed /\ d.txHash = ctx.txHash
        /\ d.numInputs = ctx.numInputs /\ d.numOutputs = ctx.numOutputs
    BY <2>1 DEF WitnessSent, Context
  <2>3. /\ h.announced = ghost.announced /\ h.exactIn = ghost.exactIn
        /\ h.exactOut = ghost.exactOut /\ h.acknowledged = ghost.acknowledged
        /\ h.confirmedHash = ghost.confirmedHash /\ h.signatures = ghost.signatures + 1
    BY <2>1 DEF Ghost
  <2>4. Budget(h)
    BY <1>6, <2>3, OneMoreSignature DEF Budget
  <2>5. ctx' = d /\ ghost' = h /\ attested' = attested
    BY <1>6
  <2> HIDE DEF d, h
  <2>6. SawTransaction(h) /\ ExactFee(h)
    BY <2>3, RestOfHistory, SameClaims
  <2>7. RestOk(d, h, attested)
    BY <1>6, <2>2, <2>4, <2>6, RestOfHistory DEF RestOk, WholeHash
  <2> QED
    BY <1>3, <2>5, <2>7
<1>7. CASE /\ UNCHANGED <<ctx, ghost>>
           /\ \/ attested' = attested /\ On /\ currentInstruction' = currentInstruction
              \/ currentInstruction' = INS_NONE
  <2>1. InputsAreCertified'
    BY <1>7 DEF HistoryInv, InputsAreCertified, INS_NONE, SIGN_TX
  <2>2. /\ HashIsWholeTransaction' /\ UserSawTransaction' /\ FeeIsExact'
        /\ (ghost.signatures <= ghost.announced.inputs)'
    BY <1>7 DEF HistoryInv, HashIsWholeTransaction, UserSawTransaction, FeeIsExact,
                TxScreens, FeeShown
  <2> QED
    BY <1>1, <1>2, <2>1, <2>2 DEF HistoryInv
<1> QED
  BY <1>4, <1>5, <1>6, <1>7 DEF Ends

\* Nothing happens to the call.
LEMMA IdlesHistory ==
  ASSUME Inv, HistoryInv, Idles
  PROVE  HistoryInv'
<1>1. /\ ctx' = ctx /\ ghost' = ghost /\ display' = display /\ reply' = reply
      /\ crashed' = crashed /\ currentInstruction' = currentInstruction
      /\ Live' = Live /\ WaitsForUser' = WaitsForUser
  BY DEF Idles
<1>2. NextCallback' = NextCallback
  BY <1>1 DEF NextCallback
<1>3. Live' => CallOk(ctx', ghost', NextCallback', display'.what)
  BY <1>1, <1>2 DEF HistoryInv
<1>4. InputsAreCertified'
  <2>1. CASE attested' = attested
    BY <1>1, <2>1 DEF HistoryInv, InputsAreCertified, On
  <2>2. CASE IsNewCall
    BY <1>1, <2>2 DEF InputsAreCertified, IsNewCall, INS_NONE, SIGN_TX
  <2> QED
    BY <2>1, <2>2 DEF Idles
<1>5. /\ HashIsWholeTransaction' /\ UserSawTransaction' /\ FeeIsExact'
      /\ UnusualWitnessIsConfirmed'
      /\ (ghost.signatures <= ghost.announced.inputs)'
  BY <1>1 DEF HistoryInv, HashIsWholeTransaction, UserSawTransaction, FeeIsExact,
              UnusualWitnessIsConfirmed, TxScreens, FeeShown, SendsSignature, Sending
<1>6. Live' /\ Sending' => AnswerOk'
  BY <1>1 DEF HistoryInv, Sending, AnswerOk
<1> QED
  BY <1>3, <1>4, <1>5, <1>6 DEF HistoryInv

-----------------------------------------------------------------------------
(***************************************************************************)
(* Together.                                                               *)
(***************************************************************************)

\* At first there is no call and no history.
LEMMA InitHistory == Init => HistoryInv
<1> SUFFICES ASSUME Init PROVE HistoryInv
  OBVIOUS
<1>1. /\ ~Live /\ currentInstruction = INS_NONE /\ ~Sending
      /\ ctx = ZeroContext /\ ghost = ZeroGhost
  BY DEF Init, PlatformInit, Live, INS_NONE, SIGN_TX, Sending, NoReply
<1>2. ctx.txHash = ZeroHash
  BY <1>1 DEF ZeroContext
<1>3. ghost.confirmedHash = ZeroHash /\ ghost.signatures = 0 /\ ghost.announced.inputs = 0
  BY <1>1 DEF ZeroGhost
<1>4. InputsAreCertified
  BY <1>1 DEF InputsAreCertified, INS_NONE, SIGN_TX
<1>5. HashIsWholeTransaction /\ UserSawTransaction /\ FeeIsExact
  BY <1>2, <1>3 DEF HashIsWholeTransaction, UserSawTransaction, FeeIsExact
<1>6. UnusualWitnessIsConfirmed
  BY <1>1 DEF UnusualWitnessIsConfirmed, SendsSignature
<1> QED
  BY <1>1, <1>3, <1>4, <1>5, <1>6 DEF HistoryInv

\* Every step of a call keeps the history in order.
LEMMA CallStepHistory ==
  ASSUME Inv, HistoryInv, Inv', CallStep
  PROVE  HistoryInv'
<1>1. CASE \E counts \in [inputs: Nat, outputs: Nat] : StartsCall(counts)
  BY <1>1, StartsCallHistory
<1>2. CASE \E c \in Context, g \in Ghost :
             \/ OpensInputs(c, g)
             \/ \E u \in Utxos : AddsInput(c, g, u)
             \/ \E p \in Path, a \in Address, n \in Amounts : AddsOutput(c, g, p, a, n)
             \/ ShowsAddress(c, g)
             \/ FinishesOutput(c, g)
             \/ ShowsFee(c, g)
             \/ AsksToConfirm(c, g)
             \/ ReleasesHash(c, g)
             \/ \E p \in Path : MakesSignature(c, g, p)
             \/ ShowsWitnessPath(c, g)
             \/ AsksForWitness(c, g)
             \/ SendsWitness(c, g)
  BY <1>2, OpensInputsHistory, AddsInputHistory, AddsOutputHistory, ShowsAddressHistory,
     FinishesOutputHistory, ShowsFeeHistory, AsksToConfirmHistory, ReleasesHashHistory,
     MakesSignatureHistory, ShowsWitnessPathHistory, AsksForWitnessHistory,
     SendsWitnessHistory
<1>3. CASE GoesOn
  BY <1>3, GoesOnHistory
<1>4. CASE Ends
  BY <1>4, EndsHistory
<1>5. CASE Idles
  BY <1>5, IdlesHistory
<1> QED
  BY <1>1, <1>2, <1>3, <1>4, <1>5 DEF CallStep

\* And so does every step.
LEMMA NextHistory ==
  ASSUME Inv, HistoryInv, [Next]_vars
  PROVE  Inv' /\ HistoryInv'
<1>1. Inv'
  BY NextInv
<1>2. CallStep
  BY NextIsCallStep
<1> QED
  BY <1>1, <1>2, CallStepHistory

\* Inv and HistoryInv hold in every state.
THEOREM History == Spec => [](Inv /\ HistoryInv)
<1>1. Init => Inv /\ HistoryInv
  BY InitInv, InitHistory
<1>2. Inv /\ HistoryInv /\ [Next]_vars => (Inv /\ HistoryInv)'
  BY NextHistory
<1> QED
  BY <1>1, <1>2, PTL DEF Spec

\* Every input of an open call is certified under the key of this run of the
\* application (signTx_handleInputAPDU, attest_isCorrectHmac).
THEOREM CertifiedInputs == Spec => []InputsAreCertified
<1>1. HistoryInv => InputsAreCertified
  BY DEF HistoryInv
<1> QED
  BY <1>1, History, PTL

\* A finished hash is the hash of one complete transaction with the counts of the
\* context (txHashBuilder.c driven by signTx.c).
THEOREM WholeTransactions == Spec => []HashIsWholeTransaction
<1>1. HistoryInv => HashIsWholeTransaction
  BY DEF HistoryInv
<1> QED
  BY <1>1, History, PTL

\* What the user has acknowledged before a hash counts as confirmed is that very
\* transaction, output by output and in order (signTx_handle*_ui_runStep).
THEOREM WhatYouSeeIsWhatYouSign == Spec => []UserSawTransaction
<1>1. HistoryInv => UserSawTransaction
  BY DEF HistoryInv
<1> QED
  BY <1>1, History, PTL

\* The fee the user has acknowledged is exact unless an output amount wraps the
\* sum (amountSum_incrementBy, signTx_handleConfirmAPDU).
THEOREM ExactFees == Spec => []FeeIsExact
<1>1. HistoryInv => FeeIsExact
  BY DEF HistoryInv
<1> QED
  BY <1>1, History, PTL

\* A signature for an unusual path follows the warning, that path and the prompt
\* (signTx_handleWitness_ui_runStep).
THEOREM UnusualWitnesses == Spec => []UnusualWitnessIsConfirmed
<1>1. HistoryInv => UnusualWitnessIsConfirmed
  BY DEF HistoryInv
<1> QED
  BY <1>1, History, PTL

\* A call hands out no more signatures than the host has announced inputs
\* (signTx_handleInitAPDU: numWitnesses, signTx_handleWitnessAPDU).
THEOREM SignaturesWithinBudget == Spec => []WitnessBudget
<1>1. Inv /\ HistoryInv => WitnessBudget
  <2> SUFFICES ASSUME Inv, HistoryInv PROVE WitnessBudget
    OBVIOUS
  <2>1. ghost.signatures <= ghost.announced.inputs /\ ghost.signatures \in Nat
    BY DEF HistoryInv, Inv, CallTypeOK, Ghost
  <2>2. CASE On /\ SendsSignature
    <3>1. Sending /\ reply.data # NoData
      BY <2>2 DEF SendsSignature, NoData
    <3>2. reply.then \in {"busy", "witness"} /\ currentInstruction = SIGN_TX
      BY <3>1 DEF Inv, ReplyInv
    <3>3. Live
      BY <2>2, <3>2 DEF Live
    <3>4. ghost.signatures + 1 <= ghost.announced.inputs
      BY <3>3, OneMoreSignature
    <3> QED
      BY <2>2, <3>4 DEF WitnessBudget
  <2>3. CASE ~(On /\ SendsSignature)
    BY <2>1, <2>3 DEF WitnessBudget
  <2> QED
    BY <2>2, <2>3
<1> QED
  BY <1>1, History, PTL

-----------------------------------------------------------------------------
(***************************************************************************)
(* What the items of a hash are worth.                                     *)
(***************************************************************************)

\* The items of a kind are finitely many, and one more item is one more of its own
\* kind only.
LEMMA ItemsAppend ==
  ASSUME NEW h \in Seq(Item), NEW it \in Item, NEW kind
  PROVE  /\ IsFiniteSet(Items(h, kind))
         /\ Items(h, kind) \subseteq 1 .. Len(h) /\ Len(h) + 1 \notin Items(h, kind)
         /\ Items(Append(h, it), kind) =
              IF it.item = kind THEN Items(h, kind) \cup {Len(h) + 1} ELSE Items(h, kind)
         /\ \A k \in Items(h, kind) : Append(h, it)[k] = h[k]
         /\ Append(h, it)[Len(h) + 1] = it
<1>1. /\ DOMAIN h = 1 .. Len(h) /\ Len(h) \in Nat
      /\ DOMAIN Append(h, it) = 1 .. Len(h) + 1
      /\ \A k \in 1 .. Len(h) : Append(h, it)[k] = h[k]
      /\ Append(h, it)[Len(h) + 1] = it
  BY AppendProperties, LenProperties
<1>2. IsFiniteSet(1 .. Len(h))
  BY <1>1, FS_Interval
<1>3. Items(h, kind) \subseteq 1 .. Len(h)
  BY <1>1 DEF Items
<1>4. IsFiniteSet(Items(h, kind))
  BY <1>2, <1>3, FS_Subset
<1>5. 1 .. Len(h) + 1 = 1 .. Len(h) \cup {Len(h) + 1} /\ Len(h) + 1 \notin 1 .. Len(h)
  BY <1>1
<1>6. Items(Append(h, it), kind) =
        IF it.item = kind THEN Items(h, kind) \cup {Len(h) + 1} ELSE Items(h, kind)
  BY <1>1, <1>5 DEF Items
<1> QED
  BY <1>1, <1>3, <1>4, <1>5, <1>6

\* Nothing has been hashed: nothing is worth anything.
LEMMA NothingIsWorthNothing ==
  /\ SumFunction(InputAmounts(ZeroHash)) = 0
  /\ SumFunction(OutputAmounts(ZeroHash)) = 0
  /\ Named(ZeroHash)
<1>1. DOMAIN ZeroHash = {}
  BY DEF ZeroHash
<1>2. InputAmounts(ZeroHash) \in [{} -> Nat] /\ OutputAmounts(ZeroHash) \in [{} -> Nat]
  BY <1>1 DEF InputAmounts, OutputAmounts, Items
<1>3. Named(ZeroHash)
  BY <1>1 DEF Named, Items
<1> QED
  BY <1>2, <1>3, SumOfNothing

\* An item of another kind adds nothing to either sum.
LEMMA AmountsStay ==
  ASSUME NEW h \in Seq(Item), NEW it \in Item
  PROVE  /\ it.item # "input" => /\ InputAmounts(Append(h, it)) = InputAmounts(h)
                                 /\ Named(h) => Named(Append(h, it))
         /\ it.item # "output" => OutputAmounts(Append(h, it)) = OutputAmounts(h)
<1>1. ASSUME it.item # "input"
      PROVE  /\ InputAmounts(Append(h, it)) = InputAmounts(h)
             /\ Named(h) => Named(Append(h, it))
  <2>1. /\ Items(Append(h, it), "input") = Items(h, "input")
        /\ \A k \in Items(h, "input") : Append(h, it)[k] = h[k]
    BY <1>1, ItemsAppend
  <2> QED
    BY <2>1 DEF InputAmounts, Named
<1>2. ASSUME it.item # "output" PROVE OutputAmounts(Append(h, it)) = OutputAmounts(h)
  <2>1. /\ Items(Append(h, it), "output") = Items(h, "output")
        /\ \A k \in Items(h, "output") : Append(h, it)[k] = h[k]
    BY <1>2, ItemsAppend
  <2> QED
    BY <2>1 DEF OutputAmounts
<1> QED
  BY <1>1, <1>2

\* An input adds its amount.
LEMMA InputAdds ==
  ASSUME NEW h \in Seq(Item), Named(h), NEW u \in Utxos
  PROVE  /\ Named(Append(h, InputItem(u)))
         /\ SumFunction(InputAmounts(Append(h, InputItem(u)))) =
              SumFunction(InputAmounts(h)) + AmountOf[u]
         /\ OutputAmounts(Append(h, InputItem(u))) = OutputAmounts(h)
<1> DEFINE it == InputItem(u)
           x == Len(h) + 1
<1>1. it \in Item /\ it.item = "input" /\ it.utxo = u
  BY InputItemType DEF InputItem, Token
<1>2. AmountOf[u] \in Nat /\ \A v \in Utxos : AmountOf[v] \in Nat
  BY UtxosAssumption, AmountsAssumption
<1> HIDE DEF it
<1>3. /\ IsFiniteSet(Items(h, "input")) /\ x \notin Items(h, "input")
      /\ Items(Append(h, it), "input") = Items(h, "input") \cup {x}
      /\ \A k \in Items(h, "input") : Append(h, it)[k] = h[k]
      /\ Append(h, it)[x] = it
  BY <1>1, ItemsAppend
<1>4. \A k \in Items(h, "input") : h[k].utxo \in Utxos
  BY DEF Named
<1>5. InputAmounts(h) \in [Items(h, "input") -> Nat]
  BY <1>2, <1>4 DEF InputAmounts
<1>6. InputAmounts(Append(h, it)) = With(InputAmounts(h), x, AmountOf[u])
  BY <1>1, <1>3 DEF InputAmounts, With
<1> HIDE DEF x
<1>7. SumFunction(InputAmounts(Append(h, it))) = SumFunction(InputAmounts(h)) + AmountOf[u]
  BY <1>2, <1>3, <1>5, <1>6, SumOfMore
<1>8. OutputAmounts(Append(h, it)) = OutputAmounts(h)
  BY <1>1, AmountsStay
<1>9. Named(Append(h, it))
  BY <1>1, <1>3, <1>4 DEF Named
<1> QED
  BY <1>7, <1>8, <1>9 DEF it

\* And so does an output.
LEMMA OutputAdds ==
  ASSUME NEW h \in Seq(Item), NEW a \in Address, NEW n \in Amounts
  PROVE  /\ SumFunction(OutputAmounts(Append(h, OutputItem(a, n)))) =
              SumFunction(OutputAmounts(h)) + n
         /\ InputAmounts(Append(h, OutputItem(a, n))) = InputAmounts(h)
         /\ Named(h) => Named(Append(h, OutputItem(a, n)))
<1> DEFINE it == OutputItem(a, n)
           x == Len(h) + 1
<1>1. it \in Item /\ it.item = "output" /\ it.amount = n
  BY OutputItemType DEF OutputItem, Token
<1>2. n \in Nat /\ Amounts \subseteq Nat
  BY AmountsAssumption DEF Amounts
<1> HIDE DEF it
<1>3. /\ IsFiniteSet(Items(h, "output")) /\ x \notin Items(h, "output")
      /\ Items(Append(h, it), "output") = Items(h, "output") \cup {x}
      /\ \A k \in Items(h, "output") : Append(h, it)[k] = h[k]
      /\ Append(h, it)[x] = it
  BY <1>1, ItemsAppend
<1>4. \A k \in Items(h, "output") : h[k].amount \in Nat
  <2>1. \A k \in DOMAIN h : h[k] \in Item
    BY ElementOfSeq, LenProperties
  <2>2. \A i \in Item : i.amount \in Nat
    BY <1>2 DEF Item
  <2> QED
    BY <2>1, <2>2 DEF Items
<1>5. OutputAmounts(h) \in [Items(h, "output") -> Nat]
  BY <1>4 DEF OutputAmounts
<1>6. OutputAmounts(Append(h, it)) = With(OutputAmounts(h), x, n)
  <2> DEFINE e == Append(h, it)
  <2>1. Items(e, "output") = Items(h, "output") \cup {x}
    BY <1>3
  <2>2. e[x].amount = n /\ \A k \in Items(h, "output") : e[k].amount = h[k].amount
    BY <1>1, <1>3
  <2> HIDE DEF e, x
  <2>3. OutputAmounts(e) = With(OutputAmounts(h), x, n)
    BY <1>3, <2>1, <2>2 DEF OutputAmounts, With
  <2> QED
    BY <2>3 DEF e
<1> HIDE DEF x
<1>7. SumFunction(OutputAmounts(Append(h, it))) = SumFunction(OutputAmounts(h)) + n
  BY <1>2, <1>3, <1>5, <1>6, SumOfMore
<1>8. InputAmounts(Append(h, it)) = InputAmounts(h) /\ (Named(h) => Named(Append(h, it)))
  BY <1>1, AmountsStay
<1> QED
  BY <1>7, <1>8 DEF it

\* A token is worth nothing.
LEMMA TokenAddsNothing ==
  ASSUME NEW h \in Seq(Item), NEW t \in {"tx", "inputs", "outputs", "metadata"}
  PROVE  /\ InputAmounts(Append(h, Token(t))) = InputAmounts(h)
         /\ OutputAmounts(Append(h, Token(t))) = OutputAmounts(h)
         /\ Named(h) => Named(Append(h, Token(t)))
<1>1. Token(t) \in Item /\ Token(t).item = t
  BY TokenType DEF Token
<1> HIDE DEF Token
<1> QED
  BY <1>1, AmountsStay

-----------------------------------------------------------------------------
(***************************************************************************)
(* WorthInv.                                                               *)
(***************************************************************************)

\* Where a request starts, the sums are those of what has been hashed.
LEMMA BeginsWorth ==
  ASSUME Inv, HistoryInv, WorthInv, NEW c, NEW g, Begins(c, g)
  PROVE  /\ c \in Context /\ g \in Ghost
         /\ WorthOk(c.hashed, g) /\ ConfirmedWorthOk(g)
         /\ g.confirmedHash \in {ghost.confirmedHash, ZeroHash}
         /\ c.stage # "WITNESSES" => g.confirmedHash = ZeroHash
<1>1. ctx \in Context /\ ghost \in Ghost
  BY DEF Inv, CallTypeOK
<1>2. CASE Live /\ ~WaitsForUser /\ c = ctx /\ g = ghost
  <2>1. NextCallback = "none"
    BY <1>2 DEF NextCallback
  <2>2. CallOk(c, g, "none", display.what)
    BY <1>2, <2>1 DEF HistoryInv
  <2>3. c.stage # "WITNESSES" => g.confirmedHash = ZeroHash
    BY <2>2 DEF CallOk, SeenOk
  <2> QED
    BY <1>1, <1>2, <2>3 DEF WorthInv
<1>3. CASE c = ZeroContext /\ g = ZeroGhost
  <2>1. c.hashed = ZeroHash /\ c.hashed = <<>>
    BY <1>3 DEF ZeroContext, ZeroHash
  <2>2. g.exactIn = 0 /\ g.exactOut = 0 /\ g.confirmedHash = ZeroHash
    BY <1>3 DEF ZeroGhost
  <2>3. WorthOk(c.hashed, g) /\ ConfirmedWorthOk(g)
    BY <2>1, <2>2, NothingIsWorthNothing DEF WorthOk, ConfirmedWorthOk
  <2> QED
    BY <1>1, <1>3, <2>2, <2>3, ZeroContextType
<1> QED
  BY <1>2, <1>3 DEF Begins

\* A button may confirm what has been hashed, and nothing else.
LEMMA PressesWorth ==
  ASSUME Inv, HistoryInv, WorthInv, NEW c, NEW g, NEW cb, Presses(c, g, cb)
  PROVE  /\ c \in Context /\ g \in Ghost
         /\ WorthOk(c.hashed, g) /\ ConfirmedWorthOk(g)
         /\ Live /\ (g.confirmedHash = ghost.confirmedHash \/ g.confirmedHash = ctx.hashed)
<1>1. /\ c = ctx /\ c \in Context /\ ghost \in Ghost /\ g \in Ghost
      /\ g = Acknowledged(c, ghost, display.what)
      /\ ContextOk(c, ghost, cb)
      /\ ScreenOk(c, ghost, display.what, cb)
      /\ CallOk(c, ghost, cb, display.what)
  BY PressesOld
<1>2. Live
  BY DEF Presses
<1>3. /\ g.exactIn = ghost.exactIn /\ g.exactOut = ghost.exactOut
      /\ g.confirmedHash = IF display.what = FinalPrompt THEN c.txHash ELSE ghost.confirmedHash
  BY <1>1 DEF Acknowledged, Ghost
<1>4. display.what = FinalPrompt => c.txHash = c.hashed
  <2> SUFFICES ASSUME display.what = FinalPrompt PROVE c.txHash = c.hashed
    OBVIOUS
  <2>1. cb = "confirm" /\ c.stage = "CONFIRM"
    BY <1>1 DEF ScreenOk
  <2>2. c.builder = "FINISHED"
    BY <1>1, <2>1 DEF ContextOk, BuilderOk
  <2> QED
    BY <1>1, <2>2 DEF CallOk, TxHashOk
<1>5. WorthOk(c.hashed, g)
  BY <1>1, <1>2, <1>3 DEF WorthInv, WorthOk
<1>6. ConfirmedWorthOk(g)
  BY <1>3, <1>4, <1>5 DEF WorthInv, ConfirmedWorthOk, WorthOk
<1> QED
  BY <1>1, <1>2, <1>3, <1>4, <1>5, <1>6

\* A step that leaves the sums alone, and a hash that at most a token is added to.
LEMMA SameWorth ==
  ASSUME NEW c, c.hashed \in Seq(Item), NEW d, NEW g,
         WorthOk(c.hashed, g), ConfirmedWorthOk(g),
         \/ d.hashed = c.hashed
         \/ \E t \in {"tx", "inputs", "outputs", "metadata"} :
              d.hashed = Append(c.hashed, Token(t)),
         ctx' = d, ghost' = g
  PROVE  WorthInv'
<1>1. WorthOk(d.hashed, g)
  BY TokenAddsNothing DEF WorthOk
<1> QED
  BY <1>1 DEF WorthInv, WorthOk, ConfirmedWorthOk

\* P1 = 1: the first item is a token.
LEMMA StartsCallWorth ==
  ASSUME Inv, HistoryInv, WorthInv, NEW counts \in [inputs: Nat, outputs: Nat],
         StartsCall(counts)
  PROVE  WorthInv' /\ ConfirmationStep
<1> DEFINE d == CountedContext(counts)
           g == [ZeroGhost EXCEPT !.announced = counts]
<1>1. ctx' = d /\ ghost' = g
  BY DEF StartsCall, Shows, Leaves
<1>2. d.hashed = Append(ZeroContext.hashed, Token("tx")) /\ ZeroContext.hashed = ZeroHash
  BY DEF CountedContext, ZeroContext, ZeroHash
<1>3. g.exactIn = 0 /\ g.exactOut = 0 /\ g.confirmedHash = ZeroHash
  BY DEF ZeroGhost
<1> HIDE DEF d, g
<1>4. WorthOk(ZeroContext.hashed, g) /\ ConfirmedWorthOk(g)
  BY <1>2, <1>3, NothingIsWorthNothing DEF WorthOk, ConfirmedWorthOk
<1>5. WorthInv'
  <2>1. ZeroContext.hashed \in Seq(Item)
    BY <1>2, EmptyTypes
  <2> QED
    BY <1>1, <1>2, <1>4, <2>1, SameWorth
<1> QED
  BY <1>1, <1>3, <1>5 DEF ConfirmationStep

\* P1 = 2.
LEMMA AddsInputWorth ==
  ASSUME Inv, HistoryInv, WorthInv, NEW c, NEW g, NEW u \in Utxos, AddsInput(c, g, u)
  PROVE  WorthInv' /\ ConfirmationStep
<1> DEFINE w == WithInput(c, u)
           d == CountedInput(w)
           h == [g EXCEPT !.exactIn = @ + AmountOf[u]]
<1>1. /\ Begins(c, g) /\ c.stage = "INPUTS"
      /\ ctx' = d /\ ghost' = h
  BY DEF AddsInput, Answers, Leaves
<1>2. /\ c \in Context /\ g \in Ghost
      /\ WorthOk(c.hashed, g)
      /\ g.confirmedHash = ZeroHash
  BY <1>1, BeginsWorth
<1>3. c.hashed \in Seq(Item) /\ InputItem(u) \in Item
  BY <1>2, InputItemType DEF Context
<1>4. w.hashed = Append(c.hashed, InputItem(u)) /\ w.hashed \in Seq(Item)
  <2>1. w.hashed = Append(c.hashed, InputItem(u))
    BY <1>2 DEF WithInput, Context
  <2> QED
    BY <1>3, <2>1, AppendToHash
<1>5. d.hashed = w.hashed \/ d.hashed = Append(w.hashed, Token("outputs"))
  BY <1>2 DEF CountedInput, WithInput, txHashBuilder_enterOutputs, Context
<1>6. /\ h.exactIn = g.exactIn + AmountOf[u] /\ h.exactOut = g.exactOut
      /\ h.confirmedHash = g.confirmedHash
  BY <1>2 DEF Ghost
<1> HIDE DEF w, d, h
<1>7. WorthOk(w.hashed, h)
  BY <1>2, <1>3, <1>4, <1>6, InputAdds DEF WorthOk
<1>8. ConfirmedWorthOk(h)
  BY <1>2, <1>6 DEF ConfirmedWorthOk
<1>9. WorthInv'
  BY <1>1, <1>4, <1>5, <1>7, <1>8, SameWorth
<1> QED
  BY <1>1, <1>2, <1>6, <1>9 DEF ConfirmationStep

\* P1 = 3.
LEMMA AddsOutputWorth ==
  ASSUME Inv, HistoryInv, WorthInv, NEW c, NEW g,
         NEW p \in Path, NEW a \in Address, NEW n \in Amounts, AddsOutput(c, g, p, a, n)
  PROVE  WorthInv' /\ ConfirmationStep
<1> DEFINE w(step) == WithOutput(c, p, a, n, step)
           h == [g EXCEPT !.exactOut = @ + n]
<1>1. /\ Begins(c, g) /\ c.stage = "OUTPUTS" /\ ghost' = h
      /\ \/ ctx' = w("OUTPUT_DISPLAY_ADDRESS")
         \/ ctx' = CountedOutput(w("OUTPUT_RESPOND"))
  BY DEF AddsOutput, Shows, Answers, Leaves
<1>2. /\ c \in Context /\ g \in Ghost
      /\ WorthOk(c.hashed, g)
      /\ g.confirmedHash = ZeroHash
  BY <1>1, BeginsWorth
<1>3. c.hashed \in Seq(Item) /\ OutputItem(a, n) \in Item
  BY <1>2, OutputItemType DEF Context
<1>4. /\ \A step : w(step).hashed = Append(c.hashed, OutputItem(a, n))
      /\ Append(c.hashed, OutputItem(a, n)) \in Seq(Item)
  <2>1. \A step : w(step).hashed = Append(c.hashed, OutputItem(a, n))
    BY <1>2 DEF WithOutput, Context
  <2> QED
    BY <1>3, <2>1, AppendToHash
<1>5. /\ h.exactOut = g.exactOut + n /\ h.exactIn = g.exactIn
      /\ h.confirmedHash = g.confirmedHash
  BY <1>2 DEF Ghost
<1>6. LET d == CountedOutput(w("OUTPUT_RESPOND"))
      IN \/ d.hashed = w("OUTPUT_RESPOND").hashed
         \/ d.hashed = Append(w("OUTPUT_RESPOND").hashed, Token("metadata"))
  BY <1>2 DEF CountedOutput, WithOutput, txHashBuilder_enterMetadata, Context
<1> HIDE DEF w, h
<1>7. \A step : WorthOk(w(step).hashed, h)
  <2>1. WorthOk(Append(c.hashed, OutputItem(a, n)), h)
    BY <1>2, <1>3, <1>5, OutputAdds DEF WorthOk
  <2> QED
    BY <1>4, <2>1
<1>8. ConfirmedWorthOk(h)
  BY <1>2, <1>5 DEF ConfirmedWorthOk
<1>9. CASE ctx' = w("OUTPUT_DISPLAY_ADDRESS")
  <2>1. WorthInv'
    BY <1>1, <1>4, <1>7, <1>8, <1>9, SameWorth
  <2> QED
    BY <1>1, <1>2, <1>5, <2>1 DEF ConfirmationStep
<1>10. CASE ctx' = CountedOutput(w("OUTPUT_RESPOND"))
  <2>1. WorthInv'
    BY <1>1, <1>4, <1>6, <1>7, <1>8, <1>10, SameWorth
  <2> QED
    BY <1>1, <1>2, <1>5, <2>1 DEF ConfirmationStep
<1> QED
  BY <1>1, <1>9, <1>10

\* The other requests and the buttons: at most a token is hashed.
LEMMA GoesOnWorth ==
  ASSUME Inv, HistoryInv, WorthInv, NEW c, NEW g, NEW d,
         Begins(c, g) \/ \E cb : Presses(c, g, cb),
         \/ d.hashed = c.hashed
         \/ \E t \in {"tx", "inputs", "outputs", "metadata"} :
              d.hashed = Append(c.hashed, Token(t)),
         ctx' = d, ghost' = g
  PROVE  WorthInv' /\ ConfirmationStep
<1>1. /\ c \in Context /\ WorthOk(c.hashed, g) /\ ConfirmedWorthOk(g)
      /\ \/ g.confirmedHash \in {ghost.confirmedHash, ZeroHash}
         \/ Live /\ g.confirmedHash = ctx.hashed
  BY BeginsWorth, PressesWorth
<1>2. c.hashed \in Seq(Item)
  BY <1>1 DEF Context
<1>3. WorthInv'
  BY <1>1, <1>2, SameWorth
<1> QED
  BY <1>1, <1>3 DEF ConfirmationStep, ConfirmsHashed

\* Each of them is such a step.
LEMMA QuietWorth ==
  ASSUME Inv, HistoryInv, WorthInv, NEW c \in Context, NEW g \in Ghost,
         \/ OpensInputs(c, g)
         \/ ShowsAddress(c, g)
         \/ FinishesOutput(c, g)
         \/ ShowsFee(c, g)
         \/ AsksToConfirm(c, g)
         \/ ReleasesHash(c, g)
         \/ \E p \in Path : MakesSignature(c, g, p)
         \/ ShowsWitnessPath(c, g)
         \/ AsksForWitness(c, g)
         \/ SendsWitness(c, g)
  PROVE  WorthInv' /\ ConfirmationStep
<1>1. Begins(c, g) \/ \E cb : Presses(c, g, cb)
  BY DEF OpensInputs, ShowsAddress, FinishesOutput, ShowsFee, AsksToConfirm, ReleasesHash,
         MakesSignature, ShowsWitnessPath, AsksForWitness, SendsWitness
<1>2. ghost' = g
  BY DEF OpensInputs, ShowsAddress, FinishesOutput, ShowsFee, AsksToConfirm, ReleasesHash,
         MakesSignature, ShowsWitnessPath, AsksForWitness, SendsWitness, Shows, Answers,
         Leaves
<1>3. CASE OpensInputs(c, g)
  <2>1. ctx' = [txHashBuilder_enterInputs(c) EXCEPT !.stage = "INPUTS"]
    BY <1>3 DEF OpensInputs, Answers, Leaves
  <2>2. ctx'.hashed = Append(c.hashed, Token("inputs"))
    BY <2>1 DEF txHashBuilder_enterInputs, Context
  <2> QED
    BY <1>1, <1>2, <2>2, GoesOnWorth
<1>4. CASE FinishesOutput(c, g)
  <2>1. ctx' = CountedOutput(c)
    BY <1>4 DEF FinishesOutput, Answers, Leaves
  <2>2. ctx'.hashed = c.hashed \/ ctx'.hashed = Append(c.hashed, Token("metadata"))
    BY <2>1 DEF CountedOutput, txHashBuilder_enterMetadata, Context
  <2> QED
    BY <1>1, <1>2, <2>2, GoesOnWorth
<1>5. CASE ~OpensInputs(c, g) /\ ~FinishesOutput(c, g)
  <2>1. ctx'.hashed = c.hashed
    BY <1>5
       DEF ShowsAddress, ShowsFee, AsksToConfirm, ReleasesHash, MakesSignature,
           ShowsWitnessPath, AsksForWitness, SendsWitness, Shows, Answers, Leaves,
           WithFee, WithWitness, txHashBuilder_finalize, Context
  <2> QED
    BY <1>1, <1>2, <2>1, GoesOnWorth
<1> QED
  BY <1>3, <1>4, <1>5

\* What does not add to the sums and does not confirm leaves them alone.
LEMMA UntouchedWorth ==
  ASSUME WorthInv, NEW g, ghost' = g,
         g.exactIn = ghost.exactIn, g.exactOut = ghost.exactOut,
         g.confirmedHash = ghost.confirmedHash,
         Live' => Live /\ ctx'.hashed = ctx.hashed
  PROVE  WorthInv' /\ ConfirmationStep
  BY DEF WorthInv, WorthOk, ConfirmedWorthOk, ConfirmationStep

\* The call ends, or there is none.
LEMMA EndsWorth ==
  ASSUME Inv, HistoryInv, WorthInv, Ends
  PROVE  WorthInv' /\ ConfirmationStep
<1>1. ~Live' /\ ghost \in Ghost
  BY DEF Ends, NoCall, Inv, CallTypeOK
<1>2. CASE \E c, g : (Begins(c, g) \/ \E cb : Presses(c, g, cb)) /\ ghost' = g
  <2>1. PICK c, g : (Begins(c, g) \/ \E cb : Presses(c, g, cb)) /\ ghost' = g
    BY <1>2
  <2>2. /\ ConfirmedWorthOk(g)
        /\ \/ g.confirmedHash \in {ghost.confirmedHash, ZeroHash}
           \/ Live /\ g.confirmedHash = ctx.hashed
    BY <2>1, BeginsWorth, PressesWorth
  <2> QED
    BY <1>1, <2>1, <2>2
       DEF WorthInv, WorthOk, ConfirmedWorthOk, ConfirmationStep, ConfirmsHashed
<1>3. CASE ghost' = [ghost EXCEPT !.signatures = @ + 1]
  <2> DEFINE g == [ghost EXCEPT !.signatures = @ + 1]
  <2>1. /\ g.exactIn = ghost.exactIn /\ g.exactOut = ghost.exactOut
        /\ g.confirmedHash = ghost.confirmedHash
    BY <1>1 DEF Ghost
  <2> HIDE DEF g
  <2> QED
    BY <1>1, <1>3, <2>1, UntouchedWorth DEF g
<1>4. CASE ghost' = ghost
  BY <1>1, <1>4, UntouchedWorth
<1> QED
  BY <1>2, <1>3, <1>4 DEF Ends

\* Every step keeps the sums those of the hash.
LEMMA NextWorth ==
  ASSUME Inv, HistoryInv, WorthInv, [Next]_vars
  PROVE  WorthInv' /\ ConfirmationStep
<1>1. CallStep
  BY NextIsCallStep
<1>2. ghost \in Ghost /\ ctx \in Context
  BY DEF Inv, CallTypeOK
<1>3. CASE \E counts \in [inputs: Nat, outputs: Nat] : StartsCall(counts)
  BY <1>3, StartsCallWorth
<1>4. CASE \E c \in Context, g \in Ghost :
             \/ \E u \in Utxos : AddsInput(c, g, u)
             \/ \E p \in Path, a \in Address, n \in Amounts : AddsOutput(c, g, p, a, n)
  BY <1>4, AddsInputWorth, AddsOutputWorth
<1>5. CASE \E c \in Context, g \in Ghost :
             \/ OpensInputs(c, g)
             \/ ShowsAddress(c, g)
             \/ FinishesOutput(c, g)
             \/ ShowsFee(c, g)
             \/ AsksToConfirm(c, g)
             \/ ReleasesHash(c, g)
             \/ \E p \in Path : MakesSignature(c, g, p)
             \/ ShowsWitnessPath(c, g)
             \/ AsksForWitness(c, g)
             \/ SendsWitness(c, g)
  BY <1>5, QuietWorth
<1>6. CASE GoesOn
  <2>1. Live /\ ctx'.hashed = ctx.hashed
    BY <1>2, <1>6 DEF GoesOn, Leaves, WitnessSent, Context
  <2>2. /\ ghost'.exactIn = ghost.exactIn /\ ghost'.exactOut = ghost.exactOut
        /\ ghost'.confirmedHash = ghost.confirmedHash
    BY <1>2, <1>6 DEF GoesOn, Leaves, Ghost
  <2> QED
    BY <2>1, <2>2, UntouchedWorth
<1>7. CASE Ends
  BY <1>7, EndsWorth
<1>8. CASE Idles
  BY <1>8, UntouchedWorth DEF Idles
<1> QED
  BY <1>1, <1>3, <1>4, <1>5, <1>6, <1>7, <1>8 DEF CallStep

\* At first there is nothing to add up.
LEMMA InitWorth == Init => WorthInv
<1> SUFFICES ASSUME Init PROVE WorthInv
  OBVIOUS
<1>1. ~Live /\ ghost.confirmedHash = ZeroHash
  BY DEF Init, PlatformInit, Live, INS_NONE, SIGN_TX, ZeroGhost
<1> QED
  BY <1>1 DEF WorthInv, ConfirmedWorthOk

\* The sums behind the fee are those of the inputs and the outputs that have been
\* hashed, wherever the call is and in whatever order the host sends its requests
\* (signTx_handleInputAPDU and signTx_handleOutputAPDU count and hash in one go).
THEOREM ExactSums == Spec => []WorthInv
<1>1. Init => WorthInv
  BY InitWorth
<1>2. Inv /\ HistoryInv /\ WorthInv /\ [Next]_vars => WorthInv'
  BY NextWorth
<1> QED
  BY <1>1, <1>2, History, PTL DEF Spec

-----------------------------------------------------------------------------
\* Between calls, whichever instruction had the last one, HistoryInv and WorthInv
\* are what is left of the last call of this one.
LEMMA BetweenCallsHistory ==
  ASSUME On, currentInstruction = INS_NONE, Idle,
         ghost.signatures <= ghost.announced.inputs,
         HashIsWholeTransaction, UserSawTransaction, FeeIsExact, ConfirmedWorthOk(ghost)
  PROVE  HistoryInv /\ WorthInv
<1>1. ~Live
  BY DEF Live, INS_NONE, SIGN_TX
<1>2. ~SendsSignature
  BY BetweenCallsReply DEF SendsSignature, NoData
<1>3. InputsAreCertified /\ UnusualWitnessIsConfirmed
  BY <1>2 DEF InputsAreCertified, UnusualWitnessIsConfirmed, INS_NONE, SIGN_TX
<1> QED
  BY <1>1, <1>3 DEF HistoryInv, WorthInv
=============================================================================
