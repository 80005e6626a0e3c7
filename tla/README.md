# A TLA+ model of the Cardano Ledger application

This directory holds TLA+ modules, TLC configurations and TLAPS proofs about the
firmware application in `src/` (C, Ledger Nano S/X). Paths in this file are
relative to the repository; `signTx.c` is `src/signTx.c`.

The application holds keys. A host, which is not trusted, sends it requests
(APDUs); the user sees what the device displays and presses a button. What must be
right is therefore the relation between *what the host sent*, *what the user saw
and confirmed* and *what leaves the device*, in every order of requests, buttons,
locks and resets.

## 1. Inventory

One thread, no heap, no persistent state of its own. The program waits in
`io_exchange` only; there the SDK calls back with button, USB and timer events. A
handler either answers (`io_send_buf`, which waits for the end of the
transmission with `IO_RETURN_AFTER_TX`) or puts up a screen whose callback goes
on later. One union (`instructionState`) is the context of the open call.

| component | source | state | operations | model |
|---|---|---|---|---|
| main loop, dispatch | `main.c`, `handlers.c`, `state.h`, `errors.h` | `currentInstruction`, the context union | receive, dispatch, catch, `ui_idle`, reset | `Platform`, `CardanoApp` |
| APDU transport | `io.c` | `io_state`, the response, `timeout_cb` | `io_send_buf`, `CHECK_RESPONSE`, unlock check, ticker | `Platform`, `Screens` |
| screens | `uiHelpers.c`, `uiHelpers_nanos.c` | the union `displayState`, `ui_callback_t` | display, scroll, confirm, reject, busy, idle, timer | `Platform`, `Screens` |
| Nano X screens | `uiHelpers_nanox.c` | the step of a flow; the same callbacks | turn, click | `Screens` |
| transaction signing | `signTx.c` | `ins_sign_tx_context_t`: stage, `ui_step`, counters, sums, hash, witness | init, input, output, confirm, witness, and five run-step functions | `SignTx`, `SigningSession` |
| hash builder | `txHashBuilder.c` | builder state, hash context | `enter*`, `add*`, `finalize` | `SignTx` |
| UTxO attestation | `attestUtxo.c` | parser: main/inputs/outputs states, counters, attested amount | init, data, parser steps | `TxParser`, `AttestUtxo` |
| byte stream | `stream.c` | buffer and position | append, advance, shift | `TxParser` |
| CBOR tokens | `cbor.c` | none | peek, take, append; parse and write bytes | `TxEncoding`, `TxParser`; `AddressBox` |
| attestation key | `attestKey.c` | a key drawn at start | init, write, parse and check the HMAC | `CardanoApp` (`certificates`), `SignTx` (`attested`) |
| key and address export | `getExtendedPublicKey.c`, `deriveAddress.c`, `getVersion.c` | the context: path, key or address, `responseReadyMagic`, `ui_step` | one handler and a run-step function each | `PublicKeys` |
| derivation paths | `bip44.c` | none | parse, classify, print | `Bip44`, `Texts` |
| security policy | `securityPolicy.c` | none | one decision per use of a path | `SecurityPolicy` |
| addresses | `addressUtils.c`, `base58.c`, `crc32.c` | none | unpack, derive, pack, check, base58 | `AddressBox`, `Texts`; sizes in `SignTx` |
| key derivation, signatures | `keyDerivation.c`, `messageSigning.c` | none | derive, sign | by their assertions and their arguments |
| texts, byte views | `textUtils.c`, `bufView.h`, `endian.h` | none | print an amount; read and write bytes | `Texts`, `AddressBox` |
| hashes, hex | `hash.h`, `hmac.c`, `hex_utils.c` | none | pure functions | not modelled |
| menu, device tests | `menu_nanos.c`, `menu_nanox.c`, `runTests.c`, `*_test.c` | none that the rest reads | | not modelled |

**Interactions.** `main.c` calls one handler for an APDU; a handler calls the policy,
the parser or the builder, and ends with an answer, a screen or an exception. A
screen's two buttons call the run-step function of the same instruction, which reads
`ui_step` from the shared context, shows the next screen, or answers. The only link
between instructions is the attestation key: `attestUtxo.c` writes certificates that
`signTx.c` accepts as inputs, in the same run of the application.

**What is hard.**

* *Protocol sequences*: the five phases of a signature may be sent in any order, with
  any counts, and each handler has its own subset of stage checks.
* *State across screens*: `ui_step`, the path, the witness and the sums are written before
  a screen and read after the button; the context is a union.
* *One answer per request*: a button pressed during a transmission, a screen left over
  from a call that has ended, an exception from a callback (`CATCH` in
  `uiHelpers.c`) rather than from the main loop.
* *Numeric edges*: 32-bit counts cut to 16, 64-bit sums, path lengths of 9, 10 and 11, packed
  addresses of 124 bytes, the limits of CBOR widths, texts that just fit their buffers, the last
  place of a scroller.
* *Partial input*: a transaction is streamed in chunks cut anywhere, and a token that is not
  complete must be left unread.
* *Time*: in HEADLESS builds a timer presses the button, perhaps after the user has.
* *Failure*: device locked, USB reset, an assertion that resets the device, at any wait.

`PROJECT.json` lists each of these at its line, with the properties that cover it, or the
reason why none does.

**What makes each part correct.** Platform: every request gets exactly one answer
and no screen outlives its request. Signing: the hash and every signature that leave the
device are of what the user confirmed; the hash is of exactly the announced
transaction; the fee shown is the fee; inputs are certified; one signature per input at
most. Attestation: a certificate tells the truth about one output of one complete
transaction, however it is cut. Export: what is sent or shown belongs to the path that
was asked for, after the screens its policy requires. Screens: what the user reads is all of the text,
and a text can be read in one way only. Paths and policy: total, and never laxer
than the handlers assume.

## 2. Modules

```
 Platform     Bip44 <- SecurityPolicy       TxParser <- TxEncoding     AddressBox
    |           |  \__        |                            |               |
    |         Texts   \       |                            |               |
    |           +------|------+--> Formats <---------------|---------------+
    |                  |      |       +- MCFormats         |
    |                  |      |           Platform --> AttestUtxo
    |                  |      |                            +- MCAttestUtxo
    |                  |      |                            +- AttestUtxoInvariant <- AttestUtxoProofs
    +--> SignTx <------+------+   (SignTx <- Subsequences <- SubsequencesProofs)
    |      +- SignTxInvariant
    |            +- SignTxSteps <- SignTxProofs
    |            |     +- SignTxHistory <- SignTxHistoryProofs
    |            +- SignTxSession (implements SigningSession) <- SignTxSessionProofs
    |                  +- MCSignTx
    +--> PublicKeys <- SecurityPolicy
    |      +- MCPublicKeys
    |      +- PublicKeysInvariant <- PublicKeysProofs
    +--> PlatformSteps (used by SignTxSteps, PublicKeysInvariant, CardanoAppInvariant)
    +--> CardanoApp (instances of SignTx, AttestUtxo, PublicKeys; implements CallProtocol)
    |      +- MCCardanoApp
    |      +- CardanoAppInvariant <- CardanoAppProofs
    +--> Screens (implements CallProtocol)
           +- MCScreens
           +- ScreensInvariant <- ScreensProofs
```

`XxxInvariant` has the inductive invariant of module Xxx and `XxxProofs` the proofs about it
(section 4). CardanoApp takes its three instructions as instances of the modules that hold their proofs, so
that a theorem about an instruction can be cited of the instance. **PlatformSteps** says what the
steps of all instructions look like from the platform, and gives each screen its turn in its request.

**Platform** owns `crashed`, `ioState`, `currentInstruction`, `display`, `reply`,
`locked` and the history bit `awaiting`. A step is what happens between two waits.
`Accepts(ins)` is `cardano_main` up to the call of the handler; `Respond`, `Throw`,
`Show`, `Crash` are `io_send_buf`, an exception with its `CATCH`, `ui_display*` and
`io_seproxyhal_se_reset`. `reply.then` says what the code does when the transmission is
over (`ui_idle`, `ui_displayBusy`, nothing, or the rest of the run-step function).
`RejectApdu` is every way in which `cardano_main` refuses an APDU before a handler.
A failed `ASSERT`, or an exception that has no answer, sets `crashed` to its cause; `Restart` is the
user opening the application again. A cause a careless host can bring about
(`HostCrashes`) is told from an assertion about the program itself (`InternalCrashes`).

**SignTx** models `signTx.c` whole. `XxxHandler(c, ...)` is the handler up to its
screens, as a function of the context; `XxxStep(c)` is the run-step function with its fall-through;
`HandleXxx` is the action. `ctx` is `instructionState.signTxContext`. The hash is the
sequence of items fed to it, so that two hashes are equal only if the data are, and
the zeroed buffer is the empty sequence. `attested` is the set of UTxOs whose
certificates verify under this run's key. `ghost` is history for the properties:
acknowledged screens, the confirmed hash, counts as announced, and the like; no guard
reads it.

**TxParser** is the parser of `attestUtxo.c` with `stream.c` and `cbor.c`, as
functions of the parser's state. A byte there is its place in a token, so that a prefix, a token of
another type and a longer encoding can all be told apart without modelling the bits. **TxEncoding**
defines independently what a transaction's bytes are: the reference the parser is checked
against. **AttestUtxo** composes them with the platform; each turn of the parser loop is a
step, with no wait in between.

**PublicKeys** models the instructions that end with one answer. **Bip44** and
**SecurityPolicy** translate the classification of paths and the decisions on them; both
are used by SignTx and PublicKeys.

**SigningSession** is what a signature is without its phases, screens and errors: a proposal
that grows item by item, one agreement to all of it, a budget of signatures over what has been
agreed to, and nothing left after the end. **SignTxSession** has the refinement mapping: the session
is the call as long as its context may be used again, the proposal is what has been fed
to the hash, the agreement is the history of the last button, the budget is
`numWitnesses - currentWitness`. The abstract `Sign` lets a signature be over nothing before the
agreement, since the program does (section 5).

**CallProtocol** is what a host and a user may rely on, whatever the instruction: one answer to a
request, questions that only the user of an unlocked device moves away, none of them
put twice, and an error that ends the call.

**CardanoApp** is `handlers.c` over one main loop and one union: instances of the three
instruction modules on the same platform variables. For a new call `main.c` zeroes the
union, here the contexts of the two other instructions; within a call they stay at
zero. `certificates` stands for the key of `attestKey.c`: it collects what
`attestUtxo_sendResponse` answers and is what SignTx accepts as inputs, so that the amount of an
input is whatever the host made the parser find. In SignTx alone, and so in its proofs,
an action certifies UTxOs out of nowhere.

**Screens** opens up `Show`: the instruction is any list of texts and prompts, the union
`displayState` is `memory`, and there are three builds. The Nano S has the scroller, its arrows
(drawn by conditions of their own) and buttons that assert; the HEADLESS Nano S has the timer as
well, which clears itself, then looks at the lock, then asserts and presses; the Nano X
has the flows of the SDK's UX_FLOW library, which draws a text whole and calls back on both buttons.

**Texts** prints: amounts, paths and base58, with the sizes and assertions of their buffers, and says
how each is read. **AddressBox** is byte by byte: tokens, views, the checksum, and the boxes of
`addressUtils.c`. A number of 64 bits is the sequence of its significant bytes (in an amount: of its
digits), which is what width and canonical form are about and keeps the numbers in TLC's range.
**Formats** puts them together where the handlers call them, with a host that changes what
a wallet would send.

The `*_Xxx` operators next to some definitions are
plausible bugs, each used to show that a property can fail.

## 3. What is checked

| run | distinct states | question |
|---|---|---|
| `SignTx.cfg` | 65 306 | any order of the five phases with good and bad paths, addresses, counts, amounts, locks, resets: types, one answer, no stale screen, no internal assertion, confirmed hash, witness budget and confirmation, certified inputs; that it implements `SigningSession` |
| `SignTxOutputs.cfg` | 59 532 | longer transactions: the hash is of the whole announced transaction, the user saw all of it, the fee shown is exact; every request is answered |
| `AttestUtxo.cfg` | 127 192 | every cut of good and spoiled streams: certificates are true, nothing good is refused, nothing is asked for in vain, the buffer never overflows, the parser loop ends and every request is answered |
| `PublicKeys.cfg` | 2 687 | export and display for paths on both sides of every policy limit, with liveness |
| `CardanoApp.cfg` | 71 958 | all instructions together: the confirmed fee is true of the transactions that were attested; all calls follow `CallProtocol` |
| `Screens.cfg` | 7 233 | three builds, scrolling, flows, timer, locks: memory and screen agree, no assertion fails, a user who follows the arrows reads to the end, the timer confirms the screen it was set for, `CallProtocol` again, and an unattended HEADLESS device answers |
| `Formats.cfg` | 38 735 | amounts, paths, addresses and boxes around every limit: what is shown is what was sent and fits, and a box has one form only |

The counts are those of distinct states. Five more runs each show one place where the program and its documents differ (section 5).

**Bounds.** TLC needs no state constraint: counts and lengths are bounded by the program.
Amounts are scaled so that 2^64 is 16 and the supply is 5: an amount of 15
wraps a sum back below the supply, 2 stays under, and three of 2 exceed it. Counts are scaled
so that 2^16 is 8 with limits of 2 or 3: 8 is cut to 0, 9 to 1, and each limit has
a count on either side. The two UTxOs add up to exactly the supply; with one UTxO in the runs
about outputs it can be named twice, as the code allows. Addresses have the sizes where
`base58.c` (124), the packed buffer (200) and the raw one (200) give way. Paths: ordinary,
unusual, denied, one too deep to derive, and wires that are malformed in each way the
parser tells apart. In AttestUtxo a chunk has 0 to 2 bytes and a token up to 9, so
that every token longer than two bytes is cut at every place; the CBOR width limits are 4,
8, 32 and 40 so that amounts of every width occur, and the transactions have 0 to 2 inputs and outputs
with addresses shorter and longer than a chunk. Spoiled streams replace each
token in turn by one of another type, of an unknown type, or by a longer encoding.

In CardanoApp there is one transaction with two outputs, another with one, and
that one with a token after its end; the host may claim of an input the
truth, the amount of the other output, an output that does not exist, or the hash of the stream
that goes on. The supply is 12 and 2^64 is 32. In Screens the window has three characters and
texts have 0, 2, 3, 4, 5 and 8, which is one less than their buffer: shorter than the
window, as long, longer by one, and as long as can be; series of up to three screens. In
Formats sizes are those of the code. The host makes one to three changes to amounts at a million, a
thousand millions and 2^64 - 1 lovelaces, to paths of five to nine components with
ten-digit ones among them, to addresses of 0, 2 and 28 bytes, and to boxes of these; addresses
of 48, 124 and 125 bytes, and 64 bytes as of an extended public key, are printed as they are. `DeviceTests` in MCFormats holds the
functions against the vectors of the device's own tests.

**Fairness.** `WF(SendDone)`: a transmission, once started, ends; the SDK either sends or
reports a reset, which is a step of its own. `WF(KeepParsing)`, `WF(Finish)`: the processor goes on.
`WF(UnlockDevice)` and `SF` of the buttons: a user in front of the device unlocks
it and presses one of the buttons. The strength is needed because the device may lock and
unlock for ever, and justified because the claim is only about the program: the
documents promise an answer only after the user acts. In Screens only the timer (`WF(TickStep)`) and
transmissions are fair: of the user nothing is expected, and the claim is about runs
in which no button is pressed and no tick comes while the device is locked. Such a tick is lost and no
other follows, so an unattended device stays on its screen; locks between ticks do no harm, and the
run has them. Nothing is assumed of the host.

The liveness properties are `EveryRequestIsAnswered` and `UnattendedRunIsAnswered`;
`ImplementsSession` and `FollowsProtocol` are refinements (safety); the others are invariants and
action properties. Deadlock is checked in every run.

## 4. What is proved

Eight modules of proofs. The theorems hold for all values of the constants that
satisfy the named assumptions: no bound of section 3 is needed.

| theorem | module | establishes |
|---|---|---|
| `Invariant` | `SignTxProofs` | `Spec => []Inv`, the control state of a signature |
| `TypeCorrect` | | counters stay in 16 bits and sums in 64 |
| `OneAnswer`, `FreshScreens` | | `OneAnswerPerRequest`, `NoStaleScreen` |
| `NoInternalAssertFails` | | no assertion on the builder, the sums, `ui_step` or a button can fail |
| `HashIsConfirmed` | | the hash leaves only after the user confirmed that hash |
| `SignaturesAreConfirmedOrZero` | | a signature is over the confirmed hash, or over zeroes |
| `ErrorsEndCalls`, `OneTransmission` | | the action properties `ErrorEndsCall`, `NeverAnswersTwice` |
| `CallSteps` | | every step of SignTx is one of the few kinds that `SignTxSteps` lists |
| `History` | `SignTxHistoryProofs` | `[](Inv /\ HistoryInv)`, the history of a call |
| `CertifiedInputs` | | every input in the hash was certified |
| `WholeTransactions` | | a finished hash is of one complete transaction with the numbers of inputs and outputs the context was set up for |
| `WhatYouSeeIsWhatYouSign` | | the user acknowledged every output that the policy shows, in order, then the fee and the final prompt |
| `ExactFees` | | the fee that was shown is inputs minus outputs, unless an output wraps a sum |
| `UnusualWitnesses` | | a signature for an unusual path follows its warning and its path |
| `SignaturesWithinBudget` | | no more signatures than inputs were announced |
| `ExactSums` | | `[]WorthInv`: the exact sums are those of the inputs and outputs in the hash, also in the confirmed one |
| `Implements` | `SignTxSessionProofs` | `Spec => ImplementsSession`: SignTx refines SigningSession |
| `Invariant`, `TypeCorrect`, `OneAnswer`, `NoInternalAssertFails` | `PublicKeysProofs` | as above, for the exports |
| `ConfirmedKeyExports`, `ConfirmedAddressExports` | | a key or an address leaves only for the path that was confirmed |
| `AcknowledgedAddresses` | | the end of a display follows the path and the address of that path |
| `Invariant`, `TypeCorrect` | `AttestUtxoProofs` | the state of the parser, its buffer included |
| `NoInternalAssertFails` | | no assertion of the parser or the stream fails and no chunk finds the buffer full |
| `PartialTokens` | | only the beginning of one token waits for the next chunk |
| `SomeTransaction` | | a certificate is about one output of one whole transaction that a stream begins with |
| `TrueCertificates` | | `CertificateIsTrue`, if the constant `Transactions` leaves no such transaction out |
| `OnItsWay` | | whatever transaction the bytes begin, the parser is where its bytes so far lead |
| `RefusesNoTransaction` | | `RefusesOnlyOthers`: no transaction with the output that is asked for is refused, however it is cut |
| `AsksInNoVain` | | `AsksOnlyForMore`: the last byte of a transaction gets the final answer |
| `Invariant`, `TypeCorrect`, `NoInternalAssertFails` | `ScreensProofs` | as above, for the screens of the three builds |
| `ReadsToTheEnd` | | who follows the arrows sees all of the text, and the arrows never lie |
| `TimerIsOfItsScreen` | | a timer never confirms a screen it was not set for |
| `KeepsProtocol` | | `Spec => FollowsProtocol`: Screens refines CallProtocol |
| `AppInvariant` | `CardanoAppProofs` | in any order of instructions, the open call satisfies its own invariant, and certificates are about outputs of transactions |
| `FeesAreTrue` | | `ConfirmedFeeIsTrue`, if the constant `Transactions` leaves none out that a stream begins with |
| `KeepsProtocol` | | `Spec => FollowsProtocol`: the application refines CallProtocol |

**SignTx, control.** One inductive invariant (`SignTxInvariant`), the conjunction of

* `CallTypeOK`, which is `TypeOK` without `attested` (CardanoApp has certificates in its place);
* `ControlInv`: the application waits for exactly one of a request, a button, the end
  of a transmission. Without it a button could meet a context it was not set up for;
* `ContextInv`: while the call lives, counters are below their announced counts
  (which keeps increments in 16 bits, and makes `==` a sufficient test for
  the end), the builder is where the stage says, and the hash exists exactly when
  the builder has finished. The one exception is the confirmation, whose handler finishes
  the hash before the user has pressed anything: hence the screen is a parameter;
* `ScreenInv`: the screen that is up belongs to the `ui_step` in the context, and
  the final prompt to the last step only. This is what makes "the button was
  pressed" mean "this was confirmed";
* `ReplyInv`: what an answer carries was confirmed, and an error ends the call;
* `InternalAssertionsHold`.

There is a lemma per handler and per run-step function about the context it returns, one per
platform operator, and one per action; `NextInv` combines them and `Invariant` is its
temporal step. TLC checks `TypeOK`, `OneAnswerPerRequest`, `NoStaleScreen` and
`InternalAssertionsHold` in `SignTx.cfg`.

**SignTx, history.** What the user has seen, what has been hashed and what it is worth are
sequences that grow during a call. `CallSteps` first reduces the actions, with their handlers and
run-step functions, to the fourteen ways in which a call goes on (`SignTxSteps`); everything else ends the
call or leaves it alone. `HistoryInv` then relates, for a live call, the hash to the
counters (`HashedOk`), the budget to the announcement (`BudgetOk`), the sums to the history's own exact sums
(`SumsOk`) and the acknowledged screens to the outputs in the hash (`SeenOk`: the k-th output
that must be seen is the 2k-th and 2k+1-st screen about the transaction; the screen that is up is the
next one). Each conjunct is proved of each kind of step.
The sequences are filtered with `Selected` of `Subsequences`, whose lemmas (what it gives for a
sequence that is extended by an element) are proved by the least number at which they could fail,
which is the form of induction these provers can do.
`ExactSums` ties the two exact sums of the history to the items of the hash, as `SumFunction` of the community
modules over their places. That operator is a fold by a recursive function with `CHOOSE` in it; what a
sum is worth (nothing for no items, one item more for one more) is proved once, in `SubsequencesProofs`,
again by least numbers: a function that adds up is shown to exist for every finite set, and to be
the fold. So `WorthInv` is inductive relative to `Inv` and `HistoryInv`.

**SignTx, refinement.** `Implements` maps each kind of step to one action of `SigningSession`, or
to none, under the mapping of `SignTxSession`. Inv and HistoryInv are invariants of the proof: they say, for
instance, that the proposal of the session is what is hashed, and that the last button was
pressed under it.

**PublicKeys.** `ScreenInv` of `PublicKeysInvariant` gives, for each `ui_step` a button leads to,
the sequence of screens that has been acknowledged by then, the present one included, and
says that the context is about the path of the request. Without it a run-step function might be
entered at a step whose screens were skipped, or with a result of another path.

**AttestUtxo.** `ParserInv` of `AttestUtxoInvariant`: the bytes that have been hashed are what the
parser has read, the encoding of a beginning of a transaction up to the parser's three states
(`Read`), followed by what is in its buffer; with what the host has yet to send they make up a
stream; `AmountsRead` and `AddressAhead` say that the outputs are counted, that the amount of the attested
one is kept, and that the bytes skipped in an address belong to it. Each parser function takes
one token from the second part to the first, so no induction over a transaction is needed.
It is assumed that streams consist of whole tokens (`Coherent`, in `ChunksAssumption`): a
byte of this model is a place in a token, and a stream that goes on in the middle of one
has no counterpart among bytes. `TrueCertificates` has the hypothesis `TransactionsAreAll`, since
`CertificateIsTrue` asks for the transaction in the constant `Transactions`, which in the run is
a finite set; `SomeTransaction` needs no hypothesis. It is satisfied where streams are what is
left to choose: for any `Streams`, by the `Transactions` that they begin with.

`ParserInv` looks back: the bytes so far are the beginning of *some* transaction. That the parser refuses none and
asks for nothing in vain needs the converse, for *every* transaction that the bytes so far may begin.
`OnTheWayInv` looks forward: for each such transaction, what the parser has in its buffer
and what that transaction has left make up what the state of the parser has yet to read of it
(`ToCome`, by the three states), and the output it is at is one there is. Each parser function reads
the first token of `ToCome`; tokens are told apart by their first byte, and one that
is cut is not complete, so the function succeeds or waits and the rest is `ToCome` again. No two
readings have to be compared, and no induction over a transaction is needed: the elements still
to come are a `FlattenSeq` from which the first is taken. `RefusalInv` and `AskingInv` are about all
transactions; the properties of the run follow for those of `Transactions`.

**Screens.** `WindowInv` (the scroller stops at the end of the text), `ReadingInv` (what the user has
seen is the text up to a place at or after the end of the window) and `TimerInv` (a pending timer is of the screen that is up, or
has been left behind by a press). They hold for windows of at least two characters, which is
what lets the window reach the end. `KeepsProtocol` adds that questions to come have not been put
(`AskedInv`) and that an error ends the call (`EndsInv`); each action is a step of
`CallProtocol` or a stutter. Texts are sequences over any set `Char`.

**CardanoApp.** The proofs about SignTx, AttestUtxo and PublicKeys are about one instruction with the
platform to itself. `AppInv` of `CardanoAppInvariant` says how they live together:

* `CallInv`: the open call satisfies the whole invariant of its module (for SignTx also its history
  and its sums), and between calls the platform is `Idle`. From `Idle` and `Kept` the invariant of every
  instruction follows, whatever the last call was, so each of them starts where its own proof
  expects it (lemmas `IdleSign`, `IdleAttest`, `IdleKeys`);
* `Kept`: the contexts of the others are in their ranges, and what SignTx leaves behind is as
  good as when its call was open. The union is zeroed when a call is opened, not when it ends;
* `ParsingInv`: nothing happens while the parser runs, and only an unlocked device is parsing;
* `CertificatesInv`: each certificate, and each input of the hash the user has confirmed, is
  about an output of a transaction (`Genuine`). A new certificate is by `SomeTransaction`'s invariant; a new
  confirmed hash has certified inputs by `InputsAreCertified`. The inputs are in the invariant because the
  key may change, and the certificates with it, while the hash is still remembered.

Each step reaches the instruction whose call is open: requests by `Accepts`, buttons since only SignTx and
PublicKeys have screens and `Owner` tells them apart (`WhoseButton`). Then the step is one of that module
alone, whose own theorem takes the invariant over. `FeesAreTrue` combines `AppInv` with `ExactFees` and
`ExactSums`: the fee shown is the exact inputs less the exact outputs, these are the sums over the hash, and the
amounts in it are those of the transactions. Its hypothesis is that of `TrueCertificates`.

`KeepsProtocol` needs, besides, that no question is put twice in one request. The screens of a request
come in turns (`TurnOf`), and a run-step function entered at a step asks a question of that turn or
a later one and leaves the context at a step whose turn is later still (`AsksFor`); this is proved of each
handler and run-step function (`RequestMoves`, `ButtonMoves`), and AttestUtxo asks nothing. `AskedInv`, that all questions so
far have turns before that of the open context, is then inductive relative to `AppInv`.

**Only model-checked**:

* `ShownTextsAreExact`, `PathTextFits` and `BoxIsExact` of Formats: what texts and boxes look like is computed by
  recursive functions and folds over digits, bytes and path components of any number (Texts, AddressBox), and what
  a recursion computes for every input is induction over data, out of the provers' reach;
* liveness (`EveryRequestIsAnswered`, `UnattendedRunIsAnswered`): fairness and `ENABLED` are out of TLAPS'
  reach;
* that the runs of section 5 are violated, which are counterexamples.

## 5. Where the program and its documents differ

Shown by a run each:

1. `SignTxUnconfirmed.cfg`: a witness may be requested before the confirmation and is then over a
   hash of zeroes (`signTx.c`, no stage check in the witness handler). That no other unconfirmed
   hash is ever signed is proved.
2. `SignTxFeeWraps.cfg`: `amountSum_incrementBy` adds before it compares, and an amount near
   2^64 wraps. `FeeIsExact` says what holds when no output is that large.
3. `SignTxCountsTruncated.cfg`: counts are cut to 16 bits before they are compared with their limits.
4. `SignTxOutOfOrder.cfg`: a request out of order may fail an `ASSERT`, which resets the
   device, where the documents have `ERR_INVALID_STATE`.
5. `PublicKeysLongPath.cfg`: a path of ten components, documented as legal, resets the device.

Noted without a run, since they are constants or wording: `getVersion` is INS 0x00 in
`handlers.c:25` and 0x01 in `doc/ins_get_app_version.md`; it "could be called at any time" there,
but is answered with `ERR_STILL_IN_CALL` inside another call; an account that is not hardened is
warned about, where `doc/ins_sign_tx.md` says the account is hardened; a packed address
of more than 124 bytes resets the device (`base58.c:37`), where the document speaks of about 200;
Confirm is P1 = 0x05 in the document and 0x04 in the code; `doc/ins_get_extended_public_key.md` too has
the account hardened among its checks, and the code warns; `doc/ins_sign_tx.md` speaks of
accounts up to 10 and of change indexes below 1 000 000, the code of accounts below 10 and indexes up to
1 000 000 (`bip44.c:74`, `bip44.c:114`); `doc/ins_attest_utxo.md` says that amounts are not checked, and
the amount of the output that is asked for is compared with the supply (`parser_getAttestedAmount`).

## 6. What is not modelled, and why

* The HEADLESS Nano X build: its screens set the SDK's ticker, and no code of the repository answers
  it (`io.c:38`). Of the UX_FLOW library only what the callbacks rely on is modelled.
* The DEVEL instructions (device tests, reading and setting the attestation key): test builds only.
* Hashes, HMAC, derivation and signatures: the SDK's. A hash is injective on what it is
  fed, and a certificate verifies exactly if this run issued it.
* That a new attestation key is drawn when the application starts over: in the models the key and the run are one, and
  `attestKey_initialize` leaves no certificate that verifies.
* 2^32 bytes of one attested stream: `stream.c:52` asserts that its 32-bit `streamPos` does not wrap, and the parser
  counts outputs modulo 2^32. Streams are taken to be shorter, by the runs and by the theorems on AttestUtxo
  and CardanoApp.
* `hex_utils.c` is used by tests only; menus are constants.
* In the parser of transactions a token is not its bytes; AddressBox, where it is, is about boxes,
  which `cbor.c` reads with the same function.
* A screen of SignTx or PublicKeys is the value it shows and its kind; that its text is exact
  and fits is Formats, and how it is scrolled is Screens. The three are not run together.

## 7. Plan

Done, in this order: `Platform`, `Bip44`, `SecurityPolicy`, `SignTx`; `SignTxInvariant` and
`SignTxProofs`; `TxParser`, `TxEncoding`, `AttestUtxo`; `PublicKeys`; `SigningSession` and
`SignTxSession`; `CallProtocol` and `CardanoApp`; `Screens`; `Texts`, `AddressBox` and `Formats`; the
history of SignTx and its refinement proof; the invariants and proofs of `PublicKeys`, `AttestUtxo` and
`Screens`; the forward invariant of `AttestUtxo`; the sums of SignTx; `PlatformSteps`, and the invariant, the fee and
the refinement of `CardanoApp`. Every safety property of the runs is proved but those of Formats.

Left, if the tools grow: Formats, by induction over texts; and the composition of Screens with the three
instructions, whose interfaces agree here only in `Show` and `CallProtocol`.
