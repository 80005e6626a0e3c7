------------------------ MODULE CardanoAppInvariant ------------------------
(***************************************************************************)
(* The inductive invariant of the application: the open call satisfies the *)
(* invariant of its own module, the contexts of the others are in their    *)
(* ranges, and between calls the platform is as every call expects it; so  *)
(* what is proved of an instruction on its own carries over to it among    *)
(* the others.  What ties them together are the certificates: each one is  *)
(* about an output of a transaction, and so is every input of the hash     *)
(* that the user has confirmed.                                            *)
(***************************************************************************)
EXTENDS CardanoApp, PlatformSteps

(***************************************************************************)
(* What a call leaves behind, and the next one of its kind will find.      *)
(***************************************************************************)
SignKept ==
  /\ signCtx \in Sign!Context
  /\ signGhost \in Sign!Ghost
  /\ signGhost.signatures <= signGhost.announced.inputs
  /\ Sign!HashIsWholeTransaction
  /\ Sign!UserSawTransaction
  /\ Sign!FeeIsExact
  /\ Sign!ConfirmedWorthOk(signGhost)

AttestKept ==
  /\ parser \in Attest!Parser
  /\ parser.bufferPos + Len(parser.unread) <= STREAM_BUFFER_SIZE
  /\ magic \in BOOLEAN
  /\ hashed \in Seq(Attest!Byte)
  /\ toSend \in Seq(Attest!Byte)

KeysKept ==
  /\ keysCtx \in Keys!Context
  /\ keysGhost \in Keys!Ghost

Kept == SignKept /\ AttestKept /\ KeysKept

(***************************************************************************)
(* The open call.                                                          *)
(***************************************************************************)
\* The user is looking at a screen of an instruction.
Asking == On /\ ~Sending /\ ioState = "UI"

SignCall == Sign!Inv /\ Sign!HistoryInv /\ Sign!WorthInv

AttestCall ==
  /\ Attest!Inv
  /\ ~Sending => ioState = IF parsing THEN "NONE" ELSE "IO"
  /\ Sending /\ reply.code # SUCCESS => reply.then = "idle"

KeysCall ==
  /\ Keys!Inv
  /\ Asking => Owner(display.callback) = currentInstruction

CallInv ==
  On => \/ currentInstruction = INS_NONE /\ Idle
        \/ currentInstruction = Sign!SIGN_TX /\ SignCall
        \/ currentInstruction = Attest!ATTEST_UTXO /\ AttestCall
        \/ currentInstruction \in Keys!Instructions /\ KeysCall

\* The parser runs in an open call of an unlocked device.
ParsingInv ==
  /\ locked \in BOOLEAN
  /\ awaiting \in BOOLEAN
  /\ parsing \in BOOLEAN
  /\ parsing => On /\ currentInstruction = Attest!ATTEST_UTXO /\ ~locked

-----------------------------------------------------------------------------
(***************************************************************************)
(* Hash, index and amount are those of an output of a transaction that the *)
(* host can send.                                                          *)
(***************************************************************************)
Genuine(u) ==
  \E tx \in Attest!AllTransactions :
    /\ u.hash = Attest!EncodeTx(tx)
    /\ Attest!Attestable(tx, u.index)
    /\ u.amount = tx.outputs[u.index + 1].amount
    /\ \E s \in Streams : Attest!IsPrefix(Attest!EncodeTx(tx), s)

InputsGenuine(h) == \A k \in Items(h, "input") : Genuine(h[k].utxo)

CertificatesInv ==
  /\ \A u \in certificates : Genuine(u)
  /\ InputsGenuine(signGhost.confirmedHash)

\* The inductive invariant.
AppInv == Kept /\ CallInv /\ ParsingInv /\ CertificatesInv

-----------------------------------------------------------------------------
(***************************************************************************)
(* The questions of the request: all were asked before the turn that the   *)
(* open call's context is at.                                              *)
(***************************************************************************)
OpenStep == IF currentInstruction = Sign!SIGN_TX THEN signCtx.uiStep ELSE keysCtx.uiStep

AskedInv ==
  /\ Phase \in {"ready", "down"} => asked = {}
  /\ Phase = "asking" =>
       /\ Question \in asked
       /\ \A q \in asked : TurnOf(q.what.head) < TurnAt(OpenStep)
=============================================================================
