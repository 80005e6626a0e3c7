--------------------------- MODULE SignTxSession ---------------------------
(***************************************************************************)
(* SignTx implements SigningSession.  The session is the call as long as   *)
(* its context may be used again; the proposal is what has been fed to the *)
(* hash builder; the agreement is the hash under the final prompt when the *)
(* user pressed its right button (a history variable).                     *)
(***************************************************************************)
EXTENDS SignTxInvariant, SequencesExt

\* The session opens with the answer that the host may wait for or with the first
\* screen: when the counts of the context are set.
InSession == Live /\ ctx.numWitnesses > 0

\* The items of a hash that stand for something.
IsInputOrOutput(it) == it.item \in {"input", "output"}
Content(h) == Selected(h, {k \in DOMAIN h : IsInputOrOutput(h[k])})

Proposal == IF InSession THEN Content(ctx.hashed) ELSE <<>>
Agreement == IF InSession THEN Content(ghost.confirmedHash) ELSE <<>>
SignaturesLeft == IF InSession THEN ctx.numWitnesses - ctx.currentWitness ELSE 0

\* What the host is being sent of interest.
Emitted ==
  LET d == reply.data
  IN IF InSession /\ Sending /\ d.kind \in {"hash", "signature"}
     THEN [kind |-> d.kind, over |-> Content(d.hash)]
     ELSE [kind |-> "none"]

Session == INSTANCE SigningSession WITH
  open <- InSession,
  proposal <- Proposal,
  agreed <- Agreement,
  budget <- SignaturesLeft,
  vouched <- attested,
  emitted <- Emitted

\* Every step of signTx.c, of its screens and of the platform under it is a step
\* of the session or leaves it alone: the transaction grows by one certified input
\* or one output at a time and never after the user has agreed to it; the hash is
\* sent together with the agreement; every signature is over what has been agreed
\* to at that moment and costs one of the budget; a call that is refused, rejected
\* or reset leaves nothing behind.
ImplementsSession == Session!Spec
=============================================================================
