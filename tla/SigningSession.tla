--------------------------- MODULE SigningSession ---------------------------
(***************************************************************************)
(* What the signing instruction promises, without its phases, screens,     *)
(* counters or errors: a transaction is proposed to the user item by item, *)
(* the user agrees to all of it or to nothing, and from then on it cannot  *)
(* change; what leaves the device is its hash and at most a fixed number   *)
(* of signatures over what has been agreed to.                             *)
(*                                                                         *)
(* One promise the program does not make is kept out on purpose: that      *)
(* there is an agreement before the first signature.  What it does promise *)
(* is that such a signature is over nothing at all.                        *)
(***************************************************************************)
EXTENDS Naturals, SequencesExt

VARIABLES
  open,      \* a session is under way
  proposal,  \* the inputs and outputs proposed so far
  agreed,    \* what the user has agreed to: Nothing, or the whole proposal
  budget,    \* signatures the session may still give
  vouched,   \* unspent outputs whose amounts are known to the device
  emitted    \* what is being sent to the host

vars == <<open, proposal, agreed, budget, vouched, emitted>>

Nothing == <<>>
Silence == [kind |-> "none"]
HashOf(x) == [kind |-> "hash", over |-> x]
SignatureOver(x) == [kind |-> "signature", over |-> x]

Init ==
  /\ ~open
  /\ proposal = Nothing
  /\ agreed = Nothing
  /\ budget = 0
  /\ vouched = {}
  /\ emitted = Silence

\* The device learns an amount, between sessions.
Vouch ==
  /\ ~open
  /\ vouched \subseteq vouched'
  /\ UNCHANGED <<open, proposal, agreed, budget, emitted>>

Open ==
  /\ ~open
  /\ open'
  /\ budget' \in Nat \ {0}
  /\ UNCHANGED <<proposal, agreed, vouched, emitted>>

\* One more item, until there is an agreement.  An input is one of those whose
\* amounts are known.
Propose ==
  /\ open
  /\ agreed = Nothing
  /\ Len(proposal') = Len(proposal) + 1
  /\ IsPrefix(proposal, proposal')
  /\ Last(proposal').item = "input" => Last(proposal').utxo \in vouched
  /\ UNCHANGED <<open, agreed, budget, vouched, emitted>>

\* The user agrees to everything proposed, and the host obtains its hash.
Agree ==
  /\ open
  /\ agreed = Nothing
  /\ proposal # Nothing
  /\ agreed' = proposal
  /\ emitted' = HashOf(proposal)
  /\ UNCHANGED <<open, proposal, budget, vouched>>

\* A signature is over what has been agreed to so far: over Nothing before the
\* agreement, and never over Nothing, or anything else, after it.
Sign ==
  /\ open
  /\ budget > 0
  /\ emitted = Silence
  /\ emitted' = SignatureOver(agreed)
  /\ UNCHANGED <<open, proposal, agreed, budget, vouched>>

Deliver ==
  /\ emitted # Silence
  /\ emitted' = Silence
  /\ budget' = IF emitted.kind = "signature" THEN budget - 1 ELSE budget
  /\ UNCHANGED <<open, proposal, agreed, vouched>>

\* The session ends: with its last signature, and at any moment by a refusal, a
\* rejection or a reset.  Nothing of it is left; after a reset nothing is known
\* about unspent outputs either.
Close ==
  /\ open
  /\ ~open'
  /\ proposal' = Nothing
  /\ agreed' = Nothing
  /\ budget' = 0
  /\ emitted' = Silence
  /\ vouched' \in {vouched, {}}

Forget ==
  /\ ~open
  /\ vouched' = {}
  /\ UNCHANGED <<open, proposal, agreed, budget, emitted>>

Next ==
  \/ Vouch
  \/ Open
  \/ Propose
  \/ Agree
  \/ Sign
  \/ Deliver
  \/ Close
  \/ Forget

Spec == Init /\ [][Next]_vars
=============================================================================
