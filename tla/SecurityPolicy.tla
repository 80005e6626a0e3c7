--------------------------- MODULE SecurityPolicy ---------------------------
(***************************************************************************)
(* securityPolicy.c: what the device does before it answers a request for  *)
(* a path.  The C macros DENY_IF, WARN_IF, ... return at the first         *)
(* condition that holds; the order is kept.                                *)
(***************************************************************************)
EXTENDS Bip44

POLICY_DENY == "DENY"
POLICY_ALLOW_WITHOUT_PROMPT == "ALLOW_WITHOUT_PROMPT"
POLICY_PROMPT_BEFORE_RESPONSE == "PROMPT_BEFORE_RESPONSE"
POLICY_PROMPT_WARN_UNUSUAL == "PROMPT_WARN_UNUSUAL"
POLICY_SHOW_BEFORE_RESPONSE == "SHOW_BEFORE_RESPONSE"

has_cardano_prefix_and_any_account(p) ==
  bip44_hasValidCardanoPrefix(p) /\ bip44_containsAccount(p)

\* (And a policy that does not look at the chain.)
has_valid_change_and_any_address_AnyChain(p) == bip44_containsAddress(p)
has_valid_change_and_any_address(p) ==
  bip44_hasValidChainType(p) /\ bip44_containsAddress(p)

has_reasonable_account_and_address(p) ==
  bip44_hasReasonableAccount(p) /\ bip44_hasReasonableAddress(p)

\* Components after the address (and a policy that does not look for them).
is_too_deep_Never(p) == FALSE
is_too_deep(p) == bip44_containsMoreThanAddress(p)

\* A path of an own address the user does not have to look at.
IsOrdinaryAddress(p) == has_reasonable_account_and_address(p) /\ ~is_too_deep(p)

\* What signTx.c and deriveAddress.c accept at all: 44'/1815'/account/0|1/address/...
IsAddressPath(p) ==
  has_cardano_prefix_and_any_account(p) /\ has_valid_change_and_any_address(p)

policyForGetExtendedPublicKey(p) ==
  CASE ~has_cardano_prefix_and_any_account(p) -> POLICY_DENY
    [] has_cardano_prefix_and_any_account(p)
         /\ (~bip44_hasReasonableAccount(p) \/ bip44_containsChainType(p))
       -> POLICY_PROMPT_WARN_UNUSUAL
    [] OTHER -> POLICY_PROMPT_BEFORE_RESPONSE

\* The three policies of an address path differ in what an ordinary path, and
\* what an unusual one, asks of the user.
AddressPathPolicy(p, unusual, ordinary) ==
  CASE ~IsAddressPath(p) -> POLICY_DENY
    [] IsAddressPath(p) /\ ~IsOrdinaryAddress(p) -> unusual
    [] OTHER -> ordinary

policyForReturnDeriveAddress(p) ==
  AddressPathPolicy(p, POLICY_PROMPT_WARN_UNUSUAL, POLICY_PROMPT_BEFORE_RESPONSE)

policyForShowDeriveAddress(p) ==
  AddressPathPolicy(p, POLICY_PROMPT_WARN_UNUSUAL, POLICY_SHOW_BEFORE_RESPONSE)

policyForSignTxOutputPath(p) ==
  AddressPathPolicy(p, POLICY_SHOW_BEFORE_RESPONSE, POLICY_ALLOW_WITHOUT_PROMPT)

policyForSignTxWitness(p) ==
  AddressPathPolicy(p, POLICY_PROMPT_WARN_UNUSUAL, POLICY_ALLOW_WITHOUT_PROMPT)
=============================================================================
