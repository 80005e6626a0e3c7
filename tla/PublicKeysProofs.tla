-------------------------- MODULE PublicKeysProofs --------------------------
(***************************************************************************)
(* Proofs about PublicKeys, for every set of paths the host may send.      *)
(*                                                                         *)
(* The invariant ties the screen that is up to the ui_step in the context, *)
(* and the context to the history of what the user has acknowledged in     *)
(* this call: the key or address in the context is of the path that was    *)
(* asked for, and the user has acknowledged exactly the screens before     *)
(* that step, so that the step that sends it is reached only through those *)
(* the policy requires.                                                    *)
(***************************************************************************)
EXTENDS PublicKeysInvariant, SequenceTheorems, TLAPS

-----------------------------------------------------------------------------
(***************************************************************************)
(* Types of the values the context, the history and the screens are built  *)
(* from.                                                                   *)
(***************************************************************************)

\* The empty path is a path.
LEMMA EmptyPath == <<>> \in Path
  BY DEF Path

\* What the instructions put on a screen is one of the sayings.
LEMMA SayingTypes ==
  /\ \A h \in Headers : Says(h) \in Saying
  /\ \A h \in Headers, p \in Path : SaysPath(h, p) \in Saying
<1>1. ASSUME NEW h \in Headers PROVE Says(h) \in Saying
  BY EmptyPath DEF Says, Saying
<1>2. ASSUME NEW h \in Headers, NEW p \in Path PROVE SaysPath(h, p) \in Saying
  BY DEF SaysPath, Says, Saying
<1> QED
  BY <1>1, <1>2

\* A context of zeroes, and an empty history, are well typed.
LEMMA ZeroTypes == ZeroContext \in Context /\ ZeroGhost \in Ghost
  BY EmptyPath DEF ZeroContext, ZeroGhost, Context, Ghost, UiSteps, Flows

\* The menu and no reply are values of their variables.
LEMMA MenuType ==
  /\ Menu \in [kind: {"menu", "text", "prompt"}, what: Saying, callback: Flows, run: BOOLEAN]
  /\ Menu.kind = "menu" /\ Menu.run
<1>1. Says("menu") \in Saying
  BY SayingTypes DEF Headers
<1> HIDE DEF Says, Saying
<1> QED
  BY <1>1 DEF Menu, Screen, Flows

-----------------------------------------------------------------------------
(***************************************************************************)
(* Sequences: one more screen is one more element of the list.             *)
(***************************************************************************)

\* Two sequences of one element make one of two ...
LEMMA Pair ==
  ASSUME NEW S, NEW a \in S, NEW b \in S
  PROVE  <<a>> \o <<b>> = <<a, b>>
<1> DEFINE t == <<a>> \o <<b>>
<1>1. <<a>> \in Seq(S) /\ <<b>> \in Seq(S) /\ Len(<<a>>) = 1 /\ Len(<<b>>) = 1
  OBVIOUS
<1>2. t \in Seq(S) /\ Len(t) = 2 /\ t[1] = a /\ t[2] = b
  BY <1>1, ConcatProperties
<1> HIDE DEF t
<1>3. t = <<t[1], t[2]>>
  BY <1>2
<1> QED
  BY <1>2, <1>3 DEF t

\* ... and one more makes three.
LEMMA Triple ==
  ASSUME NEW S, NEW a \in S, NEW b \in S, NEW c \in S
  PROVE  <<a, b>> \o <<c>> = <<a, b, c>>
<1> DEFINE t == <<a, b>> \o <<c>>
<1>1. <<a, b>> \in Seq(S) /\ <<c>> \in Seq(S) /\ Len(<<a, b>>) = 2 /\ Len(<<c>>) = 1
  OBVIOUS
<1>2. t \in Seq(S) /\ Len(t) = 3 /\ t[1] = a /\ t[2] = b /\ t[3] = c
  BY <1>1, ConcatProperties
<1> HIDE DEF t
<1>3. t = <<t[1], t[2], t[3]>>
  BY <1>2
<1> QED
  BY <1>2, <1>3 DEF t

\* A sequence of three elements is made of them.
LEMMA ThreeElements ==
  ASSUME NEW S, NEW p \in Seq(S), Len(p) = 3, NEW a, NEW b, NEW c,
         p[1] = a, p[2] = b, p[3] = c
  PROVE  p = <<a, b, c>> /\ c \in S
<1>1. p = <<p[1], p[2], p[3]>>
  OBVIOUS
<1>2. p[3] \in S
  OBVIOUS
<1> QED
  BY <1>1, <1>2

\* A screen after a warning (or none), and the next ...
LEMMA TwoMore ==
  ASSUME NEW S, NEW s \in Seq(S), NEW a \in S, NEW b \in S
  PROVE  /\ Append(s, a) = s \o <<a>>
         /\ Append(s \o <<a>>, b) = s \o <<a, b>>
<1>1. <<a>> \in Seq(S) /\ <<b>> \in Seq(S)
  OBVIOUS
<1>2. s \o <<a>> \in Seq(S)
  BY <1>1, ConcatProperties
<1>3. Append(s, a) = s \o <<a>>
  BY AppendIsConcat
<1>4. Append(s \o <<a>>, b) = (s \o <<a>>) \o <<b>>
  BY <1>2, AppendIsConcat
<1>5. (s \o <<a>>) \o <<b>> = s \o (<<a>> \o <<b>>)
  BY <1>1, ConcatAssociative
<1> QED
  BY <1>3, <1>4, <1>5, Pair, Zenon

\* ... and the one after that.
LEMMA ThreeMore ==
  ASSUME NEW S, NEW s \in Seq(S), NEW a \in S, NEW b \in S, NEW c \in S
  PROVE  Append(s \o <<a, b>>, c) = s \o <<a, b, c>>
<1>1. <<a, b>> \in Seq(S) /\ <<c>> \in Seq(S)
  OBVIOUS
<1>2. s \o <<a, b>> \in Seq(S)
  BY <1>1, ConcatProperties
<1>3. Append(s \o <<a, b>>, c) = (s \o <<a, b>>) \o <<c>>
  BY <1>2, AppendIsConcat
<1>4. (s \o <<a, b>>) \o <<c>> = s \o (<<a, b>> \o <<c>>)
  BY <1>1, ConcatAssociative
<1> QED
  BY <1>3, <1>4, Triple, Zenon

\* The warning, if there is one, is the first of the screens.
LEMMA WarningFirst ==
  ASSUME NEW usual \in BOOLEAN
  PROVE  /\ Warning(usual) \in Seq(Saying)
         /\ usual => Warning(usual) = <<>>
         /\ ~usual => Warning(usual) = Append(<<>>, Says("UnusualRequest"))
<1>1. Says("UnusualRequest") \in Saying
  BY SayingTypes DEF Headers
<1> HIDE DEF Says, Saying
<1> QED
  BY <1>1 DEF Warning

-----------------------------------------------------------------------------
(***************************************************************************)
(* Paths.                                                                  *)
(***************************************************************************)

\* A path that parses and leaves no byte over is the one the host has sent.
LEMMA WholePath ==
  ASSUME NEW w, WellFormedWire(w), Parses(w)
  PROVE  /\ ParsedPath(w) \in Path
         /\ ParsedSize(w) = w.size => ParsedPath(w) = w.words
<1>1. w.words \in Seq(Component) /\ w.length \in Nat /\ w.size \in Nat
  <2>1. w.words \in Path /\ w.length \in 0 .. 255 /\ w.size \in Nat
    BY DEF WellFormedWire, WirePath
  <2> HIDE DEF Path, Component
  <2>2. w.words \in Seq(Component)
    BY <2>1, Zenon DEF Path
  <2>3. w.length \in Nat
    BY <2>1
  <2> QED
    BY <2>1, <2>2, <2>3
<1>2. Len(w.words) \in Nat
  BY <1>1, LenProperties
<1>3. /\ w.length * 4 + 1 <= w.size
      /\ w.size >= 1 + 4 * Len(w.words) /\ w.size < 5 + 4 * Len(w.words)
  <2>1. w.length * 4 + 1 <= w.size
    BY DEF Parses
  <2>2. w.size > 0
    BY <1>1, <2>1
  <2> QED
    BY <2>1, <2>2 DEF WellFormedWire
<1>4. w.length <= Len(w.words)
      /\ (ParsedSize(w) = w.size => w.length = Len(w.words))
  BY <1>1, <1>2, <1>3 DEF ParsedSize
<1>5. ParsedPath(w) \in Path
  <2>1. \A i \in 1 .. w.length : w.words[i] \in Component
    BY <1>1, <1>2, <1>4, ElementOfSeq
  <2> QED
    BY <1>1, <2>1, SubSeqProperties DEF ParsedPath, Path
<1>6. ParsedSize(w) = w.size => ParsedPath(w) = w.words
  BY <1>1, <1>4, SubSeqFull DEF ParsedPath
<1> QED
  BY <1>5, <1>6

\* The words on the wire are a path, parsed or not.
LEMMA WordsType ==
  ASSUME NEW w, WellFormedWire(w)
  PROVE  w.words \in Path
<1>1. w \in WirePath
  BY DEF WellFormedWire
<1> HIDE DEF Path
<1> QED
  BY <1>1 DEF WirePath

\* A hardened index below ten.
LEMMA HardenedIndex ==
  ASSUME NEW c \in Component, c.hard, c.idx < 10
  PROVE  c = Hardened(c.idx) /\ c.idx \in 0 .. 9
  BY DEF Component, Hardened

\* The lengths next to a boundary.
LEMMA Lengths ==
  ASSUME NEW n \in Nat
  PROVE  /\ n >= 3 /\ ~(n >= 4) => n = 3
         /\ n >= 5 => (n = 5 <=> ~(n >= 6))
  OBVIOUS

\* The account paths of the documentation are those the policy finds reasonable.
LEMMA AccountPaths ==
  ASSUME NEW p \in Path
  PROVE  IsAccountPath(p) <=> /\ has_cardano_prefix_and_any_account(p)
                              /\ bip44_hasReasonableAccount(p)
                              /\ ~bip44_containsChainType(p)
<1>1. p \in Seq(Component) /\ Len(p) \in Nat
  BY LenProperties DEF Path
<1>2. ASSUME IsAccountPath(p)
      PROVE  /\ has_cardano_prefix_and_any_account(p)
             /\ bip44_hasReasonableAccount(p)
             /\ ~bip44_containsChainType(p)
  <2>1. PICK a \in 0 .. 9 : p = <<Hardened(44), Hardened(1815), Hardened(a)>>
    BY <1>2 DEF IsAccountPath
  <2>2. Len(p) = 3 /\ p[1] = Hardened(44) /\ p[2] = Hardened(1815) /\ p[3] = Hardened(a)
    BY <2>1
  <2>3. p[3].hard /\ p[3].idx < 10
    BY <2>2 DEF Hardened
  <2> QED
    BY <2>2, <2>3
       DEF has_cardano_prefix_and_any_account, bip44_hasValidCardanoPrefix,
           bip44_hasReasonableAccount, bip44_containsAccount, bip44_containsChainType,
           BIP44_I_COIN_TYPE, BIP44_I_PURPOSE, BIP44_I_ACCOUNT, BIP44_I_CHAIN, BIP_44,
           ADA_COIN_TYPE, MAX_REASONABLE_ACCOUNT
<1>3. ASSUME has_cardano_prefix_and_any_account(p), bip44_hasReasonableAccount(p),
             ~bip44_containsChainType(p)
      PROVE  IsAccountPath(p)
  <2>1. Len(p) = 3
    <3>1. Len(p) >= 3 /\ ~(Len(p) >= 4)
      BY <1>3
         DEF has_cardano_prefix_and_any_account, bip44_containsAccount,
             bip44_containsChainType, BIP44_I_ACCOUNT, BIP44_I_CHAIN
    <3> QED
      BY <1>1, <3>1, Lengths
  <2>2. p[1] = Hardened(44) /\ p[2] = Hardened(1815)
    BY <1>3
       DEF has_cardano_prefix_and_any_account, bip44_hasValidCardanoPrefix,
           BIP44_I_COIN_TYPE, BIP44_I_PURPOSE, BIP_44, ADA_COIN_TYPE
  <2>3. p[3] \in Component
    BY <1>1, <2>1, ThreeElements
  <2>4. p[3].hard /\ p[3].idx < 10
    BY <1>3 DEF bip44_hasReasonableAccount, BIP44_I_ACCOUNT, MAX_REASONABLE_ACCOUNT
  <2>5. p[3].idx \in 0 .. 9 /\ p[3] = Hardened(p[3].idx)
    BY <2>3, <2>4, HardenedIndex
  <2> DEFINE i == p[3].idx
  <2> HIDE DEF i
  <2>6. i \in 0 .. 9 /\ p[3] = Hardened(i)
    BY <2>5 DEF i
  <2>7. p = <<Hardened(44), Hardened(1815), Hardened(i)>>
    BY <1>1, <2>1, <2>2, <2>6, ThreeElements
  <2> QED
    BY <2>6, <2>7 DEF IsAccountPath
<1> QED
  BY <1>2, <1>3

\* So are the address paths that need no warning.
LEMMA UsualAddressPaths ==
  ASSUME NEW p \in Path, IsAddressPath(p)
  PROVE  /\ IsCardanoAddressPath(p)
         /\ IsUsualAddressPath(p) <=> IsOrdinaryAddress(p)
<1>1. p \in Seq(Component) /\ Len(p) \in Nat
  BY LenProperties DEF Path
<1>2. /\ Len(p) >= 5 /\ p[1] = Hardened(44) /\ p[2] = Hardened(1815)
      /\ p[4] \in {Plain(0), Plain(1)}
  BY <1>1
     DEF IsAddressPath, has_cardano_prefix_and_any_account, bip44_hasValidCardanoPrefix,
         bip44_containsAccount, has_valid_change_and_any_address, bip44_hasValidChainType,
         bip44_containsChainType, bip44_containsAddress,
         BIP44_I_COIN_TYPE, BIP44_I_PURPOSE, BIP44_I_ACCOUNT, BIP44_I_CHAIN,
         BIP44_I_ADDRESS, BIP_44, ADA_COIN_TYPE
<1> DEFINE q == SubSeq(p, 1, 3)
<1>3. q \in Path /\ Len(q) = 3 /\ q[1] = p[1] /\ q[2] = p[2] /\ q[3] = p[3]
  <2>1. \A i \in 1 .. 3 : p[i] \in Component
    BY <1>1, <1>2, ElementOfSeq
  <2> QED
    BY <2>1, SubSeqProperties DEF Path
<1> HIDE DEF q
<1>4. IsAccountPath(q) <=> bip44_hasReasonableAccount(p)
  <2>1. IsAccountPath(q) <=> /\ has_cardano_prefix_and_any_account(q)
                             /\ bip44_hasReasonableAccount(q)
                             /\ ~bip44_containsChainType(q)
    BY <1>3, AccountPaths
  <2> QED
    BY <1>1, <1>2, <1>3, <2>1
       DEF has_cardano_prefix_and_any_account, bip44_hasValidCardanoPrefix,
           bip44_hasReasonableAccount, bip44_containsAccount, bip44_containsChainType,
           BIP44_I_COIN_TYPE, BIP44_I_PURPOSE, BIP44_I_ACCOUNT, BIP44_I_CHAIN, BIP_44,
           ADA_COIN_TYPE
<1>5. IsUsualAddressPath(p) <=> IsOrdinaryAddress(p)
  <2>1. Len(p) = 5 <=> ~is_too_deep(p)
    <3>1. is_too_deep(p) <=> Len(p) >= 6
      BY DEF is_too_deep, bip44_containsMoreThanAddress, BIP44_I_REST
    <3>2. Len(p) = 5 <=> ~(Len(p) >= 6)
      <4>1. Len(p) \in Nat /\ Len(p) >= 5
        BY <1>1, <1>2
      <4> QED
        BY <4>1, Lengths
    <3> QED
      BY <3>1, <3>2
  <2>2. bip44_hasReasonableAddress(p) <=> ~p[5].hard /\ p[5].idx <= 1000000
    BY <1>2, SMT
       DEF bip44_hasReasonableAddress, bip44_containsAddress, BIP44_I_ADDRESS,
           MAX_REASONABLE_ADDRESS
  <2>3. IsUsualAddressPath(p) <=> /\ Len(p) = 5
                                  /\ IsAccountPath(q)
                                  /\ ~p[5].hard /\ p[5].idx <= 1000000
    BY <1>2, SMT DEF q, IsUsualAddressPath
  <2> HIDE DEF IsUsualAddressPath, is_too_deep, bip44_hasReasonableAddress
  <2> QED
    BY <1>4, <2>1, <2>2, <2>3, SMT
       DEF IsOrdinaryAddress, has_reasonable_account_and_address
<1>6. IsCardanoAddressPath(p)
  BY <1>1, <1>2 DEF IsCardanoAddressPath, IsCardanoPath
<1> QED
  BY <1>5, <1>6

-----------------------------------------------------------------------------
(***************************************************************************)
(* The policies, and the three handlers.                                   *)
(***************************************************************************)

\* The policy of an export tells a usual path from an unusual one.
LEMMA ExportPolicy ==
  ASSUME NEW p \in Path,
         NEW policy, policy = policyForGetExtendedPublicKey(p),
         NEW step, step = ExportFirstStep(policy)
  PROVE  \/ policy = POLICY_DENY
         \/ /\ IsCardanoPath(p)
            /\ \/ step = "EXPORT_WARNING" /\ ~IsAccountPath(p)
               \/ step = "EXPORT_PATH" /\ IsAccountPath(p)
<1>1. IsAccountPath(p) <=> /\ has_cardano_prefix_and_any_account(p)
                           /\ bip44_hasReasonableAccount(p)
                           /\ ~bip44_containsChainType(p)
  BY AccountPaths
<1>2. has_cardano_prefix_and_any_account(p) => IsCardanoPath(p)
  BY DEF has_cardano_prefix_and_any_account, bip44_hasValidCardanoPrefix,
         bip44_containsAccount, IsCardanoPath, BIP44_I_COIN_TYPE, BIP44_I_PURPOSE,
         BIP44_I_ACCOUNT, BIP_44, ADA_COIN_TYPE
<1> HIDE DEF IsAccountPath, IsCardanoPath
<1>3. \/ policy = POLICY_DENY
      \/ /\ policy = POLICY_PROMPT_WARN_UNUSUAL
         /\ has_cardano_prefix_and_any_account(p)
         /\ ~bip44_hasReasonableAccount(p) \/ bip44_containsChainType(p)
      \/ /\ policy = POLICY_PROMPT_BEFORE_RESPONSE
         /\ has_cardano_prefix_and_any_account(p)
         /\ bip44_hasReasonableAccount(p) /\ ~bip44_containsChainType(p)
  BY DEF policyForGetExtendedPublicKey
<1>4. /\ policy = POLICY_PROMPT_WARN_UNUSUAL => step = "EXPORT_WARNING"
      /\ policy = POLICY_PROMPT_BEFORE_RESPONSE => step = "EXPORT_PATH"
  BY DEF ExportFirstStep, POLICY_PROMPT_WARN_UNUSUAL, POLICY_PROMPT_BEFORE_RESPONSE,
         POLICY_ALLOW_WITHOUT_PROMPT
<1> QED
  BY <1>1, <1>2, <1>3, <1>4

\* The policies of an address do, too.
LEMMA AddressPolicy ==
  ASSUME NEW p \in Path, NEW unusual, NEW ordinary,
         NEW policy, policy = AddressPathPolicy(p, unusual, ordinary)
  PROVE  \/ policy = POLICY_DENY
         \/ /\ IsCardanoAddressPath(p)
            /\ \/ policy = unusual /\ ~IsUsualAddressPath(p)
               \/ policy = ordinary /\ IsUsualAddressPath(p)
<1>1. \/ policy = POLICY_DENY
      \/ /\ IsAddressPath(p)
         /\ \/ policy = unusual /\ ~IsOrdinaryAddress(p)
            \/ policy = ordinary /\ IsOrdinaryAddress(p)
  BY DEF AddressPathPolicy
<1>2. IsAddressPath(p) =>
        IsCardanoAddressPath(p) /\ (IsUsualAddressPath(p) <=> IsOrdinaryAddress(p))
  BY UsualAddressPaths
<1> HIDE DEF IsAddressPath, IsCardanoAddressPath, IsUsualAddressPath, IsOrdinaryAddress
<1> QED
  BY <1>1, <1>2

\* An address that is returned ...
LEMMA ReturnPolicy ==
  ASSUME NEW p \in Path,
         NEW policy, policy = policyForReturnDeriveAddress(p),
         NEW step, step = ReturnFirstStep(policy)
  PROVE  \/ policy = POLICY_DENY
         \/ /\ IsCardanoAddressPath(p)
            /\ \/ step = "RETURN_WARNING" /\ ~IsUsualAddressPath(p)
               \/ step = "RETURN_PATH" /\ IsUsualAddressPath(p)
<1>1. \/ policy = POLICY_DENY
      \/ /\ IsCardanoAddressPath(p)
         /\ \/ policy = POLICY_PROMPT_WARN_UNUSUAL /\ ~IsUsualAddressPath(p)
            \/ policy = POLICY_PROMPT_BEFORE_RESPONSE /\ IsUsualAddressPath(p)
  BY AddressPolicy DEF policyForReturnDeriveAddress
<1>2. /\ policy = POLICY_PROMPT_WARN_UNUSUAL => step = "RETURN_WARNING"
      /\ policy = POLICY_PROMPT_BEFORE_RESPONSE => step = "RETURN_PATH"
  BY DEF ReturnFirstStep, POLICY_PROMPT_WARN_UNUSUAL, POLICY_PROMPT_BEFORE_RESPONSE,
         POLICY_ALLOW_WITHOUT_PROMPT
<1> QED
  BY <1>1, <1>2

\* ... and one that is displayed.
LEMMA DisplayPolicy ==
  ASSUME NEW p \in Path,
         NEW policy, policy = policyForShowDeriveAddress(p),
         NEW step, step = DisplayFirstStep(policy)
  PROVE  \/ policy = POLICY_DENY
         \/ /\ IsCardanoAddressPath(p)
            /\ \/ step = "DISPLAY_WARNING" /\ ~IsUsualAddressPath(p)
               \/ step = "DISPLAY_INSTRUCTIONS" /\ IsUsualAddressPath(p)
<1>1. \/ policy = POLICY_DENY
      \/ /\ IsCardanoAddressPath(p)
         /\ \/ policy = POLICY_PROMPT_WARN_UNUSUAL /\ ~IsUsualAddressPath(p)
            \/ policy = POLICY_SHOW_BEFORE_RESPONSE /\ IsUsualAddressPath(p)
  BY AddressPolicy DEF policyForShowDeriveAddress
<1>2. /\ policy = POLICY_PROMPT_WARN_UNUSUAL => step = "DISPLAY_WARNING"
      /\ policy = POLICY_SHOW_BEFORE_RESPONSE => step = "DISPLAY_INSTRUCTIONS"
  BY DEF DisplayFirstStep, POLICY_PROMPT_WARN_UNUSUAL, POLICY_SHOW_BEFORE_RESPONSE
<1> QED
  BY <1>1, <1>2

\* A handler's SUCCESS holds the result for the path the host has sent; it throws
\* only errors the host is told of, but for a path too long.
LEMMA PathHandlerResult ==
  ASSUME NEW ok, NEW w, WellFormedWire(w), NEW policy, NEW step,
         Parses(w) /\ policy # POLICY_DENY => step \in UiSteps \ {"none"},
         NEW r, r = PathHandler(ok, w, policy, step)
  PROVE  /\ r.ctx \in Context
         /\ r.verdict # SUCCESS => r.verdict \in AutoRespond \cup HostCrashes
         /\ r.verdict = SUCCESS =>
              /\ Parses(w) /\ w.words \in Path /\ ParsedPath(w) = w.words
              /\ policy # POLICY_DENY
              /\ r.ctx.ready /\ r.ctx.path = w.words /\ r.ctx.derived = w.words
              /\ r.ctx.uiStep = step
<1> DEFINE p == ParsedPath(w)
           parsed == [ZeroContext EXCEPT !.path = p]
           derived == [parsed EXCEPT !.ready = TRUE, !.derived = p]
           done == [derived EXCEPT !.uiStep = step]
<1>1. Parses(w) => p \in Path /\ (ParsedSize(w) = w.size => p = w.words)
  BY WholePath
<1>2. ZeroContext \in Context
  BY ZeroTypes
<1>3. \/ r = Refuse(ERR_INVALID_REQUEST_PARAMETERS, ZeroContext)
      \/ r = Refuse(ERR_INVALID_DATA, ZeroContext)
      \/ /\ Parses(w)
         /\ \/ r = Refuse(ERR_INVALID_DATA, parsed)
            \/ r = Refuse(ERR_REJECTED_BY_POLICY, parsed)
            \/ r = Refuse(ASSERT_PATH_LENGTH, parsed)
            \/ /\ ParsedSize(w) = w.size /\ policy # POLICY_DENY
               /\ step # "none" => r = [verdict |-> SUCCESS, ctx |-> done]
  BY DEF PathHandler, Proceed
<1>4. w.words \in Path
  BY WordsType
<1> HIDE DEF p
<1> HIDE DEF ZeroContext
<1>5. p \in Path => parsed \in Context
  BY <1>2 DEF Context
<1>6. p \in Path => /\ derived \in Context
                     /\ derived.ready /\ derived.path = p /\ derived.derived = p
  <2> HIDE DEF parsed
  <2>1. p \in Path => parsed \in Context /\ parsed.path = p
    BY <1>2, <1>5 DEF parsed, Context
  <2> QED
    BY <2>1 DEF Context
<1> HIDE DEF parsed, derived
<1>7. p \in Path /\ step \in UiSteps =>
        /\ done \in Context
        /\ done.ready /\ done.path = p /\ done.derived = p /\ done.uiStep = step
  BY <1>6 DEF Context
<1> HIDE DEF done
<1>8. /\ {ERR_INVALID_REQUEST_PARAMETERS, ERR_INVALID_DATA, ERR_REJECTED_BY_POLICY,
          ASSERT_PATH_LENGTH} \subseteq AutoRespond \cup HostCrashes
      /\ SUCCESS \notin {ERR_INVALID_REQUEST_PARAMETERS, ERR_INVALID_DATA,
                         ERR_REJECTED_BY_POLICY, ASSERT_PATH_LENGTH}
  BY DEF AutoRespond, HostCrashes, SUCCESS, ERR_INVALID_REQUEST_PARAMETERS,
         ERR_INVALID_DATA, ERR_REJECTED_BY_POLICY, ASSERT_PATH_LENGTH
<1>9. CASE \/ r = Refuse(ERR_INVALID_REQUEST_PARAMETERS, ZeroContext)
           \/ r = Refuse(ERR_INVALID_DATA, ZeroContext)
  BY <1>2, <1>8, <1>9 DEF Refuse
<1>10. CASE /\ Parses(w)
            /\ \/ r = Refuse(ERR_INVALID_DATA, parsed)
               \/ r = Refuse(ERR_REJECTED_BY_POLICY, parsed)
               \/ r = Refuse(ASSERT_PATH_LENGTH, parsed)
  BY <1>1, <1>5, <1>8, <1>10 DEF Refuse
<1>11. CASE /\ Parses(w) /\ ParsedSize(w) = w.size /\ policy # POLICY_DENY
            /\ step # "none" => r = [verdict |-> SUCCESS, ctx |-> done]
  <2>1. p \in Path /\ p = w.words /\ step \in UiSteps
        /\ r = [verdict |-> SUCCESS, ctx |-> done]
    BY <1>1, <1>11
  <2>2. ParsedPath(w) = p
    BY DEF p
  <2> QED
    BY <1>4, <1>7, <1>11, <2>1, <2>2
<1> QED
  BY <1>3, <1>9, <1>10, <1>11

-----------------------------------------------------------------------------
(***************************************************************************)
(* The ways a step of a call can end: with a screen, with an answer of     *)
(* SUCCESS, with an error, with a reset of the device.                     *)
(***************************************************************************)

Instructions == {GET_VERSION, GET_EXT_PUB_KEY, DERIVE_ADDRESS}

\* A screen whose button leads back to where its acknowledgement is due.
LEMMA ShowInv ==
  ASSUME Inv, On, ~Sending,
         NEW c \in Context, NEW g \in Ghost, NEW kind \in {"text", "prompt"},
         NEW what \in Saying, NEW ins \in Instructions, g.request # "none",
         Progress(c, Acknowledged(g, what)),
         Show(ins, Screen(kind, what, g.request)), ctx' = c, ghost' = g
  PROVE  Inv'
<1>1. TypeOK'
  <2>1. Screen(kind, what, g.request) \in
          [kind: {"menu", "text", "prompt"}, what: Saying, callback: Flows, run: BOOLEAN]
    <3> HIDE DEF Saying
    <3> QED
      BY DEF Screen, Ghost
  <2> HIDE DEF Saying, Screen
  <2> QED
    BY <2>1 DEF Inv, TypeOK, Show, Instructions, Context, Ghost, Flows
<1>2. ControlInv' /\ InternalAssertionsHold'
  BY DEF Inv, ControlInv, Show, Screen, OneAnswerPerRequest, NoStaleScreen, On, Sending,
         InternalAssertionsHold
<1>3. display'.callback = g.request /\ display'.what = what
  BY DEF Show, Screen
<1>4. ScreenInv'
  BY <1>3 DEF ScreenInv
<1>5. ~Sending'
  BY DEF Show, Sending
<1>6. ReplyInv' /\ ExportInv'
  BY <1>5 DEF ReplyInv, ExportInv, KeyExportIsConfirmed, AddressExportIsConfirmed,
              ShownAddressIsAcknowledged
<1> QED
  BY <1>1, <1>2, <1>4, <1>6 DEF Inv

\* A SUCCESS whose data has been confirmed.
LEMMA AnswerInv ==
  ASSUME Inv, On, ~Sending, NEW ins \in Instructions,
         NEW data \in {NoData, [kind |-> "version"]} \cup
                        [kind: {"key", "address"}, path: Path],
         Respond(ins, SUCCESS, data, "idle"),
         ctx' \in Context, ghost' \in Ghost, ExportInv'
  PROVE  Inv'
<1>1. TypeOK'
  BY DEF Inv, TypeOK, Respond, IoStateInside, Instructions, Context, Ghost, Flows
<1>2. Sending' /\ On' /\ display'.run /\ display'.kind = display.kind
  BY DEF Respond, Sending, On, Inv, TypeOK, SUCCESS, NoCode
<1>3. ControlInv' /\ InternalAssertionsHold'
  BY <1>2 DEF Inv, ControlInv, Respond, IoStateInside, OneAnswerPerRequest, NoStaleScreen, On,
              InternalAssertionsHold
<1>4. ScreenInv'
  BY <1>2 DEF ScreenInv, WaitsForUser
<1>5. ReplyInv'
  BY DEF ReplyInv, Respond
<1> QED
  BY <1>1, <1>3, <1>4, <1>5 DEF Inv

\* An error the host is told of.
LEMMA ErrorInv ==
  ASSUME Inv, On, ~Sending, NEW e \in AutoRespond, NEW ins \in {INS_NONE} \cup Instructions,
         Respond(ins, e, NoData, "idle"),
         ctx' \in Context, ghost' \in Ghost
  PROVE  Inv'
<1>1. e # SUCCESS /\ e # NoCode
  BY DEF AutoRespond, SUCCESS, NoCode, ERR_MALFORMED_REQUEST_HEADER, ERR_BAD_CLA,
         ERR_UNKNOWN_INS, ERR_STILL_IN_CALL, ERR_INVALID_REQUEST_PARAMETERS,
         ERR_INVALID_STATE, ERR_INVALID_DATA, ERR_REJECTED_BY_USER,
         ERR_REJECTED_BY_POLICY, ERR_DEVICE_LOCKED
<1>2. TypeOK'
  BY DEF Inv, TypeOK, Respond, IoStateInside, Instructions, Context, Ghost, Flows
<1>3. Sending' /\ On' /\ display'.run /\ display'.kind = display.kind
  BY <1>1 DEF Respond, Sending, On, Inv, TypeOK
<1>4. ControlInv' /\ InternalAssertionsHold'
  BY <1>3 DEF Inv, ControlInv, Respond, IoStateInside, OneAnswerPerRequest, NoStaleScreen, On,
              InternalAssertionsHold
<1>5. ScreenInv'
  BY <1>3 DEF ScreenInv, WaitsForUser
<1>6. reply'.code # SUCCESS /\ reply'.data.kind = "none"
      /\ reply'.data = NoData /\ reply'.then = "idle"
  BY <1>1 DEF Respond, NoData
<1>7. ReplyInv' /\ ExportInv'
  BY <1>6 DEF ReplyInv, ExportInv, KeyExportIsConfirmed, AddressExportIsConfirmed,
              ShownAddressIsAcknowledged
<1> QED
  BY <1>2, <1>4, <1>5, <1>7 DEF Inv

\* A reset that the host has brought about.
LEMMA CrashInv ==
  ASSUME Inv, On, ~Sending, NEW cause \in HostCrashes, Crash(cause),
         ctx' \in Context, ghost' \in Ghost
  PROVE  Inv'
<1>1. cause # NotCrashed /\ cause \notin InternalCrashes
  BY DEF HostCrashes, InternalCrashes, NotCrashed, ASSERT_IO_STATE, ASSERT_PATH_LENGTH,
         ASSERT_BUTTON, ASSERT_MAGIC, ASSERT_UI_STEP, ASSERT_POLICY
<1>2. TypeOK'
  BY DEF Inv, TypeOK, Crash, Context, Ghost, Flows
<1>3. ~On' /\ ~Sending'
  BY <1>1 DEF Crash, On, Sending
<1>4. ControlInv' /\ InternalAssertionsHold'
  BY <1>1, <1>3 DEF Inv, ControlInv, Crash, OneAnswerPerRequest, NoStaleScreen,
                    InternalAssertionsHold
<1>5. ScreenInv' /\ ReplyInv' /\ ExportInv'
  BY <1>3 DEF ScreenInv, ReplyInv, WaitsForUser, ExportInv, KeyExportIsConfirmed,
              AddressExportIsConfirmed, ShownAddressIsAcknowledged
<1> QED
  BY <1>2, <1>4, <1>5 DEF Inv

\* A handler that throws.
LEMMA ThrowInv ==
  ASSUME Inv, On, ~Sending, NEW ins \in Instructions,
         NEW e \in AutoRespond \cup HostCrashes, Throw(ins, e),
         ctx' \in Context, ghost' \in Ghost
  PROVE  Inv'
<1>1. CASE e \in AutoRespond /\ Respond(ins, e, NoData, "idle")
  BY <1>1, ErrorInv
<1>2. CASE e \notin AutoRespond /\ Crash(e)
  BY <1>2, CrashInv
<1> QED
  BY <1>1, <1>2 DEF Throw

\* A path that is too long for its screen.
LEMMA PathTextInv ==
  ASSUME Inv, On, ~Sending,
         NEW c \in Context, NEW g \in Ghost, NEW head \in Headers,
         NEW ins \in Instructions, NEW next \in UiSteps, g.request # "none",
         c.path = g.asked,
         Progress([c EXCEPT !.uiStep = next], Acknowledged(g, SaysPath(head, g.asked))),
         PathText(ins, head, g.request, c, next), ghost' = g
  PROVE  Inv'
<1> DEFINE d == [c EXCEPT !.uiStep = next]
           what == SaysPath(head, g.asked)
<1>1. what \in Saying
  BY SayingTypes DEF Ghost
<1>2. d \in Context
  BY DEF Context
<1>3. CASE Derivable(c.path)
  <2>1. Show(ins, Screen("text", what, g.request)) /\ ctx' = d
    BY <1>3 DEF PathText, Text, ui_displayPaginatedText
  <2> HIDE DEF d, what
  <2> QED
    BY <1>1, <1>2, <2>1, ShowInv DEF d, what
<1>4. CASE ~Derivable(c.path)
  <2>1. Crash(ASSERT_PATH_LENGTH) /\ ctx' \in Context
    BY <1>4 DEF PathText, AssertFails, Inv, TypeOK, Context
  <2>2. ASSERT_PATH_LENGTH \in HostCrashes
    BY DEF HostCrashes
  <2> QED
    BY <2>1, <2>2, CrashInv
<1> QED
  BY <1>3, <1>4

\* A screen that is not about the path.
LEMMA TextInv ==
  ASSUME Inv, On, ~Sending,
         NEW c \in Context, NEW g \in Ghost, NEW what \in Saying,
         NEW ins \in Instructions, NEW next \in UiSteps, g.request # "none",
         Progress([c EXCEPT !.uiStep = next], Acknowledged(g, what)),
         Text(ins, what, g.request, c, next) \/ Prompt(ins, what, g.request, c, next),
         ghost' = g
  PROVE  Inv'
<1> DEFINE d == [c EXCEPT !.uiStep = next]
<1>1. d \in Context
  BY DEF Context
<1>2. CASE Text(ins, what, g.request, c, next)
  <2>1. Show(ins, Screen("text", what, g.request)) /\ ctx' = d
    BY <1>2 DEF Text, ui_displayPaginatedText
  <2> HIDE DEF d
  <2> QED
    BY <1>1, <2>1, ShowInv DEF d
<1>3. CASE Prompt(ins, what, g.request, c, next)
  <2>1. Show(ins, Screen("prompt", what, g.request)) /\ ctx' = d
    BY <1>3 DEF Prompt, ui_displayPrompt
  <2> HIDE DEF d
  <2> QED
    BY <1>1, <2>1, ShowInv DEF d
<1> QED
  BY <1>2, <1>3

-----------------------------------------------------------------------------
(***************************************************************************)
(* The run-step functions.                                                 *)
(***************************************************************************)

\* What a run-step function is entered with.
LEMMA Entered ==
  ASSUME NEW c \in Context, NEW g \in Ghost, Progress(c, g)
  PROVE  /\ c.ready /\ c.path = g.asked /\ c.derived = g.asked
         /\ g.asked \in Path /\ g.acknowledged \in Seq(Saying)
         /\ g.request = "export" => ExportSeen(c.uiStep, g.asked, g.acknowledged)
         /\ g.request = "return" => ReturnSeen(c.uiStep, g.asked, g.acknowledged)
         /\ g.request = "display" => DisplaySeen(c.uiStep, g.asked, g.acknowledged)
  BY DEF Progress, Ghost

\* It is entered next where the screen it has shown has been acknowledged.
LEMMA EnteredNext ==
  ASSUME NEW c \in Context, NEW g \in Ghost, Progress(c, g),
         NEW what \in Saying, NEW next \in UiSteps,
         \/ /\ g.request = "export"
            /\ ExportSeen(next, g.asked, Append(g.acknowledged, what))
         \/ /\ g.request = "return"
            /\ ReturnSeen(next, g.asked, Append(g.acknowledged, what))
         \/ /\ g.request = "display"
            /\ DisplaySeen(next, g.asked, Append(g.acknowledged, what))
  PROVE  Progress([c EXCEPT !.uiStep = next], Acknowledged(g, what))
<1> DEFINE d == [c EXCEPT !.uiStep = next]
           h == Acknowledged(g, what)
<1>1. d.ready = c.ready /\ d.path = c.path /\ d.derived = c.derived /\ d.uiStep = next
  BY DEF Context
<1>2. h.asked = g.asked /\ h.request = g.request
      /\ h.acknowledged = Append(g.acknowledged, what)
  BY DEF Acknowledged, Ghost
<1>3. c.ready /\ c.path = g.asked /\ c.derived = g.asked
  BY DEF Progress
<1> HIDE DEF d, h
<1>4. Progress(d, h)
  BY <1>1, <1>2, <1>3 DEF Progress
<1> QED
  BY <1>4 DEF d, h

\* Whether a path is usual is a truth value.
LEMMA UsualOrNot ==
  ASSUME NEW p
  PROVE  IsAccountPath(p) \in BOOLEAN /\ IsUsualAddressPath(p) \in BOOLEAN
<1>1. IsAccountPath(p) \in BOOLEAN
  BY DEF IsAccountPath
<1>2. IsUsualAddressPath(p) \in BOOLEAN
  BY SMT DEF IsUsualAddressPath
<1> QED
  BY <1>1, <1>2

\* The steps of an export of a key.
LEMMA ExportStepInv ==
  ASSUME Inv, On, ~Sending, NEW c \in Context, NEW g \in Ghost,
         g.request = "export", Progress(c, g), ExportStep(c), ghost' = g
  PROVE  Inv'
<1> DEFINE p == g.asked
           a == g.acknowledged
           w == Warning(IsAccountPath(p))
           path == SaysPath("ExportPublicKey", p)
           prompt == Says("ConfirmExportPublicKey")
<1>1. c.ready /\ c.path = p /\ c.derived = p /\ p \in Path /\ ExportSeen(c.uiStep, p, a)
  BY Entered
<1>2. path \in Saying /\ prompt \in Saying /\ Says("UnusualRequest") \in Saying
  BY <1>1, SayingTypes DEF Headers
<1>3. /\ w \in Seq(Saying)
      /\ Append(w, path) = w \o <<path>>
      /\ Append(w \o <<path>>, prompt) = w \o <<path, prompt>>
  <2> HIDE DEF path, prompt
  <2>1. w \in Seq(Saying)
    BY WarningFirst, UsualOrNot
  <2> HIDE DEF w
  <2> QED
    BY <1>2, <2>1, TwoMore
<1>4. GET_EXT_PUB_KEY \in Instructions
      /\ {"EXPORT_PATH", "EXPORT_CONFIRM", "EXPORT_RESPOND"} \subseteq UiSteps
      /\ "ExportPublicKey" \in Headers
  BY DEF Instructions, UiSteps, Headers
<1>5. CASE c.uiStep = "EXPORT_WARNING"
  <2>1. a = <<>> /\ IsCardanoPath(p) /\ ~IsAccountPath(p)
    BY <1>1, <1>5 DEF ExportSeen
  <2>2. Append(a, Says("UnusualRequest")) = w
    BY <2>1, WarningFirst, UsualOrNot
  <2>3. ExportSeen("EXPORT_PATH", p, Append(a, Says("UnusualRequest")))
    BY <2>1, <2>2, Zenon DEF ExportSeen
  <2>4. Text(GET_EXT_PUB_KEY, Says("UnusualRequest"), g.request, c, "EXPORT_PATH")
    BY <1>5 DEF ExportStep, AfterExportWarning
  <2> QED
    BY <1>2, <1>4, <2>3, <2>4, EnteredNext, TextInv
<1>6. CASE c.uiStep = "EXPORT_PATH"
  <2>1. a = w /\ IsCardanoPath(p)
    BY <1>1, <1>6 DEF ExportSeen
  <2>2. ExportSeen("EXPORT_CONFIRM", p, Append(a, path))
    BY <1>3, <2>1, Zenon DEF ExportSeen
  <2>3. PathText(GET_EXT_PUB_KEY, "ExportPublicKey", g.request, c, "EXPORT_CONFIRM")
    BY <1>6 DEF ExportStep
  <2> QED
    BY <1>1, <1>2, <1>4, <2>2, <2>3, EnteredNext, PathTextInv
<1>7. CASE c.uiStep = "EXPORT_CONFIRM"
  <2>1. a = w \o <<path>> /\ IsCardanoPath(p)
    BY <1>1, <1>7 DEF ExportSeen
  <2>2. ExportSeen("EXPORT_RESPOND", p, Append(a, prompt))
    BY <1>3, <2>1, Zenon DEF ExportSeen
  <2>3. Prompt(GET_EXT_PUB_KEY, prompt, g.request, c, "EXPORT_RESPOND")
    BY <1>7 DEF ExportStep
  <2> QED
    BY <1>2, <1>4, <2>2, <2>3, EnteredNext, TextInv
<1>8. CASE c.uiStep = "EXPORT_RESPOND"
  <2>1. a = w \o <<path, prompt>> /\ IsCardanoPath(p)
    BY <1>1, <1>8 DEF ExportSeen
  <2>2. Respond(GET_EXT_PUB_KEY, SUCCESS, KeyOf(p), "idle") /\ ctx' = c
    BY <1>1, <1>8 DEF ExportStep
  <2>3. KeyOf(p) \in [kind: {"key", "address"}, path: Path]
    BY <1>1 DEF KeyOf
  <2>4. reply'.data.kind = "key" /\ reply'.data.path = p /\ reply'.data # NoData
    BY <2>2 DEF Respond, KeyOf, NoData
  <2>5. KeyExportIsConfirmed'
    BY <2>1, <2>4 DEF KeyExportIsConfirmed
  <2>6. ExportInv'
    BY <2>4, <2>5 DEF ExportInv, AddressExportIsConfirmed, ShownAddressIsAcknowledged
  <2> QED
    BY <1>4, <2>2, <2>3, <2>6, AnswerInv
<1> QED
  BY <1>1, <1>5, <1>6, <1>7, <1>8 DEF ExportSeen

\* The steps of the return of an address.
LEMMA ReturnStepInv ==
  ASSUME Inv, On, ~Sending, NEW c \in Context, NEW g \in Ghost,
         g.request = "return", Progress(c, g), ReturnStep(c), ghost' = g
  PROVE  Inv'
<1> DEFINE p == g.asked
           a == g.acknowledged
           w == Warning(IsUsualAddressPath(p))
           path == SaysPath("ExportAddress", p)
           prompt == Says("ConfirmExportAddress")
<1>1. c.ready /\ c.path = p /\ c.derived = p /\ p \in Path /\ ReturnSeen(c.uiStep, p, a)
  BY Entered
<1>2. path \in Saying /\ prompt \in Saying /\ Says("UnusualRequest") \in Saying
  BY <1>1, SayingTypes DEF Headers
<1>3. /\ w \in Seq(Saying)
      /\ Append(w, path) = w \o <<path>>
      /\ Append(w \o <<path>>, prompt) = w \o <<path, prompt>>
  <2> HIDE DEF path, prompt
  <2>1. w \in Seq(Saying)
    BY WarningFirst, UsualOrNot
  <2> HIDE DEF w
  <2> QED
    BY <1>2, <2>1, TwoMore
<1>4. DERIVE_ADDRESS \in Instructions
      /\ {"RETURN_PATH", "RETURN_CONFIRM", "RETURN_RESPOND"} \subseteq UiSteps
      /\ "ExportAddress" \in Headers
  BY DEF Instructions, UiSteps, Headers
<1>5. CASE c.uiStep = "RETURN_WARNING"
  <2>1. a = <<>> /\ IsCardanoAddressPath(p) /\ ~IsUsualAddressPath(p)
    BY <1>1, <1>5 DEF ReturnSeen
  <2>2. Append(a, Says("UnusualRequest")) = w
    BY <2>1, WarningFirst, UsualOrNot
  <2>3. ReturnSeen("RETURN_PATH", p, Append(a, Says("UnusualRequest")))
    BY <2>1, <2>2, Zenon DEF ReturnSeen
  <2>4. Text(DERIVE_ADDRESS, Says("UnusualRequest"), g.request, c, "RETURN_PATH")
    BY <1>1, <1>5 DEF ReturnStep
  <2> QED
    BY <1>2, <1>4, <2>3, <2>4, EnteredNext, TextInv
<1>6. CASE c.uiStep = "RETURN_PATH"
  <2>1. a = w /\ IsCardanoAddressPath(p)
    BY <1>1, <1>6 DEF ReturnSeen
  <2>2. ReturnSeen("RETURN_CONFIRM", p, Append(a, path))
    BY <1>3, <2>1, Zenon DEF ReturnSeen
  <2>3. PathText(DERIVE_ADDRESS, "ExportAddress", g.request, c, "RETURN_CONFIRM")
    BY <1>1, <1>6 DEF ReturnStep
  <2> QED
    BY <1>1, <1>2, <1>4, <2>2, <2>3, EnteredNext, PathTextInv
<1>7. CASE c.uiStep = "RETURN_CONFIRM"
  <2>1. a = w \o <<path>> /\ IsCardanoAddressPath(p)
    BY <1>1, <1>7 DEF ReturnSeen
  <2>2. ReturnSeen("RETURN_RESPOND", p, Append(a, prompt))
    BY <1>3, <2>1, Zenon DEF ReturnSeen
  <2>3. Prompt(DERIVE_ADDRESS, prompt, g.request, c, "RETURN_RESPOND")
    BY <1>1, <1>7 DEF ReturnStep
  <2> QED
    BY <1>2, <1>4, <2>2, <2>3, EnteredNext, TextInv
<1>8. CASE c.uiStep = "RETURN_RESPOND"
  <2>1. a = w \o <<path, prompt>> /\ IsCardanoAddressPath(p)
    BY <1>1, <1>8 DEF ReturnSeen
  <2>2. Respond(DERIVE_ADDRESS, SUCCESS, AddressOf(p), "idle")
        /\ ctx' = [c EXCEPT !.ready = FALSE]
    BY <1>1, <1>8 DEF ReturnStep
  <2>3. ctx' \in Context /\ AddressOf(p) \in [kind: {"key", "address"}, path: Path]
    BY <1>1, <2>2 DEF AddressOf, Context
  <2>4. reply'.data.kind = "address" /\ reply'.data.path = p /\ reply'.data # NoData
    BY <2>2 DEF Respond, AddressOf, NoData
  <2>5. AddressExportIsConfirmed'
    BY <2>1, <2>4 DEF AddressExportIsConfirmed
  <2>6. ExportInv'
    BY <2>4, <2>5 DEF ExportInv, KeyExportIsConfirmed, ShownAddressIsAcknowledged
  <2> QED
    BY <1>4, <2>2, <2>3, <2>6, AnswerInv
<1> QED
  BY <1>1, <1>5, <1>6, <1>7, <1>8 DEF ReturnSeen

\* The steps of the display of an address.
LEMMA DisplayStepInv ==
  ASSUME Inv, On, ~Sending, NEW c \in Context, NEW g \in Ghost,
         g.request = "display", Progress(c, g), DisplayStep(c), ghost' = g
  PROVE  Inv'
<1> DEFINE p == g.asked
           a == g.acknowledged
           w == Warning(IsUsualAddressPath(p))
           verify == Says("VerifyAddress")
           path == SaysPath("AddressPath", p)
           address == SaysPath("Address", p)
<1>1. c.ready /\ c.path = p /\ c.derived = p /\ p \in Path /\ DisplaySeen(c.uiStep, p, a)
  BY Entered
<1>2. verify \in Saying /\ path \in Saying /\ address \in Saying
      /\ Says("UnusualRequest") \in Saying
  BY <1>1, SayingTypes DEF Headers
<1>3. /\ w \in Seq(Saying)
      /\ Append(w, verify) = w \o <<verify>>
      /\ Append(w \o <<verify>>, path) = w \o <<verify, path>>
      /\ Append(w \o <<verify, path>>, address) = w \o <<verify, path, address>>
  <2> HIDE DEF verify, path, address
  <2>1. w \in Seq(Saying)
    BY WarningFirst, UsualOrNot
  <2> HIDE DEF w
  <2> QED
    <3>1. Append(w, verify) = w \o <<verify>>
          /\ Append(w \o <<verify>>, path) = w \o <<verify, path>>
      BY <1>2, <2>1, TwoMore
    <3>2. Append(w \o <<verify, path>>, address) = w \o <<verify, path, address>>
      BY <1>2, <2>1, ThreeMore
    <3> QED
      BY <2>1, <3>1, <3>2
<1>4. DERIVE_ADDRESS \in Instructions
      /\ {"DISPLAY_INSTRUCTIONS", "DISPLAY_PATH", "DISPLAY_ADDRESS", "DISPLAY_RESPOND"}
           \subseteq UiSteps
      /\ "AddressPath" \in Headers
  BY DEF Instructions, UiSteps, Headers
<1>5. CASE c.uiStep = "DISPLAY_WARNING"
  <2>1. a = <<>> /\ IsCardanoAddressPath(p) /\ ~IsUsualAddressPath(p)
    BY <1>1, <1>5 DEF DisplaySeen
  <2>2. Append(a, Says("UnusualRequest")) = w
    BY <2>1, WarningFirst, UsualOrNot
  <2>3. DisplaySeen("DISPLAY_INSTRUCTIONS", p, Append(a, Says("UnusualRequest")))
    BY <2>1, <2>2, Zenon DEF DisplaySeen
  <2>4. Text(DERIVE_ADDRESS, Says("UnusualRequest"), g.request, c, "DISPLAY_INSTRUCTIONS")
    BY <1>1, <1>5 DEF DisplayStep
  <2> QED
    BY <1>2, <1>4, <2>3, <2>4, EnteredNext, TextInv
<1>6. CASE c.uiStep = "DISPLAY_INSTRUCTIONS"
  <2>1. a = w /\ IsCardanoAddressPath(p)
    BY <1>1, <1>6 DEF DisplaySeen
  <2>2. DisplaySeen("DISPLAY_PATH", p, Append(a, verify))
    BY <1>3, <2>1, Zenon DEF DisplaySeen
  <2>3. Text(DERIVE_ADDRESS, verify, g.request, c, "DISPLAY_PATH")
    BY <1>1, <1>6 DEF DisplayStep
  <2> QED
    BY <1>2, <1>4, <2>2, <2>3, EnteredNext, TextInv
<1>7. CASE c.uiStep = "DISPLAY_PATH"
  <2>1. a = w \o <<verify>> /\ IsCardanoAddressPath(p)
    BY <1>1, <1>7 DEF DisplaySeen
  <2>2. DisplaySeen("DISPLAY_ADDRESS", p, Append(a, path))
    BY <1>3, <2>1, Zenon DEF DisplaySeen
  <2>3. PathText(DERIVE_ADDRESS, "AddressPath", g.request, c, "DISPLAY_ADDRESS")
    BY <1>1, <1>7 DEF DisplayStep
  <2> QED
    BY <1>1, <1>2, <1>4, <2>2, <2>3, EnteredNext, PathTextInv
<1>8. CASE c.uiStep = "DISPLAY_ADDRESS"
  <2>1. a = w \o <<verify, path>> /\ IsCardanoAddressPath(p)
    BY <1>1, <1>8 DEF DisplaySeen
  <2>2. DisplaySeen("DISPLAY_RESPOND", p, Append(a, address))
    BY <1>3, <2>1, Zenon DEF DisplaySeen
  <2>3. Text(DERIVE_ADDRESS, address, g.request, c, "DISPLAY_RESPOND")
    BY <1>1, <1>8 DEF DisplayStep
  <2>4. Progress([c EXCEPT !.uiStep = "DISPLAY_RESPOND"], Acknowledged(g, address))
    BY <1>2, <1>4, <2>2, EnteredNext
  <2> HIDE DEF address
  <2> QED
    BY <1>2, <1>4, <2>3, <2>4, TextInv
<1>9. CASE c.uiStep = "DISPLAY_RESPOND"
  <2>1. a = w \o <<verify, path, address>> /\ IsCardanoAddressPath(p)
    BY <1>1, <1>9 DEF DisplaySeen
  <2>2. Respond(DERIVE_ADDRESS, SUCCESS, NoData, "idle") /\ ctx' = c
    BY <1>1, <1>9 DEF DisplayStep
  <2>3. reply'.data = NoData /\ reply'.data.kind = "none"
    BY <2>2 DEF Respond, NoData
  <2>4. ShownAddressIsAcknowledged'
    BY <2>1, <2>3 DEF ShownAddressIsAcknowledged
  <2>5. ExportInv'
    BY <2>3, <2>4 DEF ExportInv, KeyExportIsConfirmed, AddressExportIsConfirmed
  <2> QED
    BY <1>4, <2>2, <2>5, AnswerInv
<1> QED
  BY <1>1, <1>5, <1>6, <1>7, <1>8, <1>9 DEF DisplaySeen

-----------------------------------------------------------------------------
(***************************************************************************)
(* The actions.                                                            *)
(***************************************************************************)

\* A request begins a history of its own.
LEMMA RequestedType ==
  ASSUME NEW request \in Flows, NEW w, WellFormedWire(w), NEW g, g = Requested(request, w)
  PROVE  /\ g \in Ghost
         /\ g.request = request /\ g.asked = w.words /\ g.acknowledged = <<>>
<1>1. w.words \in Path
  BY WordsType
<1>2. g = [request |-> request, asked |-> w.words, acknowledged |-> <<>>]
  BY DEF Requested, ZeroGhost
<1> QED
  BY <1>1, <1>2 DEF Ghost

\* Where an export starts.
LEMMA HandleExportInv ==
  ASSUME Inv, NEW ok, NEW w, WellFormedWire(w), HandleExport(ok, w)
  PROVE  Inv'
<1> DEFINE p == ParsedPath(w)
           policy == policyForGetExtendedPublicKey(p)
           step == ExportFirstStep(policy)
           r == ExportHandler(ok, w)
           g == Requested("export", w)
<1>1. /\ g \in Ghost
      /\ g.request = "export" /\ g.asked = w.words /\ g.acknowledged = <<>>
  BY RequestedType DEF Flows
<1>2. /\ On /\ ~Sending /\ ghost' = g
      /\ r.verdict = SUCCESS => ExportStep(r.ctx)
      /\ r.verdict # SUCCESS => Throw(GET_EXT_PUB_KEY, r.verdict) /\ ctx' = r.ctx
  BY DEF HandleExport, Accepts
<1>3. Parses(w) => \/ policy = POLICY_DENY
                   \/ /\ IsCardanoPath(p)
                      /\ \/ step = "EXPORT_WARNING" /\ ~IsAccountPath(p)
                         \/ step = "EXPORT_PATH" /\ IsAccountPath(p)
  BY WholePath, ExportPolicy
<1>4. r = PathHandler(ok, w, policy, step)
  BY DEF ExportHandler
<1> HIDE DEF r, g, p, policy, step
<1>5. Parses(w) /\ policy # POLICY_DENY => step \in UiSteps \ {"none"}
  BY <1>3 DEF UiSteps
<1>6. /\ r.ctx \in Context
      /\ r.verdict # SUCCESS => r.verdict \in AutoRespond \cup HostCrashes
      /\ r.verdict = SUCCESS =>
           /\ Parses(w) /\ p = w.words /\ policy # POLICY_DENY
           /\ r.ctx.ready /\ r.ctx.path = w.words /\ r.ctx.derived = w.words
           /\ r.ctx.uiStep = step
  BY <1>4, <1>5, PathHandlerResult DEF p
<1>7. CASE r.verdict = SUCCESS
  <2>1. ExportSeen(step, w.words, <<>>)
    BY <1>3, <1>6, <1>7, WarningFirst, UsualOrNot DEF ExportSeen
  <2>2. Progress(r.ctx, g)
    BY <1>1, <1>6, <1>7, <2>1 DEF Progress
  <2> QED
    BY <1>1, <1>2, <1>6, <1>7, <2>2, ExportStepInv
<1>8. CASE r.verdict # SUCCESS
  <2>1. GET_EXT_PUB_KEY \in Instructions
    BY DEF Instructions
  <2>2. ctx' \in Context /\ ghost' \in Ghost
    BY <1>1, <1>2, <1>6, <1>8
  <2> QED
    BY <1>2, <1>6, <1>8, <2>1, <2>2, ThrowInv
<1> QED
  BY <1>7, <1>8

\* Where the return of an address starts.
LEMMA HandleReturnInv ==
  ASSUME Inv, NEW ok, NEW w, WellFormedWire(w), HandleReturn(ok, w)
  PROVE  Inv'
<1> DEFINE p == ParsedPath(w)
           policy == policyForReturnDeriveAddress(p)
           step == ReturnFirstStep(policy)
           r == ReturnHandler(ok, w)
           g == Requested("return", w)
<1>1. /\ g \in Ghost
      /\ g.request = "return" /\ g.asked = w.words /\ g.acknowledged = <<>>
  BY RequestedType DEF Flows
<1>2. /\ On /\ ~Sending /\ ghost' = g
      /\ r.verdict = SUCCESS => ReturnStep(r.ctx)
      /\ r.verdict # SUCCESS => Throw(DERIVE_ADDRESS, r.verdict) /\ ctx' = r.ctx
  BY DEF HandleReturn, Accepts
<1>3. Parses(w) => \/ policy = POLICY_DENY
                   \/ /\ IsCardanoAddressPath(p)
                      /\ \/ step = "RETURN_WARNING" /\ ~IsUsualAddressPath(p)
                         \/ step = "RETURN_PATH" /\ IsUsualAddressPath(p)
  BY WholePath, ReturnPolicy
<1>4. r = PathHandler(ok, w, policy, step)
  BY DEF ReturnHandler
<1> HIDE DEF r, g, p, policy, step
<1>5. Parses(w) /\ policy # POLICY_DENY => step \in UiSteps \ {"none"}
  BY <1>3 DEF UiSteps
<1>6. /\ r.ctx \in Context
      /\ r.verdict # SUCCESS => r.verdict \in AutoRespond \cup HostCrashes
      /\ r.verdict = SUCCESS =>
           /\ Parses(w) /\ p = w.words /\ policy # POLICY_DENY
           /\ r.ctx.ready /\ r.ctx.path = w.words /\ r.ctx.derived = w.words
           /\ r.ctx.uiStep = step
  BY <1>4, <1>5, PathHandlerResult DEF p
<1>7. CASE r.verdict = SUCCESS
  <2>1. ReturnSeen(step, w.words, <<>>)
    BY <1>3, <1>6, <1>7, WarningFirst, UsualOrNot DEF ReturnSeen
  <2>2. Progress(r.ctx, g)
    BY <1>1, <1>6, <1>7, <2>1 DEF Progress
  <2> QED
    BY <1>1, <1>2, <1>6, <1>7, <2>2, ReturnStepInv
<1>8. CASE r.verdict # SUCCESS
  <2>1. DERIVE_ADDRESS \in Instructions
    BY DEF Instructions
  <2>2. ctx' \in Context /\ ghost' \in Ghost
    BY <1>1, <1>2, <1>6, <1>8
  <2> QED
    BY <1>2, <1>6, <1>8, <2>1, <2>2, ThrowInv
<1> QED
  BY <1>7, <1>8

\* Where the display of an address starts.
LEMMA HandleDisplayInv ==
  ASSUME Inv, NEW ok, NEW w, WellFormedWire(w), HandleDisplay(ok, w)
  PROVE  Inv'
<1> DEFINE p == ParsedPath(w)
           policy == policyForShowDeriveAddress(p)
           step == DisplayFirstStep(policy)
           r == DisplayHandler(ok, w)
           g == Requested("display", w)
<1>1. /\ g \in Ghost
      /\ g.request = "display" /\ g.asked = w.words /\ g.acknowledged = <<>>
  BY RequestedType DEF Flows
<1>2. /\ On /\ ~Sending /\ ghost' = g
      /\ r.verdict = SUCCESS => DisplayStep(r.ctx)
      /\ r.verdict # SUCCESS => Throw(DERIVE_ADDRESS, r.verdict) /\ ctx' = r.ctx
  BY DEF HandleDisplay, Accepts
<1>3. Parses(w) => \/ policy = POLICY_DENY
                   \/ /\ IsCardanoAddressPath(p)
                      /\ \/ step = "DISPLAY_WARNING" /\ ~IsUsualAddressPath(p)
                         \/ step = "DISPLAY_INSTRUCTIONS" /\ IsUsualAddressPath(p)
  BY WholePath, DisplayPolicy
<1>4. r = PathHandler(ok, w, policy, step)
  BY DEF DisplayHandler
<1> HIDE DEF r, g, p, policy, step
<1>5. Parses(w) /\ policy # POLICY_DENY => step \in UiSteps \ {"none"}
  BY <1>3 DEF UiSteps
<1>6. /\ r.ctx \in Context
      /\ r.verdict # SUCCESS => r.verdict \in AutoRespond \cup HostCrashes
      /\ r.verdict = SUCCESS =>
           /\ Parses(w) /\ p = w.words /\ policy # POLICY_DENY
           /\ r.ctx.ready /\ r.ctx.path = w.words /\ r.ctx.derived = w.words
           /\ r.ctx.uiStep = step
  BY <1>4, <1>5, PathHandlerResult DEF p
<1>7. CASE r.verdict = SUCCESS
  <2>1. DisplaySeen(step, w.words, <<>>)
    BY <1>3, <1>6, <1>7, WarningFirst, UsualOrNot DEF DisplaySeen
  <2>2. Progress(r.ctx, g)
    BY <1>1, <1>6, <1>7, <2>1 DEF Progress
  <2> QED
    BY <1>1, <1>2, <1>6, <1>7, <2>2, DisplayStepInv
<1>8. CASE r.verdict # SUCCESS
  <2>1. DERIVE_ADDRESS \in Instructions
    BY DEF Instructions
  <2>2. ctx' \in Context /\ ghost' \in Ghost
    BY <1>1, <1>2, <1>6, <1>8
  <2> QED
    BY <1>2, <1>6, <1>8, <2>1, <2>2, ThrowInv
<1> QED
  BY <1>7, <1>8

\* The version is no secret.
LEMMA HandleGetVersionInv ==
  ASSUME Inv, NEW ok, HandleGetVersion(ok)
  PROVE  Inv'
<1>1. On /\ ~Sending /\ ctx' \in Context /\ ghost' \in Ghost /\ GET_VERSION \in Instructions
  BY ZeroTypes DEF HandleGetVersion, Accepts, Instructions
<1>2. CASE Respond(GET_VERSION, SUCCESS, [kind |-> "version"], "idle")
  <2>1. reply'.data.kind = "version" /\ reply'.data # NoData
    BY <1>2 DEF Respond, NoData
  <2>2. ExportInv'
    BY <2>1 DEF ExportInv, KeyExportIsConfirmed, AddressExportIsConfirmed,
                ShownAddressIsAcknowledged
  <2> QED
    BY <1>1, <1>2, <2>2, AnswerInv
<1>3. CASE Throw(GET_VERSION, ERR_INVALID_REQUEST_PARAMETERS)
  <2>1. ERR_INVALID_REQUEST_PARAMETERS \in AutoRespond \cup HostCrashes
    BY DEF AutoRespond
  <2> QED
    BY <1>1, <1>3, <2>1, ThrowInv
<1> QED
  BY <1>2, <1>3 DEF HandleGetVersion

\* A button that is not ignored is that of a screen that waits for the user.
LEMMA ButtonScreen ==
  ASSUME Inv, AwaitsButton({"text", "prompt"}) \/ AwaitsButton({"prompt"})
  PROVE  WaitsForUser /\ On /\ ~Sending /\ ButtonAsserts
<1>1. On /\ display.kind \in {"text", "prompt"} /\ ~display.run
  BY DEF AwaitsButton
<1>2. ioState = "UI" /\ ~Sending
  BY <1>1 DEF Inv, ControlInv, OneAnswerPerRequest
<1> QED
  BY <1>1, <1>2 DEF WaitsForUser, ButtonAsserts

\* A confirmed screen leads to the next step.
LEMMA UserConfirmsInv ==
  ASSUME Inv, UserConfirms
  PROVE  Inv'
<1>1. WaitsForUser /\ On /\ ~Sending /\ ButtonAsserts
  BY ButtonScreen DEF UserConfirms
<1> DEFINE g == Acknowledged(ghost, display.what)
<1>2. ctx \in Context /\ ghost \in Ghost /\ display.what \in Saying
  BY DEF Inv, TypeOK, Context, Ghost, Flows
<1>3. g \in Ghost /\ g.request = ghost.request
  BY <1>2, AppendProperties DEF Acknowledged, Ghost
<1>4. ghost' = g /\ RunStep
  BY <1>1 DEF UserConfirms, Acknowledged
<1>5. display.callback = ghost.request /\ Progress(ctx, g)
  BY <1>1 DEF Inv, ScreenInv
<1> HIDE DEF g
<1>6. PICK c \in Context, h \in Ghost : c = ctx /\ h = g
  BY <1>2, <1>3
<1>7. Progress(c, h) /\ ghost' = h
  BY <1>4, <1>5, <1>6
<1>8. \/ h.request = "export" /\ ExportStep(c)
      \/ h.request = "return" /\ ReturnStep(c)
      \/ h.request = "display" /\ DisplayStep(c)
  <2>1. h.request \in {"export", "return", "display"} /\ display.callback = h.request
    BY <1>3, <1>5, <1>6, <1>7 DEF Progress
  <2> QED
    BY <1>4, <1>6, <2>1 DEF RunStep
<1>9. CASE h.request = "export" /\ ExportStep(c)
  BY <1>1, <1>7, <1>9, ExportStepInv
<1>10. CASE h.request = "return" /\ ReturnStep(c)
  BY <1>1, <1>7, <1>10, ReturnStepInv
<1>11. CASE h.request = "display" /\ DisplayStep(c)
  BY <1>1, <1>7, <1>11, DisplayStepInv
<1> QED
  BY <1>8, <1>9, <1>10, <1>11

\* Whatever comes after the menu, nothing of the call is left.
LEMMA IdleInv ==
  ASSUME crashed' = NotCrashed, ioState' = "IO", currentInstruction' = INS_NONE,
         display' = Menu, reply' = NoReply, awaiting' = FALSE, locked' \in BOOLEAN,
         ctx' \in Context, ghost' \in Ghost
  PROVE  Inv'
<1>1. NoReply \in [code: {NoCode, SUCCESS} \cup AutoRespond,
                   data: {NoData, [kind |-> "version"]} \cup
                           [kind: {"key", "address"}, path: Path],
                   then: {"none", "idle"}]
      /\ NoReply.code = NoCode
  BY DEF NoReply
<1> HIDE DEF NoReply
<1>2. TypeOK'
  <2> HIDE DEF Menu
  <2> QED
    BY <1>1, MenuType DEF TypeOK, Context, Ghost, Flows
<1>3. On' /\ ~Sending' /\ ~WaitsForUser'
  BY <1>1 DEF On, Sending, WaitsForUser
<1>4. display'.kind = "menu" /\ display'.run
  BY MenuType
<1>5. ControlInv' /\ InternalAssertionsHold'
  BY <1>3, <1>4
     DEF ControlInv, OneAnswerPerRequest, NoStaleScreen, InternalAssertionsHold,
         InternalCrashes, NotCrashed, ASSERT_BUTTON, ASSERT_MAGIC, ASSERT_UI_STEP,
         ASSERT_POLICY
<1>6. ScreenInv' /\ ReplyInv' /\ ExportInv'
  BY <1>3 DEF ScreenInv, ReplyInv, ExportInv, KeyExportIsConfirmed,
              AddressExportIsConfirmed, ShownAddressIsAcknowledged
<1> QED
  BY <1>2, <1>5, <1>6 DEF Inv

\* The end of a transmission.
LEMMA SendDoneInv ==
  ASSUME Inv, SendDone
  PROVE  Inv'
<1>1. Sending /\ reply.then = "idle"
  BY DEF SendDone, Transmitted, Inv, ReplyInv
<1>2. crashed' = NotCrashed /\ ioState' = "IO" /\ currentInstruction' = INS_NONE
      /\ display' = Menu /\ reply' = NoReply /\ awaiting' = FALSE /\ locked' \in BOOLEAN
  BY <1>1 DEF SendDone, Transmitted, ScreenAfter, On, Inv, TypeOK
<1>3. ctx' \in Context /\ ghost' \in Ghost
  BY DEF SendDone, Inv, TypeOK, Context, Ghost, Flows, UiSteps
<1> QED
  BY <1>2, <1>3, IdleInv

\* A step that leaves all but the lock as it is.
LEMMA SameStateInv ==
  ASSUME Inv, locked' \in BOOLEAN,
         UNCHANGED <<crashed, ioState, currentInstruction, display, reply, awaiting>>,
         UNCHANGED publicKeysVars
  PROVE  Inv'
<1>1. TypeOK'
  BY DEF Inv, TypeOK, publicKeysVars
<1>2. ControlInv' /\ InternalAssertionsHold'
  BY DEF publicKeysVars, Inv, ControlInv, OneAnswerPerRequest, NoStaleScreen, On, Sending,
         InternalAssertionsHold
<1>3. ScreenInv' /\ ReplyInv' /\ ExportInv'
  BY DEF publicKeysVars, Inv, ScreenInv, ReplyInv, WaitsForUser, On, Sending, ExportInv,
         KeyExportIsConfirmed, AddressExportIsConfirmed, ShownAddressIsAcknowledged
<1> QED
  BY <1>1, <1>2, <1>3 DEF Inv

\* The steps of the main loop, a rejection, the lock and a new start.
LEMMA PlatformStepInv ==
  ASSUME Inv, PlatformStep
  PROVE  Inv'
<1>1. ctx' \in Context /\ ghost' \in Ghost /\ UNCHANGED publicKeysVars
      /\ currentInstruction \in {INS_NONE} \cup Instructions
  BY DEF PlatformStep, publicKeysVars, Inv, TypeOK, Context, Ghost, Flows, Instructions
<1>2. CASE RejectApdu
  <2>1. MainLoopErrors \subseteq AutoRespond
    BY DEF MainLoopErrors, AutoRespond
  <2>2. PICK e \in AutoRespond : Respond(currentInstruction, e, NoData, "idle")
    BY <1>2, <2>1 DEF RejectApdu
  <2>3. On /\ ~Sending
    BY <1>2 DEF RejectApdu
  <2> QED
    BY <1>1, <2>2, <2>3, ErrorInv
<1>3. CASE ApduDuringUi
  BY <1>1, <1>3, CrashInv DEF ApduDuringUi, HostCrashes
<1>4. CASE UserRejects
  <2>1. On /\ ~Sending /\ ButtonAsserts
    BY <1>4, ButtonScreen DEF UserRejects
  <2>2. Respond(currentInstruction, ERR_REJECTED_BY_USER, NoData, "idle")
    BY <1>4, <2>1 DEF UserRejects, RejectThen
  <2>3. ERR_REJECTED_BY_USER \in AutoRespond
    BY DEF AutoRespond
  <2> QED
    BY <1>1, <2>1, <2>2, <2>3, ErrorInv
<1>5. CASE LockDevice \/ UnlockDevice
  BY <1>1, <1>5, SameStateInv DEF LockDevice, UnlockDevice
<1>6. CASE IoReset \/ Restart
  <2>1. Boot /\ locked' \in BOOLEAN
    BY <1>6 DEF IoReset, Restart, Inv, TypeOK
  <2> QED
    BY <1>1, <2>1, IdleInv DEF Boot
<1> QED
  BY <1>2, <1>3, <1>4, <1>5, <1>6 DEF PlatformStep

\* The application starts with nothing asked and nothing shown.
LEMMA InitInv == Init => Inv
<1> SUFFICES ASSUME Init PROVE Inv
  OBVIOUS
<1>1. NoReply \in [code: {NoCode, SUCCESS} \cup AutoRespond,
                   data: {NoData, [kind |-> "version"]} \cup
                           [kind: {"key", "address"}, path: Path],
                   then: {"none", "idle"}]
      /\ NoReply.code = NoCode
  BY DEF NoReply
<1> HIDE DEF NoReply
<1>2. TypeOK
  <2> HIDE DEF Menu, ZeroContext, ZeroGhost
  <2> QED
    BY <1>1, MenuType, ZeroTypes DEF Init, PlatformInit, TypeOK, Context, Ghost, Flows
<1>3. On /\ ~Sending /\ ~WaitsForUser
  BY <1>1 DEF Init, PlatformInit, On, Sending, WaitsForUser
<1>4. display.kind = "menu" /\ display.run
  BY MenuType DEF Init, PlatformInit
<1>5. ControlInv /\ InternalAssertionsHold
  BY <1>3, <1>4
     DEF Init, PlatformInit, ControlInv, OneAnswerPerRequest, NoStaleScreen,
         InternalAssertionsHold, InternalCrashes, NotCrashed, ASSERT_BUTTON, ASSERT_MAGIC,
         ASSERT_UI_STEP, ASSERT_POLICY
<1>6. ScreenInv /\ ReplyInv /\ ExportInv
  BY <1>3 DEF ScreenInv, ReplyInv, ExportInv, KeyExportIsConfirmed,
              AddressExportIsConfirmed, ShownAddressIsAcknowledged
<1> QED
  BY <1>2, <1>5, <1>6 DEF Inv

-----------------------------------------------------------------------------
(***************************************************************************)
(* The theorems.                                                           *)
(***************************************************************************)

\* Inv is inductive: every step of the application keeps it.
LEMMA NextInv ==
  ASSUME Inv, [Next]_vars
  PROVE  Inv'
<1>1. CASE \E ok \in BOOLEAN, w \in WirePaths :
             HandleExport(ok, w) \/ HandleReturn(ok, w) \/ HandleDisplay(ok, w)
  <2>1. PICK ok \in BOOLEAN, w \in WirePaths :
          HandleExport(ok, w) \/ HandleReturn(ok, w) \/ HandleDisplay(ok, w)
    BY <1>1
  <2>2. WellFormedWire(w)
    BY WirePathsAssumption
  <2>3. CASE HandleExport(ok, w)
    BY <2>2, <2>3, HandleExportInv
  <2>4. CASE HandleReturn(ok, w)
    BY <2>2, <2>4, HandleReturnInv
  <2>5. CASE HandleDisplay(ok, w)
    BY <2>2, <2>5, HandleDisplayInv
  <2> QED
    BY <2>1, <2>3, <2>4, <2>5
<1>2. CASE \E ok \in BOOLEAN : HandleGetVersion(ok)
  BY <1>2, HandleGetVersionInv
<1>3. CASE UserConfirms
  BY <1>3, UserConfirmsInv
<1>4. CASE SendDone
  BY <1>4, SendDoneInv
<1>5. CASE PlatformStep
  BY <1>5, PlatformStepInv
<1>6. CASE UNCHANGED vars
  <2>1. locked' \in BOOLEAN
    BY <1>6 DEF vars, platformVars, Inv, TypeOK
  <2>2. UNCHANGED <<crashed, ioState, currentInstruction, display, reply, awaiting>>
        /\ UNCHANGED publicKeysVars
    BY <1>6 DEF vars, platformVars
  <2> QED
    BY <2>1, <2>2, SameStateInv
<1> QED
  BY <1>1, <1>2, <1>3, <1>4, <1>5, <1>6 DEF Next

\* The inductive invariant holds in every reachable state, whatever paths the host
\* sends.
THEOREM Invariant == Spec => []Inv
<1>1. Init => Inv
  BY InitInv
<1>2. Inv /\ [Next]_vars => Inv'
  BY NextInv
<1> QED
  BY <1>1, <1>2, PTL DEF Spec

\* Every variable stays in its range.
THEOREM TypeCorrect == Spec => []TypeOK
<1>1. Inv => TypeOK
  BY DEF Inv
<1> QED
  BY <1>1, Invariant, PTL

\* io_state, the screen's callback state and the pending answer agree here, too.
THEOREM OneAnswer == Spec => []OneAnswerPerRequest
<1>1. Inv => OneAnswerPerRequest
  BY DEF Inv, ControlInv
<1> QED
  BY <1>1, Invariant, PTL

\* No host, whatever paths it sends and whenever, makes a run-step function
\* assert: no step it does not have, no result that is not ready, no policy the
\* switch does not know (getExtendedPublicKey.c, deriveAddress.c).
THEOREM NoInternalAssertFails == Spec => []InternalAssertionsHold
<1>1. Inv => InternalAssertionsHold
  BY DEF Inv
<1> QED
  BY <1>1, Invariant, PTL

\* A public key leaves the device only for the Cardano path the host has asked for
\* and after the user has seen and confirmed that path.
THEOREM ConfirmedKeyExports == Spec => []KeyExportIsConfirmed
<1>1. Inv => KeyExportIsConfirmed
  BY DEF Inv, ExportInv
<1> QED
  BY <1>1, Invariant, PTL

\* And so does an address.
THEOREM ConfirmedAddressExports == Spec => []AddressExportIsConfirmed
<1>1. Inv => AddressExportIsConfirmed
  BY DEF Inv, ExportInv
<1> QED
  BY <1>1, Invariant, PTL

\* The host hears that an address has been shown only after the user has gone
\* through all its screens.
THEOREM AcknowledgedAddresses == Spec => []ShownAddressIsAcknowledged
<1>1. Inv => ShownAddressIsAcknowledged
  BY DEF Inv, ExportInv
<1> QED
  BY <1>1, Invariant, PTL

-----------------------------------------------------------------------------
(***************************************************************************)
(* The steps of all requests as the platform sees them: every request and  *)
(* every button is answered, leads to the screen whose turn it is, or      *)
(* stops the device.  The composition of the instructions needs no more.   *)
(***************************************************************************)

\* A failed ASSERT stops the device.
LEMMA AssertStops ==
  ASSUME NEW cause \in HostCrashes \cup InternalCrashes, AssertFails(cause)
  PROVE  Stops
  BY DEF AssertFails, Stops, HostCrashes, InternalCrashes, NotCrashed, ASSERT_IO_STATE,
         ASSERT_PATH_LENGTH, ASSERT_BUTTON, ASSERT_MAGIC, ASSERT_UI_STEP, ASSERT_POLICY

\* A screen and the step that its button leads to.
LEMMA TextAsks ==
  ASSUME NEW c, NEW step, NEW next, NEW what, NEW callback, NEW ins, ins = Owner(callback),
         ctx' \in Context,
         Text(ins, what, callback, c, next) \/ Prompt(ins, what, callback, c, next),
         TurnAt(step) <= TurnOf(what.head), TurnOf(what.head) < TurnAt(next)
  PROVE  AsksFor(ins, step, ctx'.uiStep)
<1>1. ctx'.uiStep = next
  BY DEF Context, Text, Prompt
<1> HIDE DEF Context
<1> QED
  BY <1>1 DEF AsksFor, Text, Prompt, ui_displayPaginatedText, ui_displayPrompt

\* What a screen says begins with its header.
LEMMA HeadIs ==
  /\ \A h : Says(h).head = h
  /\ \A h, p : SaysPath(h, p).head = h
  BY DEF Says, SaysPath

\* Whose run-step functions the callbacks are.
LEMMA Owners ==
  /\ Owner("export") = GET_EXT_PUB_KEY
  /\ Owner("return") = DERIVE_ADDRESS
  /\ Owner("display") = DERIVE_ADDRESS
  BY DEF Owner, GET_EXT_PUB_KEY, DERIVE_ADDRESS

\* The screens, in their turns.
LEMMA Turns ==
  /\ TurnAt("EXPORT_WARNING") = 1 /\ TurnAt("RETURN_WARNING") = 1
  /\ TurnAt("DISPLAY_WARNING") = 1
  /\ TurnAt("EXPORT_PATH") = 2 /\ TurnAt("RETURN_PATH") = 2
  /\ TurnAt("DISPLAY_INSTRUCTIONS") = 2
  /\ TurnAt("EXPORT_CONFIRM") = 3 /\ TurnAt("RETURN_CONFIRM") = 3
  /\ TurnAt("DISPLAY_PATH") = 3
  /\ TurnAt("DISPLAY_ADDRESS") = 4
  /\ TurnAt("EXPORT_RESPOND") = 5 /\ TurnAt("RETURN_RESPOND") = 5
  /\ TurnAt("DISPLAY_RESPOND") = 5
  /\ TurnOf("UnusualRequest") = 1
  /\ TurnOf("ExportPublicKey") = 2 /\ TurnOf("ExportAddress") = 2
  /\ TurnOf("VerifyAddress") = 2
  /\ TurnOf("ConfirmExportPublicKey") = 3 /\ TurnOf("ConfirmExportAddress") = 3
  /\ TurnOf("AddressPath") = 3
  /\ TurnOf("Address") = 4
  BY DEF TurnAt, TurnOf

\* Each run-step function answers, shows the screen whose turn it is, or stops the
\* device.
LEMMA ExportStepMoves ==
  ASSUME On, ~Sending, NEW c, ctx' \in Context, ExportStep(c)
  PROVE  Moves(GET_EXT_PUB_KEY, c.uiStep, ctx'.uiStep)
<1>1. \/ /\ c.uiStep = "EXPORT_WARNING"
         /\ Text(GET_EXT_PUB_KEY, Says("UnusualRequest"), "export", c, "EXPORT_PATH")
      \/ /\ c.uiStep = "EXPORT_PATH"
         /\ Text(GET_EXT_PUB_KEY, SaysPath("ExportPublicKey", c.path), "export", c,
                 "EXPORT_CONFIRM")
      \/ /\ c.uiStep = "EXPORT_CONFIRM"
         /\ Prompt(GET_EXT_PUB_KEY, Says("ConfirmExportPublicKey"), "export", c,
                   "EXPORT_RESPOND")
      \/ Respond(GET_EXT_PUB_KEY, SUCCESS, KeyOf(c.derived), "idle")
      \/ \E cause \in HostCrashes \cup InternalCrashes : AssertFails(cause)
  BY DEF ExportStep, PathText, AfterExportWarning, HostCrashes, InternalCrashes
<1>2. CASE \/ /\ c.uiStep = "EXPORT_WARNING"
            /\ Text(GET_EXT_PUB_KEY, Says("UnusualRequest"), "export", c, "EXPORT_PATH")
         \/ /\ c.uiStep = "EXPORT_PATH"
            /\ Text(GET_EXT_PUB_KEY, SaysPath("ExportPublicKey", c.path), "export", c,
                    "EXPORT_CONFIRM")
         \/ /\ c.uiStep = "EXPORT_CONFIRM"
            /\ Prompt(GET_EXT_PUB_KEY, Says("ConfirmExportPublicKey"), "export", c,
                      "EXPORT_RESPOND")
  <2>1. CASE /\ c.uiStep = "EXPORT_WARNING"
             /\ Text(GET_EXT_PUB_KEY, Says("UnusualRequest"), "export", c, "EXPORT_PATH")
    BY <2>1, Turns, HeadIs, TextAsks, Owners DEF Moves
  <2>2. CASE /\ c.uiStep = "EXPORT_PATH"
             /\ Text(GET_EXT_PUB_KEY, SaysPath("ExportPublicKey", c.path), "export", c,
                     "EXPORT_CONFIRM")
    BY <2>2, Turns, HeadIs, TextAsks, Owners DEF Moves
  <2>3. CASE /\ c.uiStep = "EXPORT_CONFIRM"
             /\ Prompt(GET_EXT_PUB_KEY, Says("ConfirmExportPublicKey"), "export", c,
                       "EXPORT_RESPOND")
    <3>1. Says("ConfirmExportPublicKey").head = "ConfirmExportPublicKey"
      BY HeadIs
    <3>2. /\ TurnOf("ConfirmExportPublicKey") = 3
          /\ TurnAt("EXPORT_CONFIRM") = 3 /\ TurnAt("EXPORT_RESPOND") = 5
      BY Turns
    <3>3. AsksFor(GET_EXT_PUB_KEY, "EXPORT_CONFIRM", ctx'.uiStep)
      BY <2>3, <3>1, <3>2, TextAsks, Owners
    <3> QED
      BY <2>3, <3>3 DEF Moves
  <2> QED
    BY <1>2, <2>1, <2>2, <2>3
<1> QED
  BY <1>1, <1>2, AssertStops DEF Moves, RespondsFor

\* The export of an address does the same.
LEMMA ReturnStepMoves ==
  ASSUME On, ~Sending, NEW c, ctx' \in Context, ReturnStep(c)
  PROVE  Moves(DERIVE_ADDRESS, c.uiStep, ctx'.uiStep)
<1>1. \/ /\ c.uiStep = "RETURN_WARNING"
         /\ Text(DERIVE_ADDRESS, Says("UnusualRequest"), "return", c, "RETURN_PATH")
      \/ /\ c.uiStep = "RETURN_PATH"
         /\ Text(DERIVE_ADDRESS, SaysPath("ExportAddress", c.path), "return", c,
                 "RETURN_CONFIRM")
      \/ /\ c.uiStep = "RETURN_CONFIRM"
         /\ Prompt(DERIVE_ADDRESS, Says("ConfirmExportAddress"), "return", c,
                   "RETURN_RESPOND")
      \/ Respond(DERIVE_ADDRESS, SUCCESS, AddressOf(c.derived), "idle")
      \/ \E cause \in HostCrashes \cup InternalCrashes : AssertFails(cause)
  BY DEF ReturnStep, PathText, HostCrashes, InternalCrashes
<1>2. CASE \/ /\ c.uiStep = "RETURN_WARNING"
            /\ Text(DERIVE_ADDRESS, Says("UnusualRequest"), "return", c, "RETURN_PATH")
         \/ /\ c.uiStep = "RETURN_PATH"
            /\ Text(DERIVE_ADDRESS, SaysPath("ExportAddress", c.path), "return", c,
                    "RETURN_CONFIRM")
         \/ /\ c.uiStep = "RETURN_CONFIRM"
            /\ Prompt(DERIVE_ADDRESS, Says("ConfirmExportAddress"), "return", c,
                      "RETURN_RESPOND")
  <2>1. CASE /\ c.uiStep = "RETURN_WARNING"
             /\ Text(DERIVE_ADDRESS, Says("UnusualRequest"), "return", c, "RETURN_PATH")
    BY <2>1, Turns, HeadIs, TextAsks, Owners DEF Moves
  <2>2. CASE /\ c.uiStep = "RETURN_PATH"
             /\ Text(DERIVE_ADDRESS, SaysPath("ExportAddress", c.path), "return", c,
                     "RETURN_CONFIRM")
    BY <2>2, Turns, HeadIs, TextAsks, Owners DEF Moves
  <2>3. CASE /\ c.uiStep = "RETURN_CONFIRM"
             /\ Prompt(DERIVE_ADDRESS, Says("ConfirmExportAddress"), "return", c,
                       "RETURN_RESPOND")
    <3>1. Says("ConfirmExportAddress").head = "ConfirmExportAddress"
      BY HeadIs
    <3>2. /\ TurnOf("ConfirmExportAddress") = 3
          /\ TurnAt("RETURN_CONFIRM") = 3 /\ TurnAt("RETURN_RESPOND") = 5
      BY Turns
    <3>3. AsksFor(DERIVE_ADDRESS, "RETURN_CONFIRM", ctx'.uiStep)
      BY <2>3, <3>1, <3>2, TextAsks, Owners
    <3> QED
      BY <2>3, <3>3 DEF Moves
  <2> QED
    BY <1>2, <2>1, <2>2, <2>3
<1> QED
  BY <1>1, <1>2, AssertStops DEF Moves, RespondsFor

\* And so does its display.
LEMMA DisplayStepMoves ==
  ASSUME On, ~Sending, NEW c, ctx' \in Context, DisplayStep(c)
  PROVE  Moves(DERIVE_ADDRESS, c.uiStep, ctx'.uiStep)
<1>1. \/ /\ c.uiStep = "DISPLAY_WARNING"
         /\ Text(DERIVE_ADDRESS, Says("UnusualRequest"), "display", c,
                 "DISPLAY_INSTRUCTIONS")
      \/ /\ c.uiStep = "DISPLAY_INSTRUCTIONS"
         /\ Text(DERIVE_ADDRESS, Says("VerifyAddress"), "display", c, "DISPLAY_PATH")
      \/ /\ c.uiStep = "DISPLAY_PATH"
         /\ Text(DERIVE_ADDRESS, SaysPath("AddressPath", c.path), "display", c,
                 "DISPLAY_ADDRESS")
      \/ /\ c.uiStep = "DISPLAY_ADDRESS"
         /\ Text(DERIVE_ADDRESS, SaysPath("Address", c.derived), "display", c,
                 "DISPLAY_RESPOND")
      \/ Respond(DERIVE_ADDRESS, SUCCESS, NoData, "idle")
      \/ \E cause \in HostCrashes \cup InternalCrashes : AssertFails(cause)
  BY DEF DisplayStep, PathText, HostCrashes, InternalCrashes
<1>2. CASE \/ /\ c.uiStep = "DISPLAY_WARNING"
            /\ Text(DERIVE_ADDRESS, Says("UnusualRequest"), "display", c,
                    "DISPLAY_INSTRUCTIONS")
         \/ /\ c.uiStep = "DISPLAY_INSTRUCTIONS"
            /\ Text(DERIVE_ADDRESS, Says("VerifyAddress"), "display", c, "DISPLAY_PATH")
         \/ /\ c.uiStep = "DISPLAY_PATH"
            /\ Text(DERIVE_ADDRESS, SaysPath("AddressPath", c.path), "display", c,
                    "DISPLAY_ADDRESS")
         \/ /\ c.uiStep = "DISPLAY_ADDRESS"
            /\ Text(DERIVE_ADDRESS, SaysPath("Address", c.derived), "display", c,
                    "DISPLAY_RESPOND")
  <2>1. CASE /\ c.uiStep = "DISPLAY_WARNING"
             /\ Text(DERIVE_ADDRESS, Says("UnusualRequest"), "display", c,
                     "DISPLAY_INSTRUCTIONS")
    BY <2>1, Turns, HeadIs, TextAsks, Owners DEF Moves
  <2>2. CASE /\ c.uiStep = "DISPLAY_INSTRUCTIONS"
             /\ Text(DERIVE_ADDRESS, Says("VerifyAddress"), "display", c, "DISPLAY_PATH")
    BY <2>2, Turns, HeadIs, TextAsks, Owners DEF Moves
  <2>3. CASE /\ c.uiStep = "DISPLAY_PATH"
             /\ Text(DERIVE_ADDRESS, SaysPath("AddressPath", c.path), "display", c,
                     "DISPLAY_ADDRESS")
    BY <2>3, Turns, HeadIs, TextAsks, Owners DEF Moves
  <2>4. CASE /\ c.uiStep = "DISPLAY_ADDRESS"
             /\ Text(DERIVE_ADDRESS, SaysPath("Address", c.derived), "display", c,
                     "DISPLAY_RESPOND")
    BY <2>4, Turns, HeadIs, TextAsks, Owners DEF Moves
  <2> QED
    BY <1>2, <2>1, <2>2, <2>3, <2>4
<1> QED
  BY <1>1, <1>2, AssertStops DEF Moves, RespondsFor

\* What a handler throws is answered or stops the device.
LEMMA ThrowMoves ==
  ASSUME On, ~Sending, NEW ins, NEW e, e # NotCrashed, Throw(ins, e)
  PROVE  \A step : Moves(ins, step, ctx'.uiStep)
  BY DEF Throw, Moves, RespondsFor, Stops

\* So does every request, and every button.
LEMMA RequestMoves ==
  ASSUME ctx' \in Context,
         \/ \E paramsOk, w : \/ HandleExport(paramsOk, w)
                             \/ HandleReturn(paramsOk, w)
                             \/ HandleDisplay(paramsOk, w)
         \/ \E paramsOk : HandleGetVersion(paramsOk)
  PROVE  \E ins \in Instructions : \E step :
           Accepts(ins) /\ Moves(ins, step, ctx'.uiStep)
<1>1. On /\ ~Sending
  BY DEF HandleExport, HandleReturn, HandleDisplay, HandleGetVersion, Accepts
<1>2. \A ok, w, policy, first : PathHandler(ok, w, policy, first).verdict # NotCrashed
  BY DEF PathHandler, Refuse, Proceed, NotCrashed, SUCCESS, ERR_INVALID_DATA,
         ERR_INVALID_REQUEST_PARAMETERS, ERR_REJECTED_BY_POLICY, ASSERT_PATH_LENGTH,
         ASSERT_POLICY
<1>3. CASE \E paramsOk, w : \/ HandleExport(paramsOk, w)
                            \/ HandleReturn(paramsOk, w)
                            \/ HandleDisplay(paramsOk, w)
  <2>1. \E ins \in Instructions : \E r :
          /\ Accepts(ins)
          /\ r.verdict # NotCrashed
          /\ \/ Throw(ins, r.verdict)
             \/ ins = GET_EXT_PUB_KEY /\ ExportStep(r.ctx)
             \/ ins = DERIVE_ADDRESS /\ (ReturnStep(r.ctx) \/ DisplayStep(r.ctx))
    BY <1>2, <1>3
       DEF HandleExport, HandleReturn, HandleDisplay, ExportHandler, ReturnHandler,
           DisplayHandler, Instructions
  <2> QED
    BY <1>1, <2>1, ThrowMoves, ExportStepMoves, ReturnStepMoves, DisplayStepMoves
<1>4. CASE \E paramsOk : HandleGetVersion(paramsOk)
  <2>1. /\ Accepts(GET_VERSION)
        /\ \/ Respond(GET_VERSION, SUCCESS, [kind |-> "version"], "idle")
           \/ Throw(GET_VERSION, ERR_INVALID_REQUEST_PARAMETERS)
    BY <1>4 DEF HandleGetVersion
  <2>2. ERR_INVALID_REQUEST_PARAMETERS # NotCrashed
    BY DEF ERR_INVALID_REQUEST_PARAMETERS, NotCrashed
  <2>3. \E step : Moves(GET_VERSION, step, ctx'.uiStep)
    BY <1>1, <2>1, <2>2, ThrowMoves DEF Moves, RespondsFor
  <2> QED
    BY <2>1, <2>3 DEF Instructions
<1> QED
  BY <1>3, <1>4

\* A button goes on from the step that its screen has left in the context.
LEMMA ButtonMoves ==
  ASSUME Inv, ctx' \in Context, UserConfirms
  PROVE  Moves(Owner(display.callback), ctx.uiStep, ctx'.uiStep)
<1>1. WaitsForUser /\ On /\ ~Sending /\ ButtonAsserts
  BY ButtonScreen DEF UserConfirms
<1>2. display.callback = ghost.request /\ ghost.request \in {"export", "return", "display"}
  BY <1>1 DEF Inv, ScreenInv, Progress, Acknowledged
<1>3. \/ display.callback = "export" /\ ExportStep(ctx)
      \/ display.callback = "return" /\ ReturnStep(ctx)
      \/ display.callback = "display" /\ DisplayStep(ctx)
  BY <1>1, <1>2 DEF UserConfirms, RunStep
<1> QED
  BY <1>1, <1>3, Owners, ExportStepMoves, ReturnStepMoves, DisplayStepMoves

-----------------------------------------------------------------------------
(***************************************************************************)
(* Between calls, whichever instruction had the last one.                  *)
(***************************************************************************)

\* What is, or is not, under transmission between calls.
LEMMA BetweenCallsReply ==
  ASSUME Idle
  PROVE  /\ reply \in [code: {NoCode} \cup AutoRespond, data: {NoData},
                       then: {"none", "idle"}]
         /\ Sending => reply.then = "idle" /\ reply.code # SUCCESS
         /\ Sending <=> awaiting
         /\ Sending <=> ioState # "IO"
         /\ ioState \in {"IO", "NONE"}
         /\ ~Sending => reply = NoReply
<1>1. CASE reply = NoReply /\ ioState = "IO" /\ ~awaiting
  BY <1>1 DEF NoReply, Sending
<1>2. CASE \E e \in AutoRespond : reply = ErrorReply(e) /\ ioState = "NONE" /\ awaiting
  <2>1. PICK e \in AutoRespond : reply = ErrorReply(e) /\ ioState = "NONE" /\ awaiting
    BY <1>2
  <2>2. e # NoCode /\ e # SUCCESS
    BY <2>1
       DEF AutoRespond, NoCode, SUCCESS, ERR_MALFORMED_REQUEST_HEADER, ERR_BAD_CLA,
           ERR_UNKNOWN_INS, ERR_STILL_IN_CALL, ERR_INVALID_REQUEST_PARAMETERS,
           ERR_INVALID_STATE, ERR_INVALID_DATA, ERR_REJECTED_BY_USER,
           ERR_REJECTED_BY_POLICY, ERR_DEVICE_LOCKED
  <2> HIDE DEF NoData, AutoRespond
  <2> QED
    BY <2>1, <2>2 DEF ErrorReply, Sending
<1> QED
  BY <1>1, <1>2 DEF Idle

\* A context of its kind is all that Inv asks for then.
LEMMA BetweenCallsInv ==
  ASSUME On, currentInstruction = INS_NONE, Idle, ctx \in Context, ghost \in Ghost,
         locked \in BOOLEAN, awaiting \in BOOLEAN
  PROVE  Inv /\ ~WaitsForUser
<1>1. reply \in [code: {NoCode, SUCCESS} \cup AutoRespond,
                data: {NoData, [kind |-> "version"]} \cup
                        [kind: {"key", "address"}, path: Path],
                then: {"none", "idle"}]
  <2> HIDE DEF AutoRespond, NoData
  <2> QED
    BY BetweenCallsReply
<1>2. TypeOK
  <2> HIDE DEF Menu
  <2> QED
    BY <1>1, MenuType, BetweenCallsReply DEF TypeOK, Context, Ghost, Flows, On, Idle
<1>3. display.kind = "menu" /\ display.run
  BY MenuType DEF Idle
<1>4. reply.data.kind = "none"
  BY BetweenCallsReply DEF NoData
<1> HIDE DEF Idle
<1>5. ControlInv /\ InternalAssertionsHold
  BY <1>3, BetweenCallsReply
     DEF ControlInv, OneAnswerPerRequest, NoStaleScreen, InternalAssertionsHold,
         InternalCrashes, NotCrashed, On, ASSERT_BUTTON, ASSERT_MAGIC, ASSERT_UI_STEP,
         ASSERT_POLICY
<1>6. ~WaitsForUser
  BY BetweenCallsReply DEF WaitsForUser
<1>7. ScreenInv /\ ReplyInv /\ ExportInv
  BY <1>4, <1>6, BetweenCallsReply
     DEF ScreenInv, ReplyInv, ExportInv, KeyExportIsConfirmed,
         AddressExportIsConfirmed, ShownAddressIsAcknowledged
<1> QED
  BY <1>2, <1>5, <1>6, <1>7 DEF Inv
=============================================================================
