------------------------------- MODULE Bip44 -------------------------------
(***************************************************************************)
(* bip44.c: derivation paths as they arrive from the host and the          *)
(* predicates the security policy is written in.                           *)
(*                                                                         *)
(* A path component is a 32-bit word whose top bit (HARDENED_BIP32) is the *)
(* "hardened" mark: here a record [hard |-> BOOLEAN, idx |-> the low 31    *)
(* bits].  A path is a sequence of components; BIP44_I_PURPOSE = 0 and the *)
(* other C indexes are one less than the TLA+ ones.                        *)
(***************************************************************************)
EXTENDS Naturals, Sequences

BIP44_MAX_PATH_LENGTH == 10
BIP_44 == 44
ADA_COIN_TYPE == 1815
MAX_REASONABLE_ACCOUNT == 10
MAX_REASONABLE_ADDRESS == 1000000

BIP44_I_PURPOSE == 1
BIP44_I_COIN_TYPE == 2
BIP44_I_ACCOUNT == 3
BIP44_I_CHAIN == 4
BIP44_I_ADDRESS == 5
BIP44_I_REST == 6

Component == [hard: BOOLEAN, idx: Nat]
Path == Seq(Component)

Hardened(i) == [hard |-> TRUE, idx |-> i]
Plain(i) == [hard |-> FALSE, idx |-> i]

(***************************************************************************)
(* The bytes of a path on the wire: `size` bytes in all, the first one     *)
(* (when there is one) the declared `length`, then the 4-byte `words` that *)
(* fit.  Trailing bytes that are no full word only show in `size`.         *)
(***************************************************************************)
WirePath == [size: Nat, length: 0..255, words: Path]

WellFormedWire(w) ==
  /\ w \in WirePath
  /\ w.size > 0 => w.size >= 1 + 4 * Len(w.words) /\ w.size < 5 + 4 * Len(w.words)
  /\ w.size = 0 => w.words = <<>>

\* A path sent as the documentation asks: its length and exactly its words.
Encode(path) == [size |-> 1 + 4 * Len(path), length |-> Len(path), words |-> path]

(***************************************************************************)
(* bip44_parseFromWire: its three VALIDATEs, the path it stores and the    *)
(* number of bytes it says it has used.                                    *)
(***************************************************************************)
Parses(w) ==
  /\ w.size >= 1
  /\ w.length <= BIP44_MAX_PATH_LENGTH
  /\ w.length * 4 + 1 <= w.size

ParsedPath(w) == SubSeq(w.words, 1, w.length)
ParsedSize(w) == 1 + 4 * w.length

bip44_hasValidCardanoPrefix(p) ==
  /\ Len(p) >= BIP44_I_COIN_TYPE
  /\ p[BIP44_I_PURPOSE] = Hardened(BIP_44)
  /\ p[BIP44_I_COIN_TYPE] = Hardened(ADA_COIN_TYPE)

bip44_containsAccount(p) == Len(p) >= BIP44_I_ACCOUNT

bip44_hasReasonableAccount(p) ==
  /\ bip44_containsAccount(p)
  /\ p[BIP44_I_ACCOUNT].hard
  /\ p[BIP44_I_ACCOUNT].idx < MAX_REASONABLE_ACCOUNT

bip44_containsChainType(p) == Len(p) >= BIP44_I_CHAIN

bip44_hasValidChainType(p) ==
  /\ bip44_containsChainType(p)
  /\ p[BIP44_I_CHAIN] \in {Plain(0), Plain(1)}

bip44_containsAddress(p) == Len(p) >= BIP44_I_ADDRESS

\* A hardened address index is above 2^31, hence never reasonable.
bip44_hasReasonableAddress(p) ==
  /\ bip44_containsAddress(p)
  /\ ~p[BIP44_I_ADDRESS].hard
  /\ p[BIP44_I_ADDRESS].idx <= MAX_REASONABLE_ADDRESS

bip44_containsMoreThanAddress(p) == Len(p) >= BIP44_I_REST

(***************************************************************************)
(* bip44_printToStr and derivePrivateKey both assert `length < 10`, though *)
(* the parser lets ten components through.                                 *)
(***************************************************************************)
Derivable(p) == Len(p) < BIP44_MAX_PATH_LENGTH
=============================================================================
