------------------------------ MODULE MCSignTx ------------------------------
(***************************************************************************)
(* Small instances of SignTx.  Amounts are scaled: 2^64 is 16 and the      *)
(* supply is 5, so that 15, the largest amount, wraps a sum of 1 or more   *)
(* back into the supply.  Counts are scaled too: 2^16 is 8 and a limit of  *)
(* signTx.h is 3 or 2, so that 8 is truncated to 0 and 9 to 1.             *)
(***************************************************************************)
EXTENDS SignTxSession

CONSTANTS u1, u2

\* Two UTxOs whose sum is the supply, or one that can be named twice.
TwoUtxos == {u1, u2}
TwoAmounts == (u1 :> 3) @@ (u2 :> 2)
OneUtxo == {u2}
OneAmount == (u2 :> 2)

Account(a) == <<Hardened(44), Hardened(1815), a>>
Ordinary == Account(Hardened(0)) \o <<Plain(1), Plain(7)>>
\* An account that is not hardened: unusual, and only warned about.
Unusual == Account(Plain(0)) \o <<Plain(0), Plain(7)>>
\* A chain that is neither 0 nor 1: denied.
Denied == Account(Hardened(0)) \o <<Plain(2), Plain(7)>>
\* Ten components: parsed and allowed, but not derivable.
TooDeep == Ordinary \o [i \in 1 .. 5 |-> Plain(0)]
AllPaths == {Ordinary, Unusual, Denied, TooDeep}

\* Eleven components declared, fewer bytes than declared, a byte left over,
\* nothing at all.
BadWires ==
  {[size |-> 25, length |-> 11, words |-> [i \in 1 .. 6 |-> Plain(0)]],
   [size |-> 5, length |-> 2, words |-> <<Plain(0)>>],
   [size |-> 22, length |-> 5, words |-> Ordinary],
   [size |-> 0, length |-> 0, words |-> <<>>]}
AllWitnesses == {Encode(p) : p \in AllPaths} \cup BadWires

\* Addresses of `size` bytes.  Packed, the header and a checksum add 10 bytes:
\* 115 make 125, one more than base58.c takes; 192 make 202, too many for the
\* packed buffer; 201 are too many for the raw one.
Raw(id, size) == [id |-> id, path |-> <<>>, size |-> size, crcSize |-> 5]

MCRawAddresses == {"a", "long", "longer", "longest", "empty"}
AllDestinations ==
  {Boxed("valid", Raw("a", 33)), Boxed("valid", Raw("long", 115)),
   Boxed("valid", Raw("longer", 192)), Boxed("valid", Raw("longest", 201)),
   Boxed("valid", Raw("empty", 0)),
   Boxed("invalid", Raw("a", 33)), Boxed("truncated", Raw("a", 33)),
   Boxed("badToken", Raw("a", 33)), [type |-> "unknown"], [type |-> "short"]}
  \cup {ToPath(Encode(p)) : p \in AllPaths}
  \cup {ToPath(w) : w \in {v \in BadWires : v.length = 5}}

\* Enough to sign with, for the runs that are about something else.
FewDestinations == {Boxed("valid", Raw("a", 33)), ToPath(Encode(Unusual)),
                    ToPath(Encode(Ordinary))}
FewWitnesses == {Encode(Ordinary), Encode(Unusual)}
=============================================================================
