---------------------------- MODULE MCPublicKeys ----------------------------
(***************************************************************************)
(* An instance of PublicKeys with a path on either side of every limit of  *)
(* the policies and of the parser.                                         *)
(***************************************************************************)
EXTENDS PublicKeys

Account(a) == <<Hardened(44), Hardened(1815), a>>
Address(a, chain, address) == Account(a) \o <<chain, address>>
Usual == Address(Hardened(0), Plain(1), Plain(1000000))

MCPaths ==
  {\* Accounts: the last reasonable one, the first that is not, not hardened.
   Account(Hardened(9)), Account(Hardened(10)), Account(Plain(9)),
   \* No account, another purpose, another coin.
   <<Hardened(44), Hardened(1815)>>,
   <<Plain(44), Hardened(1815), Hardened(0)>>,
   <<Hardened(44), Hardened(1), Hardened(0)>>,
   \* A chain and no address, a chain that is none.
   Account(Hardened(0)) \o <<Plain(0)>>,
   Address(Hardened(0), Plain(2), Plain(0)), Address(Hardened(0), Hardened(0), Plain(0)),
   \* Addresses.
   Usual, Address(Hardened(9), Plain(0), Plain(1000001)),
   Address(Hardened(10), Plain(0), Plain(0)), Address(Hardened(0), Plain(0), Hardened(0)),
   \* Too deep: one component more, nine in all, and ten.
   Usual \o <<Plain(0)>>, Usual \o [i \in 1 .. 4 |-> Plain(0)],
   Usual \o [i \in 1 .. 5 |-> Plain(0)]}

\* Eleven components declared, fewer bytes than declared, a byte left over, a
\* component left over, nothing at all.
BadWires ==
  {[size |-> 45, length |-> 11, words |-> Usual \o [i \in 1 .. 6 |-> Plain(0)]],
   [size |-> 5, length |-> 2, words |-> <<Plain(0)>>],
   [size |-> 22, length |-> 5, words |-> Usual],
   [size |-> 21, length |-> 4, words |-> Usual],
   [size |-> 0, length |-> 0, words |-> <<>>]}

MCWirePaths == {Encode(p) : p \in MCPaths} \cup BadWires
=============================================================================
