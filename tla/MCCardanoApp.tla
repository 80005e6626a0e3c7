---------------------------- MODULE MCCardanoApp ----------------------------
(***************************************************************************)
(* A small instance of the whole application: one transaction with two     *)
(* outputs, whose certificates can be used as inputs, and a stream that    *)
(* goes on after the end of another transaction.  The supply is 12, 2^64   *)
(* is 32; the CBOR widths are scaled as in MCAttestUtxo.                   *)
(***************************************************************************)
EXTENDS CardanoApp

\* Values of CardanoApp's constants, so not in terms of its own instances.
Tx == INSTANCE TxEncoding
Bip == INSTANCE Bip44

Output(amount) == [address |-> 0, checksum |-> 0, amount |-> amount]
Two == [inputs |-> <<>>, outputs |-> <<Output(9), Output(3)>>]
One == [inputs |-> <<0>>, outputs |-> <<Output(5)>>]
MCTransactions == {Two, One}

Overlong ==
  Tx!EncodeTx(One) \o Tx!BytesOf([type |-> "UNSIGNED", value |-> 0, width |-> 0])
MCStreams == {Tx!EncodeTx(Two), Overlong}

\* What the host may claim of an input: the truth, the amount of another output,
\* an output that does not exist, a hash that is of no transaction.
Utxo(stream, index, amount) == [hash |-> stream, index |-> index, amount |-> amount]
MCUtxos ==
  {Utxo(Tx!EncodeTx(Two), 0, 9), Utxo(Tx!EncodeTx(Two), 1, 3),
   Utxo(Tx!EncodeTx(Two), 0, 3), Utxo(Tx!EncodeTx(Two), 1, 9),
   Utxo(Tx!EncodeTx(One), 1, 5), Utxo(Overlong, 0, 5)}

Account == <<Bip!Hardened(44), Bip!Hardened(1815), Bip!Hardened(0)>>
Ordinary == Account \o <<Bip!Plain(0), Bip!Plain(7)>>
MCPaths == {Bip!Encode(Ordinary)}
MCRawAddresses == {"a"}
MCDestinations ==
  {[type |-> "address", form |-> "valid",
    address |-> [id |-> "a", path |-> <<>>, size |-> 33, crcSize |-> 5]],
   [type |-> "path", wire |-> Bip!Encode(Ordinary)]}
=============================================================================
