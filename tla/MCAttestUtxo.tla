---------------------------- MODULE MCAttestUtxo ----------------------------
(***************************************************************************)
(* A small instance of AttestUtxo.  The value limits of CBOR widths are    *)
(* scaled down so that amounts of every width occur (4 -> 1 byte, 8 -> 2,  *)
(* 32 -> 4, 40 -> 8); structural values (2, 3, 24) keep their meaning.     *)
(* The supply is 40.                                                       *)
(***************************************************************************)
EXTENDS AttestUtxo

Output(address, checksum, amount) ==
  [address |-> address, checksum |-> checksum, amount |-> amount]

Nothing == [inputs |-> <<>>, outputs |-> <<>>]
Small == [inputs |-> <<0>>, outputs |-> <<Output(0, 3, 40)>>]
\* Two inputs and two outputs; addresses shorter and longer than a chunk.
Full == [inputs |-> <<2, 0>>, outputs |-> <<Output(1, 8, 9), Output(3, 0, 2)>>]
\* One amount above the supply, the other at its limit.
Rich == [inputs |-> <<>>, outputs |-> <<Output(0, 0, 42), Output(0, 0, 40)>>]

MCTransactions == {Nothing, Small, Full, Rich}

\* Streams that are no transaction: Small with one of its tokens replaced by one
\* of another type, of a type the parser does not know, or by a longer form of
\* itself; with a byte more; Full with a byte less is a prefix of Full anyway.
SmallTokens ==
  LET t == EncodeTx(Small) IN {i \in DOMAIN t : t[i].at = 0}

Spoiled(stream, i, token) ==
  SubSeq(stream, 1, i - 1) \o BytesOf(token)
    \o SubSeq(stream, i + 1 + stream[i].token.width, Len(stream))

BadTokens(token) ==
  {[type |-> "UNSUPPORTED", value |-> 0, width |-> 0],
   [type |-> IF token.type = "MAP" THEN "INDEF_END" ELSE "MAP", value |-> 0, width |-> 0],
   [token EXCEPT !.width = MAX_WIDTH, !.value = SmallerOf(@, VALUE_MIN_W8 - 1)]}

SpoiledStreams ==
  UNION {{Spoiled(EncodeTx(Small), i, t) : t \in BadTokens(EncodeTx(Small)[i].token)} :
         i \in SmallTokens}

MCStreams ==
  {EncodeTx(tx) : tx \in MCTransactions} \cup SpoiledStreams
    \cup {EncodeTx(Small) \o BytesOf([type |-> "UNSIGNED", value |-> 0, width |-> 0])}
=============================================================================
