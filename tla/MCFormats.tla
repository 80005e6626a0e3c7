----------------------------- MODULE MCFormats -----------------------------
(***************************************************************************)
(* A small instance: amounts around a million and a billion lovelaces and  *)
(* at the end of uint64_t, paths of ordinary and of ten-digit components,  *)
(* boxes whose checksum takes one byte and four, addresses, the longest    *)
(* that base58.c takes and one byte more, and an extended public key.      *)
(***************************************************************************)
EXTENDS Formats

\* The test vectors that the device runs in DEVEL builds (addressUtils_test.c,
\* base58_test.c, crc32_test.c, textUtils_test.c).
TestRoot ==
  <<177, 153, 158, 228, 61, 12, 58, 159, 228, 161, 165, 217, 89, 174, 135,
    6, 151, 129, 251, 183, 246, 15, 247, 232, 224, 19, 104, 129>>
TestBox ==
  <<130, 216, 24, 88, 33, 131, 88, 28, 177, 153, 158, 228, 61, 12, 58, 159,
    228, 161, 165, 217, 89, 174, 135, 6, 151, 129, 251, 183, 246, 15, 247,
    232, 224, 19, 104, 129, 160, 0, 26, 215, 237, 145, 47>>

ASSUME DeviceTests ==
  /\ Boxes!deriveAddress(TestRoot, 128).written = TestBox
  /\ encode_base58(<<161, 179>>, 100) = Printed(<<"D", "J", "i">>)
  /\ encode_base58(<<0, 0>>, 100) = Printed(<<"1", "1">>)
  /\ encode_base58(<<37, 54, 0, 0, 0>>, 100)
       = Printed(<<"5", "C", "V", "j", "3", "V", "q">>)
  /\ encode_base58(<<0, 0, 0, 0, 223, 37, 102, 49>>, 100)
       = Printed(<<"1", "1", "1", "1", "6", "h", "p", "o", "S", "Q">>)
  /\ Boxes!crc32(<<>>) = <<>>
  /\ Boxes!crc32(<<51>>) = <<109, 210, 142, 155>>
  /\ Boxes!crc32(<<225, 194>>) = <<115, 214, 115, 206>>
  /\ str_formatAdaAmount(30, <<>>) = Printed(<<"0", ".", "0", "0", "0", "0", "0", "0">>)
  /\ str_formatAdaAmount(30, <<1, 0, 0, 0, 0, 0, 0>>) = Printed(<<"1", ".", "0", "0", "0", "0", "0", "0">>)
  /\ str_formatAdaAmount(30, <<1, 2, 3, 4, 5, 6, 7, 8, 9, 0, 1, 2, 3, 4, 5, 6, 7, 8, 9, 0>>)
       = Printed(<<"1", "2", ",", "3", "4", "5", ",", "6", "7", "8", ",",
                  "9", "0", "1", ",", "2", "3", "4", ".", "5", "6", "7", "8",
                  "9", "0">>)
  /\ str_formatAdaAmount(9, <<>>).error = OK
  /\ str_formatAdaAmount(9, <<1, 0, 0, 0, 0, 0, 0, 0>>).error = ERR_DATA_TOO_LARGE

MCMaxUint64 == <<1, 8, 4, 4, 6, 7, 4, 4, 0, 7, 3, 7, 0, 9, 5, 5, 1, 6, 1, 5>>

Of(kind, edits, values) == {[kind |-> kind, value |-> v, edits |-> edits] : v \in values}

Repeated(x, n) == [k \in 1 .. n |-> x]

Amounts ==
  {<<>>, <<9, 9, 9, 9, 9, 9>>, <<1, 0, 0, 0, 0, 0, 0, 0, 0, 0>>, MCMaxUint64}

\* The longest number of 31 bits is a component like any other.
Longest == 2147483647
Account == <<Hardened(44), Hardened(1815), Hardened(Longest)>>
Paths ==
  {Account \o <<Plain(1), Plain(0)>>,
   Account \o <<Plain(0)>> \o Repeated(Hardened(Longest), 4),
   Account \o <<Plain(1)>> \o Repeated(Hardened(Longest), 5),
   Account \o Repeated(Hardened(Longest), 6)}

Pack(raw) == Boxes!cborPackRawAddressWithChecksum(raw, 200).written

MCItems ==
  Of("amount", 2, Amounts)
    \cup Of("path", 1, Paths)
    \cup Of("raw", 3, {<<>>, <<0, 0>>})
    \cup Of("raw", 1, {TestRoot})
    \cup Of("raw", 0, {Repeated(255, 48), Repeated(0, 24) \o Repeated(255, 40),
                       Repeated(0, 84) \o Repeated(255, 40), Repeated(0, 124),
                       Repeated(255, 125)})
    \cup Of("box", 2, {Pack(<<>>), Pack(<<51>>)})
    \cup Of("box", 1, {TestBox})

MCAlphabet ==
  [amount |-> {0, 1, 9},
   path |-> {Plain(0), Plain(10), Plain(Longest), Hardened(0), Hardened(Longest)},
   raw |-> {0, 1, 57, 58, 255},
   box |-> {0, 1, 24, 25, 27, 64, 65, 88, 130, 159, 216}]
=============================================================================
