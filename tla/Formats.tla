------------------------------- MODULE Formats -------------------------------
(***************************************************************************)
(* Everything the host sends that the user is to read: amounts, paths and  *)
(* addresses, on their way from the wire to the screen.                    *)
(*                                                                         *)
(* The host starts from an item that a wallet would send and changes it,   *)
(* one element after another, into any that is like it: digits of an       *)
(* amount, components of a path, bytes of an address or of its box.  What  *)
(* the application makes of an item is a function of the item.             *)
(***************************************************************************)
EXTENDS Texts, SecurityPolicy

CONSTANTS
  Items,    \* what a wallet would send: records [kind, value, edits], where `edits`
            \* says how many changes the host makes to it (this bounds the model)
  Alphabet, \* what the host puts in the place of an element, for each kind
  MaxUint64 \* the largest amount, as its digits

VARIABLE item
vars == <<item>>

Boxes == INSTANCE AddressBox

Kinds == {"amount", "path", "raw", "box"}

ASSUME ItemsAssumption == \A i \in Items : i.kind \in Kinds /\ i.edits \in Nat

\* The amounts a uint64_t can hold, as digits.
IsAmount(digits) ==
  /\ digits # <<>> => Head(digits) # 0
  /\ \/ Len(digits) < Len(MaxUint64)
     \/ digits = MaxUint64
     \/ /\ Len(digits) = Len(MaxUint64)
        /\ \E k \in DOMAIN digits :
             SubSeq(digits, 1, k - 1) = SubSeq(MaxUint64, 1, k - 1) /\ digits[k] < MaxUint64[k]

Becomes(value) ==
  /\ item.edits > 0
  /\ item.kind = "amount" => IsAmount(value)
  /\ item.kind = "path" => Len(value) <= BIP44_MAX_PATH_LENGTH
  /\ item' = [item EXCEPT !.value = value, !.edits = @ - 1]

Change ==
  \E k \in DOMAIN item.value, x \in Alphabet[item.kind] :
    Becomes([item.value EXCEPT ![k] = x])
Insert ==
  \E k \in 1 .. Len(item.value) + 1, x \in Alphabet[item.kind] :
    Becomes(InsertAt(item.value, k, x))
Drop == \E k \in DOMAIN item.value : Becomes(RemoveAt(item.value, k))
Another == item.edits = 0 /\ item' \in Items

Init == item \in Items
Next == Change \/ Insert \/ Drop \/ Another
Spec == Init /\ [][Next]_vars

-----------------------------------------------------------------------------
(***************************************************************************)
(* The sizes of the buffers, where the functions are called.               *)
(***************************************************************************)
AMOUNT_SIZE == 50          \* signTx.c, adaAmountStr and adaAmount
PATH_SIZE == 100           \* pathStr
PREFIX_SIZE == 6           \* "Path: ", in front of it on one of the screens
OUTPUT_ADDRESS_SIZE == 200 \* signTx.c, address58Str and the box in it
OWN_ADDRESS_SIZE == 100    \* deriveAddress.c, address58Str
OWN_BOX_SIZE == 128        \* and the box
FULL_TEXT_SIZE == 200      \* uiHelpers.h

\* Which screens show a path, as the policies have it, and in how many bytes.
PathScreens(path) ==
  (IF policyForGetExtendedPublicKey(path) # POLICY_DENY THEN {PATH_SIZE} ELSE {})
  \cup (IF policyForReturnDeriveAddress(path) # POLICY_DENY
        THEN {PATH_SIZE - PREFIX_SIZE} ELSE {})
  \cup (IF policyForShowDeriveAddress(path) # POLICY_DENY THEN {PATH_SIZE} ELSE {})
  \cup (IF policyForSignTxWitness(path) # POLICY_DENY THEN {PATH_SIZE} ELSE {})

\* What signTx.c does with the box of an output: the bytes that go into the hash,
\* and the text on the screen, of the box it has packed again.
OutputAddress(box) ==
  LET unboxed == Boxes!unboxChecksummedAddress(box, OUTPUT_ADDRESS_SIZE)
      packed == Boxes!cborPackRawAddressWithChecksum(unboxed.raw, OUTPUT_ADDRESS_SIZE)
  IN [error |-> CASE unboxed.error # OK -> unboxed.error
                  [] unboxed.error = OK /\ unboxed.raw = <<>> -> ERR_ASSERT
                  [] OTHER -> packed.error,
      hashed |-> unboxed.raw,
      packed |-> packed.written,
      shown |-> encode_base58(packed.written, OUTPUT_ADDRESS_SIZE)]

-----------------------------------------------------------------------------
(***************************************************************************)
(* Properties.                                                             *)
(***************************************************************************)
AmountIsExact(amount) ==
  LET printed == str_formatAdaAmount(AMOUNT_SIZE, amount)
  IN /\ printed.error = OK
     /\ WellSet(printed.text)
     /\ ReadAmount(printed.text) = amount

PathIsExact(path) ==
  LET printed == bip44_printToStr(path, PATH_SIZE)
  IN printed.error = OK => ReadPath(printed.text) = path

\* No text is longer than log 256 / log 58 = 1.37 characters for a byte; the longest
\* address and the longest box of the device's own address fit their screens.
Base58Length(n) == 1 + (138 * n) \div 100
ASSUME Base58Assumption ==
  /\ Base58Length(MAX_BUFFER_SIZE) < OUTPUT_ADDRESS_SIZE
  /\ Base58Length(MAX_BUFFER_SIZE) < FULL_TEXT_SIZE
  /\ Base58Length(43) < OWN_ADDRESS_SIZE

Base58IsExact(bytes) ==
  LET printed == encode_base58(bytes, OUTPUT_ADDRESS_SIZE)
  IN /\ printed.error = OK <=> Len(bytes) <= MAX_BUFFER_SIZE
     /\ printed.error = OK => ReadBase58(printed.text) = bytes
     /\ Len(printed.text) <= Base58Length(Len(bytes))

\* A text on the screen can be read in one way only, and that is what the host has
\* sent: the amount of an output or of the fee (str_formatAdaAmount), a path
\* (bip44_printToStr), an address (encode_base58), up to the largest that fits.
ShownTextsAreExact ==
  /\ item.kind = "amount" => AmountIsExact(item.value)
  /\ item.kind = "path" => PathIsExact(item.value)
  /\ item.kind = "raw" => Base58IsExact(item.value)

\* The text of ten-digit components outgrows pathStr (bip44_printToStr asserts that
\* it does not).  It is the policies that keep such paths away from the buffer: what
\* they let through fits, though one of the screens has a prefix in the same buffer.
PathTextFits ==
  item.kind = "path" /\ Derivable(item.value) =>
    \A size \in PathScreens(item.value) : bip44_printToStr(item.value, size).error = OK

\* unboxChecksummedAddress accepts a box in one form only, the one that
\* cborPackRawAddressWithChecksum gives it: what the user reads on the screen is the
\* address that the host has sent, and the bytes in it are those that are hashed.  Its
\* own packing is one that it accepts, and an address of the device fits its buffers, as
\* does what is hashed for the root of it (addressRootFromExtPubKey).
BoxIsExact ==
  /\ item.kind = "box" =>
       LET output == OutputAddress(item.value)
       IN output.error = OK =>
            /\ output.packed = item.value
            /\ output.shown.error = OK => ReadBase58(output.shown.text) = item.value
  /\ item.kind = "raw" =>
       LET box == Boxes!cborPackRawAddressWithChecksum(item.value, OUTPUT_ADDRESS_SIZE)
           unboxed == Boxes!unboxChecksummedAddress(box.written, OUTPUT_ADDRESS_SIZE)
       IN box.error = OK => unboxed.error = OK /\ unboxed.raw = item.value
  /\ item.kind = "raw" /\ Len(item.value) = 28 =>
       LET own == Boxes!deriveAddress(item.value, OWN_BOX_SIZE)
           fromScreen == encode_base58(own.written, OWN_ADDRESS_SIZE)
       IN own.error = OK /\ fromScreen.error = OK /\ ReadBase58(fromScreen.text) = own.written
  /\ item.kind = "raw" /\ Len(item.value) = Boxes!EXTENDED_PUBKEY_SIZE =>
       Boxes!AddressRootPreimage(item.value).error = OK
=============================================================================
