-------------------------------- MODULE Texts --------------------------------
(***************************************************************************)
(* What the screens print: str_formatAdaAmount (textUtils.c),              *)
(* bip44_printToStr (bip44.c) and encode_base58 (base58.c), with the sizes *)
(* of their buffers, and how a person reads each of the three.             *)
(*                                                                         *)
(* A text is a sequence of characters without its NUL.  A function that    *)
(* fills a buffer returns [error, text]; the error of an ASSERT is         *)
(* ERR_ASSERT.                                                             *)
(***************************************************************************)
EXTENDS Bip44, SequencesExt

OK == "OK"
ERR_ASSERT == "ERR_ASSERT"
ERR_DATA_TOO_LARGE == "ERR_DATA_TOO_LARGE"

Printed(text) == [error |-> OK, text |-> text]
NotPrinted(e) == [error |-> e, text |-> <<>>]

\* Of a digit 0 .. 9.
Digits == <<"0", "1", "2", "3", "4", "5", "6", "7", "8", "9">>
Char(d) == Digits[d + 1]
IsDigit(c) == \E d \in 0 .. 9 : c = Char(d)
Value(c) == CHOOSE d \in 0 .. 9 : c = Char(d)

-----------------------------------------------------------------------------
(***************************************************************************)
(* str_formatAdaAmount.  An amount is the sequence of its decimal digits,  *)
(* without leading zeros, so that all of uint64_t can be had: `% 10` is    *)
(* the last one and `/ 10` drops it.  The text is made back to front in a  *)
(* scratch buffer.                                                         *)
(***************************************************************************)
SCRATCH_SIZE == 30

\* The digit worth 10^(k - 1).
Digit(amount, k) == IF k <= Len(amount) THEN amount[Len(amount) + 1 - k] ELSE 0

\* The p-th digit before the point, and the separator that comes before (in the
\* text, after) every third of them.
Place(amount, p) ==
  IF p > 1 /\ (p - 1) % 3 = 0
  THEN <<",", Char(Digit(amount, 6 + p))>> ELSE <<Char(Digit(amount, 6 + p))>>

\* At least one digit goes before the point.
Places(amount) == IF Len(amount) > 7 THEN Len(amount) - 6 ELSE 1

Backwards(amount) ==
  [k \in 1 .. 6 |-> Char(Digit(amount, k))] \o <<".">>
    \o FlattenSeq([p \in 1 .. Places(amount) |-> Place(amount, p)])

str_formatAdaAmount(outSize, amount) ==
  LET raw == Backwards(amount)
  IN IF Len(raw) > SCRATCH_SIZE THEN NotPrinted(ERR_ASSERT)
     ELSE IF Len(raw) + 1 > outSize THEN NotPrinted(ERR_DATA_TOO_LARGE)
     ELSE Printed(Reverse(raw))

-----------------------------------------------------------------------------
(***************************************************************************)
(* bip44_printToStr.                                                       *)
(***************************************************************************)
\* "%d" of a number that is not negative.
decimal[n \in Nat] ==
  IF n < 10 THEN <<Char(n)>> ELSE Append(decimal[n \div 10], Char(n % 10))

\* A plausible bug: the mark is left out.
PrintedComponent_NoMark(c) == <<"/">> \o decimal[c.idx]
PrintedComponent(c) == <<"/">> \o decimal[c.idx] \o (IF c.hard THEN <<"'">> ELSE <<>>)

PathText(path) ==
  <<"m">> \o FlattenSeq([k \in DOMAIN path |-> PrintedComponent(path[k])])

\* snprintf cuts what does not fit, and WRITE asserts after each piece that a byte
\* is free besides the terminator: for all of them, that it is so after the last.
bip44_printToStr(path, outSize) ==
  IF Derivable(path) /\ Len(PathText(path)) + 1 < outSize
  THEN Printed(PathText(path)) ELSE NotPrinted(ERR_ASSERT)

-----------------------------------------------------------------------------
(***************************************************************************)
(* encode_base58: bytes as one number to base 256, divided by 58 until     *)
(* nothing is left; zero bytes at the front are counted and become ones.   *)
(***************************************************************************)
MAX_BUFFER_SIZE == 124

BASE58ALPHABET ==
  <<"1", "2", "3", "4", "5", "6", "7", "8", "9",
    "A", "B", "C", "D", "E", "F", "G", "H", "J", "K", "L", "M", "N", "P", "Q", "R",
    "S", "T", "U", "V", "W", "X", "Y", "Z",
    "a", "b", "c", "d", "e", "f", "g", "h", "i", "j", "k", "m", "n", "o", "p", "q",
    "r", "s", "t", "u", "v", "w", "x", "y", "z">>

\* How many of its first elements are `x`.
LeadingOf(x, s) == Cardinality({k \in DOMAIN s : \A j \in 1 .. k : s[j] = x})
Without(n, s) == SubSeq(s, n + 1, Len(s))

\* The inner loop: long division by 58, byte by byte.
LongDivision(bytes) ==
  LET upTo[k \in 0 .. Len(bytes)] ==
        IF k = 0 THEN [quotient |-> <<>>, remainder |-> 0]
        ELSE LET before == upTo[k - 1]
                 tmpDiv == before.remainder * 256 + bytes[k]
             IN [quotient |-> Append(before.quotient, tmpDiv \div 58),
                 remainder |-> tmpDiv % 58]
  IN upTo[Len(bytes)]

\* Of the zeros in front of the quotient a turn drops one at most (startAt).
Strip(quotient) == IF Head(quotient) = 0 THEN Tail(quotient) ELSE quotient

\* The outer loop: the digits, least significant first.
digits58[bytes \in Seq(0 .. 255)] ==
  IF bytes = <<>> THEN <<>>
  ELSE LET d == LongDivision(bytes) IN <<d.remainder>> \o digits58[Strip(d.quotient)]

Base58Text(zeroCount, digits) ==
  LET front == Reverse(digits)
      number == Without(LeadingOf(0, front), front)
  IN [k \in 1 .. zeroCount + Len(number) |->
        BASE58ALPHABET[(IF k <= zeroCount THEN 0 ELSE number[k - zeroCount]) + 1]]

encode_base58(bytes, outMaxSize) ==
  LET zeroCount == LeadingOf(0, bytes)
      digits == digits58[Without(zeroCount, bytes)]
      text == Base58Text(zeroCount, digits)
  IN IF /\ Len(bytes) <= MAX_BUFFER_SIZE
        /\ Len(digits) <= 2 * Len(bytes) \* 0 < j before every digit
        /\ Len(text) <= 2 * Len(bytes)   \* and before every leading one
        /\ Len(text) < outMaxSize
     THEN Printed(text) ELSE NotPrinted(ERR_ASSERT)

-----------------------------------------------------------------------------
(***************************************************************************)
(* How a text is read: references for the functions above.                 *)
(***************************************************************************)

\* The number of lovelaces in a text whose point and separators are where they are
\* expected; anything else is no amount.
WellSet(text) ==
  /\ \A k \in DOMAIN text :
       LET place == Len(text) - k \* from the right, 0 the last
       IN /\ (text[k] = ".") <=> place = 6
          /\ (text[k] = ",") <=> place > 7 /\ (place - 7) % 4 = 3
          /\ text[k] \in {".", ","} \/ IsDigit(text[k])
  /\ Len(text) >= 8
  /\ text[1] # ","

ReadAmount(text) ==
  LET digits == [k \in DOMAIN SelectSeq(text, IsDigit) |-> Value(SelectSeq(text, IsDigit)[k])]
  IN Without(LeadingOf(0, digits), digits)

\* The components of a path, character by character.
ReadPath(text) ==
  FoldLeft(LAMBDA path, c :
             CASE c = "m" -> <<>>
               [] c = "/" -> Append(path, Plain(0))
               [] c = "'" -> [path EXCEPT ![Len(path)].hard = TRUE]
               [] OTHER -> [path EXCEPT ![Len(path)].idx = 10 * @ + Value(c)],
           <<>>, text)

\* bytes * 58 + digit, carrying from the last byte to the first.
TimesPlus(bytes, digit) ==
  LET from[k \in 1 .. Len(bytes) + 1] ==
        IF k > Len(bytes) THEN [bytes |-> <<>>, carry |-> digit]
        ELSE LET after == from[k + 1]
                 n == 58 * bytes[k] + after.carry
             IN [bytes |-> <<n % 256>> \o after.bytes, carry |-> n \div 256]
      all == from[1]
  IN IF all.carry = 0 THEN all.bytes ELSE <<all.carry>> \o all.bytes

\* The bytes a text in base58 stands for.
Value58(c) == CHOOSE d \in 0 .. 57 : BASE58ALPHABET[d + 1] = c
number58[bytes \in Seq(0 .. 255), text \in Seq(Range(BASE58ALPHABET))] ==
  IF text = <<>> THEN bytes
  ELSE number58[TimesPlus(bytes, Value58(Head(text))), Tail(text)]

ReadBase58(text) ==
  LET ones == LeadingOf("1", text)
  IN [k \in 1 .. ones |-> 0] \o number58[<<>>, Without(ones, text)]
=============================================================================
