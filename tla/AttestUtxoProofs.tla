-------------------------- MODULE AttestUtxoProofs --------------------------
(***************************************************************************)
(* Proofs about AttestUtxo, for every set of streams that consist of whole *)
(* tokens, all sizes of chunks and of the buffer that satisfy the          *)
(* assumptions, and transactions of any number of inputs and outputs.      *)
(*                                                                         *)
(* The invariant says that the bytes that have been hashed are the         *)
(* encoding of what the parser has read, which is a beginning of a         *)
(* transaction, followed by the bytes that wait in its buffer; and that    *)
(* they and what the host has yet to send make up the stream. A token that *)
(* is taken moves its bytes from the second part to the first, a chunk     *)
(* that arrives makes the second part longer, and when the parser has      *)
(* finished the first part is a whole transaction. What the parser         *)
(* remembers, the number of outputs and the amount of the one that is      *)
(* asked for, is determined by what it has read.                           *)
(*                                                                         *)
(* That a certificate is about a transaction follows from what is behind   *)
(* the parser; that every transaction gets its certificate follows from    *)
(* what is ahead of it.  For each transaction that begins with what has    *)
(* been hashed, a second invariant says that the bytes that wait in the    *)
(* buffer, and the rest of the transaction, are what the state of the      *)
(* parser goes on with.  The next token is then the one that is expected,  *)
(* or part of it is still to be sent.                                      *)
(***************************************************************************)
EXTENDS AttestUtxoInvariant, SubsequencesProofs

-----------------------------------------------------------------------------
(***************************************************************************)
(* Sequences of bytes.                                                     *)
(***************************************************************************)

\* Concatenation is associative.
Associates(x, y, z) == x \o (y \o z) = (x \o y) \o z

\* Concatenation of byte sequences is associative (ConcatAssociative, turned around).
LEMMA Associative ==
  \A x, y, z \in Seq(Byte) : Associates(x, y, z)
<1> SUFFICES ASSUME NEW x \in Seq(Byte), NEW y \in Seq(Byte), NEW z \in Seq(Byte)
             PROVE  Associates(x, y, z)
  OBVIOUS
<1>1. (x \o y) \o z = x \o (y \o z)
  BY ConcatAssociative
<1> QED
  BY <1>1 DEF Associates

\* What is left of a sequence, and of what comes after it, without its first k.
LEMMA Left ==
  ASSUME NEW S, NEW u \in Seq(S), NEW rest \in Seq(S), NEW k \in 0 .. Len(u)
  PROVE  LET left == SubSeq(u, k + 1, Len(u))
         IN /\ left \in Seq(S)
            /\ Len(u) = k + Len(left)
            /\ u = SubSeq(u, 1, k) \o left
            /\ Len(u \o rest) = k + Len(left \o rest)
            /\ \A j \in 1 .. Len(left \o rest) : (left \o rest)[j] = (u \o rest)[k + j]
<1> DEFINE left == SubSeq(u, k + 1, Len(u))
<1>1. Len(u) \in Nat /\ Len(rest) \in Nat /\ \A i \in 1 .. Len(u) : u[i] \in S
  BY LenProperties, ElementOfSeq
<1>2. /\ left \in Seq(S) /\ Len(left) = Len(u) - k
      /\ \A i \in 1 .. Len(left) : left[i] = u[k + i]
  <2>1. \A i \in k + 1 .. Len(u) : u[i] \in S
    BY <1>1
  <2>2. /\ left \in Seq(S)
        /\ Len(left) = IF k + 1 <= Len(u) THEN Len(u) - (k + 1) + 1 ELSE 0
        /\ \A i \in 1 .. Len(u) - (k + 1) + 1 : left[i] = u[k + 1 + i - 1]
    BY <1>1, <2>1, SubSeqProperties
  <2> HIDE DEF left
  <2> QED
    BY <1>1, <2>2
<1> HIDE DEF left
<1>3. /\ SubSeq(u, 1, k) \in Seq(S) /\ Len(SubSeq(u, 1, k)) = k
      /\ \A i \in 1 .. k : SubSeq(u, 1, k)[i] = u[i]
  <2>1. \A i \in 1 .. k : u[i] \in S
    BY <1>1
  <2> QED
    BY <1>1, <2>1, SubSeqProperties
<1>4. u = SubSeq(u, 1, k) \o left
  <2> DEFINE first == SubSeq(u, 1, k)
             c == first \o left
  <2> HIDE DEF first
  <2>0. first \in Seq(S) /\ Len(first) = k /\ \A i \in 1 .. k : first[i] = u[i]
    BY <1>3 DEF first
  <2>3. /\ c \in Seq(S)
        /\ Len(c) = Len(first) + Len(left)
        /\ \A i \in 1 .. Len(first) + Len(left) :
             c[i] = IF i <= Len(first) THEN first[i] ELSE left[i - Len(first)]
    <3> HIDE DEF c
    <3>1. first \in Seq(S) /\ left \in Seq(S)
      BY <1>2, <2>0
    <3> QED
      BY <3>1, ConcatProperties DEF c
  <2> HIDE DEF c
  <2>1. c \in Seq(S) /\ Len(c) = Len(u) /\ \A i \in 1 .. Len(u) : c[i] = u[i]
    BY <1>1, <1>2, <2>0, <2>3
  <2>2. u = c
    BY <2>1, SeqEqual
  <2> QED
    BY <2>2 DEF c, first
<1>5. /\ Len(u \o rest) = Len(u) + Len(rest)
      /\ \A i \in 1 .. Len(u) + Len(rest) :
           (u \o rest)[i] = IF i <= Len(u) THEN u[i] ELSE rest[i - Len(u)]
      /\ Len(left \o rest) = Len(left) + Len(rest)
      /\ \A i \in 1 .. Len(left) + Len(rest) :
           (left \o rest)[i] = IF i <= Len(left) THEN left[i] ELSE rest[i - Len(left)]
  BY <1>2, ConcatProperties
<1>6. \A j \in 1 .. Len(left \o rest) : (left \o rest)[j] = (u \o rest)[k + j]
  BY <1>1, <1>2, <1>5
<1>7. Len(u) = k + Len(left) /\ Len(u \o rest) = k + Len(left \o rest)
  <2>1. Len(left) = Len(u) - k /\ Len(u) \in Nat /\ Len(rest) \in Nat /\ k \in Int
    BY <1>1, <1>2
  <2>2. Len(u \o rest) = Len(u) + Len(rest) /\ Len(left \o rest) = Len(left) + Len(rest)
    BY <1>5
  <2> QED
    BY <2>1, <2>2
<1> QED
  BY <1>2, <1>4, <1>6, <1>7 DEF left

\* The widths of values.
LEMMA Widths ==
  /\ \A v \in Nat : WidthOf(v) \in {0, 1, 2, 4, MAX_WIDTH}
  /\ \A v \in Nat, w \in {0, 1, 2, 4, MAX_WIDTH} :
       WidthOf(v) <= w /\ ~(v < LimitMin(w)) => w = WidthOf(v)
  BY WidthsAssumption DEF WidthOf, LimitMin, MAX_WIDTH

\* What a byte says is a token and a place in it.
LEMMA ByteTypes ==
  /\ \A b \in Byte : b.token \in Token /\ b.at \in Nat
  /\ \A t \in Token : t.width \in {0, 1, 2, 4, 8} /\ t.width \in 0 .. 8 /\ t.value \in Nat
  BY DEF Byte, Token, MAX_WIDTH

\* The bytes of a token.
LEMMA TokenBytes ==
  ASSUME NEW t \in Token
  PROVE  /\ BytesOf(t) \in Seq(Byte)
         /\ Len(BytesOf(t)) = 1 + t.width
         /\ \A i \in 1 .. 1 + t.width : BytesOf(t)[i] = [token |-> t, at |-> i - 1]
<1>1. t.width \in 0 .. 8
  BY DEF Token, MAX_WIDTH
<1>2. \A i \in 1 .. 1 + t.width : [token |-> t, at |-> i - 1] \in Byte
  BY <1>1 DEF Byte, MAX_WIDTH
<1> HIDE DEF Byte
<1> QED
  BY <1>1, <1>2 DEF BytesOf

\* What the encoder writes is bytes.
LEMMA WrittenBytes ==
  ASSUME NEW type \in TokenTypes, NEW v \in Nat
  PROVE  cbor_writeToken(type, v) \in Seq(Byte)
<1>1. [type |-> type, value |-> v, width |-> WidthOf(v)] \in Token
  BY Widths DEF Token
<1> HIDE DEF Token, Byte
<1> QED
  BY <1>1, TokenBytes DEF cbor_writeToken

\* Content is bytes.
LEMMA ContentBytes ==
  /\ Content \in Byte
  /\ \A n \in Int : /\ Contents(n) \in Seq(Byte)
                    /\ n >= 0 => Len(Contents(n)) = n
                    /\ \A i \in 1 .. n : Contents(n)[i] = Content
<1>1. Content \in Byte
  BY DEF Content, Byte, Token, MAX_WIDTH
<1>2. ASSUME NEW n \in Int
      PROVE  /\ Contents(n) \in Seq(Byte)
             /\ n >= 0 => Len(Contents(n)) = n
             /\ \A i \in 1 .. n : Contents(n)[i] = Content
  <2> HIDE DEF Content, Byte
  <2>1. CASE n >= 0
    BY <1>1, <2>1 DEF Contents
  <2>2. CASE n < 0
    <3>1. 1 .. n = {}
      BY <2>2
    <3>2. Contents(n) = <<>>
      BY <3>1 DEF Contents
    <3> QED
      BY <3>1, <3>2
  <2> QED
    BY <2>1, <2>2
<1> QED
  BY <1>1, <1>2

\* More content.
LEMMA MoreContent ==
  ASSUME NEW m \in Nat, NEW n \in Nat
  PROVE  Contents(m + n) = Contents(m) \o Contents(n)
<1> DEFINE c == Contents(m) \o Contents(n)
           d == Contents(m + n)
<1>1. /\ Contents(m) \in Seq(Byte) /\ Len(Contents(m)) = m
      /\ \A i \in 1 .. m : Contents(m)[i] = Content
      /\ Contents(n) \in Seq(Byte) /\ Len(Contents(n)) = n
      /\ \A i \in 1 .. n : Contents(n)[i] = Content
      /\ d \in Seq(Byte) /\ Len(d) = m + n
      /\ \A i \in 1 .. m + n : d[i] = Content
  BY ContentBytes
<1>2. c \in Seq(Byte) /\ Len(c) = m + n
  BY <1>1, ConcatProperties
<1>3. \A i \in 1 .. m + n : c[i] = IF i <= m THEN Contents(m)[i] ELSE Contents(n)[i - m]
  BY <1>1, ConcatProperties
<1>4. \A i \in 1 .. m + n : c[i] = d[i]
  BY <1>1, <1>3
<1> HIDE DEF c, d
<1>5. c = d
  BY <1>1, <1>2, <1>4, SeqEqual
<1> QED
  BY <1>5 DEF c, d

\* What is left of a coherent sequence from a place on where a token begins.
LEMMA CoherentLeft ==
  ASSUME NEW d \in Seq(Byte), Coherent(d), NEW k \in 0 .. Len(d), NEW e \in Seq(Byte),
         Len(d) = k + Len(e), \A j \in 1 .. Len(e) : e[j] = d[k + j],
         k + 1 \in 1 .. Len(d) => d[k + 1].at = 0
  PROVE  Coherent(e)
<1>0. DOMAIN d = 1 .. Len(d) /\ DOMAIN e = 1 .. Len(e) /\ Len(d) \in Nat /\ Len(e) \in Nat
  BY LenProperties
<1>1. /\ DOMAIN d = 1 .. Len(d) /\ DOMAIN e = 1 .. Len(e) /\ Len(d) \in Nat /\ Len(e) \in Nat
      /\ k \in Nat
  BY <1>0
<1>2. e # <<>> => e[1].at = 0
  <2>1. e # <<>> => Len(e) \in Nat \ {0}
    BY EmptySeq
  <2> QED
    BY <1>1, <2>1
<1>3. ASSUME NEW i \in 1 .. Len(e), e[i].at = 0
      PROVE  TokenAt(e, i)
  <2> DEFINE tok == e[i].token
             w == tok.width
             v == tok.value
             m == k + i
  <2>1. w \in Nat /\ v \in Nat /\ i \in Nat /\ m \in Nat
    <3>1. e[i] \in Byte
      BY ElementOfSeq
    <3>2. e[i].token \in Token
      BY <3>1, ByteTypes
    <3>3. w \in 0 .. 8 /\ v \in Nat
      BY <3>2, ByteTypes
    <3> HIDE DEF w, v
    <3>4. w \in Nat /\ v \in Nat
      BY <3>3
    <3>5. i \in Nat /\ m \in Nat
      BY <1>1
    <3> QED
      BY <3>4, <3>5
  <2>2. m \in DOMAIN d /\ d[m] = e[i]
    BY <1>1
  <2>3. TokenAt(d, m)
    <3>1. d[m].at = 0
      BY <1>3, <2>2
    <3> HIDE DEF m, TokenAt
    <3> QED
      BY <2>2, <3>1 DEF Coherent
  <2>4. d[m].token = tok /\ tok.width = w /\ tok.value = v
    BY <2>2
  <2> HIDE DEF tok, w, v, m, Content, WidthOf
  <2>5. /\ WidthOf(v) <= w
        /\ \A j \in DOMAIN d \cap (m .. m + w) : d[j] = [token |-> tok, at |-> j - m]
        /\ m + 1 + w \in DOMAIN d => d[m + 1 + w].at = 0
        /\ tok.type = "BYTES" =>
             \A j \in DOMAIN d \cap (m + 1 + w .. m + 1 + w + v - 1) : d[j] = Content
    <3> HIDE DEF Coherent
    <3>1. /\ WidthOf(d[m].token.value) <= d[m].token.width
          /\ \A j \in DOMAIN d \cap (m .. m + d[m].token.width) :
               d[j] = [token |-> d[m].token, at |-> j - m]
          /\ m + 1 + d[m].token.width \in DOMAIN d => d[m + 1 + d[m].token.width].at = 0
          /\ d[m].token.type = "BYTES" =>
               \A j \in DOMAIN d \cap (m + 1 + d[m].token.width
                                         .. m + 1 + d[m].token.width + d[m].token.value - 1) :
                 d[j] = Content
      BY <2>3 DEF TokenAt
    <3>2. d[m].token = tok /\ d[m].token.width = w /\ d[m].token.value = v
      BY <2>4
    <3>3. \A j \in DOMAIN d \cap (m .. m + w) : d[j] = [token |-> tok, at |-> j - m]
      BY <3>1, <3>2
    <3>4. m + 1 + w \in DOMAIN d => d[m + 1 + w].at = 0
      BY <3>1, <3>2
    <3>5. tok.type = "BYTES" =>
            \A j \in DOMAIN d \cap (m + 1 + w .. m + 1 + w + v - 1) : d[j] = Content
      BY <3>1, <3>2
    <3> QED
      BY <3>1, <3>2, <3>3, <3>4, <3>5
  <2>6. m = k + i
    BY DEF m
  <2>7. \A j \in DOMAIN e \cap (i .. i + w) : e[j] = [token |-> tok, at |-> j - i]
    <3> TAKE j \in DOMAIN e \cap (i .. i + w)
    <3>1. j \in 1 .. Len(e) /\ j \in Nat /\ i <= j /\ j <= i + w
      BY <1>1, <2>1
    <3>2. k + j \in DOMAIN d \cap (m .. m + w) /\ (k + j) - m = j - i
      BY <1>1, <2>1, <2>6, <3>1
    <3> QED
      BY <2>5, <3>1, <3>2
  <2>8. i + 1 + w \in DOMAIN e => e[i + 1 + w].at = 0
    <3> SUFFICES ASSUME i + 1 + w \in DOMAIN e PROVE e[i + 1 + w].at = 0
      OBVIOUS
    <3>1. k + (i + 1 + w) \in DOMAIN d /\ k + (i + 1 + w) = m + 1 + w
          /\ e[i + 1 + w] = d[k + (i + 1 + w)]
      BY <1>1, <2>1, <2>6
    <3> QED
      BY <2>5, <3>1
  <2>9. ASSUME tok.type = "BYTES", NEW j \in DOMAIN e \cap (i + 1 + w .. i + 1 + w + v - 1)
        PROVE  e[j] = Content
    <3>1. j \in 1 .. Len(e) /\ j \in Nat /\ i + 1 + w <= j /\ j <= i + 1 + w + v - 1
      BY <1>1, <2>1
    <3>2. k + j \in DOMAIN d
      BY <1>1, <3>1
    <3>3. /\ m + 1 + w \in Nat /\ m + 1 + w + v - 1 \in Int /\ k + j \in Nat
          /\ m + 1 + w <= k + j /\ k + j <= m + 1 + w + v - 1
      BY <1>1, <2>1, <2>6, <3>1
    <3>4. k + j \in m + 1 + w .. m + 1 + w + v - 1
      BY <3>3
    <3> QED
      BY <2>5, <2>9, <3>1, <3>2, <3>4
  <2>10. e[i].token = tok
    BY DEF tok
  <2> QED
    <3>1. e[i].token = tok /\ e[i].token.width = w /\ e[i].token.value = v
      BY <2>4, <2>10
    <3>2. \A j \in DOMAIN e \cap (i .. i + e[i].token.width) :
            e[j] = [token |-> e[i].token, at |-> j - i]
      BY <2>7, <3>1
    <3>3. i + 1 + e[i].token.width \in DOMAIN e => e[i + 1 + e[i].token.width].at = 0
      BY <2>8, <3>1
    <3>4. e[i].token.type = "BYTES" =>
            \A j \in DOMAIN e \cap (i + 1 + e[i].token.width
                                      .. i + 1 + e[i].token.width + e[i].token.value - 1) :
              e[j] = Content
      BY <2>9, <3>1
    <3>5. WidthOf(e[i].token.value) <= e[i].token.width
      BY <2>5, <3>1
    <3> QED
      BY <3>2, <3>3, <3>4, <3>5 DEF TokenAt
<1> QED
  BY <1>1, <1>2, <1>3 DEF Coherent

\* The places of the v bytes after a token of width w.
LEMMA Places ==
  ASSUME NEW w \in Nat, NEW v \in Nat, NEW j \in Nat, 1 <= j, j <= v
  PROVE  1 + w + j \in 1 + 1 + w .. 1 + 1 + w + v - 1
  OBVIOUS

\* A token that is complete is the bytes of it, and what follows is coherent.
LEMMA TokenAhead ==
  ASSUME NEW u \in Seq(Byte), NEW rest \in Seq(Byte), Coherent(u \o rest), u # <<>>,
         1 + u[1].token.width <= Len(u)
  PROVE  LET t == u[1].token
             k == 1 + t.width
             left == SubSeq(u, k + 1, Len(u))
         IN /\ t \in Token
            /\ left \in Seq(Byte)
            /\ u = BytesOf(t) \o left
            /\ Len(u) = k + Len(left)
            /\ Coherent(left \o rest)
            /\ WidthOf(t.value) <= t.width
            /\ t.type = "BYTES" =>
                 \A j \in DOMAIN (left \o rest) : j <= t.value => (left \o rest)[j] = Content
<1> DEFINE t == u[1].token
           w == t.width
           v == t.value
           k == 1 + w
           left == SubSeq(u, k + 1, Len(u))
           d == u \o rest
           e == left \o rest
<1>1. Len(u) \in Nat \ {0} /\ u[1] \in Byte
  BY EmptySeq, ElementOfSeq
<1>2. t \in Token /\ w \in 0 .. 8 /\ w \in Nat /\ v \in Nat
  <2>1. t \in Token
    BY <1>1, ByteTypes
  <2> HIDE DEF t
  <2>2. w \in 0 .. 8 /\ v \in Nat
    BY <2>1, ByteTypes
  <2> HIDE DEF w, v
  <2> QED
    BY <2>1, <2>2
<1>0. k = 1 + w
  OBVIOUS
<1>3. k \in 0 .. Len(u) /\ k \in Nat
  <2>1. k <= Len(u)
    OBVIOUS
  <2> HIDE DEF w
  <2> QED
    BY <1>1, <1>2, <2>1
<1>13. d[1] = u[1] => d[1].token = t /\ d[1].token.width = w /\ d[1].token.value = v
  OBVIOUS
<1>15. t.width = w
  OBVIOUS
<1> HIDE DEF k, t, w, v
<1>4. /\ left \in Seq(Byte)
      /\ Len(u) = k + Len(left)
      /\ u = SubSeq(u, 1, k) \o left
      /\ Len(d) = k + Len(e)
      /\ \A j \in 1 .. Len(e) : e[j] = d[k + j]
  <2>1. left \in Seq(Byte) /\ Len(u) = k + Len(left)
    BY <1>3, Left
  <2>2. Len(d) = k + Len(e)
    BY <1>3, Left
  <2>3. \A j \in 1 .. Len(e) : e[j] = d[k + j]
    BY <1>3, Left
  <2>4. u = SubSeq(u, 1, k) \o left
    BY <1>3, Left, Zenon
  <2> QED
    BY <2>1, <2>2, <2>3, <2>4
<1> HIDE DEF left
<1>5. /\ d \in Seq(Byte) /\ Len(d) = Len(u) + Len(rest) /\ Len(rest) \in Nat
      /\ \A i \in 1 .. Len(u) : d[i] = u[i]
  <2>1. Len(rest) \in Nat
    BY LenProperties
  <2>2. /\ d \in Seq(Byte) /\ Len(d) = Len(u) + Len(rest)
        /\ \A i \in 1 .. Len(u) + Len(rest) :
             d[i] = IF i <= Len(u) THEN u[i] ELSE rest[i - Len(u)]
    BY ConcatProperties
  <2> HIDE DEF d
  <2> QED
    BY <1>1, <2>1, <2>2
<1>6. DOMAIN d = 1 .. Len(d) /\ e \in Seq(Byte) /\ DOMAIN e = 1 .. Len(e) /\ Len(e) \in Nat
  BY <1>4, <1>5, ConcatProperties, LenProperties
<1> HIDE DEF d, e
<1>7. d[1] = u[1] /\ 1 \in DOMAIN d
  BY <1>1, <1>5, <1>6
<1>8. TokenAt(d, 1)
  <2>1. d # <<>>
    BY <1>1, <1>5, EmptySeq
  <2> HIDE DEF TokenAt
  <2> QED
    BY <1>7, <2>1 DEF Coherent, d
<1>9. /\ WidthOf(v) <= w
      /\ \A j \in DOMAIN d \cap (1 .. 1 + w) : d[j] = [token |-> t, at |-> j - 1]
      /\ 1 + 1 + w \in DOMAIN d => d[1 + 1 + w].at = 0
      /\ t.type = "BYTES" =>
           \A j \in DOMAIN d \cap (1 + 1 + w .. 1 + 1 + w + v - 1) :
             d[j] = Content
  <2> HIDE DEF Content
  <2>1. d[1].token = t /\ d[1].token.width = w /\ d[1].token.value = v
    BY <1>7, <1>13
  <2> QED
    BY <1>8, <2>1 DEF TokenAt
<1>10. SubSeq(u, 1, k) = BytesOf(t)
  <2> DEFINE first == SubSeq(u, 1, k)
  <2>1. first \in Seq(Byte) /\ Len(first) = k /\ \A i \in 1 .. k : first[i] = u[i]
    <3>1. \A i \in 1 .. k : u[i] \in Byte
      BY <1>1, <1>3, ElementOfSeq
    <3>2. /\ first \in Seq(Byte)
          /\ Len(first) = IF 1 <= k THEN k - 1 + 1 ELSE 0
          /\ \A i \in 1 .. k - 1 + 1 : first[i] = u[1 + i - 1]
      BY <1>3, <3>1, SubSeqProperties
    <3> HIDE DEF first
    <3> QED
      BY <1>0, <1>1, <1>2, <1>3, <3>2
  <2>2. \A i \in 1 .. k : u[i] = [token |-> t, at |-> i - 1]
    <3> TAKE i \in 1 .. k
    <3>1. i \in DOMAIN d \cap (1 .. 1 + w) /\ i \in 1 .. Len(u)
      BY <1>0, <1>1, <1>2, <1>3, <1>5, <1>6
    <3> QED
      BY <1>5, <1>9, <3>1
  <2>3. /\ BytesOf(t) \in Seq(Byte) /\ Len(BytesOf(t)) = k
        /\ \A i \in 1 .. k : BytesOf(t)[i] = [token |-> t, at |-> i - 1]
    BY <1>0, <1>2, <1>3, <1>15, TokenBytes
  <2> HIDE DEF first
  <2>4. first = BytesOf(t)
    BY <2>1, <2>2, <2>3, SeqEqual
  <2> QED
    BY <2>4 DEF first
<1>11. Coherent(e)
  <2>1. k + 1 \in 1 .. Len(d) => d[k + 1].at = 0
    <3>1. k + 1 = 1 + 1 + w
      BY <1>0, <1>2
    <3> QED
      BY <1>6, <1>9, <3>1
  <2>2. k \in 0 .. Len(d) /\ Coherent(d)
    BY <1>1, <1>3, <1>5 DEF d
  <2> QED
    BY <1>4, <1>5, <1>6, <2>1, <2>2, CoherentLeft
<1>12. ASSUME t.type = "BYTES", NEW j \in DOMAIN e, j <= v
       PROVE  e[j] = Content
  <2>1. j \in 1 .. Len(e) /\ j \in Nat
    BY <1>6
  <2>2. k + j \in DOMAIN d \cap (1 + 1 + w .. 1 + 1 + w + v - 1)
    <3>1. k + j \in DOMAIN d
      <4>1. Len(d) = k + Len(e) /\ k \in Nat /\ Len(e) \in Nat
        BY <1>3, <1>4, <1>6
      <4>2. k + j \in 1 .. Len(d)
        BY <2>1, <4>1
      <4> QED
        BY <1>6, <4>2
    <3>2. k + j \in 1 + 1 + w .. 1 + 1 + w + v - 1
      <4>1. w \in Nat /\ v \in Nat /\ 1 <= j /\ j <= v /\ j \in Nat
        BY <1>2, <1>12, <1>6, <2>1
      <4> QED
        BY <1>0, <4>1, Places
    <3> QED
      BY <3>1, <3>2
  <2> HIDE DEF Content
  <2> QED
    BY <1>4, <1>9, <1>12, <2>1, <2>2
<1>14. WidthOf(t.value) <= t.width /\ (t.type = "BYTES" => \A j \in DOMAIN e : j <= t.value => e[j] = Content)
  BY <1>9, <1>12 DEF w, v
<1> QED
  BY <1>2, <1>4, <1>10, <1>11, <1>14 DEF d, e, left, k, w, t

\* A token whose value could not be written shorter is what the encoder writes.
LEMMA Canonical ==
  ASSUME NEW t \in Token, WidthOf(t.value) <= t.width, ~(t.value < LimitMin(t.width))
  PROVE  BytesOf(t) = cbor_writeToken(t.type, t.value)
<1>1. t.width \in {0, 1, 2, 4, MAX_WIDTH} /\ t.value \in Nat
  BY DEF Token
<1>2. t.width = WidthOf(t.value)
  BY <1>1, Widths
<1>3. t = [type |-> t.type, value |-> t.value, width |-> t.width]
  BY DEF Token
<1> QED
  BY <1>2, <1>3 DEF cbor_writeToken

-----------------------------------------------------------------------------
(***************************************************************************)
(* What FlattenSeq returns for the empty sequence and for one that is      *)
(* extended.                                                               *)
(***************************************************************************)

\* f[i] is the concatenation of the first i elements.
IsFlattening(f, s) ==
  f = [i \in 1 .. Len(s) |-> IF i = 1 THEN s[i] ELSE f[i - 1] \o s[i]]

\* The prefixes of a sequence of sequences have their concatenations.
LEMMA FlatteningExists ==
  ASSUME NEW S, NEW s \in Seq(S)
  PROVE  \E f : IsFlattening(f, s)
<1> DEFINE Upto(f, m) ==
             f = [i \in 1 .. m |-> IF i = 1 THEN s[i] ELSE f[i - 1] \o s[i]]
           T == {m \in Nat : ~ \E f : Upto(f, m)}
<1>1. SUFFICES ASSUME T # {} PROVE FALSE
  <2>1. Len(s) \notin T /\ Len(s) \in Nat
    BY <1>1, LenProperties
  <2>2. \E f : Upto(f, Len(s))
    BY <2>1
  <2> QED
    BY <2>2 DEF IsFlattening
<1>2. PICK m \in T : \A k \in 0 .. m - 1 : k \notin T
  <2> T \in SUBSET Nat
    OBVIOUS
  <2> HIDE DEF T
  <2> QED
    BY <1>1, LeastNumber
<1>3. m \in Nat /\ ~ \E f : Upto(f, m)
  OBVIOUS
<1>4. CASE m = 0
  <2> DEFINE z == [i \in 1 .. 0 |-> <<>>]
  <2>1. Upto(z, 0)
    OBVIOUS
  <2> QED
    BY <1>3, <1>4, <2>1
<1>5. CASE m # 0
  <2>1. m - 1 \in Nat /\ m - 1 \in 0 .. m - 1
    BY <1>3, <1>5
  <2>2. PICK f : Upto(f, m - 1)
    BY <1>2, <2>1
  <2> DEFINE g == [i \in 1 .. m |->
                     IF i = m THEN IF m = 1 THEN s[m] ELSE f[m - 1] \o s[m] ELSE f[i]]
  <2>3. ASSUME NEW i \in 1 .. m
        PROVE  g[i] = IF i = 1 THEN s[i] ELSE g[i - 1] \o s[i]
    <3>1. CASE i = m
      BY <1>3, <1>5, <2>1, <3>1
    <3>2. CASE i # m
      <4>1. i \in 1 .. m - 1 /\ (i # 1 => i - 1 \in 1 .. m /\ i - 1 # m)
        BY <1>3, <3>2
      <4>2. f[i] = IF i = 1 THEN s[i] ELSE f[i - 1] \o s[i]
        BY <2>2, <4>1
      <4>3. g[i] = f[i] /\ (i # 1 => g[i - 1] = f[i - 1])
        BY <3>2, <4>1
      <4> QED
        BY <4>2, <4>3
    <3> QED
      BY <3>1, <3>2
  <2>4. g = [i \in 1 .. m |-> g[i]]
    OBVIOUS
  <2> HIDE DEF g
  <2>5. Upto(g, m)
    BY <2>3, <2>4
  <2> QED
    BY <1>3, <2>5
<1> QED
  BY <1>4, <1>5

\* FlattenSeq is the concatenation of all elements.
LEMMA FlattenSeqDef ==
  ASSUME NEW S, NEW s \in Seq(S), s # <<>>
  PROVE  \E f : IsFlattening(f, s) /\ FlattenSeq(s) = f[Len(s)]
<1> DEFINE f == CHOOSE f : IsFlattening(f, s)
<1>1. IsFlattening(f, s)
  BY FlatteningExists
<1>2. Len(s) # 0
  BY EmptySeq
<1>3. FlattenSeq(s) = f[Len(s)]
  BY <1>2 DEF FlattenSeq, IsFlattening
<1> QED
  BY <1>1, <1>3

\* s is the beginning of t.
Begins(s, t) == Len(s) <= Len(t) /\ \A i \in 1 .. Len(s) : s[i] = t[i]

\* The concatenation of a prefix depends on that prefix only.
LEMMA FlatteningAgrees ==
  ASSUME NEW S, NEW s \in Seq(S), NEW t \in Seq(S), Begins(s, t),
         NEW f, IsFlattening(f, s), NEW g, IsFlattening(g, t), NEW n \in 1 .. Len(s)
  PROVE  f[n] = g[n]
<1> DEFINE T == {m \in 1 .. Len(s) : f[m] # g[m]}
<1>9. \A i \in 1 .. Len(s) : s[i] = t[i]
  BY DEF Begins
<1>1. SUFFICES ASSUME T # {} PROVE FALSE
  OBVIOUS
<1>0. Len(s) \in Nat /\ Len(t) \in Nat /\ Len(s) <= Len(t)
  BY LenProperties DEF Begins
<1>2. PICK m \in T : \A k \in 0 .. m - 1 : k \notin T
  <2> T \in SUBSET Nat
    BY <1>0
  <2> HIDE DEF T
  <2> QED
    BY <1>1, LeastNumber
<1>3. m \in 1 .. Len(s) /\ f[m] # g[m] /\ m \in 1 .. Len(t) /\ m \in Nat
  BY <1>0
<1>4. /\ f[m] = IF m = 1 THEN s[m] ELSE f[m - 1] \o s[m]
      /\ g[m] = IF m = 1 THEN t[m] ELSE g[m - 1] \o t[m]
  <2> HIDE DEF T
  <2>2. f[m] = IF m = 1 THEN s[m] ELSE f[m - 1] \o s[m]
    BY <1>3 DEF IsFlattening
  <2>3. g[m] = IF m = 1 THEN t[m] ELSE g[m - 1] \o t[m]
    BY <1>3 DEF IsFlattening
  <2> QED
    BY <2>2, <2>3
<1>5. s[m] = t[m]
  BY <1>3, <1>9
<1>6. CASE m = 1
  BY <1>3, <1>4, <1>5, <1>6
<1>7. CASE m # 1
  <2>1. m - 1 \in 0 .. m - 1 /\ m - 1 \in 1 .. Len(s)
    BY <1>0, <1>3, <1>7
  <2>2. f[m - 1] = g[m - 1]
    BY <1>2, <2>1
  <2> QED
    BY <1>3, <1>4, <1>5, <1>7, <2>2
<1> QED
  BY <1>6, <1>7

\* One more element comes last.
LEMMA FlattenAppend ==
  ASSUME NEW S, NEW s \in Seq(Seq(S)), NEW x \in Seq(S)
  PROVE  FlattenSeq(Append(s, x)) = FlattenSeq(s) \o x
<1> DEFINE t == Append(s, x)
           n == Len(s)
<1>1. /\ t \in Seq(Seq(S)) /\ t # <<>> /\ n \in Nat /\ Len(t) = n + 1
      /\ \A i \in 1 .. n : s[i] = t[i]
      /\ t[n + 1] = x
  BY AppendProperties, LenProperties
<1> HIDE DEF t
<1>2. PICK g : IsFlattening(g, t) /\ FlattenSeq(t) = g[n + 1]
  BY <1>1, FlattenSeqDef
<1>3. g[n + 1] = IF n + 1 = 1 THEN x ELSE g[n + 1 - 1] \o x
  <2>1. \A i \in 1 .. Len(t) : g[i] = IF i = 1 THEN t[i] ELSE g[i - 1] \o t[i]
    BY <1>2 DEF IsFlattening
  <2>2. n + 1 \in 1 .. Len(t)
    BY <1>1
  <2> HIDE DEF n
  <2> QED
    BY <1>1, <2>1, <2>2
<1>4. CASE s = <<>>
  <2>1. n = 0 /\ FlattenSeq(s) = <<>>
    BY <1>4 DEF FlattenSeq
  <2>2. <<>> \o x = x
    BY ConcatEmptySeq
  <2> QED
    BY <1>2, <1>3, <2>1, <2>2 DEF t
<1>5. CASE s # <<>>
  <2>1. n \in Nat \ {0}
    BY <1>5, EmptySeq
  <2>2. PICK f : IsFlattening(f, s) /\ FlattenSeq(s) = f[n]
    BY <1>5, FlattenSeqDef
  <2>3. f[n] = g[n]
    <3>1. Len(s) <= Len(t)
      BY <1>1
    <3>2. Begins(s, t)
      BY <1>1, <3>1 DEF Begins
    <3>3. t \in Seq(Seq(S)) /\ IsFlattening(f, s) /\ IsFlattening(g, t) /\ n \in 1 .. Len(s)
      BY <1>1, <1>2, <2>1, <2>2
    <3> HIDE DEF n
    <3> QED
      BY <3>2, <3>3, FlatteningAgrees
  <2>4. g[n + 1] = g[n] \o x
    BY <1>3, <2>1
  <2> QED
    BY <1>2, <2>2, <2>3, <2>4 DEF t
<1> QED
  BY <1>4, <1>5

\* What is concatenated is a sequence of the same elements.
LEMMA FlattenType ==
  ASSUME NEW S, NEW s \in Seq(Seq(S))
  PROVE  FlattenSeq(s) \in Seq(S)
<1>1. CASE s = <<>>
  BY <1>1, EmptySeq DEF FlattenSeq
<1>2. CASE s # <<>>
  <2>1. Len(s) \in Nat \ {0}
    BY <1>2, EmptySeq
  <2>2. PICK f : IsFlattening(f, s) /\ FlattenSeq(s) = f[Len(s)]
    BY <1>2, FlattenSeqDef
  <2> DEFINE T == {m \in 1 .. Len(s) : f[m] \notin Seq(S)}
  <2>3. T = {}
    <3>1. SUFFICES ASSUME T # {} PROVE FALSE
      OBVIOUS
    <3>2. PICK m \in T : \A k \in 0 .. m - 1 : k \notin T
      <4> T \in SUBSET Nat
        BY <2>1
      <4> HIDE DEF T
      <4> QED
        BY <3>1, LeastNumber
    <3>3. m \in 1 .. Len(s) /\ m \in Nat /\ f[m] \notin Seq(S)
      BY <2>1
    <3>4. s[m] \in Seq(S)
      BY <3>3, ElementOfSeq
    <3>5. f[m] = IF m = 1 THEN s[m] ELSE f[m - 1] \o s[m]
      <4> HIDE DEF T
      <4> QED
        BY <2>2, <3>3 DEF IsFlattening
    <3>6. CASE m = 1
      BY <3>3, <3>4, <3>5, <3>6
    <3>7. CASE m # 1
      <4>1. m - 1 \in 0 .. m - 1 /\ m - 1 \in 1 .. Len(s)
        BY <2>1, <3>3, <3>7
      <4>2. f[m - 1] \in Seq(S)
        BY <3>2, <4>1
      <4>3. f[m - 1] \o s[m] \in Seq(S)
        BY <3>4, <4>2, ConcatProperties
      <4> QED
        BY <3>3, <3>5, <3>7, <4>3
    <3> QED
      BY <3>6, <3>7
  <2> QED
    BY <2>1, <2>2, <2>3
<1> QED
  BY <1>1, <1>2

-----------------------------------------------------------------------------
(***************************************************************************)
(* One token is taken, or nothing.                                         *)
(***************************************************************************)

\* What waits for more bytes: nothing, or the beginning of a token.
Partial(u) ==
  \/ u = <<>>
  \/ LET t == u[1].token
     IN /\ t # Content.token
        /\ IsStrictPrefix(u, BytesOf(t))

\* A parser that has left k bytes behind.
Behind(p, left, k) == [p EXCEPT !.unread = left, !.bufferPos = @ + k]

\* A token that is not complete is the beginning of one.
LEMMA Incomplete ==
  ASSUME NEW u \in Seq(Byte), NEW rest \in Seq(Byte), Coherent(u \o rest),
         cbor_parseError(u) = ERR_NOT_ENOUGH_INPUT
  PROVE  Partial(u) /\ Len(u) <= MAX_WIDTH
<1>1. CASE u = <<>>
  BY <1>1, EmptySeq DEF Partial, MAX_WIDTH
<1>2. CASE u # <<>>
  <2> DEFINE t == u[1].token
             d == u \o rest
  <2>1. Len(u) \in Nat \ {0} /\ u[1] \in Byte /\ Head(u) = u[1] /\ Len(rest) \in Nat
    BY <1>2, EmptySeq, ElementOfSeq, LenProperties
  <2>2. t \in Token /\ t.width \in 0 .. 8
    BY <2>1, ByteTypes
  <2>3. t.type \in TokenTypes /\ ~(1 + t.width <= Len(u))
    BY <1>2, <2>1
       DEF cbor_parseError, HasBytes, ERR_NOT_ENOUGH_INPUT, ERR_UNEXPECTED_TOKEN, OK
  <2>4. /\ d \in Seq(Byte) /\ DOMAIN d = 1 .. Len(u) + Len(rest)
        /\ \A i \in 1 .. Len(u) : d[i] = u[i]
    <3>1. /\ d \in Seq(Byte) /\ Len(d) = Len(u) + Len(rest)
          /\ \A i \in 1 .. Len(u) + Len(rest) :
               d[i] = IF i <= Len(u) THEN u[i] ELSE rest[i - Len(u)]
      BY ConcatProperties
    <3>2. DOMAIN d = 1 .. Len(d)
      BY <3>1, LenProperties
    <3> HIDE DEF d
    <3> QED
      BY <2>1, <3>1, <3>2
  <2> HIDE DEF d
  <2>5. 1 \in DOMAIN d /\ d[1].token = t /\ d[1].at = 0 /\ TokenAt(d, 1)
    <3>1. 1 \in DOMAIN d /\ d[1].token = t
      BY <2>1, <2>4
    <3>2. d # <<>>
      BY <3>1
    <3>3. d[1].at = 0
      BY <3>2 DEF Coherent, d
    <3> HIDE DEF TokenAt
    <3> QED
      BY <3>1, <3>3 DEF Coherent, d
  <2>6. \A j \in DOMAIN d \cap (1 .. 1 + t.width) : d[j] = [token |-> t, at |-> j - 1]
    BY <2>5, Zenon DEF TokenAt
  <2>7. \A i \in 1 .. Len(u) : u[i] = BytesOf(t)[i]
    <3> TAKE i \in 1 .. Len(u)
    <3> HIDE DEF t
    <3>1. i \in DOMAIN d \cap (1 .. 1 + t.width) /\ i \in 1 .. 1 + t.width
      <4>1. Len(u) \in Nat /\ Len(rest) \in Nat /\ t.width \in Nat /\ i \in Nat /\ 1 <= i
        BY <2>1, <2>2
      <4>2. i <= Len(u) /\ i <= 1 + t.width /\ i <= Len(u) + Len(rest)
        BY <2>3, <4>1
      <4> QED
        BY <2>4, <4>1, <4>2
    <3> QED
      BY <2>2, <2>4, <2>6, <3>1, TokenBytes
  <2> HIDE DEF t
  <2>8. BytesOf(t) \in Seq(Byte) /\ Len(BytesOf(t)) = 1 + t.width
    BY <2>2, TokenBytes
  <2>9. Len(u) <= Len(BytesOf(t)) /\ Len(u) # Len(BytesOf(t))
    BY <2>1, <2>2, <2>3, <2>8
  <2>10. SubSeq(u, 1, Len(u)) = SubSeq(BytesOf(t), 1, Len(u))
    <3> DEFINE b == SubSeq(BytesOf(t), 1, Len(u))
    <3>1. \A i \in 1 .. Len(u) : BytesOf(t)[i] \in Byte
      BY <2>1, <2>7, ElementOfSeq
    <3>2. /\ b \in Seq(Byte)
          /\ Len(b) = IF 1 <= Len(u) THEN Len(u) - 1 + 1 ELSE 0
          /\ \A i \in 1 .. Len(u) - 1 + 1 : b[i] = BytesOf(t)[1 + i - 1]
      BY <2>1, <3>1, SubSeqProperties
    <3> HIDE DEF b
    <3>3. Len(b) = Len(u) /\ \A i \in 1 .. Len(u) : b[i] = u[i]
      BY <2>1, <2>7, <3>2
    <3>4. b = u
      BY <3>2, <3>3, SeqEqual
    <3> QED
      BY <3>4, SubSeqFull DEF b
  <2>11. IsStrictPrefix(u, BytesOf(t))
    BY <2>9, <2>10 DEF IsStrictPrefix, IsPrefix
  <2>12. t # Content.token
    BY <2>3 DEF Content, TokenTypes
  <2>13. Len(u) <= MAX_WIDTH
    BY <2>1, <2>2, <2>3 DEF MAX_WIDTH
  <2> QED
    BY <2>11, <2>12, <2>13 DEF Partial, t
<1> QED
  BY <1>1, <1>2

-----------------------------------------------------------------------------
(***************************************************************************)
(* The encoding: its parts are bytes, and one more input or output is one  *)
(* more part.                                                              *)
(***************************************************************************)

\* The tokens of the encoding are bytes.
LEMMA TokenTypesOf ==
  /\ \A n \in Nat : /\ Array(n) \in Seq(Byte)
                    /\ Unsigned(n) \in Seq(Byte)
                    /\ cbor_writeToken("BYTES", n) \in Seq(Byte)
                    /\ cbor_writeToken("MAP", n) \in Seq(Byte)
  /\ Tag \in Seq(Byte)
  /\ INDEF \in Seq(Byte)
  /\ END_INDEF \in Seq(Byte)
<1>1. \A type \in TokenTypes, n \in Nat : cbor_writeToken(type, n) \in Seq(Byte)
  BY WrittenBytes
<1>2. {"ARRAY", "UNSIGNED", "BYTES", "MAP", "TAG", "ARRAY_INDEF", "INDEF_END"} \subseteq TokenTypes
  BY DEF TokenTypes
<1>3. CBOR_TAG_EMBEDDED_CBOR_BYTE_STRING \in Nat
  BY DEF CBOR_TAG_EMBEDDED_CBOR_BYTE_STRING
<1> HIDE DEF cbor_writeToken, Byte
<1> QED
  BY <1>1, <1>2, <1>3 DEF Array, Unsigned, Tag, INDEF, END_INDEF

\* Address data that has been read up to its end is an encoded address.
LEMMA AddressTypes ==
  ASSUME NEW n \in Nat
  PROVE  /\ EncodeAddress(n) \in Seq(Byte)
         /\ EncodeAddress(n) = AddressRead(n, 0)
         /\ \A m \in Nat : AddressRead(n, m) \in Seq(Byte)
<1>1. Tag \in Seq(Byte) /\ cbor_writeToken("BYTES", n) \in Seq(Byte)
  BY TokenTypesOf
<1>2. Tag \o cbor_writeToken("BYTES", n) \in Seq(Byte)
  BY <1>1, ConcatProperties
<1>3. ASSUME NEW m \in Nat PROVE AddressRead(n, m) \in Seq(Byte)
  <2>1. Contents(n - m) \in Seq(Byte)
    <3>1. n - m \in Int
      OBVIOUS
    <3> QED
      BY <3>1, ContentBytes
  <2> QED
    BY <1>2, <2>1, ConcatProperties DEF AddressRead
<1>4. EncodeAddress(n) = AddressRead(n, 0)
  <2>1. n - 0 = n
    OBVIOUS
  <2>2. Contents(n - 0) = [i \in 1 .. n |-> Content]
    BY <2>1 DEF Contents
  <2> HIDE DEF Contents, Content
  <2> QED
    BY <2>2 DEF EncodeAddress, AddressRead, Tag
<1> QED
  BY <1>3, <1>4

\* Elements are bytes.
LEMMA ElementTypes ==
  /\ \A n \in Nat : EncodeInput(n) \in Seq(Byte)
  /\ \A o \in Output : EncodeOutput(o) \in Seq(Byte)
<1>1. ASSUME NEW n \in Nat PROVE EncodeInput(n) \in Seq(Byte)
  <2>1. Array(2) \in Seq(Byte) /\ Unsigned(0) \in Seq(Byte) /\ EncodeAddress(n) \in Seq(Byte)
    BY TokenTypesOf, AddressTypes
  <2>2. Array(2) \o Unsigned(0) \in Seq(Byte)
    BY <2>1, ConcatProperties
  <2>3. (Array(2) \o Unsigned(0)) \o EncodeAddress(n) \in Seq(Byte)
    BY <2>1, <2>2, ConcatProperties
  <2> HIDE DEF cbor_writeToken, EncodeAddress
  <2> QED
    BY <2>3 DEF EncodeInput, Array, Unsigned
<1>2. ASSUME NEW o \in Output PROVE EncodeOutput(o) \in Seq(Byte)
  <2>0. o.address \in Nat /\ o.checksum \in Nat /\ o.amount \in Nat
    BY DEF Output
  <2>1. /\ Array(2) \in Seq(Byte) /\ EncodeAddress(o.address) \in Seq(Byte)
        /\ Unsigned(o.checksum) \in Seq(Byte) /\ Unsigned(o.amount) \in Seq(Byte)
    BY <2>0, TokenTypesOf, AddressTypes
  <2>2. Array(2) \o Array(2) \in Seq(Byte)
    BY <2>1, ConcatProperties
  <2>3. (Array(2) \o Array(2)) \o EncodeAddress(o.address) \in Seq(Byte)
    BY <2>1, <2>2, ConcatProperties
  <2>4. ((Array(2) \o Array(2)) \o EncodeAddress(o.address)) \o Unsigned(o.checksum) \in Seq(Byte)
    BY <2>1, <2>3, ConcatProperties
  <2>5. (((Array(2) \o Array(2)) \o EncodeAddress(o.address)) \o Unsigned(o.checksum))
          \o Unsigned(o.amount) \in Seq(Byte)
    BY <2>1, <2>4, ConcatProperties
  <2> HIDE DEF cbor_writeToken, EncodeAddress
  <2> QED
    BY <2>5 DEF EncodeOutput, Array, Unsigned
<1> QED
  BY <1>1, <1>2

\* All the inputs, and one more.
LEMMA AllInputs ==
  ASSUME NEW ins \in InputLists
  PROVE  /\ EncodeAll(EncodeInput, ins) \in Seq(Byte)
         /\ \A n \in Nat : EncodeAll(EncodeInput, Append(ins, n))
                             = EncodeAll(EncodeInput, ins) \o EncodeInput(n)
<1> DEFINE list == [i \in DOMAIN ins |-> EncodeInput(ins[i])]
<1>1. Len(ins) \in Nat /\ DOMAIN ins = 1 .. Len(ins) /\ \A i \in 1 .. Len(ins) : ins[i] \in Nat
  BY LenProperties, ElementOfSeq DEF InputLists
<1>2. list \in Seq(Seq(Byte)) /\ Len(list) = Len(ins) /\ \A i \in 1 .. Len(ins) : list[i] = EncodeInput(ins[i])
  <2>1. \A i \in 1 .. Len(ins) : EncodeInput(ins[i]) \in Seq(Byte)
    BY <1>1, ElementTypes
  <2> HIDE DEF EncodeInput, Byte
  <2> QED
    BY <1>1, <2>1
<1>3. EncodeAll(EncodeInput, ins) \in Seq(Byte)
  BY <1>2, FlattenType DEF EncodeAll
<1>4. ASSUME NEW n \in Nat
      PROVE  EncodeAll(EncodeInput, Append(ins, n))
               = EncodeAll(EncodeInput, ins) \o EncodeInput(n)
  <2> DEFINE more == Append(ins, n)
             longer == [i \in DOMAIN more |-> EncodeInput(more[i])]
  <2>1. /\ Len(more) = Len(ins) + 1 /\ DOMAIN more = 1 .. Len(ins) + 1
        /\ \A i \in 1 .. Len(ins) : more[i] = ins[i]
        /\ more[Len(ins) + 1] = n
        /\ \A i \in 1 .. Len(ins) + 1 : more[i] \in Nat
    <3>1. more \in Seq(Nat)
      BY AppendProperties DEF InputLists
    <3>2. /\ Len(more) = Len(ins) + 1
          /\ \A i \in 1 .. Len(ins) : more[i] = ins[i]
          /\ more[Len(ins) + 1] = n
      BY AppendProperties DEF InputLists
    <3> HIDE DEF more
    <3> QED
      BY <3>1, <3>2, LenProperties, ElementOfSeq
  <2> HIDE DEF more
  <2>2. EncodeInput(n) \in Seq(Byte) /\ \A i \in 1 .. Len(ins) + 1 : EncodeInput(more[i]) \in Seq(Byte)
    BY <2>1, ElementTypes
  <2>3. /\ longer \in Seq(Seq(Byte)) /\ Len(longer) = Len(ins) + 1
        /\ \A i \in 1 .. Len(ins) + 1 : longer[i] = EncodeInput(more[i])
    <3>1. Len(ins) + 1 \in Nat
      BY <1>1
    <3> HIDE DEF EncodeInput, Byte
    <3> QED
      BY <2>1, <2>2, <3>1
  <2>4. /\ Append(list, EncodeInput(n)) \in Seq(Seq(Byte))
        /\ Len(Append(list, EncodeInput(n))) = Len(ins) + 1
        /\ \A i \in 1 .. Len(ins) : Append(list, EncodeInput(n))[i] = list[i]
        /\ Append(list, EncodeInput(n))[Len(ins) + 1] = EncodeInput(n)
    <3> HIDE DEF list, EncodeInput
    <3> QED
      BY <1>2, <2>2, AppendProperties
  <2>5. longer = Append(list, EncodeInput(n))
    <3> DEFINE l == Append(list, EncodeInput(n))
    <3>1. \A i \in 1 .. Len(ins) + 1 : longer[i] = l[i]
      <4> HIDE DEF longer, list, EncodeInput
      <4>1. TAKE i \in 1 .. Len(ins) + 1
      <4>2. i \in 1 .. Len(ins) \/ i = Len(ins) + 1
        BY <1>1
      <4> QED
        BY <1>2, <2>1, <2>3, <2>4, <4>2
    <3>2. l \in Seq(Seq(Byte)) /\ Len(l) = Len(ins) + 1
      BY <2>4
    <3> HIDE DEF l, longer
    <3>3. longer = l
      BY <2>3, <3>1, <3>2, SeqEqual
    <3> QED
      BY <3>3 DEF l
  <2>6. FlattenSeq(Append(list, EncodeInput(n))) = FlattenSeq(list) \o EncodeInput(n)
    <3> HIDE DEF list, EncodeInput
    <3> QED
      BY <1>2, <2>2, FlattenAppend
  <2> QED
    BY <2>5, <2>6 DEF EncodeAll, more
<1> QED
  BY <1>3, <1>4
\* All the outputs, and one more.
LEMMA AllOutputs ==
  ASSUME NEW outs \in OutputLists
  PROVE  /\ EncodeAll(EncodeOutput, outs) \in Seq(Byte)
         /\ \A n \in Output : EncodeAll(EncodeOutput, Append(outs, n))
                             = EncodeAll(EncodeOutput, outs) \o EncodeOutput(n)
<1> DEFINE list == [i \in DOMAIN outs |-> EncodeOutput(outs[i])]
<1>1. Len(outs) \in Nat /\ DOMAIN outs = 1 .. Len(outs) /\ \A i \in 1 .. Len(outs) : outs[i] \in Output
  BY LenProperties, ElementOfSeq DEF OutputLists
<1>2. list \in Seq(Seq(Byte)) /\ Len(list) = Len(outs) /\ \A i \in 1 .. Len(outs) : list[i] = EncodeOutput(outs[i])
  <2>1. \A i \in 1 .. Len(outs) : EncodeOutput(outs[i]) \in Seq(Byte)
    BY <1>1, ElementTypes
  <2> HIDE DEF EncodeOutput, Byte
  <2> QED
    BY <1>1, <2>1
<1>3. EncodeAll(EncodeOutput, outs) \in Seq(Byte)
  BY <1>2, FlattenType DEF EncodeAll
<1>4. ASSUME NEW n \in Output
      PROVE  EncodeAll(EncodeOutput, Append(outs, n))
               = EncodeAll(EncodeOutput, outs) \o EncodeOutput(n)
  <2> DEFINE more == Append(outs, n)
             longer == [i \in DOMAIN more |-> EncodeOutput(more[i])]
  <2>1. /\ Len(more) = Len(outs) + 1 /\ DOMAIN more = 1 .. Len(outs) + 1
        /\ \A i \in 1 .. Len(outs) : more[i] = outs[i]
        /\ more[Len(outs) + 1] = n
        /\ \A i \in 1 .. Len(outs) + 1 : more[i] \in Output
    <3>1. more \in Seq(Output)
      BY AppendProperties DEF OutputLists
    <3>2. /\ Len(more) = Len(outs) + 1
          /\ \A i \in 1 .. Len(outs) : more[i] = outs[i]
          /\ more[Len(outs) + 1] = n
      BY AppendProperties DEF OutputLists
    <3> HIDE DEF more
    <3> QED
      BY <3>1, <3>2, LenProperties, ElementOfSeq
  <2> HIDE DEF more
  <2>2. EncodeOutput(n) \in Seq(Byte) /\ \A i \in 1 .. Len(outs) + 1 : EncodeOutput(more[i]) \in Seq(Byte)
    BY <2>1, ElementTypes
  <2>3. /\ longer \in Seq(Seq(Byte)) /\ Len(longer) = Len(outs) + 1
        /\ \A i \in 1 .. Len(outs) + 1 : longer[i] = EncodeOutput(more[i])
    <3>1. Len(outs) + 1 \in Nat
      BY <1>1
    <3> HIDE DEF EncodeOutput, Byte
    <3> QED
      BY <2>1, <2>2, <3>1
  <2>4. /\ Append(list, EncodeOutput(n)) \in Seq(Seq(Byte))
        /\ Len(Append(list, EncodeOutput(n))) = Len(outs) + 1
        /\ \A i \in 1 .. Len(outs) : Append(list, EncodeOutput(n))[i] = list[i]
        /\ Append(list, EncodeOutput(n))[Len(outs) + 1] = EncodeOutput(n)
    <3> HIDE DEF list, EncodeOutput
    <3> QED
      BY <1>2, <2>2, AppendProperties
  <2>5. longer = Append(list, EncodeOutput(n))
    <3> DEFINE l == Append(list, EncodeOutput(n))
    <3>1. \A i \in 1 .. Len(outs) + 1 : longer[i] = l[i]
      <4> HIDE DEF longer, list, EncodeOutput
      <4>1. TAKE i \in 1 .. Len(outs) + 1
      <4>2. i \in 1 .. Len(outs) \/ i = Len(outs) + 1
        BY <1>1
      <4> QED
        BY <1>2, <2>1, <2>3, <2>4, <4>2
    <3>2. l \in Seq(Seq(Byte)) /\ Len(l) = Len(outs) + 1
      BY <2>4
    <3> HIDE DEF l, longer
    <3>3. longer = l
      BY <2>3, <3>1, <3>2, SeqEqual
    <3> QED
      BY <3>3 DEF l
  <2>6. FlattenSeq(Append(list, EncodeOutput(n))) = FlattenSeq(list) \o EncodeOutput(n)
    <3> HIDE DEF list, EncodeOutput
    <3> QED
      BY <1>2, <2>2, FlattenAppend
  <2> QED
    BY <2>5, <2>6 DEF EncodeAll, more
<1> QED
  BY <1>3, <1>4

\* No inputs, no outputs.
LEMMA NoElements ==
  /\ <<>> \in InputLists /\ EncodeAll(EncodeInput, <<>>) = <<>>
  /\ <<>> \in OutputLists /\ EncodeAll(EncodeOutput, <<>>) = <<>>
<1>1. DOMAIN <<>> = {} /\ Len(<<>>) = 0
  OBVIOUS
<1>2. [i \in DOMAIN <<>> |-> EncodeInput(<<>>[i])] = <<>>
  OBVIOUS
<1>3. [i \in DOMAIN <<>> |-> EncodeOutput(<<>>[i])] = <<>>
  OBVIOUS
<1>4. FlattenSeq(<<>>) = <<>>
  BY DEF FlattenSeq
<1> QED
  BY <1>2, <1>3, <1>4 DEF EncodeAll, InputLists, OutputLists

\* A transaction has been read when its last part has.
LEMMA WholeTx ==
  ASSUME NEW ins, NEW outs
  PROVE  EncodeTx([inputs |-> ins, outputs |-> outs])
           = OutputsRead(ins, outs) \o END_INDEF \o cbor_writeToken("MAP", 0)
  BY DEF EncodeTx, OutputsRead, InputsRead, Array

\* The parts of the transaction are bytes.
LEMMA ListTypes ==
  ASSUME NEW ins \in InputLists, NEW outs \in OutputLists
  PROVE  /\ InputsRead(ins) \in Seq(Byte)
         /\ InputsRead(ins) \o END_INDEF \in Seq(Byte)
         /\ OutputsRead(ins, outs) \in Seq(Byte)
         /\ OutputsRead(ins, outs) \o END_INDEF \in Seq(Byte)
<1>1. /\ Array(3) \in Seq(Byte) /\ INDEF \in Seq(Byte) /\ END_INDEF \in Seq(Byte)
      /\ EncodeAll(EncodeInput, ins) \in Seq(Byte)
      /\ EncodeAll(EncodeOutput, outs) \in Seq(Byte)
  BY TokenTypesOf, AllInputs, AllOutputs
<1>2. Array(3) \o INDEF \in Seq(Byte)
  BY <1>1, ConcatProperties
<1>3. InputsRead(ins) \in Seq(Byte)
  BY <1>1, <1>2, ConcatProperties DEF InputsRead
<1>4. InputsRead(ins) \o END_INDEF \in Seq(Byte)
  BY <1>1, <1>3, ConcatProperties
<1>5. InputsRead(ins) \o END_INDEF \o INDEF \in Seq(Byte)
  BY <1>1, <1>4, ConcatProperties
<1>6. OutputsRead(ins, outs) \in Seq(Byte)
  BY <1>1, <1>5, ConcatProperties DEF OutputsRead
<1>7. OutputsRead(ins, outs) \o END_INDEF \in Seq(Byte)
  BY <1>1, <1>6, ConcatProperties
<1> QED
  BY <1>3, <1>4, <1>6, <1>7

\* So is what has been read of an element.
LEMMA PartTypes ==
  ASSUME NEW p \in Parser
  PROVE  /\ \A n \in Nat : InputRead(p, n) \in Seq(Byte)
         /\ \A o \in Output : OutputRead(p, o) \in Seq(Byte)
<1>1. /\ Array(2) \in Seq(Byte) /\ Unsigned(0) \in Seq(Byte) /\ Tag \in Seq(Byte)
      /\ p.inputState \in InputStates /\ p.outputState \in OutputStates
      /\ p.addressDataRemainingBytes \in Nat
  BY TokenTypesOf DEF Parser
<1>2. /\ Array(2) \o Unsigned(0) \in Seq(Byte)
      /\ Array(2) \o Array(2) \in Seq(Byte)
  BY <1>1, ConcatProperties
<1>3. /\ (Array(2) \o Unsigned(0)) \o Tag \in Seq(Byte)
      /\ (Array(2) \o Array(2)) \o Tag \in Seq(Byte)
  BY <1>1, <1>2, ConcatProperties
<1>4. ASSUME NEW n \in Nat PROVE InputRead(p, n) \in Seq(Byte)
  <2>1. EncodeInput(n) \in Seq(Byte) /\ AddressRead(n, p.addressDataRemainingBytes) \in Seq(Byte)
    BY <1>1, ElementTypes, AddressTypes
  <2>2. (Array(2) \o Unsigned(0)) \o AddressRead(n, p.addressDataRemainingBytes) \in Seq(Byte)
    BY <1>2, <2>1, ConcatProperties
  <2>3. <<>> \in Seq(Byte)
    BY EmptySeq
  <2> HIDE DEF Byte
  <2> QED
    BY <1>1, <1>2, <1>3, <2>1, <2>2, <2>3 DEF InputRead, InputStates
<1>5. ASSUME NEW o \in Output PROVE OutputRead(p, o) \in Seq(Byte)
  <2>0. o.address \in Nat /\ o.checksum \in Nat
    BY DEF Output
  <2>1. /\ EncodeOutput(o) \in Seq(Byte) /\ EncodeAddress(o.address) \in Seq(Byte)
        /\ AddressRead(o.address, p.addressDataRemainingBytes) \in Seq(Byte)
        /\ Unsigned(o.checksum) \in Seq(Byte)
    BY <1>1, <2>0, ElementTypes, AddressTypes, TokenTypesOf
  <2>2. /\ (Array(2) \o Array(2)) \o AddressRead(o.address, p.addressDataRemainingBytes) \in Seq(Byte)
        /\ (Array(2) \o Array(2)) \o EncodeAddress(o.address) \in Seq(Byte)
    BY <1>2, <2>1, ConcatProperties
  <2>3. ((Array(2) \o Array(2)) \o EncodeAddress(o.address)) \o Unsigned(o.checksum) \in Seq(Byte)
    BY <2>1, <2>2, ConcatProperties
  <2>4. <<>> \in Seq(Byte)
    BY EmptySeq
  <2> QED
    BY <1>1, <1>2, <1>3, <2>1, <2>2, <2>3, <2>4 DEF OutputRead, OutputStates
<1> QED
  BY <1>4, <1>5

\* And what has been read altogether.
LEMMA ReadTypes ==
  ASSUME NEW p \in Parser, NEW r \in SoFar
  PROVE  Read(p, r) \in Seq(Byte)
<1>1. /\ p.mainState \in MainStates
      /\ r.inputs \in InputLists /\ r.outputs \in OutputLists
      /\ r.input \in Nat /\ r.output \in Output
  BY DEF Parser, SoFar
<1>2. /\ InputsRead(r.inputs) \in Seq(Byte)
      /\ InputsRead(r.inputs) \o END_INDEF \in Seq(Byte)
      /\ OutputsRead(r.inputs, r.outputs) \in Seq(Byte)
      /\ OutputsRead(r.inputs, r.outputs) \o END_INDEF \in Seq(Byte)
  BY <1>1, ListTypes
<1>3. /\ InputsRead(r.inputs) \o InputRead(p, r.input) \in Seq(Byte)
      /\ OutputsRead(r.inputs, r.outputs) \o OutputRead(p, r.output) \in Seq(Byte)
  BY <1>1, <1>2, PartTypes, ConcatProperties
<1>4. EncodeTx([inputs |-> r.inputs, outputs |-> r.outputs]) \in Seq(Byte)
  <2>1. cbor_writeToken("MAP", 0) \in Seq(Byte)
    BY TokenTypesOf
  <2>2. OutputsRead(r.inputs, r.outputs) \o END_INDEF \o cbor_writeToken("MAP", 0) \in Seq(Byte)
    BY <1>2, <2>1, ConcatProperties
  <2> QED
    BY <2>2, WholeTx
<1>5. Array(3) \in Seq(Byte) /\ <<>> \in Seq(Byte)
  BY TokenTypesOf, EmptySeq
<1> QED
  BY <1>1, <1>2, <1>3, <1>4, <1>5 DEF Read, MainStates

-----------------------------------------------------------------------------
(***************************************************************************)
(* A step of the parser: it waits for more, refuses what it sees, or goes  *)
(* on and what it has read is longer by what it has taken.                 *)
(***************************************************************************)

\* Parser p has read all of `bytes` but its unread ones, which `rest` continues: r.
At(p, r, bytes, rest) ==
  /\ p \in Parser
  /\ p.bufferPos + Len(p.unread) <= STREAM_BUFFER_SIZE
  /\ Started(p)
  /\ rest \in Seq(Byte)
  /\ Coherent(p.unread \o rest)
  /\ r \in SoFar
  /\ bytes = Read(p, r) \o p.unread
  /\ AmountsRead(p, r)
  /\ AddressAhead(p, r, p.unread \o rest)

Waits(p, step) ==
  /\ step = Throws(p, ERR_NOT_ENOUGH_INPUT)
  /\ Partial(p.unread)
  /\ Len(p.unread) <= MAX_WIDTH

Refuses(p, step) == step = Throws(p, ERR_UNEXPECTED_TOKEN)

GoesOn(step, bytes, rest) ==
  \E q, s : step = Goes(q) /\ At(q, s, bytes, rest)

Outcome(p, step, bytes, rest) ==
  Waits(p, step) \/ Refuses(p, step) \/ GoesOn(step, bytes, rest)

\* The token of this type and value is at the head of p, and `left` comes next.
Ahead(p, type, v, left, k, rest) ==
  /\ left \in Seq(Byte)
  /\ k \in Nat
  /\ p.unread = cbor_writeToken(type, v) \o left
  /\ Len(p.unread) = k + Len(left)
  /\ Coherent(left \o rest)
  /\ type = "BYTES" => \A j \in DOMAIN (left \o rest) : j <= v => (left \o rest)[j] = Content

\* Where p goes on in state g it has read a token more.
Follows(p, r, g, type, v) ==
  /\ g \in Parser
  /\ g.unread = p.unread
  /\ g.bufferPos = p.bufferPos
  /\ Started(g)
  /\ \E s \in SoFar :
       /\ Read(g, s) = Read(p, r) \o cbor_writeToken(type, v)
       /\ AmountsRead(g, s)
       /\ \A ahead :
            (type = "BYTES" => \A j \in DOMAIN ahead : j <= v => ahead[j] = Content)
              => AddressAhead(g, s, ahead)

\* What it has read does not depend on what it has not.
LEMMA ReadBehind ==
  ASSUME NEW g \in Parser, NEW left \in Seq(Byte), NEW k \in Nat, NEW s
  PROVE  /\ Behind(g, left, k) \in Parser
         /\ Behind(g, left, k).unread = left
         /\ Behind(g, left, k).bufferPos = g.bufferPos + k
         /\ Started(g) => Started(Behind(g, left, k))
         /\ Read(Behind(g, left, k), s) = Read(g, s)
         /\ AmountsRead(g, s) => AmountsRead(Behind(g, left, k), s)
         /\ \A ahead : AddressAhead(g, s, ahead) => AddressAhead(Behind(g, left, k), s, ahead)
<1> DEFINE q == Behind(g, left, k)
<1>1. /\ q \in Parser /\ q.unread = left /\ q.bufferPos = g.bufferPos + k
      /\ q.mainState = g.mainState /\ q.inputState = g.inputState
      /\ q.outputState = g.outputState
      /\ q.addressDataRemainingBytes = g.addressDataRemainingBytes
      /\ q.currentOutputIndex = g.currentOutputIndex
      /\ q.attestedOutputIndex = g.attestedOutputIndex
      /\ q.outputAmount = g.outputAmount
  <2>1. g.bufferPos + k \in Nat
    BY DEF Parser
  <2> HIDE DEF Byte, MainStates, InputStates, OutputStates
  <2>2. q = [g EXCEPT !.unread = left, !.bufferPos = g.bufferPos + k]
    BY DEF Behind, Parser
  <2> HIDE DEF q
  <2>3. q \in Parser
    BY <2>1, <2>2 DEF Parser
  <2>4. q.unread = left /\ q.bufferPos = g.bufferPos + k
    BY <2>2 DEF Parser
  <2>5. /\ q.mainState = g.mainState /\ q.inputState = g.inputState
        /\ q.outputState = g.outputState
        /\ q.addressDataRemainingBytes = g.addressDataRemainingBytes
        /\ q.currentOutputIndex = g.currentOutputIndex
        /\ q.attestedOutputIndex = g.attestedOutputIndex
        /\ q.outputAmount = g.outputAmount
    BY <2>2 DEF Parser
  <2> QED
    BY <2>3, <2>4, <2>5
<1> HIDE DEF q
<1>2. InputRead(q, s.input) = InputRead(g, s.input)
  BY <1>1 DEF InputRead
<1>3. OutputRead(q, s.output) = OutputRead(g, s.output)
  BY <1>1 DEF OutputRead
<1>4. Read(q, s) = Read(g, s)
  BY <1>1, <1>2, <1>3 DEF Read
<1>5. AmountsRead(g, s) => AmountsRead(q, s)
  BY <1>1 DEF AmountsRead
<1>6. \A ahead : AddressAhead(g, s, ahead) => AddressAhead(q, s, ahead)
  BY <1>1 DEF AddressAhead, ContentAhead
<1>7. Started(g) => Started(q)
  BY <1>1 DEF Started
<1> QED
  BY <1>1, <1>4, <1>5, <1>6, <1>7 DEF q

\* The parser has passed a token.
LEMMA Passed ==
  ASSUME NEW p, NEW r, NEW bytes, NEW rest, At(p, r, bytes, rest),
         NEW type \in TokenTypes, NEW v \in Nat, NEW left, NEW k,
         Ahead(p, type, v, left, k, rest), NEW g, Follows(p, r, g, type, v)
  PROVE  GoesOn(Goes(Behind(g, left, k)), bytes, rest)
<1> DEFINE q == Behind(g, left, k)
           token == cbor_writeToken(type, v)
<1>1. PICK s \in SoFar :
        /\ Read(g, s) = Read(p, r) \o token
        /\ AmountsRead(g, s)
        /\ \A ahead :
             (type = "BYTES" => \A j \in DOMAIN ahead : j <= v => ahead[j] = Content)
               => AddressAhead(g, s, ahead)
  BY DEF Follows
<1>2. /\ p \in Parser /\ r \in SoFar /\ rest \in Seq(Byte)
      /\ bytes = Read(p, r) \o p.unread
      /\ p.bufferPos + Len(p.unread) <= STREAM_BUFFER_SIZE
  BY DEF At
<1>3. /\ left \in Seq(Byte) /\ k \in Nat
      /\ p.unread = token \o left
      /\ Len(p.unread) = k + Len(left)
      /\ Coherent(left \o rest)
  BY DEF Ahead
<1>4. /\ g \in Parser /\ Started(g) /\ g.unread = p.unread /\ g.bufferPos = p.bufferPos
  BY DEF Follows
<1>5. /\ q \in Parser /\ q.unread = left /\ q.bufferPos = g.bufferPos + k
      /\ Started(q)
      /\ Read(q, s) = Read(g, s)
      /\ AmountsRead(q, s)
  BY <1>1, <1>3, <1>4, ReadBehind
<1>6. AddressAhead(q, s, left \o rest)
  <2>1. AddressAhead(g, s, left \o rest)
    BY <1>1 DEF Ahead
  <2> QED
    BY <1>3, <1>4, <2>1, ReadBehind
<1>7. bytes = Read(q, s) \o left
  <2>1. Read(p, r) \in Seq(Byte) /\ token \in Seq(Byte)
    BY <1>2, ReadTypes, WrittenBytes
  <2> HIDE DEF token
  <2>2. (Read(p, r) \o token) \o left = Read(p, r) \o (token \o left)
    <3>1. Associates(Read(p, r), token, left)
      BY <1>3, <2>1, Associative
    <3> QED
      BY <3>1 DEF Associates
  <2> QED
    BY <1>1, <1>2, <1>3, <1>5, <2>2
<1>8. q.bufferPos + Len(left) <= STREAM_BUFFER_SIZE
  <2>1. p.bufferPos \in Nat /\ Len(left) \in Nat
    <3>1. p.bufferPos \in Nat
      BY <1>2 DEF Parser
    <3> QED
      BY <1>3, <3>1, LenProperties
  <2> HIDE DEF q
  <2> QED
    BY <1>2, <1>3, <1>4, <1>5, <2>1
<1> HIDE DEF q
<1>9. At(q, s, bytes, rest)
  BY <1>1, <1>2, <1>3, <1>5, <1>6, <1>7, <1>8 DEF At
<1>10. GoesOn(Goes(q), bytes, rest)
  BY <1>9 DEF GoesOn
<1> QED
  BY <1>10 DEF q

\* Taking a token.
LEMMA TakeStep ==
  ASSUME NEW p, NEW r, NEW bytes, NEW rest, At(p, r, bytes, rest),
         NEW type \in TokenTypes, NEW next,
         \A v \in DOMAIN next : v \in Nat => Follows(p, r, next[v], type, v)
  PROVE  Outcome(p, Take(p, type, next), bytes, rest)
<1> DEFINE u == p.unread
           error == cbor_parseError(u)
<1>1. p \in Parser /\ u \in Seq(Byte) /\ rest \in Seq(Byte) /\ Coherent(u \o rest)
  BY DEF At, Parser
<1> HIDE DEF Content, Byte
<1>2. error \in {OK, ERR_NOT_ENOUGH_INPUT, ERR_UNEXPECTED_TOKEN}
  BY DEF cbor_parseError
<1>3. CASE error = ERR_NOT_ENOUGH_INPUT
  <2>1. Take(p, type, next) = Throws(p, ERR_NOT_ENOUGH_INPUT)
    BY <1>3 DEF Take, ERR_NOT_ENOUGH_INPUT, OK
  <2>2. Partial(u) /\ Len(u) <= MAX_WIDTH
    BY <1>1, <1>3, Incomplete
  <2> QED
    BY <2>1, <2>2 DEF Outcome, Waits
<1>4. CASE error = ERR_UNEXPECTED_TOKEN
  BY <1>4 DEF Take, ERR_UNEXPECTED_TOKEN, OK, Outcome, Refuses
<1>5. CASE error = OK
  <2> DEFINE t == u[1].token
             k == 1 + t.width
             left == SubSeq(u, k + 1, Len(u))
             v == t.value
  <2>1. u # <<>> /\ 1 + t.width <= Len(u) /\ ~(t.value < LimitMin(t.width)) /\ Head(u) = u[1]
    BY <1>1, <1>5
       DEF cbor_parseError, HasBytes, OK, ERR_NOT_ENOUGH_INPUT, ERR_UNEXPECTED_TOKEN
  <2>2. /\ t \in Token /\ left \in Seq(Byte) /\ Len(u) = k + Len(left)
        /\ Coherent(left \o rest)
        /\ WidthOf(t.value) <= t.width
        /\ t.type = "BYTES" => \A j \in DOMAIN (left \o rest) : j <= t.value => (left \o rest)[j] = Content
    BY <1>1, <2>1, TokenAhead
  <2>3. u = BytesOf(t) \o left
    BY <1>1, <2>1, TokenAhead, Zenon
  <2>4. k \in Nat /\ v \in Nat
    <3> HIDE DEF t
    <3>1. t.width \in 0 .. 8 /\ t.value \in Nat
      BY <2>2, ByteTypes
    <3> QED
      BY <3>1
  <2>5. Take(p, type, next)
          = IF t.type # type \/ v \notin DOMAIN next THEN Throws(p, ERR_UNEXPECTED_TOKEN)
            ELSE Goes(stream_advancePos(next[v], k))
    <3> HIDE DEF error
    <3>1. Take(p, type, next) = Taken(p, type, next)
      BY <1>5 DEF Take, error
    <3>2. Head(p.unread) = u[1]
      BY <2>1
    <3> QED
      BY <3>1, <3>2 DEF Taken
  <2>6. CASE t.type # type \/ v \notin DOMAIN next
    BY <2>5, <2>6 DEF Outcome, Refuses
  <2>7. CASE t.type = type /\ v \in DOMAIN next
    <3>1. BytesOf(t) = cbor_writeToken(type, v)
      BY <2>1, <2>2, <2>7, Canonical
    <3>2. u = cbor_writeToken(type, v) \o left
      BY <2>3, <3>1
    <3>3. Ahead(p, type, v, left, k, rest)
      <4> HIDE DEF left, k, v
      <4>1. type = "BYTES" => \A j \in DOMAIN (left \o rest) : j <= v => (left \o rest)[j] = Content
        BY <2>2, <2>7 DEF v
      <4> HIDE DEF t
      <4> QED
        BY <2>2, <2>4, <3>2, <4>1 DEF Ahead
    <3>4. Follows(p, r, next[v], type, v)
      BY <2>4, <2>7
    <3>5. next[v].unread = u
      BY <3>4 DEF Follows
    <3>6. stream_advancePos(next[v], k) = Behind(next[v], left, k)
      <4> HIDE DEF k, v, t, u
      <4> QED
        BY <3>5 DEF stream_advancePos, Behind
    <3>7. Take(p, type, next) = Goes(Behind(next[v], left, k))
      BY <2>5, <2>7, <3>6
    <3> HIDE DEF left, k, v, t, u
    <3>8. GoesOn(Goes(Behind(next[v], left, k)), bytes, rest)
      BY <2>4, <3>3, <3>4, Passed
    <3> QED
      BY <3>7, <3>8 DEF Outcome
  <2> QED
    BY <2>6, <2>7
<1> QED
  BY <1>2, <1>3, <1>4, <1>5

\* Going on without a token: what has been read is the same, written differently.
Stays(p, r, g) ==
  /\ g \in Parser
  /\ g.unread = p.unread
  /\ g.bufferPos = p.bufferPos
  /\ Started(g)
  /\ \E s \in SoFar :
       /\ Read(g, s) = Read(p, r)
       /\ AmountsRead(g, s)
       /\ \A ahead : AddressAhead(g, s, ahead)

\* A state that stands for the same reading as p needs no token: nothing is consumed.
LEMMA StayStep ==
  ASSUME NEW p, NEW r, NEW bytes, NEW rest, At(p, r, bytes, rest), NEW g, Stays(p, r, g)
  PROVE  Outcome(p, Goes(g), bytes, rest)
<1>1. PICK s \in SoFar :
        /\ Read(g, s) = Read(p, r)
        /\ AmountsRead(g, s)
        /\ \A ahead : AddressAhead(g, s, ahead)
  BY DEF Stays
<1>2. g \in Parser /\ g.unread = p.unread /\ g.bufferPos = p.bufferPos /\ Started(g)
  BY DEF Stays
<1>3. At(g, s, bytes, rest)
  BY <1>1, <1>2 DEF At
<1> QED
  BY <1>3 DEF Outcome, GoesOn

\* Concatenation may be grouped in another way.
Regroups(w, x, y, z) == w \o (x \o (y \o z)) = (w \o (x \o y)) \o z

\* Four pieces of bytes joined from the right are joined from the left.
LEMMA Regrouped ==
  \A w, x, y, z \in Seq(Byte) : Regroups(w, x, y, z)
<1> SUFFICES ASSUME NEW w \in Seq(Byte), NEW x \in Seq(Byte),
                    NEW y \in Seq(Byte), NEW z \in Seq(Byte)
             PROVE  Regroups(w, x, y, z)
  OBVIOUS
<1>1. x \o y \in Seq(Byte)
  BY ConcatProperties
<1>2. Associates(x, y, z) /\ Associates(w, x \o y, z)
  BY <1>1, Associative
<1> QED
  BY <1>2 DEF Associates, Regroups

\* The content at the head of the stream is skipped.
LEMMA SkipBytes ==
  ASSUME NEW u \in Seq(Byte), NEW rest \in Seq(Byte), Coherent(u \o rest), u # <<>>,
         NEW remaining \in Nat \ {0},
         \A j \in DOMAIN (u \o rest) : j <= remaining => (u \o rest)[j] = Content
  PROVE  LET n == SmallerOf(Len(u), remaining)
             left == SubSeq(u, n + 1, Len(u))
         IN /\ n \in Nat /\ n <= remaining
            /\ left \in Seq(Byte)
            /\ u = Contents(n) \o left
            /\ Len(u) = n + Len(left)
            /\ Coherent(left \o rest)
            /\ \A j \in DOMAIN (left \o rest) : j <= remaining - n => (left \o rest)[j] = Content
<1> DEFINE n == SmallerOf(Len(u), remaining)
           left == SubSeq(u, n + 1, Len(u))
           d == u \o rest
           e == left \o rest
<1> HIDE DEF Content, Byte
<1>1. Len(u) \in Nat \ {0} /\ Len(rest) \in Nat /\ \A i \in 1 .. Len(u) : u[i] \in Byte
  BY EmptySeq, LenProperties, ElementOfSeq
<1>2. n \in 1 .. Len(u) /\ n \in 0 .. Len(u) /\ n \in Nat /\ n <= remaining
  BY <1>1 DEF SmallerOf
<1> HIDE DEF n
<1>3. /\ left \in Seq(Byte)
      /\ Len(u) = n + Len(left)
      /\ Len(d) = n + Len(e)
      /\ \A j \in 1 .. Len(e) : e[j] = d[n + j]
  <2>1. left \in Seq(Byte) /\ Len(u) = n + Len(left)
    BY <1>2, Left
  <2>2. Len(d) = n + Len(e)
    BY <1>2, Left
  <2>3. \A j \in 1 .. Len(e) : e[j] = d[n + j]
    BY <1>2, Left
  <2> QED
    BY <2>1, <2>2, <2>3
<1>4. u = SubSeq(u, 1, n) \o left
  BY <1>2, Left, Zenon
<1>5. /\ d \in Seq(Byte) /\ Len(d) = Len(u) + Len(rest)
      /\ \A i \in 1 .. Len(u) : d[i] = u[i]
  <2>1. /\ d \in Seq(Byte) /\ Len(d) = Len(u) + Len(rest)
        /\ \A i \in 1 .. Len(u) + Len(rest) :
             d[i] = IF i <= Len(u) THEN u[i] ELSE rest[i - Len(u)]
    BY ConcatProperties
  <2> HIDE DEF d
  <2> QED
    BY <1>1, <2>1
<1> HIDE DEF left
<1>6. e \in Seq(Byte) /\ DOMAIN e = 1 .. Len(e) /\ Len(e) \in Nat /\ DOMAIN d = 1 .. Len(d)
  BY <1>3, <1>5, ConcatProperties, LenProperties
<1>7. \A j \in DOMAIN d : j <= remaining => d[j] = Content
  OBVIOUS
<1> HIDE DEF d, e
<1>8. SubSeq(u, 1, n) = Contents(n)
  <2> DEFINE first == SubSeq(u, 1, n)
  <2>1. first \in Seq(Byte) /\ Len(first) = n /\ \A i \in 1 .. n : first[i] = u[i]
    <3>1. \A i \in 1 .. n : u[i] \in Byte
      BY <1>1, <1>2
    <3>2. /\ first \in Seq(Byte)
          /\ Len(first) = IF 1 <= n THEN n - 1 + 1 ELSE 0
          /\ \A i \in 1 .. n - 1 + 1 : first[i] = u[1 + i - 1]
      BY <1>2, <3>1, SubSeqProperties
    <3> HIDE DEF first
    <3> QED
      BY <1>2, <3>2
  <2>2. \A i \in 1 .. n : u[i] = Content
    BY <1>1, <1>2, <1>5, <1>6, <1>7
  <2>3. Contents(n) \in Seq(Byte) /\ Len(Contents(n)) = n /\ \A i \in 1 .. n : Contents(n)[i] = Content
    BY <1>2, ContentBytes
  <2> HIDE DEF first
  <2>4. first = Contents(n)
    BY <2>1, <2>2, <2>3, SeqEqual
  <2> QED
    BY <2>4 DEF first
<1>9. n + 1 \in 1 .. Len(d) => d[n + 1].at = 0
  <2>1. n \in DOMAIN d /\ d[n] = Content
    <3>1. n \in 1 .. Len(d)
      BY <1>1, <1>2, <1>5
    <3> QED
      BY <1>2, <1>6, <1>7, <3>1
  <2>2. TokenAt(d, n)
    <3>1. d[n].at = 0
      BY <2>1 DEF Content
    <3> HIDE DEF TokenAt
    <3> QED
      BY <2>1, <3>1 DEF Coherent, d
  <2>3. n + 1 + d[n].token.width \in DOMAIN d => d[n + 1 + d[n].token.width].at = 0
    BY <2>2 DEF TokenAt
  <2>4. d[n].token.width = 0
    BY <2>1 DEF Content
  <2>5. n + 1 + d[n].token.width = n + 1
    BY <1>2, <2>4
  <2> QED
    BY <1>6, <2>3, <2>5
<1>10. Coherent(e)
  <2>1. n \in 0 .. Len(d) /\ Coherent(d)
    BY <1>1, <1>2, <1>5 DEF d
  <2> QED
    BY <1>3, <1>5, <1>6, <1>9, <2>1, CoherentLeft
<1>11. ASSUME NEW j \in DOMAIN e, j <= remaining - n
       PROVE  e[j] = Content
  <2>1. j \in 1 .. Len(e) /\ n + j \in 1 .. Len(d) /\ n + j <= remaining
    BY <1>2, <1>3, <1>6, <1>11
  <2> QED
    BY <1>3, <1>6, <1>7, <2>1
<1>12. u = Contents(n) \o left
  BY <1>4, <1>8
<1>13. n \in Nat /\ n <= remaining /\ left \in Seq(Byte) /\ Len(u) = n + Len(left)
  BY <1>2, <1>3
<1> QED
  BY <1>10, <1>11, <1>12, <1>13 DEF e, left, n

\* Skipping some of the address data, in an input or in an output of this size.
LEMMA AddressReadMore ==
  ASSUME NEW size \in Nat, NEW remaining \in Nat, NEW n \in Nat,
         n <= remaining, remaining <= size
  PROVE  AddressRead(size, remaining - n) = AddressRead(size, remaining) \o Contents(n)
<1> DEFINE m == size - remaining
           head == Tag \o cbor_writeToken("BYTES", size)
<1>1. m \in Nat /\ size - (remaining - n) = m + n
  OBVIOUS
<1> HIDE DEF m
<1>2. Contents(m + n) = Contents(m) \o Contents(n)
  BY <1>1, MoreContent
<1>3. Contents(m) \in Seq(Byte) /\ Contents(n) \in Seq(Byte) /\ head \in Seq(Byte)
  <2>1. Contents(m) \in Seq(Byte) /\ Contents(n) \in Seq(Byte)
    <3>1. m \in Int /\ n \in Int
      BY <1>1
    <3> QED
      BY <3>1, ContentBytes
  <2>2. Tag \in Seq(Byte) /\ cbor_writeToken("BYTES", size) \in Seq(Byte)
    BY TokenTypesOf
  <2>3. head \in Seq(Byte)
    BY <2>2, ConcatProperties
  <2> QED
    BY <2>1, <2>3
<1> HIDE DEF head
<1>4. (head \o Contents(m)) \o Contents(n) = head \o (Contents(m) \o Contents(n))
  <2>1. Associates(head, Contents(m), Contents(n))
    BY <1>3, Associative
  <2> QED
    BY <2>1 DEF Associates
<1>5. AddressRead(size, remaining) = head \o Contents(m)
  BY DEF AddressRead, head, m
<1>6. AddressRead(size, remaining - n) = head \o Contents(m + n)
  BY <1>1 DEF AddressRead, head
<1> QED
  BY <1>2, <1>4, <1>5, <1>6

\* Skipping through address data.
LEMMA SkipStep ==
  ASSUME NEW p, NEW r, NEW bytes, NEW rest, At(p, r, bytes, rest),
         p.addressDataRemainingBytes # 0,
         \/ p.mainState = "IN_INPUT" /\ p.inputState = "IN_ADDRESS_DATA"
         \/ p.mainState = "IN_OUTPUT" /\ p.outputState = "IN_ADDRESS_DATA"
  PROVE  Outcome(p, parser_skipThroughAddressBytes(p), bytes, rest)
<1> DEFINE u == p.unread
           remaining == p.addressDataRemainingBytes
           n == SmallerOf(Len(u), remaining)
           left == SubSeq(u, n + 1, Len(u))
           g == [p EXCEPT !.addressDataRemainingBytes = remaining - n]
           q == Behind(g, left, n)
           size == IF p.mainState = "IN_INPUT" THEN r.input ELSE r.output.address
<1> HIDE DEF Content, Byte
<1>1. /\ p \in Parser /\ u \in Seq(Byte) /\ rest \in Seq(Byte) /\ Coherent(u \o rest)
      /\ r \in SoFar /\ remaining \in Nat \ {0} /\ size \in Nat
      /\ p.bufferPos \in Nat
  <2>1. p \in Parser /\ rest \in Seq(Byte) /\ Coherent(u \o rest) /\ r \in SoFar
    BY DEF At
  <2>2. u \in Seq(Byte) /\ remaining \in Nat \ {0} /\ p.bufferPos \in Nat
    BY <2>1 DEF Parser
  <2>3. size \in Nat
    BY <2>1 DEF SoFar, Output
  <2> QED
    BY <2>1, <2>2, <2>3
<1>2. CASE u = <<>>
  <2>1. parser_skipThroughAddressBytes(p) = Throws(p, ERR_NOT_ENOUGH_INPUT)
    BY <1>2 DEF parser_skipThroughAddressBytes
  <2>2. Partial(u) /\ Len(u) <= MAX_WIDTH
    BY <1>2, EmptySeq DEF Partial, MAX_WIDTH
  <2> QED
    BY <2>1, <2>2 DEF Outcome, Waits
<1>3. CASE u # <<>>
  <2>1. /\ p.mainState # "IN_INPUT" => p.outputState = "IN_ADDRESS_DATA" /\ p.mainState = "IN_OUTPUT"
        /\ p.mainState = "IN_INPUT" => p.inputState = "IN_ADDRESS_DATA"
    OBVIOUS
  <2>2. ContentAhead(p, size, u \o rest)
    <3>1. AddressAhead(p, r, u \o rest)
      BY DEF At
    <3> QED
      BY <2>1, <3>1 DEF AddressAhead
  <2>3. /\ remaining <= size
        /\ \A j \in DOMAIN (u \o rest) : j <= remaining => (u \o rest)[j] = Content
    BY <2>2 DEF ContentAhead
  <2>4. /\ n \in Nat /\ n <= remaining
        /\ left \in Seq(Byte)
        /\ Len(u) = n + Len(left)
        /\ Coherent(left \o rest)
        /\ \A j \in DOMAIN (left \o rest) : j <= remaining - n => (left \o rest)[j] = Content
    <3>1. \A j \in DOMAIN (u \o rest) : j <= remaining => (u \o rest)[j] = Content
      BY <2>3
    <3> HIDE DEF Content
    <3>2. n \in Nat /\ n <= remaining /\ left \in Seq(Byte) /\ Len(u) = n + Len(left)
      BY <1>1, <1>3, <3>1, SkipBytes
    <3>3. Coherent(left \o rest)
      BY <1>1, <1>3, <3>1, SkipBytes
    <3>4. \A j \in DOMAIN (left \o rest) : j <= remaining - n => (left \o rest)[j] = Content
      BY <1>1, <1>3, <3>1, SkipBytes
    <3> QED
      BY <3>2, <3>3, <3>4
  <2>5. u = Contents(n) \o left
    BY <1>1, <1>3, <2>3, SkipBytes, Zenon
  <2>6. parser_skipThroughAddressBytes(p) = Goes(q)
    <3>1. parser_skipThroughAddressBytes(p)
            = Goes([stream_advancePos(p, n) EXCEPT !.addressDataRemainingBytes = @ - n])
      BY <1>3 DEF parser_skipThroughAddressBytes
    <3> HIDE DEF n
    <3>2. [stream_advancePos(p, n) EXCEPT !.addressDataRemainingBytes = @ - n] = q
      BY <1>1 DEF stream_advancePos, Behind, Parser
    <3> QED
      BY <3>1, <3>2
  <2> HIDE DEF n, left
  <2>7. remaining - n \in Nat /\ remaining - n <= size
    BY <1>1, <2>3, <2>4
  <2>8. /\ g \in Parser /\ g.mainState = p.mainState /\ g.inputState = p.inputState
        /\ g.outputState = p.outputState /\ g.bufferPos = p.bufferPos
        /\ g.addressDataRemainingBytes = remaining - n
        /\ g.currentOutputIndex = p.currentOutputIndex
        /\ g.attestedOutputIndex = p.attestedOutputIndex
        /\ g.outputAmount = p.outputAmount
    <3> HIDE DEF remaining
    <3> QED
      BY <1>1, <2>7 DEF Parser
  <2> HIDE DEF g, size, remaining, u
  <2>9. Read(g, r) = Read(p, r) \o Contents(n)
    <3>0. /\ Contents(n) \in Seq(Byte)
          /\ AddressRead(size, remaining) \in Seq(Byte)
      <4>1. n \in Int /\ remaining \in Nat
        BY <1>1, <2>4
      <4> QED
        BY <1>1, <4>1, ContentBytes, AddressTypes
    <3>4. AddressRead(size, remaining - n) = AddressRead(size, remaining) \o Contents(n)
      BY <1>1, <2>3, <2>4, AddressReadMore
    <3>1. /\ Array(2) \o Unsigned(0) \in Seq(Byte)
          /\ Array(2) \o Array(2) \in Seq(Byte)
          /\ InputsRead(r.inputs) \in Seq(Byte)
          /\ OutputsRead(r.inputs, r.outputs) \in Seq(Byte)
      <4>1. Array(2) \in Seq(Byte) /\ Unsigned(0) \in Seq(Byte)
        BY TokenTypesOf
      <4>2. r.inputs \in InputLists /\ r.outputs \in OutputLists
        BY <1>1 DEF SoFar
      <4> QED
        BY <4>1, <4>2, ConcatProperties, ListTypes
    <3>2. CASE p.mainState = "IN_INPUT"
      <4> DEFINE head == Array(2) \o Unsigned(0)
                 ins == InputsRead(r.inputs)
                 a == AddressRead(size, remaining)
      <4>1. size = r.input
        BY <3>2 DEF size
      <4>2. Read(p, r) = ins \o (head \o a)
        BY <2>1, <3>2, <4>1 DEF Read, InputRead, remaining
      <4>3. Read(g, r) = ins \o (head \o (a \o Contents(n)))
        BY <2>1, <2>8, <3>2, <3>4, <4>1 DEF Read, InputRead
      <4> HIDE DEF head, ins, a
      <4>4. head \in Seq(Byte) /\ ins \in Seq(Byte) /\ a \in Seq(Byte)
        BY <3>0, <3>1 DEF head, ins, a
      <4>5. Regroups(ins, head, a, Contents(n))
        BY <3>0, <4>4, Regrouped
      <4>6. ins \o (head \o (a \o Contents(n))) = (ins \o (head \o a)) \o Contents(n)
        BY <4>5 DEF Regroups
      <4> QED
        BY <4>2, <4>3, <4>6
    <3>3. CASE p.mainState # "IN_INPUT"
      <4> DEFINE head == Array(2) \o Array(2)
                 outs == OutputsRead(r.inputs, r.outputs)
                 a == AddressRead(size, remaining)
      <4>1. size = r.output.address
        BY <3>3 DEF size
      <4>2. Read(p, r) = outs \o (head \o a)
        BY <2>1, <3>3, <4>1 DEF Read, OutputRead, remaining
      <4>3. Read(g, r) = outs \o (head \o (a \o Contents(n)))
        BY <2>1, <2>8, <3>3, <3>4, <4>1 DEF Read, OutputRead
      <4> HIDE DEF head, outs, a
      <4>4. head \in Seq(Byte) /\ outs \in Seq(Byte) /\ a \in Seq(Byte)
        BY <3>0, <3>1 DEF head, outs, a
      <4>5. Regroups(outs, head, a, Contents(n))
        BY <3>0, <4>4, Regrouped
      <4>6. outs \o (head \o (a \o Contents(n))) = (outs \o (head \o a)) \o Contents(n)
        BY <4>5 DEF Regroups
      <4> QED
        BY <4>2, <4>3, <4>6
    <3> QED
      BY <3>2, <3>3
  <2>10. AmountsRead(g, r)
    <3>1. AmountsRead(p, r)
      BY DEF At
    <3> QED
      BY <2>8, <3>1 DEF AmountsRead
  <2>11. AddressAhead(g, r, left \o rest)
    <3>1. ContentAhead(g, size, left \o rest)
      BY <2>4, <2>7, <2>8 DEF ContentAhead
    <3> QED
      BY <2>1, <2>8, <3>1 DEF AddressAhead, size
  <2>12. Started(g)
    <3>1. Started(p)
      BY DEF At
    <3> QED
      BY <2>8, <3>1 DEF Started
  <2>13. /\ q \in Parser /\ q.unread = left /\ q.bufferPos = g.bufferPos + n
         /\ Started(q) /\ Read(q, r) = Read(g, r) /\ AmountsRead(q, r)
         /\ AddressAhead(q, r, left \o rest)
    BY <2>4, <2>8, <2>10, <2>11, <2>12, ReadBehind
  <2> HIDE DEF q
  <2>14. bytes = Read(q, r) \o left
    <3>1. bytes = Read(p, r) \o u
      BY DEF At, u
    <3>2. Read(p, r) \in Seq(Byte) /\ Contents(n) \in Seq(Byte)
      BY <1>1, <2>4, ReadTypes, ContentBytes
    <3>3. (Read(p, r) \o Contents(n)) \o left = Read(p, r) \o (Contents(n) \o left)
      <4>1. Associates(Read(p, r), Contents(n), left)
        BY <2>4, <3>2, Associative
      <4> QED
        BY <4>1 DEF Associates
    <3> QED
      BY <2>5, <2>9, <2>13, <3>1, <3>3
  <2>15. q.bufferPos + Len(left) <= STREAM_BUFFER_SIZE
    <3>1. p.bufferPos + Len(u) <= STREAM_BUFFER_SIZE
      BY DEF At, u
    <3>2. Len(left) \in Nat
      BY <2>4, LenProperties
    <3> QED
      BY <1>1, <2>4, <2>8, <2>13, <3>1, <3>2
  <2>16. At(q, r, bytes, rest)
    BY <1>1, <2>4, <2>13, <2>14, <2>15 DEF At
  <2> QED
    BY <2>6, <2>16 DEF Outcome, GoesOn
<1> QED
  BY <1>2, <1>3

\* Of address data that is just begun nothing but its head has been read.
LEMMA NothingOfAddress ==
  \A n \in Nat : AddressRead(n, n) = Tag \o cbor_writeToken("BYTES", n)
<1> TAKE n \in Nat
<1> DEFINE head == Tag \o cbor_writeToken("BYTES", n)
<1>1. n - n = 0
  OBVIOUS
<1>2. Contents(0) = <<>>
  BY DEF Contents
<1>3. head \in Seq(Byte)
  <2>1. Tag \in Seq(Byte) /\ cbor_writeToken("BYTES", n) \in Seq(Byte)
    BY TokenTypesOf
  <2> QED
    BY <2>1, ConcatProperties
<1>4. head \o <<>> = head
  <2> HIDE DEF head
  <2> QED
    BY <1>3, ConcatEmptySeq
<1> QED
  BY <1>1, <1>2, <1>4 DEF AddressRead

\* A token of one value.
One(n, g) == [v \in {n} |-> g]

\* A parser that reads one token, whatever its value, follows the encoding if it
\* does so for each of the values the token can have.
LEMMA TakeOne ==
  ASSUME NEW p, NEW r, NEW bytes, NEW rest, At(p, r, bytes, rest),
         NEW type \in TokenTypes, NEW n \in Nat, NEW g, Follows(p, r, g, type, n)
  PROVE  Outcome(p, Take(p, type, One(n, g)), bytes, rest)
<1> DEFINE next == One(n, g)
<1>1. \A v \in DOMAIN next : v \in Nat => Follows(p, r, next[v], type, v)
  BY DEF One
<1> HIDE DEF next
<1>2. Outcome(p, Take(p, type, next), bytes, rest)
  BY <1>1, TakeStep
<1> QED
  BY <1>2 DEF next

\* The machine of an input has read a token more.
LEMMA InputFollows ==
  ASSUME NEW p, NEW r, NEW bytes, NEW rest, At(p, r, bytes, rest), p.mainState = "IN_INPUT",
         NEW g \in Parser, g.mainState = "IN_INPUT", g.inputState # "none",
         g.unread = p.unread, g.bufferPos = p.bufferPos,
         NEW type \in TokenTypes, NEW v \in Nat, NEW n \in Nat,
         InputRead(g, n) = InputRead(p, r.input) \o cbor_writeToken(type, v),
         g.inputState = "IN_ADDRESS_DATA" =>
           type = "BYTES" /\ g.addressDataRemainingBytes = v /\ v <= n
  PROVE  Follows(p, r, g, type, v)
<1> DEFINE s == [r EXCEPT !.input = n]
           ins == InputsRead(r.inputs)
           a == InputRead(p, r.input)
           token == cbor_writeToken(type, v)
<1>1. p \in Parser /\ r \in SoFar
  BY DEF At
<1>2. /\ s \in SoFar /\ s.inputs = r.inputs /\ s.outputs = r.outputs
      /\ s.input = n /\ s.output = r.output
  <2> HIDE DEF Output, InputLists, OutputLists
  <2> QED
    BY <1>1 DEF SoFar
<1> HIDE DEF s
<1>3. Read(p, r) = ins \o a
  BY DEF Read
<1>4. Read(g, s) = ins \o InputRead(g, n)
  BY <1>2 DEF Read
<1>5. Read(g, s) = Read(p, r) \o token
  <2>1. r.inputs \in InputLists /\ r.input \in Nat /\ r.outputs \in OutputLists
    BY <1>1 DEF SoFar
  <2>2. ins \in Seq(Byte) /\ a \in Seq(Byte) /\ token \in Seq(Byte)
    BY <1>1, <2>1, ListTypes, PartTypes, WrittenBytes
  <2>3. Associates(ins, a, token)
    <3> HIDE DEF ins, a, token
    <3> QED
      BY <2>2, Associative
  <2>4. ins \o (a \o token) = (ins \o a) \o token
    BY <2>3 DEF Associates
  <2> QED
    BY <1>3, <1>4, <2>4
<1>6. AmountsRead(g, s)
  BY DEF AmountsRead
<1>7. ASSUME NEW ahead,
             type = "BYTES" => \A j \in DOMAIN ahead : j <= v => ahead[j] = Content
      PROVE  AddressAhead(g, s, ahead)
  <2> HIDE DEF Content
  <2>1. g.inputState = "IN_ADDRESS_DATA" => ContentAhead(g, n, ahead)
    BY <1>7 DEF ContentAhead
  <2> QED
    BY <1>2, <2>1 DEF AddressAhead
<1>8. Started(g)
  BY DEF Started
<1> QED
  BY <1>2, <1>5, <1>6, <1>7, <1>8 DEF Follows

\* The next state of an input.
MovesInput(p, g, state) ==
  /\ g \in Parser
  /\ g.inputState = state
  /\ g.mainState = p.mainState
  /\ g.unread = p.unread
  /\ g.bufferPos = p.bufferPos

InputIn(p, state) == [p EXCEPT !.inputState = state]
InputAtAddress(p, n) == [InputIn(p, "IN_ADDRESS_DATA") EXCEPT !.addressDataRemainingBytes = n]

\* What the assignments of the inputs parser to its own state leave as it was.
LEMMA InputTo ==
  ASSUME NEW p \in Parser
  PROVE  /\ \A state \in InputStates : MovesInput(p, InputIn(p, state), state)
         /\ \A n \in Nat : /\ MovesInput(p, InputAtAddress(p, n), "IN_ADDRESS_DATA")
                          /\ InputAtAddress(p, n).addressDataRemainingBytes = n
<1>1. "IN_ADDRESS_DATA" \in InputStates
  BY DEF InputStates
<1> HIDE DEF MainStates, InputStates, OutputStates, Byte
<1>2. ASSUME NEW state \in InputStates
      PROVE  MovesInput(p, InputIn(p, state), state)
  BY DEF Parser, MovesInput, InputIn
<1>3. ASSUME NEW n \in Nat
      PROVE  /\ MovesInput(p, InputAtAddress(p, n), "IN_ADDRESS_DATA")
             /\ InputAtAddress(p, n).addressDataRemainingBytes = n
  BY <1>1 DEF Parser, MovesInput, InputAtAddress, InputIn
<1> QED
  BY <1>2, <1>3

\* A step of the machine of an input.
LEMMA InputStep ==
  ASSUME NEW p, NEW r, NEW bytes, NEW rest, At(p, r, bytes, rest),
         p.mainState = "IN_INPUT", p.inputState # "FINISHED"
  PROVE  Outcome(p, parser_advanceInputState(p), bytes, rest)
<1> DEFINE step == parser_advanceInputState(p)
<1> USE DEF InputStates, TokenTypes
<1>1. p \in Parser /\ r \in SoFar /\ r.input \in Nat /\ Started(p) /\ p.inputState \in InputStates
  <2>1. p \in Parser /\ r \in SoFar /\ Started(p)
    BY DEF At
  <2> QED
    BY <2>1 DEF SoFar, Parser
<1>2. p.inputState # "none"
  BY <1>1 DEF Started
<1>3. CASE p.inputState = "NOT_STARTED"
  <2> DEFINE g == InputIn(p, "EXPECT_PREAMBLE")
  <2>1. step = Goes(g)
    BY <1>3 DEF parser_advanceInputState, InputIn
  <2>2. /\ g \in Parser /\ g.inputState = "EXPECT_PREAMBLE" /\ g.mainState = "IN_INPUT"
        /\ g.unread = p.unread /\ g.bufferPos = p.bufferPos
    BY <1>1, InputTo DEF MovesInput
  <2> HIDE DEF g
  <2>3. Read(g, r) = Read(p, r)
    BY <1>3, <2>2 DEF Read, InputRead
  <2>4. AmountsRead(g, r) /\ \A ahead : AddressAhead(g, r, ahead)
    BY <2>2 DEF AmountsRead, AddressAhead
  <2>5. Stays(p, r, g)
    BY <1>1, <2>2, <2>3, <2>4 DEF Stays, Started
  <2> QED
    BY <2>1, <2>5, StayStep
<1>4. CASE p.inputState = "EXPECT_PREAMBLE"
  <2> DEFINE g == InputIn(p, "EXPECT_TYPE")
  <2>1. step = Take(p, "ARRAY", One(2, g))
    BY <1>4 DEF parser_advanceInputState, InputIn, One
  <2>2. /\ g \in Parser /\ g.inputState = "EXPECT_TYPE" /\ g.mainState = "IN_INPUT"
        /\ g.unread = p.unread /\ g.bufferPos = p.bufferPos
    BY <1>1, InputTo DEF MovesInput
  <2> HIDE DEF g
  <2>3. InputRead(g, r.input) = InputRead(p, r.input) \o cbor_writeToken("ARRAY", 2)
    <3>1. Array(2) \in Seq(Byte)
      BY TokenTypesOf
    <3>2. <<>> \o Array(2) = Array(2)
      BY <3>1, ConcatEmptySeq
    <3> QED
      BY <1>4, <2>2, <3>2 DEF InputRead, Array
  <2>4. Follows(p, r, g, "ARRAY", 2)
    BY <1>1, <2>2, <2>3, InputFollows
  <2> QED
    BY <2>1, <2>4, TakeOne
<1>5. CASE p.inputState = "EXPECT_TYPE"
  <2> DEFINE g == InputIn(p, "EXPECT_TAG")
  <2>1. step = Take(p, "UNSIGNED", One(0, g))
    BY <1>5 DEF parser_advanceInputState, InputIn, One
  <2>2. /\ g \in Parser /\ g.inputState = "EXPECT_TAG" /\ g.mainState = "IN_INPUT"
        /\ g.unread = p.unread /\ g.bufferPos = p.bufferPos
    BY <1>1, InputTo DEF MovesInput
  <2> HIDE DEF g
  <2>3. InputRead(g, r.input) = InputRead(p, r.input) \o cbor_writeToken("UNSIGNED", 0)
    BY <1>5, <2>2 DEF InputRead, Unsigned
  <2>4. Follows(p, r, g, "UNSIGNED", 0)
    BY <1>1, <2>2, <2>3, InputFollows
  <2> QED
    BY <2>1, <2>4, TakeOne
<1>6. CASE p.inputState = "EXPECT_TAG"
  <2> DEFINE g == InputIn(p, "EXPECT_ADDRESS_DATA_PREAMBLE")
  <2>1. step = Take(p, "TAG", One(CBOR_TAG_EMBEDDED_CBOR_BYTE_STRING, g))
    BY <1>6 DEF parser_advanceInputState, InputIn, One
  <2>2. /\ g \in Parser /\ g.inputState = "EXPECT_ADDRESS_DATA_PREAMBLE"
        /\ g.mainState = "IN_INPUT"
        /\ g.unread = p.unread /\ g.bufferPos = p.bufferPos
    BY <1>1, InputTo DEF MovesInput
  <2> HIDE DEF g
  <2>3. InputRead(g, r.input)
          = InputRead(p, r.input) \o cbor_writeToken("TAG", CBOR_TAG_EMBEDDED_CBOR_BYTE_STRING)
    BY <1>6, <2>2 DEF InputRead, Tag
  <2>4. Follows(p, r, g, "TAG", CBOR_TAG_EMBEDDED_CBOR_BYTE_STRING)
    <3>1. CBOR_TAG_EMBEDDED_CBOR_BYTE_STRING \in Nat
      BY DEF CBOR_TAG_EMBEDDED_CBOR_BYTE_STRING
    <3> QED
      BY <1>1, <2>2, <2>3, <3>1, InputFollows
  <2>5. CBOR_TAG_EMBEDDED_CBOR_BYTE_STRING \in Nat
    BY DEF CBOR_TAG_EMBEDDED_CBOR_BYTE_STRING
  <2> QED
    BY <2>1, <2>4, <2>5, TakeOne
<1>7. CASE p.inputState = "EXPECT_ADDRESS_DATA_PREAMBLE"
  <2> DEFINE next == [v \in Nat |-> InputAtAddress(p, v)]
  <2>1. step = Take(p, "BYTES", next)
    BY <1>7 DEF parser_advanceInputState, InputAtAddress, InputIn
  <2>2. ASSUME NEW v \in Nat
        PROVE  Follows(p, r, next[v], "BYTES", v)
    <3> DEFINE g == next[v]
    <3>1. /\ g \in Parser /\ g.inputState = "IN_ADDRESS_DATA"
          /\ g.mainState = "IN_INPUT"
          /\ g.unread = p.unread /\ g.bufferPos = p.bufferPos
          /\ g.addressDataRemainingBytes = v
      <4>1. g = InputAtAddress(p, v)
        OBVIOUS
      <4> DEFINE h == InputAtAddress(p, v)
      <4>2. MovesInput(p, h, "IN_ADDRESS_DATA") /\ h.addressDataRemainingBytes = v
        BY <1>1, InputTo
      <4>3. g = h
        BY <4>1
      <4> HIDE DEF g, h
      <4> QED
        BY <1>1, <4>2, <4>3 DEF MovesInput
    <3> HIDE DEF next
    <3>2. InputRead(g, v) = InputRead(p, r.input) \o cbor_writeToken("BYTES", v)
      <4> DEFINE head == Array(2) \o Unsigned(0)
      <4>1. AddressRead(v, v) = Tag \o cbor_writeToken("BYTES", v)
        BY NothingOfAddress
      <4>2. InputRead(g, v) = head \o AddressRead(v, v)
        BY <3>1 DEF InputRead
      <4>3. InputRead(p, r.input) = head \o Tag
        BY <1>7 DEF InputRead
      <4>4. head \in Seq(Byte) /\ Tag \in Seq(Byte) /\ cbor_writeToken("BYTES", v) \in Seq(Byte)
        <5>1. Array(2) \in Seq(Byte) /\ Unsigned(0) \in Seq(Byte)
          BY TokenTypesOf
        <5>2. head \in Seq(Byte)
          BY <5>1, ConcatProperties
        <5> QED
          BY <5>2, TokenTypesOf
      <4> HIDE DEF head
      <4>5. Associates(head, Tag, cbor_writeToken("BYTES", v))
        BY <4>4, Associative
      <4>6. head \o (Tag \o cbor_writeToken("BYTES", v)) = (head \o Tag) \o cbor_writeToken("BYTES", v)
        BY <4>5 DEF Associates
      <4> QED
        BY <4>1, <4>2, <4>3, <4>6
    <3>3. v <= v
      OBVIOUS
    <3> QED
      BY <1>1, <3>1, <3>2, <3>3, InputFollows
  <2>3. \A v \in DOMAIN next : v \in Nat => Follows(p, r, next[v], "BYTES", v)
    BY <2>2
  <2> HIDE DEF next
  <2> QED
    BY <2>1, <2>3, TakeStep
<1>8. CASE p.inputState = "IN_ADDRESS_DATA"
  <2>1. CASE p.addressDataRemainingBytes # 0
    <3>1. step = parser_skipThroughAddressBytes(p)
      BY <1>8, <2>1 DEF parser_advanceInputState, InputIn
    <3> QED
      BY <1>8, <2>1, <3>1, SkipStep
  <2>2. CASE p.addressDataRemainingBytes = 0
    <3> DEFINE g == InputIn(p, "FINISHED")
    <3>1. step = Goes(g)
      BY <1>8, <2>2 DEF parser_advanceInputState, InputIn
    <3>2. /\ g \in Parser /\ g.inputState = "FINISHED" /\ g.mainState = "IN_INPUT"
          /\ g.unread = p.unread /\ g.bufferPos = p.bufferPos
      BY <1>1, InputTo DEF MovesInput
    <3> HIDE DEF g
    <3>3. InputRead(g, r.input) = InputRead(p, r.input)
      <4>1. EncodeAddress(r.input) = AddressRead(r.input, 0)
        BY <1>1, AddressTypes
      <4>2. InputRead(p, r.input) = Array(2) \o Unsigned(0) \o EncodeAddress(r.input)
        BY <1>8, <2>2, <4>1 DEF InputRead
      <4>3. EncodeInput(r.input) = Array(2) \o Unsigned(0) \o EncodeAddress(r.input)
        BY DEF EncodeInput, Array, Unsigned
      <4> QED
        BY <3>2, <4>2, <4>3 DEF InputRead
    <3>4. Read(g, r) = Read(p, r)
      BY <3>2, <3>3 DEF Read
    <3>5. AmountsRead(g, r) /\ \A ahead : AddressAhead(g, r, ahead)
      BY <3>2 DEF AmountsRead, AddressAhead
    <3>6. Stays(p, r, g)
      BY <1>1, <3>2, <3>4, <3>5 DEF Stays, Started
    <3> QED
      BY <3>1, <3>6, StayStep
  <2> QED
    BY <2>1, <2>2
<1> QED
  BY <1>1, <1>2, <1>3, <1>4, <1>5, <1>6, <1>7, <1>8


\* What has been read with another output in the making.
WithOutput(r, o) == [r EXCEPT !.output = o]

\* A reading whose current output is replaced is a reading, alike in all else.
LEMMA WithOutputDef ==
  ASSUME NEW r \in SoFar, NEW o \in Output
  PROVE  /\ WithOutput(r, o) \in SoFar
         /\ WithOutput(r, o).inputs = r.inputs
         /\ WithOutput(r, o).outputs = r.outputs
         /\ WithOutput(r, o).output = o
<1> HIDE DEF Output, InputLists, OutputLists
<1> QED
  BY DEF SoFar, WithOutput

\* The next state of an output.
MovesOutput(p, g, state) ==
  /\ g \in Parser
  /\ g.outputState = state
  /\ g.mainState = p.mainState
  /\ g.unread = p.unread
  /\ g.bufferPos = p.bufferPos
  /\ g.currentOutputIndex = p.currentOutputIndex
  /\ g.attestedOutputIndex = p.attestedOutputIndex

OutputIn(p, state) == [p EXCEPT !.outputState = state]
OutputAtAddress(p, n) == [OutputIn(p, "IN_ADDRESS_DATA") EXCEPT !.addressDataRemainingBytes = n]
OutputAmounts(p, n) ==
  [OutputIn(p, "FINISHED") EXCEPT !.outputAmount = IF IsAttested(p) THEN n ELSE @]

\* What the assignments of the outputs parser to its own state leave as it was.
LEMMA OutputTo ==
  ASSUME NEW p \in Parser
  PROVE  /\ \A state \in OutputStates : /\ MovesOutput(p, OutputIn(p, state), state)
                                        /\ OutputIn(p, state).outputAmount = p.outputAmount
         /\ \A n \in Nat : /\ MovesOutput(p, OutputAtAddress(p, n), "IN_ADDRESS_DATA")
                           /\ OutputAtAddress(p, n).addressDataRemainingBytes = n
                           /\ OutputAtAddress(p, n).outputAmount = p.outputAmount
         /\ \A n \in Nat : /\ MovesOutput(p, OutputAmounts(p, n), "FINISHED")
                           /\ OutputAmounts(p, n).outputAmount
                                = IF IsAttested(p) THEN n ELSE p.outputAmount
<1>1. "IN_ADDRESS_DATA" \in OutputStates /\ "FINISHED" \in OutputStates
  BY DEF OutputStates
<1> HIDE DEF MainStates, InputStates, OutputStates, Byte
<1>2. ASSUME NEW state \in OutputStates
      PROVE  /\ MovesOutput(p, OutputIn(p, state), state)
             /\ OutputIn(p, state).outputAmount = p.outputAmount
  BY DEF Parser, MovesOutput, OutputIn
<1>3. ASSUME NEW n \in Nat
      PROVE  /\ MovesOutput(p, OutputAtAddress(p, n), "IN_ADDRESS_DATA")
             /\ OutputAtAddress(p, n).addressDataRemainingBytes = n
             /\ OutputAtAddress(p, n).outputAmount = p.outputAmount
  BY <1>1 DEF Parser, MovesOutput, OutputAtAddress, OutputIn
<1>4. ASSUME NEW n \in Nat
      PROVE  /\ MovesOutput(p, OutputAmounts(p, n), "FINISHED")
             /\ OutputAmounts(p, n).outputAmount = IF IsAttested(p) THEN n ELSE p.outputAmount
  <2> DEFINE amount == IF IsAttested(p) THEN n ELSE p.outputAmount
             g == [OutputIn(p, "FINISHED") EXCEPT !.outputAmount = amount]
  <2>1. amount \in Nat
    BY DEF Parser
  <2>2. OutputAmounts(p, n) = g
    BY DEF OutputAmounts, OutputIn, Parser
  <2> HIDE DEF amount
  <2>3. MovesOutput(p, g, "FINISHED") /\ g.outputAmount = amount
    BY <1>1, <2>1 DEF Parser, MovesOutput, OutputIn
  <2> HIDE DEF g
  <2> QED
    BY <2>2, <2>3 DEF amount
<1> QED
  BY <1>2, <1>3, <1>4

\* In the making of an output the amount of the one that is asked for is kept.
LEMMA AmountsKept ==
  ASSUME NEW p, NEW r \in SoFar, AmountsRead(p, r), p.mainState = "IN_OUTPUT",
         NEW g, NEW state, MovesOutput(p, g, state), state # "FINISHED",
         g.outputAmount = p.outputAmount, NEW o \in Output
  PROVE  AmountsRead(g, WithOutput(r, o))
<1>1. WithOutput(r, o).outputs = r.outputs
  BY WithOutputDef
<1> QED
  BY <1>1 DEF AmountsRead, MovesOutput

\* The machine of an output goes on in g, and the token makes it output o.
OutputTakes(p, r, g, state, type, v, o) ==
  /\ MovesOutput(p, g, state)
  /\ state # "none"
  /\ o \in Output
  /\ OutputRead(g, o) = OutputRead(p, r.output) \o cbor_writeToken(type, v)
  /\ AmountsRead(g, WithOutput(r, o))
  /\ state = "IN_ADDRESS_DATA" =>
       type = "BYTES" /\ g.addressDataRemainingBytes = v /\ v <= o.address

\* A token that takes the outputs parser on inside an output adds to the reading
\* exactly the bytes of that token.
LEMMA OutputFollows ==
  ASSUME NEW p, NEW r, NEW bytes, NEW rest, At(p, r, bytes, rest), p.mainState = "IN_OUTPUT",
         NEW g, NEW state, NEW type \in TokenTypes, NEW v \in Nat, NEW o,
         OutputTakes(p, r, g, state, type, v, o)
  PROVE  Follows(p, r, g, type, v)
<1> USE DEF OutputTakes
<1> DEFINE s == WithOutput(r, o)
           outs == OutputsRead(r.inputs, r.outputs)
           a == OutputRead(p, r.output)
           token == cbor_writeToken(type, v)
<1>1. p \in Parser /\ r \in SoFar
  BY DEF At
<1>2. s \in SoFar /\ s.inputs = r.inputs /\ s.outputs = r.outputs /\ s.output = o
  BY <1>1, WithOutputDef
<1> HIDE DEF s
<1>10. /\ g \in Parser /\ g.mainState = "IN_OUTPUT" /\ g.outputState = state
       /\ g.unread = p.unread /\ g.bufferPos = p.bufferPos
  BY DEF MovesOutput
<1>3. Read(p, r) = outs \o a
  BY DEF Read
<1>4. Read(g, s) = outs \o OutputRead(g, o)
  BY <1>2, <1>10 DEF Read
<1>5. Read(g, s) = Read(p, r) \o token
  <2>1. r.inputs \in InputLists /\ r.output \in Output /\ r.outputs \in OutputLists
    BY <1>1 DEF SoFar
  <2>2. outs \in Seq(Byte) /\ a \in Seq(Byte) /\ token \in Seq(Byte)
    BY <1>1, <2>1, ListTypes, PartTypes, WrittenBytes
  <2>3. Associates(outs, a, token)
    <3> HIDE DEF outs, a, token
    <3> QED
      BY <2>2, Associative
  <2>4. outs \o (a \o token) = (outs \o a) \o token
    BY <2>3 DEF Associates
  <2> QED
    BY <1>3, <1>4, <2>4
<1>6. AmountsRead(g, s)
  BY DEF s
<1>7. ASSUME NEW ahead,
             type = "BYTES" => \A j \in DOMAIN ahead : j <= v => ahead[j] = Content
      PROVE  AddressAhead(g, s, ahead)
  <2> HIDE DEF Content
  <2>1. state = "IN_ADDRESS_DATA" => ContentAhead(g, o.address, ahead)
    BY <1>7 DEF ContentAhead
  <2> QED
    BY <1>2, <1>10, <2>1 DEF AddressAhead
<1>8. Started(g)
  BY <1>10 DEF Started
<1> QED
  BY <1>2, <1>5, <1>6, <1>7, <1>8, <1>10 DEF Follows

\* A step of the machine of an output.
LEMMA OutputStep ==
  ASSUME NEW p, NEW r, NEW bytes, NEW rest, At(p, r, bytes, rest),
         p.mainState = "IN_OUTPUT", p.outputState # "FINISHED"
  PROVE  Outcome(p, parser_advanceOutputState(p), bytes, rest)
<1> DEFINE step == parser_advanceOutputState(p)
           addressed == (Array(2) \o Array(2)) \o EncodeAddress(r.output.address)
<1> USE DEF OutputStates, TokenTypes
<1>1. /\ p \in Parser /\ r \in SoFar /\ Started(p) /\ AmountsRead(p, r)
      /\ p.outputState \in OutputStates
      /\ r.output \in Output /\ r.output.address \in Nat
  <2>1. p \in Parser /\ r \in SoFar /\ Started(p) /\ AmountsRead(p, r)
    BY DEF At
  <2>2. r.output \in Output
    BY <2>1 DEF SoFar
  <2> QED
    BY <2>1, <2>2 DEF Output, Parser
<1>2. p.outputState # "none"
  BY <1>1 DEF Started
<1>3. CASE p.outputState = "NOT_STARTED"
  <2> DEFINE g == OutputIn(p, "EXPECT_PREAMBLE")
  <2>1. step = Goes(g)
    BY <1>3 DEF parser_advanceOutputState, OutputIn
  <2>2. MovesOutput(p, g, "EXPECT_PREAMBLE") /\ g.outputAmount = p.outputAmount
    BY <1>1, OutputTo
  <2>3. /\ g \in Parser /\ g.outputState = "EXPECT_PREAMBLE" /\ g.mainState = "IN_OUTPUT"
        /\ g.unread = p.unread /\ g.bufferPos = p.bufferPos
        /\ g.currentOutputIndex = p.currentOutputIndex
        /\ g.attestedOutputIndex = p.attestedOutputIndex
    BY <2>2 DEF MovesOutput
  <2> HIDE DEF g
  <2>4. Read(g, r) = Read(p, r)
    BY <1>3, <2>3 DEF Read, OutputRead
  <2>5. AmountsRead(g, r) /\ \A ahead : AddressAhead(g, r, ahead)
    BY <1>1, <2>2, <2>3 DEF AmountsRead, AddressAhead
  <2>6. Stays(p, r, g)
    BY <1>1, <2>3, <2>4, <2>5 DEF Stays, Started
  <2> QED
    BY <2>1, <2>6, StayStep
<1>4. CASE p.outputState = "EXPECT_PREAMBLE"
  <2> DEFINE g == OutputIn(p, "EXPECT_ADDRESS_PREAMBLE")
             o == r.output
  <2>1. step = Take(p, "ARRAY", One(2, g))
    BY <1>4 DEF parser_advanceOutputState, OutputIn, One
  <2>2. MovesOutput(p, g, "EXPECT_ADDRESS_PREAMBLE") /\ g.outputAmount = p.outputAmount
    BY <1>1, OutputTo
  <2> HIDE DEF g
  <2>3. g.outputState = "EXPECT_ADDRESS_PREAMBLE"
    BY <2>2 DEF MovesOutput
  <2>4. OutputRead(g, o) = OutputRead(p, o) \o cbor_writeToken("ARRAY", 2)
    <3>1. Array(2) \in Seq(Byte)
      BY TokenTypesOf
    <3>2. <<>> \o Array(2) = Array(2)
      BY <3>1, ConcatEmptySeq
    <3> QED
      BY <1>4, <2>3, <3>2 DEF OutputRead, Array
  <2>5. AmountsRead(g, WithOutput(r, o))
    BY <1>1, <2>2, AmountsKept
  <2>6. 2 \in Nat
    BY DEF CBOR_TAG_EMBEDDED_CBOR_BYTE_STRING
  <2>7. Follows(p, r, g, "ARRAY", 2)
    <3>1. "ARRAY" \in TokenTypes
      OBVIOUS
    <3>2. OutputTakes(p, r, g, g.outputState, "ARRAY", 2, o)
      BY <1>1, <2>2, <2>3, <2>4, <2>5 DEF OutputTakes
    <3> HIDE DEF TokenTypes, OutputStates, o
    <3> QED
      BY <2>6, <3>1, <3>2, OutputFollows
  <2> QED
    BY <2>1, <2>6, <2>7, TakeOne
<1>5. CASE p.outputState = "EXPECT_ADDRESS_PREAMBLE"
  <2> DEFINE g == OutputIn(p, "EXPECT_ADDRESS_TAG")
             o == r.output
  <2>1. step = Take(p, "ARRAY", One(2, g))
    BY <1>5 DEF parser_advanceOutputState, OutputIn, One
  <2>2. MovesOutput(p, g, "EXPECT_ADDRESS_TAG") /\ g.outputAmount = p.outputAmount
    BY <1>1, OutputTo
  <2> HIDE DEF g
  <2>3. g.outputState = "EXPECT_ADDRESS_TAG"
    BY <2>2 DEF MovesOutput
  <2>4. OutputRead(g, o) = OutputRead(p, o) \o cbor_writeToken("ARRAY", 2)
    BY <1>5, <2>3 DEF OutputRead, Array
  <2>5. AmountsRead(g, WithOutput(r, o))
    BY <1>1, <2>2, AmountsKept
  <2>6. 2 \in Nat
    BY DEF CBOR_TAG_EMBEDDED_CBOR_BYTE_STRING
  <2>7. Follows(p, r, g, "ARRAY", 2)
    <3>1. "ARRAY" \in TokenTypes
      OBVIOUS
    <3>2. OutputTakes(p, r, g, g.outputState, "ARRAY", 2, o)
      BY <1>1, <2>2, <2>3, <2>4, <2>5 DEF OutputTakes
    <3> HIDE DEF TokenTypes, OutputStates, o
    <3> QED
      BY <2>6, <3>1, <3>2, OutputFollows
  <2> QED
    BY <2>1, <2>6, <2>7, TakeOne
<1>6. CASE p.outputState = "EXPECT_ADDRESS_TAG"
  <2> DEFINE g == OutputIn(p, "EXPECT_ADDRESS_DATA_PREAMBLE")
             o == r.output
  <2>1. step = Take(p, "TAG", One(CBOR_TAG_EMBEDDED_CBOR_BYTE_STRING, g))
    BY <1>6 DEF parser_advanceOutputState, OutputIn, One
  <2>2. MovesOutput(p, g, "EXPECT_ADDRESS_DATA_PREAMBLE") /\ g.outputAmount = p.outputAmount
    BY <1>1, OutputTo
  <2> HIDE DEF g
  <2>3. g.outputState = "EXPECT_ADDRESS_DATA_PREAMBLE"
    BY <2>2 DEF MovesOutput
  <2>4. OutputRead(g, o) = OutputRead(p, o) \o cbor_writeToken("TAG", CBOR_TAG_EMBEDDED_CBOR_BYTE_STRING)
    BY <1>6, <2>3 DEF OutputRead, Tag
  <2>5. AmountsRead(g, WithOutput(r, o))
    BY <1>1, <2>2, AmountsKept
  <2>6. CBOR_TAG_EMBEDDED_CBOR_BYTE_STRING \in Nat
    BY DEF CBOR_TAG_EMBEDDED_CBOR_BYTE_STRING
  <2>7. Follows(p, r, g, "TAG", CBOR_TAG_EMBEDDED_CBOR_BYTE_STRING)
    <3>1. "TAG" \in TokenTypes
      OBVIOUS
    <3>2. OutputTakes(p, r, g, g.outputState, "TAG", CBOR_TAG_EMBEDDED_CBOR_BYTE_STRING, o)
      BY <1>1, <2>2, <2>3, <2>4, <2>5 DEF OutputTakes
    <3> HIDE DEF TokenTypes, OutputStates, o
    <3> QED
      BY <2>6, <3>1, <3>2, OutputFollows
  <2> QED
    BY <2>1, <2>6, <2>7, TakeOne
<1>7. CASE p.outputState = "EXPECT_ADDRESS_DATA_PREAMBLE"
  <2> DEFINE next == [v \in Nat |-> OutputAtAddress(p, v)]
  <2>1. step = Take(p, "BYTES", next)
    BY <1>7 DEF parser_advanceOutputState, OutputAtAddress, OutputIn
  <2>2. ASSUME NEW v \in Nat
        PROVE  Follows(p, r, next[v], "BYTES", v)
    <3> DEFINE g == next[v]
               o == [r.output EXCEPT !.address = v]
    <3>1. /\ MovesOutput(p, g, "IN_ADDRESS_DATA") /\ g.outputAmount = p.outputAmount
          /\ g.addressDataRemainingBytes = v
      BY <1>1, OutputTo
    <3> HIDE DEF next
    <3>2. g.outputState = "IN_ADDRESS_DATA"
      BY <3>1 DEF MovesOutput
    <3>3. o \in Output /\ o.address = v
      BY <1>1 DEF Output
    <3> HIDE DEF o
    <3>4. OutputRead(g, o) = OutputRead(p, r.output) \o cbor_writeToken("BYTES", v)
      <4> DEFINE head == Array(2) \o Array(2)
      <4>1. AddressRead(v, v) = Tag \o cbor_writeToken("BYTES", v)
        BY NothingOfAddress
      <4>2. OutputRead(g, o) = head \o AddressRead(v, v)
        BY <3>1, <3>2, <3>3 DEF OutputRead
      <4>3. OutputRead(p, r.output) = head \o Tag
        BY <1>7 DEF OutputRead
      <4>4. head \in Seq(Byte) /\ Tag \in Seq(Byte) /\ cbor_writeToken("BYTES", v) \in Seq(Byte)
        <5>1. Array(2) \in Seq(Byte)
          BY TokenTypesOf
        <5>2. head \in Seq(Byte)
          BY <5>1, ConcatProperties
        <5> QED
          BY <5>2, TokenTypesOf
      <4> HIDE DEF head
      <4>5. Associates(head, Tag, cbor_writeToken("BYTES", v))
        BY <4>4, Associative
      <4>6. head \o (Tag \o cbor_writeToken("BYTES", v)) = (head \o Tag) \o cbor_writeToken("BYTES", v)
        BY <4>5 DEF Associates
      <4> QED
        BY <4>1, <4>2, <4>3, <4>6
    <3>5. AmountsRead(g, WithOutput(r, o))
      BY <1>1, <3>1, <3>3, AmountsKept
    <3>6. v <= o.address
      BY <3>3
    <3>7. OutputTakes(p, r, g, "IN_ADDRESS_DATA", "BYTES", v, o)
      BY <3>1, <3>3, <3>4, <3>5, <3>6 DEF OutputTakes
    <3> QED
      BY <3>7, OutputFollows
  <2>3. \A v \in DOMAIN next : v \in Nat => Follows(p, r, next[v], "BYTES", v)
    BY <2>2
  <2> HIDE DEF next
  <2> QED
    BY <2>1, <2>3, TakeStep
<1>8. CASE p.outputState = "IN_ADDRESS_DATA"
  <2>1. CASE p.addressDataRemainingBytes # 0
    <3>1. step = parser_skipThroughAddressBytes(p)
      BY <1>8, <2>1 DEF parser_advanceOutputState
    <3> QED
      BY <1>8, <2>1, <3>1, SkipStep
  <2>2. CASE p.addressDataRemainingBytes = 0
    <3> DEFINE g == OutputIn(p, "EXPECT_ADDRESS_CHECKSUM")
    <3>1. step = Goes(g)
      BY <1>8, <2>2 DEF parser_advanceOutputState, OutputIn
    <3>2. MovesOutput(p, g, "EXPECT_ADDRESS_CHECKSUM") /\ g.outputAmount = p.outputAmount
      BY <1>1, OutputTo
    <3>3. /\ g \in Parser /\ g.outputState = "EXPECT_ADDRESS_CHECKSUM"
          /\ g.mainState = "IN_OUTPUT"
          /\ g.unread = p.unread /\ g.bufferPos = p.bufferPos
          /\ g.currentOutputIndex = p.currentOutputIndex
          /\ g.attestedOutputIndex = p.attestedOutputIndex
      BY <3>2 DEF MovesOutput
    <3> HIDE DEF g
    <3>4. OutputRead(g, r.output) = OutputRead(p, r.output)
      <4>1. EncodeAddress(r.output.address) = AddressRead(r.output.address, 0)
        BY <1>1, AddressTypes
      <4> QED
        BY <1>8, <2>2, <3>3, <4>1 DEF OutputRead
    <3>5. Read(g, r) = Read(p, r)
      BY <3>3, <3>4 DEF Read
    <3>6. AmountsRead(g, r) /\ \A ahead : AddressAhead(g, r, ahead)
      BY <1>1, <3>2, <3>3 DEF AmountsRead, AddressAhead
    <3>7. Stays(p, r, g)
      BY <1>1, <3>3, <3>5, <3>6 DEF Stays, Started
    <3> QED
      BY <3>1, <3>7, StayStep
  <2> QED
    BY <2>1, <2>2
<1>9. CASE p.outputState = "EXPECT_ADDRESS_CHECKSUM"
  <2> DEFINE g == OutputIn(p, "EXPECT_AMOUNT")
             next == [v \in Nat |-> g]
  <2>1. step = Take(p, "UNSIGNED", next)
    BY <1>9 DEF parser_advanceOutputState, OutputIn
  <2>2. ASSUME NEW v \in Nat
        PROVE  Follows(p, r, g, "UNSIGNED", v)
    <3> DEFINE o == [r.output EXCEPT !.checksum = v]
    <3>1. MovesOutput(p, g, "EXPECT_AMOUNT") /\ g.outputAmount = p.outputAmount
      BY <1>1, OutputTo
    <3> HIDE DEF g
    <3>2. g.outputState = "EXPECT_AMOUNT"
      BY <3>1 DEF MovesOutput
    <3>3. o \in Output /\ o.address = r.output.address /\ o.checksum = v
      BY <1>1 DEF Output
    <3> HIDE DEF o
    <3>4. OutputRead(g, o) = OutputRead(p, r.output) \o cbor_writeToken("UNSIGNED", v)
      BY <1>9, <3>2, <3>3 DEF OutputRead, Unsigned
    <3>5. AmountsRead(g, WithOutput(r, o))
      BY <1>1, <3>1, <3>3, AmountsKept
    <3>6. OutputTakes(p, r, g, "EXPECT_AMOUNT", "UNSIGNED", v, o)
      BY <3>1, <3>3, <3>4, <3>5 DEF OutputTakes
    <3> QED
      BY <3>6, OutputFollows
  <2>3. \A v \in DOMAIN next : v \in Nat => Follows(p, r, next[v], "UNSIGNED", v)
    BY <2>2
  <2> HIDE DEF next
  <2> QED
    BY <2>1, <2>3, TakeStep
<1>10. CASE p.outputState = "EXPECT_AMOUNT"
  <2> DEFINE next == [v \in Nat |-> OutputAmounts(p, v)]
  <2>1. step = Take(p, "UNSIGNED", next)
    BY <1>10 DEF parser_advanceOutputState, OutputAmounts, OutputIn
  <2>2. ASSUME NEW v \in Nat
        PROVE  Follows(p, r, next[v], "UNSIGNED", v)
    <3> DEFINE g == next[v]
               o == [r.output EXCEPT !.amount = v]
    <3>1. /\ MovesOutput(p, g, "FINISHED")
          /\ g.outputAmount = IF IsAttested(p) THEN v ELSE p.outputAmount
      BY <1>1, OutputTo
    <3> HIDE DEF next
    <3>2. g.outputState = "FINISHED"
      BY <3>1 DEF MovesOutput
    <3>3. o \in Output /\ o.address = r.output.address /\ o.checksum = r.output.checksum /\ o.amount = v
      BY <1>1 DEF Output
    <3> HIDE DEF o
    <3>4. OutputRead(g, o) = OutputRead(p, r.output) \o cbor_writeToken("UNSIGNED", v)
      <4>1. OutputRead(g, o) = EncodeOutput(o)
        BY <3>2 DEF OutputRead
      <4>2. OutputRead(p, r.output) = addressed \o Unsigned(r.output.checksum)
        BY <1>10 DEF OutputRead
      <4>3. EncodeOutput(o) = (addressed \o Unsigned(r.output.checksum)) \o Unsigned(v)
        <5>1. /\ Array(2) \in Seq(Byte) /\ EncodeAddress(r.output.address) \in Seq(Byte)
          BY <1>1, TokenTypesOf, AddressTypes
        <5>2. Array(2) \o (Array(2) \o EncodeAddress(r.output.address)) = addressed
          <6>1. Associates(Array(2), Array(2), EncodeAddress(r.output.address))
            BY <5>1, Associative
          <6> QED
            BY <6>1 DEF Associates
        <5> QED
          BY <3>3, <5>2 DEF EncodeOutput, Array, Unsigned
      <4> QED
        BY <4>1, <4>2, <4>3 DEF Unsigned
    <3>5. AmountsRead(g, WithOutput(r, o))
      <4> DEFINE s == WithOutput(r, o)
      <4>1. s.outputs = r.outputs /\ s.output = o
        BY <1>1, <3>3, WithOutputDef
      <4> HIDE DEF s
      <4>2. /\ g.mainState = "IN_OUTPUT"
            /\ g.currentOutputIndex = p.currentOutputIndex
            /\ g.attestedOutputIndex = p.attestedOutputIndex
        BY <3>1 DEF MovesOutput
      <4>3. /\ p.currentOutputIndex = Len(r.outputs)
            /\ p.attestedOutputIndex < Len(r.outputs) =>
                 p.outputAmount = r.outputs[p.attestedOutputIndex + 1].amount
        BY <1>1 DEF AmountsRead
      <4>4. p.currentOutputIndex \in Nat /\ p.attestedOutputIndex \in Nat
        BY <1>1 DEF Parser
      <4>5. IsAttested(p) <=> p.attestedOutputIndex = Len(r.outputs)
        BY <4>3 DEF IsAttested
      <4>6. p.attestedOutputIndex < Len(r.outputs) =>
              g.outputAmount = r.outputs[p.attestedOutputIndex + 1].amount
        BY <3>1, <4>3, <4>4, <4>5
      <4>7. p.attestedOutputIndex = Len(r.outputs) => g.outputAmount = o.amount
        BY <3>1, <3>3, <4>5
      <4> HIDE DEF g
      <4>8. AmountsRead(g, s)
        BY <4>1, <4>2, <4>3, <4>6, <4>7 DEF AmountsRead
      <4> QED
        BY <4>8 DEF s
    <3>6. OutputTakes(p, r, g, "FINISHED", "UNSIGNED", v, o)
      BY <3>1, <3>3, <3>4, <3>5 DEF OutputTakes
    <3> QED
      BY <3>6, OutputFollows
  <2>3. \A v \in DOMAIN next : v \in Nat => Follows(p, r, next[v], "UNSIGNED", v)
    BY <2>2
  <2> HIDE DEF next
  <2> QED
    BY <2>1, <2>3, TakeStep
<1> QED
  BY <1>1, <1>2, <1>3, <1>4, <1>5, <1>6, <1>7, <1>8, <1>9, <1>10


\* What has been read with other inputs, or other outputs.
WithInputs(r, inputs) == [r EXCEPT !.inputs = inputs]
WithOutputs(r, outputs) == [r EXCEPT !.outputs = outputs]

\* A reading whose lists of inputs or outputs are replaced is a reading, alike in
\* all else.
LEMMA WithElements ==
  ASSUME NEW r \in SoFar
  PROVE  /\ \A ins \in InputLists : /\ WithInputs(r, ins) \in SoFar
                                    /\ WithInputs(r, ins).inputs = ins
                                    /\ WithInputs(r, ins).outputs = r.outputs
         /\ \A outs \in OutputLists : /\ WithOutputs(r, outs) \in SoFar
                                      /\ WithOutputs(r, outs).inputs = r.inputs
                                      /\ WithOutputs(r, outs).outputs = outs
<1> HIDE DEF Output, InputLists, OutputLists
<1> QED
  BY DEF SoFar, WithInputs, WithOutputs

\* The next state of the main machine.
MovesMain(p, g, state) ==
  /\ g \in Parser
  /\ g.mainState = state
  /\ g.unread = p.unread
  /\ g.bufferPos = p.bufferPos
  /\ g.attestedOutputIndex = p.attestedOutputIndex
  /\ g.outputAmount = p.outputAmount

MainIn(p, state) == [p EXCEPT !.mainState = state]
IntoInput(p) == [MainIn(p, "IN_INPUT") EXCEPT !.inputState = "NOT_STARTED"]
IntoOutput(p) == [MainIn(p, "IN_OUTPUT") EXCEPT !.outputState = "NOT_STARTED"]
OutputsBegin(p) == [MainIn(p, "EXPECT_END_OR_OUTPUT") EXCEPT !.currentOutputIndex = 0]
OutputCounted(p) == [MainIn(p, "EXPECT_END_OR_OUTPUT") EXCEPT !.currentOutputIndex = @ + 1]

\* What the assignments of the main parser to its own state leave as it was.
LEMMA MainTo ==
  ASSUME NEW p \in Parser
  PROVE  /\ \A state \in MainStates :
              /\ MovesMain(p, MainIn(p, state), state)
              /\ MainIn(p, state).currentOutputIndex = p.currentOutputIndex
         /\ MovesMain(p, IntoInput(p), "IN_INPUT")
         /\ IntoInput(p).inputState = "NOT_STARTED"
         /\ MovesMain(p, IntoOutput(p), "IN_OUTPUT")
         /\ IntoOutput(p).outputState = "NOT_STARTED"
         /\ IntoOutput(p).currentOutputIndex = p.currentOutputIndex
         /\ MovesMain(p, OutputsBegin(p), "EXPECT_END_OR_OUTPUT")
         /\ OutputsBegin(p).currentOutputIndex = 0
         /\ MovesMain(p, OutputCounted(p), "EXPECT_END_OR_OUTPUT")
         /\ OutputCounted(p).currentOutputIndex = p.currentOutputIndex + 1
<1>1. /\ {"IN_INPUT", "IN_OUTPUT", "EXPECT_END_OR_OUTPUT"} \subseteq MainStates
      /\ "NOT_STARTED" \in InputStates /\ "NOT_STARTED" \in OutputStates
  BY DEF MainStates, InputStates, OutputStates
<1> HIDE DEF MainStates, InputStates, OutputStates, Byte
<1>2. ASSUME NEW state \in MainStates
      PROVE  /\ MovesMain(p, MainIn(p, state), state)
             /\ MainIn(p, state).currentOutputIndex = p.currentOutputIndex
  BY DEF Parser, MovesMain, MainIn
<1>3. /\ MovesMain(p, IntoInput(p), "IN_INPUT")
      /\ IntoInput(p).inputState = "NOT_STARTED"
  BY <1>1 DEF Parser, MovesMain, MainIn, IntoInput
<1>4. /\ MovesMain(p, IntoOutput(p), "IN_OUTPUT")
      /\ IntoOutput(p).outputState = "NOT_STARTED"
      /\ IntoOutput(p).currentOutputIndex = p.currentOutputIndex
  BY <1>1 DEF Parser, MovesMain, MainIn, IntoOutput
<1>5. /\ MovesMain(p, OutputsBegin(p), "EXPECT_END_OR_OUTPUT")
      /\ OutputsBegin(p).currentOutputIndex = 0
  BY <1>1 DEF Parser, MovesMain, MainIn, OutputsBegin
<1>6. /\ MovesMain(p, OutputCounted(p), "EXPECT_END_OR_OUTPUT")
      /\ OutputCounted(p).currentOutputIndex = p.currentOutputIndex + 1
  <2>1. p.currentOutputIndex + 1 \in Nat
    BY DEF Parser
  <2> QED
    BY <1>1, <2>1 DEF Parser, MovesMain, MainIn, OutputCounted
<1> QED
  BY <1>2, <1>3, <1>4, <1>5, <1>6

\* The main machine goes on in g, and with the token it has read s.
MainTakes(p, r, g, state, type, v, s) ==
  /\ MovesMain(p, g, state)
  /\ state \notin {"none", "IN_INPUT", "IN_OUTPUT"}
  /\ s \in SoFar
  /\ Read(g, s) = Read(p, r) \o cbor_writeToken(type, v)
  /\ AmountsRead(g, s)

\* A token that takes the main parser on adds to the reading exactly the bytes of
\* that token.
LEMMA MainFollows ==
  ASSUME NEW p, NEW r, NEW g, NEW state, NEW type, NEW v, NEW s,
         MainTakes(p, r, g, state, type, v, s)
  PROVE  Follows(p, r, g, type, v)
<1>1. /\ g \in Parser /\ g.mainState = state /\ g.unread = p.unread
      /\ g.bufferPos = p.bufferPos
      /\ state \notin {"none", "IN_INPUT", "IN_OUTPUT"}
  BY DEF MainTakes, MovesMain
<1>2. Started(g) /\ \A ahead : AddressAhead(g, s, ahead)
  BY <1>1 DEF Started, AddressAhead
<1>3. s \in SoFar /\ Read(g, s) = Read(p, r) \o cbor_writeToken(type, v) /\ AmountsRead(g, s)
  BY DEF MainTakes
<1> QED
  BY <1>1, <1>2, <1>3 DEF Follows

\* The end of an indefinite array, or another element of it.
LEMMA EndOrElementStep ==
  ASSUME NEW p, NEW r, NEW bytes, NEW rest, At(p, r, bytes, rest),
         NEW end, Follows(p, r, end, "INDEF_END", 0), NEW element, Stays(p, r, element)
  PROVE  Outcome(p, EndOrElement(p, end, element), bytes, rest)
<1> DEFINE u == p.unread
           error == cbor_parseError(u)
           step == EndOrElement(p, end, element)
<1>1. p \in Parser /\ u \in Seq(Byte) /\ rest \in Seq(Byte) /\ Coherent(u \o rest)
  BY DEF At, Parser
<1> HIDE DEF Content, Byte
<1>2. error \in {OK, ERR_NOT_ENOUGH_INPUT, ERR_UNEXPECTED_TOKEN}
  BY DEF cbor_parseError
<1>3. CASE error = ERR_NOT_ENOUGH_INPUT
  <2>1. step = Throws(p, ERR_NOT_ENOUGH_INPUT)
    BY <1>3 DEF EndOrElement, ERR_NOT_ENOUGH_INPUT, OK
  <2>2. Partial(u) /\ Len(u) <= MAX_WIDTH
    BY <1>1, <1>3, Incomplete
  <2> QED
    BY <2>1, <2>2 DEF Outcome, Waits
<1>4. CASE error = ERR_UNEXPECTED_TOKEN
  BY <1>4 DEF EndOrElement, ERR_UNEXPECTED_TOKEN, OK, Outcome, Refuses
<1>5. CASE error = OK
  <2>1. step = Take(p, "INDEF_END", One(0, end)) \/ step = Goes(element)
    BY <1>5 DEF EndOrElement, One
  <2>2. Outcome(p, Take(p, "INDEF_END", One(0, end)), bytes, rest)
    <3>1. "INDEF_END" \in TokenTypes /\ 0 \in Nat
      BY DEF TokenTypes
    <3> QED
      BY <3>1, TakeOne
  <2>3. Outcome(p, Goes(element), bytes, rest)
    BY StayStep
  <2> HIDE DEF step
  <2>4. CASE step = Take(p, "INDEF_END", One(0, end))
    BY <2>2, <2>4 DEF step
  <2>5. CASE step = Goes(element)
    BY <2>3, <2>5 DEF step
  <2> QED
    BY <2>1, <2>4, <2>5
<1> QED
  BY <1>2, <1>3, <1>4, <1>5

\* A step of the main machine.
LEMMA MainStep ==
  ASSUME NEW p, NEW r, NEW bytes, NEW rest, At(p, r, bytes, rest), p.mainState # "FINISHED"
  PROVE  Outcome(p, parser_advanceMainState(p), bytes, rest)
<1> DEFINE step == parser_advanceMainState(p)
<1>1. /\ p \in Parser /\ r \in SoFar /\ Started(p) /\ AmountsRead(p, r)
      /\ r.inputs \in InputLists /\ r.outputs \in OutputLists
      /\ r.input \in Nat /\ r.output \in Output
      /\ p.mainState \in MainStates
      /\ p.currentOutputIndex \in Nat /\ p.attestedOutputIndex \in Nat
  <2>1. p \in Parser /\ r \in SoFar /\ Started(p) /\ AmountsRead(p, r)
    BY DEF At
  <2> QED
    BY <2>1 DEF SoFar, Parser
<1>2. p.mainState # "none"
  BY <1>1 DEF Started
<1>12. /\ Array(3) \in Seq(Byte) /\ INDEF \in Seq(Byte) /\ END_INDEF \in Seq(Byte)
       /\ InputsRead(r.inputs) \in Seq(Byte)
       /\ InputsRead(r.inputs) \o END_INDEF \in Seq(Byte)
       /\ OutputsRead(r.inputs, r.outputs) \in Seq(Byte)
       /\ {"ARRAY", "ARRAY_INDEF", "INDEF_END", "MAP"} \subseteq TokenTypes
       /\ {0, 2, 3} \subseteq Nat
  <2>1. {"ARRAY", "ARRAY_INDEF", "INDEF_END", "MAP"} \subseteq TokenTypes /\ {0, 2, 3} \subseteq Nat
    BY DEF TokenTypes
  <2>2. Array(3) \in Seq(Byte) /\ INDEF \in Seq(Byte) /\ END_INDEF \in Seq(Byte)
    BY TokenTypesOf
  <2>3. /\ InputsRead(r.inputs) \in Seq(Byte)
        /\ InputsRead(r.inputs) \o END_INDEF \in Seq(Byte)
        /\ OutputsRead(r.inputs, r.outputs) \in Seq(Byte)
    BY <1>1, ListTypes
  <2> QED
    BY <2>1, <2>2, <2>3
<1>3. CASE p.mainState = "NOT_STARTED"
  <2> DEFINE g == MainIn(p, "EXPECT_TX_PREAMBLE")
  <2>1. step = Goes(g)
    BY <1>3 DEF parser_advanceMainState, MainIn
  <2>2. MovesMain(p, g, "EXPECT_TX_PREAMBLE")
    BY <1>1, MainTo DEF MainStates
  <2>3. /\ g \in Parser /\ g.mainState = "EXPECT_TX_PREAMBLE"
        /\ g.unread = p.unread /\ g.bufferPos = p.bufferPos
    BY <2>2 DEF MovesMain
  <2> HIDE DEF g
  <2>4. Read(g, r) = Read(p, r)
    BY <1>3, <2>3 DEF Read
  <2>5. AmountsRead(g, r) /\ \A ahead : AddressAhead(g, r, ahead)
    BY <2>3 DEF AmountsRead, AddressAhead
  <2>6. Stays(p, r, g)
    BY <1>1, <2>3, <2>4, <2>5 DEF Stays, Started
  <2> QED
    BY <2>1, <2>6, StayStep
<1>4. CASE p.mainState = "EXPECT_TX_PREAMBLE"
  <2> DEFINE g == MainIn(p, "EXPECT_INPUTS_PREAMBLE")
  <2>1. step = Take(p, "ARRAY", One(3, g))
    BY <1>4 DEF parser_advanceMainState, MainIn, One
  <2>2. MovesMain(p, g, "EXPECT_INPUTS_PREAMBLE")
    BY <1>1, MainTo DEF MainStates
  <2> HIDE DEF g
  <2>3. g.mainState = "EXPECT_INPUTS_PREAMBLE"
    BY <2>2 DEF MovesMain
  <2>4. Read(g, r) = Read(p, r) \o cbor_writeToken("ARRAY", 3)
    <3>1. <<>> \o Array(3) = Array(3)
      BY <1>12, ConcatEmptySeq
    <3> QED
      BY <1>4, <2>3, <3>1 DEF Read, Array
  <2>5. AmountsRead(g, r)
    BY <2>3 DEF AmountsRead
  <2>6. MainTakes(p, r, g, "EXPECT_INPUTS_PREAMBLE", "ARRAY", 3, r)
    BY <1>1, <2>2, <2>4, <2>5 DEF MainTakes
  <2>7. Follows(p, r, g, "ARRAY", 3)
    BY <2>6, MainFollows
  <2> QED
    BY <1>12, <2>1, <2>7, TakeOne
<1>5. CASE p.mainState = "EXPECT_INPUTS_PREAMBLE"
  <2> DEFINE g == MainIn(p, "EXPECT_END_OR_INPUT")
             s == WithInputs(r, <<>>)
  <2>1. step = Take(p, "ARRAY_INDEF", One(0, g))
    BY <1>5 DEF parser_advanceMainState, MainIn, One
  <2>2. MovesMain(p, g, "EXPECT_END_OR_INPUT")
    BY <1>1, MainTo DEF MainStates
  <2> HIDE DEF g
  <2>3. g.mainState = "EXPECT_END_OR_INPUT"
    BY <2>2 DEF MovesMain
  <2>4. s \in SoFar /\ s.inputs = <<>>
    BY <1>1, WithElements, NoElements
  <2> HIDE DEF s
  <2>5. Read(g, s) = Read(p, r) \o cbor_writeToken("ARRAY_INDEF", 0)
    <3>1. Array(3) \o INDEF \in Seq(Byte)
      BY <1>12, ConcatProperties
    <3>2. (Array(3) \o INDEF) \o <<>> = Array(3) \o INDEF
      BY <3>1, ConcatEmptySeq
    <3>3. EncodeAll(EncodeInput, <<>>) = <<>>
      BY NoElements
    <3>4. InputsRead(<<>>) = Array(3) \o INDEF
      BY <3>2, <3>3 DEF InputsRead
    <3>5. Read(g, s) = InputsRead(<<>>)
      BY <2>3, <2>4 DEF Read
    <3>6. Read(p, r) = Array(3)
      BY <1>5 DEF Read
    <3> QED
      BY <3>4, <3>5, <3>6 DEF INDEF
  <2>6. AmountsRead(g, s)
    BY <2>3 DEF AmountsRead
  <2>7. MainTakes(p, r, g, "EXPECT_END_OR_INPUT", "ARRAY_INDEF", 0, s)
    BY <2>2, <2>4, <2>5, <2>6 DEF MainTakes
  <2>8. Follows(p, r, g, "ARRAY_INDEF", 0)
    BY <2>7, MainFollows
  <2> QED
    BY <1>12, <2>1, <2>8, TakeOne
<1>6. CASE p.mainState = "EXPECT_END_OR_INPUT"
  <2> DEFINE end == MainIn(p, "EXPECT_OUTPUTS_PREAMBLE")
             g == IntoInput(p)
  <2>1. step = EndOrElement(p, end, g)
    BY <1>6 DEF parser_advanceMainState, MainIn, IntoInput
  <2>2. MovesMain(p, end, "EXPECT_OUTPUTS_PREAMBLE")
    BY <1>1, MainTo DEF MainStates
  <2>3. MovesMain(p, g, "IN_INPUT") /\ g.inputState = "NOT_STARTED"
    BY <1>1, MainTo
  <2> HIDE DEF g, end
  <2>4. Read(p, r) = InputsRead(r.inputs)
    BY <1>6 DEF Read
  <2>5. Follows(p, r, end, "INDEF_END", 0)
    <3>1. end.mainState = "EXPECT_OUTPUTS_PREAMBLE"
      BY <2>2 DEF MovesMain
    <3>2. Read(end, r) = Read(p, r) \o cbor_writeToken("INDEF_END", 0)
      BY <2>4, <3>1 DEF Read, END_INDEF
    <3>3. AmountsRead(end, r)
      BY <3>1 DEF AmountsRead
    <3>4. MainTakes(p, r, end, "EXPECT_OUTPUTS_PREAMBLE", "INDEF_END", 0, r)
      BY <1>1, <2>2, <3>2, <3>3 DEF MainTakes
    <3> QED
      BY <3>4, MainFollows
  <2>6. Stays(p, r, g)
    <3>1. g \in Parser /\ g.mainState = "IN_INPUT" /\ g.unread = p.unread /\ g.bufferPos = p.bufferPos
      BY <2>3 DEF MovesMain
    <3>2. Read(g, r) = Read(p, r)
      <4>1. InputRead(g, r.input) = <<>>
        BY <2>3 DEF InputRead
      <4>2. InputsRead(r.inputs) \o <<>> = InputsRead(r.inputs)
        BY <1>12, ConcatEmptySeq
      <4> QED
        BY <2>4, <3>1, <4>1, <4>2 DEF Read
    <3>3. AmountsRead(g, r) /\ \A ahead : AddressAhead(g, r, ahead)
      BY <2>3, <3>1 DEF AmountsRead, AddressAhead
    <3>4. Started(g)
      BY <2>3, <3>1 DEF Started
    <3> QED
      BY <1>1, <3>1, <3>2, <3>3, <3>4 DEF Stays
  <2> QED
    BY <2>1, <2>5, <2>6, EndOrElementStep
<1>7. CASE p.mainState = "IN_INPUT"
  <2>1. CASE p.inputState # "FINISHED"
    <3>1. step = parser_advanceInputState(p)
      BY <1>7, <2>1 DEF parser_advanceMainState
    <3> QED
      BY <1>7, <2>1, <3>1, InputStep
  <2>2. CASE p.inputState = "FINISHED"
    <3> DEFINE g == MainIn(p, "EXPECT_END_OR_INPUT")
               ins == Append(r.inputs, r.input)
               s == WithInputs(r, ins)
    <3>1. step = Goes(g)
      BY <1>7, <2>2 DEF parser_advanceMainState, MainIn
    <3>2. MovesMain(p, g, "EXPECT_END_OR_INPUT")
      BY <1>1, MainTo DEF MainStates
    <3>3. /\ g \in Parser /\ g.mainState = "EXPECT_END_OR_INPUT"
          /\ g.unread = p.unread /\ g.bufferPos = p.bufferPos
      BY <3>2 DEF MovesMain
    <3>4. ins \in InputLists
      BY <1>1, AppendProperties DEF InputLists
    <3>5. s \in SoFar /\ s.inputs = ins
      BY <1>1, <3>4, WithElements
    <3> HIDE DEF g, s
    <3>6. Read(g, s) = Read(p, r)
      <4> DEFINE a == Array(3) \o INDEF
                 b == EncodeAll(EncodeInput, r.inputs)
                 c == EncodeInput(r.input)
      <4>1. EncodeAll(EncodeInput, ins) = b \o c
        BY <1>1, AllInputs
      <4>2. a \in Seq(Byte) /\ b \in Seq(Byte) /\ c \in Seq(Byte)
        BY <1>1, <1>12, ConcatProperties, AllInputs, ElementTypes
      <4>3. InputsRead(r.inputs) = a \o b
        BY DEF InputsRead
      <4>4. InputsRead(ins) = a \o (b \o c)
        BY <4>1 DEF InputsRead
      <4>5. Read(g, s) = InputsRead(ins)
        BY <3>3, <3>5 DEF Read
      <4>6. Read(p, r) = InputsRead(r.inputs) \o c
        BY <1>7, <2>2 DEF Read, InputRead
      <4> HIDE DEF a, b, c, ins
      <4>7. Associates(a, b, c)
        BY <4>2, Associative
      <4>8. a \o (b \o c) = (a \o b) \o c
        BY <4>7 DEF Associates
      <4> QED
        BY <4>3, <4>4, <4>5, <4>6, <4>8
    <3>7. AmountsRead(g, s) /\ \A ahead : AddressAhead(g, s, ahead)
      BY <3>3 DEF AmountsRead, AddressAhead
    <3>8. Started(g)
      BY <3>3 DEF Started
    <3>9. Stays(p, r, g)
      BY <3>3, <3>5, <3>6, <3>7, <3>8 DEF Stays
    <3> QED
      BY <3>1, <3>9, StayStep
  <2> QED
    BY <2>1, <2>2
<1>8. CASE p.mainState = "EXPECT_OUTPUTS_PREAMBLE"
  <2> DEFINE g == OutputsBegin(p)
             s == WithOutputs(r, <<>>)
  <2>1. step = Take(p, "ARRAY_INDEF", One(0, g))
    BY <1>8 DEF parser_advanceMainState, MainIn, OutputsBegin, One
  <2>2. MovesMain(p, g, "EXPECT_END_OR_OUTPUT") /\ g.currentOutputIndex = 0
    BY <1>1, MainTo
  <2> HIDE DEF g
  <2>3. /\ g.mainState = "EXPECT_END_OR_OUTPUT"
        /\ g.attestedOutputIndex = p.attestedOutputIndex
    BY <2>2 DEF MovesMain
  <2>4. s \in SoFar /\ s.inputs = r.inputs /\ s.outputs = <<>>
    BY <1>1, WithElements, NoElements
  <2> HIDE DEF s
  <2>5. Read(g, s) = Read(p, r) \o cbor_writeToken("ARRAY_INDEF", 0)
    <3> DEFINE a == InputsRead(r.inputs) \o END_INDEF
    <3>1. a \o INDEF \in Seq(Byte)
      BY <1>12, ConcatProperties
    <3>2. (a \o INDEF) \o <<>> = a \o INDEF
      <4> HIDE DEF a
      <4> QED
        BY <3>1, ConcatEmptySeq
    <3>3. EncodeAll(EncodeOutput, <<>>) = <<>>
      BY NoElements
    <3>4. OutputsRead(r.inputs, <<>>) = a \o INDEF
      BY <3>2, <3>3 DEF OutputsRead
    <3>5. Read(g, s) = OutputsRead(r.inputs, <<>>)
      BY <2>3, <2>4 DEF Read
    <3>6. Read(p, r) = a
      BY <1>8 DEF Read
    <3> HIDE DEF a
    <3> QED
      BY <3>4, <3>5, <3>6 DEF INDEF
  <2>6. AmountsRead(g, s)
    <3>1. Len(<<>>) = 0
      OBVIOUS
    <3>2. ~(p.attestedOutputIndex < 0)
      BY <1>1
    <3> QED
      BY <2>2, <2>3, <2>4, <3>1, <3>2 DEF AmountsRead
  <2>7. MainTakes(p, r, g, "EXPECT_END_OR_OUTPUT", "ARRAY_INDEF", 0, s)
    BY <2>2, <2>4, <2>5, <2>6 DEF MainTakes
  <2>8. Follows(p, r, g, "ARRAY_INDEF", 0)
    BY <2>7, MainFollows
  <2> QED
    BY <1>12, <2>1, <2>8, TakeOne
<1>9. CASE p.mainState = "EXPECT_END_OR_OUTPUT"
  <2> DEFINE end == MainIn(p, "EXPECT_METADATA_PREAMBLE")
             g == IntoOutput(p)
             outs == OutputsRead(r.inputs, r.outputs)
  <2>1. step = EndOrElement(p, end, g)
    BY <1>9 DEF parser_advanceMainState, MainIn, IntoOutput
  <2>2. /\ MovesMain(p, end, "EXPECT_METADATA_PREAMBLE")
        /\ end.currentOutputIndex = p.currentOutputIndex
    BY <1>1, MainTo DEF MainStates
  <2>3. /\ MovesMain(p, g, "IN_OUTPUT") /\ g.outputState = "NOT_STARTED"
        /\ g.currentOutputIndex = p.currentOutputIndex
    BY <1>1, MainTo
  <2> HIDE DEF g, end
  <2>4. Read(p, r) = outs
    BY <1>9 DEF Read
  <2>5. /\ p.currentOutputIndex = Len(r.outputs)
        /\ p.attestedOutputIndex < Len(r.outputs) =>
             p.outputAmount = r.outputs[p.attestedOutputIndex + 1].amount
    BY <1>1, <1>9 DEF AmountsRead
  <2>6. Follows(p, r, end, "INDEF_END", 0)
    <3>1. /\ end.mainState = "EXPECT_METADATA_PREAMBLE"
          /\ end.attestedOutputIndex = p.attestedOutputIndex
          /\ end.outputAmount = p.outputAmount
      BY <2>2 DEF MovesMain
    <3>2. Read(end, r) = Read(p, r) \o cbor_writeToken("INDEF_END", 0)
      BY <2>4, <3>1 DEF Read, END_INDEF
    <3>3. AmountsRead(end, r)
      BY <2>2, <2>5, <3>1 DEF AmountsRead
    <3>4. MainTakes(p, r, end, "EXPECT_METADATA_PREAMBLE", "INDEF_END", 0, r)
      BY <1>1, <2>2, <3>2, <3>3 DEF MainTakes
    <3> QED
      BY <3>4, MainFollows
  <2>7. Stays(p, r, g)
    <3>1. /\ g \in Parser /\ g.mainState = "IN_OUTPUT" /\ g.unread = p.unread
          /\ g.bufferPos = p.bufferPos
          /\ g.attestedOutputIndex = p.attestedOutputIndex /\ g.outputAmount = p.outputAmount
      BY <2>3 DEF MovesMain
    <3>2. Read(g, r) = Read(p, r)
      <4>1. OutputRead(g, r.output) = <<>>
        BY <2>3 DEF OutputRead
      <4>2. outs \o <<>> = outs
        BY <1>12, ConcatEmptySeq
      <4> QED
        BY <2>4, <3>1, <4>1, <4>2 DEF Read
    <3>3. AmountsRead(g, r)
      BY <2>3, <2>5, <3>1 DEF AmountsRead
    <3>4. \A ahead : AddressAhead(g, r, ahead)
      BY <2>3, <3>1 DEF AddressAhead
    <3>5. Started(g)
      BY <2>3, <3>1 DEF Started
    <3> QED
      BY <1>1, <3>1, <3>2, <3>3, <3>4, <3>5 DEF Stays
  <2> QED
    BY <2>1, <2>6, <2>7, EndOrElementStep
<1>10. CASE p.mainState = "IN_OUTPUT"
  <2>1. CASE p.outputState # "FINISHED"
    <3>1. step = parser_advanceOutputState(p)
      BY <1>10, <2>1 DEF parser_advanceMainState
    <3> QED
      BY <1>10, <2>1, <3>1, OutputStep
  <2>2. CASE p.outputState = "FINISHED"
    <3> DEFINE g == OutputCounted(p)
               outs == Append(r.outputs, r.output)
               s == WithOutputs(r, outs)
    <3>1. step = Goes(g)
      BY <1>10, <2>2 DEF parser_advanceMainState, MainIn, OutputCounted
    <3>2. MovesMain(p, g, "EXPECT_END_OR_OUTPUT") /\ g.currentOutputIndex = p.currentOutputIndex + 1
      BY <1>1, MainTo
    <3>3. /\ g \in Parser /\ g.mainState = "EXPECT_END_OR_OUTPUT"
          /\ g.unread = p.unread /\ g.bufferPos = p.bufferPos
          /\ g.attestedOutputIndex = p.attestedOutputIndex /\ g.outputAmount = p.outputAmount
      BY <3>2 DEF MovesMain
    <3>4. /\ outs \in OutputLists /\ Len(outs) = Len(r.outputs) + 1
          /\ \A i \in 1 .. Len(r.outputs) : outs[i] = r.outputs[i]
          /\ outs[Len(r.outputs) + 1] = r.output
          /\ Len(r.outputs) \in Nat
      BY <1>1, AppendProperties, LenProperties DEF OutputLists
    <3>5. s \in SoFar /\ s.inputs = r.inputs /\ s.outputs = outs
      BY <1>1, <3>4, WithElements
    <3> HIDE DEF g, s
    <3>6. Read(g, s) = Read(p, r)
      <4> DEFINE a == InputsRead(r.inputs) \o END_INDEF \o INDEF
                 b == EncodeAll(EncodeOutput, r.outputs)
                 c == EncodeOutput(r.output)
      <4>1. EncodeAll(EncodeOutput, outs) = b \o c
        BY <1>1, AllOutputs
      <4>2. a \in Seq(Byte) /\ b \in Seq(Byte) /\ c \in Seq(Byte)
        BY <1>1, <1>12, ConcatProperties, AllOutputs, ElementTypes
      <4>3. OutputsRead(r.inputs, r.outputs) = a \o b
        BY DEF OutputsRead
      <4>4. OutputsRead(r.inputs, outs) = a \o (b \o c)
        BY <4>1 DEF OutputsRead
      <4>5. Read(g, s) = OutputsRead(r.inputs, outs)
        BY <3>3, <3>5 DEF Read
      <4>6. Read(p, r) = OutputsRead(r.inputs, r.outputs) \o c
        BY <1>10, <2>2 DEF Read, OutputRead
      <4> HIDE DEF a, b, c, outs
      <4>7. Associates(a, b, c)
        BY <4>2, Associative
      <4>8. a \o (b \o c) = (a \o b) \o c
        BY <4>7 DEF Associates
      <4> QED
        BY <4>3, <4>4, <4>5, <4>6, <4>8
    <3>7. AmountsRead(g, s)
      <4>1. /\ p.currentOutputIndex = Len(r.outputs)
            /\ p.attestedOutputIndex < Len(r.outputs) =>
                 p.outputAmount = r.outputs[p.attestedOutputIndex + 1].amount
            /\ p.attestedOutputIndex = Len(r.outputs) => p.outputAmount = r.output.amount
        BY <1>1, <1>10, <2>2 DEF AmountsRead
      <4> HIDE DEF outs
      <4>2. g.currentOutputIndex = Len(outs)
        BY <3>2, <3>4, <4>1
      <4>3. ASSUME p.attestedOutputIndex < Len(outs)
            PROVE  p.outputAmount = outs[p.attestedOutputIndex + 1].amount
        <5>1. CASE p.attestedOutputIndex = Len(r.outputs)
          BY <3>4, <4>1, <5>1
        <5>2. CASE p.attestedOutputIndex # Len(r.outputs)
          <6>1. p.attestedOutputIndex < Len(r.outputs) /\ p.attestedOutputIndex + 1 \in 1 .. Len(r.outputs)
            BY <1>1, <3>4, <4>3, <5>2
          <6> QED
            BY <3>4, <4>1, <6>1
        <5> QED
          BY <5>1, <5>2
      <4> QED
        BY <3>3, <3>5, <4>2, <4>3 DEF AmountsRead
    <3>8. Started(g) /\ \A ahead : AddressAhead(g, s, ahead)
      BY <3>3 DEF Started, AddressAhead
    <3>9. Stays(p, r, g)
      BY <3>3, <3>5, <3>6, <3>7, <3>8 DEF Stays
    <3> QED
      BY <3>1, <3>9, StayStep
  <2> QED
    BY <2>1, <2>2
<1>11. CASE p.mainState = "EXPECT_METADATA_PREAMBLE"
  <2> DEFINE g == MainIn(p, "FINISHED")
  <2>1. step = Take(p, "MAP", One(0, g))
    BY <1>11 DEF parser_advanceMainState, MainIn, One
  <2>2. MovesMain(p, g, "FINISHED") /\ g.currentOutputIndex = p.currentOutputIndex
    BY <1>1, MainTo DEF MainStates
  <2> HIDE DEF g
  <2>3. /\ g.mainState = "FINISHED" /\ g.attestedOutputIndex = p.attestedOutputIndex
        /\ g.outputAmount = p.outputAmount
    BY <2>2 DEF MovesMain
  <2>4. Read(g, r) = Read(p, r) \o cbor_writeToken("MAP", 0)
    <3>1. Read(p, r) = OutputsRead(r.inputs, r.outputs) \o END_INDEF
      BY <1>11 DEF Read
    <3>2. Read(g, r) = EncodeTx([inputs |-> r.inputs, outputs |-> r.outputs])
      BY <2>3 DEF Read
    <3> QED
      BY <3>1, <3>2, WholeTx
  <2>5. AmountsRead(g, r)
    <3>1. /\ p.currentOutputIndex = Len(r.outputs)
          /\ p.attestedOutputIndex < Len(r.outputs) =>
               p.outputAmount = r.outputs[p.attestedOutputIndex + 1].amount
      BY <1>1, <1>11 DEF AmountsRead
    <3> QED
      BY <2>2, <2>3, <3>1 DEF AmountsRead
  <2>6. MainTakes(p, r, g, "FINISHED", "MAP", 0, r)
    BY <1>1, <2>2, <2>4, <2>5 DEF MainTakes
  <2>7. Follows(p, r, g, "MAP", 0)
    BY <2>6, MainFollows
  <2> QED
    BY <1>12, <2>1, <2>7, TakeOne
<1> QED
  BY <1>1, <1>2, <1>3, <1>4, <1>5, <1>6, <1>7, <1>8, <1>9, <1>10, <1>11 DEF MainStates

-----------------------------------------------------------------------------
(***************************************************************************)
(* The steps of the instruction.                                           *)
(***************************************************************************)

\* Codes of answers.
LEMMA Codes ==
  /\ SUCCESS # NoCode
  /\ \A e \in AutoRespond : e # NoCode
  /\ {ERR_INVALID_STATE, ERR_INVALID_DATA, ERR_INVALID_REQUEST_PARAMETERS} \subseteq AutoRespond
  /\ MainLoopErrors \subseteq AutoRespond
<1>1. SUCCESS # NoCode /\ \A e \in AutoRespond : e # NoCode
  BY DEF SUCCESS, NoCode, AutoRespond, ERR_MALFORMED_REQUEST_HEADER, ERR_BAD_CLA,
         ERR_UNKNOWN_INS, ERR_STILL_IN_CALL, ERR_INVALID_REQUEST_PARAMETERS,
         ERR_INVALID_STATE, ERR_INVALID_DATA, ERR_REJECTED_BY_USER,
         ERR_REJECTED_BY_POLICY, ERR_DEVICE_LOCKED
<1> QED
  BY <1>1 DEF AutoRespond, MainLoopErrors

\* Between calls and in one the screen has no button to press.
LEMMA Displays ==
  \A d \in {Menu, BusyScreen} : [d EXCEPT !.run = TRUE] = d
  BY DEF Menu, BusyScreen, Screen, Says

\* In a call the parser has read what has been hashed, up to what it has not read.
LEMMA InCallAt ==
  ASSUME TypeOK, ParserInv, InCall
  PROVE  \E r : At(parser, r, hashed, toSend)
<1>1. PICK r \in SoFar :
        /\ hashed = Read(parser, r) \o parser.unread
        /\ AmountsRead(parser, r)
        /\ AddressAhead(parser, r, parser.unread \o toSend)
  BY DEF ParserInv, HasRead
<1>2. /\ parser \in Parser /\ parser.bufferPos + Len(parser.unread) <= STREAM_BUFFER_SIZE
      /\ toSend \in Seq(Byte)
  BY DEF TypeOK
<1>3. Started(parser) /\ Coherent(parser.unread \o toSend)
  BY DEF ParserInv
<1>4. At(parser, r, hashed, toSend)
  BY <1>1, <1>2, <1>3 DEF At
<1> QED
  BY <1>4

\* And so it has if it has been shown to.
LEMMA AtParserInv ==
  ASSUME NEW r, At(parser, r, hashed, toSend)', (hashed \o toSend \in Streams)'
  PROVE  ParserInv'
  BY DEF At, ParserInv, HasRead

\* The application answers and the call is over.
LEMMA AnswerEndsCall ==
  ASSUME Inv, NEW e \in AutoRespond, NEW ins \in {INS_NONE, ATTEST_UTXO},
         Respond(ins, e, NoData, "idle"),
         parser' \in Parser, (parser.bufferPos + Len(parser.unread) <= STREAM_BUFFER_SIZE)',
         magic' \in BOOLEAN, hashed' \in Seq(Byte), toSend' \in Seq(Byte), parsing' = FALSE
  PROVE  Inv'
<1>1. /\ crashed' = crashed /\ locked' = locked /\ awaiting' = TRUE
      /\ ioState' = IoStateInside /\ currentInstruction' = ins
      /\ reply' = [code |-> e, data |-> NoData, then |-> "idle"]
      /\ display' = [display EXCEPT !.run = TRUE]
  BY DEF Respond
<1>2. reply'.code = e /\ reply'.data = NoData /\ reply'.then = "idle" /\ e # NoCode
  BY <1>1, Codes
<1>3. TypeOK'
  <2>1. ioState' \in {"IO", "NONE"}
    BY <1>1 DEF Inv, TypeOK, IoStateInside
  <2>2. display' \in {Menu, BusyScreen}
    BY <1>1, Displays DEF Inv, TypeOK
  <2>3. reply' \in [code: {NoCode, SUCCESS} \cup AutoRespond, data: {NoData} \cup CertificateData,
                    then: {"none", "idle", "busy", "nothing"}]
    <3> HIDE DEF AutoRespond, CertificateData
    <3> QED
      BY <1>1
  <2>4. crashed' \in {NotCrashed} \cup HostCrashes \cup InternalCrashes /\ locked' \in BOOLEAN
    BY <1>1 DEF Inv, TypeOK
  <2> QED
    BY <1>1, <2>1, <2>2, <2>3, <2>4 DEF TypeOK
<1>4. ControlInv'
  BY <1>1, <1>2 DEF Inv, ControlInv, On, Sending, InCall
<1>5. ParserInv' /\ LeftoverIsPartialToken'
  BY <1>2 DEF ParserInv, InCall, LeftoverIsPartialToken
<1>6. CertificateInv'
  <2>1. reply'.data.kind # "certificate"
    BY <1>2 DEF NoData
  <2> QED
    BY <2>1 DEF CertificateInv
<1> QED
  BY <1>3, <1>4, <1>5, <1>6 DEF Inv

\* A parser that has nothing.
LEMMA EmptyParsers ==
  /\ ZeroParser \in Parser /\ ZeroParser.unread = <<>> /\ ZeroParser.bufferPos = 0
  /\ \A i \in Nat : /\ parser_init(i) \in Parser
                    /\ parser_init(i).unread = <<>> /\ parser_init(i).bufferPos = 0
                    /\ parser_init(i).mainState = "NOT_STARTED"
<1>1. ZeroParser \in Parser
  <2>1. <<>> \in Seq(Byte)
    BY EmptySeq
  <2> HIDE DEF Byte
  <2> QED
    BY <2>1 DEF ZeroParser, Parser, MainStates, InputStates, OutputStates
<1>2. ASSUME NEW i \in Nat
      PROVE  /\ parser_init(i) \in Parser
             /\ parser_init(i).unread = <<>> /\ parser_init(i).bufferPos = 0
             /\ parser_init(i).mainState = "NOT_STARTED"
  <2>1. <<>> \in Seq(Byte) /\ LOVELACE_INVALID \in Nat
    BY EmptySeq, ParserAssumption DEF LOVELACE_INVALID
  <2> HIDE DEF Byte
  <2> QED
    BY <2>1 DEF parser_init, ZeroParser, Parser, MainStates, InputStates, OutputStates
<1> QED
  BY <1>1, <1>2 DEF ZeroParser

\* An APDU is refused.
LEMMA RefusedInv ==
  ASSUME Inv, NEW e \in AutoRespond, ~parsing, Refused(e)
  PROVE  Inv'
<1>1. Respond(ATTEST_UTXO, e, NoData, "idle") /\ parsing' = parsing /\ toSend' = toSend
  BY DEF Refused, Throw
<1>2. /\ parser' \in Parser /\ (parser.bufferPos + Len(parser.unread) <= STREAM_BUFFER_SIZE)'
      /\ magic' \in BOOLEAN /\ hashed' \in Seq(Byte)
  <2>1. CASE IsNewCall
    <3>1. parser' = ZeroParser /\ magic' = FALSE /\ hashed' = <<>>
      BY <2>1 DEF Refused, CallContext
    <3>2. parser'.bufferPos + Len(parser'.unread) <= STREAM_BUFFER_SIZE
      BY <3>1, EmptyParsers, ParserAssumption
    <3> QED
      BY <3>1, <3>2, EmptyParsers, EmptySeq
  <2>2. CASE ~IsNewCall
    BY <2>2 DEF Refused, CallContext, Inv, TypeOK
  <2> QED
    BY <2>1, <2>2
<1>3. toSend' \in Seq(Byte) /\ parsing' = FALSE
  BY <1>1 DEF Inv, TypeOK
<1> QED
  BY <1>1, <1>2, <1>3, AnswerEndsCall

\* P1 = 1.
LEMMA HandleInitInv ==
  ASSUME Inv, NEW p2 \in {0, 1}, NEW sizeOk \in BOOLEAN, NEW i \in Indexes, NEW s \in Streams,
         HandleInit(p2, sizeOk, i, s)
  PROVE  Inv'
<1> DEFINE error == InitError(p2, sizeOk)
<1>1. ~parsing /\ Accepts(ATTEST_UTXO)
  BY DEF HandleInit
<1>2. i \in Nat /\ s \in Seq(Byte) /\ Coherent(s)
  BY ChunksAssumption
<1>3. CASE ~IsNewCall
  <2>1. Refused(ERR_INVALID_STATE) /\ ERR_INVALID_STATE \in AutoRespond
    BY <1>3, Codes DEF HandleInit
  <2> QED
    BY <1>1, <2>1, RefusedInv
<1>4. CASE IsNewCall /\ error # OK
  <2>1. /\ parser' = ZeroParser /\ magic' = FALSE /\ hashed' = <<>> /\ toSend' = s
        /\ parsing' = FALSE /\ Throw(ATTEST_UTXO, error)
    BY <1>4 DEF HandleInit
  <2>2. error \in AutoRespond
    BY <1>4, Codes DEF InitError
  <2> HIDE DEF error
  <2>3. Respond(ATTEST_UTXO, error, NoData, "idle")
    BY <2>1, <2>2 DEF Throw
  <2>4. parser' \in Parser /\ (parser.bufferPos + Len(parser.unread) <= STREAM_BUFFER_SIZE)'
    BY <2>1, EmptyParsers, ParserAssumption, EmptySeq
  <2>5. hashed' \in Seq(Byte) /\ toSend' \in Seq(Byte) /\ magic' \in BOOLEAN
    BY <1>2, <2>1, EmptySeq
  <2> QED
    BY <2>1, <2>2, <2>3, <2>4, <2>5, AnswerEndsCall
<1>5. CASE IsNewCall /\ error = OK
  <2>1. /\ parser' = parser_init(i) /\ magic' = TRUE /\ hashed' = <<>> /\ toSend' = s
        /\ parsing' = FALSE /\ Respond(ATTEST_UTXO, SUCCESS, NoData, "busy")
    BY <1>5 DEF HandleInit
  <2>2. /\ crashed' = crashed /\ locked' = locked /\ awaiting' = TRUE
        /\ ioState' = IoStateInside /\ currentInstruction' = ATTEST_UTXO
        /\ reply' = [code |-> SUCCESS, data |-> NoData, then |-> "busy"]
        /\ display' = [display EXCEPT !.run = TRUE]
    BY <2>1 DEF Respond
  <2>3. /\ parser' \in Parser /\ parser'.unread = <<>> /\ parser'.bufferPos = 0
        /\ parser'.mainState = "NOT_STARTED"
    BY <1>2, <2>1, EmptyParsers
  <2>4. (parser.bufferPos + Len(parser.unread) <= STREAM_BUFFER_SIZE)'
    BY <2>3, ParserAssumption
  <2>5. reply'.code = SUCCESS /\ reply'.data = NoData /\ reply'.then = "busy" /\ SUCCESS # NoCode
    BY <2>2, Codes
  <2>6. TypeOK'
    <3>1. ioState' \in {"IO", "NONE"}
      BY <2>2 DEF Inv, TypeOK, IoStateInside
    <3>2. display' \in {Menu, BusyScreen}
      BY <2>2, Displays DEF Inv, TypeOK
    <3>3. reply' \in [code: {NoCode, SUCCESS} \cup AutoRespond,
                      data: {NoData} \cup CertificateData,
                      then: {"none", "idle", "busy", "nothing"}]
      <4> HIDE DEF AutoRespond, CertificateData
      <4> QED
        BY <2>2
    <3>4. crashed' \in {NotCrashed} \cup HostCrashes \cup InternalCrashes /\ locked' \in BOOLEAN
      BY <2>2 DEF Inv, TypeOK
    <3>5. hashed' \in Seq(Byte) /\ toSend' \in Seq(Byte)
      BY <1>2, <2>1, EmptySeq
    <3> QED
      BY <2>1, <2>2, <2>3, <2>4, <3>1, <3>2, <3>3, <3>4, <3>5 DEF TypeOK
  <2>7. ControlInv'
    BY <2>1, <2>2, <2>3, <2>5 DEF Inv, ControlInv, On, Sending, InCall
  <2>8. ParserInv'
    <3> DEFINE r == [inputs |-> <<>>, outputs |-> <<>>, input |-> 0,
                     output |-> [address |-> 0, checksum |-> 0, amount |-> 0]]
    <3>1. r \in SoFar
      BY NoElements DEF SoFar, Output
    <3> HIDE DEF r
    <3>2. <<>> \o s = s /\ <<>> \o <<>> = <<>>
      BY <1>2, ConcatEmptySeq
    <3>3. Read(parser', r) = <<>>
      BY <2>3 DEF Read
    <3>4. AmountsRead(parser', r) /\ AddressAhead(parser', r, s) /\ Started(parser')
      BY <2>3 DEF AmountsRead, AddressAhead, Started
    <3>5. At(parser', r, <<>>, s)
      BY <1>2, <2>1, <2>3, <2>4, <3>1, <3>2, <3>3, <3>4 DEF At
    <3> QED
      BY <2>1, <3>2, <3>5, AtParserInv
  <2>9. LeftoverIsPartialToken' /\ CertificateInv'
    <3>1. reply'.data.kind # "certificate"
      BY <2>5 DEF NoData
    <3> QED
      BY <2>3, <3>1 DEF LeftoverIsPartialToken, CertificateInv
  <2> QED
    BY <2>6, <2>7, <2>8, <2>9 DEF Inv
<1> QED
  BY <1>3, <1>4, <1>5

\* In a call that waits for an APDU the handler has left less than a token.
LEMMA LeftoverFits ==
  ASSUME Inv, Accepts(ATTEST_UTXO), ~parsing, ~IsNewCall
  PROVE  /\ InCall
         /\ magic
         /\ parser.mainState # "FINISHED"
         /\ Len(parser.unread) <= MAX_WIDTH
<1>1. currentInstruction = ATTEST_UTXO /\ ~Sending /\ On
  BY DEF Accepts, IsNewCall
<1>2. reply.then = "none"
  BY <1>1 DEF Inv, ControlInv, NoReply
<1>3. InCall /\ magic /\ parser.mainState # "FINISHED"
  BY <1>1, <1>2 DEF InCall, Inv, ControlInv
<1>4. /\ parser \in Parser /\ parser.unread \in Seq(Byte)
  BY DEF Inv, TypeOK, Parser
<1>5. CASE parser.unread = <<>>
  <2>1. Len(parser.unread) = 0
    BY <1>5
  <2> QED
    BY <1>3, <2>1 DEF MAX_WIDTH
<1>6. CASE parser.unread # <<>>
  <2> DEFINE t == parser.unread[1].token
  <2>1. IsStrictPrefix(parser.unread, BytesOf(t))
    BY <1>1, <1>2, <1>6 DEF Inv, LeftoverIsPartialToken
  <2>2. t \in Token
    BY <1>4, <1>6, EmptySeq, ElementOfSeq, ByteTypes
  <2> HIDE DEF t
  <2>3. /\ Len(parser.unread) <= Len(BytesOf(t))
        /\ SubSeq(parser.unread, 1, Len(parser.unread)) = SubSeq(BytesOf(t), 1, Len(parser.unread))
        /\ parser.unread # BytesOf(t)
    BY <2>1 DEF IsStrictPrefix, IsPrefix
  <2>4. /\ BytesOf(t) \in Seq(Byte) /\ Len(BytesOf(t)) = 1 + t.width /\ t.width \in 0 .. 8
        /\ Len(parser.unread) \in Nat
    BY <1>4, <2>2, TokenBytes, ByteTypes, LenProperties
  <2>5. Len(parser.unread) # Len(BytesOf(t))
    <3>1. SubSeq(parser.unread, 1, Len(parser.unread)) = parser.unread
      BY <1>4, SubSeqFull
    <3>2. SubSeq(BytesOf(t), 1, Len(BytesOf(t))) = BytesOf(t)
      BY <2>4, SubSeqFull
    <3> QED
      BY <2>3, <3>1, <3>2
  <2> QED
    BY <1>3, <2>3, <2>4, <2>5 DEF MAX_WIDTH
<1> QED
  BY <1>5, <1>6

\* The stream has room for the next chunk.
LEMMA AppendFits ==
  ASSUME NEW p \in Parser, Len(p.unread) <= MAX_WIDTH,
         NEW chunk \in Seq(Byte), Len(chunk) <= MaxChunk
  PROVE  /\ stream_appendData(p, chunk).error = OK
         /\ stream_appendData(p, chunk).parser
              = [p EXCEPT !.unread = @ \o chunk, !.bufferPos = 0]
         /\ Len(p.unread \o chunk) <= STREAM_BUFFER_SIZE
<1> DEFINE shifted == [p EXCEPT !.bufferPos = 0]
<1>1. p.unread \in Seq(Byte) /\ Len(p.unread) \in Nat /\ Len(chunk) \in Nat
  <2>1. p.unread \in Seq(Byte)
    BY DEF Parser
  <2> QED
    BY <2>1, LenProperties
<1>2. Len(p.unread) + Len(chunk) <= STREAM_BUFFER_SIZE
  BY <1>1, ChunksAssumption, ParserAssumption DEF MAX_WIDTH
<1>3. shifted.bufferPos = 0 /\ shifted.unread = p.unread
  BY DEF Parser
<1>4. stream_shift(p) = shifted
  BY DEF stream_shift
<1>5. stream_appendData(p, chunk) = Goes([shifted EXCEPT !.unread = @ \o chunk])
  <2>1. ~(Len(chunk) > STREAM_BUFFER_SIZE - Len(p.unread))
    BY <1>1, <1>2, ParserAssumption
  <2>2. ~(0 + Len(p.unread) + Len(chunk) > STREAM_BUFFER_SIZE)
    BY <1>1, <1>2, ParserAssumption
  <2> HIDE DEF shifted
  <2> QED
    BY <1>3, <1>4, <2>1, <2>2 DEF stream_appendData
<1>6. [shifted EXCEPT !.unread = @ \o chunk] = [p EXCEPT !.unread = @ \o chunk, !.bufferPos = 0]
  BY DEF Parser
<1>7. Len(p.unread \o chunk) <= STREAM_BUFFER_SIZE
  BY <1>1, <1>2, ConcatProperties
<1> QED
  BY <1>5, <1>6, <1>7 DEF Goes

\* What has been read stays what it was when a chunk arrives.
LEMMA AtAppended ==
  ASSUME NEW p, NEW r, NEW bytes \in Seq(Byte), NEW chunk \in Seq(Byte), NEW later \in Seq(Byte),
         At(p, r, bytes, chunk \o later), Len(p.unread \o chunk) <= STREAM_BUFFER_SIZE
  PROVE  At([p EXCEPT !.unread = @ \o chunk, !.bufferPos = 0], r, bytes \o chunk, later)
<1> DEFINE u == p.unread
           more == u \o chunk
           q == [p EXCEPT !.unread = @ \o chunk, !.bufferPos = 0]
<1>1. p \in Parser /\ u \in Seq(Byte) /\ r \in SoFar
  BY DEF At, Parser
<1>2. more \in Seq(Byte)
  BY <1>1, ConcatProperties
<1>3. u \o (chunk \o later) = more \o later
  <2>1. Associates(u, chunk, later)
    BY <1>1, Associative
  <2> QED
    BY <2>1 DEF Associates
<1>4. /\ Started(p) /\ AmountsRead(p, r) /\ AddressAhead(p, r, u \o (chunk \o later))
      /\ Coherent(u \o (chunk \o later)) /\ bytes = Read(p, r) \o u
  BY DEF At
<1>5. AddressAhead(p, r, more \o later) /\ Coherent(more \o later)
  BY <1>3, <1>4
<1>6. /\ q \in Parser /\ q.bufferPos = 0 /\ q.unread = more
      /\ q.mainState = p.mainState /\ q.inputState = p.inputState
      /\ q.outputState = p.outputState
      /\ q.addressDataRemainingBytes = p.addressDataRemainingBytes
      /\ q.currentOutputIndex = p.currentOutputIndex
      /\ q.attestedOutputIndex = p.attestedOutputIndex
      /\ q.outputAmount = p.outputAmount
  <2>1. q = [p EXCEPT !.unread = more, !.bufferPos = 0]
    BY <1>1 DEF Parser
  <2> HIDE DEF q, more, Byte, MainStates, InputStates, OutputStates
  <2> QED
    BY <1>1, <1>2, <2>1 DEF Parser
<1> HIDE DEF q, more
<1>7. Read(q, r) = Read(p, r) /\ Started(q) /\ AmountsRead(q, r) /\ AddressAhead(q, r, more \o later)
  <2>1. InputRead(q, r.input) = InputRead(p, r.input)
    BY <1>6 DEF InputRead
  <2>2. OutputRead(q, r.output) = OutputRead(p, r.output)
    BY <1>6 DEF OutputRead
  <2>3. Read(q, r) = Read(p, r)
    BY <1>6, <2>1, <2>2 DEF Read
  <2>4. Started(q) /\ AmountsRead(q, r) /\ AddressAhead(q, r, more \o later)
    BY <1>4, <1>5, <1>6 DEF Started, AmountsRead, AddressAhead, ContentAhead
  <2> QED
    BY <2>3, <2>4
<1>8. bytes \o chunk = Read(q, r) \o more
  <2>1. Read(p, r) \in Seq(Byte)
    BY <1>1, ReadTypes
  <2>2. Associates(Read(p, r), u, chunk)
    BY <1>1, <2>1, Associative
  <2>3. Read(p, r) \o (u \o chunk) = (Read(p, r) \o u) \o chunk
    BY <2>2 DEF Associates
  <2> QED
    BY <1>4, <1>7, <2>3 DEF more
<1>9. q.bufferPos + Len(more) <= STREAM_BUFFER_SIZE
  <2>1. Len(more) \in Nat /\ Len(more) <= STREAM_BUFFER_SIZE
    BY <1>2, LenProperties DEF more
  <2> QED
    BY <1>6, <2>1
<1>10. At(q, r, bytes \o chunk, later)
  BY <1>1, <1>5, <1>6, <1>7, <1>8, <1>9 DEF At
<1> QED
  BY <1>10 DEF q

\* P1 = 2.
LEMMA HandleDataInv ==
  ASSUME Inv, NEW p2 \in {0, 1}, NEW n \in 0 .. MaxChunk, HandleData(p2, n)
  PROVE  Inv'
<1> DEFINE chunk == SubSeq(toSend, 1, n)
           later == SubSeq(toSend, n + 1, Len(toSend))
           error == DataError(p2, chunk)
<1>1. Accepts(ATTEST_UTXO) /\ ~parsing /\ n <= Len(toSend)
  BY DEF HandleData
<1>2. parser \in Parser /\ hashed \in Seq(Byte) /\ toSend \in Seq(Byte)
  BY DEF Inv, TypeOK
<1>3. /\ n \in 0 .. Len(toSend) /\ n <= MaxChunk
      /\ Len(toSend) \in Nat
  BY <1>1, <1>2, ChunksAssumption, LenProperties
<1>4. toSend = chunk \o later
  BY <1>2, <1>3, Left, EmptySeq, Zenon
<1>5. later \in Seq(Byte)
  BY <1>2, <1>3, Left, EmptySeq
<1>6. chunk \in Seq(Byte) /\ Len(chunk) <= MaxChunk
  <2>1. \A j \in 1 .. n : toSend[j] \in Byte
    BY <1>2, <1>3, ElementOfSeq
  <2>2. chunk \in Seq(Byte) /\ Len(chunk) = IF 1 <= n THEN n - 1 + 1 ELSE 0
    BY <1>2, <1>3, <2>1, SubSeqProperties
  <2>3. CASE n = 0
    BY <1>3, <2>2, <2>3, ChunksAssumption
  <2>4. CASE n # 0
    BY <1>3, <2>2, <2>4
  <2> QED
    BY <2>2, <2>3, <2>4
<1>7. CASE IsNewCall \/ p2 # 0
  <2>1. error \in AutoRespond /\ error # OK
    <3>1. CASE IsNewCall
      <4>1. error = ERR_INVALID_STATE
        BY <3>1 DEF DataError
      <4> QED
        BY <4>1, Codes DEF ERR_INVALID_STATE, OK
    <3>2. CASE ~IsNewCall
      <4>1. error = ERR_INVALID_REQUEST_PARAMETERS
        BY <1>1, <1>7, <3>2, LeftoverFits DEF DataError
      <4> QED
        BY <4>1, Codes DEF ERR_INVALID_REQUEST_PARAMETERS, OK
    <3> QED
      BY <3>1, <3>2
  <2>2. Refused(error)
    BY <2>1 DEF HandleData
  <2> HIDE DEF error
  <2> QED
    BY <1>1, <2>1, <2>2, RefusedInv
<1>8. CASE ~IsNewCall /\ p2 = 0
  <2> DEFINE q == [parser EXCEPT !.unread = @ \o chunk, !.bufferPos = 0]
  <2>1. InCall /\ magic /\ Len(parser.unread) <= MAX_WIDTH /\ parser.mainState # "FINISHED"
    BY <1>1, <1>8, LeftoverFits
  <2> HIDE DEF chunk, later
  <2>2. /\ stream_appendData(parser, chunk).error = OK
        /\ stream_appendData(parser, chunk).parser = q
        /\ Len(parser.unread \o chunk) <= STREAM_BUFFER_SIZE
    BY <1>2, <1>6, <2>1, AppendFits
  <2>3. error = OK
    BY <1>8, <2>1, <2>2 DEF DataError
  <2>4. /\ parser' = q /\ hashed' = hashed \o chunk /\ toSend' = later
        /\ parsing' = TRUE /\ ioState' = IoStateInside /\ awaiting' = TRUE
        /\ UNCHANGED <<crashed, currentInstruction, display, reply, locked, magic>>
    BY <2>2, <2>3 DEF HandleData, chunk, later
  <2> HIDE DEF error
  <2>5. PICK r : At(parser, r, hashed, toSend)
    BY <2>1, InCallAt DEF Inv
  <2>6. At(q, r, hashed \o chunk, later)
    <3>1. At(parser, r, hashed, chunk \o later)
      BY <1>4, <2>5
    <3> QED
      BY <1>2, <1>5, <1>6, <2>2, <3>1, AtAppended
  <2> HIDE DEF q
  <2>7. TypeOK'
    <3>1. ioState' \in {"IO", "NONE"}
      BY <2>4 DEF Inv, TypeOK, IoStateInside
    <3>2. hashed' \in Seq(Byte) /\ toSend' \in Seq(Byte)
      BY <1>2, <1>5, <1>6, <2>4, ConcatProperties
    <3>3. parser' \in Parser /\ parser'.bufferPos + Len(parser'.unread) <= STREAM_BUFFER_SIZE
      BY <2>4, <2>6 DEF At
    <3> QED
      BY <2>4, <3>1, <3>2, <3>3 DEF Inv, TypeOK
  <2>8. /\ On' /\ InCall' /\ ~Sending' /\ reply' = NoReply /\ magic'
    BY <1>1, <2>1, <2>4 DEF Inv, ControlInv, On, InCall, Sending, Accepts
  <2>9. ControlInv'
    BY <2>4, <2>8 DEF ControlInv
  <2>10. ParserInv'
    <3>1. hashed' \o toSend' = hashed \o toSend
      <4>1. Associates(hashed, chunk, later)
        BY <1>2, <1>5, <1>6, Associative
      <4> QED
        BY <1>4, <2>4, <4>1 DEF Associates
    <3>2. hashed \o toSend \in Streams
      BY <2>1 DEF Inv, ParserInv
    <3> QED
      BY <2>4, <2>6, <3>1, <3>2, AtParserInv
  <2>11. LeftoverIsPartialToken' /\ CertificateInv'
    BY <2>4, <2>8 DEF LeftoverIsPartialToken, CertificateInv
  <2> QED
    BY <2>7, <2>9, <2>10, <2>11 DEF Inv
<1> QED
  BY <1>7, <1>8

\* An unknown P1.
LEMMA HandleUnknownP1Inv ==
  ASSUME Inv, HandleUnknownP1
  PROVE  Inv'
<1> DEFINE error == IF IsNewCall THEN ERR_INVALID_STATE ELSE ERR_INVALID_REQUEST_PARAMETERS
<1>1. ~parsing /\ Refused(error)
  BY DEF HandleUnknownP1
<1>2. error \in AutoRespond
  BY Codes
<1> HIDE DEF error
<1> QED
  BY <1>1, <1>2, RefusedInv

\* What a turn of the parser loop answers, by the verdict of the parser.
TurnAnswers(error) ==
  CASE error = OK -> UNCHANGED platformVars
    [] error = ERR_NOT_ENOUGH_INPUT -> Respond(ATTEST_UTXO, SUCCESS, NoData, "nothing")
    [] error = ERR_UNEXPECTED_TOKEN -> Throw(ATTEST_UTXO, ERR_INVALID_DATA)
    [] OTHER -> Throw(ATTEST_UTXO, error)

\* The three verdicts that occur, one at a time: the loop goes on without an
\* answer, asks for more bytes, or refuses them.
LEMMA TurnVerdicts ==
  /\ TurnAnswers(OK) => UNCHANGED platformVars
  /\ TurnAnswers(ERR_NOT_ENOUGH_INPUT) => Respond(ATTEST_UTXO, SUCCESS, NoData, "nothing")
  /\ TurnAnswers(ERR_UNEXPECTED_TOKEN) => Throw(ATTEST_UTXO, ERR_INVALID_DATA)
<1>1. /\ OK # ERR_NOT_ENOUGH_INPUT /\ OK # ERR_UNEXPECTED_TOKEN
      /\ ERR_NOT_ENOUGH_INPUT # ERR_UNEXPECTED_TOKEN
  BY DEF OK, ERR_NOT_ENOUGH_INPUT, ERR_UNEXPECTED_TOKEN
<1>2. TurnAnswers(OK) => UNCHANGED platformVars
  BY <1>1 DEF TurnAnswers
<1>3. TurnAnswers(ERR_NOT_ENOUGH_INPUT) => Respond(ATTEST_UTXO, SUCCESS, NoData, "nothing")
  BY <1>1 DEF TurnAnswers
<1>4. TurnAnswers(ERR_UNEXPECTED_TOKEN) => Throw(ATTEST_UTXO, ERR_INVALID_DATA)
  BY <1>1 DEF TurnAnswers
<1> QED
  BY <1>2, <1>3, <1>4

\* A turn of the parser loop.
LEMMA KeepParsingInv ==
  ASSUME Inv, KeepParsing
  PROVE  Inv'
<1> DEFINE step == parser_advanceMainState(parser)
<1>1. /\ parsing /\ parser.mainState # "FINISHED" /\ parser' = step.parser
      /\ magic' = magic /\ hashed' = hashed /\ toSend' = toSend
      /\ parsing' = (step.error = OK)
  BY DEF KeepParsing
<1>0. TurnAnswers(step.error)
  BY DEF KeepParsing, TurnAnswers
<1>2. InCall /\ ~Sending /\ reply = NoReply /\ magic /\ On
  BY <1>1 DEF Inv, ControlInv
<1>3. PICK r : At(parser, r, hashed, toSend)
  BY <1>2, InCallAt DEF Inv
<1>4. Outcome(parser, step, hashed, toSend)
  BY <1>1, <1>3, MainStep
<1>5. hashed \o toSend \in Streams
  BY <1>2 DEF Inv, ParserInv
<1>6. /\ hashed' \in Seq(Byte) /\ toSend' \in Seq(Byte) /\ magic' \in BOOLEAN
      /\ parser \in Parser /\ parser.bufferPos + Len(parser.unread) <= STREAM_BUFFER_SIZE
  BY <1>1 DEF Inv, TypeOK
<1> HIDE DEF step
<1>7. CASE Waits(parser, step)
  <2>1. step.error = ERR_NOT_ENOUGH_INPUT /\ step.parser = parser /\ Partial(parser.unread)
    BY <1>7 DEF Waits, Throws
  <2>2. Respond(ATTEST_UTXO, SUCCESS, NoData, "nothing") /\ parser' = parser /\ parsing' = FALSE
    <3>1. Respond(ATTEST_UTXO, SUCCESS, NoData, "nothing")
      BY <1>0, <2>1, TurnVerdicts
    <3>2. OK # ERR_NOT_ENOUGH_INPUT
      BY DEF OK, ERR_NOT_ENOUGH_INPUT
    <3> QED
      BY <1>1, <2>1, <3>1, <3>2
  <2>3. /\ crashed' = crashed /\ locked' = locked /\ awaiting' = TRUE
        /\ ioState' = IoStateInside /\ currentInstruction' = ATTEST_UTXO
        /\ reply' = [code |-> SUCCESS, data |-> NoData, then |-> "nothing"]
        /\ display' = [display EXCEPT !.run = TRUE]
    BY <2>2 DEF Respond
  <2>4. /\ reply'.code = SUCCESS /\ reply'.data = NoData /\ reply'.then = "nothing"
        /\ SUCCESS # NoCode
    BY <2>3, Codes
  <2>5. TypeOK'
    <3>1. ioState' \in {"IO", "NONE"}
      BY <2>3 DEF Inv, TypeOK, IoStateInside
    <3>2. display' \in {Menu, BusyScreen}
      BY <2>3, Displays DEF Inv, TypeOK
    <3>3. reply' \in [code: {NoCode, SUCCESS} \cup AutoRespond,
                      data: {NoData} \cup CertificateData,
                      then: {"none", "idle", "busy", "nothing"}]
      <4> HIDE DEF AutoRespond, CertificateData
      <4> QED
        BY <2>3
    <3>4. crashed' \in {NotCrashed} \cup HostCrashes \cup InternalCrashes /\ locked' \in BOOLEAN
      BY <2>3 DEF Inv, TypeOK
    <3> QED
      BY <1>6, <2>2, <2>3, <3>1, <3>2, <3>3, <3>4 DEF TypeOK
  <2>6. ControlInv'
    BY <1>1, <1>2, <2>2, <2>3, <2>4 DEF ControlInv, On, Sending, InCall
  <2>7. ParserInv'
    BY <1>1, <1>3, <1>5, <2>2, AtParserInv
  <2>8. LeftoverIsPartialToken' /\ CertificateInv'
    <3>1. reply'.data.kind # "certificate"
      BY <2>4 DEF NoData
    <3> QED
      BY <2>1, <2>2, <3>1 DEF LeftoverIsPartialToken, Partial, CertificateInv
  <2> QED
    BY <2>5, <2>6, <2>7, <2>8 DEF Inv
<1>8. CASE Refuses(parser, step)
  <2>1. step.error = ERR_UNEXPECTED_TOKEN /\ step.parser = parser
    BY <1>8 DEF Refuses, Throws
  <2>2. Throw(ATTEST_UTXO, ERR_INVALID_DATA) /\ parser' = parser /\ parsing' = FALSE
    <3>1. Throw(ATTEST_UTXO, ERR_INVALID_DATA)
      BY <1>0, <2>1, TurnVerdicts
    <3>2. OK # ERR_UNEXPECTED_TOKEN
      BY DEF OK, ERR_UNEXPECTED_TOKEN
    <3> QED
      BY <1>1, <2>1, <3>1, <3>2
  <2>3. ERR_INVALID_DATA \in AutoRespond
    BY Codes
  <2>4. Respond(ATTEST_UTXO, ERR_INVALID_DATA, NoData, "idle")
    BY <2>2, <2>3 DEF Throw
  <2>5. (parser.bufferPos + Len(parser.unread) <= STREAM_BUFFER_SIZE)'
    BY <1>6, <2>2
  <2> QED
    BY <1>6, <2>2, <2>3, <2>4, <2>5, AnswerEndsCall
<1>9. CASE GoesOn(step, hashed, toSend)
  <2>1. PICK q, s : step = Goes(q) /\ At(q, s, hashed, toSend)
    BY <1>9 DEF GoesOn
  <2>2. step.error = OK /\ step.parser = q
    BY <2>1 DEF Goes
  <2>3. UNCHANGED platformVars /\ parser' = q /\ parsing' = TRUE
    <3>1. UNCHANGED platformVars
      BY <1>0, <2>2, TurnVerdicts
    <3> QED
      BY <1>1, <2>2, <3>1
  <2>4. UNCHANGED <<crashed, ioState, currentInstruction, display, reply, locked, awaiting>>
    BY <2>3 DEF platformVars
  <2>5. TypeOK'
    <3>1. parser' \in Parser /\ parser'.bufferPos + Len(parser'.unread) <= STREAM_BUFFER_SIZE
      BY <2>1, <2>3 DEF At
    <3> QED
      BY <1>6, <2>3, <2>4, <3>1 DEF Inv, TypeOK
  <2>6. On' /\ InCall' /\ ~Sending' /\ reply' = NoReply
    BY <1>2, <2>4 DEF On, InCall, Sending
  <2>7. ControlInv'
    BY <1>1, <1>2, <2>3, <2>6 DEF ControlInv
  <2>8. ParserInv'
    BY <1>1, <1>5, <2>1, <2>3, AtParserInv
  <2>9. LeftoverIsPartialToken' /\ CertificateInv'
    BY <2>3, <2>6 DEF LeftoverIsPartialToken, CertificateInv
  <2> QED
    BY <2>5, <2>7, <2>8, <2>9 DEF Inv
<1> QED
  BY <1>4, <1>7, <1>8, <1>9 DEF Outcome

\* The first part of a sequence is a prefix of it.
LEMMA FirstPart ==
  ASSUME NEW s \in Seq(Byte), NEW t \in Seq(Byte)
  PROVE  IsPrefix(s, s \o t)
<1> DEFINE u == s \o t
<1>1. /\ u \in Seq(Byte) /\ Len(u) = Len(s) + Len(t)
      /\ Len(s) \in Nat /\ Len(t) \in Nat
      /\ \A i \in 1 .. Len(s) : u[i] = s[i]
  <2>1. /\ u \in Seq(Byte) /\ Len(u) = Len(s) + Len(t)
        /\ \A i \in 1 .. Len(s) + Len(t) : u[i] = IF i <= Len(s) THEN s[i] ELSE t[i - Len(s)]
    BY ConcatProperties
  <2>2. Len(s) \in Nat /\ Len(t) \in Nat
    BY LenProperties
  <2> HIDE DEF u
  <2> QED
    BY <2>1, <2>2
<1> HIDE DEF u
<1>2. SubSeq(u, 1, Len(s)) = s
  <2> DEFINE first == SubSeq(u, 1, Len(s))
  <2>1. \A i \in 1 .. Len(s) : u[i] \in Byte
    BY <1>1, ElementOfSeq
  <2>2. /\ first \in Seq(Byte)
        /\ Len(first) = IF 1 <= Len(s) THEN Len(s) - 1 + 1 ELSE 0
        /\ \A i \in 1 .. Len(s) - 1 + 1 : first[i] = u[1 + i - 1]
    BY <1>1, <2>1, SubSeqProperties
  <2> HIDE DEF first
  <2>3. Len(first) = Len(s) /\ \A i \in 1 .. Len(s) : first[i] = s[i]
    BY <1>1, <2>2
  <2>4. first = s
    BY <2>2, <2>3, SeqEqual
  <2> QED
    BY <2>4 DEF first
<1>3. SubSeq(s, 1, Len(s)) = s
  BY SubSeqFull
<1>4. Len(s) <= Len(u)
  BY <1>1
<1> QED
  BY <1>2, <1>3, <1>4 DEF IsPrefix, u

\* The parser has read a transaction to its end, and has nothing left.
LEMMA WholeTransaction ==
  ASSUME TypeOK, ParserInv, InCall, parser.mainState = "FINISHED", NothingLeft(parser),
         parser_getAttestedAmount(parser) # LOVELACE_INVALID
  PROVE  /\ Certificate \in CertificateData
         /\ \E tx \in AllTransactions :
              /\ hashed = EncodeTx(tx)
              /\ Attestable(tx, parser.attestedOutputIndex)
              /\ parser_getAttestedAmount(parser)
                   = tx.outputs[parser.attestedOutputIndex + 1].amount
              /\ \E s \in Streams : IsPrefix(EncodeTx(tx), s)
<1>1. PICK r : At(parser, r, hashed, toSend)
  BY InCallAt
<1>2. /\ r \in SoFar /\ hashed = Read(parser, r) \o parser.unread /\ AmountsRead(parser, r)
      /\ r.inputs \in InputLists /\ r.outputs \in OutputLists
  <2>1. r \in SoFar /\ hashed = Read(parser, r) \o parser.unread /\ AmountsRead(parser, r)
    BY <1>1 DEF At
  <2> QED
    BY <2>1 DEF SoFar
<1>3. /\ parser \in Parser /\ hashed \in Seq(Byte) /\ toSend \in Seq(Byte)
      /\ parser.attestedOutputIndex \in Nat /\ parser.outputAmount \in Nat
      /\ parser.currentOutputIndex \in Nat
  <2>1. parser \in Parser /\ hashed \in Seq(Byte) /\ toSend \in Seq(Byte)
    BY DEF TypeOK
  <2> QED
    BY <2>1 DEF Parser
<1> DEFINE tx == [inputs |-> r.inputs, outputs |-> r.outputs]
           index == parser.attestedOutputIndex
<1>4. tx \in AllTransactions /\ tx.outputs = r.outputs
  BY <1>2 DEF AllTransactions
<1>5. Read(parser, r) = EncodeTx(tx)
  BY DEF Read
<1> HIDE DEF tx
<1>6. hashed = EncodeTx(tx)
  <2>1. parser.unread = <<>>
    BY DEF NothingLeft
  <2>2. EncodeTx(tx) \in Seq(Byte)
    BY <1>2, <1>3, <1>5, ReadTypes
  <2>3. EncodeTx(tx) \o <<>> = EncodeTx(tx)
    BY <2>2, ConcatEmptySeq
  <2> QED
    BY <1>2, <1>5, <2>1, <2>3
<1>7. /\ parser_getAttestedAmount(parser) = parser.outputAmount
      /\ ~(parser.currentOutputIndex <= index)
      /\ ~(parser.outputAmount > LOVELACE_MAX_SUPPLY)
  BY DEF parser_getAttestedAmount
<1>8. /\ parser.currentOutputIndex = Len(r.outputs)
      /\ index < Len(r.outputs) => parser.outputAmount = r.outputs[index + 1].amount
  BY <1>2 DEF AmountsRead
<1>9. index < Len(r.outputs) /\ parser.outputAmount <= LOVELACE_MAX_SUPPLY
  BY <1>3, <1>7, <1>8, ParserAssumption
<1>10. Attestable(tx, index) /\ parser_getAttestedAmount(parser) = tx.outputs[index + 1].amount
  BY <1>4, <1>7, <1>8, <1>9 DEF Attestable
<1>11. \E s \in Streams : IsPrefix(EncodeTx(tx), s)
  <2>1. hashed \o toSend \in Streams
    BY DEF ParserInv
  <2>2. IsPrefix(hashed, hashed \o toSend)
    BY <1>3, FirstPart
  <2> HIDE DEF IsPrefix
  <2> QED
    BY <1>6, <2>1, <2>2
<1>12. Certificate \in CertificateData
  <2>1. parser_getAttestedAmount(parser) \in 0 .. LOVELACE_MAX_SUPPLY
    BY <1>3, <1>7, <1>9, ParserAssumption
  <2> HIDE DEF Byte
  <2> QED
    BY <1>3, <2>1 DEF Certificate, CertificateData
<1> QED
  BY <1>4, <1>6, <1>10, <1>11, <1>12

\* The loop is over.
LEMMA FinishInv ==
  ASSUME Inv, Finish
  PROVE  Inv'
<1>1. /\ parsing /\ parser.mainState = "FINISHED" /\ parsing' = FALSE
      /\ parser' = parser /\ magic' = magic /\ hashed' = hashed /\ toSend' = toSend
  BY DEF Finish
<1>2. InCall /\ ~Sending /\ magic /\ On /\ TypeOK /\ ParserInv
  BY <1>1 DEF Inv, ControlInv
<1>3. /\ parser' \in Parser /\ (parser.bufferPos + Len(parser.unread) <= STREAM_BUFFER_SIZE)'
      /\ magic' \in BOOLEAN /\ hashed' \in Seq(Byte) /\ toSend' \in Seq(Byte)
  BY <1>1, <1>2 DEF TypeOK
<1>4. CASE ~(NothingLeft(parser) /\ parser_getAttestedAmount(parser) # LOVELACE_INVALID)
  <2>1. Throw(ATTEST_UTXO, ERR_INVALID_DATA)
    BY <1>4 DEF Finish
  <2>2. ERR_INVALID_DATA \in AutoRespond
    BY Codes
  <2>3. Respond(ATTEST_UTXO, ERR_INVALID_DATA, NoData, "idle")
    BY <2>1, <2>2 DEF Throw
  <2> QED
    BY <1>1, <1>3, <2>2, <2>3, AnswerEndsCall
<1>5. CASE NothingLeft(parser) /\ parser_getAttestedAmount(parser) # LOVELACE_INVALID
  <2>1. Respond(ATTEST_UTXO, SUCCESS, Certificate, "idle")
    BY <1>5 DEF Finish
  <2>2. /\ crashed' = crashed /\ locked' = locked /\ awaiting' = TRUE
        /\ ioState' = IoStateInside /\ currentInstruction' = ATTEST_UTXO
        /\ reply' = [code |-> SUCCESS, data |-> Certificate, then |-> "idle"]
        /\ display' = [display EXCEPT !.run = TRUE]
    BY <2>1 DEF Respond
  <2>3. /\ Certificate \in CertificateData
        /\ \E tx \in AllTransactions :
             /\ hashed = EncodeTx(tx)
             /\ Attestable(tx, parser.attestedOutputIndex)
             /\ parser_getAttestedAmount(parser)
                  = tx.outputs[parser.attestedOutputIndex + 1].amount
             /\ \E s \in Streams : IsPrefix(EncodeTx(tx), s)
    BY <1>1, <1>2, <1>5, WholeTransaction
  <2>4. /\ reply'.code = SUCCESS /\ reply'.then = "idle" /\ SUCCESS # NoCode
        /\ reply'.data.hash = hashed
        /\ reply'.data.index = parser.attestedOutputIndex
        /\ reply'.data.amount = parser_getAttestedAmount(parser)
    BY <2>2, Codes DEF Certificate
  <2>5. TypeOK'
    <3>1. ioState' \in {"IO", "NONE"}
      BY <2>2 DEF Inv, TypeOK, IoStateInside
    <3>2. display' \in {Menu, BusyScreen}
      BY <2>2, Displays DEF Inv, TypeOK
    <3>3. reply' \in [code: {NoCode, SUCCESS} \cup AutoRespond,
                      data: {NoData} \cup CertificateData,
                      then: {"none", "idle", "busy", "nothing"}]
      <4> HIDE DEF AutoRespond, CertificateData
      <4> QED
        BY <2>2, <2>3
    <3>4. crashed' \in {NotCrashed} \cup HostCrashes \cup InternalCrashes /\ locked' \in BOOLEAN
      BY <2>2 DEF Inv, TypeOK
    <3> QED
      BY <1>1, <1>3, <2>2, <3>1, <3>2, <3>3, <3>4 DEF TypeOK
  <2>6. ControlInv'
    BY <1>1, <1>2, <2>2, <2>4 DEF ControlInv, On, Sending, InCall
  <2>7. ParserInv' /\ LeftoverIsPartialToken'
    BY <2>4 DEF ParserInv, InCall, LeftoverIsPartialToken
  <2>8. CertificateInv'
    BY <2>3, <2>4 DEF CertificateInv
  <2> QED
    BY <2>5, <2>6, <2>7, <2>8 DEF Inv
<1> QED
  BY <1>4, <1>5

\* A transmission ends.
LEMMA SendDoneInv ==
  ASSUME Inv, SendDone
  PROVE  Inv'
<1>1. /\ reply' = NoReply /\ ioState' = "IO" /\ awaiting' = FALSE
      /\ currentInstruction' = IF reply.then = "idle" THEN INS_NONE ELSE currentInstruction
      /\ display' = ScreenAfter(reply.then)
      /\ crashed' = crashed /\ locked' = locked
      /\ UNCHANGED <<parser, magic, hashed, parsing, toSend>>
      /\ Sending
  BY DEF SendDone, Transmitted, attestVars
<1>2. NoReply.code = NoCode /\ NoReply.data = NoData /\ NoReply.then = "none"
  BY DEF NoReply
<1>3. InCall' => InCall
  BY <1>1 DEF InCall, INS_NONE, ATTEST_UTXO
<1>4. TypeOK'
  <2>1. display' \in {Menu, BusyScreen}
    BY <1>1 DEF Inv, TypeOK, ScreenAfter
  <2>2. reply' \in [code: {NoCode, SUCCESS} \cup AutoRespond,
                    data: {NoData} \cup CertificateData,
                    then: {"none", "idle", "busy", "nothing"}]
    <3> HIDE DEF AutoRespond, CertificateData, NoData
    <3> QED
      BY <1>1 DEF NoReply
  <2>3. currentInstruction' \in {INS_NONE, ATTEST_UTXO}
    BY <1>1 DEF Inv, TypeOK
  <2> QED
    BY <1>1, <2>1, <2>2, <2>3 DEF Inv, TypeOK
<1>5. ControlInv'
  <2>1. ~parsing
    BY <1>1 DEF Inv, ControlInv
  <2> QED
    BY <1>1, <1>3, <2>1 DEF Inv, ControlInv, On
<1>6. ParserInv'
  BY <1>1, <1>3 DEF Inv, ParserInv, HasRead
<1>7. LeftoverIsPartialToken'
  <2>1. currentInstruction' = ATTEST_UTXO =>
          currentInstruction = ATTEST_UTXO /\ reply.then # "idle"
    BY <1>1 DEF INS_NONE, ATTEST_UTXO
  <2> QED
    BY <1>1, <2>1 DEF Inv, LeftoverIsPartialToken, On
<1>8. CertificateInv'
  BY <1>1, <1>2 DEF CertificateInv, Sending
<1> QED
  BY <1>4, <1>5, <1>6, <1>7, <1>8 DEF Inv

\* What is not a step of the call leaves it as it is.
LEMMA UnchangedInv ==
  ASSUME Inv, UNCHANGED <<crashed, ioState, currentInstruction, display, reply, awaiting>>,
         locked' \in BOOLEAN, UNCHANGED attestVars
  PROVE  Inv'
<1>1. /\ UNCHANGED <<parser, magic, hashed, parsing, toSend>>
      /\ UNCHANGED <<crashed, ioState, currentInstruction, display, reply, awaiting>>
  BY DEF attestVars
<1>2. TypeOK'
  BY <1>1 DEF Inv, TypeOK
<1>3. ControlInv'
  BY <1>1 DEF Inv, ControlInv, On, Sending, InCall
<1>4. ParserInv'
  BY <1>1 DEF Inv, ParserInv, HasRead, InCall
<1>5. LeftoverIsPartialToken'
  BY <1>1 DEF Inv, LeftoverIsPartialToken, On
<1>6. CertificateInv'
  BY <1>1 DEF Inv, CertificateInv, Sending
<1> QED
  BY <1>2, <1>3, <1>4, <1>5, <1>6 DEF Inv

\* The steps of the platform.
LEMMA PlatformStepInv ==
  ASSUME Inv, PlatformStep
  PROVE  Inv'
<1>1. ~parsing /\ UNCHANGED attestVars
  BY DEF PlatformStep
<1>2. CASE RejectApdu
  <2>1. PICK e \in MainLoopErrors : Respond(currentInstruction, e, NoData, "idle")
    BY <1>2 DEF RejectApdu
  <2>2. e \in AutoRespond
    BY Codes
  <2>3. UNCHANGED <<parser, magic, hashed, parsing, toSend>>
    BY <1>1 DEF attestVars
  <2>4. /\ parser' \in Parser /\ (parser.bufferPos + Len(parser.unread) <= STREAM_BUFFER_SIZE)'
        /\ magic' \in BOOLEAN /\ hashed' \in Seq(Byte) /\ toSend' \in Seq(Byte)
        /\ parsing' = FALSE /\ currentInstruction \in {INS_NONE, ATTEST_UTXO}
    BY <1>1, <2>3 DEF Inv, TypeOK
  <2> QED
    BY <2>1, <2>2, <2>4, AnswerEndsCall
<1>3. CASE LockDevice
  BY <1>1, <1>3, UnchangedInv DEF LockDevice
<1>4. CASE UnlockDevice
  BY <1>1, <1>4, UnchangedInv DEF UnlockDevice
<1> QED
  BY <1>2, <1>3, <1>4 DEF PlatformStep

\* Where the application is when it starts, with whatever context.
LEMMA BootedInv ==
  ASSUME Boot, locked' \in BOOLEAN, parser' \in Parser,
         (parser.bufferPos + Len(parser.unread) <= STREAM_BUFFER_SIZE)',
         magic' \in BOOLEAN, hashed' \in Seq(Byte), parsing' = FALSE, toSend' \in Seq(Byte)
  PROVE  Inv'
<1>1. /\ crashed' = NotCrashed /\ ioState' = "IO" /\ currentInstruction' = INS_NONE
      /\ display' = Menu /\ reply' = NoReply /\ awaiting' = FALSE
  BY DEF Boot
<1>2. NoReply.code = NoCode
  BY DEF NoReply
<1>3. ~InCall' /\ ~Sending'
  BY <1>1, <1>2 DEF InCall, Sending, INS_NONE, ATTEST_UTXO
<1>4. TypeOK'
  <2>1. reply' \in [code: {NoCode, SUCCESS} \cup AutoRespond,
                    data: {NoData} \cup CertificateData,
                    then: {"none", "idle", "busy", "nothing"}]
    <3> HIDE DEF AutoRespond, CertificateData, NoData
    <3> QED
      BY <1>1 DEF NoReply
  <2> QED
    BY <1>1, <2>1 DEF TypeOK
<1>5. ControlInv'
  BY <1>1, <1>3 DEF ControlInv, On
<1>6. ParserInv' /\ CertificateInv'
  BY <1>3 DEF ParserInv, CertificateInv
<1>7. LeftoverIsPartialToken'
  BY <1>1 DEF LeftoverIsPartialToken, INS_NONE, ATTEST_UTXO
<1> QED
  BY <1>4, <1>5, <1>6, <1>7 DEF Inv

\* The user opening the application again keeps the invariant.
LEMMA StartOverInv ==
  ASSUME Inv, StartOver
  PROVE  Inv'
<1>1. /\ Boot /\ ~parsing /\ toSend' = <<>>
      /\ UNCHANGED <<parser, magic, hashed, parsing>>
      /\ locked' \in BOOLEAN
  BY DEF StartOver, IoReset, Restart, Inv, TypeOK
<1>2. /\ parser' \in Parser /\ (parser.bufferPos + Len(parser.unread) <= STREAM_BUFFER_SIZE)'
      /\ magic' \in BOOLEAN /\ hashed' \in Seq(Byte) /\ parsing' = FALSE
  BY <1>1 DEF Inv, TypeOK
<1>3. toSend' \in Seq(Byte)
  BY <1>1, EmptySeq
<1> QED
  BY <1>1, <1>2, <1>3, BootedInv

\* The invariant holds to begin with.
LEMMA InitInv == Init => Inv
<1> SUFFICES ASSUME Init PROVE Inv
  OBVIOUS
<1>1. /\ crashed = NotCrashed /\ ioState = "IO" /\ currentInstruction = INS_NONE
      /\ display = Menu /\ reply = NoReply /\ locked = FALSE /\ awaiting = FALSE
      /\ parser = ZeroParser /\ magic = FALSE /\ hashed = <<>> /\ parsing = FALSE
      /\ toSend = <<>>
  BY DEF Init, PlatformInit
<1>2. NoReply.code = NoCode
  BY DEF NoReply
<1>3. ~InCall /\ ~Sending
  BY <1>1, <1>2 DEF InCall, Sending, INS_NONE, ATTEST_UTXO
<1>4. TypeOK
  <2>1. reply \in [code: {NoCode, SUCCESS} \cup AutoRespond,
                   data: {NoData} \cup CertificateData,
                   then: {"none", "idle", "busy", "nothing"}]
    <3> HIDE DEF AutoRespond, CertificateData, NoData
    <3> QED
      BY <1>1 DEF NoReply
  <2>2. parser \in Parser /\ parser.bufferPos + Len(parser.unread) <= STREAM_BUFFER_SIZE
    <3>1. Len(<<>>) = 0
      OBVIOUS
    <3>2. parser.bufferPos = 0 /\ parser.unread = <<>>
      BY <1>1, EmptyParsers
    <3> QED
      BY <1>1, <3>1, <3>2, EmptyParsers, ParserAssumption
  <2> QED
    BY <1>1, <2>1, <2>2, EmptySeq DEF TypeOK
<1>5. ControlInv
  BY <1>1, <1>3 DEF ControlInv, On
<1>6. ParserInv /\ CertificateInv
  BY <1>3 DEF ParserInv, CertificateInv
<1>7. LeftoverIsPartialToken
  BY <1>1 DEF LeftoverIsPartialToken, INS_NONE, ATTEST_UTXO
<1> QED
  BY <1>4, <1>5, <1>6, <1>7 DEF Inv

\* Every step preserves it.
LEMMA NextInv == Inv /\ [Next]_vars => Inv'
<1> SUFFICES ASSUME Inv, [Next]_vars PROVE Inv'
  OBVIOUS
<1>1. ASSUME NEW p2 \in {0, 1}, NEW sizeOk \in BOOLEAN, NEW i \in Indexes, NEW s \in Streams,
             HandleInit(p2, sizeOk, i, s)
      PROVE  Inv'
  BY <1>1, HandleInitInv
<1>2. ASSUME NEW p2 \in {0, 1}, NEW n \in 0 .. MaxChunk, HandleData(p2, n)
      PROVE  Inv'
  BY <1>2, HandleDataInv
<1>3. CASE HandleUnknownP1
  BY <1>3, HandleUnknownP1Inv
<1>4. CASE KeepParsing
  BY <1>4, KeepParsingInv
<1>5. CASE Finish
  BY <1>5, FinishInv
<1>6. CASE SendDone
  BY <1>6, SendDoneInv
<1>7. CASE PlatformStep
  BY <1>7, PlatformStepInv
<1>8. CASE StartOver
  BY <1>8, StartOverInv
<1>9. CASE UNCHANGED vars
  <2>1. UNCHANGED platformVars /\ UNCHANGED attestVars
    BY <1>9 DEF vars
  <2>2. UNCHANGED <<crashed, ioState, currentInstruction, display, reply, locked, awaiting>>
    BY <2>1 DEF platformVars
  <2>3. locked' \in BOOLEAN
    BY <2>2 DEF Inv, TypeOK
  <2> QED
    BY <2>1, <2>2, <2>3, UnchangedInv
<1> QED
  BY <1>1, <1>2, <1>3, <1>4, <1>5, <1>6, <1>7, <1>8, <1>9 DEF Next

-----------------------------------------------------------------------------
(***************************************************************************)
(* The encoding from some element on, and what of it is still to come.     *)
(***************************************************************************)

\* One more element comes first.
LEMMA FlattenCons ==
  ASSUME NEW S, NEW s \in Seq(Seq(S)), NEW x \in Seq(S)
  PROVE  FlattenSeq(<<x>> \o s) = x \o FlattenSeq(s)
<1> DEFINE Holds(t) == FlattenSeq(<<x>> \o t) = x \o FlattenSeq(t)
           T == {m \in Nat : \E t \in Seq(Seq(S)) : Len(t) = m /\ ~Holds(t)}
<1>1. SUFFICES ASSUME T # {} PROVE FALSE
  <2>1. Len(s) \in Nat /\ Len(s) \notin T
    BY <1>1, LenProperties
  <2> QED
    BY <2>1
<1>2. PICK m \in T : \A k \in 0 .. m - 1 : k \notin T
  <2> T \in SUBSET Nat
    OBVIOUS
  <2> HIDE DEF T
  <2> QED
    BY <1>1, LeastNumber
<1>3. PICK t \in Seq(Seq(S)) : Len(t) = m /\ ~Holds(t)
  OBVIOUS
<1>4. <<x>> \in Seq(Seq(S)) /\ <<x>> = Append(<<>>, x) /\ <<>> \in Seq(Seq(S))
  OBVIOUS
<1>5. CASE t = <<>>
  <2>1. <<x>> \o <<>> = <<x>>
    BY <1>4, ConcatEmptySeq
  <2>2. FlattenSeq(Append(<<>>, x)) = FlattenSeq(<<>>) \o x
    BY <1>4, FlattenAppend
  <2>3. FlattenSeq(<<>>) = <<>>
    BY DEF FlattenSeq
  <2>4. <<>> \o x = x /\ x \o <<>> = x
    BY ConcatEmptySeq
  <2> QED
    BY <1>3, <1>4, <1>5, <2>1, <2>2, <2>3, <2>4
<1>6. CASE t # <<>>
  <2> DEFINE n == Len(t)
             f == SubSeq(t, 1, n - 1)
             y == t[n]
  <2>1. n \in Nat \ {0} /\ y \in Seq(S)
    BY <1>6, EmptySeq, ElementOfSeq
  <2>2. f \in Seq(Seq(S)) /\ Len(f) = n - 1 /\ t = Append(f, y)
    <3>1. /\ f \in Seq(Seq(S)) /\ Len(f) = n - 1
          /\ \A i \in 1 .. n - 1 : f[i] = t[i]
      <4>1. \A i \in 1 .. n - 1 : t[i] \in Seq(S)
        BY <2>1, ElementOfSeq
      <4>2. /\ f \in Seq(Seq(S))
            /\ Len(f) = IF 1 <= n - 1 THEN n - 1 - 1 + 1 ELSE 0
            /\ \A i \in 1 .. n - 1 - 1 + 1 : f[i] = t[1 + i - 1]
        BY <2>1, <4>1, SubSeqProperties
      <4>3. n \in Nat \ {0}
        BY <2>1
      <4> HIDE DEF f, n, T, Holds
      <4>4. Len(f) = n - 1
        BY <4>2, <4>3
      <4> QED
        BY <4>2, <4>3, <4>4
    <3> HIDE DEF f
    <3>2. /\ Append(f, y) \in Seq(Seq(S)) /\ Len(Append(f, y)) = n
          /\ \A i \in 1 .. n : Append(f, y)[i] = t[i]
      BY <2>1, <3>1, AppendProperties
    <3>3. t = Append(f, y)
      BY <3>2, SeqEqual
    <3> QED
      BY <3>1, <3>3
  <2> HIDE DEF f, y
  <2>3. Holds(f)
    <3>1. n - 1 \in 0 .. m - 1
      BY <1>3, <2>1
    <3>2. n - 1 \notin T /\ n - 1 \in Nat
      <4>1. n - 1 \in Nat
        BY <2>1
      <4> HIDE DEF T, n
      <4> QED
        BY <1>2, <3>1, <4>1
    <3> HIDE DEF n, Holds
    <3> QED
      BY <2>2, <3>2
  <2>4. <<x>> \o t = Append(<<x>> \o f, y)
    <3> HIDE DEF T, Holds
    <3>1. <<x>> \o f \in Seq(Seq(S)) /\ Append(f, y) = f \o <<y>>
          /\ Append(<<x>> \o f, y) = (<<x>> \o f) \o <<y>> /\ <<y>> \in Seq(Seq(S))
      BY <1>4, <2>1, <2>2, ConcatProperties, AppendIsConcat
    <3> QED
      BY <1>4, <2>2, <3>1, ConcatAssociative
  <2>5. FlattenSeq(<<x>> \o t) = FlattenSeq(<<x>> \o f) \o y
    <3>1. <<x>> \o f \in Seq(Seq(S))
      BY <1>4, <2>2, ConcatProperties
    <3> QED
      BY <2>1, <2>4, <3>1, FlattenAppend
  <2>6. FlattenSeq(t) = FlattenSeq(f) \o y /\ FlattenSeq(f) \in Seq(S)
    BY <2>1, <2>2, FlattenAppend, FlattenType
  <2>7. (x \o FlattenSeq(f)) \o y = x \o (FlattenSeq(f) \o y)
    <3> DEFINE g == FlattenSeq(f)
    <3>1. g \in Seq(S) /\ y \in Seq(S)
      BY <2>1, <2>6
    <3> HIDE DEF g, T, Holds
    <3>2. (x \o g) \o y = x \o (g \o y)
      BY <3>1, ConcatAssociative
    <3> QED
      BY <3>2 DEF g
  <2> QED
    BY <1>3, <2>3, <2>5, <2>6, <2>7
<1> QED
  BY <1>5, <1>6

\* What is after the first k elements: the next of them and what is after that one.
LEMMA AfterElements ==
  ASSUME NEW s \in Seq(Seq(Byte)), NEW k \in 0 .. Len(s)
  PROVE  /\ After(s, k) \in Seq(Byte)
         /\ k = Len(s) => After(s, k) = <<>>
         /\ k < Len(s) => After(s, k) = s[k + 1] \o After(s, k + 1)
<1> DEFINE n == Len(s)
           Rest(j) == SubSeq(s, j + 1, n)
<1> HIDE DEF Byte
<1>1. n \in Nat /\ k \in Nat /\ \A i \in 1 .. n : s[i] \in Seq(Byte)
  BY LenProperties, ElementOfSeq
<1>2. ASSUME NEW j \in 0 .. n
      PROVE  /\ Rest(j) \in Seq(Seq(Byte)) /\ Len(Rest(j)) = n - j
             /\ \A i \in 1 .. n - j : Rest(j)[i] = s[j + i]
  <2>1. \A i \in j + 1 .. n : s[i] \in Seq(Byte)
    BY <1>1
  <2>2. /\ Rest(j) \in Seq(Seq(Byte))
        /\ Len(Rest(j)) = IF j + 1 <= n THEN n - (j + 1) + 1 ELSE 0
        /\ \A i \in 1 .. n - (j + 1) + 1 : Rest(j)[i] = s[j + 1 + i - 1]
    BY <1>1, <2>1, SubSeqProperties
  <2> HIDE DEF Rest
  <2> QED
    BY <1>1, <2>2
<1> HIDE DEF Rest
<1>3. After(s, k) = FlattenSeq(Rest(k)) /\ After(s, k + 1) = FlattenSeq(Rest(k + 1))
  BY DEF After, Rest
<1>4. After(s, k) \in Seq(Byte)
  BY <1>2, <1>3, FlattenType
<1>5. ASSUME k = n PROVE After(s, k) = <<>>
  <2>1. Rest(k) = <<>>
    BY <1>1, <1>2, <1>5, EmptySeq
  <2> QED
    BY <1>3, <2>1 DEF FlattenSeq
<1>6. ASSUME k < n PROVE After(s, k) = s[k + 1] \o After(s, k + 1)
  <2> DEFINE x == s[k + 1]
             c == <<x>> \o Rest(k + 1)
  <2>1. x \in Seq(Byte) /\ k + 1 \in 0 .. n
    BY <1>1, <1>6
  <2>2. Rest(k) = c
    <3> HIDE DEF x
    <3>0. x = s[k + 1]
      BY DEF x
    <3>1. /\ Rest(k + 1) \in Seq(Seq(Byte)) /\ Len(Rest(k + 1)) = n - (k + 1)
          /\ \A i \in 1 .. n - (k + 1) : Rest(k + 1)[i] = s[k + 1 + i]
      BY <1>2, <2>1
    <3>2. <<x>> \in Seq(Seq(Byte)) /\ Len(<<x>>) = 1 /\ <<x>>[1] = x
      BY <2>1
    <3>3. /\ c \in Seq(Seq(Byte)) /\ Len(c) = Len(<<x>>) + Len(Rest(k + 1))
          /\ \A i \in 1 .. Len(<<x>>) + Len(Rest(k + 1)) :
               c[i] = IF i <= Len(<<x>>) THEN <<x>>[i] ELSE Rest(k + 1)[i - Len(<<x>>)]
      BY <3>1, <3>2, ConcatProperties
    <3> HIDE DEF c
    <3>4. Len(c) = n - k /\ \A i \in 1 .. n - k : c[i] = s[k + i]
      <4>1. Len(c) = 1 + (n - (k + 1))
        BY <3>1, <3>2, <3>3
      <4>2. ASSUME NEW i \in 1 .. n - k PROVE c[i] = s[k + i]
        <5>0. i \in 1 .. 1 + (n - (k + 1))
          BY <1>1
        <5>1. c[i] = IF i <= 1 THEN x ELSE Rest(k + 1)[i - 1]
          <6> HIDE DEF n
          <6>1. i \in 1 .. Len(<<x>>) + Len(Rest(k + 1))
            BY <3>1, <3>2, <5>0
          <6> QED
            BY <3>2, <3>3, <6>1
        <5>2. CASE i = 1
          BY <3>0, <5>1, <5>2
        <5>3. CASE i # 1
          <6>1. i - 1 \in 1 .. n - (k + 1) /\ k + 1 + (i - 1) = k + i /\ ~(i <= 1)
            BY <1>1, <5>3
          <6> QED
            BY <3>1, <5>1, <6>1
        <5> QED
          BY <5>2, <5>3
      <4>3. 1 + (n - (k + 1)) = n - k
        BY <1>1
      <4> QED
        BY <4>1, <4>2, <4>3
    <3>5. Rest(k) \in Seq(Seq(Byte)) /\ Len(Rest(k)) = n - k
          /\ \A i \in 1 .. n - k : Rest(k)[i] = s[k + i]
      BY <1>2
    <3> QED
      BY <3>3, <3>4, <3>5, SeqEqual
  <2>3. FlattenSeq(c) = x \o FlattenSeq(Rest(k + 1))
    BY <1>2, <2>1, FlattenCons
  <2> QED
    BY <1>3, <2>2, <2>3
<1> QED
  BY <1>4, <1>5, <1>6

\* Concatenation as an operator of its own.
Join(x, y) == x \o y

\* Byte sequences joined in any grouping are those joined from the right.
LEMMA Joins ==
  \A x, y \in Seq(Byte) :
    /\ Join(x, y) \in Seq(Byte)
    /\ \A z \in Seq(Byte) : Join(Join(x, y), z) = Join(x, Join(y, z))
<1> SUFFICES ASSUME NEW x \in Seq(Byte), NEW y \in Seq(Byte)
             PROVE  /\ Join(x, y) \in Seq(Byte)
                    /\ \A z \in Seq(Byte) : Join(Join(x, y), z) = Join(x, Join(y, z))
  OBVIOUS
<1>1. Join(x, y) \in Seq(Byte)
  BY ConcatProperties DEF Join
<1>2. ASSUME NEW z \in Seq(Byte)
      PROVE  Join(Join(x, y), z) = Join(x, Join(y, z))
  <2>1. (x \o y) \o z = x \o (y \o z)
    BY ConcatAssociative
  <2> QED
    BY <2>1 DEF Join
<1> QED
  BY <1>1, <1>2

\* An address before what comes next.
LEMMA AddressExpands ==
  ASSUME NEW n \in Nat, NEW next \in Seq(Byte)
  PROVE  /\ EncodeAddress(n) \o next = AddressToCome(n, next)
         /\ AddressToCome(n, next) \in Seq(Byte)
         /\ Contents(n) \o next \in Seq(Byte)
         /\ cbor_writeToken("BYTES", n) \o (Contents(n) \o next) \in Seq(Byte)
<1> DEFINE t == Tag
           b == cbor_writeToken("BYTES", n)
           c == Contents(n)
<1>1. t \in Seq(Byte) /\ b \in Seq(Byte) /\ c \in Seq(Byte)
  <2>1. n \in Int
    OBVIOUS
  <2> QED
    BY <2>1, TokenTypesOf, ContentBytes
<1>2. EncodeAddress(n) = Join(Join(t, b), c)
  BY DEF EncodeAddress, Tag, Contents, Join
<1>3. AddressToCome(n, next) = Join(t, Join(b, Join(c, next)))
  BY DEF AddressToCome, Join
<1> HIDE DEF t, b, c
<1>4. /\ Join(Join(Join(t, b), c), next) = Join(t, Join(b, Join(c, next)))
      /\ Join(t, Join(b, Join(c, next))) \in Seq(Byte)
      /\ Join(b, Join(c, next)) \in Seq(Byte)
      /\ Join(c, next) \in Seq(Byte)
  BY <1>1, Joins
<1> QED
  BY <1>2, <1>3, <1>4 DEF b, c, Join

\* An input before what comes next.
LEMMA InputExpands ==
  ASSUME NEW n \in Nat, NEW next \in Seq(Byte)
  PROVE  EncodeInput(n) \o next = Array(2) \o (Unsigned(0) \o AddressToCome(n, next))
<1> DEFINE a == Array(2)
           u == Unsigned(0)
           d == EncodeAddress(n)
<1>1. a \in Seq(Byte) /\ u \in Seq(Byte) /\ d \in Seq(Byte)
  BY TokenTypesOf, AddressTypes
<1>2. EncodeInput(n) = Join(Join(a, u), d)
  BY DEF EncodeInput, Array, Unsigned, Join
<1>3. Join(d, next) = AddressToCome(n, next)
  BY AddressExpands DEF Join
<1> HIDE DEF a, u, d
<1>4. Join(Join(Join(a, u), d), next) = Join(a, Join(u, Join(d, next)))
  BY <1>1, Joins
<1> QED
  BY <1>2, <1>3, <1>4 DEF a, u, Join

\* An output before what comes next.
LEMMA OutputExpands ==
  ASSUME NEW o \in Output, NEW next \in Seq(Byte)
  PROVE  /\ EncodeOutput(o) \o next
              = Array(2) \o (Array(2) \o AddressToCome(o.address,
                  Unsigned(o.checksum) \o (Unsigned(o.amount) \o next)))
         /\ Unsigned(o.amount) \o next \in Seq(Byte)
         /\ Unsigned(o.checksum) \o (Unsigned(o.amount) \o next) \in Seq(Byte)
<1> DEFINE a == Array(2)
           d == EncodeAddress(o.address)
           k == Unsigned(o.checksum)
           m == Unsigned(o.amount)
<1>0. o.address \in Nat /\ o.checksum \in Nat /\ o.amount \in Nat
  BY DEF Output
<1>1. a \in Seq(Byte) /\ d \in Seq(Byte) /\ k \in Seq(Byte) /\ m \in Seq(Byte)
  BY <1>0, TokenTypesOf, AddressTypes
<1>2. EncodeOutput(o) = Join(Join(Join(Join(a, a), d), k), m)
  BY DEF EncodeOutput, Array, Unsigned, Join
<1>3. \A z \in Seq(Byte) : Join(d, z) = AddressToCome(o.address, z)
  BY <1>0, AddressExpands DEF Join
<1> HIDE DEF a, d, k, m
<1>4. Join(m, next) \in Seq(Byte) /\ Join(k, Join(m, next)) \in Seq(Byte)
  BY <1>1, Joins
<1>5. Join(Join(Join(Join(Join(a, a), d), k), m), next)
        = Join(a, Join(a, Join(d, Join(k, Join(m, next)))))
  <2> DEFINE two == Join(a, a)
             z == Join(k, Join(m, next))
  <2>1. two \in Seq(Byte) /\ \A y \in Seq(Byte) : Join(two, y) = Join(a, Join(a, y))
    BY <1>1, Joins
  <2>2. Join(d, z) \in Seq(Byte)
    BY <1>1, <1>4, Joins
  <2> HIDE DEF two
  <2>3. Join(two, d) \in Seq(Byte) /\ Join(Join(two, d), z) = Join(two, Join(d, z))
    BY <1>1, <1>4, <2>1, Joins
  <2>4. Join(Join(Join(Join(two, d), k), m), next) = Join(Join(two, d), z)
    BY <1>1, <2>3, Joins
  <2> QED
    BY <2>1, <2>2, <2>3, <2>4 DEF two
<1> QED
  BY <1>2, <1>3, <1>4, <1>5 DEF a, k, m, Join

\* The elements of a transaction.
LEMMA Elements ==
  ASSUME NEW tx \in AllTransactions
  PROVE  /\ Len(tx.inputs) \in Nat /\ Len(tx.outputs) \in Nat
         /\ \A i \in 1 .. Len(tx.inputs) : tx.inputs[i] \in Nat
         /\ \A i \in 1 .. Len(tx.outputs) : tx.outputs[i] \in Output
         /\ Inputs(tx) \in Seq(Seq(Byte)) /\ Len(Inputs(tx)) = Len(tx.inputs)
         /\ \A i \in 1 .. Len(tx.inputs) : Inputs(tx)[i] = EncodeInput(tx.inputs[i])
         /\ Outputs(tx) \in Seq(Seq(Byte)) /\ Len(Outputs(tx)) = Len(tx.outputs)
         /\ \A i \in 1 .. Len(tx.outputs) : Outputs(tx)[i] = EncodeOutput(tx.outputs[i])
<1> HIDE DEF Byte, Output
<1>1. tx.inputs \in Seq(Nat) /\ tx.outputs \in Seq(Output)
  BY DEF AllTransactions, InputLists, OutputLists
<1>2. /\ Len(tx.inputs) \in Nat /\ DOMAIN tx.inputs = 1 .. Len(tx.inputs)
      /\ Len(tx.outputs) \in Nat /\ DOMAIN tx.outputs = 1 .. Len(tx.outputs)
      /\ \A i \in 1 .. Len(tx.inputs) : tx.inputs[i] \in Nat
      /\ \A i \in 1 .. Len(tx.outputs) : tx.outputs[i] \in Output
  BY <1>1, LenProperties, ElementOfSeq
<1>3. /\ \A i \in 1 .. Len(tx.inputs) : EncodeInput(tx.inputs[i]) \in Seq(Byte)
      /\ \A i \in 1 .. Len(tx.outputs) : EncodeOutput(tx.outputs[i]) \in Seq(Byte)
  BY <1>2, ElementTypes
<1> HIDE DEF EncodeInput, EncodeOutput
<1>4. /\ Inputs(tx) \in Seq(Seq(Byte)) /\ Len(Inputs(tx)) = Len(tx.inputs)
      /\ \A i \in 1 .. Len(tx.inputs) : Inputs(tx)[i] = EncodeInput(tx.inputs[i])
  BY <1>2, <1>3 DEF Inputs
<1>5. /\ Outputs(tx) \in Seq(Seq(Byte)) /\ Len(Outputs(tx)) = Len(tx.outputs)
      /\ \A i \in 1 .. Len(tx.outputs) : Outputs(tx)[i] = EncodeOutput(tx.outputs[i])
  BY <1>2, <1>3 DEF Outputs
<1> QED
  BY <1>2, <1>4, <1>5

\* From some output, or some input, on: that one and what follows it.
LEMMA OutputsGoOn ==
  ASSUME NEW tx \in AllTransactions, NEW k \in 0 .. Len(tx.outputs)
  PROVE  /\ OutputsToCome(tx, k) \in Seq(Byte)
         /\ k = Len(tx.outputs) =>
              OutputsToCome(tx, k) = END_INDEF \o cbor_writeToken("MAP", 0)
         /\ k < Len(tx.outputs) =>
              OutputsToCome(tx, k) = EncodeOutput(tx.outputs[k + 1]) \o OutputsToCome(tx, k + 1)
<1> DEFINE end == END_INDEF \o cbor_writeToken("MAP", 0)
           s == Outputs(tx)
<1>1. s \in Seq(Seq(Byte)) /\ Len(s) = Len(tx.outputs) /\ Len(tx.outputs) \in Nat
  BY Elements
<1>2. end \in Seq(Byte)
  <2>1. Join(END_INDEF, cbor_writeToken("MAP", 0)) \in Seq(Byte)
    BY TokenTypesOf, Joins
  <2> QED
    BY <2>1 DEF Join
<1> HIDE DEF s, end
<1>3. \A j \in 0 .. Len(s) : OutputsToCome(tx, j) = Join(After(s, j), end)
  BY DEF OutputsToCome, s, end, Join
<1>4. \A j \in 0 .. Len(s) : After(s, j) \in Seq(Byte)
  BY <1>1, AfterElements
<1>5. OutputsToCome(tx, k) \in Seq(Byte)
  BY <1>1, <1>2, <1>3, <1>4, Joins
<1>6. ASSUME k = Len(tx.outputs) PROVE OutputsToCome(tx, k) = end
  <2>1. After(s, k) = <<>>
    BY <1>1, <1>6, AfterElements
  <2>2. Join(<<>>, end) = end
    BY <1>2, ConcatEmptySeq DEF Join
  <2> QED
    BY <1>1, <1>3, <2>1, <2>2
<1>7. ASSUME k < Len(tx.outputs)
      PROVE  OutputsToCome(tx, k) = EncodeOutput(tx.outputs[k + 1]) \o OutputsToCome(tx, k + 1)
  <2>1. k + 1 \in 1 .. Len(s) /\ k + 1 \in 0 .. Len(s)
    BY <1>1, <1>7
  <2>2. After(s, k) = s[k + 1] \o After(s, k + 1)
    BY <1>1, <1>7, AfterElements
  <2>3. s[k + 1] = EncodeOutput(tx.outputs[k + 1]) /\ s[k + 1] \in Seq(Byte)
    BY <1>1, <2>1, Elements, ElementOfSeq DEF s
  <2>4. Join(Join(s[k + 1], After(s, k + 1)), end) = Join(s[k + 1], Join(After(s, k + 1), end))
    BY <1>2, <1>4, <2>1, <2>3, Joins
  <2>5. After(s, k) = Join(s[k + 1], After(s, k + 1))
    BY <2>2 DEF Join
  <2>6. OutputsToCome(tx, k) = Join(s[k + 1], OutputsToCome(tx, k + 1))
    BY <1>1, <1>3, <2>1, <2>4, <2>5
  <2> QED
    BY <2>3, <2>6 DEF Join
<1> QED
  BY <1>5, <1>6, <1>7 DEF end

LEMMA InputsGoOn ==
  ASSUME NEW tx \in AllTransactions, NEW k \in 0 .. Len(tx.inputs)
  PROVE  /\ InputsToCome(tx, k) \in Seq(Byte)
         /\ k = Len(tx.inputs) =>
              InputsToCome(tx, k) = END_INDEF \o (INDEF \o OutputsToCome(tx, 0))
         /\ k < Len(tx.inputs) =>
              InputsToCome(tx, k) = EncodeInput(tx.inputs[k + 1]) \o InputsToCome(tx, k + 1)
<1> DEFINE end == END_INDEF \o (INDEF \o OutputsToCome(tx, 0))
           s == Inputs(tx)
<1>1. s \in Seq(Seq(Byte)) /\ Len(s) = Len(tx.inputs) /\ Len(tx.inputs) \in Nat
  BY Elements
<1>2. end \in Seq(Byte)
  <2>1. OutputsToCome(tx, 0) \in Seq(Byte)
    <3>1. 0 \in 0 .. Len(tx.outputs)
      BY Elements
    <3> QED
      BY <3>1, OutputsGoOn
  <2>2. Join(END_INDEF, Join(INDEF, OutputsToCome(tx, 0))) \in Seq(Byte)
    BY <2>1, TokenTypesOf, Joins
  <2> QED
    BY <2>2 DEF Join
<1> HIDE DEF s, end
<1>3. \A j \in 0 .. Len(s) : InputsToCome(tx, j) = Join(After(s, j), end)
  BY DEF InputsToCome, s, end, Join
<1>4. \A j \in 0 .. Len(s) : After(s, j) \in Seq(Byte)
  BY <1>1, AfterElements
<1>5. InputsToCome(tx, k) \in Seq(Byte)
  BY <1>1, <1>2, <1>3, <1>4, Joins
<1>6. ASSUME k = Len(tx.inputs) PROVE InputsToCome(tx, k) = end
  <2>1. After(s, k) = <<>>
    BY <1>1, <1>6, AfterElements
  <2>2. Join(<<>>, end) = end
    BY <1>2, ConcatEmptySeq DEF Join
  <2> QED
    BY <1>1, <1>3, <2>1, <2>2
<1>7. ASSUME k < Len(tx.inputs)
      PROVE  InputsToCome(tx, k) = EncodeInput(tx.inputs[k + 1]) \o InputsToCome(tx, k + 1)
  <2>1. k + 1 \in 1 .. Len(s) /\ k + 1 \in 0 .. Len(s)
    BY <1>1, <1>7
  <2>2. After(s, k) = s[k + 1] \o After(s, k + 1)
    BY <1>1, <1>7, AfterElements
  <2>3. s[k + 1] = EncodeInput(tx.inputs[k + 1]) /\ s[k + 1] \in Seq(Byte)
    BY <1>1, <2>1, Elements, ElementOfSeq DEF s
  <2>4. Join(Join(s[k + 1], After(s, k + 1)), end) = Join(s[k + 1], Join(After(s, k + 1), end))
    BY <1>2, <1>4, <2>1, <2>3, Joins
  <2>5. After(s, k) = Join(s[k + 1], After(s, k + 1))
    BY <2>2 DEF Join
  <2>6. InputsToCome(tx, k) = Join(s[k + 1], InputsToCome(tx, k + 1))
    BY <1>1, <1>3, <2>1, <2>4, <2>5
  <2> QED
    BY <2>3, <2>6 DEF Join
<1> QED
  BY <1>5, <1>6, <1>7 DEF end

\* The whole transaction is to come when nothing of it has been read.
LEMMA TxExpands ==
  ASSUME NEW tx \in AllTransactions
  PROVE  EncodeTx(tx) = Array(3) \o (INDEF \o InputsToCome(tx, 0))
<1> DEFINE a == Array(3)
           d == INDEF
           i == EncodeAll(EncodeInput, tx.inputs)
           e == END_INDEF
           o == EncodeAll(EncodeOutput, tx.outputs)
           m == cbor_writeToken("MAP", 0)
<1>1. /\ a \in Seq(Byte) /\ d \in Seq(Byte) /\ i \in Seq(Byte)
      /\ e \in Seq(Byte) /\ o \in Seq(Byte) /\ m \in Seq(Byte)
  BY TokenTypesOf, AllInputs, AllOutputs DEF AllTransactions
<1>2. EncodeTx(tx)
        = Join(Join(Join(Join(Join(Join(Join(a, d), i), e), d), o), e), m)
  BY DEF EncodeTx, Array, Join
<1>3. i = After(Inputs(tx), 0) /\ o = After(Outputs(tx), 0)
  <2>1. SubSeq(Inputs(tx), 0 + 1, Len(Inputs(tx))) = Inputs(tx)
    <3>1. Inputs(tx) \in Seq(Seq(Byte)) /\ 0 + 1 = 1
      BY Elements
    <3> QED
      BY <3>1, SubSeqFull
  <2>2. SubSeq(Outputs(tx), 0 + 1, Len(Outputs(tx))) = Outputs(tx)
    <3>1. Outputs(tx) \in Seq(Seq(Byte)) /\ 0 + 1 = 1
      BY Elements
    <3> QED
      BY <3>1, SubSeqFull
  <2> QED
    BY <2>1, <2>2 DEF After, EncodeAll, Inputs, Outputs
<1>4. /\ InputsToCome(tx, 0)
           = Join(After(Inputs(tx), 0), Join(e, Join(d, OutputsToCome(tx, 0))))
      /\ OutputsToCome(tx, 0) = Join(After(Outputs(tx), 0), Join(e, m))
  BY DEF InputsToCome, OutputsToCome, Join
<1> HIDE DEF a, d, i, e, o, m
<1>5. InputsToCome(tx, 0) = Join(i, Join(e, Join(d, Join(o, Join(e, m)))))
  BY <1>3, <1>4
<1> DEFINE first == Join(Join(Join(a, d), i), e)
           last == Join(d, Join(o, Join(e, m)))
<1>6. Join(Join(Join(Join(first, d), o), e), m) = Join(first, last)
  <2>1. first \in Seq(Byte) /\ Join(o, Join(e, m)) \in Seq(Byte)
    BY <1>1, Joins
  <2> HIDE DEF first
  <2>2. Join(first, d) \in Seq(Byte)
    BY <1>1, <2>1, Joins
  <2>3. Join(Join(first, d), o) \in Seq(Byte)
    BY <1>1, <2>2, Joins
  <2>4. Join(Join(first, d), Join(o, Join(e, m))) = Join(first, last)
    BY <1>1, <2>1, Joins
  <2>5. Join(Join(Join(first, d), o), Join(e, m)) = Join(Join(first, d), Join(o, Join(e, m)))
    <3>1. Join(e, m) \in Seq(Byte)
      BY <1>1, Joins
    <3> QED
      BY <1>1, <2>2, <3>1, Joins
  <2>6. Join(Join(Join(Join(first, d), o), e), m) = Join(Join(Join(first, d), o), Join(e, m))
    BY <1>1, <2>3, Joins
  <2> QED
    BY <2>4, <2>5, <2>6
<1>7. Join(first, last) = Join(a, Join(d, Join(i, Join(e, last))))
  <2>1. last \in Seq(Byte)
    BY <1>1, Joins
  <2> HIDE DEF last
  <2>2. Join(e, last) \in Seq(Byte) /\ Join(i, Join(e, last)) \in Seq(Byte)
    BY <1>1, <2>1, Joins
  <2>3. Join(a, d) \in Seq(Byte) /\ Join(Join(a, d), i) \in Seq(Byte)
    BY <1>1, Joins
  <2>4. Join(first, last) = Join(Join(Join(a, d), i), Join(e, last))
    BY <1>1, <2>1, <2>3, Joins
  <2>5. Join(Join(Join(a, d), i), Join(e, last)) = Join(Join(a, d), Join(i, Join(e, last)))
    BY <1>1, <2>2, <2>3, Joins
  <2>6. Join(Join(a, d), Join(i, Join(e, last))) = Join(a, Join(d, Join(i, Join(e, last))))
    BY <1>1, <2>2, Joins
  <2> QED
    BY <2>4, <2>5, <2>6
<1> QED
  BY <1>2, <1>5, <1>6, <1>7 DEF a, d, Join

-----------------------------------------------------------------------------
(***************************************************************************)
(* A token that is expected is taken as soon as all of it has arrived.     *)
(***************************************************************************)

\* The token of this type and this value.
TokenOf(type, v) == [type |-> type, value |-> v, width |-> WidthOf(v)]

\* This token is at the head of u, with `left` behind it, and then `more`: z.
Arrived(u, t, left, more, z) ==
  /\ cbor_parseError(u) = OK
  /\ u # <<>>
  /\ Head(u).token = t
  /\ left = SubSeq(u, 1 + t.width + 1, Len(u))
  /\ left \in Seq(Byte)
  /\ left \o more = z

\* Without its first k bytes u, and then `more`, is f.
Leaves(u, k, more, f) ==
  LET left == SubSeq(u, k + 1, Len(u))
  IN left \in Seq(Byte) /\ left \o more = f

\* What comes behind a common beginning that is within u.
LEMMA Cancels ==
  ASSUME NEW u \in Seq(Byte), NEW more \in Seq(Byte), NEW c \in Seq(Byte), NEW f \in Seq(Byte),
         u \o more = c \o f, NEW k, k = Len(c), k <= Len(u)
  PROVE  Leaves(u, k, more, f)
<1> DEFINE left == SubSeq(u, k + 1, Len(u))
           e == left \o more
           d == u \o more
<1>1. k \in Nat /\ k \in 0 .. Len(u) /\ Len(f) \in Nat /\ Len(u) \in Nat
  BY LenProperties
<1>2. left \in Seq(Byte)
  BY <1>1, Left
<1>3. Len(d) = k + Len(e)
  BY <1>1, Left
<1>4. \A j \in 1 .. Len(e) : e[j] = d[k + j]
  BY <1>1, Left
<1> HIDE DEF left
<1>5. e \in Seq(Byte) /\ Len(e) \in Nat
  BY <1>2, ConcatProperties, LenProperties
<1> HIDE DEF e
<1>6. /\ Len(c \o f) = Len(c) + Len(f)
      /\ \A i \in 1 .. Len(c) + Len(f) : (c \o f)[i] = IF i <= Len(c) THEN c[i] ELSE f[i - Len(c)]
  BY ConcatProperties
<1>7. d = c \o f
  OBVIOUS
<1> HIDE DEF d
<1>8. /\ Len(d) = k + Len(f)
      /\ \A i \in 1 .. k + Len(f) : d[i] = IF i <= k THEN c[i] ELSE f[i - k]
  BY <1>6, <1>7
<1>9. Len(e) = Len(f)
  BY <1>1, <1>3, <1>5, <1>8
<1>10. \A j \in 1 .. Len(f) : e[j] = f[j]
  <2> TAKE j \in 1 .. Len(f)
  <2> DEFINE i == k + j
  <2>1. i \in 1 .. k + Len(f) /\ ~(i <= k) /\ i - k = j
    BY <1>1
  <2>2. e[j] = d[i]
    BY <1>4, <1>9
  <2> HIDE DEF i
  <2>3. d[i] = f[i - k]
    BY <1>8, <2>1
  <2> QED
    BY <2>1, <2>2, <2>3
<1>11. e = f
  BY <1>5, <1>9, <1>10, SeqEqual
<1> QED
  BY <1>2, <1>11 DEF left, e, Leaves

\* When u and what follows it begin with a token, u holds that token or needs more.
LEMMA HeadIsToken ==
  ASSUME NEW u \in Seq(Byte), NEW more \in Seq(Byte), NEW z \in Seq(Byte),
         NEW type \in TokenTypes, NEW v \in Nat,
         u \o more = cbor_writeToken(type, v) \o z
  PROVE  \/ cbor_parseError(u) = ERR_NOT_ENOUGH_INPUT /\ more # <<>>
         \/ \E left : Arrived(u, TokenOf(type, v), left, more, z)
<1> DEFINE w == WidthOf(v)
           t == TokenOf(type, v)
           b == BytesOf(t)
           d == u \o more
<1>1. /\ t \in Token /\ w \in 0 .. 8 /\ t.type \in TokenTypes /\ t.width = w /\ t.value = v
      /\ ~(v < LimitMin(w))
  <2>1. w \in {0, 1, 2, 4, MAX_WIDTH}
    BY Widths
  <2>2. ~(v < LimitMin(w))
    BY WidthsAssumption DEF WidthOf, LimitMin, MAX_WIDTH
  <2>3. t.type = type /\ t.value = v /\ t.width = w
    BY DEF TokenOf
  <2>4. t \in Token
    <3> HIDE DEF w
    <3> QED
      BY <2>1 DEF Token, TokenOf, w
  <2> HIDE DEF t, w
  <2> QED
    BY <2>1, <2>2, <2>3, <2>4 DEF MAX_WIDTH
<1>2. cbor_writeToken(type, v) = b
  BY DEF cbor_writeToken, TokenOf
<1> HIDE DEF t, w
<1>3. /\ b \in Seq(Byte) /\ Len(b) = 1 + w
      /\ \A i \in 1 .. 1 + w : b[i] = [token |-> t, at |-> i - 1]
  BY <1>1, TokenBytes
<1> HIDE DEF b
<1>4. Len(u) \in Nat /\ Len(more) \in Nat /\ Len(z) \in Nat
  BY LenProperties
<1>5. /\ d \in Seq(Byte) /\ Len(d) = Len(u) + Len(more)
      /\ \A i \in 1 .. Len(u) + Len(more) : d[i] = IF i <= Len(u) THEN u[i] ELSE more[i - Len(u)]
  BY ConcatProperties
<1>6. /\ Len(d) = Len(b) + Len(z)
      /\ \A i \in 1 .. Len(b) + Len(z) : d[i] = IF i <= Len(b) THEN b[i] ELSE z[i - Len(b)]
  BY <1>2, <1>3, ConcatProperties
<1>7. Len(u) + Len(more) = 1 + w + Len(z)
  BY <1>3, <1>5, <1>6
<1> HIDE DEF d
<1>8. CASE u = <<>>
  <2>1. Len(u) = 0
    BY <1>8
  <2>2. more # <<>>
    BY <1>1, <1>4, <1>7, <2>1, EmptySeq
  <2>3. cbor_parseError(u) = ERR_NOT_ENOUGH_INPUT
    BY <1>8 DEF cbor_parseError
  <2> QED
    BY <2>2, <2>3
<1>9. CASE u # <<>>
  <2>1. Len(u) # 0 /\ Head(u) = u[1]
    BY <1>9, EmptySeq
  <2>2. u[1] = [token |-> t, at |-> 0]
    <3>1. d[1] = u[1]
      BY <1>4, <1>5, <2>1
    <3>2. d[1] = b[1]
      BY <1>1, <1>3, <1>4, <1>6
    <3>3. b[1] = [token |-> t, at |-> 0]
      BY <1>1, <1>3
    <3> QED
      BY <3>1, <3>2, <3>3
  <2>3. Head(u).token = t
    BY <2>1, <2>2
  <2>4. cbor_parseError(u) = IF ~(1 + w <= Len(u)) THEN ERR_NOT_ENOUGH_INPUT ELSE OK
    BY <1>1, <1>9, <2>3 DEF cbor_parseError, HasBytes
  <2>5. CASE ~(1 + w <= Len(u))
    <3>1. more # <<>>
      BY <1>1, <1>4, <1>7, <2>5, EmptySeq
    <3> QED
      BY <2>4, <2>5, <3>1
  <2>6. CASE 1 + w <= Len(u)
    <3> DEFINE k == 1 + w
               left == SubSeq(u, k + 1, Len(u))
    <3>1. k = Len(b) /\ k <= Len(u) /\ u \o more = b \o z
      BY <1>2, <1>3, <2>6
    <3> HIDE DEF k
    <3>2. Leaves(u, k, more, z)
      BY <1>3, <3>1, Cancels
    <3>7. left \in Seq(Byte) /\ left \o more = z
      BY <3>2 DEF Leaves
    <3> HIDE DEF left
    <3>8. left = SubSeq(u, 1 + t.width + 1, Len(u))
      BY <1>1 DEF left, k
    <3>11. Arrived(u, t, left, more, z)
      BY <1>9, <2>3, <2>4, <2>6, <3>7, <3>8 DEF Arrived
    <3> QED
      BY <3>11 DEF t
  <2> QED
    BY <2>5, <2>6
<1> QED
  BY <1>8, <1>9

\* Towards g, with z left: all that is missing is bytes that are still to be sent, or
\* the parser has gone on.
Advances(p, step, g, more, z) ==
  \/ step = Throws(p, ERR_NOT_ENOUGH_INPUT) /\ more # <<>>
  \/ \E left \in Seq(Byte), k \in Nat :
       step = Goes(Behind(g, left, k)) /\ left \o more = z

\* A token of the type and the value that come next.
LEMMA TakeExpected ==
  ASSUME NEW p \in Parser, NEW more \in Seq(Byte), NEW z \in Seq(Byte),
         NEW type \in TokenTypes, NEW v \in Nat,
         p.unread \o more = cbor_writeToken(type, v) \o z,
         NEW next, v \in DOMAIN next, next[v].unread = p.unread
  PROVE  Advances(p, Take(p, type, next), next[v], more, z)
<1> DEFINE u == p.unread
           t == TokenOf(type, v)
<1>1. u \in Seq(Byte)
  BY DEF Parser
<1>2. \/ cbor_parseError(u) = ERR_NOT_ENOUGH_INPUT /\ more # <<>>
      \/ \E left : Arrived(u, t, left, more, z)
  BY <1>1, HeadIsToken
<1>3. CASE cbor_parseError(u) = ERR_NOT_ENOUGH_INPUT /\ more # <<>>
  BY <1>3 DEF Take, Advances, ERR_NOT_ENOUGH_INPUT, OK
<1>4. CASE \E left : Arrived(u, t, left, more, z)
  <2>1. PICK left : Arrived(u, t, left, more, z)
    BY <1>4
  <2>2. t.type = type /\ t.value = v /\ t.width \in {0, 1, 2, 4, MAX_WIDTH}
    BY Widths DEF TokenOf
  <2> HIDE DEF t
  <2>3. 1 + t.width \in Nat
    BY <2>2 DEF MAX_WIDTH
  <2>4. Take(p, type, next) = Goes(stream_advancePos(next[v], 1 + t.width))
    BY <2>1, <2>2 DEF Take, Taken, Arrived
  <2>5. stream_advancePos(next[v], 1 + t.width) = Behind(next[v], left, 1 + t.width)
    BY <2>1 DEF stream_advancePos, Behind, Arrived
  <2>6. left \in Seq(Byte) /\ left \o more = z
    BY <2>1 DEF Arrived
  <2> QED
    BY <2>3, <2>4, <2>5, <2>6 DEF Advances
<1> QED
  BY <1>2, <1>3, <1>4

\* A token of which only one value will do.
LEMMA TakeOneExpected ==
  ASSUME NEW p \in Parser, NEW more \in Seq(Byte), NEW z \in Seq(Byte),
         NEW type \in TokenTypes, NEW v \in Nat,
         p.unread \o more = cbor_writeToken(type, v) \o z,
         NEW g, g.unread = p.unread
  PROVE  Advances(p, Take(p, type, One(v, g)), g, more, z)
<1> DEFINE next == One(v, g)
<1>1. v \in DOMAIN next /\ next[v] = g
  BY DEF One
<1> HIDE DEF next
<1>2. Advances(p, Take(p, type, next), next[v], more, z)
  BY <1>1, TakeExpected
<1> QED
  BY <1>1, <1>2 DEF next

\* Content is skipped as far as it has arrived.
LEMMA SkipExpected ==
  ASSUME NEW p \in Parser, NEW more \in Seq(Byte), NEW z \in Seq(Byte),
         p.addressDataRemainingBytes # 0,
         p.unread \o more = Contents(p.addressDataRemainingBytes) \o z
  PROVE  \/ /\ parser_skipThroughAddressBytes(p) = Throws(p, ERR_NOT_ENOUGH_INPUT)
            /\ more # <<>>
         \/ \E left \in Seq(Byte), k \in Nat, n \in Nat :
              /\ parser_skipThroughAddressBytes(p)
                   = Goes([Behind(p, left, k) EXCEPT !.addressDataRemainingBytes = n])
              /\ left \o more = Contents(n) \o z
<1> DEFINE u == p.unread
           r == p.addressDataRemainingBytes
           k == SmallerOf(Len(u), r)
           left == SubSeq(u, k + 1, Len(u))
           d == u \o more
           n == r - k
<1>1. u \in Seq(Byte) /\ r \in Nat \ {0} /\ Len(u) \in Nat /\ Len(more) \in Nat /\ Len(z) \in Nat
  <2>1. u \in Seq(Byte) /\ r \in Nat
    BY DEF Parser
  <2> QED
    BY <2>1, LenProperties
<1>2. /\ Contents(r) \in Seq(Byte) /\ Len(Contents(r)) = r
  BY <1>1, ContentBytes
<1>3. /\ d \in Seq(Byte) /\ Len(d) = Len(u) + Len(more) /\ Len(d) = r + Len(z)
  BY <1>1, <1>2, ConcatProperties
<1>4. CASE u = <<>>
  <2>1. Len(u) = 0
    BY <1>4
  <2> HIDE DEF d
  <2>2. more # <<>>
    BY <1>1, <1>3, <2>1, EmptySeq
  <2> QED
    BY <1>4, <2>2 DEF parser_skipThroughAddressBytes
<1>5. CASE u # <<>>
  <2>1. k \in 0 .. Len(u) /\ k \in Nat /\ k <= r /\ n \in Nat /\ k + n = r
    <3> HIDE DEF u, r
    <3> QED
      BY <1>1 DEF SmallerOf
  <2>2. parser_skipThroughAddressBytes(p)
          = Goes([Behind(p, left, k) EXCEPT !.addressDataRemainingBytes = n])
    <3>1. stream_advancePos(p, k) = Behind(p, left, k)
      BY DEF stream_advancePos, Behind
    <3>2. Behind(p, left, k).addressDataRemainingBytes = r
      BY DEF Behind, Parser
    <3>3. parser_skipThroughAddressBytes(p)
            = Goes([stream_advancePos(p, k) EXCEPT !.addressDataRemainingBytes = @ - k])
      BY <1>5 DEF parser_skipThroughAddressBytes
    <3> HIDE DEF k, left, u
    <3> QED
      BY <3>1, <3>2, <3>3
  <2> HIDE DEF k, n
  <2>4. Contents(r) = Contents(k) \o Contents(n) /\ Contents(k) \in Seq(Byte)
        /\ Contents(n) \in Seq(Byte) /\ Len(Contents(k)) = k
    <3>1. Contents(k + n) = Contents(k) \o Contents(n)
      BY <2>1, MoreContent
    <3>2. k \in Int /\ n \in Int /\ k >= 0
      BY <2>1
    <3>3. Contents(k) \in Seq(Byte) /\ Contents(n) \in Seq(Byte) /\ Len(Contents(k)) = k
      BY <3>2, ContentBytes
    <3> QED
      BY <2>1, <3>1, <3>3
  <2> DEFINE c == Contents(k)
             x == Contents(n)
             f == x \o z
  <2>5. c \in Seq(Byte) /\ x \in Seq(Byte) /\ Len(c) = k
    BY <2>4
  <2>6. d = Join(Join(c, x), z)
    BY <2>4 DEF Join
  <2> HIDE DEF c, x, d
  <2>7. Join(Join(c, x), z) = Join(c, Join(x, z)) /\ Join(x, z) \in Seq(Byte)
    BY <2>5, Joins
  <2>8. u \o more = c \o f /\ f \in Seq(Byte)
    BY <2>6, <2>7 DEF Join, d
  <2> HIDE DEF f, u
  <2>9. k = Len(c) /\ k <= Len(u)
    BY <2>1, <2>5
  <2>10. u \in Seq(Byte)
    BY <1>1
  <2>11. Leaves(u, k, more, f)
    BY <2>5, <2>8, <2>9, <2>10, Cancels
  <2>12. left \in Seq(Byte) /\ left \o more = Contents(n) \o z
    BY <2>11 DEF f, x, Leaves
  <2> QED
    BY <2>1, <2>2, <2>12
<1> QED
  BY <1>4, <1>5

\* The end of an indefinite array where it is expected.
LEMMA EndExpected ==
  ASSUME NEW p \in Parser, NEW more \in Seq(Byte), NEW z \in Seq(Byte),
         p.unread \o more = END_INDEF \o z,
         NEW end, end.unread = p.unread, NEW element
  PROVE  Advances(p, EndOrElement(p, end, element), end, more, z)
<1> DEFINE u == p.unread
           t == TokenOf("INDEF_END", 0)
<1>1. u \in Seq(Byte) /\ "INDEF_END" \in TokenTypes /\ 0 \in Nat
  BY DEF Parser, TokenTypes
<1>2. u \o more = cbor_writeToken("INDEF_END", 0) \o z
  BY DEF END_INDEF
<1>3. \/ cbor_parseError(u) = ERR_NOT_ENOUGH_INPUT /\ more # <<>>
      \/ \E left : Arrived(u, t, left, more, z)
  BY <1>1, <1>2, HeadIsToken
<1>4. CASE cbor_parseError(u) = ERR_NOT_ENOUGH_INPUT /\ more # <<>>
  BY <1>4 DEF EndOrElement, Advances, ERR_NOT_ENOUGH_INPUT, OK
<1>5. CASE \E left : Arrived(u, t, left, more, z)
  <2>1. cbor_parseError(u) = OK /\ Head(u).token = t
    BY <1>5 DEF Arrived
  <2>2. t.type = "INDEF_END"
    BY DEF TokenOf
  <2> HIDE DEF t
  <2>3. EndOrElement(p, end, element) = Take(p, "INDEF_END", One(0, end))
    BY <2>1, <2>2 DEF EndOrElement, One
  <2> QED
    BY <1>1, <1>2, <2>3, TakeOneExpected
<1> QED
  BY <1>3, <1>4, <1>5

\* An element where one is expected: what begins with an array is not the end.
LEMMA ElementExpected ==
  ASSUME NEW p \in Parser, NEW more \in Seq(Byte), NEW z \in Seq(Byte),
         p.unread \o more = Array(2) \o z, NEW end, NEW element
  PROVE  \/ /\ EndOrElement(p, end, element) = Throws(p, ERR_NOT_ENOUGH_INPUT)
            /\ more # <<>>
         \/ EndOrElement(p, end, element) = Goes(element)
<1> DEFINE u == p.unread
           t == TokenOf("ARRAY", 2)
<1>1. u \in Seq(Byte) /\ "ARRAY" \in TokenTypes /\ 2 \in Nat
  BY DEF Parser, TokenTypes
<1>2. u \o more = cbor_writeToken("ARRAY", 2) \o z
  BY DEF Array
<1>3. \/ cbor_parseError(u) = ERR_NOT_ENOUGH_INPUT /\ more # <<>>
      \/ \E left : Arrived(u, t, left, more, z)
  BY <1>1, <1>2, HeadIsToken
<1>4. CASE cbor_parseError(u) = ERR_NOT_ENOUGH_INPUT /\ more # <<>>
  BY <1>4 DEF EndOrElement, ERR_NOT_ENOUGH_INPUT, OK
<1>5. CASE \E left : Arrived(u, t, left, more, z)
  <2>1. cbor_parseError(u) = OK /\ Head(u).token = t
    BY <1>5 DEF Arrived
  <2>2. t.type # "INDEF_END"
    BY DEF TokenOf
  <2> HIDE DEF t
  <2> QED
    BY <2>1, <2>2 DEF EndOrElement
<1> QED
  BY <1>3, <1>4, <1>5

-----------------------------------------------------------------------------
(***************************************************************************)
(* A step of a parser that is on its way through a transaction: it lacks   *)
(* only what is still to be sent, or it is on its way afterwards.          *)
(***************************************************************************)
Underway(p, tx, i, more) ==
  /\ p \in Parser
  /\ Started(p)
  /\ tx \in AllTransactions
  /\ i \in Nat
  /\ more \in Seq(Byte)
  /\ OnTheWay(p, tx, i, more)

GoesItsWay(p, step, tx, more) ==
  \/ step = Throws(p, ERR_NOT_ENOUGH_INPUT) /\ more # <<>>
  \/ \E q, i : step = Goes(q) /\ i \in Nat /\ OnTheWay(q, tx, i, more)

\* g is where the parser may be between two tokens, with i inputs behind it.
IsPlace(g, tx, i) ==
  /\ g \in Parser
  /\ i \in Nat
  /\ i <= Len(tx.inputs)
  /\ g.mainState = "IN_INPUT" => i < Len(tx.inputs)
  /\ OutputAt(g, tx)

\* Going on without a token.
LEMMA WayGoes ==
  ASSUME NEW p, NEW tx, NEW more, NEW g, NEW i, IsPlace(g, tx, i),
         g.unread \o more = ToCome(g, tx, i)
  PROVE  GoesItsWay(p, Goes(g), tx, more)
<1>1. OnTheWay(g, tx, i, more) /\ i \in Nat
  BY DEF OnTheWay, IsPlace
<1> QED
  BY <1>1 DEF GoesItsWay

\* Going on behind a token.
LEMMA WayAdvances ==
  ASSUME NEW p, NEW tx, NEW more, NEW g, NEW i, IsPlace(g, tx, i),
         NEW step, Advances(p, step, g, more, ToCome(g, tx, i))
  PROVE  GoesItsWay(p, step, tx, more)
<1>1. CASE step = Throws(p, ERR_NOT_ENOUGH_INPUT) /\ more # <<>>
  BY <1>1 DEF GoesItsWay
<1>2. CASE \E left \in Seq(Byte), k \in Nat :
             step = Goes(Behind(g, left, k)) /\ left \o more = ToCome(g, tx, i)
  <2>1. PICK left \in Seq(Byte), k \in Nat :
          step = Goes(Behind(g, left, k)) /\ left \o more = ToCome(g, tx, i)
    BY <1>2
  <2> DEFINE q == Behind(g, left, k)
  <2>2. /\ q.unread = left
        /\ q.mainState = g.mainState /\ q.inputState = g.inputState
        /\ q.outputState = g.outputState
        /\ q.addressDataRemainingBytes = g.addressDataRemainingBytes
        /\ q.currentOutputIndex = g.currentOutputIndex
        /\ q.attestedOutputIndex = g.attestedOutputIndex
        /\ q.outputAmount = g.outputAmount
    BY DEF Behind, Parser, IsPlace
  <2> HIDE DEF q
  <2>3. /\ \A n, z : InputToCome(q, n, z) = InputToCome(g, n, z)
        /\ \A o, z : OutputToCome(q, o, z) = OutputToCome(g, o, z)
    BY <2>2 DEF InputToCome, OutputToCome
  <2>4. ToCome(q, tx, i) = ToCome(g, tx, i)
    BY <2>2, <2>3 DEF ToCome
  <2>5. OutputAt(q, tx)
    BY <2>2 DEF OutputAt, IsPlace
  <2>6. OnTheWay(q, tx, i, more) /\ i \in Nat
    BY <2>1, <2>2, <2>4, <2>5 DEF OnTheWay, IsPlace
  <2> QED
    BY <2>1, <2>6 DEF GoesItsWay, q
<1> QED
  BY <1>1, <1>2 DEF Advances

\* A parser that has skipped content.
LEMMA SkippedTo ==
  ASSUME NEW p \in Parser, NEW left \in Seq(Byte), NEW k \in Nat, NEW n \in Nat
  PROVE  LET g == [Behind(p, left, k) EXCEPT !.addressDataRemainingBytes = n]
         IN /\ g \in Parser
            /\ g.unread = left
            /\ g.addressDataRemainingBytes = n
            /\ g.mainState = p.mainState
            /\ g.inputState = p.inputState
            /\ g.outputState = p.outputState
            /\ g.currentOutputIndex = p.currentOutputIndex
            /\ g.attestedOutputIndex = p.attestedOutputIndex
            /\ g.outputAmount = p.outputAmount
<1>1. p.bufferPos + k \in Nat
  BY DEF Parser
<1> HIDE DEF MainStates, InputStates, OutputStates, Byte
<1> QED
  BY <1>1 DEF Behind, Parser

\* No content comes before what comes next.
LEMMA NoContents ==
  ASSUME NEW next \in Seq(Byte)
  PROVE  Contents(0) \o next = next
<1>1. Contents(0) \in Seq(Byte) /\ Len(Contents(0)) = 0
  BY ContentBytes
<1>2. Contents(0) = <<>>
  BY <1>1, EmptySeq
<1> QED
  BY <1>2, ConcatEmptySeq

\* In an input: where it is, and what comes next.
LEMMA InputPlace ==
  ASSUME NEW p, NEW tx, NEW i, NEW more, Underway(p, tx, i, more), p.mainState = "IN_INPUT",
         NEW g \in Parser, g.mainState = "IN_INPUT"
  PROVE  LET size == tx.inputs[i + 1]
             next == InputsToCome(tx, i + 1)
         IN /\ IsPlace(g, tx, i)
            /\ ToCome(g, tx, i) = InputToCome(g, size, next)
            /\ p.unread \o more = InputToCome(p, size, next)
            /\ size \in Nat
            /\ next \in Seq(Byte)
<1>1. /\ tx \in AllTransactions /\ i \in Nat /\ i < Len(tx.inputs) /\ i <= Len(tx.inputs)
      /\ p.unread \o more = ToCome(p, tx, i)
  BY DEF Underway, OnTheWay
<1>2. IsPlace(g, tx, i)
  BY <1>1 DEF IsPlace, OutputAt
<1>3. i + 1 \in 1 .. Len(tx.inputs) /\ i + 1 \in 0 .. Len(tx.inputs)
  BY <1>1, Elements
<1>4. tx.inputs[i + 1] \in Nat
  BY <1>1, <1>3, Elements
<1>5. InputsToCome(tx, i + 1) \in Seq(Byte)
  BY <1>1, <1>3, InputsGoOn
<1>6. ToCome(g, tx, i) = InputToCome(g, tx.inputs[i + 1], InputsToCome(tx, i + 1))
  BY DEF ToCome
<1>7. ToCome(p, tx, i) = InputToCome(p, tx.inputs[i + 1], InputsToCome(tx, i + 1))
  BY DEF ToCome
<1> QED
  BY <1>1, <1>2, <1>4, <1>5, <1>6, <1>7

\* A step of an input.
LEMMA InputGoesItsWay ==
  ASSUME NEW p, NEW tx, NEW i, NEW more, Underway(p, tx, i, more),
         p.mainState = "IN_INPUT", p.inputState # "FINISHED"
  PROVE  GoesItsWay(p, parser_advanceInputState(p), tx, more)
<1> DEFINE step == parser_advanceInputState(p)
           size == tx.inputs[i + 1]
           next == InputsToCome(tx, i + 1)
           address == AddressToCome(size, next)
           content == Contents(size) \o next
<1>1. /\ p \in Parser /\ more \in Seq(Byte) /\ p.inputState \in InputStates
      /\ p.inputState # "none"
  BY DEF Underway, Parser, Started
<1>2. /\ p.unread \o more = InputToCome(p, size, next)
      /\ size \in Nat /\ next \in Seq(Byte)
      /\ \A g \in Parser : g.mainState = "IN_INPUT" =>
           IsPlace(g, tx, i) /\ ToCome(g, tx, i) = InputToCome(g, size, next)
  BY <1>1, InputPlace
<1>3. address \in Seq(Byte) /\ content \in Seq(Byte)
      /\ cbor_writeToken("BYTES", size) \o content \in Seq(Byte)
  BY <1>2, AddressExpands
<1>4. Unsigned(0) \o address \in Seq(Byte)
  <2>1. Join(Unsigned(0), address) \in Seq(Byte)
    BY <1>3, TokenTypesOf, Joins
  <2> QED
    BY <2>1 DEF Join
<1>5. address = Tag \o (cbor_writeToken("BYTES", size) \o content)
  BY DEF AddressToCome
<1>6. {"ARRAY", "UNSIGNED", "TAG", "BYTES"} \subseteq TokenTypes /\ {0, 2} \subseteq Nat
      /\ CBOR_TAG_EMBEDDED_CBOR_BYTE_STRING \in Nat
  BY DEF TokenTypes, CBOR_TAG_EMBEDDED_CBOR_BYTE_STRING
<1>7. \A state \in InputStates :
        LET g == InputIn(p, state)
        IN /\ g \in Parser /\ g.mainState = "IN_INPUT" /\ g.inputState = state
           /\ g.unread = p.unread
  BY <1>1, InputTo DEF MovesInput
<1> USE DEF InputStates
<1> HIDE DEF address, content, next, size
<1>8. CASE p.inputState = "NOT_STARTED"
  <2> DEFINE g == InputIn(p, "EXPECT_PREAMBLE")
  <2>1. step = Goes(g)
    BY <1>8 DEF parser_advanceInputState, InputIn
  <2>2. /\ g \in Parser /\ g.mainState = "IN_INPUT" /\ g.inputState = "EXPECT_PREAMBLE"
        /\ g.unread = p.unread
    BY <1>7
  <2> HIDE DEF g
  <2>3. g.unread \o more = ToCome(g, tx, i) /\ IsPlace(g, tx, i)
    BY <1>2, <1>8, <2>2 DEF InputToCome
  <2> QED
    BY <2>1, <2>3, WayGoes
<1>9. CASE p.inputState = "EXPECT_PREAMBLE"
  <2> DEFINE g == InputIn(p, "EXPECT_TYPE")
  <2>1. step = Take(p, "ARRAY", One(2, g))
    BY <1>9 DEF parser_advanceInputState, InputIn, One
  <2>2. /\ g \in Parser /\ g.mainState = "IN_INPUT" /\ g.inputState = "EXPECT_TYPE"
        /\ g.unread = p.unread
    BY <1>7
  <2> HIDE DEF g
  <2>3. p.unread \o more = cbor_writeToken("ARRAY", 2) \o (Unsigned(0) \o address)
    BY <1>2, <1>9 DEF InputToCome, Array, address
  <2>4. ToCome(g, tx, i) = Unsigned(0) \o address /\ IsPlace(g, tx, i)
    BY <1>2, <2>2 DEF InputToCome, address
  <2>5. Advances(p, step, g, more, Unsigned(0) \o address)
    BY <1>1, <1>4, <1>6, <2>1, <2>2, <2>3, TakeOneExpected
  <2> QED
    BY <2>4, <2>5, WayAdvances
<1>10. CASE p.inputState = "EXPECT_TYPE"
  <2> DEFINE g == InputIn(p, "EXPECT_TAG")
  <2>1. step = Take(p, "UNSIGNED", One(0, g))
    BY <1>10 DEF parser_advanceInputState, InputIn, One
  <2>2. /\ g \in Parser /\ g.mainState = "IN_INPUT" /\ g.inputState = "EXPECT_TAG"
        /\ g.unread = p.unread
    BY <1>7
  <2> HIDE DEF g
  <2>3. p.unread \o more = cbor_writeToken("UNSIGNED", 0) \o address
    BY <1>2, <1>10 DEF InputToCome, Unsigned, address
  <2>4. ToCome(g, tx, i) = address /\ IsPlace(g, tx, i)
    BY <1>2, <2>2 DEF InputToCome, address
  <2>5. Advances(p, step, g, more, address)
    BY <1>1, <1>3, <1>6, <2>1, <2>2, <2>3, TakeOneExpected
  <2> QED
    BY <2>4, <2>5, WayAdvances
<1>11. CASE p.inputState = "EXPECT_TAG"
  <2> DEFINE g == InputIn(p, "EXPECT_ADDRESS_DATA_PREAMBLE")
             z == cbor_writeToken("BYTES", size) \o content
  <2>1. step = Take(p, "TAG", One(CBOR_TAG_EMBEDDED_CBOR_BYTE_STRING, g))
    BY <1>11 DEF parser_advanceInputState, InputIn, One
  <2>2. /\ g \in Parser /\ g.mainState = "IN_INPUT"
        /\ g.inputState = "EXPECT_ADDRESS_DATA_PREAMBLE" /\ g.unread = p.unread
    BY <1>7
  <2> HIDE DEF g
  <2>3. p.unread \o more = cbor_writeToken("TAG", CBOR_TAG_EMBEDDED_CBOR_BYTE_STRING) \o z
    <3>1. p.unread \o more = address
      BY <1>2, <1>11 DEF InputToCome, address
    <3> QED
      BY <1>5, <3>1 DEF Tag
  <2>4. ToCome(g, tx, i) = z /\ IsPlace(g, tx, i)
    BY <1>2, <2>2 DEF InputToCome, content
  <2>5. Advances(p, step, g, more, z)
    BY <1>1, <1>3, <1>6, <2>1, <2>2, <2>3, TakeOneExpected
  <2> QED
    BY <2>4, <2>5, WayAdvances
<1>12. CASE p.inputState = "EXPECT_ADDRESS_DATA_PREAMBLE"
  <2> DEFINE later == [v \in Nat |-> InputAtAddress(p, v)]
             g == InputAtAddress(p, size)
  <2>1. step = Take(p, "BYTES", later)
    BY <1>12 DEF parser_advanceInputState, InputAtAddress, InputIn
  <2>2. /\ g \in Parser /\ g.mainState = "IN_INPUT" /\ g.inputState = "IN_ADDRESS_DATA"
        /\ g.unread = p.unread /\ g.addressDataRemainingBytes = size
    <3>1. MovesInput(p, g, "IN_ADDRESS_DATA") /\ g.addressDataRemainingBytes = size
      BY <1>1, <1>2, InputTo
    <3> HIDE DEF g
    <3> QED
      BY <3>1 DEF MovesInput
  <2>3. size \in DOMAIN later /\ later[size] = g
    BY <1>2
  <2> HIDE DEF g, later
  <2>4. p.unread \o more = cbor_writeToken("BYTES", size) \o content
    BY <1>2, <1>12 DEF InputToCome, content
  <2>5. ToCome(g, tx, i) = content /\ IsPlace(g, tx, i)
    BY <1>2, <2>2 DEF InputToCome, content
  <2>6. Advances(p, step, later[size], more, content)
    BY <1>1, <1>2, <1>3, <1>6, <2>1, <2>2, <2>3, <2>4, TakeExpected
  <2> QED
    BY <2>3, <2>5, <2>6, WayAdvances
<1>13. CASE p.inputState = "IN_ADDRESS_DATA"
  <2>1. p.unread \o more = Contents(p.addressDataRemainingBytes) \o next
    BY <1>2, <1>13 DEF InputToCome
  <2>2. CASE p.addressDataRemainingBytes # 0
    <3>1. step = parser_skipThroughAddressBytes(p)
      BY <1>13, <2>2 DEF parser_advanceInputState
    <3>2. CASE step = Throws(p, ERR_NOT_ENOUGH_INPUT) /\ more # <<>>
      BY <3>2 DEF GoesItsWay
    <3>3. CASE \E left \in Seq(Byte), k \in Nat, n \in Nat :
                 /\ step = Goes([Behind(p, left, k) EXCEPT !.addressDataRemainingBytes = n])
                 /\ left \o more = Contents(n) \o next
      <4>1. PICK left \in Seq(Byte), k \in Nat, n \in Nat :
                 /\ step = Goes([Behind(p, left, k) EXCEPT !.addressDataRemainingBytes = n])
                 /\ left \o more = Contents(n) \o next
        BY <3>3
      <4> DEFINE g == [Behind(p, left, k) EXCEPT !.addressDataRemainingBytes = n]
      <4>2. /\ g \in Parser /\ g.mainState = "IN_INPUT" /\ g.inputState = "IN_ADDRESS_DATA"
            /\ g.unread = left /\ g.addressDataRemainingBytes = n
        BY <1>1, <1>13, SkippedTo
      <4> HIDE DEF g
      <4>3. g.unread \o more = ToCome(g, tx, i) /\ IsPlace(g, tx, i)
        BY <1>2, <4>1, <4>2 DEF InputToCome
      <4> QED
        BY <4>1, <4>3, WayGoes DEF g
    <3>4. \/ parser_skipThroughAddressBytes(p) = Throws(p, ERR_NOT_ENOUGH_INPUT) /\ more # <<>>
          \/ \E left \in Seq(Byte), k \in Nat, n \in Nat :
               /\ parser_skipThroughAddressBytes(p)
                    = Goes([Behind(p, left, k) EXCEPT !.addressDataRemainingBytes = n])
               /\ left \o more = Contents(n) \o next
      BY <1>1, <1>2, <2>1, <2>2, SkipExpected
    <3> HIDE DEF step
    <3>5. \/ step = Throws(p, ERR_NOT_ENOUGH_INPUT) /\ more # <<>>
          \/ \E left \in Seq(Byte), k \in Nat, n \in Nat :
               /\ step = Goes([Behind(p, left, k) EXCEPT !.addressDataRemainingBytes = n])
               /\ left \o more = Contents(n) \o next
      BY <3>1, <3>4
    <3> QED
      BY <3>2, <3>3, <3>5 DEF step
  <2>3. CASE p.addressDataRemainingBytes = 0
    <3> DEFINE g == InputIn(p, "FINISHED")
    <3>1. step = Goes(g)
      BY <1>13, <2>3 DEF parser_advanceInputState, InputIn
    <3>2. /\ g \in Parser /\ g.mainState = "IN_INPUT" /\ g.inputState = "FINISHED"
          /\ g.unread = p.unread
      BY <1>7
    <3> HIDE DEF g
    <3>3. Contents(0) \o next = next
      BY <1>2, NoContents
    <3>4. g.unread \o more = ToCome(g, tx, i) /\ IsPlace(g, tx, i)
      BY <1>2, <2>1, <2>3, <3>2, <3>3 DEF InputToCome
    <3> QED
      BY <3>1, <3>4, WayGoes
  <2> QED
    BY <2>2, <2>3
<1> QED
  BY <1>1, <1>8, <1>9, <1>10, <1>11, <1>12, <1>13

\* In an output: what comes next.
LEMMA InOutput ==
  ASSUME NEW p, NEW tx, NEW i, NEW more, Underway(p, tx, i, more), p.mainState = "IN_OUTPUT"
  PROVE  LET k == p.currentOutputIndex
             o == tx.outputs[k + 1]
             next == OutputsToCome(tx, k + 1)
         IN /\ k \in Nat /\ k + 1 \in 0 .. Len(tx.outputs)
            /\ p.unread \o more = OutputToCome(p, o, next)
            /\ o \in Output
            /\ next \in Seq(Byte)
<1> DEFINE k == p.currentOutputIndex
<1>1. /\ p \in Parser /\ tx \in AllTransactions /\ k < Len(tx.outputs)
      /\ p.unread \o more = ToCome(p, tx, i)
  BY DEF Underway, OnTheWay, OutputAt
<1>2. k \in Nat
  BY <1>1 DEF Parser
<1>3. k + 1 \in 1 .. Len(tx.outputs) /\ k + 1 \in 0 .. Len(tx.outputs)
  BY <1>1, <1>2, Elements
<1>4. tx.outputs[k + 1] \in Output
  BY <1>1, <1>3, Elements
<1>5. OutputsToCome(tx, k + 1) \in Seq(Byte)
  BY <1>1, <1>3, OutputsGoOn
<1>6. ToCome(p, tx, i) = OutputToCome(p, tx.outputs[k + 1], OutputsToCome(tx, k + 1))
  BY DEF ToCome
<1> QED
  BY <1>1, <1>2, <1>3, <1>4, <1>5, <1>6

\* Where the parser goes on in an output, with the amount it is asked for when it is
\* at the end of the output.
OutputGoesTo(p, o, g, state) ==
  /\ MovesOutput(p, g, state)
  /\ state # "FINISHED" => g.outputAmount = p.outputAmount
  /\ state = "FINISHED" => g.outputAmount = IF IsAttested(p) THEN o.amount ELSE p.outputAmount

\* In an output: where it is.
LEMMA OutputPlace ==
  ASSUME NEW p, NEW tx, NEW i, NEW more, Underway(p, tx, i, more), p.mainState = "IN_OUTPUT",
         NEW g, NEW state, OutputGoesTo(p, tx.outputs[p.currentOutputIndex + 1], g, state)
  PROVE  /\ IsPlace(g, tx, i)
         /\ ToCome(g, tx, i) = OutputToCome(g, tx.outputs[p.currentOutputIndex + 1],
                                            OutputsToCome(tx, p.currentOutputIndex + 1))
<1> DEFINE k == p.currentOutputIndex
           o == tx.outputs[k + 1]
           index == p.attestedOutputIndex
<1>1. /\ g \in Parser /\ g.mainState = "IN_OUTPUT" /\ g.outputState = state
      /\ g.currentOutputIndex = k /\ g.attestedOutputIndex = index
  BY DEF OutputGoesTo, MovesOutput
<1>2. /\ i \in Nat /\ i <= Len(tx.inputs)
      /\ k <= Len(tx.outputs) /\ k < Len(tx.outputs)
      /\ index < k => p.outputAmount = tx.outputs[index + 1].amount
  BY DEF Underway, OnTheWay, OutputAt
<1>3. k \in Nat /\ index \in Nat
  BY DEF Underway, Parser
<1>4. index < k => g.outputAmount = p.outputAmount
  BY <1>3 DEF OutputGoesTo, IsAttested
<1>5. state = "FINISHED" /\ index = k => g.outputAmount = o.amount
  BY DEF OutputGoesTo, IsAttested
<1>6. OutputAt(g, tx)
  BY <1>1, <1>2, <1>4, <1>5 DEF OutputAt
<1>7. IsPlace(g, tx, i)
  BY <1>1, <1>2, <1>6 DEF IsPlace
<1>8. ToCome(g, tx, i) = OutputToCome(g, o, OutputsToCome(tx, k + 1))
  BY <1>1 DEF ToCome
<1> QED
  BY <1>7, <1>8

\* A step of an output.
LEMMA OutputGoesItsWay ==
  ASSUME NEW p, NEW tx, NEW i, NEW more, Underway(p, tx, i, more),
         p.mainState = "IN_OUTPUT", p.outputState # "FINISHED"
  PROVE  GoesItsWay(p, parser_advanceOutputState(p), tx, more)
<1> DEFINE step == parser_advanceOutputState(p)
           k == p.currentOutputIndex
           o == tx.outputs[k + 1]
           next == OutputsToCome(tx, k + 1)
           size == o.address
           amount == Unsigned(o.amount) \o next
           checksum == Unsigned(o.checksum) \o amount
           address == AddressToCome(size, checksum)
           content == Contents(size) \o checksum
<1>1. /\ p \in Parser /\ more \in Seq(Byte) /\ p.outputState \in OutputStates
      /\ p.outputState # "none"
  BY DEF Underway, Parser, Started
<1>2. /\ p.unread \o more = OutputToCome(p, o, next)
      /\ o \in Output /\ next \in Seq(Byte)
  BY InOutput
<1>3. size \in Nat /\ o.amount \in Nat /\ o.checksum \in Nat
  BY <1>2 DEF Output
<1>4. amount \in Seq(Byte) /\ checksum \in Seq(Byte)
  BY <1>2, OutputExpands
<1>5. /\ address \in Seq(Byte) /\ content \in Seq(Byte)
      /\ cbor_writeToken("BYTES", size) \o content \in Seq(Byte)
  <2> HIDE DEF checksum, size
  <2> QED
    BY <1>3, <1>4, AddressExpands
<1>6. Array(2) \o address \in Seq(Byte)
  <2>1. Join(Array(2), address) \in Seq(Byte)
    BY <1>5, TokenTypesOf, Joins
  <2> QED
    BY <2>1 DEF Join
<1>7. address = Tag \o (cbor_writeToken("BYTES", size) \o content)
  BY DEF AddressToCome
<1>8. /\ {"ARRAY", "UNSIGNED", "TAG", "BYTES"} \subseteq TokenTypes /\ {0, 2} \subseteq Nat
      /\ CBOR_TAG_EMBEDDED_CBOR_BYTE_STRING \in Nat
  BY DEF TokenTypes, CBOR_TAG_EMBEDDED_CBOR_BYTE_STRING
<1>9. ASSUME NEW g, NEW state, OutputGoesTo(p, o, g, state)
      PROVE  /\ IsPlace(g, tx, i) /\ ToCome(g, tx, i) = OutputToCome(g, o, next)
             /\ g.unread = p.unread /\ g.outputState = state
  BY <1>9, OutputPlace DEF OutputGoesTo, MovesOutput
<1>10. ASSUME NEW state \in OutputStates, state # "FINISHED"
       PROVE  OutputGoesTo(p, o, OutputIn(p, state), state)
  BY <1>1, <1>10, OutputTo DEF OutputGoesTo
<1>11. ASSUME NEW g
       PROVE  /\ g.outputState \in {"NOT_STARTED", "EXPECT_PREAMBLE"} =>
                   OutputToCome(g, o, next) = Array(2) \o (Array(2) \o address)
              /\ g.outputState = "EXPECT_ADDRESS_PREAMBLE" =>
                   OutputToCome(g, o, next) = Array(2) \o address
              /\ g.outputState = "EXPECT_ADDRESS_TAG" => OutputToCome(g, o, next) = address
              /\ g.outputState = "EXPECT_ADDRESS_DATA_PREAMBLE" =>
                   OutputToCome(g, o, next) = cbor_writeToken("BYTES", size) \o content
              /\ g.outputState = "IN_ADDRESS_DATA" =>
                   OutputToCome(g, o, next) = Contents(g.addressDataRemainingBytes) \o checksum
              /\ g.outputState = "EXPECT_ADDRESS_CHECKSUM" => OutputToCome(g, o, next) = checksum
              /\ g.outputState = "EXPECT_AMOUNT" => OutputToCome(g, o, next) = amount
              /\ g.outputState = "FINISHED" => OutputToCome(g, o, next) = next
  BY DEF OutputToCome
<1> USE DEF OutputStates
<1>12. CASE p.outputState = "NOT_STARTED"
  <2> DEFINE g == OutputIn(p, "EXPECT_PREAMBLE")
  <2>1. step = Goes(g)
    BY <1>12 DEF parser_advanceOutputState, OutputIn
  <2>2. OutputGoesTo(p, o, g, "EXPECT_PREAMBLE")
    BY <1>10
  <2> HIDE DEF g, address, content, amount, checksum, next, size, o
  <2>3. p.unread \o more = Array(2) \o (Array(2) \o address)
    BY <1>2, <1>11, <1>12
  <2>4. /\ ToCome(g, tx, i) = Array(2) \o (Array(2) \o address)
        /\ IsPlace(g, tx, i) /\ g.unread = p.unread
    BY <1>9, <1>11, <2>2
  <2> QED
    BY <2>1, <2>3, <2>4, WayGoes
<1>13. CASE p.outputState = "EXPECT_PREAMBLE"
  <2> DEFINE g == OutputIn(p, "EXPECT_ADDRESS_PREAMBLE")
  <2>1. step = Take(p, "ARRAY", One(2, g))
    BY <1>13 DEF parser_advanceOutputState, OutputIn, One
  <2>2. OutputGoesTo(p, o, g, "EXPECT_ADDRESS_PREAMBLE")
    BY <1>10
  <2> HIDE DEF g, address, content, amount, checksum, next, size, o
  <2>3. p.unread \o more = cbor_writeToken("ARRAY", 2) \o (Array(2) \o address)
    BY <1>2, <1>13, <1>11 DEF Array
  <2>4. ToCome(g, tx, i) = Array(2) \o address /\ IsPlace(g, tx, i) /\ g.unread = p.unread
    BY <1>9, <1>11, <2>2
  <2>5. Advances(p, step, g, more, Array(2) \o address)
    BY <1>1, <1>6, <1>8, <2>1, <2>3, <2>4, TakeOneExpected
  <2> QED
    BY <2>4, <2>5, WayAdvances
<1>14. CASE p.outputState = "EXPECT_ADDRESS_PREAMBLE"
  <2> DEFINE g == OutputIn(p, "EXPECT_ADDRESS_TAG")
  <2>1. step = Take(p, "ARRAY", One(2, g))
    BY <1>14 DEF parser_advanceOutputState, OutputIn, One
  <2>2. OutputGoesTo(p, o, g, "EXPECT_ADDRESS_TAG")
    BY <1>10
  <2> HIDE DEF g, address, content, amount, checksum, next, size, o
  <2>3. p.unread \o more = cbor_writeToken("ARRAY", 2) \o address
    BY <1>2, <1>14, <1>11 DEF Array
  <2>4. ToCome(g, tx, i) = address /\ IsPlace(g, tx, i) /\ g.unread = p.unread
    BY <1>9, <1>11, <2>2
  <2>5. Advances(p, step, g, more, address)
    BY <1>1, <1>5, <1>8, <2>1, <2>3, <2>4, TakeOneExpected
  <2> QED
    BY <2>4, <2>5, WayAdvances
<1>15. CASE p.outputState = "EXPECT_ADDRESS_TAG"
  <2> DEFINE g == OutputIn(p, "EXPECT_ADDRESS_DATA_PREAMBLE")
             z == cbor_writeToken("BYTES", size) \o content
  <2>1. step = Take(p, "TAG", One(CBOR_TAG_EMBEDDED_CBOR_BYTE_STRING, g))
    BY <1>15 DEF parser_advanceOutputState, OutputIn, One
  <2>2. OutputGoesTo(p, o, g, "EXPECT_ADDRESS_DATA_PREAMBLE")
    BY <1>10
  <2> HIDE DEF g, address, content, amount, checksum, next, size, o
  <2>3. p.unread \o more = cbor_writeToken("TAG", CBOR_TAG_EMBEDDED_CBOR_BYTE_STRING) \o z
    BY <1>2, <1>7, <1>15, <1>11 DEF Tag
  <2>4. ToCome(g, tx, i) = z /\ IsPlace(g, tx, i) /\ g.unread = p.unread
    BY <1>9, <1>11, <2>2
  <2>5. Advances(p, step, g, more, z)
    BY <1>1, <1>5, <1>8, <2>1, <2>3, <2>4, TakeOneExpected
  <2> QED
    BY <2>4, <2>5, WayAdvances
<1>16. CASE p.outputState = "EXPECT_ADDRESS_DATA_PREAMBLE"
  <2> DEFINE later == [v \in Nat |-> OutputAtAddress(p, v)]
             g == OutputAtAddress(p, size)
  <2>1. step = Take(p, "BYTES", later)
    BY <1>16 DEF parser_advanceOutputState, OutputAtAddress, OutputIn
  <2>2. /\ OutputGoesTo(p, o, g, "IN_ADDRESS_DATA")
        /\ g.addressDataRemainingBytes = size
    <3>1. /\ MovesOutput(p, g, "IN_ADDRESS_DATA") /\ g.addressDataRemainingBytes = size
          /\ g.outputAmount = p.outputAmount
      BY <1>1, <1>3, OutputTo
    <3> HIDE DEF g
    <3> QED
      BY <3>1 DEF OutputGoesTo
  <2>3. size \in DOMAIN later /\ later[size] = g
    BY <1>3
  <2> HIDE DEF g, later, address, content, amount, checksum, next, size, o
  <2>4. p.unread \o more = cbor_writeToken("BYTES", size) \o content
    BY <1>2, <1>16, <1>11
  <2>5. ToCome(g, tx, i) = Contents(size) \o checksum /\ IsPlace(g, tx, i) /\ g.unread = p.unread
    BY <1>9, <1>11, <2>2
  <2>6. content = Contents(size) \o checksum
    BY DEF content
  <2>7. Advances(p, step, later[size], more, content)
    BY <1>1, <1>3, <1>5, <1>8, <2>1, <2>3, <2>4, <2>5, TakeExpected
  <2> QED
    BY <2>3, <2>5, <2>6, <2>7, WayAdvances
<1>17. CASE p.outputState = "IN_ADDRESS_DATA"
  <2>1. p.unread \o more = Contents(p.addressDataRemainingBytes) \o checksum
    <3> HIDE DEF address, content, amount, checksum, next, size, o
    <3> QED
      BY <1>2, <1>17, <1>11
  <2>2. CASE p.addressDataRemainingBytes # 0
    <3>1. step = parser_skipThroughAddressBytes(p)
      BY <1>17, <2>2 DEF parser_advanceOutputState
    <3>2. CASE step = Throws(p, ERR_NOT_ENOUGH_INPUT) /\ more # <<>>
      BY <3>2 DEF GoesItsWay
    <3>3. CASE \E left \in Seq(Byte), d \in Nat, n \in Nat :
                 /\ step = Goes([Behind(p, left, d) EXCEPT !.addressDataRemainingBytes = n])
                 /\ left \o more = Contents(n) \o checksum
      <4>1. PICK left \in Seq(Byte), d \in Nat, n \in Nat :
                 /\ step = Goes([Behind(p, left, d) EXCEPT !.addressDataRemainingBytes = n])
                 /\ left \o more = Contents(n) \o checksum
        BY <3>3
      <4> DEFINE g == [Behind(p, left, d) EXCEPT !.addressDataRemainingBytes = n]
      <4>2. /\ g \in Parser /\ g.mainState = "IN_OUTPUT" /\ g.outputState = "IN_ADDRESS_DATA"
            /\ g.unread = left /\ g.addressDataRemainingBytes = n
            /\ g.currentOutputIndex = k /\ g.attestedOutputIndex = p.attestedOutputIndex
            /\ g.outputAmount = p.outputAmount
        BY <1>1, <1>17, SkippedTo
      <4>3. ToCome(g, tx, i) = OutputToCome(g, o, next)
        <5> HIDE DEF g, o
        <5> QED
          BY <4>2 DEF ToCome, o
      <4> HIDE DEF g, address, content, amount, checksum, next, size
      <4>4. g.unread \o more = ToCome(g, tx, i)
        <5> HIDE DEF o
        <5> QED
          BY <1>11, <4>1, <4>2, <4>3
      <4>5. IsPlace(g, tx, i)
        <5>1. /\ i \in Nat /\ i <= Len(tx.inputs) /\ OutputAt(p, tx)
          BY DEF Underway, OnTheWay
        <5>2. OutputAt(g, tx)
          BY <1>17, <4>2, <5>1 DEF OutputAt
        <5> QED
          BY <4>2, <5>1, <5>2 DEF IsPlace
      <4> QED
        BY <4>1, <4>4, <4>5, WayGoes DEF g
    <3>4. \/ parser_skipThroughAddressBytes(p) = Throws(p, ERR_NOT_ENOUGH_INPUT) /\ more # <<>>
          \/ \E left \in Seq(Byte), d \in Nat, n \in Nat :
               /\ parser_skipThroughAddressBytes(p)
                    = Goes([Behind(p, left, d) EXCEPT !.addressDataRemainingBytes = n])
               /\ left \o more = Contents(n) \o checksum
      <4> HIDE DEF checksum
      <4> QED
        BY <1>1, <1>4, <2>1, <2>2, SkipExpected
    <3> HIDE DEF step, checksum
    <3>5. \/ step = Throws(p, ERR_NOT_ENOUGH_INPUT) /\ more # <<>>
          \/ \E left \in Seq(Byte), d \in Nat, n \in Nat :
               /\ step = Goes([Behind(p, left, d) EXCEPT !.addressDataRemainingBytes = n])
               /\ left \o more = Contents(n) \o checksum
      BY <3>1, <3>4
    <3> QED
      BY <3>2, <3>3, <3>5 DEF step
  <2>3. CASE p.addressDataRemainingBytes = 0
    <3> DEFINE g == OutputIn(p, "EXPECT_ADDRESS_CHECKSUM")
    <3>1. step = Goes(g)
      BY <1>17, <2>3 DEF parser_advanceOutputState, OutputIn
    <3>2. OutputGoesTo(p, o, g, "EXPECT_ADDRESS_CHECKSUM")
      BY <1>10
    <3> HIDE DEF g, address, content, amount, checksum, next, size, o
    <3>3. Contents(0) \o checksum = checksum
      BY <1>4, NoContents
    <3>4. g.unread \o more = ToCome(g, tx, i) /\ IsPlace(g, tx, i)
      BY <1>9, <1>11, <2>1, <2>3, <3>2, <3>3
    <3> QED
      BY <3>1, <3>4, WayGoes
  <2> QED
    BY <2>2, <2>3
<1>18. CASE p.outputState = "EXPECT_ADDRESS_CHECKSUM"
  <2> DEFINE later == [v \in Nat |-> OutputIn(p, "EXPECT_AMOUNT")]
             g == OutputIn(p, "EXPECT_AMOUNT")
             n == o.checksum
  <2>1. step = Take(p, "UNSIGNED", later)
    BY <1>18 DEF parser_advanceOutputState, OutputIn
  <2>2. OutputGoesTo(p, o, g, "EXPECT_AMOUNT")
    BY <1>10
  <2>3. n \in DOMAIN later /\ later[n] = g
    BY <1>3
  <2>4. checksum = cbor_writeToken("UNSIGNED", n) \o amount
    BY DEF Unsigned
  <2> HIDE DEF g, later, address, content, amount, checksum, next, size, o
  <2>5. p.unread \o more = cbor_writeToken("UNSIGNED", n) \o amount
    BY <1>2, <1>18, <1>11, <2>4
  <2>6. ToCome(g, tx, i) = amount /\ IsPlace(g, tx, i) /\ g.unread = p.unread
    BY <1>9, <1>11, <2>2
  <2>7. n \in Nat
    BY <1>3
  <2> HIDE DEF n
  <2>8. Advances(p, step, later[n], more, amount)
    BY <1>1, <1>4, <1>8, <2>1, <2>3, <2>5, <2>6, <2>7, TakeExpected
  <2> QED
    BY <2>3, <2>6, <2>8, WayAdvances
<1>19. CASE p.outputState = "EXPECT_AMOUNT"
  <2> DEFINE later == [v \in Nat |-> OutputAmounts(p, v)]
             n == o.amount
             g == OutputAmounts(p, n)
  <2>1. step = Take(p, "UNSIGNED", later)
    BY <1>19 DEF parser_advanceOutputState, OutputAmounts, OutputIn
  <2>2. OutputGoesTo(p, o, g, "FINISHED")
    <3>1. /\ MovesOutput(p, g, "FINISHED")
          /\ g.outputAmount = IF IsAttested(p) THEN n ELSE p.outputAmount
      BY <1>1, <1>3, OutputTo
    <3> HIDE DEF g
    <3> QED
      BY <3>1 DEF OutputGoesTo
  <2>3. n \in DOMAIN later /\ later[n] = g
    BY <1>3
  <2>4. amount = cbor_writeToken("UNSIGNED", n) \o next
    BY DEF Unsigned
  <2> HIDE DEF g, later, address, content, amount, checksum, next, size, o
  <2>5. p.unread \o more = cbor_writeToken("UNSIGNED", n) \o next
    BY <1>2, <1>19, <1>11, <2>4
  <2>6. ToCome(g, tx, i) = next /\ IsPlace(g, tx, i) /\ g.unread = p.unread
    BY <1>9, <1>11, <2>2
  <2>7. n \in Nat
    BY <1>3
  <2> HIDE DEF n
  <2>8. Advances(p, step, later[n], more, next)
    BY <1>1, <1>2, <1>8, <2>1, <2>3, <2>5, <2>6, <2>7, TakeExpected
  <2> QED
    BY <2>3, <2>6, <2>8, WayAdvances
<1> QED
  BY <1>1, <1>12, <1>13, <1>14, <1>15, <1>16, <1>17, <1>18, <1>19

-----------------------------------------------------------------------------
\* Where a state of the main machine that is before the outputs is.
LEMMA PlaceBefore ==
  ASSUME NEW p, NEW tx, NEW g, NEW state, MovesMain(p, g, state),
         state \notin {"EXPECT_END_OR_OUTPUT", "IN_OUTPUT", "EXPECT_METADATA_PREAMBLE",
                       "FINISHED"},
         NEW j \in Nat, j <= Len(tx.inputs), state = "IN_INPUT" => j < Len(tx.inputs)
  PROVE  IsPlace(g, tx, j) /\ g.mainState = state /\ g.unread = p.unread
BY DEF MovesMain, IsPlace, OutputAt

\* Where one that is among the outputs is.
LEMMA PlaceAmong ==
  ASSUME NEW p \in Parser, NEW tx \in AllTransactions, NEW g, NEW state, MovesMain(p, g, state),
         state \in {"EXPECT_END_OR_OUTPUT", "IN_OUTPUT", "EXPECT_METADATA_PREAMBLE",
                    "FINISHED"},
         NEW k \in Nat, g.currentOutputIndex = k, k <= Len(tx.outputs),
         state = "IN_OUTPUT" => k < Len(tx.outputs) /\ g.outputState # "FINISHED",
         state \in {"EXPECT_METADATA_PREAMBLE", "FINISHED"} => k = Len(tx.outputs),
         p.attestedOutputIndex < k =>
           p.outputAmount = tx.outputs[p.attestedOutputIndex + 1].amount,
         NEW i \in Nat, i <= Len(tx.inputs)
  PROVE  IsPlace(g, tx, i) /\ g.mainState = state /\ g.unread = p.unread
<1>1. /\ g \in Parser /\ g.mainState = state /\ g.unread = p.unread
      /\ g.attestedOutputIndex = p.attestedOutputIndex /\ g.outputAmount = p.outputAmount
  BY DEF MovesMain
<1>2. OutputAt(g, tx)
  BY <1>1 DEF OutputAt
<1> QED
  BY <1>1, <1>2 DEF IsPlace

\* Before the inputs.
LEMMA PreamblesGoTheirWay ==
  ASSUME NEW p, NEW tx, NEW i, NEW more, Underway(p, tx, i, more),
         p.mainState \in {"NOT_STARTED", "EXPECT_TX_PREAMBLE", "EXPECT_INPUTS_PREAMBLE"}
  PROVE  GoesItsWay(p, parser_advanceMainState(p), tx, more)
<1> DEFINE step == parser_advanceMainState(p)
           inputs == InputsToCome(tx, 0)
           begun == INDEF \o inputs
<1>1. /\ p \in Parser /\ more \in Seq(Byte) /\ tx \in AllTransactions
      /\ i \in Nat /\ i <= Len(tx.inputs) /\ p.unread \o more = ToCome(p, tx, i)
  BY DEF Underway, OnTheWay
<1>2. i \in Nat /\ i <= Len(tx.inputs)
  BY <1>1
<1>3. 0 \in 0 .. Len(tx.inputs) /\ 0 <= Len(tx.inputs) /\ 0 \in Nat
  BY <1>1, Elements
<1>4. inputs \in Seq(Byte)
  BY <1>1, <1>3, InputsGoOn
<1>5. begun \in Seq(Byte)
  <2>1. Join(INDEF, inputs) \in Seq(Byte)
    BY <1>4, TokenTypesOf, Joins
  <2> QED
    BY <2>1 DEF Join
<1>6. {"ARRAY", "ARRAY_INDEF"} \subseteq TokenTypes /\ {0, 3} \subseteq Nat
  BY DEF TokenTypes
<1>7. CASE p.mainState = "NOT_STARTED"
  <2> DEFINE g == MainIn(p, "EXPECT_TX_PREAMBLE")
  <2>1. step = Goes(g)
    BY <1>7 DEF parser_advanceMainState, MainIn
  <2>2. MovesMain(p, g, "EXPECT_TX_PREAMBLE")
    BY <1>1, MainTo DEF MainStates
  <2> HIDE DEF g
  <2>3. IsPlace(g, tx, i) /\ g.mainState = "EXPECT_TX_PREAMBLE" /\ g.unread = p.unread
    BY <1>2, <2>2, PlaceBefore
  <2>4. g.unread \o more = ToCome(g, tx, i)
    BY <1>1, <1>7, <2>3 DEF ToCome
  <2> QED
    BY <2>1, <2>3, <2>4, WayGoes
<1>8. CASE p.mainState = "EXPECT_TX_PREAMBLE"
  <2> DEFINE g == MainIn(p, "EXPECT_INPUTS_PREAMBLE")
  <2>1. step = Take(p, "ARRAY", One(3, g))
    BY <1>8 DEF parser_advanceMainState, MainIn, One
  <2>2. MovesMain(p, g, "EXPECT_INPUTS_PREAMBLE")
    BY <1>1, MainTo DEF MainStates
  <2> HIDE DEF g
  <2>3. /\ IsPlace(g, tx, i) /\ g.mainState = "EXPECT_INPUTS_PREAMBLE"
        /\ g.unread = p.unread
    BY <1>2, <2>2, PlaceBefore
  <2>4. p.unread \o more = cbor_writeToken("ARRAY", 3) \o begun
    BY <1>1, <1>8 DEF ToCome, Array
  <2>5. ToCome(g, tx, i) = begun
    BY <2>3 DEF ToCome
  <2> HIDE DEF begun, step
  <2>6. Advances(p, step, g, more, begun)
    BY <1>1, <1>5, <1>6, <2>1, <2>3, <2>4, TakeOneExpected
  <2> QED
    BY <2>3, <2>5, <2>6, WayAdvances DEF step
<1>9. CASE p.mainState = "EXPECT_INPUTS_PREAMBLE"
  <2> DEFINE g == MainIn(p, "EXPECT_END_OR_INPUT")
  <2>1. step = Take(p, "ARRAY_INDEF", One(0, g))
    BY <1>9 DEF parser_advanceMainState, MainIn, One
  <2>2. MovesMain(p, g, "EXPECT_END_OR_INPUT")
    BY <1>1, MainTo DEF MainStates
  <2> HIDE DEF g
  <2>3. /\ IsPlace(g, tx, 0) /\ g.mainState = "EXPECT_END_OR_INPUT"
        /\ g.unread = p.unread
    BY <1>3, <2>2, PlaceBefore
  <2>4. p.unread \o more = cbor_writeToken("ARRAY_INDEF", 0) \o inputs
    BY <1>1, <1>9 DEF ToCome, INDEF
  <2>5. ToCome(g, tx, 0) = inputs
    BY <2>3 DEF ToCome
  <2> HIDE DEF inputs, step
  <2>6. Advances(p, step, g, more, inputs)
    BY <1>1, <1>4, <1>6, <2>1, <2>3, <2>4, TakeOneExpected
  <2> QED
    BY <2>3, <2>5, <2>6, WayAdvances DEF step
<1> QED
  BY <1>7, <1>8, <1>9

\* Between the inputs: their end, or the next of them.
LEMMA InputsGoTheirWay ==
  ASSUME NEW p, NEW tx, NEW i, NEW more, Underway(p, tx, i, more),
         p.mainState = "EXPECT_END_OR_INPUT"
  PROVE  GoesItsWay(p, parser_advanceMainState(p), tx, more)
<1> DEFINE end == MainIn(p, "EXPECT_OUTPUTS_PREAMBLE")
           element == IntoInput(p)
           outputs == INDEF \o OutputsToCome(tx, 0)
<1>1. /\ p \in Parser /\ more \in Seq(Byte) /\ tx \in AllTransactions
      /\ i \in Nat /\ i <= Len(tx.inputs) /\ p.unread \o more = InputsToCome(tx, i)
  BY DEF Underway, OnTheWay, ToCome
<1>2. i \in Nat /\ i <= Len(tx.inputs)
  BY <1>1
<1>3. parser_advanceMainState(p) = EndOrElement(p, end, element)
  BY DEF parser_advanceMainState, MainIn, IntoInput
<1>4. i \in 0 .. Len(tx.inputs) /\ 0 \in 0 .. Len(tx.outputs)
  BY <1>1, Elements
<1>5. /\ MovesMain(p, end, "EXPECT_OUTPUTS_PREAMBLE")
      /\ MovesMain(p, element, "IN_INPUT") /\ element.inputState = "NOT_STARTED"
  BY <1>1, MainTo DEF MainStates
<1> HIDE DEF end, element
<1>6. CASE i = Len(tx.inputs)
  <2>1. p.unread \o more = END_INDEF \o outputs
    BY <1>1, <1>4, <1>6, InputsGoOn
  <2>2. outputs \in Seq(Byte)
    <3>1. OutputsToCome(tx, 0) \in Seq(Byte)
      BY <1>1, <1>4, OutputsGoOn
    <3>2. Join(INDEF, OutputsToCome(tx, 0)) \in Seq(Byte)
      BY <3>1, TokenTypesOf, Joins
    <3> QED
      BY <3>2 DEF Join
  <2>3. /\ IsPlace(end, tx, i) /\ end.mainState = "EXPECT_OUTPUTS_PREAMBLE"
        /\ end.unread = p.unread
    BY <1>2, <1>5, PlaceBefore
  <2>4. ToCome(end, tx, i) = outputs
    BY <2>3 DEF ToCome
  <2> HIDE DEF outputs
  <2>5. Advances(p, EndOrElement(p, end, element), end, more, outputs)
    BY <1>1, <2>1, <2>2, <2>3, EndExpected
  <2> QED
    BY <1>3, <2>3, <2>4, <2>5, WayAdvances
<1>7. CASE i < Len(tx.inputs)
  <2> DEFINE n == tx.inputs[i + 1]
             next == InputsToCome(tx, i + 1)
             address == AddressToCome(n, next)
             z == Unsigned(0) \o address
  <2>1. i + 1 \in 1 .. Len(tx.inputs) /\ i + 1 \in 0 .. Len(tx.inputs)
    BY <1>1, <1>7, Elements
  <2>2. n \in Nat /\ next \in Seq(Byte)
    BY <1>1, <2>1, Elements, InputsGoOn
  <2>3. address \in Seq(Byte)
    BY <2>2, AddressExpands
  <2>4. z \in Seq(Byte)
    <3>1. Join(Unsigned(0), address) \in Seq(Byte)
      BY <2>3, TokenTypesOf, Joins
    <3> QED
      BY <3>1 DEF Join
  <2>5. p.unread \o more = EncodeInput(n) \o next
    BY <1>1, <1>4, <1>7, InputsGoOn
  <2>6. p.unread \o more = Array(2) \o z
    BY <2>2, <2>5, InputExpands
  <2>7. /\ IsPlace(element, tx, i) /\ element.mainState = "IN_INPUT"
        /\ element.unread = p.unread
    BY <1>1, <1>5, <1>7, PlaceBefore
  <2>8. ToCome(element, tx, i) = Array(2) \o z
    BY <1>5, <2>7 DEF ToCome, InputToCome
  <2> HIDE DEF z
  <2>9. \/ EndOrElement(p, end, element) = Throws(p, ERR_NOT_ENOUGH_INPUT) /\ more # <<>>
        \/ EndOrElement(p, end, element) = Goes(element)
    BY <1>1, <2>4, <2>6, ElementExpected
  <2>10. CASE EndOrElement(p, end, element) = Throws(p, ERR_NOT_ENOUGH_INPUT) /\ more # <<>>
    BY <1>3, <2>10 DEF GoesItsWay
  <2>11. CASE EndOrElement(p, end, element) = Goes(element)
    <3>1. element.unread \o more = ToCome(element, tx, i)
      BY <2>6, <2>7, <2>8
    <3> QED
      BY <1>3, <2>7, <2>11, <3>1, WayGoes
  <2> QED
    BY <2>9, <2>10, <2>11
<1> QED
  <2>1. Len(tx.inputs) \in Nat
    BY <1>1, Elements
  <2> QED
    BY <1>1, <1>6, <1>7, <2>1

\* In an input.
LEMMA InputMovesOn ==
  ASSUME NEW p, NEW tx, NEW i, NEW more, Underway(p, tx, i, more), p.mainState = "IN_INPUT"
  PROVE  GoesItsWay(p, parser_advanceMainState(p), tx, more)
<1>1. CASE p.inputState # "FINISHED"
  <2>1. parser_advanceMainState(p) = parser_advanceInputState(p)
    BY <1>1 DEF parser_advanceMainState
  <2> QED
    BY <1>1, <2>1, InputGoesItsWay
<1>2. CASE p.inputState = "FINISHED"
  <2> DEFINE g == MainIn(p, "EXPECT_END_OR_INPUT")
  <2>1. parser_advanceMainState(p) = Goes(g)
    BY <1>2 DEF parser_advanceMainState, MainIn
  <2>2. /\ p \in Parser /\ tx \in AllTransactions
        /\ i \in Nat /\ i < Len(tx.inputs) /\ p.unread \o more = ToCome(p, tx, i)
    BY DEF Underway, OnTheWay
  <2>3. i + 1 \in Nat /\ i + 1 <= Len(tx.inputs)
    BY <2>2, Elements
  <2>4. MovesMain(p, g, "EXPECT_END_OR_INPUT")
    BY <2>2, MainTo DEF MainStates
  <2> HIDE DEF g
  <2>5. /\ IsPlace(g, tx, i + 1) /\ g.mainState = "EXPECT_END_OR_INPUT"
        /\ g.unread = p.unread
    BY <2>3, <2>4, PlaceBefore
  <2>6. p.unread \o more = InputsToCome(tx, i + 1)
    BY <1>2, <2>2 DEF ToCome, InputToCome
  <2>7. g.unread \o more = ToCome(g, tx, i + 1)
    BY <2>5, <2>6 DEF ToCome
  <2> QED
    BY <2>1, <2>5, <2>7, WayGoes
<1> QED
  BY <1>1, <1>2

\* Before the outputs.
LEMMA OutputsBeginTheirWay ==
  ASSUME NEW p, NEW tx, NEW i, NEW more, Underway(p, tx, i, more),
         p.mainState = "EXPECT_OUTPUTS_PREAMBLE"
  PROVE  GoesItsWay(p, parser_advanceMainState(p), tx, more)
<1> DEFINE g == OutputsBegin(p)
           outputs == OutputsToCome(tx, 0)
           step == parser_advanceMainState(p)
<1>1. /\ p \in Parser /\ more \in Seq(Byte) /\ tx \in AllTransactions
      /\ i \in Nat /\ i <= Len(tx.inputs) /\ p.unread \o more = ToCome(p, tx, i)
  BY DEF Underway, OnTheWay
<1>2. 0 \in 0 .. Len(tx.outputs) /\ 0 <= Len(tx.outputs) /\ 0 \in Nat
      /\ "ARRAY_INDEF" \in TokenTypes
  BY <1>1, Elements DEF TokenTypes
<1>3. outputs \in Seq(Byte)
  BY <1>1, <1>2, OutputsGoOn
<1>4. step = Take(p, "ARRAY_INDEF", One(0, g))
  BY DEF parser_advanceMainState, MainIn, OutputsBegin, One
<1>5. MovesMain(p, g, "EXPECT_END_OR_OUTPUT") /\ g.currentOutputIndex = 0
  BY <1>1, MainTo
<1> HIDE DEF g, step
<1>6. IsPlace(g, tx, i) /\ g.mainState = "EXPECT_END_OR_OUTPUT" /\ g.unread = p.unread
  <2>1. ~(p.attestedOutputIndex < 0)
    BY <1>1 DEF Parser
  <2> QED
    BY <1>1, <1>2, <1>5, <2>1, PlaceAmong
<1>7. p.unread \o more = cbor_writeToken("ARRAY_INDEF", 0) \o outputs
  BY <1>1 DEF ToCome, INDEF
<1>8. ToCome(g, tx, i) = outputs
  BY <1>5, <1>6 DEF ToCome
<1> HIDE DEF outputs
<1>9. Advances(p, step, g, more, outputs)
  BY <1>1, <1>2, <1>3, <1>4, <1>6, <1>7, TakeOneExpected
<1> QED
  BY <1>6, <1>8, <1>9, WayAdvances DEF step

\* Between the outputs: their end, or the next of them.
LEMMA OutputsGoTheirWay ==
  ASSUME NEW p, NEW tx, NEW i, NEW more, Underway(p, tx, i, more),
         p.mainState = "EXPECT_END_OR_OUTPUT"
  PROVE  GoesItsWay(p, parser_advanceMainState(p), tx, more)
<1> DEFINE end == MainIn(p, "EXPECT_METADATA_PREAMBLE")
           element == IntoOutput(p)
           metadata == cbor_writeToken("MAP", 0)
           k == p.currentOutputIndex
           index == p.attestedOutputIndex
<1>1. /\ p \in Parser /\ more \in Seq(Byte) /\ tx \in AllTransactions
      /\ p.unread \o more = OutputsToCome(tx, k)
  BY DEF Underway, OnTheWay, ToCome
<1>2. parser_advanceMainState(p) = EndOrElement(p, end, element)
  BY DEF parser_advanceMainState, MainIn, IntoOutput
<1>3. /\ k \in Nat /\ k <= Len(tx.outputs)
      /\ index < k => p.outputAmount = tx.outputs[index + 1].amount
  BY DEF Underway, OnTheWay, OutputAt, Parser
<1>4. i \in Nat /\ i <= Len(tx.inputs)
  BY DEF Underway, OnTheWay
<1>5. k \in 0 .. Len(tx.outputs)
  BY <1>1, <1>3, Elements
<1>6. /\ MovesMain(p, end, "EXPECT_METADATA_PREAMBLE") /\ end.currentOutputIndex = k
      /\ MovesMain(p, element, "IN_OUTPUT") /\ element.outputState = "NOT_STARTED"
      /\ element.currentOutputIndex = k
  BY <1>1, MainTo DEF MainStates
<1> HIDE DEF end, element
<1>7. CASE k = Len(tx.outputs)
  <2>1. p.unread \o more = END_INDEF \o metadata
    BY <1>1, <1>5, <1>7, OutputsGoOn
  <2>2. metadata \in Seq(Byte)
    BY TokenTypesOf
  <2>3. /\ IsPlace(end, tx, i) /\ end.mainState = "EXPECT_METADATA_PREAMBLE"
        /\ end.unread = p.unread
    BY <1>1, <1>3, <1>4, <1>6, <1>7, PlaceAmong
  <2>4. ToCome(end, tx, i) = metadata
    BY <2>3 DEF ToCome
  <2> HIDE DEF metadata
  <2>5. Advances(p, EndOrElement(p, end, element), end, more, metadata)
    BY <1>1, <2>1, <2>2, <2>3, EndExpected
  <2> QED
    BY <1>2, <2>3, <2>4, <2>5, WayAdvances
<1>8. CASE k < Len(tx.outputs)
  <2> DEFINE o == tx.outputs[k + 1]
             next == OutputsToCome(tx, k + 1)
             checksum == Unsigned(o.checksum) \o (Unsigned(o.amount) \o next)
             address == AddressToCome(o.address, checksum)
             z == Array(2) \o address
  <2>1. k + 1 \in 1 .. Len(tx.outputs) /\ k + 1 \in 0 .. Len(tx.outputs)
    BY <1>1, <1>3, <1>8, Elements
  <2>2. o \in Output /\ next \in Seq(Byte)
    BY <1>1, <2>1, Elements, OutputsGoOn
  <2>3. checksum \in Seq(Byte) /\ o.address \in Nat
    BY <2>2, OutputExpands DEF Output
  <2>4. address \in Seq(Byte)
    <3> HIDE DEF checksum
    <3> QED
      BY <2>3, AddressExpands
  <2>5. z \in Seq(Byte)
    <3>1. Join(Array(2), address) \in Seq(Byte)
      BY <2>4, TokenTypesOf, Joins
    <3> QED
      BY <3>1 DEF Join
  <2>6. p.unread \o more = EncodeOutput(o) \o next
    BY <1>1, <1>5, <1>8, OutputsGoOn
  <2>7. p.unread \o more = Array(2) \o z
    BY <2>2, <2>6, OutputExpands
  <2>8. /\ IsPlace(element, tx, i) /\ element.mainState = "IN_OUTPUT"
        /\ element.unread = p.unread
    <3>1. element.outputState # "FINISHED" /\ p \in Parser /\ tx \in AllTransactions
      BY <1>1, <1>6
    <3> HIDE DEF k, z
    <3> QED
      BY <1>3, <1>4, <1>6, <1>8, <3>1, PlaceAmong DEF k
  <2>9. ToCome(element, tx, i) = Array(2) \o z
    BY <1>6, <2>8 DEF ToCome, OutputToCome
  <2> HIDE DEF z
  <2>10. \/ EndOrElement(p, end, element) = Throws(p, ERR_NOT_ENOUGH_INPUT) /\ more # <<>>
         \/ EndOrElement(p, end, element) = Goes(element)
    BY <1>1, <2>5, <2>7, ElementExpected
  <2>11. CASE EndOrElement(p, end, element) = Throws(p, ERR_NOT_ENOUGH_INPUT) /\ more # <<>>
    BY <1>2, <2>11 DEF GoesItsWay
  <2>12. CASE EndOrElement(p, end, element) = Goes(element)
    <3>1. element.unread \o more = ToCome(element, tx, i)
      BY <2>7, <2>8, <2>9
    <3> QED
      BY <1>2, <2>8, <2>12, <3>1, WayGoes
  <2> QED
    BY <2>10, <2>11, <2>12
<1> QED
  <2>1. Len(tx.outputs) \in Nat
    BY <1>1, Elements
  <2> QED
    BY <1>3, <1>7, <1>8, <2>1

\* In an output.
LEMMA OutputMovesOn ==
  ASSUME NEW p, NEW tx, NEW i, NEW more, Underway(p, tx, i, more), p.mainState = "IN_OUTPUT"
  PROVE  GoesItsWay(p, parser_advanceMainState(p), tx, more)
<1>1. CASE p.outputState # "FINISHED"
  <2>1. parser_advanceMainState(p) = parser_advanceOutputState(p)
    BY <1>1 DEF parser_advanceMainState
  <2> QED
    BY <1>1, <2>1, OutputGoesItsWay
<1>2. CASE p.outputState = "FINISHED"
  <2> DEFINE g == OutputCounted(p)
             k == p.currentOutputIndex
             index == p.attestedOutputIndex
  <2>1. parser_advanceMainState(p) = Goes(g)
    BY <1>2 DEF parser_advanceMainState, MainIn, OutputCounted
  <2>2. /\ p \in Parser /\ tx \in AllTransactions
        /\ p.unread \o more = ToCome(p, tx, i)
        /\ k < Len(tx.outputs)
        /\ index < k => p.outputAmount = tx.outputs[index + 1].amount
        /\ index = k => p.outputAmount = tx.outputs[k + 1].amount
    BY <1>2 DEF Underway, OnTheWay, OutputAt
  <2>3. i \in Nat /\ i <= Len(tx.inputs)
    BY DEF Underway, OnTheWay
  <2>4. k \in Nat /\ index \in Nat
    BY <2>2 DEF Parser
  <2>5. /\ k + 1 \in Nat /\ k + 1 <= Len(tx.outputs)
        /\ index < k + 1 => index < k \/ index = k
    BY <2>2, <2>4, Elements
  <2>6. index < k + 1 => p.outputAmount = tx.outputs[index + 1].amount
    BY <2>2, <2>5
  <2>7. MovesMain(p, g, "EXPECT_END_OR_OUTPUT") /\ g.currentOutputIndex = k + 1
    BY <2>2, MainTo
  <2> HIDE DEF g
  <2>8. /\ IsPlace(g, tx, i) /\ g.mainState = "EXPECT_END_OR_OUTPUT"
        /\ g.unread = p.unread
    BY <2>2, <2>3, <2>5, <2>6, <2>7, PlaceAmong
  <2>9. p.unread \o more = OutputsToCome(tx, k + 1)
    BY <1>2, <2>2 DEF ToCome, OutputToCome
  <2>10. g.unread \o more = ToCome(g, tx, i)
    BY <2>7, <2>8, <2>9 DEF ToCome
  <2> QED
    BY <2>1, <2>8, <2>10, WayGoes
<1> QED
  BY <1>1, <1>2

\* Behind the outputs: nothing comes behind the metadata.
LEMMA MetadataGoesItsWay ==
  ASSUME NEW p, NEW tx, NEW i, NEW more, Underway(p, tx, i, more),
         p.mainState = "EXPECT_METADATA_PREAMBLE"
  PROVE  GoesItsWay(p, parser_advanceMainState(p), tx, more)
<1> DEFINE g == MainIn(p, "FINISHED")
           step == parser_advanceMainState(p)
           k == p.currentOutputIndex
           index == p.attestedOutputIndex
<1>1. /\ p \in Parser /\ more \in Seq(Byte) /\ tx \in AllTransactions
      /\ p.unread \o more = cbor_writeToken("MAP", 0)
  BY DEF Underway, OnTheWay, ToCome
<1>2. /\ k \in Nat /\ k <= Len(tx.outputs) /\ k = Len(tx.outputs)
      /\ index < k => p.outputAmount = tx.outputs[index + 1].amount
  BY DEF Underway, OnTheWay, OutputAt, Parser
<1>3. i \in Nat /\ i <= Len(tx.inputs)
  BY DEF Underway, OnTheWay
<1>4. step = Take(p, "MAP", One(0, g))
  BY DEF parser_advanceMainState, MainIn, One
<1>5. MovesMain(p, g, "FINISHED") /\ g.currentOutputIndex = k
  BY <1>1, MainTo DEF MainStates
<1> HIDE DEF g, step
<1>6. IsPlace(g, tx, i) /\ g.mainState = "FINISHED" /\ g.unread = p.unread
  BY <1>1, <1>2, <1>3, <1>5, PlaceAmong
<1>7. p.unread \o more = cbor_writeToken("MAP", 0) \o <<>>
  <2>1. cbor_writeToken("MAP", 0) \in Seq(Byte)
    BY TokenTypesOf
  <2>2. cbor_writeToken("MAP", 0) \o <<>> = cbor_writeToken("MAP", 0)
    BY <2>1, ConcatEmptySeq
  <2> QED
    BY <1>1, <2>2
<1>8. ToCome(g, tx, i) = <<>>
  BY <1>6 DEF ToCome
<1>9. "MAP" \in TokenTypes /\ 0 \in Nat /\ <<>> \in Seq(Byte)
  BY EmptySeq DEF TokenTypes
<1>10. Advances(p, step, g, more, <<>>)
  BY <1>1, <1>4, <1>6, <1>7, <1>9, TakeOneExpected
<1> QED
  BY <1>6, <1>8, <1>10, WayAdvances DEF step

\* A step of the parser.
LEMMA MainGoesItsWay ==
  ASSUME NEW p, NEW tx, NEW i, NEW more, Underway(p, tx, i, more), p.mainState # "FINISHED"
  PROVE  GoesItsWay(p, parser_advanceMainState(p), tx, more)
<1>1. p.mainState \in MainStates /\ p.mainState # "none"
  BY DEF Underway, Started, Parser
<1>2. CASE p.mainState \in {"NOT_STARTED", "EXPECT_TX_PREAMBLE", "EXPECT_INPUTS_PREAMBLE"}
  BY <1>2, PreamblesGoTheirWay
<1>3. CASE p.mainState = "EXPECT_END_OR_INPUT"
  BY <1>3, InputsGoTheirWay
<1>4. CASE p.mainState = "IN_INPUT"
  BY <1>4, InputMovesOn
<1>5. CASE p.mainState = "EXPECT_OUTPUTS_PREAMBLE"
  BY <1>5, OutputsBeginTheirWay
<1>6. CASE p.mainState = "EXPECT_END_OR_OUTPUT"
  BY <1>6, OutputsGoTheirWay
<1>7. CASE p.mainState = "IN_OUTPUT"
  BY <1>7, OutputMovesOn
<1>8. CASE p.mainState = "EXPECT_METADATA_PREAMBLE"
  BY <1>8, MetadataGoesItsWay
<1> QED
  BY <1>1, <1>2, <1>3, <1>4, <1>5, <1>6, <1>7, <1>8 DEF MainStates

-----------------------------------------------------------------------------
\* A beginning is completed by what remains.
LEMMA Completed ==
  ASSUME NEW s \in Seq(Byte), NEW t \in Seq(Byte), IsPrefix(s, t)
  PROVE  \E more \in Seq(Byte) : s \o more = t
<1> DEFINE n == Len(s)
           more == SubSeq(t, n + 1, Len(t))
<1>1. n \in 0 .. Len(t) /\ SubSeq(s, 1, n) = SubSeq(t, 1, n)
  BY LenProperties DEF IsPrefix
<1>2. SubSeq(s, 1, n) = s
  BY SubSeqFull
<1>3. more \in Seq(Byte) /\ t = SubSeq(t, 1, n) \o more
  <2>1. <<>> \in Seq(Byte)
    BY EmptySeq
  <2> HIDE DEF Byte, n
  <2> QED
    BY <1>1, <2>1, Left, Zenon
<1> HIDE DEF more
<1> QED
  BY <1>1, <1>2, <1>3

\* The encoding of a transaction consists of bytes.
LEMMA EncodedBytes ==
  ASSUME NEW tx \in AllTransactions
  PROVE  EncodeTx(tx) \in Seq(Byte)
<1>1. 0 \in 0 .. Len(tx.inputs)
  BY Elements
<1>2. InputsToCome(tx, 0) \in Seq(Byte)
  BY <1>1, InputsGoOn
<1>3. Join(INDEF, InputsToCome(tx, 0)) \in Seq(Byte)
  BY <1>2, TokenTypesOf, Joins
<1>4. Join(Array(3), Join(INDEF, InputsToCome(tx, 0))) \in Seq(Byte)
  BY <1>3, TokenTypesOf, Joins
<1> QED
  BY <1>4, TxExpands DEF Join

\* In a call, when what has been hashed is the beginning of a transaction.
LEMMA InCallUnderway ==
  ASSUME Inv, AnswersInv, InCall, NEW tx \in AllTransactions, NEW more \in Seq(Byte),
         hashed \o more = EncodeTx(tx)
  PROVE  \E i : Underway(parser, tx, i, more)
<1>1. PICK i \in Nat : OnTheWay(parser, tx, i, more)
  BY DEF AnswersInv, OnTheWayInv
<1>2. parser \in Parser /\ Started(parser)
  BY DEF Inv, TypeOK, ParserInv
<1>3. Underway(parser, tx, i, more)
  BY <1>1, <1>2 DEF Underway
<1> QED
  BY <1>3

\* A step that appends nothing and has no answer of the parser to give.
LEMMA AnswersKept ==
  ASSUME AnswersInv, UNCHANGED <<parser, magic, hashed>>,
         reply' = reply \/ reply' = NoReply, InCall' => InCall
  PROVE  AnswersInv'
<1>1. OnTheWayInv'
  BY DEF AnswersInv, OnTheWayInv
<1>2. Sending' => reply' = reply /\ Sending
  BY DEF Sending, NoReply
<1>3. RefusalInv' /\ AskingInv'
  BY <1>2 DEF AnswersInv, RefusalInv, AskingInv, Answered
<1> QED
  BY <1>1, <1>3 DEF AnswersInv

\* An answer that ends the call and is not that of the parser.
LEMMA OtherAnswers ==
  ASSUME NEW ins, NEW code, NEW data, Respond(ins, code, data, "idle"),
         code = ERR_INVALID_DATA => ~magic',
         code = SUCCESS => data # NoData
  PROVE  AnswersInv'
<1>1. reply'.code = code /\ reply'.data = data /\ reply'.then = "idle"
  BY DEF Respond
<1>2. OnTheWayInv'
  BY <1>1 DEF OnTheWayInv, InCall
<1>3. RefusalInv' /\ AskingInv'
  BY <1>1 DEF RefusalInv, AskingInv, Answered
<1> QED
  BY <1>2, <1>3 DEF AnswersInv

\* An APDU is refused for something else than its data, or before there is a call.
LEMMA RefusedAnswers ==
  ASSUME NEW e \in AutoRespond, Refused(e), IsNewCall \/ e # ERR_INVALID_DATA
  PROVE  AnswersInv'
<1>1. Respond(ATTEST_UTXO, e, NoData, "idle")
  BY DEF Refused, Throw
<1>2. IsNewCall => ~magic'
  BY DEF Refused, CallContext
<1>3. e # SUCCESS
  BY DEF AutoRespond, SUCCESS, ERR_MALFORMED_REQUEST_HEADER, ERR_BAD_CLA,
         ERR_UNKNOWN_INS, ERR_STILL_IN_CALL, ERR_INVALID_REQUEST_PARAMETERS,
         ERR_INVALID_STATE, ERR_INVALID_DATA, ERR_REJECTED_BY_USER,
         ERR_REJECTED_BY_POLICY, ERR_DEVICE_LOCKED
<1> QED
  BY <1>1, <1>2, <1>3, OtherAnswers

\* P1 = 1: a parser that has read nothing is on its way through any transaction.
LEMMA HandleInitAnswers ==
  ASSUME NEW p2 \in {0, 1}, NEW sizeOk \in BOOLEAN, NEW i \in Indexes, NEW s \in Streams,
         HandleInit(p2, sizeOk, i, s)
  PROVE  AnswersInv'
<1> DEFINE error == InitError(p2, sizeOk)
<1>1. i \in Nat
  BY ChunksAssumption
<1>2. CASE ~IsNewCall
  <2>1. Refused(ERR_INVALID_STATE)
    BY <1>2 DEF HandleInit
  <2>2. ERR_INVALID_STATE \in AutoRespond /\ ERR_INVALID_STATE # ERR_INVALID_DATA
    BY Codes DEF ERR_INVALID_STATE, ERR_INVALID_DATA
  <2> QED
    BY <2>1, <2>2, RefusedAnswers
<1>3. CASE IsNewCall /\ error # OK
  <2>1. magic' = FALSE /\ Throw(ATTEST_UTXO, error)
    BY <1>3 DEF HandleInit
  <2>2. error \in AutoRespond /\ error # SUCCESS
    BY <1>3, Codes DEF InitError, OK, SUCCESS
  <2> HIDE DEF error
  <2>3. Respond(ATTEST_UTXO, error, NoData, "idle")
    BY <2>1, <2>2 DEF Throw
  <2> QED
    BY <2>1, <2>2, <2>3, OtherAnswers
<1>4. CASE IsNewCall /\ error = OK
  <2>1. /\ parser' = parser_init(i) /\ hashed' = <<>>
        /\ Respond(ATTEST_UTXO, SUCCESS, NoData, "busy")
    BY <1>4 DEF HandleInit
  <2>2. parser'.mainState = "NOT_STARTED" /\ parser'.unread = <<>>
    BY <1>1, <2>1, EmptyParsers
  <2>3. RefusalInv' /\ AskingInv'
    BY <2>2 DEF RefusalInv, AskingInv, Answered
  <2>4. ASSUME NEW tx \in AllTransactions, NEW more \in Seq(Byte), <<>> \o more = EncodeTx(tx)
        PROVE  OnTheWay(parser', tx, 0, more)
    <3>1. parser'.unread \o more = Array(3) \o (INDEF \o InputsToCome(tx, 0))
      BY <2>2, <2>4, TxExpands
    <3>2. ToCome(parser', tx, 0) = Array(3) \o (INDEF \o InputsToCome(tx, 0))
      BY <2>2 DEF ToCome
    <3>3. 0 <= Len(tx.inputs)
      BY Elements
    <3> QED
      BY <2>2, <3>1, <3>2, <3>3 DEF OnTheWay, OutputAt
  <2>5. OnTheWayInv'
    BY <2>1, <2>4 DEF OnTheWayInv
  <2> QED
    BY <2>3, <2>5 DEF AnswersInv
<1> QED
  BY <1>2, <1>3, <1>4

\* A parser on its way stays there when more bytes arrive.
LEMMA WayAppended ==
  ASSUME NEW p \in Parser, NEW tx, NEW i, NEW chunk \in Seq(Byte), NEW more \in Seq(Byte),
         OnTheWay(p, tx, i, chunk \o more)
  PROVE  OnTheWay([p EXCEPT !.unread = @ \o chunk, !.bufferPos = 0], tx, i, more)
<1> DEFINE u == p.unread
           q == [p EXCEPT !.unread = @ \o chunk, !.bufferPos = 0]
<1>1. u \in Seq(Byte)
  BY DEF Parser
<1>2. u \o (chunk \o more) = (u \o chunk) \o more
  <2>1. Associates(u, chunk, more)
    BY <1>1, Associative
  <2> QED
    BY <2>1 DEF Associates
<1>3. /\ q.unread = u \o chunk
      /\ q.mainState = p.mainState /\ q.inputState = p.inputState
      /\ q.outputState = p.outputState
      /\ q.addressDataRemainingBytes = p.addressDataRemainingBytes
      /\ q.currentOutputIndex = p.currentOutputIndex
      /\ q.attestedOutputIndex = p.attestedOutputIndex
      /\ q.outputAmount = p.outputAmount
  BY DEF Parser
<1> HIDE DEF q
<1>4. /\ \A n, z : InputToCome(q, n, z) = InputToCome(p, n, z)
      /\ \A o, z : OutputToCome(q, o, z) = OutputToCome(p, o, z)
  BY <1>3 DEF InputToCome, OutputToCome
<1>5. ToCome(q, tx, i) = ToCome(p, tx, i)
  BY <1>3, <1>4 DEF ToCome
<1>6. OutputAt(q, tx)
  BY <1>3 DEF OutputAt, OnTheWay
<1>7. q.unread \o more = ToCome(q, tx, i)
  BY <1>2, <1>3, <1>5 DEF OnTheWay
<1>8. OnTheWay(q, tx, i, more)
  BY <1>3, <1>6, <1>7 DEF OnTheWay
<1> QED
  BY <1>8 DEF q

\* P1 = 2.
LEMMA HandleDataAnswers ==
  ASSUME Inv, AnswersInv, NEW p2 \in {0, 1}, NEW n \in 0 .. MaxChunk, HandleData(p2, n)
  PROVE  AnswersInv'
<1> DEFINE chunk == SubSeq(toSend, 1, n)
           error == DataError(p2, chunk)
<1>1. Accepts(ATTEST_UTXO) /\ ~parsing /\ n <= Len(toSend)
  BY DEF HandleData
<1>2. parser \in Parser /\ hashed \in Seq(Byte) /\ toSend \in Seq(Byte)
  BY DEF Inv, TypeOK
<1>3. chunk \in Seq(Byte) /\ Len(chunk) <= MaxChunk
  <2>1. n \in Nat /\ n <= MaxChunk /\ n \in 0 .. Len(toSend) /\ Len(toSend) \in Nat
    BY <1>1, <1>2, ChunksAssumption, LenProperties
  <2>2. \A j \in 1 .. n : toSend[j] \in Byte
    BY <1>2, <2>1, ElementOfSeq
  <2>3. chunk \in Seq(Byte) /\ Len(chunk) = IF 1 <= n THEN n - 1 + 1 ELSE 0
    BY <1>2, <2>1, <2>2, SubSeqProperties
  <2>4. CASE n = 0
    BY <2>1, <2>3, <2>4, ChunksAssumption
  <2>5. CASE n # 0
    BY <2>1, <2>3, <2>5
  <2> QED
    BY <2>3, <2>4, <2>5
<1>4. CASE IsNewCall \/ p2 # 0
  <2>1. error \in AutoRespond /\ error # OK /\ error # ERR_INVALID_DATA
    <3>1. CASE IsNewCall
      <4>1. error = ERR_INVALID_STATE
        BY <3>1 DEF DataError
      <4> QED
        BY <4>1, Codes DEF ERR_INVALID_STATE, ERR_INVALID_DATA, OK
    <3>2. CASE ~IsNewCall
      <4>1. error = ERR_INVALID_REQUEST_PARAMETERS
        BY <1>1, <1>4, <3>2, LeftoverFits DEF DataError
      <4> QED
        BY <4>1, Codes DEF ERR_INVALID_REQUEST_PARAMETERS, ERR_INVALID_DATA, OK
    <3> QED
      BY <3>1, <3>2
  <2>2. Refused(error)
    BY <2>1 DEF HandleData
  <2> HIDE DEF error
  <2> QED
    BY <2>1, <2>2, RefusedAnswers
<1>5. CASE ~IsNewCall /\ p2 = 0
  <2> DEFINE q == [parser EXCEPT !.unread = @ \o chunk, !.bufferPos = 0]
  <2>1. InCall /\ magic /\ Len(parser.unread) <= MAX_WIDTH
    BY <1>1, <1>5, LeftoverFits
  <2> HIDE DEF chunk
  <2>2. stream_appendData(parser, chunk).error = OK /\ stream_appendData(parser, chunk).parser = q
    BY <1>2, <1>3, <2>1, AppendFits
  <2>3. error = OK
    BY <1>5, <2>1, <2>2 DEF DataError
  <2>4. parser' = q /\ hashed' = hashed \o chunk /\ reply' = reply
    BY <2>2, <2>3 DEF HandleData, chunk
  <2> HIDE DEF error, q
  <2>5. ASSUME NEW tx \in AllTransactions, NEW more \in Seq(Byte),
               (hashed \o chunk) \o more = EncodeTx(tx)
        PROVE  \E i \in Nat : OnTheWay(q, tx, i, more)
    <3>1. hashed \o (chunk \o more) = EncodeTx(tx)
      <4>1. Associates(hashed, chunk, more)
        BY <1>2, <1>3, Associative
      <4> QED
        BY <2>5, <4>1 DEF Associates
    <3>2. chunk \o more \in Seq(Byte)
      BY <1>3, ConcatProperties
    <3>3. PICK i \in Nat : OnTheWay(parser, tx, i, chunk \o more)
      BY <2>1, <3>1, <3>2 DEF AnswersInv, OnTheWayInv
    <3>4. OnTheWay(q, tx, i, more)
      BY <1>2, <1>3, <3>3, WayAppended DEF q
    <3> QED
      BY <3>4
  <2>6. OnTheWayInv'
    BY <2>4, <2>5 DEF OnTheWayInv
  <2>7. ~Sending'
    BY <1>1, <2>4 DEF Accepts, Sending
  <2> QED
    BY <2>6, <2>7 DEF AnswersInv, RefusalInv, AskingInv, Answered
<1> QED
  BY <1>4, <1>5

\* A turn of the parser loop.
LEMMA KeepParsingAnswers ==
  ASSUME Inv, AnswersInv, KeepParsing
  PROVE  AnswersInv'
<1> DEFINE step == parser_advanceMainState(parser)
<1>1. /\ parsing /\ parser.mainState # "FINISHED" /\ parser' = step.parser
      /\ hashed' = hashed
  BY DEF KeepParsing
<1>2. TurnAnswers(step.error)
  BY DEF KeepParsing, TurnAnswers
<1>3. InCall /\ ~Sending
  BY <1>1 DEF Inv, ControlInv
<1>4. PICK r : At(parser, r, hashed, toSend)
  BY <1>3, InCallAt DEF Inv
<1>5. Outcome(parser, step, hashed, toSend)
  BY <1>1, <1>4, MainStep
<1>6. ASSUME NEW tx \in AllTransactions, NEW more \in Seq(Byte), hashed \o more = EncodeTx(tx)
      PROVE  GoesItsWay(parser, step, tx, more)
  <2>1. PICK i : Underway(parser, tx, i, more)
    BY <1>3, <1>6, InCallUnderway
  <2> QED
    BY <1>1, <2>1, MainGoesItsWay
<1>7. OK # ERR_NOT_ENOUGH_INPUT /\ OK # ERR_UNEXPECTED_TOKEN
      /\ ERR_NOT_ENOUGH_INPUT # ERR_UNEXPECTED_TOKEN /\ SUCCESS # ERR_INVALID_DATA
  BY DEF OK, ERR_NOT_ENOUGH_INPUT, ERR_UNEXPECTED_TOKEN, SUCCESS, ERR_INVALID_DATA
<1>8. hashed \in Seq(Byte)
  BY DEF Inv, TypeOK
<1> HIDE DEF step
<1>9. CASE Waits(parser, step)
  <2>1. step.error = ERR_NOT_ENOUGH_INPUT /\ step.parser = parser
    BY <1>9 DEF Waits, Throws
  <2>2. Respond(ATTEST_UTXO, SUCCESS, NoData, "nothing")
    BY <1>2, <2>1, TurnVerdicts
  <2>3. reply'.code = SUCCESS /\ reply'.then = "nothing"
    BY <2>2 DEF Respond
  <2>4. OnTheWayInv'
    BY <1>1, <1>3, <2>1 DEF AnswersInv, OnTheWayInv
  <2>5. RefusalInv'
    BY <1>7, <2>3 DEF RefusalInv
  <2>6. AskingInv'
    <3>1. ASSUME NEW tx \in AllTransactions, hashed = EncodeTx(tx)
          PROVE  FALSE
      <4>1. <<>> \in Seq(Byte) /\ hashed \o <<>> = hashed
        BY <1>8, EmptySeq, ConcatEmptySeq
      <4>2. GoesItsWay(parser, step, tx, <<>>)
        BY <1>6, <3>1, <4>1
      <4>3. PICK q : step = Goes(q)
        BY <4>2 DEF GoesItsWay
      <4> QED
        BY <1>7, <2>1, <4>3 DEF Goes
    <3> QED
      BY <1>1, <3>1 DEF AskingInv
  <2> QED
    BY <2>4, <2>5, <2>6 DEF AnswersInv
<1>10. CASE Refuses(parser, step)
  <2>1. step.error = ERR_UNEXPECTED_TOKEN /\ step.parser = parser
    BY <1>10 DEF Refuses, Throws
  <2>2. Throw(ATTEST_UTXO, ERR_INVALID_DATA)
    BY <1>2, <2>1, TurnVerdicts
  <2>3. Respond(ATTEST_UTXO, ERR_INVALID_DATA, NoData, "idle")
    BY <2>2, Codes DEF Throw
  <2>4. reply'.code = ERR_INVALID_DATA /\ reply'.then = "idle"
    BY <2>3 DEF Respond
  <2>5. OnTheWayInv' /\ AskingInv'
    BY <1>7, <2>4 DEF OnTheWayInv, AskingInv, InCall
  <2>6. RefusalInv'
    <3>1. ASSUME NEW tx \in AllTransactions, IsPrefix(hashed, EncodeTx(tx))
          PROVE  FALSE
      <4>1. PICK more \in Seq(Byte) : hashed \o more = EncodeTx(tx)
        BY <1>8, <3>1, EncodedBytes, Completed
      <4>2. GoesItsWay(parser, step, tx, more)
        BY <1>6, <4>1
      <4>3. step.error = ERR_NOT_ENOUGH_INPUT \/ step.error = OK
        BY <4>2 DEF GoesItsWay, Goes, Throws
      <4> QED
        BY <1>7, <2>1, <4>3
    <3> QED
      BY <1>1, <3>1 DEF RefusalInv
  <2> QED
    BY <2>5, <2>6 DEF AnswersInv
<1>11. CASE GoesOn(step, hashed, toSend)
  <2>1. step.error = OK
    BY <1>11 DEF GoesOn, Goes
  <2>2. UNCHANGED platformVars
    BY <1>2, <2>1, TurnVerdicts
  <2>3. reply' = reply
    BY <2>2 DEF platformVars
  <2>4. ASSUME NEW tx \in AllTransactions, NEW more \in Seq(Byte), hashed \o more = EncodeTx(tx)
        PROVE  \E i \in Nat : OnTheWay(step.parser, tx, i, more)
    <3>1. GoesItsWay(parser, step, tx, more)
      BY <1>6, <2>4
    <3>2. CASE step = Throws(parser, ERR_NOT_ENOUGH_INPUT)
      BY <1>7, <2>1, <3>2 DEF Throws
    <3>3. CASE \E q, i : step = Goes(q) /\ i \in Nat /\ OnTheWay(q, tx, i, more)
      BY <3>3 DEF Goes
    <3> QED
      BY <3>1, <3>2, <3>3 DEF GoesItsWay
  <2>5. OnTheWayInv'
    BY <1>1, <2>4 DEF OnTheWayInv
  <2>6. ~Sending'
    BY <1>3, <2>3 DEF Sending
  <2> QED
    BY <2>5, <2>6 DEF AnswersInv, RefusalInv, AskingInv, Answered
<1> QED
  BY <1>5, <1>9, <1>10, <1>11 DEF Outcome

\* The transaction has been read, and nothing but a transaction without the output
\* that is asked for, or with too large an amount in it, is refused.
LEMMA FinishAnswers ==
  ASSUME Inv, AnswersInv, Finish
  PROVE  AnswersInv'
<1>1. /\ parsing /\ parser.mainState = "FINISHED"
      /\ parser' = parser /\ hashed' = hashed
  BY DEF Finish
<1>2. InCall /\ hashed \in Seq(Byte) /\ parser \in Parser
  BY <1>1 DEF Inv, ControlInv, TypeOK
<1>3. CASE ~(NothingLeft(parser) /\ parser_getAttestedAmount(parser) # LOVELACE_INVALID)
  <2>1. Throw(ATTEST_UTXO, ERR_INVALID_DATA)
    BY <1>3 DEF Finish
  <2>2. Respond(ATTEST_UTXO, ERR_INVALID_DATA, NoData, "idle")
    BY <2>1, Codes DEF Throw
  <2>3. reply'.code = ERR_INVALID_DATA /\ reply'.then = "idle"
    BY <2>2 DEF Respond
  <2>4. OnTheWayInv' /\ AskingInv'
    BY <2>3 DEF OnTheWayInv, AskingInv, InCall, SUCCESS, ERR_INVALID_DATA
  <2>5. ASSUME NEW tx \in AllTransactions, Attestable(tx, parser.attestedOutputIndex),
               IsPrefix(hashed, EncodeTx(tx))
        PROVE  FALSE
    <3> DEFINE index == parser.attestedOutputIndex
               k == parser.currentOutputIndex
    <3>1. PICK more \in Seq(Byte) : hashed \o more = EncodeTx(tx)
      BY <1>2, <2>5, EncodedBytes, Completed
    <3>2. PICK i : Underway(parser, tx, i, more)
      BY <1>2, <3>1, InCallUnderway
    <3>3. parser.unread \o more = <<>>
      BY <1>1, <3>2 DEF Underway, OnTheWay, ToCome
    <3>4. parser.unread = <<>>
      <4>1. parser.unread \in Seq(Byte)
        BY <1>2 DEF Parser
      <4> QED
        BY <3>3, <4>1, ConcatProperties, EmptySeq, LenProperties
    <3>5. /\ index < k /\ parser.outputAmount <= LOVELACE_MAX_SUPPLY
          /\ index \in Nat /\ k \in Nat /\ parser.outputAmount \in Nat
      <4>1. index \in Nat /\ k \in Nat /\ parser.outputAmount \in Nat
        BY <1>2 DEF Parser
      <4>2. index < Len(tx.outputs) /\ tx.outputs[index + 1].amount <= LOVELACE_MAX_SUPPLY
        BY <2>5 DEF Attestable
      <4>3. k = Len(tx.outputs) /\ (index < k => parser.outputAmount = tx.outputs[index + 1].amount)
        BY <1>1, <3>2 DEF Underway, OnTheWay, OutputAt
      <4> HIDE DEF index, k
      <4> QED
        BY <4>1, <4>2, <4>3
    <3>6. parser_getAttestedAmount(parser) = parser.outputAmount
      BY <1>1, <3>5, ParserAssumption DEF parser_getAttestedAmount
    <3>7. parser.outputAmount # LOVELACE_INVALID
      BY <3>5, ParserAssumption DEF LOVELACE_INVALID
    <3> QED
      BY <1>3, <3>4, <3>6, <3>7 DEF NothingLeft
  <2>6. RefusalInv'
    BY <1>1, <2>5 DEF RefusalInv
  <2> QED
    BY <2>4, <2>6 DEF AnswersInv
<1>4. CASE NothingLeft(parser) /\ parser_getAttestedAmount(parser) # LOVELACE_INVALID
  <2>1. Respond(ATTEST_UTXO, SUCCESS, Certificate, "idle")
    BY <1>4 DEF Finish
  <2>2. Certificate # NoData
    <3>1. Certificate.kind = "certificate" /\ NoData.kind = "none"
      BY DEF Certificate, NoData
    <3> QED
      BY <3>1
  <2>3. SUCCESS # ERR_INVALID_DATA
    BY DEF SUCCESS, ERR_INVALID_DATA
  <2> HIDE DEF Certificate
  <2> QED
    BY <2>1, <2>2, <2>3, OtherAnswers
<1> QED
  BY <1>3, <1>4

\* Every step preserves what the answers are about.
LEMMA NextAnswers == Inv /\ AnswersInv /\ [Next]_vars => AnswersInv'
<1> SUFFICES ASSUME Inv, AnswersInv, [Next]_vars PROVE AnswersInv'
  OBVIOUS
<1>1. ASSUME NEW p2 \in {0, 1}, NEW sizeOk \in BOOLEAN, NEW i \in Indexes, NEW s \in Streams,
             HandleInit(p2, sizeOk, i, s)
      PROVE  AnswersInv'
  BY <1>1, HandleInitAnswers
<1>2. ASSUME NEW p2 \in {0, 1}, NEW n \in 0 .. MaxChunk, HandleData(p2, n)
      PROVE  AnswersInv'
  BY <1>2, HandleDataAnswers
<1>3. CASE HandleUnknownP1
  <2> DEFINE error == IF IsNewCall THEN ERR_INVALID_STATE ELSE ERR_INVALID_REQUEST_PARAMETERS
  <2>1. Refused(error)
    BY <1>3 DEF HandleUnknownP1
  <2>2. error \in AutoRespond /\ error # ERR_INVALID_DATA
    BY Codes DEF ERR_INVALID_STATE, ERR_INVALID_REQUEST_PARAMETERS, ERR_INVALID_DATA
  <2> HIDE DEF error
  <2> QED
    BY <2>1, <2>2, RefusedAnswers
<1>4. CASE KeepParsing
  BY <1>4, KeepParsingAnswers
<1>5. CASE Finish
  BY <1>5, FinishAnswers
<1>6. CASE SendDone
  <2>1. /\ reply' = NoReply /\ UNCHANGED <<parser, magic, hashed>>
        /\ currentInstruction' = IF reply.then = "idle" THEN INS_NONE ELSE currentInstruction
    BY <1>6 DEF SendDone, Transmitted, attestVars
  <2>2. InCall' => InCall
    BY <2>1 DEF InCall, INS_NONE, ATTEST_UTXO
  <2> QED
    BY <2>1, <2>2, AnswersKept
<1>7. CASE PlatformStep
  <2>1. UNCHANGED <<parser, magic, hashed>>
    BY <1>7 DEF PlatformStep, attestVars
  <2>2. CASE RejectApdu
    <3>1. PICK e \in MainLoopErrors : Respond(currentInstruction, e, NoData, "idle")
      BY <2>2 DEF RejectApdu
    <3>2. e # ERR_INVALID_DATA /\ e # SUCCESS
      BY DEF MainLoopErrors, SUCCESS, ERR_INVALID_DATA, ERR_DEVICE_LOCKED,
             ERR_MALFORMED_REQUEST_HEADER, ERR_BAD_CLA, ERR_UNKNOWN_INS, ERR_STILL_IN_CALL
    <3> QED
      BY <3>1, <3>2, OtherAnswers
  <2>3. CASE LockDevice \/ UnlockDevice
    <3>1. reply' = reply /\ currentInstruction' = currentInstruction
      BY <2>3 DEF LockDevice, UnlockDevice
    <3> QED
      BY <2>1, <3>1, AnswersKept DEF InCall
  <2> QED
    BY <1>7, <2>2, <2>3 DEF PlatformStep
<1>8. CASE StartOver
  <2>1. /\ reply' = NoReply /\ UNCHANGED <<parser, magic, hashed>>
        /\ currentInstruction' = INS_NONE
    BY <1>8 DEF StartOver, IoReset, Restart, Boot
  <2>2. ~InCall'
    BY <2>1 DEF InCall, INS_NONE, ATTEST_UTXO
  <2> QED
    BY <2>1, <2>2, AnswersKept
<1>9. CASE UNCHANGED vars
  <2>1. reply' = reply /\ currentInstruction' = currentInstruction
        /\ UNCHANGED <<parser, magic, hashed>>
    BY <1>9 DEF vars, platformVars, attestVars
  <2> QED
    BY <2>1, AnswersKept DEF InCall
<1> QED
  BY <1>1, <1>2, <1>3, <1>4, <1>5, <1>6, <1>7, <1>8, <1>9 DEF Next

\* To begin with there is no call and no answer.
LEMMA InitAnswers == Init => AnswersInv
<1> SUFFICES ASSUME Init PROVE AnswersInv
  OBVIOUS
<1>1. currentInstruction = INS_NONE /\ reply = NoReply
  BY DEF Init, PlatformInit
<1>2. ~InCall /\ ~Sending
  BY <1>1 DEF InCall, Sending, INS_NONE, ATTEST_UTXO, NoReply
<1> QED
  BY <1>2 DEF AnswersInv, OnTheWayInv, RefusalInv, AskingInv, Answered

-----------------------------------------------------------------------------
(***************************************************************************)
(* The theorems.                                                           *)
(***************************************************************************)

\* What has been hashed is always what the parser has read, and what it has not.
THEOREM Invariant == Spec => []Inv
<1>1. Init => Inv
  BY InitInv
<1>2. Inv /\ [Next]_vars => Inv'
  BY NextInv
<1> QED
  BY <1>1, <1>2, PTL DEF Spec

\* Every variable stays in its range, and the parser in its buffer, whatever is sent.
THEOREM TypeCorrect == Spec => []TypeOK
<1>1. Inv => TypeOK
  BY DEF Inv
<1> QED
  BY <1>1, Invariant, PTL

\* No assertion of the parser or of the stream fails, and no APDU finds the buffer
\* full, however a stream of any length is cut.
THEOREM NoInternalAssertFails == Spec => []InternalAssertionsHold
<1>1. Inv => InternalAssertionsHold
  BY DEF Inv, ControlInv, On, InternalAssertionsHold, NotCrashed, InternalCrashes,
         ASSERT_MAGIC, ASSERT_PARSER_STATE, ASSERT_STREAM_STATE, ERR_DATA_TOO_LARGE
<1> QED
  BY <1>1, Invariant, PTL

\* Nothing but the beginning of one token waits for the next APDU.
THEOREM PartialTokens == Spec => []LeftoverIsPartialToken
<1>1. Inv => LeftoverIsPartialToken
  BY DEF Inv
<1> QED
  BY <1>1, Invariant, PTL

\* A certificate is about one whole transaction, of any number of inputs and
\* outputs, that some stream of the host begins with: its hash is the hash of that
\* transaction, and its index and amount are those of one of its outputs.
THEOREM SomeTransaction == Spec => []CertificateInv
<1>1. Inv => CertificateInv
  BY DEF Inv
<1> QED
  BY <1>1, Invariant, PTL

\* The same as the run states it: the transaction is one of Transactions, provided
\* that those are all the transactions a stream can begin with.
THEOREM TrueCertificates ==
  ASSUME TransactionsAreAll
  PROVE  Spec => []CertificateIsTrue
<1>1. Inv => CertificateIsTrue
  <2> SUFFICES ASSUME Inv, Sending, reply.data.kind = "certificate"
               PROVE  \E tx \in Transactions :
                        /\ reply.data.hash = EncodeTx(tx)
                        /\ Attestable(tx, reply.data.index)
                        /\ reply.data.amount = tx.outputs[reply.data.index + 1].amount
    BY DEF CertificateIsTrue
  <2>1. PICK tx \in AllTransactions :
          /\ reply.data.hash = EncodeTx(tx)
          /\ Attestable(tx, reply.data.index)
          /\ reply.data.amount = tx.outputs[reply.data.index + 1].amount
          /\ \E s \in Streams : IsPrefix(EncodeTx(tx), s)
    BY DEF Inv, CertificateInv
  <2>2. tx \in Transactions
    BY <2>1 DEF TransactionsAreAll
  <2> QED
    BY <2>1, <2>2
<1> QED
  BY <1>1, Invariant, PTL

\* In a call the parser is always on its way through whatever transaction the bytes
\* are the beginning of, and its answers are about all transactions.
THEOREM OnItsWay == Spec => []AnswersInv
<1>1. Init => AnswersInv
  BY InitAnswers
<1>2. Inv /\ AnswersInv /\ [Next]_vars => AnswersInv'
  BY NextAnswers
<1> QED
  BY <1>1, <1>2, Invariant, PTL DEF Spec

\* A transaction that has the output that is asked for is never refused on the way,
\* however long it is and however it is cut into chunks.
THEOREM RefusesNoTransaction == Spec => []RefusesOnlyOthers
<1>1. Transactions \subseteq AllTransactions
  BY ChunksAssumption DEF AllTransactions, InputLists, OutputLists, Output
<1>2. AnswersInv => RefusesOnlyOthers
  BY <1>1 DEF AnswersInv, RefusalInv, RefusesOnlyOthers
<1> QED
  BY <1>2, OnItsWay, PTL

\* With the last byte of a transaction the answer is final: nobody is asked to go on.
THEOREM AsksInNoVain == Spec => []AsksOnlyForMore
<1>1. Transactions \subseteq AllTransactions
  BY ChunksAssumption DEF AllTransactions, InputLists, OutputLists, Output
<1>2. AnswersInv => AsksOnlyForMore
  BY <1>1 DEF AnswersInv, AskingInv, AsksOnlyForMore
<1> QED
  BY <1>2, OnItsWay, PTL
-----------------------------------------------------------------------------
(***************************************************************************)
(* The steps as the platform sees them: every request is answered, or the  *)
(* parser works on it until one of its turns answers.                      *)
(***************************************************************************)
Answers ==
  /\ parsing' = FALSE
  /\ \E code \in {SUCCESS} \cup AutoRespond : \E data, then :
       /\ code # SUCCESS => then = "idle"
       /\ Respond(ATTEST_UTXO, code, data, then)

Works ==
  /\ parsing' = TRUE
  /\ ~IsNewCall
  /\ ioState' = IoStateInside
  /\ awaiting' = TRUE
  /\ UNCHANGED <<crashed, currentInstruction, display, reply, locked>>

Continues == parsing' = TRUE /\ UNCHANGED platformVars

\* Refusing and throwing an error of the host is answering.
LEMMA ErrorsAnswer ==
  ASSUME NEW e \in AutoRespond
  PROVE  /\ Throw(ATTEST_UTXO, e) /\ parsing' = FALSE => Answers
         /\ Refused(e) /\ ~parsing /\ parsing \in BOOLEAN => Answers
<1>1. Throw(ATTEST_UTXO, e) => Respond(ATTEST_UTXO, e, NoData, "idle")
  BY DEF Throw
<1> QED
  BY <1>1 DEF Answers, Refused

\* P1 = 1 is answered at once,
LEMMA HandleInitMoves ==
  ASSUME NEW p2, NEW sizeOk, NEW i, NEW s, parsing \in BOOLEAN, HandleInit(p2, sizeOk, i, s)
  PROVE  Answers
<1> DEFINE error == InitError(p2, sizeOk)
<1>1. CASE ~IsNewCall
  BY <1>1, Codes, ErrorsAnswer DEF HandleInit
<1>2. CASE IsNewCall /\ error # OK
  <2>1. Throw(ATTEST_UTXO, error) /\ parsing' = FALSE
    BY <1>2 DEF HandleInit
  <2>2. error \in AutoRespond
    BY <1>2, Codes DEF InitError
  <2> HIDE DEF error
  <2> QED
    BY <2>1, <2>2, ErrorsAnswer
<1>3. CASE IsNewCall /\ error = OK
  <2>1. parsing' = FALSE /\ Respond(ATTEST_UTXO, SUCCESS, NoData, "busy")
    BY <1>3 DEF HandleInit
  <2> QED
    BY <2>1 DEF Answers
<1> QED
  BY <1>1, <1>2, <1>3

\* so is what is neither P1 = 1 nor P1 = 2,
LEMMA HandleUnknownP1Moves ==
  ASSUME parsing \in BOOLEAN, HandleUnknownP1
  PROVE  Answers
<1> DEFINE error == IF IsNewCall THEN ERR_INVALID_STATE ELSE ERR_INVALID_REQUEST_PARAMETERS
<1>1. ~parsing /\ Refused(error)
  BY DEF HandleUnknownP1
<1>2. error \in AutoRespond
  BY Codes
<1> HIDE DEF error
<1> QED
  BY <1>1, <1>2, ErrorsAnswer

\* and P1 = 2, unless the parser takes the bytes.
LEMMA HandleDataMoves ==
  ASSUME Inv, NEW p2 \in {0, 1}, NEW n \in 0 .. MaxChunk, HandleData(p2, n)
  PROVE  Answers \/ Works
<1> DEFINE chunk == SubSeq(toSend, 1, n)
           error == DataError(p2, chunk)
<1>1. Accepts(ATTEST_UTXO) /\ ~parsing
  BY DEF HandleData
<1>2. CASE error = OK
  <2>1. ~IsNewCall
    BY <1>2 DEF DataError, ERR_INVALID_STATE, OK
  <2> QED
    BY <1>2, <2>1 DEF HandleData, Works
<1>3. CASE error # OK
  <2>1. Refused(error)
    BY <1>3 DEF HandleData
  <2>2. error \in AutoRespond
    <3>1. CASE IsNewCall
      BY <3>1, Codes DEF DataError
    <3>2. CASE ~IsNewCall
      <4>1. magic /\ Len(parser.unread) <= MAX_WIDTH
        BY <1>1, <3>2, LeftoverFits
      <4>2. parser \in Parser /\ chunk \in Seq(Byte) /\ Len(chunk) <= MaxChunk
        <5>1. parser \in Parser /\ toSend \in Seq(Byte)
          BY DEF Inv, TypeOK
        <5>2. n \in 0 .. Len(toSend) /\ n <= MaxChunk /\ Len(toSend) \in Nat
          BY <5>1, ChunksAssumption, LenProperties DEF HandleData
        <5>3. \A j \in 1 .. n : toSend[j] \in Byte
          BY <5>1, <5>2, ElementOfSeq
        <5>4. chunk \in Seq(Byte) /\ Len(chunk) = IF 1 <= n THEN n - 1 + 1 ELSE 0
          BY <5>1, <5>2, <5>3, SubSeqProperties
        <5>5. Len(chunk) <= MaxChunk
          <6>1. CASE n = 0
            BY <5>2, <5>4, <6>1, ChunksAssumption
          <6>2. CASE n # 0
            BY <5>2, <5>4, <6>2
          <6> QED
            BY <6>1, <6>2
        <5> QED
          BY <5>1, <5>4, <5>5
      <4> HIDE DEF chunk
      <4>3. stream_appendData(parser, chunk).error = OK
        <5>1. parser \in Parser
          BY <4>2
        <5>2. chunk \in Seq(Byte)
          BY <4>2
        <5>3. Len(chunk) <= MaxChunk
          BY <4>2
        <5>4. Len(parser.unread) <= MAX_WIDTH
          BY <4>1
        <5> QED
          BY <5>1, <5>2, <5>3, <5>4, AppendFits, Zenon
      <4>4. error = ERR_INVALID_REQUEST_PARAMETERS
        BY <1>3, <3>2, <4>1, <4>3 DEF DataError
      <4> QED
        BY <4>4, Codes
    <3> QED
      BY <3>1, <3>2
  <2>3. parsing \in BOOLEAN
    BY DEF Inv, TypeOK
  <2> HIDE DEF error
  <2>4. Answers
    BY <1>1, <2>1, <2>2, <2>3, ErrorsAnswer
  <2> QED
    BY <2>4
<1> QED
  BY <1>2, <1>3

\* A turn of the parser leaves the platform alone, or answers.
LEMMA KeepParsingMoves ==
  ASSUME Inv, KeepParsing
  PROVE  Answers \/ Continues
<1> DEFINE step == parser_advanceMainState(parser)
<1>1. parsing /\ parser.mainState # "FINISHED" /\ parsing' = (step.error = OK)
  BY DEF KeepParsing
<1>2. TurnAnswers(step.error)
  BY DEF KeepParsing, TurnAnswers
<1>3. PICK r : At(parser, r, hashed, toSend)
  <2>1. InCall
    BY <1>1 DEF Inv, ControlInv
  <2> QED
    BY <2>1, InCallAt DEF Inv
<1>4. Outcome(parser, step, hashed, toSend)
  BY <1>1, <1>3, MainStep
<1> HIDE DEF step
<1>5. CASE Waits(parser, step)
  <2>1. step.error = ERR_NOT_ENOUGH_INPUT
    BY <1>5 DEF Waits, Throws
  <2>2. Respond(ATTEST_UTXO, SUCCESS, NoData, "nothing")
    BY <1>2, <2>1, TurnVerdicts
  <2>3. parsing' = FALSE
    BY <1>1, <2>1 DEF OK, ERR_NOT_ENOUGH_INPUT
  <2> QED
    BY <2>2, <2>3 DEF Answers
<1>6. CASE Refuses(parser, step)
  <2>1. step.error = ERR_UNEXPECTED_TOKEN
    BY <1>6 DEF Refuses, Throws
  <2>2. Throw(ATTEST_UTXO, ERR_INVALID_DATA)
    BY <1>2, <2>1, TurnVerdicts
  <2>3. parsing' = FALSE
    BY <1>1, <2>1 DEF OK, ERR_UNEXPECTED_TOKEN
  <2> QED
    BY <2>2, <2>3, Codes, ErrorsAnswer
<1>7. CASE GoesOn(step, hashed, toSend)
  <2>1. step.error = OK
    BY <1>7 DEF GoesOn, Goes
  <2> QED
    BY <1>1, <1>2, <2>1, TurnVerdicts DEF Continues
<1>8. Waits(parser, step) \/ Refuses(parser, step) \/ GoesOn(step, hashed, toSend)
  BY <1>4 DEF Outcome
<1> QED
  BY <1>5, <1>6, <1>7, <1>8

\* At the end of the transaction it answers, with a certificate or an error.
LEMMA FinishMoves ==
  ASSUME Finish
  PROVE  /\ Answers
         /\ reply'.data = NoData \/ reply'.data = Certificate
<1>1. parsing' = FALSE
  BY DEF Finish
<1>2. CASE ~(NothingLeft(parser) /\ parser_getAttestedAmount(parser) # LOVELACE_INVALID)
  <2>1. Throw(ATTEST_UTXO, ERR_INVALID_DATA) /\ ERR_INVALID_DATA \in AutoRespond
    BY <1>2, Codes DEF Finish
  <2>2. Answers
    BY <1>1, <2>1, ErrorsAnswer
  <2>3. reply'.data = NoData
    BY <2>1 DEF Throw, Respond
  <2> QED
    BY <2>2, <2>3
<1>3. CASE NothingLeft(parser) /\ parser_getAttestedAmount(parser) # LOVELACE_INVALID
  <2>1. Respond(ATTEST_UTXO, SUCCESS, Certificate, "idle")
    BY <1>3 DEF Finish
  <2> QED
    BY <1>1, <2>1 DEF Answers, Respond
<1> QED
  BY <1>2, <1>3
=============================================================================
