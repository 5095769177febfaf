-------------------------- MODULE LspReaderProofs --------------------------
(***************************************************************************)
(* Theorems about LspReader, for every set of shapes and every number of   *)
(* messages in the stream.                                                 *)
(***************************************************************************)
EXTENDS LspReader, SequenceFilterProofs, TLAPS

Values == Int \cup {Other, Junk, None}
TokenSet == [msg : 1..Count, kind : {"header", "junk", "length", "blank", "body"},
             value : Int \cup {None}]

\* The messages are of the given shapes.
Written == msgs \in [1..Count -> Shapes]

Lines(i) == Len(msgs[i].lines)
Body(i)  == msgs[i].body

-----------------------------------------------------------------------------
(* The stream                                                              *)

LEMMA Concatenation ==
  ASSUME NEW S, NEW s \in Seq(S), NEW t \in Seq(S)
  PROVE  /\ s \o t \in Seq(S) /\ Len(s \o t) = Len(s) + Len(t)
         /\ \A k \in 1..Len(s) : (s \o t)[k] = s[k]
         /\ \A k \in 1..Len(t) : (s \o t)[Len(s) + k] = t[k]
OBVIOUS

LEMMA MessageType ==
  ASSUME Written, NEW i \in 1..Count
  PROVE  /\ msgs[i].lines \in Seq(Values) /\ Lines(i) \in Nat /\ Body(i) \in Nat
         /\ msgs[i].json \in BOOLEAN
BY ShapeAssumption DEF Written, Lines, Body, Values

\* The tokens of a message: its header lines, the empty line and its body.
LEMMA TokensOfMessage ==
  ASSUME Written, NEW i \in 1..Count
  PROVE  /\ Tokens(i) \in Seq(TokenSet)
         /\ Len(Tokens(i)) = Lines(i) + 1 + Body(i)
         /\ \A k \in 1..Lines(i) :
              Tokens(i)[k] = IF msgs[i].lines[k] = Other THEN Token(i, "header", None)
                             ELSE IF msgs[i].lines[k] = Junk THEN Token(i, "junk", None)
                             ELSE Token(i, "length", msgs[i].lines[k])
         /\ Tokens(i)[Lines(i) + 1] = Token(i, "blank", None)
         /\ \A k \in Lines(i) + 2..Lines(i) + 1 + Body(i) : Tokens(i)[k] = Token(i, "body", None)
<1> DEFINE Line(v) == IF v = Other THEN Token(i, "header", None)
                      ELSE IF v = Junk THEN Token(i, "junk", None) ELSE Token(i, "length", v)
           a == [l \in 1..Lines(i) |-> Line(msgs[i].lines[l])]
           b == <<Token(i, "blank", None)>>
           c == [l \in 1..Body(i) |-> Token(i, "body", None)]
<1>1. Lines(i) \in Nat /\ Body(i) \in Nat /\ msgs[i].lines \in Seq(Values)
  BY MessageType
<1>2. Tokens(i) = a \o b \o c
  <2>1. DOMAIN msgs[i].lines = 1..Lines(i)
    BY <1>1 DEF Lines
  <2> QED
    BY <2>1, Zenon DEF Tokens, Body
<1>3. \A v \in Values : Line(v) \in TokenSet
  BY DEF Token, TokenSet, Values
<1>4. \A l \in 1..Lines(i) : msgs[i].lines[l] \in Values
  BY <1>1 DEF Lines
<1> HIDE DEF Line
<1>5. a \in Seq(TokenSet) /\ Len(a) = Lines(i)
  <2>1. \A l \in 1..Lines(i) : Line(msgs[i].lines[l]) \in TokenSet
    BY <1>3, <1>4
  <2> QED
    BY <1>1, <2>1
<1>6. b \in Seq(TokenSet) /\ Len(b) = 1 /\ b[1] = Token(i, "blank", None)
  BY DEF Token, TokenSet
<1>7. c \in Seq(TokenSet) /\ Len(c) = Body(i)
  <2>1. Token(i, "body", None) \in TokenSet
    BY DEF Token, TokenSet
  <2> QED
    BY <1>1, <2>1
<1>8. /\ \A k \in 1..Lines(i) : a[k] = Line(msgs[i].lines[k])
      /\ \A k \in 1..Body(i) : c[k] = Token(i, "body", None)
  OBVIOUS
<1> HIDE DEF a, b, c
<1>9. /\ a \o b \in Seq(TokenSet) /\ Len(a \o b) = Lines(i) + 1
      /\ \A k \in 1..Lines(i) : (a \o b)[k] = a[k]
      /\ (a \o b)[Lines(i) + 1] = b[1]
  <2>0. a \in Seq(TokenSet) /\ b \in Seq(TokenSet)
    BY <1>5, <1>6
  <2>1. /\ a \o b \in Seq(TokenSet) /\ Len(a \o b) = Len(a) + Len(b)
        /\ \A k \in 1..Len(a) : (a \o b)[k] = a[k]
        /\ \A k \in 1..Len(b) : (a \o b)[Len(a) + k] = b[k]
    BY <2>0, Concatenation
  <2>2. 1 \in 1..Len(b)
    BY <1>6
  <2> QED
    BY <1>5, <1>6, <2>1, <2>2
<1>10. /\ (a \o b) \o c \in Seq(TokenSet) /\ Len((a \o b) \o c) = Lines(i) + 1 + Body(i)
       /\ \A k \in 1..Lines(i) + 1 : ((a \o b) \o c)[k] = (a \o b)[k]
       /\ \A k \in 1..Body(i) : ((a \o b) \o c)[Lines(i) + 1 + k] = c[k]
  <2> DEFINE d == a \o b
  <2>1. d \in Seq(TokenSet) /\ Len(d) = Lines(i) + 1
    BY <1>9
  <2> HIDE DEF d
  <2>0. d \in Seq(TokenSet) /\ c \in Seq(TokenSet)
    BY <1>7, <2>1
  <2>2. /\ d \o c \in Seq(TokenSet) /\ Len(d \o c) = Len(d) + Len(c)
        /\ \A k \in 1..Len(d) : (d \o c)[k] = d[k]
        /\ \A k \in 1..Len(c) : (d \o c)[Len(d) + k] = c[k]
    BY <2>0, Concatenation
  <2>3. /\ d \o c \in Seq(TokenSet) /\ Len(d \o c) = Lines(i) + 1 + Body(i)
        /\ \A k \in 1..Lines(i) + 1 : (d \o c)[k] = d[k]
        /\ \A k \in 1..Body(i) : (d \o c)[Lines(i) + 1 + k] = c[k]
    BY <1>7, <2>1, <2>2
  <2> QED
    BY <2>3 DEF d
<1>11. \A k \in 1..Lines(i) : Tokens(i)[k] = Line(msgs[i].lines[k])
  BY <1>1, <1>2, <1>8, <1>9, <1>10
<1>12. Tokens(i)[Lines(i) + 1] = Token(i, "blank", None)
  BY <1>1, <1>2, <1>6, <1>9, <1>10
<1>13. \A k \in Lines(i) + 2..Lines(i) + 1 + Body(i) : Tokens(i)[k] = Token(i, "body", None)
  <2>1. \A k \in Lines(i) + 2..Lines(i) + 1 + Body(i) :
          k - (Lines(i) + 1) \in 1..Body(i) /\ k = Lines(i) + 1 + (k - (Lines(i) + 1))
    BY <1>1
  <2> QED
    BY <1>2, <1>8, <1>10, <2>1
<1> QED
  BY <1>2, <1>10, <1>11, <1>12, <1>13 DEF Line

\* f is the function Upto, as far as n.
UptoOf(f, i)    == IF i = 0 THEN 0 ELSE f[i - 1] + Len(Tokens(i))
IsEnds(f, n)    == f = [i \in 0..n |-> UptoOf(f, i)]

LEMMA UptoUnfolds ==
  ASSUME Written
  PROVE  /\ Upto[0] = 0
         /\ \A i \in 0..Count : Upto[i] \in Nat
         /\ \A i \in 1..Count : Upto[i] = Upto[i - 1] + Len(Tokens(i))
<1> USE CountAssumption
<1> DEFINE Good == {n \in Nat : \E f : IsEnds(f, n)}
<1>1. 0 \in Good
  <2>1. IsEnds([i \in 0..0 |-> 0], 0)
    BY DEF IsEnds, UptoOf
  <2> QED
    BY <2>1
<1>2. ASSUME NEW n \in Nat, n \in Good PROVE n + 1 \in Good
  <2>1. PICK f : IsEnds(f, n)
    BY <1>2
  <2> DEFINE g == [i \in 0..n + 1 |-> UptoOf(f, i)]
  <2>2. \A i \in 0..n : f[i] = UptoOf(f, i) /\ g[i] = f[i]
    BY <2>1 DEF IsEnds
  <2>3. \A i \in 0..n + 1 : i = 0 \/ g[i - 1] = f[i - 1]
    BY <2>2
  <2> HIDE DEF g
  <2>4. \A i \in 0..n + 1 : UptoOf(g, i) = UptoOf(f, i)
    BY <2>3 DEF UptoOf
  <2>5. IsEnds(g, n + 1)
    BY <2>4 DEF IsEnds, g
  <2> QED
    BY <2>5
<1>3. \E f : IsEnds(f, Count)
  <2> HIDE DEF Good
  <2>1. Count \in Good
    BY <1>1, <1>2, InductionOnSets
  <2> QED
    BY <2>1 DEF Good
<1>4. Upto = [i \in 0..Count |-> UptoOf(Upto, i)]
  BY <1>3 DEF Upto, IsEnds, UptoOf
<1>5. \A i \in 0..Count : Upto[i] = UptoOf(Upto, i)
  BY <1>4
<1>6. Upto[0] = 0 /\ \A i \in 1..Count : Upto[i] = Upto[i - 1] + Len(Tokens(i))
  BY <1>5 DEF UptoOf
<1> DEFINE Typed == {n \in Nat : n <= Count => Upto[n] \in Nat}
<1>7. 0 \in Typed
  BY <1>6
<1>8. ASSUME NEW n \in Nat, n \in Typed PROVE n + 1 \in Typed
  <2> SUFFICES ASSUME n + 1 <= Count PROVE Upto[n + 1] \in Nat
    OBVIOUS
  <2>1. Len(Tokens(n + 1)) \in Nat
    BY TokensOfMessage
  <2> QED
    BY <1>6, <1>8, <2>1
<1>9. \A i \in 0..Count : Upto[i] \in Nat
  <2> HIDE DEF Typed
  <2>1. Nat \subseteq Typed
    BY <1>7, <1>8, InductionOnSets
  <2> QED
    BY <2>1 DEF Typed
<1> QED
  BY <1>6, <1>9

\* A message ends at least one token, its empty line, after the one before it.
LEMMA UptoIncreases ==
  ASSUME Written, NEW i \in 0..Count, NEW j \in 0..Count, i < j
  PROVE  Upto[i] < Upto[j]
<1> USE CountAssumption
<1> DEFINE Good == {n \in Nat : \A m \in 0..Count : m < n /\ n <= Count => Upto[m] < Upto[n]}
<1>1. 0 \in Good
  OBVIOUS
<1>2. ASSUME NEW n \in Nat, n \in Good PROVE n + 1 \in Good
  <2> SUFFICES ASSUME NEW m \in 0..Count, m < n + 1, n + 1 <= Count
               PROVE  Upto[m] < Upto[n + 1]
    OBVIOUS
  <2>1. Len(Tokens(n + 1)) \in Nat /\ Len(Tokens(n + 1)) > 0
    BY TokensOfMessage, MessageType
  <2>2. Upto[n + 1] = Upto[n] + Len(Tokens(n + 1)) /\ Upto[n] \in Nat /\ Upto[m] \in Nat
    BY UptoUnfolds
  <2>3. m = n \/ Upto[m] < Upto[n]
    BY <1>2
  <2> QED
    BY <2>1, <2>2, <2>3
<1> HIDE DEF Good
<1>3. Nat \subseteq Good
  BY <1>1, <1>2, InductionOnSets
<1> QED
  BY <1>3 DEF Good

\* f is the function Flat of Stream, as far as n.
FlatOf(f, i)    == IF i = 0 THEN <<>> ELSE f[i - 1] \o Tokens(i)
IsFlat(f, n)    == f = [i \in 0..n |-> FlatOf(f, i)]

\* The stream holds the tokens of the messages, each message after the one before.
LEMMA StreamOfMessages ==
  ASSUME Written
  PROVE  /\ Stream \in Seq(TokenSet) /\ Len(Stream) = Upto[Count]
         /\ \A i \in 1..Count, k \in Nat :
              k \in 1..Len(Tokens(i)) => Stream[Upto[i - 1] + k] = Tokens(i)[k]
<1> USE CountAssumption
<1> DEFINE Good == {n \in Nat : \E f : IsFlat(f, n)}
<1>1. 0 \in Good
  <2>1. IsFlat([i \in 0..0 |-> <<>>], 0)
    BY DEF IsFlat, FlatOf
  <2> QED
    BY <2>1
<1>2. ASSUME NEW n \in Nat, n \in Good PROVE n + 1 \in Good
  <2>1. PICK f : IsFlat(f, n)
    BY <1>2
  <2> DEFINE g == [i \in 0..n + 1 |-> FlatOf(f, i)]
  <2>2. \A i \in 0..n : f[i] = FlatOf(f, i) /\ g[i] = f[i]
    BY <2>1 DEF IsFlat
  <2>3. \A i \in 0..n + 1 : i = 0 \/ g[i - 1] = f[i - 1]
    BY <2>2
  <2> HIDE DEF g
  <2>4. \A i \in 0..n + 1 : FlatOf(g, i) = FlatOf(f, i)
    BY <2>3 DEF FlatOf
  <2>5. IsFlat(g, n + 1)
    BY <2>4 DEF IsFlat, g
  <2> QED
    BY <2>5
<1>3. \E f : IsFlat(f, Count)
  <2> HIDE DEF Good
  <2>1. Count \in Good
    BY <1>1, <1>2, InductionOnSets
  <2> QED
    BY <2>1 DEF Good
<1>4. PICK f : IsFlat(f, Count) /\ Stream = f[Count]
  <2> DEFINE f == CHOOSE f : f = [i \in 0..Count |-> FlatOf(f, i)]
  <2>1. Stream = f[Count]
    BY DEF Stream, FlatOf
  <2>2. IsFlat(f, Count)
    BY <1>3 DEF IsFlat
  <2> QED
    BY <2>1, <2>2
<1>5. \A i \in 0..Count : f[i] = FlatOf(f, i)
  BY <1>4 DEF IsFlat
<1> DEFINE Holds(n) == /\ f[n] \in Seq(TokenSet) /\ Len(f[n]) = Upto[n]
                       /\ \A i \in 1..n, k \in Nat :
                            k \in 1..Len(Tokens(i)) => f[n][Upto[i - 1] + k] = Tokens(i)[k]
           Filled == {n \in Nat : n <= Count => Holds(n)}
<1>6. 0 \in Filled
  <2>1. f[0] = <<>>
    BY <1>5 DEF FlatOf
  <2>2. <<>> \in Seq(TokenSet) /\ Len(<<>>) = 0
    BY EmptySeq
  <2>3. Upto[0] = 0
    BY UptoUnfolds
  <2>4. \A i \in 1..0 : FALSE
    OBVIOUS
  <2> QED
    BY <2>1, <2>2, <2>3, <2>4
<1>7. ASSUME NEW n \in Nat, n \in Filled PROVE n + 1 \in Filled
  <2> SUFFICES ASSUME n + 1 <= Count PROVE Holds(n + 1)
    OBVIOUS
  <2> DEFINE t == Tokens(n + 1)  u == f[n] \o t
  <2>1. f[n + 1] = u
    <3>1. n + 1 \in 0..Count /\ n + 1 # 0 /\ (n + 1) - 1 = n
      OBVIOUS
    <3> QED
      BY <1>5, <3>1 DEF FlatOf
  <2>2. Holds(n)
    BY <1>7
  <2>3. t \in Seq(TokenSet)
    BY TokensOfMessage
  <2> HIDE DEF t
  <2>4. /\ u \in Seq(TokenSet) /\ Len(u) = Len(f[n]) + Len(t)
        /\ \A k \in 1..Len(f[n]) : u[k] = f[n][k]
        /\ \A k \in Nat : k \in 1..Len(t) => u[Len(f[n]) + k] = t[k]
    BY <2>2, <2>3
  <2> HIDE DEF u
  <2>5. Upto[n + 1] = Upto[n] + Len(t) /\ Len(f[n]) = Upto[n] /\ Upto[n] \in Nat
    BY <2>2, UptoUnfolds DEF t
  <2>6. ASSUME NEW i \in 1..n + 1, NEW k \in Nat, k \in 1..Len(Tokens(i))
        PROVE  u[Upto[i - 1] + k] = Tokens(i)[k]
    <3>1. CASE i = n + 1
      BY <2>4, <2>5, <2>6, <3>1 DEF t
    <3>2. CASE i \in 1..n
      <4>1. Upto[i] = Upto[i - 1] + Len(Tokens(i)) /\ Upto[i - 1] \in Nat /\ Upto[i] \in Nat
        BY <3>2, UptoUnfolds
      <4>2. Upto[i] <= Upto[n]
        <5>1. i = n \/ Upto[i] < Upto[n]
          BY <3>2, UptoIncreases
        <5> QED
          BY <2>5, <4>1, <5>1
      <4>3. Len(Tokens(i)) \in Nat
        BY <3>2, TokensOfMessage
      <4>4. Upto[i - 1] + k \in 1..Len(f[n])
        BY <2>5, <2>6, <4>1, <4>2, <4>3
      <4> QED
        BY <2>2, <2>4, <2>6, <3>2, <4>4
    <3> QED
      BY <3>1, <3>2
  <2> QED
    BY <2>1, <2>4, <2>5, <2>6
<1>8. Holds(Count)
  <2> HIDE DEF Filled
  <2>1. Count \in Filled
    BY <1>6, <1>7, InductionOnSets
  <2> QED
    BY <2>1 DEF Filled
<1> QED
  BY <1>4, <1>8

-----------------------------------------------------------------------------
(* What the calls of Read return                                           *)

\* Each call reads from where the one before it ended and no further than it has
\* returned; one that returns without an error has read a body, so that it ends
\* after all the calls before it, and where the message it names ends.
ReadInv ==
  /\ Written
  /\ pos \in Nat /\ start \in Nat /\ start <= pos /\ pos <= Len(Stream)
  /\ lengths \in Seq(Int \cup {None})
  /\ results \in Seq([ok : BOOLEAN, msg : 1..Count \cup {None}, from : Nat, to : Nat])
  /\ \A r \in DOMAIN results : results[r].to <= start
  /\ \A r \in Delivered :
       LET i == results[r].msg
       IN i \in 1..Count /\ results[r].to = Upto[i] /\ msgs[i].json
  /\ \A r \in DOMAIN results, s \in Delivered : r < s => results[r].to < results[s].to

\* The stream and where the messages end in it depend on the messages only.
LEMMA SameStream == ASSUME UNCHANGED msgs PROVE Stream' = Stream /\ Upto' = Upto
<1>1. Upto' = Upto
  BY Zenon DEF Upto, Tokens
<1>2. Stream' = Stream
  BY Zenon DEF Stream, Tokens
<1> QED
  BY <1>1, <1>2

LEMMA StreamLength == ASSUME Written PROVE Len(Stream) \in Nat
  BY StreamOfMessages

LEMMA TokenAt ==
  ASSUME Written, NEW n \in 1..Len(Stream)
  PROVE  Stream[n] \in TokenSet
  BY StreamOfMessages

\* The end of the line is past the tokens read.
LEMMA LineEndFound ==
  ASSUME Written, pos \in Nat, LineEnds # {}
  PROVE  /\ LineEnd \in LineEnds /\ \A n \in LineEnds : LineEnd <= n
         /\ LineEnd \in Nat /\ LineEnd > pos /\ LineEnd <= Len(Stream)
<1>1. LineEnds \subseteq 1..Len(Stream) /\ Len(Stream) \in Nat
  BY StreamOfMessages DEF LineEnds
<1>2. \E n \in LineEnds : \A m \in LineEnds : n <= m
  <2>1. LineEnds \subseteq Nat
    BY <1>1
  <2> QED
    BY <2>1, SmallestOf
<1>3. LineEnd \in LineEnds /\ \A n \in LineEnds : LineEnd <= n
  BY <1>2 DEF LineEnd
<1>4. LineEnd > pos
  BY <1>3 DEF LineEnds
<1> QED
  BY <1>1, <1>3, <1>4

LEMMA InitRead == Init => ReadInv
<1> SUFFICES ASSUME Init PROVE ReadInv
  OBVIOUS
<1>1. Written
  BY DEF Init, Written
<1>2. Len(Stream) \in Nat
  BY <1>1, StreamLength
<1>3. results = <<>> /\ lengths = <<>> /\ DOMAIN results = {} /\ Delivered = {}
  BY DEF Init, Delivered
<1> QED
  BY <1>1, <1>2, <1>3 DEF Init, ReadInv

\* A call that returns, having read to the given token.
LEMMA ReturnRead ==
  ASSUME ReadInv, NEW ok \in BOOLEAN, NEW msg \in 1..Count \cup {None}, NEW to \in Nat,
         pos <= to, to <= Len(Stream), Return(ok, msg, to),
         ok => msg \in 1..Count /\ start < to /\ to = Upto[msg] /\ msgs[msg].json
  PROVE  ReadInv'
<1> DEFINE result  == [ok |-> ok, msg |-> msg, from |-> start, to |-> to]
           Results == [ok : BOOLEAN, msg : 1..Count \cup {None}, from : Nat, to : Nat]
<1>1. /\ results' = Append(results, result) /\ pos' = to /\ start' = to /\ lengths' = <<>>
      /\ UNCHANGED msgs
  BY DEF Return
<1>2. result \in Results /\ results \in Seq(Results) /\ pos \in Nat /\ start \in Nat /\ start <= pos
  BY DEF ReadInv
<1>3. /\ results' \in Seq(Results) /\ Len(results) \in Nat
      /\ DOMAIN results = 1..Len(results) /\ DOMAIN results' = 1..Len(results) + 1
      /\ results'[Len(results) + 1] = result
      /\ \A r \in DOMAIN results : results'[r] = results[r]
  BY <1>1, <1>2
<1>4. \A r \in DOMAIN results' : r \in DOMAIN results \/ r = Len(results) + 1
  BY <1>3
<1>5. Stream' = Stream /\ Upto' = Upto /\ Written'
  BY <1>1, SameStream DEF Written, ReadInv
<1>6. \A r \in DOMAIN results : results[r].to \in Nat
  <2>1. \A r \in DOMAIN results : results[r] \in Results
    <3> HIDE DEF Results
    <3> QED
      BY <1>2, <1>3
  <2> QED
    BY <2>1
<1>7. \A r \in DOMAIN results' : results'[r].to <= start'
  BY <1>1, <1>2, <1>3, <1>4, <1>6 DEF ReadInv
<1>8. \A r \in Delivered' : r \in Delivered \/ (r = Len(results) + 1 /\ ok)
  BY <1>3, <1>4 DEF Delivered
<1>9. \A r \in Delivered' :
        LET i == results'[r].msg
        IN i \in 1..Count /\ results'[r].to = Upto'[i] /\ msgs'[i].json
  <2> SUFFICES ASSUME NEW r \in Delivered'
               PROVE  /\ results'[r].msg \in 1..Count /\ results'[r].to = Upto[results'[r].msg]
                      /\ msgs[results'[r].msg].json
    BY <1>1, <1>5
  <2>1. CASE r \in Delivered
    <3>1. results'[r] = results[r]
      BY <1>3, <2>1 DEF Delivered
    <3> QED
      BY <2>1, <3>1 DEF ReadInv
  <2>2. CASE r = Len(results) + 1 /\ ok
    BY <1>3, <2>2
  <2> QED
    BY <1>8, <2>1, <2>2
<1>10. ASSUME NEW r \in DOMAIN results', NEW s \in Delivered', r < s
       PROVE  results'[r].to < results'[s].to
  <2>1. r \in DOMAIN results
    BY <1>3, <1>10 DEF Delivered
  <2>2. CASE s \in Delivered
    <3>1. results'[s] = results[s]
      BY <1>3, <2>2 DEF Delivered
    <3> QED
      BY <1>3, <1>10, <2>1, <2>2, <3>1 DEF ReadInv
  <2>3. CASE s = Len(results) + 1 /\ ok
    <3>1. results[r].to <= start /\ results[r].to \in Nat
      BY <1>6, <2>1 DEF ReadInv
    <3> QED
      BY <1>2, <1>3, <2>1, <2>3, <3>1
  <2> QED
    BY <1>8, <2>2, <2>3
<1>11. pos' \in Nat /\ start' \in Nat /\ start' <= pos' /\ pos' <= Len(Stream')
  BY <1>1, <1>5
<1>12. lengths' \in Seq(Int \cup {None})
  BY <1>1, EmptySeq
<1>13. \A r \in DOMAIN results', s \in Delivered' : r < s => results'[r].to < results'[s].to
  BY <1>10
<1> QED
  BY <1>3, <1>5, <1>7, <1>9, <1>11, <1>12, <1>13 DEF ReadInv

\* A step that only reads on.
LEMMA HeaderRead ==
  ASSUME ReadInv, UNCHANGED <<msgs, start, results>>, pos' \in Nat, pos <= pos',
         pos' <= Len(Stream), lengths' \in Seq(Int \cup {None})
  PROVE  ReadInv'
<1>1. Stream' = Stream /\ Upto' = Upto /\ Written' /\ Delivered' = Delivered
  BY SameStream DEF Written, ReadInv, Delivered
<1>2. pos \in Nat /\ start \in Nat /\ start <= pos
  BY DEF ReadInv
<1> QED
  BY <1>1, <1>2 DEF ReadInv

LEMMA NextRead == ReadInv /\ [Next]_vars => ReadInv'
<1> SUFFICES ASSUME ReadInv, [Next]_vars PROVE ReadInv'
  OBVIOUS
<1>1. Written /\ pos \in Nat /\ start \in Nat /\ start <= pos /\ pos <= Len(Stream)
      /\ lengths \in Seq(Int \cup {None})
  BY DEF ReadInv
<1>2. Len(Stream) \in Nat /\ Len(Stream) <= Len(Stream) /\ None \in 1..Count \cup {None}
  BY <1>1, StreamLength
<1>3. CASE UnexpectedEof
  <2>1. Return(FALSE, None, Len(Stream))
    BY <1>3 DEF UnexpectedEof
  <2> QED
    BY <1>1, <1>2, <2>1, ReturnRead
<1>4. CASE UNCHANGED vars
  BY <1>1, <1>4, HeaderRead DEF vars
<1>5. ASSUME NEW end, end = LineEnd, LineEnds # {},
             Header(end) \/ ContentLength(end) \/ InvalidLine(end) \/ EndOfHeaders(end)
      PROVE  ReadInv'
  <2>1. end \in Nat /\ end > pos /\ pos <= end /\ end <= Len(Stream)
    BY <1>1, <1>5, LineEndFound
  <2>2. CASE Header(end)
    <3>1. UNCHANGED <<msgs, start, results, lengths>> /\ pos' = end
      BY <2>2 DEF Header
    <3> QED
      BY <1>1, <2>1, <3>1, HeaderRead
  <2>3. CASE ContentLength(end)
    <3>1. UNCHANGED <<msgs, start, results>> /\ pos' = end
          /\ lengths' = Append(lengths, Stream[end].value)
      BY <2>3 DEF ContentLength
    <3>2. Stream[end] \in TokenSet
      BY <1>1, <1>2, <2>1, TokenAt
    <3>3. lengths' \in Seq(Int \cup {None})
      BY <1>1, <3>1, <3>2 DEF TokenSet
    <3> QED
      BY <1>1, <2>1, <3>1, <3>3, HeaderRead
  <2>4. CASE InvalidLine(end)
    <3>1. Return(FALSE, None, end)
      BY <2>4 DEF InvalidLine
    <3> QED
      BY <1>2, <2>1, <3>1, ReturnRead
  <2>5. CASE EndOfHeaders(end)
    <3> DEFINE to == end + Head(lengths)
    <3>1. CASE lengths = <<>> \/ Head(lengths) \notin Nat \ {0}
      <4>1. Return(FALSE, None, end)
        BY <2>5, <3>1 DEF EndOfHeaders
      <4> QED
        BY <1>2, <2>1, <4>1, ReturnRead
    <3>2. CASE ~(lengths = <<>> \/ Head(lengths) \notin Nat \ {0})
      <4>1. to \in Nat /\ end < to /\ end + 1 \in Nat
        BY <2>1, <3>2
      <4>2. IF to > Len(Stream) THEN Return(FALSE, None, Len(Stream))
            ELSE IF Decodes(end + 1, to) THEN Return(TRUE, Stream[to].msg, to)
            ELSE Return(FALSE, None, to)
        BY <2>5, <3>2 DEF EndOfHeaders
      <4> HIDE DEF to
      <4>3. CASE to > Len(Stream)
        <5>1. Return(FALSE, None, Len(Stream))
          BY <4>2, <4>3
        <5> QED
          BY <1>1, <1>2, <5>1, ReturnRead
      <4>4. CASE ~(to > Len(Stream)) /\ Decodes(end + 1, to)
        <5>1. Return(TRUE, Stream[to].msg, to)
          BY <4>2, <4>4
        <5>2. PICK i \in 1..Count : /\ {Stream[n] : n \in end + 1..to} = {Token(i, "body", None)}
                                    /\ to = Upto[i] /\ msgs[i].json
          BY <4>4 DEF Decodes
        <5>3. to \in end + 1..to
          BY <2>1, <4>1
        <5>4. Stream[to] = Token(i, "body", None)
          BY <5>2, <5>3
        <5>5. Stream[to].msg = i
          BY <5>4 DEF Token
        <5>6. start < to /\ pos <= to /\ to <= Len(Stream)
          BY <1>1, <1>2, <2>1, <4>1, <4>4
        <5> QED
          BY <4>1, <5>1, <5>2, <5>5, <5>6, ReturnRead
      <4>5. CASE ~(to > Len(Stream)) /\ ~Decodes(end + 1, to)
        <5>1. Return(FALSE, None, to)
          BY <4>2, <4>5
        <5>2. pos <= to /\ to <= Len(Stream)
          BY <1>1, <1>2, <2>1, <4>1, <4>5
        <5> QED
          BY <4>1, <5>1, <5>2, ReturnRead
      <4> QED
        BY <4>3, <4>4, <4>5
    <3> QED
      BY <3>1, <3>2
  <2> QED
    BY <1>5, <2>2, <2>3, <2>4, <2>5
<1> QED
  BY <1>3, <1>4, <1>5 DEF Next, Read

\* Whatever the stream holds, in whatever shapes: a message that is read without
\* an error is one of the stream, and they come in order and at most once.
THEOREM NothingMadeUp == Spec => []ReadsOnlyMessages
<1>1. ReadInv => ReadsOnlyMessages
  <2> SUFFICES ASSUME ReadInv, NEW r \in Delivered, NEW s \in Delivered, r < s
               PROVE  results[r].msg < results[s].msg
    BY DEF ReadInv, ReadsOnlyMessages
  <2> DEFINE i == results[r].msg  j == results[s].msg
  <2>1. i \in 1..Count /\ j \in 1..Count /\ Upto[i] < Upto[j] /\ Written
    BY DEF ReadInv, Delivered
  <2> HIDE DEF i, j
  <2>2. Upto[i] \in Nat /\ Upto[j] \in Nat /\ i \in 0..Count /\ j \in 0..Count
    BY <2>1, UptoUnfolds, CountAssumption
  <2>3. ~(j < i) /\ i # j
    <3>1. j < i => Upto[j] < Upto[i]
      BY <2>1, <2>2, UptoIncreases
    <3> QED
      BY <2>1, <2>2, <3>1
  <2>4. i < j
    BY <2>2, <2>3
  <2> QED
    BY <2>4 DEF i, j
<1> QED
  BY <1>1, InitRead, NextRead, PTL DEF Spec

-----------------------------------------------------------------------------
(* In step with the messages                                               *)

\* Message i was read by call i, and as a whole.
Framed(i) ==
  /\ results[i].from = Upto[i - 1] /\ results[i].to = Upto[i]
  /\ results[i].ok = msgs[i].json

\* The call has begun with message i and is still in its header lines; the first
\* length seen, if there is one yet, is that of the body.
InHeaders(i) ==
  /\ start = Upto[i - 1]
  /\ \E l \in 0..Lines(i) :
       /\ pos = start + l
       /\ IF lengths = <<>> THEN \A k \in 1..l : msgs[i].lines[k] = Other
                            ELSE Head(lengths) = Body(i)

FrameInv ==
  \A i \in 1..Count : InStep(i) =>
    /\ Len(results) >= i => Framed(i)
    /\ Len(results) = i - 1 => InHeaders(i)

\* In a well-framed message the next token ends a line, and where the message ends
\* the stream goes on with the next one or ends.
LEMMA NextLine ==
  ASSUME Written, NEW i \in 1..Count, NEW l \in 0..Lines(i), start = Upto[i - 1], pos = start + l
  PROVE  /\ pos \in Nat /\ pos + 1 <= Upto[i] /\ Upto[i] <= Len(Stream)
         /\ Upto[i] = start + Lines(i) + 1 + Body(i)
         /\ Stream[pos + 1] = Tokens(i)[l + 1]
         /\ LineEnds # {} /\ LineEnd = pos + 1
<1>1. Lines(i) \in Nat /\ Body(i) \in Nat /\ Len(Tokens(i)) = Lines(i) + 1 + Body(i)
  BY MessageType, TokensOfMessage
<1>2. Upto[i] = Upto[i - 1] + Len(Tokens(i)) /\ Upto[i - 1] \in Nat /\ Upto[i] \in Nat
  BY CountAssumption, UptoUnfolds
<1>3. Upto[i] <= Len(Stream) /\ Len(Stream) \in Nat
  <2>1. i = Count \/ Upto[i] < Upto[Count]
    BY CountAssumption, UptoIncreases
  <2>2. Len(Stream) = Upto[Count] /\ Len(Stream) \in Nat
    BY StreamOfMessages
  <2> QED
    BY <1>2, <2>1, <2>2
<1>4. pos \in Nat /\ pos + 1 <= Upto[i] /\ Upto[i] = start + Lines(i) + 1 + Body(i)
  <2>1. start \in Nat /\ l \in Nat /\ l <= Lines(i) /\ pos = start + l
    BY <1>1, <1>2
  <2>2. Upto[i] = start + (Lines(i) + 1 + Body(i))
    BY <1>1, <1>2
  <2>3. \A a, b, c, d \in Nat : b <= c => a + b + 1 <= a + (c + 1 + d)
    OBVIOUS
  <2>4. start + l + 1 <= start + (Lines(i) + 1 + Body(i))
    BY <1>1, <2>1, <2>3
  <2>5. start + (Lines(i) + 1 + Body(i)) = start + Lines(i) + 1 + Body(i)
    BY <1>1, <2>1
  <2>6. pos \in Nat
    BY <2>1
  <2> QED
    BY <2>1, <2>2, <2>4, <2>5, <2>6
<1>5. Stream[pos + 1] = Tokens(i)[l + 1]
  <2>1. l + 1 \in Nat /\ l + 1 \in 1..Len(Tokens(i)) /\ pos + 1 = Upto[i - 1] + (l + 1)
    BY <1>1, <1>2
  <2> QED
    BY <2>1, StreamOfMessages
<1>6. Tokens(i)[l + 1].kind # "body"
  <2>1. CASE l = Lines(i)
    <3>1. Tokens(i)[l + 1] = Token(i, "blank", None)
      BY <2>1, TokensOfMessage
    <3> QED
      BY <3>1 DEF Token
  <2>2. CASE l # Lines(i)
    <3>1. l + 1 \in 1..Lines(i)
      BY <1>1, <2>2
    <3>2. \/ Tokens(i)[l + 1] = Token(i, "header", None)
          \/ Tokens(i)[l + 1] = Token(i, "junk", None)
          \/ Tokens(i)[l + 1] = Token(i, "length", msgs[i].lines[l + 1])
      BY <3>1, TokensOfMessage
    <3> QED
      BY <3>2 DEF Token
  <2> QED
    BY <2>1, <2>2
<1>7. pos + 1 \in LineEnds
  <2>1. Stream \in Seq(TokenSet)
    BY StreamOfMessages
  <2>2. pos + 1 \in DOMAIN Stream
    BY <1>2, <1>3, <1>4, <2>1
  <2> QED
    BY <1>4, <1>5, <1>6, <2>2 DEF LineEnds
<1>8. LineEnd = pos + 1
  <2>1. LineEnd \in Nat /\ LineEnd > pos /\ LineEnd <= pos + 1
    BY <1>4, <1>7, LineEndFound
  <2> QED
    BY <1>4, <2>1
<1> QED
  BY <1>3, <1>4, <1>5, <1>7, <1>8

\* In the headers of a well-framed message the call reads on, and at their end
\* returns with the whole message, without an error if the body is valid.
LEMMA ReadInHeaders ==
  ASSUME ReadInv, NEW i \in 1..Count, WellFramed(msgs[i]), InHeaders(i), Next
  PROVE  \/ UNCHANGED <<msgs, results>> /\ InHeaders(i)'
         \/ \E msg : Return(msgs[i].json, msg, Upto[i])
<1> DEFINE s == msgs[i]
<1>1. Written /\ lengths \in Seq(Int \cup {None})
  BY DEF ReadInv
<1>2. PICK l \in 0..Lines(i) :
        /\ pos = start + l
        /\ IF lengths = <<>> THEN \A k \in 1..l : s.lines[k] = Other
                             ELSE Head(lengths) = Body(i)
  BY DEF InHeaders
<1>3. PICK m \in 1..Lines(i) :
        /\ s.lines[m] = Body(i) /\ Body(i) > 0
        /\ \A k \in 1..Lines(i) : s.lines[k] # Junk /\ (k < m => s.lines[k] = Other)
  <2>1. DOMAIN s.lines = 1..Lines(i)
    BY <1>1, MessageType DEF Lines
  <2> QED
    BY <2>1 DEF WellFramed, Body
<1>4. /\ pos \in Nat /\ pos + 1 <= Upto[i] /\ Upto[i] <= Len(Stream)
      /\ Upto[i] = start + Lines(i) + 1 + Body(i)
      /\ Stream[pos + 1] = Tokens(i)[l + 1]
      /\ LineEnds # {} /\ LineEnd = pos + 1
  BY <1>1, <1>2, NextLine DEF InHeaders
<1>5. Lines(i) \in Nat /\ Body(i) \in Nat /\ s.lines \in Seq(Values) /\ s.json \in BOOLEAN
  BY <1>1, MessageType
<1>6. Header(pos + 1) \/ ContentLength(pos + 1) \/ InvalidLine(pos + 1) \/ EndOfHeaders(pos + 1)
  BY <1>4 DEF Next, Read, UnexpectedEof
<1>7. start \in Nat
  BY DEF ReadInv
<1>8. CASE l < Lines(i)
  <2> DEFINE v == s.lines[l + 1]
  <2>1. l + 1 \in 1..Lines(i) /\ l + 1 \in 0..Lines(i) /\ pos + 1 = start + (l + 1)
    BY <1>2, <1>5, <1>7, <1>8
  <2>2. v # Junk /\ v \in Values
    BY <1>3, <1>5, <2>1 DEF Lines
  <2>3. Stream[pos + 1] = IF v = Other THEN Token(i, "header", None) ELSE Token(i, "length", v)
    BY <1>1, <1>4, <2>1, <2>2, TokensOfMessage
  <2> HIDE DEF v
  <2>4. CASE v = Other
    <3>1. Stream[pos + 1].kind = "header"
      BY <2>3, <2>4 DEF Token
    <3>2. Header(pos + 1)
      BY <1>6, <3>1 DEF ContentLength, InvalidLine, EndOfHeaders
    <3>3. pos' = pos + 1 /\ UNCHANGED <<msgs, start, lengths, results>>
      BY <3>2 DEF Header
    <3>4. \A k \in 1..l + 1 : k \in 1..l \/ k = l + 1
      OBVIOUS
    <3>5. IF lengths' = <<>> THEN \A k \in 1..l + 1 : msgs'[i].lines[k] = Other
                             ELSE Head(lengths') = Body(i)'
      BY <1>2, <2>4, <3>3, <3>4 DEF v, Body
    <3>6. start' = Upto'[i - 1] /\ Lines(i)' = Lines(i) /\ pos' = start' + (l + 1)
      BY <2>1, <3>3, SameStream DEF InHeaders, Lines
    <3>7. InHeaders(i)'
      BY <2>1, <3>5, <3>6 DEF InHeaders
    <3> QED
      BY <3>3, <3>7
  <2>5. CASE v # Other
    <3>1. Stream[pos + 1].kind = "length" /\ Stream[pos + 1].value = v
      BY <2>3, <2>5 DEF Token
    <3>2. ContentLength(pos + 1)
      BY <1>6, <3>1 DEF Header, InvalidLine, EndOfHeaders
    <3>3. pos' = pos + 1 /\ UNCHANGED <<msgs, start, results>> /\ lengths' = Append(lengths, v)
      BY <3>1, <3>2 DEF ContentLength
    <3>4. v \in Int \cup {None}
      BY <2>2, <2>5 DEF Values
    <3>5. lengths' # <<>> /\ Head(lengths') = IF lengths = <<>> THEN v ELSE Head(lengths)
      BY <1>1, <3>3, <3>4
    <3>6. lengths = <<>> => v = Body(i)
      <4> SUFFICES ASSUME lengths = <<>> PROVE l + 1 = m
        BY <1>3 DEF v
      <4>1. ~(l + 1 < m)
        BY <1>3, <2>1, <2>5 DEF v
      <4>2. ~(m < l + 1)
        <5> SUFFICES ASSUME m < l + 1 PROVE FALSE
          OBVIOUS
        <5>1. m \in 1..l
          OBVIOUS
        <5>2. s.lines[m] = Other
          BY <1>2, <5>1
        <5> QED
          BY <1>3, <1>5, <5>2, LinesAssumption
      <4> QED
        BY <4>1, <4>2
    <3>7. Head(lengths') = Body(i)'
      BY <1>2, <3>3, <3>5, <3>6 DEF Body
    <3>8. start' = Upto'[i - 1] /\ Lines(i)' = Lines(i) /\ pos' = start' + (l + 1)
      BY <2>1, <3>3, SameStream DEF InHeaders, Lines
    <3>9. InHeaders(i)'
      BY <2>1, <3>5, <3>7, <3>8 DEF InHeaders
    <3> QED
      BY <3>3, <3>9
  <2> QED
    BY <2>4, <2>5
<1>9. CASE l = Lines(i)
  <2>1. Stream[pos + 1] = Token(i, "blank", None)
    BY <1>1, <1>4, <1>9, TokensOfMessage
  <2>2. EndOfHeaders(pos + 1)
    BY <1>6, <2>1 DEF Token, Header, ContentLength, InvalidLine
  <2>3. lengths # <<>>
    BY <1>2, <1>3, <1>5, <1>9, LinesAssumption
  <2>4. Head(lengths) = Body(i) /\ Head(lengths) \in Nat \ {0}
    BY <1>2, <1>3, <1>5, <2>3
  <2>5. pos + 1 + Head(lengths) = Upto[i]
    BY <1>2, <1>4, <1>5, <1>7, <1>9, <2>4
  <2>6. Decodes(pos + 2, Upto[i]) <=> s.json
    <3>1. \A n \in pos + 2..Upto[i] : Stream[n] = Token(i, "body", None)
      <4> SUFFICES ASSUME NEW n \in pos + 2..Upto[i] PROVE Stream[n] = Token(i, "body", None)
        OBVIOUS
      <4> DEFINE k == n - start
      <4>1. k \in Lines(i) + 2..Lines(i) + 1 + Body(i) /\ k \in Nat /\ n = Upto[i - 1] + k
        <5>1. start = Upto[i - 1] /\ pos = start + Lines(i) /\ pos \in Nat /\ n \in Int
              /\ Upto[i] = start + Lines(i) + 1 + Body(i) /\ pos + 2 <= n /\ n <= Upto[i]
          BY <1>2, <1>4, <1>5, <1>7, <1>9 DEF InHeaders
        <5>2. \A a, b, c \in Nat, x \in Int :
                a + b + 2 <= x /\ x <= a + b + 1 + c
                  => x - a \in b + 2..b + 1 + c /\ x - a \in Nat /\ x = a + (x - a)
          OBVIOUS
        <5>3. start + Lines(i) + 2 <= n /\ n <= start + Lines(i) + 1 + Body(i)
          BY <5>1
        <5> HIDE DEF k
        <5>4. /\ n - start \in Lines(i) + 2..Lines(i) + 1 + Body(i) /\ n - start \in Nat
              /\ n = start + (n - start)
          <6>1. start \in Nat /\ Lines(i) \in Nat /\ Body(i) \in Nat /\ n \in Int
            BY <1>5, <1>7, <5>1
          <6> QED
            BY <5>2, <5>3, <6>1, Zenon
        <5> QED
          BY <5>1, <5>4 DEF k
      <4> HIDE DEF k
      <4>2. Len(Tokens(i)) = Lines(i) + 1 + Body(i) /\ Tokens(i)[k] = Token(i, "body", None)
        BY <1>1, <4>1, TokensOfMessage
      <4>3. k \in 1..Len(Tokens(i))
        BY <1>5, <4>1, <4>2
      <4>4. Stream[Upto[i - 1] + k] = Tokens(i)[k]
        BY <1>1, <4>1, <4>3, StreamOfMessages
      <4> QED
        BY <4>1, <4>2, <4>4
    <3>2. Upto[i] \in pos + 2..Upto[i] /\ Upto[i] - (pos + 2) + 1 = Body(i)
      <4>1. pos = start + Lines(i) /\ Upto[i] = start + Lines(i) + 1 + Body(i) /\ Body(i) > 0
        BY <1>2, <1>3, <1>4, <1>9
      <4>2. Upto[i] \in Int /\ pos + 2 \in Int /\ pos + 2 <= Upto[i]
        BY <1>5, <1>7, <4>1
      <4>3. Upto[i] - (pos + 2) + 1 = Body(i)
        BY <1>5, <1>7, <4>1
      <4> QED
        BY <4>2, <4>3
    <3>3. {Stream[n] : n \in pos + 2..Upto[i]} = {Token(i, "body", None)}
      BY <3>1, <3>2
    <3>4. \A j \in 1..Count : {Token(i, "body", None)} = {Token(j, "body", None)} => i = j
      <4> SUFFICES ASSUME NEW j \in 1..Count, {Token(i, "body", None)} = {Token(j, "body", None)}
                   PROVE  i = j
        OBVIOUS
      <4>1. Token(i, "body", None) = Token(j, "body", None)
        OBVIOUS
      <4>2. Token(i, "body", None).msg = i /\ Token(j, "body", None).msg = j
        BY DEF Token
      <4> QED
        BY <4>1, <4>2
    <3> QED
      BY <3>2, <3>3, <3>4 DEF Decodes, Body
  <2>7. ~(Upto[i] > Len(Stream)) /\ (pos + 1) + 1 = pos + 2
    <3>1. Upto[i] \in Nat /\ Len(Stream) \in Nat
      BY <1>1, <1>4, <1>5, <1>7, StreamLength
    <3> QED
      BY <1>4, <3>1
  <2>8. IF Decodes(pos + 2, Upto[i]) THEN Return(TRUE, Stream[Upto[i]].msg, Upto[i])
        ELSE Return(FALSE, None, Upto[i])
    BY <2>2, <2>3, <2>4, <2>5, <2>7 DEF EndOfHeaders
  <2>9. s.json = TRUE \/ s.json = FALSE
    BY <1>5
  <2> QED
    BY <2>6, <2>8, <2>9
<1> QED
  BY <1>2, <1>5, <1>8, <1>9

LEMMA InitFrame == Init => FrameInv
<1> SUFFICES ASSUME Init, NEW i \in 1..Count PROVE ~(Len(results) >= i)
                                                   /\ (Len(results) = i - 1 => InHeaders(i))
  BY DEF FrameInv
<1>1. Written /\ results = <<>> /\ Len(results) = 0 /\ lengths = <<>> /\ start = 0 /\ pos = 0
  BY DEF Init, Written
<1>2. Upto[0] = 0 /\ Lines(i) \in Nat
  BY <1>1, UptoUnfolds, MessageType
<1>3. ASSUME i = 1 PROVE InHeaders(i)
  <2>1. 0 \in 0..Lines(i) /\ pos = start + 0 /\ \A k \in 1..0 : FALSE
    BY <1>1, <1>2
  <2> QED
    BY <1>1, <1>2, <1>3, <2>1 DEF InHeaders
<1> QED
  BY <1>1, <1>3

LEMMA NextFrame == ReadInv /\ FrameInv /\ [Next]_vars => FrameInv'
<1> SUFFICES ASSUME ReadInv, FrameInv, [Next]_vars, NEW i \in 1..Count, InStep(i)'
             PROVE  /\ Len(results') >= i => Framed(i)'
                    /\ Len(results') = i - 1 => InHeaders(i)'
  BY DEF FrameInv
<1>1. CASE UNCHANGED vars
  <2>1. Upto' = Upto
    BY <1>1, SameStream DEF vars
  <2> QED
    BY <1>1, <2>1 DEF vars, FrameInv, InStep, Framed, InHeaders, Lines, Body
<1>2. CASE Next
  <2>1. UNCHANGED msgs /\ (UNCHANGED results \/ \E ok, msg, to : Return(ok, msg, to))
    BY <1>2 DEF Next, Read, UnexpectedEof, Header, ContentLength, InvalidLine, EndOfHeaders, Return
  <2>2. Upto' = Upto /\ InStep(i)
    BY <2>1, SameStream DEF InStep
  <2>3. \A j \in 1..i : InStep(j) /\ WellFramed(msgs[j])
    BY <2>2 DEF InStep
  <2>4. Len(results) \in Nat /\ Written
    BY DEF ReadInv
  <2> PICK j \in Nat : j = Len(results) + 1
    BY <2>4
  <2>5. ASSUME j \in 1..i PROVE \/ UNCHANGED <<msgs, results>> /\ InHeaders(j)'
                                \/ \E msg : Return(msgs[j].json, msg, Upto[j])
    <3>1. j \in 1..Count /\ Len(results) = j - 1
      BY <2>4, <2>5, CountAssumption
    <3>2. InHeaders(j) /\ WellFramed(msgs[j])
      BY <2>3, <2>5, <3>1 DEF FrameInv
    <3> QED
      BY <1>2, <3>1, <3>2, ReadInHeaders
  <2>6. CASE UNCHANGED results
    <3>1. Len(results) >= i => Framed(i)'
      BY <2>1, <2>2, <2>6 DEF FrameInv, Framed
    <3>2. Len(results) = i - 1 => InHeaders(i)'
      <4> SUFFICES ASSUME Len(results) = i - 1 PROVE InHeaders(i)'
        OBVIOUS
      <4>1. j = i /\ j \in 1..i
        BY <2>4
      <4>2. ~\E ok, msg, to : Return(ok, msg, to)
        <5> SUFFICES ASSUME NEW ok, NEW msg, NEW to, Return(ok, msg, to) PROVE FALSE
          OBVIOUS
        <5>1. results' = Append(results, [ok |-> ok, msg |-> msg, from |-> start, to |-> to])
          BY DEF Return
        <5>2. Len(results') = Len(results) + 1
          BY <5>1 DEF ReadInv
        <5> QED
          BY <2>4, <2>6, <5>2
      <4> QED
        BY <2>5, <4>1, <4>2
    <3> QED
      BY <2>6, <3>1, <3>2
  <2>7. ASSUME NEW ok, NEW msg, NEW to, Return(ok, msg, to)
        PROVE  /\ Len(results') >= i => Framed(i)'
               /\ Len(results') = i - 1 => InHeaders(i)'
    <3> DEFINE result == [ok |-> ok, msg |-> msg, from |-> start, to |-> to]
    <3>1. /\ results' = Append(results, result) /\ start' = to /\ pos' = to /\ lengths' = <<>>
      BY <2>7 DEF Return
    <3>2. /\ Len(results') = j /\ results'[j] = result
          /\ \A k \in 1..Len(results) : results'[k] = results[k]
      BY <3>1 DEF ReadInv
    <3>3. ASSUME j \in 1..i
          PROVE  ok = msgs[j].json /\ to = Upto[j] /\ start = Upto[j - 1]
      <4>1. PICK msg2 : Return(msgs[j].json, msg2, Upto[j])
        <5>1. results' # results
          BY <2>4, <3>2
        <5> QED
          BY <2>5, <3>3, <5>1
      <4>2. results'[j] = [ok |-> msgs[j].json, msg |-> msg2, from |-> start, to |-> Upto[j]]
        <5>1. results' = Append(results, [ok |-> msgs[j].json, msg |-> msg2, from |-> start,
                                          to |-> Upto[j]])
          BY <4>1 DEF Return
        <5> QED
          BY <5>1 DEF ReadInv
      <4>3. start = Upto[j - 1]
        <5>1. j \in 1..Count /\ Len(results) = j - 1
          BY <2>4, <3>3, CountAssumption
        <5>2. InHeaders(j)
          BY <2>3, <3>3, <5>1 DEF FrameInv
        <5> QED
          BY <5>2 DEF InHeaders
      <4>4. result.ok = msgs[j].json /\ result.to = Upto[j]
        BY <3>2, <4>2
      <4> QED
        BY <4>3, <4>4
    <3>4. ASSUME Len(results') >= i PROVE Framed(i)'
      <4>1. CASE i <= Len(results)
        <5>1. i \in 1..Len(results) /\ Framed(i)
          BY <2>2, <2>4, <4>1 DEF FrameInv
        <5> QED
          BY <2>1, <2>2, <3>2, <5>1 DEF Framed
      <4>2. CASE i = j
        <5>1. ok = msgs[i].json /\ to = Upto[i] /\ start = Upto[i - 1]
          BY <3>3, <4>2
        <5>2. results'[i] = result
          BY <3>2, <4>2
        <5> QED
          BY <2>1, <2>2, <5>1, <5>2 DEF Framed
      <4> QED
        BY <2>4, <3>2, <3>4, <4>1, <4>2
    <3>5. ASSUME Len(results') = i - 1 PROVE InHeaders(i)'
      <4>1. j = i - 1 /\ j \in 1..i
        BY <2>4, <3>2, <3>5
      <4>2. start' = Upto'[i - 1]
        BY <2>2, <3>1, <3>3, <4>1
      <4>3. Lines(i)' \in Nat
        BY <2>1, <2>4, MessageType DEF Lines
      <4>4. start' \in Nat
        BY <2>2, <2>4, <4>2, UptoUnfolds, CountAssumption
      <4>5. 0 \in 0..Lines(i)' /\ pos' = start' + 0 /\ \A k \in 1..0 : FALSE
        BY <3>1, <4>3, <4>4
      <4> QED
        BY <3>1, <4>2, <4>5 DEF InHeaders
    <3> QED
      BY <3>4, <3>5
  <2> QED
    BY <2>1, <2>6, <2>7
<1> QED
  BY <1>1, <1>2

\* In every stream and for as long as the headers give the lengths of the bodies,
\* call i reads message i, whole, and fails for an invalid body only.
THEOREM ReaderInStep == Spec => []FramingKept
<1>1. FrameInv => FramingKept
  BY DEF FrameInv, FramingKept, Framed
<1> QED
  BY <1>1, InitRead, NextRead, InitFrame, NextFrame, PTL DEF Spec

=============================================================================
