----------------------------- MODULE ServerProofs -----------------------------
(***************************************************************************)
(* Theorems about Server, for any number of connections and requests, any  *)
(* way of cutting streams into chunks, protocol errors and whatever is     *)
(* found in the bytes behind them, failing files, resets and both kinds of *)
(* shutdown.                                                               *)
(*                                                                         *)
(* What a handler knows of its connection is six values: the stream s its  *)
(* client has sent, the number g of pieces read, the buffer b, whether f   *)
(* the buffer begins inside a piece, the label p and the replies a.  The   *)
(* invariant of a connection is a predicate of these, so that each         *)
(* operation of a handler is one lemma about values, and every other       *)
(* connection is left as it is.                                            *)
(***************************************************************************)
EXTENDS Server, SequenceTheorems, TLAPS

-----------------------------------------------------------------------------
(* The inductive invariant *)

\* The handler has left its loop.
Left == {"closing", "gone"}

\* A client sends its requests one after the other, each in two pieces.
WellSent(s) == \A i \in 1 .. Len(s) : 2 * s[i].req + s[i].part = i + 2

\* How many pieces the handler has put behind it, and how many it has begun.
Past(g, b) == g - Len(b)

Begun(g, b, f) == IF f THEN Past(g, b) + 1 ELSE Past(g, b)

\* The buffer is the end of what has been read.
Buffered(s, g, b) == \A i \in 1 .. Len(b) : b[i] = s[Past(g, b) + i]

\* Every reply is to a request of which one of the first m pieces has been begun.
Behind(m, a) == \A j \in 1 .. Len(a) : 1 <= a[j].req /\ 2 * a[j].req <= m + 1

Ordered(a) ==
    \A j \in 1 .. Len(a) : \A i \in 1 .. j - 1 :
        /\ a[i].req <= a[j].req
        /\ a[j].whole => a[i].req < a[j].req

AllOk(a) == \A i \in 1 .. Len(a) : a[i].kind # "malformed"

\* Without an error reply the buffer begins with a piece, the i-th reply is to the
\* i-th request, and the pieces behind the handler are those of the requests it has
\* answered.
OneEach(n, f, p, a) ==
    p \notin Left /\ AllOk(a) => /\ ~f
                                 /\ \A i \in 1 .. Len(a) : a[i].req = i
                                 /\ n = 2 * Len(a)

ConnTyped(s, g, b, f, a) ==
    /\ s \in Seq(Piece) /\ b \in Seq(Piece) /\ a \in Seq(Answer)
    /\ g \in Nat /\ g <= Len(s) /\ Len(b) <= g /\ f \in BOOLEAN

ConnInv(s, g, b, f, p, a) ==
    /\ ConnTyped(s, g, b, f, a)
    /\ WellSent(s)
    /\ Buffered(s, g, b)
    /\ Behind(Begun(g, b, f), a)
    /\ Ordered(a)
    /\ OneEach(Past(g, b), f, p, a)

\* Memory has all that the files have, a confirmed write is in a file, and what the
\* files lack belongs to a connection whose handler has left its loop.
FilesInv ==
    /\ mem \subseteq Write /\ log \subseteq mem /\ rdb \subseteq mem
    /\ \A c \in Conns : \A j \in 1 .. Len(answers[c]) :
          answers[c][j].kind = "write" => <<c, j>> \in log \cup rdb
    /\ \A w \in mem \ (log \cup rdb) : pc[w[1]] \in Left

IInv ==
    /\ TypeOK
    /\ \A c \in Conns :
          ConnInv(stream[c], got[c], buffer[c], inside[c], pc[c], answers[c])
    /\ FilesInv

-----------------------------------------------------------------------------
(* What the operations of a handler do to its connection *)

LEMMA PieceFields ==
  ASSUME NEW x \in Piece
  PROVE  x.req \in Nat /\ x.part \in {1, 2} /\ x.kind \in AllKinds
  BY DEF Piece

LEMMA AnswerFields ==
  ASSUME NEW x \in Answer
  PROVE  x.req \in Nat /\ x.kind \in AllKinds /\ x.whole \in BOOLEAN
  BY DEF Answer

\* The first piece of a buffer is the one after those behind the handler.
LEMMA HeadIsNext ==
  ASSUME NEW s, NEW g, NEW b, NEW f, NEW a, ConnTyped(s, g, b, f, a), WellSent(s),
         Buffered(s, g, b), b # <<>>
  PROVE  /\ Head(b) \in Piece
         /\ Past(g, b) \in Nat /\ Past(g, b) + 1 <= g
         /\ 2 * Head(b).req + Head(b).part = Past(g, b) + 3
  <1>1. Len(b) \in Nat /\ Len(b) > 0 /\ Len(s) \in Nat /\ Head(b) = b[1] /\ b[1] \in Piece
    BY DEF ConnTyped
  <1>2. Past(g, b) \in Nat /\ Past(g, b) + 1 <= Len(s) /\ Past(g, b) + 1 <= g
    BY <1>1 DEF ConnTyped, Past
  <1>3. Head(b) = s[Past(g, b) + 1]
    BY <1>1 DEF Buffered
  <1>4. 2 * s[Past(g, b) + 1].req + s[Past(g, b) + 1].part = Past(g, b) + 1 + 2
    BY <1>2, <1>1 DEF WellSent
  <1> QED BY <1>1, <1>2, <1>3, <1>4

\* Changing the label changes nothing, unless a handler came back to its loop.
LEMMA LabelKeeps ==
  ASSUME NEW s, NEW g, NEW b, NEW f, NEW p, NEW a, NEW q, ConnInv(s, g, b, f, p, a),
         q \in Left \/ p \notin Left
  PROVE  ConnInv(s, g, b, f, q, a)
  BY DEF ConnInv, OneEach

\* The client sends a piece: the first of its next request, or the second.
LEMMA SendKeeps ==
  ASSUME NEW s, NEW g, NEW b, NEW f, NEW p, NEW a, ConnInv(s, g, b, f, p, a), NEW x \in Piece,
         2 * x.req + x.part = Len(s) + 3
  PROVE  ConnInv(Append(s, x), g, b, f, p, a)
  <1> DEFINE r == Append(s, x)
  <1>1. ConnTyped(s, g, b, f, a) /\ Len(s) \in Nat /\ Len(b) \in Nat
    BY DEF ConnInv, ConnTyped
  <1>2. /\ r \in Seq(Piece) /\ Len(r) = Len(s) + 1 /\ r[Len(s) + 1] = x
        /\ \A i \in 1 .. Len(s) : r[i] = s[i]
    BY <1>1 DEF ConnTyped
  <1> HIDE DEF r
  <1>3. ConnTyped(r, g, b, f, a)
    BY <1>1, <1>2 DEF ConnTyped
  <1>4. WellSent(r)
    <2>1. ASSUME NEW i \in 1 .. Len(r)
          PROVE  2 * r[i].req + r[i].part = i + 2
      <3>1. CASE i <= Len(s)
        BY <1>1, <1>2, <3>1 DEF ConnInv, WellSent
      <3>2. CASE ~(i <= Len(s))
        BY <1>1, <1>2, <3>2
      <3> QED BY <3>1, <3>2
    <2> QED BY <2>1 DEF WellSent
  <1>5. Buffered(r, g, b)
    <2> SUFFICES ASSUME NEW i \in 1 .. Len(b)
                 PROVE  b[i] = r[Past(g, b) + i]
      BY DEF Buffered
    <2>1. Past(g, b) + i \in 1 .. Len(s)
      BY <1>1 DEF Past, ConnTyped
    <2> QED BY <1>2, <2>1 DEF ConnInv, Buffered
  <1> QED BY <1>3, <1>4, <1>5 DEF ConnInv, r

\* A read appends the next pieces to the buffer.
LEMMA ReadKeeps ==
  ASSUME NEW s, NEW g, NEW b, NEW f, NEW p, NEW a, ConnInv(s, g, b, f, p, a),
         NEW n \in g + 1 .. Len(s)
  PROVE  ConnInv(s, n, b \o SubSeq(s, g + 1, n), f, p, a)
  <1> DEFINE t == SubSeq(s, g + 1, n)
             e == b \o t
  <1>1. ConnTyped(s, g, b, f, a) /\ Len(s) \in Nat /\ Len(b) \in Nat /\ g \in Nat /\ n \in Nat
    BY DEF ConnInv, ConnTyped
  <1>2. t \in Seq(Piece) /\ Len(t) = n - g /\ \A i \in 1 .. n - g : t[i] = s[g + i]
    <2>1. \A i \in g + 1 .. n : s[i] \in Piece
      BY <1>1 DEF ConnTyped
    <2>2. /\ t \in Seq(Piece)
          /\ Len(t) = IF g + 1 <= n THEN n - (g + 1) + 1 ELSE 0
          /\ \A i \in 1 .. n - (g + 1) + 1 : t[i] = s[g + 1 + i - 1]
      BY <1>1, <2>1, SubSeqProperties
    <2>3. n - (g + 1) + 1 = n - g /\ \A i \in Int : g + 1 + i - 1 = g + i
      BY <1>1
    <2> HIDE DEF t
    <2> QED BY <1>1, <2>2, <2>3
  <1> HIDE DEF t
  <1>3. /\ e \in Seq(Piece) /\ Len(e) = Len(b) + (n - g)
        /\ \A i \in 1 .. Len(b) : e[i] = b[i]
        /\ \A i \in Len(b) + 1 .. Len(b) + (n - g) : e[i] = t[i - Len(b)]
    <2>1. b \in Seq(Piece)
      BY <1>1 DEF ConnTyped
    <2>2. /\ e \in Seq(Piece) /\ Len(e) = Len(b) + Len(t)
          /\ \A i \in 1 .. Len(b) + Len(t) :
                e[i] = IF i <= Len(b) THEN b[i] ELSE t[i - Len(b)]
      BY <1>2, <2>1, ConcatProperties
    <2> HIDE DEF e
    <2>3. Len(b) \in Nat /\ Len(t) \in Nat /\ Len(t) = n - g
      BY <1>1, <1>2
    <2>4. ASSUME NEW i \in 1 .. Len(b)
          PROVE  e[i] = b[i]
      BY <2>2, <2>3
    <2>5. ASSUME NEW i \in Len(b) + 1 .. Len(b) + Len(t)
          PROVE  e[i] = t[i - Len(b)]
      <3>1. i \in 1 .. Len(b) + Len(t) /\ ~(i <= Len(b))
        BY <2>3
      <3> QED BY <2>2, <3>1
    <2> QED BY <2>2, <2>3, <2>4, <2>5
  <1> HIDE DEF e
  <1>4. Past(n, e) = Past(g, b) /\ Begun(n, e, f) = Begun(g, b, f)
    BY <1>1, <1>3 DEF Past, Begun
  <1>5. ConnTyped(s, n, e, f, a)
    BY <1>1, <1>3 DEF ConnTyped
  <1>6. Buffered(s, n, e)
    <2> SUFFICES ASSUME NEW i \in 1 .. Len(b) + (n - g)
                 PROVE  e[i] = s[Past(g, b) + i]
      BY <1>3, <1>4 DEF Buffered
    <2>1. CASE i <= Len(b)
      BY <1>1, <1>3, <2>1 DEF ConnInv, Buffered
    <2>2. CASE i > Len(b)
      <3>1. /\ i - Len(b) \in 1 .. n - g /\ g + (i - Len(b)) = Past(g, b) + i
            /\ i \in Len(b) + 1 .. Len(b) + (n - g)
        BY <1>1, <2>2 DEF Past
      <3>2. e[i] = t[i - Len(b)]
        BY <1>3, <3>1
      <3>3. t[i - Len(b)] = s[g + (i - Len(b))]
        BY <1>2, <3>1
      <3> QED BY <3>1, <3>2, <3>3
    <2> QED BY <1>1, <2>1, <2>2
  <1> QED BY <1>4, <1>5, <1>6 DEF ConnInv, e, t

\* A new last reply.
LEMMA NewReply ==
  ASSUME NEW a \in Seq(Answer), NEW r \in Nat, NEW kind \in AllKinds, NEW w \in BOOLEAN
  PROVE  LET e == Append(a, [req |-> r, kind |-> kind, whole |-> w])
         IN  /\ e \in Seq(Answer) /\ Len(e) = Len(a) + 1 /\ Len(a) \in Nat
             /\ \A i \in 1 .. Len(a) : e[i] = a[i]
             /\ e[Len(a) + 1].req = r /\ e[Len(a) + 1].kind = kind
             /\ e[Len(a) + 1].whole = w
  BY DEF Answer

\* Taking the first k pieces out of a buffer moves them behind the handler.
LEMMA RestOfBuffer ==
  ASSUME NEW s, NEW g, NEW b, NEW f, NEW a, ConnTyped(s, g, b, f, a), Buffered(s, g, b),
         NEW k \in 0 .. Len(b), NEW f2 \in BOOLEAN
  PROVE  /\ ConnTyped(s, g, SubSeq(b, k + 1, Len(b)), f2, a)
         /\ Past(g, SubSeq(b, k + 1, Len(b))) = Past(g, b) + k
         /\ Buffered(s, g, SubSeq(b, k + 1, Len(b)))
  <1>1. Len(b) \in Nat /\ g \in Nat /\ Len(b) <= g /\ k \in Nat /\ k <= Len(b)
    BY DEF ConnTyped
  <1> DEFINE e == SubSeq(b, k + 1, Len(b))
             m == Len(b)
  <1>2. e \in Seq(Piece) /\ Len(e) = m - k /\ \A i \in 1 .. m - k : e[i] = b[k + i]
    <2>1. \A i \in k + 1 .. m : b[i] \in Piece
      BY <1>1 DEF ConnTyped
    <2>2. /\ e \in Seq(Piece)
          /\ Len(e) = IF k + 1 <= m THEN m - (k + 1) + 1 ELSE 0
          /\ \A i \in 1 .. m - (k + 1) + 1 : e[i] = b[k + 1 + i - 1]
      <3> HIDE DEF m
      <3>1. m \in Int /\ k + 1 \in Int
        BY <1>1 DEF m
      <3> QED BY <2>1, <3>1, SubSeqProperties DEF m
    <2>3. m - (k + 1) + 1 = m - k /\ \A i \in Int : k + 1 + i - 1 = k + i
      BY <1>1
    <2> HIDE DEF e, m
    <2>4. m \in Nat /\ k <= m
      BY <1>1 DEF m
    <2>5. Len(e) = m - k
      BY <1>1, <2>2, <2>4
    <2>6. ASSUME NEW i \in 1 .. m - k
          PROVE  e[i] = b[k + i]
      BY <2>2, <2>3, <2>4
    <2> QED BY <2>2, <2>5, <2>6
  <1> HIDE DEF e
  <1>3. Past(g, e) = Past(g, b) + k
    BY <1>1, <1>2 DEF Past
  <1>4. ConnTyped(s, g, e, f2, a)
    BY <1>1, <1>2 DEF ConnTyped
  <1>5. Buffered(s, g, e)
    <2> SUFFICES ASSUME NEW i \in 1 .. m - k
                 PROVE  e[i] = s[Past(g, b) + k + i]
      BY <1>2, <1>3 DEF Buffered
    <2>1. k + i \in 1 .. Len(b) /\ Past(g, b) + (k + i) = Past(g, b) + k + i
      BY <1>1 DEF Past
    <2> QED BY <1>2, <2>1 DEF Buffered
  <1> QED BY <1>3, <1>4, <1>5 DEF e

\* The buffer begins amid a request.
Amiss(b, f) == f \/ Head(b).part = 2

\* A piece that is the (n+1)st and one that is at most the (n+2)nd of a stream.
LEMMA Parity ==
  ASSUME NEW n \in Nat, NEW r \in Nat, NEW part \in {1, 2}, 2 * r + part = n + 3
  PROVE  /\ 1 <= r /\ 2 * r <= n + 2
         /\ \A x \in Nat : 2 * x <= n + 2 => x <= r
         /\ \A x \in Nat : 2 * x <= n + 1 /\ part = 1 => x < r
  <1>1. CASE part = 1
    BY <1>1
  <1>2. CASE part = 2
    BY <1>2
  <1> QED BY <1>1, <1>2

\* A reply for what the buffer begins with keeps the order of the replies: a
\* request has two pieces, so the numbers that two replies to one request could
\* leave are of one parity.
LEMMA ReplyIsNext ==
  ASSUME NEW s, NEW g, NEW b, NEW f, NEW p, NEW a, ConnInv(s, g, b, f, p, a), b # <<>>,
         NEW kind \in AllKinds, NEW w \in BOOLEAN, w => ~Amiss(b, f),
         NEW m \in Nat, m >= Past(g, b) + 1
  PROVE  LET e == Append(a, [req |-> Head(b).req, kind |-> kind, whole |-> w])
         IN  e \in Seq(Answer) /\ Behind(m, e) /\ Ordered(e)
  <1> DEFINE h == Head(b)
             e == Append(a, [req |-> h.req, kind |-> kind, whole |-> w])
             n == Past(g, b)
             l == Len(a)
  <1>1. ConnTyped(s, g, b, f, a) /\ Ordered(a) /\ Behind(Begun(g, b, f), a)
    BY DEF ConnInv
  <1>2. h \in Piece /\ n \in Nat /\ 2 * h.req + h.part = n + 3
    BY HeadIsNext DEF ConnInv
  <1>3. h.req \in Nat /\ h.part \in {1, 2}
    BY <1>2, PieceFields
  <1>4. /\ e \in Seq(Answer) /\ Len(e) = l + 1 /\ l \in Nat
        /\ \A i \in 1 .. l : e[i] = a[i]
        /\ e[l + 1].req = h.req /\ e[l + 1].whole = w
    BY <1>1, <1>3, NewReply DEF ConnTyped
  <1>5. \A i \in 1 .. l : a[i].req \in Nat
    BY <1>1, AnswerFields DEF ConnTyped
  <1>6. /\ w => h.part = 1 /\ ~f
        /\ \A i \in 1 .. l : 1 <= a[i].req /\ 2 * a[i].req <= (IF f THEN n + 2 ELSE n + 1)
    <2>1. Begun(g, b, f) + 1 = IF f THEN n + 2 ELSE n + 1
      BY <1>2 DEF Begun
    <2>2. \A i \in 1 .. l : 1 <= a[i].req /\ 2 * a[i].req <= Begun(g, b, f) + 1
      BY <1>1 DEF Behind
    <2>3. w => h.part = 1 /\ ~f
      BY <1>3 DEF Amiss
    <2> HIDE DEF n, h, l
    <2> QED BY <2>1, <2>2, <2>3
  <1> HIDE DEF h, e, n, l
  <1>7. ASSUME NEW i \in 1 .. l
        PROVE  a[i].req <= h.req /\ (w => a[i].req < h.req)
    <2>1. a[i].req \in Nat /\ 2 * a[i].req <= (IF f THEN n + 2 ELSE n + 1)
      BY <1>5, <1>6
    <2>2. 2 * a[i].req <= n + 2
      <3>1. CASE f
        BY <2>1, <3>1
      <3>2. CASE ~f
        BY <1>2, <2>1, <3>2
      <3> QED BY <3>1, <3>2
    <2>3. w => 2 * a[i].req <= n + 1 /\ h.part = 1
      BY <1>6, <2>1
    <2> QED BY <1>2, <1>3, <2>1, <2>2, <2>3, Parity
  <1>8. Behind(m, e)
    <2> SUFFICES ASSUME NEW j \in 1 .. l + 1
                 PROVE  1 <= e[j].req /\ 2 * e[j].req <= m + 1
      BY <1>4 DEF Behind
    <2>1. 1 <= h.req /\ 2 * h.req <= n + 2 /\ n + 2 <= m + 1
      <3>1. m >= n + 1
        BY DEF n
      <3>2. 1 <= h.req /\ 2 * h.req <= n + 2
        BY <1>2, <1>3, Parity
      <3> QED BY <1>2, <3>1, <3>2
    <2>2. CASE j = l + 1
      BY <1>4, <2>1, <1>2, <1>3, <2>2
    <2>3. CASE j \in 1 .. l
      <3>1. a[j].req \in Nat /\ 1 <= a[j].req /\ 2 * a[j].req <= n + 2
        BY <1>2, <1>5, <1>6, <2>3
      <3> QED BY <1>2, <1>4, <2>1, <2>3, <3>1
    <2> QED BY <1>4, <2>2, <2>3
  <1>9. Ordered(e)
    <2> SUFFICES ASSUME NEW j \in 1 .. l + 1, NEW i \in 1 .. j - 1
                 PROVE  e[i].req <= e[j].req /\ (e[j].whole => e[i].req < e[j].req)
      BY <1>4 DEF Ordered
    <2>1. CASE j = l + 1
      <3>1. i \in 1 .. l
        BY <1>4, <2>1
      <3> QED BY <1>4, <1>7, <2>1, <3>1
    <2>2. CASE j \in 1 .. l
      <3>1. i \in 1 .. l
        BY <1>4, <2>2
      <3> QED BY <1>1, <1>4, <2>2, <3>1 DEF Ordered, l
    <2> QED BY <1>4, <2>1, <2>2
  <1> QED BY <1>4, <1>8, <1>9 DEF e, h

\* A reply to a whole request continues the numbering, and amid a request, or after
\* an error, there is none to continue.
LEMMA NumberIsNext ==
  ASSUME NEW s, NEW g, NEW b, NEW f, NEW p, NEW a, ConnInv(s, g, b, f, p, a), b # <<>>,
         p \notin Left, NEW q, NEW k \in Nat, NEW f2 \in BOOLEAN,
         NEW kind \in AllKinds, NEW w \in BOOLEAN,
         kind = "malformed" \/ Amiss(b, f) \/ (k = 2 /\ ~f2)
  PROVE  OneEach(Past(g, b) + k, f2, q,
                 Append(a, [req |-> Head(b).req, kind |-> kind, whole |-> w]))
  <1> DEFINE h == Head(b)
             e == Append(a, [req |-> h.req, kind |-> kind, whole |-> w])
             n == Past(g, b)
             l == Len(a)
  <1>1. h \in Piece /\ n \in Nat /\ 2 * h.req + h.part = n + 3
    BY HeadIsNext DEF ConnInv
  <1>2. h.req \in Nat /\ h.part \in {1, 2}
    BY <1>1, PieceFields
  <1>3. /\ Len(e) = l + 1 /\ l \in Nat
        /\ \A i \in 1 .. l : e[i] = a[i]
        /\ e[l + 1].req = h.req /\ e[l + 1].kind = kind
    BY <1>2, NewReply DEF ConnInv, ConnTyped
  <1>4. OneEach(n, f, p, a)
    BY DEF ConnInv
  <1>5. Amiss(b, f) <=> f \/ h.part = 2
    BY DEF Amiss
  <1> HIDE DEF h, e, n, l
  <1> SUFFICES ASSUME AllOk(e)
               PROVE  ~f2 /\ (\A i \in 1 .. l + 1 : e[i].req = i) /\ n + k = 2 * (l + 1)
    BY <1>3 DEF OneEach, e, h, n
  <1>6. AllOk(a) /\ kind # "malformed"
    <2>1. ASSUME NEW i \in 1 .. l
          PROVE  a[i].kind # "malformed"
      BY <1>3, <2>1 DEF AllOk
    <2>2. kind # "malformed"
      BY <1>3 DEF AllOk
    <2> QED BY <2>1, <2>2 DEF AllOk, l
  <1>7. ~f /\ (\A i \in 1 .. l : a[i].req = i) /\ n = 2 * l
    BY <1>4, <1>6 DEF OneEach, l
  <1>8. h.part = 1 /\ h.req = l + 1
    BY <1>1, <1>2, <1>3, <1>7
  <1>9. k = 2 /\ ~f2
    BY <1>5, <1>6, <1>7, <1>8
  <1>10. ASSUME NEW i \in 1 .. l + 1
         PROVE  e[i].req = i
    <2>1. CASE i = l + 1
      BY <1>3, <1>8, <2>1
    <2>2. CASE i \in 1 .. l
      BY <1>3, <1>7, <2>2
    <2> QED BY <1>3, <2>1, <2>2
  <1>11. n + k = 2 * (l + 1)
    BY <1>3, <1>7, <1>9
  <1> QED BY <1>9, <1>10, <1>11

\* The handler takes k pieces out of its buffer, or a part of one as well, and
\* replies to what it has taken.
LEMMA TakeKeeps ==
  ASSUME NEW s, NEW g, NEW b, NEW f, NEW p, NEW a, ConnInv(s, g, b, f, p, a), b # <<>>,
         p \notin Left, NEW q, NEW k \in 0 .. Len(b), NEW f2 \in BOOLEAN, k > 0 \/ f2,
         NEW kind \in AllKinds, NEW w \in BOOLEAN, w => ~Amiss(b, f),
         kind = "malformed" \/ Amiss(b, f) \/ (k = 2 /\ ~f2)
  PROVE  ConnInv(s, g, SubSeq(b, k + 1, Len(b)), f2, q,
                 Append(a, [req |-> Head(b).req, kind |-> kind, whole |-> w]))
  <1> DEFINE e == Append(a, [req |-> Head(b).req, kind |-> kind, whole |-> w])
             r == SubSeq(b, k + 1, Len(b))
             m == Begun(g, r, f2)
  <1>1. /\ ConnTyped(s, g, r, f2, a) /\ Past(g, r) = Past(g, b) + k /\ Buffered(s, g, r)
        /\ k \in Nat
    BY RestOfBuffer DEF ConnInv, ConnTyped
  <1>2. Past(g, b) \in Nat
    BY HeadIsNext DEF ConnInv
  <1>3. m \in Nat /\ m >= Past(g, b) + 1
    BY <1>1, <1>2 DEF Begun
  <1> HIDE DEF r, m
  <1>4. e \in Seq(Answer) /\ Behind(m, e) /\ Ordered(e)
    BY <1>3, ReplyIsNext
  <1>5. OneEach(Past(g, r), f2, q, e)
    BY <1>1, NumberIsNext
  <1> HIDE DEF e
  <1>6. ConnTyped(s, g, r, f2, e)
    BY <1>1, <1>4 DEF ConnTyped
  <1>7. ConnInv(s, g, r, f2, q, e)
    BY <1>1, <1>4, <1>5, <1>6 DEF ConnInv, m
  <1> QED BY <1>7 DEF r, e

\* A request that is executed without a reply ends the loop of its handler.
LEMMA CloseKeeps ==
  ASSUME NEW s, NEW g, NEW b, NEW f, NEW p, NEW a, ConnInv(s, g, b, f, p, a),
         NEW q \in Left, NEW k \in 0 .. Len(b), NEW f2 \in BOOLEAN, k > 0 \/ f2
  PROVE  ConnInv(s, g, SubSeq(b, k + 1, Len(b)), f2, q, a)
  <1> DEFINE r == SubSeq(b, k + 1, Len(b))
  <1>1. ConnTyped(s, g, r, f2, a) /\ Past(g, r) = Past(g, b) + k /\ Buffered(s, g, r)
    BY RestOfBuffer DEF ConnInv
  <1>2. Past(g, b) \in Int /\ k \in Nat
    BY DEF Past, ConnInv, ConnTyped
  <1>3. Begun(g, b, f) \in Int /\ Begun(g, r, f2) \in Int /\ Begun(g, b, f) <= Begun(g, r, f2)
    BY <1>1, <1>2 DEF Begun
  <1>4. \A i \in 1 .. Len(a) : a[i].req \in Nat
    BY AnswerFields DEF ConnInv, ConnTyped
  <1>5. Behind(Begun(g, b, f), a)
    BY DEF ConnInv
  <1>6. Behind(Begun(g, r, f2), a)
    BY <1>3, <1>4, <1>5 DEF Behind
  <1> QED BY <1>1, <1>6 DEF ConnInv, OneEach

-----------------------------------------------------------------------------
(* The steps, seen from a connection *)

Inv(d) == ConnInv(stream[d], got[d], buffer[d], inside[d], pc[d], answers[d])

\* A step of connection c leaves the others as they are.
LEMMA OthersKeep ==
  ASSUME IInv, NEW c \in Conns, NEW d \in Conns, c # d,
         \/ stream' = stream \/ \E x : stream' = [stream EXCEPT ![c] = x],
         \/ got' = got \/ \E x : got' = [got EXCEPT ![c] = x],
         \/ buffer' = buffer \/ \E x : buffer' = [buffer EXCEPT ![c] = x],
         \/ inside' = inside \/ \E x : inside' = [inside EXCEPT ![c] = x],
         \/ pc' = pc \/ \E x : pc' = [pc EXCEPT ![c] = x],
         \/ answers' = answers \/ \E x : answers' = [answers EXCEPT ![c] = x]
  PROVE  Inv(d)'
  <1>1. /\ stream'[d] = stream[d] /\ got'[d] = got[d] /\ buffer'[d] = buffer[d]
        /\ inside'[d] = inside[d] /\ pc'[d] = pc[d] /\ answers'[d] = answers[d]
    BY DEF IInv, TypeOK
  <1> QED BY <1>1 DEF IInv, Inv

LEMMA LabelStep ==
  ASSUME IInv, NEW c \in Conns, NEW label, Becomes(c, label), label \in Left \/ pc[c] \notin Left,
         UNCHANGED <<stream, got, buffer, inside, answers>>, NEW d \in Conns
  PROVE  Inv(d)'
  <1>1. pc' = [pc EXCEPT ![c] = label] /\ pc'[c] = label
    BY DEF Becomes, IInv, TypeOK
  <1>2. CASE d = c
    <2>1. ConnInv(stream[c], got[c], buffer[c], inside[c], label, answers[c])
      BY LabelKeeps DEF IInv
    <2> QED BY <1>1, <1>2, <2>1 DEF Inv
  <1>3. CASE d # c
    BY <1>1, <1>3, OthersKeep
  <1> QED BY <1>2, <1>3

\* asyncio.run cancels all handlers at once.
LEMMA CancelStep ==
  ASSUME IInv, CancelAll, NEW d \in Conns
  PROVE  Inv(d)'
  <1>1. UNCHANGED <<stream, got, buffer, inside, answers>>
    BY DEF CancelAll, client, input
  <1>2. pc'[d] \in Left \/ pc'[d] = pc[d]
    BY DEF CancelAll, Left
  <1>3. ConnInv(stream[d], got[d], buffer[d], inside[d], pc[d], answers[d])
    BY DEF IInv
  <1>4. ConnInv(stream[d], got[d], buffer[d], inside[d], pc'[d], answers[d])
    BY <1>2, <1>3, LabelKeeps
  <1> QED BY <1>1, <1>4 DEF Inv

LEMMA Halves ==
  ASSUME NEW n \in Nat
  PROVE  n % 2 \in {0, 1} /\ n \div 2 \in Nat /\ n = 2 * (n \div 2) + (n % 2)
  OBVIOUS

LEMMA SendStep ==
  ASSUME IInv, NEW c \in Conns, NEW kind \in Kinds[c], Send(c, kind), NEW d \in Conns
  PROVE  Inv(d)'
  <1> DEFINE s == stream[c]
             x == [req |-> Sent(c) + 1, part |-> IF HalfSent(c) THEN 2 ELSE 1, kind |-> kind]
  <1>1. /\ stream' = [stream EXCEPT ![c] = Append(s, x)]
        /\ UNCHANGED <<got, buffer, inside, pc, answers>>
    BY DEF Send, handler
  <1>2. s \in Seq(Piece) /\ Len(s) \in Nat
    BY DEF IInv, TypeOK
  <1>3. kind \in AllKinds
    BY ServerAssumption
  <1>4. /\ Len(s) % 2 \in {0, 1} /\ Sent(c) \in Nat
        /\ Len(s) = 2 * Sent(c) + (Len(s) % 2)
    BY <1>2, Halves DEF Sent
  <1>5. x \in Piece /\ 2 * x.req + x.part = Len(s) + 3
    <2>1. x.req = Sent(c) + 1 /\ x.part = IF HalfSent(c) THEN 2 ELSE 1
      OBVIOUS
    <2>2. x.req \in Nat /\ x.part \in {1, 2}
      BY <1>4, <2>1
    <2>3. x \in Piece
      BY <1>3, <2>2 DEF Piece
    <2>4. Len(s) = 2 * Sent(c) + (IF HalfSent(c) THEN 1 ELSE 0)
      BY <1>4 DEF HalfSent
    <2>5. 2 * x.req + x.part = Len(s) + 3
      <3> HIDE DEF x, s
      <3>1. CASE HalfSent(c)
        BY <1>4, <2>1, <2>4, <3>1
      <3>2. CASE ~HalfSent(c)
        BY <1>4, <2>1, <2>4, <3>2
      <3> QED BY <3>1, <3>2
    <2> QED BY <2>3, <2>5
  <1> HIDE DEF x
  <1>7. CASE d = c
    <2>1. ConnInv(Append(s, x), got[c], buffer[c], inside[c], pc[c], answers[c])
      BY <1>5, SendKeeps DEF IInv
    <2>2. stream'[c] = Append(s, x)
      BY <1>1 DEF IInv, TypeOK
    <2> QED BY <1>1, <1>7, <2>1, <2>2 DEF Inv
  <1>8. CASE d # c
    BY <1>1, <1>8, OthersKeep
  <1> QED BY <1>7, <1>8

LEMMA ReadStep ==
  ASSUME IInv, NEW c \in Conns, Read(c), NEW d \in Conns
  PROVE  Inv(d)'
  <1>1. PICK n \in got[c] + 1 .. Len(stream[c]) :
           /\ got' = [got EXCEPT ![c] = n]
           /\ buffer' = [buffer EXCEPT ![c] = Chunk(c, n)]
    BY DEF Read
  <1>2. /\ pc[c] = "read" /\ pc' = [pc EXCEPT ![c] = "parse"]
        /\ stream' = stream /\ inside' = inside /\ answers' = answers
    BY DEF Read, Becomes, client
  <1>3. CASE d = c
    <2>1. ConnInv(stream[c], n, Chunk(c, n), inside[c], pc[c], answers[c])
      BY ReadKeeps DEF IInv, Chunk
    <2>2. ConnInv(stream[c], n, Chunk(c, n), inside[c], "parse", answers[c])
      BY <1>2, <2>1, LabelKeeps DEF Left
    <2>3. got'[c] = n /\ buffer'[c] = Chunk(c, n) /\ pc'[c] = "parse"
      BY <1>1, <1>2 DEF IInv, TypeOK
    <2> QED BY <1>2, <1>3, <2>2, <2>3 DEF Inv
  <1>4. CASE d # c
    BY <1>1, <1>2, <1>4, OthersKeep
  <1> QED BY <1>3, <1>4

\* What Reply appends to the replies of c.
Replied(c, kind) ==
    Append(answers[c], [req |-> Head(buffer[c]).req, kind |-> kind, whole |-> ~Stray(c)])

LEMMA ReplyShape ==
  ASSUME NEW c \in Conns, NEW kind, buffer[c] # <<>>
  PROVE  /\ Reply(c, kind) <=> answers' = [answers EXCEPT ![c] = Replied(c, kind)]
         /\ (~Stray(c)) \in BOOLEAN
         /\ Stray(c) <=> Amiss(buffer[c], inside[c])
  <1>1. Reply(c, kind) <=> answers' = [answers EXCEPT ![c] = Replied(c, kind)]
    BY DEF Reply, Replied
  <1>2. Stray(c) <=> Amiss(buffer[c], inside[c])
    BY DEF Stray, Amiss
  <1> QED BY <1>1, <1>2

LEMMA RefuseStep ==
  ASSUME IInv, NEW c \in Conns, Refuse(c), NEW d \in Conns
  PROVE  Inv(d)'
  <1> DEFINE e == Replied(c, "malformed")
  <1>1. /\ buffer' = [buffer EXCEPT ![c] = <<>>] /\ inside' = [inside EXCEPT ![c] = FALSE]
        /\ pc' = [pc EXCEPT ![c] = "drain"] /\ pc[c] = "parse"
        /\ stream' = stream /\ got' = got /\ buffer[c] # <<>> /\ Reply(c, "malformed")
    BY DEF Refuse, Becomes, client, Broken, Stray
  <1>2. answers' = [answers EXCEPT ![c] = e]
    BY <1>1, ReplyShape
  <1>3. ConnInv(stream[c], got[c], <<>>, FALSE, "drain", e)
    <2> DEFINE l == Len(buffer[c])
    <2>1. /\ ConnInv(stream[c], got[c], buffer[c], inside[c], pc[c], answers[c])
          /\ buffer[c] \in Seq(Piece)
      BY DEF IInv, TypeOK
    <2>2. l \in Nat /\ l > 0 /\ l \in 0 .. l
      BY <1>1, <2>1
    <2>3. (~Stray(c)) \in BOOLEAN /\ (~Stray(c) => ~Amiss(buffer[c], inside[c]))
      BY <1>1, ReplyShape
    <2>4. pc[c] \notin Left /\ "malformed" \in AllKinds /\ FALSE \in BOOLEAN
      BY <1>1 DEF Left, AllKinds
    <2>5. ConnInv(stream[c], got[c], SubSeq(buffer[c], l + 1, l), FALSE, "drain", e)
      <3> HIDE DEF l
      <3>1. l = Len(buffer[c])
        BY DEF l
      <3> QED BY <1>1, <2>1, <2>2, <2>3, <2>4, <3>1, TakeKeeps DEF Replied
    <2>6. SubSeq(buffer[c], l + 1, l) = <<>>
      BY <2>1, <2>2
    <2> QED BY <2>5, <2>6
  <1> HIDE DEF e
  <1>4. CASE d = c
    <2>1. answers'[c] = e /\ buffer'[c] = <<>> /\ inside'[c] = FALSE /\ pc'[c] = "drain"
      BY <1>1, <1>2 DEF IInv, TypeOK
    <2> QED BY <1>1, <1>3, <1>4, <2>1 DEF Inv
  <1>5. CASE d # c
    BY <1>1, <1>2, <1>5, OthersKeep
  <1> QED BY <1>4, <1>5

\* A command is what two pieces hold that begin a request, or is found amid one.
LEMMA ConsumeShape ==
  ASSUME IInv, NEW c \in Conns, NEW kind, Consume(c, kind)
  PROVE  /\ pc[c] = "parse" /\ stream' = stream /\ got' = got /\ buffer[c] # <<>>
         /\ \E k \in 0 .. Len(buffer[c]), f2 \in BOOLEAN :
               /\ k > 0 \/ f2
               /\ Amiss(buffer[c], inside[c]) \/ (k = 2 /\ ~f2)
               /\ buffer' = [buffer EXCEPT ![c] = SubSeq(buffer[c], k + 1, Len(buffer[c]))]
               /\ inside' = [inside EXCEPT ![c] = f2]
  <1>1. /\ pc[c] = "parse" /\ stream' = stream /\ got' = got
        /\ Whole(c, kind) \/ Amid(c, kind)
    BY DEF Consume, client
  <1>2. buffer[c] \in Seq(Piece) /\ Len(buffer[c]) \in Nat /\ inside \in [Conns -> BOOLEAN]
    BY DEF IInv, TypeOK
  <1>3. CASE Whole(c, kind)
    <2>1. /\ Len(buffer[c]) > 1 /\ ~Stray(c) /\ inside' = inside
          /\ buffer' = [buffer EXCEPT ![c] = SubSeq(buffer[c], 3, Len(buffer[c]))]
      BY <1>3 DEF Whole, Complete, Rest
    <2>2. 2 \in 0 .. Len(buffer[c]) /\ 2 + 1 = 3 /\ buffer[c] # <<>>
      BY <1>2, <2>1
    <2>3. inside[c] = FALSE
      BY <1>2, <2>1, <2>2 DEF Stray
    <2>4. inside' = [inside EXCEPT ![c] = FALSE]
      BY <1>2, <2>1, <2>3
    <2>5. buffer' = [buffer EXCEPT ![c] = SubSeq(buffer[c], 2 + 1, Len(buffer[c]))]
      BY <2>1, <2>2
    <2>6. 2 > 0 /\ FALSE \in BOOLEAN
      OBVIOUS
    <2> QED BY <1>1, <2>2, <2>4, <2>5, <2>6, Zenon
  <1>4. CASE Amid(c, kind)
    <2>1. PICK n \in 0 .. Len(buffer[c]), partly \in BOOLEAN :
             /\ IF partly THEN n < Len(buffer[c]) ELSE n > 0
             /\ buffer' = [buffer EXCEPT ![c] = SubSeq(buffer[c], n + 1, Len(buffer[c]))]
             /\ inside' = [inside EXCEPT ![c] = partly]
      BY <1>4 DEF Amid
    <2>2. buffer[c] # <<>> /\ Amiss(buffer[c], inside[c])
      BY <1>4 DEF Amid, Stray, Amiss
    <2>3. n > 0 \/ partly
      BY <2>1
    <2> QED BY <1>1, <2>1, <2>2, <2>3
  <1> QED BY <1>1, <1>3, <1>4

LEMMA AnswerStep ==
  ASSUME IInv, NEW c \in Conns, NEW kind \in AllKinds, Consume(c, kind), Answered(c, kind),
         NEW d \in Conns
  PROVE  Inv(d)'
  <1> DEFINE e == Replied(c, kind)
             b == buffer[c]
  <1>1. pc[c] = "parse" /\ stream' = stream /\ got' = got /\ b # <<>>
    BY ConsumeShape
  <1>2. PICK k \in 0 .. Len(b), f2 \in BOOLEAN :
           /\ k > 0 \/ f2
           /\ Amiss(b, inside[c]) \/ (k = 2 /\ ~f2)
           /\ buffer' = [buffer EXCEPT ![c] = SubSeq(b, k + 1, Len(b))]
           /\ inside' = [inside EXCEPT ![c] = f2]
    BY ConsumeShape
  <1>3. answers' = [answers EXCEPT ![c] = e] /\ pc' = [pc EXCEPT ![c] = "drain"]
    BY <1>1, ReplyShape DEF Answered, Becomes
  <1>4. ConnInv(stream[c], got[c], SubSeq(b, k + 1, Len(b)), f2, "drain", e)
    <2>1. ConnInv(stream[c], got[c], b, inside[c], pc[c], answers[c])
      BY DEF IInv
    <2>2. (~Stray(c)) \in BOOLEAN /\ (~Stray(c) => ~Amiss(b, inside[c])) /\ pc[c] \notin Left
      BY <1>1, ReplyShape DEF Left
    <2> DEFINE w == ~Stray(c)
    <2>3. e = Append(answers[c], [req |-> Head(b).req, kind |-> kind, whole |-> w])
      BY DEF Replied
    <2>4. w \in BOOLEAN /\ (w => ~Amiss(b, inside[c]))
      BY <2>2
    <2>5. kind = "malformed" \/ Amiss(b, inside[c]) \/ (k = 2 /\ ~f2)
      BY <1>2
    <2> HIDE DEF b, e, w
    <2>6. ConnInv(stream[c], got[c], SubSeq(b, k + 1, Len(b)), f2, "drain",
                  Append(answers[c], [req |-> Head(b).req, kind |-> kind, whole |-> w]))
      BY <1>1, <1>2, <2>1, <2>2, <2>4, <2>5, TakeKeeps, SMTT(60)
    <2> QED BY <2>3, <2>6
  <1> HIDE DEF e
  <1>5. CASE d = c
    <2>1. /\ answers'[c] = e /\ buffer'[c] = SubSeq(b, k + 1, Len(b)) /\ inside'[c] = f2
          /\ pc'[c] = "drain"
      BY <1>2, <1>3 DEF IInv, TypeOK
    <2> QED BY <1>1, <1>4, <1>5, <2>1 DEF Inv
  <1>6. CASE d # c
    BY <1>1, <1>2, <1>3, <1>6, OthersKeep
  <1> QED BY <1>5, <1>6

LEMMA CloseStep ==
  ASSUME IInv, NEW c \in Conns, NEW kind, Consume(c, kind), Closed(c), NEW d \in Conns
  PROVE  Inv(d)'
  <1> DEFINE b == buffer[c]
  <1>1. stream' = stream /\ got' = got /\ answers' = answers /\ pc' = [pc EXCEPT ![c] = "closing"]
    BY ConsumeShape DEF Closed, Becomes
  <1>2. PICK k \in 0 .. Len(b), f2 \in BOOLEAN :
           /\ k > 0 \/ f2
           /\ buffer' = [buffer EXCEPT ![c] = SubSeq(b, k + 1, Len(b))]
           /\ inside' = [inside EXCEPT ![c] = f2]
    BY ConsumeShape
  <1>3. ConnInv(stream[c], got[c], SubSeq(b, k + 1, Len(b)), f2, "closing", answers[c])
    BY <1>2, CloseKeeps DEF IInv, Left
  <1>4. CASE d = c
    <2>1. buffer'[c] = SubSeq(b, k + 1, Len(b)) /\ inside'[c] = f2 /\ pc'[c] = "closing"
      BY <1>1, <1>2 DEF IInv, TypeOK
    <2> QED BY <1>1, <1>3, <1>4, <2>1 DEF Inv
  <1>5. CASE d # c
    BY <1>1, <1>2, <1>5, OthersKeep
  <1> QED BY <1>4, <1>5

\* What the steps do to connections, by kind.
LEMMA NextConn ==
  ASSUME IInv, [Next]_vars, NEW d \in Conns
  PROVE  Inv(d)'
  <1>0. ASSUME UNCHANGED <<stream, got, buffer, inside, pc, answers>>
        PROVE  Inv(d)'
    BY <1>0 DEF IInv, Inv
  <1>1. CASE UNCHANGED vars
    BY <1>0, <1>1 DEF vars
  <1>2. ASSUME NEW c \in Conns, EndStream(c) \/ TakeReply(c)
        PROVE  Inv(d)'
    BY <1>0, <1>2 DEF EndStream, TakeReply, handler
  <1>3. ASSUME NEW c \in Conns, Connect(c)
        PROVE  Inv(d)'
    BY <1>3, LabelStep DEF Connect, client, input, Left
  <1>4. ASSUME NEW c \in Conns, Reset(c) \/ ReadEnd(c) \/ Finish(c)
        PROVE  Inv(d)'
    BY <1>4, LabelStep DEF Reset, ReadEnd, Finish, client, input, Left
  <1>5. ASSUME NEW c \in Conns, NeedMore(c) \/ Drained(c)
        PROVE  Inv(d)'
    BY <1>5, LabelStep DEF NeedMore, Drained, client, input, Left
  <1>6. ASSUME NEW c \in Conns, NEW kind \in Kinds[c], Send(c, kind)
        PROVE  Inv(d)'
    BY <1>6, SendStep
  <1>7. ASSUME NEW c \in Conns, Read(c) \/ Refuse(c)
        PROVE  Inv(d)'
    BY <1>7, ReadStep, RefuseStep
  <1>8. ASSUME NEW c \in Conns,
               Execute(c) \/ ExecuteFails(c) \/ ExecutePlain(c) \/ ExecuteSave(c) \/ ExecuteRaises(c)
        PROVE  Inv(d)'
    <2>1. \E kind \in AllKinds : Consume(c, kind) /\ (Answered(c, kind) \/ Closed(c))
      BY <1>8
         DEF Execute, ExecuteFails, ExecutePlain, ExecuteSave, ExecuteRaises, AllKinds
    <2> QED BY <2>1, AnswerStep, CloseStep
  <1>9. CASE Start \/ StartFails \/ TakeSnapshot \/ Stop \/ Close \/ Exit
    BY <1>0, <1>9 DEF Start, StartFails, TakeSnapshot, Stop, Close, Exit, client, handler
  <1>10. CASE CancelAll
    BY <1>10, CancelStep
  <1> QED BY <1>1, <1>2, <1>3, <1>4, <1>5, <1>6, <1>7, <1>8, <1>9, <1>10 DEF Next, Serve

-----------------------------------------------------------------------------
(* Types *)

Labels == {"new", "read", "parse", "drain", "closing", "gone"}

\* The variables of connections stay functions on connections.
LEMMA NextShape ==
  ASSUME TypeOK, [Next]_vars
  PROVE  /\ stream' = [c \in Conns |-> stream'[c]] /\ got' = [c \in Conns |-> got'[c]]
         /\ buffer' = [c \in Conns |-> buffer'[c]] /\ inside' = [c \in Conns |-> inside'[c]]
         /\ answers' = [c \in Conns |-> answers'[c]]
         /\ eof' \in [Conns -> BOOLEAN] /\ pc' \in [Conns -> Labels]
         /\ life' \in {"starting", "up", "draining", "closed", "ending", "stopped"}
  <1> USE DEF TypeOK, Becomes, Labels
  <1>1. CASE UNCHANGED vars
    BY <1>1 DEF vars
  <1>2. ASSUME NEW c \in Conns,
               \/ EndStream(c) \/ TakeReply(c) \/ Connect(c) \/ Reset(c)
               \/ ReadEnd(c) \/ NeedMore(c) \/ Drained(c) \/ Finish(c)
               \/ \E kind \in Kinds[c] : Send(c, kind)
        PROVE  /\ stream' = [d \in Conns |-> stream'[d]]
               /\ UNCHANGED <<got, buffer, inside, answers, life>>
               /\ eof' \in [Conns -> BOOLEAN] /\ pc' \in [Conns -> Labels]
    BY <1>2 DEF EndStream, TakeReply, Connect, Reset, ReadEnd, NeedMore, Drained, Finish, Send,
                client, input, handler
  <1>3. ASSUME NEW c \in Conns, Read(c) \/ Refuse(c)
        PROVE  /\ UNCHANGED <<stream, eof, life>>
               /\ got' = [d \in Conns |-> got'[d]] /\ buffer' = [d \in Conns |-> buffer'[d]]
               /\ inside' = [d \in Conns |-> inside'[d]]
               /\ answers' = [d \in Conns |-> answers'[d]]
               /\ pc' \in [Conns -> Labels]
    BY <1>3 DEF Read, Refuse, Reply, client
  <1>4. ASSUME NEW c \in Conns,
               Execute(c) \/ ExecuteFails(c) \/ ExecutePlain(c) \/ ExecuteSave(c) \/ ExecuteRaises(c)
        PROVE  /\ UNCHANGED <<stream, eof, life, got>>
               /\ buffer' = [d \in Conns |-> buffer'[d]]
               /\ inside' = [d \in Conns |-> inside'[d]]
               /\ answers' = [d \in Conns |-> answers'[d]]
               /\ pc' \in [Conns -> Labels]
    <2>1. PICK kind \in AllKinds : Consume(c, kind) /\ (Answered(c, kind) \/ Closed(c))
      BY <1>4 DEF Execute, ExecuteFails, ExecutePlain, ExecuteSave, ExecuteRaises, AllKinds
    <2>2. /\ UNCHANGED <<stream, eof, life, got>>
          /\ buffer' = [d \in Conns |-> buffer'[d]]
          /\ inside' = [d \in Conns |-> inside'[d]]
      BY <2>1 DEF Consume, Whole, Amid, client
    <2>3. answers' = [d \in Conns |-> answers'[d]] /\ pc' \in [Conns -> Labels]
      BY <2>1 DEF Answered, Closed, Reply
    <2> QED BY <2>2, <2>3
  <1>5. CASE Start \/ StartFails \/ TakeSnapshot \/ Stop \/ Close \/ Exit
    BY <1>5 DEF Start, StartFails, TakeSnapshot, Stop, Close, Exit, client, handler
  <1>6. CASE CancelAll
    <2>1. UNCHANGED <<stream, got, buffer, inside, answers, eof>> /\ life' = "ending"
      BY <1>6 DEF CancelAll, client, input
    <2>2. pc' \in [Conns -> Labels]
      BY <1>6 DEF CancelAll
    <2> QED BY <2>1, <2>2
  <1> QED BY <1>1, <1>2, <1>3, <1>4, <1>5, <1>6 DEF Next, Serve

\* A step replies to c, or to nobody.
LEMMA NextReplies ==
  ASSUME IInv, [Next]_vars
  PROVE  \/ answers' = answers
         \/ \E c \in Conns, x \in Answer :
               /\ answers' = [answers EXCEPT ![c] = Append(answers[c], x)]
               /\ x.kind = "write" => Execute(c)
               /\ taken' = taken
  <1>1. CASE UNCHANGED vars
    BY <1>1 DEF vars
  <1>2. ASSUME NEW c \in Conns, NEW kind \in AllKinds, buffer[c] # <<>>, Reply(c, kind),
               taken' = taken, kind = "write" => Execute(c)
        PROVE  \E x \in Answer :
                  /\ answers' = [answers EXCEPT ![c] = Append(answers[c], x)]
                  /\ x.kind = "write" => Execute(c)
                  /\ taken' = taken
    <2> DEFINE x == [req |-> Head(buffer[c]).req, kind |-> kind, whole |-> ~Stray(c)]
    <2>1. Head(buffer[c]) \in Piece
      BY <1>2, HeadTailProperties DEF IInv, TypeOK
    <2>2. Head(buffer[c]).req \in Nat /\ (~Stray(c)) \in BOOLEAN
      BY <1>2, <2>1, PieceFields, ReplyShape
    <2>3. x \in Answer /\ x.kind = kind
      BY <2>2 DEF Answer
    <2>4. answers' = [answers EXCEPT ![c] = Append(answers[c], x)]
      BY <1>2, ReplyShape DEF Replied
    <2> HIDE DEF x
    <2> QED BY <1>2, <2>3, <2>4
  <1>3. ASSUME NEW c \in Conns, Refuse(c)
        PROVE  \E x \in Answer :
                  /\ answers' = [answers EXCEPT ![c] = Append(answers[c], x)]
                  /\ x.kind = "write" => Execute(c)
                  /\ taken' = taken
    <2>1. buffer[c] # <<>> /\ Reply(c, "malformed") /\ taken' = taken
      BY <1>3 DEF Refuse, Broken, Stray, client
    <2> QED BY <1>2, <2>1 DEF AllKinds
  <1>4. ASSUME NEW c \in Conns,
               Execute(c) \/ ExecuteFails(c) \/ ExecutePlain(c) \/ ExecuteSave(c) \/ ExecuteRaises(c)
        PROVE  \/ answers' = answers
               \/ \E x \in Answer :
                     /\ answers' = [answers EXCEPT ![c] = Append(answers[c], x)]
                     /\ x.kind = "write" => Execute(c)
                     /\ taken' = taken
    <2>1. PICK kind \in AllKinds :
             /\ Consume(c, kind) /\ (Answered(c, kind) \/ Closed(c))
             /\ kind = "write" /\ Answered(c, kind) => Execute(c)
      <3>1. CASE Execute(c)
        BY <3>1 DEF Execute, AllKinds
      <3>2. CASE ExecuteFails(c)
        <4>1. Consume(c, "write") /\ Closed(c)
          BY <3>2 DEF ExecuteFails
        <4>2. PICK kind \in AllKinds : kind = "write"
          BY DEF AllKinds
        <4>3. CASE Answered(c, "write")
          <5>1. buffer[c] # <<>>
            BY <4>1, ConsumeShape
          <5>2. answers'[c] = Append(answers[c], [req |-> Head(buffer[c]).req, kind |-> "write",
                                                  whole |-> ~Stray(c)])
            BY <4>3 DEF Answered, Reply, IInv, TypeOK
          <5>3. Len(Append(answers[c], [req |-> Head(buffer[c]).req, kind |-> "write",
                                        whole |-> ~Stray(c)])) = Len(answers[c]) + 1
                /\ Len(answers[c]) \in Nat
            BY DEF IInv, TypeOK
          <5>4. answers' = answers
            BY <4>1 DEF Closed
          <5> QED BY <5>2, <5>3, <5>4
        <4> QED BY <4>1, <4>2, <4>3
      <3>3. CASE ExecutePlain(c) \/ ExecuteSave(c) \/ ExecuteRaises(c)
        BY <3>3 DEF ExecutePlain, ExecuteSave, ExecuteRaises, AllKinds
      <3> QED BY <1>4, <3>1, <3>2, <3>3
    <2>2. buffer[c] # <<>> /\ taken' = taken
      BY <2>1, ConsumeShape DEF Consume, client
    <2>3. CASE Closed(c)
      BY <2>3 DEF Closed
    <2>4. CASE Answered(c, kind)
      BY <1>2, <2>1, <2>2, <2>4 DEF Answered
    <2> QED BY <2>1, <2>3, <2>4
  <1>5. ASSUME NEW c \in Conns,
               \/ EndStream(c) \/ TakeReply(c) \/ Connect(c) \/ Reset(c) \/ Read(c)
               \/ ReadEnd(c) \/ NeedMore(c) \/ Drained(c) \/ Finish(c)
               \/ \E kind \in Kinds[c] : Send(c, kind)
        PROVE  answers' = answers
    BY <1>5 DEF EndStream, TakeReply, Connect, Reset, Read, ReadEnd, NeedMore, Drained, Finish,
                Send, handler
  <1>6. CASE Start \/ StartFails \/ TakeSnapshot \/ Stop \/ Close \/ CancelAll \/ Exit
    BY <1>6 DEF Start, StartFails, TakeSnapshot, Stop, Close, CancelAll, Exit, handler
  <1> QED BY <1>1, <1>3, <1>4, <1>5, <1>6 DEF Next, Serve

\* Replies are only added, so no client has read more than there are.
LEMMA NextTaken ==
  ASSUME IInv, [Next]_vars
  PROVE  taken' \in [Conns -> Nat] /\ \A c \in Conns : taken'[c] <= Len(answers'[c])
  <1>0. taken \in [Conns -> Nat] /\ answers \in [Conns -> Seq(Answer)]
        /\ \A c \in Conns : taken[c] <= Len(answers[c]) /\ Len(answers[c]) \in Nat
    BY DEF IInv, TypeOK
  <1>1. CASE taken' = taken /\ answers' = answers
    BY <1>0, <1>1
  <1>2. ASSUME NEW c \in Conns, NEW x \in Answer, taken' = taken,
               answers' = [answers EXCEPT ![c] = Append(answers[c], x)]
        PROVE  taken' \in [Conns -> Nat] /\ \A d \in Conns : taken'[d] <= Len(answers'[d])
    <2>1. Len(Append(answers[c], x)) = Len(answers[c]) + 1
      BY <1>0, <1>2
    <2>2. \A d \in Conns : answers'[d] = IF d = c THEN Append(answers[c], x) ELSE answers[d]
      BY <1>0, <1>2
    <2>3. ASSUME NEW d \in Conns
          PROVE  taken'[d] <= Len(answers'[d])
      <3>1. CASE d = c
        BY <1>0, <1>2, <2>1, <2>2, <3>1
      <3>2. CASE d # c
        BY <1>0, <1>2, <2>2, <3>2
      <3> QED BY <3>1, <3>2
    <2> QED BY <1>0, <1>2, <2>3
  <1>3. ASSUME NEW c \in Conns, TakeReply(c)
        PROVE  taken' \in [Conns -> Nat] /\ \A d \in Conns : taken'[d] <= Len(answers'[d])
    <2>1. /\ taken[c] < Len(answers[c]) /\ taken' = [taken EXCEPT ![c] = @ + 1]
          /\ answers' = answers
      BY <1>3 DEF TakeReply, handler
    <2> QED BY <1>0, <2>1
  <1>4. taken' = taken \/ \E c \in Conns : TakeReply(c)
    <2>1. CASE UNCHANGED vars \/ Start \/ StartFails \/ TakeSnapshot \/ Stop \/ Close
               \/ CancelAll \/ Exit
      BY <2>1 DEF vars, Start, StartFails, TakeSnapshot, Stop, Close, CancelAll, Exit, client
    <2>2. ASSUME NEW c \in Conns,
                 \/ EndStream(c) \/ Connect(c) \/ Reset(c) \/ Serve(c)
                 \/ \E kind \in Kinds[c] : Send(c, kind)
          PROVE  taken' = taken
      BY <2>2 DEF EndStream, Connect, Reset, Send, Serve, Read, ReadEnd, NeedMore, Refuse,
                  Execute, ExecuteFails, ExecutePlain, ExecuteSave, ExecuteRaises, Consume,
                  Drained, Finish, client
    <2> QED BY <2>1, <2>2 DEF Next
  <1>5. CASE taken' = taken
    BY <1>1, <1>2, <1>5, NextReplies
  <1> QED BY <1>3, <1>4, <1>5

\* Snapshots keep the files within memory and lose nothing, and what reaches
\* memory but no file belongs to a connection whose loop ends in the same step.
LEMMA NextData ==
  ASSUME IInv, [Next]_vars
  PROVE  /\ mem' \subseteq Write /\ log' \subseteq mem' /\ rdb' \subseteq mem'
         /\ log \cup rdb \subseteq log' \cup rdb'
         /\ \A w \in mem' \ (log' \cup rdb') :
               w \in mem \ (log \cup rdb) \/ pc'[w[1]] \in Left
  <1>0. mem \subseteq Write /\ log \subseteq mem /\ rdb \subseteq mem
    BY DEF IInv, FilesInv
  <1>1. CASE UNCHANGED data
    BY <1>0, <1>1 DEF data
  <1>2. CASE mem' = mem /\ (SnapshotDone \/ SnapshotFails)
    BY <1>0, <1>2 DEF SnapshotDone, SnapshotFails
  <1>3. ASSUME NEW c \in Conns, Execute(c) \/ ExecuteFails(c)
        PROVE  /\ mem' = mem \cup {Request(c)} /\ Request(c) \in Write
               /\ rdb' = rdb
               /\ \/ log' = log \cup {Request(c)}
                  \/ log' = log /\ pc'[c] \in Left /\ Request(c)[1] = c
    <2>1. Request(c) \in Write /\ Request(c)[1] = c
      BY DEF Request, Write, IInv, TypeOK
    <2>2. CASE Execute(c)
      BY <2>1, <2>2 DEF Execute
    <2>3. CASE ExecuteFails(c)
      BY <2>1, <2>3 DEF ExecuteFails, Closed, Becomes, Left, IInv, TypeOK
    <2> QED BY <1>3, <2>2, <2>3
  <1>4. ASSUME NEW c \in Conns, Execute(c) \/ ExecuteFails(c)
        PROVE  /\ mem' \subseteq Write /\ log' \subseteq mem' /\ rdb' \subseteq mem'
               /\ log \cup rdb \subseteq log' \cup rdb'
               /\ \A w \in mem' \ (log' \cup rdb') :
                     w \in mem \ (log \cup rdb) \/ pc'[w[1]] \in Left
    BY <1>0, <1>3, <1>4
  <1>5. ASSUME NEW c \in Conns,
               \/ EndStream(c) \/ TakeReply(c) \/ Connect(c) \/ Reset(c) \/ Read(c)
               \/ ReadEnd(c) \/ NeedMore(c) \/ Drained(c) \/ Finish(c) \/ Refuse(c)
               \/ ExecutePlain(c) \/ ExecuteRaises(c)
               \/ \E kind \in Kinds[c] : Send(c, kind)
        PROVE  UNCHANGED data
    BY <1>5 DEF EndStream, TakeReply, Connect, Reset, Read, ReadEnd, NeedMore, Drained, Finish,
                Refuse, ExecutePlain, ExecuteRaises, Send
  <1>6. ASSUME NEW c \in Conns, ExecuteSave(c)
        PROVE  mem' = mem /\ (SnapshotDone \/ SnapshotFails)
    BY <1>6 DEF ExecuteSave
  <1>7. CASE TakeSnapshot \/ Close
    BY <1>1, <1>2, <1>7 DEF TakeSnapshot, Close, data
  <1>8. CASE UNCHANGED vars \/ Start \/ StartFails \/ Stop \/ CancelAll \/ Exit
    BY <1>1, <1>8 DEF vars, data, Start, StartFails, Stop, CancelAll, Exit
  <1> QED BY <1>1, <1>2, <1>4, <1>5, <1>6, <1>7, <1>8 DEF Next, Serve

\* A handler that has left its loop does not come back to it.
LEMMA NextStays ==
  ASSUME IInv, [Next]_vars, NEW c \in Conns, pc[c] \in Left
  PROVE  pc'[c] \in Left
  <1> USE DEF Becomes, Awaits, Left
  <1>0. pc \in [Conns -> Labels]
    BY DEF IInv, TypeOK, Labels
  <1>1. ASSUME NEW d \in Conns, Connect(d) \/ Reset(d) \/ Serve(d)
        PROVE  \E l : pc' = [pc EXCEPT ![d] = l] /\ (l \in Left \/ pc[d] \notin Left)
    BY <1>1 DEF Connect, Reset, Serve, Read, ReadEnd, NeedMore, Drained, Finish, Refuse,
                Execute, ExecuteFails, ExecutePlain, ExecuteSave, ExecuteRaises,
                Consume, Answered, Closed
  <1>2. ASSUME NEW d \in Conns, Connect(d) \/ Reset(d) \/ Serve(d)
        PROVE  pc'[c] \in Left
    BY <1>0, <1>1, <1>2
  <1>3. ASSUME NEW d \in Conns,
               EndStream(d) \/ TakeReply(d) \/ \E kind \in Kinds[d] : Send(d, kind)
        PROVE  pc' = pc
    BY <1>3 DEF EndStream, TakeReply, Send, handler
  <1>4. CASE UNCHANGED vars \/ Start \/ StartFails \/ TakeSnapshot \/ Stop \/ Close \/ Exit
    BY <1>4 DEF vars, Start, StartFails, TakeSnapshot, Stop, Close, Exit, handler
  <1>5. CASE CancelAll
    BY <1>5 DEF CancelAll
  <1> QED BY <1>2, <1>3, <1>4, <1>5 DEF Next

LEMMA NextFiles ==
  ASSUME IInv, [Next]_vars
  PROVE  FilesInv'
  <1>1. /\ mem' \subseteq Write /\ log' \subseteq mem' /\ rdb' \subseteq mem'
        /\ log \cup rdb \subseteq log' \cup rdb'
        /\ \A w \in mem' \ (log' \cup rdb') :
              w \in mem \ (log \cup rdb) \/ pc'[w[1]] \in Left
    BY NextData
  <1>2. \A w \in mem' \ (log' \cup rdb') : pc'[w[1]] \in Left
    <2> SUFFICES ASSUME NEW w \in mem \ (log \cup rdb)
                 PROVE  pc'[w[1]] \in Left
      BY <1>1
    <2>1. pc[w[1]] \in Left /\ w[1] \in Conns
      BY DEF IInv, FilesInv, Write
    <2> QED BY <2>1, NextStays
  <1>3. ASSUME NEW c \in Conns, NEW j \in 1 .. Len(answers'[c]), answers'[c][j].kind = "write"
        PROVE  <<c, j>> \in log' \cup rdb'
    <2>1. ASSUME j \in 1 .. Len(answers[c]), answers[c][j].kind = "write"
          PROVE  <<c, j>> \in log' \cup rdb'
      BY <1>1, <2>1 DEF IInv, FilesInv
    <2>2. CASE answers' = answers
      BY <1>3, <2>1, <2>2
    <2>3. ASSUME NEW d \in Conns, NEW x \in Answer,
                 answers' = [answers EXCEPT ![d] = Append(answers[d], x)],
                 x.kind = "write" => Execute(d)
          PROVE  <<c, j>> \in log' \cup rdb'
      <3>1. answers \in [Conns -> Seq(Answer)] /\ Len(answers[c]) \in Nat
        BY DEF IInv, TypeOK
      <3>2. CASE c # d
        BY <1>3, <2>1, <2>3, <3>1, <3>2
      <3>3. CASE c = d
        <4>1. answers'[c] = Append(answers[c], x)
          BY <2>3, <3>1, <3>3
        <4>2. j \in 1 .. Len(answers[c]) + 1
          BY <1>3, <3>1, <4>1
        <4>3. CASE j \in 1 .. Len(answers[c])
          BY <1>3, <2>1, <3>1, <4>1, <4>3
        <4>4. CASE j = Len(answers[c]) + 1
          <5>1. x.kind = "write"
            BY <1>3, <3>1, <4>1, <4>4
          <5> QED BY <2>3, <3>3, <4>4, <5>1 DEF Execute, Request
        <4> QED BY <3>1, <4>2, <4>3, <4>4
      <3> QED BY <3>2, <3>3
    <2> QED BY <2>2, <2>3, NextReplies
  <1> QED BY <1>1, <1>2, <1>3 DEF FilesInv

-----------------------------------------------------------------------------
(* The theorems *)

LEMMA NextType ==
  ASSUME IInv, [Next]_vars
  PROVE  TypeOK'
  <1>1. ASSUME NEW c \in Conns
        PROVE  /\ stream'[c] \in Seq(Piece) /\ buffer'[c] \in Seq(Piece)
               /\ answers'[c] \in Seq(Answer) /\ got'[c] \in Nat /\ inside'[c] \in BOOLEAN
               /\ got'[c] <= Len(stream'[c]) /\ Len(buffer'[c]) <= got'[c]
    BY NextConn DEF Inv, ConnInv, ConnTyped
  <1>2. /\ stream' = [c \in Conns |-> stream'[c]] /\ got' = [c \in Conns |-> got'[c]]
        /\ buffer' = [c \in Conns |-> buffer'[c]] /\ inside' = [c \in Conns |-> inside'[c]]
        /\ answers' = [c \in Conns |-> answers'[c]]
        /\ eof' \in [Conns -> BOOLEAN] /\ pc' \in [Conns -> Labels]
        /\ life' \in {"starting", "up", "draining", "closed", "ending", "stopped"}
    BY NextShape DEF IInv
  <1>3. /\ stream' \in [Conns -> Seq(Piece)] /\ got' \in [Conns -> Nat]
        /\ buffer' \in [Conns -> Seq(Piece)] /\ answers' \in [Conns -> Seq(Answer)]
    BY <1>1, <1>2
  <1>4. inside' \in [Conns -> BOOLEAN]
    <2> DEFINE f == inside'
    <2>1. f = [c \in Conns |-> f[c]] /\ \A c \in Conns : f[c] \in BOOLEAN
      BY <1>1, <1>2
    <2> HIDE DEF f
    <2>2. f \in [Conns -> BOOLEAN]
      BY <2>1
    <2> QED BY <2>2 DEF f
  <1>5. taken' \in [Conns -> Nat] /\ \A c \in Conns : taken'[c] <= Len(answers'[c])
    BY NextTaken
  <1>6. mem' \subseteq Write /\ log' \subseteq Write /\ rdb' \subseteq Write
    BY NextData
  <1> QED BY <1>1, <1>2, <1>3, <1>4, <1>5, <1>6 DEF TypeOK, Labels

LEMMA InitIInv == Init => IInv
  <1> SUFFICES ASSUME Init PROVE IInv
    OBVIOUS
  <1>1. TypeOK /\ FilesInv
    BY DEF Init, TypeOK, FilesInv
  <1>2. ASSUME NEW c \in Conns
        PROVE  ConnInv(stream[c], got[c], buffer[c], inside[c], pc[c], answers[c])
    <2>1. Len(<<>>) = 0 /\ \A S : <<>> \in Seq(S)
      OBVIOUS
    <2>2. ASSUME NEW p
          PROVE  ConnInv(<<>>, 0, <<>>, FALSE, p, <<>>)
      <3>1. ConnTyped(<<>>, 0, <<>>, FALSE, <<>>)
        BY <2>1 DEF ConnTyped
      <3>2. WellSent(<<>>) /\ Buffered(<<>>, 0, <<>>) /\ Ordered(<<>>)
        BY <2>1 DEF WellSent, Buffered, Ordered
      <3>3. Past(0, <<>>) = 0
        <4>1. ASSUME NEW g \in Int
              PROVE  Past(g, <<>>) = g
          BY <2>1 DEF Past
        <4> QED BY <4>1
      <3>4. \A m : Behind(m, <<>>)
        BY <2>1 DEF Behind
      <3>5. OneEach(0, FALSE, p, <<>>)
        <4>1. 2 * Len(<<>>) = 0 /\ \A i \in 1 .. Len(<<>>) : FALSE
          BY <2>1
        <4> QED BY <4>1 DEF OneEach
      <3> QED BY <3>1, <3>2, <3>3, <3>4, <3>5 DEF ConnInv
    <2>3. /\ stream[c] = <<>> /\ got[c] = 0 /\ buffer[c] = <<>> /\ inside[c] = FALSE
          /\ answers[c] = <<>>
      BY DEF Init
    <2> QED BY <2>2, <2>3
  <1> QED BY <1>1, <1>2 DEF IInv

LEMMA AlwaysIInv == Spec => []IInv
  <1>1. IInv /\ [Next]_vars => IInv'
    BY NextType, NextConn, NextFiles DEF IInv, Inv
  <1> QED BY InitIInv, <1>1, PTL DEF Spec

\* Streams, buffers, replies and files have their types, and nobody has read
\* more than there is (AsyncRedisServer.handle_client).
THEOREM TypeCorrect == Spec => []TypeOK
  <1>1. IInv => TypeOK
    BY DEF IInv
  <1> QED BY AlwaysIInv, <1>1, PTL

\* However a stream is cut, as long as no error reply of the protocol has been
\* given, no request of it is lost, skipped or executed twice (handle_client and its
\* buffer).
THEOREM Framing == Spec => []NothingLostOrTwice
  <1>1. ASSUME IInv, NEW c \in Conns, Serving(c), Clean(c)
        PROVE  /\ \A i \in 1 .. Len(answers[c]) : answers[c][i].req = i
               /\ buffer[c] = SubSeq(stream[c], 2 * Len(answers[c]) + 1, got[c])
    <2> DEFINE n == 2 * Len(answers[c])
               b == buffer[c]
               s == stream[c]
               g == got[c]
               t == SubSeq(s, n + 1, g)
    <2>1. (\A i \in 1 .. Len(answers[c]) : answers[c][i].req = i) /\ Past(g, b) = n
      BY <1>1 DEF IInv, ConnInv, OneEach, AllOk, Clean, Serving, Left
    <2>2. /\ b \in Seq(Piece) /\ s \in Seq(Piece) /\ g \in Nat /\ Len(b) \in Nat
          /\ Len(answers[c]) \in Nat /\ n \in Nat /\ Len(s) \in Nat /\ g <= Len(s)
      BY <1>1 DEF IInv, TypeOK
    <2>3. \A i \in 1 .. Len(b) : b[i] = s[n + i]
      BY <1>1, <2>1 DEF IInv, ConnInv, Buffered
    <2> HIDE DEF n, b, s, g
    <2>4. Len(b) = g - n
      BY <2>1, <2>2 DEF Past
    <2>5. \A i \in n + 1 .. g : s[i] \in Piece
      BY <2>2
    <2>6. /\ t \in Seq(Piece)
          /\ Len(t) = IF n + 1 <= g THEN g - (n + 1) + 1 ELSE 0
          /\ \A i \in 1 .. g - (n + 1) + 1 : t[i] = s[n + 1 + i - 1]
      BY <2>2, <2>5, SubSeqProperties
    <2> HIDE DEF t
    <2>7. Len(t) = Len(b)
      BY <2>2, <2>4, <2>6
    <2>8. ASSUME NEW i \in 1 .. Len(b)
          PROVE  b[i] = t[i]
      <3>1. i \in 1 .. g - (n + 1) + 1 /\ n + 1 + i - 1 = n + i
        BY <2>2, <2>4
      <3> QED BY <2>3, <2>6, <3>1
    <2>9. b = t
      BY <2>2, <2>6, <2>7, <2>8, SeqEqual
    <2> QED BY <2>1, <2>9 DEF n, b, s, g, t
  <1>2. IInv => NothingLostOrTwice
    BY <1>1 DEF NothingLostOrTwice
  <1> QED BY AlwaysIInv, <1>2, PTL

\* After protocol errors too, and whatever commands are found in the bytes of a request
\* that parsing goes on amid, replies follow the order of the stream, and a request that
\* is parsed from its first byte is after all before it (handle_client).
THEOREM OrderKept == Spec => []InOrder
  <1>1. IInv => InOrder
    BY DEF IInv, ConnInv, Ordered, InOrder
  <1> QED BY AlwaysIInv, <1>1, PTL

\* Every acknowledged write is in the log or in the snapshot, whatever snapshots
\* and failures come between (dispatch, PersistenceManager.snapshot, close).
THEOREM AcknowledgedKept == Spec => []AcknowledgedIsOnFile
  <1>1. IInv => AcknowledgedIsOnFile
    BY DEF AcknowledgedIsOnFile, IInv, FilesInv, Left
  <1> QED BY AlwaysIInv, <1>1, PTL

=============================================================================
