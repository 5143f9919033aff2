----------------------------- MODULE BenchProofs -----------------------------
(***************************************************************************)
(* Proofs about Bench, for any number of threads, any parameters and any   *)
(* number of late calls: what a request has done stays done until somebody *)
(* does the opposite.                                                      *)
(***************************************************************************)
EXTENDS Bench, SequenceTheorems, TLAPS

-----------------------------------------------------------------------------
(* The calls of a request *)

Stores == {"mongo", "redis", "mini"}

Calls == [store : Stores, verb : {"set", "get", "del"}, keys : SUBSET Indices]

LEMMA CallTyped ==
  ASSUME NEW s \in Stores, NEW v \in {"set", "get", "del"}, NEW ks \in SUBSET Indices
  PROVE  /\ Call(s, v, ks) \in Calls
         /\ Call(s, v, ks).store = s /\ Call(s, v, ks).verb = v /\ Call(s, v, ks).keys = ks
  BY DEF Call, Calls

LEMMA EachCall ==
  ASSUME NEW n \in Nat, 1 .. n \subseteq Indices, NEW s \in Stores, NEW v \in {"set", "get", "del"}
  PROVE  /\ Each(n, s, v) \in Seq(Calls) /\ Len(Each(n, s, v)) = n
         /\ \A i \in 1 .. n : Each(n, s, v)[i] = Call(s, v, {i})
         /\ \A i \in 1 .. n : /\ Each(n, s, v)[i].store = s /\ Each(n, s, v)[i].verb = v
                              /\ Each(n, s, v)[i].keys = {i}
  <1>1. \A i \in 1 .. n : Call(s, v, {i}) \in Calls
    BY CallTyped
  <1>2. Each(n, s, v) \in [1 .. n -> Calls]
    BY <1>1 DEF Each
  <1>3. \A i \in 1 .. n : Each(n, s, v)[i] = Call(s, v, {i})
    BY DEF Each
  <1>4. ASSUME NEW i \in 1 .. n
        PROVE  /\ Each(n, s, v)[i].store = s /\ Each(n, s, v)[i].verb = v
               /\ Each(n, s, v)[i].keys = {i}
    <2>1. {i} \in SUBSET Indices /\ Each(n, s, v)[i] = Call(s, v, {i})
      BY <1>3
    <2> QED BY <2>1, CallTyped
  <1> QED BY <1>2, <1>3, <1>4

\* The call at place e of a pass.
PassCall(n, v, e) ==
  IF e <= n THEN Call("mongo", v, {e})
  ELSE IF e <= 2 * n THEN Call("redis", v, {e - n})
  ELSE Call("mini", v, {e - 2 * n})

LEMMA PassCalls ==
  ASSUME NEW n \in Nat, 1 .. n \subseteq Indices, NEW v \in {"set", "get", "del"}
  PROVE  /\ Pass(n, v) \in Seq(Calls) /\ Len(Pass(n, v)) = 3 * n
         /\ \A e \in 1 .. 3 * n : Pass(n, v)[e] = PassCall(n, v, e)
  <1> DEFINE a == Each(n, "mongo", v)
             b == Each(n, "redis", v)
             c == Each(n, "mini", v)
             ab == a \o b
  <1>1. "mongo" \in Stores /\ "redis" \in Stores /\ "mini" \in Stores
    BY DEF Stores
  <1>2. /\ a \in Seq(Calls) /\ Len(a) = n /\ \A i \in 1 .. n : a[i] = Call("mongo", v, {i})
        /\ b \in Seq(Calls) /\ Len(b) = n /\ \A i \in 1 .. n : b[i] = Call("redis", v, {i})
        /\ c \in Seq(Calls) /\ Len(c) = n /\ \A i \in 1 .. n : c[i] = Call("mini", v, {i})
    <2>1. a \in Seq(Calls) /\ Len(a) = n /\ \A i \in 1 .. n : a[i] = Call("mongo", v, {i})
      BY <1>1, EachCall
    <2>2. b \in Seq(Calls) /\ Len(b) = n /\ \A i \in 1 .. n : b[i] = Call("redis", v, {i})
      BY <1>1, EachCall
    <2>3. c \in Seq(Calls) /\ Len(c) = n /\ \A i \in 1 .. n : c[i] = Call("mini", v, {i})
      BY <1>1, EachCall
    <2> HIDE DEF a, b, c
    <2> QED BY <2>1, <2>2, <2>3
  <1>3. Pass(n, v) = ab \o c
    BY DEF Pass
  <1> HIDE DEF a, b, c
  <1>4. /\ ab \in Seq(Calls) /\ Len(ab) = Len(a) + Len(b)
        /\ \A i \in 1 .. Len(a) + Len(b) : ab[i] = IF i <= Len(a) THEN a[i] ELSE b[i - Len(a)]
    BY <1>2, ConcatProperties, Zenon
  <1> HIDE DEF ab
  <1>5. /\ ab \o c \in Seq(Calls) /\ Len(ab \o c) = Len(ab) + Len(c)
        /\ \A i \in 1 .. Len(ab) + Len(c) : (ab \o c)[i] = IF i <= Len(ab) THEN ab[i] ELSE c[i - Len(ab)]
    <2>1. ab \in Seq(Calls) /\ c \in Seq(Calls)
      BY <1>2, <1>4
    <2> QED BY <2>1, ConcatProperties, Zenon
  <1>6. Len(ab) = 2 * n /\ Len(ab) + Len(c) = 3 * n
    BY <1>2, <1>4
  <1>7. ASSUME NEW e \in 1 .. 3 * n
        PROVE  (ab \o c)[e] = PassCall(n, v, e)
    <2>1. CASE e <= n
      <3>1. e \in 1 .. Len(ab) + Len(c) /\ e <= Len(ab) /\ e \in 1 .. Len(a) + Len(b) /\ e <= Len(a)
            /\ e \in 1 .. n
        BY <1>2, <1>6, <2>1
      <3> QED BY <1>2, <1>4, <1>5, <2>1, <3>1 DEF PassCall
    <2>2. CASE e > n /\ e <= 2 * n
      <3>1. e \in 1 .. Len(ab) + Len(c) /\ e <= Len(ab) /\ e \in 1 .. Len(a) + Len(b) /\ ~(e <= Len(a))
            /\ e - Len(a) = e - n /\ e - n \in 1 .. n /\ ~(e <= n)
        BY <1>2, <1>6, <2>2
      <3> QED BY <1>2, <1>4, <1>5, <2>2, <3>1 DEF PassCall
    <2>3. CASE e > 2 * n
      <3>1. e \in 1 .. Len(ab) + Len(c) /\ ~(e <= Len(ab))
            /\ e - Len(ab) = e - 2 * n /\ e - 2 * n \in 1 .. n /\ ~(e <= n) /\ ~(e <= 2 * n)
        BY <1>2, <1>6, <2>3
      <3> QED BY <1>2, <1>5, <2>3, <3>1 DEF PassCall
    <2>4. e <= n \/ (e > n /\ e <= 2 * n) \/ e > 2 * n
      OBVIOUS
    <2> QED BY <2>1, <2>2, <2>3, <2>4, Zenon
  <1> QED BY <1>3, <1>5, <1>6, <1>7

\* A pass of GETs is the pass of SETs with another verb.
LEMMA PassCallTyped ==
  ASSUME NEW n \in Nat, 1 .. n \subseteq Indices, NEW e \in 1 .. 3 * n,
         NEW v \in {"set", "get", "del"}
  PROVE  /\ PassCall(n, v, e) \in Calls /\ PassCall(n, v, e).verb = v
         /\ PassCall(n, "set", e) = [PassCall(n, v, e) EXCEPT !.verb = "set"]
  <1>1. PICK s \in Stores, i \in 1 .. n :
           PassCall(n, v, e) = Call(s, v, {i}) /\ PassCall(n, "set", e) = Call(s, "set", {i})
    <2>1. CASE e <= n
      <3>1. e \in 1 .. n
        BY <2>1
      <3> QED BY <2>1, <3>1 DEF PassCall, Stores
    <2>2. CASE e > n /\ e <= 2 * n
      <3>1. e - n \in 1 .. n /\ ~(e <= n)
        BY <2>2
      <3> QED BY <2>2, <3>1 DEF PassCall, Stores
    <2>3. CASE e > 2 * n
      <3>1. e - 2 * n \in 1 .. n /\ ~(e <= n) /\ ~(e <= 2 * n)
        BY <2>3
      <3> QED BY <2>3, <3>1 DEF PassCall, Stores
    <2>4. e <= n \/ (e > n /\ e <= 2 * n) \/ e > 2 * n
      OBVIOUS
    <2> QED BY <2>1, <2>2, <2>3, <2>4, Zenon
  <1>2. {i} \in SUBSET Indices
    OBVIOUS
  <1>3. /\ Call(s, v, {i}) \in Calls /\ Call(s, v, {i}).verb = v
        /\ Call(s, "set", {i}) = [Call(s, v, {i}) EXCEPT !.verb = "set"]
    <2>1. Call(s, "set", {i}) = [Call(s, v, {i}) EXCEPT !.verb = "set"]
      BY DEF Call
    <2>2. Call(s, v, {i}) \in Calls /\ Call(s, v, {i}).verb = v
      BY <1>2, CallTyped
    <2> QED BY <2>1, <2>2
  <1> QED BY <1>1, <1>3, Zenon

LEMMA PrepareCalls ==
  ASSUME NEW n \in Nat, 1 .. n \subseteq Indices
  PROVE  /\ Prepare(n) \in Seq(Calls) /\ Len(Prepare(n)) = 3 * n
         /\ \A e \in 1 .. 3 * n : Prepare(n)[e].verb = "set"
         /\ \A s \in Stores, i \in 1 .. n : \E e \in 1 .. 3 * n : Prepare(n)[e] = Call(s, "set", {i})
  <1> DEFINE stores == <<"redis", "mongo", "mini">>
  <1>1. ASSUME NEW e \in 1 .. 3 * n
        PROVE  /\ Prepare(n)[e] = Call(stores[((e - 1) % 3) + 1], "set", {((e - 1) \div 3) + 1})
               /\ Prepare(n)[e] \in Calls /\ Prepare(n)[e].verb = "set"
    <2>1. Prepare(n)[e] = Call(stores[((e - 1) % 3) + 1], "set", {((e - 1) \div 3) + 1})
      BY DEF Prepare
    <2>2. ((e - 1) % 3) + 1 \in 1 .. 3 /\ ((e - 1) \div 3) + 1 \in 1 .. n
      OBVIOUS
    <2>3. \A x \in 1 .. 3 : stores[x] \in Stores
      BY DEF Stores
    <2>4. {((e - 1) \div 3) + 1} \in SUBSET Indices
      BY <2>2
    <2> HIDE DEF stores
    <2> QED BY <2>1, <2>2, <2>3, <2>4, CallTyped
  <1>2. Prepare(n) \in [1 .. 3 * n -> Calls]
    BY <1>1 DEF Prepare
  <1>3. ASSUME NEW s \in Stores, NEW i \in 1 .. n
        PROVE  \E e \in 1 .. 3 * n : Prepare(n)[e] = Call(s, "set", {i})
    <2>1. PICK x \in 1 .. 3 : stores[x] = s
      <3>1. stores[1] = "redis" /\ stores[2] = "mongo" /\ stores[3] = "mini"
        OBVIOUS
      <3> QED BY <3>1 DEF Stores
    <2>2. 3 * (i - 1) + x \in 1 .. 3 * n
      OBVIOUS
    <2>3. /\ ((3 * (i - 1) + x - 1) % 3) + 1 = x
          /\ ((3 * (i - 1) + x - 1) \div 3) + 1 = i
      OBVIOUS
    <2> DEFINE e == 3 * (i - 1) + x
    <2>4. e \in 1 .. 3 * n /\ ((e - 1) % 3) + 1 = x /\ ((e - 1) \div 3) + 1 = i
      BY <2>2, <2>3
    <2> HIDE DEF stores, e
    <2>5. Prepare(n)[e] = Call(stores[((e - 1) % 3) + 1], "set", {((e - 1) \div 3) + 1})
      BY <1>1, <2>4
    <2>6. Prepare(n)[e] = Call(s, "set", {i})
      BY <2>1, <2>4, <2>5
    <2> QED BY <2>4, <2>6
  <1>4. Prepare(n) \in Seq(Calls) /\ Len(Prepare(n)) = 3 * n
    <2>1. 3 * n \in Nat
      OBVIOUS
    <2> QED BY <1>2, <2>1
  <1> QED BY <1>1, <1>3, <1>4

-----------------------------------------------------------------------------
(* Programs *)

\* A benchmark looks up what it has set, and sets every key in every store; it
\* deletes nothing.
Lookups(L) ==
  /\ \A e \in DOMAIN L : L[e].verb \in {"set", "get"}
  /\ \A e \in DOMAIN L : L[e].verb = "get" =>
        \E d \in 1 .. e - 1 : L[d] = [L[e] EXCEPT !.verb = "set"]

SetsAll(L, n) == \A s \in Stores, i \in 1 .. n : \E e \in DOMAIN L : L[e] = Call(s, "set", {i})

\* A cleanup deletes every key from every store, and does nothing else.
DeletesAll(L, n) ==
  /\ \A e \in DOMAIN L : L[e].verb = "del"
  /\ \A s \in Stores, i \in 1 .. n :
        \E e \in DOMAIN L : L[e].store = s /\ i \in L[e].keys

Program(kind, n, L) ==
  /\ L \in Seq(Calls)
  /\ \/ kind = "benchmark" /\ Lookups(L) /\ SetsAll(L, n)
     \/ kind = "cleanup" /\ DeletesAll(L, n)

\* A pass of SETs and one of GETs over the same keys can follow.
LEMMA PassesFollow ==
  ASSUME NEW L \in Seq(Calls), Lookups(L), NEW n \in Nat, 1 .. n \subseteq Indices,
         NEW N \in Nat, SetsAll(L, N)
  PROVE  LET M == (L \o Pass(n, "set")) \o Pass(n, "get")
         IN  M \in Seq(Calls) /\ Lookups(M) /\ SetsAll(M, N)
  <1> DEFINE s == Pass(n, "set")
             g == Pass(n, "get")
             Ls == L \o s
             M == Ls \o g
             l == Len(L)
  <1>1. /\ s \in Seq(Calls) /\ Len(s) = 3 * n /\ \A e \in 1 .. 3 * n : s[e] = PassCall(n, "set", e)
        /\ g \in Seq(Calls) /\ Len(g) = 3 * n /\ \A e \in 1 .. 3 * n : g[e] = PassCall(n, "get", e)
    BY PassCalls
  <1>2. \A e \in 1 .. 3 * n : s[e].verb = "set" /\ g[e].verb = "get" /\ s[e] = [g[e] EXCEPT !.verb = "set"]
    <2> SUFFICES ASSUME NEW e \in 1 .. 3 * n
                 PROVE  s[e].verb = "set" /\ g[e].verb = "get" /\ s[e] = [g[e] EXCEPT !.verb = "set"]
      OBVIOUS
    <2>1. PassCall(n, "set", e).verb = "set"
      BY PassCallTyped
    <2>2. PassCall(n, "get", e).verb = "get"
          /\ PassCall(n, "set", e) = [PassCall(n, "get", e) EXCEPT !.verb = "set"]
      BY PassCallTyped
    <2>3. s[e] = PassCall(n, "set", e) /\ g[e] = PassCall(n, "get", e)
      BY <1>1
    <2> HIDE DEF s, g
    <2> QED BY <2>1, <2>2, <2>3
  <1> HIDE DEF s, g
  <1>3. l \in Nat /\ DOMAIN L = 1 .. l /\ 3 * n \in Nat
    BY LenProperties
  <1>4. /\ Ls \in Seq(Calls) /\ Len(Ls) = Len(L) + Len(s)
        /\ \A e \in 1 .. Len(L) + Len(s) : Ls[e] = IF e <= Len(L) THEN L[e] ELSE s[e - Len(L)]
    BY <1>1, ConcatProperties, Zenon
  <1> HIDE DEF Ls
  <1>5. /\ M \in Seq(Calls) /\ Len(M) = Len(Ls) + Len(g)
        /\ \A e \in 1 .. Len(Ls) + Len(g) : M[e] = IF e <= Len(Ls) THEN Ls[e] ELSE g[e - Len(Ls)]
    <2>1. Ls \in Seq(Calls) /\ g \in Seq(Calls)
      BY <1>1, <1>4
    <2> QED BY <2>1, ConcatProperties, Zenon
  <1> HIDE DEF M
  <1>6. DOMAIN M = 1 .. l + 3 * n + 3 * n
    BY <1>1, <1>3, <1>4, <1>5, LenProperties
  <1>7. \A e \in 1 .. l : e \in DOMAIN M /\ M[e] = L[e]
    BY <1>1, <1>3, <1>4, <1>5, <1>6
  <1>8. ASSUME NEW e \in 1 .. 3 * n
        PROVE  l + e \in DOMAIN M /\ M[l + e] = s[e]
    <2>1. /\ l + e \in 1 .. Len(Ls) + Len(g) /\ l + e <= Len(Ls) /\ l + e \in DOMAIN M
          /\ l + e \in 1 .. Len(L) + Len(s) /\ ~(l + e <= Len(L)) /\ (l + e) - Len(L) = e
      BY <1>1, <1>3, <1>4, <1>6
    <2>2. M[l + e] = Ls[l + e] /\ Ls[l + e] = s[e]
      BY <1>4, <1>5, <2>1
    <2> QED BY <2>1, <2>2
  <1>9. ASSUME NEW e \in 1 .. 3 * n
        PROVE  l + 3 * n + e \in DOMAIN M /\ M[l + 3 * n + e] = g[e]
    <2>1. /\ l + 3 * n + e \in 1 .. Len(Ls) + Len(g) /\ ~(l + 3 * n + e <= Len(Ls))
          /\ l + 3 * n + e \in DOMAIN M /\ (l + 3 * n + e) - Len(Ls) = e
      BY <1>1, <1>3, <1>4, <1>6
    <2> QED BY <1>5, <2>1
  <1>10. ASSUME NEW e \in DOMAIN M
         PROVE  /\ M[e].verb \in {"set", "get"}
                /\ M[e].verb = "get" => \E d \in 1 .. e - 1 : M[d] = [M[e] EXCEPT !.verb = "set"]
    <2>1. CASE e <= l
      <3>1. e \in DOMAIN L /\ M[e] = L[e]
        BY <1>3, <1>6, <1>7, <2>1
      <3>2. ASSUME M[e].verb = "get"
            PROVE  \E d \in 1 .. e - 1 : M[d] = [M[e] EXCEPT !.verb = "set"]
        <4>1. PICK d \in 1 .. e - 1 : L[d] = [L[e] EXCEPT !.verb = "set"]
          BY <3>1, <3>2 DEF Lookups
        <4>2. M[d] = L[d]
          BY <1>3, <1>7, <3>1
        <4> QED BY <3>1, <4>1, <4>2
      <3> QED BY <3>1, <3>2 DEF Lookups
    <2>2. CASE e > l /\ e <= l + 3 * n
      <3>1. e - l \in 1 .. 3 * n /\ l + (e - l) = e
        BY <1>3, <1>6, <2>2
      <3>2. M[l + (e - l)] = s[e - l] /\ s[e - l].verb = "set"
        BY <1>2, <1>8, <3>1
      <3> QED BY <3>1, <3>2
    <2>3. CASE e > l + 3 * n
      <3> DEFINE x == e - (l + 3 * n)
      <3>1. x \in 1 .. 3 * n /\ l + 3 * n + x = e /\ l + x \in 1 .. e - 1
        BY <1>3, <1>6, <2>3
      <3> HIDE DEF x
      <3>2. M[e] = g[x] /\ M[l + x] = s[x]
        BY <1>8, <1>9, <3>1
      <3>3. M[e].verb = "get" /\ M[l + x] = [M[e] EXCEPT !.verb = "set"]
        BY <1>2, <3>1, <3>2
      <3> QED BY <3>1, <3>3
    <2>4. e <= l \/ (e > l /\ e <= l + 3 * n) \/ e > l + 3 * n
      BY <1>3, <1>6
    <2> QED BY <2>1, <2>2, <2>3, <2>4, Zenon
  <1>11. Lookups(M)
    BY <1>10, Zenon DEF Lookups
  <1>12. SetsAll(M, N)
    BY <1>3, <1>7 DEF SetsAll
  <1> QED BY <1>5, <1>11, <1>12 DEF M, Ls, s, g

LEMMA BenchmarkIsProgram ==
  ASSUME NEW w \in Int, NEW c \in Int, w >= 0, c >= 1, 1 .. w + c \subseteq Indices
  PROVE  Program("benchmark", w + c, Benchmark(w, c))
  <1> DEFINE P == Prepare(w + c)
             A == (P \o Pass(w, "set")) \o Pass(w, "get")
             B == (A \o Pass(c, "set")) \o Pass(c, "get")
  <1>1. /\ w \in Nat /\ c \in Nat /\ w + c \in Nat
        /\ 1 .. w \subseteq Indices /\ 1 .. c \subseteq Indices
    OBVIOUS
  <1>2. /\ P \in Seq(Calls) /\ Len(P) = 3 * (w + c)
        /\ \A e \in 1 .. 3 * (w + c) : P[e].verb = "set"
        /\ \A s \in Stores, i \in 1 .. w + c : \E e \in 1 .. 3 * (w + c) : P[e] = Call(s, "set", {i})
    BY <1>1, PrepareCalls
  <1> HIDE DEF P
  <1>3. DOMAIN P = 1 .. 3 * (w + c)
    BY <1>2, LenProperties
  <1>4. Lookups(P) /\ SetsAll(P, w + c)
    BY <1>2, <1>3 DEF Lookups, SetsAll
  <1>5. A \in Seq(Calls) /\ Lookups(A) /\ SetsAll(A, w + c)
    BY <1>1, <1>2, <1>4, PassesFollow
  <1> HIDE DEF A
  <1>6. B \in Seq(Calls) /\ Lookups(B) /\ SetsAll(B, w + c)
    BY <1>1, <1>5, PassesFollow
  <1>7. Benchmark(w, c) = B
    BY DEF Benchmark, B, A, P
  <1> QED BY <1>6, <1>7 DEF Program

IsDel(call, s, ks) == call.store = s /\ call.verb = "del" /\ call.keys = ks

LEMMA CleanupIsProgram ==
  ASSUME NEW w \in Int, NEW c \in Int, w >= 0, c >= 1, 1 .. w + c \subseteq Indices
  PROVE  Program("cleanup", w + c, Cleanup(w, c))
  <1> DEFINE n == w + c
             m == <<Call("mongo", "del", 1 .. n)>>
             r == Each(n, "redis", "del")
             i == Each(n, "mini", "del")
             mr == m \o r
             L == mr \o i
  <1>1. n \in Nat /\ 1 .. n \subseteq Indices /\ {"mongo", "redis", "mini"} = Stores
    BY DEF Stores
  <1>2. /\ r \in Seq(Calls) /\ Len(r) = n /\ \A x \in 1 .. n : IsDel(r[x], "redis", {x})
        /\ i \in Seq(Calls) /\ Len(i) = n /\ \A x \in 1 .. n : IsDel(i[x], "mini", {x})
    <2> HIDE DEF n
    <2> QED BY <1>1, EachCall DEF IsDel
  <1>3. m \in Seq(Calls) /\ Len(m) = 1 /\ IsDel(m[1], "mongo", 1 .. n)
    <2>1. Call("mongo", "del", 1 .. n) \in Calls /\ IsDel(Call("mongo", "del", 1 .. n), "mongo", 1 .. n)
      BY <1>1, CallTyped DEF IsDel
    <2> QED BY <2>1
  <1>4. Cleanup(w, c) = L
    BY DEF Cleanup
  <1> HIDE DEF n, m, r, i
  <1>5. /\ mr \in Seq(Calls) /\ Len(mr) = Len(m) + Len(r)
        /\ \A e \in 1 .. Len(m) + Len(r) : mr[e] = IF e <= Len(m) THEN m[e] ELSE r[e - Len(m)]
    BY <1>2, <1>3, ConcatProperties, Zenon
  <1> HIDE DEF mr
  <1>6. /\ L \in Seq(Calls) /\ Len(L) = Len(mr) + Len(i)
        /\ \A e \in 1 .. Len(mr) + Len(i) : L[e] = IF e <= Len(mr) THEN mr[e] ELSE i[e - Len(mr)]
    <2>1. mr \in Seq(Calls) /\ i \in Seq(Calls)
      BY <1>2, <1>5
    <2> QED BY <2>1, ConcatProperties, Zenon
  <1> HIDE DEF L
  <1>7. DOMAIN L = 1 .. 1 + n + n
    BY <1>1, <1>2, <1>3, <1>5, <1>6, LenProperties
  <1>8. 1 \in DOMAIN L /\ IsDel(L[1], "mongo", 1 .. n)
    BY <1>1, <1>2, <1>3, <1>5, <1>6, <1>7
  <1>9. ASSUME NEW x \in 1 .. n
        PROVE  1 + x \in DOMAIN L /\ IsDel(L[1 + x], "redis", {x})
    <2>1. /\ 1 + x \in 1 .. Len(mr) + Len(i) /\ 1 + x <= Len(mr) /\ 1 + x \in DOMAIN L
          /\ 1 + x \in 1 .. Len(m) + Len(r) /\ ~(1 + x <= Len(m)) /\ (1 + x) - Len(m) = x
      BY <1>1, <1>2, <1>3, <1>5, <1>7
    <2>2. L[1 + x] = mr[1 + x] /\ mr[1 + x] = r[x]
      BY <1>5, <1>6, <2>1
    <2> QED BY <1>2, <2>1, <2>2
  <1>10. ASSUME NEW x \in 1 .. n
         PROVE  1 + n + x \in DOMAIN L /\ IsDel(L[1 + n + x], "mini", {x})
    <2>1. /\ 1 + n + x \in 1 .. Len(mr) + Len(i) /\ ~(1 + n + x <= Len(mr))
          /\ 1 + n + x \in DOMAIN L /\ (1 + n + x) - Len(mr) = x
      BY <1>1, <1>2, <1>3, <1>5, <1>7
    <2>2. L[1 + n + x] = i[x]
      BY <1>6, <2>1
    <2> QED BY <1>2, <2>1, <2>2
  <1>11. ASSUME NEW e \in DOMAIN L
         PROVE  \/ e = 1
                \/ \E x \in 1 .. n : e = 1 + x
                \/ \E x \in 1 .. n : e = 1 + n + x
    <2>1. CASE e > 1 /\ e <= 1 + n
      <3>1. e - 1 \in 1 .. n /\ e = 1 + (e - 1)
        BY <1>1, <1>7, <2>1
      <3> QED BY <3>1
    <2>2. CASE e > 1 + n
      <3>1. e - (1 + n) \in 1 .. n /\ e = 1 + n + (e - (1 + n))
        BY <1>1, <1>7, <2>2
      <3> QED BY <3>1
    <2> QED BY <1>1, <1>7, <2>1, <2>2
  <1>12. ASSUME NEW e \in DOMAIN L PROVE L[e].verb = "del"
    <2>1. CASE e = 1
      BY <1>8, <2>1 DEF IsDel
    <2>2. CASE \E x \in 1 .. n : e = 1 + x
      BY <1>9, <2>2 DEF IsDel
    <2>3. CASE \E x \in 1 .. n : e = 1 + n + x
      BY <1>10, <2>3 DEF IsDel
    <2> QED BY <1>11, <2>1, <2>2, <2>3
  <1>13. ASSUME NEW s \in Stores, NEW x \in 1 .. n
         PROVE  \E e \in DOMAIN L : L[e].store = s /\ x \in L[e].keys
    <2>1. CASE s = "mongo"
      BY <1>8, <2>1 DEF IsDel
    <2>2. CASE s = "redis"
      BY <1>9, <2>2 DEF IsDel
    <2>3. CASE s = "mini"
      BY <1>10, <2>3 DEF IsDel
    <2> QED BY <2>1, <2>2, <2>3 DEF Stores
  <1>14. Program("cleanup", n, L)
    BY <1>6, <1>12, <1>13 DEF Program, DeletesAll
  <1> QED BY <1>4, <1>14 DEF n

-----------------------------------------------------------------------------
(* The stores *)

StoresTyped(D, R, M) == D \in [Indices -> Nat] /\ R \subseteq Indices /\ M \subseteq Indices

\* Holds of stores D, R and M.
HeldBy(D, R, M, s, i) ==
  CASE s = "mongo" -> D[i] > 0
    [] s = "redis" -> i \in R
    [] s = "mini"  -> i \in M

\* The stores are as the call leaves them.
InEffect(call, D, R, M) ==
  \A i \in call.keys :
      /\ call.verb = "set" => HeldBy(D, R, M, call.store, i)
      /\ call.verb = "del" => ~HeldBy(D, R, M, call.store, i)

Opposite(verb) == IF verb = "set" THEN "del" ELSE "set"

\* One document, for each index, after a call.
LEMMA DocsAfter ==
  ASSUME StoresTyped(docs, redis, mini), NEW call \in Calls, Execute(call)
  PROVE  /\ StoresTyped(docs', redis', mini')
         /\ \A i \in Indices :
               docs'[i] > 0 <=> IF call.store # "mongo" \/ i \notin call.keys \/ call.verb = "get"
                                THEN docs[i] > 0 ELSE call.verb = "set"
         /\ \A i \in Indices :
               i \in redis' <=> IF call.store # "redis" \/ i \notin call.keys \/ call.verb = "get"
                                THEN i \in redis ELSE call.verb = "set"
         /\ \A i \in Indices :
               i \in mini' <=> IF call.store # "mini" \/ i \notin call.keys \/ call.verb = "get"
                               THEN i \in mini ELSE call.verb = "set"
  <1>1. call.verb \in {"set", "get", "del"} /\ call.keys \subseteq Indices
    BY DEF Calls
  <1>2. docs \in [Indices -> Nat] /\ redis \subseteq Indices /\ mini \subseteq Indices
    BY DEF StoresTyped
  <1>3. ASSUME NEW i \in Indices
        PROVE  /\ docs'[i] \in Nat
               /\ docs'[i] > 0 <=> IF call.store # "mongo" \/ i \notin call.keys \/ call.verb = "get"
                                   THEN docs[i] > 0 ELSE call.verb = "set"
    <2>1. docs'[i] = IF call.store # "mongo" \/ i \notin call.keys \/ call.verb = "get" THEN docs[i]
                     ELSE IF call.verb = "set" THEN Upsert(i)
                     ELSE IF docs[i] = 0 THEN 0 ELSE DeleteMany(i)
      BY DEF Execute
    <2>2. docs[i] \in Nat
      BY <1>2
    <2>3. Upsert(i) \in Nat /\ Upsert(i) > 0 /\ DeleteMany(i) = 0
      BY <2>2 DEF Upsert, DeleteMany
    <2>4. CASE call.store # "mongo" \/ i \notin call.keys \/ call.verb = "get"
      BY <2>1, <2>2, <2>4
    <2>5. CASE ~(call.store # "mongo" \/ i \notin call.keys \/ call.verb = "get") /\ call.verb = "set"
      BY <2>1, <2>3, <2>5
    <2>6. CASE ~(call.store # "mongo" \/ i \notin call.keys \/ call.verb = "get") /\ call.verb = "del"
      <3>1. docs'[i] = 0
        BY <2>1, <2>3, <2>6
      <3> QED BY <2>6, <3>1
    <2> QED BY <1>1, <2>4, <2>5, <2>6
  <1>4. docs' \in [Indices -> Nat]
    <2>1. DOMAIN docs' = Indices /\ docs' = [i \in Indices |-> docs'[i]]
      BY DEF Execute
    <2> QED BY <1>3, <2>1
  <1>5. /\ redis' \subseteq Indices
        /\ \A i \in Indices :
              i \in redis' <=> IF call.store # "redis" \/ i \notin call.keys \/ call.verb = "get"
                               THEN i \in redis ELSE call.verb = "set"
    <2>1. CASE call.store # "redis" \/ call.verb = "get"
      BY <1>1, <1>2, <2>1 DEF Execute
    <2>2. CASE call.store = "redis" /\ call.verb = "set"
      BY <1>1, <1>2, <2>2 DEF Execute
    <2>3. CASE call.store = "redis" /\ call.verb = "del"
      BY <1>1, <1>2, <2>3 DEF Execute
    <2> QED BY <1>1, <2>1, <2>2, <2>3
  <1>6. /\ mini' \subseteq Indices
        /\ \A i \in Indices :
              i \in mini' <=> IF call.store # "mini" \/ i \notin call.keys \/ call.verb = "get"
                              THEN i \in mini ELSE call.verb = "set"
    <2>1. CASE call.store # "mini" \/ call.verb = "get"
      BY <1>1, <1>2, <2>1 DEF Execute
    <2>2. CASE call.store = "mini" /\ call.verb = "set"
      BY <1>1, <1>2, <2>2 DEF Execute
    <2>3. CASE call.store = "mini" /\ call.verb = "del"
      BY <1>1, <1>2, <2>3 DEF Execute
    <2> QED BY <1>1, <2>1, <2>2, <2>3
  <1> QED BY <1>3, <1>4, <1>5, <1>6 DEF StoresTyped

\* A call decides for its own keys and leaves the others as they are.
LEMMA HeldAfter ==
  ASSUME StoresTyped(docs, redis, mini), NEW call \in Calls, Execute(call),
         NEW s \in Stores, NEW i \in Indices
  PROVE  HeldBy(docs', redis', mini', s, i) <=>
             IF call.store # s \/ i \notin call.keys \/ call.verb = "get"
             THEN HeldBy(docs, redis, mini, s, i) ELSE call.verb = "set"
  <1>1. CASE s = "mongo"
    BY <1>1, DocsAfter DEF HeldBy
  <1>2. CASE s = "redis"
    BY <1>2, DocsAfter DEF HeldBy
  <1>3. CASE s = "mini"
    BY <1>3, DocsAfter DEF HeldBy
  <1> QED BY <1>1, <1>2, <1>3 DEF Stores

LEMMA CallInEffect ==
  ASSUME StoresTyped(docs, redis, mini), NEW call \in Calls, Execute(call)
  PROVE  InEffect(call, docs', redis', mini')
  <1>1. call.store \in Stores /\ call.verb \in {"set", "get", "del"} /\ call.keys \subseteq Indices
    BY DEF Calls
  <1>2. ASSUME NEW i \in call.keys
        PROVE  /\ call.verb = "set" => HeldBy(docs', redis', mini', call.store, i)
               /\ call.verb = "del" => ~HeldBy(docs', redis', mini', call.store, i)
    <2>1. HeldBy(docs', redis', mini', call.store, i) <=>
              IF call.store # call.store \/ i \notin call.keys \/ call.verb = "get"
              THEN HeldBy(docs, redis, mini, call.store, i) ELSE call.verb = "set"
      BY <1>1, HeldAfter
    <2> QED BY <2>1
  <1> QED BY <1>2 DEF InEffect

\* What is in effect stays in effect until somebody does the opposite.
LEMMA StaysInEffect ==
  ASSUME StoresTyped(docs, redis, mini), NEW call \in Calls, Execute(call),
         NEW done \in Calls, InEffect(done, docs, redis, mini),
         done.verb = "get" \/ call.verb # Opposite(done.verb)
  PROVE  InEffect(done, docs', redis', mini')
  <1>1. done.store \in Stores /\ done.verb \in {"set", "get", "del"} /\ done.keys \subseteq Indices
        /\ call.verb \in {"set", "get", "del"}
    BY DEF Calls
  <1>2. ASSUME NEW i \in done.keys
        PROVE  /\ done.verb = "set" => HeldBy(docs', redis', mini', done.store, i)
               /\ done.verb = "del" => ~HeldBy(docs', redis', mini', done.store, i)
    <2>1. HeldBy(docs', redis', mini', done.store, i) <=>
              IF call.store # done.store \/ i \notin call.keys \/ call.verb = "get"
              THEN HeldBy(docs, redis, mini, done.store, i) ELSE call.verb = "set"
      BY <1>1, HeldAfter
    <2>2. /\ done.verb = "set" => HeldBy(docs, redis, mini, done.store, i)
          /\ done.verb = "del" => ~HeldBy(docs, redis, mini, done.store, i)
      BY DEF InEffect
    <2>3. CASE done.verb = "set"
      BY <1>1, <2>1, <2>2, <2>3 DEF Opposite
    <2>4. CASE done.verb = "del"
      BY <1>1, <2>1, <2>2, <2>4 DEF Opposite
    <2> QED BY <2>3, <2>4
  <1> QED BY <1>2 DEF InEffect

-----------------------------------------------------------------------------
(* The invariant *)

Jobs == [kind : {"none", "benchmark", "cleanup"}, total : Nat, todo : Seq(Calls),
         others : SUBSET {"set", "del"}]

\* A job has done a prefix of its program, and what it has done is in effect
\* unless others have done the opposite.
Work(j, D, R, M) ==
  \E L \in Seq(Calls) :
      /\ Program(j.kind, j.total, L)
      /\ \E d \in 0 .. Len(L) :
            /\ j.todo = SubSeq(L, d + 1, Len(L))
            /\ \A e \in 1 .. d :
                  Opposite(L[e].verb) \notin j.others => InEffect(L[e], D, R, M)

JobInv(j, D, R, M) == IF j.kind = "none" THEN j.todo = <<>> ELSE Work(j, D, R, M)

IInv ==
  /\ StoresTyped(docs, redis, mini) /\ late \subseteq Calls
  /\ job \in [Requests -> Jobs]
  /\ \A r \in Requests : JobInv(job[r], docs, redis, mini)

\* A step of somebody else to D2, R2 and M2 that undoes nothing but the opposite of
\* verb.
Harmless(verb, D, R, M, D2, R2, M2) ==
  \A done \in Calls :
      InEffect(done, D, R, M) /\ (done.verb = "get" \/ verb # Opposite(done.verb))
          => InEffect(done, D2, R2, M2)

LEMMA GetInEffect ==
  ASSUME NEW call, call.verb = "get", NEW D, NEW R, NEW M
  PROVE  InEffect(call, D, R, M)
  BY DEF InEffect

LEMMA IdleJob ==
  ASSUME NEW D, NEW R, NEW M
  PROVE  Idle \in Jobs /\ JobInv(Idle, D, R, M)
  <1>1. <<>> \in Seq(Calls)
    OBVIOUS
  <1> QED BY <1>1 DEF Idle, Jobs, JobInv

\* A job after another has done verb.
AfterOther(j, verb) == [j EXCEPT !.others = @ \cup ({verb} \ {"get"})]

LEMMA WorkGoesOn ==
  ASSUME NEW j \in Jobs, NEW D, NEW R, NEW M, JobInv(j, D, R, M), j.kind # "none",
         NEW verb \in {"set", "get", "del"}, NEW D2, NEW R2, NEW M2,
         Harmless(verb, D, R, M, D2, R2, M2)
  PROVE  AfterOther(j, verb) \in Jobs /\ JobInv(AfterOther(j, verb), D2, R2, M2)
  <1> DEFINE k == AfterOther(j, verb)
  <1>1. /\ k \in Jobs /\ k.kind = j.kind /\ k.total = j.total /\ k.todo = j.todo
        /\ k.others = j.others \cup ({verb} \ {"get"})
    BY DEF Jobs, AfterOther
  <1> HIDE DEF k
  <1>2a. PICK L \in Seq(Calls) :
           /\ Program(j.kind, j.total, L)
           /\ \E d \in 0 .. Len(L) :
                 /\ j.todo = SubSeq(L, d + 1, Len(L))
                 /\ \A e \in 1 .. d : Opposite(L[e].verb) \notin j.others => InEffect(L[e], D, R, M)
    BY DEF JobInv, Work
  <1>2. PICK d \in 0 .. Len(L) :
           /\ j.todo = SubSeq(L, d + 1, Len(L))
           /\ \A e \in 1 .. d : Opposite(L[e].verb) \notin j.others => InEffect(L[e], D, R, M)
    BY <1>2a
  <1>3. ASSUME NEW e \in 1 .. d, Opposite(L[e].verb) \notin k.others
        PROVE  InEffect(L[e], D2, R2, M2)
    <2>1. L[e] \in Calls
      <3>1. e \in 1 .. Len(L)
        BY LenProperties
      <3> QED BY <3>1, ElementOfSeq
    <2>2. Opposite(L[e].verb) \notin j.others /\ verb # Opposite(L[e].verb)
      <3>1. Opposite(L[e].verb) # "get"
        BY DEF Opposite
      <3> QED BY <1>1, <1>3, <3>1
    <2> QED BY <1>2, <2>1, <2>2 DEF Harmless
  <1>4. Work(k, D2, R2, M2)
    BY <1>1, <1>2a, <1>2, <1>3 DEF Work
  <1> QED BY <1>1, <1>4 DEF JobInv, k

\* A call of the program itself is done.
AfterOwn(j) == [j EXCEPT !.todo = Tail(@)]

LEMMA WorkAdvances ==
  ASSUME NEW j \in Jobs, StoresTyped(docs, redis, mini), JobInv(j, docs, redis, mini),
         j.todo # <<>>, Execute(Head(j.todo))
  PROVE  AfterOwn(j) \in Jobs /\ JobInv(AfterOwn(j), docs', redis', mini')
  <1> DEFINE k == AfterOwn(j)
             call == Head(j.todo)
  <1>1. j.todo \in Seq(Calls) /\ j.kind # "none"
    BY DEF Jobs, JobInv
  <1>2. call \in Calls /\ Tail(j.todo) \in Seq(Calls)
    BY <1>1, HeadTailProperties
  <1>3. /\ k \in Jobs /\ k.kind = j.kind /\ k.total = j.total /\ k.todo = Tail(j.todo)
        /\ k.others = j.others
    BY <1>2 DEF Jobs, AfterOwn
  <1> HIDE DEF k
  <1>4a. PICK L \in Seq(Calls) :
           /\ Program(j.kind, j.total, L)
           /\ \E d \in 0 .. Len(L) :
                 /\ j.todo = SubSeq(L, d + 1, Len(L))
                 /\ \A e \in 1 .. d : Opposite(L[e].verb) \notin j.others => InEffect(L[e], docs, redis, mini)
    BY <1>1 DEF JobInv, Work
  <1>4. PICK d \in 0 .. Len(L) :
           /\ j.todo = SubSeq(L, d + 1, Len(L))
           /\ \A e \in 1 .. d : Opposite(L[e].verb) \notin j.others => InEffect(L[e], docs, redis, mini)
    BY <1>4a
  <1>5. Len(L) \in Nat /\ DOMAIN L = 1 .. Len(L)
    BY LenProperties
  <1>6. d + 1 \in 1 .. Len(L)
    <2>1. d # Len(L)
      <3>1. SUFFICES ASSUME d = Len(L) PROVE FALSE
        OBVIOUS
      <3>2. SubSeq(L, d + 1, Len(L)) = <<>>
        BY <1>5, <3>1, SubSeqEmpty
      <3> QED BY <1>4, <3>2
    <2>2. Len(L) \in Nat /\ d \in 0 .. Len(L)
      BY <1>5
    <2> QED BY <2>1, <2>2
  <1>7. call = L[d + 1] /\ k.todo = SubSeq(L, (d + 1) + 1, Len(L))
    BY <1>3, <1>4, <1>5, <1>6, HeadTailOfSubSeq
  <1> HIDE DEF call
  <1>8. \A e \in 1 .. Len(L) : L[e] \in Calls
    BY ElementOfSeq
  <1>9. ASSUME NEW e \in 1 .. d PROVE L[e].verb = "get" \/ call.verb # Opposite(L[e].verb)
    <2>1. e \in DOMAIN L /\ d + 1 \in DOMAIN L
      BY <1>5, <1>6
    <2>2. CASE Lookups(L)
      BY <1>7, <2>1, <2>2 DEF Lookups, Opposite
    <2>3. CASE \A x \in DOMAIN L : L[x].verb = "del"
      BY <1>7, <2>1, <2>3 DEF Opposite
    <2> QED BY <1>4a, <2>2, <2>3 DEF Program, DeletesAll
  <1>10. ASSUME NEW e \in 1 .. d + 1, Opposite(L[e].verb) \notin k.others
         PROVE  InEffect(L[e], docs', redis', mini')
    <2>1. CASE e = d + 1
      BY <1>2, <1>7, <2>1, CallInEffect DEF call
    <2>2. CASE e # d + 1
      <3>1. e \in 1 .. d /\ L[e] \in Calls
        BY <1>6, <1>8, <2>2
      <3>2. InEffect(L[e], docs, redis, mini)
        BY <1>3, <1>4, <1>10, <3>1
      <3>3. call \in Calls /\ Execute(call)
        BY <1>2 DEF call
      <3> QED BY <1>9, <3>1, <3>2, <3>3, StaysInEffect
    <2> QED BY <2>1, <2>2
  <1>11. Work(k, docs', redis', mini')
    <2>1. d + 1 \in 0 .. Len(L)
      BY <1>6
    <2> QED BY <1>3, <1>4a, <1>7, <1>10, <2>1 DEF Work
  <1> QED BY <1>1, <1>2, <1>3, <1>11 DEF JobInv, k, call

Begun(kind, n, L) == [kind |-> kind, total |-> n, todo |-> L, others |-> {}]

LEMMA WorkBegins ==
  ASSUME NEW kind \in {"benchmark", "cleanup"}, NEW n \in Nat, NEW L, Program(kind, n, L),
         NEW D, NEW R, NEW M
  PROVE  Begun(kind, n, L) \in Jobs /\ JobInv(Begun(kind, n, L), D, R, M)
  <1> DEFINE k == Begun(kind, n, L)
  <1>1. L \in Seq(Calls)
    BY DEF Program
  <1>2. k \in Jobs /\ k.kind = kind /\ k.total = n /\ k.todo = L /\ kind # "none"
    BY <1>1 DEF Jobs, Begun
  <1> HIDE DEF k
  <1>3. 0 \in 0 .. Len(L) /\ L = SubSeq(L, 0 + 1, Len(L)) /\ 1 .. 0 = {}
    BY <1>1, SubSeqFull, LenProperties
  <1>4. \A e \in 1 .. 0 : Opposite(L[e].verb) \notin k.others => InEffect(L[e], D, R, M)
    BY <1>3
  <1>5. Work(k, D, R, M)
    BY <1>1, <1>2, <1>3, <1>4 DEF Work
  <1> QED BY <1>2, <1>5 DEF JobInv, k

LEMMA InitIInv == Init => IInv
  <1> SUFFICES ASSUME Init PROVE IInv
    OBVIOUS
  <1>1. StoresTyped(docs, redis, mini)
    BY DEF Init, StoresTyped
  <1>2. \A r \in Requests : job[r] = Idle
    BY DEF Init
  <1>3. job \in [Requests -> Jobs]
    BY IdleJob DEF Init
  <1> QED BY <1>1, <1>2, <1>3, IdleJob DEF Init, IInv

\* Executing a call, and what a page does, is harmless to what it is not the
\* opposite of.
LEMMA ExecuteHarmless ==
  ASSUME StoresTyped(docs, redis, mini), NEW call \in Calls, Execute(call)
  PROVE  Harmless(call.verb, docs, redis, mini, docs', redis', mini')
  BY StaysInEffect DEF Harmless

LEMMA NothingHarmless ==
  ASSUME NEW verb, NEW D, NEW R, NEW M
  PROVE  Harmless(verb, D, R, M, D, R, M)
  BY DEF Harmless

\* Stores in which no key goes, or none comes.
LEMMA OnlyMoreHarmless ==
  ASSUME NEW D, NEW R, NEW M, NEW D2, NEW R2, NEW M2,
         \A s \in Stores, i \in Indices : HeldBy(D, R, M, s, i) => HeldBy(D2, R2, M2, s, i)
  PROVE  Harmless("set", D, R, M, D2, R2, M2)
  BY DEF Harmless, InEffect, Calls, Opposite

LEMMA OnlyLessHarmless ==
  ASSUME NEW D, NEW R, NEW M, NEW D2, NEW R2, NEW M2,
         \A s \in Stores, i \in Indices : HeldBy(D2, R2, M2, s, i) => HeldBy(D, R, M, s, i)
  PROVE  Harmless("del", D, R, M, D2, R2, M2)
  BY DEF Harmless, InEffect, Calls, Opposite

\* The jobs of all but r after verb.
LEMMA OthersGoOn ==
  ASSUME IInv, NEW verb \in {"set", "get", "del"}, NEW D2, NEW R2, NEW M2,
         Harmless(verb, docs, redis, mini, D2, R2, M2),
         NEW r, NEW q \in Requests, q # r
  PROVE  Seen(r, verb)[q] \in Jobs /\ JobInv(Seen(r, verb)[q], D2, R2, M2)
  <1>1. job[q] \in Jobs /\ JobInv(job[q], docs, redis, mini)
    BY DEF IInv
  <1>2. CASE job[q].kind = "none"
    <2>1. Seen(r, verb)[q] = job[q]
      BY <1>2 DEF Seen, Running
    <2> QED BY <1>1, <1>2, <2>1 DEF JobInv
  <1>3. CASE job[q].kind # "none"
    <2>1. Seen(r, verb)[q] = AfterOther(job[q], verb)
      BY <1>3 DEF Seen, Running, AfterOther
    <2> QED BY <1>1, <1>3, <2>1, WorkGoesOn
  <1> QED BY <1>2, <1>3

\* Jobs that are well one by one are well.
LEMMA JobsTogether ==
  ASSUME StoresTyped(docs', redis', mini'), late' \subseteq Calls,
         job' = [q \in Requests |-> job'[q]],
         \A q \in Requests : job'[q] \in Jobs /\ JobInv(job'[q], docs', redis', mini')
  PROVE  IInv'
  <1>1. job' \in [Requests -> Jobs]
    OBVIOUS
  <1> QED BY <1>1 DEF IInv

LEMMA BeginKeeps ==
  ASSUME IInv, NEW r \in Requests, NEW kind \in {"benchmark", "cleanup"},
         NEW w \in Warmups, NEW c \in Counts, NEW L, Begin(r, kind, w, c, L),
         w >= 0 /\ c >= 1 => Program(kind, w + c, L)
  PROVE  IInv'
  <1>1. w \in Int /\ c \in Int /\ w >= 0 /\ c >= 1
    BY BenchAssumption DEF Begin
  <1>2. w + c \in Nat /\ Program(kind, w + c, L)
    BY <1>1
  <1>3. UNCHANGED <<docs, redis, mini, late>> /\ job' = [job EXCEPT ![r] = Begun(kind, w + c, L)]
    BY DEF Begin, Begun
  <1>4. Begun(kind, w + c, L) \in Jobs /\ JobInv(Begun(kind, w + c, L), docs, redis, mini)
    BY <1>2, WorkBegins
  <1> QED BY <1>3, <1>4 DEF IInv

LEMMA StepKeeps ==
  ASSUME IInv, NEW r \in Requests, Step(r)
  PROVE  IInv'
  <1> DEFINE call == Head(job[r].todo)
  <1>1. job[r] \in Jobs /\ JobInv(job[r], docs, redis, mini) /\ StoresTyped(docs, redis, mini)
    BY DEF IInv
  <1>2. job[r].todo # <<>> /\ Execute(call) /\ late' = late
    BY DEF Step
  <1>3. call \in Calls
    <2>1. job[r].todo \in Seq(Calls)
      BY <1>1 DEF Jobs
    <2> QED BY <1>2, <2>1, HeadTailProperties
  <1>4. job' = [q \in Requests |-> IF q = r THEN AfterOwn(job[r]) ELSE Seen(r, call.verb)[q]]
    BY DEF Step, Seen, AfterOwn
  <1>5. AfterOwn(job[r]) \in Jobs /\ JobInv(AfterOwn(job[r]), docs', redis', mini')
    BY <1>1, <1>2, WorkAdvances
  <1> HIDE DEF call
  <1>6. StoresTyped(docs', redis', mini') /\ call.verb \in {"set", "get", "del"}
    BY <1>1, <1>2, <1>3, DocsAfter DEF Calls
  <1>7. Harmless(call.verb, docs, redis, mini, docs', redis', mini')
    BY <1>1, <1>2, <1>3, ExecuteHarmless
  <1>8. ASSUME NEW q \in Requests
        PROVE  job'[q] \in Jobs /\ JobInv(job'[q], docs', redis', mini')
    <2>1. CASE q = r
      BY <1>4, <1>5, <2>1
    <2>2. CASE q # r
      <3>1. job'[q] = Seen(r, call.verb)[q]
        BY <1>4, <2>2
      <3> QED BY <1>6, <1>7, <2>2, <3>1, OthersGoOn
    <2> QED BY <2>1, <2>2
  <1> QED BY <1>2, <1>4, <1>6, <1>8, JobsTogether DEF IInv

LEMMA FailsKeeps ==
  ASSUME IInv, NEW r \in Requests, Fails(r)
  PROVE  IInv'
  <1> DEFINE call == Head(job[r].todo)
  <1>1. job[r] \in Jobs /\ StoresTyped(docs, redis, mini)
    BY DEF IInv
  <1>2. call \in Calls
    <2>1. job[r].todo \in Seq(Calls) /\ job[r].todo # <<>>
      BY <1>1 DEF Jobs, Fails
    <2> QED BY <2>1, HeadTailProperties
  <1>3. CASE UNCHANGED <<docs, redis, mini>> /\ job' = [job EXCEPT ![r] = Idle]
    BY <1>3, IdleJob DEF IInv, Fails
  <1>4. CASE Execute(call) /\ job' = [Seen(r, call.verb) EXCEPT ![r] = Idle]
    <2>1. job' = [q \in Requests |-> IF q = r THEN Idle ELSE Seen(r, call.verb)[q]]
      BY <1>4 DEF Seen
    <2> HIDE DEF call
    <2>2. StoresTyped(docs', redis', mini') /\ call.verb \in {"set", "get", "del"}
      BY <1>1, <1>2, <1>4, DocsAfter DEF Calls
    <2>3. Harmless(call.verb, docs, redis, mini, docs', redis', mini')
      BY <1>1, <1>2, <1>4, ExecuteHarmless
    <2>4. ASSUME NEW q \in Requests
          PROVE  job'[q] \in Jobs /\ JobInv(job'[q], docs', redis', mini')
      <3>1. CASE q = r
        BY <2>1, <3>1, IdleJob
      <3>2. CASE q # r
        <4>1. job'[q] = Seen(r, call.verb)[q]
          BY <2>1, <3>2
        <4> QED BY <2>2, <2>3, <3>2, <4>1, OthersGoOn
      <3> QED BY <3>1, <3>2
    <2>5. late' = late
      BY DEF Fails
    <2> QED BY <2>1, <2>2, <2>4, <2>5, JobsTogether DEF IInv
  <1> QED BY <1>3, <1>4 DEF Fails

\* Somebody who works on no request does verb.
LEMMA NobodyKeeps ==
  ASSUME IInv, NEW verb \in {"set", "get", "del"},
         StoresTyped(docs', redis', mini'), late' \subseteq late,
         Harmless(verb, docs, redis, mini, docs', redis', mini'),
         job' = Seen("nobody", verb)
  PROVE  IInv'
  <1>1. job' = [q \in Requests |-> job'[q]]
    BY DEF Seen
  <1>2. ASSUME NEW q \in Requests
        PROVE  job'[q] \in Jobs /\ JobInv(job'[q], docs', redis', mini')
    <2>1. q # "nobody"
      BY BenchAssumption
    <2> QED BY <2>1, OthersGoOn
  <1> QED BY <1>1, <1>2, JobsTogether DEF IInv

LEMMA StepKeepsIInv == IInv /\ [Next]_vars => IInv'
  <1> SUFFICES ASSUME IInv, [Next]_vars
               PROVE  IInv'
    OBVIOUS
  <1>1. ASSUME NEW r \in Requests, NEW w \in Warmups, NEW c \in Counts, BeginBenchmark(r, w, c)
        PROVE  IInv'
    <2>1. w >= 0 /\ c >= 1 => Program("benchmark", w + c, Benchmark(w, c))
      BY BenchAssumption, BenchmarkIsProgram
    <2> QED BY <1>1, <2>1, BeginKeeps DEF BeginBenchmark
  <1>2. ASSUME NEW r \in Requests, NEW w \in Warmups, NEW c \in Counts, BeginCleanup(r, w, c)
        PROVE  IInv'
    <2>1. w >= 0 /\ c >= 1 => Program("cleanup", w + c, Cleanup(w, c))
      BY BenchAssumption, CleanupIsProgram
    <2> QED BY <1>2, <2>1, BeginKeeps DEF BeginCleanup
  <1>3. ASSUME NEW r \in Requests, Step(r) PROVE IInv'
    BY <1>3, StepKeeps
  <1>4. ASSUME NEW r \in Requests, Fails(r) PROVE IInv'
    BY <1>4, FailsKeeps
  <1>5. ASSUME NEW r \in Requests, TimesOut(r) PROVE IInv'
    <2>1. job[r].todo \in Seq(Calls) /\ job[r].todo # <<>>
      BY <1>5 DEF IInv, Jobs, TimesOut
    <2>2. Head(job[r].todo) \in Calls
      BY <2>1, HeadTailProperties
    <2> QED BY <1>5, <2>2, IdleJob DEF IInv, TimesOut
  <1>6. ASSUME NEW r \in Requests, Finish(r) PROVE IInv'
    BY <1>6, IdleJob DEF IInv, Finish
  <1>7. ASSUME NEW i \in Indices, InsertDoc(i) PROVE IInv'
    <2>1. /\ docs \in [Indices -> Nat] /\ docs' = [docs EXCEPT ![i] = @ + 1]
          /\ redis' = redis /\ mini' = mini /\ late' = late /\ job' = Seen("nobody", "set")
      BY <1>7 DEF IInv, StoresTyped, InsertDoc
    <2>2. StoresTyped(docs', redis', mini')
      BY <2>1 DEF IInv, StoresTyped
    <2>3. ASSUME NEW s \in Stores, NEW x \in Indices, HeldBy(docs, redis, mini, s, x)
          PROVE  HeldBy(docs', redis', mini', s, x)
      <3>1. docs[x] > 0 => docs'[x] > 0
        BY <2>1
      <3>2. CASE s = "mongo"
        BY <2>3, <3>1, <3>2 DEF HeldBy
      <3>3. CASE s = "redis" \/ s = "mini"
        BY <2>1, <2>3, <3>3 DEF HeldBy
      <3> QED BY <3>2, <3>3 DEF Stores
    <2>4. Harmless("set", docs, redis, mini, docs', redis', mini')
      BY <2>3, OnlyMoreHarmless
    <2> QED BY <2>1, <2>2, <2>4, NobodyKeeps
  <1>8. ASSUME NEW i \in Indices, SetRedis(i) PROVE IInv'
    <2>1. /\ docs' = docs /\ redis' = redis \cup {i}
          /\ mini' = mini /\ late' = late /\ job' = Seen("nobody", "set")
      BY <1>8 DEF SetRedis
    <2>2. StoresTyped(docs', redis', mini')
      BY <2>1 DEF IInv, StoresTyped
    <2>3. \A s \in Stores, x \in Indices :
             HeldBy(docs, redis, mini, s, x) => HeldBy(docs', redis', mini', s, x)
      BY <2>1 DEF HeldBy, Stores
    <2>4. Harmless("set", docs, redis, mini, docs', redis', mini')
      BY <2>3, OnlyMoreHarmless
    <2> QED BY <2>1, <2>2, <2>4, NobodyKeeps
  <1>9. CASE ExecuteLate
    <2>1. PICK call \in late :
             Execute(call) /\ late' = late \ {call} /\ job' = Seen("nobody", call.verb)
      BY <1>9 DEF ExecuteLate
    <2>2. call \in Calls /\ StoresTyped(docs, redis, mini)
      BY <2>1 DEF IInv
    <2>3. StoresTyped(docs', redis', mini') /\ call.verb \in {"set", "get", "del"}
      BY <2>1, <2>2, DocsAfter DEF Calls
    <2>4. Harmless(call.verb, docs, redis, mini, docs', redis', mini')
      BY <2>1, <2>2, ExecuteHarmless
    <2> QED BY <2>1, <2>3, <2>4, NobodyKeeps
  <1>10. CASE DeleteAllDocs
    <2>1. /\ docs' = [i \in Indices |-> 0] /\ redis' = redis
          /\ mini' = mini /\ late' = late /\ job' = Seen("nobody", "del")
      BY <1>10 DEF DeleteAllDocs
    <2>2. StoresTyped(docs', redis', mini')
      BY <2>1 DEF IInv, StoresTyped
    <2>3. ASSUME NEW s \in Stores, NEW x \in Indices, HeldBy(docs', redis', mini', s, x)
          PROVE  HeldBy(docs, redis, mini, s, x)
      <3>1. ~(docs'[x] > 0)
        BY <2>1
      <3>2. CASE s = "mongo"
        BY <2>3, <3>1, <3>2 DEF HeldBy
      <3>3. CASE s = "redis" \/ s = "mini"
        BY <2>1, <2>3, <3>3 DEF HeldBy
      <3> QED BY <3>2, <3>3 DEF Stores
    <2>4. Harmless("del", docs, redis, mini, docs', redis', mini')
      BY <2>3, OnlyLessHarmless
    <2> QED BY <2>1, <2>2, <2>4, NobodyKeeps
  <1>11. CASE UNCHANGED vars
    BY <1>11 DEF vars, IInv
  <1> QED BY <1>1, <1>2, <1>3, <1>4, <1>5, <1>6, <1>7, <1>8, <1>9, <1>10, <1>11 DEF Next

LEMMA AlwaysIInv == Spec => []IInv
  BY InitIInv, StepKeepsIInv, PTL DEF Spec

-----------------------------------------------------------------------------
(* The properties *)

\* What a program has done is in effect when it is about to do its next call, or
\* has done the last.
LEMMA DoneSoFar ==
  ASSUME IInv, NEW r \in Requests, Running(r)
  PROVE  \E L \in Seq(Calls) :
            /\ Program(job[r].kind, job[r].total, L)
            /\ \E d \in 0 .. Len(L) :
                  /\ job[r].todo = <<>> => d = Len(L)
                  /\ job[r].todo # <<>> => d + 1 \in DOMAIN L /\ Head(job[r].todo) = L[d + 1]
                  /\ \A e \in 1 .. d : Opposite(L[e].verb) \notin job[r].others =>
                        InEffect(L[e], docs, redis, mini)
  <1>1. Work(job[r], docs, redis, mini)
    BY DEF IInv, JobInv, Running
  <1>2. PICK L \in Seq(Calls) :
           /\ Program(job[r].kind, job[r].total, L)
           /\ \E d \in 0 .. Len(L) :
                 /\ job[r].todo = SubSeq(L, d + 1, Len(L))
                 /\ \A e \in 1 .. d : Opposite(L[e].verb) \notin job[r].others =>
                       InEffect(L[e], docs, redis, mini)
    BY <1>1 DEF Work
  <1>3. PICK d \in 0 .. Len(L) :
           /\ job[r].todo = SubSeq(L, d + 1, Len(L))
           /\ \A e \in 1 .. d : Opposite(L[e].verb) \notin job[r].others =>
                 InEffect(L[e], docs, redis, mini)
    BY <1>2
  <1>4. Len(L) \in Nat /\ DOMAIN L = 1 .. Len(L)
    BY LenProperties
  <1>5. CASE d = Len(L)
    <2>1. SubSeq(L, d + 1, Len(L)) = <<>>
      BY <1>4, <1>5, SubSeqEmpty
    <2> QED BY <1>2, <1>3, <1>5, <2>1
  <1>6. CASE d # Len(L)
    <2>1. d + 1 \in 1 .. Len(L) /\ Len(L) \in d + 1 .. Len(L)
      <3>1. Len(L) \in Nat /\ d \in 0 .. Len(L)
        BY <1>4
      <3> QED BY <1>6, <3>1
    <2>2. Head(SubSeq(L, d + 1, Len(L))) = L[d + 1]
      BY <2>1, HeadTailOfSubSeq
    <2>3. SubSeq(L, d + 1, Len(L)) # <<>>
      <3>1. \A i \in d + 1 .. Len(L) : L[i] \in Calls
        BY <1>4, ElementOfSeq
      <3>2. SubSeq(L, d + 1, Len(L)) \in Seq(Calls) /\ Len(SubSeq(L, d + 1, Len(L))) >= 1
        BY <1>4, <2>1, <3>1, SubSeqProperties
      <3> QED BY <3>2, EmptySeq
    <2> QED BY <1>2, <1>3, <1>4, <2>1, <2>2, <2>3
  <1> QED BY <1>5, <1>6

\* A GET of a benchmark follows the SET of its key in the same request, and that is
\* in effect unless somebody has deleted.
THEOREM LookupsHit == Spec => []GetsHit
  <1>1. IInv => GetsHit
    <2> SUFFICES ASSUME IInv, NEW r \in Requests, job[r].todo # <<>>,
                        Head(job[r].todo).verb = "get", "del" \notin job[r].others,
                        NEW i \in Head(job[r].todo).keys
                 PROVE  Holds(Head(job[r].todo).store, i)
      BY DEF GetsHit
    <2>1. Running(r) /\ job[r].kind \in {"benchmark", "cleanup"}
      BY DEF IInv, JobInv, Running, Jobs
    <2>2. PICK L \in Seq(Calls), d \in Nat :
             /\ Program(job[r].kind, job[r].total, L)
             /\ d + 1 \in DOMAIN L /\ Head(job[r].todo) = L[d + 1]
             /\ \A e \in 1 .. d : Opposite(L[e].verb) \notin job[r].others =>
                   InEffect(L[e], docs, redis, mini)
      BY <2>1, DoneSoFar
    <2>3. Lookups(L)
      BY <2>2 DEF Program, DeletesAll
    <2>4. PICK e \in 1 .. (d + 1) - 1 : L[e] = [L[d + 1] EXCEPT !.verb = "set"]
      BY <2>2, <2>3 DEF Lookups
    <2>5. L[d + 1] \in Calls
      BY <2>2, LenProperties, ElementOfSeq
    <2>6. /\ L[e].verb = "set" /\ L[e].store = Head(job[r].todo).store
          /\ L[e].keys = Head(job[r].todo).keys
      BY <2>2, <2>4, <2>5 DEF Calls
    <2>7. InEffect(L[e], docs, redis, mini)
      BY <2>2, <2>6 DEF Opposite
    <2> QED BY <2>6, <2>7 DEF InEffect, HeldBy, Holds
  <1> QED BY AlwaysIInv, <1>1, PTL

\* A cleanup that comes to its end has deleted every key everywhere, whatever was
\* there, and they stay away unless somebody has written.
THEOREM CleanupComplete == Spec => []CleanupIsComplete
  <1>1. IInv => CleanupIsComplete
    <2> SUFFICES ASSUME IInv, NEW r \in Requests, job[r].kind = "cleanup",
                        job[r].todo = <<>>, "set" \notin job[r].others,
                        NEW i \in 1 .. job[r].total, NEW s \in {"mongo", "redis", "mini"}
                 PROVE  ~Holds(s, i)
      BY DEF CleanupIsComplete
    <2>1. Running(r) /\ s \in Stores
      BY DEF Running, Stores
    <2>2. PICK L \in Seq(Calls) :
             /\ Program("cleanup", job[r].total, L)
             /\ \A e \in 1 .. Len(L) : Opposite(L[e].verb) \notin job[r].others =>
                   InEffect(L[e], docs, redis, mini)
      BY <2>1, DoneSoFar
    <2>3. PICK e \in DOMAIN L : L[e].store = s /\ i \in L[e].keys /\ L[e].verb = "del"
      BY <2>1, <2>2 DEF Program, DeletesAll
    <2>4. e \in 1 .. Len(L)
      BY LenProperties
    <2>5. InEffect(L[e], docs, redis, mini)
      BY <2>2, <2>3, <2>4 DEF Opposite
    <2> QED BY <2>3, <2>5 DEF InEffect, HeldBy, Holds
  <1> QED BY AlwaysIInv, <1>1, PTL

\* A benchmark that comes to its end leaves all of its keys in all three stores
\* unless somebody has deleted.
THEOREM StoresAlike == Spec => []StoresCompared
  <1>1. IInv => StoresCompared
    <2> SUFFICES ASSUME IInv, NEW r \in Requests, job[r].kind = "benchmark",
                        job[r].todo = <<>>, "del" \notin job[r].others,
                        NEW i \in 1 .. job[r].total, NEW s \in {"mongo", "redis", "mini"}
                 PROVE  Holds(s, i)
      BY DEF StoresCompared
    <2>1. Running(r) /\ s \in Stores
      BY DEF Running, Stores
    <2>2. PICK L \in Seq(Calls) :
             /\ Program("benchmark", job[r].total, L)
             /\ \A e \in 1 .. Len(L) : Opposite(L[e].verb) \notin job[r].others =>
                   InEffect(L[e], docs, redis, mini)
      BY <2>1, DoneSoFar
    <2>3. PICK e \in DOMAIN L : L[e] = Call(s, "set", {i})
      BY <2>1, <2>2 DEF Program, SetsAll
    <2>4. L[e].verb = "set" /\ L[e].store = s /\ i \in L[e].keys /\ e \in 1 .. Len(L)
      BY <2>3, LenProperties DEF Call
    <2>5. InEffect(L[e], docs, redis, mini)
      BY <2>2, <2>4 DEF Opposite
    <2> QED BY <2>4, <2>5 DEF InEffect, HeldBy, Holds
  <1> QED BY AlwaysIInv, <1>1, PTL

=============================================================================
