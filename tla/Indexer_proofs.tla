--------------------------- MODULE Indexer_proofs ---------------------------
(***************************************************************************)
(* The coordinator, for any channels, feeds, queue capacity and bounds.    *)
(* Of the observations only the places matter: the layout is the function  *)
(* from places to the lines that stand there, and a step of the system     *)
(* moves at most one line's head, or appends to a line, or clears one.     *)
(***************************************************************************)
EXTENDS Indexer, SequenceTheorems, FiniteSetTheorems, TLAPS

-----------------------------------------------------------------------------
(* Layouts.                                                                *)

Places(n) == 0 .. n
Layouts(n) == [Places(n) -> Seq(Message)]

Carried(L, f) ==
  UNION {{L[w][i].id : i \in {j \in DOMAIN L[w] : L[w][j].feed = f}} : w \in DOMAIN L}

(* No observation stands in two places. *)
OnePlace(L) ==
  \A v, w \in DOMAIN L :
    \A i \in DOMAIN L[v], j \in DOMAIN L[w] :
      L[v][i].id = L[w][j].id => v = w /\ i = j

(* Every line ascends, and what a feed worker has comes before what the    *)
(* coordinator has for the same feed.                                      *)
Ascending(L) ==
  /\ \A w \in DOMAIN L : \A i, j \in DOMAIN L[w] : i < j => L[w][i].id < L[w][j].id
  /\ \A w \in DOMAIN L \ {0} : \A i \in DOMAIN L[w], j \in DOMAIN L[0] :
       L[w][i].feed = L[0][j].feed => L[w][i].id < L[0][j].id

LEMMA SameElements ==
  ASSUME NEW A, NEW B, \A x : x \in A <=> x \in B
  PROVE  A = B
  OBVIOUS

LEMMA CarriedAt ==
  ASSUME NEW L, NEW f, NEW x
  PROVE  x \in Carried(L, f) <=>
           \E w \in DOMAIN L : \E i \in DOMAIN L[w] : L[w][i].feed = f /\ x = L[w][i].id
BY DEF Carried

LEMMA CarriedApart ==
  ASSUME NEW L, OnePlace(L), NEW f, NEW g, NEW x \in Carried(L, f), x \in Carried(L, g)
  PROVE  f = g
<1>1. PICK v \in DOMAIN L : \E i \in DOMAIN L[v] : L[v][i].feed = f /\ x = L[v][i].id
  BY CarriedAt
<1>2. PICK w \in DOMAIN L : \E i \in DOMAIN L[w] : L[w][i].feed = g /\ x = L[w][i].id
  BY CarriedAt
<1>3. PICK i \in DOMAIN L[v] : L[v][i].feed = f /\ x = L[v][i].id
  BY <1>1
<1>4. PICK j \in DOMAIN L[w] : L[w][j].feed = g /\ x = L[w][j].id
  BY <1>2
<1>5. v = w /\ i = j
  <2>1. L[v][i].id = L[w][j].id
    BY <1>3, <1>4
  <2> QED  BY <2>1 DEF OnePlace
<1> QED  BY <1>3, <1>4, <1>5

(* The tail of a line, place by place. *)
LEMMA TailAt ==
  ASSUME NEW s \in Seq(Message), s # <<>>
  PROVE  /\ Len(s) \in Nat \ {0} /\ DOMAIN s = 1 .. Len(s)
         /\ Tail(s) \in Seq(Message) /\ DOMAIN Tail(s) = 1 .. Len(s) - 1
         /\ \A i \in 1 .. Len(s) - 1 : Tail(s)[i] = s[i + 1]
         /\ Head(s) = s[1] /\ s[1] \in Message
<1>1. Len(s) \in Nat /\ DOMAIN s = 1 .. Len(s) /\ Len(s) # 0
  BY EmptySeq, LenProperties
<1>2. 1 \in DOMAIN s
  BY <1>1
<1> QED  BY <1>1, <1>2, HeadTailProperties, ElementOfSeq

LEMMA AppendAt ==
  ASSUME NEW s \in Seq(Message), NEW m \in Message
  PROVE  /\ Len(s) \in Nat /\ DOMAIN s = 1 .. Len(s)
         /\ Append(s, m) \in Seq(Message) /\ DOMAIN Append(s, m) = 1 .. Len(s) + 1
         /\ \A i \in 1 .. Len(s) : Append(s, m)[i] = s[i]
         /\ Append(s, m)[Len(s) + 1] = m
  BY AppendProperties, LenProperties

LEMMA LineTyped ==
  ASSUME NEW n \in Nat, NEW L \in Layouts(n), NEW w \in Places(n)
  PROVE  /\ L[w] \in Seq(Message) /\ Len(L[w]) \in Nat /\ DOMAIN L[w] = 1 .. Len(L[w])
         /\ \A i \in DOMAIN L[w] : L[w][i] \in Message /\ L[w][i].id \in Nat /\ L[w][i].feed \in Feed
<1>1. L[w] \in Seq(Message)
  BY DEF Layouts
<1>2. Len(L[w]) \in Nat /\ DOMAIN L[w] = 1 .. Len(L[w]) /\ \A i \in DOMAIN L[w] : L[w][i] \in Message
  BY <1>1, LenProperties, ElementOfSeq
<1> QED  BY <1>1, <1>2 DEF Message

(* The head of a line leaves the system. *)
LEMMA HeadLeaves ==
  ASSUME NEW n \in Nat, NEW L \in Layouts(n), NEW w \in Places(n), L[w] # <<>>,
         OnePlace(L), Ascending(L),
         NEW K \in Layouts(n), K[w] = Tail(L[w]), \A v \in Places(n) \ {w} : K[v] = L[v]
  PROVE  /\ OnePlace(K) /\ Ascending(K)
         /\ \A f : Carried(K, f) = Carried(L, f) \ {Head(L[w]).id}
<1>1. /\ L[w] \in Seq(Message) /\ DOMAIN L = Places(n) /\ DOMAIN K = Places(n)
      /\ K[w] = Tail(L[w]) /\ \A v \in Places(n) : v # w => K[v] = L[v]
  BY DEF Layouts
<1>2. /\ Len(L[w]) \in Nat \ {0} /\ DOMAIN L[w] = 1 .. Len(L[w])
      /\ Tail(L[w]) \in Seq(Message) /\ DOMAIN Tail(L[w]) = 1 .. Len(L[w]) - 1
      /\ \A i \in 1 .. Len(L[w]) - 1 : Tail(L[w])[i] = L[w][i + 1]
      /\ Head(L[w]) = L[w][1]
  BY <1>1, TailAt
(* Where what stands in K stood in L. *)
<1> DEFINE from(v, i) == IF v = w THEN i + 1 ELSE i
<1>4. \A v \in Places(n) : \A i \in DOMAIN K[v] :
        /\ i \in Int /\ from(v, i) \in DOMAIN L[v] /\ K[v][i] = L[v][from(v, i)]
        /\ v = w => from(v, i) # 1
  <2> SUFFICES ASSUME NEW v \in Places(n), NEW i \in DOMAIN K[v]
               PROVE  /\ i \in Int /\ from(v, i) \in DOMAIN L[v] /\ K[v][i] = L[v][from(v, i)]
                      /\ v = w => from(v, i) # 1
    OBVIOUS
  <2>1. CASE v = w
    BY <1>1, <1>2, <2>1
  <2>2. CASE v # w
    BY <1>1, <2>2, LineTyped
  <2> QED  BY <2>1, <2>2
<1>5. OnePlace(K)
  <2> SUFFICES ASSUME NEW u \in Places(n), NEW v \in Places(n),
                      NEW i \in DOMAIN K[u], NEW j \in DOMAIN K[v], K[u][i].id = K[v][j].id
               PROVE  u = v /\ i = j
    BY <1>1 DEF OnePlace
  <2>1. u = v /\ from(u, i) = from(v, j)
    BY <1>1, <1>4 DEF OnePlace
  <2>2. i \in Int /\ j \in Int
    BY <1>4
  <2> QED  BY <2>1, <2>2
<1>6. Ascending(K)
  <2>1. ASSUME NEW v \in Places(n), NEW i \in DOMAIN K[v], NEW j \in DOMAIN K[v], i < j
        PROVE  K[v][i].id < K[v][j].id
    <3>1. i \in Int /\ j \in Int
      BY <1>4
    <3>2. from(v, i) < from(v, j)
      BY <2>1, <3>1
    <3> HIDE DEF from
    <3> QED  BY <1>1, <1>4, <3>2 DEF Ascending
  <2>2. ASSUME NEW v \in Places(n) \ {0}, NEW i \in DOMAIN K[v], NEW j \in DOMAIN K[0],
               K[v][i].feed = K[0][j].feed
        PROVE  K[v][i].id < K[0][j].id
    <3>1. 0 \in Places(n)
      BY DEF Places
    <3> HIDE DEF from
    <3>2. /\ from(v, i) \in DOMAIN L[v] /\ K[v][i] = L[v][from(v, i)]
          /\ from(0, j) \in DOMAIN L[0] /\ K[0][j] = L[0][from(0, j)]
      BY <1>4, <3>1
    <3> QED  BY <1>1, <2>2, <3>2 DEF Ascending
  <2> QED
    BY <1>1, <2>1, <2>2 DEF Ascending
<1>7. ASSUME NEW f, NEW x PROVE x \in Carried(K, f) <=> x \in Carried(L, f) \ {Head(L[w]).id}
  <2>1. ASSUME x \in Carried(K, f) PROVE x \in Carried(L, f) \ {Head(L[w]).id}
    <3>1. PICK v \in Places(n) : \E i \in DOMAIN K[v] : K[v][i].feed = f /\ x = K[v][i].id
      <4>1. \E v \in DOMAIN K : \E i \in DOMAIN K[v] : K[v][i].feed = f /\ x = K[v][i].id
        BY <2>1, CarriedAt
      <4> QED  BY <1>1, <4>1
    <3> PICK i \in DOMAIN K[v] : K[v][i].feed = f /\ x = K[v][i].id
      BY <3>1
    <3>2. from(v, i) \in DOMAIN L[v] /\ K[v][i] = L[v][from(v, i)] /\ (v = w => from(v, i) # 1)
      BY <1>4
    <3>3. x \in Carried(L, f)
      BY <1>1, <3>1, <3>2, CarriedAt
    <3>4. x # L[w][1].id
      <4>1. 1 \in DOMAIN L[w]
        BY <1>2
      <4> HIDE DEF from
      <4> QED  BY <1>1, <3>1, <3>2, <4>1 DEF OnePlace
    <3> QED  BY <1>2, <3>3, <3>4
  <2>2. ASSUME x \in Carried(L, f), x # Head(L[w]).id PROVE x \in Carried(K, f)
    <3>1. PICK v \in Places(n) : \E j \in DOMAIN L[v] : L[v][j].feed = f /\ x = L[v][j].id
      BY <1>1, <2>2, CarriedAt
    <3> PICK j \in DOMAIN L[v] : L[v][j].feed = f /\ x = L[v][j].id
      BY <3>1
    <3>2. CASE v # w
      BY <1>1, <3>1, <3>2, CarriedAt
    <3>3. CASE v = w
      <4>1. j \in 1 .. Len(L[w]) /\ j # 1
        BY <1>2, <2>2, <3>1, <3>3
      <4>2. j - 1 \in DOMAIN K[w] /\ K[w][j - 1] = L[w][j]
        BY <1>1, <1>2, <4>1
      <4>3. w \in DOMAIN K /\ K[w][j - 1].feed = f /\ x = K[w][j - 1].id
        BY <1>1, <3>1, <3>3, <4>2
      <4> QED  BY <4>2, <4>3, CarriedAt
    <3> QED  BY <3>2, <3>3
  <2> QED  BY <2>1, <2>2
<1> QED  BY <1>5, <1>6, <1>7

(* A line is cleared. *)
LEMMA LineLeaves ==
  ASSUME NEW n \in Nat, NEW L \in Layouts(n), NEW w \in Places(n),
         OnePlace(L), Ascending(L),
         NEW K \in Layouts(n), K[w] = <<>>, \A v \in Places(n) \ {w} : K[v] = L[v]
  PROVE  /\ OnePlace(K) /\ Ascending(K)
         /\ \A f : Carried(K, f) = Carried(L, f) \ Ids(L[w])
<1>1. DOMAIN L = Places(n) /\ DOMAIN K = Places(n) /\ DOMAIN K[w] = {}
  BY DEF Layouts
<1>2. \A v \in Places(n) : \A i \in DOMAIN K[v] : v # w /\ i \in DOMAIN L[v] /\ K[v][i] = L[v][i]
  BY <1>1
<1>3. OnePlace(K)
  BY <1>1, <1>2 DEF OnePlace
<1>4. Ascending(K)
  <2>1. 0 \in Places(n)
    BY DEF Places
  <2> QED  BY <1>1, <1>2, <2>1 DEF Ascending
<1>5. ASSUME NEW f, NEW x PROVE x \in Carried(K, f) <=> x \in Carried(L, f) \ Ids(L[w])
  <2>1. x \in Ids(L[w]) <=> \E i \in DOMAIN L[w] : x = L[w][i].id
    BY DEF Ids
  <2>2. ASSUME x \in Carried(K, f) PROVE x \in Carried(L, f) \ Ids(L[w])
    <3>1. PICK v \in Places(n) : \E i \in DOMAIN K[v] : K[v][i].feed = f /\ x = K[v][i].id
      BY <1>1, <2>2, CarriedAt
    <3>2. PICK i \in DOMAIN K[v] : K[v][i].feed = f /\ x = K[v][i].id
      BY <3>1
    <3>3. v # w /\ i \in DOMAIN L[v] /\ K[v][i] = L[v][i]
      BY <1>2
    <3>4. x \in Carried(L, f)
      BY <1>1, <3>2, <3>3, CarriedAt
    <3> QED  BY <1>1, <2>1, <3>2, <3>3, <3>4 DEF OnePlace
  <2>3. ASSUME x \in Carried(L, f), x \notin Ids(L[w]) PROVE x \in Carried(K, f)
    <3>1. PICK v \in Places(n) : \E i \in DOMAIN L[v] : L[v][i].feed = f /\ x = L[v][i].id
      BY <1>1, <2>3, CarriedAt
    <3>2. v # w
      BY <2>1, <2>3, <3>1
    <3> QED  BY <1>1, <3>1, <3>2, CarriedAt
  <2> QED  BY <2>2, <2>3
<1> QED  BY <1>3, <1>4, <1>5

(* A new observation joins the coordinator's line. *)
LEMMA NewestJoins ==
  ASSUME NEW n \in Nat, NEW L \in Layouts(n), NEW m \in Message,
         OnePlace(L), Ascending(L),
         \A w \in Places(n) : \A i \in DOMAIN L[w] : L[w][i].id < m.id,
         NEW K \in Layouts(n), K[0] = Append(L[0], m), \A v \in Places(n) \ {0} : K[v] = L[v]
  PROVE  /\ OnePlace(K) /\ Ascending(K)
         /\ \A f : Carried(K, f) = Carried(L, f) \cup (IF f = m.feed THEN {m.id} ELSE {})
<1> DEFINE e == Len(L[0]) + 1
<1>1. /\ DOMAIN L = Places(n) /\ DOMAIN K = Places(n) /\ 0 \in Places(n) /\ L[0] \in Seq(Message)
  BY DEF Layouts, Places
<1>2. /\ e \in Nat /\ DOMAIN K[0] = DOMAIN L[0] \cup {e} /\ e \notin DOMAIN L[0]
      /\ \A i \in DOMAIN L[0] : i \in Nat /\ i < e /\ K[0][i] = L[0][i]
      /\ K[0][e] = m
  BY <1>1, AppendAt
<1>3. \A v \in Places(n) : \A i \in DOMAIN K[v] :
        \/ v = 0 /\ i = e /\ K[v][i] = m
        \/ i \in DOMAIN L[v] /\ K[v][i] = L[v][i] /\ L[v][i].id < m.id /\ L[v][i].id # m.id
  <2>1. m.id \in Nat /\ \A v \in Places(n) : \A i \in DOMAIN L[v] : L[v][i].id \in Nat
    BY LineTyped DEF Message
  <2> QED  BY <1>1, <1>2, <2>1
<1> HIDE DEF e
<1>4. OnePlace(K)
  <2> SUFFICES ASSUME NEW u \in Places(n), NEW v \in Places(n),
                      NEW i \in DOMAIN K[u], NEW j \in DOMAIN K[v], K[u][i].id = K[v][j].id
               PROVE  u = v /\ i = j
    BY <1>1 DEF OnePlace
  <2> QED  BY <1>1, <1>3 DEF OnePlace
<1>5. Ascending(K)
  <2>1. ASSUME NEW v \in Places(n), NEW i \in DOMAIN K[v], NEW j \in DOMAIN K[v], i < j
        PROVE  K[v][i].id < K[v][j].id
    <3>1. CASE v = 0 /\ i = e
      <4>1. j = e \/ j < e
        BY <1>2, <3>1
      <4> QED  BY <1>2, <2>1, <3>1, <4>1
    <3>2. CASE i \in DOMAIN L[v] /\ K[v][i] = L[v][i] /\ L[v][i].id < m.id
      <4>1. CASE v = 0 /\ j = e
        BY <1>2, <3>2, <4>1
      <4>2. CASE j \in DOMAIN L[v] /\ K[v][j] = L[v][j]
        BY <1>1, <2>1, <3>2, <4>2 DEF Ascending
      <4> QED  BY <1>3, <4>1, <4>2
    <3> QED  BY <1>3, <3>1, <3>2
  <2>2. ASSUME NEW v \in Places(n) \ {0}, NEW i \in DOMAIN K[v], NEW j \in DOMAIN K[0],
               K[v][i].feed = K[0][j].feed
        PROVE  K[v][i].id < K[0][j].id
    <3>1. i \in DOMAIN L[v] /\ K[v][i] = L[v][i] /\ L[v][i].id < m.id
      BY <1>3
    <3>2. CASE j = e
      BY <1>2, <3>1, <3>2
    <3>3. CASE j \in DOMAIN L[0] /\ K[0][j] = L[0][j]
      BY <1>1, <2>2, <3>1, <3>3 DEF Ascending
    <3> QED  BY <1>1, <1>3, <3>2, <3>3
  <2> QED  BY <1>1, <2>1, <2>2 DEF Ascending
<1>6. ASSUME NEW f, NEW x
      PROVE  x \in Carried(K, f) <=> x \in Carried(L, f) \/ (f = m.feed /\ x = m.id)
  <2>1. ASSUME x \in Carried(K, f) PROVE x \in Carried(L, f) \/ (f = m.feed /\ x = m.id)
    <3>1. PICK v \in Places(n) : \E i \in DOMAIN K[v] : K[v][i].feed = f /\ x = K[v][i].id
      BY <1>1, <2>1, CarriedAt
    <3>2. PICK i \in DOMAIN K[v] : K[v][i].feed = f /\ x = K[v][i].id
      BY <3>1
    <3>3. CASE K[v][i] = m
      BY <3>2, <3>3
    <3>4. CASE i \in DOMAIN L[v] /\ K[v][i] = L[v][i]
      BY <1>1, <3>2, <3>4, CarriedAt
    <3> QED  BY <1>3, <3>3, <3>4
  <2>2. ASSUME x \in Carried(L, f) PROVE x \in Carried(K, f)
    <3>1. PICK v \in Places(n) : \E i \in DOMAIN L[v] : L[v][i].feed = f /\ x = L[v][i].id
      BY <1>1, <2>2, CarriedAt
    <3>2. PICK i \in DOMAIN L[v] : L[v][i].feed = f /\ x = L[v][i].id
      BY <3>1
    <3>3. i \in DOMAIN K[v] /\ K[v][i] = L[v][i]
      BY <1>2
    <3> QED  BY <1>1, <3>2, <3>3, CarriedAt
  <2>3. ASSUME f = m.feed, x = m.id PROVE x \in Carried(K, f)
    <3>1. e \in DOMAIN K[0] /\ K[0][e].feed = f /\ x = K[0][e].id
      BY <1>2, <2>3
    <3> QED  BY <1>1, <3>1, CarriedAt
  <2> QED  BY <2>1, <2>2, <2>3
<1> QED  BY <1>4, <1>5, <1>6

(* The coordinator's first goes to the end of a worker's line. *)
LEMMA FirstHandedOver ==
  ASSUME NEW n \in Nat, NEW L \in Layouts(n), NEW t \in Places(n) \ {0}, L[0] # <<>>,
         OnePlace(L), Ascending(L),
         \A i \in DOMAIN L[t] : L[t][i].feed = Head(L[0]).feed,
         NEW K \in Layouts(n), K[0] = Tail(L[0]), K[t] = Append(L[t], Head(L[0])),
         \A v \in Places(n) \ {0, t} : K[v] = L[v]
  PROVE  /\ OnePlace(K) /\ Ascending(K)
         /\ \A f : Carried(K, f) = Carried(L, f)
<1> DEFINE e == Len(L[t]) + 1
           h == Head(L[0])
<1>1. /\ DOMAIN L = Places(n) /\ DOMAIN K = Places(n) /\ 0 \in Places(n) /\ t \in Places(n)
      /\ L[0] \in Seq(Message) /\ L[t] \in Seq(Message)
  BY DEF Layouts, Places
<1>2. /\ Len(L[0]) \in Nat \ {0} /\ DOMAIN L[0] = 1 .. Len(L[0]) /\ 1 \in DOMAIN L[0]
      /\ DOMAIN K[0] = 1 .. Len(L[0]) - 1
      /\ \A i \in 1 .. Len(L[0]) - 1 : K[0][i] = L[0][i + 1]
      /\ h = L[0][1] /\ h \in Message
  BY <1>1, TailAt
<1> HIDE DEF h
<1>3. /\ e \in Nat /\ DOMAIN K[t] = DOMAIN L[t] \cup {e} /\ e \notin DOMAIN L[t]
      /\ \A i \in DOMAIN L[t] : i \in Nat /\ i < e /\ K[t][i] = L[t][i]
      /\ K[t][e] = h
  BY <1>1, <1>2, AppendAt DEF h
<1> HIDE DEF e
(* Where what stands in K stood in L. *)
<1> DEFINE place(v, i) == IF v = t /\ i = e THEN 0 ELSE v
           from(v, i) == IF v = 0 THEN i + 1 ELSE IF v = t /\ i = e THEN 1 ELSE i
<1>4. ASSUME NEW v \in Places(n), NEW i \in DOMAIN K[v]
      PROVE  /\ i \in Nat /\ place(v, i) \in Places(n)
             /\ from(v, i) \in DOMAIN L[place(v, i)]
             /\ K[v][i] = L[place(v, i)][from(v, i)]
             /\ v = 0 => from(v, i) > 1
  <2>1. CASE v = 0
    <3>1. i \in 1 .. Len(L[0]) - 1
      BY <1>2, <2>1
    <3>2. i \in Nat /\ i + 1 \in DOMAIN L[0] /\ i + 1 > 1 /\ K[0][i] = L[0][i + 1]
      BY <1>2, <3>1
    <3>3. place(v, i) = 0 /\ from(v, i) = i + 1
      BY <2>1
    <3> HIDE DEF place, from
    <3> QED  BY <1>1, <2>1, <3>2, <3>3
  <2>2. CASE v = t /\ i = e
    BY <1>1, <1>2, <1>3, <2>2
  <2>3. CASE v = t /\ i # e
    BY <1>1, <1>3, <2>3
  <2>4. CASE v # t /\ v # 0
    <3>1. K[v] = L[v]
      BY <2>4
    <3> QED  BY <1>1, <2>4, <3>1, LineTyped
  <2> HIDE DEF place, from
  <2> QED  BY <2>1, <2>2, <2>3, <2>4
<1>5. OnePlace(K)
  <2> SUFFICES ASSUME NEW u \in Places(n), NEW v \in Places(n),
                      NEW i \in DOMAIN K[u], NEW j \in DOMAIN K[v], K[u][i].id = K[v][j].id
               PROVE  u = v /\ i = j
    BY <1>1 DEF OnePlace
  <2>1. place(u, i) = place(v, j) /\ from(u, i) = from(v, j)
    <3> HIDE DEF place, from
    <3> QED  BY <1>1, <1>4 DEF OnePlace
  <2>2. i \in Nat /\ j \in Nat /\ (u = 0 => from(u, i) > 1) /\ (v = 0 => from(v, j) > 1)
    BY <1>4
  <2> QED  BY <2>1, <2>2
<1>6. Ascending(K)
  <2>1. ASSUME NEW v \in Places(n), NEW i \in DOMAIN K[v], NEW j \in DOMAIN K[v], i < j
        PROVE  K[v][i].id < K[v][j].id
    <3>1. i \in Nat /\ j \in Nat
      BY <1>4
    <3>2. CASE v = t /\ j = e
      <4>1. i \in DOMAIN L[t] /\ K[t][i] = L[t][i]
        BY <1>3, <2>1, <3>1, <3>2
      <4>2. L[t][i].id < L[0][1].id
        BY <1>1, <1>2, <4>1 DEF Ascending, h
      <4> QED  BY <1>2, <1>3, <3>2, <4>1, <4>2
    <3>3. CASE v = t /\ j # e
      <4>1. i \in DOMAIN L[t] /\ j \in DOMAIN L[t]
        BY <1>3, <2>1, <3>1, <3>3
      <4> QED  BY <1>1, <1>3, <2>1, <3>3, <4>1 DEF Ascending
    <3>4. CASE v = 0
      <4>1. i + 1 \in DOMAIN L[0] /\ j + 1 \in DOMAIN L[0] /\ i + 1 < j + 1
        <5>1. i \in 1 .. Len(L[0]) - 1 /\ j \in 1 .. Len(L[0]) - 1
          BY <1>2, <3>4
        <5> QED  BY <1>2, <2>1, <5>1
      <4>2. L[0][i + 1].id < L[0][j + 1].id
        BY <1>1, <4>1 DEF Ascending
      <4> QED  BY <1>2, <3>4, <4>2
    <3>5. CASE v # t /\ v # 0
      <4>1. K[v] = L[v]
        BY <3>5
      <4> QED  BY <1>1, <2>1, <4>1 DEF Ascending
    <3> QED  BY <3>2, <3>3, <3>4, <3>5
  <2>2. ASSUME NEW v \in Places(n) \ {0}, NEW i \in DOMAIN K[v], NEW j \in DOMAIN K[0],
               K[v][i].feed = K[0][j].feed
        PROVE  K[v][i].id < K[0][j].id
    <3>1. j \in Nat /\ j + 1 \in DOMAIN L[0] /\ 1 < j + 1 /\ K[0][j] = L[0][j + 1]
      BY <1>2
    <3>2. CASE v = t /\ i = e
      <4>1. L[0][1].id < L[0][j + 1].id
        BY <1>1, <1>2, <3>1 DEF Ascending
      <4> QED  BY <1>2, <1>3, <3>1, <3>2, <4>1
    <3>3. CASE ~(v = t /\ i = e)
      <4>1. i \in DOMAIN L[v] /\ K[v][i] = L[v][i]
        BY <1>3, <3>3
      <4> QED  BY <1>1, <2>2, <3>1, <4>1 DEF Ascending
    <3> QED  BY <3>2, <3>3
  <2> QED  BY <1>1, <2>1, <2>2 DEF Ascending
<1>7. ASSUME NEW f, NEW x PROVE x \in Carried(K, f) <=> x \in Carried(L, f)
  <2>1. ASSUME x \in Carried(K, f) PROVE x \in Carried(L, f)
    <3>1. PICK v \in Places(n) : \E i \in DOMAIN K[v] : K[v][i].feed = f /\ x = K[v][i].id
      BY <1>1, <2>1, CarriedAt
    <3>2. PICK i \in DOMAIN K[v] : K[v][i].feed = f /\ x = K[v][i].id
      BY <3>1
    <3> HIDE DEF place, from
    <3> QED  BY <1>1, <1>4, <3>2, CarriedAt
  <2>2. ASSUME x \in Carried(L, f) PROVE x \in Carried(K, f)
    <3>1. PICK v \in Places(n) : \E i \in DOMAIN L[v] : L[v][i].feed = f /\ x = L[v][i].id
      BY <1>1, <2>2, CarriedAt
    <3>2. PICK i \in DOMAIN L[v] : L[v][i].feed = f /\ x = L[v][i].id
      BY <3>1
    <3>3. CASE v = 0 /\ i = 1
      <4>1. e \in DOMAIN K[t] /\ K[t][e].feed = f /\ x = K[t][e].id
        BY <1>2, <1>3, <3>2, <3>3
      <4> QED  BY <1>1, <4>1, CarriedAt
    <3>4. CASE v = 0 /\ i # 1
      <4>1. i - 1 \in DOMAIN K[0] /\ K[0][i - 1] = L[0][i]
        BY <1>2, <3>4
      <4>2. K[0][i - 1].feed = f /\ x = K[0][i - 1].id
        BY <3>2, <3>4, <4>1
      <4> QED  BY <1>1, <4>1, <4>2, CarriedAt
    <3>5. CASE v # 0
      <4>1. i \in DOMAIN K[v] /\ K[v][i] = L[v][i]
        BY <1>3, <3>5
      <4> QED  BY <1>1, <3>2, <4>1, CarriedAt
    <3> QED  BY <3>3, <3>4, <3>5
  <2> QED  BY <2>1, <2>2
<1>8. ASSUME NEW f PROVE Carried(K, f) = Carried(L, f)
  BY <1>7, SameElements
<1> QED  BY <1>5, <1>6, <1>8

(* Places are added that nothing stands in. *)
LEMMA EmptyPlaces ==
  ASSUME NEW n \in Nat, NEW L \in Layouts(n), OnePlace(L), Ascending(L),
         NEW k \in Nat, n <= k, NEW K \in Layouts(k),
         \A v \in Places(k) : K[v] = IF v \in Places(n) THEN L[v] ELSE <<>>
  PROVE  /\ OnePlace(K) /\ Ascending(K)
         /\ \A f : Carried(K, f) = Carried(L, f)
<1>1. /\ DOMAIN L = Places(n) /\ DOMAIN K = Places(k) /\ Places(n) \subseteq Places(k)
      /\ 0 \in Places(n)
  BY DEF Layouts, Places
<1>2. \A v \in Places(k) : \A i \in DOMAIN K[v] : v \in Places(n) /\ K[v] = L[v]
  OBVIOUS
<1>3. OnePlace(K)
  BY <1>1, <1>2 DEF OnePlace
<1>4. Ascending(K)
  BY <1>1, <1>2 DEF Ascending
<1>5. ASSUME NEW f, NEW x PROVE x \in Carried(K, f) <=> x \in Carried(L, f)
  <2>1. ASSUME x \in Carried(K, f) PROVE x \in Carried(L, f)
    <3>1. PICK v \in Places(k) : \E i \in DOMAIN K[v] : K[v][i].feed = f /\ x = K[v][i].id
      BY <1>1, <2>1, CarriedAt
    <3> QED  BY <1>1, <1>2, <3>1, CarriedAt
  <2>2. ASSUME x \in Carried(L, f) PROVE x \in Carried(K, f)
    <3>1. PICK v \in Places(n) : \E i \in DOMAIN L[v] : L[v][i].feed = f /\ x = L[v][i].id
      BY <1>1, <2>2, CarriedAt
    <3>2. v \in Places(k) /\ K[v] = L[v]
      BY <1>1
    <3> QED  BY <1>1, <3>1, <3>2, CarriedAt
  <2> QED  BY <2>1, <2>2
<1>6. ASSUME NEW f PROVE Carried(K, f) = Carried(L, f)
  BY <1>5, SameElements
<1> QED  BY <1>3, <1>4, <1>6
-----------------------------------------------------------------------------
(* Deliveries: the queues, the coordinator's hand and the histories.       *)

LinesOf(h, r, ws) == [w \in Places(Len(ws)) |-> IF w = 0 THEN h \o r ELSE ws[w].queue]

Lines == LinesOf(hand, rx, workers)

deliveries == <<rx, feed_workers, workers, forwarding, sent, history>>
members    == <<watches, time_changed, membership, tasks>>

DeliveryTypeOK ==
  /\ rx \in Seq(Message)
  /\ workers \in Seq(FeedWorker)
  /\ DOMAIN feed_workers \subseteq Feed
  /\ feed_workers \in [DOMAIN feed_workers -> DOMAIN workers]
  /\ pc \in {"select", "sending", "retrying"}
  /\ hand \in Seq(Message) /\ Len(hand) = (IF pc = "select" THEN 0 ELSE 1)
  /\ target \in 0 .. Len(workers)
  /\ sent \in Nat
  /\ handled \in [Feed -> Seq(1 .. sent)] /\ lost \subseteq 1 .. sent

(* A feed has one worker that is sent to; no other worker of the feed has  *)
(* anything in its queue, and no worker anything of another feed.  The     *)
(* coordinator gives up on a worker only after its exit.                   *)
Routed ==
  /\ \A f \in DOMAIN feed_workers : workers[feed_workers[f]].feed = f
  /\ \A w \in DOMAIN workers : workers[w].queue # <<>> =>
       /\ workers[w].state # "exited"
       /\ workers[w].feed \in DOMAIN feed_workers
       /\ feed_workers[workers[w].feed] = w
  /\ \A w \in DOMAIN workers : \A i \in DOMAIN workers[w].queue :
       workers[w].queue[i].feed = workers[w].feed
  /\ pc # "select" => /\ hand[1].feed \in DOMAIN feed_workers
                      /\ feed_workers[hand[1].feed] = target
  /\ pc = "retrying" => workers[target].state = "exited"

(* Every observation sent so far is on its way, received or dropped, each  *)
(* one of them only; and none is dropped before a worker exits.            *)
Accounted ==
  /\ InFlight \cup Handled \cup lost = 1 .. sent
  /\ InFlight \cap (Handled \cup lost) = {}
  /\ Handled \cap lost = {}
  /\ lost # {} => \E w \in DOMAIN workers : workers[w].state = "exited"

Placed == OnePlace(Lines) /\ Ascending(Lines)

Safe == Routed /\ Placed /\ Accounted

LEMMA LinesOfTyped ==
  ASSUME NEW h \in Seq(Message), NEW r \in Seq(Message), NEW ws \in Seq(FeedWorker)
  PROVE  /\ Len(ws) \in Nat /\ DOMAIN ws = 1 .. Len(ws) /\ Places(Len(ws)) = {0} \cup DOMAIN ws
         /\ LinesOf(h, r, ws) \in Layouts(Len(ws))
         /\ LinesOf(h, r, ws)[0] = h \o r
         /\ \A w \in DOMAIN ws : /\ LinesOf(h, r, ws)[w] = ws[w].queue
                                 /\ w # 0 /\ w \in Places(Len(ws))
                                 /\ ws[w] \in FeedWorker /\ ws[w].queue \in Seq(Message)
                                 /\ ws[w].feed \in Feed
<1>1. Len(ws) \in Nat /\ DOMAIN ws = 1 .. Len(ws)
  BY LenProperties
<1>2. Places(Len(ws)) = {0} \cup DOMAIN ws /\ \A w \in DOMAIN ws : w # 0
  BY <1>1 DEF Places
<1>3. \A w \in DOMAIN ws : ws[w] \in FeedWorker
  BY ElementOfSeq, <1>1
<1>4. \A w \in DOMAIN ws : ws[w].queue \in Seq(Message) /\ ws[w].feed \in Feed
  BY <1>3 DEF FeedWorker
<1>5. h \o r \in Seq(Message)
  BY ConcatProperties
<1>6. LinesOf(h, r, ws) \in Layouts(Len(ws))
  BY <1>2, <1>4, <1>5 DEF LinesOf, Layouts
<1>7. /\ LinesOf(h, r, ws)[0] = h \o r
      /\ \A w \in DOMAIN ws : LinesOf(h, r, ws)[w] = ws[w].queue
  BY <1>2 DEF LinesOf
<1> QED  BY <1>1, <1>2, <1>3, <1>4, <1>6, <1>7

LEMMA WorkerReplaced ==
  ASSUME NEW ws \in Seq(FeedWorker), NEW w \in DOMAIN ws, NEW r \in FeedWorker
  PROVE  /\ [ws EXCEPT ![w] = r] \in Seq(FeedWorker)
         /\ Len([ws EXCEPT ![w] = r]) = Len(ws) /\ DOMAIN [ws EXCEPT ![w] = r] = DOMAIN ws
         /\ [ws EXCEPT ![w] = r][w] = r
         /\ \A v \in DOMAIN ws : v # w => [ws EXCEPT ![w] = r][v] = ws[v]
<1>1. Len(ws) \in Nat /\ DOMAIN ws = 1 .. Len(ws)
  BY LenProperties
<1> QED  BY <1>1, ExceptSeq

LEMMA WorkerWithQueue ==
  ASSUME NEW r \in FeedWorker, NEW q \in Seq(Message)
  PROVE  /\ [r EXCEPT !.queue = q] \in FeedWorker
         /\ [r EXCEPT !.queue = q].queue = q /\ [r EXCEPT !.queue = q].feed = r.feed
         /\ [r EXCEPT !.queue = q].state = r.state
BY DEF FeedWorker

LEMMA WorkerInState ==
  ASSUME NEW r \in FeedWorker, NEW st \in {"receiving", "publishing", "exited"}
  PROVE  /\ [r EXCEPT !.state = st] \in FeedWorker
         /\ [r EXCEPT !.state = st].queue = r.queue /\ [r EXCEPT !.state = st].feed = r.feed
         /\ [r EXCEPT !.state = st].state = st
BY DEF FeedWorker

LEMMA WorkerExited ==
  ASSUME NEW r \in FeedWorker
  PROVE  /\ [r EXCEPT !.state = "exited", !.queue = <<>>] \in FeedWorker
         /\ [r EXCEPT !.state = "exited", !.queue = <<>>].queue = <<>>
         /\ [r EXCEPT !.state = "exited", !.queue = <<>>].feed = r.feed
         /\ [r EXCEPT !.state = "exited", !.queue = <<>>].state = "exited"
BY EmptySeq DEF FeedWorker

LEMMA WorkerSpawned ==
  ASSUME NEW ws \in Seq(FeedWorker), NEW r \in FeedWorker
  PROVE  /\ Append(ws, r) \in Seq(FeedWorker) /\ Len(Append(ws, r)) = Len(ws) + 1
         /\ Len(ws) \in Nat /\ Len(ws) + 1 \notin DOMAIN ws
         /\ DOMAIN Append(ws, r) = DOMAIN ws \cup {Len(ws) + 1}
         /\ \A w \in DOMAIN ws : Append(ws, r)[w] = ws[w]
         /\ Append(ws, r)[Len(ws) + 1] = r
<1>1. Len(ws) \in Nat /\ DOMAIN ws = 1 .. Len(ws)
  BY LenProperties
<1>2. /\ Append(ws, r) \in Seq(FeedWorker) /\ Len(Append(ws, r)) = Len(ws) + 1
      /\ DOMAIN Append(ws, r) = 1 .. Len(ws) + 1
      /\ \A w \in 1 .. Len(ws) : Append(ws, r)[w] = ws[w]
      /\ Append(ws, r)[Len(ws) + 1] = r
  BY AppendProperties, LenProperties
<1> QED  BY <1>1, <1>2

LEMMA HandShape ==
  ASSUME DeliveryTypeOK
  PROVE  /\ pc = "select" => hand = <<>> /\ hand \o rx = rx
         /\ pc # "select" => /\ hand[1] \in Message /\ hand = <<hand[1]>>
                             /\ hand \o rx # <<>>
                             /\ Head(hand \o rx) = hand[1] /\ Tail(hand \o rx) = rx
<1>1. CASE pc = "select"
  <2>1. hand = <<>>
    BY <1>1, EmptySeq DEF DeliveryTypeOK
  <2> QED  BY <1>1, <2>1, ConcatEmptySeq DEF DeliveryTypeOK
<1>2. CASE pc # "select"
  <2>1. hand \in Seq(Message) /\ Len(hand) = 1 /\ rx \in Seq(Message)
    BY <1>2 DEF DeliveryTypeOK
  <2>2. DOMAIN hand = 1 .. 1
    BY <2>1, LenProperties
  <2>3. hand[1] \in Message
    <3>1. 1 \in 1 .. Len(hand)
      BY <2>1
    <3> QED  BY <2>1, <3>1, ElementOfSeq
  <2>4. hand = <<hand[1]>>
    BY <2>1, <2>2, <2>3
  <2>5. /\ <<hand[1]>> \o rx # <<>>
        /\ Head(<<hand[1]>> \o rx) = hand[1] /\ Tail(<<hand[1]>> \o rx) = rx
    BY <2>1, <2>3, ConcatSimplifications, HeadTailProperties
  <2> QED  BY <1>2, <2>3, <2>4, <2>5
<1> QED  BY <1>1, <1>2

LEMMA TransitIsCarried == \A f : Transit(f) = Carried(Lines, f)
<1>1. DOMAIN Lines = 0 .. Len(workers) /\ \A w \in 0 .. Len(workers) : Lines[w] = Line(w)
  BY DEF Lines, LinesOf, Line, Places
<1> QED  BY <1>1 DEF Transit, Carried

LEMMA InFlightAt ==
  DeliveryTypeOK => \A x : x \in InFlight <=> \E f \in Feed : x \in Transit(f)
<1> SUFFICES ASSUME DeliveryTypeOK
             PROVE  \A x : x \in InFlight <=> \E f \in Feed : x \in Transit(f)
  OBVIOUS
<1>1. /\ DOMAIN Lines = 0 .. Len(workers)
      /\ \A w \in 0 .. Len(workers) : Lines[w] = Line(w)
  BY DEF Lines, LinesOf, Line, Places
<1>2. Len(workers) \in Nat /\ Lines \in Layouts(Len(workers)) /\ Places(Len(workers)) = 0 .. Len(workers)
  BY LinesOfTyped DEF DeliveryTypeOK, Lines, Places
<1>3. \A w \in 0 .. Len(workers) : \A i \in DOMAIN Lines[w] : Lines[w][i].feed \in Feed
  BY <1>2, LineTyped
<1>4. ASSUME NEW x
      PROVE  x \in InFlight <=> \E w \in 0 .. Len(workers) : \E i \in DOMAIN Lines[w] : x = Lines[w][i].id
  BY <1>1 DEF InFlight, Ids
<1> SUFFICES ASSUME NEW x PROVE x \in InFlight <=> \E f \in Feed : x \in Carried(Lines, f)
  BY TransitIsCarried
<1>5. \A f : x \in Carried(Lines, f) <=>
        \E w \in 0 .. Len(workers) : \E i \in DOMAIN Lines[w] : Lines[w][i].feed = f /\ x = Lines[w][i].id
  BY <1>1, CarriedAt
<1> QED  BY <1>3, <1>4, <1>5

(* Of the next state, too. *)
LEMMA TransitNext ==
  /\ \A f : Transit(f)' = Carried(Lines', f)
  /\ DeliveryTypeOK' => \A x : x \in InFlight' <=> \E f \in Feed : x \in Transit(f)'
<1>1. (\A f : Transit(f) = Carried(Lines, f))'
  BY TransitIsCarried, PTL
<1>2. (DeliveryTypeOK => \A x : x \in InFlight <=> \E f \in Feed : x \in Transit(f))'
  BY InFlightAt, PTL
<1> QED  BY <1>1, <1>2

(* What the types say of lines and workers, in one place. *)
Stands ==
  /\ Len(workers) \in Nat /\ DOMAIN workers = 1 .. Len(workers)
  /\ Places(Len(workers)) = {0} \cup DOMAIN workers
  /\ Lines \in Layouts(Len(workers)) /\ Lines[0] = hand \o rx
  /\ \A w \in DOMAIN workers : /\ Lines[w] = workers[w].queue
                               /\ w # 0 /\ w \in Places(Len(workers))
                               /\ workers[w] \in FeedWorker
                               /\ workers[w].queue \in Seq(Message)
                               /\ workers[w].feed \in Feed

LinesTyped == hand \in Seq(Message) /\ rx \in Seq(Message) /\ workers \in Seq(FeedWorker)

LEMMA Standing == LinesTyped => Stands
BY LinesOfTyped DEF LinesTyped, Lines, Stands

LEMMA StandingNext == LinesTyped' => Stands'
BY Standing, PTL

(* The coordinator takes an observation in hand: its line is as it was. *)
LEMMA TakenInHand ==
  ASSUME DeliveryTypeOK, TakeObservation
  PROVE  /\ rx' \in Seq(Message) /\ hand' \in Seq(Message) /\ Len(hand') = 1
         /\ hand' \o rx' = hand \o rx
         /\ Head(rx) \in Message /\ hand'[1] = Head(rx) /\ pc = "select" /\ pc' = "sending"
<1>1. rx \in Seq(Message) /\ rx # <<>> /\ rx' = Tail(rx) /\ hand' = <<Head(rx)>>
  BY DEF TakeObservation, DeliveryTypeOK
<1>2. Tail(rx) \in Seq(Message) /\ Head(rx) \in Message
  BY <1>1, TailAt
<1>3. <<Head(rx)>> \o Tail(rx) = rx
  BY <1>1, <1>2
<1>4. hand \o rx = rx
  BY HandShape DEF TakeObservation
<1> QED  BY <1>1, <1>2, <1>3, <1>4 DEF TakeObservation

(* No worker exits. *)
NoExit ==
  /\ DOMAIN workers \subseteq DOMAIN workers'
  /\ \A w \in DOMAIN workers : workers'[w].feed = workers[w].feed
  /\ \A w \in DOMAIN workers : workers'[w].state = "exited" <=> workers[w].state = "exited"
  /\ \A w \in DOMAIN workers' \ DOMAIN workers : workers'[w].state # "exited"

LEMMA KnownFeedMoves ==
  ASSUME DeliveryTypeOK, Routed, Placed, OnKnownFeed
  PROVE  /\ DeliveryTypeOK' /\ Routed' /\ Placed' /\ NoExit
         /\ \A f : Carried(Lines', f) = Carried(Lines, f)
<1>1. /\ Head(rx).feed \in DOMAIN feed_workers /\ target' = feed_workers[Head(rx).feed]
      /\ UNCHANGED <<feed_workers, workers, sent, handled, lost>>
  BY DEF OnKnownFeed, history
<1>2. /\ rx' \in Seq(Message) /\ hand' \in Seq(Message) /\ Len(hand') = 1
      /\ hand' \o rx' = hand \o rx
      /\ Head(rx) \in Message /\ hand'[1] = Head(rx) /\ pc' = "sending"
  BY TakenInHand DEF OnKnownFeed
<1>3. target' \in DOMAIN workers
  BY <1>1 DEF DeliveryTypeOK
<1>4. DeliveryTypeOK'
  <2>1. target' \in 0 .. Len(workers)
    BY <1>3, Standing DEF DeliveryTypeOK, LinesTyped, Stands
  <2> QED  BY <1>1, <1>2, <2>1 DEF DeliveryTypeOK
<1>5. Routed'
  BY <1>1, <1>2 DEF Routed
<1>6. Lines' = Lines
  BY <1>1, <1>2 DEF Lines, LinesOf
<1> QED  BY <1>1, <1>4, <1>5, <1>6 DEF Placed, NoExit

(* A worker is spawned: a place is added that nothing stands in. *)
LEMMA SpawnMoves ==
  ASSUME DeliveryTypeOK, Placed, NEW f \in Feed, workers' = Spawned(f),
         hand' \in Seq(Message), rx' \in Seq(Message), hand' \o rx' = hand \o rx
  PROVE  /\ workers' \in Seq(FeedWorker) /\ Len(workers') = Len(workers) + 1
         /\ Len(workers') \in DOMAIN workers' /\ Len(workers') \notin DOMAIN workers
         /\ DOMAIN workers' = DOMAIN workers \cup {Len(workers')}
         /\ \A w \in DOMAIN workers : workers'[w] = workers[w]
         /\ workers'[Len(workers')].feed = f /\ workers'[Len(workers')].queue = <<>>
         /\ Placed' /\ NoExit
         /\ \A g : Carried(Lines', g) = Carried(Lines, g)
<1> DEFINE n == Len(workers)
           k == Len(workers')
<1>1. /\ workers' \in Seq(FeedWorker) /\ k = n + 1 /\ k \in Nat
      /\ DOMAIN workers' = DOMAIN workers \cup {k} /\ k \notin DOMAIN workers
      /\ \A w \in DOMAIN workers : workers'[w] = workers[w]
      /\ workers'[k].feed = f /\ workers'[k].queue = <<>> /\ workers'[k].state # "exited"
  <2>1. workers \in Seq(FeedWorker)
    BY DEF DeliveryTypeOK
  <2> DEFINE r == [feed |-> f, state |-> "receiving", queue |-> <<>>]
  <2>2. workers' = Append(workers, r) /\ r.feed = f /\ r.queue = <<>> /\ r.state = "receiving"
    BY DEF Spawned
  <2>3. r \in FeedWorker
    BY DEF FeedWorker
  <2> HIDE DEF r
  <2> QED  BY <2>1, <2>2, <2>3, WorkerSpawned
<1>2. /\ n \in Nat /\ Places(n) = {0} \cup DOMAIN workers
      /\ Lines \in Layouts(n) /\ Lines[0] = hand \o rx
      /\ \A w \in DOMAIN workers : Lines[w] = workers[w].queue
  BY Standing DEF DeliveryTypeOK, LinesTyped, Stands
<1> HIDE DEF n
<1>3. /\ Places(k) = {0} \cup DOMAIN workers' /\ Lines' \in Layouts(k)
      /\ Lines'[0] = hand' \o rx'
      /\ \A w \in DOMAIN workers' : Lines'[w] = workers'[w].queue /\ w # 0
  BY <1>1, StandingNext DEF LinesTyped, Stands
<1>4. \A v \in Places(k) : Lines'[v] = IF v \in Places(n) THEN Lines[v] ELSE <<>>
  <2> HIDE DEF k
  <2> SUFFICES ASSUME NEW v \in Places(k)
               PROVE  Lines'[v] = IF v \in Places(n) THEN Lines[v] ELSE <<>>
    OBVIOUS
  <2>1. CASE v = 0
    BY <1>2, <1>3, <2>1
  <2>2. CASE v \in DOMAIN workers
    BY <1>1, <1>2, <1>3, <2>2
  <2>3. CASE v = k
    BY <1>1, <1>2, <1>3, <2>3
  <2> QED  BY <1>1, <1>3, <2>1, <2>2, <2>3
<1>5. /\ OnePlace(Lines') /\ Ascending(Lines')
      /\ \A g : Carried(Lines', g) = Carried(Lines, g)
  <2> HIDE DEF k
  <2>1. n <= k
    BY <1>1, <1>2
  <2> QED  BY <1>1, <1>2, <1>3, <1>4, <2>1, EmptyPlaces DEF Placed
<1>6. NoExit
  BY <1>1 DEF NoExit
<1> QED  BY <1>1, <1>5, <1>6 DEF Placed, k, n

LEMMA NewFeedMoves ==
  ASSUME DeliveryTypeOK, Routed, Placed, OnNewFeed
  PROVE  /\ DeliveryTypeOK' /\ Routed' /\ Placed' /\ NoExit
         /\ \A f : Carried(Lines', f) = Carried(Lines, f)
<1> DEFINE f == Head(rx).feed
           k == Len(workers')
<1>1. /\ f \notin DOMAIN feed_workers /\ workers' = Spawned(f) /\ target' = k
      /\ feed_workers' = [g \in DOMAIN feed_workers \cup {f} |->
                            IF g = f THEN k ELSE feed_workers[g]]
      /\ UNCHANGED <<sent, handled, lost>>
  BY DEF OnNewFeed, history
<1>2. /\ rx' \in Seq(Message) /\ hand' \in Seq(Message) /\ Len(hand') = 1
      /\ hand' \o rx' = hand \o rx
      /\ Head(rx) \in Message /\ hand'[1].feed = f /\ pc' = "sending"
  BY TakenInHand DEF OnNewFeed
<1>3. f \in Feed
  BY <1>2 DEF Message
<1> HIDE DEF f
<1>4. /\ workers' \in Seq(FeedWorker) /\ k = Len(workers) + 1
      /\ k \in DOMAIN workers' /\ k \notin DOMAIN workers
      /\ DOMAIN workers' = DOMAIN workers \cup {k}
      /\ \A w \in DOMAIN workers : workers'[w] = workers[w]
      /\ workers'[k].feed = f /\ workers'[k].queue = <<>>
      /\ Placed' /\ NoExit
      /\ \A g : Carried(Lines', g) = Carried(Lines, g)
  BY <1>1, <1>2, <1>3, SpawnMoves
<1> HIDE DEF k
<1>5. /\ DOMAIN feed_workers' = DOMAIN feed_workers \cup {f}
      /\ feed_workers'[f] = k
      /\ \A g \in DOMAIN feed_workers : feed_workers'[g] = feed_workers[g]
  BY <1>1
<1>6. DeliveryTypeOK'
  <2>1. target' \in 0 .. Len(workers')
    BY <1>1, <1>4, Standing DEF DeliveryTypeOK, LinesTyped, Stands, k
  <2> QED  BY <1>1, <1>2, <1>3, <1>4, <1>5, <2>1 DEF DeliveryTypeOK
<1>7. Routed'
  <2>1. \A g \in DOMAIN feed_workers' : workers'[feed_workers'[g]].feed = g
    BY <1>4, <1>5 DEF Routed, DeliveryTypeOK
  <2>2. \A w \in DOMAIN workers' : workers'[w].queue # <<>> =>
          /\ workers'[w].state # "exited"
          /\ workers'[w].feed \in DOMAIN feed_workers'
          /\ feed_workers'[workers'[w].feed] = w
    BY <1>4, <1>5 DEF Routed
  <2>3. \A w \in DOMAIN workers' : \A i \in DOMAIN workers'[w].queue :
          workers'[w].queue[i].feed = workers'[w].feed
    <3>1. DOMAIN workers'[k].queue = {}
      BY <1>4
    <3> QED  BY <1>4, <3>1 DEF Routed
  <2> QED  BY <1>1, <1>2, <1>5, <2>1, <2>2, <2>3 DEF Routed
<1> QED  BY <1>4, <1>6, <1>7

LEMMA RespawnMoves ==
  ASSUME DeliveryTypeOK, Routed, Placed, RespawnWorker
  PROVE  /\ DeliveryTypeOK' /\ Routed' /\ Placed' /\ NoExit
         /\ \A f : Carried(Lines', f) = Carried(Lines, f)
<1> DEFINE f == hand[1].feed
           k == Len(workers')
<1>1. /\ pc = "sending" /\ pc' = "retrying" /\ workers[target].state = "exited"
      /\ workers' = Spawned(f) /\ feed_workers' = [feed_workers EXCEPT ![f] = target]
      /\ UNCHANGED <<rx, hand, target, sent, handled, lost>>
  BY DEF RespawnWorker, history
<1>2. /\ f \in Feed /\ f \in DOMAIN feed_workers /\ feed_workers[f] = target
      /\ target \in DOMAIN workers
  BY <1>1, HandShape DEF Message, Routed, DeliveryTypeOK
<1> HIDE DEF f
<1>3. feed_workers' = feed_workers
  BY <1>1, <1>2 DEF DeliveryTypeOK
<1>4. /\ workers' \in Seq(FeedWorker) /\ k = Len(workers) + 1
      /\ k \in DOMAIN workers' /\ k \notin DOMAIN workers
      /\ DOMAIN workers' = DOMAIN workers \cup {k}
      /\ \A w \in DOMAIN workers : workers'[w] = workers[w]
      /\ workers'[k].feed = f /\ workers'[k].queue = <<>>
      /\ Placed' /\ NoExit
      /\ \A g : Carried(Lines', g) = Carried(Lines, g)
  BY <1>1, <1>2, SpawnMoves DEF DeliveryTypeOK
<1>5. DeliveryTypeOK'
  <2>1. target' \in 0 .. Len(workers')
    BY <1>1, <1>4, Standing DEF DeliveryTypeOK, LinesTyped, Stands, k
  <2> HIDE DEF k
  <2> QED  BY <1>1, <1>3, <1>4, <2>1 DEF DeliveryTypeOK
<1> HIDE DEF k
<1>6. Routed'
  <2>1. \A w \in DOMAIN workers' : \A i \in DOMAIN workers'[w].queue :
          workers'[w].queue[i].feed = workers'[w].feed
    <3>1. DOMAIN workers'[k].queue = {}
      BY <1>4
    <3> QED  BY <1>4, <3>1 DEF Routed
  <2>2. \A g \in DOMAIN feed_workers : workers'[feed_workers[g]].feed = g
    BY <1>4 DEF Routed, DeliveryTypeOK
  <2> QED  BY <1>1, <1>2, <1>3, <1>4, <2>1, <2>2 DEF Routed
<1> QED  BY <1>4, <1>5, <1>6

(* A worker's record changes, its feed does not. *)
LEMMA WorkerChanges ==
  ASSUME DeliveryTypeOK, NEW w \in DOMAIN workers, NEW r \in FeedWorker,
         r.feed = workers[w].feed, workers' = [workers EXCEPT ![w] = r]
  PROVE  /\ workers' \in Seq(FeedWorker) /\ Len(workers') = Len(workers)
         /\ DOMAIN workers' = DOMAIN workers
         /\ workers'[w] = r
         /\ \A v \in DOMAIN workers : v # w => workers'[v] = workers[v]
         /\ \A v \in DOMAIN workers : workers'[v].feed = workers[v].feed
<1>1. workers \in Seq(FeedWorker)
  BY DEF DeliveryTypeOK
<1> QED  BY <1>1, WorkerReplaced

(* The coordinator is back at its select!. *)
LEMMA EmptyHand ==
  ASSUME hand' = <<>>, rx' = rx, rx \in Seq(Message)
  PROVE  hand' \in Seq(Message) /\ Len(hand') = 0 /\ rx' \in Seq(Message) /\ hand' \o rx' = rx
BY EmptySeq, ConcatEmptySeq

LEMMA SendMoves ==
  ASSUME DeliveryTypeOK, Routed, Placed, SendToWorker
  PROVE  /\ DeliveryTypeOK' /\ Routed' /\ Placed' /\ NoExit
         /\ \A f : Carried(Lines', f) = Carried(Lines, f)
<1> DEFINE m == hand[1]
           q == Append(workers[target].queue, m)
           r == [workers[target] EXCEPT !.queue = q]
<1>1. /\ pc = "sending" /\ pc' = "select" /\ hand' = <<>> /\ target' = 0
      /\ workers[target].state # "exited" /\ workers' = [workers EXCEPT ![target] = r]
      /\ UNCHANGED <<rx, feed_workers, sent, handled, lost>>
  BY DEF SendToWorker, history
<1>2. /\ m \in Message /\ hand \o rx # <<>> /\ Head(hand \o rx) = m /\ Tail(hand \o rx) = rx
  BY <1>1, HandShape
<1> HIDE DEF m
<1>3. m.feed \in DOMAIN feed_workers /\ feed_workers[m.feed] = target /\ target \in DOMAIN workers
  BY <1>1 DEF m, Routed, DeliveryTypeOK
<1>4. Stands
  BY Standing DEF DeliveryTypeOK, LinesTyped
<1>5. workers[target] \in FeedWorker /\ workers[target].queue \in Seq(Message)
  BY <1>3, <1>4 DEF Stands
<1>6. q \in Seq(Message)
  BY <1>2, <1>5, AppendAt
<1> HIDE DEF q
<1>7. /\ r \in FeedWorker /\ r.queue = q /\ r.feed = workers[target].feed
      /\ r.state = workers[target].state
  BY <1>5, <1>6, WorkerWithQueue
<1> HIDE DEF r
<1>8. /\ workers' \in Seq(FeedWorker) /\ Len(workers') = Len(workers)
      /\ DOMAIN workers' = DOMAIN workers
      /\ workers'[target] = r
      /\ \A v \in DOMAIN workers : v # target => workers'[v] = workers[v]
      /\ \A v \in DOMAIN workers : workers'[v].feed = workers[v].feed
  BY <1>1, <1>3, <1>7, WorkerChanges
<1>9. hand' \in Seq(Message) /\ Len(hand') = 0 /\ rx' \in Seq(Message) /\ hand' \o rx' = rx
  BY <1>1, EmptyHand DEF DeliveryTypeOK
<1>10. Stands'
  BY <1>8, <1>9, StandingNext DEF LinesTyped
<1>11. DeliveryTypeOK'
  <2>1. 0 \in 0 .. Len(workers')
    BY <1>4, <1>8 DEF Stands
  <2> QED  BY <1>1, <1>8, <1>9, <2>1 DEF DeliveryTypeOK
<1>12. Routed'
  <2>1. workers[target].feed = m.feed
    BY <1>3 DEF Routed
  <2>2. \A w \in DOMAIN workers' : \A i \in DOMAIN workers'[w].queue :
          workers'[w].queue[i].feed = workers'[w].feed
    <3>1. \A i \in DOMAIN q : q[i].feed = m.feed
      <4>1. \A i \in DOMAIN workers[target].queue : workers[target].queue[i].feed = m.feed
        BY <1>3, <2>1 DEF Routed
      <4> QED  BY <1>2, <1>5, <4>1, AppendAt DEF q
    <3> QED  BY <1>7, <1>8, <2>1, <3>1 DEF Routed
  <2>3. \A f \in DOMAIN feed_workers' : workers'[feed_workers'[f]].feed = f
    BY <1>1, <1>8 DEF Routed, DeliveryTypeOK
  <2>4. \A w \in DOMAIN workers' : workers'[w].queue # <<>> =>
          /\ workers'[w].state # "exited"
          /\ workers'[w].feed \in DOMAIN feed_workers'
          /\ feed_workers'[workers'[w].feed] = w
    BY <1>1, <1>3, <1>7, <1>8, <2>1 DEF Routed
  <2> QED  BY <1>1, <2>2, <2>3, <2>4 DEF Routed
<1>13. /\ OnePlace(Lines') /\ Ascending(Lines')
       /\ \A f : Carried(Lines', f) = Carried(Lines, f)
  <2>1. /\ Len(workers) \in Nat /\ Lines \in Layouts(Len(workers)) /\ Lines' \in Layouts(Len(workers))
        /\ target \in Places(Len(workers)) \ {0}
        /\ Lines[0] = hand \o rx /\ Lines'[0] = Tail(Lines[0])
    BY <1>2, <1>3, <1>4, <1>8, <1>9, <1>10 DEF Stands
  <2>2. Lines'[target] = Append(Lines[target], Head(Lines[0]))
    BY <1>2, <1>3, <1>4, <1>7, <1>8, <1>10, <2>1 DEF Stands, q
  <2>3. \A v \in Places(Len(workers)) \ {0, target} : Lines'[v] = Lines[v]
    BY <1>4, <1>8, <1>10 DEF Stands
  <2>4. \A i \in DOMAIN Lines[target] : Lines[target][i].feed = Head(Lines[0]).feed
    BY <1>2, <1>3, <1>4, <2>1 DEF Stands, Routed
  <2> QED  BY <1>2, <2>1, <2>2, <2>3, <2>4, FirstHandedOver DEF Placed
<1>14. NoExit
  BY <1>7, <1>8 DEF NoExit
<1> QED  BY <1>11, <1>12, <1>13, <1>14 DEF Placed

(* What is on its way was sent. *)
LEMMA CarriedIsSent ==
  ASSUME DeliveryTypeOK, Accounted, NEW f \in Feed, NEW x \in Carried(Lines, f)
  PROVE  x \in InFlight /\ x \in 1 .. sent
<1>1. x \in InFlight
  BY InFlightAt, TransitIsCarried
<1> QED  BY <1>1 DEF Accounted

LEMMA RetryMoves ==
  ASSUME DeliveryTypeOK, Routed, Placed, Accounted, RetrySend
  PROVE  /\ DeliveryTypeOK' /\ Routed' /\ Placed' /\ NoExit
         /\ hand[1].id \in Carried(Lines, hand[1].feed) /\ hand[1] \in Message
         /\ \A f : Carried(Lines', f) = Carried(Lines, f) \ {hand[1].id}
<1>1. /\ pc = "retrying" /\ pc' = "select" /\ hand' = <<>> /\ target' = 0
      /\ lost' = lost \cup {hand[1].id}
      /\ UNCHANGED <<rx, feed_workers, workers, sent, handled>>
  BY DEF RetrySend
<1>2. /\ hand[1] \in Message /\ hand \o rx # <<>>
      /\ Head(hand \o rx) = hand[1] /\ Tail(hand \o rx) = rx
  BY <1>1, HandShape
<1>3. Stands
  BY Standing DEF DeliveryTypeOK, LinesTyped
<1>4. hand' \in Seq(Message) /\ Len(hand') = 0 /\ rx' \in Seq(Message) /\ hand' \o rx' = rx
  BY <1>1, EmptyHand DEF DeliveryTypeOK
<1>5. Stands'
  BY <1>1, <1>4, StandingNext DEF LinesTyped, DeliveryTypeOK
<1>6. Routed'
  BY <1>1 DEF Routed
<1>7. /\ Len(workers) \in Nat /\ Lines \in Layouts(Len(workers)) /\ Lines' \in Layouts(Len(workers))
      /\ 0 \in Places(Len(workers)) /\ Lines[0] = hand \o rx /\ Lines'[0] = Tail(Lines[0])
      /\ \A v \in Places(Len(workers)) \ {0} : Lines'[v] = Lines[v]
  BY <1>1, <1>2, <1>3, <1>4, <1>5 DEF Stands
<1>8. /\ OnePlace(Lines') /\ Ascending(Lines')
      /\ \A f : Carried(Lines', f) = Carried(Lines, f) \ {hand[1].id}
  <2>1. 0 \in Places(Len(workers)) /\ Lines[0] # <<>> /\ hand[1] = Head(Lines[0])
    BY <1>2, <1>7
  <2>2. OnePlace(Lines) /\ Ascending(Lines) /\ Lines[0] # <<>>
    BY <2>1 DEF Placed
  <2>3. /\ OnePlace(Lines') /\ Ascending(Lines')
        /\ \A f : Carried(Lines', f) = Carried(Lines, f) \ {Head(Lines[0]).id}
    <3>1. PICK w \in Places(Len(workers)) : w = 0
      BY <2>1
    <3>2. /\ Lines[w] # <<>> /\ Lines'[w] = Tail(Lines[w])
          /\ \A v \in Places(Len(workers)) \ {w} : Lines'[v] = Lines[v]
      BY <1>7, <2>2, <3>1
    <3>3. /\ OnePlace(Lines') /\ Ascending(Lines')
          /\ \A f : Carried(Lines', f) = Carried(Lines, f) \ {Head(Lines[w]).id}
      BY <1>7, <2>2, <3>2, HeadLeaves
    <3> QED  BY <3>1, <3>3
  <2> QED  BY <2>1, <2>3
<1>9. hand[1].id \in Carried(Lines, hand[1].feed)
  <2>1. 1 \in DOMAIN Lines[0] /\ Lines[0][1] = hand[1]
    BY <1>2, <1>7, LineTyped, TailAt
  <2>2. 0 \in DOMAIN Lines
    BY <1>7 DEF Layouts
  <2> QED  BY <2>1, <2>2, CarriedAt
<1>10. DeliveryTypeOK'
  <2>1. hand[1].id \in 1 .. sent
    BY <1>2, <1>9, CarriedIsSent DEF Message
  <2>2. 0 \in 0 .. Len(workers)
    BY <1>7
  <2> QED  BY <1>1, <1>4, <2>1, <2>2 DEF DeliveryTypeOK
<1>11. NoExit
  BY <1>1 DEF NoExit
<1> QED  BY <1>2, <1>6, <1>8, <1>9, <1>10, <1>11 DEF Placed

LEMMA DecodedMoves ==
  ASSUME DeliveryTypeOK, Routed, Placed, Accounted, NEW t,
         tasks[t].channel \in Channel, ObservationDecoded(t)
  PROVE  /\ DeliveryTypeOK' /\ Routed' /\ Placed' /\ NoExit
         /\ \E f \in Feed : \A g :
              Carried(Lines', g) = Carried(Lines, g) \cup (IF g = f THEN {sent'} ELSE {})
<1>1. PICK f \in Feed :
        rx' = Append(rx, [id |-> sent', channel |-> tasks[t].channel, feed |-> f])
  BY DEF ObservationDecoded
<1> DEFINE m == [id |-> sent', channel |-> tasks[t].channel, feed |-> f]
<1>2. /\ sent < MaxSends /\ sent' = sent + 1
      /\ UNCHANGED <<feed_workers, workers, pc, hand, target, handled, lost>>
  BY DEF ObservationDecoded, forwarding, history
<1>3. sent \in Nat /\ sent' \in 1 .. MaxSends
  BY <1>2, ConstAssumption DEF DeliveryTypeOK
<1>4. m \in Message /\ m.id = sent' /\ m.feed = f
  BY <1>3 DEF Message
<1>5. rx' = Append(rx, m)
  BY <1>1
<1> HIDE DEF m
<1>6. rx \in Seq(Message) /\ hand \in Seq(Message) /\ rx' \in Seq(Message)
  BY <1>4, <1>5, AppendAt DEF DeliveryTypeOK
<1>7. Stands
  BY Standing DEF DeliveryTypeOK, LinesTyped
<1>8. Stands'
  BY <1>2, <1>6, StandingNext DEF LinesTyped, DeliveryTypeOK
<1>9. hand' \o rx' = Append(hand \o rx, m)
  BY <1>2, <1>4, <1>5, <1>6, ConcatSimplifications
<1>10. DeliveryTypeOK'
  <2>1. 1 .. sent \subseteq 1 .. sent'
    BY <1>2, <1>3
  <2>2. handled' \in [Feed -> Seq(1 .. sent')]
    BY <1>2, <2>1, SeqMonotonic DEF DeliveryTypeOK
  <2> QED  BY <1>2, <1>3, <1>6, <2>1, <2>2 DEF DeliveryTypeOK
<1>11. Routed'
  BY <1>2 DEF Routed
<1>12. /\ OnePlace(Lines') /\ Ascending(Lines')
       /\ \A g : Carried(Lines', g) = Carried(Lines, g) \cup (IF g = f THEN {sent'} ELSE {})
  <2>1. /\ Len(workers) \in Nat /\ Lines \in Layouts(Len(workers)) /\ Lines' \in Layouts(Len(workers))
        /\ Lines'[0] = Append(Lines[0], m)
        /\ \A v \in Places(Len(workers)) \ {0} : Lines'[v] = Lines[v]
    BY <1>2, <1>7, <1>8, <1>9 DEF Stands
  <2>2. ASSUME NEW w \in Places(Len(workers)), NEW i \in DOMAIN Lines[w]
        PROVE  Lines[w][i].id < m.id
    <3>1. Lines[w][i].feed \in Feed /\ w \in DOMAIN Lines
      BY <2>1, LineTyped DEF Layouts
    <3>2. Lines[w][i].id \in Carried(Lines, Lines[w][i].feed)
      BY <3>1, CarriedAt
    <3>3. Lines[w][i].id \in 1 .. sent
      BY <3>1, <3>2, CarriedIsSent
    <3> QED  BY <1>2, <1>3, <1>4, <3>3
  <2>3. OnePlace(Lines) /\ Ascending(Lines)
    BY DEF Placed
  <2>4. /\ OnePlace(Lines') /\ Ascending(Lines')
        /\ \A g : Carried(Lines', g) = Carried(Lines, g) \cup (IF g = m.feed THEN {m.id} ELSE {})
    BY <1>4, <2>1, <2>2, <2>3, NewestJoins
  <2> QED  BY <1>4, <2>4
<1>13. NoExit
  BY <1>2 DEF NoExit
<1> QED  BY <1>10, <1>11, <1>12, <1>13 DEF Placed

(* A worker takes the first of its queue. *)
LEMMA ReceiveMoves ==
  ASSUME DeliveryTypeOK, Routed, Placed, Accounted, NEW w \in DOMAIN workers, WorkerReceives(w)
  PROVE  /\ DeliveryTypeOK' /\ Routed' /\ Placed'
         /\ workers[w].feed \in Feed /\ workers[w].queue # <<>>
         /\ Head(workers[w].queue).id \in Carried(Lines, workers[w].feed)
         /\ Head(workers[w].queue).id \in 1 .. sent
         /\ \A f : Carried(Lines', f) = Carried(Lines, f) \ {Head(workers[w].queue).id}
         /\ NoExit
<1> DEFINE m == Head(workers[w].queue)
           q == Tail(workers[w].queue)
           r == [workers[w] EXCEPT !.queue = q]
<1>1. /\ workers[w].state = "receiving" /\ workers[w].queue # <<>>
      /\ workers' = [workers EXCEPT ![w] = r]
      /\ handled' = [handled EXCEPT ![workers[w].feed] = Append(@, m.id)]
      /\ UNCHANGED <<rx, feed_workers, pc, hand, target, sent, lost>>
  BY DEF WorkerReceives, forwarding
<1>2. Stands
  BY Standing DEF DeliveryTypeOK, LinesTyped
<1>3. workers[w] \in FeedWorker /\ workers[w].queue \in Seq(Message) /\ workers[w].feed \in Feed
  BY <1>2 DEF Stands
<1>4. /\ q \in Seq(Message) /\ m \in Message /\ m = workers[w].queue[1]
      /\ 1 \in DOMAIN workers[w].queue
      /\ \A i \in DOMAIN q : i + 1 \in DOMAIN workers[w].queue /\ q[i] = workers[w].queue[i + 1]
  BY <1>1, <1>3, TailAt
<1> HIDE DEF m, q
<1>5. /\ r \in FeedWorker /\ r.queue = q /\ r.feed = workers[w].feed /\ r.state = workers[w].state
  BY <1>3, <1>4, WorkerWithQueue
<1> HIDE DEF r
<1>6. /\ workers' \in Seq(FeedWorker) /\ Len(workers') = Len(workers)
      /\ DOMAIN workers' = DOMAIN workers
      /\ workers'[w] = r
      /\ \A v \in DOMAIN workers : v # w => workers'[v] = workers[v]
      /\ \A v \in DOMAIN workers : workers'[v].feed = workers[v].feed
  BY <1>1, <1>5, WorkerChanges
<1>7. Stands'
  BY <1>1, <1>6, StandingNext DEF LinesTyped, DeliveryTypeOK
<1>8. m.id \in Carried(Lines, workers[w].feed)
  <2>1. w \in DOMAIN Lines /\ Lines[w] = workers[w].queue
    BY <1>2 DEF Stands, Layouts
  <2>2. m.feed = workers[w].feed
    BY <1>4 DEF Routed
  <2> QED  BY <1>4, <2>1, <2>2, CarriedAt
<1>9. m.id \in 1 .. sent
  BY <1>3, <1>8, CarriedIsSent
<1>10. DeliveryTypeOK'
  <2>1. handled' \in [Feed -> Seq(1 .. sent)]
    <3>1. handled[workers[w].feed] \in Seq(1 .. sent)
      BY <1>3 DEF DeliveryTypeOK
    <3>2. Append(handled[workers[w].feed], m.id) \in Seq(1 .. sent)
      BY <1>9, <3>1, AppendProperties
    <3> QED  BY <1>1, <3>2 DEF DeliveryTypeOK
  <2> QED  BY <1>1, <1>6, <2>1 DEF DeliveryTypeOK
<1>11. Routed'
  <2>1. \A f \in DOMAIN feed_workers' : workers'[feed_workers'[f]].feed = f
    BY <1>1, <1>6 DEF Routed, DeliveryTypeOK
  <2>2. \A v \in DOMAIN workers' : workers'[v].queue # <<>> =>
          /\ workers'[v].state # "exited"
          /\ workers'[v].feed \in DOMAIN feed_workers'
          /\ feed_workers'[workers'[v].feed] = v
    BY <1>1, <1>5, <1>6 DEF Routed
  <2>3. \A v \in DOMAIN workers' : \A i \in DOMAIN workers'[v].queue :
          workers'[v].queue[i].feed = workers'[v].feed
    BY <1>4, <1>5, <1>6 DEF Routed
  <2>4. pc' # "select" => /\ hand'[1].feed \in DOMAIN feed_workers'
                          /\ feed_workers'[hand'[1].feed] = target'
    BY <1>1 DEF Routed
  <2>5. pc' = "retrying" => workers'[target'].state = "exited"
    BY <1>1, <1>5, <1>6 DEF Routed, DeliveryTypeOK
  <2> QED  BY <2>1, <2>2, <2>3, <2>4, <2>5 DEF Routed
<1>12. /\ OnePlace(Lines') /\ Ascending(Lines')
       /\ \A f : Carried(Lines', f) = Carried(Lines, f) \ {m.id}
  <2>1. /\ Len(workers) \in Nat /\ Lines \in Layouts(Len(workers)) /\ Lines' \in Layouts(Len(workers))
        /\ w \in Places(Len(workers)) /\ Lines[w] = workers[w].queue
        /\ Lines[w] # <<>> /\ Lines'[w] = Tail(Lines[w])
    BY <1>1, <1>2, <1>5, <1>6, <1>7 DEF Stands, q
  <2>2. \A v \in Places(Len(workers)) \ {w} : Lines'[v] = Lines[v]
    <3>1. Lines'[0] = Lines[0]
      BY <1>1, <1>2, <1>7 DEF Stands
    <3>2. ASSUME NEW v \in DOMAIN workers, v # w PROVE Lines'[v] = Lines[v]
      BY <1>2, <1>6, <1>7, <3>2 DEF Stands
    <3> QED  BY <1>2, <3>1, <3>2 DEF Stands
  <2>3. OnePlace(Lines) /\ Ascending(Lines)
    BY DEF Placed
  <2>4. /\ OnePlace(Lines') /\ Ascending(Lines')
        /\ \A f : Carried(Lines', f) = Carried(Lines, f) \ {Head(Lines[w]).id}
    BY <2>1, <2>2, <2>3, HeadLeaves
  <2> QED  BY <2>1, <2>4 DEF m
<1>13. NoExit
  BY <1>5, <1>6 DEF NoExit
<1> QED  BY <1>1, <1>3, <1>6, <1>8, <1>9, <1>10, <1>11, <1>12, <1>13 DEF Placed, m

(* A worker's state changes, and its queue stays as it is. *)
LEMMA StateMoves ==
  ASSUME DeliveryTypeOK, Routed, Placed, NEW w \in DOMAIN workers,
         WorkerPublishes(w) \/ PublicationEnds(w)
  PROVE  /\ DeliveryTypeOK' /\ Routed' /\ Placed'
         /\ \A f : Carried(Lines', f) = Carried(Lines, f)
         /\ NoExit
<1>1. PICK st \in {"receiving", "publishing"} : workers' = [workers EXCEPT ![w] = [workers[w] EXCEPT !.state = st]]
  BY DEF WorkerPublishes, PublicationEnds
<1> DEFINE r == [workers[w] EXCEPT !.state = st]
<1>2. /\ workers[w].state # "exited" /\ workers' = [workers EXCEPT ![w] = r]
      /\ UNCHANGED <<rx, feed_workers, pc, hand, target, sent, handled, lost>>
  BY <1>1 DEF WorkerPublishes, PublicationEnds, forwarding, history
<1>3. Stands
  BY Standing DEF DeliveryTypeOK, LinesTyped
<1>4. workers[w] \in FeedWorker
  BY <1>3 DEF Stands
<1>5. /\ r \in FeedWorker /\ r.queue = workers[w].queue /\ r.feed = workers[w].feed
      /\ r.state # "exited"
  <2>1. st \in {"receiving", "publishing", "exited"} /\ st # "exited"
    OBVIOUS
  <2> QED  BY <1>4, <2>1, WorkerInState
<1> HIDE DEF r
<1>6. /\ workers' \in Seq(FeedWorker) /\ Len(workers') = Len(workers)
      /\ DOMAIN workers' = DOMAIN workers
      /\ workers'[w] = r
      /\ \A v \in DOMAIN workers : v # w => workers'[v] = workers[v]
      /\ \A v \in DOMAIN workers : workers'[v].feed = workers[v].feed
  BY <1>2, <1>5, WorkerChanges
<1>7. Stands'
  BY <1>2, <1>6, StandingNext DEF LinesTyped, DeliveryTypeOK
<1>8. /\ \A v \in DOMAIN workers : workers'[v].queue = workers[v].queue
      /\ \A v \in DOMAIN workers : workers'[v].state = "exited" <=> workers[v].state = "exited"
  BY <1>2, <1>5, <1>6
<1>9. DeliveryTypeOK'
  BY <1>2, <1>6 DEF DeliveryTypeOK
<1>10. Routed'
  <2>1. \A f \in DOMAIN feed_workers' : workers'[feed_workers'[f]].feed = f
    BY <1>2, <1>6 DEF Routed, DeliveryTypeOK
  <2>2. \A v \in DOMAIN workers' : workers'[v].queue # <<>> =>
          /\ workers'[v].state # "exited"
          /\ workers'[v].feed \in DOMAIN feed_workers'
          /\ feed_workers'[workers'[v].feed] = v
    BY <1>2, <1>6, <1>8 DEF Routed
  <2>3. \A v \in DOMAIN workers' : \A i \in DOMAIN workers'[v].queue :
          workers'[v].queue[i].feed = workers'[v].feed
    BY <1>6, <1>8 DEF Routed
  <2>4. pc' # "select" => /\ hand'[1].feed \in DOMAIN feed_workers'
                          /\ feed_workers'[hand'[1].feed] = target'
    BY <1>2 DEF Routed
  <2>5. pc' = "retrying" => workers'[target'].state = "exited"
    BY <1>2, <1>8 DEF Routed, DeliveryTypeOK
  <2> QED  BY <2>1, <2>2, <2>3, <2>4, <2>5 DEF Routed
<1>11. Lines' = Lines
  BY <1>2, <1>3, <1>6, <1>8 DEF Lines, LinesOf, Stands
<1> QED  BY <1>6, <1>8, <1>9, <1>10, <1>11 DEF Placed, NoExit

LEMMA ExitMoves ==
  ASSUME DeliveryTypeOK, Routed, Placed, Accounted, NEW w \in DOMAIN workers, WorkerExits(w)
  PROVE  /\ DeliveryTypeOK' /\ Routed' /\ Placed'
         /\ \A f : Carried(Lines', f) = Carried(Lines, f) \ Ids(workers[w].queue)
         /\ Ids(workers[w].queue) \subseteq Carried(Lines, workers[w].feed)
         /\ workers[w].feed \in Feed
         /\ DOMAIN workers' = DOMAIN workers
         /\ \A v \in DOMAIN workers : workers'[v].feed = workers[v].feed
         /\ workers'[w].state = "exited"
         /\ \A v \in DOMAIN workers : v # w => workers'[v].state = workers[v].state
<1> DEFINE r == [workers[w] EXCEPT !.state = "exited", !.queue = <<>>]
<1>1. /\ workers[w].state # "exited" /\ workers' = [workers EXCEPT ![w] = r]
      /\ lost' = lost \cup Ids(workers[w].queue)
      /\ UNCHANGED <<rx, feed_workers, pc, hand, target, sent, handled>>
  BY DEF WorkerExits, forwarding
<1>2. Stands
  BY Standing DEF DeliveryTypeOK, LinesTyped
<1>3. workers[w] \in FeedWorker /\ workers[w].feed \in Feed
  BY <1>2 DEF Stands
<1>4. r \in FeedWorker /\ r.queue = <<>> /\ r.feed = workers[w].feed /\ r.state = "exited"
  BY <1>3, WorkerExited
<1> HIDE DEF r
<1>5. /\ workers' \in Seq(FeedWorker) /\ Len(workers') = Len(workers)
      /\ DOMAIN workers' = DOMAIN workers
      /\ workers'[w] = r
      /\ \A v \in DOMAIN workers : v # w => workers'[v] = workers[v]
      /\ \A v \in DOMAIN workers : workers'[v].feed = workers[v].feed
  BY <1>1, <1>4, WorkerChanges
<1>6. Stands'
  BY <1>1, <1>5, StandingNext DEF LinesTyped, DeliveryTypeOK
<1>7. Ids(workers[w].queue) \subseteq Carried(Lines, workers[w].feed)
  <2>1. w \in DOMAIN Lines /\ Lines[w] = workers[w].queue
    BY <1>2 DEF Stands, Layouts
  <2>2. \A i \in DOMAIN Lines[w] : Lines[w][i].feed = workers[w].feed
    BY <2>1 DEF Routed
  <2>3. \A x \in Ids(workers[w].queue) : \E i \in DOMAIN Lines[w] : x = Lines[w][i].id
    BY <2>1 DEF Ids
  <2> QED  BY <2>1, <2>2, <2>3, CarriedAt
<1>8. DeliveryTypeOK'
  <2>1. Ids(workers[w].queue) \subseteq 1 .. sent
    BY <1>3, <1>7, CarriedIsSent
  <2> QED  BY <1>1, <1>5, <2>1 DEF DeliveryTypeOK
<1>9. Routed'
  <2>1. \A f \in DOMAIN feed_workers' : workers'[feed_workers'[f]].feed = f
    BY <1>1, <1>5 DEF Routed, DeliveryTypeOK
  <2>2. \A v \in DOMAIN workers' : workers'[v].queue # <<>> =>
          /\ workers'[v].state # "exited"
          /\ workers'[v].feed \in DOMAIN feed_workers'
          /\ feed_workers'[workers'[v].feed] = v
    BY <1>1, <1>4, <1>5 DEF Routed
  <2>3. \A v \in DOMAIN workers' : \A i \in DOMAIN workers'[v].queue :
          workers'[v].queue[i].feed = workers'[v].feed
    <3>1. DOMAIN workers'[w].queue = {}
      BY <1>4, <1>5
    <3> QED  BY <1>5, <3>1 DEF Routed
  <2>4. pc' # "select" => /\ hand'[1].feed \in DOMAIN feed_workers'
                          /\ feed_workers'[hand'[1].feed] = target'
    BY <1>1 DEF Routed
  <2>5. pc' = "retrying" => workers'[target'].state = "exited"
    BY <1>1, <1>4, <1>5 DEF Routed, DeliveryTypeOK
  <2> QED  BY <2>1, <2>2, <2>3, <2>4, <2>5 DEF Routed
<1>10. /\ OnePlace(Lines') /\ Ascending(Lines')
       /\ \A f : Carried(Lines', f) = Carried(Lines, f) \ Ids(workers[w].queue)
  <2>1. /\ Len(workers) \in Nat /\ Lines \in Layouts(Len(workers)) /\ Lines' \in Layouts(Len(workers))
        /\ w \in Places(Len(workers)) /\ Lines[w] = workers[w].queue /\ Lines'[w] = <<>>
    BY <1>2, <1>4, <1>5, <1>6 DEF Stands
  <2>2. \A v \in Places(Len(workers)) \ {w} : Lines'[v] = Lines[v]
    <3>1. Lines'[0] = Lines[0]
      BY <1>1, <1>2, <1>6 DEF Stands
    <3>2. ASSUME NEW v \in DOMAIN workers, v # w PROVE Lines'[v] = Lines[v]
      BY <1>2, <1>5, <1>6, <3>2 DEF Stands
    <3> QED  BY <1>2, <3>1, <3>2 DEF Stands
  <2>3. OnePlace(Lines) /\ Ascending(Lines)
    BY DEF Placed
  <2>4. /\ OnePlace(Lines') /\ Ascending(Lines')
        /\ \A f : Carried(Lines', f) = Carried(Lines, f) \ Ids(Lines[w])
    BY <2>1, <2>2, <2>3, LineLeaves
  <2> QED  BY <2>1, <2>4
<1> QED  BY <1>1, <1>3, <1>4, <1>5, <1>7, <1>8, <1>9, <1>10 DEF Placed
-----------------------------------------------------------------------------
(* The books are kept: what goes out of a line is entered as received or   *)
(* as dropped.                                                             *)

LEMMA StillAccounted ==
  ASSUME DeliveryTypeOK, DeliveryTypeOK', Accounted, NEW gone, gone \subseteq InFlight,
         \A f : Carried(Lines', f) = Carried(Lines, f) \ gone,
         \/ Handled' = Handled \cup gone /\ lost' = lost
         \/ Handled' = Handled /\ lost' = lost \cup gone,
         sent' = sent,
         lost' # {} => \E w \in DOMAIN workers' : workers'[w].state = "exited"
  PROVE  Accounted'
<1>1. ASSUME NEW x PROVE x \in InFlight' <=> x \in InFlight \ gone
  <2>1. x \in InFlight' <=> \E f \in Feed : x \in Carried(Lines', f)
    BY TransitNext
  <2>2. x \in InFlight <=> \E f \in Feed : x \in Carried(Lines, f)
    BY InFlightAt, TransitIsCarried
  <2> QED  BY <2>1, <2>2
<1>2. InFlight' = InFlight \ gone
  BY <1>1, SameElements
<1>3. /\ InFlight \cup Handled \cup lost = 1 .. sent
      /\ InFlight \cap (Handled \cup lost) = {} /\ Handled \cap lost = {}
  BY DEF Accounted
<1>4. InFlight' \cup Handled' \cup lost' = 1 .. sent'
  BY <1>2, <1>3
<1>5. InFlight' \cap (Handled' \cup lost') = {} /\ Handled' \cap lost' = {}
  BY <1>2, <1>3
<1> QED  BY <1>4, <1>5 DEF Accounted

(* Steps within the lines. *)
LEMMA NothingEntered ==
  ASSUME DeliveryTypeOK, DeliveryTypeOK', Accounted,
         \A f : Carried(Lines', f) = Carried(Lines, f),
         UNCHANGED <<handled, lost, sent>>, NoExit
  PROVE  Accounted'
<1> DEFINE none == {}
<1>1. /\ Handled' = Handled \cup none /\ lost' = lost /\ none \subseteq InFlight
      /\ \A f : Carried(Lines', f) = Carried(Lines, f) \ none
  BY DEF Handled
<1> HIDE DEF none
<1>2. lost' # {} => \E w \in DOMAIN workers' : workers'[w].state = "exited"
  BY DEF Accounted, NoExit
<1> QED  BY <1>1, <1>2, StillAccounted

LEMMA RangeOfAppend ==
  ASSUME NEW S, NEW s \in Seq(S), NEW e \in S
  PROVE  Range(Append(s, e)) = Range(s) \cup {e}
<1>1. /\ Len(s) \in Nat /\ DOMAIN s = 1 .. Len(s) /\ DOMAIN Append(s, e) = 1 .. Len(s) + 1
      /\ \A i \in 1 .. Len(s) : Append(s, e)[i] = s[i]
      /\ Append(s, e)[Len(s) + 1] = e
  BY AppendProperties, LenProperties
<1>2. DOMAIN Append(s, e) = DOMAIN s \cup {Len(s) + 1}
  BY <1>1
<1>3. ASSUME NEW x PROVE x \in Range(Append(s, e)) <=> x \in Range(s) \/ x = e
  <2>1. x \in Range(Append(s, e)) <=> \E i \in DOMAIN Append(s, e) : x = Append(s, e)[i]
    BY DEF Range
  <2>2. x \in Range(s) <=> \E i \in DOMAIN s : x = s[i]
    BY DEF Range
  <2> QED  BY <1>1, <1>2, <2>1, <2>2
<1> QED  BY <1>3

LEMMA RetryAccounted ==
  ASSUME DeliveryTypeOK, Routed, Placed, Accounted, RetrySend
  PROVE  Accounted'
<1>1. /\ DeliveryTypeOK' /\ hand[1] \in Message
      /\ hand[1].id \in Carried(Lines, hand[1].feed)
      /\ \A f : Carried(Lines', f) = Carried(Lines, f) \ {hand[1].id}
  BY RetryMoves
<1>2. /\ pc = "retrying" /\ lost' = lost \cup {hand[1].id}
      /\ UNCHANGED <<handled, workers, sent, feed_workers>>
  BY DEF RetrySend
<1>3. hand[1].id \in InFlight
  BY <1>1, CarriedIsSent DEF Message
<1>4. Handled' = Handled
  BY <1>2 DEF Handled
<1>5. target \in DOMAIN workers /\ workers[target].state = "exited"
  BY <1>2 DEF Routed, DeliveryTypeOK
<1>6. \E w \in DOMAIN workers' : workers'[w].state = "exited"
  BY <1>2, <1>5
<1> QED  BY <1>1, <1>2, <1>3, <1>4, <1>6, StillAccounted

(* What is handed to a worker. *)
LEMMA ReceivedIs ==
  ASSUME DeliveryTypeOK, NEW f \in Feed, NEW x \in 1 .. sent,
         handled' = [handled EXCEPT ![f] = Append(@, x)]
  PROVE  Handled' = Handled \cup {x}
<1>1. /\ handled[f] \in Seq(1 .. sent) /\ handled'[f] = Append(handled[f], x)
      /\ \A g \in Feed : g # f => handled'[g] = handled[g]
  BY DEF DeliveryTypeOK
<1>2. Range(handled'[f]) = Range(handled[f]) \cup {x}
  <2> DEFINE S == 1 .. sent
  <2>1. handled[f] \in Seq(S) /\ x \in S
    BY <1>1
  <2> HIDE DEF S
  <2> QED  BY <1>1, <2>1, RangeOfAppend
<1>3. ASSUME NEW y PROVE y \in Handled' <=> y \in Handled \/ y = x
  <2>1. y \in Handled' <=> \E g \in Feed : y \in Range(handled'[g])
    BY DEF Handled
  <2>2. y \in Handled <=> \E g \in Feed : y \in Range(handled[g])
    BY DEF Handled
  <2>3. \A g \in Feed : y \in Range(handled'[g]) <=> y \in Range(handled[g]) \/ (g = f /\ y = x)
    BY <1>1, <1>2
  <2> QED  BY <2>1, <2>2, <2>3
<1> QED  BY <1>3

LEMMA ReceiveAccounted ==
  ASSUME DeliveryTypeOK, Routed, Placed, Accounted, NEW w \in DOMAIN workers, WorkerReceives(w)
  PROVE  Accounted'
<1> DEFINE x == Head(workers[w].queue).id
           f == workers[w].feed
<1>1. /\ DeliveryTypeOK' /\ f \in Feed /\ x \in Carried(Lines, f) /\ x \in 1 .. sent
      /\ \A g : Carried(Lines', g) = Carried(Lines, g) \ {x}
      /\ NoExit
  BY ReceiveMoves
<1>2. handled' = [handled EXCEPT ![f] = Append(@, x)] /\ lost' = lost /\ sent' = sent
  BY DEF WorkerReceives
<1> HIDE DEF x, f
<1>3. Handled' = Handled \cup {x}
  BY <1>1, <1>2, ReceivedIs
<1>4. x \in InFlight
  BY <1>1, CarriedIsSent
<1>5. lost' # {} => \E v \in DOMAIN workers' : workers'[v].state = "exited"
  BY <1>1, <1>2 DEF Accounted, NoExit
<1> QED  BY <1>1, <1>2, <1>3, <1>4, <1>5, StillAccounted

LEMMA ExitAccounted ==
  ASSUME DeliveryTypeOK, Routed, Placed, Accounted, NEW w \in DOMAIN workers, WorkerExits(w)
  PROVE  Accounted'
<1> DEFINE gone == Ids(workers[w].queue)
<1>1. /\ DeliveryTypeOK' /\ gone \subseteq Carried(Lines, workers[w].feed)
      /\ workers[w].feed \in Feed /\ DOMAIN workers' = DOMAIN workers
      /\ \A f : Carried(Lines', f) = Carried(Lines, f) \ gone
      /\ workers'[w].state = "exited"
  BY ExitMoves
<1>2. lost' = lost \cup gone /\ sent' = sent /\ handled' = handled
  BY DEF WorkerExits
<1> HIDE DEF gone
<1>3. gone \subseteq InFlight
  BY <1>1, CarriedIsSent
<1>4. Handled' = Handled
  BY <1>2 DEF Handled
<1> QED  BY <1>1, <1>2, <1>3, <1>4, StillAccounted

LEMMA DecodedAccounted ==
  ASSUME DeliveryTypeOK, Routed, Placed, Accounted, NEW t,
         tasks[t].channel \in Channel, ObservationDecoded(t)
  PROVE  Accounted'
<1>1. DeliveryTypeOK'
  BY DecodedMoves
<1>2. PICK f \in Feed : \A g :
        Carried(Lines', g) = Carried(Lines, g) \cup (IF g = f THEN {sent'} ELSE {})
  BY DecodedMoves
<1>3. sent' = sent + 1 /\ sent \in Nat /\ UNCHANGED <<handled, lost, workers>>
  BY DEF ObservationDecoded, history, DeliveryTypeOK
<1>4. ASSUME NEW x PROVE x \in InFlight' <=> x \in InFlight \/ x = sent'
  <2>1. x \in InFlight' <=> \E g \in Feed : x \in Carried(Lines', g)
    BY <1>1, TransitNext
  <2>2. x \in InFlight <=> \E g \in Feed : x \in Carried(Lines, g)
    BY InFlightAt, TransitIsCarried
  <2> QED  BY <1>2, <2>1, <2>2
<1>5. InFlight' = InFlight \cup {sent'}
  BY <1>4, SameElements
<1>6. Handled' = Handled
  BY <1>3 DEF Handled
<1>7. /\ InFlight \cup Handled \cup lost = 1 .. sent
      /\ InFlight \cap (Handled \cup lost) = {} /\ Handled \cap lost = {}
  BY DEF Accounted
<1>8. 1 .. sent' = (1 .. sent) \cup {sent'} /\ sent' \notin 1 .. sent
  BY <1>3
<1>9. InFlight' \cup Handled' \cup lost' = 1 .. sent'
  BY <1>3, <1>5, <1>6, <1>7, <1>8
<1>10. InFlight' \cap (Handled' \cup lost') = {} /\ Handled' \cap lost' = {}
  BY <1>3, <1>5, <1>6, <1>7, <1>8
<1>11. lost' # {} => \E w \in DOMAIN workers' : workers'[w].state = "exited"
  BY <1>3 DEF Accounted
<1> QED  BY <1>9, <1>10, <1>11 DEF Accounted

LEMMA DeliveryInit == Init => DeliveryTypeOK /\ Safe
<1> SUFFICES ASSUME Init PROVE DeliveryTypeOK /\ Safe
  OBVIOUS
<1>1. /\ rx = <<>> /\ workers = <<>> /\ feed_workers = <<>> /\ hand = <<>> /\ pc = "select"
      /\ target = 0 /\ sent = 0 /\ handled = [f \in Feed |-> <<>>] /\ lost = {}
  BY DEF Init
<1>2. \A S : <<>> \in Seq(S) /\ Len(<<>>) = 0
  BY EmptySeq
<1>3. DOMAIN workers = {} /\ DOMAIN feed_workers = {} /\ 1 .. sent = {}
  BY <1>1
<1>4. DeliveryTypeOK
  BY <1>1, <1>2, <1>3 DEF DeliveryTypeOK
<1>5. Routed
  BY <1>1, <1>3 DEF Routed
<1>6. Stands
  BY <1>4, Standing DEF DeliveryTypeOK, LinesTyped
<1>7. DOMAIN Lines = {0} /\ DOMAIN Lines[0] = {}
  <2>1. hand \o rx = <<>>
    BY <1>1, ConcatEmptySeq, EmptySeq
  <2> QED  BY <1>3, <1>6, <2>1 DEF Stands, Layouts
<1>8. Placed
  BY <1>7 DEF Placed, OnePlace, Ascending
<1>9. InFlight = {}
  <2>1. \A f, x : x \notin Carried(Lines, f)
    BY <1>7, CarriedAt
  <2>2. \A x : x \notin InFlight
    BY <1>4, <2>1, InFlightAt, TransitIsCarried
  <2> QED  BY <2>2
<1>10. Handled = {}
  BY <1>1 DEF Handled, Range
<1>11. Accounted
  BY <1>1, <1>3, <1>9, <1>10 DEF Accounted
<1> QED  BY <1>4, <1>5, <1>8, <1>11 DEF Safe

LEMMA CoordinatorDelivers ==
  ASSUME DeliveryTypeOK, Safe,
         OnObservation \/ SendToWorker \/ RespawnWorker \/ RetrySend
  PROVE  DeliveryTypeOK' /\ Safe'
<1> USE DEF Safe
<1>1. CASE OnKnownFeed
  <2>1. UNCHANGED <<handled, lost, sent>>
    BY <1>1 DEF OnKnownFeed, history
  <2> QED  BY <1>1, <2>1, KnownFeedMoves, NothingEntered
<1>2. CASE OnNewFeed
  <2>1. UNCHANGED <<handled, lost, sent>>
    BY <1>2 DEF OnNewFeed, history
  <2> QED  BY <1>2, <2>1, NewFeedMoves, NothingEntered
<1>3. CASE SendToWorker
  <2>1. UNCHANGED <<handled, lost, sent>>
    BY <1>3 DEF SendToWorker, history
  <2> QED  BY <1>3, <2>1, SendMoves, NothingEntered
<1>4. CASE RespawnWorker
  <2>1. UNCHANGED <<handled, lost, sent>>
    BY <1>4 DEF RespawnWorker, history
  <2> QED  BY <1>4, <2>1, RespawnMoves, NothingEntered
<1>5. CASE RetrySend
  BY <1>5, RetryMoves, RetryAccounted
<1> QED  BY <1>1, <1>2, <1>3, <1>4, <1>5 DEF OnObservation

LEMMA WorkersDeliver ==
  ASSUME DeliveryTypeOK, Safe, NEW w \in DOMAIN workers, FeedWorkerStep(w)
  PROVE  DeliveryTypeOK' /\ Safe'
<1> USE DEF Safe
<1>1. CASE WorkerReceives(w)
  BY <1>1, ReceiveMoves, ReceiveAccounted
<1>2. CASE WorkerPublishes(w) \/ PublicationEnds(w)
  <2>1. UNCHANGED <<handled, lost, sent>>
    BY <1>2 DEF WorkerPublishes, PublicationEnds, history
  <2> QED  BY <1>2, <2>1, StateMoves, NothingEntered
<1>3. CASE WorkerExits(w)
  BY <1>3, ExitMoves, ExitAccounted
<1> QED  BY <1>1, <1>2, <1>3 DEF FeedWorkerStep

LEMMA DeliveriesUntouched ==
  ASSUME DeliveryTypeOK, Safe, UNCHANGED deliveries
  PROVE  DeliveryTypeOK' /\ Safe'
<1>1. /\ UNCHANGED <<rx, feed_workers, workers, pc, hand, target, sent, handled, lost>>
  BY DEF deliveries, forwarding, history
<1>2. DeliveryTypeOK' /\ Routed'
  BY <1>1 DEF DeliveryTypeOK, Routed, Safe
<1>3. Lines' = Lines
  BY <1>1 DEF Lines, LinesOf
<1>4. NoExit
  BY <1>1 DEF NoExit
<1> QED  BY <1>1, <1>2, <1>3, <1>4, NothingEntered DEF Safe, Placed

LEMMA DeliveryStep ==
  ASSUME DeliveryTypeOK, Safe, tasks \in Seq(Task), [Next]_vars
  PROVE  DeliveryTypeOK' /\ Safe'
<1>1. CASE OnObservation \/ SendToWorker \/ RespawnWorker \/ RetrySend
  BY <1>1, CoordinatorDelivers
<1>2. CASE \E w \in DOMAIN workers : FeedWorkerStep(w)
  BY <1>2, WorkersDeliver
<1>3. CASE \E t \in DOMAIN tasks : ObservationDecoded(t)
  <2>1. PICK t \in DOMAIN tasks : ObservationDecoded(t)
    BY <1>3
  <2>2. tasks[t] \in Task
    BY LenProperties, ElementOfSeq
  <2>3. tasks[t].channel \in Channel
    BY <2>2 DEF Task
  <2> QED  BY <2>1, <2>3, DecodedMoves, DecodedAccounted DEF Safe
<1>4. CASE UNCHANGED deliveries
  BY <1>4, DeliveriesUntouched
<1>5. ASSUME NEW t \in DOMAIN tasks, Connect(t) \/ StreamEnds(t) \/ AbortTakesEffect(t)
      PROVE  UNCHANGED deliveries
  BY <1>5 DEF Connect, StreamEnds, AbortTakesEffect, deliveries
<1>6. OnTick \/ TimePoll \/ DiscoverChannels \/ UNCHANGED vars => UNCHANGED deliveries
  BY DEF OnTick, TimePoll, DiscoverChannels, vars, deliveries
<1> QED  BY <1>1, <1>2, <1>3, <1>4, <1>5, <1>6 DEF Next, Coordinator, ChannelWorker
-----------------------------------------------------------------------------
(* The relay.                                                              *)

Pending == [f \in Feed |-> Transit(f)]

Broken == {workers[w].feed : w \in {v \in DOMAIN workers : workers[v].state = "exited"}}

LEMMA PendingIs ==
  /\ Pending = [f \in Feed |-> Carried(Lines, f)]
  /\ Pending' = [f \in Feed |-> Carried(Lines', f)]
BY TransitIsCarried, TransitNext DEF Pending

LEMMA BrokenStays == NoExit => Broken' = Broken
<1> SUFFICES ASSUME NoExit PROVE Broken' = Broken
  OBVIOUS
<1>1. ASSUME NEW f PROVE f \in Broken' <=> f \in Broken
  <2>1. f \in Broken' <=>
          \E w \in DOMAIN workers' : workers'[w].state = "exited" /\ workers'[w].feed = f
    BY DEF Broken
  <2>2. f \in Broken <=>
          \E w \in DOMAIN workers : workers[w].state = "exited" /\ workers[w].feed = f
    BY DEF Broken
  <2> QED  BY <2>1, <2>2 DEF NoExit
<1> QED  BY <1>1, SameElements

LEMMA RelaySame ==
  ASSUME \A f : Carried(Lines', f) = Carried(Lines, f),
         UNCHANGED <<handled, sent>>, NoExit
  PROVE  UNCHANGED Relay!vars
<1>1. Pending' = Pending /\ Broken' = Broken
  BY PendingIs, BrokenStays
<1> QED  BY <1>1 DEF Relay!vars, Pending, Broken

LEMMA RelayAccepts ==
  ASSUME DeliveryTypeOK, Safe, NEW t, tasks[t].channel \in Channel, ObservationDecoded(t)
  PROVE  Relay!Next
<1>1. PICK f \in Feed : \A g :
        Carried(Lines', g) = Carried(Lines, g) \cup (IF g = f THEN {sent'} ELSE {})
  BY DecodedMoves DEF Safe
<1>2. sent' = sent + 1 /\ handled' = handled /\ NoExit
  BY DecodedMoves DEF Safe, ObservationDecoded, history
<1>3. Pending' = [Pending EXCEPT ![f] = Pending[f] \cup {sent + 1}]
  <2>1. Carried(Lines', f) = Carried(Lines, f) \cup {sent + 1}
    BY <1>1, <1>2
  <2>2. \A g : g # f => Carried(Lines', g) = Carried(Lines, g)
    BY <1>1
  <2> QED  BY <2>1, <2>2, PendingIs
<1>4. Broken' = Broken
  BY <1>2, BrokenStays
<1>5. Relay!Accept(f)
  BY <1>2, <1>3, <1>4 DEF Relay!Accept, Pending, Broken
<1> QED  BY <1>5 DEF Relay!Next

(* The first of a worker's queue is the oldest of its feed on the way.     *)
LEMMA FirstIsOldest ==
  ASSUME DeliveryTypeOK, Routed, Placed, NEW w \in DOMAIN workers, workers[w].queue # <<>>,
         NEW x \in Carried(Lines, workers[w].feed)
  PROVE  Head(workers[w].queue).id <= x
<1> DEFINE f == workers[w].feed
           q == workers[w].queue
<1>1. Stands
  BY Standing DEF DeliveryTypeOK, LinesTyped
<1>2. /\ q \in Seq(Message) /\ w # 0 /\ w \in DOMAIN Lines /\ Lines[w] = q /\ 0 \in DOMAIN Lines
      /\ DOMAIN Lines = {0} \cup DOMAIN workers
  BY <1>1 DEF Stands, Layouts
<1>3. /\ 1 \in DOMAIN q /\ Head(q) = q[1] /\ q[1].id \in Nat /\ q[1].feed = f
      /\ \A i \in DOMAIN q : i \in Nat /\ (i = 1 \/ 1 < i)
  <2>1. /\ Len(q) \in Nat \ {0} /\ DOMAIN q = 1 .. Len(q) /\ Head(q) = q[1] /\ q[1] \in Message
    BY <1>2, TailAt
  <2>2. 1 \in DOMAIN q
    BY <2>1
  <2>3. q[1].feed = f
    BY <2>2 DEF Routed
  <2> QED  BY <2>1, <2>2, <2>3 DEF Message
<1>4. PICK v \in DOMAIN Lines : \E i \in DOMAIN Lines[v] : Lines[v][i].feed = f /\ x = Lines[v][i].id
  BY CarriedAt
<1>5. PICK i \in DOMAIN Lines[v] : Lines[v][i].feed = f /\ x = Lines[v][i].id
  BY <1>4
<1>6. x \in Nat
  BY <1>1, <1>5, LineTyped DEF Stands, Layouts
<1>7. CASE v = 0
  <2>1. Lines[w][1].feed = Lines[0][i].feed /\ 1 \in DOMAIN Lines[w]
    BY <1>2, <1>3, <1>5, <1>7
  <2>2. Lines[w][1].id < Lines[0][i].id
    BY <1>2, <1>5, <1>7, <2>1 DEF Placed, Ascending
  <2> QED  BY <1>2, <1>3, <1>5, <1>6, <1>7, <2>2
<1>8. CASE v = w
  BY <1>2, <1>3, <1>5, <1>6, <1>8 DEF Placed, Ascending
<1>9. CASE v # 0
  <2>1. v \in DOMAIN workers /\ Lines[v] = workers[v].queue
    BY <1>1, <1>2, <1>9 DEF Stands
  <2>2. workers[v].feed = f
    BY <1>5, <2>1 DEF Routed
  <2>3. workers[v].queue # <<>>
    BY <1>5, <2>1
  <2>4. feed_workers[f] = v /\ feed_workers[f] = w
    BY <2>1, <2>2, <2>3 DEF Routed
  <2> QED  BY <1>8, <2>4
<1> QED  BY <1>7, <1>9

LEMMA RelayDelivers ==
  ASSUME DeliveryTypeOK, Safe, NEW w \in DOMAIN workers, WorkerReceives(w)
  PROVE  Relay!Next
<1> DEFINE o == Head(workers[w].queue).id
           f == workers[w].feed
<1>1. /\ f \in Feed /\ o \in Carried(Lines, f) /\ NoExit
      /\ workers[w].queue # <<>>
      /\ \A g : Carried(Lines', g) = Carried(Lines, g) \ {o}
  BY ReceiveMoves DEF Safe
<1>2. handled' = [handled EXCEPT ![f] = Append(handled[f], o)] /\ sent' = sent
  BY DEF WorkerReceives
<1>3. \A other \in Carried(Lines, f) : o <= other
  BY <1>1, FirstIsOldest DEF Safe
<1> HIDE DEF o, f
<1>4. \A g : g # f => Carried(Lines', g) = Carried(Lines, g)
  <2>1. \A g : o \in Carried(Lines, g) => g = f
    BY <1>1, CarriedApart DEF Safe, Placed
  <2> QED  BY <1>1, <2>1
<1>5. Pending' = [Pending EXCEPT ![f] = Pending[f] \ {o}]
  BY <1>1, <1>4, PendingIs
<1>6. o \in Pending[f] /\ \A other \in Pending[f] : o <= other
  BY <1>1, <1>3, PendingIs
<1>7. Broken' = Broken
  BY <1>1, BrokenStays
<1>8. Relay!Deliver(f)
  BY <1>2, <1>5, <1>6, <1>7 DEF Relay!Deliver, Pending, Broken
<1> QED  BY <1>1, <1>8 DEF Relay!Next

LEMMA RelayBreaks ==
  ASSUME DeliveryTypeOK, Safe, NEW w \in DOMAIN workers, WorkerExits(w)
  PROVE  Relay!Next
<1> DEFINE gone == Ids(workers[w].queue)
<1> PICK f \in Feed : f = workers[w].feed
  BY ExitMoves DEF Safe
<1>1. /\ f = workers[w].feed /\ gone \subseteq Carried(Lines, f)
      /\ \A g : Carried(Lines', g) = Carried(Lines, g) \ gone
      /\ DOMAIN workers' = DOMAIN workers
      /\ \A v \in DOMAIN workers : workers'[v].feed = workers[v].feed
      /\ workers'[w].state = "exited"
      /\ \A v \in DOMAIN workers : v # w => workers'[v].state = workers[v].state
  BY ExitMoves DEF Safe
<1>2. handled' = handled /\ sent' = sent /\ workers[w].state # "exited"
  BY DEF WorkerExits
<1>3. Broken' = Broken \cup {f}
  <2>1. ASSUME NEW g PROVE g \in Broken' <=> g \in Broken \cup {f}
    <3>1. g \in Broken' <=>
            \E v \in DOMAIN workers' : workers'[v].state = "exited" /\ workers'[v].feed = g
      BY DEF Broken
    <3>2. g \in Broken <=>
            \E v \in DOMAIN workers : workers[v].state = "exited" /\ workers[v].feed = g
      BY DEF Broken
    <3> QED  BY <1>1, <1>2, <3>1, <3>2
  <2> QED  BY <2>1, SameElements
<1> HIDE DEF gone
<1>4. \A g : g # f => Carried(Lines', g) = Carried(Lines, g)
  <2>1. \A g : \A o \in gone : o \in Carried(Lines, g) => g = f
    BY <1>1, CarriedApart DEF Safe, Placed
  <2> QED  BY <1>1, <2>1
<1>5. Pending' = [Pending EXCEPT ![f] = Pending[f] \ gone] /\ gone \in SUBSET Pending[f]
  BY <1>1, <1>4, PendingIs
<1>6. Relay!Break(f)
  BY <1>2, <1>3, <1>5 DEF Relay!Break, Relay!Drop, Pending, Broken
<1> QED  BY <1>6 DEF Relay!Next

LEMMA RelayLoses ==
  ASSUME DeliveryTypeOK, Safe, RetrySend
  PROVE  Relay!Next
<1> DEFINE o == hand[1].id
           f == hand[1].feed
<1>1. /\ f \in Feed /\ o \in Carried(Lines, f) /\ NoExit
      /\ \A g : Carried(Lines', g) = Carried(Lines, g) \ {o}
  BY RetryMoves DEF Safe, Message
<1>2. handled' = handled /\ sent' = sent /\ pc = "retrying"
  BY DEF RetrySend
<1>3. f \in Broken
  <2>1. /\ feed_workers[f] = target /\ target \in DOMAIN workers /\ workers[target].feed = f
        /\ workers[target].state = "exited"
    BY <1>2 DEF Safe, Routed, DeliveryTypeOK
  <2> QED  BY <2>1 DEF Broken
<1> HIDE DEF o, f
<1>4. \A g : g # f => Carried(Lines', g) = Carried(Lines, g)
  <2>1. \A g : o \in Carried(Lines, g) => g = f
    BY <1>1, CarriedApart DEF Safe, Placed
  <2> QED  BY <1>1, <2>1
<1>5. Pending' = [Pending EXCEPT ![f] = Pending[f] \ {o}] /\ {o} \in SUBSET Pending[f]
  BY <1>1, <1>4, PendingIs
<1>6. Broken' = Broken
  BY <1>1, BrokenStays
<1>7. Relay!Lose(f)
  BY <1>2, <1>3, <1>5, <1>6 DEF Relay!Lose, Relay!Drop, Pending, Broken
<1> QED  BY <1>1, <1>7 DEF Relay!Next

LEMMA RelayInit == Init => Relay!Init
<1> SUFFICES ASSUME Init PROVE Relay!Init
  OBVIOUS
<1>1. DeliveryTypeOK /\ Safe
  BY DeliveryInit
<1>2. sent = 0 /\ handled = [f \in Feed |-> <<>>] /\ workers = <<>>
  BY DEF Init
<1>3. Broken = {}
  BY <1>2 DEF Broken
<1>4. Pending = [f \in Feed |-> {}]
  <2>1. \A f \in Feed : Transit(f) = {}
    <3>1. \A x : x \notin InFlight
      BY <1>1, <1>2 DEF Safe, Accounted
    <3> QED  BY <1>1, <3>1, InFlightAt
  <2> QED  BY <2>1 DEF Pending
<1> QED  BY <1>2, <1>3, <1>4 DEF Relay!Init, Pending, Broken

LEMMA RelayStep ==
  ASSUME DeliveryTypeOK, Safe, tasks \in Seq(Task), [Next]_vars
  PROVE  [Relay!Next]_(Relay!vars)
<1>1. CASE OnObservation \/ SendToWorker \/ RespawnWorker
  <2>1. UNCHANGED <<handled, sent>>
    BY <1>1 DEF OnObservation, OnKnownFeed, OnNewFeed, SendToWorker, RespawnWorker, history
  <2>2. /\ \A f : Carried(Lines', f) = Carried(Lines, f)
        /\ NoExit
    BY <1>1, KnownFeedMoves, NewFeedMoves, SendMoves, RespawnMoves DEF OnObservation, Safe
  <2> QED  BY <2>1, <2>2, RelaySame
<1>2. CASE RetrySend
  BY <1>2, RelayLoses
<1>3. ASSUME NEW w \in DOMAIN workers, FeedWorkerStep(w)
      PROVE  [Relay!Next]_(Relay!vars)
  <2>1. CASE WorkerPublishes(w) \/ PublicationEnds(w)
    <3>1. UNCHANGED <<handled, sent>>
      BY <2>1 DEF WorkerPublishes, PublicationEnds, history
    <3> QED  BY <2>1, <3>1, StateMoves, RelaySame DEF Safe
  <2> QED  BY <1>3, <2>1, RelayDelivers, RelayBreaks DEF FeedWorkerStep
<1>4. CASE \E t \in DOMAIN tasks : ObservationDecoded(t)
  <2>1. PICK t \in DOMAIN tasks : ObservationDecoded(t)
    BY <1>4
  <2>2. tasks[t] \in Task
    BY LenProperties, ElementOfSeq
  <2>3. tasks[t].channel \in Channel
    BY <2>2 DEF Task
  <2> QED  BY <2>1, <2>3, RelayAccepts
<1>5. CASE UNCHANGED deliveries
  <2>1. UNCHANGED <<rx, workers, hand, handled, sent>>
    BY <1>5 DEF deliveries, forwarding, history
  <2>2. Lines' = Lines /\ NoExit
    BY <2>1 DEF Lines, LinesOf, NoExit
  <2> QED  BY <2>1, <2>2, RelaySame
<1>6. ASSUME NEW t \in DOMAIN tasks, Connect(t) \/ StreamEnds(t) \/ AbortTakesEffect(t)
      PROVE  UNCHANGED deliveries
  BY <1>6 DEF Connect, StreamEnds, AbortTakesEffect, deliveries
<1>7. OnTick \/ TimePoll \/ DiscoverChannels \/ UNCHANGED vars => UNCHANGED deliveries
  BY DEF OnTick, TimePoll, DiscoverChannels, vars, deliveries
<1> QED  BY <1>1, <1>2, <1>3, <1>4, <1>5, <1>6, <1>7 DEF Next, Coordinator, ChannelWorker
-----------------------------------------------------------------------------
(* Membership: the watches, the coordinator's handles and the tasks.       *)

MemberTypeOK ==
  /\ current_slot \in 0 .. MaxSlot /\ last_processed_slot \in 0 .. MaxSlot
  /\ time_changed \in BOOLEAN
  /\ channels \subseteq Channel /\ current_channels \subseteq Channel
  /\ active_workers \in [current_channels -> DOMAIN tasks]
  /\ tasks \in Seq(Task)

(* An order of a finite set names each element once. *)
LEMMA OrderOfSet ==
  ASSUME NEW S, IsFiniteSet(S), NEW order \in SetToSeqs(S)
  PROVE  /\ order \in Seq(S) /\ Len(order) \in Nat /\ DOMAIN order = 1 .. Len(order)
         /\ \A i, j \in DOMAIN order : order[i] = order[j] => i = j
         /\ \A x \in S : \E i \in DOMAIN order : order[i] = x
<1> DEFINE n == Cardinality(S)
<1>1. n \in Nat
  BY FS_CardinalityType
<1>2. /\ order \in [1 .. n -> S]
      /\ \A i, j \in 1 .. n : i # j => order[i] # order[j]
  BY DEF SetToSeqs
<1> HIDE DEF n
<1>3. order \in Seq(S) /\ Len(order) = n
  BY <1>1, <1>2
<1>4. ASSUME NEW x \in S, \A i \in 1 .. n : order[i] # x PROVE FALSE
  <2>1. order \in [1 .. n -> S \ {x}]
    BY <1>2, <1>4
  <2>2. IsFiniteSet(S \ {x}) /\ Cardinality(S \ {x}) = n - 1
    BY FS_RemoveElement DEF n
  <2>3. IsFiniteSet(1 .. n) /\ Cardinality(1 .. n) = n
    BY <1>1, FS_Interval
  <2>4. Cardinality(S \ {x}) < Cardinality(1 .. n)
    BY <1>1, <2>2, <2>3
  <2>5. \E i, j \in 1 .. n : i # j /\ order[i] = order[j]
    BY <2>1, <2>2, <2>3, <2>4, FS_PigeonHole
  <2> QED  BY <1>2, <2>5
<1> QED  BY <1>1, <1>2, <1>3, <1>4

LEMMA NewTasksAt ==
  ASSUME NEW order \in Seq(Channel), NEW ts \in Seq(Task)
  PROVE  /\ ts \o NewTasks(order) \in Seq(Task)
         /\ Len(ts) \in Nat /\ Len(order) \in Nat
         /\ DOMAIN ts = 1 .. Len(ts) /\ DOMAIN order = 1 .. Len(order)
         /\ Len(ts \o NewTasks(order)) = Len(ts) + Len(order)
         /\ DOMAIN (ts \o NewTasks(order)) = 1 .. Len(ts) + Len(order)
         /\ \A t \in DOMAIN ts : (ts \o NewTasks(order))[t] = ts[t]
         /\ \A i \in DOMAIN order : (ts \o NewTasks(order))[Len(ts) + i] =
              [channel |-> order[i], state |-> "connecting", aborted |-> FALSE]
<1> DEFINE ns == NewTasks(order)
<1>1. /\ Len(order) \in Nat /\ DOMAIN order = 1 .. Len(order)
      /\ \A i \in DOMAIN order : order[i] \in Channel
      /\ Len(ts) \in Nat /\ DOMAIN ts = 1 .. Len(ts)
  BY LenProperties, ElementOfSeq
<1>2. \A i \in 1 .. Len(order) :
        [channel |-> order[i], state |-> "connecting", aborted |-> FALSE] \in Task
  BY <1>1 DEF Task
<1>3. /\ ns = [i \in 1 .. Len(order) |->
                 [channel |-> order[i], state |-> "connecting", aborted |-> FALSE]]
  BY <1>1 DEF NewTasks
<1>4. ns \in Seq(Task) /\ Len(ns) = Len(order)
  BY <1>1, <1>2, <1>3
<1>5. \A i \in 1 .. Len(order) : ns[i] =
        [channel |-> order[i], state |-> "connecting", aborted |-> FALSE]
  BY <1>3
<1> HIDE DEF ns
<1>6. /\ ts \o ns \in Seq(Task) /\ Len(ts \o ns) = Len(ts) + Len(order)
      /\ \A t \in 1 .. Len(ts) + Len(order) :
           (ts \o ns)[t] = IF t <= Len(ts) THEN ts[t] ELSE ns[t - Len(ts)]
  <2>1. /\ ts \o ns \in Seq(Task) /\ Len(ts \o ns) = Len(ts) + Len(ns)
        /\ \A t \in 1 .. Len(ts) + Len(ns) :
             (ts \o ns)[t] = IF t <= Len(ts) THEN ts[t] ELSE ns[t - Len(ts)]
    BY <1>4, ConcatProperties
  <2> QED  BY <1>4, <2>1
<1>7. DOMAIN (ts \o ns) = 1 .. Len(ts) + Len(order)
  BY <1>6, LenProperties
<1>8. \A t \in DOMAIN ts : (ts \o ns)[t] = ts[t]
  BY <1>1, <1>6
<1>9. \A i \in DOMAIN order : (ts \o ns)[Len(ts) + i] = ns[i]
  BY <1>1, <1>6
<1> QED  BY <1>1, <1>5, <1>6, <1>7, <1>8, <1>9 DEF ns

(* The tasks are told to stop or stand as they did, and behind them stands *)
(* one for each new channel.                                               *)
LEMMA UpdateKeeps ==
  ASSUME MemberTypeOK, HandlesInStep, UpdateChannels
  PROVE  /\ current_channels' \subseteq Channel
         /\ active_workers' \in [current_channels' -> DOMAIN tasks']
         /\ tasks' \in Seq(Task)
         /\ HandlesInStep'
<1> DEFINE new == channels \ current_channels
           old == current_channels \ channels
           n   == Len(tasks)
           told(t) == \E c \in old : active_workers[c] = t
<1>1. PICK order \in SetToSeqs(new) :
        LET all == tasks \o NewTasks(order)
        IN  /\ tasks' = [t \in DOMAIN all |-> [all[t] EXCEPT !.aborted = all[t].aborted \/ told(t)]]
            /\ active_workers' = [c \in channels |->
                  IF c \in new THEN CHOOSE t \in n + 1 .. Len(all) : all[t].channel = c
                  ELSE active_workers[c]]
  BY DEF UpdateChannels
<1> DEFINE all == tasks \o NewTasks(order)
           k   == Len(order)
<1>2. /\ tasks \in Seq(Task) /\ new \in SUBSET Channel /\ IsFiniteSet(new)
      /\ current_channels' = channels /\ channels \subseteq Channel
  BY FS_Subset, ConstAssumption DEF MemberTypeOK, UpdateChannels
<1>3. /\ order \in Seq(new)
      /\ \A i, j \in DOMAIN order : order[i] = order[j] => i = j
      /\ \A c \in new : \E i \in DOMAIN order : order[i] = c
      /\ \A i \in DOMAIN order : order[i] \in new
  BY <1>2, OrderOfSet, ElementOfSeq
<1>4. /\ all \in Seq(Task) /\ n \in Nat /\ k \in Nat
      /\ DOMAIN tasks = 1 .. n /\ DOMAIN order = 1 .. k /\ Len(all) = n + k /\ DOMAIN all = 1 .. n + k
      /\ \A t \in 1 .. n : all[t] = tasks[t]
      /\ \A i \in 1 .. k : /\ all[n + i].channel = order[i] /\ all[n + i].aborted = FALSE
                           /\ all[n + i].state = "connecting"
  <2>1. order \in Seq(Channel)
    BY <1>2, <1>3, SeqMonotonic
  <2>2. /\ all \in Seq(Task) /\ n \in Nat /\ k \in Nat
        /\ DOMAIN tasks = 1 .. n /\ DOMAIN order = 1 .. k /\ Len(all) = n + k /\ DOMAIN all = 1 .. n + k
        /\ \A t \in DOMAIN tasks : all[t] = tasks[t]
        /\ \A i \in DOMAIN order : all[n + i] =
             [channel |-> order[i], state |-> "connecting", aborted |-> FALSE]
    BY <1>2, <2>1, NewTasksAt
  <2> HIDE DEF all, n, k
  <2>3. ASSUME NEW i \in 1 .. k
        PROVE  /\ all[n + i].channel = order[i] /\ all[n + i].aborted = FALSE
               /\ all[n + i].state = "connecting"
    <3>1. i \in DOMAIN order
      BY <2>2
    <3>2. all[n + i] = [channel |-> order[i], state |-> "connecting", aborted |-> FALSE]
      BY <2>2, <3>1
    <3> QED  BY <3>2
  <2>4. \A t \in 1 .. n : all[t] = tasks[t]
    BY <2>2
  <2> QED  BY <2>2, <2>3, <2>4
<1>5. /\ tasks' = [t \in DOMAIN all |-> [all[t] EXCEPT !.aborted = all[t].aborted \/ told(t)]]
      /\ active_workers' = [c \in channels |->
            IF c \in new THEN CHOOSE t \in n + 1 .. n + k : all[t].channel = c ELSE active_workers[c]]
  BY <1>1, <1>4
<1> HIDE DEF all, n, k, told
<1>6. \A t \in 1 .. n + k : all[t] \in Task
  BY <1>4, ElementOfSeq
<1>7. DOMAIN tasks' = 1 .. n + k
  BY <1>4, <1>5
<1>8. ASSUME NEW t \in 1 .. n + k
      PROVE  /\ tasks'[t] \in Task /\ tasks'[t].channel = all[t].channel
             /\ tasks'[t].state = all[t].state
             /\ tasks'[t].aborted <=> all[t].aborted \/ told(t)
  <2>1. tasks'[t] = [all[t] EXCEPT !.aborted = all[t].aborted \/ told(t)]
    BY <1>4, <1>5
  <2>2. (all[t].aborted \/ told(t)) \in BOOLEAN
    OBVIOUS
  <2> QED  BY <1>6, <2>1, <2>2 DEF Task
<1>9. tasks' \in Seq(Task)
  <2>1. tasks' = [t \in 1 .. n + k |-> tasks'[t]]
    BY <1>4, <1>5
  <2>2. n + k \in Nat
    BY <1>4
  <2> QED  BY <1>8, <2>1, <2>2
(* Behind the old tasks there is one for each new channel. *)
<1>10. \A t \in n + 1 .. n + k :
         all[t].channel \in new /\ ~all[t].aborted /\ all[t].state # "gone"
  <2> SUFFICES ASSUME NEW t \in n + 1 .. n + k
               PROVE  all[t].channel \in new /\ ~all[t].aborted /\ all[t].state # "gone"
    OBVIOUS
  <2>1. PICK i \in 1 .. k : t = n + i
    <3>1. t - n \in 1 .. k /\ t = n + (t - n)
      BY <1>4
    <3> QED  BY <3>1
  <2>2. order[i] \in new
    BY <1>3, <1>4
  <2> QED  BY <1>4, <2>1, <2>2
<1>11. \A t, u \in n + 1 .. n + k : all[t].channel = all[u].channel => t = u
  <2> SUFFICES ASSUME NEW t \in n + 1 .. n + k, NEW u \in n + 1 .. n + k,
                      all[t].channel = all[u].channel
               PROVE  t = u
    OBVIOUS
  <2>1. PICK i \in 1 .. k : t = n + i
    <3>1. t - n \in 1 .. k /\ t = n + (t - n)
      BY <1>4
    <3> QED  BY <3>1
  <2>2. PICK j \in 1 .. k : u = n + j
    <3>1. u - n \in 1 .. k /\ u = n + (u - n)
      BY <1>4
    <3> QED  BY <3>1
  <2>3. order[i] = order[j]
    BY <1>4, <2>1, <2>2
  <2>4. i = j
    BY <1>3, <1>4, <2>3
  <2> QED  BY <2>1, <2>2, <2>4
<1>12. ASSUME NEW c \in new
       PROVE  active_workers'[c] \in n + 1 .. n + k /\ all[active_workers'[c]].channel = c
  <2>1. \E t \in n + 1 .. n + k : all[t].channel = c
    <3>1. PICK i \in 1 .. k : order[i] = c
      BY <1>3, <1>4
    <3>2. n + i \in n + 1 .. n + k /\ all[n + i].channel = c
      BY <1>4, <3>1
    <3> QED  BY <3>2
  <2>2. active_workers'[c] = CHOOSE t \in n + 1 .. n + k : all[t].channel = c
    BY <1>5
  <2> QED  BY <2>1, <2>2
<1>13. ASSUME NEW c \in channels, c \notin new
       PROVE  /\ c \in current_channels /\ active_workers'[c] = active_workers[c]
              /\ active_workers[c] \in 1 .. n
  BY <1>4, <1>5, <1>13 DEF MemberTypeOK
<1>14. active_workers' \in [current_channels' -> DOMAIN tasks']
  <2>1. \A c \in channels : active_workers'[c] \in 1 .. n + k
    BY <1>4, <1>12, <1>13
  <2> QED  BY <1>2, <1>5, <1>7, <2>1
(* Old tasks that go on follow a channel that stays. *)
<1>15. ASSUME NEW t \in 1 .. n, ~tasks'[t].aborted
       PROVE  /\ tasks'[t].channel \in channels \ new
              /\ active_workers[tasks'[t].channel] = t
  <2>1. t \in 1 .. n + k
    BY <1>4
  <2>2. ~tasks[t].aborted /\ ~told(t) /\ tasks'[t].channel = tasks[t].channel
    BY <1>4, <1>8, <1>15, <2>1
  <2>3. tasks[t].channel \in current_channels /\ active_workers[tasks[t].channel] = t
    BY <1>4, <2>2 DEF HandlesInStep
  <2> QED  BY <2>2, <2>3 DEF told
<1>16. ASSUME NEW c \in channels, c \notin new
       PROVE  /\ ~tasks'[active_workers[c]].aborted /\ tasks'[active_workers[c]].channel = c
              /\ tasks'[active_workers[c]].state # "gone"
  <2>1. c \in current_channels /\ active_workers[c] \in 1 .. n
    BY <1>13, <1>16
  <2>2. /\ ~tasks[active_workers[c]].aborted /\ tasks[active_workers[c]].channel = c
        /\ tasks[active_workers[c]].state # "gone"
    BY <1>4, <2>1 DEF HandlesInStep
  <2>3. ~told(active_workers[c])
    <3>1. \A d \in old : d \in current_channels /\ d \notin channels
      OBVIOUS
    <3>2. \A d \in current_channels : tasks[active_workers[d]].channel = d
      BY DEF HandlesInStep
    <3> QED  BY <2>2, <3>1, <3>2 DEF told
  <2> QED  BY <1>4, <1>8, <2>1, <2>2, <2>3
<1>17. ASSUME NEW t \in n + 1 .. n + k
       PROVE  /\ ~tasks'[t].aborted /\ tasks'[t].channel \in new /\ tasks'[t].state # "gone"
              /\ active_workers'[tasks'[t].channel] = t
  <2>1. t \in 1 .. n + k /\ t \notin 1 .. n
    BY <1>4
  <2>2. ~told(t)
    BY <1>4, <2>1 DEF told, MemberTypeOK
  <2>3. /\ ~tasks'[t].aborted /\ tasks'[t].channel = all[t].channel /\ all[t].channel \in new
        /\ tasks'[t].state # "gone"
    BY <1>8, <1>10, <2>1, <2>2
  <2> QED  BY <1>11, <1>12, <2>3
<1>18. \A t \in 1 .. n + k : t \in 1 .. n \/ t \in n + 1 .. n + k
  BY <1>4
<1>19. ASSUME NEW c \in channels, NEW t \in 1 .. n + k, tasks'[t].channel = c
       PROVE  \/ t = active_workers'[c]
              \/ t < active_workers'[c] /\ tasks'[t].aborted
  <2>1. CASE c \in new
    <3>1. active_workers'[c] \in n + 1 .. n + k
      BY <1>12, <2>1
    <3>2. CASE t \in 1 .. n
      <4>1. t < active_workers'[c]
        BY <1>4, <3>1, <3>2
      <4> QED  BY <1>15, <1>19, <2>1, <3>2, <4>1
    <3> QED  BY <1>17, <1>18, <1>19, <3>2
  <2>2. CASE c \notin new
    <3>1. /\ c \in current_channels /\ active_workers'[c] = active_workers[c]
          /\ active_workers[c] \in 1 .. n
      BY <1>13, <2>2
    <3>2. t \in 1 .. n
      BY <1>17, <1>18, <1>19, <2>2
    <3>3. tasks[t].channel = c
      BY <1>4, <1>8, <1>19, <3>2
    <3>4. t = active_workers[c] \/ t < active_workers[c]
      BY <1>4, <3>1, <3>2, <3>3 DEF HandlesInStep
    <3>5. t # active_workers[c] => tasks'[t].aborted
      BY <1>15, <1>19, <3>2
    <3> QED  BY <3>1, <3>4, <3>5
  <2> QED  BY <2>1, <2>2
<1>20. \A t \in 1 .. n + k : tasks'[t].channel \notin channels => tasks'[t].aborted
  BY <1>15, <1>17, <1>18
<1>21. ASSUME NEW c \in channels
       PROVE  /\ tasks'[active_workers'[c]].channel = c /\ ~tasks'[active_workers'[c]].aborted
              /\ tasks'[active_workers'[c]].state # "gone"
  <2>1. CASE c \in new
    <3>1. active_workers'[c] \in n + 1 .. n + k /\ all[active_workers'[c]].channel = c
      BY <1>12, <2>1
    <3>2. active_workers'[c] \in 1 .. n + k
      BY <1>4, <3>1
    <3> QED  BY <1>8, <1>17, <3>1, <3>2
  <2>2. CASE c \notin new
    BY <1>13, <1>16, <2>2
  <2> QED  BY <2>1, <2>2
<1>22. HandlesInStep'
  BY <1>2, <1>7, <1>19, <1>20, <1>21 DEF HandlesInStep
<1> QED  BY <1>2, <1>9, <1>14, <1>22

LEMMA MemberInit == Init => MemberTypeOK /\ HandlesInStep
<1> SUFFICES ASSUME Init PROVE MemberTypeOK /\ HandlesInStep
  OBVIOUS
<1>1. /\ current_slot = 0 /\ time_changed = FALSE /\ channels = {} /\ last_processed_slot = 0
      /\ current_channels = {} /\ active_workers = <<>> /\ tasks = <<>>
  BY DEF Init
<1>2. tasks \in Seq(Task) /\ DOMAIN tasks = {}
  BY <1>1, EmptySeq
<1>3. active_workers \in [current_channels -> DOMAIN tasks]
  BY <1>1
<1>4. MemberTypeOK
  <2>1. MaxSlot \in Nat
    BY ConstAssumption
  <2>2. current_slot \in 0 .. MaxSlot /\ last_processed_slot \in 0 .. MaxSlot
    BY <1>1, <2>1
  <2>3. time_changed \in BOOLEAN /\ channels \subseteq Channel /\ current_channels \subseteq Channel
    BY <1>1
  <2> QED  BY <1>2, <1>3, <2>2, <2>3 DEF MemberTypeOK
<1>5. HandlesInStep
  BY <1>1, <1>2 DEF HandlesInStep
<1> QED  BY <1>4, <1>5

LEMMA TickKeeps ==
  ASSUME MemberTypeOK, HandlesInStep, OnTick
  PROVE  MemberTypeOK' /\ HandlesInStep'
<1>1. UNCHANGED <<current_slot, channels>> /\ time_changed' = FALSE
  BY DEF OnTick, watches
<1>2. CASE last_processed_slot' = current_slot /\ UpdateChannels
  BY <1>1, <1>2, UpdateKeeps DEF MemberTypeOK
<1>3. CASE UNCHANGED <<membership, tasks>>
  BY <1>1, <1>3 DEF membership, MemberTypeOK, HandlesInStep
<1> QED  BY <1>2, <1>3 DEF OnTick

(* A task goes on to another state, with its channel and its orders. *)
LEMMA TaskKeeps ==
  ASSUME MemberTypeOK, HandlesInStep, NEW t \in DOMAIN tasks,
         Connect(t) \/ StreamEnds(t) \/ AbortTakesEffect(t)
  PROVE  MemberTypeOK' /\ HandlesInStep'
<1>1. PICK st \in {"connecting", "following", "gone"} :
        /\ tasks' = [tasks EXCEPT ![t] = [tasks[t] EXCEPT !.state = st]]
        /\ st = "gone" => tasks[t].aborted
  BY DEF Connect, StreamEnds, AbortTakesEffect
<1>2. UNCHANGED <<current_slot, channels, time_changed, last_processed_slot, current_channels,
                  active_workers>>
  BY DEF Connect, StreamEnds, AbortTakesEffect, watches, membership
<1> DEFINE r == [tasks[t] EXCEPT !.state = st]
<1>3. tasks \in Seq(Task) /\ DOMAIN tasks = 1 .. Len(tasks) /\ tasks[t] \in Task
  BY LenProperties, ElementOfSeq DEF MemberTypeOK
<1>4. r \in Task /\ r.channel = tasks[t].channel /\ r.aborted = tasks[t].aborted /\ r.state = st
  BY <1>3 DEF Task
<1>5. tasks' = [tasks EXCEPT ![t] = r]
  BY <1>1
<1> HIDE DEF r
<1>6. /\ tasks' \in Seq(Task) /\ DOMAIN tasks' = DOMAIN tasks
      /\ \A u \in DOMAIN tasks : tasks'[u] = IF u = t THEN r ELSE tasks[u]
  BY <1>3, <1>4, <1>5, ExceptSeq
<1>7. \A u \in DOMAIN tasks : tasks'[u].channel = tasks[u].channel /\ tasks'[u].aborted = tasks[u].aborted
  BY <1>4, <1>6
<1>8. MemberTypeOK'
  BY <1>2, <1>6 DEF MemberTypeOK
<1>9. \A u \in DOMAIN tasks :
        ~tasks[u].aborted /\ tasks[u].state # "gone" => tasks'[u].state # "gone"
  BY <1>1, <1>4, <1>6
<1>10. HandlesInStep'
  <2>1. \A c \in current_channels : active_workers[c] \in DOMAIN tasks
    BY DEF MemberTypeOK
  <2> QED  BY <1>2, <1>6, <1>7, <1>9, <2>1 DEF HandlesInStep
<1> QED  BY <1>8, <1>10

LEMMA MemberStep ==
  ASSUME MemberTypeOK, HandlesInStep, [Next]_vars
  PROVE  MemberTypeOK' /\ HandlesInStep'
<1>1. CASE UNCHANGED members
  BY <1>1 DEF members, watches, membership, MemberTypeOK, HandlesInStep
<1>2. CASE TimePoll
  <2>1. /\ UNCHANGED <<last_processed_slot, channels, current_channels, active_workers, tasks>>
        /\ current_slot' \in 0 .. MaxSlot /\ time_changed' \in BOOLEAN
    BY <1>2 DEF TimePoll, membership, MemberTypeOK
  <2> QED  BY <2>1 DEF MemberTypeOK, HandlesInStep
<1>3. CASE DiscoverChannels
  <2>1. /\ UNCHANGED <<last_processed_slot, current_slot, time_changed, current_channels,
                       active_workers, tasks>>
        /\ channels' \subseteq Channel
    BY <1>3 DEF DiscoverChannels, membership
  <2> QED  BY <2>1 DEF MemberTypeOK, HandlesInStep
<1>4. OnObservation \/ SendToWorker \/ RespawnWorker \/ RetrySend => UNCHANGED members
  BY DEF OnObservation, OnKnownFeed, OnNewFeed, SendToWorker, RespawnWorker, RetrySend, members
<1>5. (\E t \in DOMAIN tasks : ObservationDecoded(t)) => UNCHANGED members
  BY DEF ObservationDecoded, members
<1>6. (\E w \in DOMAIN workers : FeedWorkerStep(w)) => UNCHANGED members
  BY DEF FeedWorkerStep, WorkerReceives, WorkerPublishes, PublicationEnds, WorkerExits, members
<1>7. UNCHANGED vars => UNCHANGED members
  BY DEF vars, members
<1>8. CASE \E t \in DOMAIN tasks : Connect(t) \/ StreamEnds(t) \/ AbortTakesEffect(t)
  BY <1>8, TaskKeeps
<1> QED
  BY <1>1, <1>2, <1>3, <1>4, <1>5, <1>6, <1>7, <1>8, TickKeeps DEF Next, Coordinator, ChannelWorker
-----------------------------------------------------------------------------
(* Each feed worker as a task: what TaskOf takes of it.                    *)

StateOf(w) == IF w \in DOMAIN workers THEN workers[w].state ELSE "receiving"
QueueOf(w) == IF w \in DOMAIN workers THEN workers[w].queue ELSE <<>>

LEMMA TaskRests ==
  ASSUME NEW w, StateOf(w)' = StateOf(w), QueueOf(w)' = QueueOf(w)
  PROVE  [TaskOf(w)!Next]_(TaskOf(w)!vars)
BY DEF TaskOf!vars, StateOf, QueueOf

LEMMA TasksRest ==
  ASSUME NEW w, UNCHANGED workers
  PROVE  [TaskOf(w)!Next]_(TaskOf(w)!vars)
BY TaskRests DEF StateOf, QueueOf

(* A spawned worker is as a task is that has not run yet. *)
LEMMA TaskSpawned ==
  ASSUME DeliveryTypeOK, NEW f \in Feed, workers' = Spawned(f), NEW w
  PROVE  [TaskOf(w)!Next]_(TaskOf(w)!vars)
<1> DEFINE r == [feed |-> f, state |-> "receiving", queue |-> <<>>]
<1>1. r \in FeedWorker /\ r.state = "receiving" /\ r.queue = <<>>
  BY EmptySeq DEF FeedWorker
<1>2. workers \in Seq(FeedWorker) /\ workers' = Append(workers, r)
  BY DEF DeliveryTypeOK, Spawned
<1> HIDE DEF r
<1>3. /\ DOMAIN workers' = DOMAIN workers \cup {Len(workers) + 1}
      /\ \A v \in DOMAIN workers : workers'[v] = workers[v]
      /\ workers'[Len(workers) + 1] = r
  BY <1>1, <1>2, WorkerSpawned
<1>4. StateOf(w)' = StateOf(w)
  BY <1>1, <1>3 DEF StateOf
<1>5. QueueOf(w)' = QueueOf(w)
  BY <1>1, <1>3 DEF QueueOf
<1> QED  BY <1>4, <1>5, TaskRests

(* One worker changes, the others do not. *)
LEMMA OthersRest ==
  ASSUME DeliveryTypeOK, NEW v \in DOMAIN workers, NEW r \in FeedWorker,
         workers' = [workers EXCEPT ![v] = r], NEW w
  PROVE  /\ w # v => [TaskOf(w)!Next]_(TaskOf(w)!vars)
         /\ StateOf(v) = workers[v].state /\ QueueOf(v) = workers[v].queue
         /\ StateOf(v)' = r.state /\ QueueOf(v)' = r.queue
<1>1. /\ DOMAIN workers' = DOMAIN workers /\ workers'[v] = r
      /\ \A u \in DOMAIN workers : u # v => workers'[u] = workers[u]
  BY DEF DeliveryTypeOK
<1>2. w # v => StateOf(w)' = StateOf(w) /\ QueueOf(w)' = QueueOf(w)
  BY <1>1 DEF StateOf, QueueOf
<1> QED  BY <1>1, <1>2, TaskRests DEF StateOf, QueueOf

LEMMA TaskIsSentTo ==
  ASSUME DeliveryTypeOK, Routed, SendToWorker, NEW w
  PROVE  [TaskOf(w)!Next]_(TaskOf(w)!vars)
<1>1. PICK v \in DOMAIN workers : v = target   \* target itself changes
  BY DEF SendToWorker, Routed, DeliveryTypeOK
<1> DEFINE r == [workers[v] EXCEPT !.queue = Append(workers[v].queue, hand[1])]
<1>2. /\ pc = "sending" /\ workers[v].state # "exited"
      /\ Len(workers[v].queue) < QueueCapacity
      /\ workers' = [workers EXCEPT ![v] = r]
  BY <1>1 DEF SendToWorker
<1>3. hand[1] \in Message
  BY <1>2, HandShape
<1>4. workers[v] \in FeedWorker /\ workers[v].queue \in Seq(Message)
  BY Standing DEF DeliveryTypeOK, LinesTyped, Stands
<1>5. r \in FeedWorker /\ r.state = workers[v].state /\ r.queue = Append(workers[v].queue, hand[1])
  BY <1>3, <1>4 DEF FeedWorker
<1> HIDE DEF r
<1>6. /\ w # v => [TaskOf(w)!Next]_(TaskOf(w)!vars)
      /\ StateOf(v) = workers[v].state /\ QueueOf(v) = workers[v].queue
      /\ StateOf(v)' = r.state /\ QueueOf(v)' = r.queue
  BY <1>2, <1>5, OthersRest
<1>7. w = v => TaskOf(w)!Send
  BY <1>2, <1>3, <1>5, <1>6 DEF TaskOf!Send, StateOf, QueueOf
<1> QED  BY <1>6, <1>7 DEF TaskOf!Next

LEMMA TaskRuns ==
  ASSUME DeliveryTypeOK, NEW v \in DOMAIN workers, FeedWorkerStep(v), NEW w
  PROVE  [TaskOf(w)!Next]_(TaskOf(w)!vars)
<1>1. v \in DOMAIN workers /\ workers[v] \in FeedWorker /\ workers[v].queue \in Seq(Message)
  BY Standing DEF DeliveryTypeOK, LinesTyped, Stands
<1>2. CASE WorkerReceives(v)
  <2> DEFINE r == [workers[v] EXCEPT !.queue = Tail(workers[v].queue)]
  <2>1. /\ workers[v].state = "receiving" /\ workers[v].queue # <<>>
        /\ workers' = [workers EXCEPT ![v] = r]
    BY <1>2 DEF WorkerReceives
  <2>2. r \in FeedWorker /\ r.state = workers[v].state /\ r.queue = Tail(workers[v].queue)
    BY <1>1, <2>1, TailAt DEF FeedWorker
  <2> HIDE DEF r
  <2>3. /\ w # v => [TaskOf(w)!Next]_(TaskOf(w)!vars)
        /\ StateOf(v) = workers[v].state /\ QueueOf(v) = workers[v].queue
        /\ StateOf(v)' = r.state /\ QueueOf(v)' = r.queue
    BY <2>1, <2>2, OthersRest
  <2>4. w = v => TaskOf(w)!Receives
    BY <2>1, <2>2, <2>3 DEF TaskOf!Receives, TaskOf!CanReceive, StateOf, QueueOf
  <2> QED  BY <2>3, <2>4 DEF TaskOf!Next
<1>3. CASE WorkerPublishes(v) \/ PublicationEnds(v)
  <2>1. PICK st \in {"receiving", "publishing"} :
          /\ workers[v].state \in {"receiving", "publishing"} \ {st}
          /\ workers' = [workers EXCEPT ![v] = [workers[v] EXCEPT !.state = st]]
    BY <1>3 DEF WorkerPublishes, PublicationEnds
  <2> DEFINE r == [workers[v] EXCEPT !.state = st]
  <2>2. r \in FeedWorker /\ r.state = st /\ r.queue = workers[v].queue
    BY <1>1 DEF FeedWorker
  <2>3. workers' = [workers EXCEPT ![v] = r]
    BY <2>1
  <2> HIDE DEF r
  <2>4. /\ w # v => [TaskOf(w)!Next]_(TaskOf(w)!vars)
        /\ StateOf(v) = workers[v].state /\ QueueOf(v) = workers[v].queue
        /\ StateOf(v)' = r.state /\ QueueOf(v)' = r.queue
    BY <2>2, <2>3, OthersRest
  <2>5. w = v => TaskOf(w)!Publishes \/ TaskOf(w)!PublicationEnds
    BY <2>1, <2>2, <2>4 DEF TaskOf!Publishes, TaskOf!PublicationEnds, StateOf, QueueOf
  <2> QED  BY <2>4, <2>5 DEF TaskOf!Next
<1>4. CASE WorkerExits(v)
  <2> DEFINE r == [workers[v] EXCEPT !.state = "exited", !.queue = <<>>]
  <2>1. workers[v].state = "receiving" /\ workers' = [workers EXCEPT ![v] = r]
    BY <1>4 DEF WorkerExits
  <2>2. r \in FeedWorker /\ r.state = "exited" /\ r.queue = <<>>
    BY <1>1, EmptySeq DEF FeedWorker
  <2> HIDE DEF r
  <2>3. /\ w # v => [TaskOf(w)!Next]_(TaskOf(w)!vars)
        /\ StateOf(v) = workers[v].state /\ QueueOf(v) = workers[v].queue
        /\ StateOf(v)' = r.state /\ QueueOf(v)' = r.queue
    BY <2>1, <2>2, OthersRest
  <2>4. w = v => TaskOf(w)!Exits
    BY <2>1, <2>2, <2>3 DEF TaskOf!Exits, StateOf, QueueOf
  <2> QED  BY <2>3, <2>4 DEF TaskOf!Next
<1> QED  BY <1>2, <1>3, <1>4 DEF FeedWorkerStep

LEMMA TaskInit == ASSUME Init, NEW w PROVE TaskOf(w)!Init
<1>1. workers = <<>>
  BY DEF Init
<1> QED  BY <1>1 DEF TaskOf!Init

LEMMA TaskStep ==
  ASSUME DeliveryTypeOK, Routed, [Next]_vars, NEW w
  PROVE  [TaskOf(w)!Next]_(TaskOf(w)!vars)
<1>1. CASE OnNewFeed
  <2>1. Head(rx).feed \in Feed
    BY <1>1, TakenInHand DEF OnNewFeed, Message
  <2> QED  BY <1>1, <2>1, TaskSpawned DEF OnNewFeed
<1>2. CASE RespawnWorker
  <2>1. hand[1].feed \in Feed
    BY <1>2, HandShape DEF RespawnWorker, Message
  <2> QED  BY <1>2, <2>1, TaskSpawned DEF RespawnWorker
<1>3. CASE SendToWorker
  BY <1>3, TaskIsSentTo
<1>4. CASE \E v \in DOMAIN workers : FeedWorkerStep(v)
  BY <1>4, TaskRuns
<1>5. OnTick \/ OnKnownFeed \/ RetrySend => UNCHANGED workers
  BY DEF OnTick, OnKnownFeed, RetrySend
<1>6. (\E t \in DOMAIN tasks : ChannelWorker(t)) => UNCHANGED workers
  BY DEF ChannelWorker, Connect, StreamEnds, ObservationDecoded, AbortTakesEffect
<1>7. TimePoll \/ DiscoverChannels \/ UNCHANGED vars => UNCHANGED workers
  BY DEF TimePoll, DiscoverChannels, vars
<1> QED
  BY <1>1, <1>2, <1>3, <1>4, <1>5, <1>6, <1>7, TasksRest DEF Next, Coordinator, OnObservation
-----------------------------------------------------------------------------
(* The theorems.                                                           *)

IInv == MemberTypeOK /\ HandlesInStep /\ DeliveryTypeOK /\ Safe

LEMMA IInvInit == Init => IInv
BY MemberInit, DeliveryInit DEF IInv

LEMMA IInvStep == IInv /\ [Next]_vars => IInv'
<1> SUFFICES ASSUME IInv, [Next]_vars PROVE IInv'
  OBVIOUS
<1>1. MemberTypeOK' /\ HandlesInStep'
  BY MemberStep DEF IInv
<1>2. DeliveryTypeOK' /\ Safe'
  BY DeliveryStep DEF IInv, MemberTypeOK
<1> QED  BY <1>1, <1>2 DEF IInv

LEMMA IInvAlways == Spec => []IInv
BY IInvInit, IInvStep, PTL DEF Spec

(* Whatever the number of channels, feeds and workers, handles name tasks, *)
(* senders name workers, and the coordinator has one observation in hand   *)
(* while it forwards and none at its select!.                              *)
THEOREM TypeCorrect == Spec => []TypeOK
<1>1. IInv => TypeOK
  BY DEF IInv, MemberTypeOK, DeliveryTypeOK, TypeOK
<1> QED  BY <1>1, IInvAlways, PTL

(* However often the registered channels change between two slots, and     *)
(* however long tasks told to stop go on following, the handle of each     *)
(* channel the coordinator knows is its newest task and runs; an earlier   *)
(* one may follow beside it, but was told to stop, and so was every task   *)
(* of any other channel.                                                   *)
THEOREM HandlesAlwaysInStep == Spec => []HandlesInStep
<1>1. IInv => HandlesInStep
  BY DEF IInv
<1> QED  BY <1>1, IInvAlways, PTL

(* As long as no feed worker has exited nothing is dropped, however full   *)
(* the queues are and whatever the coordinator waits for.                  *)
THEOREM NothingLost == Spec => []NothingLostWhileWorkersLive
<1>1. IInv => NothingLostWhileWorkersLive
  BY DEF IInv, Safe, Accounted, NothingLostWhileWorkersLive
<1> QED  BY <1>1, IInvAlways, PTL

(* An observation is on its way in one place, was received by one worker,  *)
(* or was dropped, through exits and respawns of workers too.              *)
THEOREM DeliveredOnce == Spec => []DeliveredAtMostOnce
<1>1. ASSUME IInv PROVE DeliveredAtMostOnce
  <2>1. /\ DOMAIN Lines = 0 .. Len(workers)
        /\ \A w \in 0 .. Len(workers) : Lines[w] = Line(w)
    BY DEF Lines, LinesOf, Line, Places
  <2>2. \A v, w \in 0 .. Len(workers) :
          \A i \in DOMAIN Line(v), j \in DOMAIN Line(w) :
            Line(v)[i].id = Line(w)[j].id => v = w /\ i = j
    BY <1>1, <2>1 DEF IInv, Safe, Placed, OnePlace
  <2> QED  BY <1>1, <2>2 DEF IInv, Safe, Accounted, DeliveredAtMostOnce
<1> QED  BY <1>1, IInvAlways, PTL

(* Towards the feeds the coordinator is the relay of FeedRelay: in order,  *)
(* each at most once, to no other feed, and without gaps before a worker   *)
(* of the feed has exited.                                                 *)
THEOREM CoordinatorImplementsRelay == Spec => ImplementsRelay
<1>1. Init => Relay!Init
  BY RelayInit
<1>2. IInv /\ [Next]_vars => [Relay!Next]_(Relay!vars)
  BY RelayStep DEF IInv, MemberTypeOK
<1> QED  BY <1>1, <1>2, IInvAlways, PTL DEF Spec, ImplementsRelay, Relay!Spec

(* Whatever the coordinator does, sends are to workers that have not       *)
(* exited and never beyond a queue's capacity, so that each worker is from *)
(* its spawn on a run of FeedWorkerTask, which PriceFeedWorker implements. *)
THEOREM WorkersAlwaysTasks == Spec => WorkersAreTasks
<1>1. Init => \A w \in 1 .. MaxWorkers : TaskOf(w)!Init
  BY TaskInit
<1>2. IInv /\ [Next]_vars =>
        [\A w \in 1 .. MaxWorkers : [TaskOf(w)!Next]_(TaskOf(w)!vars)]_vars
  BY TaskStep DEF IInv, Safe
<1> QED  BY <1>1, <1>2, IInvAlways, PTL DEF Spec, WorkersAreTasks
=============================================================================
