-------------------------- MODULE HttpServer_proofs --------------------------
(***************************************************************************)
(* What HttpServer does with a connection, whatever its peer sends and     *)
(* whatever each write takes: every message let through has a reply, the   *)
(* context is clean between messages, no output is lost, repeated or out   *)
(* of order, and the replies are those the stream asks for, in order.      *)
(*                                                                         *)
(* FlattenSeq is recursive: what it builds is shown by induction over the  *)
(* set of the lengths it holds for, from the well-founded order of the     *)
(* natural numbers.                                                        *)
(***************************************************************************)
EXTENDS HttpServer, TcpConnection_proofs, WellFoundedInduction

(* The order of the natural numbers, as a relation.                        *)
Less == {xx \in Nat \X Nat : xx[1] < xx[2]}
LEMMA LessWellFounded == IsWellFoundedOn(Less, Nat)
<1>1. IsWellFoundedOn(OpToRel(<,Nat), Nat)
  BY NatLessThanWellFounded
<1>2. OpToRel(<,Nat) = Less
  BY DEF OpToRel, Less
<1> QED
  BY <1>1, <1>2, Zenon

(* Induction, of the set of numbers that have a property.                  *)
LEMMA Induction ==
  ASSUME NEW S, 0 \in S, \A n \in Nat : n \in S => n + 1 \in S
  PROVE  Nat \subseteq S
<1> DEFINE T == {n \in Nat : n \notin S}
<1> SUFFICES ASSUME T # {} PROVE FALSE
  OBVIOUS
<1>1. PICK m \in T : \A n \in T : ~ (<<n, m>> \in Less)
  <2>1. T \subseteq Nat
    OBVIOUS
  <2> HIDE DEF T
  <2> QED
    BY <2>1, LessWellFounded, WFMin
<1>2. \A x, y \in Nat : <<y, x>> \in Less <=> y < x
  BY DEF Less
<1>3. m \in Nat /\ m # 0 /\ m - 1 \in Nat /\ m - 1 < m
  OBVIOUS
<1>4. m - 1 \in S
  BY <1>1, <1>2, <1>3
<1>5. m - 1 + 1 \in S
  BY <1>3, <1>4
<1> QED
  BY <1>3, <1>5

(* f is what FlattenSeq builds of the first n of ss.                       *)
Flattens(ss, f, n) ==
  f = [i \in 1..n |-> IF i = 1 THEN ss[i] ELSE f[i - 1] \o ss[i]]

(* An element of such an f, read off its recursion.                        *)
LEMMA FlattensValue ==
  ASSUME NEW ss, NEW n \in Nat, NEW f, Flattens(ss, f, n), NEW i \in 1..n
  PROVE  f[i] = IF i = 1 THEN ss[i] ELSE f[i - 1] \o ss[i]
<1> DEFINE g == [j \in 1..n |-> IF j = 1 THEN ss[j] ELSE f[j - 1] \o ss[j]]
<1>1. g[i] = IF i = 1 THEN ss[i] ELSE f[i - 1] \o ss[i]
  OBVIOUS
<1>2. f = g
  BY DEF Flattens
<1> HIDE DEF g
<1> QED
  BY <1>1, <1>2, Zenon

(* There is one for every length.                                          *)
LEMMA FlattenExists ==
  ASSUME NEW ss
  PROVE  \A n \in Nat : \E f : Flattens(ss, f, n)
<1> DEFINE S == {n \in Nat : \E f : Flattens(ss, f, n)}
<1>1. 0 \in S
  <2>1. Flattens(ss, [i \in 1..0 |-> 0], 0)
    BY DEF Flattens
  <2> QED
    BY <2>1
<1>2. ASSUME NEW n \in Nat, n \in S
      PROVE  n + 1 \in S
  <2>1. PICK f : Flattens(ss, f, n)
    BY <1>2
  <2> DEFINE e(h, i) == IF i = 1 THEN ss[i] ELSE h[i - 1] \o ss[i]
             g == [i \in 1..(n + 1) |-> IF i <= n THEN f[i] ELSE e(f, i)]
  <2>2. ASSUME NEW i \in 1..(n + 1)
        PROVE  g[i] = e(g, i)
    <3>1. i # 1 => i - 1 \in 1..n /\ i - 1 \in 1..(n + 1) /\ i - 1 <= n
      OBVIOUS
    <3>2. i # 1 => g[i - 1] = f[i - 1]
      BY <3>1
    <3>3. /\ i <= n => g[i] = f[i] /\ i \in 1..n
          /\ ~(i <= n) => g[i] = e(f, i)
      OBVIOUS
    <3>4. i \in 1..n => f[i] = e(f, i)
      BY <2>1, FlattensValue
    <3> HIDE DEF g
    <3> QED
      BY <3>2, <3>3, <3>4, Zenon
  <2>3. g = [i \in 1..(n + 1) |-> g[i]]
    OBVIOUS
  <2> HIDE DEF g
  <2>4. [i \in 1..(n + 1) |-> g[i]] = [i \in 1..(n + 1) |-> e(g, i)]
    BY <2>2, Zenon
  <2>5. Flattens(ss, g, n + 1)
    BY <2>3, <2>4, Zenon DEF Flattens
  <2> QED
    BY <2>5
<1> HIDE DEF S
<1>3. Nat \subseteq S
  BY <1>1, <1>2, Induction
<1> QED
  BY <1>3 DEF S

(* There is only one.                                                      *)
LEMMA FlattensOne ==
  ASSUME NEW ss, NEW n \in Nat, NEW f, NEW g, Flattens(ss, f, n), Flattens(ss, g, n)
  PROVE  \A i \in 1..n : f[i] = g[i]
<1> DEFINE S == {i \in Nat : i \in 1..n => f[i] = g[i]}
<1>1. 0 \in S
  OBVIOUS
<1>2. ASSUME NEW i \in Nat, i \in S
      PROVE  i + 1 \in S
  <2> SUFFICES ASSUME i + 1 \in 1..n PROVE f[i + 1] = g[i + 1]
    OBVIOUS
  <2>1. (i + 1) - 1 = i
    OBVIOUS
  <2>2. /\ f[i + 1] = IF i + 1 = 1 THEN ss[i + 1] ELSE f[(i + 1) - 1] \o ss[i + 1]
        /\ g[i + 1] = IF i + 1 = 1 THEN ss[i + 1] ELSE g[(i + 1) - 1] \o ss[i + 1]
    BY FlattensValue
  <2>3. i + 1 # 1 => f[i] = g[i]
    BY <1>2
  <2> QED
    BY <2>1, <2>2, <2>3, Zenon
<1> HIDE DEF S
<1>3. Nat \subseteq S
  BY <1>1, <1>2, Induction
<1> QED
  BY <1>3 DEF S

(* So FlattenSeq, which chooses one, is its last element.                  *)
LEMMA FlattenIs ==
  ASSUME NEW X, NEW ss \in Seq(X), ss # <<>>, NEW f, Flattens(ss, f, Len(ss))
  PROVE  Seqs!FlattenSeq(ss) = f[Len(ss)]
<1> DEFINE n == Len(ss)
           c == CHOOSE h : h = [i \in 1..n |-> IF i = 1 THEN ss[i] ELSE h[i - 1] \o ss[i]]
<1>1. n \in Nat /\ n # 0
  OBVIOUS
<1>2. Seqs!FlattenSeq(ss) = c[n]
  BY <1>1 DEF Seqs!FlattenSeq
<1>3. Flattens(ss, c, n)
  BY Zenon DEF Flattens
<1> HIDE DEF c
<1>4. \A i \in 1..n : f[i] = c[i]
  BY <1>1, <1>3, FlattensOne
<1> QED
  BY <1>1, <1>2, <1>4

(* Nothing flattened is nothing.                                           *)
LEMMA FlattenEmpty == Seqs!FlattenSeq(<<>>) = <<>>
BY DEF Seqs!FlattenSeq

(* One sequence more is its elements behind.                               *)
LEMMA FlattenAppend ==
  ASSUME NEW X, NEW ss \in Seq(Seq(X)), NEW s \in Seq(X)
  PROVE  Seqs!FlattenSeq(Append(ss, s)) = Seqs!FlattenSeq(ss) \o s
<1> DEFINE Y == Seq(X)
           tt == Append(ss, s)
           n == Len(ss)
<1>1. ss \in Seq(Y) /\ s \in Y
  OBVIOUS
<1>2. s = <<>> \o s
  OBVIOUS
<1> HIDE DEF Y
<1>3. /\ tt \in Seq(Y) /\ Len(tt) = n + 1 /\ n \in Nat
      /\ tt[n + 1] = s
      /\ \A i \in 1..n : tt[i] = ss[i]
  BY <1>1
<1> HIDE DEF tt
<1>4. tt # <<>> /\ (n = 0 <=> ss = <<>>)
  <2>1. \A q \in Seq(Y) : q = <<>> <=> Len(q) = 0
    OBVIOUS
  <2> QED
    BY <1>1, <1>3, <2>1
<1>5. PICK g : Flattens(tt, g, n + 1)
  <2>1. n + 1 \in Nat
    BY <1>3
  <2> QED
    BY <2>1, FlattenExists
<1>6. Seqs!FlattenSeq(tt) = g[n + 1]
  BY <1>3, <1>4, <1>5, FlattenIs
<1>7. g[n + 1] = IF n + 1 = 1 THEN s ELSE g[n] \o s
  <2>1. n + 1 \in 1..(n + 1) /\ (n + 1) - 1 = n
    BY <1>3
  <2>2. g[n + 1] = IF n + 1 = 1 THEN tt[n + 1] ELSE g[(n + 1) - 1] \o tt[n + 1]
    BY <1>3, <1>5, <2>1, FlattensValue
  <2> QED
    BY <1>3, <2>1, <2>2
<1>8. CASE n = 0
  BY <1>2, <1>3, <1>4, <1>6, <1>7, <1>8, FlattenEmpty DEF tt
<1>9. CASE n # 0
  <2> DEFINE e(h, i) == IF i = 1 THEN ss[i] ELSE h[i - 1] \o ss[i]
             f == [i \in 1..n |-> g[i]]
  <2>1. ASSUME NEW i \in 1..n
        PROVE  g[i] = e(f, i)
    <3>1. i \in 1..(n + 1) /\ n + 1 \in Nat /\ tt[i] = ss[i]
      BY <1>3
    <3>2. g[i] = IF i = 1 THEN tt[i] ELSE g[i - 1] \o tt[i]
      BY <1>5, <3>1, FlattensValue
    <3>3. i # 1 => f[i - 1] = g[i - 1]
      BY <1>3
    <3> HIDE DEF f
    <3> QED
      BY <3>1, <3>2, <3>3
  <2>2. f = [i \in 1..n |-> e(f, i)]
    BY <2>1, Zenon
  <2>3. n \in 1..n /\ n + 1 # 1
    BY <1>3, <1>9
  <2>4. f[n] = g[n]
    BY <2>3
  <2> HIDE DEF f
  <2>5. Flattens(ss, f, n)
    BY <2>2 DEF Flattens
  <2>6. Seqs!FlattenSeq(ss) = f[n]
    BY <1>1, <1>4, <1>9, <2>5, FlattenIs
  <2> QED
    BY <1>6, <1>7, <2>3, <2>4, <2>6 DEF tt
<1> QED
  BY <1>8, <1>9

(* What has been flattened is a sequence of elements all the way.          *)
LEMMA FlattensTyped ==
  ASSUME NEW Y, <<>> \in Y, \A s, t \in Y : s \o t \in Y,
         NEW ss, NEW n \in Nat, \A i \in 1..n : ss[i] \in Y,
         NEW f, Flattens(ss, f, n)
  PROVE  \A i \in 1..n : f[i] \in Y
<1> DEFINE S == {i \in Nat : i \in 1..n => f[i] \in Y}
<1>1. 0 \in S
  OBVIOUS
<1>2. ASSUME NEW i \in Nat, i \in S
      PROVE  i + 1 \in S
  <2> SUFFICES ASSUME i + 1 \in 1..n PROVE f[i + 1] \in Y
    OBVIOUS
  <2>1. f[i + 1] = IF i + 1 = 1 THEN ss[i + 1] ELSE f[(i + 1) - 1] \o ss[i + 1]
    BY FlattensValue
  <2>2. (i + 1) - 1 = i /\ (i + 1 # 1 => f[i] \in Y)
    BY <1>2
  <2> QED
    BY <2>1, <2>2
<1> HIDE DEF S
<1>3. Nat \subseteq S
  BY <1>1, <1>2, Induction
<1> QED
  BY <1>3 DEF S

(* The elements are those of the sequences.                                *)
LEMMA FlattenTyped ==
  ASSUME NEW X, NEW ss \in Seq(Seq(X))
  PROVE  Seqs!FlattenSeq(ss) \in Seq(X)
<1> DEFINE Y == Seq(X)
           n == Len(ss)
<1>1. n \in Nat /\ \A i \in 1..n : ss[i] \in Y
  OBVIOUS
<1>2. <<>> \in Y /\ \A s, t \in Y : s \o t \in Y
  OBVIOUS
<1>3. CASE n = 0
  BY <1>2, <1>3 DEF Seqs!FlattenSeq
<1>4. CASE n # 0
  <2>1. PICK f : Flattens(ss, f, n)
    BY <1>1, FlattenExists
  <2>2. ss \in Seq(Y) /\ ss # <<>>
    BY <1>4
  <2> HIDE DEF Y, n
  <2>3. \A i \in 1..n : f[i] \in Y
    BY <1>1, <1>2, <2>1, FlattensTyped
  <2>4. f[n] \in Y
    BY <1>1, <1>4, <2>3
  <2>5. Seqs!FlattenSeq(ss) = f[n]
    BY <2>1, <2>2, FlattenIs DEF n
  <2> QED
    BY <2>4, <2>5 DEF Y
<1> QED
  BY <1>3, <1>4

-----------------------------------------------------------------------------
(* Sequences joined in whatever order.                                     *)
LEMMA JoinAssociative ==
  ASSUME NEW B, NEW r \in Seq(B), NEW s \in Seq(B), NEW t \in Seq(B)
  PROVE  (r \o s) \o t = r \o (s \o t)
OBVIOUS

LEMMA JoinEmpty ==
  ASSUME NEW B, NEW s \in Seq(B)
  PROVE  s \o <<>> = s /\ <<>> \o s = s
OBVIOUS

(* What is written and what is left are the whole.                         *)
LEMMA RestJoins ==
  ASSUME NEW B, NEW data \in Seq(B), NEW n \in 0..Len(data)
  PROVE  /\ SubSeq(data, 1, n) \in Seq(B)
         /\ SubSeq(data, 1, n) \o Rest(data, n) = data
<1>1. SubSeq(data, 1, n) \in Seq(B) /\ Len(SubSeq(data, 1, n)) = n
  OBVIOUS
<1>2. \A i \in 1..n : SubSeq(data, 1, n)[i] = data[i]
  OBVIOUS
<1>3. Rest(data, n) \in Seq(B) /\ Len(Rest(data, n)) = Len(data) - n
  BY RestTyped
<1>4. \A i \in 1..(Len(data) - n) : Rest(data, n)[i] = data[n + i]
  BY DEF Rest
<1> DEFINE p == SubSeq(data, 1, n)
           q == Rest(data, n)
<1> HIDE DEF p, q
<1>5. p \in Seq(B) /\ q \in Seq(B) /\ Len(p) = n /\ Len(q) = Len(data) - n
  BY <1>1, <1>3 DEF p, q
<1>6. p \o q \in Seq(B) /\ Len(p \o q) = Len(data)
  BY <1>5
<1>7. \A i \in 1..Len(data) : (p \o q)[i] = data[i]
  <2> SUFFICES ASSUME NEW i \in 1..Len(data)
               PROVE  (p \o q)[i] = data[i]
    OBVIOUS
  <2>1. CASE i <= n
    <3>1. (p \o q)[i] = p[i]
      BY <1>5, <2>1
    <3>2. p[i] = data[i]
      BY <1>2, <2>1 DEF p
    <3> QED
      BY <3>1, <3>2
  <2>2. CASE i > n
    <3>1. (p \o q)[i] = q[i - n]
      <4>1. i \in 1..(Len(p) + Len(q)) /\ i > Len(p)
        BY <1>5, <2>2
      <4>2. (p \o q)[i] = q[i - Len(p)]
        BY <1>5, <4>1
      <4> QED
        BY <1>5, <4>2
    <3>2. i - n \in 1..(Len(data) - n) /\ n + (i - n) = i
      BY <2>2
    <3>3. q[i - n] = data[n + (i - n)]
      BY <1>4, <3>2 DEF q
    <3> QED
      BY <3>1, <3>2, <3>3
  <2>3. i <= n \/ i > n
    OBVIOUS
  <2> QED
    BY <2>1, <2>2, <2>3
<1>8. p \o q = data
  <2> DEFINE r == p \o q
  <2>1. r \in Seq(B) /\ Len(r) = Len(data) /\ \A i \in 1..Len(data) : r[i] = data[i]
    BY <1>6, <1>7
  <2> HIDE DEF r
  <2>2. r = data
    BY <2>1
  <2> QED
    BY <2>2 DEF r
<1> QED
  BY <1>5, <1>8 DEF p, q

(* Two outputs, when the first of the second or the second of the first is *)
(* empty, join in the middle.                                              *)
JoinAround(B, s, out, p, q) ==
  out = <<>> \/ p = <<>> => (s \o p) \o (out \o q) = (s \o out) \o (p \o q)

LEMMA JoinsAround ==
  ASSUME NEW B, NEW s \in Seq(B), NEW out \in Seq(B), NEW p \in Seq(B), NEW q \in Seq(B)
  PROVE  JoinAround(B, s, out, p, q)
<1>1. (s \o p) \o q = s \o (p \o q)
  BY JoinAssociative
<1>2. (s \o out) \o q = s \o (out \o q)
  BY JoinAssociative
<1> QED
  BY <1>1, <1>2, JoinEmpty DEF JoinAround

(* A write of n of data that finds output waiting takes none of it.        *)
JoinWrite(B, s, out, data, n) ==
  out = <<>> \/ n = 0 =>
    (s \o SubSeq(data, 1, n)) \o (out \o Rest(data, n)) = (s \o out) \o data

(* sendInLoop writes only if nothing waits.                                *)
LEMMA WriteJoins ==
  ASSUME NEW B, NEW s \in Seq(B), NEW out \in Seq(B), NEW data \in Seq(B),
         NEW n \in 0..Len(data)
  PROVE  JoinWrite(B, s, out, data, n)
<1> DEFINE p == SubSeq(data, 1, n)
           q == Rest(data, n)
<1>1. p \in Seq(B) /\ q \in Seq(B) /\ p \o q = data
  BY RestJoins, RestTyped
<1>2. n = 0 => p = <<>>
  OBVIOUS
<1> HIDE DEF p, q
<1>3. p \in Seq(B) /\ q \in Seq(B)
  BY <1>1
<1>4. JoinAround(B, s, out, p, q)
  BY <1>3, JoinsAround
<1>5. out = <<>> \/ n = 0 => (s \o p) \o (out \o q) = (s \o out) \o data
  BY <1>1, <1>2, <1>4, Zenon DEF JoinAround
<1> QED
  BY <1>5, Zenon DEF JoinWrite, p, q

-----------------------------------------------------------------------------
(* Output that was copied, with other bytes in the place of some. *)

(* The elements of two sequences joined.                                   *)
Joined(s, t, st) ==
  /\ Len(st) = Len(s) + Len(t)
  /\ \A i \in 1..(Len(s) + Len(t)) : st[i] = IF i <= Len(s) THEN s[i] ELSE t[i - Len(s)]

(* Every element of two sequences joined is one of theirs.                 *)
LEMMA JoinElements ==
  ASSUME NEW B, NEW s \in Seq(B), NEW t \in Seq(B)
  PROVE  s \o t \in Seq(B) /\ Joined(s, t, s \o t)
BY DEF Joined

(* r has the elements of s, or one of N in their place; and it may be only *)
(* the start of it.                                                        *)
Like(r, s, N) == \A i \in 1..Len(r) : r[i] = s[i] \/ r[i] \in N
Copies(r, s, N) == Len(r) = Len(s) /\ Like(r, s, N)
Starts(r, s, N) == Len(r) <= Len(s) /\ Like(r, s, N)

LEMMA CopiesItself ==
  ASSUME NEW s, NEW N
  PROVE  Copies(s, s, N)
BY DEF Copies, Like

(* Copies joined are a copy of what is joined.                             *)
LEMMA CopiesJoin ==
  ASSUME NEW B, NEW N, NEW q \in Seq(B), NEW r \in Seq(B), NEW s \in Seq(B), NEW t \in Seq(B),
         Copies(q, s, N), Copies(r, t, N)
  PROVE  Copies(q \o r, s \o t, N)
<1> DEFINE qr == q \o r
           st == s \o t
<1>1. Joined(q, r, qr) /\ Joined(s, t, st)
  BY JoinElements
<1>2. Len(q) \in Nat /\ Len(r) \in Nat /\ Len(q) = Len(s) /\ Len(r) = Len(t)
  BY DEF Copies
<1> HIDE DEF qr, st
<1>3. Len(qr) = Len(st) /\ Len(qr) = Len(q) + Len(r)
  BY <1>1, <1>2 DEF Joined
<1>4. ASSUME NEW i \in 1..(Len(q) + Len(r))
      PROVE  qr[i] = st[i] \/ qr[i] \in N
  <2>1. CASE i <= Len(q)
    <3>1. i \in 1..Len(q) /\ qr[i] = q[i] /\ st[i] = s[i]
      BY <1>1, <1>2, <2>1 DEF Joined
    <3> QED
      BY <3>1 DEF Copies, Like
  <2>2. CASE ~(i <= Len(q))
    <3>1. i - Len(q) \in 1..Len(r) /\ qr[i] = r[i - Len(q)] /\ st[i] = t[i - Len(q)]
      BY <1>1, <1>2, <2>2 DEF Joined
    <3> QED
      BY <3>1 DEF Copies, Like
  <2> QED
    BY <2>1, <2>2
<1> QED
  BY <1>3, <1>4 DEF Copies, Like, qr, st

(* What a start starts with is one.                                        *)
StartOfStart(r, t, s, N) == Starts(r \o t, s, N) => Starts(r, s, N)

LEMMA StartsFirst ==
  ASSUME NEW B, NEW N, NEW r \in Seq(B), NEW t \in Seq(B), NEW s, Len(s) \in Nat
  PROVE  StartOfStart(r, t, s, N)
<1> DEFINE rt == r \o t
<1>1. Joined(r, t, rt) /\ Len(r) \in Nat /\ Len(t) \in Nat
  BY JoinElements
<1> HIDE DEF rt
<1>2. Starts(rt, s, N) => Starts(r, s, N)
  <2>1. SUFFICES ASSUME Starts(rt, s, N) PROVE Starts(r, s, N)
    OBVIOUS
  <2>2. Len(rt) = Len(r) + Len(t) /\ \A i \in 1..Len(r) : rt[i] = r[i] /\ i \in 1..Len(rt)
    BY <1>1 DEF Joined
  <2>3. Len(r) <= Len(s)
    BY <1>1, <2>1, <2>2 DEF Starts
  <2> QED
    BY <2>1, <2>2, <2>3 DEF Starts, Like
<1> QED
  BY <1>2 DEF StartOfStart, rt

(* What a vector leaves behind when it grows.                              *)
Holes(lost) == IF lost THEN {Nul} ELSE {}
Lossy(q, r) == Holes(Outgrows(q, r))

(* append keeps what waits, but for that.                                  *)
LEMMA PutCopies ==
  ASSUME NEW B, NEW q \in Queues(B), NEW s \in Seq(OrNul(B))
  PROVE  Copies(Put(q, s).bytes, q.bytes \o s, Lossy(q, Put(q, s)))
<1> DEFINE r == MakeRoom(q, Len(s))
           b == q.bytes
           n == Used(q) + Len(s)
           cap == GrownCapacity(q.size, n)
           N == Lossy(q, r)
<1>1. /\ b \in Seq(OrNul(B)) /\ Len(b) \in Nat /\ Len(s) \in Nat /\ n \in Nat
      /\ q.readIndex_ \in Nat /\ q.size \in Nat /\ q.capacity \in Nat
      /\ Used(q) = q.readIndex_ + Len(b)
  BY DEF Queues, Used, Readable
<1>2. r \in Queues(B) /\ r.bytes \in Seq(OrNul(B))
  <2> DEFINE m == Moved(q)
  <2>1. m \in Seq(OrNul(B)) /\ cap \in Nat
    BY <1>1, MovedTyped DEF GrownCapacity
  <2> HIDE DEF m, cap
  <2>2. [q EXCEPT !.readIndex_ = 0] \in Queues(B)
    BY DEF Queues
  <2>3. [q EXCEPT !.bytes = m, !.size = n, !.capacity = cap] \in Queues(B)
    BY <1>1, <2>1 DEF Queues
  <2>4. r \in Queues(B)
    BY <2>2, <2>3 DEF MakeRoom, m, cap
  <2> QED
    BY <2>4 DEF Queues
<1>3. Copies(r.bytes, b, N)
  <2>1. CASE n <= q.capacity \/ n < q.capacity + q.readIndex_
    <3>1. r.bytes = b
      BY <2>1 DEF MakeRoom, Queues
    <3> QED
      BY <3>1, CopiesItself
  <2>2. CASE ~(n <= q.capacity \/ n < q.capacity + q.readIndex_)
    <3>1. r = [q EXCEPT !.bytes = Moved(q), !.size = n, !.capacity = cap]
      BY <2>2 DEF MakeRoom
    <3>2. r.bytes = Moved(q) /\ r.capacity = cap
      BY <3>1 DEF Queues
    <3>3. cap \in Nat /\ n <= cap /\ q.capacity < n
      BY <1>1, <2>2 DEF GrownCapacity
    <3>4. q.capacity < r.capacity
      BY <1>1, <3>2, <3>3
    <3>5. Len(Moved(q)) = Len(b)
      BY MovedTyped DEF Readable
    <3>6. ASSUME NEW i \in 1..Len(b)
          PROVE  Moved(q)[i] = b[i] \/ Moved(q)[i] \in N
      <4>1. Moved(q)[i] = IF q.readIndex_ + i <= q.size THEN b[i] ELSE Nul
        BY <1>1 DEF Moved
      <4>2. ~(q.readIndex_ + i <= q.size) => q.size < Used(q)
        BY <1>1
      <4>3. q.size < Used(q) => N = {Nul}
        BY <3>4 DEF Lossy, Holes, Outgrows
      <4> HIDE DEF N, b, r
      <4> QED
        BY <4>1, <4>2, <4>3
    <3> QED
      BY <3>2, <3>5, <3>6 DEF Copies, Like
  <2> QED
    BY <2>1, <2>2
<1> HIDE DEF r, b
<1>4. Put(q, s) = [r EXCEPT !.bytes = @ \o s]
  BY DEF Put, r
<1>5. Put(q, s).bytes = r.bytes \o s /\ Put(q, s).capacity = r.capacity
  BY <1>2, <1>4 DEF Queues
<1>6. Lossy(q, Put(q, s)) = N
  BY <1>5 DEF Lossy, Outgrows
<1> HIDE DEF N
<1>7. Copies(s, s, N)
  BY CopiesItself
<1>8. Copies(r.bytes \o s, b \o s, N)
  BY <1>1, <1>2, <1>3, <1>7, CopiesJoin
<1> QED
  BY <1>5, <1>6, <1>8 DEF b

-----------------------------------------------------------------------------
(* A connection's output, with the kernel and waiting.                     *)
OutputOf(w, c) == w.sock[c].sending \o w.conn[c].outBuffer_.bytes

(* The states of a connection that closes, and the functors that close     *)
(* one: the only ones queued for the base loop here.                       *)
Closed == {"kDisconnecting", "kDisconnected"}
Closers == {"closeConnectionInLoop", "connectionDestroyed"}
OnlyClosers(w) ==
  \A i \in DOMAIN w.pendingFunctors_[Base] : w.pendingFunctors_[Base][i].op \in Closers

(* A connection that writes no more.                                       *)
Shut(k) == k.state_ = "kDisconnected" /\ k.writing_ = FALSE

(* From w to v, connection c, of the base loop, may have been closed and   *)
(* lost no output; it leaves the map only when it writes no more.          *)
Keeps(w, v, c) ==
  /\ v.conn[c].state_ \in {w.conn[c].state_} \cup Closed
  /\ OutputOf(v, c) = OutputOf(w, c)
  /\ v.conn[c].outBuffer_.capacity = w.conn[c].outBuffer_.capacity
  /\ Shut(w.conn[c]) => Shut(v.conn[c]) /\ v.sock[c].sending = w.sock[c].sending
  /\ v.connections_ = w.connections_ \/ Shut(v.conn[c])
  /\ OnlyClosers(w) => OnlyClosers(v)

(* Handlers call one another.                                              *)
LEMMA KeepsTransitive ==
  ASSUME NEW u, NEW v, NEW w, NEW c, Keeps(u, v, c), Keeps(v, w, c)
  PROVE  Keeps(u, w, c)
BY DEF Keeps, Closed

LEMMA KeepsReflexive ==
  ASSUME NEW w, NEW c
  PROVE  Keeps(w, w, c)
BY DEF Keeps

(* A channel's operations leave the connection's state and output alone.   *)
LEMMA ChannelOutput ==
  ASSUME NEW L, NEW B, NEW k \in Connections(L, B)
  PROVE  /\ EnableWriting(k).state_ = k.state_ /\ EnableWriting(k).outBuffer_ = k.outBuffer_
         /\ DisableWriting(k).state_ = k.state_ /\ DisableWriting(k).outBuffer_ = k.outBuffer_
         /\ DisableAll(k).state_ = k.state_ /\ DisableAll(k).outBuffer_ = k.outBuffer_
         /\ Remove(k).state_ = k.state_ /\ Remove(k).outBuffer_ = k.outBuffer_
BY DEF Connections, EnableWriting, DisableAll, DisableWriting, Remove,
       RemoveChannel, EpollDel, UpDateChannel, EpollAdd, EpollMod, Event

(* All but one of them stop it writing.                                    *)
LEMMA ChannelStops ==
  ASSUME NEW L, NEW B, NEW k \in Connections(L, B)
  PROVE  /\ DisableWriting(k).writing_ = FALSE
         /\ DisableAll(k).writing_ = FALSE
         /\ Remove(k).writing_ = FALSE
BY DEF Connections, DisableAll, DisableWriting, Remove,
       RemoveChannel, EpollDel, UpDateChannel, EpollAdd, EpollMod, Event

(* A connection stored with the output it had.                             *)
LEMMA PutKeeps ==
  ASSUME NEW C, NEW L, NEW B, NEW w \in Servers(C, L, B), NEW c \in C,
         NEW k \in Connections(L, B), Alike(k, w.conn[c]), Shut(w.conn[c]) => Shut(k),
         k.state_ \in {w.conn[c].state_} \cup Closed, k.outBuffer_ = w.conn[c].outBuffer_
  PROVE  LET v == [w EXCEPT !.conn[c] = k]
         IN  Works(C, L, B, w, v, c) /\ Keeps(w, v, c) /\ v.conn[c] = k
<1> DEFINE v == [w EXCEPT !.conn[c] = k]
<1>1. /\ Works(C, L, B, w, v, c)
      /\ v.conn[c] = k
      /\ v.sock = w.sock
      /\ v.connections_ = w.connections_
      /\ v.pendingFunctors_ = w.pendingFunctors_
  BY PutConnection
<1> HIDE DEF v
<1>2. Works(C, L, B, w, v, c) /\ Keeps(w, v, c) /\ v.conn[c] = k
  BY <1>1 DEF Keeps, OutputOf, OnlyClosers
<1> QED
  BY <1>2 DEF v

(* Functors queued: queueInLoop of one that closes, runInLoop in the loop. *)
LEMMA QueueKeeps ==
  ASSUME NEW C, NEW L, NEW B, NEW w \in Servers(C, L, B), NEW c \in C, Base \in L,
         w.conn[c].loop = Base, NEW op \in Closers
  PROVE  LET v == QueueInLoop(w, Base, op, c)
         IN  /\ Works(C, L, B, w, v, c) /\ Keeps(w, v, c)
             /\ v.conn = w.conn /\ v.sock = w.sock
             /\ v.connections_ = w.connections_
             /\ v.pendingFunctors_[Base] # <<>>
<1> DEFINE v == QueueInLoop(w, Base, op, c)
           F == Functors(C)
           p == w.pendingFunctors_[Base]
           f == [op |-> op, conn |-> c]
           q == Append(p, f)
<1>1. op \in Ops
  BY DEF Closers, Ops
<1>2. /\ Works(C, L, B, w, v, c)
      /\ v.conn = w.conn
      /\ v.sock = w.sock
      /\ v.connections_ = w.connections_
      /\ v.pendingFunctors_ = [w.pendingFunctors_ EXCEPT ![Base] = Append(@, f)]
  BY <1>1, QueueWorks
<1>3. w.pendingFunctors_ \in [L -> Seq(F)] /\ p \in Seq(F) /\ f \in F /\ f.op = op
  BY <1>1 DEF Servers, Functors
<1> HIDE DEF v, F, f
<1>4. v.pendingFunctors_[Base] = Append(p, f)
  BY <1>2, <1>3
<1>5. /\ q # <<>>
      /\ \A i \in DOMAIN q : (i \in DOMAIN p /\ q[i] = p[i]) \/ q[i] = f
  <2>1. /\ q \in Seq(F) /\ Len(q) = Len(p) + 1 /\ Len(p) \in Nat
        /\ DOMAIN p = 1..Len(p) /\ DOMAIN q = 1..(Len(p) + 1)
        /\ \A i \in 1..Len(p) : q[i] = p[i]
        /\ q[Len(p) + 1] = f
    BY <1>3
  <2> HIDE DEF p, q
  <2>2. q # <<>>
    BY <2>1
  <2> QED
    BY <2>1, <2>2
<1> HIDE DEF p, q
<1>6. OnlyClosers(w) => OnlyClosers(v)
  BY <1>3, <1>4, <1>5 DEF OnlyClosers, p, q
<1>7. Keeps(w, v, c)
  BY <1>2, <1>6 DEF Keeps, OutputOf
<1> QED
  BY <1>2, <1>4, <1>5, <1>7 DEF v, q

(* TcpServer::removeConnection.                                            *)
LEMMA RemoveConnectionKeeps ==
  ASSUME NEW C, NEW L, NEW B, NEW w \in Servers(C, L, B), NEW c \in C, Base \in L,
         w.conn[c].loop = Base, Shut(w.conn[c])
  PROVE  LET v == RemoveConnection(w, c)
         IN  Works(C, L, B, w, v, c) /\ Keeps(w, v, c) /\ v.conn = w.conn
<1>1. CASE c \in w.connections_
  <2> DEFINE erased == [w EXCEPT !.connections_ = @ \ {c}]
             v == QueueInLoop(erased, Base, "connectionDestroyed", c)
  <2>1. /\ Works(C, L, B, w, erased, c)
        /\ erased.conn = w.conn
        /\ erased.sock = w.sock
        /\ erased.pendingFunctors_ = w.pendingFunctors_
    BY EraseWorks
  <2>2. RemoveConnection(w, c) = v
    BY <1>1 DEF RemoveConnection, RemoveConnectionInLoop
  <2> HIDE DEF erased
  <2>3. erased \in Servers(C, L, B) /\ erased.conn[c].loop = Base
    BY <2>1 DEF Works
  <2>4. Keeps(w, erased, c)
    BY <2>1 DEF Keeps, OutputOf, OnlyClosers
  <2>5. Works(C, L, B, erased, v, c) /\ Keeps(erased, v, c) /\ v.conn = erased.conn
    BY <2>3, QueueKeeps DEF Closers
  <2> HIDE DEF v
  <2> QED
    BY <2>1, <2>2, <2>4, <2>5, WorksTransitive, KeepsTransitive
<1>2. CASE c \notin w.connections_
  <2> DEFINE v == [w EXCEPT !.failed = TRUE]
  <2>1. RemoveConnection(w, c) = v
    BY <1>2 DEF RemoveConnection, RemoveConnectionInLoop
  <2>2. v.conn = w.conn /\ v.sock = w.sock /\ v.pendingFunctors_ = w.pendingFunctors_
        /\ v.connections_ = w.connections_
    BY DEF Servers
  <2>3. Works(C, L, B, w, v, c)
    BY FailWorks
  <2> HIDE DEF v
  <2> QED
    BY <2>1, <2>2, <2>3 DEF Keeps, OutputOf, OnlyClosers
<1> QED
  BY <1>1, <1>2

(* TcpConnection::handleClose.                                             *)
LEMMA HandleCloseKeeps ==
  ASSUME NEW C, NEW L, NEW B, NEW w \in Servers(C, L, B), NEW c \in C, Base \in L,
         w.conn[c].loop = Base
  PROVE  LET v == HandleClose(w, c)
         IN  /\ Works(C, L, B, w, v, c) /\ Keeps(w, v, c)
             /\ v.conn[c].state_ # "kConnected"
<1> DEFINE j == [w.conn[c] EXCEPT !.state_ = "kDisconnected"]
           k == DisableAll(j)
           shut == [w EXCEPT !.conn[c] = k]
           v == RemoveConnection(shut, c)
<1>1. w.conn[c] \in Connections(L, B)
  BY DEF Servers
<1>2. /\ j \in Connections(L, B) /\ Alike(j, w.conn[c])
      /\ j.state_ = "kDisconnected" /\ j.outBuffer_ = w.conn[c].outBuffer_
  <2>1. j.state_ = "kDisconnected" /\ j.outBuffer_ = w.conn[c].outBuffer_
    BY <1>1 DEF Connections
  <2> QED
    BY <1>1, <2>1, StateTyped DEF State
<1> HIDE DEF j
<1>3. /\ k \in Connections(L, B) /\ Alike(k, w.conn[c])
      /\ Shut(k) /\ k.outBuffer_ = w.conn[c].outBuffer_
  <2>1. k.state_ = "kDisconnected" /\ k.outBuffer_ = w.conn[c].outBuffer_
    BY <1>2, ChannelOutput
  <2>2. k.writing_ = FALSE
    BY <1>2, ChannelStops
  <2>3. k \in Connections(L, B) /\ Alike(k, j)
    BY <1>2, ChannelTyped, ChannelAlike
  <2> QED
    BY <1>2, <2>1, <2>2, <2>3 DEF Alike, Shut
<1> HIDE DEF k
<1>4. /\ Works(C, L, B, w, shut, c) /\ Keeps(w, shut, c)
      /\ shut.conn[c] = k
  <2>1. k.state_ \in {w.conn[c].state_} \cup Closed
    BY <1>3 DEF Shut, Closed
  <2> QED
    BY <1>3, <2>1, PutKeeps
<1> HIDE DEF shut
<1>5. shut \in Servers(C, L, B) /\ shut.conn[c].loop = Base
  BY <1>3, <1>4 DEF Works, Alike
<1>6. Works(C, L, B, shut, v, c) /\ Keeps(shut, v, c) /\ v.conn[c] = k
  BY <1>3, <1>4, <1>5, RemoveConnectionKeeps
<1> HIDE DEF v
<1>7. /\ Works(C, L, B, w, v, c) /\ Keeps(w, v, c)
      /\ v.conn[c].state_ # "kConnected"
  BY <1>3, <1>4, <1>6, WorksTransitive, KeepsTransitive DEF Shut
<1>8. CASE w.conn[c].state_ \in {"kDisconnecting", "kConnected"}
  <2>1. HandleClose(w, c) = v
    BY <1>8 DEF HandleClose, v, shut, k, j
  <2> QED
    BY <1>7, <2>1
<1>9. CASE w.conn[c].state_ \notin {"kDisconnecting", "kConnected"}
  <2>1. HandleClose(w, c) = w
    BY <1>9 DEF HandleClose
  <2> QED
    BY <1>9, <2>1, WorksReflexive, KeepsReflexive
<1> QED
  BY <1>8, <1>9

(* TcpConnection::connectionDestroyed.                                     *)
LEMMA ConnectionDestroyedKeeps ==
  ASSUME NEW C, NEW L, NEW B, NEW w \in Servers(C, L, B), NEW c \in C
  PROVE  LET v == ConnectionDestroyed(w, c)
         IN  /\ Works(C, L, B, w, v, c) /\ Keeps(w, v, c)
             /\ v.conn[c].state_ # "kConnected"
<1> DEFINE j == [w.conn[c] EXCEPT !.state_ = "kDisconnected"]
           shut == IF w.conn[c].state_ \in {"kConnected", "kDisconnecting"}
                   THEN DisableAll(j) ELSE w.conn[c]
           k == Remove(shut)
           v == [w EXCEPT !.conn[c] = k]
<1>1. w.conn[c] \in Connections(L, B) /\ Alike(w.conn[c], w.conn[c])
  BY DEF Servers, Alike
<1>2. /\ j \in Connections(L, B) /\ Alike(j, w.conn[c])
      /\ j.state_ = "kDisconnected" /\ j.outBuffer_ = w.conn[c].outBuffer_
  <2>1. j.state_ = "kDisconnected" /\ j.outBuffer_ = w.conn[c].outBuffer_
    BY <1>1 DEF Connections
  <2> QED
    BY <1>1, <2>1, StateTyped DEF State
<1> HIDE DEF j
<1>3. /\ DisableAll(j) \in Connections(L, B) /\ Alike(DisableAll(j), w.conn[c])
      /\ DisableAll(j).state_ = "kDisconnected"
      /\ DisableAll(j).outBuffer_ = w.conn[c].outBuffer_
  <2>1. /\ DisableAll(j).state_ = "kDisconnected"
        /\ DisableAll(j).outBuffer_ = w.conn[c].outBuffer_
    BY <1>2, ChannelOutput
  <2>2. DisableAll(j) \in Connections(L, B) /\ Alike(DisableAll(j), j)
    BY <1>2, ChannelTyped, ChannelAlike
  <2> QED
    BY <1>2, <2>1, <2>2 DEF Alike
<1>4. /\ shut \in Connections(L, B) /\ Alike(shut, w.conn[c])
      /\ shut.state_ \in {w.conn[c].state_} \cup Closed /\ shut.state_ # "kConnected"
      /\ shut.outBuffer_ = w.conn[c].outBuffer_
      /\ Shut(w.conn[c]) => Shut(shut)
  BY <1>1, <1>3 DEF Closed, Shut
<1> HIDE DEF shut
<1>5. /\ k \in Connections(L, B) /\ Alike(k, w.conn[c])
      /\ k.state_ = shut.state_ /\ k.outBuffer_ = w.conn[c].outBuffer_
      /\ Shut(w.conn[c]) => Shut(k)
  <2>1. k.state_ = shut.state_ /\ k.outBuffer_ = shut.outBuffer_ /\ k.writing_ = FALSE
    <3>1. k.state_ = shut.state_ /\ k.outBuffer_ = shut.outBuffer_
      BY <1>4, ChannelOutput
    <3>2. k.writing_ = FALSE
      BY <1>4, ChannelStops
    <3> QED
      BY <3>1, <3>2
  <2>2. k \in Connections(L, B) /\ Alike(k, shut)
    BY <1>4, ChannelTyped, ChannelAlike
  <2> QED
    BY <1>4, <2>1, <2>2 DEF Alike, Shut
<1>6. ConnectionDestroyed(w, c) = v
  BY DEF ConnectionDestroyed, shut, j
<1> HIDE DEF k
<1>7. Works(C, L, B, w, v, c) /\ Keeps(w, v, c) /\ v.conn[c] = k
  BY <1>4, <1>5, PutKeeps
<1> HIDE DEF v
<1> QED
  BY <1>4, <1>5, <1>6, <1>7

(* TcpConnection::closeConnection: something of it is still to run, or it  *)
(* is no longer connected.                                                 *)
LEMMA CloseConnectionKeeps ==
  ASSUME NEW C, NEW L, NEW B, NEW w \in Servers(C, L, B), NEW c \in C, Base \in L,
         w.conn[c].loop = Base
  PROVE  LET v == CloseConnection(w, c)
         IN  /\ Works(C, L, B, w, v, c) /\ Keeps(w, v, c)
             /\ v.conn = w.conn /\ v.sock = w.sock /\ v.connections_ = w.connections_
             /\ v.conn[c].state_ # "kConnected" \/ v.pendingFunctors_[Base] # <<>>
<1>1. CASE w.conn[c].state_ \in {"kConnected", "kConnecting"}
  <2>1. CloseConnection(w, c) = QueueInLoop(w, Base, "closeConnectionInLoop", c)
    BY <1>1 DEF CloseConnection
  <2> QED
    BY <2>1, QueueKeeps DEF Closers
<1>2. CASE w.conn[c].state_ \notin {"kConnected", "kConnecting"}
  <2>1. CloseConnection(w, c) = w
    BY <1>2 DEF CloseConnection
  <2> QED
    BY <1>2, <2>1, WorksReflexive, KeepsReflexive
<1> QED
  BY <1>1, <1>2

(* TcpConnection::closeConnectionInLoop.                                   *)
LEMMA CloseConnectionInLoopKeeps ==
  ASSUME NEW C, NEW L, NEW B, NEW w \in Servers(C, L, B), NEW c \in C, Base \in L,
         w.conn[c].loop = Base
  PROVE  LET v == CloseConnectionInLoop(w, c)
         IN  /\ Works(C, L, B, w, v, c) /\ Keeps(w, v, c)
             /\ v.conn[c].state_ # "kConnected"
<1> DEFINE k == [w.conn[c] EXCEPT !.state_ = "kDisconnecting"]
           v == [w EXCEPT !.conn[c] = k]
<1>1. w.conn[c] \in Connections(L, B)
  BY DEF Servers
<1>2. /\ k \in Connections(L, B) /\ Alike(k, w.conn[c])
      /\ k.state_ = "kDisconnecting" /\ k.outBuffer_ = w.conn[c].outBuffer_
  <2>1. k.state_ = "kDisconnecting" /\ k.outBuffer_ = w.conn[c].outBuffer_
    BY <1>1 DEF Connections
  <2> QED
    BY <1>1, <2>1, StateTyped DEF State
<1>3. /\ w.conn[c].state_ \in {"kConnected", "kConnecting"} =>
           CloseConnectionInLoop(w, c) = IF w.conn[c].writing_ THEN v ELSE HandleClose(w, c)
      /\ w.conn[c].state_ \notin {"kConnected", "kConnecting"} =>
           CloseConnectionInLoop(w, c) = w
  BY DEF CloseConnectionInLoop
<1> HIDE DEF k
<1>4. ~Shut(w.conn[c]) => Works(C, L, B, w, v, c) /\ Keeps(w, v, c) /\ v.conn[c] = k
  BY <1>2, PutKeeps DEF Closed
<1> HIDE DEF v
<1>5. CASE w.conn[c].state_ \notin {"kConnected", "kConnecting"}
  BY <1>3, <1>5, WorksReflexive, KeepsReflexive
<1>6. CASE w.conn[c].state_ \in {"kConnected", "kConnecting"} /\ w.conn[c].writing_
  BY <1>2, <1>3, <1>4, <1>6 DEF Shut
<1>7. CASE w.conn[c].state_ \in {"kConnected", "kConnecting"} /\ ~w.conn[c].writing_
  <2>1. CloseConnectionInLoop(w, c) = HandleClose(w, c)
    BY <1>3, <1>7
  <2> QED
    BY <2>1, HandleCloseKeeps
<1> QED
  BY <1>5, <1>6, <1>7

-----------------------------------------------------------------------------
(* What is sent goes behind the output there is.                           *)
Sends(w, v, c, data) ==
  /\ v.conn[c].state_ = w.conn[c].state_
  /\ Copies(OutputOf(v, c), OutputOf(w, c) \o data,
            Lossy(w.conn[c].outBuffer_, v.conn[c].outBuffer_))
  /\ v.connections_ = w.connections_
  /\ v.pendingFunctors_ = w.pendingFunctors_

(* TcpConnection::sendInLoop: what write takes and what it leaves,         *)
(* together behind the output.                                             *)
LEMMA SendInLoopSends ==
  ASSUME NEW C, NEW L, NEW B, NEW w \in Servers(C, L, B), NEW c \in C,
         NEW data \in Seq(B)
  PROVE  Sends(w, SendInLoop(w, c, data), c, data)
<1> DEFINE D == OrNul(B)
           k == w.conn[c]
           b == k.outBuffer_.bytes
           direct == ~k.writing_ /\ Readable(k.outBuffer_) = 0 /\ Writable(w, c)
           n == IF direct THEN Fits(w, c, data) ELSE 0
           kept == KeepRest(k, data, n)
           j == IF k.writing_ THEN kept ELSE EnableWriting(kept)
           v == Written(w, c, data, n)
           u == [v EXCEPT !.conn[c] = j]
           s == w.sock[c].sending
           p == SubSeq(data, 1, n)
           q == Rest(data, n)
<1>1. /\ k \in Connections(L, B) /\ k.outBuffer_ \in Queues(B)
      /\ s \in Seq(D) /\ b \in Seq(D) /\ data \in Seq(D)
  BY SeqOrNul DEF Servers, Connections, Sockets, Queues
<1>2. Fits(w, c, data) \in 0..Len(data) /\ 0 \in 0..Fits(w, c, data)
  BY <1>1, FitsInRange
<1>3. n \in 0..Len(data) /\ n \in 0..Fits(w, c, data)
  BY <1>2
<1>4. b = <<>> \/ n = 0
  <2>1. Readable(k.outBuffer_) = 0 => b = <<>>
    <3> HIDE DEF b
    <3>1. Len(b) = 0 => b = <<>>
      BY <1>1
    <3> QED
      BY <3>1 DEF Readable, b
  <2> QED
    BY <2>1
<1>5. SendInLoop(w, c, data) = IF n = Len(data) THEN v ELSE u
  BY DEF SendInLoop
<1> HIDE DEF D
<1>6. (s \o p) \o (b \o q) = (s \o b) \o data
  <2> HIDE DEF n, s, b
  <2>1. JoinWrite(D, s, b, data, n)
    BY <1>1, <1>3, WriteJoins
  <2> QED
    BY <1>4, <2>1, Zenon DEF JoinWrite
<1>7. q = <<>> <=> n = Len(data)
  <2> HIDE DEF D, n, s, b
  <2>1. data \in Seq(D) /\ n \in 0..Len(data)
    BY <1>1, <1>3
  <2> QED
    BY <2>1, RestTyped
<1>8. p \in Seq(D) /\ q \in Seq(D)
  BY <1>1, <1>3, RestJoins, RestTyped
<1> HIDE DEF n, p, q
<1>9. /\ Works(C, L, B, w, v, c) /\ v.conn = w.conn
      /\ v.connections_ = w.connections_
      /\ v.pendingFunctors_ = w.pendingFunctors_
  BY <1>1, <1>3, WrittenWorks DEF D
<1>10. v.sock[c].sending = s \o p
  BY DEF Written, Servers, Sockets, p
<1> HIDE DEF k, v, s, b
<1>11. CASE n = Len(data)
  <2>1. (s \o p) \o b = (s \o b) \o data
    <3>1. b \o q = b
      BY <1>1, <1>7, <1>11, JoinEmpty
    <3> QED
      BY <1>6, <3>1, Zenon
  <2>2. OutputOf(v, c) = OutputOf(w, c) \o data
    BY <1>9, <1>10, <2>1, Zenon DEF OutputOf, k, s, b
  <2>3. SendInLoop(w, c, data) = v
    BY <1>5, <1>11
  <2> QED
    BY <1>9, <2>2, <2>3, CopiesItself DEF Sends
<1>12. CASE n # Len(data)
  <2> DEFINE o == Put(k.outBuffer_, q)
             N == Lossy(k.outBuffer_, o)
  <2>1. /\ o \in Queues(B) /\ o.bytes \in Seq(D)
        /\ Copies(o.bytes, b \o q, N)
    BY <1>1, <1>8, PutTyped, PutCopies DEF D, Queues, b
  <2>2. /\ kept \in Connections(L, B) /\ kept.state_ = k.state_ /\ kept.outBuffer_ = o
        /\ Alike(kept, k)
    <3>1. kept = [k EXCEPT !.outBuffer_ = o]
      BY DEF KeepRest, q
    <3> HIDE DEF kept, o
    <3> QED
      BY <1>1, <2>1, <3>1 DEF Connections, Alike
  <2> HIDE DEF kept, o, N
  <2>3. /\ j \in Connections(L, B) /\ j.state_ = k.state_ /\ j.outBuffer_ = o
        /\ Alike(j, k)
    <3>1. EnableWriting(kept).state_ = k.state_ /\ EnableWriting(kept).outBuffer_ = o
      BY <2>2, ChannelOutput
    <3>2. EnableWriting(kept) \in Connections(L, B) /\ Alike(EnableWriting(kept), kept)
      BY <2>2, ChannelTyped, ChannelAlike
    <3> QED
      BY <2>2, <3>1, <3>2 DEF Alike
  <2> HIDE DEF j
  <2>4. /\ v \in Servers(C, L, B)
        /\ j \in Connections(L, B)
        /\ Alike(j, v.conn[c])
    BY <1>9, <2>3 DEF Works, k
  <2>5. /\ Works(C, L, B, v, u, c)
        /\ u.conn[c] = j /\ u.sock = v.sock
        /\ u.connections_ = v.connections_
        /\ u.pendingFunctors_ = v.pendingFunctors_
    BY <2>4, PutConnection
  <2> HIDE DEF u
  <2> DEFINE sp == s \o p
             bq == b \o q
  <2>6. OutputOf(u, c) = sp \o o.bytes
    BY <1>10, <2>3, <2>5, Zenon DEF OutputOf
  <2>7. sp \o bq = OutputOf(w, c) \o data
    BY <1>6, Zenon DEF OutputOf, k, s, b
  <2>8. Copies(sp \o o.bytes, sp \o bq, N)
    <3>1. sp \in Seq(D) /\ bq \in Seq(D)
      BY <1>1, <1>8
    <3>2. Copies(sp, sp, N) /\ Copies(o.bytes, bq, N)
      BY <2>1, CopiesItself
    <3> HIDE DEF sp, bq
    <3> QED
      BY <2>1, <3>1, <3>2, CopiesJoin
  <2> HIDE DEF sp, bq
  <2>9. Copies(OutputOf(u, c), OutputOf(w, c) \o data, N)
    BY <2>6, <2>7, <2>8, Zenon
  <2>10. u.conn[c].state_ = w.conn[c].state_ /\ N = Lossy(w.conn[c].outBuffer_, u.conn[c].outBuffer_)
    BY <2>3, <2>5 DEF k, N
  <2>11. SendInLoop(w, c, data) = u
    BY <1>5, <1>12
  <2> QED
    BY <1>9, <2>5, <2>9, <2>10, <2>11 DEF Sends
<1> QED
  BY <1>11, <1>12

(* What handleWrite does when the buffer is empty.                         *)
LEMMA DrainedKeeps ==
  ASSUME NEW C, NEW L, NEW B, NEW w \in Servers(C, L, B), NEW c \in C, Base \in L,
         w.conn[c].loop = Base
  PROVE  Keeps(w, Drained(w, c), c)
<1> DEFINE k == DisableWriting(w.conn[c])
           done == [w EXCEPT !.conn[c] = k]
<1>1. w.conn[c] \in Connections(L, B)
  BY DEF Servers
<1>2. /\ k.state_ = w.conn[c].state_ /\ k.outBuffer_ = w.conn[c].outBuffer_
      /\ Shut(w.conn[c]) => Shut(k)
  <2>1. k.state_ = w.conn[c].state_ /\ k.outBuffer_ = w.conn[c].outBuffer_
    BY <1>1, ChannelOutput
  <2>2. k.writing_ = FALSE
    BY <1>1, ChannelStops
  <2> QED
    BY <2>1, <2>2 DEF Shut
<1>3. k \in Connections(L, B) /\ Alike(k, w.conn[c])
  BY <1>1, ChannelTyped, ChannelAlike
<1> HIDE DEF k
<1>4. Works(C, L, B, w, done, c) /\ Keeps(w, done, c) /\ done.conn[c] = k
  BY <1>2, <1>3, PutKeeps
<1> HIDE DEF done
<1>5. done \in Servers(C, L, B) /\ done.conn[c].loop = Base
  BY <1>3, <1>4 DEF Works, Alike
<1>6. Keeps(done, HandleClose(done, c), c)
  BY <1>5, HandleCloseKeeps
<1>7. Keeps(w, HandleClose(done, c), c)
  BY <1>4, <1>6, KeepsTransitive
<1> QED
  BY <1>4, <1>7 DEF Drained, done, k

(* TcpConnection::handleWrite moves output from the buffer to the kernel.  *)
LEMMA HandleWriteKeeps ==
  ASSUME NEW C, NEW L, NEW B, NEW w \in Servers(C, L, B), NEW c \in C, Base \in L,
         w.conn[c].loop = Base
  PROVE  Keeps(w, HandleWrite(w, c), c)
<1> DEFINE D == OrNul(B)
           o == w.conn[c].outBuffer_
           out == o.bytes
           n == Fits(w, c, out)
           v == Written(w, c, out, n)
           k == [w.conn[c] EXCEPT !.outBuffer_ = Take(o, n)]
           after == [v EXCEPT !.conn[c] = k]
           s == w.sock[c].sending
           p == SubSeq(out, 1, n)
           q == Rest(out, n)
<1>1. /\ w.conn[c] \in Connections(L, B) /\ o \in Queues(B)
      /\ out \in Seq(D) /\ s \in Seq(D)
  BY DEF Servers, Connections, Sockets, Queues
<1>2. n \in 0..Len(out) /\ n \in 0..Fits(w, c, out)
  BY <1>1, FitsInRange
<1>3. /\ Take(o, n) \in Queues(B) /\ Take(o, n).bytes = q
      /\ Take(o, n).capacity = o.capacity
  <2>1. Take(o, n) \in Queues(B) /\ Take(o, n).bytes = q
    BY <1>1, <1>2, TakeTyped DEF Readable
  <2>2. Take(o, n).capacity = o.capacity
    BY <1>1 DEF Take, Queues
  <2> QED
    BY <2>1, <2>2
<1> HIDE DEF n, out, o, D
<1>4. p \in Seq(D) /\ q \in Seq(D) /\ p \o q = out
  BY <1>1, <1>2, RestTyped, RestJoins
<1>5. (s \o p) \o q = s \o out
  <2> HIDE DEF s, p, q
  <2>1. p \in Seq(D) /\ q \in Seq(D) /\ <<>> \in Seq(D)
    BY <1>4
  <2>2. JoinAround(D, s, <<>>, p, q)
    BY <1>1, <2>1, JoinsAround
  <2>3. s \o <<>> = s /\ <<>> \o q = q
    BY <1>1, <2>1, JoinEmpty
  <2> QED
    BY <1>4, <2>2, <2>3, Zenon DEF JoinAround
<1>6. /\ Works(C, L, B, w, v, c) /\ v.conn = w.conn
      /\ v.connections_ = w.connections_ /\ v.pendingFunctors_ = w.pendingFunctors_
  BY <1>1, <1>2, WrittenWorks DEF D
<1>7. v.sock[c].sending = s \o p
  BY DEF Written, Servers, Sockets
<1>8. /\ k \in Connections(L, B) /\ Alike(k, w.conn[c])
      /\ k.state_ = w.conn[c].state_ /\ k.outBuffer_ = Take(o, n)
  BY <1>1, <1>3 DEF Connections, Alike
<1>9. HandleWrite(w, c) = IF ~w.conn[c].writing_ \/ ~Writable(w, c) \/ n = 0 THEN w
                          ELSE IF n < Len(out) THEN after ELSE Drained(after, c)
  <2>1. after = [v EXCEPT !.conn[c].outBuffer_ = Take(@, n)]
    BY <1>6 DEF o
  <2> QED
    BY <2>1 DEF HandleWrite, n, out, o
<1> HIDE DEF v, k, p, q, s
<1>10. v \in Servers(C, L, B) /\ Alike(k, v.conn[c])
  BY <1>6, <1>8 DEF Works
<1>11. /\ Works(C, L, B, v, after, c)
       /\ after.conn[c] = k /\ after.sock = v.sock
       /\ after.connections_ = v.connections_
       /\ after.pendingFunctors_ = v.pendingFunctors_
  BY <1>8, <1>10, PutConnection
<1> HIDE DEF after
<1>12. w.conn[c].writing_ => Keeps(w, after, c)
  <2>1. OutputOf(after, c) = OutputOf(w, c)
    BY <1>3, <1>5, <1>7, <1>8, <1>11, Zenon DEF OutputOf, s, out, o
  <2>2. after.conn[c].outBuffer_.capacity = w.conn[c].outBuffer_.capacity
    BY <1>3, <1>8, <1>11 DEF o
  <2> QED
    BY <1>6, <1>8, <1>11, <2>1, <2>2 DEF Keeps, OnlyClosers, Shut
<1>13. after \in Servers(C, L, B) /\ after.conn[c].loop = Base
  BY <1>8, <1>11 DEF Works, Alike
<1>14. w.conn[c].writing_ => Keeps(w, Drained(after, c), c)
  BY <1>12, <1>13, DrainedKeeps, KeepsTransitive
<1> QED
  BY <1>9, <1>12, <1>14, KeepsReflexive

(* A reply: sent if the connection is not closed, and perhaps the last.    *)
RepliesWith(w, v, c, data, close) ==
  /\ v.conn[c].state_ \in {w.conn[c].state_} \cup Closed
  /\ w.conn[c].state_ = "kConnected" =>
       /\ Copies(OutputOf(v, c), OutputOf(w, c) \o data,
                 Lossy(w.conn[c].outBuffer_, v.conn[c].outBuffer_))
       /\ v.connections_ = w.connections_
  /\ w.conn[c].state_ # "kConnected" => Keeps(w, v, c)
  /\ OnlyClosers(w) => OnlyClosers(v)
  /\ close => v.conn[c].state_ # "kConnected" \/ v.pendingFunctors_[Base] # <<>>

(* onMessage's send and closeConnection.                                   *)
LEMMA ReplySends ==
  ASSUME NEW C, NEW L, NEW B, NEW w \in Servers(C, L, B), NEW c \in C, Base \in L,
         w.conn[c].loop = Base, NEW data \in Seq(B), data # <<>>, NEW close \in BOOLEAN
  PROVE  LET v == Reply(w, c, data, close)
         IN  Works(C, L, B, w, v, c) /\ RepliesWith(w, v, c, data, close)
<1> DEFINE u == Send(w, c, data)
<1>1. /\ u \in Servers(C, L, B) /\ u.conn[c].loop = Base
      /\ w.conn[c].state_ = "kConnected" => Sends(w, u, c, data)
      /\ w.conn[c].state_ # "kConnected" => u = w
  <2>1. CASE w.conn[c].state_ = "kConnected"
    <3> DEFINE v == SendInLoop(w, c, data)
    <3>1. u = v
      BY <2>1 DEF Send
    <3>2. Sends(w, v, c, data)
      BY SendInLoopSends
    <3>3. Works(C, L, B, w, v, c)
      BY SendInLoopWorks
    <3> HIDE DEF v, u
    <3>4. v \in Servers(C, L, B) /\ v.conn[c].loop = Base
      BY <3>3 DEF Works, Touches, Alike
    <3> QED
      BY <2>1, <3>1, <3>2, <3>4
  <2>2. CASE w.conn[c].state_ # "kConnected"
    BY <2>2 DEF Send
  <2> QED
    BY <2>1, <2>2
<1> DEFINE v == Reply(w, c, data, close)
<1>2. v = IF close THEN CloseConnection(u, c) ELSE u
  BY DEF Reply
<1>3. Works(C, L, B, w, v, c)
  BY ReplyWorks
<1> HIDE DEF u, v
<1>4. /\ Keeps(u, v, c) /\ v.conn = u.conn /\ v.sock = u.sock
      /\ v.connections_ = u.connections_
      /\ close => v.conn[c].state_ # "kConnected" \/ v.pendingFunctors_[Base] # <<>>
  BY <1>1, <1>2, CloseConnectionKeeps, KeepsReflexive
<1>5. CASE w.conn[c].state_ = "kConnected"
  <2>1. OutputOf(v, c) = OutputOf(u, c)
    BY <1>4 DEF OutputOf
  <2>2. OnlyClosers(w) => OnlyClosers(v)
    BY <1>1, <1>4, <1>5 DEF Keeps, Sends, OnlyClosers
  <2> QED
    BY <1>1, <1>3, <1>4, <1>5, <2>1, <2>2 DEF RepliesWith, Sends, v
<1>6. CASE w.conn[c].state_ # "kConnected"
  <2>1. Keeps(w, v, c)
    BY <1>1, <1>4, <1>6
  <2> QED
    BY <1>3, <1>4, <1>6, <2>1 DEF RepliesWith, Keeps, v
<1> QED
  BY <1>5, <1>6

-----------------------------------------------------------------------------
(* Types. *)

(* What the buffer holds.                                                  *)
Read == Lines \cup {CRLF}

(* The bytes of lines.                                                     *)
LEMMA BytesTyped ==
  ASSUME NEW lines \in Seq(Lines)
  PROVE  Bytes(lines) \in Seq(Read)
<1> DEFINE X == Read
           ss == [i \in DOMAIN lines |-> IF lines[i] = Blank
                                         THEN <<CRLF>> ELSE <<lines[i], CRLF>>]
<1>1. \A i \in DOMAIN lines : lines[i] \in X
  BY DEF Read
<1>2. CRLF \in X
  BY DEF Read
<1> HIDE DEF X
<1>3. \A i \in DOMAIN lines : ss[i] \in Seq(X)
  BY <1>1, <1>2
<1>4. ss \in Seq(Seq(X))
  <2> DEFINE Y == Seq(X)
  <2>1. \A i \in DOMAIN lines : ss[i] \in Y
    BY <1>3
  <2>2. DOMAIN ss = DOMAIN lines
    OBVIOUS
  <2>3. DOMAIN lines = 1..Len(lines) /\ Len(lines) \in Nat
    OBVIOUS
  <2>4. ss = [i \in 1..Len(lines) |-> ss[i]]
    BY <2>3
  <2> HIDE DEF ss, Y
  <2>5. ss \in Seq(Y)
    BY <2>1, <2>2, <2>3, <2>4
  <2> QED
    BY <2>5 DEF Y
<1> HIDE DEF ss
<1>5. Seqs!FlattenSeq(ss) \in Seq(X)
  BY <1>4, FlattenTyped
<1> QED
  BY <1>5 DEF Bytes, ss, X

(* The bytes of what the peer sends.                                       *)
LEMMA StreamTyped ==
  ASSUME stream \in Streams
  PROVE  Bytes(stream) \in Seq(Read) /\ Len(Bytes(stream)) \in Nat
<1>1. Bytes(stream) \in Seq(Read)
  BY StreamsAssumption, BytesTyped
<1> QED
  BY <1>1

(* The lines with what the parser takes from them.                         *)
LEMMA LineTyped ==
  ASSUME NEW line \in Lines
  PROVE  /\ Method(line) \in Methods
         /\ Method(line) # "kInvalid" => line.path \in Words /\ line.version \in Versions
         /\ HasColon(line) => line.field \in Words /\ line.value \in Words
BY DEF Lines, Method, Methods, HasColon, Text, Blank

LEMMA ReadLength == ASSUME NEW b \in Seq(Read) PROVE Len(b) \in Nat
OBVIOUS

(* A line found in the buffer is one of the lines, and what is behind it   *)
(* is shorter.                                                             *)
LEMMA FirstLineTyped ==
  ASSUME NEW b \in Seq(Read), HasLine(b)
  PROVE  /\ FirstLine(b) \in Lines
         /\ AfterLine(b) \in Seq(Read)
         /\ Len(AfterLine(b)) < Len(b)
<1>1. Len(b) \in Nat /\ Len(b) # 0 /\ b[1] \in Read
  BY DEF HasLine
<1>2. FirstLine(b) \in Lines
  BY <1>1 DEF FirstLine, Read, Lines
<1>3. /\ Tail(b) \in Seq(Read) /\ Len(Tail(b)) = Len(b) - 1
  BY DEF HasLine
<1>4. Len(b) > 1 => /\ SubSeq(b, 3, Len(b)) \in Seq(Read)
                    /\ Len(SubSeq(b, 3, Len(b))) = Len(b) - 2
  <2>1. SubSeq(b, 3, Len(b)) = Rest(b, 2)
    BY DEF Rest
  <2>2. Len(b) > 1 => 2 \in 0..Len(b)
    BY <1>1
  <2>3. Len(b) > 1 => Rest(b, 2) \in Seq(Read) /\ Len(Rest(b, 2)) = Len(b) - 2
    BY <2>2, RestTyped
  <2> QED
    BY <2>1, <2>3
<1> QED
  BY <1>1, <1>2, <1>3, <1>4 DEF AfterLine, HasLine

(* The parser's state at the start of a turn of parseRequest's loop.       *)
Parser(ctx, b) == [context |-> ctx, buf |-> b, ok |-> TRUE, hasMore |-> TRUE]

(* HttpContext::processRequestLine: the whole line, or a refusal that      *)
(* leaves it.                                                              *)
LEMMA RequestLineParsed ==
  ASSUME NEW ctx \in Contexts, NEW b \in Seq(Read), HasLine(b)
  PROVE  LET line == FirstLine(b)
             q == ProcessRequestLine(Parser(ctx, b))
         IN  /\ q.context \in Contexts
             /\ q.context.Connection = ctx.Connection
             /\ WellFormed(line) =>
                  /\ q.context = [ctx EXCEPT !.method_ = line.method, !.path_ = line.path,
                                             !.version_ = line.version,
                                             !.state_ = "kExpectHeaders"]
                  /\ q.buf = AfterLine(b) /\ q.ok = TRUE /\ q.hasMore = TRUE
             /\ ~WellFormed(line) =>
                  /\ q.context.state_ = ctx.state_
                  /\ q.buf = b /\ q.ok = FALSE /\ q.hasMore = FALSE
<1> DEFINE line == FirstLine(b)
           q == ProcessRequestLine(Parser(ctx, b))
           named == [ctx EXCEPT !.method_ = IF HasSpace(line) THEN Method(line) ELSE @,
                                !.path_ = IF Method(line) # "kInvalid" THEN line.path ELSE @]
           next == [named EXCEPT !.version_ = line.version, !.state_ = "kExpectHeaders"]
<1>1. line \in Lines
  BY FirstLineTyped
<1> HIDE DEF line
<1>2. /\ Method(line) \in Methods
      /\ Method(line) # "kInvalid" => line.path \in Words /\ line.version \in Versions
  BY <1>1, LineTyped
<1>3. /\ named \in Contexts
      /\ named.Connection = ctx.Connection /\ named.state_ = ctx.state_
  <2> DEFINE path == IF Method(line) # "kInvalid" THEN line.path ELSE ctx.path_
             method == IF HasSpace(line) THEN Method(line) ELSE ctx.method_
  <2>1. method \in Methods
    BY <1>2, Zenon DEF Contexts
  <2>2. path \in Words \cup {""}
    BY <1>2, Zenon DEF Contexts
  <2>3. named = [ctx EXCEPT !.method_ = method, !.path_ = path]
    BY Zenon
  <2> HIDE DEF method, path, named
  <2> QED
    BY <2>1, <2>2, <2>3, Zenon DEF Contexts
<1>4. WellFormed(line) => /\ next \in Contexts
                          /\ next.Connection = ctx.Connection
  BY <1>2, <1>3 DEF Contexts, WellFormed
<1>5. WellFormed(line) =>
        next = [ctx EXCEPT !.method_ = line.method, !.path_ = line.path,
                           !.version_ = line.version, !.state_ = "kExpectHeaders"]
  <2>1. WellFormed(line) => /\ HasSpace(line) /\ Method(line) # "kInvalid"
                            /\ Method(line) = line.method
    BY DEF WellFormed, Method, HasSpace
  <2>2. WellFormed(line) =>
          named = [ctx EXCEPT !.method_ = line.method, !.path_ = line.path]
    BY <2>1
  <2> QED
    BY <2>2 DEF Contexts
<1>6. /\ WellFormed(line) => q = [context |-> next, buf |-> AfterLine(b),
                                  ok |-> TRUE, hasMore |-> TRUE]
      /\ ~WellFormed(line) => q = [context |-> named, buf |-> b,
                                   ok |-> FALSE, hasMore |-> FALSE]
  BY DEF ProcessRequestLine, Parser, line
<1> HIDE DEF named, next, q
<1>7. /\ q.context \in Contexts
      /\ q.context.Connection = ctx.Connection
      /\ WellFormed(line) => /\ q.context = next
                             /\ q.buf = AfterLine(b) /\ q.ok = TRUE /\ q.hasMore = TRUE
      /\ ~WellFormed(line) => /\ q.context.state_ = ctx.state_
                              /\ q.buf = b /\ q.ok = FALSE /\ q.hasMore = FALSE
  BY <1>3, <1>4, <1>6
<1> QED
  BY <1>5, <1>7 DEF q, line

(* A header, or the line that ends them.                                   *)
LEMMA HeaderParsed ==
  ASSUME NEW ctx \in Contexts, NEW b \in Seq(Read), HasLine(b)
  PROVE  LET line == FirstLine(b)
             q == ProcessHeader(Parser(ctx, b))
         IN  /\ q.context \in Contexts
             /\ q.buf = AfterLine(b) /\ q.ok = TRUE
             /\ HasColon(line) =>
                  /\ q.context = [ctx EXCEPT !.Connection =
                                    IF line.field = "Connection" THEN line.value ELSE @]
                  /\ q.hasMore = TRUE
             /\ ~HasColon(line) =>
                  /\ q.context = [ctx EXCEPT !.state_ = "kGotAll"]
                  /\ q.hasMore = FALSE
<1> DEFINE line == FirstLine(b)
           q == ProcessHeader(Parser(ctx, b))
           next == [ctx EXCEPT !.Connection =
                      IF line.field = "Connection" THEN line.value ELSE @]
           last == [ctx EXCEPT !.state_ = "kGotAll"]
<1>1. line \in Lines
  BY FirstLineTyped
<1> HIDE DEF line
<1>2. HasColon(line) => line.value \in Words
  BY <1>1, LineTyped
<1>3. HasColon(line) => next \in Contexts
  BY <1>2 DEF Contexts
<1>4. last \in Contexts
  BY DEF Contexts
<1>5. /\ HasColon(line) => q = [context |-> next, buf |-> AfterLine(b),
                                ok |-> TRUE, hasMore |-> TRUE]
      /\ ~HasColon(line) => q = [context |-> last, buf |-> AfterLine(b),
                                 ok |-> TRUE, hasMore |-> FALSE]
  BY DEF ProcessHeader, Parser, line
<1>6. /\ q.context \in Contexts
      /\ q.buf = AfterLine(b) /\ q.ok = TRUE
      /\ HasColon(line) => q.context = next /\ q.hasMore = TRUE
      /\ ~HasColon(line) => q.context = last /\ q.hasMore = FALSE
  <2> HIDE DEF next, last, q
  <2> QED
    BY <1>3, <1>4, <1>5
<1> QED
  BY <1>6 DEF line

(* What is answered.                                                       *)
LEMMA PieceTyped ==
  ASSUME NEW kind \in {"HTTP/1.1", "Connection", "Content-Type", "", "body"},
         NEW value \in Words \cup {"0", "200", "400", "404", "close", "Keep-Alive",
                                   "text/html", ""}
  PROVE  Line(kind, value) \in Pieces
BY DEF Line, Pieces

(* httpCallback_.                                                          *)
LEMMA ResponseTyped ==
  ASSUME NEW path, NEW close \in BOOLEAN
  PROVE  LET resp == HttpCallback(path, HttpResponse(close))
         IN  /\ resp.statusCode_ \in {"200", "404"}
             /\ resp.closeConnection_ \in BOOLEAN
             /\ resp.headers_ \in Seq(Pieces)
             /\ resp.body_ \in Seq(Pieces)
<1> DEFINE resp == HttpCallback(path, HttpResponse(close))
           X == Pieces
<1>1. CASE path \in DOMAIN Pages
  <2> DEFINE type == Line("Content-Type", "text/html")
             body == Body(path, Pages[path])
  <2>1. path \in Words /\ Pages[path] \in Nat
    BY <1>1, PagesAssumption
  <2>2. type \in X /\ Line("body", path) \in X
    BY <2>1, PieceTyped
  <2> HIDE DEF X, type
  <2>3. body \in Seq(X) /\ <<type>> \in Seq(X)
    BY <2>1, <2>2 DEF Body
  <2> HIDE DEF body
  <2>4. resp = [statusCode_ |-> "200", closeConnection_ |-> close,
                headers_ |-> <<type>>, body_ |-> body]
    BY <1>1 DEF HttpCallback, HttpResponse, type, body
  <2> HIDE DEF resp
  <2>5. /\ resp.statusCode_ = "200" /\ resp.closeConnection_ = close
        /\ resp.headers_ = <<type>> /\ resp.body_ = body
    BY <2>4
  <2> QED
    BY <2>3, <2>5 DEF X, resp
<1>2. CASE path \notin DOMAIN Pages
  <2>1. resp = [statusCode_ |-> "404", closeConnection_ |-> TRUE,
                headers_ |-> <<>>, body_ |-> <<>>]
    BY <1>2 DEF HttpCallback, DefaultHttpCallback, HttpResponse
  <2>2. <<>> \in Seq(X)
    OBVIOUS
  <2> HIDE DEF resp, X
  <2>3. /\ resp.statusCode_ = "404" /\ resp.closeConnection_
        /\ resp.headers_ = <<>> /\ resp.body_ = <<>>
    BY <2>1
  <2> QED
    BY <2>2, <2>3 DEF X, resp
<1> QED
  BY <1>1, <1>2

Answers == [bytes : Seq(Pieces), close : BOOLEAN]

(* A reply is never empty.                                                 *)
LEMMA OnRequestTyped ==
  ASSUME NEW path, NEW version, NEW connection
  PROVE  LET r == OnRequest(path, version, connection)
         IN  r \in Answers /\ r.bytes # <<>>
<1> DEFINE close == \/ connection = "close"
                    \/ version = "kHttp10" /\ connection # "Keep-Alive"
           resp == HttpCallback(path, HttpResponse(close))
           X == Pieces
           first == <<StatusLine(resp.statusCode_)>>
           second == IF resp.closeConnection_
                     THEN <<Line("Connection", "close")>>
                     ELSE <<ContentLength(Len(resp.body_)), Line("Connection", "Keep-Alive")>>
           end == <<EndOfHeaders>>
           bytes == AppendToBuffer(resp)
<1>1. close \in BOOLEAN
  OBVIOUS
<1> HIDE DEF close
<1>2. /\ resp.statusCode_ \in {"200", "404"} /\ resp.closeConnection_ \in BOOLEAN
      /\ resp.headers_ \in Seq(X) /\ resp.body_ \in Seq(X)
  BY <1>1, ResponseTyped
<1> HIDE DEF resp
<1>3. Len(resp.body_) \in Nat
  BY <1>2
<1>4. /\ StatusLine(resp.statusCode_) \in X /\ EndOfHeaders \in X
      /\ Line("Connection", "close") \in X /\ Line("Connection", "Keep-Alive") \in X
  BY <1>2, PieceTyped DEF StatusLine, EndOfHeaders
<1>5. ContentLength(Len(resp.body_)) \in X
  BY <1>3 DEF ContentLength, Pieces
<1> HIDE DEF X
<1>6. first \in Seq(X) /\ Len(first) = 1 /\ second \in Seq(X) /\ end \in Seq(X)
  BY <1>4, <1>5
<1>7. bytes = first \o second \o resp.headers_ \o end \o resp.body_
  BY DEF AppendToBuffer
<1> HIDE DEF first, second, end
<1>8. bytes \in Seq(X) /\ bytes # <<>>
  <2>1. \A s, t \in Seq(X) : s \o t \in Seq(X) /\ Len(s \o t) = Len(s) + Len(t)
    OBVIOUS
  <2>2. \A s \in Seq(X) : Len(s) \in Nat
    OBVIOUS
  <2> DEFINE r == first \o second
             s == r \o resp.headers_
             t == s \o end
  <2>3. r \in Seq(X) /\ Len(r) >= 1
    <3>1. r \in Seq(X) /\ Len(r) = Len(first) + Len(second)
      BY <1>6, <2>1
    <3>2. Len(second) \in Nat
      BY <1>6, <2>2
    <3> QED
      BY <1>6, <3>1, <3>2
  <2> HIDE DEF r
  <2>4. s \in Seq(X) /\ Len(s) >= 1
    BY <1>2, <2>1, <2>2, <2>3
  <2> HIDE DEF s
  <2>5. t \in Seq(X) /\ Len(t) >= 1
    BY <1>6, <2>1, <2>2, <2>4
  <2> HIDE DEF t
  <2>6. t \o resp.body_ \in Seq(X) /\ Len(t \o resp.body_) >= 1
    BY <1>2, <2>1, <2>2, <2>5
  <2>7. bytes = t \o resp.body_
    BY <1>7 DEF t, s, r
  <2>8. Len(<<>>) = 0
    OBVIOUS
  <2> QED
    BY <2>6, <2>7, <2>8
<1> HIDE DEF bytes
<1>9. OnRequest(path, version, connection) = [bytes |-> bytes, close |-> resp.closeConnection_]
  BY DEF OnRequest, bytes, resp, close
<1> QED
  BY <1>2, <1>8, <1>9 DEF Answers, X

(* The reply to a request refused.                                         *)
LEMMA BadRequestTyped == BadRequest \in Answers /\ BadRequest.bytes # <<>> /\ BadRequest.close
<1> DEFINE X == Pieces
<1>1. StatusLine("400") \in X /\ EndOfHeaders \in X
  BY PieceTyped DEF StatusLine, EndOfHeaders
<1> HIDE DEF X
<1>2. <<StatusLine("400"), EndOfHeaders>> \in Seq(X) /\ <<StatusLine("400"), EndOfHeaders>> # <<>>
  BY <1>1
<1> QED
  BY <1>2 DEF BadRequest, Answers, X

-----------------------------------------------------------------------------
(* The invariant. *)

(* Every state of the connection is one after it was established; only     *)
(* functors that close it are queued, and all of them run before the next  *)
(* poll.                                                                   *)
Up == {"kConnected"} \cup Closed

QueueInv ==
  /\ conn[Client].state_ \in Up
  /\ OnlyClosers(state)
  /\ where \in {"poll", "handleRead", "parseRequest", "reply"} =>
       pendingFunctors_[Base] = <<>>

(* What is left of a message that ends in a blank line.                    *)
EndsInLine(b) ==
  /\ b # <<>>
  /\ b[Len(b)] = CRLF
  /\ Len(b) > 1 => b[Len(b) - 1] = CRLF

(* The connection has been told to close.                                  *)
Closing == conn[Client].state_ # "kConnected" \/ pendingFunctors_[Base] # <<>>

(* A message is parsed only if it ends in two line ends, so each line      *)
(* found leaves something that ends in a line, the last of them blank: the *)
(* parser never runs out of lines before it has a request or a reason to   *)
(* refuse it.                                                              *)
ParseInv ==
  /\ where = "parseRequest" =>
       /\ ok
       /\ EndsInLine(inBuffer_)
       /\ \/ /\ context.state_ = "kExpectRequestLine"
             /\ context.Connection = ""
             /\ Len(inBuffer_) > 1
          \/ context.state_ = "kExpectHeaders"
  /\ where = "reply" =>
       \/ ok /\ context.state_ = "kGotAll"
       \/ /\ ~ok
          /\ context.state_ = "kExpectRequestLine"
          /\ context.Connection = ""
  /\ where \notin {"parseRequest", "reply"} =>
       /\ ok
       /\ context.state_ = "kExpectRequestLine"
       /\ context.Connection = ""
       /\ context.method_ # "kInvalid" => Closing

(* The output of replies, joined.                                          *)
Sent(rs) == Seqs!FlattenSeq([i \in DOMAIN rs |-> rs[i].bytes])

(* What the peer has read and what it has not copy all of it, or after a   *)
(* reset the start.  A connection out of the map, as it is by then, writes *)
(* no more.                                                                *)
OutputInv ==
  /\ closed # "reset" =>
       Copies(delivered \o OutputOf(state, Client), Sent(responses), Holes(outgrown))
  /\ closed = "reset" =>
       Starts(delivered \o sock[Client].sending, Sent(responses), Holes(outgrown))
  /\ connections_ = {} \/ closed # "no" => Shut(conn[Client])

(* The inductive invariant.                                                *)
HttpInv == TypeOK /\ QueueInv /\ ParseInv /\ OutputInv

(* The parts of the typed state.                                           *)
LEMMA ServerParts ==
  ASSUME TypeOK
  PROVE  /\ conn \in [{Client} -> Connections({Base}, Pieces)]
         /\ conn[Client] \in Connections({Base}, Pieces)
         /\ conn[Client].loop = Base
         /\ conn[Client].outBuffer_ \in Queues(Pieces)
         /\ conn[Client].outBuffer_.bytes \in Seq(OrNul(Pieces))
         /\ sock \in [{Client} -> Sockets(Pieces)]
         /\ sock[Client] \in Sockets(Pieces)
         /\ sock[Client].sending \in Seq(OrNul(Pieces))
         /\ pendingFunctors_ \in [{Base} -> Seq(Functors({Client}))]
         /\ pendingFunctors_[Base] \in Seq(Functors({Client}))
<1>1. /\ conn \in [{Client} -> Connections({Base}, Pieces)]
      /\ sock \in [{Client} -> Sockets(Pieces)]
      /\ pendingFunctors_ \in [{Base} -> Seq(Functors({Client}))]
  BY DEF TypeOK, state, Servers
<1>2. conn[Client] \in Connections({Base}, Pieces) /\ sock[Client] \in Sockets(Pieces)
  BY <1>1
<1>3. /\ conn[Client].loop = Base /\ conn[Client].outBuffer_ \in Queues(Pieces)
      /\ sock[Client].sending \in Seq(OrNul(Pieces))
  BY <1>2 DEF Connections, Sockets
<1>4. conn[Client].outBuffer_.bytes \in Seq(OrNul(Pieces))
  BY <1>3 DEF Queues
<1> QED
  BY <1>1, <1>2, <1>3, <1>4

(* A handler's result is the next state.                                   *)
LEMMA BecomesIs ==
  ASSUME NEW v \in Servers({Client}, {Base}, Pieces), Becomes(v)
  PROVE  state' = v
BY DEF Servers, Becomes, state

LEMMA OutputTyped ==
  ASSUME NEW w \in Servers({Client}, {Base}, Pieces)
  PROVE  OutputOf(w, Client) \in Seq(OrNul(Pieces))
<1>1. w.conn[Client] \in Connections({Base}, Pieces) /\ w.sock[Client] \in Sockets(Pieces)
  BY DEF Servers
<1>2. w.conn[Client].outBuffer_ \in Queues(Pieces) /\ w.sock[Client].sending \in Seq(OrNul(Pieces))
  BY <1>1 DEF Connections, Sockets
<1>3. w.conn[Client].outBuffer_.bytes \in Seq(OrNul(Pieces))
  BY <1>2 DEF Queues
<1> QED
  BY <1>2, <1>3 DEF OutputOf

(* One reply more is its bytes behind.                                     *)
LEMMA SentAppend ==
  ASSUME NEW rs \in Seq(Answers), NEW r \in Answers
  PROVE  /\ Sent(Append(rs, r)) = Sent(rs) \o r.bytes
         /\ Sent(rs) \in Seq(Pieces)
<1> DEFINE X == Pieces
           Y == Seq(X)
           ss == [i \in DOMAIN rs |-> rs[i].bytes]
           tt == [i \in DOMAIN Append(rs, r) |-> Append(rs, r)[i].bytes]
<1>1. /\ r.bytes \in Y
      /\ \A i \in DOMAIN rs : rs[i].bytes \in Y
  <2>1. \A i \in DOMAIN rs : rs[i] \in Answers
    OBVIOUS
  <2>2. \A a \in Answers : a.bytes \in Y
    BY DEF Answers
  <2> HIDE DEF X, Y
  <2> QED
    BY <2>1, <2>2
<1>2. /\ DOMAIN rs = 1..Len(rs) /\ Len(rs) \in Nat
      /\ DOMAIN Append(rs, r) = 1..(Len(rs) + 1)
      /\ \A i \in 1..Len(rs) : Append(rs, r)[i] = rs[i]
      /\ Append(rs, r)[Len(rs) + 1] = r
  OBVIOUS
<1> HIDE DEF X, Y
<1>3. ss \in Seq(Y) /\ Len(ss) = Len(rs) /\ \A i \in 1..Len(rs) : ss[i] = rs[i].bytes
  BY <1>1, <1>2
<1>4. tt = Append(ss, r.bytes)
  <2>1. /\ DOMAIN tt = 1..(Len(rs) + 1)
        /\ \A i \in 1..Len(rs) : tt[i] = ss[i]
        /\ tt[Len(rs) + 1] = r.bytes
        /\ tt = [i \in 1..(Len(rs) + 1) |-> tt[i]]
    BY <1>2, <1>3
  <2> HIDE DEF ss, tt
  <2> DEFINE uu == Append(ss, r.bytes)
  <2>2. /\ uu = [i \in 1..(Len(rs) + 1) |-> uu[i]]
        /\ \A i \in 1..Len(rs) : uu[i] = ss[i]
        /\ uu[Len(rs) + 1] = r.bytes
    BY <1>1, <1>2, <1>3
  <2> HIDE DEF uu
  <2>3. ASSUME NEW i \in 1..(Len(rs) + 1)
        PROVE  tt[i] = uu[i]
    <3>1. i \in 1..Len(rs) \/ i = Len(rs) + 1
      BY <1>2
    <3>2. i \in 1..Len(rs) => tt[i] = ss[i] /\ uu[i] = ss[i]
      BY <2>1, <2>2
    <3>3. i = Len(rs) + 1 => tt[i] = r.bytes /\ uu[i] = r.bytes
      BY <2>1, <2>2
    <3> QED
      BY <3>1, <3>2, <3>3
  <2>4. tt = uu
    BY <2>1, <2>2, <2>3
  <2> QED
    BY <2>4 DEF uu
<1> HIDE DEF ss, tt
<1>5. /\ Seqs!FlattenSeq(Append(ss, r.bytes)) = Seqs!FlattenSeq(ss) \o r.bytes
      /\ Seqs!FlattenSeq(ss) \in Seq(X)
  BY <1>1, <1>3, FlattenAppend, FlattenTyped DEF Y
<1> QED
  BY <1>4, <1>5 DEF Sent, ss, tt, X

-----------------------------------------------------------------------------
(* Each action keeps the invariant. *)

(* A connection just established.                                          *)
LEMMA InitHttp == Init => HttpInv
<1> SUFFICES ASSUME Init PROVE HttpInv
  OBVIOUS
<1> DEFINE X == Pieces
           k == [NewConnection(Base, TRUE) EXCEPT
                  !.state_ = "kConnected", !.context_ = TRUE, !.index_ = "kAdded",
                  !.events_ = {"in"}, !.added = TRUE, !.interest = {"in"}]
<1>1. <<>> \in Seq(X) /\ <<>> \in Seq(Read) /\ <<>> \in Seq(Answers)
      /\ <<>> \in Seq(Functors({Client})) /\ Len(<<>>) = 0
  OBVIOUS
<1> HIDE DEF X
<1>2. NewConnection(Base, TRUE) \in Connections({Base}, X) /\ NewSocket \in Sockets(X)
  BY NewTyped
<1>3. k \in Connections({Base}, X) /\ k.state_ = "kConnected"
      /\ k.outBuffer_.bytes = <<>>
  BY <1>2 DEF Connections, State, Event, NewConnection, EmptyQueue
<1> HIDE DEF k
<1>4. /\ conn = [c \in {Client} |-> k] /\ sock = [c \in {Client} |-> NewSocket]
      /\ connections_ = {Client}
      /\ pendingFunctors_ = [l \in {Base} |-> <<>>]
      /\ failed = FALSE /\ closed = "no" /\ delivered = <<>> /\ responses = <<>>
  BY DEF Init, k
<1>5. state \in Servers({Client}, {Base}, Pieces)
  BY <1>1, <1>2, <1>3, <1>4 DEF state, Servers, X
<1>6. context \in Contexts
  BY DEF Init, HttpContext, Contexts, Methods, Versions
<1>7. Len(Bytes(stream)) \in Nat
  BY StreamTyped DEF Init
<1>8. TypeOK
  <2>1. delivered \in Seq(OrNul(Pieces)) /\ closed = "no" /\ outgrown = FALSE
    <3> DEFINE Y == OrNul(Pieces)
    <3>1. <<>> \in Seq(Y)
      <4> HIDE DEF Y
      <4> QED
        OBVIOUS
    <3>2. closed = "no" /\ outgrown = FALSE
      BY DEF Init
    <3> QED
      BY <1>4, <3>1, <3>2
  <2>2. /\ stream \in Streams
        /\ sent \in 0..Len(Bytes(stream)) /\ received \in 0..sent
        /\ inBuffer_ \in Seq(Read) /\ Len(inBuffer_) <= received
        /\ where = "poll" /\ ok = TRUE /\ responses \in Seq(Answers)
    BY <1>1, <1>7 DEF Init
  <2> QED
    BY <1>5, <1>6, <2>1, <2>2 DEF TypeOK, Read, Answers
<1>9. pendingFunctors_[Base] = <<>> /\ conn[Client].state_ = "kConnected"
  BY <1>3, <1>4
<1>10. QueueInv
  BY <1>1, <1>9 DEF QueueInv, Up, OnlyClosers, state
<1>11. ParseInv
  BY DEF ParseInv, Init, HttpContext
<1>12. OutputInv
  <2>1. OutputOf(state, Client) = <<>> \o <<>>
    BY <1>3, <1>4 DEF OutputOf, state, NewSocket
  <2>2. <<>> \o (<<>> \o <<>>) = <<>>
    OBVIOUS
  <2>3. Sent(<<>>) = <<>>
    <3>1. [i \in DOMAIN <<>> |-> <<>>[i].bytes] = <<>>
      OBVIOUS
    <3> QED
      BY <3>1, FlattenEmpty DEF Sent
  <2>4. delivered \o OutputOf(state, Client) = Sent(responses)
    BY <1>4, <2>1, <2>2, <2>3, Zenon
  <2>5. connections_ # {} /\ closed = "no"
    BY <1>4
  <2> QED
    BY <2>4, <2>5, CopiesItself DEF OutputInv
<1> QED
  BY <1>8, <1>10, <1>11, <1>12 DEF HttpInv

(* The output is where it was.                                             *)
LEMMA OutputStays ==
  ASSUME HttpInv, OutputOf(state', Client) = OutputOf(state, Client),
         Shut(conn[Client]) =>
           Shut(conn'[Client]) /\ sock'[Client].sending = sock[Client].sending,
         connections_' = connections_ \/ Shut(conn'[Client]),
         delivered' = delivered, responses' = responses, closed' = closed, outgrown' = outgrown
  PROVE  OutputInv'
BY DEF HttpInv, OutputInv

(* The record of the server, and its variables.                            *)
LEMMA StateFields ==
  /\ state.conn = conn /\ state.sock = sock /\ state.connections_ = connections_
  /\ state.pendingFunctors_ = pendingFunctors_ /\ state.failed = failed
BY DEF state

LEMMA StateFieldsPrime ==
  /\ state'.conn = conn' /\ state'.sock = sock' /\ state'.connections_ = connections_'
  /\ state'.pendingFunctors_ = pendingFunctors_' /\ state'.failed = failed'
BY DEF state

(* An action that leaves the server alone.                                 *)
LEMMA ServerStays ==
  ASSUME HttpInv, UNCHANGED serverVars, delivered' = delivered, responses' = responses,
         closed' = closed
  PROVE  /\ state' \in Servers({Client}, {Base}, Pieces)
         /\ conn'[Client].state_ \in Up
         /\ OnlyClosers(state')
         /\ Closing => Closing'
         /\ OutputInv'
<1>1. state' = state
  BY DEF serverVars, state
<1>2. OutputInv'
  BY <1>1, OutputStays DEF serverVars
<1> QED
  BY <1>1, <1>2 DEF HttpInv, TypeOK, QueueInv, Closing, serverVars

(* A buffer that does not grow loses nothing.                              *)
LEMMA SameCapacity ==
  ASSUME TypeOK, NEW v, Becomes(v),
         v.conn[Client].outBuffer_.capacity = state.conn[Client].outBuffer_.capacity
  PROVE  outgrown' = outgrown
<1> DEFINE q == conn[Client].outBuffer_
           r == v.conn[Client].outBuffer_
<1>1. q.capacity \in Nat /\ r.capacity = q.capacity
  BY ServerParts, StateFields DEF Queues
<1> HIDE DEF q, r
<1>2. ~Outgrows(q, r)
  BY <1>1 DEF Outgrows
<1>3. outgrown' = (outgrown \/ Outgrows(q, r)) /\ outgrown \in BOOLEAN
  BY DEF Becomes, q, r, TypeOK
<1> QED
  BY <1>2, <1>3, Zenon

(* An action that is a handler.                                            *)
LEMMA HandlerKeeps ==
  ASSUME HttpInv, NEW v, Works({Client}, {Base}, Pieces, state, v, Client),
         Keeps(state, v, Client), Becomes(v), delivered' = delivered, responses' = responses,
         closed' = closed
  PROVE  /\ state' \in Servers({Client}, {Base}, Pieces)
         /\ conn'[Client].state_ \in Up
         /\ OnlyClosers(state')
         /\ Closing => Closing'
         /\ OutputInv'
         /\ outgrown' = outgrown
<1>1. state' = v
  BY BecomesIs DEF Works
<1>2. outgrown' = outgrown
  BY SameCapacity DEF HttpInv, Keeps
<1>3. /\ v.conn = conn' /\ v.pendingFunctors_ = pendingFunctors_'
      /\ v.sock = sock' /\ v.connections_ = connections_'
  BY DEF Becomes
<1>4. pendingFunctors_[Base] # <<>> => pendingFunctors_'[Base] # <<>>
  <2> DEFINE p == pendingFunctors_[Base]
             q == pendingFunctors_'[Base]
             F == Functors({Client})
  <2>1. Len(q) >= Len(p)
    BY <1>3, StateFields DEF Works, Touches, Extends
  <2>2. p \in Seq(F)
    BY ServerParts DEF HttpInv
  <2> HIDE DEF p, q, F
  <2>3. p # <<>> => Len(p) >= 1
    BY <2>2
  <2>4. Len(<<>>) = 0
    OBVIOUS
  <2>5. p # <<>> => q # <<>>
    BY <2>1, <2>2, <2>3, <2>4
  <2> QED
    BY <2>5 DEF p, q
<1>5. v.conn[Client].state_ \in {conn[Client].state_} \cup Closed
  BY StateFields DEF Keeps
<1>6. OnlyClosers(v)
  BY DEF Keeps, HttpInv, QueueInv
<1>7. conn[Client].state_ \in Up
  BY DEF HttpInv, QueueInv
<1>8. OutputInv'
  BY <1>1, <1>2, <1>3, StateFields, OutputStays DEF Keeps
<1> QED
  BY <1>1, <1>2, <1>3, <1>4, <1>5, <1>6, <1>7, <1>8 DEF Works, Up, Closed, Closing

(* Three sequences joined either way.                                      *)
Associate(B, r, s, t) == (r \o s) \o t = r \o (s \o t)

LEMMA Associates ==
  ASSUME NEW B, NEW r \in Seq(B), NEW s \in Seq(B), NEW t \in Seq(B)
  PROVE  Associate(B, r, s, t)
BY JoinAssociative DEF Associate

(* A reset drops the end of what the kernel holds.                         *)
LEMMA SendResetKeeps ==
  ASSUME HttpInv, SendReset, Shut(conn[Client]), closed # "reset",
         UNCHANGED <<conn, connections_, pendingFunctors_, failed, delivered, responses, outgrown>>
  PROVE  /\ state' \in Servers({Client}, {Base}, Pieces)
         /\ closed' \in {"no", "end", "reset"}
         /\ OutputInv'
<1> DEFINE D == OrNul(Pieces)
           out == sock[Client].sending
           rest == conn[Client].outBuffer_.bytes
           all == Sent(responses)
           N == Holes(outgrown)
<1>1. PICK n \in 0..Len(out) : sock' = [sock EXCEPT ![Client].sending = SubSeq(@, 1, n)]
  BY DEF SendReset
<1> DEFINE p == SubSeq(out, 1, n)
           q == Rest(out, n)
           s == [sock[Client] EXCEPT !.sending = p]
<1>2. /\ sock[Client] \in Sockets(Pieces) /\ out \in Seq(D) /\ rest \in Seq(D)
      /\ delivered \in Seq(D)
  BY ServerParts DEF HttpInv, TypeOK
<1>3. /\ p \in Seq(D) /\ q \in Seq(D) /\ p \o q = out
      /\ Len(p) = n
  <2> HIDE DEF out, D
  <2> QED
    BY <1>2, RestJoins, RestTyped
<1>4. s \in Sockets(Pieces) /\ s.sending = p
  <2>1. Len(out) <= SendRoom /\ Len(out) \in Nat
    BY <1>2 DEF Sockets
  <2> HIDE DEF p, out
  <2>2. Len(p) <= SendRoom
    BY <1>3, <2>1, SendRoomAssumption
  <2> QED
    BY <1>2, <1>3, <2>2 DEF Sockets
<1>5. sock' = [sock EXCEPT ![Client] = s]
  BY <1>1
<1> HIDE DEF s, p, q
<1>6. sock' \in [{Client} -> Sockets(Pieces)] /\ sock'[Client].sending = p
  BY <1>4, <1>5, ServerParts DEF HttpInv
<1>7. state' \in Servers({Client}, {Base}, Pieces)
  BY <1>6 DEF HttpInv, TypeOK, state, Servers
<1>8. closed' = "reset"
  BY DEF SendReset
<1>9. Starts(delivered \o p, all, N)
  <2>1. Copies(delivered \o OutputOf(state, Client), all, N) /\ OutputOf(state, Client) = out \o rest
    BY StateFields DEF HttpInv, OutputInv, OutputOf
  <2> DEFINE dp == delivered \o p
             qr == q \o rest
  <2> HIDE DEF out, rest, all, N, D
  <2>2. Associate(D, p, q, rest) /\ dp \in Seq(D) /\ qr \in Seq(D)
    BY <1>2, <1>3, Associates
  <2>3. Associate(D, delivered, p, qr)
    <3> HIDE DEF qr
    <3> QED
      BY <1>2, <1>3, <2>2, Associates
  <2>4. delivered \o OutputOf(state, Client) = dp \o qr
    BY <1>3, <2>1, <2>2, <2>3, Zenon DEF Associate
  <2>5. Copies(dp \o qr, all, N)
    BY <2>1, <2>4, Zenon
  <2> HIDE DEF dp, qr
  <2>6. Len(dp \o qr) \in Nat
    <3>1. dp \o qr \in Seq(D)
      BY <2>2
    <3> QED
      BY <3>1
  <2>7. Len(all) \in Nat /\ Starts(dp \o qr, all, N)
    BY <2>5, <2>6 DEF Copies, Starts
  <2>8. StartOfStart(dp, qr, all, N)
    BY <2>2, <2>7, StartsFirst
  <2> QED
    BY <2>7, <2>8, Zenon DEF StartOfStart, dp
<1>10. OutputInv'
  <2>1. delivered' = delivered /\ responses' = responses /\ outgrown' = outgrown /\ conn' = conn
    OBVIOUS
  <2> QED
    BY <1>6, <1>8, <1>9, <2>1 DEF OutputInv
<1> QED
  BY <1>7, <1>8, <1>10

(* The peer sends: only more to read, or after the close a reset.          *)
LEMMA PeerSendsKeeps ==
  ASSUME HttpInv, PeerSends
  PROVE  HttpInv'
<1> DEFINE s == [sock[Client] EXCEPT !.unread = TRUE]
<1>1. /\ sent' \in (sent + 1)..Len(Bytes(stream))
      /\ closed # "reset"
      /\ closed = "no" => sock' = [sock EXCEPT ![Client] = s] /\ closed' = closed
      /\ closed # "no" => SendReset
      /\ UNCHANGED <<conn, connections_, pendingFunctors_, failed, outgrown, inBuffer_,
                     context, ok, stream, received, delivered, where, responses>>
  BY DEF PeerSends, parserVars
<1>2. s \in Sockets(Pieces) /\ s.sending = sock[Client].sending
  BY ServerParts DEF HttpInv, Sockets
<1> HIDE DEF s
<1>3. /\ state' \in Servers({Client}, {Base}, Pieces)
      /\ closed' \in {"no", "end", "reset"}
      /\ OutputInv'
  <2>1. CASE closed = "no"
    <3>1. sock' \in [{Client} -> Sockets(Pieces)] /\ sock'[Client].sending = sock[Client].sending
      BY <1>1, <1>2, <2>1, ServerParts DEF HttpInv
    <3>2. state' \in Servers({Client}, {Base}, Pieces)
      BY <1>1, <3>1 DEF HttpInv, TypeOK, state, Servers
    <3>3. OutputOf(state', Client) = OutputOf(state, Client)
      BY <1>1, <3>1, StateFields, StateFieldsPrime DEF OutputOf
    <3>4. OutputInv'
      BY <1>1, <2>1, <3>1, <3>3, OutputStays
    <3> QED
      BY <1>1, <2>1, <3>2, <3>4
  <2>2. CASE closed # "no"
    <3>1. Shut(conn[Client])
      BY <2>2 DEF HttpInv, OutputInv
    <3> QED
      BY <1>1, <2>2, <3>1, SendResetKeeps
  <2> QED
    BY <2>1, <2>2
<1>4. Len(Bytes(stream)) \in Nat /\ Bytes(stream)' = Bytes(stream)
  BY <1>1, StreamTyped DEF HttpInv, TypeOK
<1>5. TypeOK'
  BY <1>1, <1>3, <1>4 DEF HttpInv, TypeOK
<1>6. QueueInv'
  BY <1>1 DEF HttpInv, QueueInv, OnlyClosers, state
<1>7. ParseInv'
  BY <1>1 DEF HttpInv, ParseInv, Closing
<1> QED
  BY <1>3, <1>5, <1>6, <1>7 DEF HttpInv

(* The peer reads what the kernel holds.                                   *)
LEMMA PeerReadsKeeps ==
  ASSUME HttpInv, PeerReads
  PROVE  HttpInv'
<1> DEFINE out == sock[Client].sending
<1>1. PICK n \in 1..Len(out) :
        /\ delivered' = delivered \o SubSeq(out, 1, n)
        /\ sock' = [sock EXCEPT ![Client].sending = Rest(@, n)]
  BY DEF PeerReads
<1>2. UNCHANGED <<conn, connections_, pendingFunctors_, failed, outgrown, inBuffer_,
                  context, ok, stream, sent, received, closed, where, responses>>
  BY DEF PeerReads, parserVars
<1> DEFINE p == SubSeq(out, 1, n)
           q == Rest(out, n)
           D == OrNul(Pieces)
           o == conn[Client].outBuffer_.bytes
           d == delivered
           s == [sock[Client] EXCEPT !.sending = q]
<1>3. /\ sock[Client] \in Sockets(Pieces) /\ out \in Seq(D) /\ Len(out) <= SendRoom
      /\ o \in Seq(D) /\ d \in Seq(D)
  <2>1. sock[Client] \in Sockets(Pieces) /\ o \in Seq(D) /\ d \in Seq(D)
    BY ServerParts DEF HttpInv, TypeOK
  <2> QED
    BY <2>1 DEF Sockets
<1>4. n \in 0..Len(out) /\ n >= 1 /\ n <= Len(out) /\ Len(out) \in Nat
  BY <1>3
<1>5. sock' = [sock EXCEPT ![Client] = s]
  BY <1>1
<1> HIDE DEF out, D
<1>6. q \in Seq(D) /\ Len(q) = Len(out) - n
  BY <1>3, <1>4, RestTyped
<1>7. p \in Seq(D) /\ p \o q = out
  BY <1>3, <1>4, RestJoins
<1> HIDE DEF p, q
<1>8. s \in Sockets(Pieces) /\ s.sending = q
  <2>1. Len(q) <= SendRoom
    BY <1>3, <1>4, <1>6, SendRoomAssumption
  <2> QED
    BY <1>3, <1>6, <2>1 DEF Sockets, D
<1> HIDE DEF s
<1>9. sock' \in [{Client} -> Sockets(Pieces)] /\ sock'[Client].sending = q
  BY <1>5, <1>8, ServerParts DEF HttpInv
<1>10. state' \in Servers({Client}, {Base}, Pieces)
  BY <1>2, <1>9 DEF HttpInv, TypeOK, state, Servers
<1>11. d' = d \o p
  BY <1>1 DEF p
<1>12. d' \in Seq(D)
  BY <1>3, <1>7, <1>11
<1>13. OutputInv'
  <2>1. /\ Associate(D, p, q, o)
        /\ Associate(D, d, p, q \o o)
    <3>1. q \o o \in Seq(D) /\ p \in Seq(D)
      BY <1>3, <1>6, <1>7
    <3> QED
      BY <1>3, <1>6, <3>1, Associates
  <2>2. OutputOf(state', Client) = q \o o
    BY <1>2, <1>9, StateFieldsPrime, Zenon DEF OutputOf
  <2>3. OutputOf(state, Client) = out \o o
    BY StateFields, Zenon DEF OutputOf, out
  <2>4. d' \o OutputOf(state', Client) = d \o OutputOf(state, Client)
    BY <1>7, <1>11, <2>1, <2>2, <2>3, Zenon DEF Associate
  <2>5. d' \o q = d \o out
    <3>1. Associate(D, d, p, q)
      BY <1>3, <1>6, <1>7, Associates
    <3> QED
      BY <1>7, <1>11, <3>1, Zenon DEF Associate
  <2>6. /\ delivered' \o OutputOf(state', Client) = delivered \o OutputOf(state, Client)
        /\ delivered' \o sock'[Client].sending = delivered \o sock[Client].sending
    BY <1>9, <2>4, <2>5, Zenon DEF out
  <2> HIDE DEF o, d
  <2> QED
    BY <1>2, <2>6 DEF HttpInv, OutputInv
<1>14. TypeOK'
  <2>1. Bytes(stream)' = Bytes(stream)
    BY <1>2
  <2> QED
    BY <1>2, <1>10, <1>12, <2>1 DEF HttpInv, TypeOK, D
<1>15. QueueInv'
  BY <1>2 DEF HttpInv, QueueInv, OnlyClosers, state
<1>16. ParseInv'
  BY <1>2 DEF HttpInv, ParseInv, Closing
<1> QED
  BY <1>13, <1>14, <1>15, <1>16 DEF HttpInv

(* A poll finds no functor left.                                           *)
LEMMA PollKeeps ==
  ASSUME HttpInv, Poll
  PROVE  HttpInv'
<1> DEFINE k == [conn[Client] EXCEPT !.revents_ = Ready]
<1>1. /\ where = "poll" /\ where' \in {"handleRead", "handleWrite"}
      /\ conn' = [conn EXCEPT ![Client] = k]
      /\ UNCHANGED <<sock, connections_, pendingFunctors_, failed, outgrown, inBuffer_,
                     context, ok, stream, sent, received, delivered, closed, responses>>
  BY DEF Poll, parserVars, peerVars
<1>2. /\ k \in Connections({Base}, Pieces) /\ k.state_ = conn[Client].state_
      /\ k.outBuffer_ = conn[Client].outBuffer_ /\ k.writing_ = conn[Client].writing_
  <2>1. Ready \in SUBSET (Event \cup {"hup"})
    BY DEF Ready, Event
  <2> QED
    BY <2>1, ServerParts DEF HttpInv, Connections
<1> HIDE DEF k
<1>3. /\ conn' \in [{Client} -> Connections({Base}, Pieces)]
      /\ conn'[Client] = k
  BY <1>1, <1>2, ServerParts DEF HttpInv
<1>4. state' \in Servers({Client}, {Base}, Pieces)
  BY <1>1, <1>3 DEF HttpInv, TypeOK, state, Servers
<1>5. OutputInv'
  <2>1. OutputOf(state', Client) = OutputOf(state, Client)
    BY <1>1, <1>2, <1>3, StateFields, StateFieldsPrime DEF OutputOf
  <2>2. Shut(conn[Client]) => Shut(conn'[Client]) /\ sock'[Client].sending = sock[Client].sending
    BY <1>1, <1>2, <1>3 DEF Shut
  <2> QED
    BY <1>1, <2>1, <2>2, OutputStays
<1>6. TypeOK'
  <2>1. Bytes(stream)' = Bytes(stream)
    BY <1>1
  <2> QED
    BY <1>1, <1>4, <2>1 DEF HttpInv, TypeOK
<1>7. QueueInv'
  BY <1>1, <1>2, <1>3 DEF HttpInv, QueueInv, OnlyClosers, state
<1>8. ParseInv'
  BY <1>1, <1>2, <1>3 DEF HttpInv, ParseInv, Closing
<1> QED
  BY <1>5, <1>6, <1>7, <1>8 DEF HttpInv

(* What has arrived and was not read.                                      *)
LEMMA ArrivedTyped ==
  ASSUME TypeOK
  PROVE  Arrived \in Seq(Read) /\ Len(Arrived) = sent - received
<1> DEFINE b == Bytes(stream)
<1>1. b \in Seq(Read) /\ Len(b) \in Nat
  BY StreamTyped DEF TypeOK
<1>2. sent \in 0..Len(b) /\ received \in 0..sent
  BY DEF TypeOK
<1> HIDE DEF b
<1>3. SubSeq(b, received + 1, sent) \in Seq(Read)
      /\ Len(SubSeq(b, received + 1, sent)) = sent - received
  BY <1>1, <1>2
<1> QED
  BY <1>3 DEF Arrived, b

(* What is read goes behind what was left.                                 *)
LEMMA HandleMessageKeeps ==
  ASSUME HttpInv, HandleMessage
  PROVE  HttpInv'
<1> DEFINE s == [sock[Client] EXCEPT !.unread = FALSE]
           b == inBuffer_ \o Arrived
<1>1. /\ where = "handleRead"
      /\ inBuffer_' = b /\ received' = sent
      /\ where' = IF EndsBlank(b) THEN "parseRequest" ELSE "handleWrite"
      /\ sock' = [sock EXCEPT ![Client] = s]
      /\ UNCHANGED <<conn, connections_, pendingFunctors_, failed, outgrown, context, ok,
                     stream, sent, delivered, closed, responses>>
  BY DEF HandleMessage
<1>2. s \in Sockets(Pieces) /\ s.sending = sock[Client].sending
  BY ServerParts DEF HttpInv, Sockets
<1> HIDE DEF s
<1>3. sock' \in [{Client} -> Sockets(Pieces)] /\ sock'[Client].sending = sock[Client].sending
  BY <1>1, <1>2, ServerParts DEF HttpInv
<1>4. state' \in Servers({Client}, {Base}, Pieces)
  BY <1>1, <1>3 DEF HttpInv, TypeOK, state, Servers
<1>5. OutputInv'
  <2>1. OutputOf(state', Client) = OutputOf(state, Client)
    BY <1>1, <1>3, StateFields, StateFieldsPrime DEF OutputOf
  <2> QED
    BY <1>1, <1>3, <2>1, OutputStays
<1>6. /\ b \in Seq(Read) /\ Len(b) <= sent
  <2> DEFINE a == Arrived
  <2>1. a \in Seq(Read) /\ Len(a) = sent - received
    BY ArrivedTyped DEF HttpInv
  <2>2. inBuffer_ \in Seq(Read) /\ Len(inBuffer_) <= received
    BY DEF HttpInv, TypeOK, Read
  <2>3. sent \in Nat /\ received \in Nat /\ Len(inBuffer_) \in Nat
    <3>1. Len(Bytes(stream)) \in Nat /\ sent \in 0..Len(Bytes(stream)) /\ received \in 0..sent
      BY StreamTyped DEF HttpInv, TypeOK
    <3> QED
      BY <2>2, <3>1
  <2> HIDE DEF a
  <2>4. inBuffer_ \o a \in Seq(Read) /\ Len(inBuffer_ \o a) = Len(inBuffer_) + Len(a)
    BY <2>1, <2>2
  <2> QED
    BY <2>1, <2>2, <2>3, <2>4 DEF a
<1>7. EndsBlank(b) => EndsInLine(b) /\ Len(b) > 1
  <2>1. Len(<<>>) = 0
    OBVIOUS
  <2> QED
    BY <2>1 DEF EndsBlank, EndsInLine
<1> HIDE DEF b
<1>8. TypeOK'
  <2>1. Bytes(stream)' = Bytes(stream)
    BY <1>1
  <2>2. received' \in 0..sent' /\ sent' \in 0..Len(Bytes(stream))'
    <3>1. Len(Bytes(stream)) \in Nat /\ sent \in 0..Len(Bytes(stream))
      BY StreamTyped DEF HttpInv, TypeOK
    <3>2. sent \in 0..sent
      BY <3>1
    <3> QED
      BY <1>1, <2>1, <3>1, <3>2
  <2> QED
    BY <1>1, <1>4, <1>6, <2>1, <2>2 DEF HttpInv, TypeOK, Read
<1>9. QueueInv'
  BY <1>1 DEF HttpInv, QueueInv, OnlyClosers, state
<1>10. ParseInv'
  BY <1>1, <1>7 DEF HttpInv, ParseInv, Closing
<1> QED
  BY <1>5, <1>8, <1>9, <1>10 DEF HttpInv

(* setMethod's assertion stops the process.                                *)
LEMMA SetMethodFailsKeeps ==
  ASSUME HttpInv, SetMethodFails
  PROVE  HttpInv'
<1>1. /\ failed' = TRUE
      /\ UNCHANGED <<conn, sock, connections_, pendingFunctors_, outgrown, inBuffer_,
                     context, ok, stream, sent, received, delivered, closed, where, responses>>
  BY DEF SetMethodFails, parserVars, peerVars
<1>2. state' \in Servers({Client}, {Base}, Pieces)
  BY <1>1 DEF HttpInv, TypeOK, state, Servers
<1>3. OutputInv'
  <2>1. OutputOf(state', Client) = OutputOf(state, Client)
    BY <1>1, StateFields, StateFieldsPrime DEF OutputOf
  <2> QED
    BY <1>1, <2>1, OutputStays
<1>4. TypeOK'
  <2>1. Bytes(stream)' = Bytes(stream)
    BY <1>1
  <2> QED
    BY <1>1, <1>2, <2>1 DEF HttpInv, TypeOK
<1>5. QueueInv'
  BY <1>1 DEF HttpInv, QueueInv, OnlyClosers, state
<1>6. ParseInv'
  BY <1>1 DEF HttpInv, ParseInv, Closing
<1> QED
  BY <1>3, <1>4, <1>5, <1>6 DEF HttpInv

(* What a line that is not blank leaves of a message.                      *)
LEMMA AfterLineEnds ==
  ASSUME NEW b \in Seq(Read), EndsInLine(b), b[1] # CRLF
  PROVE  HasLine(b) /\ EndsInLine(AfterLine(b))
<1>1. Len(b) \in Nat /\ Len(b) # 0
  BY DEF EndsInLine
<1>2. Len(b) # 1 /\ Len(b) # 2
  BY <1>1 DEF EndsInLine
<1>3. Len(b) > 2
  <2> DEFINE n == Len(b)
  <2>1. n \in Nat /\ n # 0 /\ n # 1 /\ n # 2
    BY <1>1, <1>2
  <2> HIDE DEF n
  <2>2. n > 2
    BY <2>1
  <2> QED
    BY <2>2 DEF n
<1> DEFINE q == Rest(b, 2)
<1>4. AfterLine(b) = q
  BY DEF AfterLine, Rest
<1>5. q \in Seq(Read) /\ Len(q) = Len(b) - 2
  <2>1. 2 \in 0..Len(b)
    BY <1>1, <1>3
  <2> QED
    BY <2>1, RestTyped
<1>6. \A i \in 1..(Len(b) - 2) : q[i] = b[i + 2]
  BY <1>1, <1>3 DEF Rest
<1> HIDE DEF q
<1>7. Len(q) \in 1..(Len(b) - 2) /\ q[Len(q)] = CRLF
  <2>1. Len(q) \in 1..(Len(b) - 2) /\ Len(q) + 2 = Len(b)
    BY <1>1, <1>3, <1>5
  <2> QED
    BY <1>6, <2>1 DEF EndsInLine
<1>8. Len(q) > 1 => q[Len(q) - 1] = CRLF
  <2>1. Len(q) > 1 => Len(q) - 1 \in 1..(Len(b) - 2) /\ (Len(q) - 1) + 2 = Len(b) - 1
    BY <1>1, <1>3, <1>5
  <2> QED
    BY <1>3, <1>6, <2>1 DEF EndsInLine
<1>9. q # <<>>
  BY <1>1, <1>3, <1>5
<1> QED
  BY <1>1, <1>3, <1>4, <1>7, <1>8, <1>9 DEF EndsInLine, HasLine

(* A line that is not blank is where it stands, in front of a line end.    *)
LEMMA FirstLineSolid ==
  ASSUME NEW b, HasColon(FirstLine(b)) \/ WellFormed(FirstLine(b))
  PROVE  b[1] # CRLF
BY DEF FirstLine, HasColon, WellFormed, Method, Blank

(* A turn of parseRequest's loop.                                          *)
ParseTurn ==
  LET p == Parser(context, inBuffer_)
  IN  IF ~HasLine(inBuffer_) THEN [p EXCEPT !.hasMore = FALSE]
      ELSE IF context.state_ = "kExpectRequestLine"
           THEN ProcessRequestLine(p) ELSE ProcessHeader(p)

(* ParseRequest is such a turn.                                            *)
LEMMA ParseTurnIs ==
  ASSUME ParseRequest
  PROVE  /\ where = "parseRequest"
         /\ ~MethodAsserts
         /\ context.state_ \in {"kExpectRequestLine", "kExpectHeaders"}
         /\ context' = ParseTurn.context
         /\ inBuffer_' = ParseTurn.buf
         /\ ok' = ParseTurn.ok
         /\ where' = IF ParseTurn.hasMore THEN "parseRequest" ELSE "reply"
         /\ UNCHANGED serverVars
         /\ UNCHANGED <<stream, sent, received, delivered, closed, responses>>
BY DEF ParseRequest, ParseTurn, Parser, peerVars

(* Each turn finds a line, and the last one a whole request or a reason to *)
(* refuse it.                                                              *)
LEMMA ParseTurnKeeps ==
  ASSUME HttpInv, where = "parseRequest"
  PROVE  LET q == ParseTurn
         IN  /\ HasLine(inBuffer_)
             /\ q.context \in Contexts /\ q.ok \in BOOLEAN
             /\ q.buf \in Seq(Read) /\ Len(q.buf) <= Len(inBuffer_)
             /\ q.hasMore => /\ q.ok
                             /\ EndsInLine(q.buf)
                             /\ q.context.state_ = "kExpectHeaders"
             /\ ~q.hasMore =>
                  \/ q.ok /\ q.context.state_ = "kGotAll"
                  \/ /\ ~q.ok
                     /\ q.context.state_ = "kExpectRequestLine"
                     /\ q.context.Connection = ""
<1> DEFINE b == inBuffer_
           line == FirstLine(b)
           q == ParseTurn
           next == AfterLine(b)
<1>1. /\ context \in Contexts /\ b \in Seq(Read)
      /\ EndsInLine(b)
      /\ \/ /\ context.state_ = "kExpectRequestLine"
            /\ context.Connection = ""
            /\ Len(b) > 1
         \/ context.state_ = "kExpectHeaders"
  BY DEF HttpInv, TypeOK, ParseInv, Read
<1>2. Len(b) \in Nat
  BY <1>1, ReadLength
<1>3. HasLine(b)
  <2>1. b # <<>>
    BY <1>1 DEF EndsInLine
  <2>2. b[1] # CRLF => HasLine(b)
    BY <1>1, AfterLineEnds
  <2> QED
    BY <2>1, <2>2 DEF HasLine
<1>4. next \in Seq(Read) /\ Len(next) <= Len(b)
  <2>1. next \in Seq(Read) /\ Len(next) < Len(b)
    BY <1>1, <1>3, FirstLineTyped
  <2>2. Len(next) \in Nat
    BY <2>1
  <2> QED
    BY <1>2, <2>1, <2>2
<1>5. HasColon(line) \/ WellFormed(line) => EndsInLine(next)
  BY <1>1, FirstLineSolid, AfterLineEnds
<1> HIDE DEF b, next
<1>6. CASE context.state_ = "kExpectRequestLine"
  <2> DEFINE r == ProcessRequestLine(Parser(context, b))
  <2>1. q = r
    BY <1>3, <1>6 DEF ParseTurn, b
  <2>2. /\ r.context \in Contexts
        /\ r.context.Connection = context.Connection
        /\ WellFormed(line) =>
             /\ r.context = [context EXCEPT !.method_ = line.method, !.path_ = line.path,
                                            !.version_ = line.version,
                                            !.state_ = "kExpectHeaders"]
             /\ r.buf = AfterLine(b) /\ r.ok = TRUE /\ r.hasMore = TRUE
        /\ ~WellFormed(line) =>
             /\ r.context.state_ = context.state_
             /\ r.buf = b /\ r.ok = FALSE /\ r.hasMore = FALSE
    BY <1>1, <1>3, RequestLineParsed
  <2>3. context.Connection = ""
    BY <1>1, <1>6
  <2> HIDE DEF r, line
  <2>4. WellFormed(line) => r.context.state_ = "kExpectHeaders" /\ r.buf = next
    BY <1>1, <2>2 DEF Contexts, next
  <2>5. /\ r.ok \in BOOLEAN /\ r.buf \in Seq(Read) /\ Len(r.buf) <= Len(b)
    <3>1. r.buf \in {b, next} /\ r.ok \in BOOLEAN
      BY <2>2, <2>4
    <3>2. Len(b) <= Len(b)
      BY <1>2
    <3>3. b \in Seq(Read)
      BY <1>1
    <3> QED
      BY <1>4, <3>1, <3>2, <3>3
  <2>6. /\ r.hasMore => r.ok /\ EndsInLine(r.buf) /\ r.context.state_ = "kExpectHeaders"
        /\ ~r.hasMore => /\ ~r.ok
                         /\ r.context.state_ = "kExpectRequestLine"
                         /\ r.context.Connection = ""
    BY <1>5, <1>6, <2>2, <2>3, <2>4
  <2> QED
    BY <1>3, <2>1, <2>2, <2>5, <2>6 DEF b
<1>7. CASE context.state_ # "kExpectRequestLine"
  <2> DEFINE r == ProcessHeader(Parser(context, b))
  <2>1. q = r
    BY <1>3, <1>7 DEF ParseTurn, b
  <2>2. /\ r.context \in Contexts
        /\ r.buf = AfterLine(b) /\ r.ok = TRUE
        /\ HasColon(line) =>
             /\ r.context = [context EXCEPT !.Connection =
                               IF line.field = "Connection" THEN line.value ELSE @]
             /\ r.hasMore = TRUE
        /\ ~HasColon(line) =>
             /\ r.context = [context EXCEPT !.state_ = "kGotAll"]
             /\ r.hasMore = FALSE
    BY <1>1, <1>3, HeaderParsed
  <2>3. context.state_ = "kExpectHeaders"
    BY <1>1, <1>7
  <2> HIDE DEF r, line
  <2>4. /\ HasColon(line) => r.context.state_ = "kExpectHeaders"
        /\ ~HasColon(line) => r.context.state_ = "kGotAll"
    BY <1>1, <2>2, <2>3 DEF Contexts
  <2>5. /\ r.hasMore => r.ok /\ EndsInLine(r.buf) /\ r.context.state_ = "kExpectHeaders"
        /\ ~r.hasMore => r.ok /\ r.context.state_ = "kGotAll"
    BY <1>5, <2>2, <2>4 DEF next
  <2>6. /\ r.ok \in BOOLEAN /\ r.buf \in Seq(Read) /\ Len(r.buf) <= Len(b)
    BY <1>4, <2>2 DEF next
  <2> QED
    BY <1>3, <2>1, <2>2, <2>5, <2>6 DEF b
<1> QED
  BY <1>6, <1>7

(* A turn of parseRequest's loop.                                          *)
LEMMA ParseRequestKeeps ==
  ASSUME HttpInv, ParseRequest
  PROVE  HttpInv'
<1> DEFINE q == ParseTurn
<1>1. /\ context' = q.context /\ inBuffer_' = q.buf /\ ok' = q.ok
      /\ where = "parseRequest"
      /\ where' = IF q.hasMore THEN "parseRequest" ELSE "reply"
      /\ UNCHANGED serverVars
      /\ UNCHANGED <<stream, sent, received, delivered, closed, responses>>
  BY ParseTurnIs
<1>2. /\ q.context \in Contexts /\ q.ok \in BOOLEAN
      /\ q.buf \in Seq(Read) /\ Len(q.buf) <= Len(inBuffer_)
      /\ q.hasMore => q.ok /\ EndsInLine(q.buf) /\ q.context.state_ = "kExpectHeaders"
      /\ ~q.hasMore => \/ q.ok /\ q.context.state_ = "kGotAll"
                       \/ /\ ~q.ok
                          /\ q.context.state_ = "kExpectRequestLine"
                          /\ q.context.Connection = ""
  BY <1>1, ParseTurnKeeps
<1> HIDE DEF q
<1>3. /\ state' \in Servers({Client}, {Base}, Pieces)
      /\ conn'[Client].state_ \in Up
      /\ OnlyClosers(state')
      /\ OutputInv'
  BY <1>1, ServerStays
<1>4. TypeOK'
  <2>1. Bytes(stream)' = Bytes(stream)
    BY <1>1
  <2>2. Len(inBuffer_') <= received'
    <3>1. Len(inBuffer_) <= received /\ inBuffer_ \in Seq(Read)
      BY DEF HttpInv, TypeOK, Read
    <3>2. Len(inBuffer_) \in Nat /\ Len(q.buf) \in Nat
      BY <1>2, <3>1, ReadLength
    <3>3. received \in Nat
      BY StreamTyped DEF HttpInv, TypeOK
    <3>4. Len(q.buf) <= received
      <4> DEFINE m == Len(q.buf)
                 n == Len(inBuffer_)
      <4>1. m \in Nat /\ n \in Nat /\ m <= n /\ n <= received
        BY <1>2, <3>1, <3>2
      <4> HIDE DEF m, n
      <4>2. m <= received
        BY <3>3, <4>1
      <4> QED
        BY <4>2 DEF m
    <3>5. inBuffer_' = q.buf /\ received' = received
      BY <1>1
    <3> QED
      BY <3>4, <3>5
  <2> QED
    BY <1>1, <1>2, <1>3, <2>1, <2>2 DEF HttpInv, TypeOK, Read, serverVars
<1>5. QueueInv'
  BY <1>1, <1>3 DEF HttpInv, QueueInv, serverVars
<1>6. ParseInv'
  <2>1. where' = "parseRequest" => q.hasMore
    BY <1>1
  <2>2. where' = "reply" => ~q.hasMore
    BY <1>1
  <2>3. where' \in {"parseRequest", "reply"}
    BY <1>1
  <2> QED
    BY <1>1, <1>2, <2>1, <2>2, <2>3 DEF ParseInv
<1> QED
  BY <1>3, <1>4, <1>5, <1>6 DEF HttpInv

(* The reply goes behind the replies before, and the context is reset.     *)
LEMMA OnMessageKeeps ==
  ASSUME HttpInv, OnMessage
  PROVE  HttpInv'
<1> DEFINE gotAll == context.state_ = "kGotAll"
           r == IF ~ok THEN BadRequest
                ELSE OnRequest(context.path_, context.version_, context.Connection)
           v == Reply(state, Client, r.bytes, r.close)
<1>1. /\ where = "reply"
      /\ Becomes(v)
      /\ responses' = IF conn[Client].state_ = "kConnected"
                      THEN Append(responses, r) ELSE responses
      /\ context' = IF gotAll THEN Reset(context) ELSE context
      /\ ok' = TRUE
      /\ where' = "handleWrite"
      /\ UNCHANGED <<stream, sent, received, delivered, closed, inBuffer_>>
  <2>1. where = "reply"
    BY DEF OnMessage
  <2>2. ~ok \/ gotAll
    BY <2>1 DEF HttpInv, ParseInv
  <2> QED
    BY <2>2 DEF OnMessage, peerVars
<1>2. r \in Answers /\ r.bytes # <<>> /\ (~ok => r.close)
  BY OnRequestTyped, BadRequestTyped
<1>3. (ok /\ gotAll) \/ (~ok /\ ~gotAll /\ context.state_ = "kExpectRequestLine"
                         /\ context.Connection = "")
  BY <1>1 DEF HttpInv, ParseInv
<1> HIDE DEF gotAll, r
<1>4. /\ r.bytes \in Seq(Pieces) /\ r.close \in BOOLEAN
  BY <1>2 DEF Answers
<1>5. /\ state \in Servers({Client}, {Base}, Pieces)
      /\ state.conn[Client].loop = Base
      /\ Base \in {Base} /\ Client \in {Client}
  BY ServerParts, StateFields DEF HttpInv, TypeOK
<1>6. /\ Works({Client}, {Base}, Pieces, state, v, Client)
      /\ RepliesWith(state, v, Client, r.bytes, r.close)
  BY <1>2, <1>4, <1>5, ReplySends
<1> HIDE DEF v
<1>7. state' = v /\ v \in Servers({Client}, {Base}, Pieces)
      /\ conn' = v.conn /\ pendingFunctors_' = v.pendingFunctors_
      /\ connections_' = v.connections_
  BY <1>1, <1>6, BecomesIs DEF Works, Becomes
<1>8. context' \in Contexts
  <2>1. context \in Contexts
    BY DEF HttpInv, TypeOK
  <2>2. Reset(context) \in Contexts
    BY <2>1 DEF Reset, Swap, HttpContext, Contexts, Methods
  <2> QED
    BY <1>1, <2>1, <2>2
<1>9. responses' \in Seq(Answers)
  <2>1. responses \in Seq(Answers)
    BY DEF HttpInv, TypeOK, Answers
  <2> QED
    BY <1>1, <1>2, <2>1
<1> DEFINE outgrows == Outgrows(conn[Client].outBuffer_, v.conn[Client].outBuffer_)
<1>10. outgrown' = (outgrown \/ outgrows)
  BY <1>1 DEF Becomes
<1> HIDE DEF outgrows
<1>11. TypeOK'
  <2>1. Bytes(stream)' = Bytes(stream)
    BY <1>1
  <2>2. outgrown' \in BOOLEAN
    BY <1>10, Zenon
  <2> QED
    BY <1>1, <1>7, <1>8, <1>9, <2>1, <2>2 DEF HttpInv, TypeOK, Answers
<1>12. QueueInv'
  BY <1>1, <1>6, <1>7, StateFields DEF RepliesWith, HttpInv, QueueInv, Up, Closed
<1>13. ParseInv'
  <2>1. CASE gotAll
    <3>1. context' = [HttpContext EXCEPT !.version_ = context.version_]
      BY <1>1, <2>1 DEF Reset, Swap
    <3>2. /\ context'.state_ = "kExpectRequestLine" /\ context'.Connection = ""
          /\ context'.method_ = "kInvalid"
      BY <3>1 DEF HttpContext
    <3> QED
      BY <1>1, <3>2 DEF ParseInv
  <2>2. CASE ~gotAll
    <3>1. r.close /\ context' = context
          /\ context.state_ = "kExpectRequestLine" /\ context.Connection = ""
      BY <1>1, <1>2, <1>3, <2>2
    <3>2. Closing'
      BY <1>6, <1>7, <3>1 DEF Closing, RepliesWith
    <3> QED
      BY <1>1, <3>1, <3>2 DEF ParseInv
  <2> QED
    BY <2>1, <2>2
<1>14. OutputInv'
  <2>1. CASE conn[Client].state_ = "kConnected"
    <3> DEFINE D == OrNul(Pieces)
               d == delivered
               s == OutputOf(state, Client)
               o == OutputOf(v, Client)
               t == r.bytes
               all == Sent(responses)
               M == Holes(outgrown)
               N == Holes(outgrows)
    <3>1. /\ closed # "reset" /\ connections_ # {} /\ closed = "no"
          /\ Copies(d \o s, all, M)
      BY <2>1 DEF HttpInv, OutputInv, Shut
    <3>2. /\ Copies(o, s \o t, N)
          /\ v.connections_ = connections_
      BY <1>6, <2>1, StateFields DEF RepliesWith, Lossy, outgrows
    <3>3. /\ d \in Seq(D) /\ s \in Seq(D) /\ t \in Seq(D) /\ o \in Seq(D)
          /\ all \in Seq(Pieces) /\ all \in Seq(D)
          /\ Sent(responses') = all \o t
      <4>1. responses \in Seq(Answers)
        BY DEF HttpInv, TypeOK, Answers
      <4>2. Sent(Append(responses, r)) = all \o t /\ all \in Seq(Pieces)
        BY <1>2, <4>1, SentAppend
      <4>3. responses' = Append(responses, r)
        BY <1>1, <2>1
      <4>4. t \in Seq(D) /\ all \in Seq(D)
        BY <1>4, <4>2, SeqOrNul
      <4>5. s \in Seq(D) /\ o \in Seq(D) /\ d \in Seq(D)
        BY <1>5, <1>7, OutputTyped DEF HttpInv, TypeOK
      <4> QED
        BY <4>2, <4>3, <4>4, <4>5
    <3>4. Holes(outgrown') = M \cup N
      BY <1>10 DEF Holes
    <3> HIDE DEF D, d, s, o, t, all, M, N
    <3>5. Associate(D, d, s, t)
      BY <3>3, Associates
    <3> DEFINE K == M \cup N
               ds == d \o s
               st == s \o t
    <3>6. ds \in Seq(D) /\ st \in Seq(D)
      BY <3>3
    <3>7. Copies(d \o o, d \o st, N)
      <4>1. Copies(d, d, N)
        BY CopiesItself
      <4> HIDE DEF st
      <4> QED
        BY <3>2, <3>3, <3>6, <4>1, CopiesJoin DEF st
    <3>8. Copies(ds \o t, all \o t, M)
      <4>1. Copies(t, t, M)
        BY CopiesItself
      <4> HIDE DEF ds
      <4> QED
        BY <3>1, <3>3, <3>6, <4>1, CopiesJoin DEF ds
    <3>9. ds \o t = d \o st
      BY <3>5, Zenon DEF Associate
    <3>10. Copies(d \o o, all \o t, K)
      <4> DEFINE x == d \o o
                 y == ds \o t
                 z == all \o t
      <4>1. Copies(x, y, N) /\ Copies(y, z, M)
        BY <3>7, <3>8, <3>9, Zenon
      <4> HIDE DEF x, y, z
      <4>2. Copies(x, z, K)
        BY <4>1 DEF Copies, Like
      <4> QED
        BY <4>2 DEF x, z
    <3> HIDE DEF K
    <3>11. Copies(delivered' \o OutputOf(state', Client), Sent(responses'), Holes(outgrown'))
      BY <1>1, <1>7, <3>3, <3>4, <3>10, Zenon DEF d, o, K
    <3>12. connections_' # {} /\ closed' = "no"
      BY <1>1, <1>7, <3>1, <3>2
    <3> QED
      BY <3>11, <3>12 DEF OutputInv
  <2>2. CASE conn[Client].state_ # "kConnected"
    <3>1. responses' = responses /\ Keeps(state, v, Client)
      BY <1>1, <1>6, <2>2, StateFields DEF RepliesWith
    <3> QED
      BY <1>1, <1>6, <3>1, HandlerKeeps
  <2> QED
    BY <2>1, <2>2
<1> QED
  BY <1>11, <1>12, <1>13, <1>14 DEF HttpInv

(* The output goes on to the kernel.                                       *)
LEMMA WriteOutputKeeps ==
  ASSUME HttpInv, WriteOutput
  PROVE  HttpInv' /\ (Closing => Closing')
<1> DEFINE v == IF "out" \in conn[Client].revents_ THEN HandleWrite(state, Client) ELSE state
<1>1. /\ where = "handleWrite" /\ Becomes(v) /\ where' = "functors"
      /\ UNCHANGED <<inBuffer_, context, ok, stream, sent, received, delivered, closed, responses>>
  BY DEF WriteOutput, parserVars, peerVars
<1>2. /\ state \in Servers({Client}, {Base}, Pieces)
      /\ state.conn[Client].loop = Base
      /\ Base \in {Base} /\ Client \in {Client}
  BY ServerParts, StateFields DEF HttpInv, TypeOK
<1>3. Works({Client}, {Base}, Pieces, state, v, Client) /\ Keeps(state, v, Client)
  BY <1>2, HandleWriteWorks, HandleWriteKeeps, WorksReflexive, KeepsReflexive
<1> HIDE DEF v
<1>4. /\ state' \in Servers({Client}, {Base}, Pieces)
      /\ conn'[Client].state_ \in Up
      /\ OnlyClosers(state')
      /\ Closing => Closing'
      /\ OutputInv'
      /\ outgrown' = outgrown
  BY <1>1, <1>3, HandlerKeeps
<1>5. TypeOK'
  <2>1. Bytes(stream)' = Bytes(stream)
    BY <1>1
  <2> QED
    BY <1>1, <1>4, <2>1 DEF HttpInv, TypeOK
<1>6. QueueInv'
  BY <1>1, <1>4 DEF QueueInv
<1>7. ParseInv'
  BY <1>1, <1>4 DEF HttpInv, ParseInv
<1> QED
  BY <1>4, <1>5, <1>6, <1>7 DEF HttpInv

(* Only functors that close the connection are queued.                     *)
LEMMA RunNextKeeps ==
  ASSUME HttpInv, RunNext
  PROVE  HttpInv' /\ Closing'
<1> DEFINE p == pendingFunctors_[Base]
           f == Head(p)
           rest == [state EXCEPT !.pendingFunctors_[Base] = Tail(@)]
           v == RunFunctor(rest, f, <<>>)
           F == Functors({Client})
<1>1. /\ where = "functors" /\ p # <<>> /\ Becomes(v)
      /\ UNCHANGED <<inBuffer_, context, ok, stream, sent, received, delivered, closed,
                     where, responses>>
  BY DEF RunNext, parserVars, peerVars
<1>2. p \in Seq(F) /\ pendingFunctors_ \in [{Base} -> Seq(F)]
      /\ \A i \in DOMAIN p : p[i].op \in Closers
  BY ServerParts, StateFields DEF HttpInv, QueueInv, OnlyClosers
<1>3. /\ f \in F /\ f = p[1] /\ 1 \in DOMAIN p
      /\ Tail(p) \in Seq(F)
      /\ \A i \in DOMAIN Tail(p) : i + 1 \in DOMAIN p /\ Tail(p)[i] = p[i + 1]
  <2> HIDE DEF F
  <2> QED
    BY <1>1, <1>2
<1>4. f.op \in Closers /\ f.conn = Client
  BY <1>2, <1>3 DEF Functors
<1>5. /\ rest \in Servers({Client}, {Base}, Pieces)
      /\ rest.conn = conn /\ rest.sock = sock /\ rest.connections_ = connections_
      /\ rest.pendingFunctors_[Base] = Tail(p)
  <2> DEFINE t == Tail(p)
             q == [pendingFunctors_ EXCEPT ![Base] = t]
  <2>1. rest = [state EXCEPT !.pendingFunctors_ = q]
    BY DEF state
  <2> HIDE DEF F, t
  <2>2. q \in [{Base} -> Seq(F)] /\ q[Base] = t
    BY <1>2, <1>3 DEF t
  <2> HIDE DEF q, rest
  <2>3. /\ rest \in Servers({Client}, {Base}, Pieces)
        /\ rest.conn = conn /\ rest.sock = sock /\ rest.connections_ = connections_
        /\ rest.pendingFunctors_ = q
    BY <2>1, <2>2 DEF HttpInv, TypeOK, Servers, state, F
  <2> QED
    BY <2>2, <2>3 DEF t
<1> HIDE DEF p, f, rest, F
<1>6. /\ Works({Client}, {Base}, Pieces, rest, v, Client)
      /\ Keeps(rest, v, Client)
      /\ v.conn[Client].state_ # "kConnected"
  <2>1. rest.conn[Client].loop = Base /\ Base \in {Base} /\ Client \in {Client}
    BY <1>5, ServerParts DEF HttpInv
  <2>2. CASE f.op = "connectionDestroyed"
    <3>1. v = ConnectionDestroyed(rest, Client)
      BY <1>4, <2>2 DEF RunFunctor
    <3> HIDE DEF v
    <3> QED
      BY <1>5, <2>1, <3>1, ConnectionDestroyedKeeps
  <2>3. CASE f.op = "closeConnectionInLoop"
    <3>1. v = CloseConnectionInLoop(rest, Client)
      BY <1>4, <2>3 DEF RunFunctor
    <3> HIDE DEF v
    <3> QED
      BY <1>5, <2>1, <3>1, CloseConnectionInLoopKeeps
  <2> QED
    BY <1>4, <2>2, <2>3 DEF Closers
<1> HIDE DEF v
<1>7. /\ state' = v /\ state' \in Servers({Client}, {Base}, Pieces)
      /\ conn' = v.conn /\ sock' = v.sock /\ connections_' = v.connections_
      /\ outgrown' = outgrown
  <2>1. v.conn[Client].outBuffer_.capacity = state.conn[Client].outBuffer_.capacity
    BY <1>5, <1>6, StateFields DEF Keeps
  <2>2. outgrown' = outgrown
    BY <1>1, <2>1, SameCapacity DEF HttpInv
  <2> QED
    BY <1>1, <1>6, <2>2, BecomesIs DEF Works, Becomes
<1>8. OutputInv'
  <2>1. OutputOf(rest, Client) = OutputOf(state, Client)
    BY <1>5, StateFields DEF OutputOf
  <2>2. OutputOf(state', Client) = OutputOf(state, Client)
    BY <1>6, <1>7, <2>1 DEF Keeps
  <2>3. /\ Shut(conn[Client]) =>
             Shut(conn'[Client]) /\ sock'[Client].sending = sock[Client].sending
        /\ connections_' = connections_ \/ Shut(conn'[Client])
    BY <1>5, <1>6, <1>7 DEF Keeps
  <2> QED
    BY <1>1, <1>7, <2>2, <2>3, OutputStays
<1>9. QueueInv'
  <2>1. OnlyClosers(rest)
    BY <1>2, <1>3, <1>5 DEF OnlyClosers
  <2>2. OnlyClosers(state')
    BY <1>6, <1>7, <2>1 DEF Keeps
  <2>3. conn'[Client].state_ \in Up
    BY <1>5, <1>6, <1>7 DEF Keeps, HttpInv, QueueInv, Up, Closed
  <2> QED
    BY <1>1, <2>2, <2>3 DEF QueueInv
<1>10. Closing'
  BY <1>6, <1>7 DEF Closing
<1>11. ParseInv'
  BY <1>1, <1>10 DEF HttpInv, ParseInv
<1>12. TypeOK'
  <2>1. Bytes(stream)' = Bytes(stream)
    BY <1>1
  <2> QED
    BY <1>1, <1>7, <2>1 DEF HttpInv, TypeOK
<1> QED
  BY <1>8, <1>9, <1>10, <1>11, <1>12 DEF HttpInv

(* The loop goes back to its poll.                                         *)
LEMMA FinishFunctorsKeeps ==
  ASSUME HttpInv, FinishFunctors
  PROVE  HttpInv'
<1>1. /\ where = "functors" /\ pendingFunctors_[Base] = <<>> /\ where' = "poll"
      /\ \/ connections_ = {} /\ closed = "no" /\ SendReset
         \/ UNCHANGED sock /\ closed' = closed
         \/ UNCHANGED sock /\ connections_ = {} /\ closed = "no" /\ closed' = "end"
      /\ UNCHANGED <<conn, connections_, pendingFunctors_, failed, outgrown, inBuffer_, context,
                     ok, stream, sent, received, delivered, responses>>
  BY DEF FinishFunctors, parserVars
<1>2. connections_ = {} => Shut(conn[Client])
  BY DEF HttpInv, OutputInv
<1>3. /\ state' \in Servers({Client}, {Base}, Pieces)
      /\ closed' \in {"no", "end", "reset"}
      /\ OutputInv'
  <2>1. CASE connections_ = {} /\ closed = "no" /\ SendReset
    BY <1>1, <1>2, <2>1, SendResetKeeps
  <2>2. CASE UNCHANGED sock /\ closed' = closed
    <3>1. UNCHANGED serverVars
      BY <1>1, <2>2 DEF serverVars
    <3> QED
      BY <1>1, <2>2, <3>1, ServerStays DEF HttpInv, TypeOK
  <2>3. CASE UNCHANGED sock /\ connections_ = {} /\ closed = "no" /\ closed' = "end"
    <3>1. state' = state
      BY <1>1, <2>3 DEF state
    <3> QED
      BY <1>1, <1>2, <2>3, <3>1 DEF HttpInv, TypeOK, OutputInv
  <2> QED
    BY <1>1, <2>1, <2>2, <2>3
<1>4. TypeOK'
  <2>1. Bytes(stream)' = Bytes(stream)
    BY <1>1
  <2> QED
    BY <1>1, <1>3, <2>1 DEF HttpInv, TypeOK
<1>5. QueueInv'
  BY <1>1 DEF HttpInv, QueueInv, OnlyClosers, state
<1>6. ParseInv'
  BY <1>1 DEF HttpInv, ParseInv, Closing
<1> QED
  BY <1>3, <1>4, <1>5, <1>6 DEF HttpInv

(* Every step keeps the invariant.                                         *)
LEMMA HttpStep ==
  ASSUME HttpInv, [Next]_vars
  PROVE  HttpInv'
<1>1. CASE Next
  BY <1>1, PeerSendsKeeps, PeerReadsKeeps, PollKeeps, HandleMessageKeeps, SetMethodFailsKeeps,
     ParseRequestKeeps, OnMessageKeeps, WriteOutputKeeps, RunNextKeeps, FinishFunctorsKeeps
  DEF Next, LoopStep
<1>2. CASE UNCHANGED vars
  <2>1. /\ state' = state
        /\ UNCHANGED <<conn, pendingFunctors_, inBuffer_, context, ok, stream, sent, received,
                       delivered, where, responses, sock, connections_, closed, outgrown>>
    BY <1>2 DEF vars, serverVars, parserVars, peerVars, state
  <2>2. Bytes(stream)' = Bytes(stream)
    BY <2>1
  <2> QED
    BY <2>1, <2>2 DEF HttpInv, TypeOK, QueueInv, ParseInv, OutputInv, Closing
<1> QED
  BY <1>1, <1>2

-----------------------------------------------------------------------------
(* The stream, line by line. *)

(* A sequence in front is its elements in front.                           *)
LEMMA FlattenPrepend ==
  ASSUME NEW X, NEW ss \in Seq(Seq(X)), NEW s \in Seq(X),
         NEW tt \in Seq(Seq(X)), Len(tt) = Len(ss) + 1,
         tt[1] = s, \A i \in 1..Len(ss) : tt[i + 1] = ss[i]
  PROVE  Seqs!FlattenSeq(tt) = s \o Seqs!FlattenSeq(ss)
<1> DEFINE Y == Seq(X)
           n == Len(ss)
<1>1. n \in Nat /\ (n = 0 <=> ss = <<>>) /\ tt # <<>> /\ Len(tt) = n + 1
  OBVIOUS
<1>2. ss \in Seq(Y) /\ tt \in Seq(Y) /\ s \in Y /\ \A i \in 1..n : ss[i] \in Y
  OBVIOUS
<1>3. <<>> \in Y /\ (\A r, t \in Y : r \o t \in Y) /\ \A r \in Y : r \o <<>> = r
  OBVIOUS
<1>4. PICK f : Flattens(ss, f, n)
  BY <1>1, FlattenExists
<1>5. \A i \in 1..n : f[i] \in Y
  <2> HIDE DEF Y, n
  <2> QED
    BY <1>1, <1>2, <1>3, <1>4, FlattensTyped
<1>6. \A i \in 1..n : tt[i + 1] = ss[i]
  OBVIOUS
<1> DEFINE g == [i \in 1..(n + 1) |-> IF i = 1 THEN s ELSE s \o f[i - 1]]
           e(i) == IF i = 1 THEN tt[i] ELSE g[i - 1] \o tt[i]
<1>7. g = [i \in 1..(n + 1) |-> g[i]]
  OBVIOUS
<1>8. \A i \in 1..(n + 1) : g[i] = IF i = 1 THEN s ELSE s \o f[i - 1]
  OBVIOUS
<1> HIDE DEF g, n, Y
<1>9. ASSUME NEW i \in 1..(n + 1)
      PROVE  g[i] = e(i)
  <2>1. CASE i = 1
    BY <1>8, <2>1
  <2>2. CASE i # 1
    <3> DEFINE k == i - 1
               m == k - 1
               t == ss[k]
    <3>1. k \in 1..n /\ k \in 1..(n + 1) /\ k + 1 = i
      BY <1>1, <2>2
    <3>2. g[i] = s \o f[k] /\ tt[i] = t /\ t \in Y
      BY <1>2, <1>6, <1>8, <2>2, <3>1
    <3>3. g[k] = IF k = 1 THEN s ELSE s \o f[m]
      BY <1>8, <3>1
    <3>4. f[k] = IF k = 1 THEN t ELSE f[m] \o t
      <4>1. n \in Nat
        BY <1>1
      <4> HIDE DEF k
      <4> QED
        BY <1>4, <3>1, <4>1, FlattensValue
    <3>5. k # 1 => f[m] \in Y
      BY <1>1, <1>5, <3>1
    <3> HIDE DEF k, m, t
    <3>6. k # 1 => Associate(X, s, f[m], t)
      BY <3>2, <3>5, Associates DEF Y
    <3>7. g[i] = g[k] \o t
      BY <3>2, <3>3, <3>4, <3>6, Zenon DEF Associate
    <3> QED
      BY <2>2, <3>2, <3>7, Zenon DEF k
  <2> QED
    BY <2>1, <2>2
<1>10. Flattens(tt, g, n + 1)
  <2>1. [i \in 1..(n + 1) |-> g[i]] = [i \in 1..(n + 1) |-> e(i)]
    BY <1>9, Zenon
  <2> QED
    BY <1>7, <2>1, Zenon DEF Flattens
<1>11. Seqs!FlattenSeq(tt) = g[n + 1]
  BY <1>1, <1>2, <1>10, FlattenIs
<1>12. CASE n = 0
  <2>1. g[n + 1] = s
    BY <1>8, <1>12
  <2>2. Seqs!FlattenSeq(ss) = <<>>
    BY <1>1, <1>12, FlattenEmpty
  <2>3. s \o <<>> = s
    BY <1>2, <1>3
  <2> QED
    BY <1>11, <2>1, <2>2, <2>3, Zenon
<1>13. CASE n # 0
  <2>1. g[n + 1] = s \o f[n]
    <3>1. n + 1 \in 1..(n + 1) /\ (n + 1) - 1 = n /\ n + 1 # 1
      BY <1>1, <1>13
    <3>2. g[n + 1] = IF n + 1 = 1 THEN s ELSE s \o f[(n + 1) - 1]
      BY <1>8, <3>1, Zenon
    <3> QED
      BY <3>1, <3>2, Zenon
  <2>2. Seqs!FlattenSeq(ss) = f[n]
    BY <1>1, <1>2, <1>4, <1>13, FlattenIs DEF n
  <2> QED
    BY <1>11, <2>1, <2>2, Zenon
<1> QED
  BY <1>12, <1>13

(* The bytes of a line.                                                    *)
LineBytes(line) == IF line = Blank THEN <<CRLF>> ELSE <<line, CRLF>>

(* The first line of a stream gives the first of its bytes.                *)
LEMMA BytesFirst ==
  ASSUME NEW lines \in Seq(Lines), NEW i \in 1..Len(lines)
  PROVE  Bytes(Rest(lines, i - 1)) = LineBytes(lines[i]) \o Bytes(Rest(lines, i))
<1> DEFINE X == Read
           Y == Seq(X)
           p == Rest(lines, i - 1)
           q == Rest(lines, i)
           B(ls) == [k \in DOMAIN ls |-> LineBytes(ls[k])]
<1>1. \A line \in Lines : LineBytes(line) \in Y
  <2>1. CRLF \in X /\ \A line \in Lines : line \in X
    BY DEF Read
  <2> HIDE DEF X
  <2> QED
    BY <2>1 DEF LineBytes
<1>2. /\ p \in Seq(Lines) /\ q \in Seq(Lines)
      /\ Len(p) = Len(lines) - (i - 1) /\ Len(q) = Len(lines) - i
  <2> DEFINE n == Len(lines)
             h == i - 1
  <2>1. h \in 0..n /\ i \in 0..n
    OBVIOUS
  <2> HIDE DEF h
  <2>2. Rest(lines, h) \in Seq(Lines) /\ Len(Rest(lines, h)) = n - h
    BY <2>1, RestTyped
  <2>3. Rest(lines, i) \in Seq(Lines) /\ Len(Rest(lines, i)) = n - i
    BY <2>1, RestTyped
  <2> QED
    BY <2>2, <2>3 DEF h
<1>3. /\ \A k \in 1..(Len(lines) - (i - 1)) : p[k] = lines[k + (i - 1)]
      /\ \A k \in 1..(Len(lines) - i) : q[k] = lines[k + i]
  BY DEF Rest
<1>4. p[1] = lines[i] /\ \A k \in 1..Len(q) : p[k + 1] = q[k]
  <2>1. 1 \in 1..(Len(lines) - (i - 1)) /\ 1 + (i - 1) = i
    OBVIOUS
  <2>2. p[1] = lines[i]
    BY <1>3, <2>1
  <2>3. ASSUME NEW k \in 1..Len(q)
        PROVE  p[k + 1] = q[k]
    <3>1. /\ k \in 1..(Len(lines) - i) /\ k + 1 \in 1..(Len(lines) - (i - 1))
          /\ (k + 1) + (i - 1) = k + i
      BY <1>2
    <3>2. q[k] = lines[k + i] /\ p[k + 1] = lines[(k + 1) + (i - 1)]
      BY <1>3, <3>1
    <3> QED
      BY <3>1, <3>2
  <2> QED
    BY <2>2, <2>3
<1> HIDE DEF p, q, X, Y
<1>5. ASSUME NEW ls \in Seq(Lines)
      PROVE  /\ B(ls) \in Seq(Y) /\ Len(B(ls)) = Len(ls)
             /\ \A k \in 1..Len(ls) : B(ls)[k] = LineBytes(ls[k])
  <2>1. DOMAIN ls = 1..Len(ls) /\ Len(ls) \in Nat /\ \A k \in 1..Len(ls) : ls[k] \in Lines
    OBVIOUS
  <2>2. \A k \in 1..Len(ls) : LineBytes(ls[k]) \in Y
    BY <1>1, <2>1
  <2> QED
    BY <2>1, <2>2
<1>6. Len(p) = Len(q) + 1 /\ Len(q) \in Nat
  BY <1>2
<1>7. B(p)[1] = LineBytes(lines[i]) /\ \A k \in 1..Len(q) : B(p)[k + 1] = B(q)[k]
  BY <1>2, <1>4, <1>5, <1>6
<1>8. LineBytes(lines[i]) \in Y
  BY <1>1
<1>9. Bytes(p) = Seqs!FlattenSeq(B(p)) /\ Bytes(q) = Seqs!FlattenSeq(B(q))
  BY DEF Bytes, LineBytes
<1> DEFINE bp == B(p)
           bq == B(q)
           s == LineBytes(lines[i])
<1>10. /\ bp \in Seq(Seq(X)) /\ bq \in Seq(Seq(X)) /\ s \in Seq(X)
       /\ Len(bp) = Len(bq) + 1
       /\ bp[1] = s /\ \A k \in 1..Len(bq) : bp[k + 1] = bq[k]
  BY <1>2, <1>5, <1>6, <1>7, <1>8 DEF Y
<1> HIDE DEF bp, bq, s
<1>11. Seqs!FlattenSeq(bp) = s \o Seqs!FlattenSeq(bq)
  BY <1>10, FlattenPrepend
<1> QED
  BY <1>9, <1>11 DEF p, q, bp, bq, s

(* The whole stream, and what is behind it.                                *)
LEMMA BytesEnds ==
  ASSUME NEW lines \in Seq(Lines)
  PROVE  Rest(lines, 0) = lines /\ Bytes(Rest(lines, Len(lines))) = <<>>
<1>1. Rest(lines, 0) = lines
  BY DEF Rest
<1>2. Rest(lines, Len(lines)) = <<>>
  <2>1. Len(lines) \in 0..Len(lines)
    OBVIOUS
  <2> QED
    BY <2>1, RestTyped
<1>3. Bytes(<<>>) = <<>>
  <2>1. [i \in DOMAIN <<>> |-> LineBytes(<<>>[i])] = <<>>
    OBVIOUS
  <2> QED
    BY <2>1, FlattenEmpty DEF Bytes, LineBytes
<1> QED
  BY <1>1, <1>2, <1>3

(* What is taken from the first of two sequences.                          *)
LEMMA RestOfJoin ==
  ASSUME NEW B, NEW s \in Seq(B), NEW t \in Seq(B), NEW n \in 0..Len(s)
  PROVE  Rest(s \o t, n) = Rest(s, n) \o t
<1> DEFINE st == s \o t
           ls == Len(s)
           lt == Len(t)
           p == Rest(s, n)
           q == Rest(st, n)
           r == p \o t
<1>1. /\ ls \in Nat /\ lt \in Nat /\ n \in 0..ls
      /\ st \in Seq(B) /\ Len(st) = ls + lt
      /\ \A i \in 1..(ls + lt) : st[i] = IF i <= ls THEN s[i] ELSE t[i - ls]
  OBVIOUS
<1>2. p \in Seq(B) /\ Len(p) = ls - n /\ \A i \in 1..(ls - n) : p[i] = s[i + n]
  BY RestTyped DEF Rest
<1>3. /\ q \in Seq(B) /\ Len(q) = (ls + lt) - n
      /\ \A i \in 1..((ls + lt) - n) : q[i] = st[i + n]
  <2> HIDE DEF st, ls, lt
  <2>1. n \in 0..Len(st)
    BY <1>1
  <2>2. q \in Seq(B) /\ Len(q) = Len(st) - n
    BY <1>1, <2>1, RestTyped
  <2>3. \A i \in 1..(Len(st) - n) : q[i] = st[i + n]
    BY <1>1, <2>1 DEF Rest
  <2> QED
    BY <1>1, <2>2, <2>3
<1> HIDE DEF p, q, st
<1>4. /\ r \in Seq(B) /\ Len(r) = (ls - n) + lt
      /\ \A i \in 1..((ls - n) + lt) : r[i] = IF i <= ls - n THEN p[i] ELSE t[i - (ls - n)]
  <2>1. r \in Seq(B) /\ Joined(p, t, r)
    BY <1>2, JoinElements
  <2> HIDE DEF r
  <2> QED
    BY <1>2, <2>1 DEF Joined
<1> HIDE DEF ls, lt, r
<1>5. ASSUME NEW i \in 1..((ls + lt) - n)
      PROVE  q[i] = r[i]
  <2>1. i + n \in 1..(ls + lt) /\ i \in 1..((ls - n) + lt)
    BY <1>1
  <2>2. q[i] = st[i + n]
    BY <1>3
  <2>3. CASE i <= ls - n
    <3>1. i \in 1..(ls - n) /\ i + n <= ls
      BY <1>1, <2>1, <2>3
    <3> QED
      BY <1>1, <1>2, <1>4, <2>1, <2>2, <2>3, <3>1
  <2>4. CASE ~(i <= ls - n)
    <3>1. ~(i + n <= ls) /\ (i + n) - ls = i - (ls - n)
      BY <1>1, <2>1, <2>4
    <3> QED
      BY <1>1, <1>4, <2>1, <2>2, <2>4, <3>1
  <2> QED
    BY <2>3, <2>4
<1>6. (ls - n) + lt = (ls + lt) - n
  BY <1>1
<1>7. q = r
  BY <1>3, <1>4, <1>5, <1>6
<1> QED
  BY <1>7 DEF p, q, r, st

(* A line found is the one the parser stands at, and it stands at the next *)
(* one when that one is taken.                                             *)
LEMMA LineFound ==
  ASSUME NEW lines \in Seq(Lines), NEW i \in 1..(Len(lines) + 1),
         NEW b \in Seq(Read), NEW u \in Seq(Read), HasLine(b),
         b \o u = Bytes(Rest(lines, i - 1))
  PROVE  /\ i \in 1..Len(lines)
         /\ FirstLine(b) = lines[i]
         /\ AfterLine(b) \o u = Bytes(Rest(lines, i))
<1> DEFINE bu == b \o u
           n == Len(lines)
           t == Bytes(Rest(lines, i))
<1>1. Len(b) \in Nat /\ Len(b) # 0
  BY DEF HasLine
<1>2. bu \in Seq(Read) /\ Len(bu) # 0 /\ bu[1] = b[1]
  <2>1. bu \in Seq(Read) /\ Joined(b, u, bu)
    BY JoinElements
  <2>2. Len(u) \in Nat
    OBVIOUS
  <2> HIDE DEF bu
  <2> QED
    BY <1>1, <2>1, <2>2 DEF Joined
<1>3. i \in 1..n
  <2> SUFFICES ASSUME i = n + 1 PROVE FALSE
    OBVIOUS
  <2>1. i - 1 = n
    OBVIOUS
  <2>2. bu = <<>>
    BY <2>1, BytesEnds
  <2> QED
    BY <1>2, <2>2
<1>4. i \in 0..n
  BY <1>3
<1>5. Rest(lines, i) \in Seq(Lines)
  BY <1>4, RestTyped
<1>6. t \in Seq(Read)
  BY <1>5, BytesTyped
<1>7. lines[i] \in Lines /\ CRLF \notin Lines
  BY <1>3 DEF Lines, CRLF, Text, Blank
<1>8. bu = LineBytes(lines[i]) \o t
  BY <1>3, BytesFirst
<1> HIDE DEF t
<1>9. CASE lines[i] = Blank
  <2> DEFINE s == <<CRLF>>
  <2>1. s \in Seq(Read) /\ Len(s) = 1 /\ s[1] = CRLF
    BY DEF Read
  <2>2. bu = s \o t
    BY <1>8, <1>9 DEF LineBytes
  <2> HIDE DEF s
  <2>3. (s \o t)[1] = CRLF
    <3> DEFINE st == s \o t
    <3>1. Joined(s, t, st) /\ Len(t) \in Nat
      BY <1>6, <2>1, JoinElements
    <3> HIDE DEF st
    <3>2. st[1] = s[1]
      BY <2>1, <3>1 DEF Joined
    <3> QED
      BY <2>1, <3>2 DEF st
  <2>4. b[1] = CRLF
    BY <1>2, <2>2, <2>3
  <2>5. AfterLine(b) = Rest(b, 1)
    BY <1>1, <2>4 DEF AfterLine, Rest
  <2>6. Rest(bu, 1) = Rest(b, 1) \o u
    <3>1. 1 \in 0..Len(b)
      BY <1>1
    <3> QED
      BY <3>1, RestOfJoin
  <2>7. Rest(s \o t, 1) = t
    <3>1. 1 \in 0..Len(s)
      BY <2>1
    <3>2. Rest(s \o t, 1) = Rest(s, 1) \o t
      BY <1>6, <2>1, <3>1, RestOfJoin
    <3>3. Rest(s, 1) = <<>>
      BY <2>1, <3>1, RestTyped
    <3>4. <<>> \o t = t
      BY <1>6, JoinEmpty
    <3> QED
      BY <3>2, <3>3, <3>4, Zenon
  <2>8. FirstLine(b) = lines[i]
    BY <1>9, <2>4 DEF FirstLine
  <2>9. AfterLine(b) \o u = t
    BY <2>2, <2>5, <2>6, <2>7, Zenon
  <2> QED
    BY <1>3, <2>8, <2>9 DEF t
<1>10. CASE lines[i] # Blank
  <2> DEFINE s == <<lines[i], CRLF>>
  <2>1. s \in Seq(Read) /\ Len(s) = 2 /\ s[1] = lines[i]
    BY <1>7 DEF Read
  <2>2. bu = s \o t
    BY <1>8, <1>10 DEF LineBytes
  <2> HIDE DEF s
  <2>3. (s \o t)[1] = lines[i]
    <3> DEFINE st == s \o t
    <3>1. Joined(s, t, st) /\ Len(t) \in Nat
      BY <1>6, <2>1, JoinElements
    <3> HIDE DEF st
    <3>2. st[1] = s[1]
      BY <2>1, <3>1 DEF Joined
    <3> QED
      BY <2>1, <3>2 DEF st
  <2>4. b[1] = lines[i] /\ b[1] # CRLF /\ Len(b) > 1
    <3>1. b[1] = lines[i]
      BY <1>2, <2>2, <2>3
    <3> QED
      BY <1>7, <3>1 DEF HasLine
  <2>5. AfterLine(b) = Rest(b, 2)
    BY <2>4 DEF AfterLine, Rest
  <2>6. Rest(bu, 2) = Rest(b, 2) \o u
    <3>1. 2 \in 0..Len(b)
      BY <1>1, <2>4
    <3> QED
      BY <3>1, RestOfJoin
  <2>7. Rest(s \o t, 2) = t
    <3>1. 2 \in 0..Len(s)
      BY <2>1
    <3>2. Rest(s \o t, 2) = Rest(s, 2) \o t
      BY <1>6, <2>1, <3>1, RestOfJoin
    <3>3. Rest(s, 2) = <<>>
      BY <2>1, <3>1, RestTyped
    <3>4. <<>> \o t = t
      BY <1>6, JoinEmpty
    <3> QED
      BY <3>2, <3>3, <3>4, Zenon
  <2>8. FirstLine(b) = lines[i]
    BY <2>4 DEF FirstLine
  <2>9. AfterLine(b) \o u = t
    BY <2>2, <2>5, <2>6, <2>7, Zenon
  <2> QED
    BY <1>3, <2>8, <2>9 DEF t
<1> QED
  BY <1>9, <1>10

(* What arrives is what comes first of what was unread.                    *)
LEMMA PieceOfRest ==
  ASSUME NEW B, NEW data \in Seq(B), NEW n \in 0..Len(data), NEW m \in 0..n
  PROVE  SubSeq(data, m + 1, n) \o Rest(data, n) = Rest(data, m)
<1> DEFINE l == Len(data)
           p == SubSeq(data, m + 1, n)
           q == Rest(data, n)
           r == Rest(data, m)
           pq == p \o q
<1>1. l \in Nat /\ n \in 0..l /\ m \in 0..n /\ m \in 0..l
  OBVIOUS
<1>2. p \in Seq(B) /\ Len(p) = n - m /\ \A i \in 1..(n - m) : p[i] = data[i + m]
  OBVIOUS
<1>3. q \in Seq(B) /\ Len(q) = l - n /\ \A i \in 1..(l - n) : q[i] = data[i + n]
  BY RestTyped DEF Rest
<1>4. r \in Seq(B) /\ Len(r) = l - m /\ \A i \in 1..(l - m) : r[i] = data[i + m]
  BY <1>1, RestTyped DEF Rest
<1> HIDE DEF p, q, r, l
<1>5. /\ pq \in Seq(B) /\ Len(pq) = (n - m) + (l - n)
      /\ \A i \in 1..((n - m) + (l - n)) :
           pq[i] = IF i <= n - m THEN p[i] ELSE q[i - (n - m)]
  <2>1. pq \in Seq(B) /\ Joined(p, q, pq)
    BY <1>2, <1>3, JoinElements
  <2> HIDE DEF pq
  <2> QED
    BY <1>2, <1>3, <2>1 DEF Joined
<1> HIDE DEF pq
<1>6. (n - m) + (l - n) = l - m
  BY <1>1
<1>7. ASSUME NEW i \in 1..(l - m)
      PROVE  pq[i] = r[i]
  <2>1. CASE i <= n - m
    <3>1. i \in 1..(n - m)
      BY <1>1, <2>1
    <3> QED
      BY <1>2, <1>4, <1>5, <1>6, <2>1, <3>1
  <2>2. CASE ~(i <= n - m)
    <3>1. i - (n - m) \in 1..(l - n) /\ (i - (n - m)) + n = i + m
      BY <1>1, <2>2
    <3>2. q[i - (n - m)] = data[(i - (n - m)) + n]
      BY <1>3, <3>1
    <3> QED
      BY <1>4, <1>5, <1>6, <2>2, <3>1, <3>2
  <2> QED
    BY <2>1, <2>2
<1>8. pq = r
  BY <1>4, <1>5, <1>6, <1>7
<1> QED
  BY <1>8 DEF p, q, r, pq

-----------------------------------------------------------------------------
(* The replies to a stream. *)

(* A set of numbers has a first one.                                       *)
LEMMA FirstNumber ==
  ASSUME NEW S \in SUBSET Nat, S # {}
  PROVE  \E m \in S : \A n \in S : m <= n
<1>1. PICK m \in S : \A n \in S : ~ (<<n, m>> \in Less)
  BY LessWellFounded, WFMin
<1>2. \A x, y \in Nat : <<y, x>> \in Less <=> y < x
  BY DEF Less
<1>3. ASSUME NEW n \in S
      PROVE  m <= n
  <2>1. m \in Nat /\ n \in Nat
    OBVIOUS
  <2>2. ~(n < m)
    BY <1>1, <1>2, <2>1, Zenon
  <2> QED
    BY <2>1, <2>2
<1> QED
  BY <1>3

(* The first of the lines that end the headers is one of them.             *)
LEMMA HeadersEndIs ==
  ASSUME NEW lines, Len(lines) \in Nat, NEW i \in Nat, HeadersEnds(lines, i) # {}
  PROVE  /\ HeadersEnd(lines, i) \in HeadersEnds(lines, i)
         /\ \A k \in HeadersEnds(lines, i) : HeadersEnd(lines, i) <= k
<1> DEFINE S == HeadersEnds(lines, i)
<1>1. S \in SUBSET Nat
  BY DEF HeadersEnds
<1> HIDE DEF S
<1>2. \E m \in S : \A k \in S : m <= k
  BY <1>1, FirstNumber DEF S
<1>3. HeadersEnd(lines, i) = CHOOSE m \in S : \A k \in S : m <= k
  BY DEF HeadersEnd, S
<1> QED
  BY <1>2, <1>3 DEF S

(* The request on line i, when it is whole.                                *)
LEMMA EndInRange ==
  ASSUME NEW lines, Len(lines) \in Nat, NEW i \in 1..Len(lines), HeadersEnds(lines, i) # {}
  PROVE  /\ HeadersEnd(lines, i) \in (i + 1)..Len(lines)
         /\ HeadersEnd(lines, i) + 1 \in (i + 1)..(Len(lines) + 1)
<1>1. HeadersEnd(lines, i) \in HeadersEnds(lines, i)
  BY HeadersEndIs
<1>2. HeadersEnd(lines, i) \in (i + 1)..Len(lines)
  BY <1>1 DEF HeadersEnds
<1> QED
  BY <1>2

(* Only what is behind a line is looked up.                                *)
LEMMA RepliesLocal ==
  ASSUME NEW lines, Len(lines) \in Nat, NEW i \in 1..(Len(lines) + 1), NEW f, NEW g,
         \A k \in (i + 1)..(Len(lines) + 1) : f[k] = g[k]
  PROVE  RepliesFrom(lines, i, f) = RepliesFrom(lines, i, g)
<1> DEFINE end == HeadersEnd(lines, i)
<1>1. CASE i <= Len(lines) /\ HeadersEnds(lines, i) # {}
  <2>1. end + 1 \in (i + 1)..(Len(lines) + 1)
    BY <1>1, EndInRange
  <2>2. f[end + 1] = g[end + 1]
    BY <2>1
  <2> QED
    BY <2>2 DEF RepliesFrom
<1>2. CASE ~(i <= Len(lines) /\ HeadersEnds(lines, i) # {})
  BY <1>2 DEF RepliesFrom
<1> QED
  BY <1>1, <1>2

(* The replies that the lines from each line on ask for.                   *)
Later(lines) ==
  LET f[i \in 1..(Len(lines) + 1)] == RepliesFrom(lines, i, f) IN f

(* f is what Later is, for the last m lines.                               *)
LaterUpTo(lines, f, m) ==
  \A i \in 1..(Len(lines) + 1) :
    i + m > Len(lines) + 1 => f[i] = RepliesFrom(lines, i, f)

(* The recursion over the lines behind a line has a solution, by induction *)
(* over how many of them there are.                                        *)
LEMMA LaterExists ==
  ASSUME NEW lines, Len(lines) \in Nat
  PROVE  \A m \in Nat : \E f : f = [i \in 1..(Len(lines) + 1) |-> f[i]] /\ LaterUpTo(lines, f, m)
<1> DEFINE n == Len(lines) + 1
           P(f) == f = [i \in 1..n |-> f[i]]
           S == {m \in Nat : \E f : P(f) /\ LaterUpTo(lines, f, m)}
<1>0. n \in Nat
  OBVIOUS
<1>1. 0 \in S
  <2> DEFINE f == [i \in 1..n |-> 0]
  <2>1. P(f)
    OBVIOUS
  <2>2. LaterUpTo(lines, f, 0)
    BY DEF LaterUpTo
  <2> HIDE DEF f
  <2> QED
    BY <2>1, <2>2
<1>2. ASSUME NEW m \in Nat, m \in S
      PROVE  m + 1 \in S
  <2>1. PICK f : P(f) /\ LaterUpTo(lines, f, m)
    BY <1>2
  <2> DEFINE g == [i \in 1..n |-> IF i + m = n THEN RepliesFrom(lines, i, f) ELSE f[i]]
  <2>2. P(g)
    OBVIOUS
  <2>3. \A i \in 1..n : g[i] = IF i + m = n THEN RepliesFrom(lines, i, f) ELSE f[i]
    OBVIOUS
  <2> HIDE DEF g
  <2>4. ASSUME NEW i \in 1..n, i + (m + 1) > n
        PROVE  g[i] = RepliesFrom(lines, i, g)
    <3>1. i + m >= n
      BY <1>0, <2>4
    <3>2. ASSUME NEW k \in (i + 1)..n PROVE f[k] = g[k]
      <4>1. k \in 1..n /\ k + m # n
        BY <1>0, <3>1
      <4> QED
        BY <2>3, <4>1
    <3>3. RepliesFrom(lines, i, f) = RepliesFrom(lines, i, g)
      BY <3>2, RepliesLocal
    <3>4. g[i] = RepliesFrom(lines, i, f)
      <4>1. CASE i + m = n
        BY <2>3, <4>1
      <4>2. CASE i + m # n
        <5>1. i + m > n
          BY <1>0, <3>1, <4>2
        <5>2. f[i] = RepliesFrom(lines, i, f)
          BY <2>1, <5>1 DEF LaterUpTo
        <5> QED
          BY <2>3, <4>2, <5>2
      <4> QED
        BY <4>1, <4>2
    <3> QED
      BY <3>3, <3>4
  <2>5. LaterUpTo(lines, g, m + 1)
    BY <2>4 DEF LaterUpTo
  <2> QED
    BY <2>2, <2>5
<1> HIDE DEF S
<1>3. Nat \subseteq S
  BY <1>1, <1>2, Induction
<1> QED
  BY <1>3 DEF S

(* Later is that solution.                                                 *)
LEMMA LaterIs ==
  ASSUME NEW lines, Len(lines) \in Nat, NEW i \in 1..(Len(lines) + 1)
  PROVE  Later(lines)[i] = RepliesFrom(lines, i, Later(lines))
<1> DEFINE n == Len(lines) + 1
           e(f) == [j \in 1..n |-> RepliesFrom(lines, j, f)]
           l == Later(lines)
<1>1. PICK f : f = [j \in 1..n |-> f[j]] /\ LaterUpTo(lines, f, n)
  <2>1. n \in Nat
    OBVIOUS
  <2> QED
    BY <2>1, LaterExists
<1>2. \A j \in 1..n : f[j] = RepliesFrom(lines, j, f)
  <2>1. \A j \in 1..n : j + n > n
    OBVIOUS
  <2> QED
    BY <1>1, <2>1 DEF LaterUpTo
<1>3. [j \in 1..n |-> f[j]] = e(f)
  BY <1>2, Zenon
<1>4. f = e(f)
  BY <1>1, <1>3, Zenon
<1>5. l = CHOOSE g : g = e(g)
  BY DEF Later
<1> HIDE DEF l
<1>6. l = e(l)
  BY <1>4, <1>5, Zenon
<1>7. e(l)[i] = RepliesFrom(lines, i, l)
  OBVIOUS
<1>8. l[i] = RepliesFrom(lines, i, l)
  BY <1>6, <1>7, Zenon
<1> QED
  BY <1>8 DEF l

(* The replies to the lines from any line on are replies.                  *)
LEMMA LaterTyped ==
  ASSUME NEW lines, Len(lines) \in Nat
  PROVE  \A i \in 1..(Len(lines) + 1) : Later(lines)[i] \in Seq(Answers)
<1> DEFINE n == Len(lines) + 1
           l == Later(lines)
           Y == Seq(Answers)
           S == {m \in Nat : \A i \in 1..n : i + m > n => l[i] \in Y}
<1>0. n \in Nat
  OBVIOUS
<1>1. 0 \in S
  BY <1>0
<1>2. /\ <<>> \in Y /\ <<BadRequest>> \in Y
      /\ \A i, end : <<Answer(lines, i, end)>> \in Y
      /\ \A s, t \in Y : s \o t \in Y
  <2>1. BadRequest \in Answers
    BY BadRequestTyped
  <2>2. \A i, end : Answer(lines, i, end) \in Answers
    BY OnRequestTyped DEF Answer
  <2> QED
    BY <2>1, <2>2
<1> HIDE DEF Y, l
<1>3. ASSUME NEW m \in Nat, m \in S
      PROVE  m + 1 \in S
  <2>1. ASSUME NEW i \in 1..n, i + (m + 1) > n
        PROVE  l[i] \in Y
    <3> DEFINE end == HeadersEnd(lines, i)
    <3>1. l[i] = RepliesFrom(lines, i, l)
      BY LaterIs DEF l
    <3>2. CASE i <= Len(lines) /\ HeadersEnds(lines, i) # {}
      <4>1. end + 1 \in (i + 1)..n
        BY <3>2, EndInRange
      <4>2. end + 1 \in 1..n /\ (end + 1) + m > n
        BY <1>0, <2>1, <4>1
      <4>3. l[end + 1] \in Y
        BY <1>3, <4>2
      <4> QED
        BY <1>2, <3>1, <3>2, <4>3 DEF RepliesFrom
    <3>3. CASE ~(i <= Len(lines) /\ HeadersEnds(lines, i) # {})
      BY <1>2, <3>1, <3>3 DEF RepliesFrom
    <3> QED
      BY <3>2, <3>3
  <2> QED
    BY <2>1
<1> HIDE DEF S
<1>4. Nat \subseteq S
  BY <1>1, <1>3, Induction
<1>5. n \in S /\ \A i \in 1..n : i + n > n
  BY <1>0, <1>4
<1>6. \A i \in 1..n : l[i] \in Y
  BY <1>5 DEF S
<1> QED
  BY <1>6 DEF l, Y

(* The replies to a stream are those from its first line on.               *)
LEMMA RepliesAre ==
  ASSUME NEW lines
  PROVE  Replies(lines) = Later(lines)[1]
BY DEF Replies, Later

(* What a whole request on line i adds.                                    *)
LEMMA HeadersEndAt ==
  ASSUME NEW lines, Len(lines) \in Nat, NEW i \in 1..Len(lines), NEW j \in (i + 1)..Len(lines),
         \A k \in (i + 1)..(j - 1) : HasColon(lines[k]), ~HasColon(lines[j])
  PROVE  HeadersEnds(lines, i) # {} /\ HeadersEnd(lines, i) = j
<1> DEFINE end == HeadersEnd(lines, i)
           S == HeadersEnds(lines, i)
<1>1. j \in S
  BY DEF HeadersEnds
<1> HIDE DEF end
<1>2. end \in S /\ end <= j
  BY <1>1, HeadersEndIs DEF end
<1>3. end \in (i + 1)..Len(lines) /\ ~HasColon(lines[end])
  BY <1>2 DEF HeadersEnds
<1>4. ~(end \in (i + 1)..(j - 1))
  BY <1>3
<1> HIDE DEF S
<1>5. end = j
  BY <1>2, <1>3, <1>4
<1> QED
  BY <1>1, <1>5 DEF end, S

(* The headers up to a line, and those up to the next.                     *)
LEMMA LastConnectionStep ==
  ASSUME NEW lines, NEW i \in Nat, NEW j \in Nat, i <= j
  PROVE  LastConnection(lines, i, j) =
           IF lines[j].field = "Connection" THEN lines[j].value
                                            ELSE LastConnection(lines, i, j - 1)
<1> DEFINE at(m) == {k \in i..m : lines[k].field = "Connection"}
<1>1. CASE lines[j].field = "Connection"
  <2> DEFINE c == CHOOSE k \in at(j) : \A m \in at(j) : m <= k
  <2>1. j \in at(j) /\ \A m \in at(j) : m <= j
    BY <1>1
  <2>2. c \in at(j) /\ \A m \in at(j) : m <= c
    <3> DEFINE T == at(j)
    <3> HIDE DEF T
    <3>1. \E k \in T : \A m \in T : m <= k
      BY <2>1 DEF T
    <3>2. c = CHOOSE k \in T : \A m \in T : m <= k
      BY DEF T
    <3> HIDE DEF c
    <3> QED
      BY <3>1, <3>2 DEF T
  <2> HIDE DEF c
  <2>3. c = j
    BY <2>1, <2>2
  <2>4. LastConnection(lines, i, j) = lines[c].value
    BY <2>1 DEF LastConnection, c
  <2> QED
    BY <1>1, <2>3, <2>4
<1>2. CASE lines[j].field # "Connection"
  <2> DEFINE value(T) ==
               IF T = {} THEN "" ELSE lines[CHOOSE k \in T : \A m \in T : m <= k].value
  <2>1. at(j) = at(j - 1)
    BY <1>2
  <2>2. /\ LastConnection(lines, i, j) = value(at(j))
        /\ LastConnection(lines, i, j - 1) = value(at(j - 1))
    BY Zenon DEF LastConnection
  <2> HIDE DEF value
  <2>3. LastConnection(lines, i, j) = LastConnection(lines, i, j - 1)
    BY <2>1, <2>2, Zenon
  <2> QED
    BY <1>2, <2>3
<1> QED
  BY <1>1, <1>2

(* Before the first header no header asks for anything.                    *)
LEMMA NoHeadersYet ==
  ASSUME NEW lines, NEW i \in Nat
  PROVE  LastConnection(lines, i, i - 1) = ""
<1>1. {k \in i..(i - 1) : lines[k].field = "Connection"} = {}
  OBVIOUS
<1> QED
  BY <1>1, Zenon DEF LastConnection

(* What is joined begins with its first part.                              *)
LEMMA PrefixOfJoin ==
  ASSUME NEW B, NEW s \in Seq(B), NEW t \in Seq(B)
  PROVE  Seqs!IsPrefix(s, s \o t)
<1> DEFINE st == s \o t
           n == Len(s)
<1>1. st \in Seq(B) /\ Joined(s, t, st) /\ n \in Nat /\ Len(t) \in Nat
  BY JoinElements
<1> HIDE DEF st
<1>2. n <= Len(st)
  BY <1>1 DEF Joined
<1>3. \A i \in 1..n : st[i] = s[i]
  BY <1>1 DEF Joined
<1>4. SubSeq(s, 1, n) = SubSeq(st, 1, n)
  <2>1. \A i \in 1..n : SubSeq(s, 1, n)[i] = s[i] /\ SubSeq(st, 1, n)[i] = st[i]
    BY <1>1, <1>2
  <2>2. /\ SubSeq(s, 1, n) \in Seq(B) /\ SubSeq(st, 1, n) \in Seq(B)
        /\ Len(SubSeq(s, 1, n)) = n /\ Len(SubSeq(st, 1, n)) = n
    BY <1>1, <1>2
  <2> QED
    BY <1>3, <2>1, <2>2
<1> QED
  BY <1>2, <1>4 DEF Seqs!IsPrefix, st

-----------------------------------------------------------------------------
(* The replies are in order. *)

(* What has not been read of the stream.                                   *)
Unread == Rest(Bytes(stream), received)

(* The lines before i have been taken from the buffer.                     *)
StandsAt(i) == inBuffer_ \o Unread = Bytes(Rest(stream, i - 1))

(* The parser is between two requests, the next of which starts on line i. *)
Between(i) == ok /\ context.state_ = "kExpectRequestLine" /\ StandsAt(i)

(* The request line i was refused.                                         *)
Refused(i) == ~ok /\ i <= Len(stream) /\ ~WellFormed(stream[i])

(* The context has what lines i to j - 1 say.                              *)
Parsed(i, j) ==
  /\ ok
  /\ i <= Len(stream) /\ WellFormed(stream[i])
  /\ context.path_ = stream[i].path /\ context.version_ = stream[i].version
  /\ \A k \in (i + 1)..(j - 1) : HasColon(stream[k])
  /\ context.Connection = LastConnection(stream, i + 1, j - 1)

(* The parser is within the headers of the request on line i, at line j.   *)
Within(i, j) ==
  Parsed(i, j) /\ context.state_ = "kExpectHeaders" /\ StandsAt(j)

(* The request on line i is whole, and ended with line j.                  *)
Whole(i, j) ==
  /\ Parsed(i, j) /\ context.state_ = "kGotAll"
  /\ j <= Len(stream) /\ ~HasColon(stream[j]) /\ StandsAt(j + 1)

(* The lines a request may start on, and the end of the stream.            *)
Lasts == 1..(Len(stream) + 1)

(* The parser is at the request that starts on line i.                     *)
Stands(i) ==
  \/ Between(i)
  \/ Refused(i)
  \/ \E j \in Lasts : j > i /\ (Within(i, j) \/ Whole(i, j))

(* The replies still to come are those from line i on; once the connection *)
(* closes there are none.                                                  *)
ReplyInv ==
  IF Closing THEN RepliesInOrder
  ELSE \E i \in Lasts : responses \o Later(stream)[i] = Replies(stream) /\ Stands(i)

(* A stream is a sequence of lines.                                        *)
LEMMA StreamLines ==
  ASSUME TypeOK
  PROVE  stream \in Seq(Lines) /\ Len(stream) \in Nat /\ responses \in Seq(Answers)
<1>1. stream \in Seq(Lines)
  BY StreamsAssumption DEF TypeOK
<1> QED
  BY <1>1 DEF TypeOK, Answers

(* When the replies sent and those to come are all replies, the replies    *)
(* sent come first among them.                                             *)
LEMMA AskedPrefix ==
  ASSUME NEW lines, Len(lines) \in Nat, NEW i \in 1..(Len(lines) + 1),
         NEW rs \in Seq(Answers), rs \o Later(lines)[i] = Replies(lines)
  PROVE  Seqs!IsPrefix(rs, Replies(lines))
<1> DEFINE l == Later(lines)[i]
<1>1. l \in Seq(Answers)
  BY LaterTyped
<1> HIDE DEF l
<1>2. Seqs!IsPrefix(rs, rs \o l)
  BY <1>1, PrefixOfJoin
<1> QED
  BY <1>2 DEF l

(* Closing or not, no reply is out of order.                               *)
LEMMA ReplyInvOrders ==
  ASSUME TypeOK, ReplyInv
  PROVE  RepliesInOrder
BY StreamLines, AskedPrefix DEF ReplyInv, RepliesInOrder, Lasts

(* The parser at some request, with the replies sent and those to come all *)
(* replies, is enough for ReplyInv.                                        *)
LEMMA StillAsked ==
  ASSUME TypeOK, stream' = stream, responses' \in Seq(Answers),
         NEW i \in Lasts, responses' \o Later(stream)[i] = Replies(stream), Stands(i)'
  PROVE  ReplyInv'
<1>1. Seqs!IsPrefix(responses', Replies(stream))
  BY StreamLines, AskedPrefix DEF Lasts
<1>2. RepliesInOrder'
  BY <1>1 DEF RepliesInOrder
<1>3. /\ i \in Lasts'
      /\ responses' \o Later(stream')[i] = Replies(stream')
  BY DEF Lasts
<1> QED
  BY <1>2, <1>3 DEF ReplyInv

(* No reply is sent.                                                       *)
LEMMA RepliesStay ==
  ASSUME TypeOK, ReplyInv, stream' = stream, responses' = responses, Closing => Closing',
         ASSUME NEW i \in Lasts, Stands(i) PROVE Stands(i)'
  PROVE  ReplyInv'
<1>1. CASE Closing
  <2>1. RepliesInOrder'
    BY <1>1 DEF ReplyInv, RepliesInOrder
  <2> QED
    BY <1>1, <2>1 DEF ReplyInv
<1>2. CASE ~Closing
  <2>1. PICK i \in Lasts : responses \o Later(stream)[i] = Replies(stream) /\ Stands(i)
    BY <1>2 DEF ReplyInv
  <2>2. Stands(i)'
    BY <2>1
  <2>3. responses' \in Seq(Answers)
    BY StreamLines
  <2>4. responses' \o Later(stream)[i] = Replies(stream)
    BY <2>1
  <2> QED
    BY <2>2, <2>3, <2>4, StillAsked
<1> QED
  BY <1>1, <1>2

(* The parser does nothing.                                                *)
LEMMA ParserStays ==
  ASSUME TypeOK, ReplyInv, UNCHANGED <<stream, responses, context, ok>>, Closing => Closing',
         ASSUME NEW i, StandsAt(i) PROVE StandsAt(i)'
  PROVE  ReplyInv'
<1>1. ASSUME NEW i \in Lasts, Stands(i)
      PROVE  Stands(i)'
  <2>1. CASE Between(i)
    BY <2>1 DEF Stands, Between
  <2>2. CASE Refused(i)
    BY <2>2 DEF Stands, Refused
  <2>3. CASE \E j \in Lasts : j > i /\ (Within(i, j) \/ Whole(i, j))
    <3>1. PICK j \in Lasts : j > i /\ (Within(i, j) \/ Whole(i, j))
      BY <2>3
    <3>2. Parsed(i, j) => Parsed(i, j)'
      BY DEF Parsed
    <3>3. Within(i, j)' \/ Whole(i, j)'
      BY <3>1, <3>2 DEF Within, Whole
    <3>4. j \in Lasts'
      BY DEF Lasts
    <3> QED
      BY <3>1, <3>3, <3>4 DEF Stands
  <2> QED
    BY <1>1, <2>1, <2>2, <2>3 DEF Stands
<1> QED
  BY <1>1, RepliesStay

(* The parser starts at the first line.                                    *)
LEMMA ReplyInit ==
  ASSUME HttpInv, Init
  PROVE  ReplyInv
<1> DEFINE b == Bytes(stream)
           l == Later(stream)[1]
<1>1. stream \in Seq(Lines) /\ Len(stream) \in Nat /\ 1 \in Lasts
  BY StreamLines DEF HttpInv, Lasts
<1>2. b \in Seq(Read)
  BY StreamTyped DEF HttpInv, TypeOK
<1>3. Between(1)
  <2>1. Rest(stream, 0) = stream
    BY <1>1, BytesEnds
  <2>2. 1 - 1 = 0
    OBVIOUS
  <2>3. Rest(b, 0) = b
    <3> HIDE DEF b
    <3> QED
      BY <1>2 DEF Rest
  <2>4. <<>> \o b = b
    <3> HIDE DEF b
    <3> QED
      BY <1>2, JoinEmpty
  <2>5. inBuffer_ = <<>> /\ Unread = Rest(b, 0)
    BY DEF Init, Unread
  <2>6. StandsAt(1)
    BY <2>1, <2>2, <2>3, <2>4, <2>5, Zenon DEF StandsAt
  <2> QED
    BY <2>6 DEF Between, Init, HttpContext
<1>4. responses \o l = Replies(stream)
  <2>1. l \in Seq(Answers)
    BY <1>1, LaterTyped
  <2> HIDE DEF l
  <2>2. <<>> \o l = l
    BY <2>1, JoinEmpty
  <2>3. responses = <<>>
    BY DEF Init
  <2> QED
    BY <2>2, <2>3, RepliesAre, Zenon DEF l
<1>5. RepliesInOrder
  <2>1. responses \in Seq(Answers)
    BY StreamLines DEF HttpInv
  <2> QED
    BY <1>1, <1>4, <2>1, AskedPrefix DEF RepliesInOrder, Lasts
<1> QED
  BY <1>1, <1>3, <1>4, <1>5 DEF ReplyInv, Stands

(* The loop and the peer between two replies.                              *)
LEMMA ServerStaysInOrder ==
  ASSUME HttpInv, ReplyInv,
         UNCHANGED <<stream, received, inBuffer_, context, ok, responses>>, Closing => Closing'
  PROVE  ReplyInv'
<1>1. ASSUME NEW i, StandsAt(i)
      PROVE  StandsAt(i)'
  BY <1>1 DEF StandsAt, Unread
<1> QED
  BY <1>1, ParserStays DEF HttpInv

(* What is read comes next in the stream.                                  *)
LEMMA HandleMessageInOrder ==
  ASSUME HttpInv, ReplyInv, HandleMessage
  PROVE  ReplyInv'
<1> DEFINE b == Bytes(stream)
           a == Arrived
           u == Rest(b, sent)
<1>1. /\ inBuffer_' = inBuffer_ \o a /\ received' = sent
      /\ UNCHANGED <<conn, pendingFunctors_, context, ok, stream, responses>>
  BY DEF HandleMessage
<1>2. /\ b \in Seq(Read) /\ Len(b) \in Nat
      /\ sent \in 0..Len(b) /\ received \in 0..sent
      /\ inBuffer_ \in Seq(Read)
  BY StreamTyped DEF HttpInv, TypeOK, Read
<1>3. a \in Seq(Read)
  BY ArrivedTyped DEF HttpInv
<1>4. Unread' = u
  BY <1>1 DEF Unread
<1>5. a = SubSeq(b, received + 1, sent)
  BY DEF Arrived
<1>6. Unread = Rest(b, received)
  BY DEF Unread
<1> HIDE DEF a, b, u
<1>7. u \in Seq(Read)
  BY <1>2, RestTyped DEF u
<1>8. a \o u = Unread
  BY <1>2, <1>5, <1>6, PieceOfRest DEF u
<1>9. Associate(Read, inBuffer_, a, u)
  BY <1>2, <1>3, <1>7, Associates
<1>10. inBuffer_' \o Unread' = inBuffer_ \o Unread
  BY <1>1, <1>4, <1>8, <1>9, Zenon DEF Associate
<1>11. ASSUME NEW i, StandsAt(i)
       PROVE  StandsAt(i)'
  <2>1. Bytes(Rest(stream', i - 1)) = Bytes(Rest(stream, i - 1))
    BY <1>1
  <2> QED
    BY <1>10, <1>11, <2>1, Zenon DEF StandsAt
<1>12. Closing => Closing'
  BY <1>1 DEF Closing
<1> QED
  BY <1>1, <1>11, <1>12, ParserStays DEF HttpInv

(* The parser takes the line it stands at.                                 *)
LEMMA ParseLine ==
  ASSUME HttpInv, where = "parseRequest", NEW j \in Lasts, StandsAt(j)
  PROVE  /\ HasLine(inBuffer_) /\ inBuffer_ \in Seq(Read)
         /\ j \in 1..Len(stream) /\ j + 1 \in Lasts
         /\ FirstLine(inBuffer_) = stream[j]
         /\ AfterLine(inBuffer_) \o Unread = Bytes(Rest(stream, j))
<1>1. HasLine(inBuffer_)
  BY ParseTurnKeeps
<1>2. stream \in Seq(Lines) /\ Len(stream) \in Nat /\ inBuffer_ \in Seq(Read)
  BY StreamLines DEF HttpInv, TypeOK, Read
<1>3. Unread \in Seq(Read)
  <2> DEFINE b == Bytes(stream)
  <2>1. b \in Seq(Read) /\ Len(b) \in Nat /\ sent \in 0..Len(b) /\ received \in 0..sent
    BY StreamTyped DEF HttpInv, TypeOK
  <2> HIDE DEF b
  <2>2. received \in 0..Len(b)
    BY <2>1
  <2> QED
    BY <2>1, <2>2, RestTyped DEF Unread, b
<1>4. inBuffer_ \o Unread = Bytes(Rest(stream, j - 1)) /\ j \in 1..(Len(stream) + 1)
  BY DEF StandsAt, Lasts
<1>5. /\ j \in 1..Len(stream)
      /\ FirstLine(inBuffer_) = stream[j]
      /\ AfterLine(inBuffer_) \o Unread = Bytes(Rest(stream, j))
  BY <1>1, <1>2, <1>3, <1>4, LineFound
<1>6. j + 1 \in Lasts
  BY <1>2, <1>5 DEF Lasts
<1> QED
  BY <1>1, <1>2, <1>5, <1>6

(* A line taken from the buffer is the one the parser stood at.            *)
LEMMA TurnTaken ==
  ASSUME HttpInv, ParseRequest, NEW j \in Nat,
         AfterLine(inBuffer_) \o Unread = Bytes(Rest(stream, j)),
         inBuffer_' = AfterLine(inBuffer_)
  PROVE  StandsAt(j + 1)'
<1>1. UNCHANGED <<stream, received>>
  BY ParseTurnIs
<1>2. Unread' = Unread
  BY <1>1 DEF Unread
<1>3. (j + 1) - 1 = j
  OBVIOUS
<1> QED
  BY <1>1, <1>2, <1>3 DEF StandsAt

(* A turn of the loop that takes a request line                            *)
(* (HttpContext::parseRequest).                                            *)
LEMMA RequestLineInOrder ==
  ASSUME HttpInv, ParseRequest, NEW i \in Lasts, Between(i)
  PROVE  Stands(i)'
<1> DEFINE b == inBuffer_
           r == ProcessRequestLine(Parser(context, b))
           line == stream[i]
<1>1. /\ where = "parseRequest" /\ context.state_ = "kExpectRequestLine"
      /\ UNCHANGED <<stream, received>>
      /\ context' = ParseTurn.context /\ inBuffer_' = ParseTurn.buf /\ ok' = ParseTurn.ok
  BY ParseTurnIs DEF Between
<1>2. /\ HasLine(b) /\ b \in Seq(Read)
      /\ i \in 1..Len(stream) /\ i + 1 \in Lasts
      /\ FirstLine(b) = line
      /\ AfterLine(b) \o Unread = Bytes(Rest(stream, i))
  BY <1>1, ParseLine DEF Between
<1>3. ParseTurn = r
  BY <1>1, <1>2 DEF ParseTurn
<1>4. context \in Contexts /\ context.Connection = ""
  BY <1>1 DEF HttpInv, TypeOK, ParseInv
<1>5. /\ WellFormed(line) =>
           /\ r.context = [context EXCEPT !.method_ = line.method, !.path_ = line.path,
                                          !.version_ = line.version,
                                          !.state_ = "kExpectHeaders"]
           /\ r.buf = AfterLine(b) /\ r.ok = TRUE
      /\ ~WellFormed(line) => r.ok = FALSE
  <2> HIDE DEF line, r
  <2> QED
    BY <1>2, <1>4, RequestLineParsed DEF r
<1> HIDE DEF r, line
<1>6. CASE WellFormed(line)
  <2>1. /\ context'.path_ = line.path /\ context'.version_ = line.version
        /\ context'.state_ = "kExpectHeaders" /\ context'.Connection = ""
    BY <1>1, <1>3, <1>4, <1>5, <1>6 DEF Contexts
  <2>2. ok' = TRUE /\ inBuffer_' = AfterLine(b)
    BY <1>1, <1>3, <1>5, <1>6
  <2>3. i \in Nat /\ i + 1 > i /\ (i + 1) - 1 = i /\ i <= Len(stream) /\ i + 1 \in Nat
    BY <1>2
  <2>4. StandsAt(i + 1)'
    BY <1>2, <2>2, <2>3, TurnTaken
  <2>5. LastConnection(stream, i + 1, (i + 1) - 1) = ""
    BY <2>3, NoHeadersYet
  <2>6. \A k \in (i + 1)..((i + 1) - 1) : HasColon(stream[k])
    BY <2>3
  <2>7. Parsed(i, i + 1)'
    BY <1>1, <1>6, <2>1, <2>2, <2>3, <2>5, <2>6 DEF Parsed, line
  <2>8. Within(i, i + 1)' /\ i + 1 \in Lasts'
    BY <1>1, <1>2, <2>1, <2>4, <2>7 DEF Within, Lasts
  <2> QED
    BY <2>3, <2>8 DEF Stands
<1>7. CASE ~WellFormed(line)
  <2>1. ok' = FALSE /\ i <= Len(stream)
    BY <1>1, <1>2, <1>3, <1>5, <1>7
  <2> QED
    BY <1>1, <1>7, <2>1 DEF Stands, Refused, line
<1> QED
  BY <1>6, <1>7

(* A turn of the loop that takes a header, or the line that ends them.     *)
LEMMA HeaderInOrder ==
  ASSUME HttpInv, ParseRequest, NEW i \in Lasts, NEW j \in Lasts, j > i, Within(i, j)
  PROVE  Stands(i)'
<1> DEFINE b == inBuffer_
           r == ProcessHeader(Parser(context, b))
           line == stream[j]
<1>1. /\ where = "parseRequest" /\ context.state_ = "kExpectHeaders"
      /\ UNCHANGED <<stream, received>>
      /\ context' = ParseTurn.context /\ inBuffer_' = ParseTurn.buf /\ ok' = ParseTurn.ok
  BY ParseTurnIs DEF Within
<1>2. /\ HasLine(b) /\ b \in Seq(Read)
      /\ j \in 1..Len(stream) /\ j + 1 \in Lasts
      /\ FirstLine(b) = line
      /\ AfterLine(b) \o Unread = Bytes(Rest(stream, j))
  BY <1>1, ParseLine DEF Within
<1>3. ParseTurn = r
  BY <1>1, <1>2 DEF ParseTurn
<1>4. context \in Contexts
  BY DEF HttpInv, TypeOK
<1>5. /\ r.buf = AfterLine(b) /\ r.ok = TRUE
      /\ HasColon(line) =>
           r.context = [context EXCEPT !.Connection =
                          IF line.field = "Connection" THEN line.value ELSE @]
      /\ ~HasColon(line) => r.context = [context EXCEPT !.state_ = "kGotAll"]
  <2> HIDE DEF line, r
  <2> QED
    BY <1>2, <1>4, HeaderParsed DEF r
<1> HIDE DEF r, line
<1>6. ok' = TRUE /\ inBuffer_' = AfterLine(b)
  BY <1>1, <1>3, <1>5
<1>7. /\ i \in Nat /\ j \in Nat /\ i + 1 <= j /\ j + 1 > i /\ i <= Len(stream)
      /\ (j + 1) - 1 = j /\ j <= Len(stream)
  BY <1>2 DEF Lasts
<1>8. StandsAt(j + 1)'
  BY <1>2, <1>6, <1>7, TurnTaken
<1>9. Parsed(i, j)
  BY DEF Within
<1>10. CASE HasColon(line)
  <2>1. /\ context'.path_ = context.path_ /\ context'.version_ = context.version_
        /\ context'.state_ = "kExpectHeaders"
        /\ context'.Connection = IF line.field = "Connection" THEN line.value
                                                              ELSE context.Connection
    BY <1>1, <1>3, <1>4, <1>5, <1>10 DEF Contexts
  <2>2. LastConnection(stream, i + 1, j) =
          IF line.field = "Connection" THEN line.value
                                       ELSE LastConnection(stream, i + 1, j - 1)
    <3>1. i + 1 \in Nat
      BY <1>7
    <3> QED
      BY <1>7, <3>1, LastConnectionStep DEF line
  <2>3. context'.Connection = LastConnection(stream, i + 1, (j + 1) - 1)
    BY <1>7, <1>9, <2>1, <2>2 DEF Parsed
  <2>4. \A k \in (i + 1)..((j + 1) - 1) : HasColon(stream[k])
    <3>1. \A k \in (i + 1)..((j + 1) - 1) : k = j \/ k \in (i + 1)..(j - 1)
      BY <1>7
    <3> QED
      BY <1>9, <1>10, <3>1 DEF Parsed, line
  <2>5. Parsed(i, j + 1)'
    BY <1>1, <1>6, <1>9, <2>1, <2>3, <2>4 DEF Parsed
  <2>6. Within(i, j + 1)' /\ j + 1 \in Lasts'
    BY <1>1, <1>2, <1>8, <2>1, <2>5 DEF Within, Lasts
  <2> QED
    BY <1>7, <2>6 DEF Stands
<1>11. CASE ~HasColon(line)
  <2>1. /\ context'.path_ = context.path_ /\ context'.version_ = context.version_
        /\ context'.state_ = "kGotAll" /\ context'.Connection = context.Connection
    BY <1>1, <1>3, <1>4, <1>5, <1>11 DEF Contexts
  <2>2. Parsed(i, j)'
    BY <1>1, <1>6, <1>9, <2>1 DEF Parsed
  <2>3. Whole(i, j)' /\ j \in Lasts'
    BY <1>1, <1>7, <1>8, <1>11, <2>1, <2>2 DEF Whole, Lasts, line
  <2> QED
    BY <2>3 DEF Stands
<1> QED
  BY <1>10, <1>11

(* ParseRequest is one turn or the other.                                  *)
LEMMA ParseRequestInOrder ==
  ASSUME HttpInv, ReplyInv, ParseRequest
  PROVE  ReplyInv'
<1>1. /\ where = "parseRequest" /\ ok
      /\ context.state_ \in {"kExpectRequestLine", "kExpectHeaders"}
      /\ UNCHANGED <<stream, responses, conn, pendingFunctors_>>
  BY ParseTurnIs DEF HttpInv, ParseInv, serverVars
<1>2. ASSUME NEW i \in Lasts, Stands(i)
      PROVE  Stands(i)'
  <2>1. CASE Between(i)
    BY <2>1, RequestLineInOrder
  <2>2. CASE \E j \in Lasts : j > i /\ Within(i, j)
    BY <2>2, HeaderInOrder
  <2>3. ~Refused(i) /\ \A j : ~Whole(i, j)
    BY <1>1 DEF Refused, Whole
  <2> QED
    BY <1>2, <2>1, <2>2, <2>3 DEF Stands
<1>3. Closing => Closing'
  BY <1>1 DEF Closing
<1> QED
  BY <1>1, <1>2, <1>3, RepliesStay DEF HttpInv

(* What a request adds, when it is whole or refused.                       *)
LEMMA WholeAsks ==
  ASSUME NEW lines, Len(lines) \in Nat, NEW i \in 1..Len(lines), NEW j \in (i + 1)..Len(lines),
         WellFormed(lines[i]),
         \A k \in (i + 1)..(j - 1) : HasColon(lines[k]), ~HasColon(lines[j])
  PROVE  LET r == Answer(lines, i, j)
         IN  Later(lines)[i] = IF r.close THEN <<r>> ELSE <<r>> \o Later(lines)[j + 1]
<1>1. HeadersEnds(lines, i) # {} /\ HeadersEnd(lines, i) = j
  BY HeadersEndAt
<1>2. Later(lines)[i] = RepliesFrom(lines, i, Later(lines))
  BY LaterIs
<1> QED
  BY <1>1, <1>2 DEF RepliesFrom

(* A request refused asks for a 400 and nothing after it.                  *)
LEMMA RefusedAsks ==
  ASSUME NEW lines, Len(lines) \in Nat, NEW i \in 1..Len(lines), ~WellFormed(lines[i])
  PROVE  Later(lines)[i] = <<BadRequest>>
<1>1. Later(lines)[i] = RepliesFrom(lines, i, Later(lines))
  BY LaterIs
<1> QED
  BY <1>1 DEF RepliesFrom

(* The reply that goes out is the next one of those to come.               *)
LEMMA OnMessageInOrder ==
  ASSUME HttpInv, ReplyInv, OnMessage
  PROVE  ReplyInv'
<1> DEFINE gotAll == context.state_ = "kGotAll"
           r == IF ~ok THEN BadRequest
                ELSE OnRequest(context.path_, context.version_, context.Connection)
           v == Reply(state, Client, r.bytes, r.close)
           q == Append(responses, r)
<1>1. /\ where = "reply"
      /\ Becomes(v)
      /\ responses' = IF conn[Client].state_ = "kConnected" THEN q ELSE responses
      /\ context' = IF gotAll THEN Reset(context) ELSE context
      /\ ok' = TRUE
      /\ UNCHANGED <<stream, received, inBuffer_>>
  <2>1. where = "reply"
    BY DEF OnMessage
  <2>2. ~ok \/ gotAll
    BY <2>1 DEF HttpInv, ParseInv
  <2> QED
    BY <2>2 DEF OnMessage, peerVars
<1>2. /\ state \in Servers({Client}, {Base}, Pieces)
      /\ state.conn[Client].loop = Base
      /\ Base \in {Base} /\ Client \in {Client}
  BY ServerParts, StateFields DEF HttpInv, TypeOK
<1>3. r \in Answers /\ r.bytes # <<>>
  BY OnRequestTyped, BadRequestTyped
<1>4. (ok /\ gotAll) \/ ~ok
  BY <1>1 DEF HttpInv, ParseInv
<1> HIDE DEF r
<1>5. r.bytes \in Seq(Pieces) /\ r.close \in BOOLEAN
  BY <1>3 DEF Answers
<1>6. /\ Works({Client}, {Base}, Pieces, state, v, Client)
      /\ RepliesWith(state, v, Client, r.bytes, r.close)
  BY <1>2, <1>3, <1>5, ReplySends
<1> HIDE DEF v
<1>7. /\ conn' = v.conn /\ pendingFunctors_' = v.pendingFunctors_
      /\ r.close => Closing'
      /\ conn'[Client].state_ \in {conn[Client].state_} \cup Closed
  BY <1>1, <1>6, StateFields DEF Becomes, RepliesWith, Closing
<1>8. /\ pendingFunctors_[Base] = <<>> /\ conn[Client].state_ \in Up
  BY <1>1 DEF HttpInv, QueueInv
<1>9. /\ stream \in Seq(Lines) /\ Len(stream) \in Nat /\ responses \in Seq(Answers)
  BY StreamLines DEF HttpInv
<1>10. CASE Closing
  <2>1. conn[Client].state_ \in Closed /\ conn[Client].state_ # "kConnected"
    BY <1>8, <1>10 DEF Closing, Up
  <2>2. Closing'
    BY <1>7, <2>1 DEF Closing, Closed
  <2>3. RepliesInOrder'
    BY <1>1, <1>10, <2>1 DEF ReplyInv, RepliesInOrder
  <2> QED
    BY <2>2, <2>3 DEF ReplyInv
<1>11. CASE ~Closing
  <2>1. responses' = q
    BY <1>1, <1>11 DEF Closing
  <2>2. q = responses \o <<r>> /\ q \in Seq(Answers) /\ <<r>> \in Seq(Answers)
    BY <1>3, <1>9
  <2>3. PICK i \in Lasts : responses \o Later(stream)[i] = Replies(stream) /\ Stands(i)
    BY <1>11 DEF ReplyInv
  <2> HIDE DEF q
  <2>4. ASSUME Later(stream)[i] = <<r>>, r.close
        PROVE  ReplyInv'
    <3>1. q = Replies(stream)
      BY <2>2, <2>3, <2>4
    <3>2. q \o <<>> = q /\ <<>> \in Seq(Answers)
      BY <2>2, JoinEmpty
    <3>3. Seqs!IsPrefix(q, q \o <<>>)
      BY <2>2, <3>2, PrefixOfJoin
    <3>4. RepliesInOrder'
      BY <1>1, <2>1, <3>1, <3>2, <3>3 DEF RepliesInOrder
    <3> QED
      BY <1>7, <2>4, <3>4 DEF ReplyInv
  <2>5. CASE ~ok
    <3>1. i \in 1..Len(stream) /\ ~WellFormed(stream[i])
      BY <1>9, <2>3, <2>5 DEF Stands, Between, Refused, Within, Whole, Parsed, Lasts
    <3>2. r = BadRequest /\ r.close
      BY <2>5, BadRequestTyped DEF r
    <3> QED
      BY <1>9, <2>4, <3>1, <3>2, RefusedAsks
  <2>6. CASE ok
    <3>1. gotAll
      BY <1>4, <2>6
    <3>2. PICK j \in Lasts : j > i /\ Whole(i, j)
      BY <2>3, <2>6, <3>1 DEF Stands, Between, Refused, Within
    <3>3. /\ i \in 1..Len(stream) /\ j \in (i + 1)..Len(stream)
          /\ j + 1 \in Lasts
      BY <1>9, <3>2 DEF Whole, Parsed, Lasts
    <3>4. /\ WellFormed(stream[i]) /\ ~HasColon(stream[j])
          /\ \A k \in (i + 1)..(j - 1) : HasColon(stream[k])
          /\ StandsAt(j + 1)
      BY <3>2 DEF Whole, Parsed
    <3>5. r = Answer(stream, i, j)
      BY <2>6, <3>2 DEF r, Whole, Parsed, Answer
    <3> DEFINE l == Later(stream)[j + 1]
    <3>6. Later(stream)[i] = IF r.close THEN <<r>> ELSE <<r>> \o l
      BY <1>9, <3>3, <3>4, <3>5, WholeAsks
    <3>7. CASE r.close
      BY <2>4, <3>6, <3>7
    <3>8. CASE ~r.close
      <4>1. l \in Seq(Answers)
        BY <1>9, <3>3, LaterTyped DEF Lasts
      <4>2. Later(stream)[i] = <<r>> \o l
        BY <3>6, <3>8
      <4> DEFINE rs == <<r>>
      <4> HIDE DEF l, rs
      <4>3. Associate(Answers, responses, rs, l)
        <5>1. rs \in Seq(Answers)
          BY <2>2 DEF rs
        <5> QED
          BY <1>9, <4>1, <5>1, Associates
      <4>4. responses' \o l = Replies(stream)
        BY <2>1, <2>2, <2>3, <4>2, <4>3, Zenon DEF Associate, rs
      <4>5. StandsAt(j + 1)'
        BY <1>1, <3>4 DEF StandsAt, Unread
      <4>6. context'.state_ = "kExpectRequestLine"
        BY <1>1, <3>1 DEF Reset, Swap, HttpContext
      <4>7. Stands(j + 1)'
        BY <1>1, <4>5, <4>6 DEF Stands, Between
      <4>8. responses' \in Seq(Answers)
        BY <2>1, <2>2
      <4> QED
        BY <1>1, <3>3, <4>4, <4>7, <4>8, StillAsked DEF HttpInv, l
    <3> QED
      BY <3>7, <3>8
  <2> QED
    BY <2>5, <2>6
<1> QED
  BY <1>10, <1>11

(* Every step keeps the replies in order.                                  *)
LEMMA ReplyStep ==
  ASSUME HttpInv, ReplyInv, [Next]_vars
  PROVE  ReplyInv'
<1>1. CASE HandleMessage
  BY <1>1, HandleMessageInOrder
<1>2. CASE ParseRequest
  BY <1>2, ParseRequestInOrder
<1>3. CASE OnMessage
  BY <1>3, OnMessageInOrder
<1>4. CASE WriteOutput
  BY <1>4, WriteOutputKeeps, ServerStaysInOrder DEF WriteOutput, parserVars, peerVars
<1>5. CASE RunNext
  BY <1>5, RunNextKeeps, ServerStaysInOrder DEF RunNext, parserVars, peerVars
<1>6. CASE Poll
  <2>1. Closing => Closing'
    <3>1. conn'[Client].state_ = conn[Client].state_ /\ pendingFunctors_' = pendingFunctors_
      BY <1>6, ServerParts DEF Poll, HttpInv, Connections
    <3> QED
      BY <3>1 DEF Closing
  <2> QED
    BY <1>6, <2>1, ServerStaysInOrder DEF Poll, parserVars, peerVars
<1>7. CASE PeerSends \/ PeerReads \/ SetMethodFails \/ FinishFunctors \/ UNCHANGED vars
  <2>1. UNCHANGED <<conn, pendingFunctors_, stream, received, inBuffer_, context, ok, responses>>
    BY <1>7 DEF PeerSends, PeerReads, SetMethodFails, FinishFunctors, vars, serverVars,
                parserVars, peerVars
  <2> QED
    BY <2>1, ServerStaysInOrder DEF Closing
<1> QED
  BY <1>1, <1>2, <1>3, <1>4, <1>5, <1>6, <1>7 DEF Next, LoopStep

-----------------------------------------------------------------------------
(* The theorems. *)

(* HttpInv holds throughout: the types, the functors queued, what the      *)
(* parser has left of a message and the output there is (onMessage,        *)
(* parseRequest, send, handleWrite, closeConnection).                      *)
THEOREM HttpInvariant == Spec => []HttpInv
<1>1. Init => HttpInv
  BY InitHttp
<1>2. HttpInv /\ [Next]_vars => HttpInv'
  BY HttpStep
<1> QED
  BY <1>1, <1>2, PTL DEF Spec

(* Whatever the streams and the pages, the state of the connection, its    *)
(* buffer, its HttpContext and its replies stay well typed: the buffer     *)
(* holds no more than was read, and the context a method, a version and a  *)
(* path the parser took from a line (HttpContext::parseRequest).           *)
THEOREM TypeCorrect == Spec => []TypeOK
<1>1. HttpInv => TypeOK
  BY DEF HttpInv
<1> QED
  BY <1>1, HttpInvariant, PTL

(* A message that onMessage lets through, since it ends in two line ends,  *)
(* has a reply: parseRequest stops with a whole request or with one it     *)
(* refuses, and never in between, whatever the messages before left in the *)
(* buffer.                                                                 *)
THEOREM EveryMessageReplied == Spec => []MessageGetsReply
<1>1. HttpInv => MessageGetsReply
  BY DEF HttpInv, ParseInv, MessageGetsReply
<1> QED
  BY <1>1, HttpInvariant, PTL

(* Between messages the HttpContext expects a request line and has         *)
(* forgotten the headers of the request before; a method remembered, that  *)
(* of a request it refused, means the connection is closing (onMessage,    *)
(* HttpContext::reset, HttpRequest::swap).                                 *)
THEOREM ContextIsClean == Spec => []ContextClean
<1>1. HttpInv => ContextClean
  BY DEF HttpInv, ParseInv, Closing, ContextClean
<1> QED
  BY <1>1, HttpInvariant, PTL

(* What the peer has read, what the kernel holds and what waits in the     *)
(* output buffer are the replies' bytes, in order and all of them, however *)
(* little each write takes and whenever the connection is closed; but for  *)
(* the bytes a vector leaves behind that grows when more waits than its    *)
(* size, and for the end that a reset drops (sendInLoop, handleWrite,      *)
(* closeConnectionInLoop, Buffer::append, ~Socket).                        *)
THEOREM OutputIsIntact == Spec => []OutputIntact
<1>1. ASSUME HttpInv
      PROVE  OutputIntact
  <2> DEFINE D == OrNul(Pieces)
             s == sock[Client].sending
             o == conn[Client].outBuffer_.bytes
             N == Holes(outgrown)
  <2>1. s \in Seq(D) /\ o \in Seq(D) /\ delivered \in Seq(D) /\ <<>> \in Seq(D)
    BY <1>1, ServerParts DEF HttpInv, TypeOK
  <2>2. Replied = Sent(responses)
    BY DEF Replied, Sent
  <2>3. OutputOf(state, Client) = s \o o
    BY StateFields, Zenon DEF OutputOf
  <2>4. Output = (delivered \o s) \o (IF closed = "reset" THEN <<>> ELSE o)
    BY DEF Output
  <2>5. N \subseteq {Nul} /\ (~outgrown => N = {})
    BY DEF Holes
  <2> HIDE DEF s, o, D, N
  <2>6. Associate(D, delivered, s, o)
    BY <2>1, Associates
  <2>7. /\ closed # "reset" => Copies(Output, Replied, N)
        /\ closed = "reset" => Starts(Output, Replied, N)
    <3>1. CASE closed # "reset"
      <4>1. Copies(delivered \o OutputOf(state, Client), Replied, N)
        BY <1>1, <2>2, <3>1 DEF HttpInv, OutputInv, N
      <4>2. Output = delivered \o OutputOf(state, Client)
        BY <2>3, <2>4, <2>6, <3>1, Zenon DEF Associate
      <4> QED
        BY <3>1, <4>1, <4>2
    <3>2. CASE closed = "reset"
      <4> DEFINE ds == delivered \o s
      <4>1. ds \in Seq(D)
        BY <2>1
      <4>2. Starts(ds, Replied, N)
        BY <1>1, <2>2, <3>2 DEF HttpInv, OutputInv, N, s
      <4>3. Output = ds \o <<>>
        BY <2>4, <3>2, Zenon
      <4> HIDE DEF ds
      <4>4. Output = ds
        BY <4>1, <4>3, JoinEmpty
      <4> QED
        BY <3>2, <4>2, <4>4
    <3> QED
      BY <3>1, <3>2
  <2>8. Len(Output) \in Nat
    <3>1. (IF closed = "reset" THEN <<>> ELSE o) \in Seq(D)
      BY <2>1
    <3> DEFINE e == IF closed = "reset" THEN <<>> ELSE o
    <3> HIDE DEF e
    <3>2. (delivered \o s) \o e \in Seq(D)
      BY <2>1, <3>1 DEF e
    <3>3. Output \in Seq(D)
      BY <2>4, <3>2 DEF e
    <3> QED
      BY <3>3
  <2> QED
    BY <2>5, <2>7, <2>8 DEF OutputIntact, Copies, Starts, Like
<1> QED
  BY <1>1, HttpInvariant, PTL

(* However the stream is cut into pieces, and whatever each write takes,   *)
(* the replies are those the stream's lines ask for, read one request      *)
(* after the other from its first line on: in order, each once, none for   *)
(* half a request and none after the one that closes the connection        *)
(* (onMessage, onRequest, HttpContext::parseRequest, parseRequestLine,     *)
(* HttpRequest::swap).                                                     *)
THEOREM RepliesAreInOrder == Spec => []RepliesInOrder
<1>1. Init => HttpInv /\ ReplyInv
  BY InitHttp, ReplyInit
<1>2. HttpInv /\ ReplyInv /\ [Next]_vars => (HttpInv /\ ReplyInv)'
  BY HttpStep, ReplyStep
<1>3. HttpInv /\ ReplyInv => RepliesInOrder
  BY ReplyInvOrders DEF HttpInv
<1> QED
  BY <1>1, <1>2, <1>3, PTL DEF Spec

=============================================================================
