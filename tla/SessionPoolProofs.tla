------------------------- MODULE SessionPoolProofs --------------------------
(***************************************************************************)
(* Proofs about SessionPool: its linked list implements the stack of       *)
(* SessionStack, and a server session has one user. The sequence that the  *)
(* links make is named once, by ListedAs: everything that walks along the  *)
(* list is shown to give that sequence, or a part of it, so that each      *)
(* action becomes an operation on a sequence.                              *)
(***************************************************************************)
EXTENDS SessionPool, FiniteSetTheorems, SequenceTheorems, NaturalsInduction, WellFoundedInduction, TLAPS

Size == Cardinality(Sessions)

(* The element of a sequence at a place, and nil beyond its ends. *)
At(q, i) == IF i \in 1 .. Len(q) THEN q[i] ELSE NoSession

(* The sequence q is what one meets along a link from s on, each node once. *)
Path(link, s, q) ==
  /\ q \in Seq(Sessions)
  /\ \A i, j \in 1 .. Len(q) : q[i] = q[j] => i = j
  /\ s = At(q, 1)
  /\ \A i \in 1 .. Len(q) : link[q[i]] = At(q, i + 1)

-----------------------------------------------------------------------------
(* First finds the smallest member of a set of numbers that is not empty. *)
LEMMA FirstIsLeast ==
  ASSUME NEW T \in SUBSET Nat, T # {}
  PROVE  First(T) \in T /\ \A y \in T : First(T) <= y
<1> DEFINE R == {ss \in Nat \X Nat : ss[1] < ss[2]}
<1>1. IsWellFoundedOn(R, Nat)
  BY NatLessThanWellFounded DEF OpToRel
<1>2. \A x, y \in Nat : <<y, x>> \in R <=> y < x
  OBVIOUS
<1> HIDE DEF R
<1>3. \E x \in T : \A y \in T : ~(<<y, x>> \in R)
  BY <1>1, WFMin
<1>4. PICK x \in T : \A y \in T : ~(<<y, x>> \in R)
  BY <1>3
<1>5. x \in Nat /\ \A y \in T : y \in Nat /\ ~(y < x)
  BY <1>2, <1>4
<1>6. \A y \in T : x <= y
  BY <1>5
<1> QED
  BY <1>6 DEF First

(* The number of sessions is natural. *)
LEMMA SizeIsNatural == Size \in Nat
BY SessionsAssumption, FS_CardinalityType DEF Size

(* A path is no longer than there are sessions. *)
LEMMA PathIsShort ==
  ASSUME NEW link, NEW s, NEW q, Path(link, s, q)
  PROVE  Len(q) \in 0 .. Size
<1>1. q \in Seq(Sessions) /\ Len(q) \in Nat
  BY DEF Path
<1>2. q \in Injection(1 .. Len(q), Sessions)
  <2>1. q \in [1 .. Len(q) -> Sessions]
    BY <1>1
  <2>2. \A i, j \in 1 .. Len(q) : q[i] = q[j] => i = j
    BY DEF Path
  <2> QED
    BY <2>1, <2>2 DEF Injection, IsInjective
<1>3. Cardinality(1 .. Len(q)) <= Size
  BY <1>2, SessionsAssumption, FS_Injection DEF Size
<1>4. Cardinality(1 .. Len(q)) = Len(q)
  BY <1>1, FS_Interval
<1> QED
  BY <1>1, <1>3, <1>4, SizeIsNatural

(* The function NodesAfter is the one that its recursion says, where a     *)
(* path from s exists: the path itself is a solution, and the only one.    *)
LEMMA NodesOfPath ==
  ASSUME NEW link, NEW s, NEW q, Path(link, s, q)
  PROVE  \A n \in 0 .. Size : NodesAfter(link, s)[n] = At(q, n + 1)
<1> DEFINE Solves(f) == f = [n \in 0 .. Size |-> IF n = 0 THEN s
                               ELSE IF f[n - 1] = NoSession THEN NoSession ELSE link[f[n - 1]]]
           g == [n \in 0 .. Size |-> At(q, n + 1)]
           node == NodesAfter(link, s)
<1>0. Size \in Nat /\ q \in Seq(Sessions) /\ Len(q) \in Nat /\ NoSession \notin Sessions
  BY SizeIsNatural, SessionsAssumption DEF Path
<1>1. Solves(g)
  <2>1. ASSUME NEW n \in 0 .. Size
        PROVE  g[n] = IF n = 0 THEN s
                      ELSE IF g[n - 1] = NoSession THEN NoSession ELSE link[g[n - 1]]
    <3>1. CASE n = 0
      BY <3>1, <1>0 DEF Path
    <3>2. CASE n # 0
      <4>1. n - 1 \in 0 .. Size /\ g[n - 1] = At(q, n) /\ g[n] = At(q, n + 1)
        BY <1>0, <3>2
      <4>2. CASE n \in 1 .. Len(q)
        <5>1. g[n - 1] = q[n] /\ q[n] \in Sessions
          BY <1>0, <4>1, <4>2 DEF At
        <5> QED
          BY <1>0, <3>2, <4>1, <4>2, <5>1 DEF Path
      <4>3. CASE n \notin 1 .. Len(q)
        BY <1>0, <3>2, <4>1, <4>3 DEF At
      <4> QED
        BY <4>2, <4>3
    <3> QED
      BY <3>1, <3>2
  <2> QED
    BY <2>1
<1>2. node = CHOOSE f : Solves(f)
  BY DEF NodesAfter, Size
<1>3. Solves(node)
  BY <1>1, <1>2
<1>4. \A n \in 0 .. Size : node[n] = IF n = 0 THEN s
          ELSE IF node[n - 1] = NoSession THEN NoSession ELSE link[node[n - 1]]
  BY <1>3
<1>5. \A n \in 0 .. Size : g[n] = IF n = 0 THEN s
          ELSE IF g[n - 1] = NoSession THEN NoSession ELSE link[g[n - 1]]
  BY <1>1
<1>6. \A n \in 0 .. Size : g[n] = At(q, n + 1)
  OBVIOUS
<1> HIDE DEF node, g, Solves
<1> DEFINE T == {n \in 0 .. Size : node[n] # g[n]}
<1>7. T = {}
  <2>1. SUFFICES ASSUME T # {} PROVE FALSE
    OBVIOUS
  <2>2. T \in SUBSET Nat
    BY <1>0
  <2> DEFINE n == First(T)
  <2>3. n \in T /\ \A y \in T : n <= y
    BY <2>1, <2>2, FirstIsLeast
  <2> HIDE DEF n
  <2>4. n \in 0 .. Size /\ node[n] # g[n]
    BY <2>3
  <2>5. n # 0
    BY <1>4, <1>5, <2>4
  <2>6. n - 1 \in 0 .. Size /\ n - 1 \notin T
    BY <1>0, <2>3, <2>4, <2>5
  <2>7. node[n - 1] = g[n - 1]
    BY <2>6
  <2> HIDE DEF T
  <2> QED
    BY <1>4, <1>5, <2>4, <2>5, <2>7
<1> QED
  BY <1>6, <1>7 DEF node

(* Walk gives the path there is. *)
LEMMA WalkIsPath ==
  ASSUME NEW link, NEW s, NEW q, Path(link, s, q)
  PROVE  Walk(link, s) = q
<1> DEFINE node == NodesAfter(link, s)
           ends == {n \in 0 .. Size : node[n] = NoSession} \cup {Size}
<1>0. Size \in Nat /\ q \in Seq(Sessions) /\ Len(q) \in 0 .. Size /\ NoSession \notin Sessions
  BY SizeIsNatural, SessionsAssumption, PathIsShort DEF Path
<1>1. \A n \in 0 .. Size : node[n] = At(q, n + 1)
  BY NodesOfPath
<1>2. Walk(link, s) = IF s = NoSession THEN <<>> ELSE [i \in 1 .. First(ends) |-> node[i - 1]]
  BY DEF Walk, Size
<1> HIDE DEF node
<1>a. s = NoSession => q = <<>>
  <2>1. s = At(q, 1) /\ \A i \in 1 .. Len(q) : q[i] \in Sessions
    BY <1>0 DEF Path
  <2>2. s = NoSession => Len(q) = 0
    BY <1>0, <2>1 DEF At
  <2> QED
    BY <1>0, <2>2
<1>3. \A n \in 0 .. Size : node[n] = NoSession <=> n >= Len(q)
  BY <1>0, <1>1 DEF At
<1>4. ends \in SUBSET Nat /\ ends # {} /\ Len(q) \in ends /\ \A n \in ends : Len(q) <= n
  BY <1>0, <1>3
<1> HIDE DEF ends
<1>5. First(ends) \in ends /\ \A n \in ends : First(ends) <= n
  BY <1>4, FirstIsLeast
<1>6. First(ends) = Len(q)
  <2>1. First(ends) \in Nat /\ Len(q) \in Nat
    BY <1>0, <1>4, <1>5
  <2>2. First(ends) <= Len(q) /\ Len(q) <= First(ends)
    BY <1>4, <1>5
  <2> QED
    BY <2>1, <2>2
<1>7. \A i \in 1 .. Len(q) : node[i - 1] = q[i]
  BY <1>0, <1>1 DEF At
<1>8. q = [i \in 1 .. Len(q) |-> q[i]]
  BY <1>0
<1>9. [i \in 1 .. Len(q) |-> node[i - 1]] = [i \in 1 .. Len(q) |-> q[i]]
  BY <1>7
<1> QED
  BY <1>2, <1>a, <1>6, <1>8, <1>9

-----------------------------------------------------------------------------
(* The list is the sequence q, from the head along next; from the tail, if *)
(* there is one, prev leads the same way back.                             *)
ListIs(h, tl, n, p, q) ==
  /\ Path(n, h, q)
  /\ tl # NoSession => /\ Len(q) # 0 /\ tl = q[Len(q)]
                       /\ \A i \in 1 .. Len(q) : p[q[i]] = At(q, i - 1)

(* No session has two users, and none is with a user and in the list. *)
Apart(hd, q) ==
  /\ \A c, d \in Clients : c # d /\ hd[c] # NoSession => hd[c] # hd[d]
  /\ \A c \in Clients : \A i \in 1 .. Len(q) : hd[c] # q[i]

(* List and users together have no more sessions than there are clients:   *)
(* one is made only when the list has none that is fit, and empties it.    *)
Users(hd) == {c \in Clients : hd[c] # NoSession}
Few(hd, q) == Len(q) + Cardinality(Users(hd)) <= Cardinality(Clients)

ListedAs(q) == ListIs(head, tail, next, prev, q) /\ Apart(held, q) /\ Few(held, q)
Inv ==
  /\ PoolTypeOK /\ checkedOut = Cardinality(Users(held))
  /\ ListedAs(Walk(next, head))

-----------------------------------------------------------------------------
(* The users are finitely many. *)
LEMMA UsersFinite ==
  ASSUME NEW hd
  PROVE  /\ IsFiniteSet(Users(hd)) /\ Cardinality(Users(hd)) \in Nat
         /\ Cardinality(Users(hd)) <= Cardinality(Clients) /\ Cardinality(Clients) \in Nat
<1>1. Users(hd) \in SUBSET Clients
  BY DEF Users
<1> QED
  BY <1>1, SessionsAssumption, FS_Subset, FS_CardinalityType

(* A client that gets a session is one more user. *)
LEMMA UserAdded ==
  ASSUME NEW hd \in [Clients -> Node], NEW c \in Clients, hd[c] = NoSession,
         NEW s \in Sessions, NEW hd2, hd2 = [hd EXCEPT ![c] = s]
  PROVE  /\ hd2 \in [Clients -> Node] /\ hd2[c] = s
         /\ Cardinality(Users(hd2)) = Cardinality(Users(hd)) + 1
<1>1. s # NoSession /\ s \in Node
  BY SessionsAssumption DEF Node
<1>2. Users(hd2) = Users(hd) \cup {c} /\ c \notin Users(hd)
  BY <1>1 DEF Users
<1>3. Cardinality(Users(hd) \cup {c}) = Cardinality(Users(hd)) + 1
  BY <1>2, UsersFinite, FS_AddElement
<1> QED
  BY <1>1, <1>2, <1>3

(* A client that gives its session back is one less. *)
LEMMA UserRemoved ==
  ASSUME NEW hd \in [Clients -> Node], NEW c \in Clients, hd[c] # NoSession,
         NEW hd2, hd2 = [hd EXCEPT ![c] = NoSession]
  PROVE  /\ hd2 \in [Clients -> Node]
         /\ Cardinality(Users(hd2)) = Cardinality(Users(hd)) - 1
<1>1. NoSession \in Node
  BY DEF Node
<1>2. Users(hd2) = Users(hd) \ {c} /\ c \in Users(hd)
  BY DEF Users
<1>3. Cardinality(Users(hd) \ {c}) = Cardinality(Users(hd)) - 1
  BY <1>2, UsersFinite, FS_RemoveElement
<1> QED
  BY <1>1, <1>2, <1>3

(* A sequence without repetitions has as many elements as places. *)
LEMMA ElementsCounted ==
  ASSUME NEW q \in Seq(Sessions), \A i, j \in 1 .. Len(q) : q[i] = q[j] => i = j
  PROVE  /\ IsFiniteSet(Elements(q)) /\ Cardinality(Elements(q)) = Len(q)
         /\ Elements(q) \subseteq Sessions
<1>1. DOMAIN q = 1 .. Len(q) /\ Len(q) \in Nat
  OBVIOUS
<1>2. q \in [1 .. Len(q) -> Elements(q)] /\ Elements(q) \subseteq Sessions
  BY <1>1 DEF Elements
<1>3. q \in Injection(1 .. Len(q), Elements(q))
  BY <1>1, <1>2 DEF Injection, IsInjective
<1>4. q \in Surjection(1 .. Len(q), Elements(q))
  BY <1>1, <1>2 DEF Surjection, Elements
<1>5. ExistsBijection(1 .. Len(q), Elements(q))
  BY <1>3, <1>4 DEF ExistsBijection, Bijection
<1>6. IsFiniteSet(1 .. Len(q)) /\ Cardinality(1 .. Len(q)) = Len(q)
  BY <1>1, FS_Interval
<1> QED
  BY <1>2, <1>5, <1>6, FS_Bijection

(* There is an unused session when one is needed, and the one that is      *)
(* chosen is neither in the list nor with a client.                        *)
LEMMA UnusedChosen ==
  ASSUME PoolTypeOK, NEW q, ListedAs(q)
  PROVE  /\ Unused \subseteq Sessions
         /\ \A s \in Unused : (\A i \in 1 .. Len(q) : q[i] # s) /\ (\A c \in Clients : held[c] # s)
         /\ First(Unused) \in Unused
<1>1. Path(next, head, q) /\ q \in Seq(Sessions) /\ DOMAIN q = 1 .. Len(q)
  BY DEF ListedAs, ListIs, Path
<1>2. Walk(next, head) = q
  BY <1>1, WalkIsPath
<1>3. held \in [Clients -> Node]
  BY DEF PoolTypeOK
<1>4. Unused = Sessions \ (Elements(q) \cup Elements(held))
  BY <1>2 DEF Unused
<1>5. \A s \in Unused : (\A i \in 1 .. Len(q) : q[i] # s) /\ (\A c \in Clients : held[c] # s)
  BY <1>1, <1>3, <1>4 DEF Elements
<1>6. Unused # {}
  <2>1. SUFFICES ASSUME Unused = {} PROVE FALSE
    OBVIOUS
  <2> DEFINE U == Users(held)
             f == [c \in U |-> held[c]]
             img == {held[c] : c \in U}
  <2>2. Sessions \subseteq Elements(q) \cup img
    BY <1>3, <1>4, <2>1, SessionsAssumption DEF Elements, Users
  <2>3. f \in Surjection(U, img)
    BY DEF Surjection
  <2>4. IsFiniteSet(img) /\ Cardinality(img) <= Cardinality(U)
    BY <2>3, UsersFinite, FS_Surjection
  <2>5. IsFiniteSet(Elements(q)) /\ Cardinality(Elements(q)) = Len(q)
    BY <1>1, ElementsCounted DEF Path
  <2> HIDE DEF U, f, img
  <2>6. /\ IsFiniteSet(Elements(q) \cup img)
        /\ Cardinality(Elements(q) \cup img) =
             Cardinality(Elements(q)) + Cardinality(img) - Cardinality(Elements(q) \cap img)
    BY <2>4, <2>5, FS_Union
  <2>7. IsFiniteSet(Elements(q) \cap img)
    <3>1. Elements(q) \cap img \in SUBSET img
      OBVIOUS
    <3> QED
      BY <2>4, <3>1, FS_Subset
  <2>8. /\ Cardinality(Elements(q) \cap img) \in Nat /\ Cardinality(img) \in Nat
        /\ Cardinality(U) \in Nat /\ Cardinality(Clients) \in Nat /\ Size \in Nat
    BY <2>4, <2>7, FS_CardinalityType, UsersFinite, SizeIsNatural DEF U
  <2>9. Size <= Cardinality(Elements(q) \cup img)
    BY <2>2, <2>6, FS_Subset DEF Size
  <2>10. Len(q) + Cardinality(U) <= Cardinality(Clients) /\ Cardinality(Clients) < Size
    BY SessionsAssumption DEF ListedAs, Few, U, Size
  <2>11. Len(q) \in Nat
    BY <1>1
  <2> QED
    BY <2>4, <2>5, <2>6, <2>8, <2>9, <2>10, <2>11
<1>7. Unused \subseteq Sessions /\ Unused \in SUBSET Nat
  BY <1>4, SessionsAssumption
<1> QED
  BY <1>5, <1>6, <1>7, FirstIsLeast

-----------------------------------------------------------------------------
(* What follows a node of a path is a path. *)
LEMMA PathAfter ==
  ASSUME NEW link, NEW s, NEW q, Path(link, s, q), NEW k \in 1 .. Len(q)
  PROVE  Path(link, link[q[k]], SubSeq(q, k + 1, Len(q)))
<1>1. q \in Seq(Sessions) /\ Len(q) \in Nat /\ \A i \in 1 .. Len(q) : q[i] \in Sessions
  BY DEF Path
<1> DEFINE L == Len(q)
           r == SubSeq(q, k + 1, L)
<1>2. /\ r \in Seq(Sessions) /\ Len(r) = L - k
      /\ \A i \in 1 .. L - k : r[i] = q[k + i]
  BY <1>1
<1> HIDE DEF r
<1>3. \A i \in 1 .. L - k : link[r[i]] = At(r, i + 1)
  <2>1. SUFFICES ASSUME NEW i \in 1 .. L - k PROVE link[r[i]] = At(r, i + 1)
    OBVIOUS
  <2>2. r[i] = q[k + i] /\ k + i \in 1 .. L
    BY <1>1, <1>2
  <2>3. link[q[k + i]] = At(q, k + i + 1)
    BY <2>2 DEF Path
  <2>4. At(q, k + i + 1) = At(r, i + 1)
    <3>1. CASE i + 1 \in 1 .. L - k
      <4>1. k + (i + 1) = k + i + 1 /\ k + i + 1 \in 1 .. L /\ r[i + 1] = q[k + (i + 1)]
        BY <1>1, <1>2, <3>1
      <4> QED
        BY <1>2, <3>1, <4>1 DEF At
    <3>2. CASE i + 1 \notin 1 .. L - k
      <4>1. k + i + 1 \notin 1 .. L
        BY <1>1, <3>2
      <4> QED
        BY <1>2, <3>2, <4>1 DEF At
    <3> QED
      BY <3>1, <3>2
  <2> QED
    BY <2>2, <2>3, <2>4
<1>4. link[q[k]] = At(r, 1)
  BY <1>1, <1>2 DEF Path, At
<1>5. \A i, j \in 1 .. L - k : r[i] = r[j] => i = j
  <2>1. SUFFICES ASSUME NEW i \in 1 .. L - k, NEW j \in 1 .. L - k, r[i] = r[j] PROVE i = j
    OBVIOUS
  <2>2. q[k + i] = q[k + j] /\ k + i \in 1 .. L /\ k + j \in 1 .. L
    BY <1>1, <1>2, <2>1
  <2> QED
    BY <2>2 DEF Path
<1>6. Path(link, link[q[k]], r)
  BY <1>2, <1>3, <1>4, <1>5 DEF Path
<1> QED
  BY <1>6 DEF r

(* A path can be cut after one of its nodes. *)
LEMMA PathCut ==
  ASSUME NEW link, NEW s, NEW q, Path(link, s, q), NEW m \in 1 .. Len(q), NEW link2,
         \A i \in 1 .. m : link2[q[i]] = IF i = m THEN NoSession ELSE q[i + 1]
  PROVE  Path(link2, s, SubSeq(q, 1, m))
<1>1. q \in Seq(Sessions) /\ Len(q) \in Nat
  BY DEF Path
<1> DEFINE r == SubSeq(q, 1, m)
<1>2. r \in Seq(Sessions) /\ Len(r) = m /\ \A i \in 1 .. m : r[i] = q[i]
  BY <1>1
<1> HIDE DEF r
<1>3. \A i \in 1 .. m : link2[r[i]] = At(r, i + 1)
  <2>1. SUFFICES ASSUME NEW i \in 1 .. m PROVE link2[r[i]] = At(r, i + 1)
    OBVIOUS
  <2>2. CASE i = m
    <3>1. i + 1 \notin 1 .. Len(r)
      BY <1>1, <1>2, <2>2
    <3> QED
      BY <1>2, <2>2, <3>1 DEF At
  <2>3. CASE i # m
    <3>1. i + 1 \in 1 .. m
      BY <1>1, <2>3
    <3> QED
      BY <1>2, <2>3, <3>1 DEF At
  <2> QED
    BY <2>2, <2>3
<1>4. s = At(r, 1)
  BY <1>1, <1>2 DEF Path, At
<1>5. \A i, j \in 1 .. m : r[i] = r[j] => i = j
  <2>1. \A i \in 1 .. m : i \in 1 .. Len(q)
    BY <1>1
  <2>2. \A i, j \in 1 .. Len(q) : q[i] = q[j] => i = j
    BY DEF Path
  <2> QED
    BY <1>2, <2>1, <2>2
<1>6. Path(link2, s, r)
  BY <1>2, <1>3, <1>4, <1>5 DEF Path
<1> QED
  BY <1>6 DEF r

(* A node that links to the first one of a path makes it longer. *)
LEMMA PathPushed ==
  ASSUME NEW link, NEW h, NEW q, Path(link, h, q), NEW s \in Sessions,
         \A i \in 1 .. Len(q) : q[i] # s, link[s] = h
  PROVE  /\ Path(link, s, <<s>> \o q) /\ Len(<<s>> \o q) = Len(q) + 1
         /\ (<<s>> \o q)[1] = s /\ \A i \in 1 .. Len(q) : (<<s>> \o q)[i + 1] = q[i]
<1>1. q \in Seq(Sessions) /\ Len(q) \in Nat
  BY DEF Path
<1> DEFINE r == <<s>> \o q
           L == Len(q)
<1>2. /\ r \in Seq(Sessions) /\ Len(r) = L + 1 /\ r[1] = s
      /\ \A i \in 1 .. L : r[i + 1] = q[i]
  BY <1>1
<1> HIDE DEF r
<1>3. \A i \in 2 .. L + 1 : i - 1 \in 1 .. L /\ r[i] = q[i - 1]
  BY <1>1, <1>2
<1>4. \A i \in 1 .. L + 1 : link[r[i]] = At(r, i + 1)
  <2>1. SUFFICES ASSUME NEW i \in 1 .. L + 1 PROVE link[r[i]] = At(r, i + 1)
    OBVIOUS
  <2>2. CASE i = 1
    BY <1>1, <1>2, <2>2 DEF Path, At
  <2>3. CASE i # 1
    <3>1. link[r[i]] = At(q, i)
      <4>1. i - 1 \in 1 .. L /\ r[i] = q[i - 1] /\ (i - 1) + 1 = i
        BY <1>1, <1>3, <2>3
      <4>2. link[q[i - 1]] = At(q, (i - 1) + 1)
        BY <4>1 DEF Path
      <4> QED
        BY <4>1, <4>2
    <3>2. CASE i \in 1 .. L
      <4>1. i + 1 \in 1 .. L + 1 /\ r[i + 1] = q[i]
        BY <1>1, <1>2, <3>2
      <4> QED
        BY <1>2, <3>1, <3>2, <4>1 DEF At
    <3>3. CASE i \notin 1 .. L
      <4>1. i + 1 \notin 1 .. L + 1
        BY <1>1, <3>3
      <4> QED
        BY <1>2, <3>1, <3>3, <4>1 DEF At
    <3> QED
      BY <3>2, <3>3
  <2> QED
    BY <2>2, <2>3
<1>5. \A i, j \in 1 .. L + 1 : r[i] = r[j] => i = j
  <2>1. SUFFICES ASSUME NEW i \in 1 .. L + 1, NEW j \in 1 .. L + 1, r[i] = r[j] PROVE i = j
    OBVIOUS
  <2>2. CASE i = 1 \/ j = 1
    BY <1>1, <1>2, <1>3, <2>1, <2>2
  <2>3. CASE i # 1 /\ j # 1
    <3>1. i - 1 \in 1 .. L /\ j - 1 \in 1 .. L /\ q[i - 1] = q[j - 1]
      BY <1>3, <2>1, <2>3
    <3>2. i - 1 = j - 1
      BY <3>1 DEF Path
    <3> QED
      BY <3>2
  <2> QED
    BY <2>2, <2>3
<1>6. s = At(r, 1)
  BY <1>1, <1>2 DEF At
<1>7. Path(link, s, r)
  BY <1>2, <1>4, <1>5, <1>6 DEF Path
<1> QED
  BY <1>2, <1>7 DEF r

(* Links that are the same on the nodes of a path make the same path. *)
LEMMA PathAgrees ==
  ASSUME NEW link, NEW s, NEW q, Path(link, s, q), NEW link2,
         \A i \in 1 .. Len(q) : link2[q[i]] = link[q[i]]
  PROVE  Path(link2, s, q)
BY DEF Path

(* The empty list, and a list of one node. *)
LEMMA PathOfNone ==
  ASSUME NEW link
  PROVE  Path(link, NoSession, <<>>) /\ Len(<<>>) = 0
BY DEF Path, At
LEMMA PathOfOne ==
  ASSUME NEW link, NEW s \in Sessions, link[s] = NoSession
  PROVE  Path(link, s, <<s>>) /\ Len(<<s>>) = 1 /\ <<s>>[1] = s
BY DEF Path, At

(* From the tail one meets the list the other way round. *)
LEMMA PathBack ==
  ASSUME NEW q, ListIs(head, tail, next, prev, q), tail # NoSession
  PROVE  Path(prev, tail, [i \in 1 .. Len(q) |-> q[Len(q) + 1 - i]])
<1>1. q \in Seq(Sessions) /\ Len(q) \in Nat \ {0} /\ tail = q[Len(q)]
  BY DEF ListIs, Path
<1> DEFINE L == Len(q)
           r == [i \in 1 .. L |-> q[L + 1 - i]]
<1>2. \A i \in 1 .. L : L + 1 - i \in 1 .. L
  BY <1>1
<1>3. r \in Seq(Sessions) /\ Len(r) = L /\ \A i \in 1 .. L : r[i] = q[L + 1 - i]
  BY <1>1, <1>2
<1> HIDE DEF r
<1>4. \A i, j \in 1 .. L : r[i] = r[j] => i = j
  <2>1. SUFFICES ASSUME NEW i \in 1 .. L, NEW j \in 1 .. L, r[i] = r[j] PROVE i = j
    OBVIOUS
  <2>2. L + 1 - i = L + 1 - j
    <3>1. q[L + 1 - i] = q[L + 1 - j] /\ L + 1 - i \in 1 .. L /\ L + 1 - j \in 1 .. L
      BY <1>2, <1>3, <2>1
    <3>2. \A x, y \in 1 .. L : q[x] = q[y] => x = y
      BY DEF ListIs, Path
    <3> QED
      BY <3>1, <3>2
  <2> QED
    BY <1>1, <2>2
<1>5. \A i \in 1 .. L : prev[r[i]] = At(r, i + 1)
  <2>1. SUFFICES ASSUME NEW i \in 1 .. L PROVE prev[r[i]] = At(r, i + 1)
    OBVIOUS
  <2>2. prev[r[i]] = At(q, L - i)
    <3>1. prev[q[L + 1 - i]] = At(q, (L + 1 - i) - 1)
      BY <1>2 DEF ListIs
    <3>2. (L + 1 - i) - 1 = L - i
      BY <1>1
    <3> QED
      BY <1>3, <3>1, <3>2
  <2>3. L + 1 - (i + 1) = L - i
    BY <1>1
  <2>4. CASE i + 1 \in 1 .. L
    <3>1. L - i \in 1 .. L /\ r[i + 1] = q[L + 1 - (i + 1)]
      BY <1>1, <1>3, <2>4
    <3> QED
      BY <1>3, <2>2, <2>3, <2>4, <3>1 DEF At
  <2>5. CASE i + 1 \notin 1 .. L
    <3>1. L - i \notin 1 .. L
      BY <1>1, <2>5
    <3> QED
      BY <1>3, <2>2, <2>5, <3>1 DEF At
  <2> QED
    BY <2>4, <2>5
<1>6. tail = At(r, 1)
  BY <1>1, <1>3 DEF At
<1>7. Path(prev, tail, r)
  BY <1>3, <1>4, <1>5, <1>6 DEF Path
<1> QED
  BY <1>7 DEF r

(* What DropExpired leaves: the first m nodes of the list, from both ends. *)
CutTo(d, q, m) ==
  /\ d.tail = At(q, m)
  /\ d.next \in [Sessions -> Node] /\ d.prev \in [Sessions -> Node]
  /\ \A i \in 1 .. Len(q) :
       /\ d.next[q[i]] = IF i >= m THEN NoSession ELSE q[i + 1]
       /\ d.prev[q[i]] = IF i > m THEN NoSession ELSE At(q, i - 1)

(* DropExpired cuts the list somewhere. *)
LEMMA DropExpiredCuts ==
  ASSUME PoolTypeOK, NEW q, ListIs(head, tail, next, prev, q), tail # NoSession, NEW t
  PROVE  \E m \in 0 .. Len(q) : CutTo(DropExpired(t), q, m)
<1> DEFINE L == Len(q)
           r == Walk(prev, tail)
           fit == {i \in DOMAIN r : ~Expired(r[i], t)}
           n == IF fit = {} THEN Len(r) ELSE First(fit) - 1
           dropped == {r[i] : i \in 1 .. n}
           d == DropExpired(t)
<1>1. q \in Seq(Sessions) /\ L \in Nat \ {0} /\ Path(next, head, q) /\ NoSession \notin Sessions
  BY SessionsAssumption DEF ListIs, Path
<1>2. r = [i \in 1 .. L |-> q[L + 1 - i]]
  BY PathBack, WalkIsPath
<1>3. d = [tail |-> IF n = Len(r) THEN NoSession ELSE r[n + 1],
           next |-> [s \in Sessions |-> IF next[s] \in dropped /\ s \in Elements(r)
                                        THEN NoSession ELSE next[s]],
           prev |-> [s \in Sessions |-> IF s \in dropped THEN NoSession ELSE prev[s]]]
  BY DEF DropExpired
<1> HIDE DEF d, r
<1>4. DOMAIN r = 1 .. L /\ Len(r) = L
  BY <1>1, <1>2
<1>5. \A i \in 1 .. L : r[i] = q[L + 1 - i] /\ L + 1 - i \in 1 .. L
  BY <1>1, <1>2
<1>6. n \in 0 .. L
  <2>1. fit \in SUBSET Nat /\ \A i \in fit : i \in 1 .. L
    BY <1>1, <1>4
  <2>2. CASE fit # {}
    <3>1. First(fit) \in fit
      BY <2>1, <2>2, FirstIsLeast
    <3>2. First(fit) \in 1 .. L /\ n = First(fit) - 1
      BY <2>1, <2>2, <3>1
    <3> HIDE DEF n, fit
    <3> QED
      BY <1>1, <3>2
  <2>3. CASE fit = {}
    BY <1>1, <1>4, <2>3
  <2> QED
    BY <2>2, <2>3
<1> HIDE DEF n
<1> DEFINE m == L - n
<1>7. m \in 0 .. L /\ (n = L <=> m = 0)
  BY <1>1, <1>6
<1>8. \A i, j \in 1 .. L : q[i] = q[j] => i = j
  BY <1>1 DEF Path
<1>9. \A i \in 1 .. L : q[i] \in dropped <=> i > m
  <2>1. SUFFICES ASSUME NEW i \in 1 .. L PROVE q[i] \in dropped <=> i > m
    OBVIOUS
  <2>2. ASSUME q[i] \in dropped PROVE i > m
    <3>1. PICK j \in 1 .. n : q[i] = r[j]
      BY <2>2
    <3>2. j \in 1 .. L
      BY <1>6, <1>1
    <3>3. i = L + 1 - j
      BY <1>5, <1>8, <3>1, <3>2
    <3> QED
      BY <1>1, <1>6, <3>2, <3>3
  <2>3. ASSUME i > m PROVE q[i] \in dropped
    <3> DEFINE j == L + 1 - i
    <3>1. j \in 1 .. n /\ j \in 1 .. L /\ L + 1 - j = i
      BY <1>1, <1>6, <2>3
    <3> HIDE DEF j
    <3>2. r[j] = q[i]
      BY <1>5, <3>1
    <3> QED
      BY <3>1, <3>2
  <2> QED
    BY <2>2, <2>3
<1>10. \A i \in 1 .. L : q[i] \in Elements(r) /\ q[i] \in Sessions
  <2>1. SUFFICES ASSUME NEW i \in 1 .. L PROVE q[i] \in Elements(r) /\ q[i] \in Sessions
    OBVIOUS
  <2>2. L + 1 - i \in 1 .. L /\ r[L + 1 - i] = q[i]
    <3>1. L + 1 - i \in 1 .. L /\ L + 1 - (L + 1 - i) = i
      BY <1>1
    <3> QED
      BY <1>5, <3>1
  <2> QED
    BY <1>1, <1>4, <2>2 DEF Elements
<1>11. NoSession \notin dropped
  <2>1. \A j \in 1 .. n : r[j] \in Sessions
    <3>1. \A j \in 1 .. n : j \in 1 .. L
      BY <1>1, <1>6
    <3> QED
      BY <1>1, <1>5, <3>1
  <2> QED
    BY <1>1, <2>1
<1>12. d.tail = At(q, m)
  <2>1. CASE n = L
    BY <1>4, <1>3, <1>7, <2>1 DEF At
  <2>2. CASE n # L
    <3>1. n + 1 \in 1 .. L /\ L + 1 - (n + 1) = m /\ m \in 1 .. L
      BY <1>1, <1>6, <2>2
    <3>2. r[n + 1] = q[m]
      BY <1>5, <3>1
    <3> QED
      BY <1>4, <1>3, <2>2, <3>1, <3>2 DEF At
  <2> QED
    BY <2>1, <2>2
<1> HIDE DEF dropped
<1>13. d.next \in [Sessions -> Node] /\ d.prev \in [Sessions -> Node]
  BY <1>3 DEF PoolTypeOK, Node
<1>14. ASSUME NEW i \in 1 .. L
       PROVE  /\ d.next[q[i]] = IF i >= m THEN NoSession ELSE q[i + 1]
              /\ d.prev[q[i]] = IF i > m THEN NoSession ELSE At(q, i - 1)
  <2>1. next[q[i]] = At(q, i + 1) /\ prev[q[i]] = At(q, i - 1)
    BY DEF ListIs, Path
  <2>2. d.next[q[i]] = IF next[q[i]] \in dropped THEN NoSession ELSE next[q[i]]
    BY <1>3, <1>10
  <2>3. d.prev[q[i]] = IF q[i] \in dropped THEN NoSession ELSE prev[q[i]]
    BY <1>3, <1>10
  <2>4. CASE i = L
    <3>1. next[q[i]] = NoSession /\ i >= m
      BY <1>1, <1>7, <2>1, <2>4 DEF At
    <3> QED
      BY <1>9, <2>1, <2>2, <2>3, <3>1
  <2>5. CASE i # L
    <3>1. i + 1 \in 1 .. L /\ (i + 1 > m <=> i >= m)
      BY <1>1, <1>7, <2>5
    <3>2. next[q[i]] = q[i + 1]
      BY <2>1, <3>1 DEF At
    <3> QED
      BY <1>9, <2>1, <2>2, <2>3, <3>1, <3>2
  <2> QED
    BY <2>4, <2>5
<1> HIDE DEF m
<1> QED
  BY <1>7, <1>12, <1>13, <1>14 DEF CutTo, d

(* Without a tail there is nothing to drop. *)
LEMMA DropExpiredKeeps ==
  ASSUME PoolTypeOK, tail = NoSession, NEW t
  PROVE  /\ DropExpired(t).tail = NoSession
         /\ DropExpired(t).next = next /\ DropExpired(t).prev = prev
<1>1. Walk(prev, tail) = <<>>
  BY PathOfNone, WalkIsPath
<1> DEFINE fit == {i \in DOMAIN <<>> : ~Expired(<<>>[i], t)}
           n == IF fit = {} THEN Len(<<>>) ELSE First(fit) - 1
           dropped == {<<>>[i] : i \in 1 .. n}
<1>2. DOMAIN <<>> = {} /\ Len(<<>>) = 0
  OBVIOUS
<1>3. n = 0 /\ dropped = {}
  BY <1>2
<1>4. DropExpired(t) =
        [tail |-> IF n = Len(<<>>) THEN NoSession ELSE <<>>[n + 1],
         next |-> [s \in Sessions |-> IF next[s] \in dropped /\ s \in Elements(<<>>)
                                      THEN NoSession ELSE next[s]],
         prev |-> [s \in Sessions |-> IF s \in dropped THEN NoSession ELSE prev[s]]]
  BY <1>1 DEF DropExpired
<1> HIDE DEF n, dropped
<1>5. next \in [Sessions -> Node] /\ prev \in [Sessions -> Node]
  BY DEF PoolTypeOK
<1> QED
  BY <1>2, <1>3, <1>4, <1>5

-----------------------------------------------------------------------------
(* What an action has to show of the list that it leaves. *)
LEMMA InvFromList ==
  ASSUME NEW q, PoolTypeOK', checkedOut' = Cardinality(Users(held')),
         ListIs(head', tail', next', prev', q), Apart(held', q), Few(held', q)
  PROVE  Inv' /\ Walk(next', head') = q
<1>1. Walk(next', head') = q
  BY WalkIsPath DEF ListIs
<1> QED
  BY <1>1 DEF Inv, ListedAs

(* The parts of the invariant, for the sequence that the list is. *)
LEMMA InvHasList ==
  ASSUME Inv, NEW q, q = Walk(next, head)
  PROVE  /\ PoolTypeOK /\ checkedOut = Cardinality(Users(held)) /\ ListedAs(q)
         /\ ListIs(head, tail, next, prev, q) /\ Path(next, head, q)
         /\ Apart(held, q) /\ Few(held, q)
         /\ q \in Seq(Sessions) /\ Len(q) \in Nat /\ DOMAIN q = 1 .. Len(q)
         /\ \A i \in 1 .. Len(q) : q[i] \in Sessions
         /\ \A i, j \in 1 .. Len(q) : q[i] = q[j] => i = j
<1>1. PoolTypeOK /\ checkedOut = Cardinality(Users(held)) /\ ListedAs(q)
  BY DEF Inv
<1>2. ListIs(head, tail, next, prev, q) /\ Path(next, head, q) /\ Apart(held, q) /\ Few(held, q)
  BY <1>1 DEF ListedAs, ListIs
<1>3. q \in Seq(Sessions) /\ \A i, j \in 1 .. Len(q) : q[i] = q[j] => i = j
  BY <1>2 DEF Path
<1> QED
  BY <1>1, <1>2, <1>3

(* The invariant holds of a new pool, which is an empty stack. *)
LEMMA NewPoolGood ==
  ASSUME NewPool
  PROVE  Inv /\ Stack!Init
<1>1. Path(next, head, <<>>) /\ Len(<<>>) = 0
  BY PathOfNone DEF NewPool
<1>2. Walk(next, head) = <<>>
  BY <1>1, WalkIsPath
<1>3. PoolTypeOK
  <2>1. Cardinality(Clients) \in Nat
    BY UsersFinite
  <2> QED
    BY <2>1, SessionsAssumption DEF NewPool, PoolTypeOK, NoLinks, Node
<1>4. Users(held) = {} /\ Cardinality({}) = 0
  BY FS_EmptySet DEF NewPool, Users
<1>5. ListIs(head, tail, next, prev, <<>>)
  BY <1>1 DEF ListIs, NewPool
<1>6. Apart(held, <<>>)
  BY <1>1 DEF Apart, NewPool
<1>7. Few(held, <<>>)
  BY <1>1, <1>4, UsersFinite DEF Few
<1>8. Inv
  BY <1>2, <1>3, <1>4, <1>5, <1>6, <1>7 DEF Inv, ListedAs, NewPool
<1>9. Stack!Init
  BY <1>2 DEF Stack!Init, NewPool, ExpiredSessions
<1> QED
  BY <1>8, <1>9

(* A session is made where the list has none that is fit. *)
LEMMA CreateStep ==
  ASSUME Inv, NEW c \in Clients, held[c] = NoSession, CreateServerSession(c),
         timeout' \in Timeouts \cup {0},
         \A i \in 1 .. Len(Walk(next, head)) : Expired(Walk(next, head)[i], timeout')
  PROVE  Inv' /\ Stack!Make(c)
<1>1. PICK q : q = Walk(next, head)
  OBVIOUS
<1>2. /\ PoolTypeOK /\ checkedOut = Cardinality(Users(held)) /\ ListedAs(q)
      /\ Apart(held, q) /\ Few(held, q) /\ Len(q) \in Nat /\ DOMAIN q = 1 .. Len(q)
      /\ \A i \in 1 .. Len(q) : q[i] \in Sessions
  BY <1>1, InvHasList
<1>3. \A i \in 1 .. Len(q) : Expired(q[i], timeout')
  BY <1>1
<1>4. PICK s : s = First(Unused)
  OBVIOUS
<1>5. s \in Sessions /\ (\A i \in 1 .. Len(q) : q[i] # s) /\ \A x \in Clients : held[x] # s
  BY <1>2, <1>4, UnusedChosen
<1>6. /\ head' = NoSession /\ tail' = NoSession /\ next' = NoLinks /\ prev' = NoLinks
      /\ held' = [held EXCEPT ![c] = s] /\ idle' = [idle EXCEPT ![s] = 0]
      /\ checkedOut' = checkedOut + 1 /\ dirty' = dirty
  BY <1>4 DEF CreateServerSession
<1>7. /\ held' \in [Clients -> Node] /\ held'[c] = s
      /\ Cardinality(Users(held')) = Cardinality(Users(held)) + 1
  BY <1>2, <1>5, <1>6, UserAdded DEF PoolTypeOK
<1>8. /\ Cardinality(Users(held)) \in Nat /\ Cardinality(Users(held')) \in Nat
      /\ Cardinality(Users(held')) <= Cardinality(Clients) /\ Cardinality(Clients) \in Nat
  BY UsersFinite
<1>9. PoolTypeOK'
  <2>1. idle' \in [Sessions -> 0 .. MaxIdle]
    <3>1. 0 \in 0 .. MaxIdle /\ idle \in [Sessions -> 0 .. MaxIdle]
      BY <1>2, SessionsAssumption DEF PoolTypeOK
    <3> QED
      BY <1>6, <3>1
  <2>2. checkedOut' \in 0 .. Cardinality(Clients)
    BY <1>2, <1>6, <1>7, <1>8
  <2>3. next' \in [Sessions -> Node] /\ prev' \in [Sessions -> Node]
    BY <1>6 DEF NoLinks, Node
  <2>4. head' \in Node /\ tail' \in Node /\ dirty' \subseteq Sessions
    BY <1>2, <1>6 DEF PoolTypeOK, Node
  <2> QED
    BY <1>7, <2>1, <2>2, <2>3, <2>4 DEF PoolTypeOK
<1>10. Path(next', head', <<>>) /\ Len(<<>>) = 0
  BY <1>6, PathOfNone
<1>11. ListIs(head', tail', next', prev', <<>>)
  BY <1>6, <1>10 DEF ListIs
<1>12. Apart(held', <<>>)
  BY <1>2, <1>5, <1>6, <1>7, <1>10 DEF Apart, PoolTypeOK
<1>13. Few(held', <<>>)
  BY <1>8, <1>10 DEF Few
<1>14. checkedOut' = Cardinality(Users(held'))
  BY <1>2, <1>6, <1>7
<1>15. Inv' /\ Walk(next', head') = <<>>
  BY <1>9, <1>11, <1>12, <1>13, <1>14, InvFromList
<1>16. \A i \in DOMAIN q : q[i] \in ExpiredSessions'
  <2>1. SUFFICES ASSUME NEW i \in 1 .. Len(q) PROVE q[i] \in ExpiredSessions'
    BY <1>2
  <2>2. idle'[q[i]] = idle[q[i]]
    BY <1>2, <1>5, <1>6 DEF PoolTypeOK
  <2> QED
    BY <1>2, <1>3, <2>2 DEF ExpiredSessions, Expired
<1>17. Stack!Make(c)
  <2>1. ~Stack!InStack(s) /\ ~Stack!Held(s)
    BY <1>1, <1>2, <1>5 DEF Stack!InStack, Stack!Held
  <2> QED
    BY <1>1, <1>5, <1>6, <1>15, <1>16, <2>1 DEF Stack!Make
<1> QED
  BY <1>15, <1>17

(* The first fit session of the list, if there is one. *)
LEMMA FirstFitFound ==
  ASSUME Inv, NEW t, NEW q, q = Walk(next, head)
  PROVE  \/ /\ FirstFit(t) = NoSession
            /\ \A i \in 1 .. Len(q) : Expired(q[i], t)
         \/ \E k \in 1 .. Len(q) :
              /\ FirstFit(t) = q[k] /\ ~Expired(q[k], t)
              /\ \A j \in 1 .. k - 1 : Expired(q[j], t)
<1> DEFINE fit == {i \in 1 .. Len(q) : ~Expired(q[i], t)}
<1>1. Len(q) \in Nat /\ DOMAIN q = 1 .. Len(q)
  BY InvHasList
<1>2. FirstFit(t) = IF fit = {} THEN NoSession ELSE q[First(fit)]
  BY <1>1 DEF FirstFit
<1>3. fit \in SUBSET Nat
  BY <1>1
<1>4. CASE fit = {}
  BY <1>2, <1>4
<1>5. CASE fit # {}
  <2> DEFINE k == First(fit)
  <2>1. k \in fit /\ \A j \in fit : k <= j
    BY <1>3, <1>5, FirstIsLeast
  <2> HIDE DEF k
  <2>2. k \in 1 .. Len(q) /\ ~Expired(q[k], t)
    BY <2>1
  <2>3. \A j \in 1 .. k - 1 : j \in 1 .. Len(q) /\ j \notin fit
    BY <1>1, <2>1, <2>2
  <2>4. \A j \in 1 .. k - 1 : Expired(q[j], t)
    BY <2>3
  <2>5. FirstFit(t) = q[k]
    BY <1>2, <1>5 DEF k
  <2> QED
    BY <2>2, <2>4, <2>5
<1> QED
  BY <1>4, <1>5

(* A session of the list is taken, and the ones before it are dropped. *)
LEMMA TakeStep ==
  ASSUME Inv, NEW c \in Clients, held[c] = NoSession, NEW q, q = Walk(next, head),
         NEW k \in 1 .. Len(q), ~Expired(q[k], timeout'),
         \A j \in 1 .. k - 1 : Expired(q[j], timeout'),
         timeout' \in Timeouts \cup {0}, Unlink(q[k]),
         held' = [held EXCEPT ![c] = q[k]], checkedOut' = checkedOut + 1,
         idle' = idle, dirty' = dirty
  PROVE  Inv' /\ Stack!Take(c)
<1> DEFINE L == Len(q)
           s == q[k]
           r == SubSeq(q, k + 1, L)
<1>0. q \in Seq(Sessions) /\ L \in Nat /\ k \in Nat /\ 1 <= k /\ k <= L
  BY InvHasList
<1>1. /\ PoolTypeOK /\ checkedOut = Cardinality(Users(held))
      /\ ListIs(head, tail, next, prev, q) /\ Path(next, head, q)
      /\ Apart(held, q) /\ Few(held, q) /\ q \in Seq(Sessions)
      /\ L \in Nat /\ DOMAIN q = 1 .. L /\ NoSession \notin Sessions
      /\ \A i \in 1 .. L : q[i] \in Sessions
      /\ \A i, j \in 1 .. L : q[i] = q[j] => i = j
  BY InvHasList, SessionsAssumption
<1>2. /\ r \in Seq(Sessions) /\ Len(r) = L - k /\ DOMAIN r = 1 .. L - k
      /\ \A i \in 1 .. L - k : r[i] = q[k + i] /\ k + i \in 1 .. L
  BY <1>0
<1>3. s \in Sessions /\ Path(next, next[s], r) /\ next[s] = At(q, k + 1)
  <2>1. Path(next, next[s], r)
    BY <1>1, PathAfter
  <2>2. next[s] = At(q, k + 1)
    BY <1>1 DEF Path
  <2> QED
    BY <1>1, <2>1, <2>2
<1>4. Walk(next, next[s]) = r
  BY <1>3, WalkIsPath
<1> HIDE DEF r
<1>5. /\ next' = [x \in Sessions |-> IF x \in Elements(r) THEN next[x] ELSE NoSession]
      /\ prev' = [x \in Sessions |-> IF x \in Elements(r)
                                      THEN [prev EXCEPT ![next[s]] = NoSession][x] ELSE NoSession]
      /\ head' = IF tail = s THEN NoSession ELSE next[s]
      /\ tail' = IF tail = s THEN NoSession ELSE tail
  BY <1>4 DEF Unlink, Garbage
<1>6. /\ held' \in [Clients -> Node] /\ held'[c] = s
      /\ Cardinality(Users(held')) = Cardinality(Users(held)) + 1
  <2>1. held \in [Clients -> Node]
    BY <1>1 DEF PoolTypeOK
  <2>2. s \in Sessions /\ held' = [held EXCEPT ![c] = s]
    BY <1>3
  <2> HIDE DEF s
  <2> QED
    BY ONLY held[c] = NoSession, <2>1, <2>2, UserAdded
<1>7. /\ Cardinality(Users(held)) \in Nat /\ Cardinality(Users(held')) \in Nat
      /\ Cardinality(Users(held')) <= Cardinality(Clients) /\ Cardinality(Clients) \in Nat
  BY UsersFinite
<1>8. \A i \in 1 .. L - k : r[i] \in Elements(r) /\ r[i] \in Sessions
  BY <1>1, <1>2 DEF Elements
<1>9. Path(next', next[s], r)
  <2>1. \A i \in 1 .. Len(r) : next'[r[i]] = next[r[i]]
    BY <1>2, <1>5, <1>8
  <2> QED
    BY <1>3, <2>1, PathAgrees
<1>10. tail = s => k = L
  <2>1. SUFFICES ASSUME tail = s PROVE k = L
    OBVIOUS
  <2>2. s # NoSession
    BY <1>1, <1>3
  <2>3. tail = q[L]
    BY <1>1, <2>1, <2>2 DEF ListIs
  <2>4. L \in 1 .. L /\ k \in 1 .. L /\ q[L] = q[k]
    BY <1>0, <2>1, <2>3
  <2>5. \A i, j \in 1 .. L : q[i] = q[j] => i = j
    BY <1>1
  <2> QED
    BY <2>4, <2>5
<1>11. head' = next[s]
  <2>1. CASE tail = s
    BY <1>1, <1>3, <1>5, <1>10, <2>1 DEF At
  <2> QED
    BY <1>5, <2>1
<1>12. PoolTypeOK'
  <2>1. next' \in [Sessions -> Node]
    BY <1>1, <1>5 DEF PoolTypeOK, Node
  <2>2. prev' \in [Sessions -> Node]
    <3>1. [prev EXCEPT ![next[s]] = NoSession] \in [Sessions -> Node]
      BY <1>1 DEF PoolTypeOK, Node
    <3>2. PICK p : p = [prev EXCEPT ![next[s]] = NoSession]
      OBVIOUS
    <3> QED
      BY <1>5, <3>1, <3>2 DEF Node
  <2>3. head' \in Node /\ tail' \in Node
    BY <1>1, <1>3, <1>5, <1>11 DEF PoolTypeOK, Node
  <2>4. checkedOut' \in 0 .. Cardinality(Clients)
    BY <1>1, <1>6, <1>7
  <2>5. idle' \in [Sessions -> 0 .. MaxIdle] /\ dirty' \subseteq Sessions
    BY <1>1 DEF PoolTypeOK
  <2> QED
    BY <1>6, <2>1, <2>2, <2>3, <2>4, <2>5 DEF PoolTypeOK
<1>13. ListIs(head', tail', next', prev', r)
  <2>1. ASSUME tail' # NoSession
        PROVE  /\ Len(r) # 0 /\ tail' = r[Len(r)]
               /\ \A i \in 1 .. Len(r) : prev'[r[i]] = At(r, i - 1)
    <3>1. tail # s /\ tail' = tail /\ tail # NoSession
      BY <1>5, <2>1
    <3>2. L # 0 /\ tail = q[L] /\ \A i \in 1 .. L : prev[q[i]] = At(q, i - 1)
      BY <1>1, <3>1 DEF ListIs
    <3>3. k # L
      BY <3>1, <3>2
    <3>4. L - k \in 1 .. L - k /\ k + (L - k) = L
      BY <1>0, <3>3
    <3>5. Len(r) # 0 /\ tail' = r[Len(r)]
      BY <1>2, <3>1, <3>2, <3>4
    <3>6. ASSUME NEW i \in 1 .. L - k PROVE prev'[r[i]] = At(r, i - 1)
      <4>1. k + 1 \in 1 .. L /\ next[s] = q[k + 1]
        <5>1. k + 1 \in 1 .. L
          BY <1>1, <3>3
        <5> QED
          BY <1>3, <5>1 DEF At
      <4>2. PICK p : p = [prev EXCEPT ![next[s]] = NoSession]
        OBVIOUS
      <4>3. prev'[r[i]] = p[r[i]]
        BY <1>5, <1>8, <4>2
      <4>4. \A x \in Sessions : p[x] = IF x = q[k + 1] THEN NoSession ELSE prev[x]
        BY <1>1, <4>1, <4>2 DEF PoolTypeOK
      <4>5. r[i] = q[k + i] /\ k + i \in 1 .. L
        BY <1>2
      <4>6. CASE i = 1
        <5>1. p[r[i]] = NoSession
          BY <1>8, <4>4, <4>5, <4>6
        <5> QED
          BY <4>3, <4>6, <5>1 DEF At
      <4>7. CASE i # 1
        <5>1. q[k + i] # q[k + 1]
          <6>1. k + i # k + 1
            BY <1>1, <4>7
          <6> QED
            BY <1>1, <4>1, <4>5, <6>1
        <5>2. prev'[r[i]] = At(q, (k + i) - 1)
          BY <1>8, <3>2, <4>3, <4>4, <4>5, <5>1
        <5>3. i - 1 \in 1 .. L - k /\ (k + i) - 1 = k + (i - 1)
          BY <1>1, <4>7
        <5>4. (k + i) - 1 \in 1 .. L /\ r[i - 1] = q[(k + i) - 1]
          BY <1>2, <5>3
        <5> QED
          BY <1>2, <5>2, <5>3, <5>4 DEF At
      <4> QED
        BY <4>6, <4>7
    <3> QED
      BY <1>2, <3>5, <3>6
  <2> QED
    BY <1>9, <1>11, <2>1 DEF ListIs
<1>14. Apart(held', r)
  <2>1. \A i \in 1 .. L - k : r[i] # s
    <3>1. SUFFICES ASSUME NEW i \in 1 .. L - k PROVE r[i] # s
      OBVIOUS
    <3>2. r[i] = q[k + i] /\ k + i \in 1 .. L /\ k + i # k
      BY <1>1, <1>2
    <3> QED
      BY <1>1, <3>2
  <2>2. \A x \in Clients : held'[x] = IF x = c THEN s ELSE held[x]
    BY <1>1 DEF PoolTypeOK
  <2>3. \A x \in Clients : held[x] # s
    BY <1>1 DEF Apart
  <2>4. \A x \in Clients : \A i \in 1 .. L - k : held'[x] # r[i]
    BY <1>1, <1>2, <2>1, <2>2 DEF Apart
  <2>5. \A x, y \in Clients : x # y /\ held'[x] # NoSession => held'[x] # held'[y]
    BY <1>1, <2>2, <2>3 DEF Apart
  <2> QED
    BY <1>2, <2>4, <2>5 DEF Apart
<1>15. Few(held', r)
  BY <1>1, <1>2, <1>6, <1>7 DEF Few
<1>16. checkedOut' = Cardinality(Users(held'))
  BY <1>1, <1>6
<1>17. Inv' /\ Walk(next', head') = r
  BY <1>12, <1>13, <1>14, <1>15, <1>16, InvFromList
<1>18. \A x \in Sessions : x \in ExpiredSessions' <=> Expired(x, timeout')
  BY DEF ExpiredSessions, Expired
<1>19. s \notin ExpiredSessions' /\ \A j \in 1 .. k - 1 : q[j] \in ExpiredSessions'
  <2>1. \A j \in 1 .. k - 1 : j \in 1 .. L
    BY <1>1
  <2> QED
    BY <1>1, <1>3, <1>18, <2>1
<1>20. Stack!Take(c)
  BY <1>1, <1>17, <1>19 DEF Stack!Take, r
<1> QED
  BY <1>17, <1>20

(* A session is taken from the stack, or made. *)
LEMMA GetStep ==
  ASSUME Inv, NEW c \in Clients, GetSession(c)
  PROVE  Inv' /\ (Stack!Take(c) \/ Stack!Make(c))
<1>1. PICK q : q = Walk(next, head)
  OBVIOUS
<1>2. held[c] = NoSession /\ timeout' \in Timeouts \cup {0}
  BY DEF GetSession, UpdateTimeout, Inv, PoolTypeOK
<1>3. PICK s : s = FirstFit(timeout')
  OBVIOUS
<1>4. CASE s = NoSession
  <2>1. \A i \in 1 .. Len(q) : Expired(q[i], timeout')
    <3>1. \A i \in 1 .. Len(q) : q[i] # NoSession
      BY <1>1, InvHasList, SessionsAssumption
    <3> QED
      BY <1>1, <1>3, <1>4, <3>1, FirstFitFound
  <2>2. CreateServerSession(c)
    BY <1>3, <1>4 DEF GetSession
  <2> QED
    BY <1>1, <1>2, <2>1, <2>2, CreateStep
<1>5. CASE s # NoSession
  <2>1. PICK k \in 1 .. Len(q) : /\ s = q[k] /\ ~Expired(q[k], timeout')
                                 /\ \A j \in 1 .. k - 1 : Expired(q[j], timeout')
    BY <1>1, <1>3, <1>5, FirstFitFound
  <2>2. /\ Unlink(s) /\ held' = [held EXCEPT ![c] = s]
        /\ checkedOut' = checkedOut + 1 /\ idle' = idle /\ dirty' = dirty
    BY <1>3, <1>5 DEF GetSession
  <2> QED
    BY <1>1, <1>2, <2>1, <2>2, TakeStep
<1> QED
  BY <1>4, <1>5

(* An empty list has no session to take. *)
LEMMA EmptyStep ==
  ASSUME Inv, NEW c \in Clients, GetFromEmpty(c)
  PROVE  Inv' /\ Stack!Make(c)
<1>1. Walk(next, head) = <<>> /\ Len(<<>>) = 0
  BY PathOfNone, WalkIsPath DEF GetFromEmpty
<1>2. /\ held[c] = NoSession /\ CreateServerSession(c)
      /\ timeout' \in Timeouts \cup {0}
  BY DEF GetFromEmpty, Inv, PoolTypeOK
<1>3. \A i \in 1 .. Len(Walk(next, head)) : Expired(Walk(next, head)[i], timeout')
  BY <1>1
<1> QED
  BY <1>2, <1>3, CreateStep

(* What is left of the list when expired nodes were dropped: a head that   *)
(* is behind when all of them were, and a cut list otherwise.              *)
LEMMA DropExpiredLeaves ==
  ASSUME PoolTypeOK, NEW q, ListIs(head, tail, next, prev, q), NEW t, NEW d, d = DropExpired(t)
  PROVE  /\ d.tail \in Node /\ d.next \in [Sessions -> Node] /\ d.prev \in [Sessions -> Node]
         /\ \E n \in 0 .. Len(q) : ListIs(head, d.tail, d.next, d.prev, SubSeq(q, 1, n))
<1>1. /\ Path(next, head, q) /\ q \in Seq(Sessions) /\ Len(q) \in Nat
      /\ \A i \in 1 .. Len(q) : q[i] \in Sessions
  BY DEF ListIs, Path
<1>2. CASE tail = NoSession
  <2>1. d.tail = NoSession /\ d.next = next /\ d.prev = prev
    BY <1>2, DropExpiredKeeps
  <2>2. SubSeq(q, 1, Len(q)) = q /\ Len(q) \in 0 .. Len(q)
    BY <1>1
  <2>3. ListIs(head, d.tail, d.next, d.prev, SubSeq(q, 1, Len(q)))
    BY <1>1, <2>1, <2>2 DEF ListIs
  <2> QED
    BY <2>1, <2>2, <2>3 DEF PoolTypeOK, Node
<1>3. CASE tail # NoSession
  <2>1. PICK m \in 0 .. Len(q) : CutTo(d, q, m)
    BY <1>3, DropExpiredCuts
  <2>2. Len(q) # 0 /\ \A i \in 1 .. Len(q) : prev[q[i]] = At(q, i - 1)
    BY <1>3 DEF ListIs
  <2>3. d.tail = At(q, m) /\ d.next \in [Sessions -> Node] /\ d.prev \in [Sessions -> Node]
    BY <2>1 DEF CutTo
  <2>4. d.tail \in Node
    <3>1. At(q, m) \in Sessions \/ At(q, m) = NoSession
      BY <1>1 DEF At
    <3> QED
      BY <2>3, <3>1 DEF Node
  <2>5. \A i \in 1 .. Len(q) :
          /\ d.next[q[i]] = IF i >= m THEN NoSession ELSE q[i + 1]
          /\ d.prev[q[i]] = IF i > m THEN NoSession ELSE At(q, i - 1)
    BY <2>1 DEF CutTo
  <2>6. CASE m = 0
    <3>1. d.tail = NoSession
      BY <2>3, <2>6 DEF At
    <3>2. 1 \in 1 .. Len(q) /\ 1 \in 0 .. Len(q)
      BY <1>1, <2>2
    <3>3. \A i \in 1 .. 1 : d.next[q[i]] = IF i = 1 THEN NoSession ELSE q[i + 1]
      BY <2>5, <2>6, <3>2
    <3>4. Path(d.next, head, SubSeq(q, 1, 1))
      BY <1>1, <3>2, <3>3, PathCut
    <3>5. ListIs(head, d.tail, d.next, d.prev, SubSeq(q, 1, 1))
      BY <3>1, <3>4 DEF ListIs
    <3> QED
      BY <2>3, <2>4, <3>2, <3>5
  <2>7. CASE m # 0
    <3>1. m \in 1 .. Len(q) /\ m \in 0 .. Len(q) /\ \A i \in 1 .. m : i \in 1 .. Len(q)
      BY <1>1, <2>7
    <3>2. \A i \in 1 .. m : d.next[q[i]] = IF i = m THEN NoSession ELSE q[i + 1]
      <4>1. SUFFICES ASSUME NEW i \in 1 .. m
                     PROVE  d.next[q[i]] = IF i = m THEN NoSession ELSE q[i + 1]
        OBVIOUS
      <4>2. i \in 1 .. Len(q) /\ (i >= m <=> i = m)
        <5>1. i \in Nat /\ m \in Nat /\ i <= m
          BY <1>1
        <5> QED
          BY <3>1, <5>1
      <4> QED
        BY <2>5, <4>2
    <3>3. Path(d.next, head, SubSeq(q, 1, m))
      BY <1>1, <3>1, <3>2, PathCut
    <3> DEFINE r == SubSeq(q, 1, m)
    <3>4. Len(r) = m /\ \A i \in 1 .. m : r[i] = q[i]
      BY <1>1, <3>1
    <3> HIDE DEF r
    <3>5. \A i \in 1 .. m : d.prev[r[i]] = At(r, i - 1)
      <4>1. SUFFICES ASSUME NEW i \in 1 .. m PROVE d.prev[r[i]] = At(r, i - 1)
        OBVIOUS
      <4>2. i \in 1 .. Len(q) /\ ~(i > m) /\ r[i] = q[i]
        <5>1. i \in Nat /\ m \in Nat /\ i <= m
          BY <1>1
        <5> QED
          BY <3>1, <3>4, <5>1
      <4>3. d.prev[r[i]] = At(q, i - 1)
        BY <2>5, <4>2
      <4>4. CASE i = 1
        BY <4>3, <4>4 DEF At
      <4>5. CASE i # 1
        <5>1. i - 1 \in 1 .. m
          BY <3>1, <4>5
        <5> QED
          BY <3>1, <3>4, <4>3, <5>1 DEF At
      <4> QED
        BY <4>4, <4>5
    <3>6. d.tail = r[Len(r)] /\ Len(r) # 0
      <4>1. m \in 1 .. m
        BY <3>1
      <4> QED
        BY <2>3, <2>7, <3>1, <3>4, <4>1 DEF At
    <3>7. ListIs(head, d.tail, d.next, d.prev, r)
      BY <3>3, <3>4, <3>5, <3>6 DEF ListIs, r
    <3> QED
      BY <2>3, <2>4, <3>1, <3>7 DEF r
  <2> QED
    BY <2>6, <2>7
<1> QED
  BY <1>2, <1>3

(* A session that is pushed is the first one of the list, before what      *)
(* DropExpired left of it, or alone if nothing was left.                   *)
LEMMA PushLeaves ==
  ASSUME PoolTypeOK, NEW q, ListIs(head, tail, next, prev, q), NEW t, NEW d, d = DropExpired(t),
         NEW s \in Sessions, \A i \in 1 .. Len(q) : q[i] # s, Push(s, d)
  PROVE  /\ head' \in Node /\ tail' \in Node
         /\ next' \in [Sessions -> Node] /\ prev' \in [Sessions -> Node]
         /\ \E n \in 0 .. Len(q) : ListIs(head', tail', next', prev', <<s>> \o SubSeq(q, 1, n))
<1>1. /\ Path(next, head, q) /\ q \in Seq(Sessions) /\ Len(q) \in Nat
      /\ \A i \in 1 .. Len(q) : q[i] \in Sessions
      /\ NoSession \notin Sessions /\ s # NoSession /\ s \in Node /\ NoSession \in Node
  BY SessionsAssumption DEF ListIs, Path, Node
<1>2. /\ d.tail \in Node /\ d.next \in [Sessions -> Node] /\ d.prev \in [Sessions -> Node]
      /\ head \in Node
  <2>1. d.tail \in Node /\ d.next \in [Sessions -> Node] /\ d.prev \in [Sessions -> Node]
    BY DropExpiredLeaves
  <2> QED
    BY <2>1 DEF PoolTypeOK
<1>3. CASE d.tail = NoSession
  <2>1. /\ head' = s /\ tail' = s
        /\ next' = [d.next EXCEPT ![s] = NoSession] /\ prev' = [d.prev EXCEPT ![s] = NoSession]
    BY <1>3 DEF Push
  <2>2. next' \in [Sessions -> Node] /\ prev' \in [Sessions -> Node]
    BY <1>1, <1>2, <2>1
  <2>3. next'[s] = NoSession /\ prev'[s] = NoSession
    BY <1>2, <2>1
  <2>4. Path(next', s, <<s>>) /\ Len(<<s>>) = 1 /\ <<s>>[1] = s
    BY <2>3, PathOfOne
  <2>5. ListIs(head', tail', next', prev', <<s>>)
    <3>1. \A i \in 1 .. 1 : prev'[<<s>>[i]] = At(<<s>>, i - 1)
      <4>1. At(<<s>>, 0) = NoSession
        BY DEF At
      <4> QED
        BY <2>3, <2>4, <4>1
    <3> QED
      BY <2>1, <2>4, <3>1 DEF ListIs
  <2>6. 0 \in 0 .. Len(q) /\ <<s>> \o SubSeq(q, 1, 0) = <<s>>
    <3>1. SubSeq(q, 1, 0) \in Seq(Sessions) /\ Len(SubSeq(q, 1, 0)) = 0
      BY <1>1
    <3>2. SubSeq(q, 1, 0) = <<>>
      BY <3>1, EmptySeq
    <3>3. <<s>> \o <<>> = <<s>>
      <4>1. <<s>> \in Seq(Sessions)
        OBVIOUS
      <4> QED
        BY <4>1, ConcatEmptySeq, Zenon
    <3>4. 0 \in 0 .. Len(q)
      BY <1>1
    <3> QED
      BY <3>2, <3>3, <3>4, Zenon
  <2> QED
    BY <1>1, <2>1, <2>2, <2>5, <2>6
<1>4. CASE d.tail # NoSession
  <2>1. /\ head' = s /\ tail' = d.tail
        /\ next' = [d.next EXCEPT ![s] = head]
        /\ prev' = [d.prev EXCEPT ![s] = NoSession, ![head] = s]
    BY <1>4 DEF Push
  <2>2. next' \in [Sessions -> Node] /\ prev' \in [Sessions -> Node]
    BY <1>1, <1>2, <2>1
  <2>3. PICK n \in 0 .. Len(q) : ListIs(head, d.tail, d.next, d.prev, SubSeq(q, 1, n))
    BY DropExpiredLeaves
  <2>4. PICK r : r = SubSeq(q, 1, n)
    OBVIOUS
  <2>5. Len(r) = n /\ n \in Nat /\ \A i \in 1 .. n : r[i] = q[i] /\ i \in 1 .. Len(q)
    BY <1>1, <2>4
  <2>6. /\ Path(d.next, head, r) /\ n # 0 /\ d.tail = r[n]
        /\ \A i \in 1 .. n : d.prev[r[i]] = At(r, i - 1)
    BY <1>4, <2>3, <2>4, <2>5 DEF ListIs
  <2>7. \A i \in 1 .. n : r[i] # s /\ r[i] \in Sessions
    BY <1>1, <2>5
  <2>8. Path(next', head, r)
    <3>1. \A i \in 1 .. Len(r) : next'[r[i]] = d.next[r[i]]
      BY <1>2, <2>1, <2>5, <2>7
    <3> QED
      BY <2>6, <3>1, PathAgrees
  <2>9. next'[s] = head /\ head = r[1] /\ 1 \in 1 .. n
    <3>1. 1 \in 1 .. n
      BY <2>5, <2>6
    <3> QED
      BY <1>2, <2>1, <2>5, <2>6, <3>1 DEF Path, At
  <2>10. PICK p : p = <<s>> \o r
    OBVIOUS
  <2>11. /\ Path(next', s, p) /\ Len(p) = n + 1 /\ p[1] = s
         /\ \A i \in 1 .. n : p[i + 1] = r[i]
    BY <2>5, <2>7, <2>8, <2>9, <2>10, PathPushed
  <2>12. \A x \in Sessions :
           prev'[x] = IF x = head THEN s ELSE IF x = s THEN NoSession ELSE d.prev[x]
    BY <1>2, <2>1, <2>7, <2>9
  <2>13. tail' = p[Len(p)] /\ Len(p) # 0
    <3>1. n \in 1 .. n /\ n + 1 # 0
      BY <2>5, <2>6
    <3> QED
      BY <2>1, <2>6, <2>11, <3>1
  <2>14. \A i \in 1 .. Len(p) : prev'[p[i]] = At(p, i - 1)
    <3>1. SUFFICES ASSUME NEW i \in 1 .. n + 1 PROVE prev'[p[i]] = At(p, i - 1)
      BY <2>11
    <3>2. CASE i = 1
      <4>1. prev'[s] = NoSession
        BY <2>7, <2>9, <2>12
      <4> QED
        BY <2>11, <3>2, <4>1 DEF At
    <3>3. CASE i = 2
      <4>1. p[2] = head /\ 1 \in 1 .. Len(p)
        <5>1. p[1 + 1] = r[1] /\ 1 + 1 = 2
          BY <2>9, <2>11
        <5> QED
          BY <2>5, <2>9, <2>11, <5>1
      <4>2. prev'[head] = s
        BY <2>7, <2>9, <2>12
      <4> QED
        BY <2>11, <3>3, <4>1, <4>2 DEF At
    <3>4. CASE i # 1 /\ i # 2
      <4>1. /\ i - 1 \in 1 .. n /\ i - 2 \in 1 .. n /\ (i - 1) - 1 = i - 2
            /\ (i - 1) + 1 = i /\ (i - 2) + 1 = i - 1 /\ i - 1 \in 1 .. n + 1 /\ i - 1 # 1
        BY <2>5, <3>4
      <4>2. p[i] = r[i - 1] /\ p[i - 1] = r[i - 2]
        BY <2>11, <4>1
      <4>3. d.prev[r[i - 1]] = r[i - 2]
        BY <2>5, <2>6, <4>1 DEF At
      <4>4. r[i - 1] # head /\ r[i - 1] # s /\ r[i - 1] \in Sessions
        BY <2>5, <2>6, <2>7, <2>9, <4>1 DEF Path
      <4>5. prev'[p[i]] = p[i - 1]
        BY <2>12, <4>2, <4>3, <4>4
      <4> QED
        BY <2>11, <4>1, <4>5 DEF At
    <3> QED
      BY <3>2, <3>3, <3>4
  <2>15. ListIs(head', tail', next', prev', p)
    BY <2>1, <2>11, <2>13, <2>14 DEF ListIs
  <2> QED
    BY <1>1, <1>2, <2>1, <2>2, <2>4, <2>10, <2>15
<1> QED
  BY <1>3, <1>4

(* A session is returned: it is on top of the stack, or forgotten. *)
LEMMA ReturnStep ==
  ASSUME Inv, NEW c \in Clients, ReturnSession(c)
  PROVE  Inv' /\ Stack!Return(c)
<1>1. PICK q : q = Walk(next, head)
  OBVIOUS
<1>2. /\ PoolTypeOK /\ checkedOut = Cardinality(Users(held))
      /\ ListIs(head, tail, next, prev, q)
      /\ Apart(held, q) /\ Few(held, q) /\ q \in Seq(Sessions) /\ Len(q) \in Nat
  BY <1>1, InvHasList
<1>3. PICK s : s = held[c]
  OBVIOUS
<1>4. /\ s # NoSession /\ held' = [held EXCEPT ![c] = NoSession]
      /\ checkedOut' = checkedOut - 1 /\ timeout' \in Timeouts \cup {0}
      /\ dirty' = dirty \ {s} /\ idle' = idle
  BY <1>2, <1>3 DEF ReturnSession, UpdateTimeout, PoolTypeOK
<1>5. s \in Sessions /\ \A i \in 1 .. Len(q) : q[i] # s
  BY <1>2, <1>3, <1>4 DEF PoolTypeOK, Node, Apart
<1>6. PICK d : d = DropExpired(timeout')
  OBVIOUS
<1>7. IF Discard(s, timeout')
      THEN tail' = d.tail /\ next' = d.next /\ prev' = d.prev /\ head' = head
      ELSE Push(s, d)
  BY <1>3, <1>6 DEF ReturnSession
<1> DEFINE top == IF Discard(s, timeout') THEN <<>> ELSE <<s>>
<1>8. /\ head' \in Node /\ tail' \in Node
      /\ next' \in [Sessions -> Node] /\ prev' \in [Sessions -> Node]
      /\ \E n \in 0 .. Len(q) : ListIs(head', tail', next', prev', top \o SubSeq(q, 1, n))
  <2>1. CASE Discard(s, timeout')
    <3>1. tail' = d.tail /\ next' = d.next /\ prev' = d.prev /\ head' = head
      BY <1>7, <2>1
    <3>2. d.tail \in Node /\ d.next \in [Sessions -> Node] /\ d.prev \in [Sessions -> Node]
      BY <1>2, <1>6, DropExpiredLeaves
    <3>3. PICK n \in 0 .. Len(q) : ListIs(head, d.tail, d.next, d.prev, SubSeq(q, 1, n))
      BY <1>2, <1>6, DropExpiredLeaves
    <3>4. SubSeq(q, 1, n) \in Seq(Sessions)
      BY <3>3 DEF ListIs, Path
    <3>5. top \o SubSeq(q, 1, n) = SubSeq(q, 1, n)
      BY <2>1, <3>4, ConcatEmptySeq
    <3> QED
      BY <1>2, <3>1, <3>2, <3>3, <3>5 DEF PoolTypeOK
  <2>2. CASE ~Discard(s, timeout')
    <3>1. Push(s, d) /\ top = <<s>>
      BY <1>7, <2>2
    <3> QED
      BY <1>2, <1>5, <1>6, <3>1, PushLeaves
  <2> QED
    BY <2>1, <2>2
<1>9. PICK n \in 0 .. Len(q) : ListIs(head', tail', next', prev', top \o SubSeq(q, 1, n))
  BY <1>8
<1>10. PICK r : r = top \o SubSeq(q, 1, n)
  OBVIOUS
<1>11. /\ Len(r) <= Len(q) + 1 /\ Len(r) \in Nat
       /\ \A i \in 1 .. Len(r) : r[i] = s \/ \E j \in 1 .. Len(q) : r[i] = q[j]
  <2> DEFINE p == SubSeq(q, 1, n)
  <2>1. p \in Seq(Sessions) /\ Len(p) = n /\ \A i \in 1 .. n : p[i] = q[i] /\ i \in 1 .. Len(q)
    BY <1>2
  <2>2. n \in Nat /\ n <= Len(q)
    BY <1>2
  <2> HIDE DEF p
  <2>3. CASE top = <<>>
    <3>1. r = p
      BY <1>10, <2>1, <2>3, ConcatEmptySeq DEF p
    <3> QED
      BY <1>2, <2>1, <2>2, <3>1
  <2>4. CASE top = <<s>>
    <3>1. /\ Len(<<s>> \o p) = n + 1 /\ (<<s>> \o p)[1] = s
          /\ \A i \in 1 .. n : (<<s>> \o p)[i + 1] = p[i]
      BY <1>5, <2>1, <2>2
    <3>2. r = <<s>> \o p
      BY <1>10, <2>4 DEF p
    <3>3. \A i \in 1 .. n + 1 : i = 1 \/ (i - 1 \in 1 .. n /\ (i - 1) + 1 = i)
      BY <2>2
    <3>4. \A i \in 1 .. n + 1 : r[i] = s \/ \E j \in 1 .. Len(q) : r[i] = q[j]
      <4>1. SUFFICES ASSUME NEW i \in 1 .. n + 1, i # 1
                     PROVE  \E j \in 1 .. Len(q) : r[i] = q[j]
        BY <3>1, <3>2
      <4>2. i - 1 \in 1 .. n /\ r[(i - 1) + 1] = p[i - 1] /\ (i - 1) + 1 = i
        BY <3>1, <3>2, <3>3, <4>1
      <4> QED
        BY <2>1, <4>2
    <3> QED
      BY <1>2, <2>2, <3>1, <3>2, <3>4
  <2> QED
    BY <2>3, <2>4
<1>12. /\ held' \in [Clients -> Node]
       /\ Cardinality(Users(held')) = Cardinality(Users(held)) - 1
  <2>1. held \in [Clients -> Node] /\ held[c] # NoSession
    BY <1>2, <1>3, <1>4 DEF PoolTypeOK
  <2> QED
    BY <1>4, <2>1, UserRemoved
<1>13. /\ Cardinality(Users(held)) \in Nat /\ Cardinality(Users(held')) \in Nat
       /\ Cardinality(Users(held')) <= Cardinality(Clients) /\ Cardinality(Clients) \in Nat
  BY UsersFinite
<1>14. PoolTypeOK'
  <2>1. checkedOut' \in 0 .. Cardinality(Clients)
    BY <1>2, <1>4, <1>12, <1>13
  <2>2. idle' \in [Sessions -> 0 .. MaxIdle] /\ dirty' \subseteq Sessions
    BY <1>2, <1>4 DEF PoolTypeOK
  <2> QED
    BY <1>4, <1>8, <1>12, <2>1, <2>2 DEF PoolTypeOK
<1>15. checkedOut' = Cardinality(Users(held'))
  BY <1>2, <1>4, <1>12
<1>16. Apart(held', r)
  <2>1. \A x \in Clients : held'[x] = IF x = c THEN NoSession ELSE held[x]
    BY <1>2, <1>4 DEF PoolTypeOK
  <2>2. \A x \in Clients : x # c => held[x] # s
    BY <1>2, <1>3, <1>4 DEF Apart
  <2>3. NoSession \notin Sessions /\ \A j \in 1 .. Len(q) : q[j] \in Sessions
    BY <1>2, SessionsAssumption
  <2>4. \A x \in Clients : \A i \in 1 .. Len(r) : held'[x] # r[i]
    <3>1. SUFFICES ASSUME NEW x \in Clients, NEW i \in 1 .. Len(r) PROVE held'[x] # r[i]
      OBVIOUS
    <3>2. CASE x = c
      BY <1>5, <1>11, <2>1, <2>3, <3>2
    <3>3. CASE x # c
      <4>1. \A j \in 1 .. Len(q) : held[x] # q[j]
        BY <1>2 DEF Apart
      <4> QED
        BY <1>11, <2>1, <2>2, <3>3, <4>1
    <3> QED
      BY <3>2, <3>3
  <2>5. \A x, y \in Clients : x # y /\ held'[x] # NoSession => held'[x] # held'[y]
    BY <1>2, <2>1 DEF Apart
  <2> QED
    BY <2>4, <2>5 DEF Apart
<1>17. Few(held', r)
  BY <1>2, <1>11, <1>12, <1>13 DEF Few
<1>18. Inv' /\ Walk(next', head') = r
  <2> HIDE DEF top
  <2>1. ListIs(head', tail', next', prev', r)
    BY <1>9, <1>10, Zenon
  <2> QED
    BY <1>14, <1>15, <1>16, <1>17, <2>1, InvFromList
<1>19. Discard(s, timeout') <=> s \in ExpiredSessions' \cup dirty
  BY <1>4, <1>5 DEF Discard, ExpiredSessions, Expired
<1>20. top = IF s \in ExpiredSessions' \cup dirty THEN <<>> ELSE <<s>>
  BY <1>19
<1> HIDE DEF top
<1>21. Walk(next', head') = (IF held[c] \in ExpiredSessions' \cup dirty THEN <<>> ELSE <<held[c]>>)
                             \o SubSeq(Walk(next, head), 1, n)
  BY <1>1, <1>3, <1>10, <1>18, <1>20
<1>22. n \in 0 .. Len(Walk(next, head)) /\ held[c] # NoSession /\ dirty' = dirty \ {held[c]}
  BY <1>1, <1>3, <1>4
<1>23. Stack!Return(c)
  BY <1>4, <1>21, <1>22 DEF Stack!Return
<1> QED
  BY <1>18, <1>23

(* A list that is left alone stays as it is. *)
LEMMA ListUnchanged ==
  ASSUME Inv, PoolTypeOK', UNCHANGED <<listVars, checkedOut, held>>
  PROVE  Inv' /\ Walk(next', head') = Walk(next, head)
<1>1. PICK q : q = Walk(next, head)
  OBVIOUS
<1>2. /\ checkedOut = Cardinality(Users(held)) /\ ListIs(head, tail, next, prev, q)
      /\ Apart(held, q) /\ Few(held, q)
  BY <1>1, InvHasList
<1>3. /\ head' = head /\ tail' = tail /\ next' = next /\ prev' = prev
      /\ checkedOut' = checkedOut /\ held' = held
  BY DEF listVars
<1>4. ListIs(head', tail', next', prev', q) /\ Apart(held', q) /\ Few(held', q)
  BY <1>2, <1>3
<1>5. checkedOut' = Cardinality(Users(held'))
  BY <1>2, <1>3
<1> QED
  BY <1>1, <1>4, <1>5, InvFromList

(* A command uses a session. *)
LEMMA UseStep ==
  ASSUME Inv, NEW c \in Clients, Use(c)
  PROVE  Inv' /\ Stack!Change
<1>1. PoolTypeOK /\ UNCHANGED <<listVars, checkedOut, held>>
  BY DEF Inv, Use
<1>2. held[c] \in Sessions
  BY <1>1 DEF Use, PoolTypeOK, Node
<1>3. idle' \in [Sessions -> 0 .. MaxIdle] /\ dirty' \subseteq Sessions
  <2>1. 0 \in 0 .. MaxIdle /\ idle \in [Sessions -> 0 .. MaxIdle]
    BY <1>1, SessionsAssumption DEF PoolTypeOK
  <2>2. idle' = [idle EXCEPT ![held[c]] = 0] /\ (dirty' = dirty \/ dirty' = dirty \cup {held[c]})
    BY DEF Use
  <2>3. dirty' \subseteq Sessions
    BY <1>1, <1>2, <2>2 DEF PoolTypeOK
  <2> QED
    BY <2>1, <2>2, <2>3
<1>4. PoolTypeOK'
  BY <1>1, <1>3 DEF Use, PoolTypeOK, listVars
<1>5. Inv' /\ Walk(next', head') = Walk(next, head)
  BY <1>1, <1>4, ListUnchanged
<1>6. ExpiredSessions' \subseteq Sessions
  BY DEF ExpiredSessions
<1> QED
  BY <1>1, <1>3, <1>5, <1>6 DEF Stack!Change

(* Time passes. *)
LEMMA TickStep ==
  ASSUME Inv, Tick
  PROVE  Inv' /\ Stack!Change
<1>1. PoolTypeOK /\ UNCHANGED <<listVars, checkedOut, held>> /\ dirty' = dirty
  BY DEF Inv, Tick
<1>2. idle' \in [Sessions -> 0 .. MaxIdle]
  <2>1. MaxIdle \in Nat /\ idle \in [Sessions -> 0 .. MaxIdle]
    BY <1>1, SessionsAssumption DEF PoolTypeOK
  <2>2. \A s \in Sessions : (IF s \in Unused THEN 0
                              ELSE IF idle[s] < MaxIdle THEN idle[s] + 1 ELSE MaxIdle) \in 0 .. MaxIdle
    BY <2>1
  <2> QED
    BY <2>2 DEF Tick
<1>3. PoolTypeOK'
  BY <1>1, <1>2 DEF Tick, PoolTypeOK, listVars
<1>4. Inv' /\ Walk(next', head') = Walk(next, head)
  BY <1>1, <1>3, ListUnchanged
<1>5. ExpiredSessions' \subseteq Sessions /\ dirty' \subseteq Sessions
  BY <1>1 DEF ExpiredSessions, PoolTypeOK
<1> QED
  BY <1>1, <1>4, <1>5 DEF Stack!Change

(* Every step keeps the invariant, and is a step of the stack. *)
LEMMA PoolStep ==
  ASSUME Inv, [PoolNext]_poolVars
  PROVE  Inv' /\ [Stack!Next]_(Stack!stackVars)
<1>1. CASE UNCHANGED poolVars
  <2>1. UNCHANGED <<listVars, checkedOut, held>> /\ UNCHANGED <<timeout, idle, dirty>>
    BY <1>1 DEF poolVars
  <2>2. PoolTypeOK'
    <3>1. PoolTypeOK
      BY DEF Inv
    <3> QED
      BY <2>1, <3>1 DEF PoolTypeOK, listVars
  <2>3. Inv' /\ Walk(next', head') = Walk(next, head)
    BY <2>1, <2>2, ListUnchanged
  <2>4. ExpiredSessions' = ExpiredSessions
    BY <2>1 DEF ExpiredSessions, Expired
  <2> QED
    BY <2>1, <2>3, <2>4 DEF Stack!stackVars
<1>2. CASE Tick
  BY <1>2, TickStep DEF Stack!Next
<1>3. ASSUME NEW c \in Clients, GetFromEmpty(c) \/ GetSession(c) \/ ReturnSession(c) \/ Use(c)
      PROVE  Inv' /\ Stack!Next
  <2>1. CASE GetFromEmpty(c)
    BY <2>1, EmptyStep DEF Stack!Next
  <2>2. CASE GetSession(c)
    BY <2>2, GetStep DEF Stack!Next
  <2>3. CASE ReturnSession(c)
    BY <2>3, ReturnStep DEF Stack!Next
  <2>4. CASE Use(c)
    BY <2>4, UseStep DEF Stack!Next
  <2> QED
    BY <1>3, <2>1, <2>2, <2>3, <2>4
<1> QED
  BY <1>1, <1>2, <1>3 DEF PoolNext

-----------------------------------------------------------------------------
(* The inductive invariant holds in every state (session_pool.go): the     *)
(* types; checkedOut counts the clients that have a session; the list is a *)
(* path of next, and of prev the other way round while there is a tail; no *)
(* session is with two clients, or with one and in the list; and list and  *)
(* clients together have at most as many sessions as there are clients.    *)
THEOREM PoolInv == PoolSpec => []Inv
<1>1. NewPool => Inv
  BY NewPoolGood
<1>2. Inv /\ [PoolNext]_poolVars => Inv'
  BY PoolStep
<1> QED
  BY <1>1, <1>2, PTL DEF PoolSpec

(* The pool's variables stay of their types, whatever the sessions, the    *)
(* clients and the timeouts; in particular checkedOut is never negative,   *)
(* which sessionPool.ReturnSession relies on when it counts down.          *)
THEOREM PoolTypesStay == PoolSpec => []PoolTypeOK
<1>1. Inv => PoolTypeOK
  BY DEF Inv
<1> QED
  BY <1>1, PoolInv, PTL

(* The invariant says what the run checks of users and of the list. *)
LEMMA OneUserFromInv ==
  ASSUME Inv
  PROVE  SessionsHaveOneUser
<1>1. PICK q : q = Walk(next, head)
  OBVIOUS
<1>2. /\ PoolTypeOK /\ ListIs(head, tail, next, prev, q) /\ Path(next, head, q)
      /\ Apart(held, q) /\ q \in Seq(Sessions) /\ Len(q) \in Nat /\ DOMAIN q = 1 .. Len(q)
      /\ \A i \in 1 .. Len(q) : q[i] \in Sessions
      /\ \A i, j \in 1 .. Len(q) : q[i] = q[j] => i = j
  BY <1>1, InvHasList
<1>3. Cardinality(Elements(q)) = Len(q)
  BY <1>2, ElementsCounted
<1>4. \A c \in Clients : held[c] \notin Elements(q)
  BY <1>2 DEF Apart, Elements
<1>5. \A c, d \in Clients : c # d /\ held[c] # NoSession => held[c] # held[d]
  BY <1>2 DEF Apart
<1>6. Exclusive
  BY <1>1, <1>3, <1>4, <1>5 DEF Exclusive
<1>7. ASSUME tail # NoSession
      PROVE  /\ q # <<>> /\ q[Len(q)] = tail /\ prev[head] = NoSession
             /\ \A s \in Elements(q) : next[s] # NoSession => prev[next[s]] = s
  <2>1. Len(q) # 0 /\ tail = q[Len(q)] /\ \A i \in 1 .. Len(q) : prev[q[i]] = At(q, i - 1)
    BY <1>2, <1>7 DEF ListIs
  <2>2. 1 \in 1 .. Len(q) /\ q # <<>>
    BY <1>2, <2>1
  <2>3. head = q[1]
    BY <1>2, <2>2 DEF Path, At
  <2>4. prev[head] = NoSession
    <3>1. prev[q[1]] = At(q, 1 - 1)
      BY <2>1, <2>2
    <3> QED
      BY <2>3, <3>1 DEF At
  <2>5. ASSUME NEW s \in Elements(q), next[s] # NoSession PROVE prev[next[s]] = s
    <3>1. PICK i \in 1 .. Len(q) : s = q[i]
      BY <1>2 DEF Elements
    <3>2. next[q[i]] = At(q, i + 1)
      BY <1>2 DEF Path
    <3>3. i + 1 \in 1 .. Len(q) /\ next[s] = q[i + 1]
      BY <2>5, <3>1, <3>2 DEF At
    <3>4. prev[q[i + 1]] = At(q, (i + 1) - 1) /\ (i + 1) - 1 = i
      BY <1>2, <2>1, <3>3
    <3> QED
      BY <3>1, <3>3, <3>4 DEF At
  <2> QED
    BY <2>1, <2>2, <2>4, <2>5
<1>8. ListShape
  BY <1>1, <1>7 DEF ListShape
<1> QED
  BY <1>6, <1>8 DEF SessionsHaveOneUser

(* A server session has one user: it is never with two clients, nor in the *)
(* list while a client has it, nor twice in the list, and the list is the  *)
(* same from both ends while it has a tail (GetSession, ReturnSession).    *)
THEOREM SessionsOfOneUser == PoolSpec => []SessionsHaveOneUser
<1>1. Inv => SessionsHaveOneUser
  BY OneUserFromInv
<1> QED
  BY <1>1, PoolInv, PTL

(* The linked list implements the stack: GetSession takes the last session *)
(* that was returned and is fit, or makes one that nobody knows of, and    *)
(* ReturnSession keeps no dirty or expired one (session_pool.go).          *)
THEOREM ListImplementsStack == PoolSpec => StackSpec
<1>1. NewPool => Stack!Init
  BY NewPoolGood
<1>2. Inv /\ [PoolNext]_poolVars => [Stack!Next]_(Stack!stackVars)
  BY PoolStep
<1> QED
  BY <1>1, <1>2, PoolInv, PTL DEF PoolSpec, StackSpec, Stack!Spec

(* The pool never keeps more sessions than there were clients at a time:   *)
(* those that are listed and those that are with a client are together no  *)
(* more than the clients, and checkedOut counts the latter.                *)
SessionsAreFew ==
  /\ checkedOut = Cardinality({c \in Clients : held[c] # NoSession})
  /\ Len(Walk(next, head)) + checkedOut <= Cardinality(Clients)

(* GetSession makes a session only when the list has none that is fit, and *)
(* drops what it passed, so that sessions are not hoarded (session_pool.go).*)
THEOREM PoolIsBounded == PoolSpec => []SessionsAreFew
<1>1. Inv => SessionsAreFew
  BY DEF Inv, ListedAs, Few, Users, SessionsAreFew
<1> QED
  BY <1>1, PoolInv, PTL
=============================================================================
