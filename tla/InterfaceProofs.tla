--------------------------- MODULE InterfaceProofs ---------------------------
(* Proofs about Interface: a pass of the reconciler that begins with any     *)
(* screen draws any tree, provided that no key which changes its parent      *)
(* leaves the old parent standing; and the trees of successive models are    *)
(* such, when each command waits for the pass of the one before to begin.    *)
(* PassOK is what holds inside a pass: the calls in flight follow one branch *)
(* of both trees, what lies before them is drawn, what is still wanted is    *)
(* found by its key. IInv adds what a pass begins with and leaves behind.    *)
EXTENDS Interface, SequenceTheorems, FiniteSetTheorems, TLAPS

------------------------------------------------------------------------------
(* Paths.                                                                    *)

LEMMA AppendFacts ==
  ASSUME NEW K, NEW s \in Seq(K), NEW k \in K
  PROVE  /\ Append(s, k) \in Seq(K) /\ Append(s, k) # <<>>
         /\ Len(Append(s, k)) = Len(s) + 1
         /\ Last(Append(s, k)) = k /\ Front(Append(s, k)) = s
         /\ \A i \in 1..Len(s) : Append(s, k)[i] = s[i]
         /\ Append(s, k)[Len(s) + 1] = k
BY DEF Last, Front

LEMMA PartFacts ==
  ASSUME NEW K, NEW s \in Seq(K), NEW m \in 1..(Len(s) + 1), NEW n \in 0..Len(s), m <= n + 1
  PROVE  /\ SubSeq(s, m, n) \in Seq(K) /\ Len(SubSeq(s, m, n)) = n - m + 1
         /\ \A i \in 1..(n - m + 1) : SubSeq(s, m, n)[i] = s[m + i - 1]
<1>1. \A i \in m..n : s[i] \in K
  BY ElementOfSeq
<1>2. SubSeq(s, m, n) \in Seq(K)
  BY <1>1, SubSeqProperties
<1>3. Len(SubSeq(s, m, n)) = n - m + 1
  <2>1. Len(SubSeq(s, m, n)) = IF m <= n THEN n - m + 1 ELSE 0
    BY <1>1, SubSeqProperties
  <2> QED
    BY <2>1
<1>4. \A i \in 1..(n - m + 1) : SubSeq(s, m, n)[i] = s[m + i - 1]
  BY <1>1, SubSeqProperties, SMT
<1> QED
  BY <1>2, <1>3, <1>4

LEMMA JoinFacts ==
  ASSUME NEW K, NEW s \in Seq(K), NEW t \in Seq(K)
  PROVE  /\ s \o t \in Seq(K) /\ Len(s \o t) = Len(s) + Len(t)
         /\ \A i \in 1..Len(s) : (s \o t)[i] = s[i]
         /\ \A i \in (Len(s) + 1)..(Len(s) + Len(t)) : (s \o t)[i] = t[i - Len(s)]
<1>1. Len(s) \in Nat /\ Len(t) \in Nat
  OBVIOUS
<1>2. \A i \in 1..(Len(s) + Len(t)) : (s \o t)[i] = IF i <= Len(s) THEN s[i] ELSE t[i - Len(s)]
  BY ConcatProperties
<1>3. \A i \in 1..Len(s) : (s \o t)[i] = s[i]
  BY <1>1, <1>2
<1>4. \A i \in (Len(s) + 1)..(Len(s) + Len(t)) : (s \o t)[i] = t[i - Len(s)]
  BY <1>1, <1>2
<1> QED
  BY <1>3, <1>4, ConcatProperties

LEMMA FrontLast ==
  ASSUME NEW K, NEW s \in Seq(K), s # <<>>
  PROVE  /\ Front(s) \in Seq(K) /\ Last(s) \in K /\ Append(Front(s), Last(s)) = s
         /\ Len(Front(s)) = Len(s) - 1 /\ Len(s) \in Nat \ {0}
         /\ Front(s) = SubSeq(s, 1, Len(s) - 1)
<1>1. Len(s) \in Nat \ {0}
  BY EmptySeq
<1>2. Front(s) \in Seq(K) /\ Len(Front(s)) = Len(s) - 1 /\ \A i \in 1..(Len(s) - 1) : Front(s)[i] = s[i]
  <2>1. 1 \in 1..(Len(s) + 1) /\ Len(s) - 1 \in 0..Len(s) /\ 1 <= (Len(s) - 1) + 1
    BY <1>1
  <2>2. /\ SubSeq(s, 1, Len(s) - 1) \in Seq(K)
        /\ Len(SubSeq(s, 1, Len(s) - 1)) = (Len(s) - 1) - 1 + 1
        /\ \A i \in 1..((Len(s) - 1) - 1 + 1) : SubSeq(s, 1, Len(s) - 1)[i] = s[1 + i - 1]
    BY <2>1, PartFacts
  <2> QED
    BY <1>1, <2>2 DEF Front
<1>3. Last(s) \in K
  BY <1>1, ElementOfSeq DEF Last
<1>4. /\ Len(Append(Front(s), Last(s))) = Len(s)
      /\ \A i \in 1..Len(s) : Append(Front(s), Last(s))[i] = s[i]
  BY <1>1, <1>2, <1>3 DEF Last
<1>5. Append(Front(s), Last(s)) = s
  BY <1>2, <1>3, <1>4, SeqEqual
<1> QED
  BY <1>1, <1>2, <1>3, <1>5 DEF Front

LEMMA PrefixFacts ==
  ASSUME NEW K, NEW c \in Seq(K), NEW q \in Seq(K)
  PROVE  /\ IsPrefix(c, q) => Len(c) <= Len(q) /\ c = SubSeq(q, 1, Len(c))
         /\ Len(c) <= Len(q) /\ c = SubSeq(q, 1, Len(c)) => IsPrefix(c, q)
         /\ IsPrefix(<<>>, q)
         /\ IsPrefix(q, q)
<1>1. SubSeq(c, 1, Len(c)) = c
  OBVIOUS
<1> QED
  BY <1>1 DEF IsPrefix

\* What lies below a path but is not it lies below one of its children.
LEMMA NextPrefix ==
  ASSUME NEW K, NEW c \in Seq(K), NEW q \in Seq(K), IsPrefix(c, q), c # q
  PROVE  /\ Len(c) < Len(q) /\ q[Len(c) + 1] \in K
         /\ SubSeq(q, 1, Len(c) + 1) = Append(c, q[Len(c) + 1])
         /\ IsPrefix(Append(c, q[Len(c) + 1]), q)
<1> DEFINE k == q[Len(c) + 1]
<1>1. Len(c) <= Len(q) /\ c = SubSeq(q, 1, Len(c))
  BY PrefixFacts
<1>2. Len(c) < Len(q)
  BY <1>1
<1>3. k \in K
  BY <1>2
<1>4. SubSeq(q, 1, Len(c) + 1) = Append(c, k)
  <2> DEFINE u == SubSeq(q, 1, Len(c) + 1)
             v == Append(c, k)
  <2>1. u \in Seq(K) /\ Len(u) = Len(c) + 1 /\ \A i \in 1..(Len(c) + 1) : u[i] = q[i]
    BY <1>2
  <2>2. v \in Seq(K) /\ Len(v) = Len(c) + 1 /\ \A i \in 1..Len(c) : v[i] = c[i]
    BY <1>3
  <2>3. v[Len(c) + 1] = k
    BY <1>3
  <2>4. \A i \in 1..Len(c) : c[i] = q[i]
    BY <1>1
  <2>5. \A i \in 1..(Len(c) + 1) : u[i] = v[i]
    BY <2>1, <2>2, <2>3, <2>4
  <2> QED
    BY <2>1, <2>2, <2>5, SeqEqual
<1>5. Append(c, k) \in Seq(K) /\ Len(Append(c, k)) = Len(c) + 1
  BY <1>3
<1>6. Len(Append(c, k)) <= Len(q) /\ Append(c, k) = SubSeq(q, 1, Len(Append(c, k)))
  BY <1>2, <1>4, <1>5
<1> QED
  BY <1>2, <1>3, <1>4, <1>5, <1>6, PrefixFacts

\* u is s with k put at n.
Inserted(u, s, n, k) ==
  /\ Len(u) = Len(s) + 1
  /\ \A j \in 1..(n - 1) : u[j] = s[j]
  /\ u[n] = k
  /\ \A j \in (n + 1)..(Len(s) + 1) : u[j] = s[j - 1]

LEMMA InsertFacts ==
  ASSUME NEW K, NEW s \in Seq(K), NEW k \in K, NEW n \in 1..(Len(s) + 1)
  PROVE  InsertAt(s, n, k) \in Seq(K) /\ Inserted(InsertAt(s, n, k), s, n, k)
<1>1. PICK a, b, c : a = SubSeq(s, 1, n - 1) /\ b = SubSeq(s, n, Len(s)) /\ c = a \o <<k>>
  OBVIOUS
<1>2. InsertAt(s, n, k) = c \o b
  BY <1>1 DEF InsertAt
<1>3. a \in Seq(K) /\ Len(a) = n - 1 /\ \A j \in 1..(n - 1) : a[j] = s[j]
  <2>1. 1 \in 1..(Len(s) + 1) /\ n - 1 \in 0..Len(s) /\ 1 <= (n - 1) + 1
    OBVIOUS
  <2>2. /\ a \in Seq(K) /\ Len(a) = (n - 1) - 1 + 1
        /\ \A j \in 1..((n - 1) - 1 + 1) : a[j] = s[1 + j - 1]
    BY <1>1, <2>1, PartFacts
  <2> QED
    BY <2>2
<1>4. b \in Seq(K) /\ Len(b) = Len(s) - n + 1 /\ \A j \in 1..(Len(s) - n + 1) : b[j] = s[n + j - 1]
  <2>1. Len(s) \in 0..Len(s) /\ n <= Len(s) + 1
    OBVIOUS
  <2> QED
    BY <1>1, <2>1, PartFacts
<1>5. <<k>> \in Seq(K) /\ Len(<<k>>) = 1 /\ <<k>>[1] = k
  OBVIOUS
<1>6. /\ c \in Seq(K) /\ Len(c) = n
      /\ \A j \in 1..(n - 1) : c[j] = a[j]
      /\ c[n] = k
  <2>1. /\ c \in Seq(K) /\ Len(c) = Len(a) + 1
        /\ \A j \in 1..Len(a) : c[j] = a[j]
        /\ \A j \in (Len(a) + 1)..(Len(a) + 1) : c[j] = <<k>>[j - Len(a)]
    BY <1>1, <1>3, <1>5, JoinFacts
  <2>2. c[n] = <<k>>[1]
    BY <1>3, <2>1
  <2> QED
    BY <1>3, <1>5, <2>1, <2>2
<1>7. /\ c \o b \in Seq(K) /\ Len(c \o b) = Len(s) + 1
      /\ \A j \in 1..n : (c \o b)[j] = c[j]
      /\ \A j \in (n + 1)..(Len(s) + 1) : (c \o b)[j] = b[j - n]
  <2>1. n + Len(b) = Len(s) + 1
    BY <1>4
  <2> QED
    BY <1>4, <1>6, <2>1, JoinFacts
<1>8. \A j \in (n + 1)..(Len(s) + 1) : b[j - n] = s[j - 1]
  <2> TAKE j \in (n + 1)..(Len(s) + 1)
  <2>1. j - n \in 1..(Len(s) - n + 1) /\ n + (j - n) - 1 = j - 1
    OBVIOUS
  <2> QED
    BY <1>4, <2>1
<1> QED
  BY <1>2, <1>3, <1>6, <1>7, <1>8 DEF Inserted

Once(s) == \A i, j \in 1..Len(s) : s[i] = s[j] => i = j

Without(u, s, c) ==
  /\ Len(u) = Len(s) - 1
  /\ \A j \in 1..(c - 1) : u[j] = s[j]
  /\ \A j \in c..(Len(s) - 1) : u[j] = s[j + 1]

\* Without one of its items a sequence keeps the others in order.
LEMMA DropFacts ==
  ASSUME NEW K, NEW s \in Seq(K), Once(s), NEW x, NEW c \in 1..Len(s), s[c] = x
  PROVE  Drop(s, x) \in Seq(K) /\ Without(Drop(s, x), s, c)
<1>1. PICK a, b : a = SubSeq(s, 1, c - 1) /\ b = SubSeq(s, c + 1, Len(s))
  OBVIOUS
<1>2. (CHOOSE i \in 1..Len(s) : s[i] = x) = c
  BY DEF Once
<1>3. Drop(s, x) = a \o b
  BY <1>1, <1>2 DEF Drop, RemoveAt
<1>4. a \in Seq(K) /\ Len(a) = c - 1 /\ \A j \in 1..(c - 1) : a[j] = s[j]
  <2>1. 1 \in 1..(Len(s) + 1) /\ c - 1 \in 0..Len(s) /\ 1 <= (c - 1) + 1
    OBVIOUS
  <2>2. /\ a \in Seq(K) /\ Len(a) = (c - 1) - 1 + 1
        /\ \A j \in 1..((c - 1) - 1 + 1) : a[j] = s[1 + j - 1]
    BY <1>1, <2>1, PartFacts
  <2> QED
    BY <2>2
<1>5. b \in Seq(K) /\ Len(b) = Len(s) - c /\ \A j \in 1..(Len(s) - c) : b[j] = s[c + j]
  <2>1. c + 1 \in 1..(Len(s) + 1) /\ Len(s) \in 0..Len(s) /\ c + 1 <= Len(s) + 1
    OBVIOUS
  <2>2. /\ b \in Seq(K) /\ Len(b) = Len(s) - (c + 1) + 1
        /\ \A j \in 1..(Len(s) - (c + 1) + 1) : b[j] = s[(c + 1) + j - 1]
    BY <1>1, <2>1, PartFacts
  <2> QED
    BY <2>2
<1>6. /\ a \o b \in Seq(K) /\ Len(a \o b) = Len(s) - 1
      /\ \A j \in 1..(c - 1) : (a \o b)[j] = a[j]
      /\ \A j \in c..(Len(s) - 1) : (a \o b)[j] = b[j - (c - 1)]
  <2>1. Len(a) + Len(b) = Len(s) - 1 /\ Len(a) + 1 = c /\ Len(a) = c - 1
    BY <1>4, <1>5
  <2>2. /\ a \o b \in Seq(K) /\ Len(a \o b) = Len(a) + Len(b)
        /\ \A i \in 1..Len(a) : (a \o b)[i] = a[i]
        /\ \A i \in (Len(a) + 1)..(Len(a) + Len(b)) : (a \o b)[i] = b[i - Len(a)]
    BY <1>4, <1>5, JoinFacts
  <2> QED
    BY <2>1, <2>2
<1>7. \A j \in c..(Len(s) - 1) : b[j - (c - 1)] = s[j + 1]
  <2> TAKE j \in c..(Len(s) - 1)
  <2>1. j - (c - 1) \in 1..(Len(s) - c) /\ c + (j - (c - 1)) = j + 1
    OBVIOUS
  <2> QED
    BY <1>5, <2>1
<1> QED
  BY <1>3, <1>4, <1>6, <1>7 DEF Without

------------------------------------------------------------------------------
(* Trees.                                                                    *)

\* The order in which derive_tree lists siblings.
Rank(k) == IF k = "dock:right" THEN 3
           ELSE IF k \in {"panel-bar", "center", "content:bottom", "constellation"} THEN 2
           ELSE 1

InOrder(s) == \A i, j \in 1..Len(s) : i < j => Rank(s[i]) < Rank(s[j])
Among(k, s) == \E i \in 1..Len(s) : s[i] = k

\* Every widget but the root is a child of its parent, and siblings are in order.
Tree(t) ==
  /\ t = [p \in DOMAIN t |-> t[p]]
  /\ <<>> \in DOMAIN t
  /\ \A p \in DOMAIN t : p \in Seq(Keys) /\ Len(p) <= 4 /\ t[p] \in Seq(Keys) /\ InOrder(t[p])
  /\ \A p \in DOMAIN t : \A n \in 0..Len(p) : SubSeq(p, 1, n) \in DOMAIN t
  /\ \A p \in DOMAIN t, k \in Keys : Append(p, k) \in DOMAIN t <=> Among(k, t[p])

Below(t) == DOMAIN t \ {<<>>}

\* No key has two widgets.
OneEach(t) == \A p, q \in Below(t) : Last(p) = Last(q) => p = q

LEMMA InOrderOnce ==
  ASSUME NEW s \in Seq(Keys), InOrder(s)
  PROVE  \A i, j \in 1..Len(s) : s[i] = s[j] => i = j
<1> SUFFICES ASSUME NEW i \in 1..Len(s), NEW j \in 1..Len(s), s[i] = s[j], i # j PROVE FALSE
  OBVIOUS
<1>1. Rank(s[i]) \in Nat
  BY DEF Rank
<1>2. i < j \/ j < i
  OBVIOUS
<1> QED
  BY <1>1, <1>2 DEF InOrder

LEMMA Parts ==
  ASSUME NEW t, Tree(t), NEW p \in Below(t)
  PROVE  /\ p \in Seq(Keys) /\ p # <<>> /\ Front(p) \in DOMAIN t /\ Last(p) \in Keys
         /\ p = Append(Front(p), Last(p)) /\ Among(Last(p), t[Front(p)])
         /\ Len(Front(p)) = Len(p) - 1 /\ Len(p) \in 1..4
<1>1. p \in DOMAIN t /\ p \in Seq(Keys) /\ p # <<>> /\ Len(p) <= 4
  BY DEF Below, Tree
<1>2. /\ Front(p) \in Seq(Keys) /\ Last(p) \in Keys /\ Append(Front(p), Last(p)) = p
      /\ Len(Front(p)) = Len(p) - 1 /\ Len(p) \in Nat \ {0} /\ Front(p) = SubSeq(p, 1, Len(p) - 1)
  BY <1>1, FrontLast
<1>3. Front(p) \in DOMAIN t
  <2>1. Len(p) - 1 \in 0..Len(p)
    BY <1>2
  <2>2. SubSeq(p, 1, Len(p) - 1) \in DOMAIN t
    BY <1>1, <2>1 DEF Tree
  <2> QED
    BY <1>2, <2>2
<1>4. Among(Last(p), t[Front(p)])
  BY <1>1, <1>2, <1>3 DEF Tree
<1> QED
  BY <1>1, <1>2, <1>3, <1>4

\* What is above a widget of a tree is a widget of it.
LEMMA AboveInTree ==
  ASSUME NEW t, Tree(t), NEW q \in DOMAIN t, NEW c \in Seq(Keys), IsPrefix(c, q)
  PROVE  c \in DOMAIN t
<1>1. q \in Seq(Keys)
  BY DEF Tree
<1>2. Len(c) <= Len(q) /\ c = SubSeq(q, 1, Len(c))
  BY <1>1, PrefixFacts
<1>3. Len(c) \in 0..Len(q)
  BY <1>1, <1>2
<1> QED
  BY <1>2, <1>3 DEF Tree

LEMMA PrefixOfPart ==
  ASSUME NEW c \in Seq(Keys), NEW p \in Seq(Keys), NEW n \in 0..Len(p), IsPrefix(c, SubSeq(p, 1, n))
  PROVE  IsPrefix(c, p)
<1>1. /\ SubSeq(p, 1, n) \in Seq(Keys) /\ Len(SubSeq(p, 1, n)) = n
      /\ \A i \in 1..n : SubSeq(p, 1, n)[i] = p[i]
  <2>1. 1 \in 1..(Len(p) + 1) /\ 1 <= n + 1
    OBVIOUS
  <2>2. /\ SubSeq(p, 1, n) \in Seq(Keys) /\ Len(SubSeq(p, 1, n)) = n - 1 + 1
        /\ \A i \in 1..(n - 1 + 1) : SubSeq(p, 1, n)[i] = p[1 + i - 1]
    BY <2>1, PartFacts
  <2> QED
    BY <2>2
<1>2. Len(c) <= n /\ c = SubSeq(SubSeq(p, 1, n), 1, Len(c))
  BY <1>1, PrefixFacts
<1>3. \A i \in 1..Len(c) : c[i] = p[i]
  BY <1>1, <1>2
<1>4. /\ SubSeq(p, 1, Len(c)) \in Seq(Keys) /\ Len(SubSeq(p, 1, Len(c))) = Len(c)
      /\ \A i \in 1..Len(c) : SubSeq(p, 1, Len(c))[i] = p[i]
  <2>1. 1 \in 1..(Len(p) + 1) /\ Len(c) \in 0..Len(p) /\ 1 <= Len(c) + 1
    BY <1>2
  <2>2. /\ SubSeq(p, 1, Len(c)) \in Seq(Keys) /\ Len(SubSeq(p, 1, Len(c))) = Len(c) - 1 + 1
        /\ \A i \in 1..(Len(c) - 1 + 1) : SubSeq(p, 1, Len(c))[i] = p[1 + i - 1]
    BY <2>1, PartFacts
  <2> QED
    BY <2>2
<1>5. c = SubSeq(p, 1, Len(c))
  BY <1>3, <1>4, SeqEqual
<1> QED
  BY <1>2, <1>5, PrefixFacts

LEMMA DropOrdered ==
  ASSUME NEW s \in Seq(Keys), InOrder(s), NEW k, Among(k, s)
  PROVE  /\ Drop(s, k) \in Seq(Keys) /\ InOrder(Drop(s, k)) /\ ~Among(k, Drop(s, k))
         /\ \A x : x # k => (Among(x, Drop(s, k)) <=> Among(x, s))
<1>1. PICK c \in 1..Len(s) : s[c] = k
  BY DEF Among
<1>2. Once(s)
  BY InOrderOnce DEF Once
<1>3. PICK d : d = Drop(s, k)
  OBVIOUS
<1>4. /\ d \in Seq(Keys) /\ Len(d) = Len(s) - 1
      /\ \A j \in 1..(c - 1) : d[j] = s[j]
      /\ \A j \in c..(Len(s) - 1) : d[j] = s[j + 1]
  <2>1. d \in Seq(Keys) /\ Without(d, s, c)
    BY <1>1, <1>2, <1>3, DropFacts
  <2> QED
    BY <2>1 DEF Without
<1>5. InOrder(d)
  <2> SUFFICES ASSUME NEW i \in 1..Len(d), NEW j \in 1..Len(d), i < j PROVE Rank(d[i]) < Rank(d[j])
    BY DEF InOrder
  <2>1. PICK a : a = IF i < c THEN i ELSE i + 1
    OBVIOUS
  <2>2. PICK b : b = IF j < c THEN j ELSE j + 1
    OBVIOUS
  <2>3. a \in 1..Len(s) /\ b \in 1..Len(s) /\ a < b
    BY <1>4, <2>1, <2>2
  <2>4. d[i] = s[a] /\ d[j] = s[b]
    BY <1>4, <2>1, <2>2
  <2> QED
    BY <2>3, <2>4 DEF InOrder
<1>6. ~Among(k, d)
  <2> SUFFICES ASSUME NEW i \in 1..Len(d), d[i] = k PROVE FALSE
    BY DEF Among
  <2>1. CASE i < c
    BY <1>1, <1>2, <1>4, <2>1 DEF Once
  <2>2. CASE ~(i < c)
    <3>1. i + 1 \in 1..Len(s) /\ s[i + 1] = k /\ i + 1 # c
      BY <1>4, <2>2
    <3> QED
      BY <1>1, <1>2, <3>1 DEF Once
  <2> QED
    BY <2>1, <2>2
<1>7. ASSUME NEW x, x # k, Among(x, d) PROVE Among(x, s)
  <2>1. PICK i \in 1..Len(d) : d[i] = x
    BY <1>7 DEF Among
  <2>2. CASE i < c
    BY <1>4, <2>1, <2>2 DEF Among
  <2>3. CASE ~(i < c)
    <3>1. i + 1 \in 1..Len(s) /\ s[i + 1] = x
      BY <1>4, <2>1, <2>3
    <3> QED
      BY <3>1 DEF Among
  <2> QED
    BY <2>2, <2>3
<1>8. ASSUME NEW x, x # k, Among(x, s) PROVE Among(x, d)
  <2>1. PICK i \in 1..Len(s) : s[i] = x
    BY <1>8 DEF Among
  <2>2. CASE i < c
    BY <1>4, <2>1, <2>2 DEF Among
  <2>3. CASE i > c
    <3>1. i - 1 \in 1..Len(d) /\ d[i - 1] = x
      BY <1>4, <2>1, <2>3
    <3> QED
      BY <3>1 DEF Among
  <2>4. i # c
    BY <1>1, <1>8, <2>1
  <2> QED
    BY <2>2, <2>3, <2>4
<1>9. \A x : x # k => (Among(x, d) <=> Among(x, s))
  BY ONLY <1>7, <1>8, ZenonT(40)
<1> QED
  BY <1>3, <1>4, <1>5, <1>6, <1>9

LEMMA PrefixOfChild ==
  ASSUME NEW c \in Seq(Keys), NEW p \in Seq(Keys), NEW x \in Keys,
         IsPrefix(c, Append(p, x)), c # Append(p, x)
  PROVE  IsPrefix(c, p)
<1>1. PICK q : q = Append(p, x)
  OBVIOUS
<1>2. /\ q \in Seq(Keys) /\ Len(q) = Len(p) + 1
      /\ \A i \in 1..Len(p) : q[i] = p[i]
  BY <1>1, AppendFacts
<1>3. Len(c) < Len(q) /\ c = SubSeq(q, 1, Len(c))
  BY <1>1, <1>2, NextPrefix, PrefixFacts
<1>4. Len(c) \in 0..Len(p) /\ Len(c) \in 0..Len(q)
  <2>1. Len(c) \in Nat /\ Len(p) \in Nat
    OBVIOUS
  <2>2. PICK i, j, l : i = Len(c) /\ j = Len(p) /\ l = Len(q)
    BY ZenonT(40)
  <2>3. i \in Nat /\ j \in Nat /\ l = j + 1 /\ i < l
    BY <1>2, <1>3, <2>1, <2>2
  <2>4. i \in 0..j /\ i \in 0..l
    BY <2>3
  <2> QED
    BY <2>2, <2>4
<1>5. \A i \in 1..Len(c) : c[i] = p[i]
  <2>1. \A i \in 1..Len(c) : SubSeq(q, 1, Len(c))[i] = q[i]
    <3>1. 1 \in 1..(Len(q) + 1) /\ 1 <= Len(c) + 1
      BY <1>2
    <3>2. \A i \in 1..(Len(c) - 1 + 1) : SubSeq(q, 1, Len(c))[i] = q[1 + i - 1]
      BY <1>2, <1>4, <3>1, PartFacts, SMTT(40)
    <3> QED
      BY <1>4, <3>2
  <2>2. \A i \in 1..Len(c) : c[i] = q[i]
    BY <1>3, <2>1
  <2> QED
    BY <1>2, <1>4, <2>2
<1>6. /\ SubSeq(p, 1, Len(c)) \in Seq(Keys) /\ Len(SubSeq(p, 1, Len(c))) = Len(c)
      /\ \A i \in 1..Len(c) : SubSeq(p, 1, Len(c))[i] = p[i]
  <2>1. 1 \in 1..(Len(p) + 1) /\ Len(c) \in 0..Len(p) /\ 1 <= Len(c) + 1
    BY <1>4
  <2>2. /\ SubSeq(p, 1, Len(c)) \in Seq(Keys) /\ Len(SubSeq(p, 1, Len(c))) = Len(c) - 1 + 1
        /\ \A i \in 1..(Len(c) - 1 + 1) : SubSeq(p, 1, Len(c))[i] = p[1 + i - 1]
    BY <2>1, PartFacts
  <2> QED
    BY <2>2
<1>7. c = SubSeq(p, 1, Len(c))
  BY <1>5, <1>6, SeqEqual
<1>8. Len(c) <= Len(p)
  BY <1>4
<1> QED
  BY <1>7, <1>8, PrefixFacts

\* A tree without a child, and all below it, of one widget.
Pruned(t, a, k) ==
  [p \in DOMAIN t \ {q \in DOMAIN t : IsPrefix(Append(a, k), q)} |->
     [t EXCEPT ![a] = Drop(@, k)][p]]

LEMMA PrunedTree ==
  ASSUME NEW t, Tree(t), NEW a \in DOMAIN t, NEW k \in Keys, Among(k, t[a]),
         NEW u, u = Pruned(t, a, k)
  PROVE  /\ Tree(u) /\ a \in DOMAIN u /\ u[a] = Drop(t[a], k)
         /\ DOMAIN u = {q \in DOMAIN t : ~IsPrefix(Append(a, k), q)}
         /\ \A p \in DOMAIN u : p # a => u[p] = t[p]
<1>1. a \in Seq(Keys) /\ t[a] \in Seq(Keys) /\ InOrder(t[a])
  BY DEF Tree
<1>2. PICK c : c = Append(a, k)
  OBVIOUS
<1>3. c \in Seq(Keys) /\ Len(c) = Len(a) + 1 /\ c # <<>>
  BY <1>1, <1>2, AppendFacts
<1>4. DOMAIN u = {q \in DOMAIN t : ~IsPrefix(c, q)}
  BY <1>2 DEF Pruned
<1>5. ~IsPrefix(c, a) /\ ~IsPrefix(c, <<>>)
  <2>1. ~(Len(c) <= Len(a)) /\ ~(Len(c) <= Len(<<>>))
    BY <1>1, <1>3
  <2> QED
    BY <1>1, <1>3, <2>1 DEF IsPrefix
<1>6. a \in DOMAIN u
  BY <1>4, <1>5
<1>7. \A p \in DOMAIN u : u[p] = IF p = a THEN Drop(t[a], k) ELSE t[p]
  BY <1>2, <1>4 DEF Pruned
<1>8. /\ Drop(t[a], k) \in Seq(Keys) /\ InOrder(Drop(t[a], k)) /\ ~Among(k, Drop(t[a], k))
      /\ \A x : x # k => (Among(x, Drop(t[a], k)) <=> Among(x, t[a]))
  BY <1>1, DropOrdered
<1>9. u = [p \in DOMAIN u |-> u[p]]
  BY DEF Pruned
<1>10. <<>> \in DOMAIN u
  BY <1>4, <1>5 DEF Tree
<1>11. \A p \in DOMAIN u : p \in Seq(Keys) /\ Len(p) <= 4 /\ u[p] \in Seq(Keys) /\ InOrder(u[p])
  <2> TAKE p \in DOMAIN u
  <2>1. p \in DOMAIN t
    BY <1>4
  <2>2. CASE p = a
    BY <1>7, <1>8, <2>1, <2>2 DEF Tree
  <2>3. CASE p # a
    BY <1>7, <2>1, <2>3 DEF Tree
  <2> QED
    BY <2>2, <2>3
<1>12. \A p \in DOMAIN u : \A n \in 0..Len(p) : SubSeq(p, 1, n) \in DOMAIN u
  <2> TAKE p \in DOMAIN u
  <2> TAKE n \in 0..Len(p)
  <2>1. p \in DOMAIN t /\ ~IsPrefix(c, p) /\ p \in Seq(Keys)
    BY <1>4, <1>11
  <2>2. SubSeq(p, 1, n) \in DOMAIN t
    BY <2>1 DEF Tree
  <2>3. ~IsPrefix(c, SubSeq(p, 1, n))
    BY <1>3, <2>1, PrefixOfPart
  <2> QED
    BY <1>4, <2>2, <2>3
<1>13. \A p \in DOMAIN u, x \in Keys : Append(p, x) \in DOMAIN u <=> Among(x, u[p])
  <2> TAKE p \in DOMAIN u, x \in Keys
  <2>1. p \in DOMAIN t /\ ~IsPrefix(c, p) /\ p \in Seq(Keys)
    BY <1>4, <1>11
  <2>2. Append(p, x) \in DOMAIN t <=> Among(x, t[p])
    BY <2>1 DEF Tree
  <2>3. /\ Append(p, x) \in Seq(Keys) /\ Last(Append(p, x)) = x /\ Front(Append(p, x)) = p
    BY <2>1, AppendFacts
  <2>4. Last(c) = k /\ Front(c) = a
    BY <1>1, <1>2, AppendFacts
  <2>5. IsPrefix(c, Append(p, x)) <=> Append(p, x) = c
    <3>1. IsPrefix(c, c)
      BY <1>3, PrefixFacts
    <3>2. IsPrefix(c, Append(p, x)) => Append(p, x) = c
      BY <1>3, <2>1, PrefixOfChild
    <3> QED
      BY <3>1, <3>2
  <2>6. CASE p = a /\ x = k
    <3>1. Append(p, x) \notin DOMAIN u
      BY <1>2, <1>4, <2>5, <2>6
    <3>2. ~Among(x, u[p])
      BY <1>7, <1>8, <2>6
    <3> QED
      BY <3>1, <3>2
  <2>7. CASE p = a /\ x # k
    <3>1. Append(p, x) # c
      BY <2>3, <2>4, <2>7
    <3>2. Append(p, x) \in DOMAIN u <=> Append(p, x) \in DOMAIN t
      BY <1>4, <2>5, <3>1
    <3>3. Among(x, u[p]) <=> Among(x, t[p])
      BY <1>7, <1>8, <2>7
    <3> QED
      BY <2>2, <3>2, <3>3
  <2>8. CASE p # a
    <3>1. Append(p, x) # c
      BY <2>3, <2>4, <2>8
    <3>2. Append(p, x) \in DOMAIN u <=> Append(p, x) \in DOMAIN t
      BY <1>4, <2>5, <3>1
    <3>3. u[p] = t[p]
      BY <1>7, <2>8
    <3> QED
      BY <2>2, <3>2, <3>3
  <2> QED
    BY <2>6, <2>7, <2>8
<1>14. Tree(u)
  BY <1>9, <1>10, <1>11, <1>12, <1>13 DEF Tree
<1>15. \A p \in DOMAIN u : p # a => u[p] = t[p]
  BY <1>7
<1>16. u[a] = Drop(t[a], k)
  BY <1>6, <1>7
<1> QED
  BY <1>2, <1>4, <1>6, <1>14, <1>15, <1>16

\* A tree in which a widget has a new child among the others.
Grown(t, a, k, s) ==
  [p \in DOMAIN t \cup {Append(a, k)} |->
     IF p = Append(a, k) THEN <<>> ELSE IF p = a THEN s ELSE t[p]]

OneMore(k, s, r) == \A x \in Keys : Among(x, s) <=> x = k \/ Among(x, r)

LEMMA GrownTree ==
  ASSUME NEW t, Tree(t), NEW a \in DOMAIN t, Len(a) \in 0..3, NEW k \in Keys, Append(a, k) \notin DOMAIN t,
         NEW s \in Seq(Keys), InOrder(s), OneMore(k, s, t[a]),
         NEW u, u = Grown(t, a, k, s)
  PROVE  /\ Tree(u) /\ u[a] = s /\ DOMAIN u = DOMAIN t \cup {Append(a, k)}
         /\ \A p \in DOMAIN t : p # a => u[p] = t[p]
         /\ u[Append(a, k)] = <<>>
<1>1. a \in Seq(Keys) /\ Len(a) \in Nat /\ Len(a) <= 3
  <2>1. a \in Seq(Keys)
    BY DEF Tree
  <2>2. PICK l : l = Len(a)
    OBVIOUS
  <2>3. l \in 0..3
    BY <2>2
  <2>4. l \in Nat /\ l <= 3
    BY ONLY <2>3
  <2> QED
    BY <2>1, <2>2, <2>4
<1>2. PICK c : c = Append(a, k)
  OBVIOUS
<1>3. /\ c \in Seq(Keys) /\ Len(c) = Len(a) + 1 /\ Last(c) = k /\ Front(c) = a
      /\ \A i \in 1..Len(a) : c[i] = a[i]
  BY <1>1, <1>2, AppendFacts
<1>4. DOMAIN u = DOMAIN t \cup {c} /\ c \notin DOMAIN t /\ c # a
  BY <1>2 DEF Grown
<1>5. u[c] = <<>> /\ u[a] = s /\ \A p \in DOMAIN t : p # a => u[p] = t[p]
  BY <1>2, <1>4 DEF Grown
<1>6. u = [p \in DOMAIN u |-> u[p]]
  BY DEF Grown
<1>7. <<>> \in DOMAIN u
  BY <1>4 DEF Tree
<1>8. \A p \in DOMAIN u : p \in Seq(Keys) /\ Len(p) <= 4 /\ u[p] \in Seq(Keys) /\ InOrder(u[p])
  <2> TAKE p \in DOMAIN u
  <2>1. CASE p = c
    <3>1. <<>> \in Seq(Keys) /\ InOrder(<<>>)
      BY DEF InOrder
    <3> QED
      BY <1>1, <1>3, <1>5, <2>1, <3>1
  <2>2. CASE p = a
    BY <1>1, <1>5, <2>2
  <2>3. CASE p # a /\ p # c
    BY <1>4, <1>5, <2>3 DEF Tree
  <2> QED
    BY <2>1, <2>2, <2>3
<1>9. \A p \in DOMAIN u : \A n \in 0..Len(p) : SubSeq(p, 1, n) \in DOMAIN u
  <2> TAKE p \in DOMAIN u
  <2> TAKE n \in 0..Len(p)
  <2>1. CASE p \in DOMAIN t
    BY <1>4, <2>1 DEF Tree
  <2>2. CASE p = c /\ n = Len(c)
    <3>1. SubSeq(c, 1, Len(c)) = c
      BY <1>3
    <3> QED
      BY <1>4, <2>2, <3>1
  <2>3. CASE p = c /\ n # Len(c)
    <3>1. n \in 0..Len(a)
      BY <1>1, <1>3, <2>3
    <3>2. SubSeq(c, 1, n) = SubSeq(a, 1, n)
      BY <1>1, <1>3, <3>1
    <3>3. SubSeq(a, 1, n) \in DOMAIN t
      BY <3>1 DEF Tree
    <3> QED
      BY <1>4, <2>3, <3>2, <3>3
  <2> QED
    BY <1>4, <2>1, <2>2, <2>3
<1>10. \A p \in DOMAIN u, x \in Keys : Append(p, x) \in DOMAIN u <=> Among(x, u[p])
  <2> TAKE p \in DOMAIN u, x \in Keys
  <2>1. p \in Seq(Keys)
    BY <1>8
  <2>2. /\ Append(p, x) \in Seq(Keys) /\ Last(Append(p, x)) = x /\ Front(Append(p, x)) = p
        /\ Len(Append(p, x)) = Len(p) + 1
    BY <2>1, AppendFacts
  <2>3. CASE p = c
    <3>1. ~Among(x, u[p])
      BY <1>5, <2>3 DEF Among
    <3>2. Append(p, x) # c
      BY <1>3, <2>2, <2>3
    <3>3. Append(p, x) \notin DOMAIN t
      <4> SUFFICES ASSUME Append(c, x) \in DOMAIN t PROVE FALSE
        BY <2>3
      <4>1. SubSeq(Append(c, x), 1, Len(c)) = c
        BY <1>3
      <4>2. Len(c) \in 0..Len(Append(c, x))
        BY <1>3
      <4>3. SubSeq(Append(c, x), 1, Len(c)) \in DOMAIN t
        BY <4>2 DEF Tree
      <4> QED
        BY <1>4, <4>1, <4>3
    <3> QED
      BY <1>4, <3>1, <3>2, <3>3
  <2>4. CASE p = a
    <3>1. Append(a, x) = c <=> x = k
      BY <1>2, <1>3, <2>2, <2>4
    <3>2. Append(a, x) \in DOMAIN t <=> Among(x, t[a])
      BY DEF Tree
    <3> QED
      BY <1>4, <1>5, <2>4, <3>1, <3>2 DEF OneMore
  <2>5. CASE p # a /\ p # c
    <3>1. p \in DOMAIN t /\ u[p] = t[p]
      BY <1>4, <1>5, <2>5
    <3>2. Append(p, x) # c
      BY <1>3, <2>2, <2>5
    <3>3. Append(p, x) \in DOMAIN t <=> Among(x, t[p])
      BY <3>1 DEF Tree
    <3> QED
      BY <1>4, <3>1, <3>2, <3>3
  <2> QED
    BY <2>3, <2>4, <2>5
<1>11. Tree(u)
  BY <1>6, <1>7, <1>8, <1>9, <1>10 DEF Tree
<1> QED
  BY <1>2, <1>4, <1>5, <1>11

------------------------------------------------------------------------------
(* A pass.                                                                   *)

\* What the router is given is a live widget with that key.
Found ==
  /\ byKey \in [Keys -> Seq(Keys) \cup {Nothing}]
  /\ \A k \in Keys : byKey[k] # Nothing => byKey[k] \in Below(screen) /\ Last(byKey[k]) = k

\* What hangs on a widget of the new tree is found by its key.
Known == \A p \in Below(screen) : Front(p) \in DOMAIN spec => byKey[Last(p)] = p

\* A key that has another place in t has lost its old parent there.
Apart(s, t) ==
  \A p \in Below(s), q \in Below(t) : Front(p) \in DOMAIN t /\ Last(p) = Last(q) => p = q

\* What lies at c and below in t is drawn in s.
Drawn(s, t, c) == \A q \in DOMAIN t : IsPrefix(c, q) => q \in DOMAIN s /\ s[q] = t[q]

\* The first n of the wanted children are in their places, and no others than wanted ones are left.
InPlace(s, t, n) ==
  /\ n <= Len(s)
  /\ \A j \in 1..n : s[j] = t[j]
  /\ \A k \in Keys : Among(k, s) => Among(k, t)

Calls == [at : Seq(Keys), phase : {"remove", "walk"}, next : Nat]

\* The calls in flight follow one branch of both trees.
CallsOK ==
  /\ stack \in Seq(Calls) /\ stack # <<>> /\ stack[1].at = <<>>
  /\ \A i \in 1..Len(stack) :
       /\ stack[i].at \in DOMAIN spec /\ stack[i].at \in DOMAIN screen
       /\ Len(stack[i].at) = i - 1
       /\ stack[i].next \in 1..(Len(spec[stack[i].at]) + 1)
       /\ stack[i].phase = "remove" => i = Len(stack) /\ stack[i].next = 1
  /\ \A i \in 1..(Len(stack) - 1) :
       /\ stack[i].next > 1
       /\ stack[i + 1].at = Append(stack[i].at, spec[stack[i].at][stack[i].next - 1])

Walked ==
  \A i \in 1..Len(stack) : stack[i].phase = "walk" =>
    InPlace(screen[stack[i].at], spec[stack[i].at], stack[i].next - 1)

\* The children before the one that is being reconciled are done.
Done ==
  \A i \in 1..Len(stack) : \A j \in 1..(stack[i].next - 1) :
    (i = Len(stack) \/ j < stack[i].next - 1) => Drawn(screen, spec, Append(stack[i].at, spec[stack[i].at][j]))

PassOK ==
  /\ Tree(spec) /\ OneEach(spec) /\ Found /\ Known /\ Apart(screen, spec)
  /\ CallsOK /\ Walked /\ Done

ScreenOK == Tree(screen) /\ ~crashed

\* The innermost call, and the child it is at.
LEMMA TopFacts ==
  ASSUME PassOK
  PROVE  /\ Len(stack) \in Nat \ {0} /\ Top = stack[Len(stack)] /\ Top \in Calls
         /\ Top.at \in DOMAIN spec /\ Top.at \in DOMAIN screen /\ Top.at \in Seq(Keys)
         /\ Len(Top.at) = Len(stack) - 1 /\ Top.next \in 1..(Len(spec[Top.at]) + 1)
         /\ spec[Top.at] \in Seq(Keys) /\ InOrder(spec[Top.at])
<1>1. Len(stack) \in Nat \ {0}
  BY EmptySeq DEF PassOK, CallsOK
<1>2. stack[Len(stack)] \in Calls
  BY <1>1, ElementOfSeq DEF PassOK, CallsOK
<1>3. Top = stack[Len(stack)]
  BY DEF Top
<1>4. /\ Top.at \in DOMAIN spec /\ Top.at \in DOMAIN screen
      /\ Len(Top.at) = Len(stack) - 1 /\ Top.next \in 1..(Len(spec[Top.at]) + 1)
  BY <1>1, <1>3 DEF PassOK, CallsOK
<1> QED
  BY <1>1, <1>2, <1>3, <1>4 DEF PassOK, Tree, Calls

LEMMA WantedFacts ==
  ASSUME PassOK, Top.next <= Len(spec[Top.at])
  PROVE  /\ Wanted \in Keys /\ Wanted = spec[Top.at][Top.next] /\ Top.next \in 1..Len(spec[Top.at])
         /\ Child(Wanted) = Append(Top.at, Wanted)
         /\ Child(Wanted) \in Below(spec) /\ Child(Wanted) \in Seq(Keys) /\ Child(Wanted) # Nothing
         /\ Last(Child(Wanted)) = Wanted /\ Front(Child(Wanted)) = Top.at
         /\ Len(Child(Wanted)) = Len(Top.at) + 1 /\ Len(Top.at) <= 3
<1>1. Top.next \in 1..Len(spec[Top.at])
  BY TopFacts
<1>2. Wanted = spec[Top.at][Top.next] /\ Wanted \in Keys
  BY <1>1, TopFacts, ElementOfSeq DEF Wanted
<1>3. Child(Wanted) = Append(Top.at, Wanted)
  BY DEF Child
<1>4. /\ Child(Wanted) \in Seq(Keys) /\ Child(Wanted) # <<>> /\ Last(Child(Wanted)) = Wanted
      /\ Front(Child(Wanted)) = Top.at /\ Len(Child(Wanted)) = Len(Top.at) + 1
  BY <1>2, <1>3, TopFacts, AppendFacts
<1>5. Child(Wanted) \in DOMAIN spec
  <2>1. Among(Wanted, spec[Top.at])
    BY <1>1, <1>2 DEF Among
  <2>2. Tree(spec)
    BY DEF PassOK
  <2> QED
    BY <1>2, <1>3, <2>1, <2>2, TopFacts, SMTT(40) DEF Tree
<1>6. Len(Child(Wanted)) <= 4
  BY <1>5 DEF PassOK, Tree
<1>7. Child(Wanted) # Nothing
  BY <1>4, InterfaceAssumption
<1>8. Len(Top.at) <= 3
  <2>1. Len(Top.at) \in Nat
    BY TopFacts
  <2> QED
    BY <1>4, <1>6, <2>1
<1> QED
  BY <1>1, <1>2, <1>3, <1>4, <1>5, <1>7, <1>8 DEF Below

\* Only the innermost call has the place of the innermost call.
LEMMA OtherCalls ==
  ASSUME PassOK
  PROVE  \A i \in 1..(Len(stack) - 1) : stack[i].at # Top.at
<1> TAKE i \in 1..(Len(stack) - 1)
<1>1. i \in 1..Len(stack) /\ i # Len(stack) /\ Len(stack) \in Nat
  BY TopFacts
<1>2. Len(stack[i].at) = i - 1 /\ Len(Top.at) = Len(stack) - 1
  BY <1>1, TopFacts DEF PassOK, CallsOK
<1>3. i - 1 # Len(stack) - 1
  BY <1>1
<1> QED
  BY <1>2, <1>3

\* Beyond the first n the children that are left are those wanted later.
LEMMA Rest ==
  ASSUME NEW s \in Seq(Keys), InOrder(s), NEW t \in Seq(Keys), InOrder(t), NEW n \in Nat,
         InPlace(s, t, n), NEW j \in (n + 1)..Len(s)
  PROVE  \E b \in (n + 1)..Len(t) : s[j] = t[b]
<1>1. j \in 1..Len(s) /\ s[j] \in Keys
  BY ElementOfSeq
<1>2. Among(s[j], t)
  BY <1>1 DEF InPlace, Among
<1>3. PICK b \in 1..Len(t) : t[b] = s[j]
  BY <1>2 DEF Among
<1>4. CASE b <= n
  <2>1. b \in 1..n /\ b \in 1..Len(s) /\ b # j
    BY <1>4 DEF InPlace
  <2>2. s[b] = t[b]
    BY <2>1 DEF InPlace
  <2> QED
    BY <1>1, <1>3, <2>1, <2>2, InOrderOnce
<1>5. CASE b > n
  BY <1>3, <1>5
<1> QED
  BY <1>4, <1>5

LEMMA RemoveKeeps ==
  ASSUME PassOK, ScreenOK, NEW k \in Keys, RemoveChild(k)
  PROVE  PassOK' /\ ScreenOK'
<1>1. PICK a, c : a = Top.at /\ c = Append(a, k)
  OBVIOUS
<1>2. /\ Top.phase = "remove" /\ k \in Obsolete /\ Running
      /\ screen' = Pruned(screen, a, k)
      /\ UNCHANGED <<model, reconciler, spec, stack, crashed>>
      /\ byKey' = [x \in Keys |-> IF byKey[x] \in {p \in DOMAIN screen : IsPrefix(c, p)}
                                  THEN Nothing ELSE byKey[x]]
  BY <1>1 DEF RemoveChild, InCall, Child, Pruned
<1>3. /\ a \in DOMAIN spec /\ a \in DOMAIN screen /\ a \in Seq(Keys)
      /\ Tree(screen) /\ Tree(spec)
  BY <1>1, TopFacts DEF PassOK, ScreenOK
<1>4. Among(k, screen[a]) /\ ~Among(k, spec[a])
  BY <1>1, <1>2 DEF Obsolete, Among
<1>5. c \in Seq(Keys) /\ c \notin DOMAIN spec
  BY <1>1, <1>3, <1>4, AppendFacts DEF Tree
<1>6. /\ Tree(screen') /\ screen'[a] = Drop(screen[a], k)
      /\ DOMAIN screen' = {q \in DOMAIN screen : ~IsPrefix(c, q)}
      /\ \A p \in DOMAIN screen' : p # a => screen'[p] = screen[p]
  <2>1. screen' = Pruned(screen, a, k) /\ Tree(screen) /\ a \in DOMAIN screen /\ Among(k, screen[a])
    BY <1>2, <1>3, <1>4
  <2>2. /\ Tree(screen') /\ screen'[a] = Drop(screen[a], k)
        /\ DOMAIN screen' = {q \in DOMAIN screen : ~IsPrefix(Append(a, k), q)}
        /\ \A p \in DOMAIN screen' : p # a => screen'[p] = screen[p]
    BY <2>1, PrunedTree
  <2> QED
    BY <1>1, <2>2
<1>7. \A q \in DOMAIN spec : ~IsPrefix(c, q)
  BY <1>3, <1>5, AboveInTree
<1>8. spec' = spec /\ stack' = stack /\ crashed' = crashed
  BY <1>2
<1>9. Below(screen') = {p \in Below(screen) : ~IsPrefix(c, p)}
  BY <1>6 DEF Below
<1>10. Found'
  <2>1. byKey \in [Keys -> Seq(Keys) \cup {Nothing}]
    BY DEF PassOK, Found
  <2>2. byKey' \in [Keys -> Seq(Keys) \cup {Nothing}]
    BY <1>2, <2>1
  <2>3. ASSUME NEW x \in Keys, byKey'[x] # Nothing
        PROVE  byKey'[x] \in Below(screen') /\ Last(byKey'[x]) = x
    <3>1. byKey'[x] = byKey[x] /\ ~(byKey[x] \in {p \in DOMAIN screen : IsPrefix(c, p)})
      BY <1>2, <2>3
    <3>2. byKey[x] \in Below(screen) /\ Last(byKey[x]) = x
      BY <2>3, <3>1 DEF PassOK, Found
    <3>3. ~IsPrefix(c, byKey[x])
      BY <3>1, <3>2 DEF Below
    <3> QED
      BY <1>9, <3>1, <3>2, <3>3
  <2> QED
    BY <2>2, <2>3 DEF Found
<1>11. Known'
  <2> SUFFICES ASSUME NEW p \in Below(screen'), Front(p) \in DOMAIN spec PROVE byKey'[Last(p)] = p
    BY <1>8 DEF Known, Below
  <2>1. p \in Below(screen) /\ ~IsPrefix(c, p)
    BY <1>9
  <2>2. byKey[Last(p)] = p /\ Last(p) \in Keys
    BY <1>3, <2>1, Parts DEF PassOK, Known
  <2> QED
    BY <1>2, <2>1, <2>2
<1>12. Apart(screen, spec)'
  <2>1. Apart(screen, spec)
    BY DEF PassOK
  <2> QED
    BY <1>8, <1>9, <2>1 DEF Apart
<1>13. \A i \in 1..Len(stack) : stack[i].at \in DOMAIN screen'
  <2> TAKE i \in 1..Len(stack)
  <2>1. stack[i].at \in DOMAIN screen /\ stack[i].at \in DOMAIN spec
    BY DEF PassOK, CallsOK
  <2> QED
    BY <1>6, <1>7, <2>1
<1>14. CallsOK'
  <2>1. CallsOK
    BY DEF PassOK
  <2> QED
    BY <1>8, <1>13, <2>1 DEF CallsOK
<1>15. Walked'
  <2> SUFFICES ASSUME NEW i \in 1..Len(stack), stack[i].phase = "walk"
               PROVE  InPlace(screen'[stack[i].at], spec[stack[i].at], stack[i].next - 1)
    BY <1>8 DEF Walked
  <2>1. i # Len(stack)
    BY <1>2, TopFacts
  <2>2. i \in 1..(Len(stack) - 1)
    BY <2>1, TopFacts
  <2>3. stack[i].at # a
    BY <1>1, <2>2, OtherCalls
  <2>4. screen'[stack[i].at] = screen[stack[i].at]
    BY <1>6, <1>13, <2>3
  <2> QED
    BY <2>4 DEF PassOK, Walked
<1>16. \A d : Drawn(screen, spec, d) => Drawn(screen', spec, d)
  <2> SUFFICES ASSUME NEW d, Drawn(screen, spec, d), NEW q \in DOMAIN spec, IsPrefix(d, q)
               PROVE  q \in DOMAIN screen' /\ screen'[q] = spec[q]
    BY <1>8 DEF Drawn
  <2>1. q \in DOMAIN screen /\ screen[q] = spec[q]
    BY DEF Drawn
  <2>2. q \in DOMAIN screen'
    BY <1>6, <1>7, <2>1
  <2>3. q # a
    BY <1>4, <2>1
  <2> QED
    BY <1>6, <2>1, <2>2, <2>3
<1>17. Done'
  <2>1. Done
    BY DEF PassOK
  <2> SUFFICES ASSUME NEW i \in 1..Len(stack), NEW j \in 1..(stack[i].next - 1),
                      i = Len(stack) \/ j < stack[i].next - 1
               PROVE  Drawn(screen', spec, Append(stack[i].at, spec[stack[i].at][j]))
    BY <1>8 DEF Done
  <2>2. Drawn(screen, spec, Append(stack[i].at, spec[stack[i].at][j]))
    BY <2>1 DEF Done
  <2> QED
    BY <1>16, <2>2
<1>18. Tree(spec)' /\ OneEach(spec)'
  BY <1>8 DEF PassOK
<1>19. ScreenOK'
  BY <1>6, <1>8 DEF ScreenOK
<1> QED
  BY <1>10, <1>11, <1>12, <1>14, <1>15, <1>17, <1>18, <1>19 DEF PassOK

LEMMA WalkKeeps ==
  ASSUME PassOK, ScreenOK, BeginWalk
  PROVE  PassOK' /\ ScreenOK'
<1>1. PICK n, a : n = Len(stack) /\ a = Top.at
  OBVIOUS
<1>2. /\ n \in Nat \ {0} /\ n \in 1..Len(stack) /\ Top = stack[n] /\ Top \in Calls
      /\ a \in DOMAIN spec /\ a \in DOMAIN screen /\ a \in Seq(Keys)
  BY <1>1, TopFacts
<1>3. /\ Top.phase = "remove" /\ Obsolete = {}
      /\ stack' = [stack EXCEPT ![n] = [Top EXCEPT !.phase = "walk"]]
      /\ UNCHANGED <<model, reconciler, spec, screen, byKey, crashed>>
  BY <1>1 DEF BeginWalk, InCall, SetTop
<1>4. spec' = spec /\ screen' = screen /\ byKey' = byKey /\ crashed' = crashed
  BY <1>3
<1>5. stack \in Seq(Calls) /\ [Top EXCEPT !.phase = "walk"] \in Calls
  BY <1>2 DEF PassOK, CallsOK, Calls
<1>6. /\ stack' \in Seq(Calls) /\ Len(stack') = n
      /\ \A i \in 1..n : stack'[i] = IF i = n THEN [Top EXCEPT !.phase = "walk"] ELSE stack[i]
  BY <1>1, <1>2, <1>3, <1>5, ExceptSeq
<1>7. \A i \in 1..n : stack'[i].at = stack[i].at /\ stack'[i].next = stack[i].next
  <2> TAKE i \in 1..n
  <2>1. CASE i = n
    BY <1>2, <1>6, <2>1 DEF Calls
  <2>2. CASE i # n
    BY <1>6, <2>2
  <2> QED
    BY <2>1, <2>2
<1>8. Top.next = 1
  BY <1>1, <1>2, <1>3 DEF PassOK, CallsOK
<1>9. CallsOK'
  <2>1. CallsOK
    BY DEF PassOK
  <2>2. stack' # <<>>
    BY <1>2, <1>6
  <2>3. stack'[1].at = <<>>
    <3>1. 1 \in 1..n
      BY <1>2
    <3>2. stack[1].at = <<>>
      BY <2>1 DEF CallsOK
    <3> QED
      BY <1>7, <3>1, <3>2
  <2>4. ASSUME NEW i \in 1..n
        PROVE  /\ stack'[i].at \in DOMAIN spec /\ stack'[i].at \in DOMAIN screen
               /\ Len(stack'[i].at) = i - 1
               /\ stack'[i].next \in 1..(Len(spec[stack'[i].at]) + 1)
               /\ stack'[i].phase = "remove" => i = n /\ stack'[i].next = 1
    <3>1. /\ stack[i].at \in DOMAIN spec /\ stack[i].at \in DOMAIN screen
          /\ Len(stack[i].at) = i - 1
          /\ stack[i].next \in 1..(Len(spec[stack[i].at]) + 1)
          /\ stack[i].phase = "remove" => i = Len(stack) /\ stack[i].next = 1
      BY <1>1, <2>1 DEF CallsOK
    <3>2. stack'[i].phase = "remove" => stack[i].phase = "remove"
      BY <1>2, <1>3, <1>6
    <3> QED
      BY <1>1, <1>7, <3>1, <3>2
  <2>5. ASSUME NEW i \in 1..(n - 1)
        PROVE  /\ stack'[i].next > 1
               /\ stack'[i + 1].at = Append(stack'[i].at, spec[stack'[i].at][stack'[i].next - 1])
    <3>1. i \in 1..n /\ i + 1 \in 1..n /\ i \in 1..(Len(stack) - 1)
      BY <1>1, <1>2
    <3>2. /\ stack[i].next > 1
          /\ stack[i + 1].at = Append(stack[i].at, spec[stack[i].at][stack[i].next - 1])
      BY <2>1, <3>1 DEF CallsOK
    <3> QED
      BY <1>7, <3>1, <3>2
  <2> QED
    BY <1>4, <1>6, <2>2, <2>3, <2>4, <2>5 DEF CallsOK
<1>10. InPlace(screen[a], spec[a], 0)
  <2>1. Tree(screen) /\ Tree(spec)
    BY DEF PassOK, ScreenOK
  <2>2. ASSUME NEW k \in Keys, Among(k, screen[a]), ~Among(k, spec[a]) PROVE FALSE
    <3>1. /\ Append(a, k) \in DOMAIN screen /\ Append(a, k) # <<>>
          /\ Last(Append(a, k)) = k /\ Front(Append(a, k)) = a
      <4>1. Append(a, k) \in DOMAIN screen
        BY <1>2, <2>1, <2>2 DEF Tree
      <4> QED
        BY <1>2, <4>1, AppendFacts
    <3>2. byKey[k] = Append(a, k)
      BY <1>2, <3>1 DEF PassOK, Known, Below
    <3>3. k \in Obsolete
      BY <1>1, <2>2, <3>2 DEF Obsolete, Among, Child
    <3> QED
      BY <1>3, <3>3
  <2>3. 0 <= Len(screen[a])
    BY <1>2, <2>1 DEF Tree
  <2> QED
    BY <2>2, <2>3 DEF InPlace
<1>11. Walked'
  <2> SUFFICES ASSUME NEW i \in 1..n, stack'[i].phase = "walk"
               PROVE  InPlace(screen[stack'[i].at], spec[stack'[i].at], stack'[i].next - 1)
    BY <1>4, <1>6 DEF Walked
  <2>1. CASE i = n
    <3>1. stack'[i].at = a /\ stack'[i].next - 1 = 0
      BY <1>1, <1>2, <1>7, <1>8, <2>1
    <3> QED
      BY <1>10, <3>1
  <2>2. CASE i # n
    <3>1. stack'[i] = stack[i] /\ i \in 1..Len(stack)
      BY <1>1, <1>6, <2>2
    <3> QED
      BY <3>1 DEF PassOK, Walked
  <2> QED
    BY <2>1, <2>2
<1>12. Done'
  <2> SUFFICES ASSUME NEW i \in 1..n, NEW j \in 1..(stack'[i].next - 1),
                      i = n \/ j < stack'[i].next - 1
               PROVE  Drawn(screen, spec, Append(stack'[i].at, spec[stack'[i].at][j]))
    BY <1>4, <1>6 DEF Done
  <2>1. j \in 1..(stack[i].next - 1) /\ (i = Len(stack) \/ j < stack[i].next - 1) /\ i \in 1..Len(stack)
    BY <1>1, <1>7
  <2>2. Drawn(screen, spec, Append(stack[i].at, spec[stack[i].at][j]))
    BY <2>1 DEF PassOK, Done
  <2> QED
    BY <1>7, <2>2
<1>13. Found' /\ Known' /\ Apart(screen, spec)' /\ Tree(spec)' /\ OneEach(spec)'
  BY <1>4 DEF PassOK, Found, Known
<1>14. ScreenOK'
  BY <1>4 DEF ScreenOK
<1> QED
  BY <1>9, <1>11, <1>12, <1>13, <1>14 DEF PassOK

\* A call of the wanted child.
LEMMA Pushed ==
  ASSUME PassOK, Top.phase = "walk", Top.next <= Len(spec[Top.at]),
         stack' = Append(Advanced, Call(Child(Wanted))), spec' = spec,
         \A i \in 1..Len(stack) : stack[i].at \in DOMAIN screen', Child(Wanted) \in DOMAIN screen'
  PROVE  /\ CallsOK' /\ Len(stack') = Len(stack) + 1
         /\ \A i \in 1..(Len(stack) - 1) : stack'[i] = stack[i]
         /\ \A i \in 1..Len(stack) : stack'[i].at = stack[i].at
         /\ stack'[Len(stack)].next = Top.next + 1
         /\ stack'[Len(stack) + 1] = Call(Child(Wanted))
<1>1. PICK n, c, f : n = Len(stack) /\ c = Child(Wanted) /\ f = [Top EXCEPT !.next = @ + 1]
  OBVIOUS
<1>2. /\ n \in Nat \ {0} /\ n \in 1..Len(stack) /\ Top = stack[n] /\ Top \in Calls
  BY <1>1, TopFacts
<1>3. c \in DOMAIN spec /\ c \in Seq(Keys) /\ Len(c) = Len(Top.at) + 1 /\ c = Append(Top.at, Wanted)
  BY <1>1, WantedFacts DEF Below
<1>4. f \in Calls /\ f.at = Top.at /\ f.next = Top.next + 1 /\ f.phase = "walk"
  BY <1>1, <1>2 DEF Calls
<1>5. stack \in Seq(Calls)
  BY DEF PassOK, CallsOK
<1>6. PICK g : g = Advanced
  OBVIOUS
<1>7. /\ g \in Seq(Calls) /\ Len(g) = n
      /\ \A i \in 1..n : g[i] = IF i = n THEN f ELSE stack[i]
  <2>1. g = [stack EXCEPT ![n] = f]
    BY <1>1, <1>6 DEF Advanced, SetTop
  <2> QED
    BY <1>1, <1>2, <1>4, <1>5, <2>1, ExceptSeq
<1>8. Call(c) \in Calls /\ Call(c).at = c /\ Call(c).next = 1 /\ Call(c).phase = "remove"
  BY <1>3 DEF Calls, Call
<1>9. /\ stack' \in Seq(Calls) /\ stack' # <<>> /\ Len(stack') = n + 1
      /\ \A i \in 1..n : stack'[i] = g[i]
      /\ stack'[n + 1] = Call(c)
  <2>1. stack' = Append(g, Call(c))
    BY <1>1, <1>6
  <2> QED
    BY <1>7, <1>8, <2>1, AppendFacts
<1>10. \A i \in 1..(n - 1) : stack'[i] = stack[i]
  BY <1>2, <1>7, <1>9
<1>11. stack'[n] = f
  BY <1>2, <1>7, <1>9
<1>12. \A i \in 1..n : stack'[i].at = stack[i].at
  <2> TAKE i \in 1..n
  <2>1. CASE i = n
    BY <1>2, <1>4, <1>11, <2>1
  <2>2. CASE i # n
    <3>1. i \in 1..(n - 1)
      BY <1>2, <2>2
    <3> QED
      BY <1>10, <3>1
  <2> QED
    BY <2>1, <2>2
<1>13. CallsOK
  BY DEF PassOK
<1>14. stack'[1].at = <<>>
  <2>1. 1 \in 1..n
    BY <1>2
  <2> QED
    BY <1>12, <1>13, <2>1 DEF CallsOK
<1>15. ASSUME NEW i \in 1..(n + 1)
       PROVE  /\ stack'[i].at \in DOMAIN spec /\ stack'[i].at \in DOMAIN screen'
              /\ Len(stack'[i].at) = i - 1
              /\ stack'[i].next \in 1..(Len(spec[stack'[i].at]) + 1)
              /\ stack'[i].phase = "remove" => i = n + 1 /\ stack'[i].next = 1
  <2>1. CASE i = n + 1
    <3>1. Tree(spec) /\ c \in DOMAIN screen'
      BY <1>1 DEF PassOK
    <3>2. spec[c] \in Seq(Keys)
      BY <1>3, <3>1 DEF Tree
    <3>3. Len(spec[c]) \in Nat
      BY <3>2
    <3>4. Len(c) = n
      BY <1>1, <1>2, <1>3, TopFacts
    <3>5. stack'[i].at = c /\ stack'[i].next = 1
      BY <1>8, <1>9, <2>1
    <3>6. 1 \in 1..(Len(spec[c]) + 1) /\ n = i - 1
      BY <1>2, <2>1, <3>3
    <3> QED
      BY <1>3, <2>1, <3>1, <3>4, <3>5, <3>6
  <2>2. CASE i = n
    <3>1. /\ Top.at \in DOMAIN spec /\ Len(Top.at) = n - 1 /\ Top.next \in 1..(Len(spec[Top.at]) + 1)
          /\ spec[Top.at] \in Seq(Keys)
      BY <1>1, TopFacts
    <3>2. Top.next + 1 \in 1..(Len(spec[Top.at]) + 1)
      BY <3>1
    <3>3. Top.at \in DOMAIN screen'
      BY <1>1, <1>2
    <3> QED
      BY <1>4, <1>11, <2>2, <3>1, <3>2, <3>3
  <2>3. CASE i \in 1..(n - 1)
    <3>1. i \in 1..Len(stack) /\ i # n
      BY <1>1, <1>2, <2>3
    <3>2. stack'[i] = stack[i]
      BY <1>10, <2>3
    <3> QED
      BY <1>1, <1>13, <3>1, <3>2 DEF CallsOK
  <2>4. i = n + 1 \/ i = n \/ i \in 1..(n - 1)
    BY <1>2
  <2> QED
    BY <2>1, <2>2, <2>3, <2>4
<1>16. ASSUME NEW i \in 1..n
       PROVE  /\ stack'[i].next > 1
              /\ stack'[i + 1].at = Append(stack'[i].at, spec[stack'[i].at][stack'[i].next - 1])
  <2>1. CASE i = n
    <3>1. (Top.next + 1) - 1 = Top.next /\ Top.next + 1 > 1
      BY TopFacts
    <3>2. c = Append(Top.at, spec[Top.at][Top.next])
      BY <1>3 DEF Wanted
    <3> QED
      BY <1>4, <1>8, <1>9, <1>11, <2>1, <3>1, <3>2
  <2>2. CASE i # n
    <3>1. i \in 1..(n - 1) /\ i \in 1..(Len(stack) - 1) /\ i + 1 \in 1..n
      BY <1>1, <1>2, <2>2
    <3>2. stack'[i] = stack[i] /\ stack'[i + 1].at = stack[i + 1].at
      BY <1>10, <1>12, <3>1
    <3>3. /\ stack[i].next > 1
          /\ stack[i + 1].at = Append(stack[i].at, spec[stack[i].at][stack[i].next - 1])
      BY <1>13, <3>1 DEF CallsOK
    <3> QED
      BY <3>2, <3>3
  <2> QED
    BY <2>1, <2>2
<1>17. CallsOK'
  <2>1. Len(stack') - 1 = n
    BY <1>2, <1>9
  <2> QED
    BY <1>9, <1>14, <1>15, <1>16, <2>1 DEF CallsOK
<1> QED
  BY <1>1, <1>4, <1>9, <1>10, <1>11, <1>12, <1>17

\* The call at the child leaves the calls above it as they are, one child further.
LEMMA PushedKeeps ==
  ASSUME PassOK, Top.phase = "walk", Top.next <= Len(spec[Top.at]),
         stack' = Append(Advanced, Call(Child(Wanted))), spec' = spec,
         \A i \in 1..Len(stack) : stack[i].at \in DOMAIN screen', Child(Wanted) \in DOMAIN screen',
         \A i \in 1..(Len(stack) - 1) : screen'[stack[i].at] = screen[stack[i].at],
         InPlace(screen'[Top.at], spec[Top.at], Top.next),
         \A d : Drawn(screen, spec, d) => Drawn(screen', spec, d)
  PROVE  CallsOK' /\ Walked' /\ Done'
<1>1. PICK n : n = Len(stack)
  OBVIOUS
<1>2. /\ CallsOK' /\ Len(stack') = n + 1
      /\ \A i \in 1..(n - 1) : stack'[i] = stack[i]
      /\ \A i \in 1..n : stack'[i].at = stack[i].at
      /\ stack'[n].next = Top.next + 1
      /\ stack'[n + 1] = Call(Child(Wanted))
  BY <1>1, Pushed
<1>3. n \in Nat \ {0} /\ Top = stack[n] /\ Top.next \in Nat
  BY <1>1, TopFacts
<1>4. Call(Child(Wanted)).phase = "remove" /\ Call(Child(Wanted)).next = 1
  BY DEF Call
<1>5. Walked'
  <2> SUFFICES ASSUME NEW i \in 1..(n + 1), stack'[i].phase = "walk"
               PROVE  InPlace(screen'[stack'[i].at], spec[stack'[i].at], stack'[i].next - 1)
    BY <1>2 DEF Walked
  <2>1. CASE i = n + 1
    BY <1>2, <1>4, <2>1
  <2>2. CASE i = n
    <3>1. stack'[i].at = Top.at /\ stack'[i].next - 1 = Top.next
      BY <1>2, <1>3, <2>2
    <3> QED
      BY <3>1
  <2>3. CASE i \in 1..(n - 1)
    <3>1. i \in 1..Len(stack) /\ i \in 1..(Len(stack) - 1) /\ stack'[i] = stack[i]
      BY <1>1, <1>2, <1>3, <2>3
    <3>2. InPlace(screen[stack[i].at], spec[stack[i].at], stack[i].next - 1)
      BY <3>1 DEF PassOK, Walked
    <3> QED
      BY <3>1, <3>2
  <2>4. i = n + 1 \/ i = n \/ i \in 1..(n - 1)
    <3>1. n \in Nat \ {0} /\ i \in 1..(n + 1)
      BY <1>3, Zenon
    <3> QED
      BY ONLY <3>1
  <2> QED
    BY <2>1, <2>2, <2>3, <2>4
<1>6. Done'
  <2> SUFFICES ASSUME NEW i \in 1..(n + 1), NEW j \in 1..(stack'[i].next - 1),
                      i = n + 1 \/ j < stack'[i].next - 1
               PROVE  Drawn(screen', spec, Append(stack'[i].at, spec[stack'[i].at][j]))
    BY <1>2 DEF Done
  <2>1. CASE i = n + 1
    BY <1>2, <1>4, <2>1
  <2>2. CASE i = n
    <3>1. stack'[i].at = Top.at /\ j \in 1..(Top.next - 1)
      BY <1>2, <1>3, <2>2
    <3>2. Drawn(screen, spec, Append(Top.at, spec[Top.at][j]))
      <4>1. n \in 1..Len(stack) /\ n = Len(stack) /\ j \in 1..(stack[n].next - 1)
        BY <1>1, <1>3, <3>1
      <4>2. Drawn(screen, spec, Append(stack[n].at, spec[stack[n].at][j]))
        BY <4>1 DEF PassOK, Done
      <4> QED
        BY <1>3, <4>2
    <3> QED
      BY <3>1, <3>2
  <2>3. CASE i \in 1..(n - 1)
    <3>1. i \in 1..Len(stack) /\ stack'[i] = stack[i] /\ i # n + 1
      BY <1>1, <1>2, <1>3, <2>3
    <3>2. Drawn(screen, spec, Append(stack[i].at, spec[stack[i].at][j]))
      BY <3>1 DEF PassOK, Done
    <3> QED
      BY <3>1, <3>2
  <2>4. i = n + 1 \/ i = n \/ i \in 1..(n - 1)
    <3>1. n \in Nat \ {0} /\ i \in 1..(n + 1)
      BY <1>3, Zenon
    <3> QED
      BY ONLY <3>1
  <2> QED
    BY <2>1, <2>2, <2>3, <2>4
<1> QED
  BY <1>2, <1>5, <1>6

\* A child that is where it should be comes next in the order.
LEMMA KeepKeeps ==
  ASSUME PassOK, ScreenOK, KeepChild
  PROVE  PassOK' /\ ScreenOK'
<1>1. PICK a, n, k, c : a = Top.at /\ n = Top.next /\ k = Wanted /\ c = Child(Wanted)
  OBVIOUS
<1>2. /\ Top.phase = "walk" /\ n <= Len(spec[a]) /\ byKey[k] = c
      /\ stack' = Append(Advanced, Call(Child(Wanted)))
      /\ UNCHANGED <<model, reconciler, spec, screen, byKey, crashed>>
  BY <1>1 DEF KeepChild, MoreWanted, InCall
<1>3. spec' = spec /\ screen' = screen /\ byKey' = byKey /\ crashed' = crashed
  BY <1>2
<1>4. /\ k \in Keys /\ k = spec[a][n] /\ n \in 1..Len(spec[a]) /\ c = Append(a, k)
      /\ c \in Seq(Keys) /\ c # Nothing
  BY <1>1, <1>2, WantedFacts
<1>5. /\ Tree(screen) /\ Tree(spec) /\ a \in DOMAIN screen /\ a \in DOMAIN spec
      /\ spec[a] \in Seq(Keys) /\ InOrder(spec[a]) /\ screen[a] \in Seq(Keys) /\ InOrder(screen[a])
  <2>1. Tree(screen) /\ Tree(spec) /\ a \in DOMAIN screen /\ a \in DOMAIN spec
    BY <1>1, TopFacts DEF PassOK, ScreenOK
  <2> QED
    BY <2>1 DEF Tree
<1>6. c \in DOMAIN screen
  <2>1. Found
    BY DEF PassOK
  <2> QED
    BY <1>2, <1>4, <2>1 DEF Found, Below
<1>7. Among(k, screen[a])
  BY <1>4, <1>5, <1>6 DEF Tree
<1>8. PICK m \in 1..Len(screen[a]) : screen[a][m] = k
  BY <1>7 DEF Among
<1>9. InPlace(screen[a], spec[a], n - 1)
  <2>1. Len(stack) \in 1..Len(stack) /\ Top = stack[Len(stack)]
    BY TopFacts
  <2>2. InPlace(screen[stack[Len(stack)].at], spec[stack[Len(stack)].at], stack[Len(stack)].next - 1)
    BY <1>2, <2>1 DEF PassOK, Walked
  <2> QED
    BY <1>1, <2>1, <2>2
<1>10. m = n
  <2>1. PICK s, t : s = screen[a] /\ t = spec[a]
    OBVIOUS
  <2>2. /\ s \in Seq(Keys) /\ InOrder(s) /\ t \in Seq(Keys) /\ InOrder(t)
        /\ m \in 1..Len(s) /\ s[m] = k /\ n \in 1..Len(t) /\ t[n] = k
        /\ InPlace(s, t, n - 1)
    BY <1>4, <1>5, <1>8, <1>9, <2>1
  <2>3. CASE m < n
    <3>1. m \in 1..(n - 1) /\ m \in 1..Len(t) /\ m # n
      BY <2>2, <2>3
    <3>2. t[m] = k
      BY <2>2, <3>1 DEF InPlace
    <3> QED
      BY <2>2, <3>1, <3>2, InOrderOnce
  <2>4. CASE m > n
    <3>1. n \in 1..Len(s) /\ n - 1 \in Nat /\ n \in ((n - 1) + 1)..Len(s) /\ (n - 1) + 1 = n
      BY <2>2, <2>4
    <3>2. PICK b \in n..Len(t) : s[n] = t[b]
      BY <2>2, <3>1, Rest
    <3>3. Rank(s[n]) < Rank(s[m])
      BY <2>2, <2>4, <3>1 DEF InOrder
    <3>4. b = n \/ Rank(t[n]) < Rank(t[b])
      BY <2>2, <3>2 DEF InOrder
    <3>5. Rank(k) \in Nat /\ Rank(t[b]) \in Nat
      BY DEF Rank
    <3>6. Rank(t[b]) < Rank(k) /\ (b = n \/ Rank(k) < Rank(t[b]))
      BY <2>2, <3>2, <3>3, <3>4
    <3>7. b # n
      BY <2>2, <3>5, <3>6
    <3> QED
      BY <3>5, <3>6, <3>7
  <2>5. m \in Nat /\ n \in Nat
    BY <2>2
  <2> QED
    BY <2>3, <2>4, <2>5
<1>11. InPlace(screen[a], spec[a], n)
  <2>1. n <= Len(screen[a]) /\ screen[a][n] = spec[a][n]
    BY <1>4, <1>8, <1>10
  <2>2. \A j \in 1..n : screen[a][j] = spec[a][j]
    <3> TAKE j \in 1..n
    <3>1. j = n \/ j \in 1..(n - 1)
      BY <1>4
    <3> QED
      BY <1>9, <2>1, <3>1 DEF InPlace
  <2> QED
    BY <1>9, <2>1, <2>2 DEF InPlace
<1>12. CallsOK' /\ Walked' /\ Done'
  <2>1. \A i \in 1..Len(stack) : stack[i].at \in DOMAIN screen'
    BY <1>3 DEF PassOK, CallsOK
  <2>2. /\ Child(Wanted) \in DOMAIN screen' /\ Top.phase = "walk" /\ Top.next <= Len(spec[Top.at])
        /\ InPlace(screen'[Top.at], spec[Top.at], Top.next)
    BY <1>1, <1>2, <1>3, <1>6, <1>11
  <2>3. /\ \A i \in 1..(Len(stack) - 1) : screen'[stack[i].at] = screen[stack[i].at]
        /\ \A d : Drawn(screen, spec, d) => Drawn(screen', spec, d)
    BY <1>3
  <2> QED
    BY <1>2, <1>3, <2>1, <2>2, <2>3, PushedKeeps
<1>13. Found' /\ Known' /\ Apart(screen, spec)' /\ Tree(spec)' /\ OneEach(spec)'
  BY <1>3 DEF PassOK, Found, Known
<1>14. ScreenOK'
  BY <1>3 DEF ScreenOK
<1> QED
  BY <1>12, <1>13, <1>14 DEF PassOK

\* A mount behind the n children in place, or before all: the new child is the next one.
LEMMA MountedFacts ==
  ASSUME NEW a, a = Top.at, NEW k \in Keys, k = Wanted,
         NEW s \in Seq(Keys), InOrder(s), NEW t \in Seq(Keys), InOrder(t), t = spec[a],
         NEW n \in 1..Len(t), n = Top.next, InPlace(s, t, n - 1), ~Among(k, s),
         NEW u, u = Mounted(s, k)
  PROVE  /\ u \in Seq(Keys) /\ InOrder(u) /\ InPlace(u, t, n)
         /\ \A x \in Keys : Among(x, u) <=> x = k \/ Among(x, s)
<1>1. t[n] = k /\ n - 1 <= Len(s) /\ Len(s) \in Nat /\ n \in 1..(Len(s) + 1)
  BY DEF Wanted, InPlace
<1>2. /\ u \in Seq(Keys) /\ Len(u) = Len(s) + 1
      /\ \A j \in 1..(n - 1) : u[j] = s[j]
      /\ u[n] = k
      /\ \A j \in (n + 1)..(Len(s) + 1) : u[j] = s[j - 1]
  <2>1. CASE n = 1
    <3>1. u = <<k>> \o s /\ <<k>> \in Seq(Keys) /\ Len(<<k>>) = 1 /\ <<k>>[1] = k
      BY <2>1 DEF Mounted
    <3>2. /\ u \in Seq(Keys) /\ Len(u) = 1 + Len(s)
          /\ \A i \in 1..1 : u[i] = <<k>>[i]
          /\ \A i \in (1 + 1)..(1 + Len(s)) : u[i] = s[i - 1]
      BY <3>1, JoinFacts
    <3> QED
      BY <1>1, <2>1, <3>1, <3>2
  <2>2. CASE n # 1
    <3>1. n - 1 \in 1..Len(s) /\ n - 1 \in 1..(n - 1)
      BY <1>1, <2>2
    <3>2. s[n - 1] = t[n - 1]
      BY <3>1 DEF InPlace
    <3>3. (CHOOSE i \in 1..Len(s) : s[i] = t[n - 1]) = n - 1
      BY <3>1, <3>2, InOrderOnce
    <3>4. 1 + (n - 1) = n
      BY <1>1
    <3>5. u = InsertAt(s, n, k)
      BY <2>2, <3>3, <3>4 DEF Mounted
    <3>6. n \in 1..(Len(s) + 1)
      BY <1>1
    <3>7. u \in Seq(Keys) /\ Inserted(u, s, n, k)
      BY ONLY k \in Keys, s \in Seq(Keys), <3>5, <3>6, InsertFacts
    <3> QED
      BY ONLY <3>7 DEF Inserted
  <2> QED
    BY <2>1, <2>2
<1>3. \A j \in n..Len(s) : \E b \in (n + 1)..Len(t) : s[j] = t[b]
  <2> TAKE j \in n..Len(s)
  <2>1. n - 1 \in Nat /\ (n - 1) + 1 = n /\ j \in ((n - 1) + 1)..Len(s) /\ j \in 1..Len(s)
    BY <1>1
  <2>2. PICK b \in n..Len(t) : s[j] = t[b]
    <3>1. PICK l : l = n - 1
      OBVIOUS
    <3>2. l \in Nat /\ l + 1 = n /\ InPlace(s, t, l)
      BY ONLY <2>1, <3>1, InPlace(s, t, n - 1), Zenon
    <3>3. j \in (l + 1)..Len(s)
      BY ONLY <3>2, j \in n..Len(s), Zenon
    <3>4. \E b \in (l + 1)..Len(t) : s[j] = t[b]
      BY ONLY <3>2, <3>3, s \in Seq(Keys), InOrder(s), t \in Seq(Keys), InOrder(t), Rest
    <3> QED
      BY ONLY <3>2, <3>4, Zenon
  <2>3. b # n
    BY <1>1, <2>1, <2>2 DEF Among
  <2>4. b \in (n + 1)..Len(t)
    BY <1>1, <2>2, <2>3
  <2> QED
    BY <2>2, <2>4
<1>4. InOrder(u)
  <2> SUFFICES ASSUME NEW i \in 1..Len(u), NEW j \in 1..Len(u), i < j PROVE Rank(u[i]) < Rank(u[j])
    BY DEF InOrder
  <2>1. i \in 1..(Len(s) + 1) /\ j \in 1..(Len(s) + 1)
    BY <1>2
  <2>2. CASE j < n
    <3>1. i \in 1..(n - 1) /\ j \in 1..(n - 1) /\ i \in 1..Len(s) /\ j \in 1..Len(s)
      BY <1>1, <2>1, <2>2
    <3> QED
      BY <1>2, <3>1 DEF InOrder
  <2>3. CASE j = n
    <3>1. i \in 1..(n - 1) /\ i \in 1..Len(t)
      BY <1>1, <2>1, <2>3
    <3>2. u[i] = t[i] /\ u[j] = t[n]
      BY <1>1, <1>2, <2>3, <3>1 DEF InPlace
    <3> QED
      BY <1>1, <2>3, <3>1, <3>2 DEF InOrder
  <2>4. CASE j > n /\ i < n
    <3>1. i \in 1..(n - 1) /\ i \in 1..Len(s) /\ j - 1 \in 1..Len(s) /\ i < j - 1
      BY <1>1, <2>1, <2>4
    <3>2. u[i] = s[i]
      BY <1>2, <3>1
    <3>3. j \in (n + 1)..(Len(s) + 1)
      BY <1>1, <2>1, <2>4
    <3>4. u[j] = s[j - 1]
      BY <1>2, <3>3
    <3> QED
      BY <3>1, <3>2, <3>4 DEF InOrder
  <2>5. CASE j > n /\ i = n
    <3>1. j - 1 \in n..Len(s) /\ j \in (n + 1)..(Len(s) + 1)
      BY <1>1, <2>1, <2>5
    <3>2. PICK b \in (n + 1)..Len(t) : s[j - 1] = t[b]
      BY <1>3, <3>1
    <3>3. u[i] = t[n] /\ u[j] = t[b]
      BY <1>1, <1>2, <2>5, <3>1, <3>2
    <3>4. b \in 1..Len(t) /\ n < b
      BY <1>1, <3>2
    <3> QED
      BY <3>3, <3>4 DEF InOrder
  <2>6. CASE j > n /\ i > n
    <3>1. i - 1 \in 1..Len(s) /\ j - 1 \in 1..Len(s) /\ i - 1 < j - 1
          /\ i \in (n + 1)..(Len(s) + 1) /\ j \in (n + 1)..(Len(s) + 1)
      BY <1>1, <2>1, <2>6, SMTT(30)
    <3>2. u[i] = s[i - 1] /\ u[j] = s[j - 1]
      BY <1>2, <3>1
    <3> QED
      BY <3>1, <3>2 DEF InOrder
  <2>7. n \in Nat /\ i \in Nat /\ j \in Nat
    BY <1>1, <2>1
  <2> QED
    BY <2>2, <2>3, <2>4, <2>5, <2>6, <2>7
<1>5. ASSUME NEW x, Among(x, u) PROVE x = k \/ Among(x, s)
  <2>1. PICK j \in 1..(Len(s) + 1) : u[j] = x
    BY <1>2, <1>5 DEF Among
  <2>2. CASE j < n
    <3>1. j \in 1..(n - 1) /\ j \in 1..Len(s)
      BY <1>1, <2>1, <2>2
    <3> QED
      BY <1>2, <2>1, <3>1 DEF Among
  <2>3. CASE j > n
    <3>1. j - 1 \in 1..Len(s) /\ j \in (n + 1)..(Len(s) + 1)
      BY <1>1, <2>1, <2>3
    <3> QED
      BY <1>2, <2>1, <3>1 DEF Among
  <2>4. j \in Nat /\ n \in Nat
    BY <1>1
  <2> QED
    BY <1>2, <2>1, <2>2, <2>3, <2>4
<1>6. ASSUME NEW x, Among(x, s) PROVE Among(x, u)
  <2>1. PICK j \in 1..Len(s) : s[j] = x
    BY <1>6 DEF Among
  <2>2. CASE j < n
    <3>1. j \in 1..(n - 1) /\ j \in 1..Len(u)
      BY <1>1, <1>2, <2>1, <2>2
    <3> QED
      BY <1>2, <2>1, <3>1 DEF Among
  <2>3. CASE j >= n
    <3>1. j + 1 \in (n + 1)..(Len(s) + 1) /\ j + 1 \in 1..Len(u) /\ (j + 1) - 1 = j
      BY <1>1, <1>2, <2>1, <2>3
    <3> QED
      BY <1>2, <2>1, <3>1 DEF Among
  <2>4. j \in Nat /\ n \in Nat
    BY <1>1
  <2> QED
    BY <2>2, <2>3, <2>4
<1>7. Among(k, u)
  <2>1. n \in 1..Len(u)
    BY <1>1, <1>2
  <2> QED
    BY <1>2, <2>1 DEF Among
<1>8. \A x \in Keys : Among(x, u) <=> x = k \/ Among(x, s)
  BY <1>5, <1>6, <1>7
<1>9. InPlace(u, t, n)
  <2>1. n <= Len(u)
    BY <1>1, <1>2
  <2>2. \A j \in 1..n : u[j] = t[j]
    <3> TAKE j \in 1..n
    <3>1. j = n \/ j \in 1..(n - 1)
      BY <1>1
    <3> QED
      BY <1>1, <1>2, <3>1 DEF InPlace
  <2>3. Among(k, t)
    BY <1>1 DEF Among
  <2>4. \A x \in Keys : Among(x, u) => Among(x, t)
    BY <1>8, <2>3 DEF InPlace
  <2> QED
    BY <2>1, <2>2, <2>4 DEF InPlace
<1> QED
  BY <1>2, <1>4, <1>8, <1>9

\* A mount: the key has no other widget that hangs on the new tree, so none is refused.
LEMMA MountKeeps ==
  ASSUME PassOK, ScreenOK, MountChild
  PROVE  PassOK' /\ ScreenOK'
<1>1. PICK a, n, k, c : a = Top.at /\ n = Top.next /\ k = Wanted /\ c = Child(Wanted)
  OBVIOUS
<1>2. /\ Top.phase = "walk" /\ n <= Len(spec[a]) /\ byKey[k] # c
      /\ crashed' = (c \in DOMAIN screen)
      /\ byKey' = [byKey EXCEPT ![k] = c]
      /\ stack' = Append(Advanced, Call(Child(Wanted)))
      /\ spec' = spec
  BY <1>1 DEF MountChild, MoreWanted, InCall
<1>3. /\ k \in Keys /\ k = spec[a][n] /\ n \in 1..Len(spec[a]) /\ c = Append(a, k)
      /\ c \in Seq(Keys) /\ c # Nothing /\ c \in Below(spec) /\ Last(c) = k /\ Front(c) = a
      /\ Len(a) \in 0..3
  <2>1. PICK l : l = Len(Top.at)
    OBVIOUS
  <2>2. l \in Nat /\ l <= 3
    BY <1>1, <1>2, <2>1, WantedFacts, TopFacts
  <2>3. l \in 0..3
    BY ONLY <2>2
  <2> QED
    BY <1>1, <1>2, <2>1, <2>3, WantedFacts
<1>4. /\ Tree(screen) /\ Tree(spec) /\ a \in DOMAIN screen /\ a \in DOMAIN spec
      /\ spec[a] \in Seq(Keys) /\ InOrder(spec[a]) /\ screen[a] \in Seq(Keys) /\ InOrder(screen[a])
  <2>1. Tree(screen) /\ Tree(spec) /\ a \in DOMAIN screen /\ a \in DOMAIN spec
    BY <1>1, TopFacts DEF PassOK, ScreenOK
  <2> QED
    BY <2>1 DEF Tree
<1>5. Found /\ Known /\ Apart(screen, spec) /\ OneEach(spec)
  BY DEF PassOK
<1>6. c \notin DOMAIN screen
  <2> SUFFICES ASSUME c \in DOMAIN screen PROVE FALSE
    OBVIOUS
  <2>1. c \in Below(screen)
    BY <1>3 DEF Below
  <2> QED
    BY <1>2, <1>3, <1>4, <1>5, <2>1 DEF Known
<1>7. ~Among(k, screen[a])
  BY <1>3, <1>4, <1>6 DEF Tree
<1>8. Among(k, spec[a])
  BY <1>3 DEF Among
<1>9. PICK u : u = Mounted(screen[a], k)
  OBVIOUS
<1>10. screen' = Grown(screen, a, k, u) /\ ~crashed'
  <2>1. screen' = [p \in DOMAIN screen \cup {c} |->
                     IF p = c THEN <<>> ELSE IF p = a THEN Mounted(screen[p], k) ELSE screen[p]]
    BY <1>1, <1>6 DEF MountChild
  <2>2. \A p \in DOMAIN screen \cup {c} :
          (IF p = c THEN <<>> ELSE IF p = a THEN Mounted(screen[p], k) ELSE screen[p])
            = (IF p = c THEN <<>> ELSE IF p = a THEN u ELSE screen[p])
    BY <1>9, Zenon
  <2>3. screen' = [p \in DOMAIN screen \cup {c} |->
                     IF p = c THEN <<>> ELSE IF p = a THEN u ELSE screen[p]]
    BY ONLY <2>1, <2>2, Zenon
  <2>4. c = Append(a, k)
    BY <1>3
  <2>5. screen' = Grown(screen, a, k, u)
    BY ONLY <2>3, <2>4 DEF Grown
  <2>6. ~crashed'
    BY <1>2, <1>6, Zenon
  <2> QED
    BY <2>5, <2>6
<1>11. InPlace(screen[a], spec[a], n - 1)
  <2>1. Len(stack) \in 1..Len(stack) /\ Top = stack[Len(stack)]
    BY TopFacts
  <2>2. InPlace(screen[stack[Len(stack)].at], spec[stack[Len(stack)].at], stack[Len(stack)].next - 1)
    BY <1>2, <2>1 DEF PassOK, Walked
  <2> QED
    BY <1>1, <2>1, <2>2
<1>12. /\ u \in Seq(Keys) /\ InOrder(u) /\ InPlace(u, spec[a], n)
       /\ \A x \in Keys : Among(x, u) <=> x = k \/ Among(x, screen[a])
  <2>1. PICK s, t : s = screen[a] /\ t = spec[a]
    OBVIOUS
  <2>2. /\ s \in Seq(Keys) /\ InOrder(s) /\ t \in Seq(Keys) /\ InOrder(t) /\ n \in 1..Len(t)
        /\ InPlace(s, t, n - 1) /\ ~Among(k, s) /\ u = Mounted(s, k)
    BY <1>3, <1>4, <1>7, <1>9, <1>11, <2>1
  <2>3. a = Top.at /\ k \in Keys /\ k = Wanted /\ t = spec[a] /\ n = Top.next
    BY <1>1, <1>3, <2>1
  <2>4. /\ u \in Seq(Keys) /\ InOrder(u) /\ InPlace(u, t, n)
        /\ \A x \in Keys : Among(x, u) <=> x = k \/ Among(x, s)
    BY ONLY <2>2, <2>3, MountedFacts
  <2> QED
    BY <2>1, <2>4
<1>13. /\ Tree(screen') /\ screen'[a] = u /\ DOMAIN screen' = DOMAIN screen \cup {c}
       /\ \A p \in DOMAIN screen : p # a => screen'[p] = screen[p]
  <2>1. OneMore(k, u, screen[a])
    BY <1>12 DEF OneMore
  <2>2. PICK t, v : t = screen /\ v = screen'
    OBVIOUS
  <2>3. /\ Tree(t) /\ a \in DOMAIN t /\ Len(a) \in 0..3 /\ k \in Keys
        /\ c \notin DOMAIN t /\ u \in Seq(Keys) /\ InOrder(u)
        /\ OneMore(k, u, t[a]) /\ v = Grown(t, a, k, u) /\ c = Append(a, k) /\ c # a
    <3>1. Tree(t) /\ a \in DOMAIN t /\ c \notin DOMAIN t
      BY <1>4, <1>6, <2>2
    <3>2. OneMore(k, u, t[a]) /\ v = Grown(t, a, k, u)
      BY <1>10, <2>1, <2>2, Zenon
    <3> QED
      BY <1>3, <1>12, <3>1, <3>2
  <2>4. Tree(v)
    BY ONLY <2>3, GrownTree
  <2>5. v = [p \in DOMAIN t \cup {c} |-> IF p = c THEN <<>> ELSE IF p = a THEN u ELSE t[p]]
    BY ONLY <2>3, Zenon DEF Grown
  <2>6. v[a] = u /\ DOMAIN v = DOMAIN t \cup {c} /\ \A p \in DOMAIN t : p # a => v[p] = t[p]
    BY ONLY <2>3, <2>5
  <2> QED
    BY ONLY <2>2, <2>4, <2>6, Zenon
<1>14. c \in Below(screen') /\ Below(screen') = Below(screen) \cup {c}
  BY <1>3, <1>13 DEF Below
<1>15. Found'
  <2>1. byKey \in [Keys -> Seq(Keys) \cup {Nothing}]
    BY <1>5 DEF Found
  <2>2. byKey' \in [Keys -> Seq(Keys) \cup {Nothing}]
    BY <1>2, <1>3, <2>1
  <2>3. ASSUME NEW x \in Keys, byKey'[x] # Nothing
        PROVE  byKey'[x] \in Below(screen') /\ Last(byKey'[x]) = x
    <3>1. CASE x = k
      BY <1>2, <1>3, <1>14, <2>1, <3>1
    <3>2. CASE x # k
      <4>1. byKey'[x] = byKey[x]
        BY <1>2, <2>1, <3>2
      <4>2. byKey[x] \in Below(screen) /\ Last(byKey[x]) = x
        BY <1>5, <2>3, <4>1 DEF Found
      <4> QED
        BY <1>14, <4>1, <4>2
    <3> QED
      BY <3>1, <3>2
  <2> QED
    BY <2>2, <2>3 DEF Found
<1>16. Known'
  <2> SUFFICES ASSUME NEW p \in Below(screen'), Front(p) \in DOMAIN spec PROVE byKey'[Last(p)] = p
    BY <1>2 DEF Known, Below
  <2>1. byKey \in [Keys -> Seq(Keys) \cup {Nothing}]
    BY <1>5 DEF Found
  <2>2. CASE p = c
    BY <1>2, <1>3, <2>1, <2>2
  <2>3. CASE p # c
    <3>1. p \in Below(screen)
      BY <1>14, <2>3
    <3>2. byKey[Last(p)] = p /\ Last(p) \in Keys
      BY <1>4, <1>5, <3>1, Parts DEF Known
    <3>3. Last(p) # k
      BY <1>3, <1>5, <2>3, <3>1 DEF Apart
    <3> QED
      BY <1>2, <2>1, <3>2, <3>3
  <2> QED
    BY <2>2, <2>3
<1>17. Apart(screen', spec)
  <2> SUFFICES ASSUME NEW p \in Below(screen'), NEW q \in Below(spec),
                      Front(p) \in DOMAIN spec, Last(p) = Last(q)
               PROVE  p = q
    BY DEF Apart
  <2>1. CASE p = c
    BY <1>3, <1>5, <2>1 DEF OneEach
  <2>2. CASE p # c
    BY <1>5, <1>14, <2>2 DEF Apart
  <2> QED
    BY <2>1, <2>2
<1>18. \A d : Drawn(screen, spec, d) => Drawn(screen', spec, d)
  <2> SUFFICES ASSUME NEW d, Drawn(screen, spec, d), NEW q \in DOMAIN spec, IsPrefix(d, q)
               PROVE  q \in DOMAIN screen' /\ screen'[q] = spec[q]
    BY DEF Drawn
  <2>1. q \in DOMAIN screen /\ screen[q] = spec[q]
    BY DEF Drawn
  <2>2. q # a
    BY <1>7, <1>8, <2>1
  <2> QED
    BY <1>13, <2>1, <2>2
<1>19. CallsOK' /\ Walked' /\ Done'
  <2>1. \A i \in 1..Len(stack) : stack[i].at \in DOMAIN screen'
    BY <1>13 DEF PassOK, CallsOK
  <2>2. /\ Child(Wanted) \in DOMAIN screen' /\ Top.phase = "walk" /\ Top.next <= Len(spec[Top.at])
        /\ InPlace(screen'[Top.at], spec[Top.at], Top.next)
    BY <1>1, <1>2, <1>12, <1>13
  <2>3. \A i \in 1..(Len(stack) - 1) : screen'[stack[i].at] = screen[stack[i].at]
    <3> TAKE i \in 1..(Len(stack) - 1)
    <3>1. Len(stack) \in Nat
      BY TopFacts
    <3>2. i \in 1..Len(stack)
      BY <3>1
    <3>3. stack[i].at # a
      BY <1>1, OtherCalls
    <3>4. stack[i].at \in DOMAIN screen
      BY <3>2 DEF PassOK, CallsOK
    <3> QED
      BY <1>13, <3>3, <3>4
  <2> QED
    BY <1>2, <1>18, <2>1, <2>2, <2>3, PushedKeeps
<1>20. Apart(screen, spec)' /\ Tree(spec)' /\ OneEach(spec)'
  BY <1>2, <1>4, <1>5, <1>17
<1>21. ScreenOK'
  BY <1>10, <1>13 DEF ScreenOK
<1> QED
  BY <1>15, <1>16, <1>19, <1>20, <1>21 DEF PassOK

\* A call that is at its end has drawn its widget and all below it.
LEMMA CallIsDrawn ==
  ASSUME PassOK, ScreenOK, Top.phase = "walk", Top.next > Len(spec[Top.at])
  PROVE  Drawn(screen, spec, Top.at)
<1>1. PICK a, s, t, n : a = Top.at /\ s = screen[a] /\ t = spec[a] /\ n = Len(t)
  OBVIOUS
<1>2. /\ Tree(screen) /\ Tree(spec) /\ a \in DOMAIN screen /\ a \in DOMAIN spec /\ a \in Seq(Keys)
      /\ Len(stack) \in 1..Len(stack) /\ Top = stack[Len(stack)]
  BY <1>1, TopFacts DEF PassOK, ScreenOK
<1>3. s \in Seq(Keys) /\ InOrder(s) /\ t \in Seq(Keys) /\ InOrder(t)
  BY <1>1, <1>2 DEF Tree
<1>4. n \in Nat /\ Top.next - 1 = n
  <2>1. PICK l : l = Top.next
    OBVIOUS
  <2>2. n \in Nat
    BY <1>1, <1>3
  <2>3. l \in 1..(n + 1) /\ l > n
    BY <1>1, <2>1, TopFacts
  <2>4. l - 1 = n
    BY ONLY <2>2, <2>3
  <2> QED
    BY <2>1, <2>2, <2>4
<1>5. InPlace(s, t, n)
  <2>1. InPlace(screen[stack[Len(stack)].at], spec[stack[Len(stack)].at], stack[Len(stack)].next - 1)
    BY <1>2 DEF PassOK, Walked
  <2> QED
    BY <1>1, <1>2, <1>4, <2>1
<1>6. Len(s) = n
  <2>1. n <= Len(s) /\ Len(s) \in Nat
    BY <1>3, <1>5 DEF InPlace
  <2>2. CASE n < Len(s)
    <3>1. n + 1 \in (n + 1)..Len(s)
      BY <1>4, <2>1, <2>2
    <3>2. \E b \in (n + 1)..Len(t) : s[n + 1] = t[b]
      BY <1>3, <1>4, <1>5, <3>1, Rest
    <3> QED
      BY <1>1, <1>4, <3>2
  <2> QED
    BY <1>4, <2>1, <2>2
<1>7. s = t
  <2>1. \A j \in 1..n : s[j] = t[j]
    BY <1>5 DEF InPlace
  <2> QED
    BY <1>1, <1>3, <1>6, <2>1, SeqEqual
<1> SUFFICES ASSUME NEW q \in DOMAIN spec, IsPrefix(a, q) PROVE q \in DOMAIN screen /\ screen[q] = spec[q]
  BY <1>1 DEF Drawn
<1>8. CASE q = a
  BY <1>1, <1>2, <1>7, <1>8
<1>9. CASE q # a
  <2>1. q \in Seq(Keys)
    BY <1>2 DEF Tree
  <2>2. PICK k \in Keys : /\ Len(a) < Len(q) /\ SubSeq(q, 1, Len(a) + 1) = Append(a, k)
                          /\ IsPrefix(Append(a, k), q)
    BY <1>2, <1>9, <2>1, NextPrefix
  <2>3. Append(a, k) \in DOMAIN spec
    <3>1. Len(a) + 1 \in 0..Len(q)
      BY <1>2, <2>1, <2>2
    <3> QED
      BY <1>2, <2>2, <3>1 DEF Tree
  <2>4. PICK j \in 1..n : t[j] = k
    <3>1. Among(k, spec[a])
      BY <1>2, <2>3 DEF Tree
    <3> QED
      BY <1>1, <3>1 DEF Among
  <2>5. Drawn(screen, spec, Append(a, k))
    <3>1. j \in 1..(stack[Len(stack)].next - 1)
      BY <1>2, <1>4
    <3>2. Drawn(screen, spec, Append(stack[Len(stack)].at, spec[stack[Len(stack)].at][j]))
      BY <1>2, <3>1 DEF PassOK, Done
    <3> QED
      BY <1>1, <1>2, <2>4, <3>2
  <2> QED
    BY <2>2, <2>5 DEF Drawn
<1> QED
  BY <1>8, <1>9

LEMMA ReturnKeeps ==
  ASSUME PassOK, ScreenOK, Return
  PROVE  PassOK' /\ ScreenOK'
<1>1. PICK n, z : n = Len(stack) /\ z = stack'
  OBVIOUS
<1>2. /\ Top.phase = "walk" /\ Top.next > Len(spec[Top.at]) /\ n > 1
      /\ z = SubSeq(stack, 1, n - 1)
      /\ spec' = spec /\ screen' = screen /\ byKey' = byKey /\ crashed' = crashed
  BY <1>1 DEF Return, InCall
<1>3. n \in Nat \ {0} /\ Top = stack[n]
  BY <1>1, TopFacts
<1>4. CallsOK /\ Walked /\ Done
  BY DEF PassOK
<1>5. z \in Seq(Calls) /\ Len(z) = n - 1 /\ \A i \in 1..(n - 1) : z[i] = stack[i]
  <2>1. stack \in Seq(Calls)
    BY <1>4 DEF CallsOK
  <2>2. 1 \in 1..(Len(stack) + 1) /\ n - 1 \in 0..Len(stack) /\ 1 <= (n - 1) + 1
    BY <1>1, <1>2, <1>3
  <2>3. /\ z \in Seq(Calls) /\ Len(z) = (n - 1) - 1 + 1
        /\ \A i \in 1..((n - 1) - 1 + 1) : z[i] = stack[1 + i - 1]
    BY <1>2, <2>1, <2>2, PartFacts
  <2> QED
    BY <1>3, <2>3
<1>6. \A i \in 1..(n - 1) : i \in 1..Len(stack) /\ i # Len(stack)
  BY <1>1, <1>3
<1>7. CallsOK'
  <2>1. z # <<>> /\ z[1].at = <<>>
    <3>1. 1 \in 1..(n - 1)
      BY <1>2, <1>3
    <3>2. z[1] = stack[1]
      BY <1>5, <3>1
    <3>3. Len(z) # 0
      BY <1>2, <1>3, <1>5
    <3> QED
      BY <1>4, <3>2, <3>3 DEF CallsOK
  <2>2. ASSUME NEW i \in 1..(n - 1)
        PROVE  /\ z[i].at \in DOMAIN spec /\ z[i].at \in DOMAIN screen
               /\ Len(z[i].at) = i - 1
               /\ z[i].next \in 1..(Len(spec[z[i].at]) + 1)
               /\ z[i].phase = "remove" => i = n - 1 /\ z[i].next = 1
    <3>1. z[i] = stack[i] /\ i \in 1..Len(stack) /\ i # Len(stack)
      BY <1>5, <1>6
    <3> QED
      BY <1>4, <3>1 DEF CallsOK
  <2>3. ASSUME NEW i \in 1..((n - 1) - 1)
        PROVE  z[i].next > 1 /\ z[i + 1].at = Append(z[i].at, spec[z[i].at][z[i].next - 1])
    <3>1. i \in 1..(n - 1) /\ i + 1 \in 1..(n - 1) /\ i \in 1..(Len(stack) - 1)
      BY <1>1, <1>3
    <3>2. z[i] = stack[i] /\ z[i + 1] = stack[i + 1]
      BY <1>5, <3>1
    <3> QED
      BY <1>4, <3>1, <3>2 DEF CallsOK
  <2> QED
    BY <1>1, <1>2, <1>5, <2>1, <2>2, <2>3 DEF CallsOK
<1>8. Walked'
  <2> SUFFICES ASSUME NEW i \in 1..(n - 1), z[i].phase = "walk"
               PROVE  InPlace(screen[z[i].at], spec[z[i].at], z[i].next - 1)
    BY <1>1, <1>2, <1>5 DEF Walked
  <2> QED
    BY <1>4, <1>5, <1>6 DEF Walked
<1>9. Done'
  <2> SUFFICES ASSUME NEW i \in 1..(n - 1), NEW j \in 1..(z[i].next - 1), i = n - 1 \/ j < z[i].next - 1
               PROVE  Drawn(screen, spec, Append(z[i].at, spec[z[i].at][j]))
    BY <1>1, <1>2, <1>5 DEF Done
  <2>1. z[i] = stack[i] /\ i \in 1..Len(stack)
    BY <1>5, <1>6
  <2>2. CASE j < z[i].next - 1
    BY <1>4, <2>1, <2>2 DEF Done
  <2>3. CASE ~(j < z[i].next - 1)
    <3>1. z[i].next \in Nat
      <4>1. z[i] \in Calls
        BY <1>5, ElementOfSeq
      <4> QED
        BY <4>1 DEF Calls
    <3>2. i = n - 1 /\ j = z[i].next - 1
      BY <2>3, <3>1
    <3>3. i \in 1..(Len(stack) - 1) /\ i + 1 = n
      BY <1>1, <1>3, <3>2
    <3>4. stack[i + 1].at = Append(stack[i].at, spec[stack[i].at][stack[i].next - 1])
      BY <1>4, <3>3 DEF CallsOK
    <3>5. Top.at = Append(z[i].at, spec[z[i].at][j])
      BY <1>3, <2>1, <3>2, <3>3, <3>4
    <3>6. Drawn(screen, spec, Top.at)
      BY <1>2, CallIsDrawn
    <3> QED
      BY <3>5, <3>6
  <2> QED
    BY <2>2, <2>3
<1>10. Found' /\ Known' /\ Apart(screen, spec)' /\ Tree(spec)' /\ OneEach(spec)'
  BY <1>2 DEF PassOK, Found, Known
<1>11. ScreenOK'
  BY <1>2 DEF ScreenOK
<1> QED
  BY <1>7, <1>8, <1>9, <1>10, <1>11 DEF PassOK

\* A tree in which another one is drawn whole is that one.
LEMMA SameTree ==
  ASSUME NEW s, Tree(s), NEW t, Tree(t), \A q \in DOMAIN t : q \in DOMAIN s /\ s[q] = t[q]
  PROVE  s = t
<1> DEFINE P(n) == \A p \in DOMAIN s : Len(p) = n => p \in DOMAIN t
<1>1. P(0)
  <2> TAKE p \in DOMAIN s
  <2>1. p \in Seq(Keys) /\ <<>> \in DOMAIN t
    BY DEF Tree
  <2>2. Len(p) = 0 => p = <<>>
    BY <2>1
  <2> QED
    BY <2>1, <2>2
<1>2. ASSUME NEW n \in Nat, P(n) PROVE P(n + 1)
  <2> TAKE p \in DOMAIN s
  <2> HAVE Len(p) = n + 1
  <2>1. p \in Below(s)
    <3>1. p # <<>>
      OBVIOUS
    <3> QED
      BY <3>1 DEF Below
  <2>2. /\ Front(p) \in DOMAIN s /\ Last(p) \in Keys /\ p = Append(Front(p), Last(p))
        /\ Among(Last(p), s[Front(p)]) /\ Len(Front(p)) = Len(p) - 1
    BY <2>1, Parts
  <2>3. Len(Front(p)) = n
    BY <2>2
  <2>4. Front(p) \in DOMAIN t
    BY <1>2, <2>2, <2>3
  <2>5. Among(Last(p), t[Front(p)])
    BY <2>2, <2>4
  <2>6. Append(Front(p), Last(p)) \in DOMAIN t
    BY <2>2, <2>4, <2>5 DEF Tree
  <2> QED
    BY <2>2, <2>6
<1>3. P(0) /\ P(1) /\ P(2) /\ P(3) /\ P(4)
  <2> HIDE DEF P
  <2>1. P(0 + 1)
    BY <1>1, <1>2
  <2>2. P(1 + 1)
    BY <1>2, <2>1
  <2>3. P(2 + 1)
    BY <1>2, <2>2
  <2>4. P(3 + 1)
    BY <1>2, <2>3
  <2> QED
    BY <1>1, <2>1, <2>2, <2>3, <2>4
<1>4. DOMAIN s = DOMAIN t
  <2> SUFFICES ASSUME NEW p \in DOMAIN s PROVE p \in DOMAIN t
    OBVIOUS
  <2>1. PICK l : l = Len(p)
    OBVIOUS
  <2>2. l \in Nat /\ l <= 4
    BY <2>1 DEF Tree
  <2>3. l = 0 \/ l = 1 \/ l = 2 \/ l = 3 \/ l = 4
    BY ONLY <2>2
  <2> QED
    BY <1>3, <2>1, <2>3
<1>5. s = [p \in DOMAIN s |-> s[p]] /\ t = [p \in DOMAIN t |-> t[p]]
  BY DEF Tree
<1>6. \A p \in DOMAIN t : s[p] = t[p]
  OBVIOUS
<1> QED
  BY <1>4, <1>5, <1>6

\* When the outermost call is at its end the screen is the tree and the router has its map.
LEMMA PassEnds ==
  ASSUME PassOK, ScreenOK, Top.phase = "walk", Top.next > Len(spec[Top.at]), Len(stack) = 1
  PROVE  screen = spec /\ byKey = KeyMap(spec)
<1>1. Tree(screen) /\ Tree(spec) /\ OneEach(spec) /\ Found /\ Known
  BY DEF PassOK, ScreenOK
<1>2. Top.at = <<>>
  BY TopFacts DEF PassOK, CallsOK
<1>3. Drawn(screen, spec, <<>>)
  BY <1>2, CallIsDrawn
<1>4. \A q \in DOMAIN spec : IsPrefix(<<>>, q)
  <2> TAKE q \in DOMAIN spec
  <2>1. q \in Seq(Keys) /\ <<>> \in Seq(Keys)
    BY <1>1 DEF Tree
  <2> QED
    BY <2>1, PrefixFacts
<1>5. screen = spec
  BY <1>1, <1>3, <1>4, SameTree DEF Drawn
<1>6. ASSUME NEW k \in Keys
      PROVE  byKey[k] = IF \E p \in DOMAIN spec : p # <<>> /\ Last(p) = k
                        THEN CHOOSE p \in DOMAIN spec : p # <<>> /\ Last(p) = k
                        ELSE Nothing
  <2>1. CASE \E p \in DOMAIN spec : p # <<>> /\ Last(p) = k
    <3>1. PICK p : p = CHOOSE q \in DOMAIN spec : q # <<>> /\ Last(q) = k
      OBVIOUS
    <3>2. p \in DOMAIN spec /\ p # <<>> /\ Last(p) = k
      BY <2>1, <3>1
    <3>3. p \in Below(screen)
      BY <1>5, <3>2 DEF Below
    <3>4. Front(p) \in DOMAIN spec
      BY <1>1, <1>5, <3>3, Parts
    <3>5. byKey[k] = p
      BY <1>1, <3>2, <3>3, <3>4 DEF Known
    <3> QED
      BY <2>1, <3>1, <3>5
  <2>2. CASE ~\E p \in DOMAIN spec : p # <<>> /\ Last(p) = k
    <3>1. byKey[k] = Nothing
      BY <1>1, <1>5, <2>2 DEF Found, Below
    <3> QED
      BY <2>2, <3>1
  <2> QED
    BY <2>1, <2>2
<1>7. byKey = [k \in Keys |-> byKey[k]]
  BY <1>1 DEF Found
<1>8. byKey = KeyMap(spec)
  BY <1>6, <1>7 DEF KeyMap
<1> QED
  BY <1>5, <1>8

------------------------------------------------------------------------------
(* The trees of layouts.                                                     *)

Row == <<"docks-row">>
Viz == Append(Base("bottom"), "viz")
Leaf(e, k) == Append(Content(e), k)

LayoutOK(m) ==
  /\ m = [panels |-> m.panels, active |-> m.active, strips |-> m.strips, image |-> m.image, kind |-> m.kind]
  /\ m.panels \in [Edges -> Seq(Panels)] /\ EachDocked(m.panels)
  /\ m.active \in [Edges -> Panels \cup {Nothing}]
  /\ \A e \in Edges : m.active[e] = Nothing \/ Among(m.active[e], m.panels[e])
  /\ m.strips \in BOOLEAN /\ m.image \in BOOLEAN /\ m.kind \in Kinds \cup {Nothing}

LEMMA KeyFacts ==
  /\ {"docks-row", "panel-bar", "viz"} \subseteq Frames
  /\ \A e \in Edges : Docks[e] \in Frames /\ Wrappers[e] \in Frames
  /\ \A e, f \in Edges : (Docks[e] = Docks[f] => e = f) /\ (Wrappers[e] = Wrappers[f] => e = f)
  /\ \A e \in Edges : Docks[e] \notin {"docks-row", "panel-bar", "viz"} /\ Wrappers[e] \notin {"docks-row", "panel-bar", "viz"}
  /\ \A e, f \in Edges : Docks[e] # Wrappers[f]
  /\ Frames \subseteq Keys /\ Panels \subseteq Keys /\ Kinds \subseteq Keys /\ "constellation" \in Keys
  /\ "constellation" \notin Frames
  /\ Docks["left"] = "dock:left" /\ Docks["bottom"] = "center" /\ Docks["right"] = "dock:right"
  /\ Wrappers["bottom"] = "content:bottom"
<1>1. /\ Docks["left"] = "dock:left" /\ Docks["bottom"] = "center" /\ Docks["right"] = "dock:right"
      /\ Wrappers["left"] = "content:left" /\ Wrappers["bottom"] = "content:bottom"
      /\ Wrappers["right"] = "content:right"
  BY DEF Docks, Wrappers
<1>2. \A e \in Edges : e = "left" \/ e = "bottom" \/ e = "right"
  BY DEF Edges
<1>3. \A e \in Edges : Docks[e] \in Frames /\ Wrappers[e] \in Frames
  BY DEF Frames
<1>4. {"docks-row", "panel-bar", "viz"} \subseteq Frames
  BY DEF Frames
<1>5. \A e, f \in Edges : (Docks[e] = Docks[f] => e = f) /\ (Wrappers[e] = Wrappers[f] => e = f)
  BY <1>1, <1>2
<1>6. \A e \in Edges : Docks[e] \notin {"docks-row", "panel-bar", "viz"} /\ Wrappers[e] \notin {"docks-row", "panel-bar", "viz"}
  BY <1>1, <1>2
<1>7. \A e, f \in Edges : Docks[e] # Wrappers[f]
  BY <1>1, <1>2
<1>8. Frames \subseteq Keys /\ Panels \subseteq Keys /\ Kinds \subseteq Keys /\ "constellation" \in Keys
  BY DEF Keys
<1>9. "constellation" \notin Frames
  BY <1>1, <1>2 DEF Frames
<1> QED
  BY <1>1, <1>3, <1>4, <1>5, <1>6, <1>7, <1>8, <1>9

LEMMA Third ==
  ASSUME NEW s \in Seq(Keys), Len(s) = 2, NEW k \in Keys
  PROVE  Append(s, k) \in Seq(Keys) /\ Len(Append(s, k)) = 3 /\ Append(s, k)[3] = k
<1>1. PICK l, u : l = Len(s) /\ u = Append(s, k)
  OBVIOUS
<1>2. u \in Seq(Keys) /\ Len(u) = l + 1 /\ u[l + 1] = k
  BY <1>1, AppendFacts, ZenonT(60)
<1>3. l + 1 = 3
  <2>1. l = 2
    BY <1>1
  <2> QED
    BY ONLY <2>1
<1> QED
  BY <1>1, <1>2, <1>3

LEMMA PathFacts ==
  /\ Row \in Seq(Keys) /\ Len(Row) = 1 /\ Row[1] = "docks-row" /\ Row = Append(<<>>, "docks-row")
  /\ <<"panel-bar">> \in Seq(Keys) /\ Len(<<"panel-bar">>) = 1 /\ <<"panel-bar">>[1] = "panel-bar"
  /\ <<"panel-bar">> = Append(<<>>, "panel-bar") /\ <<>> \in Seq(Keys) /\ Len(<<>>) = 0
  /\ \A e \in Edges : /\ Base(e) \in Seq(Keys) /\ Len(Base(e)) = 2 /\ Base(e)[2] = Docks[e]
                      /\ Base(e) = Append(Row, Docks[e])
                      /\ Content(e) \in Seq(Keys) /\ Len(Content(e)) = 3
                      /\ Content(e)[3] = Wrappers[e] /\ Content(e) = Append(Base(e), Wrappers[e])
  /\ Viz \in Seq(Keys) /\ Len(Viz) = 3 /\ Viz[3] = "viz"
  /\ \A e \in Edges, k \in Keys : Leaf(e, k) \in Seq(Keys) /\ Len(Leaf(e, k)) = 4
<1>1. Row \in Seq(Keys) /\ Len(Row) = 1 /\ Row[1] = "docks-row" /\ Row = Append(<<>>, "docks-row")
  BY KeyFacts DEF Row
<1>2. /\ <<"panel-bar">> \in Seq(Keys) /\ Len(<<"panel-bar">>) = 1 /\ <<"panel-bar">>[1] = "panel-bar"
      /\ <<"panel-bar">> = Append(<<>>, "panel-bar") /\ <<>> \in Seq(Keys) /\ Len(<<>>) = 0
  BY KeyFacts
<1>3. ASSUME NEW e \in Edges
      PROVE  /\ Base(e) \in Seq(Keys) /\ Len(Base(e)) = 2 /\ Base(e)[2] = Docks[e]
             /\ Base(e) = Append(Row, Docks[e])
  BY KeyFacts DEF Base, Row
<1>4. ASSUME NEW e \in Edges
      PROVE  /\ Content(e) \in Seq(Keys) /\ Len(Content(e)) = 3
             /\ Content(e)[3] = Wrappers[e] /\ Content(e) = Append(Base(e), Wrappers[e])
  <2>1. Content(e) = Append(Base(e), Wrappers[e]) /\ Wrappers[e] \in Keys
    BY KeyFacts DEF Content
  <2>2. Base(e) \in Seq(Keys) /\ Len(Base(e)) = 2
    BY <1>3
  <2> QED
    BY <2>1, <2>2, Third
<1>5. Viz \in Seq(Keys) /\ Len(Viz) = 3 /\ Viz[3] = "viz"
  <2>1. Base("bottom") \in Seq(Keys) /\ Len(Base("bottom")) = 2 /\ "viz" \in Keys
    BY <1>3, KeyFacts DEF Edges
  <2> QED
    BY <2>1, Third DEF Viz
<1>6. ASSUME NEW e \in Edges, NEW k \in Keys
      PROVE  Leaf(e, k) \in Seq(Keys) /\ Len(Leaf(e, k)) = 4
  BY <1>4, AppendFacts DEF Leaf
<1> QED
  BY <1>1, <1>2, <1>3, <1>4, <1>5, <1>6

\* The panel whose widget has the key.
Owner(k) == IF k \in Kinds THEN "demod" ELSE IF k = "constellation" THEN "stats" ELSE k

LEMMA InnerFacts ==
  ASSUME NEW m, LayoutOK(m), NEW e \in Edges
  PROVE  /\ Inner(m, e) \in Seq(Keys) /\ InOrder(Inner(m, e))
         /\ \A k : Among(k, Inner(m, e)) => /\ k \in Keys \ Frames /\ Owner(k) = m.active[e]
                                            /\ m.active[e] # Nothing
         /\ Inner(m, e) # <<>> <=> \E k : Among(k, Inner(m, e))
<1>1. PICK p : p = m.active[e]
  OBVIOUS
<1>2. p = Nothing \/ p \in Panels
  BY <1>1 DEF LayoutOK
<1>3. /\ Panels \cap Kinds = {} /\ (Panels \cup Kinds) \cap (Frames \cup {"constellation"}) = {}
      /\ Nothing \notin Panels \cup Kinds
  BY InterfaceAssumption
<1>4. CASE Inner(m, e) = <<>>
  BY <1>4 DEF InOrder, Among
<1>5. CASE Inner(m, e) # <<>>
  <2>1. p \in Panels /\ p # Nothing /\ Inner(m, e) = PanelChildren(m, p)
    BY <1>1, <1>2, <1>5 DEF Inner
  <2>2. CASE p = "demod"
    <3>1. Inner(m, e) = <<m.kind>> /\ m.kind \in Kinds
      BY <1>5, <2>1, <2>2 DEF PanelChildren, LayoutOK
    <3>2. m.kind \in Keys \ Frames /\ Owner(m.kind) = p
      BY <1>3, <2>2, <3>1, KeyFacts DEF Owner
    <3>3. \A k : Among(k, Inner(m, e)) <=> k = m.kind
      BY <3>1 DEF Among
    <3>4. Inner(m, e) \in Seq(Keys) /\ InOrder(Inner(m, e))
      BY <3>1, <3>2 DEF InOrder
    <3> QED
      BY <1>1, <1>5, <2>1, <3>2, <3>3, <3>4
  <2>3. CASE p = "stats" /\ m.image
    <3>1. Inner(m, e) = <<"stats", "constellation">>
      BY <2>1, <2>3 DEF PanelChildren
    <3>2. {"stats", "constellation"} \subseteq Keys \ Frames /\ Owner("stats") = p /\ Owner("constellation") = p
      BY <1>3, <2>1, <2>3, KeyFacts DEF Owner
    <3>3. \A k : Among(k, Inner(m, e)) <=> k \in {"stats", "constellation"}
      BY <3>1 DEF Among
    <3>4. Inner(m, e) \in Seq(Keys)
      BY <3>1, <3>2
    <3>5. Rank("stats") = 1 /\ Rank("constellation") = 2
      BY DEF Rank
    <3>6. InOrder(Inner(m, e))
      BY <3>1, <3>5 DEF InOrder
    <3> QED
      BY <1>1, <1>5, <2>1, <3>2, <3>3, <3>4, <3>6
  <2>4. CASE p # "demod" /\ ~(p = "stats" /\ m.image)
    <3>1. Inner(m, e) = <<p>>
      BY <2>1, <2>4 DEF PanelChildren
    <3>2. p \in Keys \ Frames /\ Owner(p) = p
      BY <1>3, <2>1, KeyFacts DEF Owner
    <3>3. \A k : Among(k, Inner(m, e)) <=> k = p
      BY <3>1 DEF Among
    <3>4. Inner(m, e) \in Seq(Keys) /\ InOrder(Inner(m, e))
      BY <3>1, <3>2 DEF InOrder
    <3> QED
      BY <1>1, <1>5, <2>1, <3>2, <3>3, <3>4
  <2> QED
    BY <2>2, <2>3, <2>4
<1> QED
  BY <1>4, <1>5

\* The paths of a layout's tree.
LEMMA WidgetFacts ==
  ASSUME NEW m, LayoutOK(m), NEW p
  PROVE  p \in Widgets(m) <=>
           \/ p = <<>> \/ p = Row \/ p = Viz
           \/ m.strips /\ p = <<"panel-bar">>
           \/ \E e \in Edges : p = Base(e)
           \/ \E e \in Edges : Inner(m, e) # <<>> /\ p = Content(e)
           \/ \E e \in Edges, k \in Keys : Among(k, Inner(m, e)) /\ p = Leaf(e, k)
<1>1. p \in UNION {{Append(Content(e), Inner(m, e)[i]) : i \in 1..Len(Inner(m, e))} : e \in Edges}
        <=> \E e \in Edges, k \in Keys : Among(k, Inner(m, e)) /\ p = Leaf(e, k)
  <2>1. ASSUME NEW e \in Edges
        PROVE  (\E i \in 1..Len(Inner(m, e)) : p = Append(Content(e), Inner(m, e)[i]))
                 <=> \E k \in Keys : Among(k, Inner(m, e)) /\ p = Leaf(e, k)
    <3>1. \A k : Among(k, Inner(m, e)) => k \in Keys
      BY InnerFacts
    <3> QED
      BY <3>1 DEF Among, Leaf
  <2> QED
    BY <2>1
<1> QED
  BY <1>1 DEF Widgets, Row, Viz

LEMMA ChildrenFacts ==
  ASSUME NEW m, LayoutOK(m)
  PROVE  /\ ChildrenOf(m, <<>>) = IF m.strips THEN <<"docks-row", "panel-bar">> ELSE <<"docks-row">>
         /\ ChildrenOf(m, Row) = <<"dock:left", "center", "dock:right">>
         /\ ChildrenOf(m, Base("left")) = Wrapper(m, "left")
         /\ ChildrenOf(m, Base("bottom")) = <<"viz">> \o Wrapper(m, "bottom")
         /\ ChildrenOf(m, Base("right")) = Wrapper(m, "right")
         /\ \A e \in Edges : ChildrenOf(m, Content(e)) = Inner(m, e)
         /\ ChildrenOf(m, <<"panel-bar">>) = <<>> /\ ChildrenOf(m, Viz) = <<>>
         /\ \A e \in Edges, k \in Keys : ChildrenOf(m, Leaf(e, k)) = <<>>
<1>1. {"left", "bottom", "right"} = Edges
  BY DEF Edges
<1>2. \A e, f \in Edges : (Base(e) = Base(f) => e = f) /\ (Content(e) = Content(f) => e = f)
  BY PathFacts, KeyFacts
<1>3. /\ <<>> # Row /\ Row # <<"panel-bar">>
      /\ \A e \in Edges : <<>> # Base(e) /\ Row # Base(e) /\ <<>> # Content(e) /\ Row # Content(e)
      /\ \A e, f \in Edges : Content(e) # Base(f)
  BY PathFacts
<1>14. /\ Len(<<>>) = 0 /\ Len(Row) = 1 /\ \A e \in Edges : Len(Base(e)) = 2 /\ Len(Content(e)) = 3
       /\ Len(Viz) = 3 /\ Viz[3] = "viz" /\ \A e \in Edges : Content(e)[3] = Wrappers[e]
  BY PathFacts
<1>4. ChildrenOf(m, <<>>) = IF m.strips THEN <<"docks-row", "panel-bar">> ELSE <<"docks-row">>
  BY <1>1, <1>3 DEF ChildrenOf, Row
<1>5. ChildrenOf(m, Row) = <<"dock:left", "center", "dock:right">>
  BY <1>1, <1>3 DEF ChildrenOf, Row
<1>6. ChildrenOf(m, Base("bottom")) = <<"viz">> \o Wrapper(m, "bottom")
  BY <1>1, <1>2, <1>3 DEF ChildrenOf, Row
<1>7. ChildrenOf(m, Base("left")) = Wrapper(m, "left")
  BY <1>1, <1>2, <1>3 DEF ChildrenOf, Row
<1>8. ChildrenOf(m, Base("right")) = Wrapper(m, "right")
  BY <1>1, <1>2, <1>3 DEF ChildrenOf, Row
<1>9. ASSUME NEW e \in Edges PROVE ChildrenOf(m, Content(e)) = Inner(m, e)
  <2>1. (CHOOSE f \in Edges : Content(e) = Content(f)) = e
    BY <1>2
  <2>2. Content(e) \in {Content(f) : f \in Edges}
    OBVIOUS
  <2> QED
    BY <1>1, <1>3, <2>1, <2>2 DEF ChildrenOf, Row
<1>10. ASSUME NEW p, p # <<>>, p # Row, \A e \in Edges : p # Base(e) /\ p # Content(e)
       PROVE  ChildrenOf(m, p) = <<>>
  BY <1>1, <1>10 DEF ChildrenOf, Row
<1>11. ChildrenOf(m, <<"panel-bar">>) = <<>>
  <2>1. \A e \in Edges : <<"panel-bar">> # Base(e) /\ <<"panel-bar">> # Content(e)
    BY PathFacts
  <2> QED
    BY <1>3, <1>10, <2>1
<1>12. ChildrenOf(m, Viz) = <<>>
  <2>1. Viz # <<>> /\ Viz # Row /\ \A e \in Edges : Viz # Base(e)
    BY ONLY <1>14
  <2>2. \A e \in Edges : Viz # Content(e)
    <3> TAKE e \in Edges
    <3>1. Wrappers[e] # "viz"
      BY KeyFacts
    <3> QED
      BY ONLY <1>14, <3>1, e \in Edges
  <2> QED
    BY <1>10, <2>1, <2>2
<1>13. ASSUME NEW e \in Edges, NEW k \in Keys PROVE ChildrenOf(m, Leaf(e, k)) = <<>>
  <2>1. PICK p : p = Leaf(e, k)
    OBVIOUS
  <2>2. p # <<>> /\ p # Row /\ \A f \in Edges : p # Base(f) /\ p # Content(f)
    <3>1. Len(p) = 4
      BY <2>1, PathFacts
    <3>2. p # <<>> /\ p # Row
      BY ONLY <1>14, <3>1
    <3>3. ASSUME NEW f \in Edges PROVE p # Base(f) /\ p # Content(f)
      <4>1. Len(Base(f)) = 2 /\ Len(Content(f)) = 3
        BY <1>14
      <4> QED
        BY ONLY <3>1, <4>1
    <3> QED
      BY <3>2, <3>3
  <2> QED
    BY <1>10, <2>1, <2>2
<1> QED
  BY <1>4, <1>5, <1>6, <1>7, <1>8, <1>9, <1>11, <1>12, <1>13

LEMMA AppendSame ==
  ASSUME NEW s \in Seq(Keys), NEW t \in Seq(Keys), NEW k \in Keys, NEW l \in Keys
  PROVE  Append(s, k) = Append(t, l) <=> s = t /\ k = l
<1>1. Front(Append(s, k)) = s /\ Last(Append(s, k)) = k
  BY AppendFacts
<1>2. Front(Append(t, l)) = t /\ Last(Append(t, l)) = l
  BY AppendFacts
<1> QED
  BY <1>1, <1>2

\* Which paths of a layout's tree have which last key.
LEMMA ChildPaths ==
  ASSUME NEW m, LayoutOK(m), NEW p \in Seq(Keys), NEW k \in Keys
  PROVE  Append(p, k) \in Widgets(m) <=>
           \/ p = <<>> /\ (k = "docks-row" \/ (m.strips /\ k = "panel-bar"))
           \/ p = Row /\ \E e \in Edges : k = Docks[e]
           \/ p = Base("bottom") /\ k = "viz"
           \/ \E e \in Edges : Inner(m, e) # <<>> /\ p = Base(e) /\ k = Wrappers[e]
           \/ \E e \in Edges : Among(k, Inner(m, e)) /\ p = Content(e)
<1>1. PICK c : c = Append(p, k)
  OBVIOUS
<1>2. c # <<>>
  BY <1>1, AppendFacts
<1>3. c = Row <=> p = <<>> /\ k = "docks-row"
  <2>1. <<>> \in Seq(Keys) /\ "docks-row" \in Keys /\ Row = Append(<<>>, "docks-row")
    BY PathFacts, KeyFacts
  <2>2. \A s \in Seq(Keys), x \in Keys : Append(p, k) = Append(s, x) <=> p = s /\ k = x
    BY AppendSame
  <2> QED
    BY ONLY <1>1, <2>1, <2>2, Zenon
<1>4. c = <<"panel-bar">> <=> p = <<>> /\ k = "panel-bar"
  <2>1. <<>> \in Seq(Keys) /\ "panel-bar" \in Keys /\ <<"panel-bar">> = Append(<<>>, "panel-bar")
    BY PathFacts, KeyFacts
  <2>2. \A s \in Seq(Keys), x \in Keys : Append(p, k) = Append(s, x) <=> p = s /\ k = x
    BY AppendSame
  <2> QED
    BY ONLY <1>1, <2>1, <2>2, Zenon
<1>5. c = Viz <=> p = Base("bottom") /\ k = "viz"
  <2>1. Base("bottom") \in Seq(Keys) /\ "viz" \in Keys /\ Viz = Append(Base("bottom"), "viz")
    BY PathFacts, KeyFacts DEF Viz, Edges
  <2> QED
    BY ONLY <1>1, <2>1, AppendSame, p \in Seq(Keys), k \in Keys
<1>6. ASSUME NEW e \in Edges
      PROVE  /\ c = Base(e) <=> p = Row /\ k = Docks[e]
             /\ c = Content(e) <=> p = Base(e) /\ k = Wrappers[e]
             /\ \A l \in Keys : c = Leaf(e, l) <=> p = Content(e) /\ k = l
  <2>1. /\ Row \in Seq(Keys) /\ Docks[e] \in Keys /\ Base(e) = Append(Row, Docks[e])
        /\ Base(e) \in Seq(Keys) /\ Wrappers[e] \in Keys /\ Content(e) = Append(Base(e), Wrappers[e])
        /\ Content(e) \in Seq(Keys)
    BY PathFacts, KeyFacts
  <2>2. c = Base(e) <=> p = Row /\ k = Docks[e]
    BY ONLY <1>1, <2>1, AppendSame, p \in Seq(Keys), k \in Keys
  <2>3. c = Content(e) <=> p = Base(e) /\ k = Wrappers[e]
    BY ONLY <1>1, <2>1, AppendSame, p \in Seq(Keys), k \in Keys
  <2>4. \A l \in Keys : c = Leaf(e, l) <=> p = Content(e) /\ k = l
    BY ONLY <1>1, <2>1, AppendSame, p \in Seq(Keys), k \in Keys DEF Leaf
  <2> QED
    BY <2>2, <2>3, <2>4
<1>7. c \in Widgets(m) <=>
           \/ c = <<>> \/ c = Row \/ c = Viz
           \/ m.strips /\ c = <<"panel-bar">>
           \/ \E e \in Edges : c = Base(e)
           \/ \E e \in Edges : Inner(m, e) # <<>> /\ c = Content(e)
           \/ \E e \in Edges, l \in Keys : Among(l, Inner(m, e)) /\ c = Leaf(e, l)
  BY WidgetFacts
<1>8. (\E e \in Edges : c = Base(e)) <=> p = Row /\ \E e \in Edges : k = Docks[e]
  BY <1>6
<1>9. (\E e \in Edges : Inner(m, e) # <<>> /\ c = Content(e))
        <=> \E e \in Edges : Inner(m, e) # <<>> /\ p = Base(e) /\ k = Wrappers[e]
  BY <1>6
<1>10. (\E e \in Edges, l \in Keys : Among(l, Inner(m, e)) /\ c = Leaf(e, l))
         <=> \E e \in Edges : Among(k, Inner(m, e)) /\ p = Content(e)
  BY <1>6
<1>11. c \in Widgets(m) <=>
           \/ p = <<>> /\ (k = "docks-row" \/ (m.strips /\ k = "panel-bar"))
           \/ p = Row /\ \E e \in Edges : k = Docks[e]
           \/ p = Base("bottom") /\ k = "viz"
           \/ \E e \in Edges : Inner(m, e) # <<>> /\ p = Base(e) /\ k = Wrappers[e]
           \/ \E e \in Edges : Among(k, Inner(m, e)) /\ p = Content(e)
  BY ONLY <1>2, <1>3, <1>4, <1>5, <1>7, <1>8, <1>9, <1>10, Zenon
<1> QED
  BY <1>1, <1>11

LEMMA AmongOne ==
  ASSUME NEW x, NEW k
  PROVE  Among(k, <<x>>) <=> k = x
BY DEF Among

LEMMA AmongTwo ==
  ASSUME NEW x, NEW y, NEW k
  PROVE  Among(k, <<x, y>>) <=> k = x \/ k = y
BY DEF Among

LEMMA PairOfOnes ==
  ASSUME NEW x, NEW y
  PROVE  <<x>> \o <<y>> = <<x, y>>
<1>1. PICK a, b, u, v : a = <<x>> /\ b = <<y>> /\ u = a \o b /\ v = <<x, y>>
  OBVIOUS
<1>2. a \in Seq({x, y}) /\ Len(a) = 1 /\ a[1] = x /\ b \in Seq({x, y}) /\ Len(b) = 1 /\ b[1] = y
  BY <1>1
<1>3. /\ u \in Seq({x, y}) /\ Len(u) = 1 + 1
      /\ \A i \in 1..1 : u[i] = a[i]
      /\ \A i \in (1 + 1)..(1 + 1) : u[i] = b[i - 1]
  BY <1>1, <1>2, JoinFacts
<1>4. u[1] = x /\ u[2] = y /\ Len(u) = 2
  BY <1>2, <1>3
<1>5. v \in Seq({x, y}) /\ Len(v) = 2 /\ v[1] = x /\ v[2] = y
  BY <1>1
<1>6. \A i \in 1..2 : u[i] = v[i]
  BY <1>4, <1>5
<1>7. u = v
  BY <1>3, <1>4, <1>5, <1>6, SeqEqual
<1> QED
  BY <1>1, <1>7

LEMMA AmongFacts ==
  ASSUME NEW m, LayoutOK(m), NEW k \in Keys
  PROVE  /\ Among(k, ChildrenOf(m, <<>>)) <=> k = "docks-row" \/ (m.strips /\ k = "panel-bar")
         /\ Among(k, ChildrenOf(m, Row)) <=> \E e \in Edges : k = Docks[e]
         /\ \A e \in Edges : Among(k, ChildrenOf(m, Base(e))) <=>
                               (e = "bottom" /\ k = "viz") \/ (Inner(m, e) # <<>> /\ k = Wrappers[e])
         /\ \A e \in Edges : Among(k, ChildrenOf(m, Content(e))) <=> Among(k, Inner(m, e))
         /\ ~Among(k, ChildrenOf(m, <<"panel-bar">>)) /\ ~Among(k, ChildrenOf(m, Viz))
         /\ \A e \in Edges, l \in Keys : ~Among(k, ChildrenOf(m, Leaf(e, l)))
<1>1. Among(k, ChildrenOf(m, <<>>)) <=> k = "docks-row" \/ (m.strips /\ k = "panel-bar")
  <2>1. CASE m.strips
    <3>1. ChildrenOf(m, <<>>) = <<"docks-row", "panel-bar">>
      BY <2>1, ChildrenFacts
    <3> QED
      BY <2>1, <3>1, AmongTwo
  <2>2. CASE ~m.strips
    <3>1. ChildrenOf(m, <<>>) = <<"docks-row">>
      BY <2>2, ChildrenFacts
    <3> QED
      BY <2>2, <3>1, AmongOne
  <2> QED
    BY <2>1, <2>2
<1>2. Among(k, ChildrenOf(m, Row)) <=> \E e \in Edges : k = Docks[e]
  <2>1. ChildrenOf(m, Row) = <<"dock:left", "center", "dock:right">>
    BY ChildrenFacts
  <2>2. Among(k, ChildrenOf(m, Row)) <=> k = "dock:left" \/ k = "center" \/ k = "dock:right"
    BY <2>1 DEF Among
  <2>3. (\E e \in Edges : k = Docks[e]) <=> k = "dock:left" \/ k = "center" \/ k = "dock:right"
    BY KeyFacts DEF Edges
  <2> QED
    BY <2>2, <2>3
<1>3. ASSUME NEW e \in Edges PROVE Among(k, Wrapper(m, e)) <=> Inner(m, e) # <<>> /\ k = Wrappers[e]
  <2>1. CASE Inner(m, e) = <<>>
    BY <2>1 DEF Wrapper, Among
  <2>2. CASE Inner(m, e) # <<>>
    <3>1. Wrapper(m, e) = <<Wrappers[e]>>
      BY <2>2 DEF Wrapper
    <3> QED
      BY <2>2, <3>1 DEF Among
  <2> QED
    BY <2>1, <2>2
<1>4. ASSUME NEW e \in Edges
      PROVE  Among(k, ChildrenOf(m, Base(e))) <=>
               (e = "bottom" /\ k = "viz") \/ (Inner(m, e) # <<>> /\ k = Wrappers[e])
  <2>1. CASE e = "left"
    BY <1>3, <2>1, ChildrenFacts
  <2>2. CASE e = "right"
    BY <1>3, <2>2, ChildrenFacts
  <2>3. CASE e = "bottom" /\ Inner(m, e) = <<>>
    <3>1. ChildrenOf(m, Base(e)) = <<"viz">> \o <<>>
      BY <2>3, ChildrenFacts DEF Wrapper
    <3>2. ChildrenOf(m, Base(e)) = <<"viz">>
      BY <3>1
    <3> QED
      BY <2>3, <3>2, AmongOne
  <2>4. CASE e = "bottom" /\ Inner(m, e) # <<>>
    <3>1. ChildrenOf(m, Base(e)) = <<"viz">> \o <<Wrappers[e]>>
      BY <2>4, ChildrenFacts DEF Wrapper
    <3>2. ChildrenOf(m, Base(e)) = <<"viz", Wrappers[e]>>
      BY <3>1, PairOfOnes
    <3> QED
      BY <2>4, <3>2, AmongTwo
  <2> QED
    BY <2>1, <2>2, <2>3, <2>4 DEF Edges
<1>5. \A e \in Edges : Among(k, ChildrenOf(m, Content(e))) <=> Among(k, Inner(m, e))
  BY ChildrenFacts
<1>6. ~Among(k, <<>>)
  BY DEF Among
<1>7. /\ ~Among(k, ChildrenOf(m, <<"panel-bar">>)) /\ ~Among(k, ChildrenOf(m, Viz))
      /\ \A e \in Edges, l \in Keys : ~Among(k, ChildrenOf(m, Leaf(e, l)))
  BY <1>6, ChildrenFacts
<1> QED
  BY <1>1, <1>2, <1>4, <1>5, <1>7

LEMMA OrderOne ==
  ASSUME NEW x \in Keys
  PROVE  <<x>> \in Seq(Keys) /\ InOrder(<<x>>)
BY DEF InOrder

LEMMA OrderTwo ==
  ASSUME NEW x \in Keys, NEW y \in Keys, Rank(x) < Rank(y)
  PROVE  <<x, y>> \in Seq(Keys) /\ InOrder(<<x, y>>)
BY DEF InOrder

LEMMA OrderFacts ==
  ASSUME NEW m, LayoutOK(m), NEW p \in Widgets(m)
  PROVE  ChildrenOf(m, p) \in Seq(Keys) /\ InOrder(ChildrenOf(m, p))
<1>1. /\ Rank("docks-row") = 1 /\ Rank("panel-bar") = 2 /\ Rank("viz") = 1
      /\ Rank("dock:left") = 1 /\ Rank("center") = 2 /\ Rank("dock:right") = 3
      /\ Rank(Wrappers["bottom"]) = 2
  BY KeyFacts DEF Rank
<1>2. <<>> \in Seq(Keys) /\ InOrder(<<>>)
  BY DEF InOrder
<1>3. {"docks-row", "panel-bar", "viz", "dock:left", "center", "dock:right"} \subseteq Keys
      /\ \A e \in Edges : Wrappers[e] \in Keys
  BY KeyFacts DEF Edges
<1>4. ASSUME NEW e \in Edges PROVE Wrapper(m, e) \in Seq(Keys) /\ InOrder(Wrapper(m, e))
  <2>1. Wrapper(m, e) = <<>> \/ Wrapper(m, e) = <<Wrappers[e]>>
    BY DEF Wrapper
  <2>2. Wrappers[e] \in Keys
    BY <1>3
  <2> QED
    BY <1>2, <2>1, <2>2, OrderOne
<1>5. CASE p = <<>>
  <2>1. ChildrenOf(m, p) = <<"docks-row", "panel-bar">> \/ ChildrenOf(m, p) = <<"docks-row">>
    BY <1>5, ChildrenFacts
  <2>2. <<"docks-row", "panel-bar">> \in Seq(Keys) /\ InOrder(<<"docks-row", "panel-bar">>)
    <3>1. "docks-row" \in Keys /\ "panel-bar" \in Keys /\ Rank("docks-row") < Rank("panel-bar")
      BY <1>1, <1>3
    <3> QED
      BY <3>1, OrderTwo
  <2>3. <<"docks-row">> \in Seq(Keys) /\ InOrder(<<"docks-row">>)
    BY <1>3, OrderOne
  <2> QED
    BY <2>1, <2>2, <2>3
<1>6. CASE p = Row
  <2>1. PICK s : s = <<"dock:left", "center", "dock:right">>
    OBVIOUS
  <2>2. s \in Seq(Keys) /\ Len(s) = 3 /\ s[1] = "dock:left" /\ s[2] = "center" /\ s[3] = "dock:right"
    BY <1>3, <2>1
  <2>3. InOrder(s)
    <3> SUFFICES ASSUME NEW i \in 1..3, NEW j \in 1..3, i < j PROVE Rank(s[i]) < Rank(s[j])
      BY <2>2 DEF InOrder
    <3>1. (i = 1 /\ j = 2) \/ (i = 1 /\ j = 3) \/ (i = 2 /\ j = 3)
      OBVIOUS
    <3> QED
      BY <1>1, <2>2, <3>1
  <2>4. ChildrenOf(m, p) = s
    BY <1>6, <2>1, ChildrenFacts
  <2> QED
    BY <2>2, <2>3, <2>4
<1>7. CASE p = Base("left") \/ p = Base("right")
  <2>1. "left" \in Edges /\ "right" \in Edges
    BY DEF Edges
  <2> QED
    BY <1>4, <1>7, <2>1, ChildrenFacts
<1>8. CASE p = Base("bottom")
  <2>1. "bottom" \in Edges
    BY DEF Edges
  <2>2. CASE Inner(m, "bottom") = <<>>
    <3>1. ChildrenOf(m, p) = <<"viz">> \o <<>>
      BY <1>8, <2>2, ChildrenFacts DEF Wrapper
    <3>2. ChildrenOf(m, p) = <<"viz">>
      BY <3>1
    <3> QED
      BY <1>3, <3>2, OrderOne
  <2>3. CASE Inner(m, "bottom") # <<>>
    <3>1. ChildrenOf(m, p) = <<"viz">> \o <<Wrappers["bottom"]>>
      BY <1>8, <2>3, ChildrenFacts DEF Wrapper
    <3>2. ChildrenOf(m, p) = <<"viz", Wrappers["bottom"]>>
      BY <3>1, PairOfOnes
    <3>3. "viz" \in Keys /\ Wrappers["bottom"] \in Keys /\ Rank("viz") < Rank(Wrappers["bottom"])
      BY <1>1, <1>3, <2>1
    <3> QED
      BY <3>2, <3>3, OrderTwo
  <2> QED
    BY <2>2, <2>3
<1>9. ASSUME NEW e \in Edges, p = Content(e) PROVE ChildrenOf(m, p) \in Seq(Keys) /\ InOrder(ChildrenOf(m, p))
  BY <1>9, ChildrenFacts, InnerFacts
<1>10. ASSUME ChildrenOf(m, p) = <<>> PROVE ChildrenOf(m, p) \in Seq(Keys) /\ InOrder(ChildrenOf(m, p))
  BY <1>2, <1>10
<1>11. CASE p = <<"panel-bar">> \/ p = Viz \/ \E e \in Edges, k \in Keys : p = Leaf(e, k)
  BY <1>10, <1>11, ChildrenFacts
<1>12. ASSUME NEW e \in Edges, p = Base(e) PROVE p = Base("left") \/ p = Base("right") \/ p = Base("bottom")
  BY <1>12 DEF Edges
<1> QED
  BY <1>5, <1>6, <1>7, <1>8, <1>9, <1>11, <1>12, WidgetFacts

\* With the parent of each of them a set of paths has all paths above.
LEMMA AllAbove ==
  ASSUME NEW D, \A p \in D : p \in Seq(Keys) /\ Len(p) <= 4,
         \A p \in D : p # <<>> => Front(p) \in D
  PROVE  \A p \in D : \A n \in 0..Len(p) : SubSeq(p, 1, n) \in D
<1> DEFINE P(d) == \A p \in D : \A n \in 0..Len(p) : Len(p) - n = d => SubSeq(p, 1, n) \in D
<1>1. P(0)
  <2> TAKE p \in D
  <2> TAKE n \in 0..Len(p)
  <2>1. p \in Seq(Keys)
    OBVIOUS
  <2>2. Len(p) - n = 0 => n = Len(p)
    BY <2>1
  <2>3. SubSeq(p, 1, Len(p)) = p
    BY <2>1
  <2> QED
    BY <2>2, <2>3
<1>2. ASSUME NEW d \in Nat, P(d) PROVE P(d + 1)
  <2> TAKE p \in D
  <2> TAKE n \in 0..Len(p)
  <2> HAVE Len(p) - n = d + 1
  <2>1. p \in Seq(Keys)
    OBVIOUS
  <2>2. PICK q, l : q = Front(p) /\ l = Len(p)
    OBVIOUS
  <2>3. l \in Nat /\ n \in 0..l /\ l - n = d + 1
    BY <2>1, <2>2
  <2>4. n \in 0..(l - 1) /\ (l - 1) - n = d /\ l # 0
    BY <2>3
  <2>5. p # <<>>
    BY <2>2, <2>4
  <2>6. q \in D /\ q \in Seq(Keys) /\ Len(q) = l - 1 /\ q = SubSeq(p, 1, l - 1)
    BY <2>1, <2>2, <2>5, FrontLast
  <2>7. SubSeq(q, 1, n) \in D
    BY <1>2, <2>4, <2>6
  <2>8. SubSeq(q, 1, n) = SubSeq(p, 1, n)
    <3>1. \A i \in 1..(l - 1) : q[i] = p[i]
      BY <2>1, <2>2, <2>3, <2>4, <2>6
    <3>2. /\ SubSeq(q, 1, n) \in Seq(Keys) /\ Len(SubSeq(q, 1, n)) = n
          /\ \A i \in 1..n : SubSeq(q, 1, n)[i] = q[i]
      BY <2>3, <2>4, <2>6
    <3>3. /\ SubSeq(p, 1, n) \in Seq(Keys) /\ Len(SubSeq(p, 1, n)) = n
          /\ \A i \in 1..n : SubSeq(p, 1, n)[i] = p[i]
      BY <2>1, <2>2, <2>3
    <3>4. \A i \in 1..n : SubSeq(q, 1, n)[i] = SubSeq(p, 1, n)[i]
      BY <2>3, <2>4, <3>1, <3>2, <3>3
    <3> QED
      BY <3>2, <3>3, <3>4, SeqEqual
  <2> QED
    BY <2>7, <2>8
<1>3. P(0) /\ P(1) /\ P(2) /\ P(3) /\ P(4)
  <2> HIDE DEF P
  <2>1. P(0 + 1)
    BY <1>1, <1>2
  <2>2. P(1 + 1)
    BY <1>2, <2>1
  <2>3. P(2 + 1)
    BY <1>2, <2>2
  <2>4. P(3 + 1)
    BY <1>2, <2>3
  <2> QED
    BY <1>1, <2>1, <2>2, <2>3, <2>4
<1> SUFFICES ASSUME NEW p \in D, NEW n \in 0..Len(p) PROVE SubSeq(p, 1, n) \in D
  OBVIOUS
<1>4. PICK l : l = Len(p)
  OBVIOUS
<1>5. l \in Nat /\ l <= 4 /\ n \in 0..l
  <2>1. p \in Seq(Keys)
    OBVIOUS
  <2> QED
    BY <1>4, <2>1
<1>6. l - n = 0 \/ l - n = 1 \/ l - n = 2 \/ l - n = 3 \/ l - n = 4
  BY ONLY <1>5
<1> QED
  BY <1>3, <1>4, <1>6

\* The places of the frames differ from one another and from those of the panels' widgets.
LEMMA Places ==
  /\ <<>> # Row /\ Row # <<"panel-bar">> /\ Viz # <<>> /\ Viz # Row
  /\ \A e \in Edges : /\ Base(e) # <<>> /\ Base(e) # Row /\ Base(e) # <<"panel-bar">> /\ Base(e) # Viz
                      /\ Content(e) # <<>> /\ Content(e) # Row /\ Content(e) # <<"panel-bar">>
                      /\ Content(e) # Viz
  /\ \A e, f \in Edges : /\ Base(e) # Content(f)
                         /\ Base(e) = Base(f) <=> e = f
                         /\ Content(e) = Content(f) <=> e = f
  /\ \A e \in Edges, k \in Keys : /\ Leaf(e, k) # <<>> /\ Leaf(e, k) # Row /\ Leaf(e, k) # <<"panel-bar">>
                                  /\ Leaf(e, k) # Viz
                                  /\ \A f \in Edges : Leaf(e, k) # Base(f) /\ Leaf(e, k) # Content(f)
<1>1. Len(<<>>) = 0 /\ Len(Row) = 1 /\ Len(<<"panel-bar">>) = 1 /\ Len(Viz) = 3 /\ Viz[3] = "viz"
  BY PathFacts
<1>2. \A e \in Edges : /\ Len(Base(e)) = 2 /\ Base(e)[2] = Docks[e]
                      /\ Len(Content(e)) = 3 /\ Content(e)[3] = Wrappers[e]
  BY PathFacts
<1>3. \A e \in Edges, k \in Keys : Len(Leaf(e, k)) = 4
  BY PathFacts
<1>4. \A e, f \in Edges : (Docks[e] = Docks[f] => e = f) /\ (Wrappers[e] = Wrappers[f] => e = f)
  BY KeyFacts
<1>5. \A e \in Edges : Wrappers[e] # "viz"
  BY KeyFacts
<1>6. 2 # 0 /\ 2 # 1 /\ 2 # 3 /\ 3 # 0 /\ 3 # 1 /\ 4 # 0 /\ 4 # 1 /\ 4 # 2 /\ 4 # 3
  OBVIOUS
<1>7. <<>> # Row /\ Viz # <<>> /\ Viz # Row
  BY ONLY <1>1
<1>8. Row # <<"panel-bar">>
  BY DEF Row
<1>9. ASSUME NEW e \in Edges
      PROVE  /\ Base(e) # <<>> /\ Base(e) # Row /\ Base(e) # <<"panel-bar">> /\ Base(e) # Viz
             /\ Content(e) # <<>> /\ Content(e) # Row /\ Content(e) # <<"panel-bar">>
             /\ Content(e) # Viz
  <2>1. Len(Base(e)) = 2 /\ Len(Content(e)) = 3 /\ Content(e)[3] # "viz"
    BY <1>2, <1>5
  <2> QED
    BY ONLY <1>1, <1>6, <2>1, Zenon
<1>10. ASSUME NEW e \in Edges, NEW f \in Edges
      PROVE  /\ Base(e) # Content(f)
             /\ Base(e) = Base(f) <=> e = f
             /\ Content(e) = Content(f) <=> e = f
  <2>1. Len(Base(e)) = 2 /\ Len(Content(f)) = 3
    BY <1>2
  <2>2. Base(e) # Content(f)
    BY ONLY <2>1
  <2>3. Base(e) = Base(f) => e = f
    BY <1>2, <1>4
  <2>4. Content(e) = Content(f) => e = f
    BY <1>2, <1>4
  <2> QED
    BY <2>2, <2>3, <2>4
<1>11. ASSUME NEW e \in Edges, NEW k \in Keys, NEW f \in Edges
       PROVE  /\ Leaf(e, k) # <<>> /\ Leaf(e, k) # Row /\ Leaf(e, k) # <<"panel-bar">> /\ Leaf(e, k) # Viz
              /\ Leaf(e, k) # Base(f) /\ Leaf(e, k) # Content(f)
  <2>1. Len(Leaf(e, k)) = 4 /\ Len(Base(f)) = 2 /\ Len(Content(f)) = 3
    BY <1>2, <1>3
  <2> QED
    BY ONLY <1>1, <1>6, <2>1, Zenon
<1>12. \E f : f \in Edges
  BY DEF Edges
<1> QED
  BY <1>7, <1>8, <1>9, <1>10, <1>11, <1>12

\* What derive_tree returns is a tree.
LEMMA LayoutTree ==
  ASSUME NEW m, LayoutOK(m), NEW t, t = DeriveTree(m)
  PROVE  Tree(t) /\ DOMAIN t = Widgets(m) /\ \A p \in DOMAIN t : t[p] = ChildrenOf(m, p)
<1>1. /\ t = [p \in DOMAIN t |-> t[p]] /\ DOMAIN t = Widgets(m)
      /\ \A p \in DOMAIN t : t[p] = ChildrenOf(m, p)
  BY DEF DeriveTree
<1>2. <<>> \in Widgets(m) /\ Row \in Widgets(m) /\ \A e \in Edges : Base(e) \in Widgets(m)
  BY WidgetFacts
<1>3. \A e \in Edges : Inner(m, e) # <<>> => Content(e) \in Widgets(m)
  BY WidgetFacts
<1>4. \A e \in Edges : \A k : Among(k, Inner(m, e)) => Content(e) \in Widgets(m)
  BY <1>3, InnerFacts
<1>5. \A p \in Widgets(m) : p \in Seq(Keys) /\ Len(p) <= 4
  <2> TAKE p \in Widgets(m)
  <2>1. CASE p = <<>> \/ p = Row \/ p = Viz \/ p = <<"panel-bar">>
    <3>1. p \in Seq(Keys) /\ (Len(p) = 0 \/ Len(p) = 1 \/ Len(p) = 3)
      BY <2>1, PathFacts
    <3> QED
      BY ONLY <3>1
  <2>2. ASSUME NEW e \in Edges, p = Base(e) \/ p = Content(e) PROVE p \in Seq(Keys) /\ Len(p) <= 4
    <3>1. PICK l : l = Len(p)
      OBVIOUS
    <3>2. p \in Seq(Keys) /\ (l = 2 \/ l = 3)
      BY <2>2, <3>1, PathFacts
    <3>3. l <= 4
      BY ONLY <3>2
    <3> QED
      BY <3>1, <3>2, <3>3
  <2>3. ASSUME NEW e \in Edges, NEW k \in Keys, p = Leaf(e, k) PROVE p \in Seq(Keys) /\ Len(p) <= 4
    <3>1. PICK l : l = Len(p)
      OBVIOUS
    <3>2. p \in Seq(Keys) /\ l = 4
      BY <2>3, <3>1, PathFacts
    <3>3. l <= 4
      BY ONLY <3>2
    <3> QED
      BY <3>1, <3>2, <3>3
  <2> QED
    BY <2>1, <2>2, <2>3, WidgetFacts
<1>6. \A p \in Widgets(m) : p # <<>> => Front(p) \in Widgets(m)
  <2> SUFFICES ASSUME NEW p \in Widgets(m), p # <<>> PROVE Front(p) \in Widgets(m)
    OBVIOUS
  <2>1. CASE p = Row \/ p = <<"panel-bar">>
    <3>1. <<>> \in Seq(Keys) /\ "docks-row" \in Keys /\ "panel-bar" \in Keys
          /\ Row = Append(<<>>, "docks-row") /\ <<"panel-bar">> = Append(<<>>, "panel-bar")
      BY PathFacts, KeyFacts
    <3>2. Front(Row) = <<>> /\ Front(<<"panel-bar">>) = <<>>
      BY <3>1, AppendFacts, ZenonT(40)
    <3> QED
      BY <1>2, <2>1, <3>2
  <2>2. CASE p = Viz
    <3>1. Base("bottom") \in Seq(Keys) /\ "viz" \in Keys /\ "bottom" \in Edges
      BY PathFacts, KeyFacts DEF Edges
    <3>2. Front(p) = Base("bottom")
      BY <2>2, <3>1, AppendFacts DEF Viz
    <3> QED
      BY <1>2, <3>1, <3>2
  <2>3. ASSUME NEW e \in Edges, p = Base(e) PROVE Front(p) \in Widgets(m)
    <3>1. Row \in Seq(Keys) /\ Docks[e] \in Keys /\ Base(e) = Append(Row, Docks[e])
      BY PathFacts, KeyFacts
    <3>2. Front(p) = Row
      BY <2>3, <3>1, AppendFacts
    <3> QED
      BY <1>2, <3>2
  <2>4. ASSUME NEW e \in Edges, p = Content(e) PROVE Front(p) \in Widgets(m)
    <3>1. Base(e) \in Seq(Keys) /\ Wrappers[e] \in Keys /\ Content(e) = Append(Base(e), Wrappers[e])
      BY PathFacts, KeyFacts
    <3>2. Front(p) = Base(e)
      BY <2>4, <3>1, AppendFacts
    <3> QED
      BY <1>2, <3>2
  <2>5. ASSUME NEW e \in Edges, NEW k \in Keys, Among(k, Inner(m, e)), p = Leaf(e, k)
        PROVE  Front(p) \in Widgets(m)
    <3>1. Content(e) \in Seq(Keys)
      BY PathFacts
    <3>2. Front(p) = Content(e)
      BY <2>5, <3>1, AppendFacts DEF Leaf
    <3> QED
      BY <1>4, <2>5, <3>2
  <2> QED
    BY <2>1, <2>2, <2>3, <2>4, <2>5, WidgetFacts
<1>7. \A p \in DOMAIN t : \A n \in 0..Len(p) : SubSeq(p, 1, n) \in DOMAIN t
  <2>1. \A p \in Widgets(m) : \A n \in 0..Len(p) : SubSeq(p, 1, n) \in Widgets(m)
    BY <1>5, <1>6, AllAbove
  <2> QED
    BY <1>1, <2>1
<1>8. \A p \in Widgets(m), k \in Keys : Append(p, k) \in Widgets(m) <=> Among(k, ChildrenOf(m, p))
  <2> TAKE p \in Widgets(m), k \in Keys
  <2>1. p \in Seq(Keys)
    BY <1>5
  <2>2. Append(p, k) \in Widgets(m) <=>
           \/ p = <<>> /\ (k = "docks-row" \/ (m.strips /\ k = "panel-bar"))
           \/ p = Row /\ \E e \in Edges : k = Docks[e]
           \/ p = Base("bottom") /\ k = "viz"
           \/ \E e \in Edges : Inner(m, e) # <<>> /\ p = Base(e) /\ k = Wrappers[e]
           \/ \E e \in Edges : Among(k, Inner(m, e)) /\ p = Content(e)
    BY <2>1, ChildPaths
  <2>3. "bottom" \in Edges
    BY DEF Edges
  <2>4. CASE p = <<>>
    <3>1. p # Row /\ p # Base("bottom") /\ \A e \in Edges : p # Base(e) /\ p # Content(e)
      BY <2>3, <2>4, Places
    <3>2. Among(k, ChildrenOf(m, p)) <=> k = "docks-row" \/ (m.strips /\ k = "panel-bar")
      BY <2>4, AmongFacts
    <3> QED
      BY <2>2, <2>4, <3>1, <3>2, Zenon
  <2>5. CASE p = Row
    <3>1. p # <<>> /\ p # Base("bottom") /\ \A e \in Edges : p # Base(e) /\ p # Content(e)
      BY <2>3, <2>5, Places
    <3>2. Among(k, ChildrenOf(m, p)) <=> \E e \in Edges : k = Docks[e]
      BY <2>5, AmongFacts
    <3> QED
      BY <2>2, <2>5, <3>1, <3>2, Zenon
  <2>6. ASSUME NEW e \in Edges, p = Base(e)
        PROVE  Append(p, k) \in Widgets(m) <=> Among(k, ChildrenOf(m, p))
    <3>1. p # <<>> /\ p # Row /\ \A f \in Edges : p # Content(f)
      BY <2>6, Places
    <3>2. \A f \in Edges : p = Base(f) <=> f = e
      BY <2>6, Places
    <3>3. Among(k, ChildrenOf(m, p)) <=>
            (e = "bottom" /\ k = "viz") \/ (Inner(m, e) # <<>> /\ k = Wrappers[e])
      BY <2>6, AmongFacts
    <3>4. p = Base("bottom") <=> e = "bottom"
      BY <2>3, <3>2
    <3>5. (\E f \in Edges : Inner(m, f) # <<>> /\ p = Base(f) /\ k = Wrappers[f])
            <=> Inner(m, e) # <<>> /\ k = Wrappers[e]
      BY <3>2
    <3> QED
      BY <2>2, <3>1, <3>3, <3>4, <3>5, Zenon
  <2>7. ASSUME NEW e \in Edges, p = Content(e)
        PROVE  Append(p, k) \in Widgets(m) <=> Among(k, ChildrenOf(m, p))
    <3>1. p # <<>> /\ p # Row /\ p # Base("bottom") /\ \A f \in Edges : p # Base(f)
      BY <2>3, <2>7, Places
    <3>2. \A f \in Edges : p = Content(f) <=> f = e
      BY <2>7, Places
    <3>3. Among(k, ChildrenOf(m, p)) <=> Among(k, Inner(m, e))
      BY <2>7, AmongFacts
    <3>4. (\E f \in Edges : Among(k, Inner(m, f)) /\ p = Content(f)) <=> Among(k, Inner(m, e))
      BY <3>2
    <3> QED
      BY <2>2, <3>1, <3>3, <3>4, Zenon
  <2>8. ASSUME p # <<>>, p # Row, \A e \in Edges : p # Base(e) /\ p # Content(e), ~Among(k, ChildrenOf(m, p))
        PROVE  Append(p, k) \in Widgets(m) <=> Among(k, ChildrenOf(m, p))
    BY <2>2, <2>3, <2>8, Zenon
  <2>9. CASE p = <<"panel-bar">>
    <3>1. p # <<>> /\ p # Row /\ \A e \in Edges : p # Base(e) /\ p # Content(e)
      BY <2>9, Places
    <3>2. ~Among(k, ChildrenOf(m, p))
      BY <2>9, AmongFacts
    <3> QED
      BY <2>8, <3>1, <3>2
  <2>10. CASE p = Viz
    <3>1. p # <<>> /\ p # Row /\ \A e \in Edges : p # Base(e) /\ p # Content(e)
      BY <2>10, Places
    <3>2. ~Among(k, ChildrenOf(m, p))
      BY <2>10, AmongFacts
    <3> QED
      BY <2>8, <3>1, <3>2
  <2>11. ASSUME NEW e \in Edges, NEW l \in Keys, p = Leaf(e, l)
         PROVE  Append(p, k) \in Widgets(m) <=> Among(k, ChildrenOf(m, p))
    <3>1. p # <<>> /\ p # Row /\ \A f \in Edges : p # Base(f) /\ p # Content(f)
      BY <2>11, Places
    <3>2. ~Among(k, ChildrenOf(m, p))
      BY <2>11, AmongFacts
    <3> QED
      BY <2>8, <3>1, <3>2
  <2> QED
    BY <2>4, <2>5, <2>6, <2>7, <2>9, <2>10, <2>11, WidgetFacts
<1>9. \A p \in DOMAIN t : p \in Seq(Keys) /\ Len(p) <= 4 /\ t[p] \in Seq(Keys) /\ InOrder(t[p])
  BY <1>1, <1>5, OrderFacts
<1> QED
  BY <1>1, <1>2, <1>7, <1>8, <1>9 DEF Tree

\* The place of a frame, which is the same in every layout.
Home(k) ==
  IF k = "docks-row" THEN Row
  ELSE IF k = "panel-bar" THEN <<"panel-bar">>
  ELSE IF k = "viz" THEN Viz
  ELSE IF \E e \in Edges : k = Docks[e] THEN Base(CHOOSE e \in Edges : k = Docks[e])
  ELSE Content(CHOOSE e \in Edges : k = Wrappers[e])

LEMMA KeyPlace ==
  ASSUME NEW m, LayoutOK(m), NEW p \in Below(DeriveTree(m)), NEW k, k = Last(p)
  PROVE  \/ k \in Frames /\ p = Home(k)
         \/ k \notin Frames /\ \E e \in Edges : Among(k, Inner(m, e)) /\ p = Leaf(e, k)
<1>1. p \in Widgets(m) /\ p # <<>>
  BY LayoutTree DEF Below
<1>2. CASE p = Row \/ p = <<"panel-bar">>
  <2>1. <<>> \in Seq(Keys) /\ "docks-row" \in Keys /\ "panel-bar" \in Keys
        /\ Row = Append(<<>>, "docks-row") /\ <<"panel-bar">> = Append(<<>>, "panel-bar")
    BY PathFacts, KeyFacts
  <2>2. Last(Append(<<>>, "docks-row")) = "docks-row"
    BY <2>1, AppendFacts
  <2>3. Last(Append(<<>>, "panel-bar")) = "panel-bar"
    BY <2>1, AppendFacts, ZenonT(40)
  <2>4. (p = Row /\ k = "docks-row") \/ (p = <<"panel-bar">> /\ k = "panel-bar")
    BY <1>2, <2>1, <2>2, <2>3, Zenon
  <2> QED
    BY <2>4, KeyFacts DEF Home
<1>3. CASE p = Viz
  <2>1. Base("bottom") \in Seq(Keys) /\ "viz" \in Keys
    BY PathFacts, KeyFacts DEF Edges
  <2>2. k = "viz"
    BY <1>3, <2>1, AppendFacts DEF Viz
  <2> QED
    BY <1>3, <2>2, KeyFacts DEF Home
<1>4. ASSUME NEW e \in Edges, p = Base(e) PROVE k \in Frames /\ p = Home(k)
  <2>1. Row \in Seq(Keys) /\ Docks[e] \in Keys /\ Base(e) = Append(Row, Docks[e])
    BY PathFacts, KeyFacts
  <2>2. k = Docks[e]
    BY <1>4, <2>1, AppendFacts
  <2>3. k \in Frames /\ k \notin {"docks-row", "panel-bar", "viz"}
    BY <2>2, KeyFacts
  <2>4. (CHOOSE f \in Edges : k = Docks[f]) = e
    BY <2>2, KeyFacts
  <2>5. Home(k) = Base(CHOOSE f \in Edges : k = Docks[f])
    BY <2>2, <2>3 DEF Home
  <2> QED
    BY <1>4, <2>3, <2>4, <2>5, Zenon
<1>5. ASSUME NEW e \in Edges, p = Content(e) PROVE k \in Frames /\ p = Home(k)
  <2>1. Base(e) \in Seq(Keys) /\ Wrappers[e] \in Keys /\ Content(e) = Append(Base(e), Wrappers[e])
    BY PathFacts, KeyFacts
  <2>2. k = Wrappers[e]
    BY <1>5, <2>1, AppendFacts
  <2>3. k \in Frames /\ k \notin {"docks-row", "panel-bar", "viz"} /\ \A f \in Edges : k # Docks[f]
    BY <2>2, KeyFacts
  <2>4. (CHOOSE f \in Edges : k = Wrappers[f]) = e
    BY <2>2, KeyFacts
  <2> QED
    BY <1>5, <2>3, <2>4 DEF Home
<1>6. ASSUME NEW e \in Edges, NEW l \in Keys, Among(l, Inner(m, e)), p = Leaf(e, l)
      PROVE  k \notin Frames /\ Among(k, Inner(m, e)) /\ p = Leaf(e, k)
  <2>1. Content(e) \in Seq(Keys)
    BY PathFacts
  <2>2. k = l
    BY <1>6, <2>1, AppendFacts DEF Leaf
  <2> QED
    BY <1>6, <2>2, InnerFacts
<1> QED
  BY <1>1, <1>2, <1>3, <1>4, <1>5, <1>6, WidgetFacts

\* A panel is the active one of its own edge only.
LEMMA ActiveOnce ==
  ASSUME NEW m, LayoutOK(m), NEW e \in Edges, NEW f \in Edges, m.active[e] # Nothing,
         m.active[e] = m.active[f]
  PROVE  e = f
<1>1. PICK i \in 1..Len(m.panels[e]) : m.panels[e][i] = m.active[e]
  BY DEF LayoutOK, Among
<1>2. PICK j \in 1..Len(m.panels[f]) : m.panels[f][j] = m.active[f]
  BY DEF LayoutOK, Among
<1>3. EachDocked(m.panels)
  BY DEF LayoutOK
<1> QED
  BY <1>1, <1>2, <1>3 DEF EachDocked

LEMMA LayoutOnce ==
  ASSUME NEW m, LayoutOK(m)
  PROVE  OneEach(DeriveTree(m))
<1> SUFFICES ASSUME NEW p \in Below(DeriveTree(m)), NEW q \in Below(DeriveTree(m)), Last(p) = Last(q)
             PROVE  p = q
  BY DEF OneEach
<1>1. PICK k : k = Last(p) /\ k = Last(q)
  OBVIOUS
<1>2. \/ k \in Frames /\ p = Home(k)
      \/ k \notin Frames /\ \E e \in Edges : Among(k, Inner(m, e)) /\ p = Leaf(e, k)
  BY <1>1, KeyPlace
<1>3. \/ k \in Frames /\ q = Home(k)
      \/ k \notin Frames /\ \E e \in Edges : Among(k, Inner(m, e)) /\ q = Leaf(e, k)
  BY <1>1, KeyPlace
<1>4. CASE k \notin Frames
  <2>1. PICK e \in Edges : Among(k, Inner(m, e)) /\ p = Leaf(e, k)
    BY <1>2, <1>4
  <2>2. PICK f \in Edges : Among(k, Inner(m, f)) /\ q = Leaf(f, k)
    BY <1>3, <1>4
  <2>3. m.active[e] = Owner(k) /\ m.active[f] = Owner(k) /\ m.active[e] # Nothing
    BY <2>1, <2>2, InnerFacts
  <2>4. e = f
    BY <2>3, ActiveOnce
  <2> QED
    BY <2>1, <2>2, <2>4
<1> QED
  BY <1>2, <1>3, <1>4

\* When an active panel becomes that of another edge its old edge has none.
Handed(m, n) ==
  \A e, f \in Edges : m.active[e] # Nothing /\ m.active[e] = n.active[f] => e = f \/ n.active[e] = Nothing

LEMMA LayoutsApart ==
  ASSUME NEW m, LayoutOK(m), NEW n, LayoutOK(n), Handed(m, n)
  PROVE  Apart(DeriveTree(m), DeriveTree(n))
<1> SUFFICES ASSUME NEW p \in Below(DeriveTree(m)), NEW q \in Below(DeriveTree(n)),
                    Front(p) \in DOMAIN DeriveTree(n), Last(p) = Last(q)
             PROVE  p = q
  BY DEF Apart
<1>1. PICK k : k = Last(p) /\ k = Last(q)
  OBVIOUS
<1>2. \/ k \in Frames /\ p = Home(k)
      \/ k \notin Frames /\ \E e \in Edges : Among(k, Inner(m, e)) /\ p = Leaf(e, k)
  BY <1>1, KeyPlace
<1>3. \/ k \in Frames /\ q = Home(k)
      \/ k \notin Frames /\ \E e \in Edges : Among(k, Inner(n, e)) /\ q = Leaf(e, k)
  BY <1>1, KeyPlace
<1>4. CASE k \notin Frames
  <2>1. PICK e \in Edges : Among(k, Inner(m, e)) /\ p = Leaf(e, k)
    BY <1>2, <1>4
  <2>2. PICK f \in Edges : Among(k, Inner(n, f)) /\ q = Leaf(f, k)
    BY <1>3, <1>4
  <2>3. m.active[e] = Owner(k) /\ n.active[f] = Owner(k) /\ m.active[e] # Nothing /\ k \in Keys
    BY <2>1, <2>2, InnerFacts
  <2>4. e = f \/ n.active[e] = Nothing
    BY <2>3 DEF Handed
  <2>5. Front(p) = Content(e)
    <3>1. Content(e) \in Seq(Keys)
      BY PathFacts
    <3> QED
      BY <2>1, <2>3, <3>1, AppendFacts DEF Leaf
  <2>6. Content(e) \in Widgets(n)
    BY <2>5, LayoutTree
  <2>7. Inner(n, e) # <<>>
    BY <2>6, WidgetFacts, Places
  <2>8. n.active[e] # Nothing
    BY <2>7 DEF Inner
  <2> QED
    BY <2>1, <2>2, <2>4, <2>8
<1> QED
  BY <1>2, <1>3, <1>4

------------------------------------------------------------------------------
(* The commands.                                                             *)

LEMMA DropKeeps ==
  ASSUME NEW s \in Seq(Panels), Once(s), NEW p \in Panels, Among(p, s), NEW u, u = Drop(s, p)
  PROVE  u \in Seq(Panels) /\ Once(u) /\ \A x : Among(x, u) <=> Among(x, s) /\ x # p
<1>1. PICK c \in 1..Len(s) : s[c] = p
  BY DEF Among
<1>2. /\ u \in Seq(Panels) /\ Len(u) = Len(s) - 1
      /\ \A j \in 1..(c - 1) : u[j] = s[j]
      /\ \A j \in c..(Len(s) - 1) : u[j] = s[j + 1]
  <2>1. Drop(s, p) \in Seq(Panels) /\ Without(Drop(s, p), s, c)
    BY <1>1, DropFacts
  <2>2. u \in Seq(Panels) /\ Without(u, s, c)
    BY <2>1
  <2> QED
    BY <2>2 DEF Without
<1>3. PICK n : n = Len(s)
  OBVIOUS
<1>4. n \in Nat /\ c \in 1..n
  BY <1>1, <1>3
<1>5. ASSUME NEW j \in 1..(n - 1)
      PROVE  \E i \in 1..n : u[j] = s[i] /\ i # c /\ ((j < c /\ i = j) \/ (j >= c /\ i = j + 1))
  <2>1. CASE j < c
    <3>1. j \in 1..(c - 1) /\ j \in 1..n /\ j # c
      BY <1>4, <2>1
    <3> QED
      BY <1>2, <2>1, <3>1
  <2>2. CASE j >= c
    <3>1. j \in c..(n - 1) /\ j + 1 \in 1..n /\ j + 1 # c
      BY <1>4, <2>2
    <3> QED
      BY <1>2, <1>3, <2>2, <3>1
  <2> QED
    BY <1>4, <2>1, <2>2
<1>6. Once(u)
  <2> SUFFICES ASSUME NEW j \in 1..(n - 1), NEW l \in 1..(n - 1), u[j] = u[l] PROVE j = l
    BY <1>2, <1>3 DEF Once
  <2>1. PICK a \in 1..n : u[j] = s[a] /\ a # c /\ ((j < c /\ a = j) \/ (j >= c /\ a = j + 1))
    BY <1>5
  <2>2. PICK b \in 1..n : u[l] = s[b] /\ b # c /\ ((l < c /\ b = l) \/ (l >= c /\ b = l + 1))
    BY <1>5
  <2>3. a = b
    BY <1>3, <2>1, <2>2 DEF Once
  <2> QED
    BY <1>4, <2>1, <2>2, <2>3
<1>7. ASSUME NEW x, Among(x, u) PROVE Among(x, s) /\ x # p
  <2>1. PICK j \in 1..(n - 1) : u[j] = x
    BY <1>2, <1>3, <1>7 DEF Among
  <2>2. PICK i \in 1..n : u[j] = s[i] /\ i # c
    BY <1>5
  <2>3. s[i] # s[c]
    BY <1>3, <1>4, <2>2 DEF Once
  <2> QED
    BY <1>1, <1>3, <2>1, <2>2, <2>3 DEF Among
<1>8. ASSUME NEW x, Among(x, s), x # p PROVE Among(x, u)
  <2>1. PICK i \in 1..n : s[i] = x
    BY <1>3, <1>8 DEF Among
  <2>2. i # c
    BY <1>1, <1>8, <2>1
  <2>3. CASE i < c
    <3>1. i \in 1..(c - 1) /\ i \in 1..(n - 1)
      BY <1>4, <2>3
    <3> QED
      BY <1>2, <1>3, <2>1, <3>1 DEF Among
  <2>4. CASE i > c
    <3>1. i - 1 \in c..(n - 1) /\ i - 1 \in 1..(n - 1) /\ (i - 1) + 1 = i
      BY <1>4, <2>4
    <3> QED
      BY <1>2, <1>3, <2>1, <3>1 DEF Among
  <2> QED
    BY <1>4, <2>2, <2>3, <2>4
<1> QED
  BY <1>2, <1>6, <1>7, <1>8

LEMMA InsertKeeps ==
  ASSUME NEW s \in Seq(Panels), Once(s), NEW p \in Panels, ~Among(p, s), NEW i \in Nat, NEW u, u = Insert(s, p, i)
  PROVE  u \in Seq(Panels) /\ Once(u) /\ \A x : Among(x, u) <=> Among(x, s) \/ x = p
<1>1. PICK n : n = Len(s)
  OBVIOUS
<1>2. n \in Nat
  BY <1>1
<1>3. \E c \in 1..(n + 1) : /\ u \in Seq(Panels) /\ Len(u) = n + 1 /\ u[c] = p
                            /\ \A j \in 1..(c - 1) : u[j] = s[j]
                            /\ \A j \in (c + 1)..(n + 1) : u[j] = s[j - 1]
  <2>1. CASE i >= n
    <3>1. u = Append(s, p)
      BY <1>1, <2>1 DEF Insert
    <3>2. /\ u \in Seq(Panels) /\ Len(u) = n + 1 /\ u[n + 1] = p
          /\ \A j \in 1..n : u[j] = s[j]
      BY <1>1, <3>1, AppendFacts
    <3>3. n + 1 \in 1..(n + 1) /\ (n + 1) - 1 = n /\ ((n + 1) + 1)..(n + 1) = {}
      BY <1>2
    <3> QED
      BY <3>2, <3>3
  <2>2. CASE ~(i >= n)
    <3>1. u = InsertAt(s, i + 1, p)
      BY <1>1, <2>2 DEF Insert
    <3>2. i + 1 \in 1..(n + 1)
      BY <1>2, <2>2
    <3>3. PICK c : c = i + 1
      OBVIOUS
    <3>4. u \in Seq(Panels) /\ Inserted(u, s, c, p)
      BY ONLY p \in Panels, s \in Seq(Panels), <1>1, <3>1, <3>2, <3>3, InsertFacts
    <3>5. /\ c \in 1..(n + 1) /\ u \in Seq(Panels) /\ Len(u) = n + 1 /\ u[c] = p
          /\ \A j \in 1..(c - 1) : u[j] = s[j]
          /\ \A j \in (c + 1)..(n + 1) : u[j] = s[j - 1]
      BY ONLY <1>1, <3>2, <3>3, <3>4 DEF Inserted
    <3> QED
      BY <3>5
  <2> QED
    BY <2>1, <2>2
<1>4. PICK c \in 1..(n + 1) : /\ u \in Seq(Panels) /\ Len(u) = n + 1 /\ u[c] = p
                              /\ \A j \in 1..(c - 1) : u[j] = s[j]
                              /\ \A j \in (c + 1)..(n + 1) : u[j] = s[j - 1]
  BY <1>3
<1>5. ASSUME NEW j \in 1..(n + 1), j # c
      PROVE  \E l \in 1..n : u[j] = s[l] /\ ((j < c /\ l = j) \/ (j > c /\ l = j - 1))
  <2>1. CASE j < c
    <3>1. j \in 1..(c - 1) /\ j \in 1..n
      BY <1>2, <2>1
    <3> QED
      BY <1>4, <2>1, <3>1
  <2>2. CASE j > c
    <3>1. j \in (c + 1)..(n + 1) /\ j - 1 \in 1..n
      BY <1>2, <2>2
    <3> QED
      BY <1>4, <2>2, <3>1
  <2> QED
    BY <1>2, <1>5, <2>1, <2>2
<1>6. \A j \in 1..(n + 1) : j # c => u[j] # p
  <2> SUFFICES ASSUME NEW j \in 1..(n + 1), j # c, u[j] = p PROVE FALSE
    OBVIOUS
  <2>1. PICK l \in 1..n : u[j] = s[l]
    BY <1>5
  <2> QED
    BY <1>1, <2>1 DEF Among
<1>7. Once(u)
  <2> SUFFICES ASSUME NEW j \in 1..(n + 1), NEW l \in 1..(n + 1), u[j] = u[l] PROVE j = l
    BY <1>4 DEF Once
  <2>1. CASE j = c \/ l = c
    BY <1>4, <1>6, <2>1
  <2>2. CASE j # c /\ l # c
    <3>1. PICK a \in 1..n : u[j] = s[a] /\ ((j < c /\ a = j) \/ (j > c /\ a = j - 1))
      BY <1>5, <2>2
    <3>2. PICK b \in 1..n : u[l] = s[b] /\ ((l < c /\ b = l) \/ (l > c /\ b = l - 1))
      BY <1>5, <2>2
    <3>3. a = b
      BY <1>1, <3>1, <3>2 DEF Once
    <3> QED
      BY <1>2, <3>1, <3>2, <3>3
  <2> QED
    BY <2>1, <2>2
<1>8. ASSUME NEW x, Among(x, u) PROVE Among(x, s) \/ x = p
  <2>1. PICK j \in 1..(n + 1) : u[j] = x
    BY <1>4, <1>8 DEF Among
  <2>2. CASE j = c
    BY <1>4, <2>1, <2>2
  <2>3. CASE j # c
    <3>1. PICK l \in 1..n : u[j] = s[l]
      BY <1>5, <2>3
    <3> QED
      BY <1>1, <2>1, <3>1 DEF Among
  <2> QED
    BY <2>2, <2>3
<1>9. ASSUME NEW x, Among(x, s) PROVE Among(x, u)
  <2>1. PICK l \in 1..n : s[l] = x
    BY <1>1, <1>9 DEF Among
  <2>2. CASE l < c
    <3>1. l \in 1..(c - 1) /\ l \in 1..(n + 1)
      BY <1>2, <2>2
    <3> QED
      BY <1>4, <2>1, <3>1 DEF Among
  <2>3. CASE l >= c
    <3>1. l + 1 \in (c + 1)..(n + 1) /\ l + 1 \in 1..(n + 1) /\ (l + 1) - 1 = l
      BY <1>2, <2>3
    <3> QED
      BY <1>4, <2>1, <3>1 DEF Among
  <2> QED
    BY <1>2, <2>2, <2>3
<1>10. Among(p, u)
  BY <1>4 DEF Among
<1> QED
  BY <1>4, <1>7, <1>8, <1>9, <1>10

LEMMA EachDockedAs ==
  ASSUME NEW P \in [Edges -> Seq(Panels)]
  PROVE  EachDocked(P) <=>
           /\ \A x \in Panels : \E e \in Edges : Among(x, P[e])
           /\ \A d, e \in Edges : \A x : Among(x, P[d]) /\ Among(x, P[e]) => d = e
           /\ \A e \in Edges : Once(P[e])
<1>1. ASSUME NEW e \in Edges, NEW x PROVE x \in ToSet(P[e]) <=> Among(x, P[e])
  <2>1. P[e] \in Seq(Panels)
    OBVIOUS
  <2>2. DOMAIN P[e] = 1..Len(P[e])
    BY <2>1
  <2> QED
    BY <2>2 DEF ToSet, Among
<1>2. (\A x \in Panels : \E e \in Edges : x \in ToSet(P[e])) <=> (\A x \in Panels : \E e \in Edges : Among(x, P[e]))
  BY <1>1
<1>3. (\A d, e \in Edges : \A i \in 1..Len(P[d]), j \in 1..Len(P[e]) : P[d][i] = P[e][j] => d = e /\ i = j)
        <=> /\ \A d, e \in Edges : \A x : Among(x, P[d]) /\ Among(x, P[e]) => d = e
            /\ \A e \in Edges : Once(P[e])
  <2>1. ASSUME \A d, e \in Edges : \A i \in 1..Len(P[d]), j \in 1..Len(P[e]) : P[d][i] = P[e][j] => d = e /\ i = j
        PROVE  /\ \A d, e \in Edges : \A x : Among(x, P[d]) /\ Among(x, P[e]) => d = e
               /\ \A e \in Edges : Once(P[e])
    BY <2>1 DEF Among, Once
  <2>2. ASSUME /\ \A d, e \in Edges : \A x : Among(x, P[d]) /\ Among(x, P[e]) => d = e
               /\ \A e \in Edges : Once(P[e]),
               NEW d \in Edges, NEW e \in Edges, NEW i \in 1..Len(P[d]), NEW j \in 1..Len(P[e]), P[d][i] = P[e][j]
        PROVE  d = e /\ i = j
    <3>1. Among(P[d][i], P[d]) /\ Among(P[d][i], P[e])
      BY <2>2 DEF Among
    <3>2. d = e
      BY <2>2, <3>1
    <3> QED
      BY <2>2, <3>2 DEF Once
  <2> QED
    BY <2>1, <2>2
<1> QED
  BY <1>2, <1>3 DEF EachDocked

LEMMA LayoutParts ==
  ASSUME NEW m, LayoutOK(m)
  PROVE  /\ \A x \in Panels : \E e \in Edges : Among(x, m.panels[e])
         /\ \A d, e \in Edges : \A x : Among(x, m.panels[d]) /\ Among(x, m.panels[e]) => d = e
         /\ \A e \in Edges : m.panels[e] \in Seq(Panels) /\ Once(m.panels[e])
         /\ \A p \in Panels : Docked(m, p) \in Edges /\ Among(p, m.panels[Docked(m, p)])
<1>1. m.panels \in [Edges -> Seq(Panels)] /\ EachDocked(m.panels)
  BY DEF LayoutOK
<1>2. /\ \A x \in Panels : \E e \in Edges : Among(x, m.panels[e])
      /\ \A d, e \in Edges : \A x : Among(x, m.panels[d]) /\ Among(x, m.panels[e]) => d = e
      /\ \A e \in Edges : Once(m.panels[e])
  BY <1>1, EachDockedAs
<1>3. ASSUME NEW p \in Panels PROVE Docked(m, p) \in Edges /\ Among(p, m.panels[Docked(m, p)])
  <2>1. \E e \in Edges : p \in ToSet(m.panels[e])
    BY <1>1 DEF EachDocked
  <2>2. Docked(m, p) \in Edges /\ p \in ToSet(m.panels[Docked(m, p)])
    BY <2>1 DEF Docked
  <2>3. m.panels[Docked(m, p)] \in Seq(Panels)
    BY <1>1, <2>2
  <2>4. DOMAIN m.panels[Docked(m, p)] = 1..Len(m.panels[Docked(m, p)])
    BY <2>3
  <2> QED
    BY <2>2, <2>4 DEF ToSet, Among
<1> QED
  BY <1>1, <1>2, <1>3

\* Another active panel, of those docked there, or none.
LEMMA ActivatedOK ==
  ASSUME NEW m, LayoutOK(m), NEW e \in Edges, NEW x, x = Nothing \/ (x \in Panels /\ Among(x, m.panels[e])),
         NEW n, n = [m EXCEPT !.active[e] = x]
  PROVE  LayoutOK(n) /\ Handed(m, n)
<1>1. /\ n = [panels |-> m.panels, active |-> [m.active EXCEPT ![e] = x],
              strips |-> m.strips, image |-> m.image, kind |-> m.kind]
  BY DEF LayoutOK
<1>2. PICK a : a = [m.active EXCEPT ![e] = x]
  OBVIOUS
<1>3. n.panels = m.panels /\ n.active = a /\ n.strips = m.strips /\ n.image = m.image /\ n.kind = m.kind
  BY <1>1, <1>2
<1>4. m.active \in [Edges -> Panels \cup {Nothing}]
  BY DEF LayoutOK
<1>5. a \in [Edges -> Panels \cup {Nothing}] /\ a[e] = x /\ \A f \in Edges : f # e => a[f] = m.active[f]
  BY <1>2, <1>4
<1>6. \A f \in Edges : a[f] = Nothing \/ Among(a[f], m.panels[f])
  <2> TAKE f \in Edges
  <2>1. m.active[f] = Nothing \/ Among(m.active[f], m.panels[f])
    BY DEF LayoutOK
  <2> QED
    BY <1>5, <2>1
<1>7. LayoutOK(n)
  <2>1. n = [panels |-> n.panels, active |-> n.active, strips |-> n.strips, image |-> n.image, kind |-> n.kind]
    BY <1>1
  <2>2. /\ m.panels \in [Edges -> Seq(Panels)] /\ EachDocked(m.panels)
        /\ m.strips \in BOOLEAN /\ m.image \in BOOLEAN /\ m.kind \in Kinds \cup {Nothing}
    BY DEF LayoutOK
  <2> QED
    BY <1>3, <1>5, <1>6, <2>1, <2>2 DEF LayoutOK
<1>8. Handed(m, n)
  <2> SUFFICES ASSUME NEW f \in Edges, NEW g \in Edges, m.active[f] # Nothing, m.active[f] = a[g]
               PROVE  f = g \/ a[f] = Nothing
    BY <1>3 DEF Handed
  <2>1. CASE g = e
    <3>1. Among(m.active[f], m.panels[f])
      BY DEF LayoutOK
    <3>2. Among(m.active[f], m.panels[e])
      BY <1>5, <2>1
    <3> QED
      BY <2>1, <3>1, <3>2, LayoutParts
  <2>2. CASE g # e
    <3>1. m.active[f] = m.active[g]
      BY <1>5, <2>2
    <3> QED
      BY <3>1, ActiveOnce
  <2> QED
    BY <2>1, <2>2
<1> QED
  BY <1>7, <1>8

LEMMA OtherOK ==
  ASSUME NEW m, LayoutOK(m), NEW n,
         \/ n = [m EXCEPT !.strips = ~@]
         \/ n = [m EXCEPT !.image = ~@]
         \/ \E k \in Kinds \cup {Nothing} : n = [m EXCEPT !.kind = k]
  PROVE  LayoutOK(n) /\ Handed(m, n)
<1>1. m = [panels |-> m.panels, active |-> m.active, strips |-> m.strips, image |-> m.image, kind |-> m.kind]
  BY DEF LayoutOK
<1>2. /\ n = [panels |-> n.panels, active |-> n.active, strips |-> n.strips, image |-> n.image, kind |-> n.kind]
      /\ n.panels = m.panels /\ n.active = m.active
      /\ n.strips \in BOOLEAN /\ n.image \in BOOLEAN /\ n.kind \in Kinds \cup {Nothing}
  <2>1. m.strips \in BOOLEAN /\ m.image \in BOOLEAN /\ m.kind \in Kinds \cup {Nothing}
    BY DEF LayoutOK
  <2>2. CASE n = [m EXCEPT !.strips = ~@]
    BY <1>1, <2>1, <2>2
  <2>3. CASE n = [m EXCEPT !.image = ~@]
    BY <1>1, <2>1, <2>3
  <2>4. CASE \E k \in Kinds \cup {Nothing} : n = [m EXCEPT !.kind = k]
    <3>1. PICK k \in Kinds \cup {Nothing} : n = [m EXCEPT !.kind = k]
      BY <2>4
    <3> QED
      BY <1>1, <2>1, <3>1
  <2> QED
    BY <2>2, <2>3, <2>4
<1>3. LayoutOK(n)
  <2>1. /\ m.panels \in [Edges -> Seq(Panels)] /\ EachDocked(m.panels)
        /\ m.active \in [Edges -> Panels \cup {Nothing}]
        /\ \A e \in Edges : m.active[e] = Nothing \/ Among(m.active[e], m.panels[e])
    BY DEF LayoutOK
  <2> QED
    BY <1>2, <2>1 DEF LayoutOK
<1>4. Handed(m, n)
  <2> SUFFICES ASSUME NEW f \in Edges, NEW g \in Edges, m.active[f] # Nothing, m.active[f] = m.active[g]
               PROVE  f = g
    BY <1>2 DEF Handed
  <2> QED
    BY ActiveOnce
<1> QED
  BY <1>3, <1>4

\* A panel that moves is the active one where it goes, and no longer where it was.
LEMMA MovedOK ==
  ASSUME NEW m, LayoutOK(m), NEW p \in Panels, NEW e \in Edges, NEW i \in Nat,
         NEW n, n = Activated(Moved(m, p, e, i), e, p)
  PROVE  LayoutOK(n) /\ Handed(m, n)
<1>1. PICK d : d = Docked(m, p)
  OBVIOUS
<1>2. /\ \A x \in Panels : \E f \in Edges : Among(x, m.panels[f])
      /\ \A f, g \in Edges : \A x : Among(x, m.panels[f]) /\ Among(x, m.panels[g]) => f = g
      /\ \A f \in Edges : m.panels[f] \in Seq(Panels) /\ Once(m.panels[f])
      /\ d \in Edges /\ Among(p, m.panels[d])
  BY <1>1, LayoutParts
<1>3. PICK L : L = [m.panels EXCEPT ![d] = Drop(m.panels[d], p)]
  OBVIOUS
<1>4. PICK N : N = [L EXCEPT ![e] = Insert(L[e], p, i)]
  OBVIOUS
<1>5. PICK b : b = [m.active EXCEPT ![d] = IF m.active[d] = p /\ d # e THEN Nothing ELSE m.active[d]]
  OBVIOUS
<1>6. PICK a : a = [b EXCEPT ![e] = p]
  OBVIOUS
<1>7. n = [panels |-> N, active |-> a, strips |-> m.strips, image |-> m.image, kind |-> m.kind]
  <2>1. m = [panels |-> m.panels, active |-> m.active, strips |-> m.strips, image |-> m.image, kind |-> m.kind]
    BY DEF LayoutOK
  <2>2. PICK l : l = [m EXCEPT !.panels[d] = Drop(@, p), !.active[d] = IF @ = p /\ d # e THEN Nothing ELSE @]
    OBVIOUS
  <2>3. l = [panels |-> L, active |-> b, strips |-> m.strips, image |-> m.image, kind |-> m.kind]
    BY <1>3, <1>5, <2>1, <2>2
  <2>4. PICK z : z = [l EXCEPT !.panels[e] = Insert(@, p, i)]
    OBVIOUS
  <2>5. z = [panels |-> N, active |-> b, strips |-> m.strips, image |-> m.image, kind |-> m.kind]
    BY <1>4, <2>3, <2>4
  <2>6. z = Moved(m, p, e, i)
    BY <1>1, <2>2, <2>4 DEF Moved
  <2>7. n = [z EXCEPT !.active[e] = p]
    BY <2>6 DEF Activated
  <2> QED
    BY <1>6, <2>5, <2>7
<1>8. m.panels \in [Edges -> Seq(Panels)] /\ m.active \in [Edges -> Panels \cup {Nothing}]
  BY DEF LayoutOK
<1>9. /\ Drop(m.panels[d], p) \in Seq(Panels) /\ Once(Drop(m.panels[d], p))
      /\ \A x : Among(x, Drop(m.panels[d], p)) <=> Among(x, m.panels[d]) /\ x # p
  BY <1>2, DropKeeps
<1>10. /\ L \in [Edges -> Seq(Panels)] /\ L[d] = Drop(m.panels[d], p)
       /\ \A f \in Edges : f # d => L[f] = m.panels[f]
  BY <1>2, <1>3, <1>8, <1>9
<1>11. \A f \in Edges : Once(L[f]) /\ \A x : Among(x, L[f]) <=> Among(x, m.panels[f]) /\ x # p
  <2> TAKE f \in Edges
  <2>1. CASE f = d
    BY <1>9, <1>10, <2>1
  <2>2. CASE f # d
    <3>1. ~Among(p, m.panels[f])
      BY <1>2, <2>2
    <3>2. L[f] = m.panels[f] /\ Once(m.panels[f])
      BY <1>2, <1>10, <2>2
    <3> QED
      BY <3>1, <3>2
  <2> QED
    BY <2>1, <2>2
<1>12. L[e] \in Seq(Panels) /\ Once(L[e]) /\ ~Among(p, L[e])
  BY <1>10, <1>11
<1>13. /\ Insert(L[e], p, i) \in Seq(Panels) /\ Once(Insert(L[e], p, i))
       /\ \A x : Among(x, Insert(L[e], p, i)) <=> Among(x, L[e]) \/ x = p
  BY <1>12, InsertKeeps
<1>14. /\ N \in [Edges -> Seq(Panels)] /\ N[e] = Insert(L[e], p, i)
       /\ \A f \in Edges : f # e => N[f] = L[f]
  BY <1>4, <1>10, <1>13
<1>15. \A f \in Edges : Once(N[f]) /\ \A x : Among(x, N[f]) <=> (Among(x, m.panels[f]) /\ x # p) \/ (f = e /\ x = p)
  <2> TAKE f \in Edges
  <2>1. CASE f = e
    BY <1>11, <1>13, <1>14, <2>1
  <2>2. CASE f # e
    BY <1>11, <1>14, <2>2
  <2> QED
    BY <2>1, <2>2
<1>16. EachDocked(N)
  <2>1. \A x \in Panels : \E f \in Edges : Among(x, N[f])
    BY <1>2, <1>15
  <2>2. \A f, g \in Edges : \A x : Among(x, N[f]) /\ Among(x, N[g]) => f = g
    BY <1>2, <1>15
  <2>3. \A f \in Edges : Once(N[f])
    BY <1>15
  <2> QED
    BY <1>14, <2>1, <2>2, <2>3, EachDockedAs
<1>17. \A f \in Edges : f # d => m.active[f] # p
  <2> TAKE f \in Edges
  <2>1. m.active[f] = Nothing \/ Among(m.active[f], m.panels[f])
    BY DEF LayoutOK
  <2>2. p # Nothing
    BY InterfaceAssumption
  <2> QED
    BY <1>2, <2>1, <2>2
<1>18. /\ a \in [Edges -> Panels \cup {Nothing}] /\ a[e] = p
       /\ \A f \in Edges : f # e => a[f] = m.active[f] \/ (f = d /\ a[f] = Nothing)
       /\ d # e => a[d] # p
  <2>1. b \in [Edges -> Panels \cup {Nothing}]
    BY <1>2, <1>5, <1>8
  <2>2. p # Nothing
    BY InterfaceAssumption
  <2> QED
    BY <1>2, <1>5, <1>6, <1>8, <2>1, <2>2
<1>19. \A f \in Edges : a[f] = Nothing \/ Among(a[f], N[f])
  <2> TAKE f \in Edges
  <2>1. CASE f = e
    BY <1>15, <1>18, <2>1
  <2>2. CASE f # e /\ a[f] # Nothing
    <3>1. a[f] = m.active[f] /\ a[f] # p
      BY <1>17, <1>18, <2>2
    <3>2. Among(m.active[f], m.panels[f])
      BY <2>2, <3>1 DEF LayoutOK
    <3> QED
      BY <1>15, <3>1, <3>2
  <2> QED
    BY <2>1, <2>2
<1>20. LayoutOK(n)
  <2>1. m.strips \in BOOLEAN /\ m.image \in BOOLEAN /\ m.kind \in Kinds \cup {Nothing}
    BY DEF LayoutOK
  <2>2. n.panels = N /\ n.active = a /\ n.strips = m.strips /\ n.image = m.image /\ n.kind = m.kind
    BY <1>7
  <2>3. n = [panels |-> n.panels, active |-> n.active, strips |-> n.strips, image |-> n.image, kind |-> n.kind]
    BY <1>7
  <2> QED
    BY <1>14, <1>16, <1>18, <1>19, <2>1, <2>2, <2>3 DEF LayoutOK
<1>21. Handed(m, n)
  <2> SUFFICES ASSUME NEW f \in Edges, NEW g \in Edges, m.active[f] # Nothing, m.active[f] = a[g]
               PROVE  f = g \/ a[f] = Nothing
    BY <1>7 DEF Handed
  <2>1. CASE g = e
    <3>1. m.active[f] = p
      BY <1>18, <2>1
    <3>2. f = d
      BY <1>17, <3>1
    <3>3. f # e => a[f] = Nothing
      BY <1>18, <3>1, <3>2
    <3> QED
      BY <2>1, <3>3
  <2>2. CASE g # e
    <3>1. a[g] = m.active[g]
      BY <1>18, <2>2
    <3> QED
      BY <3>1, ActiveOnce
  <2> QED
    BY <2>1, <2>2
<1> QED
  BY <1>20, <1>21

------------------------------------------------------------------------------
(* The invariant.                                                            *)

LEMMA KeyMapKnows ==
  ASSUME NEW s, Tree(s), OneEach(s), NEW p \in Below(s)
  PROVE  KeyMap(s)[Last(p)] = p
<1>1. PICK k : k = Last(p)
  OBVIOUS
<1>2. k \in Keys
  BY <1>1, Parts
<1>3. p \in DOMAIN s /\ p # <<>> /\ Last(p) = k
  BY <1>1 DEF Below
<1>4. PICK q : q = CHOOSE x \in DOMAIN s : x # <<>> /\ Last(x) = k
  OBVIOUS
<1>5. q \in DOMAIN s /\ q # <<>> /\ Last(q) = k
  BY <1>3, <1>4
<1>6. KeyMap(s)[k] = q
  BY <1>2, <1>3, <1>4 DEF KeyMap
<1>7. q = p
  BY <1>3, <1>5 DEF OneEach, Below
<1> QED
  BY <1>1, <1>6, <1>7

\* The map of a screen that was just drawn finds only its widgets.
LEMMA KeyMapFound ==
  ASSUME NEW s, Tree(s), NEW b, b = KeyMap(s)
  PROVE  /\ b \in [Keys -> Seq(Keys) \cup {Nothing}]
         /\ \A k \in Keys : b[k] # Nothing => b[k] \in Below(s) /\ Last(b[k]) = k
<1>1. ASSUME NEW k \in Keys
      PROVE  b[k] = Nothing \/ (b[k] \in Below(s) /\ Last(b[k]) = k)
  <2>1. b[k] = IF \E p \in DOMAIN s : p # <<>> /\ Last(p) = k
               THEN CHOOSE p \in DOMAIN s : p # <<>> /\ Last(p) = k
               ELSE Nothing
    BY DEF KeyMap
  <2>2. CASE \E p \in DOMAIN s : p # <<>> /\ Last(p) = k
    <3>1. b[k] \in DOMAIN s /\ b[k] # <<>> /\ Last(b[k]) = k
      BY <2>1, <2>2
    <3> QED
      BY <3>1 DEF Below
  <2> QED
    BY <2>1, <2>2
<1>2. \A k \in Keys : b[k] \in Seq(Keys) \cup {Nothing}
  BY <1>1, Parts
<1>3. b = [k \in Keys |-> b[k]]
  BY DEF KeyMap
<1> QED
  BY <1>1, <1>2, <1>3

\* A pass begins with a screen that was drawn to its end.
LEMMA PassBegins ==
  ASSUME Tree(screen), OneEach(screen), Found, byKey = KeyMap(screen),
         NEW t, Tree(t), OneEach(t), Apart(screen, t),
         spec' = t, stack' = <<Call(<<>>)>>, UNCHANGED <<screen, byKey>>
  PROVE  PassOK'
<1>1. PICK z : z = stack'
  OBVIOUS
<1>2. screen' = screen /\ byKey' = byKey
  OBVIOUS
<1>3. z = <<[at |-> <<>>, phase |-> "remove", next |-> 1]>>
  BY <1>1 DEF Call
<1>4. /\ Len(z) = 1 /\ z \in Seq(Calls) /\ z # <<>> /\ z[1].at = <<>>
      /\ z[1].phase = "remove" /\ z[1].next = 1
  BY <1>3 DEF Calls
<1>5. <<>> \in DOMAIN t /\ <<>> \in DOMAIN screen /\ t[<<>>] \in Seq(Keys)
  BY DEF Tree
<1>6. CallsOK'
  <2>1. Len(<<>>) = 0 /\ 1 \in 1..(Len(t[<<>>]) + 1)
    BY <1>5
  <2>2. \A i \in 1..Len(z) :
          /\ z[i].at \in DOMAIN t /\ z[i].at \in DOMAIN screen
          /\ Len(z[i].at) = i - 1
          /\ z[i].next \in 1..(Len(t[z[i].at]) + 1)
          /\ z[i].phase = "remove" => i = Len(z) /\ z[i].next = 1
    BY <1>4, <1>5, <2>1
  <2>3. 1..(Len(z) - 1) = {}
    BY <1>4
  <2> QED
    BY <1>1, <1>2, <1>4, <2>2, <2>3 DEF CallsOK
<1>7. Walked'
  <2>1. \A i \in 1..Len(z) : z[i].phase # "walk"
    BY <1>4
  <2> QED
    BY <1>1, <2>1 DEF Walked
<1>8. Done'
  <2>1. \A i \in 1..Len(z) : 1..(z[i].next - 1) = {}
    BY <1>4
  <2> QED
    BY <1>1, <2>1 DEF Done
<1>9. Known'
  <2>1. \A p \in Below(screen) : byKey[Last(p)] = p
    BY KeyMapKnows
  <2> QED
    BY <1>2, <2>1 DEF Known
<1>10. Found'
  BY <1>2 DEF Found
<1> QED
  BY <1>2, <1>6, <1>7, <1>8, <1>9, <1>10 DEF PassOK

LEMMA PassSame ==
  ASSUME PassOK, UNCHANGED pass
  PROVE  PassOK'
<1>1. spec' = spec /\ stack' = stack /\ screen' = screen /\ byKey' = byKey
  BY DEF pass
<1>2. CallsOK' /\ Walked' /\ Done'
  BY <1>1 DEF PassOK, CallsOK, Walked, Done
<1>3. Known' /\ Found'
  BY <1>1 DEF PassOK, Known, Found
<1> QED
  BY <1>1, <1>2, <1>3 DEF PassOK

LEMMA ATree ==
  ASSUME NEW m, LayoutOK(m)
  PROVE  Tree(DeriveTree(m)) /\ OneEach(DeriveTree(m)) /\ DeriveTree(m) # NoTree
<1>1. Tree(DeriveTree(m)) /\ OneEach(DeriveTree(m))
  BY LayoutTree, LayoutOnce
<1>2. <<>> \in DOMAIN DeriveTree(m)
  BY <1>1 DEF Tree
<1>3. DOMAIN NoTree = {}
  BY DEF NoTree
<1> QED
  BY <1>1, <1>2, <1>3

\* While a pass is in flight all of PassOK; the tree that waits is the model's, and may follow the
\* one that is drawn; else the one that is drawn, or was, is the model's.
IInv ==
  /\ LayoutOK(model) /\ ScreenOK /\ Found
  /\ spec # NoTree => PassOK
  /\ target # NoTree => target = DeriveTree(model) /\ Apart(IF spec # NoTree THEN spec ELSE screen, target)
  /\ target = NoTree /\ spec # NoTree => spec = DeriveTree(model)
  /\ spec = NoTree => byKey = KeyMap(screen) /\ OneEach(screen)
  /\ spec = NoTree /\ target = NoTree => screen = DeriveTree(model)

LEMMA InitIInv ==
  ASSUME Init
  PROVE  IInv
<1>1. LayoutOK(model)
  <2>1. /\ model = [panels |-> model.panels, active |-> model.active, strips |-> model.strips,
                    image |-> model.image, kind |-> model.kind]
        /\ model.panels = Layout /\ model.active \in [Edges -> Panels \cup {Nothing}]
        /\ model.strips = TRUE /\ model.image = FALSE /\ model.kind = Nothing
    BY DEF Init
  <2>2. Layout \in [Edges -> Seq(Panels)] /\ EachDocked(Layout)
    BY InterfaceAssumption
  <2>3. \A e \in Edges : model.active[e] = Nothing \/ Among(model.active[e], model.panels[e])
    <3> TAKE e \in Edges
    <3>1. model.active[e] \in ToSet(model.panels[e]) \cup {Nothing}
      BY DEF Init
    <3>2. model.panels[e] \in Seq(Panels)
      BY <2>1, <2>2
    <3>3. DOMAIN model.panels[e] = 1..Len(model.panels[e])
      BY <3>2
    <3> QED
      BY <3>1, <3>3 DEF ToSet, Among
  <2> QED
    BY <2>1, <2>2, <2>3 DEF LayoutOK
<1>2. /\ spec = NoTree /\ target = NoTree /\ screen = DeriveTree(model)
      /\ byKey = KeyMap(screen)
  BY DEF Init
<1>3. Tree(screen) /\ OneEach(screen)
  BY <1>1, <1>2, ATree
<1>4. ~crashed
  <2>1. crashed = FALSE
    BY DEF Init
  <2> QED
    BY <2>1, Zenon
<1>5. Found
  BY <1>2, <1>3, KeyMapFound DEF Found
<1> QED
  BY <1>1, <1>2, <1>3, <1>4, <1>5 DEF IInv, ScreenOK

LEMMA CommitKeeps ==
  ASSUME IInv, OnePerFrame, NEW n, LayoutOK(n), Handed(model, n), Commit(n)
  PROVE  IInv'
<1>1. /\ target = NoTree /\ model' = n /\ target' = DeriveTree(n)
      /\ UNCHANGED pass
  BY DEF Commit, Schedule
<1>2. spec' = spec /\ stack' = stack /\ screen' = screen /\ byKey' = byKey /\ crashed' = crashed
  BY <1>1 DEF pass
<1>3. Apart(IF spec # NoTree THEN spec ELSE screen, DeriveTree(n))
  <2>1. LayoutOK(model)
    BY DEF IInv
  <2>2. (IF spec # NoTree THEN spec ELSE screen) = DeriveTree(model)
    BY <1>1 DEF IInv
  <2>3. Apart(DeriveTree(model), DeriveTree(n))
    BY <2>1, LayoutsApart
  <2> QED
    BY <2>2, <2>3
<1>4. DeriveTree(n) # NoTree
  BY ATree
<1>5. spec # NoTree => PassOK'
  BY <1>1, PassSame DEF IInv
<1>6. ScreenOK' /\ Found'
  BY <1>2 DEF IInv, ScreenOK, Found
<1>7. spec = NoTree => byKey = KeyMap(screen) /\ OneEach(screen)
  BY DEF IInv
<1> QED
  BY <1>1, <1>2, <1>3, <1>4, <1>5, <1>6, <1>7 DEF IInv

\* The steps of a pass leave what is drawn, and what waits, as they are.
LEMMA InPass ==
  ASSUME IInv, spec # NoTree, PassOK', ScreenOK', UNCHANGED <<model, target, spec>>
  PROVE  IInv'
<1>1. model' = model /\ target' = target /\ spec' = spec
  OBVIOUS
<1>2. Found'
  BY DEF PassOK
<1>3. LayoutOK(model)'
  BY <1>1 DEF IInv
<1>4. /\ target # NoTree => target = DeriveTree(model) /\ Apart(spec, target)
      /\ target = NoTree => spec = DeriveTree(model)
  BY DEF IInv
<1> QED
  BY <1>1, <1>2, <1>3, <1>4 DEF IInv

LEMMA RunKeeps ==
  ASSUME IInv, Run
  PROVE  IInv'
<1>1. UNCHANGED <<model, screen, byKey, crashed>>
  BY DEF Run
<1>2. model' = model /\ screen' = screen /\ byKey' = byKey /\ crashed' = crashed
  BY <1>1
<1>3. ScreenOK' /\ Found'
  BY <1>2 DEF IInv, ScreenOK, Found
<1>4. CASE UNCHANGED <<target, scheduled, spec, stack>>
  <2>1. target' = target /\ spec' = spec /\ UNCHANGED pass
    BY <1>2, <1>4 DEF pass
  <2>2. spec # NoTree => PassOK'
    BY <2>1, PassSame DEF IInv
  <2> QED
    BY <1>2, <1>3, <2>1, <2>2 DEF IInv
<1>5. CASE ~Running /\ target # NoTree /\ TakeTarget
  <2>1. /\ spec = NoTree /\ target # NoTree /\ spec' = target /\ stack' = <<Call(<<>>)>> /\ target' = NoTree
    BY <1>5 DEF Running, TakeTarget
  <2>2. /\ target = DeriveTree(model) /\ Apart(screen, target) /\ Found /\ LayoutOK(model)
        /\ Tree(screen) /\ OneEach(screen) /\ byKey = KeyMap(screen)
    BY <2>1 DEF IInv, ScreenOK
  <2>3. Tree(target) /\ OneEach(target)
    BY <2>2, ATree
  <2>4. PassOK'
    BY <1>2, <2>1, <2>2, <2>3, PassBegins
  <2> QED
    BY <1>2, <1>3, <2>1, <2>2, <2>4 DEF IInv
<1> QED
  BY <1>4, <1>5 DEF Run

LEMMA EndKeeps ==
  ASSUME IInv, EndPass
  PROVE  IInv'
<1>1. /\ spec # NoTree /\ Top.phase = "walk" /\ Top.next > Len(spec[Top.at]) /\ Len(stack) = 1
      /\ UNCHANGED <<model, screen, byKey, crashed>>
  BY DEF EndPass, InCall, Running
<1>2. model' = model /\ screen' = screen /\ byKey' = byKey /\ crashed' = crashed
  BY <1>1
<1>3. PassOK /\ ScreenOK /\ LayoutOK(model) /\ Found
  BY <1>1 DEF IInv
<1>4. screen = spec /\ byKey = KeyMap(spec)
  BY <1>1, <1>3, PassEnds
<1>5. Tree(screen) /\ OneEach(screen) /\ byKey = KeyMap(screen)
  BY <1>3, <1>4 DEF PassOK
<1>6. ScreenOK' /\ Found'
  BY <1>2, <1>3 DEF ScreenOK, Found
<1>7. CASE target # NoTree /\ TakeTarget
  <2>1. spec' = target /\ stack' = <<Call(<<>>)>> /\ target' = NoTree
    BY <1>7 DEF TakeTarget
  <2>2. target = DeriveTree(model) /\ Apart(screen, target)
    BY <1>1, <1>4, <1>7 DEF IInv
  <2>3. Tree(target) /\ OneEach(target)
    BY <1>3, <2>2, ATree
  <2>4. PassOK'
    BY <1>2, <1>3, <1>5, <2>1, <2>2, <2>3, PassBegins
  <2> QED
    BY <1>2, <1>3, <1>6, <1>7, <2>1, <2>2, <2>4 DEF IInv
<1>8. CASE target = NoTree /\ spec' = NoTree /\ UNCHANGED <<target, scheduled>>
  <2>1. spec = DeriveTree(model)
    BY <1>1, <1>8 DEF IInv
  <2> QED
    BY <1>2, <1>3, <1>4, <1>5, <1>6, <1>8, <2>1 DEF IInv
<1> QED
  BY <1>7, <1>8 DEF EndPass

LEMMA UserKeeps ==
  ASSUME IInv, OnePerFrame, User
  PROVE  IInv'
<1>1. LayoutOK(model)
  BY DEF IInv
<1>2. ASSUME NEW e \in Edges, NEW x, x = Nothing \/ (x \in Panels /\ Among(x, model.panels[e])),
             NEW n, n = [model EXCEPT !.active[e] = x], Commit(n)
      PROVE  IInv'
  <2>1. LayoutOK(n) /\ Handed(model, n)
    BY <1>1, <1>2, ActivatedOK
  <2> QED
    BY <1>2, <2>1, CommitKeeps
<1>3. \A p \in Panels : Docked(model, p) \in Edges /\ Among(p, model.panels[Docked(model, p)])
  BY <1>1, LayoutParts
<1>4. ASSUME NEW p \in Panels, TogglePanel(p) PROVE IInv'
  <2>1. PICK e : e = Docked(model, p)
    OBVIOUS
  <2>2. e \in Edges /\ Among(p, model.panels[e])
    BY <1>3, <2>1
  <2>3. PICK x : x = IF model.active[e] = p THEN Nothing ELSE p
    OBVIOUS
  <2>4. PICK n : n = Toggled(model, p)
    OBVIOUS
  <2>5. n = [model EXCEPT !.active[e] = x] /\ Commit(n)
    <3>1. model.active \in [Edges -> Panels \cup {Nothing}]
      BY <1>1 DEF LayoutOK
    <3>2. model = [panels |-> model.panels, active |-> model.active, strips |-> model.strips,
                   image |-> model.image, kind |-> model.kind]
      BY <1>1 DEF LayoutOK
    <3>3. n = [model EXCEPT !.active[e] = IF @ = p THEN Nothing ELSE p]
      BY <2>1, <2>4 DEF Toggled
    <3> QED
      BY <1>4, <2>2, <2>3, <2>4, <3>1, <3>2, <3>3 DEF TogglePanel
  <2> QED
    BY <1>2, <2>2, <2>3, <2>5
<1>5. ASSUME NEW p \in Panels, ShowPanel(p) PROVE IInv'
  <2>1. PICK e, n : e = Docked(model, p) /\ n = Activated(model, e, p)
    OBVIOUS
  <2>2. e \in Edges /\ Among(p, model.panels[e]) /\ n = [model EXCEPT !.active[e] = p] /\ Commit(n)
    BY <1>3, <1>5, <2>1 DEF ShowPanel, Activated
  <2> QED
    BY <1>2, <2>2
<1>6. ASSUME NEW p \in Panels, HidePanel(p) PROVE IInv'
  <2>1. PICK e, n : e = Docked(model, p) /\ n = Activated(model, e, Nothing)
    OBVIOUS
  <2>2. e \in Edges /\ n = [model EXCEPT !.active[e] = Nothing] /\ Commit(n)
    BY <1>3, <1>6, <2>1 DEF HidePanel, Activated
  <2> QED
    BY <1>2, <2>2
<1>7. ASSUME NEW p \in Panels, NEW e \in Edges, NEW i \in 0..(Cardinality(Panels) - 1), MovePanel(p, e, i)
      PROVE  IInv'
  <2>1. i \in Nat
    <3>1. Cardinality(Panels) \in Nat
      BY InterfaceAssumption, FS_CardinalityType
    <3> QED
      BY <3>1
  <2>2. PICK n : n = Activated(Moved(model, p, e, i), e, p)
    OBVIOUS
  <2>3. LayoutOK(n) /\ Handed(model, n)
    BY <1>1, <2>1, <2>2, MovedOK
  <2>4. Commit(n)
    BY <1>7, <2>2 DEF MovePanel
  <2> QED
    BY <2>3, <2>4, CommitKeeps
<1>8. ASSUME NEW n, Commit(n),
             \/ n = [model EXCEPT !.strips = ~@]
             \/ n = [model EXCEPT !.image = ~@]
             \/ \E k \in Kinds \cup {Nothing} : n = [model EXCEPT !.kind = k]
      PROVE  IInv'
  <2>1. LayoutOK(n) /\ Handed(model, n)
    BY <1>1, <1>8, OtherOK
  <2> QED
    BY <1>8, <2>1, CommitKeeps
<1>9. CASE ToggleStrips
  <2>1. PICK n : n = [model EXCEPT !.strips = ~@]
    OBVIOUS
  <2> QED
    BY <1>8, <1>9, <2>1 DEF ToggleStrips
<1>10. CASE ToggleImage
  <2>1. PICK n : n = [model EXCEPT !.image = ~@]
    OBVIOUS
  <2> QED
    BY <1>8, <1>10, <2>1 DEF ToggleImage
<1>11. ASSUME NEW k \in Kinds \cup {Nothing}, SeedFromEngine(k) PROVE IInv'
  <2>1. PICK n : n = [model EXCEPT !.kind = k]
    OBVIOUS
  <2> QED
    BY <1>8, <1>11, <2>1 DEF SeedFromEngine
<1> QED
  BY <1>4, <1>5, <1>6, <1>7, <1>9, <1>10, <1>11 DEF User

LEMMA NextIInv ==
  ASSUME IInv, OnePerFrame, [Next]_vars
  PROVE  IInv'
<1>1. CASE User
  BY <1>1, UserKeeps
<1>2. CASE Run
  BY <1>2, RunKeeps
<1>3. CASE EndPass
  BY <1>3, EndKeeps
<1>4. spec # NoTree => PassOK /\ ScreenOK
  BY DEF IInv
<1>5. ASSUME NEW k \in Keys, RemoveChild(k) PROVE IInv'
  <2>1. spec # NoTree /\ UNCHANGED <<model, target, spec>>
    BY <1>5 DEF RemoveChild, InCall, Running, reconciler
  <2> QED
    BY <1>4, <1>5, <2>1, RemoveKeeps, InPass
<1>6. CASE BeginWalk
  <2>1. spec # NoTree /\ UNCHANGED <<model, target, spec>>
    BY <1>6 DEF BeginWalk, InCall, Running, reconciler
  <2> QED
    BY <1>4, <1>6, <2>1, WalkKeeps, InPass
<1>7. CASE KeepChild
  <2>1. spec # NoTree /\ UNCHANGED <<model, target, spec>>
    BY <1>7 DEF KeepChild, MoreWanted, InCall, Running, reconciler
  <2> QED
    BY <1>4, <1>7, <2>1, KeepKeeps, InPass
<1>8. CASE MountChild
  <2>1. spec # NoTree /\ UNCHANGED <<model, target, spec>>
    BY <1>8 DEF MountChild, MoreWanted, InCall, Running, reconciler
  <2> QED
    BY <1>4, <1>8, <2>1, MountKeeps, InPass
<1>9. CASE Return
  <2>1. spec # NoTree /\ UNCHANGED <<model, target, spec>>
    BY <1>9 DEF Return, InCall, Running, reconciler
  <2> QED
    BY <1>4, <1>9, <2>1, ReturnKeeps, InPass
<1>10. CASE UNCHANGED vars
  <2>1. /\ model' = model /\ target' = target /\ spec' = spec /\ screen' = screen /\ byKey' = byKey
        /\ crashed' = crashed /\ UNCHANGED pass
    BY <1>10 DEF vars, pass
  <2>2. spec # NoTree => PassOK'
    BY <1>4, <2>1, PassSame
  <2>3. ScreenOK' /\ Found'
    BY <2>1 DEF IInv, ScreenOK, Found
  <2> QED
    BY <2>1, <2>2, <2>3 DEF IInv
<1> QED
  BY <1>1, <1>2, <1>3, <1>5, <1>6, <1>7, <1>8, <1>9, <1>10 DEF Next, Draw

\* When nothing is left to draw the screen is the tree of the model and the router finds exactly
\* its widgets; no mount is refused; and at every point of a pass the router returns live widgets
\* only: for every set of panels and of decoders and every layout they start with, as long as
\* each command waits for the pass of the one before to begin (view/reconciler.py:37-42, 54-128).
THEOREM ScreenIsTheTree ==
  ASSUME OnePerFrame
  PROVE  Spec => []SettledScreen
<1>1. Init => IInv
  BY InitIInv
<1>2. IInv /\ [Next]_vars => IInv'
  BY NextIInv
<1>3. IInv => SettledScreen
  <2> SUFFICES ASSUME IInv PROVE SettledScreen
    OBVIOUS
  <2>1. ~crashed
    BY Zenon DEF IInv, ScreenOK
  <2>2. Idle => screen = DeriveTree(model) /\ byKey = KeyMap(screen)
    BY DEF IInv, Idle, Running
  <2>3. \A k \in Keys : byKey[k] # Nothing => byKey[k] \in DOMAIN screen
    BY DEF IInv, Found, Below
  <2> QED
    BY <2>1, <2>2, <2>3, Zenon DEF SettledScreen
<1> QED
  BY <1>1, <1>2, <1>3, PTL DEF Spec

------------------------------------------------------------------------------
(* Types.                                                                    *)

Bounds ==
  /\ callbacks \in 0..MaxCallbacks
  /\ scheduled \in BOOLEAN /\ crashed \in BOOLEAN
  /\ spec = NoTree => stack = <<>>

LEMMA BoundsKept ==
  ASSUME Bounds, [Next]_vars
  PROVE  Bounds'
<1>1. ASSUME NEW n, Commit(n) PROVE Bounds'
  <2>1. /\ scheduled \/ callbacks < MaxCallbacks
        /\ scheduled' = TRUE /\ callbacks' = IF scheduled THEN callbacks ELSE callbacks + 1
        /\ UNCHANGED pass
    BY <1>1 DEF Commit, Schedule
  <2>2. callbacks' \in 0..MaxCallbacks
    BY <2>1, InterfaceAssumption DEF Bounds
  <2> QED
    BY <2>1, <2>2 DEF Bounds, pass
<1>2. CASE User
  BY <1>1, <1>2 DEF User, TogglePanel, ShowPanel, HidePanel, MovePanel, ToggleStrips, ToggleImage, SeedFromEngine
<1>3. CASE Run
  <2>1. callbacks > 0 /\ callbacks' = callbacks - 1 /\ crashed' = crashed
    BY <1>3 DEF Run
  <2>2. callbacks' \in 0..MaxCallbacks
    BY <2>1, InterfaceAssumption DEF Bounds
  <2>3. /\ scheduled' \in BOOLEAN
        /\ spec' = NoTree => stack' = <<>>
    BY <1>3 DEF Run, TakeTarget, Bounds
  <2> QED
    BY <2>1, <2>2, <2>3 DEF Bounds
<1>4. CASE EndPass
  <2>1. scheduled' \in BOOLEAN /\ (spec' = NoTree => stack' = <<>>)
    BY <1>4 DEF EndPass, TakeTarget, Bounds
  <2> QED
    BY <1>4, <2>1 DEF EndPass, Bounds
<1>5. ASSUME NEW k \in Keys, RemoveChild(k) PROVE Bounds'
  BY <1>5 DEF RemoveChild, reconciler, Bounds
<1>6. CASE BeginWalk \/ KeepChild \/ Return
  <2>1. spec # NoTree /\ UNCHANGED <<reconciler, spec, crashed>>
    BY <1>6 DEF BeginWalk, KeepChild, Return, MoreWanted, InCall, Running
  <2> QED
    BY <2>1 DEF reconciler, Bounds
<1>7. CASE MountChild
  <2>1. spec # NoTree /\ UNCHANGED <<reconciler, spec>> /\ crashed' = (Child(Wanted) \in DOMAIN screen)
    BY <1>7 DEF MountChild, MoreWanted, InCall, Running
  <2> QED
    BY <2>1 DEF reconciler, Bounds
<1>8. CASE UNCHANGED vars
  BY <1>8 DEF vars, Bounds
<1> QED
  BY <1>2, <1>3, <1>4, <1>5, <1>6, <1>7, <1>8 DEF Next, Draw

LEMMA TreesAre ==
  ASSUME NEW t, Tree(t)
  PROVE  IsTree(t)
<1>1. ASSUME NEW p \in DOMAIN t
      PROVE  /\ \A i, j \in 1..Len(t[p]) : t[p][i] = t[p][j] => i = j
             /\ {Append(p, k) : k \in ToSet(t[p])} = {q \in DOMAIN t : q # <<>> /\ Front(q) = p}
  <2>1. p \in Seq(Keys) /\ t[p] \in Seq(Keys) /\ InOrder(t[p])
    BY DEF Tree
  <2>2. \A i, j \in 1..Len(t[p]) : t[p][i] = t[p][j] => i = j
    BY <2>1, InOrderOnce
  <2>3. \A k : k \in ToSet(t[p]) <=> Among(k, t[p])
    <3>1. DOMAIN t[p] = 1..Len(t[p])
      BY <2>1
    <3> QED
      BY <3>1 DEF ToSet, Among
  <2>4. ASSUME NEW k \in ToSet(t[p])
        PROVE  Append(p, k) \in DOMAIN t /\ Append(p, k) # <<>> /\ Front(Append(p, k)) = p
    <3>1. k \in Keys /\ Among(k, t[p])
      BY <2>1, <2>3, ElementOfSeq DEF Among
    <3>2. Append(p, k) \in DOMAIN t
      BY <3>1 DEF Tree
    <3>3. Append(p, k) # <<>> /\ Front(Append(p, k)) = p
      BY <2>1, <3>1, AppendFacts
    <3> QED
      BY <3>2, <3>3
  <2>5. ASSUME NEW q \in DOMAIN t, q # <<>>, Front(q) = p
        PROVE  q \in {Append(p, k) : k \in ToSet(t[p])}
    <3>1. q \in Below(t)
      BY <2>5 DEF Below
    <3>2. q = Append(Front(q), Last(q)) /\ Among(Last(q), t[Front(q)])
      BY <3>1, Parts
    <3>3. Last(q) \in ToSet(t[p])
      BY <2>3, <2>5, <3>2
    <3> QED
      BY <2>5, <3>2, <3>3
  <2> QED
    BY <2>2, <2>4, <2>5
<1> QED
  BY <1>1 DEF IsTree, Tree

\* Each panel is docked on one edge, once, through every command; the screen is a tree without two
\* siblings of one key; the calls in flight are those of one branch (model/store.py:127-227).
THEOREM TypeCorrect ==
  ASSUME OnePerFrame
  PROVE  Spec => []TypeOK
<1>1. Init => IInv /\ Bounds
  <2> SUFFICES ASSUME Init PROVE IInv /\ Bounds
    OBVIOUS
  <2>1. IInv
    BY InitIInv
  <2>2. Bounds
    <3>1. 0 \in 0..MaxCallbacks
      BY InterfaceAssumption
    <3>2. callbacks = 0 /\ scheduled = FALSE /\ crashed = FALSE /\ stack = <<>>
      BY DEF Init
    <3> QED
      BY <3>1, <3>2 DEF Bounds
  <2> QED
    BY <2>1, <2>2
<1>2. IInv /\ Bounds /\ [Next]_vars => (IInv /\ Bounds)'
  BY NextIInv, BoundsKept
<1>3. IInv /\ Bounds => TypeOK
  <2> SUFFICES ASSUME IInv, Bounds PROVE TypeOK
    OBVIOUS
  <2>1. /\ model.panels \in [Edges -> Seq(Panels)] /\ EachDocked(model.panels)
        /\ model.strips \in BOOLEAN /\ model.image \in BOOLEAN /\ model.kind \in Kinds \cup {Nothing}
    BY DEF IInv, LayoutOK
  <2>2. \A e \in Edges : model.active[e] \in ToSet(model.panels[e]) \cup {Nothing}
    <3> TAKE e \in Edges
    <3>1. model.active[e] = Nothing \/ Among(model.active[e], model.panels[e])
      BY DEF IInv, LayoutOK
    <3>2. model.panels[e] \in Seq(Panels)
      BY <2>1
    <3>3. DOMAIN model.panels[e] = 1..Len(model.panels[e])
      BY <3>2
    <3> QED
      BY <3>1, <3>3 DEF ToSet, Among
  <2>3. IsTree(screen)
    BY TreesAre DEF IInv, ScreenOK
  <2>4. spec # NoTree => CallsOK
    BY DEF IInv, PassOK
  <2>5. Running <=> stack # <<>>
    BY <2>4 DEF Running, Bounds, CallsOK
  <2>6. \A i \in 1..Len(stack) : /\ stack[i].at \in DOMAIN screen
                                 /\ Len(stack[i].at) = i - 1
                                 /\ stack[i].next \in 1..(Len(spec[stack[i].at]) + 1)
    <3>1. CASE spec # NoTree
      BY <2>4, <3>1 DEF CallsOK
    <3>2. CASE spec = NoTree
      <4>1. stack = <<>>
        BY <3>2 DEF Bounds
      <4>2. 1..Len(stack) = {}
        BY <4>1
      <4> QED
        BY <4>2
    <3> QED
      BY <3>1, <3>2
  <2> QED
    BY <2>1, <2>2, <2>3, <2>5, <2>6 DEF TypeOK, Bounds
<1> QED
  BY <1>1, <1>2, <1>3, PTL DEF Spec
==============================================================================
