----------------------------- MODULE FifoLemmas -----------------------------
(***************************************************************************)
(* Facts about sequences for proofs that a stage implements LossyFifo: the *)
(* stage is a concatenation of lists, of which a step changes a part.      *)
(***************************************************************************)
EXTENDS Integers, Sequences, FiniteSets, SequencesExt, SequenceTheorems, FiniteSetTheorems,
        TLAPS

(* \o under a name: the provers then use only the laws they are given. *)
Cat(s, t) == s \o t

LEMMA CatAssociative == \A S : \A s, t, u \in Seq(S) : Cat(Cat(s, t), u) = Cat(s, Cat(t, u))
BY ConcatAssociative DEF Cat

(* A list or an item in hand, as a part of a stage. *)
LEMMA Concat ==
  ASSUME NEW S
  PROVE  /\ <<>> \in Seq(S)
         /\ \A x \in S : <<x>> \in Seq(S)
         /\ \A s, t \in Seq(S) : s \o t \in Seq(S)
         /\ \A s \in Seq(S) : s \o <<>> = s /\ <<>> \o s = s
         /\ \A s, t, u \in Seq(S) : (s \o t) \o u = s \o (t \o u)
         /\ \A s \in Seq(S), x \in S : Append(s, x) = s \o <<x>> /\ Append(s, x) \in Seq(S)
         /\ \A s \in Seq(S) : s # <<>> =>
              /\ Head(s) \in S /\ Tail(s) \in Seq(S)
              /\ s = <<Head(s)>> \o Tail(s)
<1>1. \A x \in S : <<x>> \in Seq(S) OBVIOUS
<1>2. \A s, t \in Seq(S) : s \o t \in Seq(S) BY ConcatProperties
<1>3. \A s \in Seq(S) : s \o <<>> = s /\ <<>> \o s = s BY ConcatEmptySeq
<1>4. \A s, t, u \in Seq(S) : (s \o t) \o u = s \o (t \o u) BY ConcatAssociative
<1>5. \A s \in Seq(S), x \in S : Append(s, x) = s \o <<x>> /\ Append(s, x) \in Seq(S)
      BY AppendIsConcat, AppendProperties
<1>6. ASSUME NEW s \in Seq(S), s # <<>>
      PROVE  Head(s) \in S /\ Tail(s) \in Seq(S) /\ s = <<Head(s)>> \o Tail(s)
  <2>1. /\ Head(s) \in S /\ Tail(s) \in Seq(S) /\ Len(Tail(s)) = Len(s) - 1
        /\ \A i \in 1..Len(Tail(s)) : Tail(s)[i] = s[i + 1]
        BY <1>6, HeadTailProperties
  <2>2. Head(s) = s[1] OBVIOUS
  <2>3. Len(s) \in Nat /\ Len(s) # 0 BY <1>6, EmptySeq
  <2>4. <<Head(s)>> \in Seq(S) /\ Len(<<Head(s)>>) = 1 /\ <<Head(s)>>[1] = Head(s) BY <2>1
  <2> DEFINE t == <<Head(s)>> \o Tail(s)
  <2>5. /\ t \in Seq(S) /\ Len(t) = 1 + Len(Tail(s))
        /\ \A i \in 1..(1 + Len(Tail(s))) :
             t[i] = IF i <= 1 THEN <<Head(s)>>[i] ELSE Tail(s)[i - 1]
        BY <2>1, <2>4, ConcatProperties
  <2>6. Len(s) = Len(t) BY <2>1, <2>3, <2>5
  <2>7. ASSUME NEW i \in 1..Len(s) PROVE s[i] = t[i]
        BY <2>1, <2>2, <2>3, <2>4, <2>5
  <2> QED BY <2>1, <2>5, <2>6, <2>7, SeqEqual
<1> QED BY <1>1, <1>2, <1>3, <1>4, <1>5, <1>6

(***************************************************************************)
(* A part of q is missing in r; and r is q with x put at its end, perhaps  *)
(* in the place of the last items.  These are the steps Lose and Put of    *)
(* LossyFifo.  A step of the last lists of a stage is one of the stage.    *)
(***************************************************************************)
Lossy(q, r) ==
  \E i, j \in 1..Len(q) : i <= j /\ r = SubSeq(q, 1, i - 1) \o SubSeq(q, j + 1, Len(q))
Joined(q, r, x) == \E n \in 0..Len(q) : r = Append(SubSeq(q, 1, n), x)

(* SubSeq of what stands behind a. *)
LEMMA Behind ==
  ASSUME NEW S, NEW a \in Seq(S), NEW q \in Seq(S), NEW i \in 1..Len(q), NEW j \in 0..Len(q)
  PROVE  /\ SubSeq(a \o q, 1, Len(a) + j) = a \o SubSeq(q, 1, j)
         /\ SubSeq(a \o q, Len(a) + i + 1, Len(a \o q)) = SubSeq(q, i + 1, Len(q))
         /\ SubSeq(q, 1, j) \in Seq(S) /\ SubSeq(q, i + 1, Len(q)) \in Seq(S)
<1>1. Len(a) \in Nat /\ Len(q) \in Nat OBVIOUS
<1>2. /\ a \o q \in Seq(S) /\ Len(a \o q) = Len(a) + Len(q)
      /\ \A k \in 1..(Len(a) + Len(q)) :
           (a \o q)[k] = IF k <= Len(a) THEN a[k] ELSE q[k - Len(a)]
      BY ConcatProperties
<1>3. /\ \A k \in 1..Len(q) : q[k] \in S
      /\ \A k \in 1..(Len(a) + Len(q)) : (a \o q)[k] \in S
      BY <1>1, <1>2, ElementOfSeq
<1>4. /\ SubSeq(q, 1, j) \in Seq(S) /\ Len(SubSeq(q, 1, j)) = j
      /\ \A k \in 1..j : SubSeq(q, 1, j)[k] = q[k]
  <2>1. \A k \in 1..j : q[k] \in S BY <1>1, <1>3
  <2> QED BY <1>1, <2>1, SubSeqProperties, Z3
<1>5. /\ SubSeq(q, i + 1, Len(q)) \in Seq(S) /\ Len(SubSeq(q, i + 1, Len(q))) = Len(q) - i
      /\ \A k \in 1..(Len(q) - i) : SubSeq(q, i + 1, Len(q))[k] = q[i + k]
  <2>1. \A k \in (i + 1)..Len(q) : q[k] \in S BY <1>1, <1>3
  <2> QED BY <1>1, <2>1, SubSeqProperties, Z3
<1>6. SubSeq(a \o q, 1, Len(a) + j) = a \o SubSeq(q, 1, j)
  <2> DEFINE l == SubSeq(a \o q, 1, Len(a) + j)
             r == a \o SubSeq(q, 1, j)
  <2>1. \A k \in 1..(Len(a) + j) : (a \o q)[k] \in S BY <1>1, <1>3
  <2>2. /\ l \in Seq(S) /\ Len(l) = Len(a) + j
        /\ \A k \in 1..(Len(a) + j) : l[k] = (a \o q)[k]
        BY <1>1, <2>1, SubSeqProperties, Z3
  <2>3. /\ r \in Seq(S) /\ Len(r) = Len(a) + j
        /\ \A k \in 1..(Len(a) + j) :
             r[k] = IF k <= Len(a) THEN a[k] ELSE SubSeq(q, 1, j)[k - Len(a)]
        BY <1>4, ConcatProperties
  <2>4. ASSUME NEW k \in 1..(Len(a) + j) PROVE l[k] = r[k]
    <3>1. l[k] = IF k <= Len(a) THEN a[k] ELSE q[k - Len(a)] BY <1>1, <1>2, <2>2
    <3>2. CASE k <= Len(a) BY <3>1, <3>2, <2>3
    <3>3. CASE ~(k <= Len(a))
      <4>1. k - Len(a) \in 1..j BY <3>3, <1>1
      <4> QED BY <3>1, <3>3, <4>1, <2>3, <1>4
    <3> QED BY <3>2, <3>3
  <2> QED BY <2>2, <2>3, <2>4, SeqEqual
<1>7. SubSeq(a \o q, Len(a) + i + 1, Len(a \o q)) = SubSeq(q, i + 1, Len(q))
  <2> DEFINE c == a \o q
             l == SubSeq(c, Len(a) + i + 1, Len(c))
  <2>1. /\ c \in Seq(S) /\ Len(c) = Len(a) + Len(q)
        /\ \A k \in 1..Len(c) : c[k] = IF k <= Len(a) THEN a[k] ELSE q[k - Len(a)]
        BY <1>2
  <2> HIDE DEF c
  <2>2. l \in Seq(S) /\ Len(l) = Len(q) - i
        /\ \A k \in 1..(Len(q) - i) : l[k] = c[Len(a) + i + k]
    <3>1. \A k \in (Len(a) + i + 1)..Len(c) : c[k] \in S BY <1>1, <2>1, ElementOfSeq
    <3>2. Len(a) + i + 1 \in Int /\ Len(c) \in Int /\ Len(a) + i + 1 <= Len(c) + 1
          BY <1>1, <2>1
    <3> DEFINE m == Len(a) + i + 1
    <3>3. m \in Int /\ Len(c) \in Int /\ m <= Len(c) + 1 /\ \A k \in m..Len(c) : c[k] \in S
          BY <3>1, <3>2
    <3> HIDE DEF m
    <3>4. /\ SubSeq(c, m, Len(c)) \in Seq(S)
          /\ Len(SubSeq(c, m, Len(c))) = IF m <= Len(c) THEN Len(c) - m + 1 ELSE 0
          /\ \A k \in 1..(Len(c) - m + 1) : SubSeq(c, m, Len(c))[k] = c[m + k - 1]
          BY <3>3, SubSeqProperties, Z3
    <3> QED BY <1>1, <2>1, <3>4 DEF m
  <2>3. ASSUME NEW k \in 1..(Len(q) - i)
        PROVE  l[k] = q[i + k]
    <3>1. Len(a) + i + k \in 1..Len(c) /\ ~(Len(a) + i + k <= Len(a))
          /\ (Len(a) + i + k) - Len(a) = i + k
          BY <1>1, <2>1
    <3>2. c[Len(a) + i + k] = q[i + k] BY <3>1, <2>1
    <3> QED BY <2>2, <3>2
  <2>4. l = SubSeq(q, i + 1, Len(q)) BY <1>5, <2>2, <2>3, SeqEqual
  <2> QED BY <2>4 DEF c
<1> QED BY <1>4, <1>5, <1>6, <1>7

LEMMA LossyBehind ==
  ASSUME NEW S, NEW a \in Seq(S), NEW q \in Seq(S), NEW r \in Seq(S), Lossy(q, r)
  PROVE  Lossy(a \o q, a \o r)
<1>1. PICK i, j \in 1..Len(q) : i <= j /\ r = SubSeq(q, 1, i - 1) \o SubSeq(q, j + 1, Len(q))
      BY DEF Lossy
<1>2. /\ Len(a) \in Nat /\ Len(q) \in Nat /\ Len(a \o q) = Len(a) + Len(q)
      /\ i - 1 \in 0..Len(q)
      BY ConcatProperties
<1> DEFINE l == SubSeq(q, 1, i - 1)
           m == SubSeq(q, j + 1, Len(q))
           h == i - 1
<1>3. h \in 0..Len(q) BY <1>2
<1> HIDE DEF h
<1>4. /\ SubSeq(a \o q, 1, Len(a) + h) = a \o SubSeq(q, 1, h)
      /\ SubSeq(a \o q, Len(a) + j + 1, Len(a \o q)) = m
      /\ SubSeq(q, 1, h) \in Seq(S) /\ m \in Seq(S)
      BY ZenonT(40), <1>3, Behind
<1>5. /\ SubSeq(a \o q, 1, Len(a) + (i - 1)) = a \o l
      /\ l \in Seq(S)
      BY <1>4 DEF h
<1>6. a \o r = (a \o l) \o m
  <2>1. r = Cat(l, m) /\ l \in Seq(S) /\ m \in Seq(S) BY <1>1, <1>4, <1>5 DEF Cat
  <2> HIDE DEF l, m
  <2>2. Cat(Cat(a, l), m) = Cat(a, r) BY <2>1, CatAssociative
  <2> QED BY <2>2 DEF Cat
<1>7. /\ Len(a) + i \in 1..Len(a \o q) /\ Len(a) + j \in 1..Len(a \o q)
      /\ Len(a) + i <= Len(a) + j /\ (Len(a) + i) - 1 = Len(a) + (i - 1)
      BY <1>1, <1>2
<1>8. a \o r = SubSeq(a \o q, 1, (Len(a) + i) - 1)
                 \o SubSeq(a \o q, (Len(a) + j) + 1, Len(a \o q))
      BY <1>4, <1>5, <1>6, <1>7
<1> QED BY <1>7, <1>8 DEF Lossy

LEMMA JoinedBehind ==
  ASSUME NEW S, NEW a \in Seq(S), NEW q \in Seq(S), NEW r \in Seq(S), NEW x \in S,
         Joined(q, r, x)
  PROVE  Joined(a \o q, a \o r, x)
<1>1. PICK n \in 0..Len(q) : r = Append(SubSeq(q, 1, n), x) BY DEF Joined
<1>2. CASE q = <<>>
  <2>1. Len(q) = 0 /\ n = 0 /\ SubSeq(q, 1, n) = <<>> BY <1>1, <1>2, SubSeqEmpty
  <2>2. a \o q = a /\ a \o r = Append(a, x) BY <1>1, <1>2, <2>1, Concat
  <2>3. SubSeq(a, 1, Len(a)) = a /\ Len(a) \in 0..Len(a) BY SubSeqFull
  <2> QED BY <2>2, <2>3 DEF Joined
<1>3. CASE q # <<>>
  <2>1. Len(q) \in Nat /\ 1 \in 1..Len(q) /\ Len(a) \in Nat BY <1>3, EmptySeq
  <2>2. SubSeq(a \o q, 1, Len(a) + n) = a \o SubSeq(q, 1, n) /\ SubSeq(q, 1, n) \in Seq(S)
        BY SMTT(30), <2>1, Behind
  <2>3. a \o r = Append(a \o SubSeq(q, 1, n), x)
    <3> DEFINE l == SubSeq(q, 1, n)
    <3>1. r = l \o <<x>> /\ <<x>> \in Seq(S) BY <1>1, <2>2, AppendIsConcat
    <3>2. a \o r = (a \o l) \o <<x>> BY <2>2, <3>1, ConcatAssociative
    <3>3. a \o l \in Seq(S) BY <2>2, ConcatProperties
    <3> QED BY <3>2, <3>3, AppendIsConcat
  <2>4. Len(a) + n \in 0..Len(a \o q) BY <2>1, ConcatProperties
  <2> QED BY <2>2, <2>3, <2>4 DEF Joined
<1> QED BY <1>2, <1>3

(* The first part is lost; everything is lost. *)
LEMMA LossyFront ==
  ASSUME NEW S, NEW b \in Seq(S), NEW c \in Seq(S), b # <<>>
  PROVE  Lossy(b \o c, c)
<1> DEFINE q == b \o c
<1>1. /\ Len(b) \in Nat /\ Len(b) # 0 /\ Len(c) \in Nat BY EmptySeq
<1>2. /\ q \in Seq(S) /\ Len(q) = Len(b) + Len(c)
      /\ \A k \in 1..Len(q) : q[k] = IF k <= Len(b) THEN b[k] ELSE c[k - Len(b)]
      BY ConcatProperties
<1>3. SubSeq(q, Len(b) + 1, Len(q)) = c
  <2>1. \A k \in (Len(b) + 1)..Len(q) : q[k] \in S BY <1>1, <1>2, ElementOfSeq
  <2>2. /\ SubSeq(q, Len(b) + 1, Len(q)) \in Seq(S)
        /\ Len(SubSeq(q, Len(b) + 1, Len(q))) = Len(c)
        /\ \A k \in 1..Len(c) : SubSeq(q, Len(b) + 1, Len(q))[k] = q[Len(b) + k]
        BY <2>1, <1>1, <1>2, SubSeqProperties, Z3
  <2>3. \A k \in 1..Len(c) : q[Len(b) + k] = c[k] BY <1>1, <1>2
  <2> QED BY <2>2, <2>3, SeqEqual
<1>4. SubSeq(q, 1, 0) = <<>> BY SubSeqEmpty
<1>5. SubSeq(q, 1, 1 - 1) \o SubSeq(q, Len(b) + 1, Len(q)) = c BY <1>3, <1>4, ConcatEmptySeq
<1>6. 1 \in 1..Len(q) /\ Len(b) \in 1..Len(q) /\ 1 <= Len(b) BY <1>1, <1>2
<1> QED BY <1>5, <1>6 DEF Lossy

LEMMA LossyAll ==
  ASSUME NEW S, NEW q \in Seq(S), q # <<>>
  PROVE  Lossy(q, <<>>)
<1>1. Lossy(q \o <<>>, <<>>) BY LossyFront, EmptySeq
<1> QED BY <1>1, ConcatEmptySeq

(* An item is put behind the others; an item is put in their place. *)
LEMMA JoinedLast ==
  ASSUME NEW S, NEW q \in Seq(S), NEW x
  PROVE  Joined(q, Append(q, x), x) /\ Joined(q, <<x>>, x)
<1>1. Len(q) \in 0..Len(q) /\ SubSeq(q, 1, Len(q)) = q BY SubSeqFull
<1>2. 0 \in 0..Len(q) /\ SubSeq(q, 1, 0) = <<>> /\ Append(<<>>, x) = <<x>> BY SubSeqEmpty
<1> QED BY <1>1, <1>2 DEF Joined

(* The item at the front comes out. *)
LEMMA GetFirst ==
  ASSUME NEW S, NEW q \in Seq(S), NEW x \in S
  PROVE  /\ <<x>> \o q # <<>>
         /\ Head(<<x>> \o q) = x /\ Tail(<<x>> \o q) = q
<1> DEFINE r == <<x>> \o q
<1>1. <<x>> \in Seq(S) /\ Len(<<x>>) = 1 /\ <<x>>[1] = x /\ Len(q) \in Nat OBVIOUS
<1>2. /\ r \in Seq(S) /\ Len(r) = 1 + Len(q)
      /\ \A k \in 1..(1 + Len(q)) : r[k] = IF k <= 1 THEN <<x>>[k] ELSE q[k - 1]
      BY <1>1, ConcatProperties
<1>3. r # <<>> BY <1>1, <1>2, EmptySeq
<1>4. /\ Head(r) = r[1] /\ Tail(r) \in Seq(S) /\ Len(Tail(r)) = Len(r) - 1
      /\ \A k \in 1..Len(Tail(r)) : Tail(r)[k] = r[k + 1]
      BY <1>2, <1>3, HeadTailProperties
<1>5. Len(Tail(r)) = Len(q) BY <1>1, <1>2, <1>4
<1>6. \A k \in 1..Len(q) : Tail(r)[k] = q[k] BY <1>1, <1>2, <1>4, <1>5
<1>7. Tail(r) = q BY <1>4, <1>5, <1>6, SeqEqual
<1> QED BY <1>1, <1>2, <1>3, <1>4, <1>7

(***************************************************************************)
(* The same facts with the concatenations under their name.                *)
(***************************************************************************)
LEMMA CatLaws ==
  ASSUME NEW S
  PROVE  /\ \A s, t \in Seq(S) : Cat(s, t) \in Seq(S)
         /\ \A s \in Seq(S) : Cat(s, <<>>) = s /\ Cat(<<>>, s) = s
         /\ \A s \in Seq(S), x \in S : Append(s, x) = Cat(s, <<x>>)
         /\ \A s \in Seq(S) : s # <<>> => s = Cat(<<Head(s)>>, Tail(s))
BY Concat DEF Cat

LEMMA CatLossy ==
  ASSUME NEW S
  PROVE  /\ \A a, q, r \in Seq(S) : Lossy(q, r) => Lossy(Cat(a, q), Cat(a, r))
         /\ \A x \in S, q \in Seq(S) : Lossy(Cat(<<x>>, q), q)
         /\ \A b, q \in Seq(S) : b # <<>> => Lossy(Cat(b, q), q)
<1>1. ASSUME NEW a \in Seq(S), NEW q \in Seq(S), NEW r \in Seq(S), Lossy(q, r)
      PROVE  Lossy(Cat(a, q), Cat(a, r))
      BY <1>1, LossyBehind DEF Cat
<1>2. ASSUME NEW x \in S, NEW q \in Seq(S)
      PROVE  Lossy(Cat(<<x>>, q), q)
  <2>1. <<x>> \in Seq(S) /\ <<x>> # <<>> OBVIOUS
  <2> QED BY <2>1, LossyFront DEF Cat
<1>3. \A b, q \in Seq(S) : b # <<>> => Lossy(Cat(b, q), q) BY LossyFront DEF Cat
<1> QED BY <1>1, <1>2, <1>3

LEMMA CatJoined ==
  ASSUME NEW S
  PROVE  \A a, q, r \in Seq(S), x \in S : Joined(q, r, x) => Joined(Cat(a, q), Cat(a, r), x)
BY JoinedBehind DEF Cat

LEMMA CatFirst ==
  ASSUME NEW S
  PROVE  \A q \in Seq(S), x \in S :
           /\ Cat(<<x>>, q) # <<>>
           /\ Head(Cat(<<x>>, q)) = x /\ Tail(Cat(<<x>>, q)) = q
BY GetFirst DEF Cat

(***************************************************************************)
(* The items of a list, and lists without repetition.                      *)
(***************************************************************************)
LEMMA SetOf ==
  ASSUME NEW S
  PROVE  /\ ToSet(<<>>) = {} /\ IsInjective(<<>>)
         /\ \A x \in S : ToSet(<<x>>) = {x} /\ IsInjective(<<x>>)
         /\ \A s \in Seq(S) : ToSet(s) \in SUBSET S
<1>1. ToSet(<<>>) = {} /\ IsInjective(<<>>) BY DEF ToSet, IsInjective
<1>2. ASSUME NEW x \in S PROVE ToSet(<<x>>) = {x} /\ IsInjective(<<x>>)
  <2>1. DOMAIN <<x>> = {1} /\ <<x>>[1] = x OBVIOUS
  <2> QED BY <2>1 DEF ToSet, IsInjective
<1>3. ASSUME NEW s \in Seq(S) PROVE ToSet(s) \in SUBSET S
      BY ElementOfSeq DEF ToSet
<1> QED BY <1>1, <1>2, <1>3

LEMMA Halves ==
  ASSUME NEW S, NEW s \in Seq(S), NEW t \in Seq(S)
  PROVE  /\ ToSet(Cat(s, t)) = ToSet(s) \cup ToSet(t)
         /\ IsInjective(Cat(s, t)) <=>
              IsInjective(s) /\ IsInjective(t) /\ ToSet(s) \cap ToSet(t) = {}
<1> DEFINE m == Len(s)
           n == Len(t)
           u == Cat(s, t)
<1>1. m \in Nat /\ n \in Nat /\ DOMAIN s = 1..m /\ DOMAIN t = 1..n OBVIOUS
<1>2. /\ DOMAIN u = 1..(m + n)
      /\ \A i \in 1..(m + n) : u[i] = IF i <= m THEN s[i] ELSE t[i - m]
      BY ConcatProperties DEF Cat
<1>3. \A i \in 1..m : i \in 1..(m + n) /\ u[i] = s[i] BY <1>1, <1>2
<1>4. \A i \in 1..n : m + i \in 1..(m + n) /\ u[m + i] = t[i] BY <1>1, <1>2
<1>5. \A i \in 1..(m + n) : i \in 1..m \/ (i - m \in 1..n /\ i = m + (i - m)) BY <1>1
<1> HIDE DEF u, m, n
<1>6. ToSet(u) = ToSet(s) \cup ToSet(t) BY <1>1, <1>2, <1>3, <1>4, <1>5 DEF ToSet
<1>7. ASSUME IsInjective(u)
      PROVE  IsInjective(s) /\ IsInjective(t) /\ ToSet(s) \cap ToSet(t) = {}
  <2>1. \A i, j \in 1..(m + n) : u[i] = u[j] => i = j BY <1>2, <1>7 DEF IsInjective
  <2>2. IsInjective(s) BY <1>1, <1>3, <2>1 DEF IsInjective
  <2>3. IsInjective(t)
    <3> SUFFICES ASSUME NEW i \in 1..n, NEW j \in 1..n, t[i] = t[j] PROVE i = j
        BY <1>1 DEF IsInjective
    <3>1. m + i = m + j BY <1>4, <2>1
    <3> QED BY <1>1, <3>1
  <2>4. ASSUME NEW x, x \in ToSet(s), x \in ToSet(t) PROVE FALSE
    <3>1. PICK i \in 1..m : x = s[i] BY <1>1, <2>4 DEF ToSet
    <3>2. PICK j \in 1..n : x = t[j] BY <1>1, <2>4 DEF ToSet
    <3>3. i = m + j BY <1>3, <1>4, <2>1, <3>1, <3>2
    <3> QED BY <1>1, <3>3
  <2> QED BY <2>2, <2>3, <2>4
<1>8. ASSUME IsInjective(s), IsInjective(t), ToSet(s) \cap ToSet(t) = {}
      PROVE  IsInjective(u)
  <2> SUFFICES ASSUME NEW i \in 1..(m + n), NEW j \in 1..(m + n), u[i] = u[j] PROVE i = j
      BY <1>2 DEF IsInjective
  <2>1. \A k \in 1..m : s[k] \in ToSet(s) BY <1>1 DEF ToSet
  <2>2. \A k \in 1..n : t[k] \in ToSet(t) BY <1>1 DEF ToSet
  <2>3. \A k \in 1..m, l \in 1..n : s[k] # t[l] BY <1>8, <2>1, <2>2
  <2>4. CASE i \in 1..m /\ j \in 1..m BY <1>1, <1>3, <1>8, <2>4 DEF IsInjective
  <2>5. CASE i \in 1..m /\ j \notin 1..m
    <3>1. j - m \in 1..n /\ j = m + (j - m) BY <1>5, <2>5
    <3>2. u[j] = t[j - m] BY <1>4, <3>1
    <3> QED BY <1>3, <2>3, <2>5, <3>1, <3>2
  <2>6. CASE i \notin 1..m /\ j \in 1..m
    <3>1. i - m \in 1..n /\ i = m + (i - m) BY <1>5, <2>6
    <3>2. u[i] = t[i - m] BY <1>4, <3>1
    <3> QED BY <1>3, <2>3, <2>6, <3>1, <3>2
  <2>7. CASE i \notin 1..m /\ j \notin 1..m
    <3>1. /\ i - m \in 1..n /\ i = m + (i - m) /\ j - m \in 1..n /\ j = m + (j - m)
          BY <1>5, <2>7
    <3>2. t[i - m] = t[j - m] BY <1>4, <3>1
    <3>3. i - m = j - m BY <1>1, <1>8, <3>1, <3>2 DEF IsInjective
    <3> QED BY <3>1, <3>3
  <2> QED BY <2>4, <2>5, <2>6, <2>7
<1> QED BY <1>6, <1>7, <1>8 DEF u

(* What an append and a pop do to the items of a list without repetition. *)
LEMMA ItemsAppend ==
  ASSUME NEW S, NEW s \in Seq(S), NEW x \in S
  PROVE  /\ ToSet(Append(s, x)) = ToSet(s) \cup {x}
         /\ IsInjective(s) /\ x \notin ToSet(s) => IsInjective(Append(s, x))
<1> DEFINE t == <<x>>
<1>1. Append(s, x) = Cat(s, t) BY CatLaws
<1>2. t \in Seq(S) /\ ToSet(t) = {x} /\ IsInjective(t) BY SetOf
<1> HIDE DEF t
<1>3. /\ ToSet(Cat(s, t)) = ToSet(s) \cup {x}
      /\ IsInjective(Cat(s, t)) <=> IsInjective(s) /\ ToSet(s) \cap {x} = {}
      BY <1>2, Halves
<1> QED BY <1>1, <1>3

LEMMA ItemsPop ==
  ASSUME NEW S, NEW s \in Seq(S), s # <<>>, IsInjective(s)
  PROVE  /\ Head(s) \in ToSet(s) /\ IsInjective(Tail(s))
         /\ ToSet(Tail(s)) = ToSet(s) \ {Head(s)}
<1>1. Head(s) \in S /\ Tail(s) \in Seq(S) BY Concat
<1>2. s = Cat(<<Head(s)>>, Tail(s)) BY CatLaws
<1> DEFINE h == Head(s)
           t == Tail(s)
<1> HIDE DEF h, t
<1>3. h \in S /\ t \in Seq(S) /\ s = Cat(<<h>>, t) BY <1>1, <1>2 DEF h, t
<1>4. <<h>> \in Seq(S) /\ ToSet(<<h>>) = {h} BY <1>3, SetOf
<1>5. /\ ToSet(s) = {h} \cup ToSet(t)
      /\ IsInjective(t) /\ {h} \cap ToSet(t) = {}
      BY <1>3, <1>4, Halves
<1> QED BY <1>5 DEF h, t

(* An item taken out of the list at a position. *)
LEMMA RemoveItem ==
  ASSUME NEW S, NEW q \in Seq(S), NEW k \in DOMAIN q
  PROVE  /\ RemoveAt(q, k) \in Seq(S) /\ Len(RemoveAt(q, k)) = Len(q) - 1
         /\ IsInjective(q) =>
              IsInjective(RemoveAt(q, k)) /\ ToSet(RemoveAt(q, k)) = ToSet(q) \ {q[k]}
<1> DEFINE n == Len(q)
           a == SubSeq(q, 1, k - 1)
           b == SubSeq(q, k + 1, n)
<1>1. n \in Nat /\ DOMAIN q = 1..n /\ k \in 1..n /\ n # 0 OBVIOUS
<1>2. /\ a \in Seq(S) /\ Len(a) = k - 1 /\ \A i \in 1..(k - 1) : a[i] = q[i]
  <2>1. \A i \in 1..(k - 1) : q[i] \in S BY <1>1, ElementOfSeq
  <2> QED BY <1>1, <2>1, SubSeqProperties, Z3
<1>3. /\ b \in Seq(S) /\ Len(b) = n - k /\ \A i \in 1..(n - k) : b[i] = q[k + i]
  <2>1. \A i \in (k + 1)..n : q[i] \in S BY <1>1, ElementOfSeq
  <2> QED BY <1>1, <2>1, SubSeqProperties, Z3
<1>4. RemoveAt(q, k) = Cat(a, b) BY DEF RemoveAt, Cat
<1> HIDE DEF a, b, n
<1>5. Cat(a, b) \in Seq(S) /\ Len(Cat(a, b)) = n - 1
  <2>1. Len(Cat(a, b)) = Len(a) + Len(b) BY <1>2, <1>3, ConcatProperties DEF Cat
  <2> QED BY <1>1, <1>2, <1>3, <2>1, CatLaws
<1>6. ASSUME IsInjective(q)
      PROVE  IsInjective(Cat(a, b)) /\ ToSet(Cat(a, b)) = ToSet(q) \ {q[k]}
  <2>1. \A i, j \in 1..n : q[i] = q[j] => i = j BY <1>1, <1>6 DEF IsInjective
  <2>2. DOMAIN a = 1..(k - 1) /\ DOMAIN b = 1..(n - k) BY <1>1, <1>2, <1>3
  <2>3. IsInjective(a) BY <1>1, <1>2, <2>1, <2>2 DEF IsInjective
  <2>4. IsInjective(b)
    <3> SUFFICES ASSUME NEW i \in 1..(n - k), NEW j \in 1..(n - k), b[i] = b[j] PROVE i = j
        BY <2>2 DEF IsInjective
    <3>1. k + i \in 1..n /\ k + j \in 1..n /\ q[k + i] = q[k + j] BY <1>1, <1>3
    <3>2. k + i = k + j BY <2>1, <3>1
    <3> QED BY <1>1, <3>2
  <2>5. \A x : x \in ToSet(a) <=> \E i \in 1..(k - 1) : x = q[i] BY <1>2, <2>2 DEF ToSet
  <2>6. \A x : x \in ToSet(b) <=> \E i \in 1..(n - k) : x = q[k + i] BY <1>3, <2>2 DEF ToSet
  <2>7. ToSet(a) \cap ToSet(b) = {}
    <3> SUFFICES ASSUME NEW x, x \in ToSet(a), x \in ToSet(b) PROVE FALSE OBVIOUS
    <3>1. PICK i \in 1..(k - 1) : x = q[i] BY <2>5
    <3>2. PICK j \in 1..(n - k) : x = q[k + j] BY <2>6
    <3>3. i \in 1..n /\ k + j \in 1..n BY <1>1
    <3>4. i = k + j BY <2>1, <3>1, <3>2, <3>3
    <3> QED BY <1>1, <3>4
  <2>8. ToSet(a) \cup ToSet(b) = ToSet(q) \ {q[k]}
    <3>1. ASSUME NEW x \in ToSet(a) \cup ToSet(b) PROVE x \in ToSet(q) /\ x # q[k]
      <4>1. PICK i \in 1..n : x = q[i] /\ i # k
        <5>1. CASE x \in ToSet(a)
          <6>1. PICK i \in 1..(k - 1) : x = q[i] BY <2>5, <5>1
          <6>2. i \in 1..n /\ i # k BY <1>1
          <6> QED BY <6>1, <6>2
        <5>2. CASE x \in ToSet(b)
          <6>1. PICK i \in 1..(n - k) : x = q[k + i] BY <2>6, <5>2
          <6>2. k + i \in 1..n /\ k + i # k BY <1>1
          <6> QED BY <6>1, <6>2
        <5> QED BY <5>1, <5>2
      <4> QED BY <1>1, <2>1, <4>1 DEF ToSet
    <3>2. ASSUME NEW x \in ToSet(q), x # q[k] PROVE x \in ToSet(a) \cup ToSet(b)
      <4>1. PICK i \in 1..n : x = q[i] BY <1>1 DEF ToSet
      <4>2. CASE i < k
        <5>1. i \in 1..(k - 1) BY <1>1, <4>2
        <5> QED BY <2>5, <4>1, <5>1
      <4>3. CASE i > k
        <5>1. i - k \in 1..(n - k) /\ k + (i - k) = i BY <1>1, <4>3
        <5> QED BY <2>6, <4>1, <5>1
      <4> QED BY <1>1, <3>2, <4>1, <4>2, <4>3
    <3> QED BY <3>1, <3>2
  <2> QED BY <1>2, <1>3, <2>3, <2>4, <2>7, <2>8, Halves
<1> QED BY <1>4, <1>5, <1>6 DEF n

LEMMA HowMany ==
  ASSUME NEW S, NEW s \in Seq(S)
  PROVE  IsFiniteSet(ToSet(s)) /\ Cardinality(ToSet(s)) <= Len(s)
<1>1. Len(s) \in Nat /\ DOMAIN s = 1..Len(s) OBVIOUS
<1>2. IsFiniteSet(1..Len(s)) /\ Cardinality(1..Len(s)) = Len(s)
      BY <1>1, FS_Interval
<1>3. s \in Surjection(1..Len(s), ToSet(s))
  <2>1. s \in [1..Len(s) -> ToSet(s)]
    <3>1. \A i \in 1..Len(s) : s[i] \in ToSet(s) BY <1>1 DEF ToSet
    <3> QED BY <1>1, <3>1
  <2>2. \A t \in ToSet(s) : \E i \in 1..Len(s) : s[i] = t BY <1>1 DEF ToSet
  <2> QED BY <2>1, <2>2 DEF Surjection
<1> DEFINE D == 1..Len(s)
           T == ToSet(s)
<1> HIDE DEF D, T
<1>4. s \in Surjection(D, T) /\ IsFiniteSet(D) BY <1>2, <1>3 DEF D, T
<1>5. IsFiniteSet(T) /\ Cardinality(T) <= Cardinality(D) BY <1>4, FS_Surjection
<1> QED BY <1>2, <1>5 DEF D, T

(***************************************************************************)
(* Rising lists of numbers: a list and the one behind it; one item taken   *)
(* out of the middle; the place of an item in the list.                    *)
(***************************************************************************)
Rising(q) == \A i, j \in DOMAIN q : i < j => q[i] < q[j]
Before(s, t) == \A x \in ToSet(s), y \in ToSet(t) : x < y

LEMMA RisingHalves ==
  ASSUME NEW S, S \subseteq Nat, NEW s \in Seq(S), NEW t \in Seq(S)
  PROVE  Rising(Cat(s, t)) <=> Rising(s) /\ Rising(t) /\ Before(s, t)
<1> DEFINE m == Len(s)
           n == Len(t)
           u == Cat(s, t)
<1>1. m \in Nat /\ n \in Nat /\ DOMAIN s = 1..m /\ DOMAIN t = 1..n OBVIOUS
<1>2. /\ DOMAIN u = 1..(m + n)
      /\ \A i \in 1..(m + n) : u[i] = IF i <= m THEN s[i] ELSE t[i - m]
      BY ConcatProperties DEF Cat
<1>3. \A i \in 1..m : i \in 1..(m + n) /\ u[i] = s[i] BY <1>1, <1>2
<1>4. \A i \in 1..n : m + i \in 1..(m + n) /\ u[m + i] = t[i] BY <1>1, <1>2
<1>5. \A i \in 1..(m + n) : i \in 1..m \/ (i - m \in 1..n /\ i = m + (i - m)) BY <1>1
<1> HIDE DEF u, m, n
<1>6. ASSUME Rising(u) PROVE Rising(s) /\ Rising(t) /\ Before(s, t)
  <2>1. \A i, j \in 1..(m + n) : i < j => u[i] < u[j] BY <1>2, <1>6 DEF Rising
  <2>2. Rising(s) BY <1>1, <1>3, <2>1 DEF Rising
  <2>3. ASSUME NEW i \in 1..n, NEW j \in 1..n, i < j PROVE t[i] < t[j]
    <3>1. m + i < m + j BY <1>1, <2>3
    <3> QED BY <1>4, <2>1, <3>1
  <2>4. ASSUME NEW i \in 1..m, NEW j \in 1..n PROVE s[i] < t[j]
    <3>1. i < m + j BY <1>1
    <3> QED BY <1>3, <1>4, <2>1, <3>1
  <2>5. Rising(t) BY <1>1, <2>3 DEF Rising
  <2>6. Before(s, t) BY <1>1, <2>4 DEF Before, ToSet
  <2> QED BY <2>2, <2>5, <2>6
<1>7. ASSUME Rising(s), Rising(t), Before(s, t) PROVE Rising(u)
  <2> SUFFICES ASSUME NEW i \in 1..(m + n), NEW j \in 1..(m + n), i < j PROVE u[i] < u[j]
      BY <1>2 DEF Rising
  <2>1. \A k \in 1..m, l \in 1..n : s[k] < t[l] BY <1>1, <1>7 DEF Before, ToSet
  <2>2. CASE i \in 1..m /\ j \in 1..m BY <1>1, <1>3, <1>7, <2>2 DEF Rising
  <2>3. CASE i \in 1..m /\ j \notin 1..m
    <3>1. j - m \in 1..n /\ j = m + (j - m) BY <1>5, <2>3
    <3>2. u[j] = t[j - m] BY <1>4, <3>1
    <3> QED BY <1>3, <2>1, <2>3, <3>1, <3>2
  <2>4. CASE i \notin 1..m
    <3>1. j \notin 1..m BY <1>1, <2>4
    <3>2. /\ i - m \in 1..n /\ i = m + (i - m) /\ j - m \in 1..n /\ j = m + (j - m)
          BY <1>5, <2>4, <3>1
    <3>3. u[i] = t[i - m] /\ u[j] = t[j - m] BY <1>4, <3>2
    <3>4. i - m < j - m BY <1>1
    <3> QED BY <1>1, <1>7, <3>2, <3>3, <3>4 DEF Rising
  <2> QED BY <2>2, <2>3, <2>4
<1> QED BY <1>6, <1>7 DEF u

(* r is q without an item x of it. *)
Deleted(S, q, r, x) == \E a, b \in Seq(S) : q = Cat(a, Cat(<<x>>, b)) /\ r = Cat(a, b)

LEMMA DeletedFirst ==
  ASSUME NEW S, NEW x \in S, NEW b \in Seq(S)
  PROVE  Deleted(S, Cat(<<x>>, b), b, x)
<1> DEFINE e == <<>>
<1>1. e \in Seq(S) /\ Cat(<<x>>, b) \in Seq(S) BY Concat, CatLaws
<1>2. Cat(e, Cat(<<x>>, b)) = Cat(<<x>>, b) /\ Cat(e, b) = b BY <1>1, CatLaws
<1> HIDE DEF e
<1> QED BY <1>1, <1>2 DEF Deleted

LEMMA DeletedBehind ==
  ASSUME NEW S, NEW c \in Seq(S), NEW q, NEW r, NEW x \in S, Deleted(S, q, r, x)
  PROVE  Deleted(S, Cat(c, q), Cat(c, r), x)
<1>1. PICK a, b \in Seq(S) : q = Cat(a, Cat(<<x>>, b)) /\ r = Cat(a, b) BY DEF Deleted
<1>2. <<x>> \in Seq(S) BY Concat
<1>3. Cat(c, a) \in Seq(S) /\ Cat(<<x>>, b) \in Seq(S) BY <1>2, CatLaws
<1>4. Cat(c, q) = Cat(Cat(c, a), Cat(<<x>>, b)) /\ Cat(c, r) = Cat(Cat(c, a), b)
      BY <1>1, <1>3, CatAssociative
<1> QED BY <1>3, <1>4 DEF Deleted

LEMMA RisingDeleted ==
  ASSUME NEW S, S \in SUBSET Nat
  PROVE  \A q, r \in Seq(S), x \in S :
           Deleted(S, q, r, x) /\ Rising(q) => Rising(r) /\ ToSet(r) = ToSet(q) \ {x}
<1> SUFFICES ASSUME NEW q \in Seq(S), NEW r \in Seq(S), NEW x \in S,
                    Deleted(S, q, r, x), Rising(q)
             PROVE  Rising(r) /\ ToSet(r) = ToSet(q) \ {x}
    OBVIOUS
<1>1. PICK a, b \in Seq(S) : q = Cat(a, Cat(<<x>>, b)) /\ r = Cat(a, b) BY DEF Deleted
<1> DEFINE e == <<x>>
           f == Cat(e, b)
<1>2. e \in Seq(S) /\ ToSet(e) = {x} BY Concat, SetOf
<1>3. f \in Seq(S) BY <1>2, CatLaws
<1>4. q = Cat(a, f) BY <1>1
<1>5. /\ ToSet(a) \in SUBSET S /\ ToSet(b) \in SUBSET S BY SetOf
<1> HIDE DEF e
<1>6. ToSet(f) = {x} \cup ToSet(b) BY <1>2, Halves
<1>7. Rising(f) <=> Rising(e) /\ Rising(b) /\ Before(e, b) BY <1>2, RisingHalves
<1> HIDE DEF f
<1>8. ToSet(q) = ToSet(a) \cup ToSet(f) BY <1>3, <1>4, Halves
<1>9. Rising(a) /\ Rising(f) /\ Before(a, f) BY <1>3, <1>4, RisingHalves
<1>10. ToSet(r) = ToSet(a) \cup ToSet(b) BY <1>1, Halves
<1>11. Before(a, b) BY <1>6, <1>9 DEF Before
<1>12. Rising(r) BY <1>1, <1>7, <1>9, <1>11, RisingHalves
<1>13. x \notin ToSet(a) /\ x \notin ToSet(b)
  <2>1. x \in ToSet(e) /\ x \in ToSet(f) BY <1>2, <1>6
  <2>2. (x \in ToSet(a) \/ x \in ToSet(b)) => x < x BY <1>7, <1>9, <2>1 DEF Before
  <2>3. ~(x < x) OBVIOUS
  <2> QED BY <2>2, <2>3
<1> QED BY <1>6, <1>8, <1>10, <1>12, <1>13

(* A rising list of all numbers up to n but those of a set: an item's      *)
(* place in it is the count of the numbers up to the item not in the set.  *)
Place(n, B) == Cardinality({p \in 1..n : p \notin B})

LEMMA PlaceInRising ==
  ASSUME NEW n \in Nat, NEW B, NEW S, NEW q \in Seq(S), Rising(q),
         ToSet(q) = (1..n) \ B,
         NEW i \in DOMAIN q
  PROVE  Place(q[i], B) = i
<1>1. Len(q) \in Nat /\ DOMAIN q = 1..Len(q) OBVIOUS
<1>2. \A k \in 1..Len(q) : q[k] \in (1..n) \ B BY <1>1 DEF ToSet
<1>3. i \in Nat /\ 1..i \subseteq 1..Len(q) BY <1>1
<1> DEFINE A == {p \in 1..q[i] : p \notin B}
           f == [k \in 1..i |-> q[k]]
<1>4. ASSUME NEW k \in 1..i PROVE q[k] \in A
  <2>1. k = i \/ k < i BY <1>3
  <2>2. q[k] <= q[i] BY <1>1, <1>2, <1>3, <2>1 DEF Rising
  <2> QED BY <1>1, <1>2, <1>3, <2>2
<1>5. ASSUME NEW p \in A PROVE \E k \in 1..i : q[k] = p
  <2>1. p \in (1..n) \ B BY <1>1, <1>2
  <2>2. PICK k \in 1..Len(q) : q[k] = p BY <1>1, <2>1 DEF ToSet
  <2>3. ~(i < k) BY <1>1, <1>2, <2>2 DEF Rising
  <2> QED BY <1>1, <2>2, <2>3
<1>6. ASSUME NEW k \in 1..i, NEW l \in 1..i, q[k] = q[l] PROVE k = l
  <2>1. ~(k < l) /\ ~(l < k) BY <1>1, <1>2, <1>3, <1>6 DEF Rising
  <2> QED BY <1>3, <2>1
<1> HIDE DEF A
<1>7. f \in [1..i -> A] BY <1>4
<1>8. IsInjective(f) BY <1>6 DEF IsInjective
<1>9. \A p \in A : \E k \in 1..i : f[k] = p BY <1>5
<1> HIDE DEF f
<1>10. f \in Bijection(1..i, A) BY <1>7, <1>8, <1>9 DEF Bijection, Injection, Surjection
<1>11. ExistsBijection(1..i, A) BY <1>10 DEF ExistsBijection
<1>12. Cardinality(A) = i BY <1>3, <1>11, FS_CountingElements
<1> QED BY <1>12 DEF A, Place

(***************************************************************************)
(* The list of what a function gives for the items of a list: a field of   *)
(* each, or what the memory holds at it.                                   *)
(***************************************************************************)
Mapped(q, g) == [i \in DOMAIN q |-> g[q[i]]]

(* A set of functions under a name, for the same reason as Cat. *)
Maps(S, T) == [S -> T]

LEMMA MappedSeq ==
  ASSUME NEW S, NEW T, NEW g \in Maps(S, T), NEW q \in Seq(S)
  PROVE  Mapped(q, g) \in Seq(T) /\ Len(Mapped(q, g)) = Len(q)
<1>1. Len(q) \in Nat /\ DOMAIN q = 1..Len(q) OBVIOUS
<1>2. \A i \in 1..Len(q) : g[q[i]] \in T BY ElementOfSeq DEF Maps
<1>3. Mapped(q, g) \in [1..Len(q) -> T] BY <1>1, <1>2 DEF Mapped
<1>4. Mapped(q, g) \in Seq(T) BY <1>1, <1>3
<1>5. DOMAIN Mapped(q, g) = 1..Len(q) BY <1>1 DEF Mapped
<1> QED BY <1>1, <1>4, <1>5, LenProperties

LEMMA MappedAppend ==
  ASSUME NEW S, NEW T, NEW g \in Maps(S, T), NEW q \in Seq(S), NEW x \in S
  PROVE  Mapped(Append(q, x), g) = Append(Mapped(q, g), g[x])
<1> DEFINE m == Mapped(q, g)
           l == Mapped(Append(q, x), g)
           r == Append(m, g[x])
<1>1. /\ Append(q, x) \in Seq(S) /\ Len(Append(q, x)) = Len(q) + 1 /\ Len(q) \in Nat
      /\ \A i \in 1..Len(q) : Append(q, x)[i] = q[i]
      /\ Append(q, x)[Len(q) + 1] = x
      BY AppendProperties
<1>2. m \in Seq(T) /\ Len(m) = Len(q) BY MappedSeq
<1>3. l \in Seq(T) /\ Len(l) = Len(q) + 1
  <2>1. l \in Seq(T) /\ Len(l) = Len(Append(q, x)) BY ZenonT(40), <1>1, MappedSeq
  <2> QED BY <1>1, <2>1
<1>4. \A i \in 1..Len(q) : m[i] = g[q[i]] BY DEF Mapped
<1>5. \A i \in 1..(Len(q) + 1) : l[i] = g[Append(q, x)[i]] BY <1>1 DEF Mapped
<1> HIDE DEF m, l
<1>6. /\ r \in Seq(T) /\ Len(r) = Len(q) + 1
      /\ \A i \in 1..Len(q) : r[i] = m[i]
      /\ r[Len(q) + 1] = g[x]
  <2>1. g[x] \in T BY DEF Maps
  <2> QED BY <1>2, <2>1, AppendProperties
<1>7. \A i \in 1..(Len(q) + 1) : i \in 1..Len(q) \/ i = Len(q) + 1 BY <1>1
<1>8. \A i \in 1..Len(l) : l[i] = r[i] BY <1>1, <1>3, <1>4, <1>5, <1>6, <1>7
<1>9. l = r BY <1>3, <1>6, <1>8, SeqEqual
<1> QED BY <1>9 DEF l, m

LEMMA MappedPop ==
  ASSUME NEW S, NEW T, NEW g \in Maps(S, T), NEW q \in Seq(S), q # <<>>
  PROVE  /\ Mapped(q, g) # <<>> /\ Head(Mapped(q, g)) = g[Head(q)]
         /\ Mapped(Tail(q), g) = Tail(Mapped(q, g))
<1> DEFINE m == Mapped(q, g)
           l == Mapped(Tail(q), g)
<1>1. /\ Tail(q) \in Seq(S) /\ Len(Tail(q)) = Len(q) - 1 /\ Len(q) \in Nat /\ Len(q) # 0
      /\ \A i \in 1..Len(Tail(q)) : Tail(q)[i] = q[i + 1]
      /\ Head(q) = q[1]
      BY HeadTailProperties, EmptySeq
<1>2. m \in Seq(T) /\ Len(m) = Len(q) BY MappedSeq
<1>3. l \in Seq(T) /\ Len(l) = Len(q) - 1
  <2>1. l \in Seq(T) /\ Len(l) = Len(Tail(q)) BY <1>1, MappedSeq
  <2> QED BY <1>1, <2>1
<1>4. \A i \in 1..Len(q) : m[i] = g[q[i]] BY DEF Mapped
<1>5. \A i \in 1..(Len(q) - 1) : l[i] = g[Tail(q)[i]] BY <1>1 DEF Mapped
<1> HIDE DEF m, l
<1>6. m # <<>> BY <1>1, <1>2, EmptySeq
<1>7. /\ Tail(m) \in Seq(T) /\ Len(Tail(m)) = Len(m) - 1 /\ Head(m) = m[1]
      /\ \A i \in 1..Len(Tail(m)) : Tail(m)[i] = m[i + 1]
      BY <1>2, <1>6, HeadTailProperties
<1>8. Head(m) = g[Head(q)] BY <1>1, <1>4, <1>7
<1>9. \A i \in 1..(Len(q) - 1) : i + 1 \in 1..Len(q) BY <1>1
<1>10. \A i \in 1..Len(l) : l[i] = Tail(m)[i] BY <1>1, <1>2, <1>3, <1>4, <1>5, <1>7, <1>9
<1>11. l = Tail(m) BY <1>2, <1>3, <1>7, <1>10, SeqEqual
<1> QED BY <1>6, <1>8, <1>11 DEF l, m

LEMMA MappedItems ==
  ASSUME NEW S, NEW T, NEW g \in Maps(S, T), NEW q \in Seq(S)
  PROVE  /\ \A x \in S :
              /\ ToSet(Mapped(Append(q, x), g)) = ToSet(Mapped(q, g)) \cup {g[x]}
              /\ IsInjective(Mapped(q, g)) /\ g[x] \notin ToSet(Mapped(q, g)) =>
                   IsInjective(Mapped(Append(q, x), g))
         /\ q # <<>> /\ IsInjective(Mapped(q, g)) =>
              /\ g[Head(q)] \in ToSet(Mapped(q, g)) /\ IsInjective(Mapped(Tail(q), g))
              /\ ToSet(Mapped(Tail(q), g)) = ToSet(Mapped(q, g)) \ {g[Head(q)]}
<1> DEFINE m == Mapped(q, g)
<1>1. m \in Seq(T) BY MappedSeq
<1>2. ASSUME NEW x \in S
      PROVE  /\ ToSet(Mapped(Append(q, x), g)) = ToSet(m) \cup {g[x]}
             /\ IsInjective(m) /\ g[x] \notin ToSet(m) => IsInjective(Mapped(Append(q, x), g))
  <2> DEFINE y == g[x]
  <2>1. y \in T BY DEF Maps
  <2>2. Mapped(Append(q, x), g) = Append(m, y) BY MappedAppend
  <2> HIDE DEF m, y
  <2>3. /\ ToSet(Append(m, y)) = ToSet(m) \cup {y}
        /\ IsInjective(m) /\ y \notin ToSet(m) => IsInjective(Append(m, y))
        BY <1>1, <2>1, ItemsAppend
  <2> QED BY <2>2, <2>3 DEF y
<1>3. ASSUME q # <<>>, IsInjective(m)
      PROVE  /\ g[Head(q)] \in ToSet(m) /\ IsInjective(Mapped(Tail(q), g))
             /\ ToSet(Mapped(Tail(q), g)) = ToSet(m) \ {g[Head(q)]}
  <2>1. m # <<>> /\ Head(m) = g[Head(q)] /\ Mapped(Tail(q), g) = Tail(m)
        BY <1>3, MappedPop
  <2> HIDE DEF m
  <2>2. /\ Head(m) \in ToSet(m) /\ IsInjective(Tail(m))
        /\ ToSet(Tail(m)) = ToSet(m) \ {Head(m)}
        BY <1>1, <1>3, <2>1, ItemsPop
  <2> QED BY <2>1, <2>2
<1> QED BY <1>2, <1>3

(***************************************************************************)
(* Nothing or something of a stage is lost; an item is handed on from the  *)
(* end of one list or to the front of the next; and how long a stage gets. *)
(***************************************************************************)
Less(q, r) == r = q \/ Lossy(q, r)

LEMMA CatLess ==
  ASSUME NEW S
  PROVE  /\ \A a, q, r \in Seq(S) : Less(q, r) => Less(Cat(a, q), Cat(a, r))
         /\ \A x \in S, q \in Seq(S) : Less(Cat(<<x>>, q), q)
         /\ \A q \in Seq(S) : Less(q, <<>>)
<1>1. \A q \in Seq(S) : q # <<>> => Lossy(q, <<>>) BY LossyAll
<1> QED BY <1>1, CatLossy DEF Less

LEMMA HandedOn ==
  ASSUME NEW S
  PROVE  /\ \A q, t \in Seq(S), x \in S : Cat(Append(q, x), t) = Cat(q, Cat(<<x>>, t))
         /\ \A q, t \in Seq(S) : q # <<>> => Cat(<<Head(q)>>, Cat(Tail(q), t)) = Cat(q, t)
<1>1. ASSUME NEW q \in Seq(S), NEW t \in Seq(S), NEW x \in S
      PROVE  Cat(Append(q, x), t) = Cat(q, Cat(<<x>>, t))
  <2> DEFINE e == <<x>>
  <2>1. e \in Seq(S) /\ Append(q, x) = Cat(q, e) BY CatLaws
  <2> HIDE DEF e
  <2>2. Cat(Cat(q, e), t) = Cat(q, Cat(e, t)) BY <2>1, CatAssociative
  <2> QED BY <2>1, <2>2 DEF e
<1>2. ASSUME NEW q \in Seq(S), NEW t \in Seq(S), q # <<>>
      PROVE  Cat(<<Head(q)>>, Cat(Tail(q), t)) = Cat(q, t)
  <2> DEFINE e == <<Head(q)>>
             r == Tail(q)
  <2>1. e \in Seq(S) /\ r \in Seq(S) BY <1>2, Concat
  <2>2. q = Cat(e, r) BY <1>2, CatLaws
  <2> HIDE DEF e, r
  <2>3. Cat(Cat(e, r), t) = Cat(e, Cat(r, t)) BY <2>1, CatAssociative
  <2> QED BY <2>2, <2>3 DEF e, r
<1> QED BY <1>1, <1>2

LEMMA StageLength ==
  ASSUME NEW S, NEW q \in Seq(S), NEW r
  PROVE  /\ Lossy(q, r) => Len(r) \in Nat /\ Len(r) <= Len(q)
         /\ \A x \in S : Joined(q, r, x) => Len(r) \in Nat /\ Len(r) <= Len(q) + 1
<1>1. Len(q) \in Nat /\ \A k \in 1..Len(q) : q[k] \in S BY ElementOfSeq
<1>2. ASSUME NEW i \in 1..Len(q), NEW j \in 1..Len(q), i <= j
      PROVE  /\ SubSeq(q, 1, i - 1) \in Seq(S) /\ Len(SubSeq(q, 1, i - 1)) = i - 1
             /\ SubSeq(q, j + 1, Len(q)) \in Seq(S) /\ Len(SubSeq(q, j + 1, Len(q))) = Len(q) - j
  <2>1. SubSeq(q, 1, i - 1) \in Seq(S) /\ Len(SubSeq(q, 1, i - 1)) = i - 1
    <3>1. \A k \in 1..(i - 1) : q[k] \in S BY <1>1
    <3> QED BY <1>1, <3>1, SubSeqProperties, Z3
  <2>2. SubSeq(q, j + 1, Len(q)) \in Seq(S) /\ Len(SubSeq(q, j + 1, Len(q))) = Len(q) - j
    <3> DEFINE m == j + 1
               n == Len(q)
    <3>1. m \in Int /\ n \in Int /\ m <= n + 1 /\ \A k \in m..n : q[k] \in S BY <1>1, <1>2
    <3>2. n - m + 1 = n - j /\ (~(m <= n) => n - j = 0) BY <1>1, <1>2
    <3> HIDE DEF m, n
    <3>3. /\ SubSeq(q, m, n) \in Seq(S)
          /\ Len(SubSeq(q, m, n)) = IF m <= n THEN n - m + 1 ELSE 0
          BY <3>1, SubSeqProperties, Z3
    <3>4. Len(SubSeq(q, m, n)) = n - j BY <3>2, <3>3
    <3> QED BY <3>3, <3>4 DEF m, n
  <2> QED BY <2>1, <2>2
<1>3. ASSUME Lossy(q, r) PROVE Len(r) \in Nat /\ Len(r) <= Len(q)
  <2>1. PICK i, j \in 1..Len(q) : i <= j /\ r = SubSeq(q, 1, i - 1) \o SubSeq(q, j + 1, Len(q))
        BY <1>3 DEF Lossy
  <2> DEFINE a == SubSeq(q, 1, i - 1)
             b == SubSeq(q, j + 1, Len(q))
  <2>2. /\ a \in Seq(S) /\ Len(a) = i - 1 /\ b \in Seq(S) /\ Len(b) = Len(q) - j /\ r = a \o b
        BY <1>2, <2>1
  <2> HIDE DEF a, b
  <2>3. Len(r) = Len(a) + Len(b) BY <2>2, ConcatProperties
  <2>4. i \in Nat /\ j \in Nat /\ i >= 1 /\ i <= j /\ j <= Len(q) BY <1>1, <2>1
  <2>5. Len(r) = (i - 1) + (Len(q) - j) BY <2>2, <2>3
  <2> QED BY <1>1, <2>4, <2>5
<1>4. ASSUME NEW x \in S, Joined(q, r, x) PROVE Len(r) \in Nat /\ Len(r) <= Len(q) + 1
  <2>1. PICK n \in 0..Len(q) : r = Append(SubSeq(q, 1, n), x) BY <1>4 DEF Joined
  <2> DEFINE a == SubSeq(q, 1, n)
  <2>2. a \in Seq(S) /\ Len(a) = n
    <3>1. \A k \in 1..n : q[k] \in S BY <1>1
    <3> QED BY <1>1, <3>1, SubSeqProperties, Z3
  <2>3. r = Append(a, x) BY <2>1
  <2> HIDE DEF a
  <2>4. Len(r) = Len(a) + 1 BY <2>2, <2>3, AppendProperties
  <2> QED BY <1>1, <2>2, <2>4
<1> QED BY <1>3, <1>4
=============================================================================
