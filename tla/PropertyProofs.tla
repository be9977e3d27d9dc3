------------------------------ MODULE PropertyProofs ------------------------------
(***************************************************************************)
(* What flatten_properties makes of the properties of an event, however    *)
(* many there are and however deep: lemmas and theorems about the          *)
(* operators of EventBatch.  The proof system has no induction that takes  *)
(* a predicate; here it is done by way of the least number of a set.       *)
(***************************************************************************)
EXTENDS EventBatch, SequenceTheorems, WellFoundedInduction, TLAPS

\* A set of natural numbers that has an element has a least one.
LEMMA LeastNumber ==
  ASSUME NEW T \in SUBSET Nat, T # {}
  PROVE  \E x \in T : \A y \in T : x <= y
<1>1. PICK R : /\ IsWellFoundedOn(R, Nat)
               /\ \A x, y \in Nat : <<y, x>> \in R <=> y < x
  <2>1. \A x, y \in Nat : <<y, x>> \in OpToRel(<, Nat) <=> y < x
    BY DEF OpToRel
  <2>2. QED
    BY <2>1, NatLessThanWellFounded, Zenon
<1>2. PICK x \in T : \A y \in T : ~(<<y, x>> \in R)
  BY <1>1, WFMin, Zenon
<1>3. \A y \in T : x \in Nat /\ y \in Nat /\ ~(y < x)
  BY <1>1, <1>2, Zenon
<1>4. QED
  BY <1>3

\* Recursion along the parents: values of a set S, one for the root 0 and one for each
\* number after it, that is made of the value of a smaller number.
Smaller(N, up) == \A n \in 1..N : up[n] < n

Recursive(N, S, z, up, step) ==
  \E f \in [0..N -> S] : f[0] = z /\ \A n \in 1..N : f[n] = step[n][f[up[n]]]

\* Such a function exists.
LEMMA Recursion ==
  \A N \in Nat : \A S : \A z \in S : \A up \in [1..N -> Nat] :
    \A step \in [1..N -> [S -> S]] : Smaller(N, up) => Recursive(N, S, z, up, step)
<1> SUFFICES ASSUME NEW N \in Nat, NEW S, NEW z \in S, NEW up \in [1..N -> Nat],
                    NEW step \in [1..N -> [S -> S]], \A n \in 1..N : up[n] < n
             PROVE  \E f \in [0..N -> S] :
                      f[0] = z /\ \A n \in 1..N : f[n] = step[n][f[up[n]]]
  BY DEF Smaller, Recursive
<1> DEFINE Fits(f, k) == f[0] = z /\ \A n \in 1..k : f[n] = step[n][f[up[n]]]
           T == {k \in 0..N : ~ \E f \in [0..k -> S] : Fits(f, k)}
<1>1. T = {}
  <2>1. SUFFICES ASSUME T # {} PROVE FALSE
    OBVIOUS
  <2>2. PICK k \in T : \A j \in T : k <= j
    <3>1. T \in SUBSET Nat
      OBVIOUS
    <3> HIDE DEF T
    <3>2. QED
      BY <2>1, <3>1, LeastNumber
  <2>3. k # 0
    <3>1. [i \in 0..0 |-> z] \in [0..0 -> S] /\ Fits([i \in 0..0 |-> z], 0)
      OBVIOUS
    <3>2. QED
      BY <3>1
  <2>4. k \in 1..N /\ k - 1 \in 0..N /\ up[k] \in 0..(k - 1)
    BY <2>3
  <2>5. k - 1 \notin T
    <3> HIDE DEF T
    <3>1. QED
      BY <2>2, <2>4
  <2>6. PICK f \in [0..(k - 1) -> S] : Fits(f, k - 1)
    BY <2>4, <2>5
  <2>7. PICK last \in S : last = step[k][f[up[k]]]
    BY <2>4
  <2> DEFINE g == [i \in 0..k |-> IF i = k THEN last ELSE f[i]]
  <2>8. g \in [0..k -> S]
    BY <2>4
  <2>9. Fits(g, k)
    <3>1. g[0] = z
      BY <2>4, <2>6
    <3>2. ASSUME NEW n \in 1..k PROVE g[n] = step[n][g[up[n]]]
      <4>1. up[n] \in 0..(k - 1) /\ g[up[n]] = f[up[n]]
        BY <2>4
      <4>2. CASE n = k
        BY <4>1, <4>2, <2>7
      <4>3. CASE n # k
        <5>1. n \in 1..(k - 1) /\ g[n] = f[n]
          BY <4>3, <2>4
        <5>2. f[n] = step[n][f[up[n]]]
          BY <5>1, <2>6
        <5>3. QED
          BY <4>1, <5>1, <5>2
      <4>4. QED
        BY <4>2, <4>3
    <3>3. QED
      BY <3>1, <3>2
  <2>10. QED
    BY <2>8, <2>9
<1>2. N \in 0..N
  OBVIOUS
<1>3. \E f \in [0..N -> S] : Fits(f, N)
  BY <1>1, <1>2
<1>4. QED
  BY <1>3

\* A sequence has a length, and its elements are numbered from one.
LEMMA SequenceOf ==
  ASSUME NEW s, IsSequence(s)
  PROVE  Len(s) \in Nat /\ DOMAIN s = 1..Len(s)
<1>1. PICK S : s \in Seq(S)
  BY Zenon DEF IsSequence
<1>2. QED
  BY <1>1

\* What a document says of its members, as far as the lemmas need it.
LEMMA MembersOf ==
  ASSUME NEW ms, Document(ms)
  PROVE  /\ Len(ms) \in Nat /\ DOMAIN ms = 1..Len(ms)
         /\ \A n \in 1..Len(ms) :
              /\ ms[n].parent \in Nat /\ ms[n].parent < n
              /\ ms[n].parent # 0 => ms[ms[n].parent].value.type = "object"
              /\ ms[n].key \in Seq(Char)
              /\ \A o \in 1..Len(ms) :
                   ms[o].parent = ms[n].parent /\ ms[o].key = ms[n].key => o = n
<1>1. Len(ms) \in Nat /\ DOMAIN ms = 1..Len(ms)
  BY SequenceOf DEF Document
<1>2. QED
  BY <1>1 DEF Document

\* The separator: two underscores.
LEMMA SeparatorOf ==
  /\ Separator \in Seq(Char) /\ Len(Separator) = 2
  /\ Separator[1] = Underscore /\ Separator[2] = Underscore
<1>1. Underscore \in Char
  BY BatchAssumption, Zenon DEF BatchAssumption
<1>2. \A c \in Char : /\ <<c, c>> \in Seq(Char) /\ Len(<<c, c>>) = 2
                      /\ <<c, c>>[1] = c /\ <<c, c>>[2] = c
  OBVIOUS
<1>3. QED
  BY <1>1, <1>2, Zenon DEF Separator

\* Prefixes is the function that its definition describes.
LEMMA PrefixesOf ==
  ASSUME NEW ms, Document(ms)
  PROVE  /\ Prefixes(ms)[0] = <<>>
         /\ \A n \in 0..Len(ms) : Prefixes(ms)[n] \in Seq(Char)
         /\ \A n \in 1..Len(ms) :
              LET outer == Prefixes(ms)[ms[n].parent]
              IN  Prefixes(ms)[n] = NestedPrefix(outer, outer \o ms[n].key)
<1> DEFINE N == Len(ms)
           up == [n \in 1..N |-> ms[n].parent]
           step == [n \in 1..N |-> [s \in Seq(Char) |-> NestedPrefix(s, s \o ms[n].key)]]
           Body(f) == [n \in 0..N |->
                         IF n = 0 THEN <<>>
                         ELSE NestedPrefix(f[ms[n].parent], f[ms[n].parent] \o ms[n].key)]
<1>1. N \in Nat /\ \A n \in 1..N : /\ ms[n].parent \in Nat /\ ms[n].parent < n
                                   /\ ms[n].key \in Seq(Char)
  BY MembersOf
<1>2. \A n \in 1..N, s \in Seq(Char) : NestedPrefix(s, s \o ms[n].key) \in Seq(Char)
  <2>1. \A s, t \in Seq(Char) : s \o t \in Seq(Char)
    OBVIOUS
  <2>2. QED
    BY <1>1, <2>1, SeparatorOf, Zenon DEF NestedPrefix
<1>3. step \in [1..N -> [Seq(Char) -> Seq(Char)]]
  <2>1. \A n \in 1..N : [s \in Seq(Char) |-> NestedPrefix(s, s \o ms[n].key)]
                          \in [Seq(Char) -> Seq(Char)]
    BY <1>2
  <2>2. QED
    BY <2>1
<1>4. up \in [1..N -> Nat] /\ \A n \in 1..N : up[n] < n
  BY <1>1
<1>5. N \in Nat /\ <<>> \in Seq(Char)
  BY <1>1
<1>6. PICK f \in [0..N -> Seq(Char)] :
        f[0] = <<>> /\ \A n \in 1..N : f[n] = step[n][f[up[n]]]
  <2> HIDE DEF N, up, step
  <2>1. Recursive(N, Seq(Char), <<>>, up, step)
    BY <1>3, <1>4, <1>5, Recursion, Zenon DEF Smaller
  <2>2. QED
    BY <2>1, Zenon DEF Recursive
<1>7. f = Body(f)
  <2>1. \A n \in 1..N : up[n] \in 0..N
    BY <1>1
  <2>2. \A n \in 1..N : f[n] = NestedPrefix(f[up[n]], f[up[n]] \o ms[n].key)
    BY <1>6, <2>1
  <2>3. f = [n \in 0..N |-> f[n]]
    BY <1>6
  <2>4. \A n \in 0..N : f[n] = IF n = 0 THEN <<>>
                        ELSE NestedPrefix(f[ms[n].parent], f[ms[n].parent] \o ms[n].key)
    BY <1>5, <1>6, <2>2
  <2>5. QED
    BY <2>3, <2>4, Zenon
<1>8. Prefixes(ms) = Body(Prefixes(ms))
  BY <1>7, Zenon DEF Prefixes
<1> HIDE DEF Prefixes
<1>9. \A n \in 0..N : Prefixes(ms)[n] = IF n = 0 THEN <<>>
        ELSE NestedPrefix(Prefixes(ms)[ms[n].parent], Prefixes(ms)[ms[n].parent] \o ms[n].key)
  BY <1>8, Zenon
<1>10. Prefixes(ms)[0] = <<>>
  BY <1>5, <1>9
<1>11. \A n \in 1..N : Prefixes(ms)[n] =
         NestedPrefix(Prefixes(ms)[ms[n].parent], Prefixes(ms)[ms[n].parent] \o ms[n].key)
  BY <1>5, <1>9
<1>12. \A n \in 0..N : Prefixes(ms)[n] \in Seq(Char)
  <2> DEFINE T == {n \in 0..N : Prefixes(ms)[n] \notin Seq(Char)}
  <2>1. SUFFICES ASSUME T # {} PROVE FALSE
    OBVIOUS
  <2>2. PICK n \in T : \A o \in T : n <= o
    <3>1. T \in SUBSET Nat
      OBVIOUS
    <3> HIDE DEF T
    <3>2. QED
      BY <2>1, <3>1, LeastNumber
  <2>3. n # 0
    BY <1>5, <1>10
  <2>4. n \in 1..N /\ ms[n].parent \in 0..N /\ ms[n].parent \notin T
    BY <1>1, <2>2, <2>3
  <2>5. Prefixes(ms)[n] \in Seq(Char)
    BY <1>2, <1>11, <2>4
  <2>6. QED
    BY <2>5
<1>13. QED
  BY <1>10, <1>11, <1>12

\* So is Joined.
LEMMA JoinedOf ==
  ASSUME NEW ms, Document(ms)
  PROVE  /\ \A n \in 0..Len(ms) : Joined(ms)[n] \in Seq(Char)
         /\ \A n \in 1..Len(ms) :
              Joined(ms)[n] = PathTo(ms[n], Joined(ms)[ms[n].parent])
<1> DEFINE N == Len(ms)
           up == [n \in 1..N |-> ms[n].parent]
           step == [n \in 1..N |-> [s \in Seq(Char) |-> PathTo(ms[n], s)]]
           Body(f) == [n \in 0..N |->
                         IF n = 0 THEN <<>>
                         ELSE PathTo(ms[n], f[ms[n].parent])]
<1>1. N \in Nat /\ \A n \in 1..N : /\ ms[n].parent \in Nat /\ ms[n].parent < n
                                   /\ ms[n].key \in Seq(Char)
  BY MembersOf
<1>2. \A n \in 1..N, s \in Seq(Char) : PathTo(ms[n], s) \in Seq(Char)
  <2>1. \A s, t \in Seq(Char) : s \o t \in Seq(Char)
    OBVIOUS
  <2>2. QED
    BY <1>1, <2>1, SeparatorOf, Zenon DEF PathTo
<1>3. step \in [1..N -> [Seq(Char) -> Seq(Char)]]
  <2>1. \A n \in 1..N : [s \in Seq(Char) |-> PathTo(ms[n], s)]
                          \in [Seq(Char) -> Seq(Char)]
    BY <1>2
  <2>2. QED
    BY <2>1
<1>4. up \in [1..N -> Nat] /\ \A n \in 1..N : up[n] < n
  BY <1>1
<1>5. N \in Nat /\ <<>> \in Seq(Char)
  BY <1>1
<1>6. PICK f \in [0..N -> Seq(Char)] :
        f[0] = <<>> /\ \A n \in 1..N : f[n] = step[n][f[up[n]]]
  <2> HIDE DEF N, up, step
  <2>1. Recursive(N, Seq(Char), <<>>, up, step)
    BY <1>3, <1>4, <1>5, Recursion, Zenon DEF Smaller
  <2>2. QED
    BY <2>1, Zenon DEF Recursive
<1>7. f = Body(f)
  <2>1. \A n \in 1..N : up[n] \in 0..N
    BY <1>1
  <2>2. \A n \in 1..N : f[n] = PathTo(ms[n], f[up[n]])
    BY <1>6, <2>1
  <2>3. f = [n \in 0..N |-> f[n]]
    BY <1>6
  <2>4. \A n \in 0..N : f[n] = IF n = 0 THEN <<>>
                        ELSE PathTo(ms[n], f[ms[n].parent])
    BY <1>5, <1>6, <2>2
  <2>5. QED
    BY <2>3, <2>4, Zenon
<1>8. Joined(ms) = Body(Joined(ms))
  BY <1>7 DEF Joined
<1> HIDE DEF Joined
<1>9. \A n \in 0..N : Joined(ms)[n] = IF n = 0 THEN <<>>
        ELSE PathTo(ms[n], Joined(ms)[ms[n].parent])
  BY <1>8, Zenon
<1>10. Joined(ms)[0] = <<>>
  BY <1>5, <1>9
<1>11. \A n \in 1..N : Joined(ms)[n] =
         PathTo(ms[n], Joined(ms)[ms[n].parent])
  BY <1>5, <1>9
<1>12. \A n \in 0..N : Joined(ms)[n] \in Seq(Char)
  <2> DEFINE T == {n \in 0..N : Joined(ms)[n] \notin Seq(Char)}
  <2>1. SUFFICES ASSUME T # {} PROVE FALSE
    OBVIOUS
  <2>2. PICK n \in T : \A o \in T : n <= o
    <3>1. T \in SUBSET Nat
      OBVIOUS
    <3> HIDE DEF T
    <3>2. QED
      BY <2>1, <3>1, LeastNumber
  <2>3. n # 0
    BY <1>5, <1>10
  <2>4. n \in 1..N /\ ms[n].parent \in 0..N /\ ms[n].parent \notin T
    BY <1>1, <2>2, <2>3
  <2>5. Joined(ms)[n] \in Seq(Char)
    BY <1>2, <1>11, <2>4
  <2>6. QED
    BY <2>5
<1>13. QED
  BY <1>10, <1>11, <1>12
-----------------------------------------------------------------------------
(* Keys.                                                                   *)

\* What a prefix is: empty, or something that ends with the separator.
Closed(s) == Len(s) > 0 => Len(s) > 1 /\ s[Len(s)] = Underscore /\ s[Len(s) - 1] = Underscore

\* Two sequences put together: their elements, one after the other.
LEMMA Concat ==
  ASSUME NEW s \in Seq(Char), NEW t \in Seq(Char)
  PROVE  /\ s \o t \in Seq(Char)
         /\ Len(s) \in Nat /\ Len(t) \in Nat /\ Len(s \o t) = Len(s) + Len(t)
         /\ \A i \in 1..Len(s) : (s \o t)[i] = s[i]
         /\ \A i \in 1..Len(t) : (s \o t)[Len(s) + i] = t[i]
<1>1. /\ s \o t \in Seq(Char)
      /\ Len(s) \in Nat /\ Len(t) \in Nat /\ Len(s \o t) = Len(s) + Len(t)
      /\ \A i \in 1..Len(s) : (s \o t)[i] = s[i]
  OBVIOUS
<1>2. ASSUME NEW i \in 1..Len(t) PROVE (s \o t)[Len(s) + i] = t[i]
  <2>1. PICK j : j = Len(s) + i
    OBVIOUS
  <2>2. j \in 1..(Len(s) + Len(t)) /\ ~(j <= Len(s)) /\ j - Len(s) = i
    BY <1>1, <2>1
  <2>3. (s \o t)[j] = IF j <= Len(s) THEN s[j] ELSE t[j - Len(s)]
    BY <2>2, ConcatProperties
  <2>4. (s \o t)[j] = t[i]
    BY <2>2, <2>3
  <2>5. QED
    BY <2>1, <2>4
<1>3. QED
  BY <1>1, <1>2

\* Three sequences put together.
LEMMA Associative == \A s, t, u \in Seq(Char) : (s \o t) \o u = s \o (t \o u)
BY ConcatAssociative

\* One sequence, divided in two ways.
Divided(s, k, t, l) == s \o k = t \o l

\* Sequences that are put together of parts of the same lengths have the same parts.
LEMMA EqualParts ==
  \A s, t, k, l \in Seq(Char) :
    Divided(s, k, t, l) /\ (Len(s) = Len(t) \/ Len(k) = Len(l)) => s = t /\ k = l
<1> TAKE s, t, k, l \in Seq(Char)
<1> HAVE Divided(s, k, t, l) /\ (Len(s) = Len(t) \/ Len(k) = Len(l))
<1> s \o k = t \o l
  BY DEF Divided
<1>1. /\ Len(s \o k) = Len(s) + Len(k) /\ Len(t \o l) = Len(t) + Len(l)
      /\ Len(s) \in Nat /\ Len(t) \in Nat /\ Len(k) \in Nat /\ Len(l) \in Nat
  BY Concat
<1>2. Len(s) = Len(t)
  BY <1>1
<1>3. \A i \in 1..Len(s) : s[i] = t[i]
  BY <1>2, Concat
<1>4. s = t
  BY <1>2, <1>3, SeqEqual
<1>5. QED
  <2>1. \A u, v, w \in Seq(Char) : u \o v = u \o w => v = w
    BY ConcatSimplifications
  <2>2. s \o k = s \o l
    BY <1>4
  <2>3. QED
    BY <1>4, <2>1, <2>2

\* A closed sequence ends where plain keys begin, so it can be told from its
\* continuation.
LEMMA ClosedIsNotLonger ==
  \A s, t, k, l \in Seq(Char) :
    Divided(s, k, t, l) /\ Closed(s) /\ Plain(l) => Len(s) <= Len(t)
<1> SUFFICES ASSUME NEW s \in Seq(Char), NEW t \in Seq(Char),
                    NEW k \in Seq(Char), NEW l \in Seq(Char),
                    s \o k = t \o l, Closed(s), Plain(l), ~(Len(s) <= Len(t))
             PROVE  FALSE
  BY DEF Divided
<1> DEFINE d == Len(s) - Len(t)
<1>1. /\ Len(s) \in Nat /\ Len(t) \in Nat /\ Len(k) \in Nat /\ Len(l) \in Nat
      /\ Len(s) > Len(t)
  BY Concat
<1>2. Len(s) + Len(k) = Len(t) + Len(l)
  <2>1. \A u, v \in Seq(Char) : Len(u \o v) = Len(u) + Len(v)
    OBVIOUS
  <2>2. Len(s \o k) = Len(s) + Len(k) /\ Len(t \o l) = Len(t) + Len(l)
    BY <2>1
  <2>3. QED
    BY <2>2
<1>3. \A i \in 1..Len(s) : (s \o k)[i] = s[i]
  BY Concat
<1>4. \A i \in 1..Len(l) : (s \o k)[Len(t) + i] = l[i]
  BY Concat
<1>5. \A i \in 1..Len(s) : i > Len(t) => l[i - Len(t)] = s[i]
  <2>1. TAKE i \in 1..Len(s)
  <2>2. HAVE i > Len(t)
  <2>3. PICK j \in 1..Len(l) : Len(t) + j = i /\ j = i - Len(t)
    <3>1. PICK a \in Nat, b \in Nat, c \in Nat, e \in Nat :
            a = Len(s) /\ b = Len(t) /\ c = Len(k) /\ e = Len(l)
      BY <1>1
    <3>2. i - b \in 1..e /\ b + (i - b) = i
      BY <1>2, <2>2, <3>1
    <3>3. QED
      BY <3>1, <3>2
  <2>4. (s \o k)[i] = l[j]
    BY <1>4, <2>3
  <2>5. QED
    BY <1>3, <2>3, <2>4
<1>6. Len(s) > 1 /\ s[Len(s)] = Underscore /\ s[Len(s) - 1] = Underscore
  BY <1>1 DEF Closed
<1>7. d \in 1..Len(l) /\ l[d] = Underscore
  <2>1. d \in 1..Len(l) /\ Len(s) \in 1..Len(s) /\ Len(s) > Len(t)
    BY <1>1, <1>2
  <2>2. l[Len(s) - Len(t)] = s[Len(s)]
    BY <1>5, <2>1
  <2>3. QED
    BY <1>6, <2>1, <2>2
<1>8. CASE d = 1
  <2>1. l # <<>>
    BY <1>1, <1>7
  <2>2. QED
    BY <1>7, <1>8, <2>1 DEF Plain
<1>9. CASE d > 1
  <2>1. Len(s) - 1 \in 1..Len(s) /\ Len(s) - 1 > Len(t) /\ (Len(s) - 1) - Len(t) = d - 1
    BY <1>1, <1>6, <1>9
  <2>2. l[d - 1] = Underscore
    BY <1>5, <1>6, <2>1
  <2>3. d \in 2..Len(l)
    BY <1>1, <1>7, <1>9
  <2>4. QED
    BY <1>7, <2>2, <2>3, Zenon DEF Plain
<1>10. QED
  BY <1>1, <1>8, <1>9

\* A prefix and a plain key can be read off from the two put together.
LEMMA PrefixAndKey ==
  \A s, t, k, l \in Seq(Char) :
    Divided(s, k, t, l) /\ Closed(s) /\ Closed(t) /\ Plain(k) /\ Plain(l) => s = t /\ k = l
<1> SUFFICES ASSUME NEW s \in Seq(Char), NEW t \in Seq(Char),
                    NEW k \in Seq(Char), NEW l \in Seq(Char),
                    Divided(s, k, t, l), Closed(s), Closed(t), Plain(k), Plain(l)
             PROVE  s = t /\ k = l
  OBVIOUS
<1>1. Divided(t, l, s, k)
  BY DEF Divided
<1>2. Len(s) <= Len(t) /\ Len(t) <= Len(s) /\ Len(s) \in Nat /\ Len(t) \in Nat
  BY <1>1, ClosedIsNotLonger
<1>3. Len(s) = Len(t)
  BY <1>2
<1>4. QED
  BY <1>3, EqualParts

\* What ends with the separator is closed.
LEMMA SeparatorCloses ==
  ASSUME NEW s \in Seq(Char)
  PROVE  s \o Separator \in Seq(Char) /\ Closed(s \o Separator) /\ Len(s \o Separator) > 0
<1>1. /\ Len(s) \in Nat /\ s \o Separator \in Seq(Char) /\ Len(s \o Separator) = Len(s) + 2
      /\ \A i \in 1..2 : (s \o Separator)[Len(s) + i] = Separator[i]
  <2>1. PICK u \in Seq(Char) : u = Separator /\ Len(u) = 2
    BY SeparatorOf
  <2>2. QED
    BY <2>1, Concat
<1>2. (s \o Separator)[Len(s) + 1] = Underscore /\ (s \o Separator)[Len(s) + 2] = Underscore
  BY <1>1, SeparatorOf
<1>3. QED
  BY <1>1, <1>2 DEF Closed

\* A prefix as the parent's, doubled, with the member's key and the separator.
LEMMA PrefixParts ==
  ASSUME NEW ms, Document(ms), NEW n \in 1..Len(ms)
  PROVE  LET outer == Prefixes(ms)[ms[n].parent]
         IN  /\ outer \in Seq(Char)
             /\ Prefixes(ms)[n] = ((outer \o outer) \o ms[n].key) \o Separator
<1>1. PICK outer : outer = Prefixes(ms)[ms[n].parent]
  OBVIOUS
<1>2. outer \in Seq(Char) /\ ms[n].key \in Seq(Char)
  BY <1>1, MembersOf, PrefixesOf
<1>3. Prefixes(ms)[n] = outer \o (outer \o ms[n].key) \o Separator
  BY <1>1, PrefixesOf DEF NestedPrefix
<1>4. outer \o (outer \o ms[n].key) = (outer \o outer) \o ms[n].key
  BY <1>2, Associative
<1>5. QED
  BY <1>1, <1>2, <1>3, <1>4

\* Flatten's prefixes are closed, and so are they when they are repeated.
LEMMA PrefixesClosed ==
  ASSUME NEW ms, Document(ms), NEW n \in 0..Len(ms)
  PROVE  /\ Closed(Prefixes(ms)[n]) /\ Closed(Prefixes(ms)[n] \o Prefixes(ms)[n])
         /\ n # 0 <=> Len(Prefixes(ms)[n]) > 0
<1>1. CASE n = 0
  BY <1>1, PrefixesOf DEF Closed
<1>2. CASE n # 0
  <2>1. PICK s \in Seq(Char) : Prefixes(ms)[n] = s \o Separator
    <3>1. \A s, t \in Seq(Char) : s \o t \in Seq(Char)
      OBVIOUS
    <3>2. n \in 1..Len(ms) /\ ms[n].key \in Seq(Char)
      BY <1>2, MembersOf
    <3>3. QED
      BY <3>1, <3>2, PrefixParts, Zenon
  <2>2. s \o Separator \in Seq(Char) /\ (s \o Separator) \o s \in Seq(Char)
    <3>1. \A t, u \in Seq(Char) : t \o u \in Seq(Char)
      OBVIOUS
    <3>2. QED
      BY <3>1, SeparatorOf, Zenon
  <2>3. (s \o Separator) \o (s \o Separator) = ((s \o Separator) \o s) \o Separator
    BY <2>2, SeparatorOf, Associative
  <2>4. QED
    BY <1>2, <2>1, <2>2, <2>3, SeparatorCloses
<1>3. QED
  BY <1>1, <1>2

AllPlain(ms) == \A n \in DOMAIN ms : Plain(ms[n].key)

\* No two members have one prefix: if they had, then so had their parents, or they
\* are members of one key of one object.
LEMMA PrefixesDiffer ==
  ASSUME NEW ms, Document(ms), AllPlain(ms),
         NEW n \in 0..Len(ms), NEW m \in 0..Len(ms), Prefixes(ms)[n] = Prefixes(ms)[m]
  PROVE  n = m
<1> DEFINE Same(i, j) == i < j /\ Prefixes(ms)[i] = Prefixes(ms)[j]
           T == {j \in 0..Len(ms) : \E i \in 0..Len(ms) : Same(i, j)}
<1>1. T = {}
  <2>1. SUFFICES ASSUME T # {} PROVE FALSE
    OBVIOUS
  <2>2. PICK j \in T : \A o \in T : j <= o
    <3>1. T \in SUBSET Nat
      OBVIOUS
    <3> HIDE DEF T
    <3>2. QED
      BY <2>1, <3>1, LeastNumber
  <2>3. PICK i \in 0..Len(ms) : i < j /\ Prefixes(ms)[i] = Prefixes(ms)[j]
    OBVIOUS
  <2>4. Len(ms) \in Nat /\ j \in 1..Len(ms) /\ i \in 1..Len(ms)
    <3>1. Len(ms) \in Nat /\ j \in 1..Len(ms)
      BY <2>3, MembersOf
    <3>2. \A o \in 0..Len(ms) : o # 0 <=> Len(Prefixes(ms)[o]) > 0
      BY PrefixesClosed, Zenon
    <3>3. i # 0
      BY <2>3, <3>1, <3>2
    <3>4. QED
      BY <3>1, <3>3
  <2>5. \A a, b \in 0..Len(ms) : a < b /\ Prefixes(ms)[a] = Prefixes(ms)[b] => j <= b
    BY <2>2
  <2> HIDE DEF T
  <2>6. PICK p \in 0..Len(ms), q \in 0..Len(ms) :
          /\ p = ms[i].parent /\ q = ms[j].parent /\ p < i /\ q < j
    <3>1. \A o \in 1..Len(ms) : ms[o].parent \in 0..Len(ms) /\ ms[o].parent < o
      BY <2>4, MembersOf
    <3>2. QED
      BY <2>4, <3>1
  <2>7. PICK P \in Seq(Char), Q \in Seq(Char) :
          P = Prefixes(ms)[p] /\ Q = Prefixes(ms)[q]
    BY <2>6, PrefixesOf
  <2>8. PICK k \in Seq(Char), l \in Seq(Char) :
          k = ms[i].key /\ l = ms[j].key /\ Plain(k) /\ Plain(l)
    BY <2>4, MembersOf DEF AllPlain
  <2>9. PICK PP \in Seq(Char), QQ \in Seq(Char) : PP = P \o P /\ QQ = Q \o Q
    <3>1. \A s, t \in Seq(Char) : s \o t \in Seq(Char)
      OBVIOUS
    <3>2. QED
      BY <3>1
  <2>10. PP \o k = QQ \o l
    <3>1. PICK x \in Seq(Char), y \in Seq(Char) : x = PP \o k /\ y = QQ \o l
      <4>1. \A s, t \in Seq(Char) : s \o t \in Seq(Char)
        OBVIOUS
      <4>2. QED
        BY <4>1
    <3>2. x \o Separator = y \o Separator
      <4>1. Prefixes(ms)[i] = ((P \o P) \o k) \o Separator
        BY <2>4, <2>6, <2>7, <2>8, PrefixParts
      <4>2. Prefixes(ms)[j] = ((Q \o Q) \o l) \o Separator
        BY <2>4, <2>6, <2>7, <2>8, PrefixParts
      <4>3. QED
        BY <2>3, <2>9, <3>1, <4>1, <4>2, Zenon
    <3>3. Divided(x, Separator, y, Separator)
      BY <3>2, Zenon DEF Divided
    <3>4. QED
      BY <3>1, <3>3, EqualParts, SeparatorOf
  <2>11. PP = QQ /\ k = l
    <3>1. Closed(PP) /\ Closed(QQ)
      BY <2>6, <2>7, <2>9, PrefixesClosed
    <3>2. Divided(PP, k, QQ, l)
      BY <2>10, Zenon DEF Divided
    <3>3. QED
      BY <2>8, <3>1, <3>2, PrefixAndKey
  <2>12. P = Q
    <3>1. \A s \in Seq(Char) : Len(s) \in Nat /\ Len(s \o s) = Len(s) + Len(s)
      OBVIOUS
    <3>2. Len(P) = Len(Q)
      <4>1. /\ Len(P) \in Nat /\ Len(PP) = Len(P) + Len(P)
            /\ Len(Q) \in Nat /\ Len(QQ) = Len(Q) + Len(Q)
        BY <2>9, <3>1, Zenon
      <4>2. Len(PP) = Len(QQ)
        BY <2>11, Zenon
      <4>3. \A a, b \in Nat : a + a = b + b => a = b
        OBVIOUS
      <4>4. QED
        BY <4>1, <4>2, <4>3, Zenon
    <3>3. Divided(P, P, Q, Q)
      BY <2>9, <2>11, Zenon DEF Divided
    <3>4. QED
      BY <3>2, <3>3, EqualParts
  <2>13. p = q
    <3>1. Prefixes(ms)[p] = Prefixes(ms)[q]
      BY <2>7, <2>12
    <3>2. p < q => j <= q
      BY <2>5, <3>1
    <3>3. q < p => j <= p
      BY <2>5, <3>1
    <3>4. i \in Nat /\ j \in Nat /\ p \in Nat /\ q \in Nat
      BY <2>4
    <3>5. \A a, b, c, d \in Nat :
            a < c /\ b < d /\ c < d /\ (a < b => d <= b) /\ (b < a => d <= a) => a = b
      OBVIOUS
    <3>6. QED
      BY <2>3, <2>6, <3>2, <3>3, <3>4, <3>5, Zenon
  <2>14. i = j
    BY <2>4, <2>6, <2>8, <2>11, <2>13, MembersOf
  <2>15. QED
    BY <2>3, <2>4, <2>14
<1>2. QED
  BY <1>1, MembersOf

\* Neither do two properties of an event come under one key: flatten_properties keeps
\* plain keys apart, however deep they are.
THEOREM KeysDiffer ==
  ASSUME NEW ms, Document(ms), AllPlain(ms),
         NEW i \in Supported(ms), NEW j \in Supported(ms),
         Flatten(ms)[i].key = Flatten(ms)[j].key
  PROVE  i = j
<1>1. i \in 1..Len(ms) /\ j \in 1..Len(ms)
  BY MembersOf DEF Supported
<1>2. PICK p \in 0..Len(ms), q \in 0..Len(ms) : p = ms[i].parent /\ q = ms[j].parent
  BY <1>1, MembersOf
<1>3. PICK P \in Seq(Char), Q \in Seq(Char) : P = Prefixes(ms)[p] /\ Q = Prefixes(ms)[q]
  BY <1>2, PrefixesOf
<1>4. PICK k \in Seq(Char), l \in Seq(Char) :
        k = ms[i].key /\ l = ms[j].key /\ Plain(k) /\ Plain(l)
  BY <1>1, MembersOf DEF AllPlain
<1>5. P \o k = Q \o l
  BY <1>2, <1>3, <1>4 DEF Flatten
<1>6. P = Q /\ k = l
  <2>1. Closed(P) /\ Closed(Q)
    BY <1>3, PrefixesClosed
  <2>2. Divided(P, k, Q, l)
    BY <1>5 DEF Divided
  <2>3. QED
    BY <1>4, <2>1, <2>2, PrefixAndKey
<1>7. p = q
  BY <1>3, <1>6, PrefixesDiffer
<1>8. QED
  BY <1>1, <1>2, <1>4, <1>6, <1>7, MembersOf

\* Parentheses in sequences that are put together.
Grouping(s, t, u) == (s \o t) \o u = s \o (t \o u)

Grouped(b, j, k, e, P) ==
  P = b \o j => ((P \o P) \o k) \o e = (P \o b) \o ((j \o k) \o e)

\* A prefix that has been repeated, with the parentheses around the path's last part.
LEMMA Regroup == \A b, j, k, e, P \in Seq(Char) : Grouped(b, j, k, e, P)
<1>1. SUFFICES ASSUME NEW b \in Seq(Char), NEW j \in Seq(Char), NEW k \in Seq(Char),
                      NEW e \in Seq(Char), NEW P \in Seq(Char), P = b \o j
               PROVE  ((P \o P) \o k) \o e = (P \o b) \o ((j \o k) \o e)
  BY DEF Grouped
<1>2. PICK u \in Seq(Char), v \in Seq(Char) : u = P \o b /\ v = j \o k
  <2>1. \A s, t \in Seq(Char) : s \o t \in Seq(Char)
    OBVIOUS
  <2>2. QED
    BY <2>1
<1>3. \A s, t, r \in Seq(Char) : Grouping(s, t, r)
  BY Associative DEF Grouping
<1>4. Grouping(P, b, j) /\ Grouping(u, j, k) /\ Grouping(u, v, e)
  BY <1>3
<1>5. P \o P = u \o j /\ (u \o j) \o k = u \o v /\ (u \o v) \o e = u \o (v \o e)
  BY <1>1, <1>2, <1>4, Zenon DEF Grouping
<1>6. QED
  BY <1>2, <1>5, Zenon

\* The prefix that a member passes on is its path and a separator, after the prefixes
\* that are repeated.
Repeated(ms, n, b) == Prefixes(ms)[n] = b \o (Joined(ms)[n] \o Separator)

\* Every prefix ends so, and on the first level it is nothing more.
LEMMA PrefixEnds ==
  ASSUME NEW ms, Document(ms), NEW n \in 1..Len(ms)
  PROVE  /\ \E b \in Seq(Char) : Repeated(ms, n, b)
         /\ ms[n].parent = 0 => Prefixes(ms)[n] = Joined(ms)[n] \o Separator
<1>1. ASSUME NEW o \in 1..Len(ms), ms[o].parent = 0
      PROVE  Prefixes(ms)[o] = Joined(ms)[o] \o Separator
  <2>1. Prefixes(ms)[0] = <<>> /\ ms[o].key \in Seq(Char) /\ Joined(ms)[o] = ms[o].key
    BY <1>1, MembersOf, PrefixesOf, JoinedOf DEF PathTo
  <2>2. Prefixes(ms)[o] = ((<<>> \o <<>>) \o ms[o].key) \o Separator
    BY <1>1, <2>1, PrefixParts
  <2>3. (<<>> \o <<>>) \o ms[o].key = ms[o].key
    BY <2>1
  <2>4. QED
    BY <2>1, <2>2, <2>3
<1> DEFINE T == {o \in 1..Len(ms) : ~ \E b \in Seq(Char) : Repeated(ms, o, b)}
<1>2. T = {}
  <2>1. SUFFICES ASSUME T # {} PROVE FALSE
    OBVIOUS
  <2>2. PICK o \in T : \A u \in T : o <= u
    <3>1. T \in SUBSET Nat
      OBVIOUS
    <3> HIDE DEF T
    <3>2. QED
      BY <2>1, <3>1, LeastNumber
  <2>3. ms[o].parent # 0
    <3>1. SUFFICES ASSUME ms[o].parent = 0 PROVE \E b \in Seq(Char) : Repeated(ms, o, b)
      BY <2>2
    <3>2. PICK s \in Seq(Char) : s = Joined(ms)[o] \o Separator
      <4>1. \A t, u \in Seq(Char) : t \o u \in Seq(Char)
        OBVIOUS
      <4>2. Joined(ms)[o] \in Seq(Char)
        BY JoinedOf
      <4>3. QED
        BY <4>1, <4>2, SeparatorOf
    <3>3. <<>> \in Seq(Char) /\ <<>> \o s = s
      OBVIOUS
    <3>4. Repeated(ms, o, <<>>)
      BY <1>1, <3>1, <3>2, <3>3 DEF Repeated
    <3>5. QED
      BY <3>3, <3>4
  <2>4. PICK p \in 1..Len(ms) : p = ms[o].parent /\ p < o
    BY <2>3, MembersOf
  <2>5. PICK b \in Seq(Char) : Repeated(ms, p, b)
    BY <2>2, <2>4
  <2>6. PICK P \in Seq(Char), J \in Seq(Char), k \in Seq(Char) :
          P = Prefixes(ms)[p] /\ J = Joined(ms)[p] /\ k = ms[o].key
    BY MembersOf, PrefixesOf, JoinedOf
  <2>7. PICK j \in Seq(Char) : j = J \o Separator
    <3>1. \A t, u \in Seq(Char) : t \o u \in Seq(Char)
      OBVIOUS
    <3>2. QED
      BY <3>1, SeparatorOf
  <2>8. P = b \o j
    BY <2>5, <2>6, <2>7 DEF Repeated
  <2>9. Prefixes(ms)[o] = ((P \o P) \o k) \o Separator
    BY <2>4, <2>6, PrefixParts
  <2>10. Joined(ms)[o] = j \o k
    BY <2>3, <2>4, <2>6, <2>7, JoinedOf DEF PathTo
  <2>11. Prefixes(ms)[o] = (P \o b) \o ((j \o k) \o Separator)
    <3>1. PICK e \in Seq(Char) : e = Separator
      BY SeparatorOf
    <3>2. ((P \o P) \o k) \o e = (P \o b) \o ((j \o k) \o e)
      <4>1. Grouped(b, j, k, e, P)
        BY Regroup
      <4>2. QED
        BY <2>8, <4>1, Zenon DEF Grouped
    <3>3. QED
      BY <2>9, <3>1, <3>2, Zenon
  <2>12. P \o b \in Seq(Char)
    OBVIOUS
  <2>13. QED
    BY <2>10, <2>11, <2>12 DEF Repeated
<1>3. QED
  BY <1>1, <1>2

\* What comes last is at the end.
LEMMA LastIsEnd == \A b, e \in Seq(Char) : EndsWith(b \o e, e) /\ EndsWith(e, e)
<1> TAKE b, e \in Seq(Char)
<1>1. /\ Len(b) \in Nat /\ Len(e) \in Nat /\ Len(b \o e) = Len(b) + Len(e)
      /\ DOMAIN e = 1..Len(e) /\ \A i \in 1..Len(e) : (b \o e)[Len(b) + i] = e[i]
  BY Concat
<1>2. Len(b \o e) - Len(e) = Len(b) /\ Len(e) <= Len(b \o e)
  BY <1>1
<1>3. EndsWith(b \o e, e)
  BY <1>1, <1>2, Zenon DEF EndsWith
<1>4. Len(e) - Len(e) = 0 /\ \A i \in 1..Len(e) : 0 + i = i
  BY <1>1
<1>5. EndsWith(e, e)
  BY <1>1, <1>4 DEF EndsWith
<1>6. QED
  BY <1>3, <1>5

\* The key that flatten_properties gives a property ends with its path, joined, and is
\* no more than that where the object it is in is one of the event's own.
THEOREM KeysEnd ==
  ASSUME NEW ms, Document(ms), NEW n \in Supported(ms)
  PROVE  /\ EndsWith(Flatten(ms)[n].key, Joined(ms)[n])
         /\ ms[n].parent = 0 \/ ms[ms[n].parent].parent = 0 =>
              Flatten(ms)[n].key = Joined(ms)[n]
<1>1. n \in 1..Len(ms) /\ Flatten(ms)[n].key = Prefixes(ms)[ms[n].parent] \o ms[n].key
  BY MembersOf DEF Supported, Flatten
<1>2. PICK k \in Seq(Char) : k = ms[n].key
  BY <1>1, MembersOf
<1>3. PICK J \in Seq(Char) : J = Joined(ms)[n]
  BY <1>1, JoinedOf
<1>4. CASE ms[n].parent = 0
  <2>1. J = k
    BY <1>1, <1>2, <1>3, <1>4, JoinedOf DEF PathTo
  <2>2. Prefixes(ms)[0] = <<>> /\ <<>> \o k = k
    BY PrefixesOf
  <2>3. QED
    BY <1>1, <1>2, <1>3, <1>4, <2>1, <2>2, LastIsEnd
<1>5. CASE ms[n].parent # 0
  <2>1. PICK p \in 1..Len(ms) : p = ms[n].parent
    BY <1>1, <1>5, MembersOf
  <2>2. PICK b \in Seq(Char) : Repeated(ms, p, b)
    BY PrefixEnds
  <2>3. PICK j \in Seq(Char) : j = Joined(ms)[p] \o Separator
    <3>1. \A t, u \in Seq(Char) : t \o u \in Seq(Char)
      OBVIOUS
    <3>2. Joined(ms)[p] \in Seq(Char)
      BY JoinedOf
    <3>3. QED
      BY <3>1, <3>2, SeparatorOf
  <2>4. J = j \o k
    BY <1>1, <1>2, <1>3, <1>5, <2>1, <2>3, JoinedOf DEF PathTo
  <2>5. Flatten(ms)[n].key = (b \o j) \o k
    BY <1>1, <1>2, <2>1, <2>2, <2>3 DEF Repeated
  <2>6. Flatten(ms)[n].key = b \o J
    BY <2>4, <2>5, Associative
  <2>7. ms[p].parent = 0 => Flatten(ms)[n].key = J
    BY <1>1, <1>2, <2>1, <2>3, <2>4, PrefixEnds
  <2>8. QED
    BY <1>3, <1>5, <2>1, <2>6, <2>7, LastIsEnd
<1>6. QED
  BY <1>4, <1>5

-----------------------------------------------------------------------------
(* Numbers.                                                                *)

\* Division by the distances of f64s.
LEMMA Divide ==
  ASSUME NEW n \in Int, NEW u \in Ulps
  PROVE  /\ u \in Nat \ {0} /\ n \div u \in Int /\ n % u \in 0..(u - 1)
         /\ n = (n \div u) * u + (n % u)
<1>1. u \in Nat \ {0}
  BY DEF Ulps
<1>2. QED
  BY <1>1

\* What has been rounded divides.
LEMMA Multiple == \A d \in Int : \A u \in Nat \ {0} : (d * u) % u = 0
OBVIOUS

\* What is assumed of f64s.
LEMMA ExactIs == Exact \in Nat \ {0}
BY BatchAssumption

\* The distance of f64s around a number is the least that reaches it.
LEMMA UlpOf ==
  ASSUME NEW n \in (-2048 * Exact)..(2048 * Exact)
  PROVE  /\ Ulp(n) \in Ulps /\ Magnitude(n) <= Ulp(n) * Exact
         /\ \A w \in Ulps : w < Ulp(n) => w * Exact < Magnitude(n)
<1>1. Exact \in Nat
  BY ExactIs
<1>2. n \in Int /\ Magnitude(n) \in Nat /\ Magnitude(n) <= 2048 * Exact
  BY <1>1 DEF Magnitude
<1> DEFINE T == {u \in Ulps : Magnitude(n) <= u * Exact}
<1>3. T \in SUBSET Nat /\ 2048 \in T
  BY <1>2 DEF Ulps
<1>4. PICK u \in T : \A w \in T : u <= w
  <2> HIDE DEF T
  <2>1. QED
    BY <1>3, LeastNumber
<1>5. \A w \in Ulps : w * Exact \in Nat /\ w \in Nat
  BY <1>1 DEF Ulps
<1>6. \A w \in Ulps : w < u => w * Exact < Magnitude(n)
  <2> SUFFICES ASSUME NEW w \in Ulps, w < u PROVE w * Exact < Magnitude(n)
    OBVIOUS
  <2>1. w \notin T
    BY <1>3, <1>4, <1>5
  <2>2. ~(Magnitude(n) <= w * Exact)
    BY <2>1
  <2>3. QED
    BY <1>2, <1>5, <2>2
<1>7. u \in Ulps /\ Magnitude(n) <= u * Exact
  OBVIOUS
<1>8. \E w \in Ulps : /\ Magnitude(n) <= w * Exact
                      /\ \A x \in Ulps : x < w => x * Exact < Magnitude(n)
  BY <1>6, <1>7
<1>9. QED
  BY <1>8 DEF Ulp

\* An integer of 64 bits becomes the nearest f64, itself up to Exact (flatten_properties).
THEOREM NumbersArrive ==
  ASSUME NEW n \in (-2048 * Exact)..(2048 * Exact)
  PROVE  IF n \in (-Exact)..Exact THEN Float(n) = n
         ELSE \E u \in Ulps :
                /\ Magnitude(n) <= u * Exact /\ u * Exact < 2 * Magnitude(n)
                /\ Float(n) % u = 0 /\ 2 * Magnitude(Float(n) - n) <= u
<1>1. Exact \in Nat \ {0}
  BY ExactIs
<1> DEFINE u     == Ulp(n)
           below == n \div u
           over  == n % u
<1>2. /\ u \in Ulps /\ Magnitude(n) <= u * Exact
      /\ \A w \in Ulps : w < u => w * Exact < Magnitude(n)
  BY UlpOf
<1>3. n \in Int
  BY <1>1
<1>4. /\ u \in Nat \ {0} /\ below \in Int /\ over \in 0..(u - 1)
      /\ n = below * u + over
  <2> HIDE DEF u
  <2>1. QED
    BY <1>2, <1>3, Divide
<1>5. Float(n) = IF 2 * over < u \/ (2 * over = u /\ below % 2 = 0)
                   THEN below * u ELSE (below + 1) * u
  BY DEF Float
<1> HIDE DEF u, below, over
<1>6. \/ Float(n) = below * u /\ 2 * over <= u
      \/ Float(n) = (below + 1) * u /\ 2 * over >= u
  BY <1>4, <1>5
<1>7. CASE n \in (-Exact)..Exact
  <2>1. u = 1
    <3>1. 1 \in Ulps /\ Magnitude(n) <= Exact /\ Magnitude(n) \in Int /\ u >= 1
      BY <1>1, <1>3, <1>4, <1>7 DEF Ulps, Magnitude
    <3>2. 1 < u => 1 * Exact < Magnitude(n)
      BY <1>2, <3>1
    <3>3. QED
      BY <1>1, <1>4, <3>1, <3>2
  <2>2. below = n /\ over = 0
    BY <1>3, <1>4, <2>1
  <2>3. Float(n) = n
    BY <1>3, <1>6, <2>1, <2>2
  <2>4. QED
    BY <1>7, <2>3
<1>8. CASE n \notin (-Exact)..Exact
  <2>1. Magnitude(n) > Exact /\ Magnitude(n) \in Nat
    BY <1>1, <1>3, <1>8 DEF Magnitude
  <2>2. u # 1
    BY <1>1, <1>2, <2>1
  <2>3. PICK w \in Ulps : u = 2 * w /\ w < u
    BY <1>2, <2>2 DEF Ulps
  <2>4. u * Exact < 2 * Magnitude(n)
    <3>1. w * Exact < Magnitude(n) /\ w \in Nat
      BY <1>2, <2>3 DEF Ulps
    <3>2. u * Exact = 2 * (w * Exact)
      BY <1>1, <2>3, <3>1
    <3>3. w * Exact \in Nat
      BY <1>1, <3>1
    <3>4. QED
      BY <2>1, <3>1, <3>2, <3>3
  <2>5. Float(n) % u = 0
    <3>1. below + 1 \in Int
      BY <1>4
    <3>2. (below * u) % u = 0 /\ ((below + 1) * u) % u = 0
      BY <1>4, <3>1, Multiple
    <3>3. QED
      BY <1>6, <3>2
  <2>6. 2 * Magnitude(Float(n) - n) <= u
    <3>1. below * u \in Int /\ (below + 1) * u = below * u + u
      BY <1>4
    <3>2. QED
      BY <1>3, <1>4, <1>6, <3>1 DEF Magnitude
  <2>7. QED
    BY <1>2, <1>8, <2>4, <2>5, <2>6
<1>9. QED
  BY <1>7, <1>8
=============================================================================
