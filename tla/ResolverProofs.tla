--------------------------- MODULE ResolverProofs ---------------------------
(***************************************************************************)
(* For every zone, every edit on the way and every request: the answer is  *)
(* one chain of CNAMEs, a failure is not passed off as a fact about the    *)
(* zone, the lookup tree agrees with RFC 4592, and the addresses given are *)
(* those the filters of a record set promise.                              *)
(***************************************************************************)
EXTENDS Resolver, FiniteSetTheorems, NaturalsInduction, TLAPS

-----------------------------------------------------------------------------
(* Sequences, whatever their elements are. *)

IsSeq(s) == s \in Seq({s[i] : i \in DOMAIN s})

\* A sequence is a function on 1..n, and such a function is a sequence.
LEMMA SeqDomain == ASSUME NEW s, IsSeq(s) PROVE Len(s) \in Nat /\ DOMAIN s = 1..Len(s) /\ s = [i \in 1..Len(s) |-> s[i]]
BY DEF IsSeq

\* A function on 1..n is a sequence.
LEMMA SeqIntro ==
    ASSUME NEW s, NEW n \in Nat, s = [i \in 1..n |-> s[i]]
    PROVE  IsSeq(s) /\ Len(s) = n /\ DOMAIN s = 1..n
<1> DEFINE I == {s[i] : i \in DOMAIN s}
<1>1. DOMAIN s = 1..n
  OBVIOUS
<1>2. \A i \in 1..n : s[i] \in I
  BY <1>1
<1> HIDE DEF I
<1>3. s \in [1..n -> I]
  BY <1>2
<1>4. s \in Seq(I) /\ Len(s) = n
  BY <1>3
<1> QED BY <1>1, <1>4 DEF IsSeq, I

\* A sequence over any set is one.
LEMMA SeqOfSet == ASSUME NEW S, NEW s \in Seq(S) PROVE IsSeq(s)
<1>1. Len(s) \in Nat /\ s = [i \in 1..Len(s) |-> s[i]]
  OBVIOUS
<1> QED BY <1>1, SeqIntro

\* The empty sequence.
LEMMA EmptyIsSeq == ASSUME NEW s, s = <<>> PROVE IsSeq(s) /\ Len(s) = 0 /\ DOMAIN s = {}
<1>1. s \in Seq({}) /\ Len(s) = 0
  OBVIOUS
<1>2. IsSeq(s)
  BY <1>1, SeqOfSet
<1>3. DOMAIN s = 1..0
  BY <1>1
<1>4. 1..0 = {}
  OBVIOUS
<1> QED BY <1>1, <1>2, <1>3, <1>4

\* A sequence of no elements is the empty one.
LEMMA NoElements == ASSUME NEW s, IsSeq(s), Len(s) = 0 PROVE s = <<>>
<1> DEFINE S == {s[i] : i \in DOMAIN s}
<1>1. s \in Seq(S)
  BY DEF IsSeq
<1> HIDE DEF S
<1> QED BY <1>1

\* One element.
LEMMA OneSeq == ASSUME NEW x PROVE IsSeq(<<x>>) /\ Len(<<x>>) = 1 /\ <<x>>[1] = x /\ DOMAIN <<x>> = 1..1
<1>1. <<x>> \in Seq({x}) /\ Len(<<x>>) = 1 /\ <<x>>[1] = x
  OBVIOUS
<1> QED BY <1>1, SeqOfSet, SeqDomain

\* Append.
LEMMA AppendSeq ==
    ASSUME NEW s, IsSeq(s), NEW x
    PROVE  /\ IsSeq(Append(s, x)) /\ Len(Append(s, x)) = Len(s) + 1
           /\ \A i \in 1..Len(s) : Append(s, x)[i] = s[i]
           /\ Append(s, x)[Len(s) + 1] = x
<1> DEFINE S == {s[i] : i \in DOMAIN s} \union {x}
<1>1. s \in Seq(S) /\ x \in S
  BY DEF IsSeq
<1> HIDE DEF S
<1>2. Append(s, x) \in Seq(S) /\ Len(Append(s, x)) = Len(s) + 1
      /\ (\A i \in 1..Len(s) : Append(s, x)[i] = s[i]) /\ Append(s, x)[Len(s) + 1] = x
  BY <1>1
<1> QED BY <1>2, SeqOfSet

\* Concatenation.
LEMMA ConcatSeq ==
    ASSUME NEW s, IsSeq(s), NEW t, IsSeq(t)
    PROVE  /\ IsSeq(s \o t) /\ Len(s \o t) = Len(s) + Len(t)
           /\ \A i \in 1..Len(s) : (s \o t)[i] = s[i]
           /\ \A i \in 1..Len(t) : (s \o t)[Len(s) + i] = t[i]
<1> DEFINE S == {s[i] : i \in DOMAIN s} \union {t[i] : i \in DOMAIN t}
<1>1. s \in Seq(S) /\ t \in Seq(S)
  BY DEF IsSeq
<1> HIDE DEF S
<1>2. s \o t \in Seq(S) /\ Len(s \o t) = Len(s) + Len(t)
  BY <1>1
<1>3. \A i \in 1..Len(s) : (s \o t)[i] = s[i]
  BY <1>1
<1>4. \A i \in 1..Len(t) : (s \o t)[Len(s) + i] = t[i]
  BY <1>1
<1> QED BY <1>2, <1>3, <1>4, SeqOfSet

\* Concatenation, Append and the sequence of one element as opaque operators, and the
\* elements of a sequence.
Cat(s, t) == s \o t
Add(s, x) == Append(s, x)
One(x) == <<x>>
Elems(s) == {s[i] : i \in DOMAIN s}

\* One more element.
LEMMA AddIs ==
    ASSUME NEW s, IsSeq(s), NEW x
    PROVE  /\ IsSeq(Add(s, x)) /\ Len(Add(s, x)) = Len(s) + 1
           /\ \A i \in 1..Len(s) : Add(s, x)[i] = s[i]
           /\ Add(s, x)[Len(s) + 1] = x
BY AppendSeq DEF Add

\* The elements are those before and the new one.
LEMMA AddElems == ASSUME NEW s, IsSeq(s), NEW x PROVE Elems(Add(s, x)) = Elems(s) \union {x}
<1>1. PICK a : a = Add(s, x)
  OBVIOUS
<1>2. /\ IsSeq(a) /\ Len(a) = Len(s) + 1
      /\ \A i \in 1..Len(s) : a[i] = s[i]
      /\ a[Len(s) + 1] = x
  BY <1>1, AddIs
<1>3. Len(s) \in Nat /\ DOMAIN s = 1..Len(s)
  BY SeqDomain
<1>4. DOMAIN a = 1..Len(s) + 1
  BY <1>2, SeqDomain
<1>5. DOMAIN a = DOMAIN s \union {Len(s) + 1}
  BY <1>3, <1>4
<1>6. \A i \in DOMAIN s : a[i] = s[i]
  BY <1>2, <1>3
<1>7. Elems(a) = Elems(s) \union {x}
  BY <1>2, <1>5, <1>6 DEF Elems
<1> QED BY <1>1, <1>7

\* Two sequences in a row.
LEMMA CatIs == ASSUME NEW s, IsSeq(s), NEW t, IsSeq(t) PROVE IsSeq(Cat(s, t)) /\ Len(Cat(s, t)) = Len(s) + Len(t)
BY ConcatSeq DEF Cat

\* The elements of the first.
LEMMA CatLeft == ASSUME NEW s, IsSeq(s), NEW t, IsSeq(t) PROVE \A i \in 1..Len(s) : Cat(s, t)[i] = s[i]
BY ConcatSeq DEF Cat

\* The elements of the second.
LEMMA CatRight == ASSUME NEW s, IsSeq(s), NEW t, IsSeq(t) PROVE \A i \in 1..Len(t) : Cat(s, t)[Len(s) + i] = t[i]
BY ConcatSeq DEF Cat

\* The elements of both.
LEMMA CatElems == ASSUME NEW s, IsSeq(s), NEW t, IsSeq(t) PROVE Elems(Cat(s, t)) = Elems(s) \union Elems(t)
<1>1. PICK a : a = Cat(s, t)
  OBVIOUS
<1>2. IsSeq(a) /\ Len(a) = Len(s) + Len(t)
  BY <1>1, CatIs
<1>3. \A i \in 1..Len(s) : a[i] = s[i]
  BY <1>1, CatLeft
<1>4. \A i \in 1..Len(t) : a[Len(s) + i] = t[i]
  BY <1>1, CatRight
<1>5. Len(s) \in Nat /\ DOMAIN s = 1..Len(s) /\ Len(t) \in Nat /\ DOMAIN t = 1..Len(t)
  BY SeqDomain
<1>6. DOMAIN a = 1..Len(s) + Len(t)
  BY <1>2, SeqDomain
<1>7. ASSUME NEW x \in Elems(s) PROVE x \in Elems(a)
  <2>1. PICK i \in 1..Len(s) : x = s[i]
    BY <1>5 DEF Elems
  <2>2. i \in DOMAIN a /\ a[i] = x
    BY <1>3, <1>5, <1>6, <2>1
  <2> QED BY <2>2 DEF Elems
<1>8. ASSUME NEW x \in Elems(t) PROVE x \in Elems(a)
  <2>1. PICK i \in 1..Len(t) : x = t[i]
    BY <1>5 DEF Elems
  <2>2. Len(s) + i \in DOMAIN a /\ a[Len(s) + i] = x
    BY <1>4, <1>5, <1>6, <2>1
  <2> QED BY <2>2 DEF Elems
<1>9. ASSUME NEW x \in Elems(a) PROVE x \in Elems(s) \union Elems(t)
  <2>1. PICK i \in 1..Len(s) + Len(t) : x = a[i]
    BY <1>6 DEF Elems
  <2>2. CASE i <= Len(s)
    <3>1. i \in 1..Len(s)
      BY <1>5, <2>1, <2>2
    <3>2. x = s[i] /\ i \in DOMAIN s
      BY <1>3, <1>5, <2>1, <3>1
    <3> QED BY <3>2 DEF Elems
  <2>3. CASE i > Len(s)
    <3>1. PICK k : k = i - Len(s)
      OBVIOUS
    <3>2. k \in 1..Len(t) /\ i = Len(s) + k
      BY <1>5, <2>1, <2>3, <3>1
    <3>3. x = t[k] /\ k \in DOMAIN t
      BY <1>4, <1>5, <2>1, <3>2
    <3> QED BY <3>3 DEF Elems
  <2> QED BY <1>5, <2>1, <2>2, <2>3
<1>10. Elems(a) = Elems(s) \union Elems(t)
  BY <1>7, <1>8, <1>9
<1> QED BY <1>1, <1>10

\* One element, and none.
LEMMA OneIs == ASSUME NEW x PROVE IsSeq(One(x)) /\ Len(One(x)) = 1 /\ One(x)[1] = x /\ Elems(One(x)) = {x} /\ One(x) # <<>>
<1>1. IsSeq(One(x)) /\ Len(One(x)) = 1 /\ One(x)[1] = x /\ DOMAIN One(x) = 1..1
  BY OneSeq DEF One
<1>2. 1..1 = {1}
  OBVIOUS
<1>3. Elems(One(x)) = {x}
  BY <1>1, <1>2 DEF Elems
<1>4. One(x) # <<>>
  BY <1>1, EmptyIsSeq
<1> QED BY <1>1, <1>3, <1>4

\* None.
LEMMA NoElems == ASSUME NEW s, s = <<>> PROVE IsSeq(s) /\ Len(s) = 0 /\ Elems(s) = {}
BY EmptyIsSeq DEF Elems

\* Nothing is added by nothing.
LEMMA CatNothing == ASSUME NEW s, IsSeq(s), NEW t, t = <<>> PROVE Cat(s, t) = s /\ Cat(t, s) = s
<1> DEFINE S == {s[i] : i \in DOMAIN s}
<1>1. s \in Seq(S)
  BY DEF IsSeq
<1> HIDE DEF S
<1>2. s \o <<>> = s /\ <<>> \o s = s
  BY <1>1
<1> QED BY <1>2 DEF Cat

-----------------------------------------------------------------------------
(* Prefixes of sequences, element by element. *)

\* Sequences with the same elements are the same.
LEMMA SameSeq ==
    ASSUME NEW S, NEW s \in Seq(S), NEW t \in Seq(S), Len(s) = Len(t), \A i \in 1..Len(s) : s[i] = t[i]
    PROVE  s = t
<1>1. s = [i \in 1..Len(s) |-> s[i]] /\ t = [i \in 1..Len(t) |-> t[i]]
  OBVIOUS
<1> QED BY <1>1

\* The first elements of a sequence.
LEMMA FirstElements ==
    ASSUME NEW S, NEW s \in Seq(S), NEW n \in 0..Len(s)
    PROVE  SubSeq(s, 1, n) \in Seq(S) /\ Len(SubSeq(s, 1, n)) = n /\ \A i \in 1..n : SubSeq(s, 1, n)[i] = s[i]
OBVIOUS

\* IsPrefix compares the elements.
LEMMA PrefixElements ==
    ASSUME NEW S, NEW s \in Seq(S), NEW t \in Seq(S)
    PROVE  IsPrefix(s, t) <=> Len(s) <= Len(t) /\ \A i \in 1..Len(s) : s[i] = t[i]
<1>0. Len(s) \in Nat /\ Len(t) \in Nat
  OBVIOUS
<1>1. SubSeq(s, 1, Len(s)) = s
  OBVIOUS
<1>2. CASE Len(s) <= Len(t)
  <2>1. /\ SubSeq(t, 1, Len(s)) \in Seq(S) /\ Len(SubSeq(t, 1, Len(s))) = Len(s)
        /\ \A i \in 1..Len(s) : SubSeq(t, 1, Len(s))[i] = t[i]
    BY <1>0, <1>2, FirstElements
  <2>2. ASSUME \A i \in 1..Len(s) : s[i] = t[i] PROVE s = SubSeq(t, 1, Len(s))
    BY <2>1, <2>2, SameSeq
  <2>3. ASSUME s = SubSeq(t, 1, Len(s)) PROVE \A i \in 1..Len(s) : s[i] = t[i]
    BY <2>1, <2>3
  <2> QED BY <1>1, <1>2, <2>2, <2>3 DEF IsPrefix
<1>3. CASE ~ (Len(s) <= Len(t))
  BY <1>3 DEF IsPrefix
<1> QED BY <1>2, <1>3

\* The two directions of it.
LEMMA PrefixMeans ==
    ASSUME NEW S, NEW s \in Seq(S), NEW t \in Seq(S), IsPrefix(s, t)
    PROVE  Len(s) <= Len(t) /\ \A i \in 1..Len(s) : s[i] = t[i]
BY PrefixElements

\* The other direction.
LEMMA PrefixIntro ==
    ASSUME NEW S, NEW s \in Seq(S), NEW t \in Seq(S), Len(s) <= Len(t), \A i \in 1..Len(s) : s[i] = t[i]
    PROVE  IsPrefix(s, t)
BY PrefixElements

\* Prefixes are the sequences that IsPrefix accepts.
LEMMA PrefixesElements ==
    ASSUME NEW S, NEW t \in Seq(S)
    PROVE  \A s : s \in Prefixes(t) <=> s \in Seq(S) /\ IsPrefix(s, t)
<1> TAKE s
<1>0. Len(t) \in Nat
  OBVIOUS
<1>1. ASSUME s \in Prefixes(t) PROVE s \in Seq(S) /\ IsPrefix(s, t)
  <2>1. PICK n \in 0..Len(t) : s = SubSeq(t, 1, n)
    BY <1>1 DEF Prefixes
  <2>2. s \in Seq(S) /\ Len(s) = n /\ \A i \in 1..n : s[i] = t[i]
    BY <2>1, FirstElements
  <2> QED BY <1>0, <2>2, PrefixElements
<1>2. ASSUME s \in Seq(S), IsPrefix(s, t) PROVE s \in Prefixes(t)
  <2>1. Len(s) \in 0..Len(t) /\ \A i \in 1..Len(s) : s[i] = t[i]
    BY <1>0, <1>2, PrefixElements
  <2>2. s = SubSeq(t, 1, Len(s))
    BY <1>2, <2>1, FirstElements, SameSeq
  <2> QED BY <2>1, <2>2 DEF Prefixes
<1> QED BY <1>1, <1>2

\* Two prefixes of one sequence are told apart by their length.
LEMMA PrefixOfLength ==
    ASSUME NEW S, NEW t \in Seq(S), NEW s \in Seq(S), NEW r \in Seq(S), IsPrefix(s, t), IsPrefix(r, t)
    PROVE  (Len(s) = Len(r) => s = r) /\ (Len(s) <= Len(r) => IsPrefix(s, r))
<1>1. Len(s) \in Nat /\ Len(r) \in Nat /\ Len(t) \in Nat
  OBVIOUS
<1>2. /\ \A i \in 1..Len(s) : s[i] = t[i]
      /\ \A i \in 1..Len(r) : r[i] = t[i]
  BY PrefixElements
<1>3. ASSUME Len(s) <= Len(r) PROVE IsPrefix(s, r)
  <2>1. \A i \in 1..Len(s) : s[i] = r[i]
    BY <1>1, <1>2, <1>3
  <2> QED BY <2>1, <1>3, PrefixElements
<1>4. ASSUME Len(s) = Len(r) PROVE s = r
  BY <1>2, <1>4, SameSeq
<1> QED BY <1>3, <1>4

\* What follows a common beginning.
LEMMA PrefixBehind ==
    ASSUME NEW S, NEW z \in Seq(S), NEW s \in Seq(S), NEW t \in Seq(S)
    PROVE  /\ z \o s \in Seq(S) /\ Len(z \o s) = Len(z) + Len(s)
           /\ IsPrefix(z \o s, z \o t) <=> IsPrefix(s, t)
           /\ IsPrefix(z, z \o s)
           /\ z \o s = z \o t <=> s = t
<1> DEFINE zs == z \o s
           zt == z \o t
<1>1. /\ zs \in Seq(S) /\ Len(zs) = Len(z) + Len(s)
      /\ zt \in Seq(S) /\ Len(zt) = Len(z) + Len(t)
      /\ Len(z) \in Nat /\ Len(s) \in Nat /\ Len(t) \in Nat
  OBVIOUS
<1>2. /\ \A i \in 1..Len(z) : zs[i] = z[i] /\ zt[i] = z[i]
      /\ \A i \in 1..Len(s) : zs[Len(z) + i] = s[i]
      /\ \A i \in 1..Len(t) : zt[Len(z) + i] = t[i]
  OBVIOUS
<1> HIDE DEF zs, zt
<1>3. ASSUME IsPrefix(zs, zt) PROVE IsPrefix(s, t)
  <2>0. zs \in Seq(S) /\ zt \in Seq(S)
    BY <1>1
  <2>1. Len(zs) <= Len(zt) /\ \A i \in 1..Len(zs) : zs[i] = zt[i]
    BY <1>3, <2>0, PrefixMeans
  <2>2. Len(s) <= Len(t)
    BY <1>1, <2>1
  <2>3. ASSUME NEW i \in 1..Len(s) PROVE s[i] = t[i]
    <3>1. Len(z) + i \in 1..Len(zs) /\ i \in 1..Len(t)
      BY <1>1, <2>2
    <3> QED BY <1>2, <2>1, <3>1
  <2> QED BY <2>2, <2>3, PrefixElements
<1>4. ASSUME IsPrefix(s, t) PROVE IsPrefix(zs, zt)
  <2>1. Len(s) <= Len(t) /\ \A i \in 1..Len(s) : s[i] = t[i]
    BY <1>4, PrefixElements
  <2>2. ASSUME NEW i \in 1..Len(zs) PROVE zs[i] = zt[i]
    <3>1. CASE i \in 1..Len(z)
      BY <1>2, <3>1
    <3>2. CASE i \notin 1..Len(z)
      <4>1. i - Len(z) \in 1..Len(s) /\ i - Len(z) \in 1..Len(t) /\ i = Len(z) + (i - Len(z))
        BY <1>1, <2>1, <3>2
      <4> QED BY <1>2, <2>1, <4>1
    <3> QED BY <3>1, <3>2
  <2>3. Len(zs) <= Len(zt)
    BY <1>1, <2>1
  <2> QED BY <1>1, <2>2, <2>3, PrefixElements
<1>5. IsPrefix(z, zs)
  BY <1>1, <1>2, PrefixElements
<1>6. ASSUME zs = zt PROVE s = t
  <2>1. Len(s) = Len(t)
    BY <1>1, <1>6
  <2> QED BY <1>2, <1>6, <2>1, SameSeq
<1> QED BY <1>1, <1>3, <1>4, <1>5, <1>6 DEF zs, zt

\* The elements of a concatenation.
LEMMA CatLength ==
    ASSUME NEW S, NEW z \in Seq(S), NEW s \in Seq(S)
    PROVE  Cat(z, s) \in Seq(S) /\ Len(Cat(z, s)) = Len(z) + Len(s)
BY DEF Cat

\* Those of its first part.
LEMMA CatFirst == ASSUME NEW S, NEW z \in Seq(S), NEW s \in Seq(S) PROVE \A i \in 1..Len(z) : Cat(z, s)[i] = z[i]
BY DEF Cat

\* Those of its second part.
LEMMA CatRest == ASSUME NEW S, NEW z \in Seq(S), NEW s \in Seq(S) PROVE \A i \in 1..Len(s) : Cat(z, s)[Len(z) + i] = s[i]
BY DEF Cat

\* The elements of a longer sequence.
LEMMA AddElements ==
    ASSUME NEW S, NEW s \in Seq(S), NEW x \in S
    PROVE  /\ Add(s, x) \in Seq(S) /\ Len(Add(s, x)) = Len(s) + 1
           /\ \A i \in 1..Len(s) : Add(s, x)[i] = s[i]
           /\ Add(s, x)[Len(s) + 1] = x
BY DEF Add

\* An element at the end of what follows.
LEMMA AddBehind ==
    ASSUME NEW S, NEW z \in Seq(S), NEW p \in Seq(S), NEW x \in S
    PROVE  Add(Cat(z, p), x) = Cat(z, Add(p, x)) /\ Add(p, x) \in Seq(S)
<1>1. PICK s : s = Add(p, x)
  OBVIOUS
<1>2. PICK e : e = Cat(z, p)
  OBVIOUS
<1>3. PICK a : a = Add(e, x)
  OBVIOUS
<1>4. PICK b : b = Cat(z, s)
  OBVIOUS
<1>5. s \in Seq(S) /\ Len(s) = Len(p) + 1 /\ (\A i \in 1..Len(p) : s[i] = p[i]) /\ s[Len(p) + 1] = x
  BY <1>1, AddElements
<1>6. /\ e \in Seq(S) /\ Len(e) = Len(z) + Len(p) /\ Len(z) \in Nat /\ Len(p) \in Nat
      /\ \A i \in 1..Len(z) : e[i] = z[i]
      /\ \A i \in 1..Len(p) : e[Len(z) + i] = p[i]
  <2>1. e \in Seq(S) /\ Len(e) = Len(z) + Len(p)
    BY <1>2, CatLength
  <2>0. Len(z) \in Nat /\ Len(p) \in Nat
    OBVIOUS
  <2>2. \A i \in 1..Len(z) : e[i] = z[i]
    BY <1>2, CatFirst
  <2>3. \A i \in 1..Len(p) : e[Len(z) + i] = p[i]
    BY <1>2, CatRest
  <2> QED BY <2>0, <2>1, <2>2, <2>3
<1>7. /\ a \in Seq(S) /\ Len(a) = Len(e) + 1
      /\ \A i \in 1..Len(e) : a[i] = e[i]
      /\ a[Len(e) + 1] = x
  <2>1. e \in Seq(S)
    BY <1>6
  <2> QED BY <1>3, <2>1, AddElements
<1>8. /\ b \in Seq(S) /\ Len(b) = Len(z) + Len(s)
      /\ \A i \in 1..Len(z) : b[i] = z[i]
      /\ \A i \in 1..Len(s) : b[Len(z) + i] = s[i]
  <2>0. s \in Seq(S)
    BY <1>5
  <2>1. b \in Seq(S) /\ Len(b) = Len(z) + Len(s)
    BY <1>4, <2>0, CatLength
  <2>2. \A i \in 1..Len(z) : b[i] = z[i]
    BY <1>4, <2>0, CatFirst
  <2>3. \A i \in 1..Len(s) : b[Len(z) + i] = s[i]
    BY <1>4, <2>0, CatRest
  <2> QED BY <2>1, <2>2, <2>3
<1>9. ASSUME NEW i \in 1..Len(a) PROVE a[i] = b[i]
  <2>1. CASE i \in 1..Len(z)
    BY <1>6, <1>7, <1>8, <2>1
  <2>2. CASE i = Len(e) + 1
    <3>1. Len(p) + 1 \in 1..Len(s) /\ i = Len(z) + (Len(p) + 1)
      BY <1>5, <1>6, <2>2
    <3>2. b[i] = s[Len(p) + 1]
      BY <1>8, <3>1
    <3> QED BY <1>5, <1>7, <2>2, <3>2
  <2>3. CASE i \notin 1..Len(z) /\ i # Len(e) + 1
    <3>1. PICK k : k = i - Len(z)
      OBVIOUS
    <3>2. k \in 1..Len(p) /\ k \in 1..Len(s) /\ i = Len(z) + k /\ i \in 1..Len(e)
      BY <1>5, <1>6, <1>7, <2>3, <3>1
    <3>3. a[i] = e[i] /\ s[k] = p[k]
      BY <1>5, <1>7, <3>2
    <3>4. e[i] = p[k]
      BY <1>6, <3>2
    <3>5. b[i] = s[k]
      BY <1>8, <3>2
    <3> QED BY <3>3, <3>4, <3>5
  <2> QED BY <2>1, <2>2, <2>3
<1>10. Len(a) = Len(b)
  BY <1>5, <1>6, <1>7, <1>8
<1>11. a = b
  BY <1>7, <1>8, <1>9, <1>10, SameSeq
<1> QED BY <1>1, <1>2, <1>3, <1>4, <1>5, <1>11

\* What follows a common beginning is the same when the wholes are.
LEMMA SameBehind ==
    ASSUME NEW S, NEW z \in Seq(S), NEW s \in Seq(S), NEW t \in Seq(S), Cat(z, s) = Cat(z, t)
    PROVE  s = t
<1>0. Len(z) \in Nat /\ Len(s) \in Nat /\ Len(t) \in Nat
  OBVIOUS
<1>1. Len(Cat(z, s)) = Len(z) + Len(s) /\ Len(Cat(z, t)) = Len(z) + Len(t)
  BY CatLength
<1>2. /\ \A i \in 1..Len(s) : Cat(z, s)[Len(z) + i] = s[i]
      /\ \A i \in 1..Len(t) : Cat(z, t)[Len(z) + i] = t[i]
  BY CatRest
<1>3. Len(s) = Len(t)
  BY <1>0, <1>1
<1>4. ASSUME NEW i \in 1..Len(s) PROVE s[i] = t[i]
  BY <1>2, <1>3
<1> QED BY <1>3, <1>4, SameSeq

\* What is left of a sequence without a prefix of it.
LEMMA Remainder ==
    ASSUME NEW S, NEW z \in Seq(S), NEW q \in Seq(S), IsPrefix(z, q)
    PROVE  /\ SubSeq(q, Len(z) + 1, Len(q)) \in Seq(S)
           /\ Len(SubSeq(q, Len(z) + 1, Len(q))) = Len(q) - Len(z)
           /\ q = z \o SubSeq(q, Len(z) + 1, Len(q))
<1> DEFINE r == SubSeq(q, Len(z) + 1, Len(q))
<1>1. Len(z) \in Nat /\ Len(q) \in Nat /\ Len(z) <= Len(q) /\ \A i \in 1..Len(z) : z[i] = q[i]
  BY PrefixElements
<1>2. /\ r \in Seq(S) /\ Len(r) = Len(q) - Len(z)
      /\ \A i \in 1..Len(r) : r[i] = q[Len(z) + i]
  BY <1>1
<1> HIDE DEF r
<1>3. /\ z \o r \in Seq(S) /\ Len(z \o r) = Len(q)
      /\ \A i \in 1..Len(z) : (z \o r)[i] = z[i]
      /\ \A i \in 1..Len(r) : (z \o r)[Len(z) + i] = r[i]
  BY <1>1, <1>2
<1>4. ASSUME NEW i \in 1..Len(q) PROVE q[i] = (z \o r)[i]
  <2>1. CASE i \in 1..Len(z)
    BY <1>1, <1>3, <2>1
  <2>2. CASE i \notin 1..Len(z)
    <3>1. i - Len(z) \in 1..Len(r) /\ i = Len(z) + (i - Len(z))
      BY <1>1, <1>2, <2>2
    <3> QED BY <1>2, <1>3, <3>1
  <2> QED BY <2>1, <2>2
<1>5. q = z \o r
  BY <1>3, <1>4, SameSeq
<1> QED BY <1>2, <1>5 DEF r

-----------------------------------------------------------------------------
(* The tree of a zone. *)

\* A set of naturals has a least element.
LEMMA LeastNatural ==
    ASSUME NEW T \in SUBSET Nat, T # {}
    PROVE  \E m \in T : \A k \in T : m <= k
<1> DEFINE R == OpToRel(<, Nat)
<1>1. IsWellFoundedOn(R, Nat)
  BY NatLessThanWellFounded
<1>2. \A x, y \in Nat : y < x => <<y, x>> \in R
  BY DEF OpToRel
<1> HIDE DEF R
<1>3. PICK x \in T : \A y \in T : ~ (<<y, x>> \in R)
  BY <1>1, WFMin
<1>4. ASSUME NEW y \in T PROVE x <= y
  <2>1. x \in Nat /\ y \in Nat
    OBVIOUS
  <2>2. ~ (y < x)
    BY <1>2, <1>3, <2>1
  <2> QED BY <2>1, <2>2
<1> QED BY <1>4

\* A bounded one has a greatest.
LEMMA GreatestNatural ==
    ASSUME NEW n \in Nat, NEW T \in SUBSET (0..n), T # {}
    PROVE  \E m \in T : \A k \in T : k <= m
<1> DEFINE U == {n - k : k \in T}
<1>1. U \in SUBSET Nat /\ U # {}
  <2>1. \A k \in T : n - k \in Nat
    OBVIOUS
  <2> QED BY <2>1
<1> HIDE DEF U
<1>2. PICK u \in U : \A v \in U : u <= v
  BY <1>1, LeastNatural
<1>3. PICK m \in T : u = n - m
  BY <1>2 DEF U
<1>4. ASSUME NEW k \in T PROVE k <= m
  <2>1. n - k \in U
    BY DEF U
  <2> QED BY <1>2, <1>3, <2>1
<1> QED BY <1>4

\* The keys of the tree are the names at or above a location.
LEMMA TreeKey ==
    ASSUME NEW L \in SUBSET Seq(STRING), <<>> \notin L, NEW p
    PROVE  p \in TreeKeys(L) <=> p \in Seq(STRING) /\ Len(p) > 0 /\ \E l \in L : IsPrefix(p, l)
<1>1. ASSUME p \in TreeKeys(L) PROVE p \in Seq(STRING) /\ Len(p) > 0 /\ \E l \in L : IsPrefix(p, l)
  <2>1. PICK l \in L : \E i \in DOMAIN l : p = SubSeq(l, 1, i)
    BY <1>1 DEF TreeKeys
  <2>2. PICK i \in DOMAIN l : p = SubSeq(l, 1, i)
    BY <2>1
  <2>3. l \in Seq(STRING) /\ Len(l) \in Nat /\ i \in 1..Len(l)
    OBVIOUS
  <2>4. i \in 0..Len(l)
    BY <2>3
  <2>5. p \in Seq(STRING) /\ Len(p) = i /\ \A j \in 1..i : p[j] = l[j]
    BY <2>2, <2>3, <2>4, FirstElements
  <2>6. IsPrefix(p, l)
    <3>1. Len(p) <= Len(l)
      BY <2>3, <2>5
    <3> QED BY <2>3, <2>5, <3>1, PrefixIntro
  <2> QED BY <2>3, <2>5, <2>6
<1>2. ASSUME p \in Seq(STRING), Len(p) > 0, NEW l \in L, IsPrefix(p, l) PROVE p \in TreeKeys(L)
  <2>1. l \in Seq(STRING) /\ Len(l) \in Nat /\ Len(p) \in Nat /\ DOMAIN l = 1..Len(l)
    BY <1>2
  <2>2. Len(p) <= Len(l) /\ \A i \in 1..Len(p) : p[i] = l[i]
    BY <1>2, <2>1, PrefixMeans
  <2>3. Len(p) \in DOMAIN l /\ Len(p) \in 0..Len(l)
    BY <1>2, <2>1, <2>2
  <2>4. p = SubSeq(l, 1, Len(p))
    <3>1. /\ SubSeq(l, 1, Len(p)) \in Seq(STRING) /\ Len(SubSeq(l, 1, Len(p))) = Len(p)
          /\ \A i \in 1..Len(p) : SubSeq(l, 1, Len(p))[i] = l[i]
      BY <2>1, <2>3, FirstElements
    <3> QED BY <1>2, <2>2, <3>1, SameSeq
  <2> QED BY <2>3, <2>4 DEF TreeKeys
<1> QED BY <1>1, <1>2

\* What the lookup of a trimmed name starts from.
TreePrefix(keys, r) == IF LongestPrefix(keys, r) = {} THEN <<>> ELSE CHOOSE k \in LongestPrefix(keys, r) : TRUE

\* It is the longest key that is a prefix, or nothing.
LEMMA TreePrefixIsLongest ==
    ASSUME NEW keys \in SUBSET Seq(STRING), NEW r \in Seq(STRING)
    PROVE  /\ TreePrefix(keys, r) \in Seq(STRING) /\ IsPrefix(TreePrefix(keys, r), r)
           /\ TreePrefix(keys, r) # <<>> => TreePrefix(keys, r) \in keys
           /\ \A j \in keys : IsPrefix(j, r) => Len(j) <= Len(TreePrefix(keys, r))
<1> DEFINE hits == Prefixes(r) \cap keys
<1>1. \A j : j \in hits <=> j \in keys /\ IsPrefix(j, r)
  BY PrefixesElements
<1>2. LongestPrefix(keys, r) = {k \in hits : \A j \in hits : Len(j) <= Len(k)}
  BY DEF LongestPrefix
<1> HIDE DEF hits
<1>3. CASE LongestPrefix(keys, r) # {}
  <2>1. PICK k \in LongestPrefix(keys, r) : TreePrefix(keys, r) = k
    BY <1>3 DEF TreePrefix
  <2>2. k \in hits /\ \A j \in hits : Len(j) <= Len(k)
    BY <1>2, <2>1
  <2> QED BY <1>1, <2>1, <2>2
<1>4. CASE LongestPrefix(keys, r) = {}
  <2>1. TreePrefix(keys, r) = <<>>
    BY <1>4 DEF TreePrefix
  <2>2. hits = {}
    <3> SUFFICES ASSUME hits # {} PROVE FALSE
      OBVIOUS
    <3> DEFINE T == {Len(j) : j \in hits}
    <3>1. ASSUME NEW j \in hits PROVE Len(j) \in 0..Len(r)
      <4>1. j \in Seq(STRING) /\ IsPrefix(j, r) /\ Len(j) \in Nat /\ Len(r) \in Nat
        BY <1>1
      <4>2. Len(j) <= Len(r)
        BY <4>1, PrefixMeans
      <4> QED BY <4>1, <4>2
    <3>2. T \in SUBSET (0..Len(r)) /\ T # {} /\ Len(r) \in Nat
      <4>1. \A m \in T : m \in 0..Len(r)
        BY <3>1
      <4>2. PICK j \in hits : TRUE
        OBVIOUS
      <4>3. Len(j) \in T
        OBVIOUS
      <4>4. Len(r) \in Nat
        OBVIOUS
      <4> HIDE DEF T
      <4> QED BY <4>1, <4>3, <4>4
    <3>3. PICK m \in T : \A k \in T : k <= m
      <4> HIDE DEF T
      <4> QED BY <3>2, GreatestNatural
    <3>4. PICK k \in hits : m = Len(k)
      BY <3>3
    <3>5. k \in LongestPrefix(keys, r)
      BY <1>2, <3>3, <3>4
    <3> QED BY <1>4, <3>5
  <2>3. ASSUME NEW p, p = <<>> PROVE p \in Seq(STRING) /\ IsPrefix(p, r)
    <3>1. p \in Seq(STRING) /\ Len(p) = 0 /\ Len(r) \in Nat
      BY <2>3
    <3>2. Len(p) <= Len(r) /\ \A i \in 1..Len(p) : p[i] = r[i]
      BY <3>1
    <3> QED BY <3>1, <3>2, PrefixIntro
  <2> QED BY <1>1, <2>1, <2>2, <2>3
<1> QED BY <1>3, <1>4

\* A zone as NewZone makes it.
ZoneBuilt(z) ==
    /\ z.name \in Seq(STRING) /\ z.locations \in SUBSET Seq(STRING) /\ <<>> \notin z.locations
    /\ z.tree = TreeKeys(z.locations)

\* Below the zone a name exists when it is a key of the tree.
LEMMA ExistsIsKey ==
    ASSUME NEW z, ZoneBuilt(z), NEW r \in Seq(STRING)
    PROVE  NameExists(z, z.name \o r) <=> (Len(r) = 0 \/ r \in z.tree)
<1>1. z.name \in Seq(STRING) /\ z.locations \in SUBSET Seq(STRING) /\ <<>> \notin z.locations
  BY DEF ZoneBuilt
<1>2. z.name \o r = z.name <=> Len(r) = 0
  <2>1. Len(z.name \o r) = Len(z.name) + Len(r) /\ Len(r) \in Nat /\ Len(z.name) \in Nat
    BY <1>1
  <2>2. ASSUME Len(r) = 0 PROVE z.name \o r = z.name
    <3>1. r = <<>>
      BY <2>2
    <3> QED BY <1>1, <3>1
  <2> QED BY <2>1, <2>2
<1>3. ASSUME NEW l \in z.locations PROVE IsPrefix(z.name \o r, z.name \o l) <=> IsPrefix(r, l)
  BY <1>1, PrefixBehind
<1>4. r \in z.tree <=> Len(r) > 0 /\ \E l \in z.locations : IsPrefix(r, l)
  BY <1>1, TreeKey DEF ZoneBuilt
<1>5. ASSUME Len(r) = 0 PROVE NameExists(z, z.name \o r)
  BY <1>2, <1>5 DEF NameExists
<1>6. ASSUME Len(r) # 0 PROVE NameExists(z, z.name \o r) <=> r \in z.tree
  <2>1. Len(r) > 0
    BY <1>6
  <2> QED BY <1>2, <1>3, <1>4, <1>6, <2>1 DEF NameExists
<1> QED BY <1>5, <1>6

\* The closest encloser of a name is where its longest prefix in the tree ends.
LEMMA EncloserIsPrefix ==
    ASSUME NEW z, ZoneBuilt(z), NEW r \in Seq(STRING)
    PROVE  ClosestEncloser(z, z.name \o r) = z.name \o TreePrefix(z.tree, r)
<1> DEFINE q == z.name \o r
           p == TreePrefix(z.tree, r)
           e == z.name \o p
<1>1. z.name \in Seq(STRING) /\ z.tree \in SUBSET Seq(STRING)
  BY TreeKey DEF ZoneBuilt
<1>2. /\ p \in Seq(STRING) /\ IsPrefix(p, r) /\ (p # <<>> => p \in z.tree)
      /\ \A j \in z.tree : IsPrefix(j, r) => Len(j) <= Len(p)
  BY <1>1, TreePrefixIsLongest
<1> HIDE DEF p
<1>3. q \in Seq(STRING) /\ e \in Seq(STRING) /\ IsPrefix(e, q) /\ IsPrefix(z.name, e)
      /\ Len(e) = Len(z.name) + Len(p) /\ Len(z.name) \in Nat /\ Len(p) \in Nat
  BY <1>1, <1>2, PrefixBehind
<1>4. NameExists(z, e)
  <2>1. CASE p = <<>>
    <3>1. Len(p) = 0
      BY <2>1
    <3> QED BY <1>2, <3>1, ExistsIsKey
  <2>2. CASE p # <<>>
    BY <1>2, <2>2, ExistsIsKey
  <2> QED BY <2>1, <2>2
<1> HIDE DEF q, e
\* A prefix of the name below the zone is the zone followed by a prefix of the rest.
<1>5. ASSUME NEW m \in Seq(STRING), IsPrefix(m, q), IsPrefix(z.name, m)
      PROVE  \E s \in Seq(STRING) : m = z.name \o s /\ IsPrefix(s, r) /\ Len(m) = Len(z.name) + Len(s)
  <2> DEFINE s == SubSeq(m, Len(z.name) + 1, Len(m))
  <2>1. s \in Seq(STRING) /\ m = z.name \o s
    BY <1>1, <1>5, Remainder
  <2> HIDE DEF s
  <2>2. IsPrefix(z.name \o s, z.name \o r)
    BY <1>5, <2>1 DEF q
  <2>3. IsPrefix(s, r) /\ Len(z.name \o s) = Len(z.name) + Len(s)
    BY <1>1, <2>1, <2>2, PrefixBehind
  <2> QED BY <2>1, <2>3
<1>6. ASSUME NEW m \in Prefixes(q), IsStrictPrefix(e, m) PROVE ~NameExists(z, m)
  <2>1. m \in Seq(STRING) /\ IsPrefix(m, q)
    BY <1>3, <1>6, PrefixesElements
  <2>2. IsPrefix(e, m) /\ e # m
    BY <1>6 DEF IsStrictPrefix
  <2>3. Len(e) <= Len(m) /\ Len(m) \in Nat
    BY <1>3, <2>1, <2>2, PrefixMeans
  <2>4. Len(e) # Len(m)
    BY <1>3, <2>1, <2>2, PrefixOfLength
  <2>5. IsPrefix(z.name, m)
    <3>1. Len(z.name) <= Len(q) /\ IsPrefix(z.name, q)
      BY <1>1, PrefixBehind, PrefixMeans DEF q
    <3>2. Len(z.name) <= Len(m)
      BY <1>3, <2>3
    <3> QED BY <1>1, <1>3, <2>1, <3>1, <3>2, PrefixOfLength
  <2>6. PICK s \in Seq(STRING) : m = z.name \o s /\ IsPrefix(s, r) /\ Len(m) = Len(z.name) + Len(s)
    BY <2>1, <2>5, <1>5
  <2>7. Len(s) > Len(p) /\ Len(s) \in Nat
    BY <1>3, <2>3, <2>4, <2>6
  <2>8. s \notin z.tree /\ Len(s) # 0
    BY <1>2, <1>3, <2>6, <2>7
  <2> QED BY <2>6, <2>8, ExistsIsKey
<1> DEFINE Closest(n) == /\ IsPrefix(z.name, n) /\ NameExists(z, n)
                         /\ \A m \in Prefixes(q) : IsStrictPrefix(n, m) => ~NameExists(z, m)
<1>7. e \in Prefixes(q) /\ Closest(e)
  BY <1>3, <1>4, <1>6, PrefixesElements
<1>8. ASSUME NEW n \in Prefixes(q), Closest(n) PROVE n = e
  <2>1. n \in Seq(STRING) /\ IsPrefix(n, q)
    BY <1>3, PrefixesElements
  <2>2. Len(n) \in Nat /\ Len(e) \in Nat
    BY <1>3, <2>1
  <2>3. CASE Len(n) = Len(e)
    BY <1>3, <2>1, <2>3, PrefixOfLength
  <2>4. CASE Len(n) < Len(e)
    <3>1. IsPrefix(n, e) /\ n # e
      BY <1>3, <2>1, <2>2, <2>4, PrefixOfLength
    <3> QED BY <1>7, <1>8, <3>1 DEF IsStrictPrefix
  <2>5. CASE Len(n) > Len(e)
    <3>1. IsPrefix(e, n) /\ n # e
      BY <1>3, <2>1, <2>2, <2>5, PrefixOfLength
    <3> QED BY <1>6, <1>8, <3>1 DEF IsStrictPrefix
  <2> QED BY <2>2, <2>3, <2>4, <2>5
<1>9. ClosestEncloser(z, q) = CHOOSE n \in Prefixes(q) : Closest(n)
  BY DEF ClosestEncloser
<1> HIDE DEF Closest
<1>10. ClosestEncloser(z, q) = e
  BY <1>7, <1>8, <1>9
<1> QED BY <1>10 DEF q, e, p

\* The child "*" of a name of the zone.
LEMMA StarBehind ==
    ASSUME NEW S, NEW x, NEW n \in Seq(S), NEW p \in Seq(S), NEW L \in SUBSET Seq(S)
    PROVE  (\E l \in L : n \o l = Append(n \o p, x)) <=> Append(p, x) \in L
<1>1. PICK T : T = S \union {x}
  OBVIOUS
<1>2. x \in T /\ n \in Seq(T) /\ p \in Seq(T) /\ \A l \in L : l \in Seq(T)
  BY <1>1
<1>3. Add(Cat(n, p), x) = Cat(n, Add(p, x)) /\ Add(p, x) \in Seq(T)
  BY <1>2, AddBehind
<1>4. ASSUME NEW l \in L, Cat(n, l) = Cat(n, Add(p, x)) PROVE l = Add(p, x)
  <2>1. l \in Seq(T)
    BY <1>2
  <2> QED BY <1>2, <1>3, <1>4, <2>1, SameBehind
<1>5. (\E l \in L : Cat(n, l) = Add(Cat(n, p), x)) <=> Add(p, x) \in L
  BY <1>3, <1>4
<1> QED BY <1>5, Zenon DEF Cat, Add

\* The lookup tree agrees with RFC 4592, for every zone and every name in it: what is
\* found is there or above something that is, a wildcard is the one of the closest
\* encloser, and what is neither is not found.
THEOREM FindLocationIsRight ==
    ASSUME NEW z, ZoneBuilt(z), NEW q \in Seq(STRING), IsPrefix(z.name, q)
    PROVE  /\ FindLocation(z, q).match \in {"ExactMatch", "EmptyNonterminalMatch"} <=> NameExists(z, q)
           /\ FindLocation(z, q).match = "WildCardMatch" <=> Synthesized(z, q)
           /\ FindLocation(z, q).match \in {"ExactMatch", "EmptyNonterminalMatch", "WildCardMatch", "CEMatch", "NoMatch"}
<1>1. CASE q = z.name
  BY <1>1 DEF FindLocation, Found, NameExists, Synthesized
<1>2. CASE q # z.name
  <2> DEFINE r == SubSeq(q, Len(z.name) + 1, Len(q))
             p == TreePrefix(z.tree, r)
             star == Append(p, Wildcard)
  <2>1. z.name \in Seq(STRING) /\ z.tree \in SUBSET Seq(STRING) /\ z.locations \in SUBSET Seq(STRING)
    BY TreeKey DEF ZoneBuilt
  <2>2. r \in Seq(STRING) /\ q = z.name \o r
    BY <2>1, Remainder
  <2>3. FindLocation(z, q) = FindTrimmed(z, r)
    BY <1>2 DEF FindLocation, TrimZone, IsStrictPrefix
  <2> HIDE DEF r
  <2>4. /\ p \in Seq(STRING) /\ IsPrefix(p, r) /\ (p # <<>> => p \in z.tree)
        /\ \A j \in z.tree : IsPrefix(j, r) => Len(j) <= Len(p)
    BY <2>1, <2>2, TreePrefixIsLongest
  <2>5. Len(r) # 0
    <3>1. r # <<>>
      BY <1>2, <2>1, <2>2
    <3> QED BY <2>2, <3>1
  <2>6. FindTrimmed(z, r).match =
          IF p = r THEN IF p \in z.locations THEN "ExactMatch" ELSE "EmptyNonterminalMatch"
          ELSE IF star \in z.locations THEN "WildCardMatch"
          ELSE IF p \in z.locations THEN "CEMatch" ELSE "NoMatch"
    BY DEF FindTrimmed, TreePrefix, Found
  <2> HIDE DEF p
  <2>7. NameExists(z, q) <=> p = r
    <3>1. NameExists(z, q) <=> r \in z.tree
      BY <2>2, <2>5, ExistsIsKey
    <3>2. ASSUME r \in z.tree PROVE p = r
      <4>1. IsPrefix(r, r)
        BY <2>2, PrefixIntro
      <4>2. Len(r) <= Len(p) /\ Len(p) <= Len(r)
        BY <2>2, <2>4, <3>2, <4>1, PrefixMeans
      <4>3. Len(r) = Len(p)
        BY <2>2, <2>4, <4>2
      <4> QED BY <2>2, <2>4, <4>1, <4>3, PrefixOfLength
    <3>3. ASSUME p = r PROVE r \in z.tree
      BY <2>4, <2>5, <3>3
    <3> QED BY <3>1, <3>2, <3>3
  <2>8. ASSUME p # r PROVE Synthesized(z, q) <=> star \in z.locations
    <3>1. ClosestEncloser(z, q) = z.name \o p
      BY <2>2, EncloserIsPrefix DEF p
    <3>2. (\E l \in z.locations : z.name \o l = Append(z.name \o p, Wildcard)) <=> star \in z.locations
      BY <2>1, <2>4, StarBehind
    <3> HIDE DEF star
    <3> QED BY <2>7, <2>8, <3>1, <3>2 DEF Synthesized
  <2>9. p = r => ~Synthesized(z, q)
    BY <2>7 DEF Synthesized
  <2> HIDE DEF star
  <2>10. CASE p = r
    BY <2>3, <2>6, <2>7, <2>9, <2>10
  <2>11. CASE p # r
    BY <2>3, <2>6, <2>7, <2>8, <2>11
  <2> QED BY <2>10, <2>11
<1> QED BY <1>1, <1>2

-----------------------------------------------------------------------------
(* What holds on the way to a response. *)

CtxFields == {"res", "answer", "authority", "additional", "dnssec"}

BeforeZone == {"cookie", "zone"}
InLoop == {"loop", "cname", "ns", "ds", "glue"}
AtEnd == {"answer", "aname", "climb", "chase", "chaseAddress", "chaseNext"}

\* What is published, and the name asked, are of the kinds the assumption says.
StoreOK ==
    /\ DOMAIN store = {"zones", "locations", "config", "records"}
    /\ store.zones \in SUBSET Seq(STRING) /\ store.locations \in SUBSET Seq(STRING) /\ <<>> \notin store.locations
    /\ \A l \in DOMAIN store.records : \A t \in DOMAIN store.records[l] : WellFormed(t, store.records[l][t])
    /\ qname \in Seq(STRING)

Real(n) == NameExists(zone, n) \/ Synthesized(zone, n)
CNAMEs(a) == \A x \in Elems(a) : x.type = "CNAME"

\* Nothing in an authority section that denies a name or a type.
SaysNXDOMAIN(x) == x.type = "NSEC" /\ x.data = "NameError"
Quiet(s) == \A x \in Elems(s) : x.type # "SOA" /\ ~SaysNXDOMAIN(x)

\* The CNAMEs lead from the name asked to n.
Linked(a, n) ==
    /\ \A i \in 1..Len(a) - 1 : a[i + 1].owner = a[i].data
    /\ IF Len(a) = 0 THEN n = qname ELSE a[1].owner = qname /\ a[Len(a)].data = n

\* The parts of what is sent, of a context c.
IsChain(a) ==
    /\ a # <<>> => a[1].owner = qname
    /\ \A i \in 1..Len(a) - 1 :
         IF a[i].type = "CNAME" THEN a[i + 1].owner = a[i].data ELSE a[i + 1].owner = a[i].owner /\ a[i + 1].type = a[i].type
    /\ \A i \in DOMAIN a : a[i].type \in {"CNAME", qtype}

ChainOK(c) == qtype \notin {"SOA", "DNSKEY"} /\ ~(zone.flat /\ qtype = "DS") => IsChain(c.answer)
FailureOK(c, f) ==
    f => IF qtype = "CAA" THEN c.res # "NameError"
         ELSE (c.res = "ServerFailure" \/ (c.dnssec /\ qname = zone.name)) /\ CNAMEs(c.answer)

NXDOMAIN(c) == c.res = "NameError" \/ \E x \in Elems(c.authority) : SaysNXDOMAIN(x)
NODATA(c) == ~NXDOMAIN(c) /\ \E x \in Elems(c.authority) : x.type = "SOA"
HasData(c) == \E x \in Elems(c.answer) : x.type # "CNAME"
LookupOK(c) ==
    c.res # "ServerFailure" /\ zone.name # <<>> /\ IsPrefix(zone.name, cur) =>
        (NXDOMAIN(c) => ~Real(cur)) /\ (NODATA(c) \/ HasData(c) => Real(cur))

SplitAt(a, k) ==
    /\ \A i \in 1..k : a[i].type # qtype
    /\ \A i \in (k + 1)..Len(a) : a[i].type = qtype
    /\ k < Len(a) => GoodSelection(held, request.client, [i \in 1..Len(a) - k |-> a[k + i].data])
SelectionOK(c) == qtype \in AddressTypes /\ held # <<>> => \E k \in 0..Len(c.answer) : SplitAt(c.answer, k)

CtxOK(c) == DOMAIN c = CtxFields /\ IsSeq(c.answer) /\ IsSeq(c.authority)
SendOK(c, f) == ChainOK(c) /\ FailureOK(c, f) /\ LookupOK(c) /\ SelectionOK(c)

Before == zone.name = <<>> /\ ctx.answer = <<>> /\ ctx.authority = <<>> /\ ctx.res \in {"Success", "FormatError"} /\ ~ failed

Open ==
    /\ ZoneBuilt(zone) /\ zone.name # <<>> /\ cur \in Seq(STRING) /\ (failed => pc = "climb")
    /\ ctx.dnssec => zone.flat
    /\ ctx.res \in {"Success", "FormatError"}
    /\ Quiet(ctx.authority) /\ CNAMEs(ctx.answer)
    /\ qtype = "CNAME" => ctx.answer = <<>>

OnTheWay ==
    /\ IF zone.flat THEN ctx.answer = <<>> /\ (cur = qname \/ Real(qname)) ELSE Linked(ctx.answer, cur)
    /\ pc \in {"cname", "ns", "ds"} =>
         /\ found = FindLocation(zone, cur) /\ IsPrefix(zone.name, cur)
         /\ found.match \in {"CEMatch", "ExactMatch", "WildCardMatch"}
    /\ pc = "cname" => found.match # "CEMatch"
    /\ pc = "ds" => held \in Seq(Seq(STRING))

Arrived ==
    /\ Linked(ctx.answer, cur) /\ (zone.flat => cur = qname) /\ Real(cur)
    /\ pc \notin {"answer", "climb"} => qtype \in AddressTypes
    /\ pc = "climb" => qtype = "CAA"
    /\ pc = "aname" => WellFormed(qtype, held)
    /\ pc \in {"chase", "chaseAddress", "chaseNext"} => held = <<>>

\* The name the answer is about, once there is a zone.
Ended == zone.name # <<>> => zone.name \in Seq(STRING) /\ cur \in Seq(STRING)

Written == Len(sent) > 0 /\ Reply.res = ctx.res /\ Reply.answer = ctx.answer /\ Reply.authority = ctx.authority

ResolverInv ==
    /\ StoreOK /\ CtxOK(ctx) /\ IsSeq(sent)
    /\ pc \in BeforeZone \union InLoop \union AtEnd \union {"send", "done"}
    /\ pc \in BeforeZone => Before
    /\ pc \in InLoop \union AtEnd => Open
    /\ pc \in InLoop => OnTheWay
    /\ pc \in AtEnd => Arrived
    /\ pc \in {"send", "done"} => SendOK(ctx, failed) /\ Ended
    /\ pc = "done" => Written

-----------------------------------------------------------------------------
(* The reads of the handler. *)

\* The zone found for a name is one that is served, and the name lies in it.
LEMMA FindZoneIsPrefix ==
    ASSUME NEW zones \in SUBSET Seq(STRING), NEW n \in Seq(STRING), FindZone(zones, n) # <<>>
    PROVE  FindZone(zones, n) \in zones /\ IsPrefix(FindZone(zones, n), n)
<1>1. LongestPrefix(zones, n) # {}
  BY DEF FindZone
<1>2. FindZone(zones, n) \in LongestPrefix(zones, n)
  BY <1>1 DEF FindZone
<1>3. FindZone(zones, n) \in zones /\ FindZone(zones, n) \in Prefixes(n)
  BY <1>2 DEF LongestPrefix
<1> QED BY <1>3, PrefixesElements

\* What a read returns is of the kind its type says.
LEMMA ReadIsWellFormed ==
    ASSUME StoreOK, NEW l, NEW t, NEW r \in getRRSet(l, t), r # Failed
    PROVE  WellFormed(t, r)
<1>1. ASSUME r = <<>> PROVE WellFormed(t, r)
  BY <1>1 DEF WellFormed
<1>2. ASSUME r # <<>> PROVE WellFormed(t, r)
  <2>1. l \in DOMAIN store.records /\ t \in DOMAIN store.records[l] /\ r = store.records[l][t]
    BY <1>2 DEF getRRSet
  <2> QED BY <2>1 DEF StoreOK
<1> QED BY <1>1, <1>2

\* A name of the zone is real when it is found at, above or through a wildcard of a
\* location.
LEMMA RealIsFound ==
    ASSUME ZoneBuilt(zone), NEW n \in Seq(STRING), IsPrefix(zone.name, n)
    PROVE  /\ Real(n) <=> FindLocation(zone, n).match \in {"ExactMatch", "EmptyNonterminalMatch", "WildCardMatch"}
           /\ FindLocation(zone, n).match \in {"ExactMatch", "EmptyNonterminalMatch", "WildCardMatch", "CEMatch", "NoMatch"}
           /\ n = zone.name => FindLocation(zone, n).match = "ExactMatch"
<1>1. n = zone.name => FindLocation(zone, n).match = "ExactMatch"
  BY DEF FindLocation, Found
<1>2. PICK m : m = FindLocation(zone, n).match
  OBVIOUS
<1>3. /\ m \in {"ExactMatch", "EmptyNonterminalMatch"} <=> NameExists(zone, n)
      /\ m = "WildCardMatch" <=> Synthesized(zone, n)
      /\ m \in {"ExactMatch", "EmptyNonterminalMatch", "WildCardMatch", "CEMatch", "NoMatch"}
  BY <1>2, FindLocationIsRight
<1> QED BY <1>1, <1>2, <1>3 DEF Real

\* What addNSec makes of a context.
LEMMA NSecIs ==
    ASSUME NEW c, CtxOK(c), NEW n, NEW t, NEW d, d = addNSec(c, n, t)
    PROVE  /\ CtxOK(d) /\ d.answer = c.answer /\ d.dnssec = c.dnssec
           /\ d.res \in {c.res, "Success"}
           /\ (c.dnssec /\ (n = zone.name \/ c.res = "NameError")) \/ d.res = c.res
           /\ ~ c.dnssec => d = c
           /\ \A x \in Elems(d.authority) : x \in Elems(c.authority) \/ (x.type = "NSEC" /\ (SaysNXDOMAIN(x) => c.res = "NameError"))
           /\ c.dnssec /\ c.res = "NameError" /\ n # zone.name => \E x \in Elems(d.authority) : SaysNXDOMAIN(x)
<1>1. CASE ~ c.dnssec
  <2>1. d = c
    BY <1>1 DEF addNSec
  <2> QED BY <1>1, <2>1
<1>2. CASE c.dnssec
  <2>1. PICK x : x = RR(n, "NSEC", IF n = zone.name THEN "Apex" ELSE IF c.res = "NameError" THEN "NameError"
                                   ELSE IF t = "DS" THEN "SubDelegation" ELSE "Zone")
    OBVIOUS
  <2>2. d = [c EXCEPT !.res = IF n = zone.name \/ @ = "NameError" THEN "Success" ELSE @, !.authority = Add(c.authority, x)]
    BY <1>2, <2>1 DEF addNSec, Add
  <2>3. /\ DOMAIN d = CtxFields /\ d.answer = c.answer /\ d.dnssec = c.dnssec
        /\ d.res = IF n = zone.name \/ c.res = "NameError" THEN "Success" ELSE c.res
        /\ d.authority = Add(c.authority, x)
    BY <2>2 DEF CtxOK, CtxFields
  <2>4. x.type = "NSEC" /\ (x.data = "NameError" <=> c.res = "NameError" /\ n # zone.name)
    BY <2>1 DEF RR
  <2>5. IsSeq(d.authority) /\ Elems(d.authority) = Elems(c.authority) \union {x}
    BY <2>3, AddIs, AddElems DEF CtxOK
  <2>6. SaysNXDOMAIN(x) <=> c.res = "NameError" /\ n # zone.name
    BY <2>4 DEF SaysNXDOMAIN
  <2>7. CtxOK(d) /\ d.answer = c.answer /\ d.dnssec = c.dnssec
    BY <2>3, <2>5 DEF CtxOK
  <2>8. d.res \in {c.res, "Success"} /\ ((c.dnssec /\ (n = zone.name \/ c.res = "NameError")) \/ d.res = c.res)
    BY <1>2, <2>3
  <2>9. \A y \in Elems(d.authority) : y \in Elems(c.authority) \/ (y.type = "NSEC" /\ (SaysNXDOMAIN(y) => c.res = "NameError"))
    BY <2>4, <2>5, <2>6
  <2>10. c.res = "NameError" /\ n # zone.name => \E y \in Elems(d.authority) : SaysNXDOMAIN(y)
    BY <2>5, <2>6
  <2> QED BY <1>2, <2>7, <2>8, <2>9, <2>10
<1> QED BY <1>1, <1>2

-----------------------------------------------------------------------------
(* The answer as a chain. *)

\* A CNAME at the end of the chain leads on.
LEMMA LinkAdded ==
    ASSUME NEW a, IsSeq(a), NEW n, Linked(a, n), NEW x, x.owner = n
    PROVE  Linked(Add(a, x), x.data)
<1>1. PICK b : b = Add(a, x)
  OBVIOUS
<1>2. /\ IsSeq(b) /\ Len(b) = Len(a) + 1
      /\ \A i \in 1..Len(a) : b[i] = a[i]
      /\ b[Len(a) + 1] = x
  BY <1>1, AddIs
<1>3. Len(a) \in Nat
  BY SeqDomain
<1>4. ASSUME NEW i \in 1..Len(b) - 1 PROVE b[i + 1].owner = b[i].data
  <2>1. i \in 1..Len(a) /\ b[i] = a[i]
    BY <1>2, <1>3
  <2>2. CASE i = Len(a)
    <3>1. a[Len(a)].data = n
      BY <1>3, <2>1 DEF Linked
    <3> QED BY <1>2, <2>1, <2>2, <3>1
  <2>3. CASE i # Len(a)
    <3>1. i \in 1..Len(a) - 1 /\ i + 1 \in 1..Len(a)
      BY <1>3, <2>1, <2>3
    <3> QED BY <1>2, <2>1, <3>1 DEF Linked
  <2> QED BY <2>2, <2>3
<1>5. b[1].owner = qname /\ b[Len(b)].data = x.data /\ Len(b) # 0
  <2>1. CASE Len(a) = 0
    BY <1>2, <2>1 DEF Linked
  <2>2. CASE Len(a) # 0
    <3>1. 1 \in 1..Len(a)
      BY <1>3, <2>2
    <3> QED BY <1>2, <1>3, <2>2, <3>1 DEF Linked
  <2> QED BY <2>1, <2>2
<1>6. Linked(b, x.data)
  BY <1>4, <1>5 DEF Linked
<1> QED BY <1>1, <1>6

\* Records of the type asked, under one name; a CNAME that is asked for is alone.
IsTail(t, n) ==
    /\ \A i \in 1..Len(t) : t[i].owner = n /\ t[i].type = qtype
    /\ qtype = "CNAME" => Len(t) <= 1

\* The CNAMEs and the records they lead to are one chain.
LEMMA JoinIsChain ==
    ASSUME NEW a, IsSeq(a), NEW t, IsSeq(t), NEW n, Linked(a, n), CNAMEs(a), IsTail(t, n),
           qtype = "CNAME" => a = <<>>
    PROVE  IsChain(Cat(a, t))
<1>1. PICK b : b = Cat(a, t)
  OBVIOUS
<1>2. IsSeq(b) /\ Len(b) = Len(a) + Len(t)
  BY <1>1, CatIs
<1>3. \A i \in 1..Len(a) : b[i] = a[i]
  BY <1>1, CatLeft
<1>4. \A i \in 1..Len(t) : b[Len(a) + i] = t[i]
  BY <1>1, CatRight
<1>5. Len(a) \in Nat /\ Len(t) \in Nat /\ DOMAIN a = 1..Len(a) /\ DOMAIN b = 1..Len(b)
  BY <1>2, SeqDomain
<1>6. ASSUME NEW i \in 1..Len(b), i > Len(a) PROVE b[i].owner = n /\ b[i].type = qtype
  <2>1. PICK k : k = i - Len(a)
    OBVIOUS
  <2>2. k \in 1..Len(t) /\ i = Len(a) + k
    BY <1>2, <1>5, <1>6, <2>1
  <2> QED BY <1>4, <2>2 DEF IsTail
<1>7. ASSUME NEW i \in 1..Len(a) PROVE b[i].type = "CNAME"
  BY <1>3, <1>5, <1>7 DEF CNAMEs, Elems
<1>8. ASSUME b # <<>> PROVE b[1].owner = qname
  <2>1. Len(b) # 0
    BY <1>2, <1>8, NoElements
  <2>2. CASE Len(a) = 0
    <3>1. 1 \in 1..Len(b) /\ 1 > Len(a)
      BY <1>2, <1>5, <2>1, <2>2
    <3> QED BY <1>6, <2>2, <3>1 DEF Linked
  <2>3. CASE Len(a) # 0
    <3>1. 1 \in 1..Len(a)
      BY <1>5, <2>3
    <3> QED BY <1>3, <2>3, <3>1 DEF Linked
  <2> QED BY <2>2, <2>3
<1>9. ASSUME NEW i \in DOMAIN b PROVE b[i].type \in {"CNAME", qtype}
  <2>1. i \in 1..Len(b)
    BY <1>5
  <2>2. CASE i <= Len(a)
    <3>1. i \in 1..Len(a)
      BY <1>5, <2>1, <2>2
    <3> QED BY <1>7, <3>1
  <2>3. CASE i > Len(a)
    BY <1>6, <2>1, <2>3
  <2> QED BY <1>5, <2>1, <2>2, <2>3
<1>10. ASSUME NEW i \in 1..Len(b) - 1
       PROVE  IF b[i].type = "CNAME" THEN b[i + 1].owner = b[i].data ELSE b[i + 1].owner = b[i].owner /\ b[i + 1].type = b[i].type
  <2>1. i \in 1..Len(b) /\ i + 1 \in 1..Len(b)
    BY <1>2, <1>5
  <2>2. CASE i + 1 <= Len(a)
    <3>1. i \in 1..Len(a) /\ i + 1 \in 1..Len(a) /\ i \in 1..Len(a) - 1
      BY <1>5, <2>1, <2>2
    <3> QED BY <1>3, <1>7, <3>1 DEF Linked
  <2>3. CASE i = Len(a)
    <3>1. i \in 1..Len(a) /\ Len(a) # 0 /\ i + 1 > Len(a)
      BY <1>5, <2>1, <2>3
    <3>2. b[i].type = "CNAME" /\ b[i].data = n
      BY <1>3, <1>7, <2>3, <3>1 DEF Linked
    <3>3. b[i + 1].owner = n
      BY <1>6, <2>1, <3>1
    <3> QED BY <3>2, <3>3
  <2>4. CASE i > Len(a)
    <3>1. i + 1 > Len(a)
      BY <1>5, <2>1, <2>4
    <3>2. b[i].owner = n /\ b[i].type = qtype /\ b[i + 1].owner = n /\ b[i + 1].type = qtype
      BY <1>6, <2>1, <2>4, <3>1
    <3>3. qtype # "CNAME"
      <4>1. ASSUME qtype = "CNAME" PROVE FALSE
        <5>1. Len(a) = 0
          BY <4>1, NoElems
        <5>2. Len(t) <= 1
          BY <4>1 DEF IsTail
        <5> QED BY <1>2, <1>5, <2>1, <5>1, <5>2
      <4> QED BY <4>1
    <3> QED BY <3>2, <3>3
  <2>5. i + 1 <= Len(a) \/ i = Len(a) \/ i > Len(a)
    <3>1. i \in Int /\ Len(a) \in Int
      BY <1>5, <2>1
    <3> QED BY <3>1
  <2> QED BY <2>2, <2>3, <2>4, <2>5
<1>11. IsChain(b)
  BY <1>8, <1>9, <1>10 DEF IsChain
<1> QED BY <1>1, <1>11

\* The CNAMEs alone are a chain, and nothing is one.
LEMMA LinkedIsChain ==
    ASSUME NEW a, IsSeq(a), NEW n, Linked(a, n), CNAMEs(a)
    PROVE  IsChain(a)
<1>1. Len(a) \in Nat /\ DOMAIN a = 1..Len(a)
  BY SeqDomain
<1>2. \A i \in 1..Len(a) : a[i].type = "CNAME"
  BY <1>1 DEF CNAMEs, Elems
<1>3. ASSUME a # <<>> PROVE a[1].owner = qname
  <2>1. Len(a) # 0
    BY <1>3, NoElements
  <2> QED BY <2>1 DEF Linked
<1>4. \A i \in 1..Len(a) - 1 : i \in 1..Len(a)
  BY <1>1
<1> QED BY <1>1, <1>2, <1>3, <1>4 DEF Linked, IsChain

\* Nothing is a chain.
LEMMA NothingIsChain == ASSUME NEW a, a = <<>> PROVE IsChain(a) /\ CNAMEs(a)
<1>1. Len(a) = 0 /\ DOMAIN a = {} /\ Elems(a) = {}
  BY EmptyIsSeq, NoElems
<1>2. 1..Len(a) - 1 = {}
  BY <1>1
<1> QED BY <1>1, <1>2 DEF IsChain, CNAMEs

-----------------------------------------------------------------------------
(* Ways to end: what is sent is right. *)

\* Nothing is denied and no record but CNAMEs given.
LEMMA QuietEnd ==
    ASSUME NEW c, c.res # "NameError", Quiet(c.authority), CNAMEs(c.answer)
    PROVE  LookupOK(c)
BY DEF LookupOK, NXDOMAIN, NODATA, HasData, Quiet, CNAMEs

\* A name that is real is not denied.
LEMMA RealEnd ==
    ASSUME NEW c, Real(cur), c.res # "NameError", \A x \in Elems(c.authority) : ~ SaysNXDOMAIN(x)
    PROVE  LookupOK(c)
BY DEF LookupOK, NXDOMAIN

\* A name that is not is denied.
LEMMA DeniedEnd ==
    ASSUME NEW c, ~ Real(cur), NXDOMAIN(c), CNAMEs(c.answer)
    PROVE  LookupOK(c)
BY DEF LookupOK, NODATA, HasData, CNAMEs

\* Without addresses there is no selection.
LEMMA NoSelection ==
    ASSUME NEW c, IsSeq(c.answer), CNAMEs(c.answer)
    PROVE  SelectionOK(c)
<1> SUFFICES ASSUME qtype \in AddressTypes PROVE \E k \in 0..Len(c.answer) : SplitAt(c.answer, k)
  BY DEF SelectionOK
<1>1. PICK a : a = c.answer
  OBVIOUS
<1>2. Len(a) \in Nat /\ DOMAIN a = 1..Len(a)
  BY <1>1, SeqDomain
<1>3. \A i \in 1..Len(a) : a[i].type = "CNAME"
  BY <1>1, <1>2 DEF CNAMEs, Elems
<1>4. qtype # "CNAME"
  BY DEF AddressTypes
<1>5. \A i \in (Len(a) + 1)..Len(a) : FALSE
  BY <1>2
<1>6. SplitAt(a, Len(a)) /\ Len(a) \in 0..Len(a)
  BY <1>2, <1>3, <1>4, <1>5 DEF SplitAt
<1> QED BY <1>1, <1>6

\* The loop is left for the response.
LEMMA BreakInv ==
    ASSUME ResolverInv, pc \in InLoop \union AtEnd, NEW c, Break(c), CtxOK(c),
           ChainOK(c), FailureOK(c, failed'), LookupOK(c), SelectionOK(c)
    PROVE  ResolverInv'
<1>1. /\ ctx' = c /\ pc' = "send" /\ store' = store /\ request' = request /\ zone' = zone /\ sent' = sent
      /\ cur' = cur /\ held' = held
  BY DEF Break, Goto, inputs
<1>2. StoreOK' /\ IsSeq(sent')
  BY <1>1 DEF ResolverInv, StoreOK, qname
<1>3. CtxOK(ctx')
  BY <1>1
<1>4. ChainOK(ctx)'
  BY <1>1 DEF ChainOK, IsChain, qtype, qname
<1>5. FailureOK(ctx, failed)'
  BY <1>1 DEF FailureOK, CNAMEs, qname, qtype
<1>6. LookupOK(ctx)'
  BY <1>1 DEF LookupOK, NXDOMAIN, NODATA, HasData, Real
<1>7. SelectionOK(ctx)'
  BY <1>1 DEF SelectionOK, SplitAt, qtype
<1>8. Ended'
  <2>1. zone.name \in Seq(STRING) /\ cur \in Seq(STRING)
    BY DEF ResolverInv, Open, ZoneBuilt
  <2> QED BY <1>1, <2>1 DEF Ended
<1> QED BY <1>1, <1>2, <1>3, <1>4, <1>5, <1>6, <1>7, <1>8 DEF ResolverInv, SendOK, BeforeZone, InLoop, AtEnd, CtxOK

\* A context with the CNAMEs followed so far, and nothing else in its answer.
LEMMA CNAMEsEnd ==
    ASSUME ResolverInv, pc \in InLoop \union AtEnd, NEW c, Break(c), CtxOK(c), c.answer = ctx.answer,
           LookupOK(c), FailureOK(c, failed')
    PROVE  ResolverInv'
<1>1. IsSeq(c.answer) /\ CNAMEs(c.answer)
  BY DEF ResolverInv, CtxOK, Open
<1>2. IsChain(c.answer)
  <2>1. CASE pc \in AtEnd
    BY <1>1, <2>1, LinkedIsChain DEF ResolverInv, Arrived
  <2>2. CASE pc \in InLoop /\ zone.flat
    BY <2>2, NothingIsChain DEF ResolverInv, OnTheWay
  <2>3. CASE pc \in InLoop /\ ~ zone.flat
    BY <1>1, <2>3, LinkedIsChain DEF ResolverInv, OnTheWay
  <2> QED BY <2>1, <2>2, <2>3
<1> QED BY <1>1, <1>2, NoSelection, BreakInv DEF ChainOK

\* A read that failed.
LEMMA ReadFailsInv == ASSUME ResolverInv, pc \in InLoop \union AtEnd, ReadFails PROVE ResolverInv'
<1>1. PICK c : c = WithRes("ServerFailure")
  OBVIOUS
<1>2. CtxOK(c) /\ c.answer = ctx.answer /\ c.res = "ServerFailure" /\ Break(c) /\ failed'
  BY <1>1 DEF WithRes, ResolverInv, CtxOK, CtxFields, ReadFails
<1>3. CNAMEs(ctx.answer)
  BY DEF ResolverInv, Open
<1>4. LookupOK(c) /\ FailureOK(c, failed')
  BY <1>2, <1>3 DEF LookupOK, FailureOK
<1> QED BY <1>2, <1>4, CNAMEsEnd

\* The addresses behind the CNAMEs are the selection.
LEMMA JoinIsSelected ==
    ASSUME NEW a, IsSeq(a), CNAMEs(a), NEW t, IsSeq(t), qtype \in AddressTypes, \A i \in 1..Len(t) : t[i].type = qtype,
           t # <<>> => GoodSelection(held, request.client, [i \in 1..Len(t) |-> t[i].data])
    PROVE  \E k \in 0..Len(Cat(a, t)) : SplitAt(Cat(a, t), k)
<1>1. PICK b : b = Cat(a, t)
  OBVIOUS
<1>2. IsSeq(b) /\ Len(b) = Len(a) + Len(t)
  BY <1>1, CatIs
<1>3. \A i \in 1..Len(a) : b[i] = a[i]
  BY <1>1, CatLeft
<1>4. \A i \in 1..Len(t) : b[Len(a) + i] = t[i]
  BY <1>1, CatRight
<1>5. Len(a) \in Nat /\ Len(t) \in Nat /\ DOMAIN a = 1..Len(a)
  BY SeqDomain
<1>6. \A i \in 1..Len(a) : b[i].type # qtype
  <2>1. \A i \in 1..Len(a) : b[i].type = "CNAME"
    BY <1>3, <1>5 DEF CNAMEs, Elems
  <2> QED BY <2>1 DEF AddressTypes
<1>7. ASSUME NEW i \in (Len(a) + 1)..Len(b) PROVE b[i].type = qtype
  <2>1. PICK k : k = i - Len(a)
    OBVIOUS
  <2>2. k \in 1..Len(t) /\ i = Len(a) + k
    BY <1>2, <1>5, <1>7, <2>1
  <2> QED BY <1>4, <2>2
<1>8. ASSUME Len(a) < Len(b) PROVE GoodSelection(held, request.client, [i \in 1..Len(b) - Len(a) |-> b[Len(a) + i].data])
  <2>1. Len(t) # 0 /\ Len(b) - Len(a) = Len(t)
    BY <1>2, <1>5, <1>8
  <2>2. t # <<>>
    BY <2>1, NoElems
  <2>3. [i \in 1..Len(b) - Len(a) |-> b[Len(a) + i].data] = [i \in 1..Len(t) |-> t[i].data]
    BY <1>4, <2>1
  <2> QED BY <2>2, <2>3
<1>9. Len(a) \in 0..Len(b)
  BY <1>2, <1>5
<1>10. SplitAt(b, Len(a))
  BY <1>6, <1>7, <1>8 DEF SplitAt
<1> QED BY <1>1, <1>9, <1>10

\* The end of the switch on the type.
LEMMA FinishInv ==
    ASSUME ResolverInv, pc \in AtEnd, NEW c, NEW t, Finish(c, t), CtxOK(c),
           c.answer = ctx.answer, c.authority = ctx.authority, c.dnssec = ctx.dnssec,
           c.res \in {"Success", "FormatError", "ServerFailure"},
           IsSeq(t), qtype \notin {"SOA", "DNSKEY"} => IsTail(t, cur),
           failed' => qtype = "CAA" \/ (t = <<>> /\ c.res = "ServerFailure"),
           qtype \in AddressTypes /\ held # <<>> /\ t # <<>> => GoodSelection(held, request.client, [i \in 1..Len(t) |-> t[i].data])
    PROVE  ResolverInv'
<1>1. /\ IsSeq(ctx.answer) /\ CNAMEs(ctx.answer) /\ Quiet(ctx.authority) /\ Linked(ctx.answer, cur) /\ Real(cur)
      /\ (ctx.dnssec => zone.flat) /\ (zone.flat => cur = qname)
      /\ (qtype = "CNAME" => ctx.answer = <<>>)
  BY DEF ResolverInv, CtxOK, Open, Arrived
<1>2. CASE t # <<>>
  <2>1. PICK e : e = [c EXCEPT !.answer = Cat(c.answer, t)]
    OBVIOUS
  <2>2. Break(e)
    BY <1>2, <2>1 DEF Finish, Cat
  <2>3. e.answer = Cat(ctx.answer, t) /\ e.authority = ctx.authority /\ e.res = c.res /\ DOMAIN e = CtxFields
    BY <2>1 DEF CtxOK, CtxFields
  <2>4. CtxOK(e)
    BY <1>1, <2>3, CatIs DEF CtxOK
  <2>5. ChainOK(e)
    BY <1>1, <2>3, JoinIsChain DEF ChainOK
  <2>6. FailureOK(e, failed')
    BY <1>2, <2>3 DEF FailureOK
  <2>7. LookupOK(e)
    BY <1>1, <2>3, RealEnd DEF Quiet
  <2>8. SelectionOK(e)
    <3> SUFFICES ASSUME qtype \in AddressTypes, held # <<>> PROVE \E k \in 0..Len(e.answer) : SplitAt(e.answer, k)
      BY DEF SelectionOK
    <3>1. \A i \in 1..Len(t) : t[i].type = qtype
      BY DEF IsTail, AddressTypes
    <3>2. \E k \in 0..Len(Cat(ctx.answer, t)) : SplitAt(Cat(ctx.answer, t), k)
      BY <1>1, <1>2, <3>1, JoinIsSelected
    <3> QED BY <2>3, <3>2
  <2> QED BY <2>2, <2>4, <2>5, <2>6, <2>7, <2>8, BreakInv
<1>3. CASE t = <<>>
  <2>1. PICK d : d = addNSec(c, cur, qtype)
    OBVIOUS
  <2>2. /\ CtxOK(d) /\ d.answer = ctx.answer /\ d.dnssec = ctx.dnssec /\ d.res \in {c.res, "Success"}
        /\ (c.dnssec /\ (cur = zone.name \/ c.res = "NameError")) \/ d.res = c.res
        /\ \A x \in Elems(d.authority) : x \in Elems(c.authority) \/ (x.type = "NSEC" /\ (SaysNXDOMAIN(x) => c.res = "NameError"))
    BY <2>1, NSecIs
  <2>3. PICK e : e = IF d.res = "Success" THEN [d EXCEPT !.authority = Add(d.authority, SOA)] ELSE d
    OBVIOUS
  <2>4. Break(e)
    BY <1>3, <2>1, <2>3 DEF Finish, Add
  <2>5. e.answer = ctx.answer /\ e.dnssec = ctx.dnssec /\ e.res = d.res /\ DOMAIN e = CtxFields
        /\ e.authority = IF d.res = "Success" THEN Add(d.authority, SOA) ELSE d.authority
    BY <2>2, <2>3 DEF CtxOK, CtxFields
  <2>6. IsSeq(e.authority) /\ Elems(e.authority) \in SUBSET (Elems(d.authority) \union {SOA})
    BY <2>2, <2>5, AddIs, AddElems DEF CtxOK
  <2>7. CtxOK(e)
    BY <1>1, <2>5, <2>6 DEF CtxOK
  <2>8. ~ SaysNXDOMAIN(SOA)
    BY DEF SaysNXDOMAIN, SOA, RR
  <2>9. \A x \in Elems(e.authority) : ~ SaysNXDOMAIN(x)
    BY <1>1, <2>2, <2>6, <2>8 DEF Quiet
  <2>10. e.res # "NameError"
    BY <2>2, <2>5
  <2>11. LookupOK(e)
    BY <1>1, <2>9, <2>10, RealEnd
  <2>12. FailureOK(e, failed')
    BY <1>1, <2>2, <2>5, <2>10 DEF FailureOK
  <2>13. pc \in InLoop \union AtEnd
    OBVIOUS
  <2> QED BY <2>4, <2>5, <2>7, <2>11, <2>12, <2>13, CNAMEsEnd
<1> QED BY <1>2, <1>3

-----------------------------------------------------------------------------
(* Before the loop. *)

\* The invariant holds when the request comes in.
LEMMA InitInv == ASSUME ResolverInit PROVE ResolverInv
<1>1. PICK c \in Cases : store = c.store /\ request = c.request
  BY DEF ResolverInit
<1>2. StoreOK
  BY <1>1, ResolverAssumption DEF StoreOK, qname
<1>3. IsSeq(sent) /\ IsSeq(ctx.answer) /\ IsSeq(ctx.authority)
  BY EmptyIsSeq DEF ResolverInit
<1>4. DOMAIN ctx = CtxFields
  BY DEF ResolverInit, CtxFields
<1> QED BY <1>2, <1>3, <1>4 DEF ResolverInit, ResolverInv, CtxOK, BeforeZone, InLoop, AtEnd, Before

\* A message that has been written.
LEMMA MessageSent ==
    ASSUME IsSeq(sent), NEW c, NEW signed, sent' = Append(sent, Message(c, signed)), ctx' = c
    PROVE  IsSeq(sent') /\ Written'
<1>1. PICK m : m = Message(c, signed)
  OBVIOUS
<1>2. m.res = c.res /\ m.answer = c.answer /\ m.authority = c.authority
  BY <1>1 DEF Message
<1>3. sent' = Add(sent, m)
  BY <1>1 DEF Add
<1>4. IsSeq(sent') /\ Len(sent') = Len(sent) + 1 /\ sent'[Len(sent) + 1] = m
  BY <1>3, AddIs
<1>5. Len(sent) \in Nat
  BY SeqDomain
<1> QED BY <1>2, <1>4, <1>5 DEF Written, Reply

\* A response before any zone is known.
LEMMA RespondInv ==
    ASSUME ResolverInv, pc \in BeforeZone, NEW c, NEW label, Respond(c, label), CtxOK(c),
           c.answer = <<>>, c.authority = <<>>, failed' => c.res = "ServerFailure",
           \/ label = "done"
           \/ label = "zone" /\ c.res = "FormatError" /\ ~ failed'
    PROVE  ResolverInv'
<1>1. /\ ctx' = c /\ pc' = label /\ store' = store /\ request' = request /\ zone' = zone
      /\ sent' = Append(sent, Message(c, FALSE))
  BY DEF Respond, inputs
<1>2. IsSeq(sent') /\ Written'
  BY <1>1, MessageSent DEF ResolverInv
<1>3. zone.name = <<>> /\ StoreOK
  BY DEF ResolverInv, Before
<1>4. StoreOK'
  BY <1>1, <1>3 DEF StoreOK, qname
<1>5. IsChain(c.answer) /\ CNAMEs(c.answer)
  BY NothingIsChain
<1>6. IsSeq(c.answer)
  BY DEF CtxOK
<1>7. SelectionOK(c)
  BY <1>5, <1>6, NoSelection
<1>8. CASE label = "done"
  <2>1. ChainOK(ctx)'
    BY <1>1, <1>5 DEF ChainOK, IsChain, qtype, qname
  <2>2. FailureOK(ctx, failed)'
    BY <1>1, <1>5 DEF FailureOK, CNAMEs
  <2>3. LookupOK(ctx)'
    BY <1>1, <1>3 DEF LookupOK
  <2>4. SelectionOK(ctx)'
    <3>1. held' = held
      BY DEF Respond
    <3> QED BY <1>1, <1>7, <3>1 DEF SelectionOK, SplitAt, qtype
  <2>5. Ended'
    BY <1>1, <1>3 DEF Ended
  <2> QED BY <1>1, <1>2, <1>4, <1>8, <2>1, <2>2, <2>3, <2>4, <2>5 DEF ResolverInv, SendOK, BeforeZone, InLoop, AtEnd, CtxOK
<1>9. CASE label = "zone" /\ c.res = "FormatError" /\ ~ failed'
  <2>1. Before'
    BY <1>1, <1>3, <1>9 DEF Before
  <2> QED BY <1>1, <1>2, <1>4, <1>9, <2>1 DEF ResolverInv, BeforeZone, InLoop, AtEnd, CtxOK
<1> QED BY <1>8, <1>9

\* The cookie of the request.
LEMMA CookieInv == ASSUME ResolverInv, CheckRequestCookie PROVE ResolverInv'
<1> DEFINE withCookie == [ctx EXCEPT !.additional = Append(@, RR(<<>>, "OPT", "cookie"))]
<1>1. /\ pc = "cookie" /\ failed' = failed /\ ~ failed /\ CtxOK(ctx) /\ ctx.answer = <<>> /\ ctx.authority = <<>>
      /\ ctx.res \in {"Success", "FormatError"} /\ pc \in BeforeZone
  BY DEF CheckRequestCookie, ResolverInv, Before, BeforeZone
<1>2. DOMAIN withCookie = DOMAIN ctx /\ withCookie.answer = ctx.answer /\ withCookie.authority = ctx.authority /\ withCookie.res = ctx.res
  BY <1>1 DEF CtxOK, CtxFields
<1>3. \/ ctx' \in {ctx, withCookie} /\ Goto("zone") /\ UNCHANGED <<cur, loopCount, found, held, chase>>
      \/ Respond(WithRes("FormatError"), "zone")
      \/ Respond([withCookie EXCEPT !.res = "BadCookie"], "done")
  BY DEF CheckRequestCookie
<1> HIDE DEF withCookie
<1>4. CASE ctx' \in {ctx, withCookie} /\ Goto("zone") /\ UNCHANGED <<cur, loopCount, found, held, chase>>
  <2>1. CtxOK(ctx') /\ ctx'.answer = <<>> /\ ctx'.authority = <<>> /\ ctx'.res \in {"Success", "FormatError"}
    BY <1>1, <1>2, <1>4 DEF CtxOK
  <2>2. pc' = "zone" /\ store' = store /\ request' = request /\ zone' = zone /\ sent' = sent
    BY <1>4 DEF Goto, inputs
  <2>3. StoreOK'
    BY <2>2 DEF ResolverInv, StoreOK, qname
  <2>4. Before'
    BY <1>1, <2>1, <2>2 DEF ResolverInv, Before
  <2> QED BY <2>1, <2>2, <2>3, <2>4 DEF ResolverInv, BeforeZone, InLoop, AtEnd, CtxOK
<1>5. CASE Respond(WithRes("FormatError"), "zone")
  <2>1. PICK c : c = WithRes("FormatError")
    OBVIOUS
  <2>2. CtxOK(c) /\ c.answer = <<>> /\ c.authority = <<>> /\ c.res = "FormatError"
    BY <1>1, <2>1 DEF WithRes, CtxOK, CtxFields
  <2>3. Respond(c, "zone")
    BY <1>5, <2>1
  <2> QED BY <1>1, <2>2, <2>3, RespondInv
<1>6. CASE Respond([withCookie EXCEPT !.res = "BadCookie"], "done")
  <2>1. PICK c : c = [withCookie EXCEPT !.res = "BadCookie"]
    OBVIOUS
  <2>2. CtxOK(c) /\ c.answer = <<>> /\ c.authority = <<>>
    BY <1>1, <1>2, <2>1 DEF CtxOK, CtxFields
  <2>3. Respond(c, "done")
    BY <1>6, <2>1
  <2> QED BY <1>1, <2>2, <2>3, RespondInv
<1> QED BY <1>3, <1>4, <1>5, <1>6

\* No zone, or none that can be read.
LEMMA RefuseInv == ASSUME ResolverInv, RefuseZone PROVE ResolverInv'
<1>1. /\ pc \in BeforeZone /\ ~ failed /\ CtxOK(ctx) /\ ctx.answer = <<>> /\ ctx.authority = <<>>
  BY DEF RefuseZone, ResolverInv, Before, BeforeZone
<1>2. PICK res : Respond(WithRes(res), "done") /\ (failed' => res = "ServerFailure")
  BY <1>1 DEF RefuseZone
<1>3. PICK c : c = WithRes(res)
  OBVIOUS
<1>4. CtxOK(c) /\ c.answer = <<>> /\ c.authority = <<>> /\ c.res = res
  BY <1>1, <1>3 DEF WithRes, CtxOK, CtxFields
<1>5. Respond(c, "done")
  BY <1>2, <1>3
<1> QED BY <1>1, <1>2, <1>4, <1>5, RespondInv

\* The zone is opened.
LEMMA OpenInv == ASSUME ResolverInv, OpenZone PROVE ResolverInv'
<1>1. /\ StoreOK /\ CtxOK(ctx) /\ IsSeq(sent) /\ Before
  BY DEF OpenZone, ResolverInv, BeforeZone
<1>2. PICK config, dnssec :
        /\ dnssec = (request.do /\ config.dnssec)
        /\ zone' = [name |-> FindZone(store.zones, qname), locations |-> store.locations, tree |-> TreeKeys(store.locations),
                    dnssec |-> config.dnssec, flat |-> dnssec \/ config.flat]
        /\ ctx' = [ctx EXCEPT !.dnssec = dnssec]
  BY DEF OpenZone
<1>3. /\ pc' = "loop" /\ cur' = qname /\ store' = store /\ request' = request /\ sent' = sent /\ failed' = failed
      /\ FindZone(store.zones, qname) # <<>>
  BY DEF OpenZone, inputs
<1>4. FindZone(store.zones, qname) \in Seq(STRING)
  BY <1>1, <1>3, FindZoneIsPrefix DEF StoreOK
<1>5. /\ zone'.name = FindZone(store.zones, qname) /\ zone'.locations = store.locations /\ zone'.tree = TreeKeys(store.locations)
      /\ (dnssec => zone'.flat)
  BY <1>2
<1>6. ZoneBuilt(zone') /\ zone'.name # <<>>
  BY <1>1, <1>3, <1>4, <1>5 DEF ZoneBuilt, StoreOK
<1>7. /\ DOMAIN ctx' = CtxFields /\ ctx'.answer = <<>> /\ ctx'.authority = <<>> /\ ctx'.res = ctx.res /\ ctx'.dnssec = dnssec
  BY <1>1, <1>2 DEF CtxOK, CtxFields, Before
<1>8. CtxOK(ctx')
  BY <1>7, EmptyIsSeq DEF CtxOK
<1>9. StoreOK'
  BY <1>1, <1>3 DEF StoreOK, qname
<1>10. Quiet(ctx'.authority) /\ CNAMEs(ctx'.answer)
  BY <1>7, NoElems DEF Quiet, CNAMEs
<1>11. Open'
  BY <1>1, <1>3, <1>5, <1>6, <1>7, <1>10 DEF Open, Before, StoreOK, qname, Quiet, CNAMEs
<1>12. OnTheWay'
  <2>1. Len(ctx'.answer) = 0
    BY <1>7, EmptyIsSeq
  <2>2. \A i \in 1..Len(ctx'.answer) - 1 : FALSE
    BY <2>1
  <2>3. cur' = qname' /\ pc' = "loop"
    BY <1>3 DEF qname
  <2> QED BY <1>7, <2>1, <2>2, <2>3 DEF OnTheWay, Linked
<1> QED BY <1>1, <1>3, <1>8, <1>9, <1>11, <1>12 DEF ResolverInv, BeforeZone, InLoop, AtEnd, CtxOK

-----------------------------------------------------------------------------
(* The loop over the names of a CNAME chain. *)

\* The chain is too long.
LEMMA LoopLimitInv == ASSUME ResolverInv, LoopLimit PROVE ResolverInv'
<1>1. PICK c : c = [ctx EXCEPT !.answer = <<>>, !.res = "ServerFailure"]
  OBVIOUS
<1>2. Break(c) /\ failed' = failed /\ pc \in InLoop \union AtEnd
  BY <1>1 DEF LoopLimit, InLoop
<1>3. CtxOK(ctx) /\ ~ failed
  BY <1>2 DEF ResolverInv, Open, InLoop, LoopLimit
<1>4. c.answer = <<>> /\ c.res = "ServerFailure" /\ c.authority = ctx.authority /\ DOMAIN c = CtxFields
  BY <1>1, <1>3 DEF CtxOK, CtxFields
<1>5. CtxOK(c) /\ IsSeq(c.answer) /\ CNAMEs(c.answer) /\ IsChain(c.answer)
  BY <1>3, <1>4, NoElems, NothingIsChain DEF CtxOK
<1>6. ChainOK(c) /\ FailureOK(c, failed') /\ LookupOK(c) /\ SelectionOK(c)
  BY <1>2, <1>3, <1>4, <1>5, NoSelection DEF ChainOK, FailureOK, LookupOK
<1> QED BY <1>2, <1>5, <1>6, BreakInv

\* What a turn of the loop finds out about the current name.
LEMMA TurnIs ==
    ASSUME ResolverInv, NEW inZone, NEW match, Turn(inZone, match)
    PROVE  /\ pc = "loop" /\ pc \in InLoop /\ failed' = failed /\ ~ failed
           /\ inZone = TRUE => IsPrefix(zone.name, cur) /\ FindLocation(zone, cur).match \in match
<1>1. pc = "loop" /\ pc \in InLoop /\ failed' = failed
  BY DEF Turn, InLoop
<1>2. /\ ~ failed /\ cur \in Seq(STRING) /\ zone.name # <<>> /\ store.zones \in SUBSET Seq(STRING)
  BY <1>1 DEF ResolverInv, Open, StoreOK
<1>3. ASSUME inZone = TRUE PROVE FindZone(store.zones, cur) = zone.name /\ FindLocation(zone, cur).match \in match
  BY <1>3 DEF Turn
<1>4. ASSUME inZone = TRUE PROVE IsPrefix(zone.name, cur)
  BY <1>2, <1>3, <1>4, FindZoneIsPrefix
<1> QED BY <1>1, <1>2, <1>3, <1>4

\* The chain leaves the zone.
LEMMA LeaveInv == ASSUME ResolverInv, LeaveZone PROVE ResolverInv'
<1>1. pc \in InLoop /\ failed' = failed /\ ~ failed
  BY TurnIs DEF LeaveZone
<1>2. PICK s : s = WithRes("Success")
  OBVIOUS
<1>3. CtxOK(ctx) /\ Quiet(ctx.authority) /\ CNAMEs(ctx.answer)
  BY <1>1 DEF ResolverInv, Open
<1>4. CtxOK(s) /\ s.answer = ctx.answer /\ s.authority = ctx.authority /\ s.res = "Success"
  BY <1>2, <1>3 DEF WithRes, CtxOK, CtxFields
<1>5. PICK c : c \in {s, addNSec(s, qname, qtype)} /\ Break(c)
  BY <1>2 DEF LeaveZone
<1>6. CtxOK(c) /\ c.answer = ctx.answer /\ c.res = "Success" /\ Quiet(c.authority)
  <2>1. CASE c = s
    BY <1>3, <1>4, <2>1
  <2>2. CASE c = addNSec(s, qname, qtype)
    <3>1. /\ CtxOK(c) /\ c.answer = s.answer /\ c.res \in {s.res, "Success"}
          /\ \A x \in Elems(c.authority) : x \in Elems(s.authority) \/ (x.type = "NSEC" /\ (SaysNXDOMAIN(x) => s.res = "NameError"))
      BY <1>4, <2>2, NSecIs
    <3> QED BY <1>3, <1>4, <3>1 DEF Quiet
  <2> QED BY <1>5, <2>1, <2>2
<1>7. LookupOK(c)
  BY <1>3, <1>6, QuietEnd
<1>8. FailureOK(c, failed')
  BY <1>1 DEF FailureOK
<1> QED BY <1>1, <1>5, <1>6, <1>7, <1>8, CNAMEsEnd

\* The denial of a name, and of the types of an empty non-terminal.
LEMMA DenialInv ==
    ASSUME ResolverInv, pc \in InLoop, failed' = failed, NEW res, Break(Denial(res)), IsPrefix(zone.name, cur),
           \/ res = "NameError" /\ FindLocation(zone, cur).match \in {"NoMatch", "CEMatch"}
           \/ res = "Success" /\ FindLocation(zone, cur).match = "EmptyNonterminalMatch"
    PROVE  ResolverInv'
<1>1. /\ CtxOK(ctx) /\ CNAMEs(ctx.answer) /\ ~ failed /\ ZoneBuilt(zone) /\ cur \in Seq(STRING)
  BY DEF ResolverInv, Open, InLoop
<1>2. /\ Real(cur) <=> FindLocation(zone, cur).match \in {"ExactMatch", "EmptyNonterminalMatch", "WildCardMatch"}
      /\ cur = zone.name => FindLocation(zone, cur).match = "ExactMatch"
  BY <1>1, RealIsFound
<1>3. PICK s : s = [ctx EXCEPT !.authority = One(SOA), !.res = res]
  OBVIOUS
<1>4. s.answer = ctx.answer /\ s.authority = One(SOA) /\ s.res = res /\ DOMAIN s = CtxFields /\ s.dnssec = ctx.dnssec
  BY <1>1, <1>3 DEF CtxOK, CtxFields
<1>5. CtxOK(s) /\ Elems(s.authority) = {SOA}
  BY <1>1, <1>4, OneIs DEF CtxOK
<1>6. PICK c : c = addNSec(s, cur, "None")
  OBVIOUS
<1>7. Break(c)
  BY <1>3, <1>6 DEF Denial, One
<1>8. /\ CtxOK(c) /\ c.answer = s.answer /\ c.dnssec = s.dnssec
      /\ c.res \in {s.res, "Success"}
      /\ ~ s.dnssec => c = s
      /\ \A x \in Elems(c.authority) : x \in Elems(s.authority) \/ (x.type = "NSEC" /\ (SaysNXDOMAIN(x) => s.res = "NameError"))
      /\ s.dnssec /\ s.res = "NameError" /\ cur # zone.name => \E x \in Elems(c.authority) : SaysNXDOMAIN(x)
  BY <1>5, <1>6, NSecIs
<1>9. ~ SaysNXDOMAIN(SOA)
  BY DEF SaysNXDOMAIN, SOA, RR
<1>10. LookupOK(c)
  <2>1. CASE res = "NameError" /\ FindLocation(zone, cur).match \in {"NoMatch", "CEMatch"}
    <3>1. ~ Real(cur) /\ cur # zone.name
      BY <1>2, <2>1
    <3>2. NXDOMAIN(c)
      <4>1. CASE s.dnssec
        BY <1>4, <1>8, <2>1, <3>1, <4>1 DEF NXDOMAIN
      <4>2. CASE ~ s.dnssec
        <5>1. c.res = "NameError"
          BY <1>4, <1>8, <2>1, <4>2
        <5> QED BY <5>1 DEF NXDOMAIN
      <4> QED BY <4>1, <4>2
    <3> QED BY <1>1, <1>4, <1>8, <3>1, <3>2, DeniedEnd
  <2>2. CASE res = "Success" /\ FindLocation(zone, cur).match = "EmptyNonterminalMatch"
    <3>1. Real(cur) /\ c.res # "NameError"
      BY <1>2, <1>4, <1>8, <2>2
    <3>2. \A x \in Elems(c.authority) : ~ SaysNXDOMAIN(x)
      BY <1>4, <1>5, <1>8, <1>9, <2>2
    <3> QED BY <3>1, <3>2, RealEnd
  <2> QED BY <2>1, <2>2
<1>11. FailureOK(c, failed')
  BY <1>1 DEF FailureOK
<1> QED BY <1>4, <1>7, <1>8, <1>10, <1>11, CNAMEsEnd

\* A name that is not there.
LEMMA NoSuchNameInv == ASSUME ResolverInv, NoSuchName PROVE ResolverInv'
<1>1. Turn(TRUE, {"NoMatch"}) /\ Break(Denial("NameError"))
  BY DEF NoSuchName
<1> QED BY <1>1, TurnIs, DenialInv

\* An empty non-terminal.
LEMMA EmptyNonterminalInv == ASSUME ResolverInv, EmptyNonterminal PROVE ResolverInv'
<1>1. Turn(TRUE, {"EmptyNonterminalMatch"}) /\ Break(Denial("Success"))
  BY DEF EmptyNonterminal
<1>2. pc \in InLoop /\ failed' = failed /\ IsPrefix(zone.name, cur) /\ FindLocation(zone, cur).match \in {"EmptyNonterminalMatch"}
  BY <1>1, TurnIs
<1>3. FindLocation(zone, cur).match = "EmptyNonterminalMatch"
  BY <1>2
<1> QED BY <1>1, <1>2, <1>3, DenialInv

\* A step inside the loop that follows no CNAME.
LEMMA LoopOn ==
    ASSUME ResolverInv, pc \in InLoop, pc' \in InLoop,
           UNCHANGED <<store, request, zone, sent, cur, failed>>,
           CtxOK(ctx'), ctx'.answer = ctx.answer, ctx'.dnssec = ctx.dnssec, ctx'.res \in {"Success", "FormatError"}, Quiet(ctx'.authority),
           pc' \in {"cname", "ns", "ds"} =>
              /\ found' = FindLocation(zone, cur) /\ IsPrefix(zone.name, cur)
              /\ found'.match \in {"CEMatch", "ExactMatch", "WildCardMatch"},
           pc' = "cname" => found'.match # "CEMatch",
           pc' = "ds" => held' \in Seq(Seq(STRING))
    PROVE  ResolverInv'
<1>1. Open /\ OnTheWay /\ StoreOK /\ IsSeq(sent)
  BY DEF ResolverInv
<1>2. StoreOK' /\ IsSeq(sent')
  BY <1>1 DEF StoreOK, qname
<1>3. Open'
  BY <1>1 DEF Open, InLoop, qtype, Quiet, CNAMEs
<1>4. OnTheWay'
  BY <1>1 DEF OnTheWay, Linked, Real, qname
<1> QED BY <1>2, <1>3, <1>4 DEF ResolverInv, BeforeZone, InLoop, AtEnd, CtxOK

\* A name that is there.
LEMMA NameFoundInv == ASSUME ResolverInv, NameFound PROVE ResolverInv'
<1>1. Turn(TRUE, {"CEMatch", "ExactMatch", "WildCardMatch"})
  BY DEF NameFound
<1>2. /\ pc \in InLoop /\ failed' = failed
      /\ IsPrefix(zone.name, cur) /\ FindLocation(zone, cur).match \in {"CEMatch", "ExactMatch", "WildCardMatch"}
  BY <1>1, TurnIs
<1>3. /\ found' = FindLocation(zone, cur) /\ pc' = (IF found'.match = "CEMatch" THEN "ns" ELSE "cname")
      /\ UNCHANGED <<store, request, zone, sent, cur, ctx>>
  BY DEF NameFound, Goto, inputs
<1>4. CtxOK(ctx) /\ ctx.res \in {"Success", "FormatError"} /\ Quiet(ctx.authority)
  BY <1>2 DEF ResolverInv, Open
<1> QED BY <1>2, <1>3, <1>4, LoopOn DEF InLoop

\* The last name of the chain is real, and is the one the answer is for.
LEMMA FinalLocationInv ==
    ASSUME ResolverInv, pc \in {"cname", "ns"}, found.match # "CEMatch", FinalLocation, UNCHANGED <<ctx, failed>>
    PROVE  ResolverInv'
<1>1. Open /\ OnTheWay /\ StoreOK /\ IsSeq(sent) /\ CtxOK(ctx)
  BY DEF ResolverInv, InLoop
<1>2. /\ pc' = "answer" /\ cur' = (IF zone.flat THEN qname ELSE cur)
      /\ UNCHANGED <<store, request, zone, sent>>
  BY DEF FinalLocation, Goto, inputs
<1>3. Real(cur)
  <2>1. /\ ZoneBuilt(zone) /\ cur \in Seq(STRING) /\ IsPrefix(zone.name, cur)
        /\ FindLocation(zone, cur).match \in {"ExactMatch", "WildCardMatch"}
    BY <1>1 DEF Open, OnTheWay
  <2> QED BY <2>1, RealIsFound
<1>4. cur' \in Seq(STRING) /\ (zone.flat => cur' = qname) /\ Real(cur') /\ Linked(ctx.answer, cur')
  <2>1. CASE zone.flat
    <3>1. Len(ctx.answer) = 0
      BY <1>1, <2>1, EmptyIsSeq DEF OnTheWay
    <3>2. \A i \in 1..Len(ctx.answer) - 1 : FALSE
      BY <3>1
    <3> QED BY <1>1, <1>2, <1>3, <2>1, <3>1, <3>2 DEF OnTheWay, Linked, StoreOK
  <2>2. CASE ~ zone.flat
    BY <1>1, <1>2, <1>3, <2>2 DEF OnTheWay, Open
  <2> QED BY <2>1, <2>2
<1>5. StoreOK' /\ IsSeq(sent')
  BY <1>1, <1>2 DEF StoreOK, qname
<1>6. Open'
  BY <1>1, <1>2, <1>4 DEF Open, qtype, Quiet, CNAMEs
<1>7. Arrived'
  BY <1>2, <1>4 DEF Arrived, Linked, Real, qname
<1> QED BY <1>1, <1>2, <1>5, <1>6, <1>7 DEF ResolverInv, BeforeZone, InLoop, AtEnd, CtxOK

\* A CNAME is followed inside the zone.
LEMMA FollowInv ==
    ASSUME ResolverInv, pc = "cname", NEW cname \in Seq(STRING), qtype # "CNAME", failed' = failed,
           ctx' = IF zone.flat THEN ctx ELSE [ctx EXCEPT !.answer = Append(@, RR(cur, "CNAME", cname))],
           cur' = cname, Goto("loop")
    PROVE  ResolverInv'
<1>1. Open /\ OnTheWay /\ StoreOK /\ IsSeq(sent) /\ CtxOK(ctx)
  BY DEF ResolverInv, InLoop
<1>2. pc' = "loop" /\ UNCHANGED <<store, request, zone, sent>>
  BY DEF Goto, inputs
<1>3. Real(cur)
  <2>1. /\ ZoneBuilt(zone) /\ cur \in Seq(STRING) /\ IsPrefix(zone.name, cur)
        /\ FindLocation(zone, cur).match \in {"ExactMatch", "WildCardMatch"}
    BY <1>1 DEF Open, OnTheWay
  <2> QED BY <2>1, RealIsFound
<1>4. PICK x : x = RR(cur, "CNAME", cname)
  OBVIOUS
<1>5. x.owner = cur /\ x.type = "CNAME" /\ x.data = cname
  BY <1>4 DEF RR
<1>6. /\ CtxOK(ctx') /\ ctx'.authority = ctx.authority /\ ctx'.dnssec = ctx.dnssec /\ ctx'.res = ctx.res
      /\ CNAMEs(ctx'.answer)
      /\ IF zone.flat THEN ctx'.answer = <<>> /\ Real(qname) ELSE Linked(ctx'.answer, cname)
  <2>1. CASE zone.flat
    BY <1>1, <1>3, <2>1 DEF OnTheWay, Open
  <2>2. CASE ~ zone.flat
    <3>1. ctx' = [ctx EXCEPT !.answer = Add(ctx.answer, x)]
      BY <1>4, <2>2 DEF Add
    <3>2. /\ ctx'.authority = ctx.authority /\ ctx'.dnssec = ctx.dnssec /\ ctx'.res = ctx.res
          /\ DOMAIN ctx' = CtxFields /\ ctx'.answer = Add(ctx.answer, x)
      BY <1>1, <3>1 DEF CtxOK, CtxFields
    <3>3. IsSeq(ctx'.answer) /\ Elems(ctx'.answer) = Elems(ctx.answer) \union {x}
      BY <1>1, <3>2, AddIs, AddElems DEF CtxOK
    <3>4. CNAMEs(ctx'.answer)
      BY <1>1, <1>5, <3>3 DEF CNAMEs, Open
    <3>5. Linked(ctx.answer, cur) /\ IsSeq(ctx.answer)
      BY <1>1, <2>2 DEF OnTheWay, CtxOK
    <3>6. Linked(ctx'.answer, cname)
      BY <1>5, <3>2, <3>5, LinkAdded
    <3> QED BY <1>1, <2>2, <3>2, <3>3, <3>4, <3>6 DEF CtxOK
  <2> QED BY <2>1, <2>2
<1>7. StoreOK' /\ IsSeq(sent')
  BY <1>1, <1>2 DEF StoreOK, qname
<1>8. Open'
  BY <1>1, <1>2, <1>6 DEF Open, qtype, Quiet, CNAMEs
<1>9. OnTheWay'
  BY <1>2, <1>6 DEF OnTheWay, Linked, Real, qname
<1> QED BY <1>2, <1>6, <1>7, <1>8, <1>9 DEF ResolverInv, BeforeZone, InLoop, AtEnd, CtxOK

\* A flattened chain leaves the zone: its CNAME is shown under the name asked.
LEMMA ShowInv ==
    ASSUME ResolverInv, pc = "cname", NEW cname, zone.flat, failed' = failed,
           Break([ctx EXCEPT !.answer = Append(@, RR(qname, "CNAME", cname)), !.res = "Success"])
    PROVE  ResolverInv'
<1>1. Open /\ OnTheWay /\ CtxOK(ctx) /\ ctx.answer = <<>> /\ pc \in InLoop
  BY DEF ResolverInv, InLoop, OnTheWay
<1>2. PICK x : x = RR(qname, "CNAME", cname)
  OBVIOUS
<1>3. x.owner = qname /\ x.type = "CNAME"
  BY <1>2 DEF RR
<1>4. PICK c : c = [ctx EXCEPT !.answer = Add(ctx.answer, x), !.res = "Success"]
  OBVIOUS
<1>5. Break(c)
  BY <1>2, <1>4 DEF Add
<1>6. c.answer = Add(ctx.answer, x) /\ c.authority = ctx.authority /\ c.res = "Success" /\ DOMAIN c = CtxFields
  BY <1>1, <1>4 DEF CtxOK, CtxFields
<1>7. Linked(ctx.answer, qname) /\ IsSeq(ctx.answer) /\ Elems(ctx.answer) = {}
  <2>1. Len(ctx.answer) = 0 /\ IsSeq(ctx.answer) /\ Elems(ctx.answer) = {}
    BY <1>1, NoElems
  <2>2. \A i \in 1..Len(ctx.answer) - 1 : FALSE
    BY <2>1
  <2> QED BY <2>1, <2>2 DEF Linked
<1>8. IsSeq(c.answer) /\ Elems(c.answer) = {x} /\ Linked(c.answer, x.data)
  BY <1>3, <1>6, <1>7, AddIs, AddElems, LinkAdded
<1>9. CNAMEs(c.answer) /\ CtxOK(c)
  BY <1>1, <1>3, <1>6, <1>8 DEF CNAMEs, CtxOK
<1>10. IsChain(c.answer)
  BY <1>8, <1>9, LinkedIsChain
<1>11. ChainOK(c) /\ FailureOK(c, failed')
  BY <1>1, <1>10 DEF ChainOK, FailureOK, Open
<1>12. LookupOK(c) /\ SelectionOK(c)
  BY <1>1, <1>6, <1>8, <1>9, QuietEnd, NoSelection DEF Open
<1> QED BY <1>1, <1>5, <1>9, <1>11, <1>12, BreakInv

\* The CNAME of the current name.
LEMMA ReadCNAMEInv == ASSUME ResolverInv, ReadCNAME PROVE ResolverInv'
<1>1. pc = "cname" /\ pc \in InLoop /\ StoreOK /\ found.match # "CEMatch"
  BY DEF ReadCNAME, ResolverInv, InLoop, OnTheWay
<1>2. PICK cname \in getRRSet(found.location, "CNAME") :
         \/ cname = Failed /\ ReadFails
         \/ /\ cname \notin {Failed, <<>>} /\ qtype # "CNAME"
            /\ UNCHANGED <<loopCount, failed>>
            /\ IF zone.flat /\ FindZone(store.zones, cname) # zone.name
               THEN Break([ctx EXCEPT !.answer = Append(@, RR(qname, "CNAME", cname)), !.res = "Success"])
               ELSE /\ ctx' = IF zone.flat THEN ctx ELSE [ctx EXCEPT !.answer = Append(@, RR(cur, "CNAME", cname))]
                    /\ cur' = cname /\ Goto("loop") /\ UNCHANGED <<found, held, chase>>
         \/ /\ cname # Failed /\ (cname = <<>> \/ qtype = "CNAME")
            /\ IF cur # zone.name THEN Goto("ns") /\ UNCHANGED cur ELSE FinalLocation
            /\ UNCHANGED <<loopCount, found, held, chase, ctx, failed>>
  BY DEF ReadCNAME
<1>3. CASE cname = Failed /\ ReadFails
  BY <1>1, <1>3, ReadFailsInv
<1>4. CASE cname # Failed /\ qtype # "CNAME" /\ failed' = failed /\ zone.flat
           /\ Break([ctx EXCEPT !.answer = Append(@, RR(qname, "CNAME", cname)), !.res = "Success"])
  BY <1>1, <1>4, ShowInv
<1>5. CASE cname # Failed /\ qtype # "CNAME" /\ failed' = failed
           /\ ctx' = (IF zone.flat THEN ctx ELSE [ctx EXCEPT !.answer = Append(@, RR(cur, "CNAME", cname))])
           /\ cur' = cname /\ Goto("loop")
  <2>1. cname \in Seq(STRING)
    BY <1>1, <1>2, <1>5, ReadIsWellFormed DEF WellFormed
  <2> QED BY <1>1, <1>5, <2>1, FollowInv
<1>6. CASE FinalLocation /\ UNCHANGED <<ctx, failed>>
  BY <1>1, <1>6, FinalLocationInv
<1>7. CASE Goto("ns") /\ UNCHANGED <<cur, found, held, ctx, failed>>
  <2>1. pc' = "ns" /\ UNCHANGED <<store, request, zone, sent, cur, failed, ctx, found>>
    BY <1>7 DEF Goto, inputs
  <2>2. CtxOK(ctx) /\ ctx.res \in {"Success", "FormatError"} /\ Quiet(ctx.authority) /\ OnTheWay
    BY <1>1 DEF ResolverInv, Open
  <2>3. found = FindLocation(zone, cur) /\ IsPrefix(zone.name, cur) /\ found.match \in {"CEMatch", "ExactMatch", "WildCardMatch"}
    BY <1>1, <2>2 DEF OnTheWay
  <2>4. pc' \in InLoop
    BY <2>1 DEF InLoop
  <2> QED BY <1>1, <2>1, <2>2, <2>3, <2>4, LoopOn
<1> QED BY <1>2, <1>3, <1>4, <1>5, <1>6, <1>7

-----------------------------------------------------------------------------
(* Delegations. *)

\* The records of a set: its owner and its type, and one only unless they are NS.
LEMMA ValueIs ==
    ASSUME NEW o, NEW t, NEW r, t = "NS" => IsSeq(r)
    PROVE  /\ IsSeq(Value(o, t, r))
           /\ \A i \in 1..Len(Value(o, t, r)) : Value(o, t, r)[i].owner = o /\ Value(o, t, r)[i].type = t
           /\ \A x \in Elems(Value(o, t, r)) : x.type = t
           /\ t # "NS" => Len(Value(o, t, r)) <= 1
<1>1. PICK v : v = Value(o, t, r)
  OBVIOUS
<1>2. IsSeq(v) /\ (\A i \in 1..Len(v) : v[i].owner = o /\ v[i].type = t) /\ (t # "NS" => Len(v) <= 1)
  <2>1. CASE t = "NS"
    <3>1. Len(r) \in Nat /\ DOMAIN r = 1..Len(r)
      BY <2>1, SeqDomain
    <3>2. v = [i \in 1..Len(r) |-> RR(o, t, r[i])]
      BY <1>1, <2>1, <3>1 DEF Value
    <3>3. v = [i \in 1..Len(r) |-> v[i]] /\ \A i \in 1..Len(r) : v[i] = RR(o, t, r[i])
      BY <3>2
    <3>4. IsSeq(v) /\ Len(v) = Len(r)
      BY <3>1, <3>3, SeqIntro
    <3> QED BY <2>1, <3>3, <3>4 DEF RR
  <2>2. CASE t # "NS" /\ r = <<>>
    <3>1. v = <<>>
      BY <1>1, <2>2 DEF Value
    <3>2. IsSeq(v) /\ Len(v) = 0
      BY <3>1, NoElems
    <3> QED BY <3>2
  <2>3. CASE t # "NS" /\ r # <<>>
    <3>1. v = One(RR(o, t, r))
      BY <1>1, <2>3 DEF Value, One
    <3>2. IsSeq(v) /\ Len(v) = 1 /\ v[1] = RR(o, t, r)
      BY <3>1, OneIs
    <3>3. \A i \in 1..1 : i = 1
      OBVIOUS
    <3> QED BY <3>2, <3>3 DEF RR
  <2> QED BY <2>1, <2>2, <2>3
<1>3. DOMAIN v = 1..Len(v)
  BY <1>2, SeqDomain
<1>4. \A x \in Elems(v) : x.type = t
  BY <1>2, <1>3 DEF Elems
<1> QED BY <1>1, <1>2, <1>4

\* Records of such a type deny nothing.
LEMMA QuietCat ==
    ASSUME NEW a, IsSeq(a), Quiet(a), NEW v, IsSeq(v), NEW t \in {"NS", "DS"}, \A x \in Elems(v) : x.type = t
    PROVE  IsSeq(Cat(a, v)) /\ Quiet(Cat(a, v))
<1>1. Elems(Cat(a, v)) = Elems(a) \union Elems(v) /\ IsSeq(Cat(a, v))
  BY CatIs, CatElems
<1>2. \A x \in Elems(v) : x.type # "SOA" /\ ~ SaysNXDOMAIN(x)
  BY DEF SaysNXDOMAIN
<1> QED BY <1>1, <1>2 DEF Quiet

\* The NS of a cut, or of a name that is there.
LEMMA ReadNSInv == ASSUME ResolverInv, ReadNS PROVE ResolverInv'
<1>1. pc = "ns" /\ pc \in InLoop /\ StoreOK /\ Open /\ OnTheWay /\ CtxOK(ctx)
  BY DEF ReadNS, ResolverInv, InLoop
<1>2. found = FindLocation(zone, cur) /\ IsPrefix(zone.name, cur) /\ found.match \in {"CEMatch", "ExactMatch", "WildCardMatch"}
  BY <1>1 DEF OnTheWay
<1>3. PICK ns \in getRRSet(found.location, "NS") :
         \/ ns = Failed /\ ReadFails
         \/ /\ ns \notin {Failed, <<>>}
            /\ held' = ns
            /\ ctx' = IF BelowCut THEN [ctx EXCEPT !.authority = @ \o Value(CutPoint, "NS", ns)] ELSE ctx
            /\ Goto("ds") /\ UNCHANGED <<cur, loopCount, found, chase, failed>>
         \/ /\ ns = <<>> /\ UNCHANGED <<loopCount, failed>>
            /\ IF BelowCut THEN Break(Denial("NameError"))
               ELSE FinalLocation /\ UNCHANGED <<found, held, chase, ctx>>
  BY DEF ReadNS
<1>4. CASE ns = Failed /\ ReadFails
  BY <1>1, <1>4, ReadFailsInv
<1>5. CASE /\ ns \notin {Failed, <<>>} /\ held' = ns
           /\ ctx' = IF BelowCut THEN [ctx EXCEPT !.authority = @ \o Value(CutPoint, "NS", ns)] ELSE ctx
           /\ Goto("ds") /\ UNCHANGED <<cur, loopCount, found, chase, failed>>
  <2>1. ns \in Seq(Seq(STRING)) /\ IsSeq(ns)
    BY <1>1, <1>5, ReadIsWellFormed, SeqOfSet DEF WellFormed
  <2>2. PICK v : v = Value(CutPoint, "NS", ns)
    OBVIOUS
  <2>3. IsSeq(v) /\ \A x \in Elems(v) : x.type = "NS"
    BY <2>1, <2>2, ValueIs
  <2>4. ctx' = IF BelowCut THEN [ctx EXCEPT !.authority = Cat(ctx.authority, v)] ELSE ctx
    BY <1>5, <2>2 DEF Cat
  <2>5. /\ DOMAIN ctx' = CtxFields /\ ctx'.answer = ctx.answer /\ ctx'.dnssec = ctx.dnssec /\ ctx'.res = ctx.res
        /\ ctx'.authority \in {ctx.authority, Cat(ctx.authority, v)}
    BY <1>1, <2>4 DEF CtxOK, CtxFields
  <2>6. IsSeq(ctx'.authority) /\ Quiet(ctx'.authority)
    BY <1>1, <2>3, <2>5, QuietCat DEF CtxOK, Open
  <2>7. CtxOK(ctx') /\ ctx'.res \in {"Success", "FormatError"}
    BY <1>1, <2>5, <2>6 DEF CtxOK, Open
  <2>8. pc' = "ds" /\ pc' \in InLoop /\ UNCHANGED <<store, request, zone, sent, cur, failed, found>>
    BY <1>5 DEF Goto, inputs, InLoop
  <2> QED BY <1>1, <1>2, <1>5, <2>1, <2>5, <2>6, <2>7, <2>8, LoopOn
<1>6. CASE ns = <<>> /\ failed' = failed /\ BelowCut /\ Break(Denial("NameError"))
  <2>1. FindLocation(zone, cur).match \in {"NoMatch", "CEMatch"}
    BY <1>2, <1>6 DEF BelowCut
  <2> QED BY <1>1, <1>2, <1>6, <2>1, DenialInv
<1>7. CASE ns = <<>> /\ UNCHANGED <<ctx, failed>> /\ ~ BelowCut /\ FinalLocation
  BY <1>1, <1>7, FinalLocationInv DEF BelowCut
<1> QED BY <1>3, <1>4, <1>5, <1>6, <1>7

\* The DS of a delegation is the answer.
LEMMA AnswerDSInv ==
    ASSUME ResolverInv, pc = "ds", NEW ds, failed' = failed, ~ BelowCut, qtype = "DS",
           Break([ctx EXCEPT !.answer = @ \o Value(cur, "DS", ds), !.res = "Success"])
    PROVE  ResolverInv'
<1>1. pc \in InLoop /\ Open /\ OnTheWay /\ CtxOK(ctx)
  BY DEF ResolverInv, InLoop
<1>2. Real(cur)
  <2>1. /\ ZoneBuilt(zone) /\ cur \in Seq(STRING) /\ IsPrefix(zone.name, cur)
        /\ FindLocation(zone, cur).match \in {"ExactMatch", "WildCardMatch"}
    BY <1>1 DEF Open, OnTheWay, BelowCut
  <2> QED BY <2>1, RealIsFound
<1>3. PICK v : v = Value(cur, "DS", ds)
  OBVIOUS
<1>4. IsSeq(v) /\ IsTail(v, cur)
  BY <1>3, ValueIs DEF IsTail
<1>5. PICK c : c = [ctx EXCEPT !.answer = Cat(ctx.answer, v), !.res = "Success"]
  OBVIOUS
<1>6. Break(c)
  BY <1>3, <1>5 DEF Cat
<1>7. c.answer = Cat(ctx.answer, v) /\ c.authority = ctx.authority /\ c.res = "Success" /\ DOMAIN c = CtxFields
  BY <1>1, <1>5 DEF CtxOK, CtxFields
<1>8. CtxOK(c)
  BY <1>1, <1>4, <1>7, CatIs DEF CtxOK
<1>9. ChainOK(c)
  <2> SUFFICES ASSUME ~ zone.flat PROVE IsChain(c.answer)
    BY DEF ChainOK
  <2>1. IsSeq(ctx.answer) /\ Linked(ctx.answer, cur) /\ CNAMEs(ctx.answer)
    BY <1>1 DEF CtxOK, OnTheWay, Open
  <2> QED BY <1>4, <1>7, <2>1, JoinIsChain
<1>10. FailureOK(c, failed')
  BY <1>1 DEF FailureOK, Open
<1>11. LookupOK(c)
  BY <1>1, <1>2, <1>7, RealEnd DEF Open, Quiet
<1>12. SelectionOK(c)
  BY DEF SelectionOK, AddressTypes
<1> QED BY <1>1, <1>6, <1>8, <1>9, <1>10, <1>11, <1>12, BreakInv

\* The DS of a delegation.
LEMMA ReadDSInv == ASSUME ResolverInv, ReadDS PROVE ResolverInv'
<1>1. pc = "ds" /\ pc \in InLoop /\ Open /\ OnTheWay /\ CtxOK(ctx)
  BY DEF ReadDS, ResolverInv, InLoop
<1>2. PICK ds \in getRRSet(found.location, "DS") :
         \/ ds = Failed /\ ReadFails
         \/ /\ ds # Failed /\ UNCHANGED <<loopCount, failed>>
            /\ IF ds # <<>> /\ ~BelowCut /\ qtype = "DS"
               THEN Break([ctx EXCEPT !.answer = @ \o Value(cur, "DS", ds), !.res = "Success"])
               ELSE LET c == IF ds = <<>> THEN addNSec(ctx, CutPoint, "DS") ELSE ctx
                    IN  /\ ctx' = [c EXCEPT !.authority = @ \o Value(CutPoint, "DS", ds)
                                                            \o (IF BelowCut THEN <<>> ELSE Value(cur, "NS", held))]
                        /\ Goto("glue") /\ UNCHANGED <<cur, found, held, chase>>
  BY DEF ReadDS
<1>3. CASE ds = Failed /\ ReadFails
  BY <1>1, <1>3, ReadFailsInv
<1>4. CASE ~BelowCut /\ qtype = "DS" /\ failed' = failed
           /\ Break([ctx EXCEPT !.answer = @ \o Value(cur, "DS", ds), !.res = "Success"])
  BY <1>1, <1>4, AnswerDSInv
<1>5. ASSUME NEW c, c = IF ds = <<>> THEN addNSec(ctx, CutPoint, "DS") ELSE ctx,
             ctx' = [c EXCEPT !.authority = @ \o Value(CutPoint, "DS", ds) \o (IF BelowCut THEN <<>> ELSE Value(cur, "NS", held))],
             Goto("glue"), UNCHANGED <<cur, failed>>
      PROVE  ResolverInv'
  <2>1. /\ CtxOK(c) /\ c.answer = ctx.answer /\ c.dnssec = ctx.dnssec /\ c.res \in {"Success", "FormatError"}
        /\ Quiet(c.authority)
    <3>1. CASE ds = <<>>
      <4>1. /\ CtxOK(c) /\ c.answer = ctx.answer /\ c.dnssec = ctx.dnssec /\ c.res \in {ctx.res, "Success"}
            /\ \A x \in Elems(c.authority) : x \in Elems(ctx.authority) \/ (x.type = "NSEC" /\ (SaysNXDOMAIN(x) => ctx.res = "NameError"))
        BY <1>1, <1>5, <3>1, NSecIs
      <4>2. ctx.res \in {"Success", "FormatError"} /\ Quiet(ctx.authority)
        BY <1>1 DEF Open
      <4> QED BY <4>1, <4>2 DEF Quiet
    <3>2. CASE ds # <<>>
      BY <1>1, <1>5, <3>2 DEF Open
    <3> QED BY <3>1, <3>2
  <2>2. PICK v : v = Value(CutPoint, "DS", ds)
    OBVIOUS
  <2>3. IsSeq(v) /\ \A x \in Elems(v) : x.type = "DS"
    BY <2>2, ValueIs
  <2>4. PICK w : w = IF BelowCut THEN <<>> ELSE Value(cur, "NS", held)
    OBVIOUS
  <2>5. IsSeq(w) /\ \A x \in Elems(w) : x.type = "NS"
    <3>1. CASE BelowCut
      BY <2>4, <3>1, NoElems
    <3>2. CASE ~ BelowCut
      <4>1. IsSeq(held)
        BY <1>1, SeqOfSet DEF OnTheWay
      <4> QED BY <2>4, <3>2, <4>1, ValueIs
    <3> QED BY <3>1, <3>2
  <2>6. ctx' = [c EXCEPT !.authority = Cat(Cat(c.authority, v), w)]
    BY <1>5, <2>2, <2>4 DEF Cat
  <2>7. /\ DOMAIN ctx' = CtxFields /\ ctx'.answer = c.answer /\ ctx'.dnssec = c.dnssec /\ ctx'.res = c.res
        /\ ctx'.authority = Cat(Cat(c.authority, v), w)
    BY <2>1, <2>6 DEF CtxOK, CtxFields
  <2>8. IsSeq(Cat(c.authority, v)) /\ Quiet(Cat(c.authority, v))
    BY <2>1, <2>3, QuietCat DEF CtxOK
  <2>9. IsSeq(ctx'.authority) /\ Quiet(ctx'.authority)
    BY <2>5, <2>7, <2>8, QuietCat
  <2>10. CtxOK(ctx')
    BY <1>1, <2>1, <2>7, <2>9 DEF CtxOK
  <2>11. pc' = "glue" /\ pc' \in InLoop /\ UNCHANGED <<store, request, zone, sent, cur, failed>>
    BY <1>5 DEF Goto, inputs, InLoop
  <2> QED BY <1>1, <2>1, <2>7, <2>9, <2>10, <2>11, LoopOn
<1> QED BY <1>2, <1>3, <1>4, <1>5

\* The glue.
LEMMA GlueInv == ASSUME ResolverInv, Glue PROVE ResolverInv'
<1>1. pc \in InLoop /\ Open /\ CtxOK(ctx) /\ failed' = failed
  BY DEF Glue, ResolverInv, InLoop
<1>2. PICK glue : Break([ctx EXCEPT !.additional = @ \o SetToSeq(glue), !.res = "Success"])
  BY DEF Glue
<1>3. PICK c : c = [ctx EXCEPT !.additional = @ \o SetToSeq(glue), !.res = "Success"]
  OBVIOUS
<1>4. c.answer = ctx.answer /\ c.authority = ctx.authority /\ c.res = "Success" /\ DOMAIN c = CtxFields
  BY <1>1, <1>3 DEF CtxOK, CtxFields
<1>5. CtxOK(c)
  BY <1>1, <1>4 DEF CtxOK
<1>6. LookupOK(c)
  BY <1>1, <1>4, QuietEnd DEF Open
<1>7. FailureOK(c, failed')
  BY <1>1 DEF FailureOK, Open, InLoop
<1>8. Break(c)
  BY <1>2, <1>3
<1> QED BY <1>1, <1>4, <1>5, <1>6, <1>7, <1>8, CNAMEsEnd

-----------------------------------------------------------------------------
(* The addresses a client is given. *)

\* The distances on the walk from an index tell the indexes apart.
LEMMA AfterIs ==
    ASSUME NEW n \in Nat, NEW i \in 1..n, NEW j \in 1..n
    PROVE  After(i, j, n) \in Nat /\ (After(i, j, n) = 0 <=> j = i) /\ \A l \in 1..n : After(i, j, n) = After(i, l, n) => j = l
BY DEF After

\* The indexes that come before one of them on the walk.
Behind(white, i, j, n) == {h \in white : After(i, h, n) < After(i, j, n)}

\* On the walk from a white index, every white index has its own place.
LEMMA RankIs ==
    ASSUME NEW n \in Nat, NEW white \in SUBSET (1..n), NEW i \in white, NEW k \in 1..Cardinality(white)
    PROVE  \E j \in white : Cardinality(Behind(white, i, j, n)) = k - 1
<1>1. IsFiniteSet(white) /\ Cardinality(white) \in Nat
  <2>1. IsFiniteSet(1..n)
    BY FS_Interval
  <2> QED BY <2>1, FS_Subset, FS_CardinalityType
<1>2. PICK N : N = Cardinality(white)
  OBVIOUS
<1>3. N \in Nat /\ IsFiniteSet(0..N - 1) /\ Cardinality(0..N - 1) = N
  <2>1. N \in Nat /\ 0 \in Int /\ N - 1 \in Int
    BY <1>1, <1>2
  <2>2. IsFiniteSet(0..N - 1) /\ Cardinality(0..N - 1) = IF 0 > N - 1 THEN 0 ELSE (N - 1) - 0 + 1
    BY <2>1, FS_Interval
  <2> QED BY <2>1, <2>2
<1>4. ASSUME NEW j \in white PROVE IsFiniteSet(Behind(white, i, j, n)) /\ Cardinality(Behind(white, i, j, n)) \in 0..N - 1
  <2>1. After(i, j, n) \in Nat
    BY AfterIs
  <2>2. Behind(white, i, j, n) \in SUBSET white /\ j \notin Behind(white, i, j, n)
    BY <2>1 DEF Behind
  <2>3. IsFiniteSet(Behind(white, i, j, n)) /\ Cardinality(Behind(white, i, j, n)) \in Nat
    BY <1>1, <2>2, FS_Subset, FS_CardinalityType
  <2>4. Cardinality(Behind(white, i, j, n)) <= N /\ Cardinality(Behind(white, i, j, n)) # N
    BY <1>1, <1>2, <2>2, FS_Subset
  <2> QED BY <1>3, <2>3, <2>4
<1>5. ASSUME NEW j \in white, NEW l \in white, After(i, j, n) < After(i, l, n)
      PROVE  Cardinality(Behind(white, i, j, n)) # Cardinality(Behind(white, i, l, n))
  <2>1. \A h \in white : After(i, h, n) \in Nat
    BY AfterIs
  <2>2. ASSUME NEW h \in Behind(white, i, j, n) PROVE h \in Behind(white, i, l, n)
    <3>1. h \in white /\ After(i, h, n) < After(i, j, n)
      BY DEF Behind
    <3>2. After(i, h, n) \in Nat /\ After(i, j, n) \in Nat /\ After(i, l, n) \in Nat
      BY <2>1, <3>1
    <3>3. After(i, h, n) < After(i, l, n)
      BY <1>5, <3>1, <3>2
    <3> QED BY <3>1, <3>3 DEF Behind
  <2>3. j \in Behind(white, i, l, n) /\ j \notin Behind(white, i, j, n)
    BY <1>5, <2>1 DEF Behind
  <2>4. IsFiniteSet(Behind(white, i, l, n))
    BY <1>4
  <2> QED BY <2>2, <2>3, <2>4, FS_Subset
<1>6. ASSUME NEW j \in white, NEW l \in white, Cardinality(Behind(white, i, j, n)) = Cardinality(Behind(white, i, l, n)) PROVE j = l
  <2>1. After(i, j, n) \in Nat /\ After(i, l, n) \in Nat /\ (After(i, j, n) = After(i, l, n) => j = l)
    BY AfterIs
  <2>2. ASSUME After(i, j, n) < After(i, l, n) PROVE FALSE
    BY <1>5, <1>6, <2>2
  <2>3. ASSUME After(i, l, n) < After(i, j, n) PROVE FALSE
    BY <1>5, <1>6, <2>3
  <2> QED BY <2>1, <2>2, <2>3
<1>7. PICK rank : rank = [j \in white |-> Cardinality(Behind(white, i, j, n))]
  OBVIOUS
<1>8. rank \in [white -> 0..N - 1] /\ \A j \in white : rank[j] = Cardinality(Behind(white, i, j, n))
  BY <1>4, <1>7
<1>9. IsInjective(rank)
  BY <1>6, <1>8 DEF IsInjective
<1>10. rank \in Injection(white, 0..N - 1)
  BY <1>8, <1>9 DEF Injection
<1>11. rank \in Surjection(white, 0..N - 1)
  BY <1>2, <1>3, <1>10, FS_Injection
<1>12. k - 1 \in 0..N - 1
  BY <1>2, <1>3
<1>13. PICK j \in white : rank[j] = k - 1
  BY <1>11, <1>12 DEF Surjection
<1> QED BY <1>8, <1>13

\* So the k-th white index is there, no two are the same, and the first is where the
\* walk starts.
LEMMA NthIs ==
    ASSUME NEW n \in Nat, NEW white \in SUBSET (1..n), NEW i \in white
    PROVE  /\ \A k \in 1..Cardinality(white) : Nth(white, i, k, n) \in white
           /\ \A k, l \in 1..Cardinality(white) : Nth(white, i, k, n) = Nth(white, i, l, n) => k = l
           /\ Nth(white, i, 1, n) = i
           /\ Cardinality(white) \in Nat /\ Cardinality(white) # 0
<1>1. IsFiniteSet(white) /\ Cardinality(white) \in Nat /\ Cardinality(white) # 0
  <2>1. IsFiniteSet(1..n)
    BY FS_Interval
  <2>2. IsFiniteSet(white)
    BY <2>1, FS_Subset
  <2>3. white # {}
    OBVIOUS
  <2> QED BY <2>2, <2>3, FS_CardinalityType, FS_EmptySet
<1>2. ASSUME NEW k \in 1..Cardinality(white)
      PROVE  Nth(white, i, k, n) \in white /\ Cardinality(Behind(white, i, Nth(white, i, k, n), n)) = k - 1
  <2>1. \E j \in white : Cardinality(Behind(white, i, j, n)) = k - 1
    BY RankIs
  <2>2. Nth(white, i, k, n) = CHOOSE j \in white : Cardinality(Behind(white, i, j, n)) = k - 1
    BY DEF Nth, Behind
  <2> QED BY <2>1, <2>2
<1>3. ASSUME NEW k \in 1..Cardinality(white), NEW l \in 1..Cardinality(white), Nth(white, i, k, n) = Nth(white, i, l, n)
      PROVE  k = l
  <2>1. k - 1 = l - 1
    BY <1>2, <1>3
  <2>2. k \in Int /\ l \in Int
    BY <1>1
  <2> QED BY <2>1, <2>2
<1>4. Nth(white, i, 1, n) = i
  <2>1. 1 \in 1..Cardinality(white)
    BY <1>1
  <2>2. PICK j : j = Nth(white, i, 1, n)
    OBVIOUS
  <2>3. j \in white /\ Cardinality(Behind(white, i, j, n)) = 0
    BY <1>2, <2>1, <2>2
  <2>4. Behind(white, i, j, n) \in SUBSET white
    BY DEF Behind
  <2>5. Behind(white, i, j, n) = {}
    BY <1>1, <2>3, <2>4, FS_Subset, FS_EmptySet
  <2>6. ~ (After(i, i, n) < After(i, j, n))
    BY <2>5 DEF Behind
  <2>7. After(i, i, n) = 0 /\ After(i, j, n) \in Nat /\ (After(i, j, n) = 0 => j = i)
    BY <2>3, AfterIs
  <2> QED BY <2>2, <2>6, <2>7
<1> QED BY <1>1, <1>2, <1>3, <1>4

\* What GetSameCountry and GetSameASN leave white.
LEMMA GetSameIs ==
    ASSUME NEW places, NEW source, NEW mask, NEW m, m = GetSame(places, source, mask), mask = [i \in DOMAIN mask |-> mask[i]]
    PROVE  /\ DOMAIN m = DOMAIN mask /\ m = [i \in DOMAIN m |-> m[i]]
           /\ source # LookupError => \A i \in DOMAIN mask : m[i] = "White" => MeantFor(places[i], source)
           /\ source # Nowhere => \A i \in DOMAIN mask : m[i] = "White" => mask[i] = "White"
           /\ source \notin {Nowhere, LookupError} /\ (\E i \in DOMAIN mask : mask[i] = "White" /\ source \in places[i])
                => \A i \in DOMAIN mask : m[i] = "White" => source \in places[i]
<1>1. PICK passed : passed = {i \in DOMAIN mask : source # Nowhere /\ mask[i] = "White" /\ source \in places[i]}
  OBVIOUS
<1>2. PICK painted : painted = [i \in DOMAIN mask |->
                      IF source = Nowhere THEN mask[i]
                      ELSE IF mask[i] # "White" THEN "Black"
                      ELSE IF i \in passed THEN "White" ELSE "Grey"]
  OBVIOUS
<1>3. m = IF source = LookupError THEN mask
          ELSE IF passed # {} THEN painted
          ELSE [i \in DOMAIN mask |-> IF painted[i] # "Black" /\ (places[i] = {} \/ Nowhere \in places[i])
                                      THEN "White" ELSE "Black"]
  BY <1>1, <1>2 DEF GetSame
<1>4. Nowhere # LookupError
  BY DEF Nowhere, LookupError
<1>5. CASE source = LookupError
  BY <1>3, <1>5
<1>6. CASE source # LookupError /\ passed # {}
  <2>1. m = painted /\ source # Nowhere
    BY <1>1, <1>3, <1>6
  <2>2. DOMAIN m = DOMAIN mask /\ m = [i \in DOMAIN m |-> m[i]]
    BY <1>2, <2>1
  <2>3. \A i \in DOMAIN mask : m[i] = "White" => i \in passed
    BY <1>2, <2>1
  <2> QED BY <1>1, <1>6, <2>1, <2>2, <2>3 DEF MeantFor
<1>7. CASE source # LookupError /\ passed = {}
  <2>1. m = [i \in DOMAIN mask |-> IF painted[i] # "Black" /\ (places[i] = {} \/ Nowhere \in places[i]) THEN "White" ELSE "Black"]
    BY <1>3, <1>7
  <2>2. DOMAIN m = DOMAIN mask /\ m = [i \in DOMAIN m |-> m[i]]
    BY <2>1
  <2>3. \A i \in DOMAIN mask : m[i] = "White" => painted[i] # "Black" /\ (places[i] = {} \/ Nowhere \in places[i])
    BY <2>1
  <2>4. source # Nowhere => \A i \in DOMAIN mask : painted[i] # "Black" => mask[i] = "White"
    BY <1>2
  <2>5. source # Nowhere => ~ \E i \in DOMAIN mask : mask[i] = "White" /\ source \in places[i]
    BY <1>1, <1>7
  <2> QED BY <1>7, <2>2, <2>3, <2>4, <2>5 DEF MeantFor
<1> QED BY <1>5, <1>6, <1>7

\* The addresses that are left, and what is given out of them when the draw is i.
Whites(m) == {i \in DOMAIN m : m[i] = "White"}
Drawn(rrset, white, i) ==
    IF rrset.count = "single" THEN <<rrset.data[i].ip>>
    ELSE [k \in 1..Cardinality(white) |-> rrset.data[Nth(white, i, k, Len(rrset.data))].ip]

\* What the geo filter of a record set leaves white.
LEMMA GeoMaskIs ==
    ASSUME NEW rrset, NEW client, NEW D, D = DOMAIN rrset.data, NEW m, m = GeoMask(rrset, client), NEW W, W = Whites(m)
    PROVE  /\ W \in SUBSET D
           /\ (rrset.geo \in {"country", "asn+country"} /\ client.country # LookupError)
                 => \A i \in W : MeantFor(rrset.data[i].country, client.country)
           /\ (rrset.geo = "country" /\ client.country \notin {Nowhere, LookupError} /\ \E i \in D : client.country \in rrset.data[i].country)
                 => \A i \in W : client.country \in rrset.data[i].country
           /\ (rrset.geo = "asn+country" /\ client.country # Nowhere /\ client.asn # LookupError)
                 => \A i \in W : MeantFor(rrset.data[i].asn, client.asn)
           /\ (rrset.geo = "location" /\ client.located)
                 => \A i \in W, j \in D : rrset.data[i].distance <= rrset.data[j].distance
<1>0. W = {i \in DOMAIN m : m[i] = "White"}
  BY DEF Whites
<1>1. PICK mask : mask = [i \in D |-> "White"]
  OBVIOUS
<1>2. DOMAIN mask = D /\ (\A i \in D : mask[i] = "White") /\ mask = [i \in DOMAIN mask |-> mask[i]]
  BY <1>1
<1>3. PICK countries : countries = [i \in D |-> rrset.data[i].country]
  OBVIOUS
<1>4. PICK asns : asns = [i \in D |-> rrset.data[i].asn]
  OBVIOUS
<1>5. PICK distances : distances = [i \in D |-> rrset.data[i].distance]
  OBVIOUS
<1>6. CASE rrset.geo = "country"
  <2>1. m = GetSame(countries, client.country, mask)
    BY <1>1, <1>3, <1>6 DEF GeoMask
  <2>2. /\ DOMAIN m = D
        /\ client.country # LookupError => \A i \in D : m[i] = "White" => MeantFor(countries[i], client.country)
        /\ client.country \notin {Nowhere, LookupError} /\ (\E i \in D : mask[i] = "White" /\ client.country \in countries[i])
                => \A i \in D : m[i] = "White" => client.country \in countries[i]
    BY <1>2, <2>1, GetSameIs
  <2>3. \A i \in D : countries[i] = rrset.data[i].country
    BY <1>3
  <2> QED BY <1>0, <1>2, <1>6, <2>2, <2>3
<1>7. CASE rrset.geo = "asn"
  <2>1. m = GetSame(asns, client.asn, mask)
    BY <1>1, <1>4, <1>7 DEF GeoMask
  <2>2. DOMAIN m = D
    BY <1>2, <2>1, GetSameIs
  <2> QED BY <1>0, <1>7, <2>2
<1>8. CASE rrset.geo = "asn+country"
  <2>1. PICK o : o = GetSame(asns, client.asn, mask)
    OBVIOUS
  <2>2. /\ DOMAIN o = D /\ o = [i \in DOMAIN o |-> o[i]]
        /\ client.asn # LookupError => \A i \in D : o[i] = "White" => MeantFor(asns[i], client.asn)
    BY <1>2, <2>1, GetSameIs
  <2>3. m = GetSame(countries, client.country, o)
    BY <1>1, <1>3, <1>4, <1>8, <2>1 DEF GeoMask
  <2>4. /\ DOMAIN m = D
        /\ client.country # LookupError => \A i \in D : m[i] = "White" => MeantFor(countries[i], client.country)
        /\ client.country # Nowhere => \A i \in D : m[i] = "White" => o[i] = "White"
    BY <2>2, <2>3, GetSameIs
  <2>5. \A i \in D : countries[i] = rrset.data[i].country /\ asns[i] = rrset.data[i].asn
    BY <1>3, <1>4
  <2> QED BY <1>0, <1>8, <2>2, <2>4, <2>5
<1>9. CASE rrset.geo = "location"
  <2>1. m = GetMinimumDistance(distances, client.located, mask)
    BY <1>1, <1>5, <1>9 DEF GeoMask
  <2>2. \A i \in D : distances[i] = rrset.data[i].distance
    BY <1>5
  <2>3. CASE ~ client.located
    BY <1>0, <1>2, <1>9, <2>1, <2>3 DEF GetMinimumDistance
  <2>4. CASE client.located
    <3>1. {i \in DOMAIN mask : mask[i] = "White"} = D
      BY <1>2
    <3>2. m = [i \in D |-> IF i \notin D THEN "Black" ELSE IF \A j \in D : distances[i] <= distances[j] THEN "White" ELSE "Grey"]
      BY <1>2, <2>1, <2>4, <3>1 DEF GetMinimumDistance
    <3>3. DOMAIN m = D /\ \A i \in D : m[i] = "White" => \A j \in D : distances[i] <= distances[j]
      BY <3>2
    <3> QED BY <1>0, <1>9, <2>2, <3>3
  <2> QED BY <2>3, <2>4
<1>10. CASE rrset.geo \notin {"asn", "country", "asn+country", "location"}
  <2>1. m = mask
    BY <1>1, <1>10 DEF GeoMask
  <2> QED BY <1>0, <1>2, <1>10, <2>1
<1> QED BY <1>6, <1>7, <1>8, <1>9, <1>10

\* The index drawn is a white one, and has a weight if one of them has.
LEMMA FirstChoiceIs ==
    ASSUME NEW rrset, NEW white \in SUBSET Nat, white # {}, NEW i \in FirstChoices(rrset, white)
    PROVE  i \in white /\ (rrset.order = "weighted" /\ (\E j \in white : rrset.data[j].weight > 0) => rrset.data[i].weight > 0)
<1>1. Min(white) \in white
  <2>1. \E m \in white : \A k \in white : m <= k
    BY LeastNatural
  <2> QED BY <2>1 DEF Min
<1> QED BY <1>1 DEF FirstChoices

\* White addresses, the one drawn first, and none of them twice.
InOrder(rrset, white, i, ips) ==
    /\ IsSeq(ips) /\ Len(ips) > 0 /\ ips[1] = rrset.data[i].ip
    /\ \A k \in DOMAIN ips : \E j \in white : ips[k] = rrset.data[j].ip
    /\ NoDuplicates(rrset) => IsInjective(ips)
    /\ rrset.count = "single" => Len(ips) <= 1

\* What is given out of the white addresses.
LEMMA OrderIs ==
    ASSUME NEW rrset, IsSeq(rrset.data), NEW white \in SUBSET (DOMAIN rrset.data), white # {}, NEW i \in white,
           NEW ips, ips = Drawn(rrset, white, i)
    PROVE  InOrder(rrset, white, i, ips)
<1> USE DEF InOrder
<1>1. PICK n : n = Len(rrset.data)
  OBVIOUS
<1>2. n \in Nat /\ DOMAIN rrset.data = 1..n
  BY <1>1, SeqDomain
<1>3. CASE rrset.count = "single"
  <2>1. ips = One(rrset.data[i].ip)
    BY <1>3 DEF Drawn, One
  <2>2. IsSeq(ips) /\ Len(ips) = 1 /\ ips[1] = rrset.data[i].ip
    BY <2>1, OneIs
  <2>3. DOMAIN ips = 1..1 /\ \A k \in 1..1 : k = 1
    BY <2>2, SeqDomain
  <2>4. IsInjective(ips)
    BY <2>3 DEF IsInjective
  <2> QED BY <2>2, <2>3, <2>4
<1>4. CASE rrset.count # "single"
  <2>1. PICK N : N = Cardinality(white)
    OBVIOUS
  <2>2. /\ \A k \in 1..N : Nth(white, i, k, n) \in white
        /\ \A k, l \in 1..N : Nth(white, i, k, n) = Nth(white, i, l, n) => k = l
        /\ Nth(white, i, 1, n) = i /\ N \in Nat /\ N # 0
    BY <1>2, <2>1, NthIs
  <2>3. ips = [k \in 1..N |-> rrset.data[Nth(white, i, k, n)].ip]
    BY <1>1, <1>4, <2>1 DEF Drawn
  <2>4. ips = [k \in 1..N |-> ips[k]] /\ \A k \in 1..N : ips[k] = rrset.data[Nth(white, i, k, n)].ip
    BY <2>3
  <2>5. IsSeq(ips) /\ Len(ips) = N /\ DOMAIN ips = 1..N
    BY <2>2, <2>4, SeqIntro
  <2>6. 1 \in 1..N
    BY <2>2
  <2>7. ips[1] = rrset.data[i].ip
    BY <2>2, <2>4, <2>6
  <2>8. ASSUME NoDuplicates(rrset), NEW k \in DOMAIN ips, NEW l \in DOMAIN ips, ips[k] = ips[l] PROVE k = l
    <3>1. k \in 1..N /\ l \in 1..N
      BY <2>5, <2>8
    <3>2. PICK p, q : p = Nth(white, i, k, n) /\ q = Nth(white, i, l, n)
      OBVIOUS
    <3>3. p \in DOMAIN rrset.data /\ q \in DOMAIN rrset.data /\ rrset.data[p].ip = rrset.data[q].ip
      BY <2>2, <2>4, <2>8, <3>1, <3>2
    <3>4. p = q
      BY <2>8, <3>3 DEF NoDuplicates
    <3> QED BY <2>2, <3>1, <3>2, <3>4
  <2>9. NoDuplicates(rrset) => IsInjective(ips)
    BY <2>8 DEF IsInjective
  <2>10. \A k \in DOMAIN ips : \E j \in white : ips[k] = rrset.data[j].ip
    BY <2>2, <2>4, <2>5
  <2> QED BY <1>4, <2>2, <2>5, <2>7, <2>9, <2>10
<1> QED BY <1>3, <1>4

\* The handler's filter keeps what a record set promises, for every set of addresses and
\* every client, and in every draw.
THEOREM FilterKeepsPromise ==
    ASSUME NEW rrset, IsSeq(rrset.data), NEW client, NEW ips \in filter(rrset, client)
    PROVE  IsSeq(ips) /\ GoodSelection(rrset, client, ips)
<1>1. PICK m : m = GeoMask(rrset, client)
  OBVIOUS
<1>2. PICK D : D = DOMAIN rrset.data
  OBVIOUS
<1>3. PICK W : W = Whites(m)
  OBVIOUS
<1>4. /\ W \in SUBSET D
      /\ (rrset.geo \in {"country", "asn+country"} /\ client.country # LookupError)
            => \A i \in W : MeantFor(rrset.data[i].country, client.country)
      /\ (rrset.geo = "country" /\ client.country \notin {Nowhere, LookupError} /\ \E i \in D : client.country \in rrset.data[i].country)
            => \A i \in W : client.country \in rrset.data[i].country
      /\ (rrset.geo = "asn+country" /\ client.country # Nowhere /\ client.asn # LookupError)
            => \A i \in W : MeantFor(rrset.data[i].asn, client.asn)
      /\ (rrset.geo = "location" /\ client.located)
            => \A i \in W, j \in D : rrset.data[i].distance <= rrset.data[j].distance
  BY <1>1, <1>2, <1>3, GeoMaskIs
<1>5. ips \in orderIps(rrset, m)
  BY <1>1 DEF filter
<1>6. CASE W = {}
  <2>1. ips = <<>>
    BY <1>3, <1>5, <1>6 DEF orderIps, Whites
  <2>2. IsSeq(ips) /\ Len(ips) = 0 /\ DOMAIN ips = {}
    BY <2>1, EmptyIsSeq
  <2>3. ToSet(ips) = {}
    BY <2>2 DEF ToSet
  <2>4. IsInjective(ips)
    BY <2>2 DEF IsInjective
  <2> QED BY <2>1, <2>2, <2>3, <2>4 DEF GoodSelection
<1>7. CASE W # {}
  <2>1. PICK i \in FirstChoices(rrset, W) : ips = Drawn(rrset, W, i)
    BY <1>3, <1>5, <1>7 DEF orderIps, Whites, Drawn
  <2>2. W \in SUBSET Nat
    <3>1. D = 1..Len(rrset.data) /\ Len(rrset.data) \in Nat
      BY <1>2, SeqDomain
    <3> QED BY <1>4, <3>1
  <2>3. i \in W /\ (rrset.order = "weighted" /\ (\E j \in W : rrset.data[j].weight > 0) => rrset.data[i].weight > 0)
    BY <1>7, <2>2, FirstChoiceIs
  <2>4. /\ IsSeq(ips) /\ Len(ips) > 0 /\ ips[1] = rrset.data[i].ip
        /\ \A k \in DOMAIN ips : \E j \in W : ips[k] = rrset.data[j].ip
        /\ NoDuplicates(rrset) => IsInjective(ips)
        /\ rrset.count = "single" => Len(ips) <= 1
    <3>1. W \in SUBSET (DOMAIN rrset.data) /\ i \in W /\ ips = Drawn(rrset, W, i)
      BY <1>2, <1>4, <2>1, <2>3
    <3>2. InOrder(rrset, W, i, ips)
      BY <1>7, <3>1, OrderIs
    <3> QED BY <3>2 DEF InOrder
  <2>5. PICK given : given = {j \in D : rrset.data[j].ip \in ToSet(ips)}
    OBVIOUS
  <2>6. ASSUME NoDuplicates(rrset) PROVE given \in SUBSET W
    <3>1. ASSUME NEW j \in given PROVE j \in W
      <4>1. PICK k \in DOMAIN ips : rrset.data[j].ip = ips[k]
        BY <2>5 DEF ToSet
      <4>2. PICK l \in W : ips[k] = rrset.data[l].ip
        BY <2>4
      <4>3. j = l
        BY <1>2, <1>4, <2>5, <2>6, <4>1, <4>2 DEF NoDuplicates
      <4> QED BY <4>3
    <3> QED BY <3>1
  <2>7. i \in given
    <3>1. 1 \in DOMAIN ips
      BY <2>4, SeqDomain
    <3> QED BY <1>4, <2>3, <2>4, <2>5, <3>1 DEF ToSet
  <2>8. ToSet(ips) \subseteq {rrset.data[j].ip : j \in D}
    BY <1>4, <2>4 DEF ToSet
  <2>9. ASSUME NoDuplicates(rrset), rrset.order = "weighted", \E j \in given : rrset.data[j].weight > 0
        PROVE  \E j \in given : rrset.data[j].ip = ips[1] /\ rrset.data[j].weight > 0
    BY <2>3, <2>4, <2>6, <2>7, <2>9
  <2>10. PICK local : local = {j \in D : client.country \in rrset.data[j].country}
    OBVIOUS
  <2>11. ASSUME NoDuplicates(rrset), rrset.geo = "country", local # {}, client.country \notin {Nowhere, LookupError} PROVE given \subseteq local
    BY <1>4, <2>6, <2>10, <2>11
  <2>12. ASSUME NoDuplicates(rrset)
         PROVE  /\ (rrset.geo \in {"country", "asn+country"} /\ client.country # LookupError)
                      => \A j \in given : MeantFor(rrset.data[j].country, client.country)
                /\ (rrset.geo = "asn+country" /\ client.country # Nowhere /\ client.asn # LookupError)
                      => \A j \in given : MeantFor(rrset.data[j].asn, client.asn)
                /\ (rrset.geo = "location" /\ client.located)
                      => \A j \in given, l \in D : rrset.data[j].distance <= rrset.data[l].distance
    BY <1>4, <2>6, <2>12
  <2> QED BY <1>2, <2>4, <2>5, <2>8, <2>9, <2>10, <2>11, <2>12 DEF GoodSelection
<1> QED BY <1>6, <1>7

-----------------------------------------------------------------------------
(* The switch on the type, at the final location. *)

\* The records of a sequence of addresses.
LEMMA GenerateIs ==
    ASSUME NEW ips, IsSeq(ips), NEW t, t = generate(cur, ips)
    PROVE  /\ IsSeq(t) /\ Len(t) = Len(ips) /\ (qtype \in AddressTypes => IsTail(t, cur))
           /\ [i \in 1..Len(t) |-> t[i].data] = ips
<1>1. Len(ips) \in Nat /\ DOMAIN ips = 1..Len(ips) /\ ips = [i \in 1..Len(ips) |-> ips[i]]
  BY SeqDomain
<1>2. t = [i \in 1..Len(ips) |-> RR(cur, qtype, ips[i])]
  BY <1>1 DEF generate
<1>3. t = [i \in 1..Len(ips) |-> t[i]]
  BY <1>2
<1>4. IsSeq(t) /\ Len(t) = Len(ips)
  BY <1>1, <1>3, SeqIntro
<1>5. ASSUME NEW i \in 1..Len(t) PROVE t[i].owner = cur /\ t[i].type = qtype /\ t[i].data = ips[i]
  <2>1. t[i] = RR(cur, qtype, ips[i])
    BY <1>2, <1>4
  <2>2. PICK x, y : x = t[i] /\ y = ips[i]
    OBVIOUS
  <2>3. x = RR(cur, qtype, y)
    BY <2>1, <2>2
  <2>4. x.owner = cur /\ x.type = qtype /\ x.data = y
    BY ONLY <2>3 DEF RR
  <2> QED BY <2>2, <2>4
<1>6. qtype \in AddressTypes => IsTail(t, cur)
  BY <1>5 DEF IsTail, AddressTypes
<1>7. [i \in 1..Len(t) |-> t[i].data] = [i \in 1..Len(ips) |-> ips[i]]
  BY <1>4, <1>5
<1> QED BY <1>1, <1>4, <1>6, <1>7

\* What is known at the end of the chain.
LEMMA AtEndIs ==
    ASSUME ResolverInv, pc \in AtEnd
    PROVE  /\ StoreOK /\ CtxOK(ctx) /\ Open /\ Arrived /\ (pc # "climb" => ~ failed) /\ ctx.res \in {"Success", "FormatError"}
           /\ pc \in InLoop \union AtEnd
BY DEF ResolverInv, Open

\* A step from one read to the next.
LEMMA StayAtEnd ==
    ASSUME ResolverInv, pc \in AtEnd, pc' \in AtEnd, UNCHANGED <<store, request, zone, sent, cur, ctx>>, failed' => pc' = "climb",
           pc' \notin {"answer", "climb"} => qtype \in AddressTypes,
           pc' = "climb" => qtype = "CAA",
           pc' = "aname" => WellFormed(qtype, held'),
           pc' \in {"chase", "chaseAddress", "chaseNext"} => held' = <<>>
    PROVE  ResolverInv'
<1>1. StoreOK /\ CtxOK(ctx) /\ Open /\ Arrived /\ IsSeq(sent)
  BY DEF ResolverInv
<1>2. StoreOK' /\ IsSeq(sent') /\ CtxOK(ctx')
  BY <1>1 DEF StoreOK, qname
<1>3. Open'
  BY <1>1 DEF Open, qtype, Quiet, CNAMEs
<1>4. Arrived'
  BY <1>1 DEF Arrived, Linked, Real, qname, qtype
<1>5. pc' \notin BeforeZone /\ pc' \notin InLoop /\ pc' \notin {"send", "done"}
  BY DEF AtEnd, BeforeZone, InLoop
<1> QED BY <1>2, <1>3, <1>4, <1>5 DEF ResolverInv, CtxOK

\* A record set of the location is the answer, for a type that has no addresses.
LEMMA FinishValue ==
    ASSUME ResolverInv, pc \in AtEnd, qtype \notin AddressTypes, failed' => qtype = "CAA", NEW r, qtype = "NS" => IsSeq(r),
           Finish(ctx, Value(cur, qtype, r))
    PROVE  ResolverInv'
<1>1. CtxOK(ctx) /\ ctx.res \in {"Success", "FormatError"}
  BY AtEndIs
<1>2. PICK t : t = Value(cur, qtype, r)
  OBVIOUS
<1>3. IsSeq(t) /\ IsTail(t, cur)
  BY <1>2, ValueIs DEF IsTail
<1>4. Finish(ctx, t)
  BY <1>2
<1> QED BY <1>1, <1>3, <1>4, FinishInv

\* Nothing is the answer.
LEMMA FinishNothing ==
    ASSUME ResolverInv, pc \in AtEnd, failed' => qtype = "CAA", NEW t, t = <<>>, Finish(ctx, t)
    PROVE  ResolverInv'
<1>1. CtxOK(ctx) /\ ctx.res \in {"Success", "FormatError"}
  BY AtEndIs
<1>2. IsSeq(t) /\ Len(t) = 0
  BY NoElems
<1>3. IsTail(t, cur)
  BY <1>2 DEF IsTail
<1> QED BY <1>1, <1>2, <1>3, FinishInv

\* TXT and its like, CNAME and NS.
LEMMA AnswerRecordsInv == ASSUME ResolverInv, AnswerRecords PROVE ResolverInv'
<1>1. pc \in AtEnd /\ pc # "climb" /\ qtype \in {"CNAME", "NS", "TXT"} /\ qtype \notin AddressTypes
  BY DEF AnswerRecords, AtEnd, AddressTypes
<1>2. PICK r \in getRRSet(found.location, qtype) :
         \/ r = Failed /\ ReadFails
         \/ r # Failed /\ Finish(ctx, Value(cur, qtype, r)) /\ failed' = failed
  BY DEF AnswerRecords
<1>3. CASE r = Failed /\ ReadFails
  BY <1>1, <1>3, AtEndIs, ReadFailsInv
<1>4. CASE r # Failed /\ Finish(ctx, Value(cur, qtype, r)) /\ failed' = failed
  <2>1. qtype = "NS" => IsSeq(r)
    BY <1>1, <1>4, AtEndIs, ReadIsWellFormed, SeqOfSet DEF WellFormed
  <2> QED BY <1>1, <1>4, <2>1, AtEndIs, FinishValue
<1> QED BY <1>2, <1>3, <1>4

\* The types answered from the zone.
LEMMA AnswerZoneInv == ASSUME ResolverInv, AnswerZone PROVE ResolverInv'
<1>1. pc \in AtEnd /\ pc \in InLoop \union AtEnd /\ failed' = failed
  BY DEF AnswerZone, AtEnd
<1>2. CtxOK(ctx) /\ ~ failed /\ ctx.res \in {"Success", "FormatError"} /\ Real(cur)
  BY <1>1, AtEndIs DEF Arrived, AnswerZone
<1>3. \/ qtype = "SOA" /\ Finish(ctx, <<SOA>>)
      \/ qtype = "DNSKEY" /\ Finish(ctx, IF zone.dnssec THEN <<RR(zone.name, "DNSKEY", "zsk"), RR(zone.name, "DNSKEY", "ksk")>> ELSE <<>>)
      \/ qtype = "DS" /\ Finish(ctx, <<>>)
      \/ qtype = "OTHER" /\ Break([ctx EXCEPT !.answer = <<>>, !.authority = <<SOA>>, !.res = "Success"])
  BY DEF AnswerZone
<1>4. ASSUME qtype \in {"SOA", "DNSKEY"}, NEW t, IsSeq(t), Finish(ctx, t) PROVE ResolverInv'
  <2>1. qtype \notin AddressTypes
    BY <1>4 DEF AddressTypes
  <2> QED BY <1>1, <1>2, <1>4, <2>1, FinishInv
<1>5. CASE qtype = "SOA" /\ Finish(ctx, <<SOA>>)
  <2>1. IsSeq(<<SOA>>)
    BY OneSeq
  <2> QED BY <1>4, <1>5, <2>1
<1>6. CASE qtype = "DNSKEY" /\ Finish(ctx, IF zone.dnssec THEN <<RR(zone.name, "DNSKEY", "zsk"), RR(zone.name, "DNSKEY", "ksk")>> ELSE <<>>)
  <2>1. PICK t : t = IF zone.dnssec THEN <<RR(zone.name, "DNSKEY", "zsk"), RR(zone.name, "DNSKEY", "ksk")>> ELSE <<>>
    OBVIOUS
  <2>2. IsSeq(t)
    <3>1. CASE zone.dnssec
      <4>1. PICK a, b : a = RR(zone.name, "DNSKEY", "zsk") /\ b = RR(zone.name, "DNSKEY", "ksk")
        OBVIOUS
      <4>2. t = <<a, b>>
        BY <2>1, <3>1, <4>1
      <4>3. t \in Seq({a, b})
        BY <4>2
      <4> QED BY <4>3, SeqOfSet
    <3>2. CASE ~ zone.dnssec
      BY <2>1, <3>2, NoElems
    <3> QED BY <3>1, <3>2
  <2>3. Finish(ctx, t)
    BY <1>6, <2>1
  <2> QED BY <1>4, <1>6, <2>2, <2>3
<1>7. CASE qtype = "DS" /\ Finish(ctx, <<>>)
  BY <1>1, <1>2, <1>7, FinishNothing
<1>8. CASE qtype = "OTHER" /\ Break([ctx EXCEPT !.answer = <<>>, !.authority = <<SOA>>, !.res = "Success"])
  <2>1. PICK c : c = [ctx EXCEPT !.answer = <<>>, !.authority = One(SOA), !.res = "Success"]
    OBVIOUS
  <2>2. Break(c)
    BY <1>8, <2>1 DEF One
  <2>3. c.answer = <<>> /\ c.authority = One(SOA) /\ c.res = "Success" /\ DOMAIN c = CtxFields
    BY <1>2, <2>1 DEF CtxOK, CtxFields
  <2>4. CtxOK(c) /\ Elems(c.authority) = {SOA}
    BY <2>3, OneIs, NoElems DEF CtxOK
  <2>5. IsChain(c.answer) /\ CNAMEs(c.answer)
    BY <2>3, NothingIsChain
  <2>6. ~ SaysNXDOMAIN(SOA)
    BY DEF SaysNXDOMAIN, SOA, RR
  <2>7. LookupOK(c)
    BY <1>2, <2>3, <2>4, <2>6, RealEnd
  <2>8. ChainOK(c) /\ FailureOK(c, failed') /\ SelectionOK(c)
    BY <1>1, <1>2, <2>4, <2>5, NoSelection DEF ChainOK, FailureOK, CtxOK
  <2> QED BY <1>1, <2>2, <2>4, <2>7, <2>8, BreakInv
<1> QED BY <1>3, <1>5, <1>6, <1>7, <1>8

\* The addresses of the location.
LEMMA ReadAddressesInv == ASSUME ResolverInv, ReadAddresses PROVE ResolverInv'
<1>1. pc \in AtEnd /\ pc # "climb" /\ qtype \in AddressTypes
  BY DEF ReadAddresses, AtEnd
<1>2. PICK r \in getRRSet(found.location, qtype) :
         \/ r = Failed /\ ReadFails
         \/ /\ r # Failed /\ held' = r /\ Goto("aname")
            /\ UNCHANGED <<cur, loopCount, found, chase, ctx, failed>>
  BY DEF ReadAddresses
<1>3. CASE r = Failed /\ ReadFails
  BY <1>1, <1>3, AtEndIs, ReadFailsInv
<1>4. CASE /\ r # Failed /\ held' = r /\ Goto("aname")
           /\ UNCHANGED <<cur, loopCount, found, chase, ctx, failed>>
  <2>1. WellFormed(qtype, r)
    BY <1>1, <1>4, AtEndIs, ReadIsWellFormed
  <2>2. pc' = "aname" /\ pc' \in AtEnd /\ UNCHANGED <<store, request, zone, sent, cur, ctx, failed>>
    BY <1>4 DEF Goto, inputs, AtEnd
  <2> QED BY <1>1, <1>4, <2>1, <2>2, AtEndIs, StayAtEnd
<1> QED BY <1>2, <1>3, <1>4

\* What the filter gives of an address record set, or nothing.
LEMMA AddressesAre ==
    ASSUME NEW r, qtype \in AddressTypes, WellFormed(qtype, r), NEW ips \in Addresses(r)
    PROVE  IsSeq(ips) /\ (r # <<>> => GoodSelection(r, request.client, ips))
<1>1. CASE r = <<>>
  <2>1. ips = <<>>
    BY <1>1 DEF Addresses
  <2> QED BY <1>1, <2>1, NoElems
<1>2. CASE r # <<>>
  <2>1. ips \in filter(r, request.client)
    BY <1>2 DEF Addresses
  <2>2. r.data \in Seq(ToSet(r.data))
    BY <1>2 DEF WellFormed
  <2>3. IsSeq(r.data)
    BY <2>2, SeqOfSet
  <2> QED BY <2>1, <2>3, FilterKeepsPromise
<1> QED BY <1>1, <1>2

\* The ANAME of the location.
LEMMA ReadANAMEInv == ASSUME ResolverInv, ReadANAME PROVE ResolverInv'
<1>1. pc = "aname" /\ pc \in AtEnd
  BY DEF ReadANAME, AtEnd
<1>2. /\ CtxOK(ctx) /\ ~ failed /\ ctx.res \in {"Success", "FormatError"} /\ qtype \in AddressTypes /\ WellFormed(qtype, held)
      /\ pc \in InLoop \union AtEnd
  BY <1>1, AtEndIs DEF Arrived
<1>3. PICK aname \in getRRSet(found.location, "ANAME") :
         \/ aname = Failed /\ ReadFails
         \/ /\ aname \notin {Failed, <<>>} /\ held = <<>>
            /\ chase' = [name |-> aname, count |-> 0] /\ Goto("chase")
            /\ UNCHANGED <<cur, loopCount, found, held, ctx, failed>>
         \/ /\ aname # Failed /\ (aname = <<>> \/ held # <<>>)
            /\ \E ips \in Addresses(held) : Finish(ctx, generate(cur, ips))
            /\ UNCHANGED <<loopCount, failed>>
  BY DEF ReadANAME
<1>4. CASE aname = Failed /\ ReadFails
  BY <1>2, <1>4, ReadFailsInv
<1>5. CASE held = <<>> /\ Goto("chase") /\ UNCHANGED <<cur, loopCount, found, held, ctx, failed>>
  <2>1. pc' = "chase" /\ pc' \in AtEnd /\ held' = <<>> /\ UNCHANGED <<store, request, zone, sent, cur, ctx, failed>>
    BY <1>5 DEF Goto, inputs, AtEnd
  <2> QED BY <1>1, <1>2, <2>1, StayAtEnd
<1>6. CASE (\E ips \in Addresses(held) : Finish(ctx, generate(cur, ips))) /\ failed' = failed
  <2>1. PICK ips \in Addresses(held) : Finish(ctx, generate(cur, ips))
    BY <1>6
  <2>2. IsSeq(ips) /\ (held # <<>> => GoodSelection(held, request.client, ips))
    BY <1>2, AddressesAre
  <2>3. PICK t : t = generate(cur, ips)
    OBVIOUS
  <2>4. IsSeq(t) /\ IsTail(t, cur) /\ [i \in 1..Len(t) |-> t[i].data] = ips
    BY <1>2, <2>2, <2>3, GenerateIs
  <2>5. held # <<>> => GoodSelection(held, request.client, [i \in 1..Len(t) |-> t[i].data])
    BY <2>2, <2>4
  <2>6. Finish(ctx, t)
    BY <2>1, <2>3
  <2> QED BY <1>1, <1>2, <1>6, <2>4, <2>5, <2>6, FinishInv
<1> QED BY <1>3, <1>4, <1>5, <1>6

-----------------------------------------------------------------------------
(* findCAA. *)

\* A step up the tree.
LEMMA ClimbOn ==
    ASSUME ResolverInv, pc \in AtEnd, qtype = "CAA", Goto("climb"), UNCHANGED <<cur, found, chase, ctx>>
    PROVE  ResolverInv'
<1>1. pc' = "climb" /\ pc' \in AtEnd /\ UNCHANGED <<store, request, zone, sent, cur, ctx>>
  BY DEF Goto, inputs, AtEnd
<1> QED BY <1>1, StayAtEnd

\* A CAA record set ends the search.
LEMMA CAAFound ==
    ASSUME ResolverInv, pc \in AtEnd, qtype = "CAA", NEW r, Finish(ctx, Value(cur, "CAA", r))
    PROVE  ResolverInv'
<1>1. qtype \notin AddressTypes /\ qtype # "NS"
  BY DEF AddressTypes
<1>2. Finish(ctx, Value(cur, qtype, r))
  OBVIOUS
<1> QED BY <1>1, <1>2, FinishValue

\* The first read of findCAA.
LEMMA StartCAAInv == ASSUME ResolverInv, StartCAA PROVE ResolverInv'
<1>1. pc \in AtEnd /\ qtype = "CAA"
  BY DEF StartCAA, AtEnd
<1>2. PICK r : \/ Finish(ctx, Value(cur, "CAA", r))
               \/ Goto("climb") /\ UNCHANGED <<cur, found, chase, ctx>>
  BY DEF StartCAA
<1> QED BY <1>1, <1>2, ClimbOn, CAAFound

\* The way up.
LEMMA ClimbCAAInv == ASSUME ResolverInv, ClimbCAA PROVE ResolverInv'
<1>1. pc \in AtEnd /\ pc = "climb"
  BY DEF ClimbCAA, AtEnd
<1>2. qtype = "CAA"
  BY <1>1, AtEndIs DEF Arrived
<1>3. \/ \E r : Finish(ctx, Value(cur, "CAA", r))
      \/ Goto("climb") /\ UNCHANGED <<cur, found, chase, ctx>>
  BY DEF ClimbCAA
<1>4. CASE \E r : Finish(ctx, Value(cur, "CAA", r))
  <2>1. PICK r : Finish(ctx, Value(cur, "CAA", r))
    BY <1>4
  <2> QED BY <1>1, <1>2, <2>1, CAAFound
<1> QED BY <1>1, <1>2, <1>3, <1>4, ClimbOn

\* The last read of findCAA, whose error is dropped.
LEMMA ApexCAAInv == ASSUME ResolverInv, ApexCAA PROVE ResolverInv'
<1>1. pc \in AtEnd /\ pc = "climb"
  BY DEF ApexCAA, AtEnd
<1>2. qtype = "CAA"
  BY <1>1, AtEndIs DEF Arrived
<1>3. PICK r : Finish(ctx, IF r = Failed THEN <<>> ELSE Value(cur, "CAA", r))
  BY DEF ApexCAA
<1>4. CASE r = Failed
  <2>1. Finish(ctx, <<>>)
    BY <1>3, <1>4
  <2> QED BY <1>1, <1>2, <2>1, FinishNothing
<1>5. CASE r # Failed
  <2>1. Finish(ctx, Value(cur, "CAA", r))
    BY <1>3, <1>5
  <2> QED BY <1>1, <1>2, <2>1, CAAFound
<1> QED BY <1>4, <1>5

-----------------------------------------------------------------------------
(* findANAME. *)

Chasing == {"chase", "chaseAddress", "chaseNext"}

\* While an ANAME is followed the location has no addresses of its own.
LEMMA ChasingIs ==
    ASSUME ResolverInv, pc \in Chasing
    PROVE  pc \in AtEnd /\ held = <<>> /\ qtype \in AddressTypes /\ StoreOK /\ CtxOK(ctx) /\ ~ failed
<1>1. pc \in AtEnd /\ pc \notin {"answer", "climb"}
  BY DEF Chasing, AtEnd
<1> QED BY <1>1, AtEndIs DEF Arrived, Chasing

\* What was found ends the search.
LEMMA ChasedInv ==
    ASSUME ResolverInv, pc \in Chasing, NEW ips, IsSeq(ips), NEW res \in {"Success", "ServerFailure"}, Chased(ips, res),
           failed' => ips = <<>> /\ res = "ServerFailure"
    PROVE  ResolverInv'
<1>1. pc \in AtEnd /\ held = <<>> /\ qtype \in AddressTypes /\ CtxOK(ctx)
  BY ChasingIs
<1>2. PICK t : t = generate(cur, ips)
  OBVIOUS
<1>3. IsSeq(t) /\ Len(t) = Len(ips) /\ IsTail(t, cur)
  BY <1>1, <1>2, GenerateIs
<1>4. PICK c : c = WithRes(res)
  OBVIOUS
<1>5. CtxOK(c) /\ c.answer = ctx.answer /\ c.authority = ctx.authority /\ c.dnssec = ctx.dnssec /\ c.res = res
  BY <1>1, <1>4 DEF WithRes, CtxOK, CtxFields
<1>6. Finish(c, t)
  BY <1>2, <1>4 DEF Chased
<1>7. failed' => t = <<>> /\ c.res = "ServerFailure"
  BY <1>3, <1>5, NoElems, NoElements
<1> QED BY <1>1, <1>3, <1>5, <1>6, <1>7, FinishInv

\* The search fails.
LEMMA ChaseFailsInv == ASSUME ResolverInv, pc \in Chasing, ChaseFails PROVE ResolverInv'
<1>1. PICK ips : ips = <<>>
  OBVIOUS
<1>2. IsSeq(ips) /\ Chased(ips, "ServerFailure")
  BY <1>1, NoElems DEF ChaseFails
<1> QED BY <1>1, <1>2, ChasedInv

\* The search goes on.
LEMMA ChaseOn ==
    ASSUME ResolverInv, pc \in Chasing, NEW label \in Chasing, Goto(label), UNCHANGED <<cur, held, ctx, failed>>
    PROVE  ResolverInv'
<1>1. pc \in AtEnd /\ held = <<>> /\ qtype \in AddressTypes
  BY ChasingIs
<1>2. pc' \in Chasing /\ UNCHANGED <<store, request, zone, sent, cur, ctx, failed>> /\ held' = <<>>
  BY <1>1 DEF Goto, inputs
<1>3. pc' \in AtEnd /\ pc' \notin {"climb", "aname"}
  BY <1>2 DEF Chasing, AtEnd
<1> QED BY <1>1, <1>2, <1>3, ChasingIs, StayAtEnd

\* Too many names.
LEMMA ChaseLimitInv == ASSUME ResolverInv, ChaseLimit PROVE ResolverInv'
<1>1. pc \in Chasing /\ ChaseFails
  BY DEF ChaseLimit, Chasing
<1> QED BY <1>1, ChaseFailsInv

\* A name of another zone.
LEMMA ChaseUpstreamInv == ASSUME ResolverInv, ChaseUpstream PROVE ResolverInv'
<1>1. pc \in Chasing
  BY DEF ChaseUpstream, Chasing
<1>2. \/ \E ips \in UpstreamAnswers : Chased(ips, "Success") /\ failed' = failed
      \/ ChaseFails
  BY DEF ChaseUpstream
<1>3. CASE \E ips \in UpstreamAnswers : Chased(ips, "Success") /\ failed' = failed
  <2>1. PICK ips \in UpstreamAnswers : Chased(ips, "Success") /\ failed' = failed
    BY <1>3
  <2>2. ips \in Seq(STRING)
    BY ResolverAssumption
  <2>3. IsSeq(ips) /\ ~ failed'
    BY <1>1, <2>1, <2>2, SeqOfSet, ChasingIs
  <2> QED BY <1>1, <2>1, <2>3, ChasedInv
<1> QED BY <1>1, <1>2, <1>3, ChaseFailsInv

\* The CNAME of a name of the zone.
LEMMA ChaseCNAMEInv == ASSUME ResolverInv, ChaseCNAME PROVE ResolverInv'
<1>1. pc \in Chasing
  BY DEF ChaseCNAME, ChaseInZone, Chasing
<1>2. \/ ChaseFails
      \/ \E cname : ChaseName(cname)
      \/ Goto("chaseAddress") /\ UNCHANGED <<cur, held, chase, ctx, failed>>
  BY DEF ChaseCNAME
<1>3. CASE \E cname : ChaseName(cname)
  <2>1. Goto("chase") /\ UNCHANGED <<cur, held, ctx, failed>>
    BY <1>3 DEF ChaseName
  <2> QED BY <1>1, <2>1, ChaseOn DEF Chasing
<1>4. CASE Goto("chaseAddress") /\ UNCHANGED <<cur, held, chase, ctx, failed>>
  BY <1>1, <1>4, ChaseOn DEF Chasing
<1> QED BY <1>1, <1>2, <1>3, <1>4, ChaseFailsInv

\* Its addresses.
LEMMA ChaseAddressInv == ASSUME ResolverInv, ChaseAddress PROVE ResolverInv'
<1>1. pc \in Chasing
  BY DEF ChaseAddress, Chasing
<1>2. PICK r \in getRRSet(found.location, qtype) :
         \/ r = Failed /\ ChaseFails
         \/ r # Failed /\ (\E ips \in Addresses(r) : Chased(ips, "Success")) /\ failed' = failed
         \/ Goto("chaseNext") /\ UNCHANGED <<cur, found, held, chase, ctx, failed>>
  BY DEF ChaseAddress
<1>3. CASE r # Failed /\ (\E ips \in Addresses(r) : Chased(ips, "Success")) /\ failed' = failed
  <2>1. PICK ips \in Addresses(r) : Chased(ips, "Success")
    BY <1>3
  <2>2. StoreOK /\ qtype \in AddressTypes /\ ~ failed'
    BY <1>1, <1>3, ChasingIs
  <2>3. WellFormed(qtype, r)
    BY <1>2, <1>3, <2>2, ReadIsWellFormed
  <2>4. IsSeq(ips)
    BY <2>1, <2>2, <2>3, AddressesAre
  <2> QED BY <1>1, <2>1, <2>2, <2>4, ChasedInv
<1>4. CASE Goto("chaseNext") /\ UNCHANGED <<cur, found, held, chase, ctx, failed>>
  BY <1>1, <1>4, ChaseOn DEF Chasing
<1> QED BY <1>1, <1>2, <1>3, <1>4, ChaseFailsInv

\* Its ANAME.
LEMMA ChaseANAMEInv == ASSUME ResolverInv, ChaseANAME PROVE ResolverInv'
<1>1. pc \in Chasing
  BY DEF ChaseANAME, Chasing
<1>2. \/ ChaseFails
      \/ \E aname : ChaseName(aname)
      \/ Chased(<<>>, "Success") /\ failed' = failed
  BY DEF ChaseANAME
<1>3. CASE \E aname : ChaseName(aname)
  <2>1. Goto("chase") /\ UNCHANGED <<cur, held, ctx, failed>>
    BY <1>3 DEF ChaseName
  <2> QED BY <1>1, <2>1, ChaseOn DEF Chasing
<1>4. CASE Chased(<<>>, "Success") /\ failed' = failed
  <2>1. PICK ips : ips = <<>>
    OBVIOUS
  <2>2. IsSeq(ips) /\ Chased(ips, "Success") /\ ~ failed'
    BY <1>1, <1>4, <2>1, NoElems, ChasingIs
  <2> QED BY <1>1, <2>2, ChasedInv
<1> QED BY <1>1, <1>2, <1>3, <1>4, ChaseFailsInv

-----------------------------------------------------------------------------
(* The response, the updater, and the invariant. *)

\* Nothing the invariant speaks of changes.
LEMMA SameInv ==
    ASSUME ResolverInv, StoreOK',
           UNCHANGED <<request, pc, zone, cur, found, held, ctx, sent, failed>>
    PROVE  ResolverInv'
<1>1. (pc \in BeforeZone => Before') /\ (pc \in InLoop \union AtEnd => Open')
  BY DEF ResolverInv, Before, Open, Quiet, CNAMEs, qtype
<1>2. pc \in InLoop => OnTheWay'
  BY DEF ResolverInv, OnTheWay, Linked, Real, qname
<1>3. pc \in AtEnd => Arrived'
  BY DEF ResolverInv, Arrived, Linked, Real, qname, qtype
<1>4. pc \in {"send", "done"} => SendOK(ctx, failed)' /\ Ended'
  <2> SUFFICES ASSUME pc \in {"send", "done"} PROVE SendOK(ctx, failed)' /\ Ended'
    OBVIOUS
  <2>1. ChainOK(ctx) /\ FailureOK(ctx, failed) /\ LookupOK(ctx) /\ SelectionOK(ctx) /\ Ended
    BY DEF ResolverInv, SendOK
  <2>2. ChainOK(ctx)'
    BY <2>1 DEF ChainOK, IsChain, qtype, qname
  <2>3. FailureOK(ctx, failed)'
    BY <2>1 DEF FailureOK, CNAMEs, qname, qtype
  <2>4. LookupOK(ctx)'
    BY <2>1 DEF LookupOK, NXDOMAIN, NODATA, HasData, Real
  <2>5. SelectionOK(ctx)'
    BY <2>1 DEF SelectionOK, SplitAt, qtype
  <2>6. Ended'
    BY <2>1 DEF Ended
  <2> QED BY <2>2, <2>3, <2>4, <2>5, <2>6 DEF SendOK
<1>5. pc = "done" => Written'
  BY DEF ResolverInv, Written, Reply
<1> QED BY <1>1, <1>2, <1>3, <1>4, <1>5 DEF ResolverInv, CtxOK

\* The response is sent.
LEMMA SendInv == ASSUME ResolverInv, Send PROVE ResolverInv'
<1>1. /\ pc = "send" /\ pc' = "done" /\ sent' = Append(sent, Message(ctx, ctx.dnssec))
      /\ UNCHANGED <<store, request, zone, cur, held, ctx, failed>>
  BY DEF Send, inputs
<1>2. StoreOK /\ CtxOK(ctx) /\ IsSeq(sent) /\ ChainOK(ctx) /\ FailureOK(ctx, failed) /\ LookupOK(ctx) /\ SelectionOK(ctx) /\ Ended
  BY <1>1 DEF ResolverInv, SendOK
<1>3. IsSeq(sent') /\ Written'
  BY <1>1, <1>2, MessageSent
<1>4. StoreOK' /\ CtxOK(ctx')
  BY <1>1, <1>2 DEF StoreOK, qname
<1>5. ChainOK(ctx)'
  BY <1>1, <1>2 DEF ChainOK, IsChain, qtype, qname
<1>6. FailureOK(ctx, failed)'
  BY <1>1, <1>2 DEF FailureOK, CNAMEs, qname, qtype
<1>7. LookupOK(ctx)'
  BY <1>1, <1>2 DEF LookupOK, NXDOMAIN, NODATA, HasData, Real
<1>8. SelectionOK(ctx)' /\ Ended'
  BY <1>1, <1>2 DEF SelectionOK, SplitAt, qtype, Ended
<1> QED BY <1>1, <1>3, <1>4, <1>5, <1>6, <1>7, <1>8 DEF ResolverInv, SendOK, BeforeZone, InLoop, AtEnd, CtxOK

\* A record set that is written is of its kind, and the others stay what they are.
LEMMA EditIsWellFormed ==
    ASSUME StoreOK, NEW e \in Edits, NEW records,
           records = [l \in DOMAIN store.records \union {e.location} |->
                        IF l # e.location THEN store.records[l]
                        ELSE [t \in {e.type} \union (IF l \in DOMAIN store.records THEN DOMAIN store.records[l] ELSE {}) |->
                                IF t = e.type THEN e.rrset ELSE store.records[l][t]]],
           NEW l \in DOMAIN records, NEW t \in DOMAIN records[l]
    PROVE  WellFormed(t, records[l][t])
<1>1. WellFormed(e.type, e.rrset)
  BY ResolverAssumption
<1>2. CASE l # e.location
  <2>1. l \in DOMAIN store.records /\ records[l] = store.records[l]
    BY <1>2
  <2> QED BY <2>1 DEF StoreOK
<1>3. CASE l = e.location
  <2>1. records[l] = [u \in {e.type} \union (IF l \in DOMAIN store.records THEN DOMAIN store.records[l] ELSE {}) |->
                                IF u = e.type THEN e.rrset ELSE store.records[l][u]]
    BY <1>3
  <2>2. CASE t = e.type
    <3>1. records[l][t] = e.rrset
      BY <2>1, <2>2
    <3> QED BY <1>1, <2>2, <3>1
  <2>3. CASE t # e.type
    <3>1. l \in DOMAIN store.records /\ t \in DOMAIN store.records[l] /\ records[l][t] = store.records[l][t]
      BY <2>1, <2>3
    <3> QED BY <3>1 DEF StoreOK
  <2> QED BY <2>2, <2>3
<1> QED BY <1>2, <1>3

\* The updater writes, or the list of zones is loaded.
LEMMA PublishInv == ASSUME ResolverInv, Publish PROVE ResolverInv'
<1>1. StoreOK /\ UNCHANGED <<request, pc, zone, cur, found, held, ctx, sent, failed>>
  BY DEF Publish, ResolverInv
<1>2. \/ \E e \in Edits : store' = [store EXCEPT !.records =
              [l \in DOMAIN @ \union {e.location} |->
                 IF l # e.location THEN @[l]
                 ELSE [t \in {e.type} \union (IF l \in DOMAIN @ THEN DOMAIN @[l] ELSE {}) |->
                         IF t = e.type THEN e.rrset ELSE @[l][t]]]]
      \/ \E zones \in ZoneLists : store' = [store EXCEPT !.zones = zones]
  BY DEF Publish
<1>3. DOMAIN store = {"zones", "locations", "config", "records"}
  BY <1>1 DEF StoreOK
<1>4. ASSUME NEW e \in Edits, store' = [store EXCEPT !.records =
              [l \in DOMAIN @ \union {e.location} |->
                 IF l # e.location THEN @[l]
                 ELSE [t \in {e.type} \union (IF l \in DOMAIN @ THEN DOMAIN @[l] ELSE {}) |->
                         IF t = e.type THEN e.rrset ELSE @[l][t]]]]
      PROVE StoreOK'
  <2>1. PICK records : records = [l \in DOMAIN store.records \union {e.location} |->
                        IF l # e.location THEN store.records[l]
                        ELSE [t \in {e.type} \union (IF l \in DOMAIN store.records THEN DOMAIN store.records[l] ELSE {}) |->
                                IF t = e.type THEN e.rrset ELSE store.records[l][t]]]
    OBVIOUS
  <2>2. store' = [store EXCEPT !.records = records]
    BY <1>4, <2>1
  <2>3. \A l \in DOMAIN records : \A t \in DOMAIN records[l] : WellFormed(t, records[l][t])
    BY <1>1, <2>1, EditIsWellFormed
  <2>4. /\ DOMAIN store' = DOMAIN store /\ store'.zones = store.zones /\ store'.locations = store.locations
        /\ store'.records = records
    BY <1>3, <2>2
  <2> QED BY <1>1, <2>3, <2>4 DEF StoreOK, qname
<1>5. ASSUME NEW zones \in ZoneLists, store' = [store EXCEPT !.zones = zones] PROVE StoreOK'
  <2>1. /\ DOMAIN store' = DOMAIN store /\ store'.zones = zones /\ store'.locations = store.locations
        /\ store'.records = store.records
    BY <1>3, <1>5
  <2>2. zones \in SUBSET Seq(STRING)
    BY ResolverAssumption
  <2> QED BY <1>1, <2>1, <2>2 DEF StoreOK, qname
<1>6. StoreOK'
  BY <1>2, <1>4, <1>5
<1> QED BY <1>1, <1>6, SameInv

\* No step breaks the invariant.
LEMMA NextInv == ASSUME ResolverInv, [ResolverNext]_vars PROVE ResolverInv'
<1>1. CASE UNCHANGED vars
  <2>1. UNCHANGED <<store, request, pc, zone, cur, found, held, ctx, sent, failed>>
    BY <1>1 DEF vars
  <2>2. StoreOK'
    BY <2>1 DEF ResolverInv, StoreOK, qname
  <2> QED BY <2>1, <2>2, SameInv
<1>2. CASE ResolverNext
  <2>1. CASE CheckRequestCookie \/ RefuseZone \/ OpenZone
    BY <2>1, CookieInv, RefuseInv, OpenInv
  <2>2. CASE LoopLimit \/ LeaveZone \/ NoSuchName \/ EmptyNonterminal \/ NameFound \/ ReadCNAME
    BY <2>2, LoopLimitInv, LeaveInv, NoSuchNameInv, EmptyNonterminalInv, NameFoundInv, ReadCNAMEInv
  <2>3. CASE ReadNS \/ ReadDS \/ Glue
    BY <2>3, ReadNSInv, ReadDSInv, GlueInv
  <2>4. CASE AnswerRecords \/ AnswerZone \/ ReadAddresses \/ ReadANAME
    BY <2>4, AnswerRecordsInv, AnswerZoneInv, ReadAddressesInv, ReadANAMEInv
  <2>5. CASE StartCAA \/ ClimbCAA \/ ApexCAA
    BY <2>5, StartCAAInv, ClimbCAAInv, ApexCAAInv
  <2>6. CASE ChaseLimit \/ ChaseUpstream \/ ChaseCNAME \/ ChaseAddress \/ ChaseANAME
    BY <2>6, ChaseLimitInv, ChaseUpstreamInv, ChaseCNAMEInv, ChaseAddressInv, ChaseANAMEInv
  <2>7. CASE Send
    BY <2>7, SendInv
  <2>8. CASE Publish
    BY <2>8, PublishInv
  <2> QED BY <1>2, <2>1, <2>2, <2>3, <2>4, <2>5, <2>6, <2>7, <2>8 DEF ResolverNext, HandleRequest
<1> QED BY <1>1, <1>2

\* The invariant holds of every request, whatever is published on the way and whichever
\* reads fail: what HandleRequest has collected is true of the zone it opened.
THEOREM ResolverInvariant == ResolverSpec => []ResolverInv
<1>1. ResolverInit => ResolverInv
  BY InitInv
<1>2. ResolverInv /\ [ResolverNext]_vars => ResolverInv'
  BY NextInv
<1> QED BY <1>1, <1>2, PTL DEF ResolverSpec

-----------------------------------------------------------------------------
(* What the response says. *)

\* The response as the context has it, once it is written.
LEMMA AnsweredIs ==
    ASSUME ResolverInv, Answered
    PROVE  /\ Reply.res = ctx.res /\ Reply.answer = ctx.answer /\ Reply.authority = ctx.authority
           /\ CtxOK(ctx) /\ SendOK(ctx, failed) /\ Ended
BY DEF Answered, ResolverInv, Written

\* The answer section is one chain from the name asked to records of the type asked,
\* whatever is edited between the reads of HandleRequest.
THEOREM AnswerIsAlwaysChain == ResolverSpec => []AnswerIsChain
<1>1. ResolverInv => AnswerIsChain
  <2> SUFFICES ASSUME ResolverInv, Answered, qtype \notin {"SOA", "DNSKEY"}, ~(zone.flat /\ qtype = "DS") PROVE IsChain(Reply.answer)
    BY DEF AnswerIsChain, IsChain
  <2> QED BY AnsweredIs DEF SendOK, ChainOK
<1> QED BY <1>1, ResolverInvariant, PTL

\* A read that decides the answer and fails is told as SERVFAIL, with nothing but the
\* CNAMEs followed before, except at the signed apex; of the CAA records, whose reads drop
\* their errors, only that the name is not denied.
THEOREM FailureIsNeverDenial == ResolverSpec => []FailureIsNotDenial
<1>1. ResolverInv => FailureIsNotDenial
  <2> SUFFICES ASSUME ResolverInv, Answered, failed
               PROVE  IF qtype = "CAA" THEN Reply.res # "NameError"
                      ELSE /\ Reply.res = "ServerFailure" \/ (ctx.dnssec /\ qname = zone.name)
                           /\ \A i \in DOMAIN Reply.answer : Reply.answer[i].type = "CNAME"
    BY DEF FailureIsNotDenial
  <2> QED BY AnsweredIs DEF SendOK, FailureOK, CNAMEs, Elems
<1> QED BY <1>1, ResolverInvariant, PTL

\* HandleRequest denies a name only when the zone neither has it nor covers it by a
\* wildcard, and gives data, or denies only the data, when it does or is.
THEOREM LookupIsAlwaysRight == ResolverSpec => []LookupIsRight
<1>1. ResolverInv => LookupIsRight
  <2> SUFFICES ASSUME ResolverInv, Answered, Reply.res # "ServerFailure", FindZone({zone.name}, cur) # <<>>
               PROVE  LookupIsRight
    BY DEF LookupIsRight
  <2>1. /\ Reply.res = ctx.res /\ Reply.answer = ctx.answer /\ Reply.authority = ctx.authority
        /\ LookupOK(ctx) /\ Ended
    BY AnsweredIs DEF SendOK
  <2>2. FindZone({zone.name}, cur) = zone.name
    BY DEF FindZone, LongestPrefix
  <2>3. zone.name # <<>> /\ zone.name \in Seq(STRING) /\ cur \in Seq(STRING)
    BY <2>1, <2>2 DEF Ended
  <2>4. IsPrefix(zone.name, cur)
    <3>1. {zone.name} \in SUBSET Seq(STRING)
      BY <2>3
    <3> QED BY <2>2, <2>3, <3>1, FindZoneIsPrefix
  <2>5. (NXDOMAIN(ctx) => ~ Real(cur)) /\ (NODATA(ctx) \/ HasData(ctx) => Real(cur))
    BY <2>1, <2>3, <2>4 DEF LookupOK
  <2>6. NXDOMAIN(ctx) <=> Reply.res = "NameError" \/ \E i \in DOMAIN Reply.authority : Reply.authority[i].type = "NSEC" /\ Reply.authority[i].data = "NameError"
    BY <2>1 DEF NXDOMAIN, SaysNXDOMAIN, Elems
  <2>7. NODATA(ctx) <=> ~ NXDOMAIN(ctx) /\ \E i \in DOMAIN Reply.authority : Reply.authority[i].type = "SOA"
    BY <2>1 DEF NODATA, Elems
  <2>8. HasData(ctx) <=> \E i \in DOMAIN Reply.answer : Reply.answer[i].type # "CNAME"
    BY <2>1 DEF HasData, Elems
  <2> QED BY <2>5, <2>6, <2>7, <2>8 DEF LookupIsRight, Real
<1> QED BY <1>1, ResolverInvariant, PTL

\* As many positions as there are.
LEMMA CountTo == ASSUME NEW k \in Nat PROVE Cardinality(1..k) = k
<1>1. Cardinality(1..k) = IF 1 > k THEN 0 ELSE k - 1 + 1
  BY FS_Interval
<1> QED BY <1>1

\* The addresses a client is given, after the CNAMEs, are those the geo filter, the order
\* and the count of the record set promise.
THEOREM SelectionAlwaysKeepsPromise == ResolverSpec => []SelectionKeepsPromise
<1>1. ResolverInv => SelectionKeepsPromise
  <2> DEFINE a == Reply.answer
             others == {i \in DOMAIN a : a[i].type # qtype}
             given == [i \in 1..Len(a) - Cardinality(others) |-> a[Cardinality(others) + i].data]
  <2> SUFFICES ASSUME ResolverInv, Answered, qtype \in AddressTypes, held # <<>>, given # <<>>
               PROVE  GoodSelection(held, request.client, given)
    BY DEF SelectionKeepsPromise
  <2>1. a = ctx.answer /\ IsSeq(a) /\ SelectionOK(ctx)
    BY AnsweredIs DEF SendOK, CtxOK
  <2>2. PICK k \in 0..Len(a) : SplitAt(a, k)
    BY <2>1 DEF SelectionOK
  <2>3. Len(a) \in Nat /\ DOMAIN a = 1..Len(a) /\ k \in Nat /\ k <= Len(a)
    BY <2>1, SeqDomain
  <2>4. others = 1..k
    <3>1. \A i \in 1..Len(a) : i \in 1..k \/ i \in (k + 1)..Len(a)
      BY <2>3
    <3>2. \A i \in 1..k : i \in 1..Len(a)
      BY <2>3
    <3>3. \A i \in 1..Len(a) : a[i].type # qtype <=> i \in 1..k
      BY <2>2, <3>1 DEF SplitAt
    <3> QED BY <2>3, <3>2, <3>3
  <2>5. Cardinality(1..k) = k
    BY <2>3, CountTo
  <2>6. Cardinality(others) = k
    BY <2>4, <2>5
  <2> HIDE DEF a, others
  <2>7. given = [i \in 1..Len(a) - k |-> a[k + i].data]
    BY <2>6
  <2>8. k < Len(a)
    <3>1. CASE k # Len(a)
      <4>1. PICK n : n = Len(a)
        OBVIOUS
      <4>2. n \in Nat /\ k \in Nat /\ k <= n /\ k # n
        BY <2>3, <3>1, <4>1
      <4>3. k < n
        BY ONLY <4>2
      <4> QED BY <4>1, <4>3
    <3>2. CASE k = Len(a)
      <4>1. Len(a) - k = 0 /\ 1..0 = {}
        BY <2>3, <3>2
      <4>2. given = [i \in {} |-> a[k + i].data]
        BY <2>7, <4>1
      <4> QED BY <4>2
    <3> QED BY <3>1, <3>2
  <2> QED BY <2>2, <2>7, <2>8 DEF SplitAt
<1> QED BY <1>1, ResolverInvariant, PTL
=============================================================================
