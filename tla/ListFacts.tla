----------------------------- MODULE ListFacts ------------------------------
(***************************************************************************)
(* Facts about lists: what a list comprehension keeps, and what happens to *)
(* the elements of a list and to their order when one is appended or taken *)
(* away.  Induction is by the least number principle over a set.           *)
(***************************************************************************)
EXTENDS Lists, WellFoundedInduction, SequenceTheorems, TLAPS

-----------------------------------------------------------------------------
(* The least number principle, with a set for the property: this is how    *)
(* the recursion of Keep is reasoned about.                                *)
LEMMA LeastOf ==
    ASSUME NEW T, T \subseteq Nat, T # {}
    PROVE  \E k \in T : \A j \in T : k <= j
<1> DEFINE less == {p \in Nat \X Nat : p[1] < p[2]}
<1>1. IsWellFoundedOn(less, Nat)
  BY NatLessThanWellFounded DEF OpToRel
<1>2. \A k, j \in Nat : <<j, k>> \in less <=> j < k
  OBVIOUS
<1> HIDE DEF less
<1>3. \E k \in T : \A j \in T : <<j, k>> \notin less
  BY <1>1, WFMin
<1>4. PICK k \in T : \A j \in T : <<j, k>> \notin less
  BY <1>3
<1>5. ASSUME NEW j \in T
      PROVE  k <= j
  <2>1. k \in Nat /\ j \in Nat /\ <<j, k>> \notin less
      BY <1>4
  <2>2. ~(j < k)
      BY <1>2, <2>1
  <2>3. QED
      BY <2>1, <2>2
<1>6. QED
  BY <1>5

\* The next value of the recursion in Keep.
Grown(t, K, g, n) ==
    IF n = 0 THEN <<>> ELSE IF t[n] \in K THEN Append(g[n - 1], t[n]) ELSE g[n - 1]

(* The recursion has a solution, ...                                       *)
LEMMA KeepExists ==
    ASSUME NEW t, NEW K, NEW m \in Nat
    PROVE  \E g : g = [n \in 0..m |-> Grown(t, K, g, n)]
<1> DEFINE bad == {k \in Nat : ~ \E g : g = [n \in 0..k |-> Grown(t, K, g, n)]}
<1>1. CASE bad = {}
  BY <1>1
<1>2. CASE bad # {}
  <2>1. PICK k \in bad : \A j \in bad : k <= j
    <3>1. bad \subseteq Nat
        OBVIOUS
    <3> HIDE DEF bad
    <3>2. QED
        BY <1>2, <3>1, LeastOf
  <2>2. CASE k = 0
    <3> DEFINE g == [n \in 0..0 |-> <<>>]
    <3>1. g = [n \in 0..k |-> Grown(t, K, g, n)]
        BY <2>2 DEF Grown
    <3>2. QED
        BY <2>1, <3>1
  <2>3. CASE k # 0
    <3>1. k \in Nat /\ k - 1 \in Nat /\ k - 1 \notin bad
        BY <2>1, <2>3
    <3>2. PICK g : g = [n \in 0..(k - 1) |-> Grown(t, K, g, n)]
        BY <3>1
    <3> DEFINE h == [n \in 0..k |-> IF n = k THEN Grown(t, K, g, k) ELSE g[n]]
    <3>3. ASSUME NEW n \in 0..k
          PROVE  h[n] = Grown(t, K, h, n)
      <4>1. n \in Int /\ (n # 0 => n - 1 \in 0..(k - 1) /\ n - 1 \in 0..k /\ n - 1 # k)
          BY <3>1
      <4>2. n # 0 => h[n - 1] = g[n - 1]
          BY <4>1
      <4>3. Grown(t, K, h, n) = Grown(t, K, g, n)
          BY <4>2 DEF Grown
      <4>4. n # k => n \in 0..(k - 1) /\ h[n] = g[n] /\ g[n] = Grown(t, K, g, n)
          BY <3>1, <3>2
      <4>5. QED
          BY <4>3, <4>4
    <3> HIDE DEF h
    <3>4. h = [n \in 0..k |-> Grown(t, K, h, n)]
      <4>1. h = [n \in 0..k |-> h[n]]
          BY DEF h
      <4>2. QED
          BY <3>3, <4>1
    <3>5. QED
        BY <2>1, <3>4
  <2>4. QED
      BY <2>2, <2>3
<1>3. QED
  BY <1>1, <1>2

(* ... and Keep is one.                                                    *)
LEMMA KeepIsGrown ==
    ASSUME NEW t, NEW K, Len(t) \in Nat
    PROVE  \E g : g = [n \in 0..Len(t) |-> Grown(t, K, g, n)] /\ Keep(t, K) = g[Len(t)]
<1> DEFINE kept == CHOOSE g : g = [n \in 0..Len(t) |-> Grown(t, K, g, n)]
<1>1. kept = [n \in 0..Len(t) |-> Grown(t, K, kept, n)]
  BY KeepExists
<1>2. Keep(t, K) = kept[Len(t)]
  BY DEF Keep, Grown
<1>3. QED
  BY <1>1, <1>2

\* Two places of s in order are, in t, places in order.
Under(s, t) ==
    \A i, k \in DOMAIN s : i < k =>
        \E a, b \in DOMAIN t : a < b /\ t[a] = s[i] /\ t[b] = s[k]

\* The first n elements.
UpTo(t, n) == {t[i] : i \in 1..n}
UnderUpTo(s, t, n) ==
    \A i, k \in DOMAIN s : i < k =>
        \E a, b \in 1..n : a < b /\ t[a] = s[i] /\ t[b] = s[k]

(* A function on 1..n is a list.                                           *)
LEMMA IsList ==
    ASSUME NEW S, NEW n \in Nat, NEW f \in [1..n -> S]
    PROVE  f \in Seq(S)
BY SeqDef

(* A list with one element more.                                           *)
LEMMA AppendIs ==
    ASSUME NEW S, NEW s \in Seq(S), NEW e \in S
    PROVE  /\ Append(s, e) \in Seq(S) /\ Len(Append(s, e)) = Len(s) + 1
           /\ DOMAIN Append(s, e) = 1..(Len(s) + 1) /\ DOMAIN s = 1..Len(s)
           /\ Len(s) \in Nat
           /\ \A i \in 1..Len(s) : Append(s, e)[i] = s[i]
           /\ Append(s, e)[Len(s) + 1] = e
           /\ Items(Append(s, e)) = Items(s) \cup {e}
<1>1. /\ Append(s, e) \in Seq(S) /\ Len(Append(s, e)) = Len(s) + 1
      /\ DOMAIN Append(s, e) = 1..(Len(s) + 1) /\ DOMAIN s = 1..Len(s)
      /\ Len(s) \in Nat
      /\ \A i \in 1..Len(s) : Append(s, e)[i] = s[i]
      /\ Append(s, e)[Len(s) + 1] = e
  OBVIOUS
<1>2. Items(Append(s, e)) = Items(s) \cup {e}
  <2> DEFINE l == Append(s, e)
  <2> HIDE DEF l
  <2>1. \A i \in 1..(Len(s) + 1) : l[i] = IF i = Len(s) + 1 THEN e ELSE s[i]
      BY <1>1 DEF l
  <2>2. DOMAIN l = 1..(Len(s) + 1)
      BY <1>1 DEF l
  <2>3. \A x \in Items(l) : x \in Items(s) \cup {e}
      BY <1>1, <2>1, <2>2 DEF Items
  <2>4. \A x \in Items(s) : x \in Items(l)
    <3> SUFFICES ASSUME NEW i \in DOMAIN s PROVE s[i] \in Items(l)
        BY DEF Items
    <3>1. i \in DOMAIN l /\ l[i] = s[i]
        BY <1>1, <2>1, <2>2
    <3>2. QED
        BY <3>1 DEF Items
  <2>5. e \in Items(l)
    <3>1. Len(s) + 1 \in DOMAIN l /\ l[Len(s) + 1] = e
        BY <1>1, <2>1, <2>2
    <3>2. QED
        BY <3>1 DEF Items
  <2>6. QED
      BY <2>3, <2>4, <2>5 DEF l
<1>3. QED
  BY <1>1, <1>2

(* What is kept of the first n elements.                                   *)
LEMMA KeptSoFar ==
    ASSUME NEW S, NEW t \in Seq(S), NEW K, NEW g,
           g = [n \in 0..Len(t) |-> Grown(t, K, g, n)]
    PROVE  \A n \in 0..Len(t) :
              /\ g[n] \in Seq(S \cap K) /\ Items(g[n]) = UpTo(t, n) \cap K
              /\ UnderUpTo(g[n], t, n)
<1> DEFINE Good(n) == /\ g[n] \in Seq(S \cap K) /\ Items(g[n]) = UpTo(t, n) \cap K
                      /\ UnderUpTo(g[n], t, n)
           bad == {n \in 0..Len(t) : ~Good(n)}
<1>1. Len(t) \in Nat /\ DOMAIN t = 1..Len(t) /\ \A i \in 1..Len(t) : t[i] \in S
  OBVIOUS
<1>2. \A n \in 0..Len(t) : g[n] = Grown(t, K, g, n)
  OBVIOUS
<1>3. CASE bad = {}
  BY <1>3
<1>4. CASE bad # {}
  <2>1. PICK n \in bad : \A j \in bad : n <= j
    <3>1. bad \subseteq Nat
        BY <1>1
    <3> HIDE DEF bad
    <3>2. QED
        BY <1>4, <3>1, LeastOf
  <2>2. n \in 0..Len(t) /\ n \in Nat
      BY <1>1, <2>1
  <2>3. CASE n = 0
    <3>1. g[n] = <<>>
        BY <1>2, <2>2, <2>3 DEF Grown
    <3>2. DOMAIN g[n] = {} /\ g[n] \in Seq(S \cap K) /\ Items(g[n]) = {}
        BY <3>1 DEF Items
    <3>3. UpTo(t, n) = {}
        BY <2>3 DEF UpTo
    <3>4. QED
        BY <2>1, <3>2, <3>3 DEF UnderUpTo
  <2>4. CASE n # 0
    <3>1. n - 1 \in 0..Len(t) /\ n - 1 \in Nat /\ n \in 1..Len(t)
        BY <1>1, <2>2, <2>4
    <3>2. Good(n - 1)
      <4>1. n - 1 \notin bad
          BY <2>1, <2>2
      <4>2. QED
          BY <3>1, <4>1
    <3>3. /\ UpTo(t, n) = UpTo(t, n - 1) \cup {t[n]}
          /\ 1..n = 1..(n - 1) \cup {n}
        BY <2>2, <3>1 DEF UpTo
    <3>4. CASE t[n] \notin K
      <4>1. g[n] = g[n - 1]
          BY <1>2, <2>2, <2>4, <3>4 DEF Grown
      <4>2. UnderUpTo(g[n], t, n)
        <5> DEFINE s == g[n - 1]
        <5>1. UnderUpTo(s, t, n - 1) /\ g[n] = s
            BY <3>2, <4>1
        <5> HIDE DEF s
        <5>2. 1..(n - 1) \subseteq 1..n
            BY <3>3
        <5>3. UnderUpTo(s, t, n)
            BY <5>1, <5>2 DEF UnderUpTo
        <5>4. QED
            BY <5>1, <5>3
      <4>3. Good(n)
          BY <3>2, <3>3, <3>4, <4>1, <4>2
      <4>4. QED
          BY <2>1, <4>3
    <3>5. CASE t[n] \in K
      <4>1. g[n] = Append(g[n - 1], t[n])
          BY <1>2, <2>2, <2>4, <3>5 DEF Grown
      <4> DEFINE s == g[n - 1]
      <4>2. s \in Seq(S \cap K) /\ t[n] \in S \cap K
          BY <1>1, <3>1, <3>2, <3>5
      <4>3. Items(s) = UpTo(t, n - 1) \cap K /\ UnderUpTo(s, t, n - 1)
          BY <3>2
      <4> HIDE DEF s
      <4>4. /\ Append(s, t[n]) \in Seq(S \cap K)
            /\ DOMAIN Append(s, t[n]) = 1..(Len(s) + 1) /\ DOMAIN s = 1..Len(s)
            /\ Len(s) \in Nat
            /\ \A i \in 1..Len(s) : Append(s, t[n])[i] = s[i]
            /\ Append(s, t[n])[Len(s) + 1] = t[n]
            /\ Items(Append(s, t[n])) = Items(s) \cup {t[n]}
          BY <4>2, AppendIs
      <4>5. UnderUpTo(Append(s, t[n]), t, n)
        <5> DEFINE l == Append(s, t[n])
        <5> HIDE DEF l
        <5> SUFFICES ASSUME NEW i \in DOMAIN l, NEW k \in DOMAIN l, i < k
                     PROVE  \E a, b \in 1..n : a < b /\ t[a] = l[i] /\ t[b] = l[k]
            BY DEF UnderUpTo, l
        <5>1. i \in 1..Len(s) /\ l[i] = s[i]
            BY <4>4 DEF l
        <5>2. CASE k = Len(s) + 1
          <6>1. s[i] \in UpTo(t, n - 1)
              BY <4>3, <4>4, <5>1 DEF Items
          <6>2. PICK a \in 1..(n - 1) : t[a] = s[i]
              BY <6>1 DEF UpTo
          <6>3. l[k] = t[n]
              BY <4>4, <5>2 DEF l
          <6>4. QED
              BY <3>1, <5>1, <6>2, <6>3
        <5>3. CASE k # Len(s) + 1
          <6>1. k \in 1..Len(s) /\ l[k] = s[k]
              BY <4>4, <5>3 DEF l
          <6>2. PICK a \in 1..(n - 1), b \in 1..(n - 1) : a < b /\ t[a] = s[i] /\ t[b] = s[k]
              BY <4>3, <4>4, <5>1, <6>1 DEF UnderUpTo
          <6>3. QED
              BY <3>3, <5>1, <6>1, <6>2
        <5>4. QED
            BY <5>2, <5>3
      <4>6. Good(n)
          BY <3>3, <3>5, <4>1, <4>3, <4>4, <4>5 DEF s
      <4>7. QED
          BY <2>1, <4>6
    <3>6. QED
        BY <3>4, <3>5
  <2>5. QED
      BY <2>3, <2>4
<1>5. QED
  BY <1>3, <1>4

(* A list comprehension has the elements that pass the test, in order.     *)
LEMMA KeepKeeps ==
    ASSUME NEW S, NEW t \in Seq(S), NEW K
    PROVE  /\ Keep(t, K) \in Seq(S \cap K) /\ Items(Keep(t, K)) = Items(t) \cap K
           /\ Under(Keep(t, K), t)
<1>1. Len(t) \in Nat /\ DOMAIN t = 1..Len(t)
  OBVIOUS
<1>2. PICK g : g = [n \in 0..Len(t) |-> Grown(t, K, g, n)] /\ Keep(t, K) = g[Len(t)]
  BY <1>1, KeepIsGrown
<1>3. /\ g[Len(t)] \in Seq(S \cap K) /\ Items(g[Len(t)]) = UpTo(t, Len(t)) \cap K
      /\ UnderUpTo(g[Len(t)], t, Len(t))
  BY <1>1, <1>2, KeptSoFar
<1>4. UpTo(t, Len(t)) = Items(t)
  BY <1>1 DEF UpTo, Items
<1>5. Under(Keep(t, K), t)
  BY <1>1, <1>2, <1>3, SMTT(30) DEF Under, UnderUpTo
<1>6. QED
  BY <1>2, <1>3, <1>4, <1>5

-----------------------------------------------------------------------------
(* Lists without repetition, and pieces of lists.                          *)
Distinct(l) == \A i, k \in DOMAIN l : l[i] = l[k] => i = k

(* What lies under a list without repetition has none.                     *)
LEMMA UnderDistinct ==
    ASSUME NEW S, NEW s \in Seq(S), NEW t \in Seq(S), Under(s, t), Distinct(t)
    PROVE  Distinct(s)
<1> SUFFICES ASSUME NEW i \in DOMAIN s, NEW k \in DOMAIN s, s[i] = s[k], i < k
             PROVE  FALSE
  <2>1. DOMAIN s = 1..Len(s)
      OBVIOUS
  <2>2. \A i, k \in DOMAIN s : i < k \/ k < i \/ i = k
      BY <2>1
  <2>3. QED
      BY <2>2 DEF Distinct
<1>1. PICK a \in DOMAIN t, b \in DOMAIN t : a < b /\ t[a] = s[i] /\ t[b] = s[k]
  BY DEF Under
<1>2. DOMAIN t = 1..Len(t)
  OBVIOUS
<1>3. a = b
  BY <1>1 DEF Distinct
<1>4. QED
  BY <1>1, <1>2, <1>3

(* A new element makes no repetition.                                      *)
LEMMA AppendDistinct ==
    ASSUME NEW S, NEW s \in Seq(S), NEW e \in S, Distinct(s), e \notin Items(s)
    PROVE  Distinct(Append(s, e))
<1>1. /\ DOMAIN Append(s, e) = 1..(Len(s) + 1) /\ DOMAIN s = 1..Len(s)
      /\ Len(s) \in Nat
      /\ \A i \in 1..Len(s) : Append(s, e)[i] = s[i]
      /\ Append(s, e)[Len(s) + 1] = e
  BY AppendIs
<1>2. \A i \in 1..Len(s) : s[i] # e
  BY <1>1 DEF Items
<1> DEFINE l == Append(s, e)
<1> HIDE DEF l
<1>3. \A i \in DOMAIN l : i \in 1..Len(s) \/ i = Len(s) + 1
  BY <1>1 DEF l
<1>4. \A i, k \in DOMAIN l : l[i] = l[k] => i = k
  BY <1>1, <1>2, <1>3 DEF Distinct, l
<1>5. QED
  BY <1>4 DEF Distinct, l

(* The head and the tail.                                                  *)
LEMMA TailIs ==
    ASSUME NEW S, NEW s \in Seq(S), s # <<>>
    PROVE  /\ Head(s) \in S /\ Tail(s) \in Seq(S) /\ Items(s) = {Head(s)} \cup Items(Tail(s))
           /\ Under(Tail(s), s) /\ Len(Tail(s)) = Len(s) - 1 /\ Len(s) >= 1
           /\ DOMAIN s = 1..Len(s) /\ DOMAIN Tail(s) = 1..(Len(s) - 1)
           /\ s[1] = Head(s) /\ \A i \in 1..(Len(s) - 1) : Tail(s)[i] = s[i + 1]
           /\ Distinct(s) => Head(s) \notin Items(Tail(s))
<1>1. /\ Head(s) \in S /\ Tail(s) \in Seq(S) /\ Len(Tail(s)) = Len(s) - 1 /\ Len(s) >= 1
      /\ DOMAIN s = 1..Len(s) /\ DOMAIN Tail(s) = 1..(Len(s) - 1) /\ Len(s) \in Nat
      /\ s[1] = Head(s) /\ \A i \in 1..(Len(s) - 1) : Tail(s)[i] = s[i + 1]
  OBVIOUS
<1> DEFINE r == Tail(s)
           h == Head(s)
<1> HIDE DEF r, h
<1>2. Items(s) = {h} \cup Items(r)
  <2>1. ASSUME NEW i \in DOMAIN s
        PROVE  s[i] \in {h} \cup Items(r)
    <3>1. CASE i = 1
        BY <1>1, <3>1 DEF h
    <3>2. CASE i # 1
      <4>1. i - 1 \in DOMAIN r /\ r[i - 1] = s[i]
          BY <1>1, <3>2 DEF r
      <4>2. QED
          BY <4>1 DEF Items
    <3>3. QED
        BY <3>1, <3>2
  <2>2. ASSUME NEW i \in DOMAIN r
        PROVE  r[i] \in Items(s)
    <3>1. i + 1 \in DOMAIN s /\ r[i] = s[i + 1]
        BY <1>1 DEF r
    <3>2. QED
        BY <3>1 DEF Items
  <2>3. h \in Items(s)
    <3>1. 1 \in DOMAIN s /\ s[1] = h
        BY <1>1 DEF h
    <3>2. QED
        BY <3>1 DEF Items
  <2>4. QED
      BY <2>1, <2>2, <2>3 DEF Items
<1>3. Under(r, s)
  <2> SUFFICES ASSUME NEW i \in DOMAIN r, NEW k \in DOMAIN r, i < k
               PROVE  \E a, b \in DOMAIN s : a < b /\ s[a] = r[i] /\ s[b] = r[k]
      BY DEF Under
  <2>1. /\ i + 1 \in DOMAIN s /\ k + 1 \in DOMAIN s /\ i + 1 < k + 1
        /\ s[i + 1] = r[i] /\ s[k + 1] = r[k]
      BY <1>1 DEF r
  <2>2. QED
      BY <2>1
<1>4. ASSUME Distinct(s), NEW i \in DOMAIN r, r[i] = h
      PROVE  FALSE
  <2>1. i + 1 \in DOMAIN s /\ 1 \in DOMAIN s /\ i + 1 # 1 /\ s[i + 1] = s[1]
      BY <1>1, <1>4 DEF r, h
  <2>2. QED
      BY <1>4, <2>1 DEF Distinct
<1>5. Distinct(s) => h \notin Items(r)
  BY <1>4 DEF Items
<1>6. QED
  BY <1>1, <1>2, <1>3, <1>5 DEF r, h

(* What is in two lists, one behind the other.                            *)
LEMMA ConcatIs ==
    ASSUME NEW S, NEW a \in Seq(S), NEW q \in Seq(S)
    PROVE  a \o q \in Seq(S) /\ Items(a \o q) = Items(a) \cup Items(q)
<1>1. a \o q \in Seq(S)
  BY ConcatProperties
<1>2. /\ Len(a \o q) = Len(a) + Len(q) /\ Len(a) \in Nat /\ Len(q) \in Nat
      /\ DOMAIN (a \o q) = 1..(Len(a) + Len(q))
      /\ DOMAIN a = 1..Len(a) /\ DOMAIN q = 1..Len(q)
      /\ \A i \in 1..Len(a) : (a \o q)[i] = a[i]
      /\ \A i \in 1..Len(q) : (a \o q)[Len(a) + i] = q[i]
  OBVIOUS
<1>3. Items(a \o q) = Items(a) \cup Items(q)
  <2> DEFINE g == a \o q
  <2> HIDE DEF g
  <2>1. ASSUME NEW i \in DOMAIN g
        PROVE  g[i] \in Items(a) \cup Items(q)
    <3>1. CASE i \in 1..Len(a)
        BY <1>2, <3>1 DEF g, Items
    <3>2. CASE i \notin 1..Len(a)
      <4>1. i - Len(a) \in 1..Len(q) /\ g[Len(a) + (i - Len(a))] = q[i - Len(a)]
          BY <1>2, <3>2 DEF g
      <4>2. Len(a) + (i - Len(a)) = i
          BY <1>2 DEF g
      <4>3. QED
          BY <1>2, <4>1, <4>2 DEF Items
    <3>3. QED
        BY <3>1, <3>2
  <2>2. ASSUME NEW i \in DOMAIN a
        PROVE  a[i] \in Items(g)
    <3>1. i \in DOMAIN g /\ g[i] = a[i]
        BY <1>2 DEF g
    <3>2. QED
        BY <3>1 DEF Items
  <2>3. ASSUME NEW i \in DOMAIN q
        PROVE  q[i] \in Items(g)
    <3>1. Len(a) + i \in DOMAIN g /\ g[Len(a) + i] = q[i]
        BY <1>2 DEF g
    <3>2. QED
        BY <3>1 DEF Items
  <2>4. QED
      BY <2>1, <2>2, <2>3 DEF Items, g
<1>4. QED
  BY <1>1, <1>3

(* What is put behind the second list is put behind both.                  *)
LEMMA AppendBehind ==
    ASSUME NEW S, NEW a \in Seq(S), NEW q \in Seq(S), NEW e \in S
    PROVE  a \o Append(q, e) = Append(a \o q, e)
OBVIOUS

(* A list taken from the front of a second and put behind a first.         *)
LEMMA MoveOn ==
    ASSUME NEW S, NEW a \in Seq(S), NEW q \in Seq(S), q # <<>>
    PROVE  /\ Append(a, Head(q)) \o Tail(q) = a \o q
           /\ a \o Tail(q) \in Seq(S) /\ Under(a \o Tail(q), a \o q)
<1>1. /\ Len(a \o q) = Len(a) + Len(q) /\ Len(a) \in Nat /\ Len(q) \in Nat
      /\ DOMAIN (a \o q) = 1..(Len(a) + Len(q))
      /\ DOMAIN a = 1..Len(a) /\ DOMAIN q = 1..Len(q)
      /\ \A i \in 1..Len(a) : (a \o q)[i] = a[i]
      /\ \A i \in 1..Len(q) : (a \o q)[Len(a) + i] = q[i]
  OBVIOUS
<1>2. Append(a, Head(q)) \o Tail(q) = a \o q
  <2>1. /\ Head(q) \in S /\ Tail(q) \in Seq(S) /\ Len(Tail(q)) = Len(q) - 1
        /\ Len(q) >= 1 /\ q[1] = Head(q)
        /\ \A i \in 1..(Len(q) - 1) : Tail(q)[i] = q[i + 1]
      BY TailIs
  <2>2. QED
      BY <1>1, <2>1
<1>3. a \o Tail(q) \in Seq(S) /\ Under(a \o Tail(q), a \o q)
  <2> DEFINE r == Tail(q)
             g == a \o q
             h == a \o r
  <2>1. /\ r \in Seq(S) /\ Len(r) = Len(q) - 1 /\ Len(q) >= 1
        /\ \A i \in 1..(Len(q) - 1) : r[i] = q[i + 1]
      BY TailIs
  <2> HIDE DEF r
  <2>2. /\ DOMAIN h = 1..(Len(a) + Len(q) - 1)
        /\ \A i \in 1..Len(a) : h[i] = a[i]
        /\ \A i \in 1..(Len(q) - 1) : h[Len(a) + i] = r[i]
    <3>1. /\ DOMAIN h = 1..(Len(a) + Len(r))
          /\ \A i \in 1..Len(a) : h[i] = a[i]
          /\ \A i \in 1..Len(r) : h[Len(a) + i] = r[i]
        BY <2>1
    <3>2. Len(a) + Len(r) = Len(a) + Len(q) - 1
        BY <1>1, <2>1
    <3>3. QED
        BY <2>1, <3>1, <3>2
  <2> HIDE DEF g, h
  <2> DEFINE at(i) == IF i <= Len(a) THEN i ELSE i + 1
  <2>3. ASSUME NEW i \in DOMAIN h
        PROVE  at(i) \in DOMAIN g /\ g[at(i)] = h[i] /\ i \in Nat
    <3>1. CASE i <= Len(a)
        BY <1>1, <2>1, <2>2, <3>1 DEF g
    <3>2. CASE ~(i <= Len(a))
      <4> DEFINE j == i - Len(a)
      <4>1. j \in 1..(Len(q) - 1) /\ i = Len(a) + j /\ j + 1 \in 1..Len(q)
            /\ at(i) = Len(a) + (j + 1)
          BY <1>1, <2>1, <2>2, <3>2
      <4> HIDE DEF j, at
      <4>2. h[i] = r[j] /\ r[j] = q[j + 1] /\ g[at(i)] = q[j + 1]
          BY <1>1, <2>1, <2>2, <4>1 DEF g
      <4>3. at(i) \in DOMAIN g /\ i \in Nat
          BY <1>1, <4>1 DEF g
      <4>4. QED
          BY <4>2, <4>3
    <3>3. QED
        BY <3>1, <3>2, <1>1, <2>2
  <2>4. \A i, k \in DOMAIN h : i < k => at(i) < at(k)
      BY <1>1, <2>3
  <2> HIDE DEF at
  <2>5. h \in Seq(S) /\ Under(h, g)
    <3>1. h \in Seq(S)
        BY <2>1, ConcatProperties DEF h
    <3>2. QED
        BY <2>3, <2>4, <3>1 DEF Under
  <2>6. QED
      BY <2>5 DEF g, h, r
<1>4. QED
  BY <1>2, <1>3

-----------------------------------------------------------------------------
(* Totals.                                                                 *)

\* The next value of the recursion in Total.
Summed(t, f, g, n) == IF n = 0 THEN 0 ELSE g[n - 1] + f[t[n]]

(* The recursion of a total has a solution, ...                            *)
LEMMA TotalExists ==
    ASSUME NEW t, NEW f, NEW m \in Nat
    PROVE  \E g : g = [n \in 0..m |-> Summed(t, f, g, n)]
<1> DEFINE bad == {k \in Nat : ~ \E g : g = [n \in 0..k |-> Summed(t, f, g, n)]}
<1>1. CASE bad = {}
  BY <1>1
<1>2. CASE bad # {}
  <2>1. PICK k \in bad : \A j \in bad : k <= j
    <3>1. bad \subseteq Nat
        OBVIOUS
    <3> HIDE DEF bad
    <3>2. QED
        BY <1>2, <3>1, LeastOf
  <2>2. CASE k = 0
    <3> DEFINE g == [n \in 0..0 |-> 0]
    <3>1. g = [n \in 0..k |-> Summed(t, f, g, n)]
        BY <2>2 DEF Summed
    <3>2. QED
        BY <2>1, <3>1
  <2>3. CASE k # 0
    <3>1. k \in Nat /\ k - 1 \in Nat /\ k - 1 \notin bad
        BY <2>1, <2>3
    <3>2. PICK g : g = [n \in 0..(k - 1) |-> Summed(t, f, g, n)]
        BY <3>1
    <3> DEFINE h == [n \in 0..k |-> IF n = k THEN Summed(t, f, g, k) ELSE g[n]]
    <3>3. ASSUME NEW n \in 0..k
          PROVE  h[n] = Summed(t, f, h, n)
      <4>1. n \in Int /\ (n # 0 => n - 1 \in 0..(k - 1) /\ n - 1 \in 0..k /\ n - 1 # k)
          BY <3>1
      <4>2. n # 0 => h[n - 1] = g[n - 1]
          BY <4>1
      <4>3. Summed(t, f, h, n) = Summed(t, f, g, n)
          BY <4>2 DEF Summed
      <4>4. n # k => n \in 0..(k - 1) /\ h[n] = g[n] /\ g[n] = Summed(t, f, g, n)
          BY <3>1, <3>2
      <4>5. QED
          BY <4>3, <4>4
    <3> HIDE DEF h
    <3>4. h = [n \in 0..k |-> Summed(t, f, h, n)]
      <4>1. h = [n \in 0..k |-> h[n]]
          BY DEF h
      <4>2. QED
          BY <3>3, <4>1
    <3>5. QED
        BY <2>1, <3>4
  <2>4. QED
      BY <2>2, <2>3
<1>3. QED
  BY <1>1, <1>2

(* ... and Total is one.                                                   *)
LEMMA TotalIsSummed ==
    ASSUME NEW t, NEW f, Len(t) \in Nat
    PROVE  \E g : g = [n \in 0..Len(t) |-> Summed(t, f, g, n)] /\ Total(t, f) = g[Len(t)]
<1> DEFINE sum == CHOOSE g : g = [n \in 0..Len(t) |-> Summed(t, f, g, n)]
<1>1. sum = [n \in 0..Len(t) |-> Summed(t, f, sum, n)]
  BY TotalExists
<1>2. Total(t, f) = sum[Len(t)]
  BY DEF Total, Summed
<1>3. QED
  BY <1>1, <1>2

(* A total of numbers is a number, and a total of zeros is zero.           *)
LEMMA TotalIs ==
    ASSUME NEW S, NEW t \in Seq(S), NEW f \in [S -> Int]
    PROVE  /\ Total(t, f) \in Int
           /\ (\A x \in S : f[x] = 0) => Total(t, f) = 0
<1> DEFINE m == Len(t)
<1>1. m \in Nat /\ \A i \in 1..m : t[i] \in S
  OBVIOUS
<1>2. PICK g : g = [n \in 0..m |-> Summed(t, f, g, n)] /\ Total(t, f) = g[m]
  BY <1>1, TotalIsSummed
<1> HIDE DEF m
<1>3. \A n \in 0..m : g[n] = Summed(t, f, g, n)
  BY <1>2
<1> DEFINE Good(n) == g[n] \in Int /\ ((\A x \in S : f[x] = 0) => g[n] = 0)
           bad == {n \in 0..m : ~Good(n)}
<1>4. CASE bad = {}
  <2>1. m \in 0..m
      BY <1>1
  <2>2. Good(m)
      BY <1>4, <2>1
  <2>3. QED
      BY <1>2, <2>2
<1>5. CASE bad # {}
  <2>1. PICK n \in bad : \A j \in bad : n <= j
    <3>1. bad \subseteq Nat
        BY <1>1
    <3> HIDE DEF bad
    <3>2. QED
        BY <1>5, <3>1, LeastOf
  <2>2. n \in 0..m /\ n \in Nat
      BY <1>1, <2>1
  <2>3. CASE n = 0
      BY <1>3, <2>1, <2>2, <2>3 DEF Summed
  <2>4. CASE n # 0
    <3>1. n - 1 \in 0..m /\ n \in 1..m /\ Good(n - 1)
      <4>1. n - 1 \in 0..m /\ n \in 1..m /\ n - 1 \notin bad
          BY <1>1, <2>1, <2>2, <2>4
      <4>2. QED
          BY <4>1
    <3>2. g[n] = g[n - 1] + f[t[n]] /\ t[n] \in S
        BY <1>1, <1>3, <2>2, <2>4, <3>1 DEF Summed
    <3>3. f[t[n]] \in Int
        BY <3>2
    <3>4. Good(n)
        BY <3>1, <3>2, <3>3
    <3>5. QED
        BY <2>1, <3>4
  <2>5. QED
      BY <2>3, <2>4
<1>6. QED
  BY <1>4, <1>5

(* When the value of one element changes, so does the total of a list that *)
(* has it once.                                                            *)
LEMMA TotalChanges ==
    ASSUME NEW S, NEW t \in Seq(S), Distinct(t), NEW f \in [S -> Int], NEW h \in [S -> Int],
           NEW x \in Items(t), \A y \in S : y # x => h[y] = f[y]
    PROVE  Total(t, h) = Total(t, f) + h[x] - f[x]
<1> DEFINE m == Len(t)
<1>1. m \in Nat /\ DOMAIN t = 1..m /\ \A i \in 1..m : t[i] \in S
  OBVIOUS
<1>2. PICK a : a = [n \in 0..m |-> Summed(t, f, a, n)] /\ Total(t, f) = a[m]
  BY <1>1, TotalIsSummed
<1>3. PICK b : b = [n \in 0..m |-> Summed(t, h, b, n)] /\ Total(t, h) = b[m]
  BY <1>1, TotalIsSummed
<1> HIDE DEF m
<1>4. \A n \in 0..m : a[n] = Summed(t, f, a, n) /\ b[n] = Summed(t, h, b, n)
  BY <1>2, <1>3
<1>5. PICK k \in 1..m : t[k] = x
  BY <1>1 DEF Items
<1>6. \A i \in 1..m : i # k => t[i] # x
  BY <1>1, <1>5 DEF Distinct
<1>7. x \in S /\ f[x] \in Int /\ h[x] \in Int /\ k \in Nat /\ k <= m
  BY <1>1, <1>5
<1> DEFINE more == h[x] - f[x]
           Good(n) == a[n] \in Int /\ b[n] = a[n] + (IF n >= k THEN more ELSE 0)
           bad == {n \in 0..m : ~Good(n)}
<1>8. more \in Int
  BY <1>7
<1>9. CASE bad = {}
  <2>1. m \in 0..m /\ m >= k
      BY <1>1, <1>7
  <2>2. Good(m)
      BY <1>9, <2>1
  <2>3. a[m] \in Int /\ b[m] = a[m] + more
      BY <2>1, <2>2
  <2>4. QED
      BY <1>2, <1>3, <1>7, <2>3
<1>10. CASE bad # {}
  <2>1. PICK n \in bad : \A j \in bad : n <= j
    <3>1. bad \subseteq Nat
        BY <1>1
    <3> HIDE DEF bad
    <3>2. QED
        BY <1>10, <3>1, LeastOf
  <2>2. n \in 0..m /\ n \in Nat
      BY <1>1, <2>1
  <2>3. CASE n = 0
    <3>1. a[n] = 0 /\ b[n] = 0 /\ ~(n >= k)
        BY <1>4, <1>5, <2>2, <2>3 DEF Summed
    <3>2. Good(n)
        BY <3>1
    <3>3. QED
        BY <2>1, <3>2
  <2>4. CASE n # 0
    <3>1. n - 1 \in 0..m /\ n \in 1..m /\ Good(n - 1)
      <4>1. n - 1 \in 0..m /\ n \in 1..m /\ n - 1 \notin bad
          BY <1>1, <2>1, <2>2, <2>4
      <4>2. QED
          BY <4>1
    <3>2. /\ a[n] = a[n - 1] + f[t[n]] /\ b[n] = b[n - 1] + h[t[n]] /\ t[n] \in S
        BY <1>1, <1>4, <2>2, <2>4, <3>1 DEF Summed
    <3>3. f[t[n]] \in Int /\ h[t[n]] \in Int
        BY <3>2
    <3> HIDE DEF more, bad
    <3>4. CASE n = k
      <4>1. ~(n - 1 >= k) /\ n >= k
          BY <1>7, <2>2, <3>4
      <4>2. a[n - 1] \in Int /\ b[n - 1] = a[n - 1] + 0
          BY <3>1, <4>1
      <4>3. b[n] = a[n] + more /\ a[n] \in Int
          BY <1>5, <1>7, <3>2, <3>3, <3>4, <4>2 DEF more
      <4>4. QED
          BY <2>1, <4>1, <4>3 DEF bad
    <3>5. CASE n # k
      <4>1. h[t[n]] = f[t[n]]
          BY <1>6, <3>1, <3>2, <3>5
      <4>2. (n - 1 >= k) <=> (n >= k)
          BY <1>7, <2>2, <3>5
      <4>3. a[n - 1] \in Int /\ b[n - 1] = a[n - 1] + (IF n >= k THEN more ELSE 0)
          BY <3>1, <4>2
      <4>4. a[n] \in Int /\ b[n] = a[n] + (IF n >= k THEN more ELSE 0)
          BY <1>8, <3>2, <3>3, <4>1, <4>3
      <4>5. QED
          BY <2>1, <4>4 DEF bad
    <3>6. QED
        BY <3>4, <3>5
  <2>5. QED
      BY <2>3, <2>4
<1>11. QED
  BY <1>9, <1>10
=============================================================================
