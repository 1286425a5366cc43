-------------------------- MODULE BatchRenameProofs --------------------------
(* Proofs about BatchRename, for any names, any folder, any bounds: the order *)
(* of the steps never puts an item where another still has to leave, a batch  *)
(* that nothing disturbs is carried out, no item is left under a temporary    *)
(* name unreported, and what is recorded for Ctrl+Z is what was renamed.      *)
EXTENDS BatchRename, TLAPS, SequenceTheorems, WellFoundedInduction, FiniteSetTheorems

-----------------------------------------------------------------------------
(* Functions that are defined by recursion on a number.                       *)

\* A set of numbers that is not empty has a least one.
LEMMA Least ==
    ASSUME NEW S \in SUBSET Nat, S # {}
    PROVE  \E n \in S : \A m \in S : n <= m
<1>. DEFINE R == {ss \in Nat \X Nat : ss[1] < ss[2]}
<1>1. IsWellFoundedOn(R, Nat)
  BY NatLessThanWellFounded DEF OpToRel
<1>2. PICK n \in S : \A m \in S : ~(<<m, n>> \in R)
  <2>. HIDE DEF R
  <2>. QED  BY <1>1, WFMin
<1>3. \A m \in S : ~(m < n)
  BY <1>2
<1>. QED  BY <1>3

\* g is what F makes of first, n times over.
Runs(g, first, F, n) == g[0] = first /\ \A m \in 1..n : g[m] = F[m][g[m - 1]]

\* A recursion on the numbers up to N has a solution.
LEMMA Recursion ==
    ASSUME NEW T, NEW first \in T, NEW N \in Nat, NEW F \in [1..N -> [T -> T]]
    PROVE  \E g \in [0..N -> T] : Runs(g, first, F, N)
<1>. DEFINE Bad == {n \in 0..N : ~ \E g \in [0..n -> T] : Runs(g, first, F, n)}
<1>. SUFFICES ASSUME Bad # {} PROVE FALSE
  OBVIOUS
<1>1. PICK n \in Bad : \A m \in Bad : n <= m
  <2>1. Bad \in SUBSET Nat
    OBVIOUS
  <2>. HIDE DEF Bad
  <2>. QED  BY <2>1, Least
<1>2. CASE n = 0
  <2>. DEFINE g == [m \in 0..0 |-> first]
  <2>1. g \in [0..0 -> T] /\ g[0] = first
    OBVIOUS
  <2>2. Runs(g, first, F, 0)
    <3>1. 1..0 = {}
      OBVIOUS
    <3>. QED  BY <2>1, <3>1 DEF Runs
  <2>. HIDE DEF g
  <2>. QED  BY <1>1, <1>2, <2>1, <2>2
<1>3. CASE n # 0
  <2>1. n \in 1..N /\ n - 1 \in 0..N /\ n - 1 \notin Bad
    BY <1>1, <1>3
  <2>2. PICK g \in [0..(n - 1) -> T] : Runs(g, first, F, n - 1)
    BY <2>1
  <2>. DEFINE next == F[n][g[n - 1]]
              h == [m \in 0..n |-> IF m < n THEN g[m] ELSE next]
  <2>3. next \in T
    <3>1. F[n] \in [T -> T] /\ n - 1 \in 0..(n - 1)
      BY <2>1
    <3>. QED  BY <2>2, <3>1
  <2>. HIDE DEF next
  <2>4. h \in [0..n -> T]
    BY <2>1, <2>2, <2>3
  <2>5. h[0] = first
    <3>1. 0 \in 0..n /\ 0 < n
      BY <2>1
    <3>. QED  BY <2>2, <3>1 DEF Runs
  <2>6. ASSUME NEW m \in 1..n PROVE h[m] = F[m][h[m - 1]]
    <3>1. h[m - 1] = g[m - 1] /\ (m = n => h[m] = next) /\ (m # n => m \in 1..(n - 1) /\ h[m] = g[m])
      BY <2>1, <2>6
    <3>. HIDE DEF h
    <3>2. CASE m = n
      BY <3>1, <3>2 DEF next
    <3>3. CASE m # n
      BY <3>1, <3>3, <2>2 DEF Runs
    <3>. QED  BY <3>2, <3>3
  <2>. QED  BY <1>1, <2>4, <2>5, <2>6 DEF Runs
<1>. QED  BY <1>2, <1>3

-----------------------------------------------------------------------------
(* Sequences.                                                                 *)

\* One more place, of one more value, for a sequence that has each value once.
LEMMA OneMore ==
    ASSUME NEW m \in Nat, NEW K, NEW h \in Bijection(1..m, K), NEW n, n \notin K
    PROVE  [i \in 1..(m + 1) |-> IF i = m + 1 THEN n ELSE h[i]] \in Bijection(1..(m + 1), K \cup {n})
<1>. DEFINE j == [i \in 1..(m + 1) |-> IF i = m + 1 THEN n ELSE h[i]]
<1>1. PICK D : D = 1..m
  OBVIOUS
<1>2. PICK E : E = 1..(m + 1)
  OBVIOUS
<1>3. E = D \cup {m + 1} /\ m + 1 \notin D
  BY <1>1, <1>2
<1>4. h \in [D -> K] /\ (\A a, b \in D : h[a] = h[b] => a = b) /\ \A t \in K : \E i \in D : h[i] = t
  BY <1>1 DEF Bijection, Injection, Surjection, IsInjective
<1>5. j = [i \in E |-> IF i = m + 1 THEN n ELSE h[i]]
  BY <1>2
<1>. HIDE DEF j
<1>6. PICK l : l = m + 1
  OBVIOUS
<1>7. E = D \cup {l} /\ l \notin D /\ j[l] = n /\ \A i \in D : j[i] = h[i]
  BY <1>3, <1>5, <1>6
<1>8. \A i \in E : j[i] \in K \cup {n}
  BY <1>4, <1>7
<1>9. j \in [E -> K \cup {n}]
  BY <1>5, <1>6, <1>8
<1>10. \A a, b \in E : j[a] = j[b] => a = b
  BY <1>4, <1>7
<1>11. \A t \in K \cup {n} : \E i \in E : j[i] = t
  BY <1>4, <1>7
<1>12. j \in Bijection(E, K \cup {n})
  BY <1>9, <1>10, <1>11 DEF Bijection, Injection, Surjection, IsInjective
<1>. QED  BY <1>2, <1>12 DEF j

\* Only(s, kept) has the entries of s at the positions kept, each of them once.
LEMMA OnlyIs ==
    ASSUME NEW T, NEW s \in Seq(T), NEW kept
    PROVE  /\ Only(s, kept) \in Seq(T)
           /\ \E h \in Bijection(1..Len(Only(s, kept)), kept \cap DOMAIN s) :
                 \A n \in 1..Len(Only(s, kept)) : Only(s, kept)[n] = s[h[n]]
<1>. DEFINE F == [n \in 1..Len(s) |-> [c \in Seq(T) |-> IF n \in kept THEN Append(c, s[n]) ELSE c]]
            step(g, n) == IF n = 0 THEN << >> ELSE IF n \in kept THEN Append(g[n - 1], s[n]) ELSE g[n - 1]
<1>0. Len(s) \in Nat /\ DOMAIN s = 1..Len(s) /\ \A k \in 1..Len(s) : s[k] \in T
  OBVIOUS
<1>1. << >> \in Seq(T)
  OBVIOUS
<1>2. F \in [1..Len(s) -> [Seq(T) -> Seq(T)]]
  BY <1>0
<1>3. PICK g \in [0..Len(s) -> Seq(T)] : Runs(g, << >>, F, Len(s))
  <2>. HIDE DEF F
  <2>. QED  BY <1>0, <1>1, <1>2, Recursion
<1>4. g = [n \in 0..Len(s) |-> step(g, n)]
  <2>1. ASSUME NEW n \in 0..Len(s) PROVE g[n] = step(g, n)
    <3>1. CASE n = 0
      BY <1>3, <3>1 DEF Runs
    <3>2. CASE n # 0
      <4>1. n \in 1..Len(s) /\ n - 1 \in 0..Len(s)
        BY <1>0, <3>2
      <4>2. g[n - 1] \in Seq(T) /\ g[n] = F[n][g[n - 1]]
        BY <1>3, <4>1 DEF Runs
      <4>3. F[n][g[n - 1]] = IF n \in kept THEN Append(g[n - 1], s[n]) ELSE g[n - 1]
        BY <4>1, <4>2
      <4>. QED  BY <3>2, <4>2, <4>3
    <3>. QED  BY <3>1, <3>2
  <2>. QED  BY <1>3, <2>1
<1>. DEFINE u == CHOOSE f : f = [n \in 0..Len(s) |-> step(f, n)]
<1>5. u = [n \in 0..Len(s) |-> step(u, n)]
  BY <1>4
<1>6. Only(s, kept) = u[Len(s)]
  BY DEF Only
<1>7. \A n \in 0..Len(s) : u[n] = step(u, n)
  <2>. HIDE DEF u
  <2>. QED  BY <1>5
<1>. HIDE DEF u
<1>. DEFINE Taken(c, n) == /\ c \in Seq(T)
                           /\ \E h \in Bijection(1..Len(c), kept \cap (1..n)) : \A m \in 1..Len(c) : c[m] = s[h[m]]
            Bad == {n \in 0..Len(s) : ~ Taken(u[n], n)}
<1>. HIDE DEF Taken
<1>8. Bad = {}
  <2>. SUFFICES ASSUME Bad # {} PROVE FALSE
    OBVIOUS
  <2>1. PICK n \in Bad : \A m \in Bad : n <= m
    <3>1. Bad \in SUBSET Nat
      BY <1>0
    <3>. HIDE DEF Bad
    <3>. QED  BY <3>1, Least
  <2>2. CASE n = 0
    <3>1. u[n] = << >>
      BY <1>7, <2>1, <2>2
    <3>2. << >> \in [{} -> {}] /\ Len(<< >>) = 0 /\ 1..0 = {}
      OBVIOUS
    <3>3. << >> \in Bijection(1..Len(<< >>), kept \cap (1..0))
      BY <3>2 DEF Bijection, Injection, Surjection, IsInjective
    <3>4. \A m \in 1..Len(<< >>) : << >>[m] = s[<< >>[m]]
      BY <3>2
    <3>5. Taken(<< >>, 0)
      BY <1>1, <3>3, <3>4 DEF Taken
    <3>. QED  BY <2>1, <2>2, <3>1, <3>5
  <2>3. CASE n # 0
    <3>1. n \in 1..Len(s) /\ n - 1 \in 0..Len(s) /\ n - 1 \notin Bad
      BY <1>0, <2>1, <2>3
    <3>2. PICK c : c = u[n - 1]
      OBVIOUS
    <3>3. Taken(c, n - 1)
      BY <3>1, <3>2
    <3>4. PICK h \in Bijection(1..Len(c), kept \cap (1..(n - 1))) : \A m \in 1..Len(c) : c[m] = s[h[m]]
      BY <3>3 DEF Taken
    <3>5. u[n] = IF n \in kept THEN Append(c, s[n]) ELSE c
      BY <1>7, <3>1, <3>2
    <3>6. 1..n = (1..(n - 1)) \cup {n} /\ n \notin 1..(n - 1)
      BY <3>1
    <3>7. CASE n \in kept
      <4>. DEFINE d == Append(c, s[n])
                  j == [m \in 1..(Len(c) + 1) |-> IF m = Len(c) + 1 THEN n ELSE h[m]]
      <4>1. /\ d \in Seq(T) /\ Len(d) = Len(c) + 1 /\ Len(c) \in Nat /\ d[Len(c) + 1] = s[n]
            /\ \A m \in 1..Len(c) : d[m] = c[m]
        BY <1>0, <3>1, <3>3 DEF Taken
      <4>2. kept \cap (1..n) = (kept \cap (1..(n - 1))) \cup {n} /\ n \notin kept \cap (1..(n - 1))
        BY <3>6, <3>7
      <4>3. kept \cap (1..n) = (kept \cap (1..(n - 1))) \cup {n}
        BY <4>2
      <4>4. j \in Bijection(1..(Len(c) + 1), kept \cap (1..n))
        <5>1. PICK K : K = kept \cap (1..(n - 1))
          OBVIOUS
        <5>2. h \in Bijection(1..Len(c), K) /\ n \notin K /\ K \cup {n} = kept \cap (1..n)
          BY <3>4, <4>2, <4>3, <5>1
        <5>3. j \in Bijection(1..(Len(c) + 1), K \cup {n})
          BY <4>1, <5>2, OneMore
        <5>. QED  BY <5>2, <5>3
      <4>5. (\A m \in 1..Len(c) : j[m] = h[m]) /\ j[Len(c) + 1] = n
        BY <4>1
      <4>. HIDE DEF j, d
      <4>6. \A m \in 1..(Len(c) + 1) : m = Len(c) + 1 \/ m \in 1..Len(c)
        BY <4>1
      <4>7. \A m \in 1..Len(d) : d[m] = s[j[m]]
        BY <3>4, <4>1, <4>5, <4>6
      <4>8. Taken(d, n)
        BY <4>1, <4>4, <4>7 DEF Taken
      <4>9. u[n] = d
        BY <3>5, <3>7 DEF d
      <4>. QED  BY <2>1, <4>8, <4>9
    <3>8. CASE n \notin kept
      <4>1. kept \cap (1..n) = kept \cap (1..(n - 1))
        BY <3>6, <3>8
      <4>2. Taken(c, n)
        BY <3>3, <4>1 DEF Taken
      <4>3. u[n] = c
        BY <3>5, <3>8
      <4>. QED  BY <2>1, <4>2, <4>3
    <3>. QED  BY <3>7, <3>8
  <2>. QED  BY <2>2, <2>3
<1>9. Taken(u[Len(s)], Len(s))
  BY <1>0, <1>8
<1>. QED  BY <1>0, <1>6, <1>9 DEF Taken

\* The sequence without one of its places, when it has each value once.
LEMMA RemoveAtIs ==
    ASSUME NEW T, NEW s \in Seq(T), NEW i \in DOMAIN s
    PROVE  /\ RemoveAt(s, i) \in Seq(T) /\ Len(RemoveAt(s, i)) = Len(s) - 1
           /\ \A k \in DOMAIN RemoveAt(s, i) :
                 /\ k < i => RemoveAt(s, i)[k] = s[k]
                 /\ ~ (k < i) => k + 1 \in DOMAIN s /\ RemoveAt(s, i)[k] = s[k + 1]
<1>. DEFINE a == SubSeq(s, 1, i - 1)
            b == SubSeq(s, i + 1, Len(s))
<1>1. Len(s) \in Nat /\ i \in 1..Len(s) /\ DOMAIN s = 1..Len(s) /\ \A k \in 1..Len(s) : s[k] \in T
  OBVIOUS
<1>2. a \in Seq(T) /\ Len(a) = i - 1 /\ \A k \in 1..(i - 1) : a[k] = s[k]
  <2>1. 1 \in Int /\ i - 1 \in Int /\ \A k \in 1..(i - 1) : s[k] \in T
    BY <1>1
  <2>2. /\ a \in Seq(T)
        /\ Len(a) = IF 1 <= i - 1 THEN (i - 1) - 1 + 1 ELSE 0
        /\ \A k \in 1..((i - 1) - 1 + 1) : a[k] = s[1 + k - 1]
    BY <2>1, SubSeqProperties
  <2>. HIDE DEF a
  <2>. QED  BY <1>1, <2>2
<1>3. b \in Seq(T) /\ Len(b) = Len(s) - i /\ \A k \in 1..(Len(s) - i) : b[k] = s[i + k]
  <2>1. i + 1 \in Int /\ Len(s) \in Int /\ \A k \in (i + 1)..Len(s) : s[k] \in T
    BY <1>1
  <2>2. /\ b \in Seq(T)
        /\ Len(b) = IF i + 1 <= Len(s) THEN Len(s) - (i + 1) + 1 ELSE 0
        /\ \A k \in 1..(Len(s) - (i + 1) + 1) : b[k] = s[(i + 1) + k - 1]
    BY <2>1, SubSeqProperties
  <2>. HIDE DEF b
  <2>3. Len(b) = Len(s) - i
    BY <1>1, <2>2
  <2>4. \A k \in 1..(Len(s) - i) : k \in 1..(Len(s) - (i + 1) + 1) /\ (i + 1) + k - 1 = i + k
    BY <1>1
  <2>. QED  BY <2>2, <2>3, <2>4
<1>4. RemoveAt(s, i) = a \o b
  BY DEF RemoveAt
<1>. HIDE DEF a, b
<1>5. PICK r : r = a \o b
  OBVIOUS
<1>6. r \in Seq(T) /\ Len(r) = Len(a) + Len(b) /\ DOMAIN r = 1..Len(r)
  <2>1. \A q : q \in Seq(T) => DOMAIN q = 1..Len(q)
    OBVIOUS
  <2>. QED  BY <1>2, <1>3, <1>5, <2>1, ConcatProperties
<1>7. \A k \in 1..Len(a) : r[k] = a[k]
  BY <1>2, <1>3, <1>5
<1>8. \A k \in 1..Len(b) : r[k + Len(a)] = b[k]
  BY SMTT(60), <1>2, <1>3, <1>5
<1>9. ASSUME NEW k \in DOMAIN r PROVE /\ k < i => r[k] = s[k]
                                      /\ ~ (k < i) => k + 1 \in DOMAIN s /\ r[k] = s[k + 1]
  <2>1. CASE k < i
    <3>1. k \in 1..Len(a) /\ k \in 1..(i - 1)
      BY <1>1, <1>2, <1>6, <2>1
    <3>. QED  BY <1>2, <1>7, <2>1, <3>1
  <2>2. CASE ~ (k < i)
    <3>1. PICK l \in 1..Len(b) : l = k - Len(a)
      BY SMTT(60), <1>1, <1>2, <1>3, <1>6, <2>2
    <3>2. Len(a) = i - 1 /\ Len(b) = Len(s) - i /\ k \in 1..Len(r) /\ Len(r) = Len(s) - 1
      BY <1>1, <1>2, <1>3, <1>6
    <3>3. l + Len(a) = k /\ i + l = k + 1 /\ l \in 1..(Len(s) - i)
      BY <1>1, <2>2, <3>1, <3>2
    <3>4. k + 1 \in DOMAIN s
      BY <1>1, <3>2
    <3>. QED  BY <1>3, <1>8, <2>2, <3>1, <3>3, <3>4
  <2>. QED  BY <2>1, <2>2
<1>. QED  BY <1>1, <1>2, <1>3, <1>4, <1>5, <1>6, <1>9

\* What a sequence with one more entry has.
LEMMA AppendIs ==
    ASSUME NEW T, NEW s \in Seq(T), NEW x \in T
    PROVE  /\ Append(s, x) \in Seq(T) /\ Len(Append(s, x)) = Len(s) + 1
           /\ DOMAIN Append(s, x) = DOMAIN s \cup {Len(s) + 1} /\ Len(s) + 1 \notin DOMAIN s
           /\ Append(s, x)[Len(s) + 1] = x /\ \A k \in DOMAIN s : Append(s, x)[k] = s[k]
           /\ Range(Append(s, x)) = Range(s) \cup {x}
<1>1. /\ Append(s, x) \in Seq(T) /\ Len(Append(s, x)) = Len(s) + 1 /\ Len(s) \in Nat
      /\ DOMAIN s = 1..Len(s) /\ DOMAIN Append(s, x) = 1..(Len(s) + 1)
  OBVIOUS
<1>2. Append(s, x)[Len(s) + 1] = x /\ \A k \in DOMAIN s : Append(s, x)[k] = s[k]
  OBVIOUS
<1>3. DOMAIN Append(s, x) = DOMAIN s \cup {Len(s) + 1} /\ Len(s) + 1 \notin DOMAIN s
  BY <1>1
<1>4. PICK r : r = Append(s, x)
  OBVIOUS
<1>5. Range(r) = Range(s) \cup {x}
  BY <1>2, <1>3, <1>4 DEF Range
<1>. QED  BY <1>1, <1>2, <1>3, <1>4, <1>5

\* What the tail of a sequence has.
LEMMA TailIs ==
    ASSUME NEW T, NEW s \in Seq(T), s # << >>
    PROVE  /\ Tail(s) \in Seq(T) /\ Len(Tail(s)) = Len(s) - 1 /\ Len(s) \in Nat \ {0}
           /\ DOMAIN s = 1..Len(s) /\ DOMAIN Tail(s) = 1..(Len(s) - 1) /\ 1 \in DOMAIN s
           /\ \A k \in DOMAIN Tail(s) : k + 1 \in DOMAIN s /\ Tail(s)[k] = s[k + 1]
<1>1. /\ Tail(s) \in Seq(T) /\ Len(Tail(s)) = Len(s) - 1 /\ Len(s) \in Nat \ {0} /\ DOMAIN s = 1..Len(s)
      /\ DOMAIN Tail(s) = 1..Len(Tail(s))
  OBVIOUS
<1>2. \A k \in 1..Len(Tail(s)) : Tail(s)[k] = s[k + 1]
  OBVIOUS
<1>3. PICK r : r = Tail(s)
  OBVIOUS
<1>. QED  BY <1>1, <1>2, <1>3

\* A sequence that has each value once has each of its other values without one place.
LEMMA RemoveAtOnce ==
    ASSUME NEW T, NEW s \in Seq(T), NEW i \in DOMAIN s, IsInjective(s)
    PROVE  IsInjective(RemoveAt(s, i)) /\ Range(RemoveAt(s, i)) = Range(s) \ {s[i]}
<1>1. PICK r : r = RemoveAt(s, i)
  OBVIOUS
<1>2. /\ r \in Seq(T) /\ Len(r) = Len(s) - 1 /\ Len(s) \in Nat /\ DOMAIN s = 1..Len(s) /\ DOMAIN r = 1..Len(r)
      /\ \A k \in DOMAIN r : /\ k < i => r[k] = s[k]
                             /\ ~ (k < i) => k + 1 \in DOMAIN s /\ r[k] = s[k + 1]
  <2>1. \A q : q \in Seq(T) => Len(q) \in Nat /\ DOMAIN q = 1..Len(q)
    OBVIOUS
  <2>. QED  BY <1>1, <2>1, RemoveAtIs
<1>. DEFINE h == [k \in DOMAIN r |-> IF k < i THEN k ELSE k + 1]
<1>3. \A k \in DOMAIN r : h[k] \in DOMAIN s \ {i} /\ r[k] = s[h[k]]
  BY <1>2
<1>4. \A k, l \in DOMAIN r : h[k] = h[l] => k = l
  BY <1>2
<1>5. \A k \in DOMAIN s \ {i} : \E l \in DOMAIN r : h[l] = k
  <2>. TAKE k \in DOMAIN s \ {i}
  <2>1. CASE k < i
    <3>1. k \in DOMAIN r
      BY <1>2, <2>1
    <3>. QED  BY <2>1, <3>1
  <2>2. CASE ~ (k < i)
    <3>1. k - 1 \in DOMAIN r /\ ~ (k - 1 < i) /\ (k - 1) + 1 = k
      BY <1>2, <2>2
    <3>2. h[k - 1] = (k - 1) + 1
      BY <3>1
    <3>. QED  BY <3>1, <3>2
  <2>. QED  BY <2>1, <2>2
<1>. HIDE DEF h
<1>6. \A k, l \in DOMAIN s : s[k] = s[l] => k = l
  BY DEF IsInjective
<1>7. IsInjective(r)
  BY <1>3, <1>4, <1>6 DEF IsInjective
<1>8. Range(r) = Range(s) \ {s[i]}
  <2>1. \A x \in Range(r) : x \in Range(s) \ {s[i]}
    BY <1>3, <1>6 DEF Range
  <2>2. \A x \in Range(s) \ {s[i]} : x \in Range(r)
    BY <1>3, <1>5 DEF Range
  <2>. QED  BY <2>1, <2>2
<1>. QED  BY <1>1, <1>7, <1>8

-----------------------------------------------------------------------------
(* The plan.                                                                  *)

AnyName(e) == e \cup Names \cup {Invalid} \cup Range(TempNames)
PlanItems(e) == [old : e, new : Names \cup {Invalid},
                 status : {"Ok", "CaseOnly", "Unchanged", "Invalid", "Duplicate", "Clash"}]

\* A plan for a folder with the names e: an item is in the batch once; what is
\* renamed gets another name than every other item of the batch will have.
PlanFor(e, p) ==
    /\ p \in Seq(PlanItems(e)) /\ Len(p) <= MaxBatch
    /\ \A i, j \in DOMAIN p : p[i].old = p[j].old => i = j
    /\ \A i \in Renames(p) :
          /\ p[i].new # p[i].old /\ p[i].new # Invalid
          /\ p[i].status = "CaseOnly" <=> SameName(p[i].new, p[i].old)

\* The plan has no problem: what is not renamed keeps its name, a new name is
\* no other item's new name, and is the name of no item outside the batch.
SoundPlan(e, p) ==
    /\ PlanFor(e, p)
    /\ \A i \in DOMAIN p : i \notin Renames(p) => p[i].new = p[i].old
    /\ \A i \in Renames(p) : \A j \in DOMAIN p :
          j # i => ~ SameName(p[i].new, p[j].new)
    /\ \A i \in Renames(p) : \A n \in e :
          p[i].status = "Ok" /\ SameName(n, p[i].new) => \E j \in DOMAIN p : SameName(p[j].old, p[i].new)

Batch(p) == {p[i].old : i \in Renames(p)}
IsItem(p, old, new) == \E i \in Renames(p) : p[i].old = old /\ p[i].new = new

-----------------------------------------------------------------------------
(* The steps.                                                                 *)

StepSet(e) == [from : AnyName(e), to : AnyName(e), original : AnyName(e), toTemp : BOOLEAN,
               fromTemp : BOOLEAN]

\* A temporary name: neither a name of the folder nor a new name.
Fresh(e, p, t) ==
    /\ \A n \in e : ~ SameName(n, t)
    /\ \A i \in Renames(p) : ~ SameName(p[i].new, t)

\* A step takes an item of the batch, from its name or from a temporary one, to
\* its new name or to a temporary one.
StepOK(e, p, s) ==
    /\ s.original \in Batch(p)
    /\ \A n \in e \ {s.original} : ~ SameName(n, s.from)
    /\ ~ s.fromTemp => s.from = s.original
    /\ s.toTemp => ~ s.fromTemp /\ Fresh(e, p, s.to)
    /\ ~ s.toTemp => IsItem(p, s.original, s.to)

\* Of two steps, the earlier a never puts its item where b still has to take
\* another one from, or to; a second step for an item goes on from the first.
Follow(a, b) ==
    /\ ~ SameName(a.to, b.to)
    /\ a.original # b.original => ~ SameName(a.to, b.from)
    /\ a.original = b.original => a.toTemp /\ ~ b.toTemp /\ b.fromTemp /\ b.from = a.to

\* Whatever has the name that the step k of g gives has moved before, and so
\* has the item when the step takes it from a temporary name.
Prepared(p, g, k) ==
    /\ ~ g[k].toTemp =>
          \A y \in Batch(p) \ {g[k].original} :
              SameName(y, g[k].to) => \E j \in DOMAIN g : j < k /\ g[j].original = y
    /\ g[k].fromTemp => \E j \in DOMAIN g : j < k /\ g[j].original = g[k].original

StepsOK(e, p, g) ==
    /\ g \in Seq(StepSet(e))
    /\ \A k \in DOMAIN g : StepOK(e, p, g[k])
    /\ \A j, k \in DOMAIN g : j < k => Follow(g[j], g[k])

\* The order of the steps does what the plan says: every item of the batch gets
\* its new name in the end.
OrderFor(e, p, g) ==
    /\ StepsOK(e, p, g)
    /\ \A k \in DOMAIN g : Prepared(p, g, k)
    /\ \A x \in Batch(p) : \E k \in DOMAIN g : g[k].original = x /\ ~ g[k].toTemp
    /\ ~ Tangled(p) => \A k \in DOMAIN g : ~ g[k].toTemp

-----------------------------------------------------------------------------
(* The order so far.                                                          *)

PendingSet(e) == [current : AnyName(e), target : AnyName(e), original : AnyName(e), atTemp : BOOLEAN]
OrderSet(e) == [pending : Seq(PendingSet(e)), at : Nat, temps : Seq(AnyName(e)), given : Seq(StepSet(e))]

Held(o) == Range(o.pending)
Given(o) == Range(o.given)
Unparked(o) == {a.original : a \in {b \in Held(o) : ~ b.atTemp}}

\* An item is pending once, at its first name or at the temporary name that its
\* step has given it.
PendingOK(e, p, o) ==
    /\ IsInjective(o.pending) /\ \A a, b \in Held(o) : a.original = b.original => a = b
    /\ \A a \in Held(o) :
          /\ IsItem(p, a.original, a.target)
          /\ ~ a.atTemp => a.current = a.original
          /\ a.atTemp => Fresh(e, p, a.current) /\ \E g \in Given(o) : g.original = a.original
\* No step given out puts an item where a pending one is.
Clear(o) ==
    \A g \in Given(o) : \A a \in Held(o) :
        /\ g.original = a.original => a.atTemp /\ g.toTemp /\ g.to = a.current
        /\ g.original # a.original => ~ SameName(g.to, a.current)
\* The temporary names left are free, and enough.
TempsOK(e, p, o) ==
    /\ \A k \in DOMAIN o.temps :
          Fresh(e, p, o.temps[k]) /\ \A g \in Given(o) : ~ SameName(g.to, o.temps[k])
    /\ \A k, l \in DOMAIN o.temps : SameName(o.temps[k], o.temps[l]) => k = l
    /\ Cardinality(Unparked(o)) <= Len(o.temps)
GivenOK(e, p, o) ==
    /\ StepsOK(e, p, o.given)
    /\ \A k \in DOMAIN o.given : Prepared(p, o.given, k)
\* No item is lost.
AllThere(p, o) ==
    \A x \in Batch(p) : \/ \E a \in Held(o) : a.original = x
                        \/ \E g \in Given(o) : g.original = x /\ ~ g.toTemp
Straight(p, o) ==
    ~ Tangled(p) => (\A a \in Held(o) : ~ a.atTemp) /\ \A g \in Given(o) : ~ g.toTemp

Orders(e, p) ==
    {o \in OrderSet(e) : PendingOK(e, p, o) /\ Clear(o) /\ TempsOK(e, p, o) /\ GivenOK(e, p, o)
                         /\ AllThere(p, o) /\ Straight(p, o)}

\* An item of a sound plan has one new name, which no other item has.
LEMMA ItemIs ==
    ASSUME NEW e, NEW p, SoundPlan(e, p)
    PROVE  /\ Batch(p) \subseteq e
           /\ \A x, y : IsItem(p, x, y) => x \in Batch(p) /\ y \in AnyName(e)
           /\ \A x1, y1, x2, y2 : IsItem(p, x1, y1) /\ IsItem(p, x2, y2) =>
                 IF x1 = x2 THEN y1 = y2 ELSE ~ SameName(y1, y2)
           /\ \A t, x, y : Fresh(e, p, t) /\ IsItem(p, x, y) => ~ SameName(y, t) /\ ~ SameName(x, t)
<1>1. /\ \A i \in DOMAIN p : p[i].old \in e /\ p[i].new \in Names \cup {Invalid}
      /\ Renames(p) \subseteq DOMAIN p
  <2>1. p \in Seq(PlanItems(e))
    BY DEF SoundPlan, PlanFor
  <2>2. \A i \in DOMAIN p : p[i] \in PlanItems(e)
    BY <2>1
  <2>. QED  BY <2>2 DEF PlanItems, Renames
<1>2. Batch(p) \subseteq e
  BY <1>1 DEF Batch
<1>3. \A x, y : IsItem(p, x, y) => x \in Batch(p) /\ y \in AnyName(e)
  BY <1>1 DEF IsItem, Batch, AnyName
<1>4. ASSUME NEW x1, NEW y1, NEW x2, NEW y2, IsItem(p, x1, y1), IsItem(p, x2, y2)
      PROVE  IF x1 = x2 THEN y1 = y2 ELSE ~ SameName(y1, y2)
  <2>1. PICK i \in Renames(p) : p[i].old = x1 /\ p[i].new = y1
    BY <1>4 DEF IsItem
  <2>2. PICK j \in Renames(p) : p[j].old = x2 /\ p[j].new = y2
    BY <1>4 DEF IsItem
  <2>3. i \in DOMAIN p /\ j \in DOMAIN p
    BY <1>1
  <2>4. x1 = x2 => i = j
    BY <2>1, <2>2, <2>3 DEF SoundPlan, PlanFor
  <2>5. i # j => ~ SameName(p[i].new, p[j].new)
    BY <2>3 DEF SoundPlan
  <2>. QED  BY <2>1, <2>2, <2>4, <2>5
<1>5. \A t, x, y : Fresh(e, p, t) /\ IsItem(p, x, y) => ~ SameName(y, t) /\ ~ SameName(x, t)
  BY <1>2, <1>3 DEF Fresh, IsItem
<1>. QED  BY <1>2, <1>3, <1>4, <1>5

\* The steps so far, and one that may come after each of them.
LEMMA StepAfter ==
    ASSUME NEW e, NEW p, NEW g, NEW q \in StepSet(e), StepsOK(e, p, g), \A k \in DOMAIN g : Prepared(p, g, k),
           StepOK(e, p, q), \A k \in DOMAIN g : Follow(g[k], q),
           ~ q.toTemp => \A y \in Batch(p) \ {q.original} :
                             SameName(y, q.to) => \E j \in DOMAIN g : g[j].original = y,
           q.fromTemp => \E j \in DOMAIN g : g[j].original = q.original
    PROVE  /\ StepsOK(e, p, Append(g, q))
           /\ \A k \in DOMAIN Append(g, q) : Prepared(p, Append(g, q), k)
<1>1. PICK h : h = Append(g, q)
  OBVIOUS
<1>2. PICK l : l = Len(g) + 1
  OBVIOUS
<1>3. g \in Seq(StepSet(e)) /\ h \in Seq(StepSet(e))
  BY <1>1, AppendIs DEF StepsOK
<1>4. DOMAIN h = DOMAIN g \cup {l} /\ l \notin DOMAIN g /\ h[l] = q /\ \A k \in DOMAIN g : h[k] = g[k]
  BY <1>1, <1>2, <1>3, AppendIs
<1>5. \A k \in DOMAIN g : k < l /\ ~ (l < k)
  <2>1. Len(g) \in Nat /\ DOMAIN g = 1..Len(g)
    BY <1>3
  <2>. QED  BY <1>2, <2>1
<1>6. ~ (l < l)
  <2>1. Len(g) \in Nat
    BY <1>3
  <2>. QED  BY <1>2, <2>1
<1>7. StepsOK(e, p, h)
  BY <1>3, <1>4, <1>5, <1>6, Zenon DEF StepsOK
<1>8. ASSUME NEW k \in DOMAIN h PROVE Prepared(p, h, k)
  <2>1. CASE k \in DOMAIN g
    <3>1. Prepared(p, g, k) /\ h[k] = g[k]
      BY <1>4, <2>1
    <3>2. \A j \in DOMAIN g : j \in DOMAIN h /\ h[j] = g[j]
      BY <1>4
    <3>. QED  BY <3>1, <3>2 DEF Prepared
  <2>2. CASE k = l
    <3>1. h[k] = q
      BY <1>4, <2>2
    <3>2. \A j \in DOMAIN g : j \in DOMAIN h /\ h[j] = g[j] /\ j < k
      BY <1>4, <1>5, <2>2
    <3>3. ~ h[k].toTemp =>
             \A y \in Batch(p) \ {h[k].original} :
                 SameName(y, h[k].to) => \E j \in DOMAIN h : j < k /\ h[j].original = y
      <4>. HAVE ~ h[k].toTemp
      <4>1. \A y \in Batch(p) \ {q.original} : SameName(y, q.to) => \E j \in DOMAIN g : g[j].original = y
        BY <3>1
      <4>. QED  BY <3>1, <3>2, <4>1
    <3>4. h[k].fromTemp => \E j \in DOMAIN h : j < k /\ h[j].original = h[k].original
      <4>. HAVE h[k].fromTemp
      <4>1. \E j \in DOMAIN g : g[j].original = q.original
        BY <3>1
      <4>. QED  BY <3>1, <3>2, <4>1
    <3>. QED  BY <3>3, <3>4 DEF Prepared
  <2>. QED  BY <1>4, <2>1, <2>2
<1>. QED  BY <1>1, <1>7, <1>8

\* What an order so far is made of.
LEMMA OrderIs ==
    ASSUME NEW e, NEW p, NEW o \in Orders(e, p)
    PROVE  /\ o.pending \in Seq(PendingSet(e)) /\ o.at \in Nat /\ o.temps \in Seq(AnyName(e))
           /\ o.given \in Seq(StepSet(e))
           /\ PendingOK(e, p, o) /\ Clear(o) /\ TempsOK(e, p, o) /\ GivenOK(e, p, o)
           /\ AllThere(p, o) /\ Straight(p, o)
           /\ \A a \in Held(o) : a \in PendingSet(e)
           /\ \A k \in DOMAIN o.pending : o.pending[k] \in Held(o)
           /\ \A k \in DOMAIN o.given : o.given[k] \in Given(o)
<1>1. o.pending \in Seq(PendingSet(e)) /\ o.at \in Nat /\ o.temps \in Seq(AnyName(e)) /\ o.given \in Seq(StepSet(e))
  BY DEF Orders, OrderSet
<1>2. \A k \in DOMAIN o.pending : o.pending[k] \in PendingSet(e)
  BY <1>1
<1>3. \A a \in Held(o) : a \in PendingSet(e)
  BY <1>2 DEF Held, Range
<1>. QED  BY <1>1, <1>3 DEF Orders, Held, Given, Range

\* The items that are not parked are some of the batch.
LEMMA UnparkedIs ==
    ASSUME NEW e, NEW p, SoundPlan(e, p), NEW o \in Orders(e, p)
    PROVE  /\ IsFiniteSet(Unparked(o)) /\ Cardinality(Unparked(o)) \in Nat
           /\ Unparked(o) \subseteq Batch(p)
<1>1. Unparked(o) \subseteq Batch(p)
  BY OrderIs, ItemIs DEF Unparked, PendingOK
<1>2. IsFiniteSet(DOMAIN p) /\ Renames(p) \subseteq DOMAIN p
  <2>1. p \in Seq(PlanItems(e))
    BY DEF SoundPlan, PlanFor
  <2>2. Len(p) \in Nat /\ DOMAIN p = 1..Len(p)
    BY <2>1
  <2>. QED  BY <2>2, FS_Interval DEF Renames
<1>3. IsFiniteSet(Renames(p))
  BY <1>2, FS_Subset
<1>4. IsFiniteSet(Batch(p))
  <2>. DEFINE f == [i \in Renames(p) |-> p[i].old]
  <2>1. f \in Surjection(Renames(p), Batch(p))
    BY DEF Batch, Surjection
  <2>. QED  BY <1>3, <2>1, FS_Surjection
<1>. QED  BY <1>1, <1>4, FS_Subset, FS_CardinalityType

\* What is not blocked may go: no other pending item has its new name.
LEMMA MayGo ==
    ASSUME NEW e, NEW p, SoundPlan(e, p), \A m, n \in e : SameName(m, n) => m = n,
           NEW o \in Orders(e, p), NEW i \in Unblocked(o), NEW b \in Held(o), b # o.pending[i]
    PROVE  ~ SameName(o.pending[i].target, b.current)
<1>1. PICK a \in Held(o) : a = o.pending[i]
  BY OrderIs DEF Unblocked
<1>2. /\ IsItem(p, a.original, a.target) /\ IsItem(p, b.original, b.target)
      /\ ~ a.atTemp => a.current = a.original
      /\ a.atTemp => Fresh(e, p, a.current)
      /\ ~ b.atTemp => b.current = b.original
      /\ b.atTemp => Fresh(e, p, b.current)
      /\ a.original # b.original
  BY <1>1, OrderIs DEF PendingOK
<1>3. a.original \in e /\ b.original \in e
  BY <1>2, ItemIs
<1>4. CASE SameName(a.target, a.current)
  <2>1. ~ a.atTemp
    BY <1>2, <1>4, ItemIs
  <2>2. SameName(a.original, b.current) => FALSE
    <3>1. CASE b.atTemp
      BY <1>2, <1>3, <3>1 DEF Fresh
    <3>2. CASE ~ b.atTemp
      BY <1>2, <1>3, <3>2
    <3>. QED  BY <3>1, <3>2
  <2>. QED  BY <1>1, <1>2, <1>4, <2>1, <2>2 DEF SameName
<1>5. CASE ~ SameName(a.target, a.current)
  <2>1. PICK j \in DOMAIN o.pending : o.pending[j] = b
    BY DEF Held, Range
  <2>2. j # i /\ i \in DOMAIN o.pending /\ ~ Blocked(o.pending, i)
    BY <2>1 DEF Unblocked
  <2>3. ~ SameName(b.current, a.target)
    BY <1>1, <1>5, <2>1, <2>2 DEF Blocked
  <2>. QED  BY <1>1, <2>3 DEF SameName
<1>. QED  BY <1>4, <1>5

\* An item that is not blocked is given out, and what is given out and what is
\* pending stay as they must be.
LEMMA GiveOutKeeps ==
    ASSUME NEW e, NEW p, SoundPlan(e, p), \A m, n \in e : SameName(m, n) => m = n,
           NEW o \in Orders(e, p), NEW i \in Unblocked(o)
    PROVE  /\ GiveOut(o, i) \in Orders(e, p)
           /\ Len(GiveOut(o, i).pending) = Len(o.pending) - 1
           /\ Unparked(GiveOut(o, i)) \subseteq Unparked(o)
<1>. DEFINE n == GiveOut(o, i)
<1>1. PICK a \in Held(o) : a = o.pending[i]
  BY OrderIs DEF Unblocked
<1>2. PICK q : q = Step(a)
  OBVIOUS
<1>3. i \in DOMAIN o.pending /\ i \in Nat
  <2>1. o.pending \in Seq(PendingSet(e))
    BY OrderIs
  <2>. QED  BY <2>1 DEF Unblocked
<1>4. /\ n.pending = RemoveAt(o.pending, i) /\ n.at = i /\ n.temps = o.temps /\ n.given = Append(o.given, q)
      /\ n = [pending |-> n.pending, at |-> n.at, temps |-> n.temps, given |-> n.given]
  BY <1>1, <1>2 DEF GiveOut
<1>. HIDE DEF n
<1>5. a \in PendingSet(e)
  BY OrderIs
<1>6. /\ q \in StepSet(e) /\ q.from = a.current /\ q.to = a.target /\ q.original = a.original
      /\ ~ q.toTemp /\ (q.fromTemp <=> a.atTemp)
  BY <1>2, <1>5 DEF Step, PendingSet, StepSet
<1>7. IsInjective(n.pending) /\ Held(n) = Held(o) \ {a}
  <2>1. IsInjective(o.pending) /\ o.pending \in Seq(PendingSet(e))
    BY OrderIs DEF PendingOK
  <2>. QED  BY <1>1, <1>3, <1>4, <2>1, RemoveAtOnce DEF Held
<1>8. Given(n) = Given(o) \cup {q}
  BY <1>4, <1>6, OrderIs, AppendIs DEF Given
<1>9. n \in OrderSet(e)
  <2>1. RemoveAt(o.pending, i) \in Seq(PendingSet(e))
    BY <1>3, OrderIs, RemoveAtIs
  <2>2. Append(o.given, q) \in Seq(StepSet(e))
    BY <1>6, OrderIs, AppendIs
  <2>3. n.pending \in Seq(PendingSet(e)) /\ n.at \in Nat /\ n.temps \in Seq(AnyName(e)) /\ n.given \in Seq(StepSet(e))
    BY <1>3, <1>4, <2>1, <2>2, OrderIs
  <2>. QED  BY <1>4, <2>3 DEF OrderSet
<1>10. /\ IsItem(p, a.original, a.target)
       /\ ~ a.atTemp => a.current = a.original
       /\ a.atTemp => Fresh(e, p, a.current) /\ \E g \in Given(o) : g.original = a.original
  BY OrderIs DEF PendingOK
<1>11. \A b \in Held(n) : b \in Held(o) /\ b # a /\ b.original # a.original /\ ~ SameName(q.to, b.current)
  <2>. TAKE b \in Held(n)
  <2>1. b \in Held(o) /\ b # a
    BY <1>7
  <2>2. b.original # a.original
    BY <2>1, OrderIs DEF PendingOK
  <2>3. ~ SameName(a.target, b.current)
    BY <1>1, <2>1, MayGo
  <2>. QED  BY <1>6, <2>1, <2>2, <2>3
<1>12. PendingOK(e, p, n)
  <2>1. \A b \in Held(n) : /\ IsItem(p, b.original, b.target)
                           /\ ~ b.atTemp => b.current = b.original
                           /\ b.atTemp => Fresh(e, p, b.current) /\ \E g \in Given(n) : g.original = b.original
    BY <1>8, <1>11, OrderIs DEF PendingOK
  <2>2. \A b, c \in Held(n) : b.original = c.original => b = c
    BY <1>11, OrderIs DEF PendingOK
  <2>. QED  BY <1>7, <2>1, <2>2 DEF PendingOK
<1>13. Clear(n)
  <2>. SUFFICES ASSUME NEW g \in Given(n), NEW b \in Held(n)
                PROVE  /\ g.original = b.original => b.atTemp /\ g.toTemp /\ g.to = b.current
                       /\ g.original # b.original => ~ SameName(g.to, b.current)
    BY DEF Clear
  <2>1. CASE g \in Given(o)
    BY <1>11, <2>1, OrderIs DEF Clear
  <2>2. CASE g = q
    BY <1>6, <1>11, <2>2
  <2>. QED  BY <1>8, <2>1, <2>2
<1>14. Unparked(n) \subseteq Unparked(o)
  BY <1>7 DEF Unparked
<1>15. TempsOK(e, p, n)
  <2>1. TempsOK(e, p, o)
    BY OrderIs
  <2>2. \A k \in DOMAIN o.temps : ~ SameName(q.to, o.temps[k])
    BY <1>6, <1>10, <2>1, ItemIs DEF TempsOK
  <2>3. Cardinality(Unparked(n)) <= Len(o.temps)
    <3>1. Cardinality(Unparked(n)) <= Cardinality(Unparked(o)) /\ Cardinality(Unparked(n)) \in Nat
      BY <1>14, UnparkedIs, FS_Subset, FS_CardinalityType
    <3>2. Cardinality(Unparked(o)) <= Len(o.temps) /\ Len(o.temps) \in Nat /\ Cardinality(Unparked(o)) \in Nat
      <4>1. o.temps \in Seq(AnyName(e))
        BY OrderIs
      <4>. QED  BY <2>1, <4>1, UnparkedIs DEF TempsOK
    <3>. QED  BY <3>1, <3>2
  <2>. QED  BY <1>4, <1>8, <2>1, <2>2, <2>3 DEF TempsOK
<1>16. \A g \in Given(o) : Follow(g, q)
  <2>. TAKE g \in Given(o)
  <2>1. /\ g.original = a.original => a.atTemp /\ g.toTemp /\ g.to = a.current
        /\ g.original # a.original => ~ SameName(g.to, a.current)
    BY OrderIs DEF Clear
  <2>2. StepOK(e, p, g)
    <3>1. StepsOK(e, p, o.given)
      BY OrderIs DEF GivenOK
    <3>. QED  BY <3>1 DEF StepsOK, Given, Range
  <2>3. ~ SameName(g.to, q.to)
    <3>1. CASE g.toTemp
      <4>1. Fresh(e, p, g.to)
        BY <2>2, <3>1 DEF StepOK
      <4>2. ~ SameName(a.target, g.to)
        BY <1>10, <4>1, ItemIs
      <4>. QED  BY <1>6, <4>2 DEF SameName
    <3>2. CASE ~ g.toTemp
      <4>1. IsItem(p, g.original, g.to) /\ g.original # a.original
        BY <2>1, <2>2, <3>2 DEF StepOK
      <4>. QED  BY <1>6, <1>10, <4>1, ItemIs
    <3>. QED  BY <3>1, <3>2
  <2>. QED  BY <1>6, <2>1, <2>3 DEF Follow
<1>17. StepOK(e, p, q)
  <2>1. a.original \in Batch(p) /\ a.original \in e
    BY <1>10, ItemIs
  <2>2. \A m \in e \ {a.original} : ~ SameName(m, a.current)
    BY <1>10, <2>1 DEF Fresh
  <2>. QED  BY <1>6, <1>10, <2>1, <2>2 DEF StepOK
<1>18. \A y \in Batch(p) \ {q.original} : SameName(y, q.to) => \E g \in Given(o) : g.original = y
  <2>. SUFFICES ASSUME NEW y \in Batch(p) \ {q.original}, SameName(y, q.to), ~ \E g \in Given(o) : g.original = y
                PROVE  FALSE
    OBVIOUS
  <2>1. PICK b \in Held(o) : b.original = y
    BY OrderIs DEF AllThere
  <2>2. b # a /\ ~ b.atTemp /\ b.current = y
    BY <1>6, <2>1, OrderIs DEF PendingOK
  <2>3. b \in Held(n)
    BY <1>7, <2>2
  <2>. QED  BY <1>11, <2>2, <2>3 DEF SameName
<1>19. GivenOK(e, p, n)
  <2>1. StepsOK(e, p, o.given) /\ \A k \in DOMAIN o.given : Prepared(p, o.given, k)
    BY OrderIs DEF GivenOK
  <2>2. \A g \in Given(o) : \E k \in DOMAIN o.given : o.given[k] = g
    BY DEF Given, Range
  <2>3. \A k \in DOMAIN o.given : Follow(o.given[k], q)
    BY <1>16, OrderIs
  <2>4. \A y \in Batch(p) \ {q.original} : SameName(y, q.to) => \E k \in DOMAIN o.given : o.given[k].original = y
    BY <1>18, <2>2
  <2>5. q.fromTemp => \E k \in DOMAIN o.given : o.given[k].original = q.original
    BY <1>6, <1>10, <2>2
  <2>6. /\ StepsOK(e, p, Append(o.given, q))
        /\ \A k \in DOMAIN Append(o.given, q) : Prepared(p, Append(o.given, q), k)
    BY <1>6, <1>17, <2>1, <2>3, <2>4, <2>5, StepAfter
  <2>. QED  BY <1>4, <2>6 DEF GivenOK
<1>20. AllThere(p, n)
  <2>. SUFFICES ASSUME NEW x \in Batch(p)
                PROVE  \/ \E b \in Held(n) : b.original = x
                       \/ \E g \in Given(n) : g.original = x /\ ~ g.toTemp
    BY DEF AllThere
  <2>1. CASE x = a.original
    BY <1>6, <1>8, <2>1
  <2>2. CASE x # a.original
    BY <1>7, <1>8, <2>2, OrderIs DEF AllThere
  <2>. QED  BY <2>1, <2>2
<1>21. Straight(p, n)
  BY <1>6, <1>7, <1>8, OrderIs DEF Straight
<1>22. Len(n.pending) = Len(o.pending) - 1
  BY <1>3, <1>4, OrderIs, RemoveAtIs
<1>. QED  BY <1>9, <1>12, <1>13, <1>14, <1>15, <1>19, <1>20, <1>21, <1>22 DEF Orders, n

\* When every item is blocked, none is at a temporary name: each of them waits
\* for another one, no two for the same, so each of them is waited for.
LEMMA AllBlocked ==
    ASSUME NEW e, NEW p, SoundPlan(e, p), NEW o \in Orders(e, p), Unblocked(o) = {}
    PROVE  \A a \in Held(o) : ~ a.atTemp
<1>. DEFINE D == DOMAIN o.pending
            by == [k \in D |-> CHOOSE l \in D \ {k} : SameName(o.pending[l].current, o.pending[k].target)]
<1>1. \A k \in D : \E l \in D \ {k} : SameName(o.pending[l].current, o.pending[k].target)
  BY DEF Unblocked, Blocked
<1>2. \A k \in D : by[k] \in D /\ SameName(o.pending[by[k]].current, o.pending[k].target)
  BY <1>1
<1>3. IsFiniteSet(D)
  <2>1. o.pending \in Seq(PendingSet(e))
    BY OrderIs
  <2>2. Len(o.pending) \in Nat /\ D = 1..Len(o.pending)
    BY <2>1
  <2>. HIDE DEF D
  <2>. QED  BY <2>2, FS_Interval
<1>4. by \in [D -> D]
  BY <1>2
<1>. HIDE DEF by
<1>5. ASSUME NEW k \in D, NEW l \in D, by[k] = by[l] PROVE k = l
  <2>1. PICK a \in Held(o) : a = o.pending[k]
    BY OrderIs
  <2>2. PICK b \in Held(o) : b = o.pending[l]
    BY OrderIs
  <2>3. SameName(a.target, b.target)
    BY <1>2, <1>5, <2>1, <2>2 DEF SameName
  <2>4. IsItem(p, a.original, a.target) /\ IsItem(p, b.original, b.target)
    BY OrderIs DEF PendingOK
  <2>5. a.original = b.original
    BY <2>3, <2>4, ItemIs
  <2>. QED  BY <2>1, <2>2, <2>5, OrderIs DEF PendingOK, IsInjective
<1>6. by \in Injection(D, D)
  BY <1>4, <1>5 DEF Injection, IsInjective
<1>7. by \in Surjection(D, D)
  <2>. HIDE DEF D
  <2>. QED  BY <1>3, <1>6, FS_Injection
<1>8. \A k \in D : \E l \in D : by[l] = k
  BY <1>7 DEF Surjection
<1>. SUFFICES ASSUME NEW a \in Held(o), a.atTemp PROVE FALSE
  OBVIOUS
<1>9. PICK k \in D : o.pending[k] = a
  BY DEF Held, Range
<1>10. PICK l \in D : by[l] = k
  BY <1>8
<1>11. PICK b \in Held(o) : b = o.pending[l]
  BY OrderIs
<1>12. SameName(a.current, b.target)
  BY <1>2, <1>9, <1>10, <1>11
<1>13. Fresh(e, p, a.current) /\ IsItem(p, b.original, b.target)
  BY OrderIs DEF PendingOK
<1>14. ~ SameName(b.target, a.current)
  BY <1>13, ItemIs
<1>. QED  BY <1>12, <1>14 DEF SameName

\* When every item is blocked, names are tangled.
LEMMA BlockedTangles ==
    ASSUME NEW e, NEW p, SoundPlan(e, p), NEW o \in Orders(e, p), o.pending # << >>, Unblocked(o) = {}
    PROVE  Tangled(p)
<1>1. 1 \in DOMAIN o.pending
  <2>1. o.pending \in Seq(PendingSet(e))
    BY OrderIs
  <2>. QED  BY <2>1
<1>2. PICK k \in DOMAIN o.pending \ {1} : SameName(o.pending[k].current, o.pending[1].target)
  BY <1>1 DEF Unblocked, Blocked
<1>3. PICK a \in Held(o) : a = o.pending[1]
  BY <1>1, OrderIs
<1>4. PICK b \in Held(o) : b = o.pending[k]
  BY OrderIs
<1>5. a.original # b.original
  BY <1>1, <1>2, <1>3, <1>4, OrderIs DEF PendingOK, IsInjective
<1>6. b.current = b.original
  BY AllBlocked, OrderIs DEF PendingOK
<1>7. PICK i \in Renames(p) : p[i].old = a.original /\ p[i].new = a.target
  BY OrderIs DEF PendingOK, IsItem
<1>8. PICK j \in Renames(p) : p[j].old = b.original
  BY OrderIs DEF PendingOK, IsItem
<1>9. SameName(p[i].new, p[j].old)
  BY <1>2, <1>3, <1>4, <1>6, <1>7, <1>8 DEF SameName
<1>10. i \in DOMAIN p \ {j} /\ (p[i].status = "Ok" \/ p[i].status = "CaseOnly")
  BY <1>5, <1>7, <1>8 DEF Renames, IsRename
<1>. QED  BY <1>8, <1>9, <1>10 DEF Tangled

\* When every item is blocked, the first one is parked under a temporary name,
\* and there is one left for it.
LEMMA ParkKeeps ==
    ASSUME NEW e, NEW p, SoundPlan(e, p), \A m, n \in e : SameName(m, n) => m = n,
           NEW o \in Orders(e, p), o.pending # << >>, Unblocked(o) = {}
    PROVE  /\ Park(o) \in Orders(e, p)
           /\ Len(Park(o).pending) = Len(o.pending)
           /\ \E x \in Unparked(o) : Unparked(Park(o)) = Unparked(o) \ {x}
<1>. DEFINE n == Park(o)
<1>0. o.pending \in Seq(PendingSet(e)) /\ o.temps \in Seq(AnyName(e))
  BY OrderIs
<1>1. 1 \in DOMAIN o.pending /\ DOMAIN o.pending = 1..Len(o.pending) /\ Len(o.pending) \in Nat
  BY <1>0
<1>2. PICK a \in Held(o) : a = o.pending[1]
  BY <1>1, OrderIs
<1>3. a \in PendingSet(e) /\ ~ a.atTemp /\ a.current = a.original /\ IsItem(p, a.original, a.target)
  BY AllBlocked, OrderIs DEF PendingOK
<1>4. a.original \in Unparked(o)
  BY <1>3 DEF Unparked
<1>5. o.temps # << >> /\ Len(o.temps) \in Nat \ {0}
  <2>1. Cardinality(Unparked(o)) \in Nat /\ Cardinality(Unparked(o)) # 0
    BY <1>4, UnparkedIs, FS_EmptySet
  <2>2. Cardinality(Unparked(o)) <= Len(o.temps)
    BY OrderIs DEF TempsOK
  <2>. QED  BY <1>0, <2>1, <2>2
<1>6. PICK t \in AnyName(e) : t = o.temps[1]
  BY <1>0, <1>5
<1>7. 1 \in DOMAIN o.temps
  BY <1>0, <1>5
<1>8. Fresh(e, p, t) /\ \A g \in Given(o) : ~ SameName(g.to, t)
  BY <1>6, <1>7, OrderIs DEF TempsOK
<1>9. PICK q : q = [from |-> a.current, to |-> t, original |-> a.original, toTemp |-> TRUE, fromTemp |-> FALSE]
  OBVIOUS
<1>10. /\ q \in StepSet(e) /\ q.from = a.original /\ q.to = t /\ q.original = a.original
       /\ q.toTemp /\ ~ q.fromTemp
  BY <1>3, <1>9 DEF PendingSet, StepSet
<1>11. PICK c : c = [a EXCEPT !.current = t, !.atTemp = TRUE]
  OBVIOUS
<1>12. c \in PendingSet(e) /\ c.current = t /\ c.atTemp /\ c.original = a.original /\ c.target = a.target
  BY <1>3, <1>11 DEF PendingSet
<1>13. /\ n.pending = [o.pending EXCEPT ![1] = c] /\ n.at = 1 /\ n.temps = Tail(o.temps)
       /\ n.given = Append(o.given, q)
       /\ n = [pending |-> n.pending, at |-> n.at, temps |-> n.temps, given |-> n.given]
  BY <1>2, <1>6, <1>9, <1>11 DEF Park
<1>. HIDE DEF n
<1>14. /\ n.pending \in Seq(PendingSet(e)) /\ Len(n.pending) = Len(o.pending)
       /\ DOMAIN n.pending = DOMAIN o.pending
       /\ n.pending[1] = c /\ \A k \in DOMAIN o.pending \ {1} : n.pending[k] = o.pending[k]
  BY <1>0, <1>1, <1>12, <1>13
<1>15. \A b \in Held(n) : b = c \/ (b \in Held(o) /\ b # a /\ b.original # a.original)
  <2>. TAKE b \in Held(n)
  <2>1. PICK k \in DOMAIN o.pending : n.pending[k] = b
    BY <1>14 DEF Held, Range
  <2>2. CASE k = 1
    BY <1>14, <2>1, <2>2
  <2>3. CASE k # 1
    <3>1. b = o.pending[k] /\ b \in Held(o)
      BY <1>14, <2>1, <2>3, OrderIs
    <3>2. b # a
      BY <1>1, <1>2, <2>3, <3>1, OrderIs DEF PendingOK, IsInjective
    <3>. QED  BY <3>1, <3>2, OrderIs DEF PendingOK
  <2>. QED  BY <2>2, <2>3
<1>16. c \in Held(n) /\ \A b \in Held(o) : b = a \/ b \in Held(n)
  <2>1. c \in Held(n)
    BY <1>1, <1>14 DEF Held, Range
  <2>2. ASSUME NEW b \in Held(o), b # a PROVE b \in Held(n)
    <3>1. PICK k \in DOMAIN o.pending : o.pending[k] = b
      BY DEF Held, Range
    <3>2. k # 1
      BY <1>2, <2>2, <3>1
    <3>. QED  BY <1>14, <3>1, <3>2 DEF Held, Range
  <2>. QED  BY <2>1, <2>2
<1>17. Given(n) = Given(o) \cup {q}
  BY <1>10, <1>13, OrderIs, AppendIs DEF Given
<1>18. /\ Tail(o.temps) \in Seq(AnyName(e)) /\ Len(Tail(o.temps)) = Len(o.temps) - 1
       /\ \A k \in DOMAIN Tail(o.temps) :
             k + 1 \in DOMAIN o.temps /\ k + 1 # 1 /\ Tail(o.temps)[k] = o.temps[k + 1]
       /\ \A k, l \in DOMAIN Tail(o.temps) : k + 1 = l + 1 => k = l
  <2>1. /\ Tail(o.temps) \in Seq(AnyName(e)) /\ Len(Tail(o.temps)) = Len(o.temps) - 1
        /\ DOMAIN Tail(o.temps) = 1..(Len(o.temps) - 1)
        /\ \A k \in DOMAIN Tail(o.temps) : k + 1 \in DOMAIN o.temps /\ Tail(o.temps)[k] = o.temps[k + 1]
    BY <1>0, <1>5, TailIs
  <2>2. \A k, l \in 1..(Len(o.temps) - 1) : k + 1 # 1 /\ (k + 1 = l + 1 => k = l)
    BY <1>5
  <2>. QED  BY <2>1, <2>2
<1>19. n \in OrderSet(e)
  <2>1. Append(o.given, q) \in Seq(StepSet(e))
    BY <1>10, OrderIs, AppendIs
  <2>2. n.pending \in Seq(PendingSet(e)) /\ n.at \in Nat /\ n.temps \in Seq(AnyName(e)) /\ n.given \in Seq(StepSet(e))
    BY <1>13, <1>14, <1>18, <2>1
  <2>. QED  BY <1>13, <2>2 DEF OrderSet
<1>20. PendingOK(e, p, n)
  <2>1. \A b \in Held(n) : /\ IsItem(p, b.original, b.target)
                           /\ ~ b.atTemp => b.current = b.original
                           /\ b.atTemp => Fresh(e, p, b.current) /\ \E g \in Given(n) : g.original = b.original
    <3>. TAKE b \in Held(n)
    <3>1. CASE b = c
      BY <1>3, <1>8, <1>10, <1>12, <1>17, <3>1
    <3>2. CASE b \in Held(o)
      BY <1>17, <3>2, OrderIs DEF PendingOK
    <3>. QED  BY <1>15, <3>1, <3>2
  <2>2. \A b, d \in Held(n) : b.original = d.original => b = d
    BY <1>12, <1>15, OrderIs DEF PendingOK
  <2>3. ASSUME NEW k \in DOMAIN o.pending, NEW l \in DOMAIN o.pending, n.pending[k] = n.pending[l] PROVE k = l
    <3>1. n.pending[k].original = o.pending[k].original /\ n.pending[l].original = o.pending[l].original
      BY <1>2, <1>12, <1>14
    <3>2. o.pending[k] = o.pending[l]
      BY <2>3, <3>1, OrderIs DEF PendingOK
    <3>. QED  BY <3>2, OrderIs DEF PendingOK, IsInjective
  <2>4. IsInjective(n.pending)
    BY <1>14, <2>3 DEF IsInjective
  <2>. QED  BY <2>1, <2>2, <2>4 DEF PendingOK
<1>21. \A g \in Given(o) : g.original # a.original /\ ~ SameName(g.to, a.original)
  BY <1>3, OrderIs DEF Clear
<1>22. \A b \in Held(o) : ~ SameName(t, b.current)
  <2>. TAKE b \in Held(o)
  <2>1. ~ b.atTemp /\ b.current = b.original /\ b.original \in e
    BY AllBlocked, OrderIs, ItemIs DEF PendingOK
  <2>. QED  BY <1>8, <2>1 DEF Fresh, SameName
<1>23. Clear(n)
  <2>. SUFFICES ASSUME NEW g \in Given(n), NEW b \in Held(n)
                PROVE  /\ g.original = b.original => b.atTemp /\ g.toTemp /\ g.to = b.current
                       /\ g.original # b.original => ~ SameName(g.to, b.current)
    BY DEF Clear
  <2>1. CASE g \in Given(o) /\ b = c
    BY <1>8, <1>12, <1>21, <2>1
  <2>2. CASE g \in Given(o) /\ b \in Held(o)
    BY <2>2, OrderIs DEF Clear
  <2>3. CASE g = q /\ b = c
    BY <1>10, <1>12, <2>3
  <2>4. CASE g = q /\ b \in Held(o) /\ b.original # a.original
    BY <1>10, <1>22, <2>4
  <2>. QED  BY <1>15, <1>17, <2>1, <2>2, <2>3, <2>4
<1>24. Unparked(n) = Unparked(o) \ {a.original}
  <2>1. \A x \in Unparked(n) : x \in Unparked(o) \ {a.original}
    BY <1>12, <1>15 DEF Unparked
  <2>2. \A x \in Unparked(o) \ {a.original} : x \in Unparked(n)
    BY <1>16 DEF Unparked
  <2>. QED  BY <2>1, <2>2
<1>25. TempsOK(e, p, n)
  <2>1. TempsOK(e, p, o)
    BY OrderIs
  <2>2. \A k \in DOMAIN Tail(o.temps) : ~ SameName(t, Tail(o.temps)[k])
    BY <1>6, <1>7, <1>18, <2>1 DEF TempsOK
  <2>3. \A k, l \in DOMAIN Tail(o.temps) : SameName(Tail(o.temps)[k], Tail(o.temps)[l]) => k = l
    BY <1>18, <2>1 DEF TempsOK
  <2>4. \A k \in DOMAIN Tail(o.temps) :
           Fresh(e, p, Tail(o.temps)[k]) /\ \A g \in Given(n) : ~ SameName(g.to, Tail(o.temps)[k])
    BY <1>10, <1>17, <1>18, <2>1, <2>2 DEF TempsOK
  <2>5. Cardinality(Unparked(n)) <= Len(Tail(o.temps))
    <3>1. Cardinality(Unparked(n)) = Cardinality(Unparked(o)) - 1
      BY <1>4, <1>24, UnparkedIs, FS_RemoveElement
    <3>2. Cardinality(Unparked(o)) <= Len(o.temps) /\ Cardinality(Unparked(o)) \in Nat
      BY <2>1, UnparkedIs DEF TempsOK
    <3>. QED  BY <1>5, <1>18, <3>1, <3>2
  <2>. QED  BY <1>13, <2>3, <2>4, <2>5 DEF TempsOK
<1>26. GivenOK(e, p, n)
  <2>1. StepsOK(e, p, o.given) /\ \A k \in DOMAIN o.given : Prepared(p, o.given, k)
    BY OrderIs DEF GivenOK
  <2>2. \A g \in Given(o) : Follow(g, q)
    BY <1>8, <1>10, <1>21 DEF Follow
  <2>3. \A k \in DOMAIN o.given : Follow(o.given[k], q)
    BY <2>2, OrderIs
  <2>4. StepOK(e, p, q)
    <3>1. a.original \in Batch(p) /\ a.original \in e
      BY <1>3, ItemIs
    <3>. QED  BY <1>8, <1>10, <3>1 DEF StepOK
  <2>5. /\ StepsOK(e, p, Append(o.given, q))
        /\ \A k \in DOMAIN Append(o.given, q) : Prepared(p, Append(o.given, q), k)
    BY <1>10, <2>1, <2>3, <2>4, StepAfter
  <2>. QED  BY <1>13, <2>5 DEF GivenOK
<1>27. AllThere(p, n)
  <2>. SUFFICES ASSUME NEW x \in Batch(p)
                PROVE  \/ \E b \in Held(n) : b.original = x
                       \/ \E g \in Given(n) : g.original = x /\ ~ g.toTemp
    BY DEF AllThere
  <2>1. CASE x = a.original
    BY <1>12, <1>16, <2>1
  <2>2. CASE x # a.original
    BY <1>16, <1>17, <2>2, OrderIs DEF AllThere
  <2>. QED  BY <2>1, <2>2
<1>28. Straight(p, n)
  BY BlockedTangles DEF Straight
<1>. QED  BY <1>4, <1>14, <1>19, <1>20, <1>23, <1>24, <1>25, <1>26, <1>27, <1>28 DEF Orders, n

\* What is still to be given out: each step gives out an item or parks one.
ToGo(o) == Len(o.pending) + Cardinality(Unparked(o))

\* A step keeps the order so far as it must be, and leaves less to be given out.
LEMMA AdvanceKeeps ==
    ASSUME NEW e, NEW p, SoundPlan(e, p), \A m, n \in e : SameName(m, n) => m = n, NEW o \in Orders(e, p)
    PROVE  /\ Advance(o) \in Orders(e, p)
           /\ ToGo(o) \in Nat
           /\ ToGo(Advance(o)) < ToGo(o) \/ Advance(o).pending = << >>
<1>. DEFINE n == Advance(o)
<1>1. \A h \in Orders(e, p) : Len(h.pending) \in Nat /\ Cardinality(Unparked(h)) \in Nat /\ IsFiniteSet(Unparked(h))
  BY OrderIs, UnparkedIs
<1>2. \A h \in Orders(e, p) : ToGo(h) \in Nat
  BY <1>1 DEF ToGo
<1>3. CASE o.pending = << >>
  BY <1>2, <1>3 DEF Advance
<1>4. CASE o.pending # << >> /\ Unblocked(o) = {}
  <2>1. n = Park(o)
    BY <1>4 DEF Advance
  <2>2. n \in Orders(e, p) /\ Len(n.pending) = Len(o.pending)
    BY <1>4, <2>1, ParkKeeps
  <2>3. PICK x \in Unparked(o) : Unparked(n) = Unparked(o) \ {x}
    BY <1>4, <2>1, ParkKeeps
  <2>4. Cardinality(Unparked(n)) = Cardinality(Unparked(o)) - 1
    BY <1>1, <2>3, FS_RemoveElement
  <2>. HIDE DEF n
  <2>5. ToGo(n) < ToGo(o)
    BY <1>1, <2>2, <2>4 DEF ToGo
  <2>. QED  BY <1>2, <2>2, <2>5 DEF n
<1>5. CASE o.pending # << >> /\ Unblocked(o) # {}
  <2>1. PICK S \in SUBSET Unblocked(o) : S # {} /\ n = GiveOut(o, Min(S))
    <3>1. PICK ahead : ahead = {i \in Unblocked(o) : i >= o.at}
      OBVIOUS
    <3>2. n = GiveOut(o, Min(IF ahead = {} THEN Unblocked(o) ELSE ahead))
      BY <1>5, <3>1 DEF Advance
    <3>. QED  BY <1>5, <3>1, <3>2
  <2>2. Min(S) \in S
    <3>1. S \in SUBSET Nat
      <4>1. o.pending \in Seq(PendingSet(e))
        BY OrderIs
      <4>2. DOMAIN o.pending \subseteq Nat
        BY <4>1
      <4>. QED  BY <4>2 DEF Unblocked
    <3>2. \E m \in S : \A k \in S : m <= k
      BY <2>1, <3>1, Least
    <3>. QED  BY <3>2 DEF Min
  <2>3. PICK i \in Unblocked(o) : i = Min(S)
    BY <2>2
  <2>4. n \in Orders(e, p) /\ Len(n.pending) = Len(o.pending) - 1 /\ Unparked(n) \subseteq Unparked(o)
    BY <2>1, <2>3, GiveOutKeeps
  <2>5. Cardinality(Unparked(n)) <= Cardinality(Unparked(o))
    BY <1>1, <2>4, FS_Subset
  <2>. HIDE DEF n
  <2>6. ToGo(n) < ToGo(o)
    BY <1>1, <2>4, <2>5 DEF ToGo
  <2>. QED  BY <1>2, <2>4, <2>6 DEF n
<1>. QED  BY <1>3, <1>4, <1>5

\* The temporary names that are free for a plan are enough for its items.
LEMMA TempsSuffice ==
    ASSUME NEW p, SoundPlan(existing, p), existing \in Starts
    PROVE  /\ FreeTemps(p) \in Seq(AnyName(existing)) /\ Len(FreeTemps(p)) >= MaxBatch
           /\ \A k \in DOMAIN FreeTemps(p) : Fresh(existing, p, FreeTemps(p)[k])
           /\ \A k, l \in DOMAIN FreeTemps(p) : SameName(FreeTemps(p)[k], FreeTemps(p)[l]) => k = l
<1>. DEFINE Taken(t) == \/ \E n \in existing : SameName(n, t)
                        \/ \E i \in DOMAIN p : p[i].new # Invalid /\ SameName(p[i].new, t)
            free == {k \in DOMAIN TempNames : ~ Taken(TempNames[k])}
            sure == {k \in DOMAIN TempNames : \A n \in existing \cup Names : ~ SameName(n, TempNames[k])}
<1>1. PICK f : f = FreeTemps(p)
  OBVIOUS
<1>2. f = Only(TempNames, free)
  BY <1>1 DEF FreeTemps
<1>3. TempNames \in Seq(Range(TempNames))
  BY TempAssumption
<1>4. PICK h \in Bijection(1..Len(f), free \cap DOMAIN TempNames) : \A n \in 1..Len(f) : f[n] = TempNames[h[n]]
  <2>. HIDE DEF free
  <2>. QED  BY <1>2, <1>3, OnlyIs
<1>5. f \in Seq(Range(TempNames)) /\ Len(f) \in Nat /\ DOMAIN f = 1..Len(f)
  <2>. HIDE DEF free
  <2>1. f \in Seq(Range(TempNames))
    BY <1>2, <1>3, OnlyIs
  <2>. QED  BY <2>1
<1>6. f \in Seq(AnyName(existing))
  <2>1. Range(TempNames) \subseteq AnyName(existing)
    BY DEF AnyName
  <2>. QED  BY <1>5, <2>1
<1>7. /\ h \in [1..Len(f) -> free \cap DOMAIN TempNames]
      /\ \A k, l \in 1..Len(f) : h[k] = h[l] => k = l
  BY <1>4 DEF Bijection, Injection, IsInjective
<1>8. \A k \in DOMAIN f : h[k] \in free
  BY <1>5, <1>7
<1>9. \A k \in DOMAIN f : Fresh(existing, p, f[k])
  <2>. TAKE k \in DOMAIN f
  <2>1. f[k] = TempNames[h[k]] /\ ~ Taken(f[k])
    BY <1>4, <1>5, <1>8
  <2>2. \A i \in Renames(p) : i \in DOMAIN p /\ p[i].new # Invalid
    BY DEF SoundPlan, PlanFor, Renames
  <2>. QED  BY <2>1, <2>2 DEF Fresh
<1>10. \A k, l \in DOMAIN f : SameName(f[k], f[l]) => k = l
  <2>1. \A k \in DOMAIN f : f[k] = TempNames[h[k]] /\ h[k] \in DOMAIN TempNames
    BY <1>4, <1>5, <1>7
  <2>. QED  BY <1>5, <1>7, <2>1, TempAssumption
<1>11. sure \subseteq free /\ free \subseteq DOMAIN TempNames
  <2>1. \A i \in DOMAIN p : p[i].new # Invalid => p[i].new \in Names
    <3>1. p \in Seq(PlanItems(existing))
      BY DEF SoundPlan, PlanFor
    <3>2. \A i \in DOMAIN p : p[i] \in PlanItems(existing)
      BY <3>1
    <3>. QED  BY <3>2 DEF PlanItems
  <2>. QED  BY <2>1
<1>12. Cardinality(sure) >= MaxBatch
  BY TempAssumption
<1>13. IsFiniteSet(free) /\ free \cap DOMAIN TempNames = free
  <2>1. Len(TempNames) \in Nat /\ DOMAIN TempNames = 1..Len(TempNames)
    BY <1>3
  <2>2. IsFiniteSet(DOMAIN TempNames)
    BY <2>1, FS_Interval
  <2>. HIDE DEF sure
  <2>. QED  BY <1>11, <2>2, FS_Subset
<1>. HIDE DEF free, sure
<1>14. Cardinality(free) = Len(f)
  <2>1. IsFiniteSet(1..Len(f)) /\ Cardinality(1..Len(f)) = Len(f)
    BY <1>5, FS_Interval
  <2>2. h \in Bijection(1..Len(f), free)
    BY <1>4, <1>13
  <2>. QED  BY <2>1, <2>2, FS_Bijection DEF ExistsBijection
<1>15. Cardinality(sure) <= Cardinality(free) /\ Cardinality(sure) \in Nat
  BY <1>11, <1>13, FS_Subset, FS_CardinalityType
<1>16. Len(f) >= MaxBatch
  BY <1>5, <1>12, <1>14, <1>15, BatchAssumption
<1>. QED  BY <1>1, <1>6, <1>9, <1>10, <1>16

\* The order with which a sound plan begins: every item to be renamed is
\* pending, at its first name.
StartOf(p) == [pending |-> [i \in DOMAIN Only(p, Renames(p)) |-> Waiting(Only(p, Renames(p))[i])], at |-> 1,
               temps |-> FreeTemps(p), given |-> << >>]

\* It is an order as it must be.
LEMMA StartIs ==
    ASSUME NEW p, SoundPlan(existing, p), existing \in Starts
    PROVE  StartOf(p) \in Orders(existing, p) /\ ToGo(StartOf(p)) <= 2 * Len(Only(p, Renames(p)))
           /\ Len(Only(p, Renames(p))) \in Nat
<1>. DEFINE e == existing
<1>1. PICK r : r = Only(p, Renames(p))
  OBVIOUS
<1>2. PICK o : o = StartOf(p)
  OBVIOUS
<1>3. p \in Seq(PlanItems(e)) /\ Len(p) \in Nat /\ Len(p) <= MaxBatch /\ Renames(p) \subseteq DOMAIN p
      /\ DOMAIN p = 1..Len(p)
  <2>1. p \in Seq(PlanItems(e)) /\ Len(p) <= MaxBatch
    BY DEF SoundPlan, PlanFor
  <2>. QED  BY <2>1 DEF Renames
<1>4. r \in Seq(PlanItems(e)) /\ Len(r) \in Nat /\ DOMAIN r = 1..Len(r)
  <2>1. r \in Seq(PlanItems(e))
    BY <1>1, <1>3, OnlyIs
  <2>. QED  BY <2>1
<1>5. PICK h \in Bijection(1..Len(r), Renames(p)) : \A n \in 1..Len(r) : r[n] = p[h[n]]
  <2>1. Renames(p) \cap DOMAIN p = Renames(p)
    BY <1>3
  <2>. QED  BY <1>1, <1>3, <2>1, OnlyIs
<1>6. /\ \A n \in DOMAIN r : h[n] \in Renames(p) /\ r[n] = p[h[n]]
      /\ \A m, n \in DOMAIN r : h[m] = h[n] => m = n
      /\ \A i \in Renames(p) : \E n \in DOMAIN r : h[n] = i
  BY <1>4, <1>5 DEF Bijection, Injection, Surjection, IsInjective
<1>7. Len(r) <= MaxBatch
  <2>1. IsFiniteSet(1..Len(r)) /\ Cardinality(1..Len(r)) = Len(r)
    BY <1>4, FS_Interval
  <2>2. Cardinality(Renames(p)) = Len(r)
    BY <1>5, <2>1, FS_Bijection DEF ExistsBijection
  <2>3. IsFiniteSet(1..Len(p)) /\ Cardinality(1..Len(p)) = Len(p)
    <3>1. PICK l \in Nat : l = Len(p)
      BY <1>3
    <3>2. IsFiniteSet(1..l) /\ Cardinality(1..l) = l
      BY FS_Interval
    <3>. QED  BY <3>1, <3>2
  <2>4. Cardinality(Renames(p)) <= Len(p)
    BY <1>3, <2>3, FS_Subset
  <2>. QED  BY <1>3, <1>4, <2>2, <2>4, BatchAssumption
<1>8. /\ o.pending = [i \in DOMAIN r |-> Waiting(r[i])] /\ o.at = 1 /\ o.temps = FreeTemps(p) /\ o.given = << >>
      /\ o = [pending |-> o.pending, at |-> o.at, temps |-> o.temps, given |-> o.given]
  BY <1>1, <1>2 DEF StartOf
<1>9. \A i \in DOMAIN r : /\ Waiting(r[i]) \in PendingSet(e) /\ ~ Waiting(r[i]).atTemp
                          /\ Waiting(r[i]).current = p[h[i]].old /\ Waiting(r[i]).original = p[h[i]].old
                          /\ Waiting(r[i]).target = p[h[i]].new
  <2>. TAKE i \in DOMAIN r
  <2>1. r[i] \in PlanItems(e)
    BY <1>4
  <2>2. r[i] = p[h[i]] /\ r[i].old \in AnyName(e) /\ r[i].new \in AnyName(e)
    BY <1>6, <2>1 DEF PlanItems, AnyName
  <2>. QED  BY <2>2 DEF Waiting, PendingSet
<1>10. o.pending \in Seq(PendingSet(e)) /\ Len(o.pending) = Len(r) /\ DOMAIN o.pending = DOMAIN r
  BY <1>4, <1>8, <1>9
<1>11. \A i \in DOMAIN r : o.pending[i] = Waiting(r[i])
  BY <1>8
<1>12. \A a \in Held(o) : \E i \in DOMAIN r : a = Waiting(r[i])
  BY <1>10, <1>11 DEF Held, Range
<1>13. \A i \in DOMAIN r : Waiting(r[i]) \in Held(o)
  BY <1>10, <1>11 DEF Held, Range
<1>14. Given(o) = {} /\ DOMAIN o.given = {} /\ o.given \in Seq(StepSet(e))
  BY <1>8 DEF Given, Range
<1>15. o \in OrderSet(e)
  <2>1. o.temps \in Seq(AnyName(e))
    BY <1>8, TempsSuffice
  <2>2. o.pending \in Seq(PendingSet(e)) /\ o.at \in Nat /\ o.given \in Seq(StepSet(e))
    BY <1>8, <1>10, <1>14
  <2>. QED  BY <1>8, <2>1, <2>2 DEF OrderSet
<1>16. PendingOK(e, p, o)
  <2>1. \A i, j \in DOMAIN r : Waiting(r[i]).original = Waiting(r[j]).original => i = j
    BY <1>3, <1>6, <1>9 DEF SoundPlan, PlanFor
  <2>2. IsInjective(o.pending)
    BY <1>10, <1>11, <2>1 DEF IsInjective
  <2>3. \A a, b \in Held(o) : a.original = b.original => a = b
    BY <1>12, <2>1
  <2>4. \A a \in Held(o) : IsItem(p, a.original, a.target) /\ ~ a.atTemp /\ a.current = a.original
    BY <1>6, <1>9, <1>12 DEF IsItem
  <2>. QED  BY <2>2, <2>3, <2>4 DEF PendingOK
<1>17. Unparked(o) \subseteq Batch(p) /\ \E f : f \in Surjection(DOMAIN r, Unparked(o))
  <2>. DEFINE f == [i \in DOMAIN r |-> p[h[i]].old]
  <2>1. Unparked(o) = {a.original : a \in Held(o)}
    BY <1>9, <1>12 DEF Unparked
  <2>2. \A i \in DOMAIN r : f[i] \in Unparked(o)
    BY <1>9, <1>13, <2>1
  <2>3. \A x \in Unparked(o) : \E i \in DOMAIN r : f[i] = x
    BY <1>9, <1>12, <2>1
  <2>4. f \in Surjection(DOMAIN r, Unparked(o))
    <3>1. f \in [DOMAIN r -> Unparked(o)]
      BY <2>2
    <3>. HIDE DEF f
    <3>. QED  BY <2>3, <3>1 DEF Surjection
  <2>5. Unparked(o) \subseteq Batch(p)
    BY <1>6, <1>9, <1>12, <2>1 DEF Batch
  <2>. QED  BY <2>4, <2>5
<1>18. Cardinality(Unparked(o)) <= Len(r) /\ Cardinality(Unparked(o)) \in Nat
  <2>1. IsFiniteSet(DOMAIN r) /\ Cardinality(DOMAIN r) = Len(r)
    BY <1>4, FS_Interval
  <2>2. PICK f : f \in Surjection(DOMAIN r, Unparked(o))
    BY <1>17
  <2>. QED  BY <2>1, <2>2, FS_Surjection, FS_CardinalityType
<1>19. TempsOK(e, p, o)
  <2>1. /\ FreeTemps(p) \in Seq(AnyName(e)) /\ Len(FreeTemps(p)) >= MaxBatch
        /\ \A k \in DOMAIN FreeTemps(p) : Fresh(e, p, FreeTemps(p)[k])
        /\ \A k, l \in DOMAIN FreeTemps(p) : SameName(FreeTemps(p)[k], FreeTemps(p)[l]) => k = l
    BY TempsSuffice
  <2>2. Len(FreeTemps(p)) \in Nat
    BY <2>1
  <2>3. Cardinality(Unparked(o)) <= Len(FreeTemps(p))
    BY <1>4, <1>7, <1>18, <2>1, <2>2, BatchAssumption
  <2>. QED  BY <1>8, <1>14, <2>1, <2>3 DEF TempsOK
<1>20. Clear(o) /\ GivenOK(e, p, o) /\ Straight(p, o)
  <2>1. \A a \in Held(o) : ~ a.atTemp
    BY <1>9, <1>12
  <2>. QED  BY <1>14, <2>1 DEF Clear, GivenOK, StepsOK, Straight
<1>21. AllThere(p, o)
  <2>1. \A x \in Batch(p) : \E a \in Held(o) : a.original = x
    BY <1>6, <1>9, <1>13 DEF Batch
  <2>. QED  BY <2>1 DEF AllThere
<1>22. ToGo(o) <= 2 * Len(r)
  BY <1>4, <1>10, <1>18 DEF ToGo
<1>. QED  BY <1>1, <1>2, <1>4, <1>15, <1>16, <1>19, <1>20, <1>21, <1>22 DEF Orders

\* The steps of a sound plan never put an item where another one still has to
\* leave, and bring every item of the batch to its new name.
THEOREM OrderIsSound ==
    ASSUME NEW p, SoundPlan(existing, p), existing \in Starts
    PROVE  OrderFor(existing, p, OrderRenames(p))
<1>. DEFINE e == existing
            N == 2 * Len(Only(p, Renames(p)))
            F == [n \in 1..N |-> [o \in Orders(e, p) |-> Advance(o)]]
            step(g, n) == IF n = 0 THEN StartOf(p) ELSE Advance(g[n - 1])
<1>1. N \in Nat /\ StartOf(p) \in Orders(e, p) /\ ToGo(StartOf(p)) <= N
  <2>1. Len(Only(p, Renames(p))) \in Nat
    BY StartIs
  <2>. QED  BY <2>1, StartIs
<1>2. \A m, n \in e : SameName(m, n) => m = n
  BY FolderAssumption
<1>3. \A o \in Orders(e, p) : /\ Advance(o) \in Orders(e, p) /\ ToGo(o) \in Nat
                              /\ ToGo(Advance(o)) < ToGo(o) \/ Advance(o).pending = << >>
  BY <1>2, AdvanceKeeps
<1>4. F \in [1..N -> [Orders(e, p) -> Orders(e, p)]]
  BY <1>3
<1>. DEFINE u == CHOOSE f : f = [n \in 0..N |-> step(f, n)]
<1>5. OrderRenames(p) = u[N].given
  BY DEF OrderRenames, StartOf
<1>. HIDE DEF N
<1>6. PICK g \in [0..N -> Orders(e, p)] : Runs(g, StartOf(p), F, N)
  <2>. HIDE DEF F
  <2>. QED  BY <1>1, <1>4, Recursion
<1>7. g = [n \in 0..N |-> step(g, n)]
  <2>1. ASSUME NEW n \in 0..N PROVE g[n] = step(g, n)
    <3>1. CASE n = 0
      BY <1>6, <3>1 DEF Runs
    <3>2. CASE n # 0
      <4>1. n \in 1..N /\ n - 1 \in 0..N
        BY <1>1, <3>2
      <4>2. g[n - 1] \in Orders(e, p) /\ g[n] = F[n][g[n - 1]]
        BY <1>6, <4>1 DEF Runs
      <4>3. F[n][g[n - 1]] = Advance(g[n - 1])
        BY <4>1, <4>2
      <4>. QED  BY <3>2, <4>2, <4>3
    <3>. QED  BY <3>1, <3>2
  <2>. QED  BY <1>6, <2>1
<1>8. u = [n \in 0..N |-> step(u, n)]
  BY <1>7
<1>9. \A n \in 0..N : u[n] = step(u, n)
  <2>. HIDE DEF u
  <2>. QED  BY <1>8
<1>. HIDE DEF u, F
<1>. DEFINE Good(n) == u[n] \in Orders(e, p) /\ (ToGo(u[n]) + n <= N \/ u[n].pending = << >>)
            Bad == {n \in 0..N : ~ Good(n)}
<1>10. Bad = {}
  <2>. SUFFICES ASSUME Bad # {} PROVE FALSE
    OBVIOUS
  <2>1. PICK n \in Bad : \A m \in Bad : n <= m
    <3>1. Bad \in SUBSET Nat
      BY <1>1
    <3>. HIDE DEF Bad
    <3>. QED  BY <3>1, Least
  <2>2. CASE n = 0
    <3>1. u[0] = StartOf(p) /\ ToGo(StartOf(p)) \in Nat
      BY <1>1, <1>3, <1>9
    <3>2. Good(0)
      BY <1>1, <3>1
    <3>. QED  BY <2>1, <2>2, <3>2
  <2>3. CASE n # 0
    <3>1. n \in 0..N /\ n - 1 \in 0..N /\ n - 1 \notin Bad
      BY <1>1, <2>1, <2>3
    <3>2. PICK o : o = u[n - 1]
      OBVIOUS
    <3>3. o \in Orders(e, p) /\ (ToGo(o) + (n - 1) <= N \/ o.pending = << >>)
      BY <3>1, <3>2
    <3>4. u[n] = Advance(o)
      BY <1>9, <2>3, <3>1, <3>2
    <3>5. PICK q \in Orders(e, p) : q = u[n]
      BY <1>3, <3>3, <3>4
    <3>6. ToGo(q) \in Nat /\ ToGo(o) \in Nat /\ (ToGo(q) < ToGo(o) \/ q.pending = << >>)
      BY <1>3, <3>3, <3>4, <3>5
    <3>7. o.pending = << >> => q.pending = << >>
      BY <3>4, <3>5 DEF Advance
    <3>8. ToGo(q) + n <= N \/ q.pending = << >>
      BY <1>1, <3>1, <3>3, <3>6, <3>7
    <3>. QED  BY <2>1, <3>5, <3>8
  <2>. QED  BY <2>2, <2>3
<1>11. PICK o \in Orders(e, p) : o = u[N] /\ (ToGo(o) + N <= N \/ o.pending = << >>)
  <2>1. N \in 0..N
    BY <1>1
  <2>. QED  BY <1>10, <2>1
<1>12. o.pending = << >> /\ Held(o) = {}
  <2>1. Len(o.pending) \in Nat /\ Cardinality(Unparked(o)) \in Nat /\ o.pending \in Seq(PendingSet(e))
    BY OrderIs, UnparkedIs
  <2>2. CASE ToGo(o) + N <= N
    <3>1. Len(o.pending) = 0
      BY <1>1, <2>1, <2>2 DEF ToGo
    <3>. QED  BY <2>1, <3>1 DEF Held, Range
  <2>3. CASE o.pending = << >>
    BY <2>3 DEF Held, Range
  <2>. QED  BY <1>11, <2>2, <2>3
<1>13. OrderFor(e, p, o.given)
  <2>1. StepsOK(e, p, o.given) /\ \A k \in DOMAIN o.given : Prepared(p, o.given, k)
    BY OrderIs DEF GivenOK
  <2>2. \A x \in Batch(p) : \E q \in Given(o) : q.original = x /\ ~ q.toTemp
    BY <1>12, OrderIs DEF AllThere
  <2>3. \A x \in Batch(p) : \E k \in DOMAIN o.given : o.given[k].original = x /\ ~ o.given[k].toTemp
    BY <2>2 DEF Given, Range
  <2>4. ~ Tangled(p) => \A k \in DOMAIN o.given : ~ o.given[k].toTemp
    BY OrderIs DEF Straight
  <2>. QED  BY <2>1, <2>3, <2>4 DEF OrderFor
<1>. QED  BY <1>5, <1>11, <1>13

-----------------------------------------------------------------------------
(* The plan as the form leaves it.                                            *)

\* The plan that is made has every item once, and is sound when it shows no problem.
LEMMA PlanIs ==
    ASSUME \A m, n \in existing : SameName(m, n) => m = n,
           NEW batch \in SUBSET existing, Cardinality(batch) \in 1..MaxBatch,
           NEW sources \in SetToSeqs(batch), NEW wanted \in [DOMAIN sources -> Names \cup {Invalid}]
    PROVE  /\ PlanFor(existing, BuildRenamePlan(sources, wanted))
           /\ ~ HasProblems(BuildRenamePlan(sources, wanted)) =>
                 SoundPlan(existing, BuildRenamePlan(sources, wanted))
<1>. DEFINE N == Cardinality(batch)
            first == [i \in DOMAIN sources |-> [old |-> sources[i], new |-> wanted[i],
                                                status |-> FirstStatus(sources[i], wanted[i])]]
<1>1. N \in Nat /\ N <= MaxBatch /\ sources \in [1..N -> batch]
      /\ \A i, j \in 1..N : sources[i] = sources[j] => i = j
  BY BatchAssumption DEF SetToSeqs
<1>. HIDE DEF N
<1>2. PICK f : f = first
  OBVIOUS
<1>3. PICK p : p = BuildRenamePlan(sources, wanted)
  OBVIOUS
<1>4. DOMAIN f = 1..N /\ \A i \in 1..N : f[i] = [old |-> sources[i], new |-> wanted[i],
                                                  status |-> FirstStatus(sources[i], wanted[i])]
  BY <1>1, <1>2
<1>5. p = [i \in DOMAIN f |-> IF Duplicated(f, i) THEN [f[i] EXCEPT !.status = "Duplicate"]
                              ELSE IF Clashes(f, i) THEN [f[i] EXCEPT !.status = "Clash"] ELSE f[i]]
  BY <1>2, <1>3 DEF BuildRenamePlan
<1>6. ASSUME NEW i \in 1..N
      PROVE  /\ f[i].old = sources[i] /\ f[i].new = wanted[i] /\ f[i].status = FirstStatus(sources[i], wanted[i])
             /\ sources[i] \in existing /\ wanted[i] \in Names \cup {Invalid}
             /\ f[i].status \in {"Ok", "CaseOnly", "Unchanged", "Invalid"}
  BY <1>1, <1>4 DEF FirstStatus
<1>7. ASSUME NEW i \in 1..N
      PROVE  /\ p[i] \in PlanItems(existing) /\ p[i].old = f[i].old /\ p[i].new = f[i].new
             /\ p[i].status = IF Duplicated(f, i) THEN "Duplicate" ELSE IF Clashes(f, i) THEN "Clash" ELSE f[i].status
  <2>1. f[i] = [old |-> sources[i], new |-> wanted[i], status |-> FirstStatus(sources[i], wanted[i])]
    BY <1>4
  <2>2. p[i] = IF Duplicated(f, i) THEN [f[i] EXCEPT !.status = "Duplicate"]
               ELSE IF Clashes(f, i) THEN [f[i] EXCEPT !.status = "Clash"] ELSE f[i]
    BY <1>4, <1>5
  <2>. QED  BY <1>6, <2>1, <2>2 DEF PlanItems
<1>8. p \in Seq(PlanItems(existing)) /\ Len(p) = N /\ DOMAIN p = 1..N
  <2>1. p \in [1..N -> PlanItems(existing)]
    <3>1. DOMAIN p = 1..N /\ p = [i \in 1..N |-> p[i]]
      BY <1>4, <1>5
    <3>. QED  BY <1>7, <3>1
  <2>. QED  BY <1>1, <2>1
<1>9. \A i \in Renames(p) : /\ i \in 1..N /\ p[i].status = f[i].status /\ IsRename(f[i].status)
                            /\ ~ Duplicated(f, i) /\ ~ Clashes(f, i)
  BY <1>7, <1>8 DEF Renames, IsRename
<1>10. PlanFor(existing, p)
  <2>1. \A i, j \in DOMAIN p : p[i].old = p[j].old => i = j
    BY <1>1, <1>6, <1>7, <1>8
  <2>2. ASSUME NEW i \in Renames(p)
        PROVE  /\ p[i].new # p[i].old /\ p[i].new # Invalid
               /\ p[i].status = "CaseOnly" <=> SameName(p[i].new, p[i].old)
    BY <1>6, <1>7, <1>9 DEF FirstStatus, IsRename
  <2>. QED  BY <1>1, <1>8, <2>1, <2>2 DEF PlanFor
<1>11. ASSUME ~ HasProblems(p) PROVE SoundPlan(existing, p)
  <2>1. \A i \in 1..N : p[i].status = f[i].status /\ ~ Duplicated(f, i) /\ ~ Clashes(f, i) /\ f[i].status # "Invalid"
    BY <1>7, <1>8, <1>11 DEF HasProblems
  <2>2. \A i \in DOMAIN p : i \notin Renames(p) => p[i].new = p[i].old
    BY <1>6, <1>7, <1>8, <2>1 DEF Renames, IsRename, FirstStatus
  <2>3. \A i \in Renames(p) : \A j \in DOMAIN p : j # i => ~ SameName(p[i].new, p[j].new)
    BY <1>4, <1>7, <1>8, <1>9, <2>1 DEF Duplicated
  <2>4. ASSUME NEW i \in Renames(p), NEW n \in existing, p[i].status = "Ok", SameName(n, p[i].new)
        PROVE  \E j \in DOMAIN p : SameName(p[j].old, p[i].new)
    <3>1. i \in 1..N /\ f[i].status = "Ok" /\ ~ Clashes(f, i) /\ f[i].new = p[i].new
      BY <1>7, <1>9, <2>4
    <3>2. PICK j \in DOMAIN f : SameName(f[j].old, f[i].new)
      BY <2>4, <3>1 DEF Clashes
    <3>. QED  BY <1>4, <1>7, <1>8, <3>1, <3>2
  <2>. QED  BY <1>10, <2>2, <2>3, <2>4 DEF SoundPlan
<1>. QED  BY <1>3, <1>10, <1>11

-----------------------------------------------------------------------------
(* The invariant.                                                             *)

Running == {"step", "attempt", "error"}
Confirmed == Running \cup {"putBack", "journal"}
ParkedSet == [temp : AnyName(existing), original : AnyName(existing)]
Away == Range(parked)

OutcomeSet == [succeeded : Nat, skipped : Nat, cancelled : BOOLEAN, stranded : SUBSET AnyName(existing)]

\* The folder has a name in one spelling; the plan is what the form and the
\* preview let through.
FolderInv ==
    /\ outcome \in OutcomeSet /\ faults \in Nat /\ others \in Nat
    /\ existing \in Starts
    /\ \A m, n \in DOMAIN dir : SameName(m, n) => m = n
    /\ phase \in {"form", "preview", "end"} \cup Confirmed
    /\ phase # "form" => PlanFor(existing, plan) /\ (~ HasProblems(plan) => SoundPlan(existing, plan))
    /\ phase \in Confirmed => SoundPlan(existing, plan)

\* Until the preview is confirmed nothing is renamed.
BeforeInv ==
    phase \in {"form", "preview"} =>
        /\ steps = << >> /\ parked = << >> /\ faults = 0
        /\ outcome = [succeeded |-> 0, skipped |-> 0, cancelled |-> FALSE, stranded |-> {}]
        /\ ~ journal.cleared /\ journal.items = {}
        /\ \A n \in DOMAIN dir : dir[n] = n \/ dir[n] \notin existing
        /\ phase = "form" => others = 0
        /\ others = 0 => dir = [n \in existing |-> n]

\* The steps to come, and what is under a temporary name, are in nobody's way:
\* where a step or a put-back takes its item from, no other item of the folder is.
StepsInv ==
    /\ parked \in Seq(ParkedSet)
    /\ phase \in Running =>
          /\ StepsOK(existing, plan, steps)
          /\ \A k \in DOMAIN steps : \A n \in DOMAIN dir :
                SameName(n, steps[k].from) => dir[n] = steps[k].original \/ dir[n] \notin existing
          /\ \A r \in Away : \A j \in DOMAIN steps : ~ SameName(r.temp, steps[j].to)
    /\ phase \in {"attempt", "error"} => steps # << >>
    /\ phase \in Confirmed => \A r \in Away :
          /\ r.original \in Batch(plan) /\ Fresh(existing, plan, r.temp)
          /\ \A n \in DOMAIN dir :
                SameName(n, r.temp) => dir[n] = r.original \/ dir[n] \notin existing
    /\ phase = "journal" => parked = << >>

\* Every item that is in the folder has its first name or its new one, or is
\* known to be under a temporary name, or is reported.
PlacesInv ==
    phase \in Confirmed =>
        \A n \in DOMAIN dir : dir[n] \in existing =>
            \/ n = dir[n]
            \/ IsItem(plan, dir[n], n)
            \/ \E r \in Away : r.temp = n /\ r.original = dir[n]
            \/ dir[n] \in outcome.stranded

\* With no other program at work no item is lost.
KeptInv ==
    others = 0 =>
        /\ \A m, n \in DOMAIN dir : dir[m] = dir[n] => m = n
        /\ \A n \in DOMAIN dir : dir[n] \in existing
        /\ \A x \in existing : \E n \in DOMAIN dir : dir[n] = x

\* When no name is tangled nothing is put under a temporary name.
UntangledInv ==
    phase \in Confirmed /\ ~ Tangled(plan) =>
        /\ parked = << >> /\ outcome.stranded = {}
        /\ phase \in Running => \A k \in DOMAIN steps : ~ steps[k].toTemp

\* In a batch that nothing disturbs the next step of every item finds it where
\* it takes it from, and nobody where it brings it.
Foremost(k) == \A j \in DOMAIN steps : j < k => steps[j].original # steps[k].original
Carried == {i \in Renames(plan) : \A k \in DOMAIN steps : steps[k].original # plan[i].old}
CarriedInv ==
    phase \in Confirmed /\ ~ outcome.cancelled /\ faults = 0 /\ others = 0 =>
        /\ phase # "error"
        /\ phase \in Running =>
              /\ \A k \in DOMAIN steps : Foremost(k) =>
                    /\ Has(steps[k].from, steps[k].original)
                    /\ steps[k].fromTemp => IsParked(steps[k].from)
              /\ \A k \in DOMAIN steps : \A n \in DOMAIN dir : SameName(n, steps[k].to) =>
                    \/ dir[n] = steps[k].original
                    \/ \E j \in DOMAIN steps : j < k /\ steps[j].original = dir[n]
              /\ \A r \in Away : \E j \in DOMAIN steps : steps[j].fromTemp /\ steps[j].from = r.temp
              /\ \A i \in Renames(plan) :
                    \/ \E k \in DOMAIN steps : steps[k].original = plan[i].old /\ ~ steps[k].toTemp
                    \/ i \in Carried /\ Has(plan[i].new, plan[i].old)
              /\ outcome.succeeded = Cardinality(Carried)
        /\ phase \in {"putBack", "journal"} =>
              /\ parked = << >>
              /\ \A i \in Renames(plan) : Has(plan[i].new, plan[i].old)
              /\ outcome.succeeded = Cardinality(Renames(plan))

BatchInv ==
    /\ FolderInv /\ BeforeInv /\ StepsInv /\ PlacesInv /\ KeptInv /\ UntangledInv /\ CarriedInv
    /\ UndoRecordsRenamed

-----------------------------------------------------------------------------
(* Lemmas about one step.                                                     *)

\* The item whose name is s gets the name n, which no other item has.
Moves(s, n) ==
    /\ s \in DOMAIN dir /\ DOMAIN dir' = (DOMAIN dir \ {s}) \cup {n} /\ dir'[n] = dir[s]
    /\ \A m \in DOMAIN dir \ {s} : ~ SameName(m, n) /\ m # n /\ dir'[m] = dir[m]

\* What renaming does to a folder: the one item whose name it is moves, and the
\* folder still has a name in one spelling.
LEMMA RenamedIs ==
    ASSUME \A m, n \in DOMAIN dir : SameName(m, n) => m = n,
           NEW from, NEW to, CanRename(from, to), dir' = Renamed(from, to)
    PROVE  /\ \E s : Moves(s, to) /\ SameName(s, from) /\ \A m \in DOMAIN dir : SameName(m, from) => m = s
           /\ \A m, n \in DOMAIN dir' : SameName(m, n) => m = n
<1>1. PICK s \in DOMAIN dir : s = Spelled(from) /\ SameName(s, from)
  BY DEF CanRename, Exists, Spelled
<1>2. \A m \in DOMAIN dir : SameName(m, from) => m = s
  BY <1>1 DEF SameName
<1>3. \A n \in DOMAIN dir \ {s} : ~ SameName(n, to) /\ n # to
  BY <1>1, <1>2 DEF CanRename, Exists, SameName
<1>4. dir' = [n \in (DOMAIN dir \ {s}) \cup {to} |-> IF n = to THEN dir[s] ELSE dir[n]]
  BY <1>1 DEF Renamed
<1>5. Moves(s, to)
  BY <1>3, <1>4 DEF Moves
<1>6. \A m, n \in DOMAIN dir' : SameName(m, n) => m = n
  BY <1>3, <1>4 DEF SameName
<1>. QED  BY <1>1, <1>2, <1>5, <1>6

\* Moving an item loses none.
LEMMA MovedKeeps ==
    ASSUME KeptInv, NEW s, NEW n, Moves(s, n), UNCHANGED <<existing, others>>
    PROVE  KeptInv'
<1>. SUFFICES ASSUME others = 0
              PROVE  /\ \A l, m \in DOMAIN dir' : dir'[l] = dir'[m] => l = m
                     /\ \A m \in DOMAIN dir' : dir'[m] \in existing
                     /\ \A x \in existing : \E m \in DOMAIN dir' : dir'[m] = x
  BY DEF KeptInv
<1>1. /\ \A l, m \in DOMAIN dir : dir[l] = dir[m] => l = m
      /\ \A m \in DOMAIN dir : dir[m] \in existing
      /\ \A x \in existing : \E m \in DOMAIN dir : dir[m] = x
  BY DEF KeptInv
<1>2. \A x \in existing : \E m \in DOMAIN dir' : dir'[m] = x
  BY <1>1 DEF Moves
<1>3. \A l, m \in DOMAIN dir' : dir'[l] = dir'[m] => l = m
  BY <1>1 DEF Moves
<1>4. \A m \in DOMAIN dir' : dir'[m] \in existing
  BY <1>1 DEF Moves
<1>. QED  BY <1>2, <1>3, <1>4

\* What is left of the steps is in order too.
LEMMA TailSteps ==
    ASSUME NEW e, NEW p, NEW g, StepsOK(e, p, g), g # << >>
    PROVE  /\ StepsOK(e, p, Tail(g)) /\ 1 \in DOMAIN g /\ StepOK(e, p, g[1]) /\ g[1] \in StepSet(e)
           /\ \A k \in DOMAIN Tail(g) : /\ k + 1 \in DOMAIN g /\ Tail(g)[k] = g[k + 1] /\ Follow(g[1], g[k + 1])
           /\ \A k \in DOMAIN g : k # 1 => \E l \in DOMAIN Tail(g) : k = l + 1 /\ Tail(g)[l] = g[k]
           /\ \A k \in DOMAIN g : ~ (k < 1)
           /\ \A j, k \in DOMAIN Tail(g) : j < k <=> j + 1 < k + 1
<1>1. g \in Seq(StepSet(e))
  BY DEF StepsOK
<1>2. PICK r : r = Tail(g)
  OBVIOUS
<1>3. /\ r \in Seq(StepSet(e)) /\ Len(g) \in Nat \ {0} /\ DOMAIN g = 1..Len(g) /\ DOMAIN r = 1..(Len(g) - 1)
      /\ 1 \in DOMAIN g /\ \A k \in DOMAIN r : k + 1 \in DOMAIN g /\ r[k] = g[k + 1]
  BY <1>1, <1>2, TailIs
<1>4. /\ \A k \in DOMAIN r : 1 < k + 1
      /\ \A j, k \in DOMAIN r : j < k <=> j + 1 < k + 1
      /\ \A k \in DOMAIN g : ~ (k < 1)
  BY <1>3
<1>5. \A k \in DOMAIN g : k # 1 => k - 1 \in DOMAIN r /\ k = (k - 1) + 1
  BY <1>3
<1>6. StepsOK(e, p, r)
  <2>1. \A k \in DOMAIN r : StepOK(e, p, r[k])
    BY <1>3 DEF StepsOK
  <2>2. \A j, k \in DOMAIN r : j < k => Follow(r[j], r[k])
    BY <1>3, <1>4 DEF StepsOK
  <2>. QED  BY <1>3, <2>1, <2>2 DEF StepsOK
<1>7. StepOK(e, p, g[1]) /\ g[1] \in StepSet(e) /\ \A k \in DOMAIN r : Follow(g[1], g[k + 1])
  <2>1. g[1] \in StepSet(e)
    BY <1>1, <1>3
  <2>. QED  BY <1>3, <1>4, <2>1 DEF StepsOK
<1>. QED  BY <1>2, <1>3, <1>4, <1>5, <1>6, <1>7

\* The entries kept of a sequence, as a set.
LEMMA OnlyRange ==
    ASSUME NEW T, NEW s \in Seq(T), NEW kept
    PROVE  Only(s, kept) \in Seq(T) /\ Range(Only(s, kept)) = {s[k] : k \in kept \cap DOMAIN s}
<1>1. PICK r : r = Only(s, kept)
  OBVIOUS
<1>2. r \in Seq(T)
  BY <1>1, OnlyIs
<1>3. PICK h \in Bijection(1..Len(r), kept \cap DOMAIN s) : \A n \in 1..Len(r) : r[n] = s[h[n]]
  <2>1. PICK K : K = kept \cap DOMAIN s
    OBVIOUS
  <2>. QED  BY <1>1, <2>1, OnlyIs
<1>4. DOMAIN r = 1..Len(r)
  BY <1>2
<1>5. /\ \A n \in DOMAIN r : h[n] \in kept \cap DOMAIN s /\ r[n] = s[h[n]]
      /\ \A k \in kept \cap DOMAIN s : \E n \in DOMAIN r : h[n] = k
  BY <1>3, <1>4 DEF Bijection, Injection, Surjection
<1>6. Range(r) = {s[k] : k \in kept \cap DOMAIN s}
  <2>1. \A x \in Range(r) : x \in {s[k] : k \in kept \cap DOMAIN s}
    BY <1>5 DEF Range
  <2>2. \A x \in {s[k] : k \in kept \cap DOMAIN s} : x \in Range(r)
    BY <1>5 DEF Range
  <2>. QED  BY <2>1, <2>2
<1>. QED  BY <1>1, <1>2, <1>6

\* What is known to be under a temporary name after a step.
LEMMA ParkedAfterIs ==
    ASSUME parked \in Seq(ParkedSet), Now \in StepSet(existing)
    PROVE  /\ ParkedAfter \in Seq(ParkedSet)
           /\ Now.toTemp => /\ \A r \in Away : r \in Range(ParkedAfter)
                            /\ \A r \in Range(ParkedAfter) :
                                  r \in Away \/ (r.temp = Now.to /\ r.original = Now.original)
                            /\ \E r \in Range(ParkedAfter) : r.temp = Now.to /\ r.original = Now.original
           /\ ~ Now.toTemp => \A r : r \in Range(ParkedAfter)
                                        <=> r \in Away /\ ~ (Now.fromTemp /\ r.temp = Now.from)
<1>1. CASE Now.toTemp
  <2>. DEFINE q == [temp |-> Now.to, original |-> Now.original]
  <2>1. q \in ParkedSet /\ q.temp = Now.to /\ q.original = Now.original
    BY DEF StepSet, ParkedSet
  <2>2. ParkedAfter = Append(parked, q)
    BY <1>1 DEF ParkedAfter
  <2>. HIDE DEF q
  <2>3. Append(parked, q) \in Seq(ParkedSet) /\ Range(Append(parked, q)) = Range(parked) \cup {q}
    BY <2>1, AppendIs
  <2>. QED  BY <1>1, <2>1, <2>2, <2>3 DEF Away
<1>2. CASE ~ Now.toTemp
  <2>. DEFINE K == {k \in DOMAIN parked : ~ (Now.fromTemp /\ parked[k].temp = Now.from)}
  <2>1. ParkedAfter = Only(parked, K)
    BY <1>2 DEF ParkedAfter
  <2>2. K \cap DOMAIN parked = K
    OBVIOUS
  <2>3. Only(parked, K) \in Seq(ParkedSet) /\ Range(Only(parked, K)) = {parked[k] : k \in K}
    <3>. HIDE DEF K
    <3>. QED  BY <2>2, OnlyRange
  <2>4. \A r : r \in {parked[k] : k \in K} <=> r \in Away /\ ~ (Now.fromTemp /\ r.temp = Now.from)
    BY DEF Away, Range
  <2>. QED  BY <1>2, <2>1, <2>3, <2>4
<1>. QED  BY <1>1, <1>2

\* Nothing is in a sequence that is empty, and something in every other.
LEMMA NothingParked == ASSUME parked \in Seq(ParkedSet) PROVE parked = << >> <=> Away = {}
<1>1. parked = << >> => Away = {}
  BY DEF Away, Range
<1>2. parked # << >> => 1 \in DOMAIN parked
  OBVIOUS
<1>. QED  BY <1>1, <1>2 DEF Away, Range

-----------------------------------------------------------------------------
(* What each step does: the form and the preview.                             *)

\* Nothing has been renamed at first.
LEMMA BatchStart == Init => BatchInv
<1>. SUFFICES ASSUME Init PROVE BatchInv
  OBVIOUS
<1>1. existing \in Starts /\ dir = [n \in existing |-> n] /\ DOMAIN dir = existing
  BY DEF Init
<1>2. \A m, n \in existing : SameName(m, n) => m = n
  BY <1>1, FolderAssumption
<1>3. phase = "form" /\ phase \notin Confirmed /\ phase \notin Running
  BY DEF Init, Confirmed, Running
<1>4. outcome = [succeeded |-> 0, skipped |-> 0, cancelled |-> FALSE, stranded |-> {}] /\ outcome \in OutcomeSet
  BY DEF Init, OutcomeSet
<1>5. parked = << >> /\ steps = << >> /\ faults = 0 /\ others = 0 /\ journal = [cleared |-> FALSE, items |-> {}]
  BY DEF Init
<1>6. FolderInv
  BY <1>1, <1>2, <1>3, <1>4, <1>5 DEF FolderInv
<1>7. BeforeInv
  BY <1>1, <1>3, <1>4, <1>5 DEF BeforeInv
<1>8. StepsInv
  BY <1>3, <1>5 DEF StepsInv
<1>9. KeptInv
  BY <1>1 DEF KeptInv
<1>10. PlacesInv /\ UntangledInv /\ CarriedInv /\ UndoRecordsRenamed
  BY <1>3 DEF PlacesInv, UntangledInv, CarriedInv, UndoRecordsRenamed
<1>. QED  BY <1>6, <1>7, <1>8, <1>9, <1>10 DEF BatchInv

\* The form makes a plan for the folder as it was when the dialog opened.
LEMMA FormKeeps == BatchInv /\ FillForm => BatchInv'
<1>. SUFFICES ASSUME BatchInv, FillForm PROVE BatchInv'
  OBVIOUS
<1>. USE DEF BatchInv
<1>1. PICK batch \in {b \in SUBSET existing : Cardinality(b) \in 1..MaxBatch} :
         \E sources \in SetToSeqs(batch) : \E wanted \in [DOMAIN sources -> Names \cup {Invalid}] :
             plan' = BuildRenamePlan(sources, wanted)
  BY DEF FillForm
<1>2. PICK sources \in SetToSeqs(batch) : \E wanted \in [DOMAIN sources -> Names \cup {Invalid}] :
         plan' = BuildRenamePlan(sources, wanted)
  BY <1>1
<1>3. \A m, n \in existing : SameName(m, n) => m = n
  BY FolderAssumption DEF FolderInv
<1>4. PlanFor(existing, plan') /\ (~ HasProblems(plan') => SoundPlan(existing, plan'))
  <2>1. PICK wanted \in [DOMAIN sources -> Names \cup {Invalid}] : plan' = BuildRenamePlan(sources, wanted)
    BY <1>2
  <2>. QED  BY <1>1, <1>2, <1>3, <2>1, PlanIs
<1>5. /\ phase = "form" /\ phase' = "preview" /\ phase' \notin Confirmed /\ phase' \notin Running
      /\ UNCHANGED <<dir, existing, steps, parked, outcome, skipAll, journal, faults, others>>
  BY DEF FillForm, Confirmed, Running
<1>6. FolderInv'
  BY <1>4, <1>5 DEF FolderInv, OutcomeSet, AnyName
<1>7. BeforeInv'
  BY <1>5 DEF BeforeInv
<1>8. StepsInv'
  BY <1>5 DEF StepsInv, ParkedSet, AnyName
<1>9. KeptInv'
  BY <1>5 DEF KeptInv
<1>10. PlacesInv' /\ UntangledInv' /\ CarriedInv' /\ UndoRecordsRenamed'
  BY <1>5 DEF PlacesInv, UntangledInv, CarriedInv, UndoRecordsRenamed
<1>. QED  BY <1>6, <1>7, <1>8, <1>9, <1>10

\* Leaving the preview renames nothing and records nothing.
LEMMA LeaveKeeps == BatchInv /\ LeavePreview => BatchInv'
<1>. SUFFICES ASSUME BatchInv, LeavePreview PROVE BatchInv'
  OBVIOUS
<1>. USE DEF BatchInv
<1>1. /\ phase = "preview" /\ phase' = "end" /\ phase' \notin Confirmed /\ phase' \notin Running
      /\ UNCHANGED <<dir, existing, plan, steps, parked, outcome, skipAll, journal, faults, others>>
  BY DEF LeavePreview, Confirmed, Running
<1>2. FolderInv'
  BY <1>1 DEF FolderInv, OutcomeSet, AnyName
<1>3. BeforeInv'
  BY <1>1 DEF BeforeInv
<1>4. StepsInv'
  BY <1>1 DEF StepsInv, ParkedSet, AnyName
<1>5. KeptInv'
  BY <1>1 DEF KeptInv
<1>6. PlacesInv' /\ UntangledInv' /\ CarriedInv'
  BY <1>1 DEF PlacesInv, UntangledInv, CarriedInv
<1>7. UndoRecordsRenamed'
  <2>. SUFFICES ASSUME others = 0, NEW i \in Renames(plan)
                PROVE  i \in journal.items <=> Has(plan[i].new, plan[i].old)
    BY <1>1 DEF UndoRecordsRenamed, Has
  <2>1. journal.items = {} /\ dir = [n \in existing |-> n]
    BY <1>1 DEF BeforeInv
  <2>2. plan[i].new # plan[i].old
    BY <1>1 DEF FolderInv, PlanFor
  <2>. QED  BY <2>1, <2>2 DEF Has
<1>. QED  BY <1>2, <1>3, <1>4, <1>5, <1>6, <1>7

\* The preview lets a sound plan through, and its order of steps is one that can be carried out.
LEMMA ConfirmKeeps == BatchInv /\ Confirm => BatchInv'
<1>. SUFFICES ASSUME BatchInv, Confirm PROVE BatchInv'
  OBVIOUS
<1>. USE DEF BatchInv
<1>1. /\ phase = "preview" /\ phase' = "step" /\ phase' \in Confirmed /\ phase' \in Running
      /\ UNCHANGED <<dir, existing, plan, parked, outcome, skipAll, journal, faults, others>>
      /\ steps' = OrderRenames(plan) /\ ~ HasProblems(plan)
  BY DEF Confirm, Confirmed, Running
<1>2. SoundPlan(existing, plan) /\ PlanFor(existing, plan) /\ existing \in Starts
  BY <1>1 DEF FolderInv
<1>3. OrderFor(existing, plan, steps')
  BY <1>1, <1>2, OrderIsSound
<1>4. PICK g : g = steps'
  OBVIOUS
<1>5. StepsOK(existing, plan, g) /\ \A k \in DOMAIN g : StepOK(existing, plan, g[k]) /\ Prepared(plan, g, k)
  BY <1>3, <1>4 DEF OrderFor, StepsOK
<1>6. /\ steps = << >> /\ parked = << >> /\ Away = {}
      /\ outcome = [succeeded |-> 0, skipped |-> 0, cancelled |-> FALSE, stranded |-> {}]
      /\ \A n \in DOMAIN dir : dir[n] = n \/ dir[n] \notin existing
      /\ others = 0 => dir = [n \in existing |-> n]
  BY <1>1 DEF BeforeInv, Away, Range
<1>7. FolderInv'
  BY <1>1, <1>2 DEF FolderInv, OutcomeSet, AnyName
<1>8. BeforeInv'
  BY <1>1 DEF BeforeInv
<1>9. StepsInv'
  <2>1. Away' = {} /\ parked' = << >> /\ parked' \in Seq(ParkedSet')
    BY <1>1, <1>6 DEF Away
  <2>2. ASSUME NEW k \in DOMAIN g, NEW n \in DOMAIN dir, SameName(n, g[k].from)
        PROVE  dir[n] = g[k].original \/ dir[n] \notin existing
    <3>1. \A m \in existing \ {g[k].original} : ~ SameName(m, g[k].from)
      BY <1>5 DEF StepOK
    <3>. QED  BY <1>6, <2>2, <3>1
  <2>. QED  BY <1>1, <1>4, <1>5, <2>1, <2>2 DEF StepsInv
<1>10. PlacesInv'
  BY <1>1, <1>6 DEF PlacesInv
<1>11. KeptInv'
  BY <1>1 DEF KeptInv
<1>12. UntangledInv'
  BY <1>1, <1>3, <1>4, <1>6 DEF UntangledInv, OrderFor
<1>13. UndoRecordsRenamed'
  BY <1>1 DEF UndoRecordsRenamed
<1>14. CarriedInv'
  <2>. SUFFICES ASSUME others = 0
                PROVE  /\ \A k \in DOMAIN g : Foremost(k)' =>
                             /\ Has(g[k].from, g[k].original)'
                             /\ g[k].fromTemp => IsParked(g[k].from)'
                       /\ \A k \in DOMAIN g : \A n \in DOMAIN dir : SameName(n, g[k].to) =>
                             \/ dir[n] = g[k].original
                             \/ \E j \in DOMAIN g : j < k /\ g[j].original = dir[n]
                       /\ Away' = {}
                       /\ \A i \in Renames(plan) : \E k \in DOMAIN g : g[k].original = plan[i].old /\ ~ g[k].toTemp
                       /\ outcome.succeeded = Cardinality(Carried')
    BY <1>1, <1>4 DEF CarriedInv
  <2>1. DOMAIN dir = existing /\ (\A n \in existing : dir[n] = n) /\ Batch(plan) \subseteq existing
        /\ \A m, n \in existing : SameName(m, n) => m = n
    BY <1>2, <1>6, ItemIs, FolderAssumption
  <2>2. ASSUME NEW k \in DOMAIN g, Foremost(k)'
        PROVE  Has(g[k].from, g[k].original)' /\ ~ g[k].fromTemp
    <3>1. ~ g[k].fromTemp
      BY <1>4, <1>5, <2>2 DEF Prepared, Foremost
    <3>2. g[k].from = g[k].original /\ g[k].original \in Batch(plan)
      BY <1>5, <3>1 DEF StepOK
    <3>. QED  BY <1>1, <2>1, <3>1, <3>2 DEF Has
  <2>3. ASSUME NEW k \in DOMAIN g, NEW n \in DOMAIN dir, SameName(n, g[k].to), n # g[k].original
        PROVE  \E j \in DOMAIN g : j < k /\ g[j].original = dir[n]
    <3>0. g[k].original \in Batch(plan)
      BY <1>5 DEF StepOK
    <3>1. ~ g[k].toTemp
      BY <1>5, <2>1, <2>3 DEF StepOK, Fresh
    <3>2. PICK i \in Renames(plan) : plan[i].old = g[k].original /\ plan[i].new = g[k].to
      BY <1>5, <3>1 DEF StepOK, IsItem
    <3>3. CASE n \in Batch(plan)
      BY <1>5, <2>1, <2>3, <3>1, <3>3 DEF Prepared
    <3>4. CASE n \notin Batch(plan)
      <4>1. CASE plan[i].status = "CaseOnly"
        <5>1. SameName(plan[i].new, plan[i].old)
          BY <1>2, <4>1 DEF PlanFor
        <5>. QED  BY <2>1, <2>3, <3>0, <3>2, <5>1 DEF SameName
      <4>2. CASE plan[i].status = "Ok"
        <5>1. PICK j \in DOMAIN plan : SameName(plan[j].old, plan[i].new)
          BY <1>2, <2>1, <2>3, <3>2, <4>2 DEF SoundPlan
        <5>2. plan[j].old \in existing
          <6>1. plan \in Seq(PlanItems(existing))
            BY <1>2 DEF PlanFor
          <6>2. plan[j] \in PlanItems(existing)
            BY <6>1
          <6>. QED  BY <6>2 DEF PlanItems
        <5>3. plan[j].old = n
          BY <2>1, <2>3, <3>2, <5>1, <5>2 DEF SameName
        <5>4. j \notin Renames(plan) /\ j # i
          BY <3>4, <5>3 DEF Batch
        <5>5. plan[j].new = plan[j].old /\ ~ SameName(plan[i].new, plan[j].new)
          BY <1>2, <5>4 DEF SoundPlan
        <5>. QED  BY <5>1, <5>5 DEF SameName
      <4>. QED  BY <4>1, <4>2 DEF Renames, IsRename
    <3>. QED  BY <3>3, <3>4
  <2>4. ASSUME NEW i \in Renames(plan)
        PROVE  \E k \in DOMAIN g : g[k].original = plan[i].old /\ ~ g[k].toTemp
    BY <1>3, <1>4 DEF OrderFor, Batch
  <2>5. Carried' = {}
    BY <1>1, <1>4, <2>4 DEF Carried
  <2>6. outcome.succeeded = Cardinality(Carried')
    BY <1>6, <2>5, FS_EmptySet
  <2>7. Away' = {}
    BY <1>1, <1>6 DEF Away
  <2>. QED  BY <2>1, <2>2, <2>3, <2>4, <2>6, <2>7
<1>. QED  BY <1>7, <1>8, <1>9, <1>10, <1>11, <1>12, <1>13, <1>14

-----------------------------------------------------------------------------
(* What each step does: the loop.                                             *)

\* A step that is left out leaves the rest of them in order.
LEMMA LeftOut ==
    ASSUME StepsInv, phase \in Running, steps # << >>, steps' = Tail(steps), phase' = "step",
           UNCHANGED <<dir, existing, plan, parked>>
    PROVE  StepsInv'
<1>1. PICK g : g = Tail(steps)
  OBVIOUS
<1>2. StepsOK(existing, plan, steps)
  BY DEF StepsInv
<1>3. StepsOK(existing, plan, g) /\ \A k \in DOMAIN g : k + 1 \in DOMAIN steps /\ g[k] = steps[k + 1]
  BY <1>1, <1>2, TailSteps
<1>4. phase \in Confirmed /\ phase' \in Running \cap Confirmed /\ phase' \notin {"attempt", "error", "journal"}
  BY DEF Running, Confirmed
<1>5. Away' = Away /\ ParkedSet' = ParkedSet
  BY DEF Away, ParkedSet, AnyName
<1>6. \A k \in DOMAIN g : \A n \in DOMAIN dir :
         SameName(n, g[k].from) => dir[n] = g[k].original \/ dir[n] \notin existing
  BY <1>3 DEF StepsInv
<1>7. \A r \in Away : \A j \in DOMAIN g : ~ SameName(r.temp, g[j].to)
  BY <1>3 DEF StepsInv
<1>8. parked \in Seq(ParkedSet) /\ \A r \in Away :
          /\ r.original \in Batch(plan) /\ Fresh(existing, plan, r.temp)
          /\ \A n \in DOMAIN dir : SameName(n, r.temp) => dir[n] = r.original \/ dir[n] \notin existing
  BY <1>4 DEF StepsInv
<1>. QED  BY <1>1, <1>3, <1>4, <1>5, <1>6, <1>7, <1>8 DEF StepsInv

\* The invariant but for the steps, when only the phase, the steps and what is
\* counted change.
LEMMA StillHolds ==
    ASSUME BatchInv, phase \in Confirmed, phase' \in Confirmed, outcome' \in OutcomeSet,
           outcome'.stranded = outcome.stranded, faults' \in Nat,
           UNCHANGED <<dir, existing, plan, parked, others, journal>>,
           phase' \in Running => phase \in Running /\ \A k \in DOMAIN steps' :
                                    \E l \in DOMAIN steps : steps'[k] = steps[l]
    PROVE  /\ FolderInv' /\ BeforeInv' /\ PlacesInv' /\ KeptInv' /\ UntangledInv' /\ UndoRecordsRenamed'
           /\ Away' = Away /\ ParkedSet' = ParkedSet
<1>. USE DEF BatchInv
<1>1. phase' \notin {"form", "preview", "end"}
  BY DEF Confirmed, Running
<1>2. phase \notin {"form", "preview", "end"}
  BY DEF Confirmed, Running
<1>3. FolderInv'
  <2>1. OutcomeSet' = OutcomeSet
    BY DEF OutcomeSet, AnyName
  <2>. QED  BY <1>2, <2>1 DEF FolderInv
<1>4. BeforeInv' /\ UndoRecordsRenamed'
  BY <1>1 DEF BeforeInv, UndoRecordsRenamed
<1>5. Away' = Away /\ ParkedSet' = ParkedSet
  BY DEF Away, ParkedSet, AnyName
<1>6. PlacesInv'
  BY <1>5 DEF PlacesInv
<1>7. KeptInv'
  BY DEF KeptInv
<1>8. UntangledInv'
  BY DEF UntangledInv
<1>. QED  BY <1>3, <1>4, <1>5, <1>6, <1>7, <1>8

\* Going on to the next step, to the end or out of the loop; in a batch that nothing
\* disturbs no step is left out.
LEMMA BeginKeeps == BatchInv /\ BeginStep => BatchInv'
<1>. SUFFICES ASSUME BatchInv, BeginStep PROVE BatchInv'
  OBVIOUS
<1>1. /\ phase = "step" /\ phase \in Running /\ phase \in Confirmed
      /\ UNCHANGED <<dir, existing, plan, parked, skipAll, journal, faults, others>>
  BY DEF BeginStep, Running, Confirmed
<1>2. StepsOK(existing, plan, steps) /\ steps \in Seq(StepSet(existing)) /\ outcome \in OutcomeSet /\ faults \in Nat
  BY <1>1 DEF BatchInv, StepsInv, StepsOK, FolderInv
<1>3. CASE steps = << >> /\ phase' = "putBack" /\ UNCHANGED <<steps, outcome>>
  <2>1. phase' \in Confirmed /\ phase' \notin Running /\ phase' \notin {"attempt", "error", "journal"}
    BY <1>3 DEF Confirmed, Running
  <2>2. /\ FolderInv' /\ BeforeInv' /\ PlacesInv' /\ KeptInv' /\ UntangledInv' /\ UndoRecordsRenamed'
        /\ Away' = Away /\ ParkedSet' = ParkedSet
    BY <1>1, <1>2, <1>3, <2>1, StillHolds
  <2>3. StepsInv'
    BY <1>1, <2>1, <2>2 DEF BatchInv, StepsInv
  <2>4. CarriedInv'
    <3>. SUFFICES ASSUME ~ outcome.cancelled, faults = 0, others = 0
                  PROVE  /\ parked = << >> /\ \A i \in Renames(plan) : Has(plan[i].new, plan[i].old)
                         /\ outcome.succeeded = Cardinality(Renames(plan))
      BY <1>1, <1>3 DEF CarriedInv, Running, Has
    <3>1. /\ \A r \in Away : \E j \in DOMAIN steps : steps[j].fromTemp /\ steps[j].from = r.temp
          /\ \A i \in Renames(plan) :
                \/ \E k \in DOMAIN steps : steps[k].original = plan[i].old /\ ~ steps[k].toTemp
                \/ i \in Carried /\ Has(plan[i].new, plan[i].old)
          /\ outcome.succeeded = Cardinality(Carried)
      BY <1>1 DEF BatchInv, CarriedInv
    <3>2. DOMAIN steps = {}
      BY <1>3
    <3>3. Carried = Renames(plan)
      BY <3>2 DEF Carried
    <3>4. Away = {}
      BY <3>1, <3>2
    <3>5. parked = << >>
      BY <3>4, NothingParked DEF BatchInv, StepsInv
    <3>. QED  BY <3>1, <3>2, <3>3, <3>5
  <2>. QED  BY <2>2, <2>3, <2>4 DEF BatchInv
<1>4. CASE Cancel /\ UNCHANGED steps
  <2>1. /\ phase' = "putBack" /\ outcome' = [outcome EXCEPT !.cancelled = TRUE]
        /\ phase' \in Confirmed /\ phase' \notin Running /\ phase' \notin {"attempt", "error", "journal"}
    BY <1>4 DEF Cancel, Confirmed, Running
  <2>2. outcome' \in OutcomeSet /\ outcome'.stranded = outcome.stranded /\ outcome'.cancelled
    BY <1>2, <2>1 DEF OutcomeSet
  <2>3. /\ FolderInv' /\ BeforeInv' /\ PlacesInv' /\ KeptInv' /\ UntangledInv' /\ UndoRecordsRenamed'
        /\ Away' = Away /\ ParkedSet' = ParkedSet
    BY <1>1, <1>2, <2>1, <2>2, StillHolds
  <2>4. StepsInv'
    BY <1>1, <2>1, <2>3 DEF BatchInv, StepsInv
  <2>5. CarriedInv'
    BY <2>2 DEF CarriedInv
  <2>. QED  BY <2>3, <2>4, <2>5 DEF BatchInv
<1>5. CASE steps # << >> /\ phase' = "attempt" /\ UNCHANGED <<steps, outcome>>
  <2>1. phase' \in Confirmed /\ phase' \in Running /\ phase' \notin {"error", "journal", "putBack"}
    BY <1>5 DEF Confirmed, Running
  <2>2. /\ FolderInv' /\ BeforeInv' /\ PlacesInv' /\ KeptInv' /\ UntangledInv' /\ UndoRecordsRenamed'
        /\ Away' = Away /\ ParkedSet' = ParkedSet
    BY <1>1, <1>2, <1>5, <2>1, StillHolds
  <2>3. StepsInv'
    BY <1>1, <1>5, <2>1, <2>2 DEF BatchInv, StepsInv
  <2>4. CarriedInv'
    <3>1. Carried' = Carried /\ \A k : Foremost(k)' <=> Foremost(k)
      BY <1>1, <1>5 DEF Carried, Foremost
    <3>2. (\A t : IsParked(t)' <=> IsParked(t)) /\ \A n, x : Has(n, x)' <=> Has(n, x)
      BY <1>1 DEF IsParked, Has
    <3>. QED  BY <1>1, <1>5, <2>1, <2>2, <3>1, <3>2 DEF BatchInv, CarriedInv
  <2>. QED  BY <2>2, <2>3, <2>4 DEF BatchInv
<1>6. CASE steps # << >> /\ Now.fromTemp /\ ~ IsParked(Now.from) /\ steps' = Tail(steps)
           /\ UNCHANGED <<phase, outcome>>
  <2>1. phase' = "step"
    BY <1>1, <1>6
  <2>2. \A k \in DOMAIN steps' : \E l \in DOMAIN steps : steps'[k] = steps[l]
    BY <1>2, <1>6, TailSteps
  <2>3. /\ FolderInv' /\ BeforeInv' /\ PlacesInv' /\ KeptInv' /\ UntangledInv' /\ UndoRecordsRenamed'
    BY <1>1, <1>2, <1>6, <2>2, StillHolds
  <2>4. StepsInv'
    BY <1>1, <1>6, <2>1, LeftOut DEF BatchInv
  <2>5. CarriedInv'
    <3>. SUFFICES ASSUME ~ outcome.cancelled, faults = 0, others = 0 PROVE FALSE
      BY <1>1, <1>6 DEF CarriedInv
    <3>1. 1 \in DOMAIN steps /\ \A k \in DOMAIN steps : ~ (k < 1)
      BY <1>2, <1>6, TailSteps
    <3>2. Foremost(1)
      BY <3>1 DEF Foremost
    <3>. QED  BY <1>1, <1>6, <3>1, <3>2 DEF BatchInv, CarriedInv, Now
  <2>. QED  BY <2>3, <2>4, <2>5 DEF BatchInv
<1>. QED  BY <1>3, <1>4, <1>5, <1>6 DEF BeginStep

\* In a batch that nothing disturbs the step at hand can be done.
LEMMA NowCan ==
    ASSUME BatchInv, phase = "attempt", ~ outcome.cancelled, faults = 0, others = 0
    PROVE  /\ CanRename(Now.from, Now.to) /\ Has(Now.from, Now.original)
           /\ Now.fromTemp => IsParked(Now.from)
<1>1. phase \in Running /\ phase \in Confirmed
  BY DEF Running, Confirmed
<1>2. StepsOK(existing, plan, steps) /\ steps # << >>
  BY <1>1 DEF BatchInv, StepsInv
<1>3. 1 \in DOMAIN steps /\ \A k \in DOMAIN steps : ~ (k < 1)
  BY <1>2, TailSteps
<1>4. Has(Now.from, Now.original) /\ (Now.fromTemp => IsParked(Now.from))
  <2>1. Foremost(1)
    BY <1>3 DEF Foremost
  <2>. QED  BY <1>1, <1>3, <2>1 DEF BatchInv, CarriedInv, Now
<1>5. \A n \in DOMAIN dir : SameName(n, Now.to) => dir[n] = Now.original
  BY <1>1, <1>3 DEF BatchInv, CarriedInv, Now
<1>6. Exists(Now.from)
  BY <1>4 DEF Has, Exists, SameName
<1>7. ASSUME Exists(Now.to) PROVE SameName(Now.from, Now.to)
  <2>1. PICK n \in DOMAIN dir : SameName(n, Now.to)
    BY <1>7 DEF Exists
  <2>2. n = Now.from
    BY <1>4, <1>5, <2>1 DEF BatchInv, KeptInv, Has
  <2>. QED  BY <2>1, <2>2
<1>. QED  BY <1>4, <1>6, <1>7 DEF CanRename

\* An item is skipped: its step is left out.
LEMMA SkipKeeps ==
    ASSUME BatchInv, phase \in {"attempt", "error"}, Skip, faults' \in Nat,
           UNCHANGED <<dir, existing, plan, parked, others, journal>>,
           ~ outcome.cancelled /\ faults' = 0 /\ others = 0 => FALSE
    PROVE  BatchInv'
<1>1. /\ phase \in Running /\ phase \in Confirmed /\ steps # << >> /\ steps' = Tail(steps) /\ phase' = "step"
      /\ phase' \in Running /\ phase' \in Confirmed /\ outcome \in OutcomeSet
      /\ StepsOK(existing, plan, steps)
  BY DEF Skip, NextStep, Running, Confirmed, BatchInv, StepsInv, FolderInv
<1>2. /\ outcome' \in OutcomeSet /\ outcome'.stranded = outcome.stranded
      /\ outcome'.cancelled = outcome.cancelled
  BY <1>1 DEF Skip, OutcomeSet
<1>3. \A k \in DOMAIN steps' : \E l \in DOMAIN steps : steps'[k] = steps[l]
  BY ZenonT(60), <1>1, TailSteps
<1>4. /\ FolderInv' /\ BeforeInv' /\ PlacesInv' /\ KeptInv' /\ UntangledInv' /\ UndoRecordsRenamed'
  BY <1>1, <1>2, <1>3, StillHolds
<1>5. StepsInv'
  BY <1>1, LeftOut DEF BatchInv
<1>6. CarriedInv'
  BY <1>2 DEF CarriedInv
<1>. QED  BY <1>4, <1>5, <1>6 DEF BatchInv

\* The error of a step is asked about, or the step is tried again: a batch that
\* nothing disturbs comes to neither.
LEMMA AskedKeeps ==
    ASSUME BatchInv, phase \in {"attempt", "error"}, phase' \in {"attempt", "error"}, faults' \in Nat,
           UNCHANGED <<dir, existing, plan, steps, parked, outcome, others, journal>>,
           ~ outcome.cancelled /\ faults' = 0 /\ others = 0 => FALSE
    PROVE  BatchInv'
<1>1. /\ phase \in Running /\ phase \in Confirmed /\ steps # << >>
      /\ phase' \in Running /\ phase' \in Confirmed /\ phase' # "journal" /\ outcome \in OutcomeSet
  BY DEF Running, Confirmed, BatchInv, StepsInv, FolderInv
<1>2. /\ FolderInv' /\ BeforeInv' /\ PlacesInv' /\ KeptInv' /\ UntangledInv' /\ UndoRecordsRenamed'
      /\ Away' = Away /\ ParkedSet' = ParkedSet
  BY <1>1, StillHolds
<1>3. StepsInv'
  BY <1>1, <1>2 DEF BatchInv, StepsInv
<1>4. CarriedInv'
  BY DEF CarriedInv
<1>. QED  BY <1>2, <1>3, <1>4 DEF BatchInv

\* A try that fails is asked about, or skipped: in a batch that nothing disturbs none fails.
LEMMA FailureKeeps ==
    ASSUME BatchInv, phase = "attempt",
           IF CanRename(Now.from, Now.to) THEN faults' = faults + 1 ELSE UNCHANGED faults,
           IF skipAll THEN Skip ELSE phase' = "error" /\ UNCHANGED <<steps, outcome>>,
           UNCHANGED <<dir, parked, existing, plan, skipAll, journal, others>>
    PROVE  BatchInv'
<1>1. faults \in Nat /\ faults' \in Nat /\ (faults' = 0 => faults = 0 /\ ~ CanRename(Now.from, Now.to))
  BY DEF BatchInv, FolderInv
<1>2. ~ outcome.cancelled /\ faults' = 0 /\ others = 0 => FALSE
  BY <1>1, NowCan
<1>. QED  BY <1>1, <1>2, SkipKeeps, AskedKeeps

\* An answer to the error question: again, skip or cancel.
LEMMA AnswerKeeps == BatchInv /\ AnswerError => BatchInv'
<1>. SUFFICES ASSUME BatchInv, AnswerError PROVE BatchInv'
  OBVIOUS
<1>1. /\ phase = "error" /\ phase \in Confirmed /\ phase \in Running /\ outcome \in OutcomeSet
      /\ faults' \in Nat /\ UNCHANGED <<dir, existing, plan, parked, journal, faults, others>>
  BY DEF AnswerError, BatchInv, FolderInv, Confirmed, Running
<1>2. ~ outcome.cancelled /\ faults' = 0 /\ others = 0 => FALSE
  BY <1>1 DEF BatchInv, CarriedInv
<1>3. CASE phase' = "attempt" /\ UNCHANGED <<steps, outcome, skipAll>>
  BY <1>1, <1>2, <1>3, AskedKeeps
<1>4. CASE Skip
  BY <1>1, <1>2, <1>4, SkipKeeps
<1>5. CASE Cancel /\ UNCHANGED steps
  <2>1. /\ phase' \in Confirmed /\ phase' \notin Running /\ phase' \notin {"attempt", "error", "journal"}
        /\ outcome' \in OutcomeSet /\ outcome'.stranded = outcome.stranded /\ outcome'.cancelled
    BY <1>1, <1>5 DEF Cancel, Confirmed, Running, OutcomeSet
  <2>2. /\ FolderInv' /\ BeforeInv' /\ PlacesInv' /\ KeptInv' /\ UntangledInv' /\ UndoRecordsRenamed'
        /\ Away' = Away /\ ParkedSet' = ParkedSet
    BY <1>1, <2>1, StillHolds
  <2>3. StepsInv'
    BY <1>1, <2>1, <2>2 DEF BatchInv, StepsInv
  <2>4. CarriedInv'
    BY <2>1 DEF CarriedInv
  <2>. QED  BY <2>2, <2>3, <2>4 DEF BatchInv
<1>. QED  BY <1>3, <1>4, <1>5 DEF AnswerError

\* With every parked item put back or reported, none is parked.
LEMMA DoneKeeps == BatchInv /\ ItemsDone => BatchInv'
<1>. SUFFICES ASSUME BatchInv, ItemsDone PROVE BatchInv'
  OBVIOUS
<1>1. /\ phase = "putBack" /\ phase \in Confirmed /\ phase' = "journal" /\ phase' \in Confirmed
      /\ phase' \notin Running /\ phase' \notin {"attempt", "error"} /\ parked = << >>
      /\ UNCHANGED <<dir, existing, plan, steps, parked, outcome, skipAll, journal, faults, others>>
  BY DEF ItemsDone, Confirmed, Running
<1>2. outcome' \in OutcomeSet /\ outcome'.stranded = outcome.stranded /\ faults' \in Nat
  BY <1>1 DEF BatchInv, FolderInv
<1>3. /\ FolderInv' /\ BeforeInv' /\ PlacesInv' /\ KeptInv' /\ UntangledInv' /\ UndoRecordsRenamed'
      /\ Away' = Away /\ ParkedSet' = ParkedSet
  BY <1>1, <1>2, StillHolds
<1>4. StepsInv'
  BY <1>1, <1>3 DEF BatchInv, StepsInv
<1>5. CarriedInv'
  BY <1>1 DEF BatchInv, CarriedInv, Has
<1>. QED  BY <1>3, <1>4, <1>5 DEF BatchInv

\* One item is put back to its first name, or reported.
LEMMA PutBackKeeps == BatchInv /\ PutBack => BatchInv'
<1>. SUFFICES ASSUME BatchInv, PutBack PROVE BatchInv'
  OBVIOUS
<1>1. /\ phase = "putBack" /\ phase \in Confirmed /\ phase' = "putBack" /\ phase \notin Running
      /\ parked # << >> /\ parked' = Tail(parked)
      /\ UNCHANGED <<existing, plan, steps, phase, skipAll, journal, others>>
  BY DEF PutBack, Confirmed, Running
<1>2. PICK q : q = parked[1]
  OBVIOUS
<1>3. parked \in Seq(ParkedSet) /\ ParkedSet' = ParkedSet
  BY <1>1 DEF BatchInv, StepsInv, ParkedSet, AnyName
<1>4. /\ parked' \in Seq(ParkedSet') /\ q \in Away /\ Away' \subseteq Away
      /\ \A r \in Away : r = q \/ r \in Away'
  <2>1. PICK g : g = Tail(parked)
    OBVIOUS
  <2>2. /\ g \in Seq(ParkedSet) /\ 1 \in DOMAIN parked
        /\ DOMAIN parked = 1..Len(parked) /\ Len(parked) \in Nat /\ DOMAIN g = 1..(Len(parked) - 1)
        /\ \A k \in DOMAIN g : k + 1 \in DOMAIN parked /\ g[k] = parked[k + 1]
    BY <1>1, <1>3, <2>1, TailIs
  <2>3. \A k \in DOMAIN parked : k = 1 \/ \E l \in DOMAIN g : g[l] = parked[k]
    <3>1. \A k \in DOMAIN parked : k # 1 => k - 1 \in DOMAIN g /\ (k - 1) + 1 = k
      BY <2>2
    <3>. QED  BY <2>2, <3>1
  <2>4. Away' = Range(g) /\ Away = Range(parked)
    BY <1>1, <2>1 DEF Away
  <2>5. q \in Range(parked) /\ Range(g) \subseteq Range(parked)
    BY <1>2, <2>2 DEF Range
  <2>6. \A r \in Range(parked) : r = q \/ r \in Range(g)
    BY <1>2, <2>3 DEF Range
  <2>. QED  BY <1>1, <1>3, <2>1, <2>2, <2>4, <2>5, <2>6
<1>5. /\ SoundPlan(existing, plan) /\ PlanFor(existing, plan) /\ outcome \in OutcomeSet /\ faults \in Nat
      /\ others \in Nat /\ existing \in Starts /\ \A m, n \in DOMAIN dir : SameName(m, n) => m = n
  BY <1>1 DEF BatchInv, FolderInv, Confirmed, Running
<1>6. \A r \in Away :
          /\ r.original \in Batch(plan) /\ Fresh(existing, plan, r.temp) /\ r.original \in existing
          /\ \A n \in DOMAIN dir : SameName(n, r.temp) => dir[n] = r.original \/ dir[n] \notin existing
  BY <1>1, <1>5, ItemIs DEF BatchInv, StepsInv
<1>7. BeforeInv' /\ UntangledInv' /\ UndoRecordsRenamed'
  BY <1>1 DEF BatchInv, BeforeInv, UntangledInv, UndoRecordsRenamed, Confirmed, Running
<1>8. q.original \in AnyName(existing) /\ AnyName(existing)' = AnyName(existing)
  BY <1>1, <1>4, <1>6 DEF AnyName
<1>9. CASE /\ CanRename(q.temp, q.original) /\ dir' = Renamed(q.temp, q.original)
           /\ UNCHANGED <<outcome, faults>>
  <2>1. /\ \E s : /\ Moves(s, q.original) /\ SameName(s, q.temp)
                  /\ \A m \in DOMAIN dir : SameName(m, q.temp) => m = s
        /\ \A m, n \in DOMAIN dir' : SameName(m, n) => m = n
    BY <1>5, <1>9, RenamedIs
  <2>2. PICK s : Moves(s, q.original) /\ SameName(s, q.temp)
    BY <2>1
  <2>3. KeptInv'
    BY <1>1, <2>2, MovedKeeps DEF BatchInv
  <2>4. /\ s \in DOMAIN dir /\ DOMAIN dir' = (DOMAIN dir \ {s}) \cup {q.original} /\ dir'[q.original] = dir[s]
        /\ \A m \in DOMAIN dir \ {s} : dir'[m] = dir[m]
    BY <2>2 DEF Moves
  <2>5. dir[s] = q.original \/ dir[s] \notin existing
    BY <1>4, <1>6, <2>2, <2>4
  <2>6. FolderInv'
    BY <1>1, <1>5, <1>9, <2>1, <1>8 DEF BatchInv, FolderInv, OutcomeSet
  <2>7. StepsInv'
    <3>1. \A r \in Away' : \A n \in DOMAIN dir' :
             SameName(n, r.temp) => dir'[n] = r.original \/ dir'[n] \notin existing
      BY <1>4, <1>6, <2>4 DEF Fresh
    <3>. QED  BY <1>1, <1>4, <1>6, <3>1 DEF StepsInv
  <2>8. PlacesInv'
    <3>. SUFFICES ASSUME NEW n \in DOMAIN dir', dir'[n] \in existing
                  PROVE  \/ n = dir'[n] \/ IsItem(plan, dir'[n], n)
                         \/ \E r \in Away' : r.temp = n /\ r.original = dir'[n]
                         \/ dir'[n] \in outcome.stranded
      BY <1>1, <1>9 DEF PlacesInv
    <3>1. CASE n = q.original
      BY <2>4, <2>5, <3>1
    <3>2. CASE n \in DOMAIN dir \ {s}
      <4>1. \/ n = dir[n] \/ IsItem(plan, dir[n], n)
            \/ \E r \in Away : r.temp = n /\ r.original = dir[n]
            \/ dir[n] \in outcome.stranded
        BY <1>1, <2>4, <3>2 DEF BatchInv, PlacesInv
      <4>2. n # q.temp
        BY <1>5, <2>2, <2>4, <3>2 DEF SameName
      <4>. QED  BY <1>4, <2>4, <3>2, <4>1, <4>2
    <3>. QED  BY <2>4, <3>1, <3>2
  <2>9. CarriedInv'
    BY <1>1, <1>9 DEF BatchInv, CarriedInv, Running
  <2>. QED  BY <1>7, <2>3, <2>6, <2>7, <2>8, <2>9 DEF BatchInv
<1>10. CASE /\ IF CanRename(q.temp, q.original) THEN faults < MaxFaults /\ faults' = faults + 1
               ELSE UNCHANGED faults
            /\ outcome' = [outcome EXCEPT !.stranded = @ \cup {q.original}] /\ UNCHANGED dir
  <2>1. /\ outcome' \in OutcomeSet' /\ outcome'.stranded = outcome.stranded \cup {q.original}
        /\ outcome'.cancelled = outcome.cancelled /\ faults' \in Nat /\ (faults' = 0 => faults = 0)
    BY <1>5, <1>8, <1>10 DEF OutcomeSet
  <2>2. FolderInv'
    BY <1>1, <1>5, <1>10, <2>1 DEF BatchInv, FolderInv
  <2>3. KeptInv'
    BY <1>1, <1>10 DEF BatchInv, KeptInv
  <2>4. StepsInv'
    BY <1>1, <1>4, <1>6, <1>10 DEF StepsInv
  <2>5. PlacesInv'
    BY <1>1, <1>4, <1>10, <2>1 DEF BatchInv, PlacesInv
  <2>6. CarriedInv'
    BY <1>1, <2>1 DEF BatchInv, CarriedInv, Running
  <2>. QED  BY <1>7, <2>2, <2>3, <2>4, <2>5, <2>6 DEF BatchInv
<1>. QED
  <2>1. \/ /\ CanRename(q.temp, q.original) /\ dir' = Renamed(q.temp, q.original)
           /\ UNCHANGED <<outcome, faults>>
        \/ /\ IF CanRename(q.temp, q.original) THEN faults < MaxFaults /\ faults' = faults + 1
              ELSE UNCHANGED faults
           /\ outcome' = [outcome EXCEPT !.stranded = @ \cup {q.original}] /\ UNCHANGED dir
    BY <1>2 DEF PutBack
  <2>. QED  BY <1>9, <1>10, <2>1

\* With no name tangled, what is seen to have moved is what has its new name.
LEMMA SeenIs ==
    ASSUME BatchInv, phase = "journal", others = 0, ~ Tangled(plan), NEW i \in Renames(plan)
    PROVE  i \in SeenMoved <=> Has(plan[i].new, plan[i].old)
<1>1. phase \in Confirmed
  BY DEF Confirmed
<1>2. /\ SoundPlan(existing, plan) /\ PlanFor(existing, plan) /\ Batch(plan) \subseteq existing
      /\ \A m, n \in existing : SameName(m, n) => m = n
  BY <1>1, ItemIs, FolderAssumption DEF BatchInv, FolderInv
<1>3. Away = {} /\ outcome.stranded = {}
  BY <1>1 DEF BatchInv, UntangledInv, Away, Range
<1>4. \A n \in DOMAIN dir : dir[n] \in existing /\ (n = dir[n] \/ IsItem(plan, dir[n], n))
  BY <1>1, <1>3 DEF BatchInv, PlacesInv, KeptInv
<1>5. /\ \A m, n \in DOMAIN dir : dir[m] = dir[n] => m = n
      /\ \A x \in existing : \E n \in DOMAIN dir : dir[n] = x
  BY DEF BatchInv, KeptInv
<1>6. plan[i].old \in existing /\ IsItem(plan, plan[i].old, plan[i].new) /\ plan[i].new # plan[i].old
  BY <1>2 DEF Batch, IsItem, PlanFor
<1>7. \A n : IsItem(plan, plan[i].old, n) => n = plan[i].new
  BY ZenonT(60), <1>2, <1>6, ItemIs
<1>8. ASSUME Has(plan[i].new, plan[i].old), NEW n \in DOMAIN dir, SameName(n, plan[i].old) PROVE FALSE
  <2>1. n # dir[n]
    <3>. SUFFICES ASSUME n = dir[n] PROVE FALSE
      OBVIOUS
    <3>1. n = plan[i].old
      BY <1>2, <1>4, <1>6, <1>8
    <3>. QED  BY <1>5, <1>6, <1>8, <3>1 DEF Has
  <2>2. PICK j \in Renames(plan) : plan[j].old = dir[n] /\ plan[j].new = n
    BY <1>4, <2>1 DEF IsItem
  <2>3. plan[j].status = "CaseOnly" \/ plan[j].status = "Ok"
    BY DEF Renames, IsRename
  <2>4. CASE plan[j].status = "CaseOnly"
    BY <2>4 DEF Tangled
  <2>5. CASE plan[j].status = "Ok" /\ j # i
    BY <1>8, <2>2, <2>5 DEF Tangled, Renames
  <2>6. CASE j = i
    <3>1. plan[i].status = "CaseOnly"
      BY <1>2, <1>8, <2>2, <2>6 DEF PlanFor
    <3>. QED  BY <3>1 DEF Tangled
  <2>. QED  BY <2>3, <2>4, <2>5, <2>6
<1>9. ASSUME Has(plan[i].new, plan[i].old) PROVE i \in SeenMoved
  <2>1. Exists(plan[i].new)
    BY <1>9 DEF Has, Exists, SameName
  <2>2. ~ Exists(plan[i].old)
    BY <1>8, <1>9 DEF Exists
  <2>. QED  BY <2>1, <2>2 DEF SeenMoved
<1>10. ASSUME i \in SeenMoved PROVE Has(plan[i].new, plan[i].old)
  <2>1. PICK n \in DOMAIN dir : dir[n] = plan[i].old
    BY <1>5, <1>6
  <2>2. n # plan[i].old
    BY <1>10, <2>1 DEF SeenMoved, Exists, SameName
  <2>. QED  BY <1>4, <1>7, <2>1, <2>2 DEF Has
<1>. QED  BY <1>9, <1>10

\* What the journal is told is what was renamed.
LEMMA RecordKeeps == BatchInv /\ RecordUndo => BatchInv'
<1>. SUFFICES ASSUME BatchInv, RecordUndo PROVE BatchInv'
  OBVIOUS
<1>1. /\ phase = "journal" /\ phase' = "end" /\ phase' \notin Confirmed /\ phase' \notin Running
      /\ phase \in Confirmed
      /\ journal' = [cleared |-> Tangled(plan), items |-> IF Tangled(plan) THEN {} ELSE SeenMoved]
      /\ UNCHANGED <<dir, existing, plan, steps, parked, outcome, skipAll, faults, others>>
  BY DEF RecordUndo, Confirmed, Running
<1>2. FolderInv'
  BY <1>1 DEF BatchInv, FolderInv, OutcomeSet, AnyName
<1>3. BeforeInv' /\ PlacesInv' /\ UntangledInv' /\ CarriedInv'
  BY <1>1 DEF BeforeInv, PlacesInv, UntangledInv, CarriedInv
<1>4. StepsInv'
  BY <1>1 DEF BatchInv, StepsInv, ParkedSet, AnyName
<1>5. KeptInv'
  BY <1>1 DEF BatchInv, KeptInv
<1>6. UndoRecordsRenamed'
  <2>. SUFFICES ASSUME others = 0, ~ Tangled(plan), NEW i \in Renames(plan)
                PROVE  i \in SeenMoved <=> Has(plan[i].new, plan[i].old)
    BY <1>1 DEF UndoRecordsRenamed, Has
  <2>. QED  BY <1>1, SeenIs
<1>. QED  BY <1>2, <1>3, <1>4, <1>5, <1>6 DEF BatchInv

\* Another program's item is none of the folder's first ones.
LEMMA OtherKeeps == BatchInv /\ OtherProgram => BatchInv'
<1>. SUFFICES ASSUME BatchInv, OtherProgram PROVE BatchInv'
  OBVIOUS
<1>1. /\ phase \notin {"form", "end"} /\ others \in Nat /\ others' = others + 1 /\ others' # 0 /\ others' \in Nat
      /\ UNCHANGED <<existing, plan, steps, parked, phase, outcome, skipAll, journal, faults>>
  BY DEF OtherProgram, BatchInv, FolderInv
<1>2. /\ \A n \in DOMAIN dir' : dir'[n] \notin existing \/ (n \in DOMAIN dir /\ dir'[n] = dir[n])
      /\ \A m, n \in DOMAIN dir' : SameName(m, n) => m = n
  <2>0. existing \in Starts /\ \A m, n \in DOMAIN dir : SameName(m, n) => m = n
    BY DEF BatchInv, FolderInv
  <2>1. ASSUME NEW n \in Names, ~ Exists(n), dir' = [m \in DOMAIN dir \cup {n} |-> IF m = n THEN Other ELSE dir[m]]
        PROVE  /\ \A l \in DOMAIN dir' : dir'[l] \notin existing \/ (l \in DOMAIN dir /\ dir'[l] = dir[l])
               /\ \A l, m \in DOMAIN dir' : SameName(l, m) => l = m
    <3>1. Other \notin existing
      BY <2>0, FolderAssumption
    <3>. QED  BY <2>0, <2>1, <3>1 DEF Exists, SameName
  <2>2. ASSUME NEW n \in DOMAIN dir, dir' = Restrict(dir, DOMAIN dir \ {n})
        PROVE  /\ \A l \in DOMAIN dir' : dir'[l] \notin existing \/ (l \in DOMAIN dir /\ dir'[l] = dir[l])
               /\ \A l, m \in DOMAIN dir' : SameName(l, m) => l = m
    BY <2>0, <2>2 DEF Restrict
  <2>. QED  BY <2>1, <2>2 DEF OtherProgram
<1>3. Away' = Away /\ ParkedSet' = ParkedSet /\ OutcomeSet' = OutcomeSet
  BY <1>1 DEF Away, ParkedSet, OutcomeSet, AnyName
<1>4. FolderInv'
  BY <1>1, <1>2, <1>3 DEF BatchInv, FolderInv
<1>5. BeforeInv'
  BY <1>1, <1>2 DEF BatchInv, BeforeInv
<1>6. StepsInv'
  BY <1>1, <1>2, <1>3 DEF BatchInv, StepsInv
<1>7. PlacesInv'
  BY <1>1, <1>2, <1>3 DEF BatchInv, PlacesInv
<1>8. KeptInv' /\ CarriedInv' /\ UndoRecordsRenamed'
  BY <1>1 DEF KeptInv, CarriedInv, UndoRecordsRenamed
<1>9. UntangledInv'
  BY <1>1 DEF BatchInv, UntangledInv
<1>. QED  BY <1>4, <1>5, <1>6, <1>7, <1>8, <1>9 DEF BatchInv

-----------------------------------------------------------------------------
(* What a step of the batch that is done does.                                *)

\* The step at hand is done: the item whose name is `s` moves.
Done(s) ==
    /\ phase = "attempt" /\ phase' = "step" /\ steps' = Tail(steps) /\ parked' = ParkedAfter
    /\ Moves(s, Now.to) /\ SameName(s, Now.from)
    /\ \A m \in DOMAIN dir : SameName(m, Now.from) => m = s
    /\ outcome' = IF Now.toTemp THEN outcome ELSE [outcome EXCEPT !.succeeded = @ + 1]
    /\ UNCHANGED <<existing, plan, skipAll, journal, faults, others>>

\* What holds of the step at hand and of those after it.
LEMMA DoneIs ==
    ASSUME BatchInv, NEW s, Done(s)
    PROVE  /\ phase \in Running /\ phase \in Confirmed /\ phase' \in Running /\ phase' \in Confirmed
           /\ phase' \notin {"form", "preview", "end", "attempt", "error", "putBack", "journal"}
           /\ SoundPlan(existing, plan) /\ StepsOK(existing, plan, steps) /\ steps # << >>
           /\ Now \in StepSet(existing) /\ StepOK(existing, plan, Now) /\ Now.original \in Batch(plan)
           /\ 1 \in DOMAIN steps
           /\ \A k \in DOMAIN steps' : /\ k + 1 \in DOMAIN steps /\ steps'[k] = steps[k + 1]
                                       /\ Follow(Now, steps[k + 1])
           /\ \A k \in DOMAIN steps : k # 1 => \E l \in DOMAIN steps' : k = l + 1 /\ steps'[l] = steps[k]
           /\ s \in DOMAIN dir /\ DOMAIN dir' = (DOMAIN dir \ {s}) \cup {Now.to} /\ dir'[Now.to] = dir[s]
           /\ \A m \in DOMAIN dir \ {s} : ~ SameName(m, Now.to) /\ m # Now.to /\ dir'[m] = dir[m]
           /\ dir[s] = Now.original \/ dir[s] \notin existing
           /\ ParkedSet' = ParkedSet /\ parked' \in Seq(ParkedSet')
           /\ Now.toTemp => /\ \A r \in Away : r \in Away'
                            /\ \A r \in Away' : r \in Away \/ (r.temp = Now.to /\ r.original = Now.original)
                            /\ \E r \in Away' : r.temp = Now.to /\ r.original = Now.original
           /\ ~ Now.toTemp => \A r : r \in Away' <=> r \in Away /\ ~ (Now.fromTemp /\ r.temp = Now.from)
<1>1. phase \in Running /\ phase \in Confirmed /\ phase' \in Running /\ phase' \in Confirmed
      /\ phase' \notin {"form", "preview", "end", "attempt", "error", "putBack", "journal"}
  BY DEF Done, Running, Confirmed
<1>2. SoundPlan(existing, plan) /\ StepsOK(existing, plan, steps) /\ steps # << >>
  BY <1>1 DEF BatchInv, FolderInv, StepsInv, Done
<1>3. PICK g : g = Tail(steps)
  OBVIOUS
<1>4. steps' = g
  BY <1>3 DEF Done
<1>5. /\ 1 \in DOMAIN steps /\ StepOK(existing, plan, Now) /\ Now \in StepSet(existing)
      /\ \A k \in DOMAIN g : /\ k + 1 \in DOMAIN steps /\ g[k] = steps[k + 1] /\ Follow(Now, steps[k + 1])
      /\ \A k \in DOMAIN steps : k # 1 => \E l \in DOMAIN g : k = l + 1 /\ g[l] = steps[k]
  <2>1. 1 \in DOMAIN steps /\ StepOK(existing, plan, steps[1]) /\ steps[1] \in StepSet(existing)
    BY <1>2, TailSteps
  <2>2. \A k \in DOMAIN g : k + 1 \in DOMAIN steps /\ g[k] = steps[k + 1] /\ Follow(steps[1], steps[k + 1])
    BY <1>2, <1>3, TailSteps
  <2>3. \A k \in DOMAIN steps : k # 1 => \E l \in DOMAIN g : k = l + 1 /\ g[l] = steps[k]
    <3>1. \A k \in DOMAIN steps : k # 1 => \E l \in DOMAIN Tail(steps) : k = l + 1 /\ Tail(steps)[l] = steps[k]
      BY <1>2, TailSteps
    <3>. QED  BY <1>3, <3>1
  <2>. QED  BY <2>1, <2>2, <2>3 DEF Now
<1>6. Now.original \in Batch(plan)
  BY <1>5 DEF StepOK
<1>7. /\ s \in DOMAIN dir /\ DOMAIN dir' = (DOMAIN dir \ {s}) \cup {Now.to} /\ dir'[Now.to] = dir[s]
      /\ \A m \in DOMAIN dir \ {s} : ~ SameName(m, Now.to) /\ m # Now.to /\ dir'[m] = dir[m]
  BY DEF Done, Moves
<1>8. dir[s] = Now.original \/ dir[s] \notin existing
  BY <1>1, <1>5, <1>7 DEF BatchInv, StepsInv, Done, Now
<1>9. PICK q : q = ParkedAfter
  OBVIOUS
<1>10. parked' = q /\ Away' = Range(q) /\ ParkedSet' = ParkedSet
  BY <1>9 DEF Done, Away, ParkedSet, AnyName
<1>11. parked \in Seq(ParkedSet)
  BY DEF BatchInv, StepsInv
<1>12. /\ q \in Seq(ParkedSet)
       /\ Now.toTemp => /\ \A r \in Away : r \in Range(q)
                        /\ \A r \in Range(q) :
                              r \in Away \/ (r.temp = Now.to /\ r.original = Now.original)
                        /\ \E r \in Range(q) : r.temp = Now.to /\ r.original = Now.original
       /\ ~ Now.toTemp => \A r : r \in Range(q) <=> r \in Away /\ ~ (Now.fromTemp /\ r.temp = Now.from)
  BY <1>5, <1>9, <1>11, ParkedAfterIs
<1>. QED  BY <1>1, <1>2, <1>4, <1>5, <1>6, <1>7, <1>8, <1>10, <1>12

\* The steps after it are still in nobody's way, and nothing is in theirs.
LEMMA DoneSteps == ASSUME BatchInv, NEW s, Done(s) PROVE StepsInv'
<1>1. /\ phase \in Running /\ phase \in Confirmed
      /\ phase' \notin {"form", "preview", "end", "attempt", "error", "putBack", "journal"}
      /\ StepsOK(existing, plan, steps) /\ steps # << >> /\ StepOK(existing, plan, Now)
      /\ Now.original \in Batch(plan) /\ 1 \in DOMAIN steps
      /\ parked' \in Seq(ParkedSet') /\ steps' = Tail(steps)
      /\ UNCHANGED <<existing, plan>>
  BY DoneIs DEF Done
<1>2. PICK g : g = steps'
  OBVIOUS
<1>3. \A k \in DOMAIN g : k + 1 \in DOMAIN steps /\ g[k] = steps[k + 1] /\ Follow(Now, steps[k + 1])
  BY <1>2, DoneIs
<1>4. /\ s \in DOMAIN dir /\ DOMAIN dir' = (DOMAIN dir \ {s}) \cup {Now.to} /\ dir'[Now.to] = dir[s]
      /\ \A m \in DOMAIN dir \ {s} : ~ SameName(m, Now.to) /\ m # Now.to /\ dir'[m] = dir[m]
      /\ dir[s] = Now.original \/ dir[s] \notin existing
  BY DoneIs
<1>5. \A r \in Away' : r \in Away \/ (Now.toTemp /\ r.temp = Now.to /\ r.original = Now.original)
  BY DoneIs
<1>6. StepsOK(existing, plan, g)
  BY <1>1, <1>2, TailSteps
<1>7. ASSUME NEW k \in DOMAIN g, NEW n \in DOMAIN dir', SameName(n, g[k].from)
      PROVE  dir'[n] = g[k].original \/ dir'[n] \notin existing
  <2>1. CASE n = Now.to
    BY <1>3, <1>4, <1>7, <2>1 DEF Follow
  <2>2. CASE n \in DOMAIN dir \ {s}
    BY <1>1, <1>3, <1>4, <1>7, <2>2 DEF BatchInv, StepsInv
  <2>. QED  BY <1>4, <2>1, <2>2
<1>8. ASSUME NEW r \in Away', NEW j \in DOMAIN g PROVE ~ SameName(r.temp, g[j].to)
  <2>1. CASE r \in Away
    BY <1>1, <1>3, <2>1 DEF BatchInv, StepsInv
  <2>2. CASE r.temp = Now.to
    BY <1>3, <2>2 DEF Follow
  <2>. QED  BY <1>5, <2>1, <2>2
<1>9. ASSUME NEW r \in Away'
      PROVE  /\ r.original \in Batch(plan) /\ Fresh(existing, plan, r.temp)
             /\ \A n \in DOMAIN dir' :
                   SameName(n, r.temp) => dir'[n] = r.original \/ dir'[n] \notin existing
  <2>1. CASE r \in Away
    <3>1. /\ r.original \in Batch(plan) /\ Fresh(existing, plan, r.temp) /\ ~ SameName(r.temp, Now.to)
          /\ \A n \in DOMAIN dir :
                SameName(n, r.temp) => dir[n] = r.original \/ dir[n] \notin existing
      BY <1>1, <2>1 DEF BatchInv, StepsInv, Now
    <3>2. ~ SameName(Now.to, r.temp)
      BY <3>1 DEF SameName
    <3>. QED  BY <1>4, <3>1, <3>2
  <2>2. CASE Now.toTemp /\ r.temp = Now.to /\ r.original = Now.original
    BY <1>1, <1>4, <2>2 DEF StepOK
  <2>. QED  BY <1>5, <2>1, <2>2
<1>. QED  BY <1>1, <1>2, <1>6, <1>7, <1>8, <1>9 DEF StepsInv

\* The item has its new name, or is known to be under a temporary one.
LEMMA DonePlaces == ASSUME BatchInv, NEW s, Done(s) PROVE PlacesInv'
<1>1. /\ phase \in Confirmed /\ StepOK(existing, plan, Now) /\ outcome \in OutcomeSet
      /\ UNCHANGED <<existing, plan>> /\ \A m \in DOMAIN dir : SameName(m, Now.from) => m = s
  BY DoneIs DEF Done, BatchInv, FolderInv
<1>2. /\ s \in DOMAIN dir /\ DOMAIN dir' = (DOMAIN dir \ {s}) \cup {Now.to} /\ dir'[Now.to] = dir[s]
      /\ \A m \in DOMAIN dir \ {s} : dir'[m] = dir[m]
      /\ dir[s] = Now.original \/ dir[s] \notin existing
  BY DoneIs
<1>3. outcome'.stranded = outcome.stranded
  BY <1>1 DEF Done, OutcomeSet
<1>4. \A r \in Away : r \in Away' \/ r.temp = Now.from
  BY DoneIs
<1>5. Now.toTemp => \E r \in Away' : r.temp = Now.to /\ r.original = Now.original
  BY DoneIs
<1>. SUFFICES ASSUME NEW n \in DOMAIN dir', dir'[n] \in existing
              PROVE  \/ n = dir'[n] \/ IsItem(plan, dir'[n], n)
                     \/ \E r \in Away' : r.temp = n /\ r.original = dir'[n]
                     \/ dir'[n] \in outcome.stranded
  BY <1>1, <1>3 DEF PlacesInv
<1>6. CASE n = Now.to
  BY <1>1, <1>2, <1>5, <1>6 DEF StepOK
<1>7. CASE n \in DOMAIN dir \ {s}
  <2>1. \/ n = dir[n] \/ IsItem(plan, dir[n], n)
        \/ \E r \in Away : r.temp = n /\ r.original = dir[n]
        \/ dir[n] \in outcome.stranded
    BY <1>1, <1>2, <1>7 DEF BatchInv, PlacesInv
  <2>2. n # Now.from
    BY <1>1, <1>7 DEF SameName
  <2>. QED  BY <1>2, <1>4, <1>7, <2>1, <2>2
<1>. QED  BY <1>2, <1>6, <1>7

\* Without a tangle no item is put under a temporary name.
LEMMA DoneUntangled == ASSUME BatchInv, NEW s, Done(s) PROVE UntangledInv'
<1>. SUFFICES ASSUME ~ Tangled(plan)
              PROVE  /\ parked' = << >> /\ outcome'.stranded = {}
                     /\ \A k \in DOMAIN steps' : ~ steps'[k].toTemp
  BY DEF UntangledInv, Done
<1>1. /\ phase \in Confirmed /\ phase \in Running /\ 1 \in DOMAIN steps /\ outcome \in OutcomeSet
      /\ parked' \in Seq(ParkedSet')
      /\ \A k \in DOMAIN steps' : k + 1 \in DOMAIN steps /\ steps'[k] = steps[k + 1]
  BY DoneIs DEF BatchInv, FolderInv
<1>2. parked = << >> /\ outcome.stranded = {} /\ \A k \in DOMAIN steps : ~ steps[k].toTemp
  BY <1>1 DEF BatchInv, UntangledInv
<1>3. ~ Now.toTemp
  BY <1>1, <1>2 DEF Now
<1>4. Away = {}
  BY <1>2 DEF Away, Range
<1>5. Away' = {}
  BY <1>3, <1>4, DoneIs
<1>6. parked' = << >>
  <2>1. PICK q : q = parked' /\ q \in Seq(ParkedSet')
    BY <1>1
  <2>2. q # << >> => 1 \in DOMAIN q
    BY <2>1
  <2>3. 1 \in DOMAIN q => q[1] \in Away'
    BY <2>1 DEF Away, Range
  <2>. QED  BY <1>5, <2>1, <2>2, <2>3
<1>7. outcome'.stranded = outcome.stranded
  BY <1>1 DEF Done, OutcomeSet
<1>. QED  BY <1>1, <1>2, <1>6, <1>7

\* A batch that nothing disturbs is carried on with: the next step of every item
\* still finds it, and one more item has its new name when this was its last.
LEMMA DoneCarried == ASSUME BatchInv, NEW s, Done(s) PROVE CarriedInv'
<1>2. PICK g : g = steps'
  OBVIOUS
<1>. SUFFICES ASSUME ~ outcome.cancelled, faults = 0, others = 0
              PROVE  /\ \A k \in DOMAIN g : Foremost(k)' =>
                           /\ Has(g[k].from, g[k].original)'
                           /\ g[k].fromTemp => IsParked(g[k].from)'
                     /\ \A k \in DOMAIN g : \A n \in DOMAIN dir' : SameName(n, g[k].to) =>
                           \/ dir'[n] = g[k].original
                           \/ \E j \in DOMAIN g : j < k /\ g[j].original = dir'[n]
                     /\ \A r \in Away' : \E j \in DOMAIN g : g[j].fromTemp /\ g[j].from = r.temp
                     /\ \A i \in Renames(plan) :
                           \/ \E k \in DOMAIN g : g[k].original = plan[i].old /\ ~ g[k].toTemp
                           \/ i \in Carried' /\ Has(plan[i].new, plan[i].old)'
                     /\ outcome'.succeeded = Cardinality(Carried')
  <2>1. phase' = "step" /\ UNCHANGED <<plan, faults, others>>
    BY DEF Done
  <2>2. outcome'.cancelled = outcome.cancelled
    BY DEF Done, BatchInv, FolderInv, OutcomeSet
  <2>. QED  BY <1>2, <2>1, <2>2 DEF CarriedInv
<1>1. /\ phase \in Running /\ phase \in Confirmed /\ phase = "attempt" /\ 1 \in DOMAIN steps
      /\ SoundPlan(existing, plan) /\ PlanFor(existing, plan) /\ StepsOK(existing, plan, steps) /\ steps # << >>
      /\ StepOK(existing, plan, Now) /\ Now.original \in Batch(plan) /\ outcome \in OutcomeSet
      /\ UNCHANGED <<existing, plan>> /\ Now \in StepSet(existing)
  BY ZenonT(60), DoneIs DEF Done, BatchInv, FolderInv, SoundPlan
<1>3. /\ \A k \in DOMAIN g : k + 1 \in DOMAIN steps /\ g[k] = steps[k + 1] /\ Follow(Now, steps[k + 1])
      /\ \A k \in DOMAIN steps : k # 1 => \E l \in DOMAIN g : k = l + 1 /\ g[l] = steps[k]
  BY <1>2, DoneIs
<1>4. /\ s \in DOMAIN dir /\ DOMAIN dir' = (DOMAIN dir \ {s}) \cup {Now.to} /\ dir'[Now.to] = dir[s]
      /\ \A m \in DOMAIN dir \ {s} : ~ SameName(m, Now.to) /\ m # Now.to /\ dir'[m] = dir[m]
  BY DoneIs
<1>5. /\ Has(Now.from, Now.original) /\ \A m \in DOMAIN dir : SameName(m, Now.from) => m = s
  BY <1>1, NowCan DEF Done
<1>6. s = Now.from /\ dir[s] = Now.original
  BY <1>4, <1>5 DEF Has, SameName
<1>7. \A m, n \in DOMAIN dir : dir[m] = dir[n] => m = n
  BY DEF BatchInv, KeptInv
<1>8. /\ \A r \in Away : r \in Away' \/ r.temp = Now.from
      /\ \A r \in Away' : \/ r \in Away /\ (Now.toTemp \/ ~ (Now.fromTemp /\ r.temp = Now.from))
                          \/ Now.toTemp /\ r.temp = Now.to /\ r.original = Now.original
      /\ Now.toTemp => \E r \in Away' : r.temp = Now.to /\ r.original = Now.original
  BY DoneIs
<1>9. /\ \A t : IsParked(t) <=> \E r \in Away : r.temp = t
      /\ \A t : IsParked(t)' <=> \E r \in Away' : r.temp = t
  <2>1. \A t : IsParked(t) <=> \E r \in Away : r.temp = t
    BY DEF IsParked, Away, Range
  <2>2. PICK q : q = parked'
    OBVIOUS
  <2>3. \A t : (\E k \in DOMAIN q : q[k].temp = t) <=> \E r \in Range(q) : r.temp = t
    BY DEF Range
  <2>4. \A t : IsParked(t)' <=> \E k \in DOMAIN q : q[k].temp = t
    BY <2>2 DEF IsParked
  <2>5. Away' = Range(q)
    BY <2>2 DEF Away
  <2>. QED  BY <2>1, <2>3, <2>4, <2>5
<1>10. \A k \in DOMAIN g, j \in DOMAIN g : j < k <=> j + 1 < k + 1
  BY <1>1, <1>2, TailSteps DEF Done
\* The next step of an item: of the one that has moved, or of another.
<1>11. ASSUME NEW k \in DOMAIN g, Foremost(k)'
       PROVE  Has(g[k].from, g[k].original)' /\ (g[k].fromTemp => IsParked(g[k].from)')
  <2>1. CASE steps[k + 1].original = Now.original
    <3>1. Now.toTemp /\ g[k].from = Now.to /\ g[k].original = Now.original
      BY <1>3, <2>1 DEF Follow
    <3>. QED  BY <1>4, <1>6, <1>8, <1>9, <3>1 DEF Has
  <2>2. CASE steps[k + 1].original # Now.original
    <3>1. Foremost(k + 1)
      <4>. SUFFICES ASSUME NEW j \in DOMAIN steps, j < k + 1 PROVE steps[j].original # steps[k + 1].original
        BY DEF Foremost
      <4>1. CASE j = 1
        BY <2>2, <4>1 DEF Now
      <4>2. CASE j # 1
        <5>1. PICK l \in DOMAIN g : j = l + 1 /\ g[l] = steps[j]
          BY <1>3, <4>2
        <5>2. l < k
          BY <1>10, <5>1
        <5>. QED  BY <1>2, <1>3, <1>11, <5>1, <5>2 DEF Foremost
      <4>. QED  BY <4>1, <4>2
    <3>2. /\ Has(g[k].from, g[k].original)
          /\ g[k].fromTemp => IsParked(g[k].from)
      BY <1>1, <1>3, <3>1 DEF BatchInv, CarriedInv
    <3>3. g[k].from \in DOMAIN dir \ {s}
      BY <1>3, <1>6, <2>2, <3>2 DEF Has
    <3>4. g[k].from \in DOMAIN dir' /\ dir'[g[k].from] = g[k].original
      BY <1>4, <3>2, <3>3 DEF Has
    <3>. QED  BY <1>6, <1>8, <1>9, <3>2, <3>3, <3>4 DEF Has
  <2>. QED  BY <2>1, <2>2
<1>12. ASSUME NEW k \in DOMAIN g, NEW n \in DOMAIN dir', SameName(n, g[k].to)
       PROVE  \/ dir'[n] = g[k].original
              \/ \E j \in DOMAIN g : j < k /\ g[j].original = dir'[n]
  <2>1. n # Now.to
    BY <1>3, <1>12 DEF Follow
  <2>2. n \in DOMAIN dir \ {s} /\ dir'[n] = dir[n]
    BY <1>4, <2>1
  <2>3. dir[n] = steps[k + 1].original \/ \E j \in DOMAIN steps : j < k + 1 /\ steps[j].original = dir[n]
    BY <1>1, <1>3, <1>12, <2>2 DEF BatchInv, CarriedInv
  <2>4. ASSUME NEW j \in DOMAIN steps, j < k + 1, steps[j].original = dir[n]
        PROVE  \E l \in DOMAIN g : l < k /\ g[l].original = dir[n]
    <3>1. j # 1
      BY <1>4, <1>6, <1>7, <2>2, <2>4 DEF Now
    <3>2. PICK l \in DOMAIN g : j = l + 1 /\ g[l] = steps[j]
      BY <1>3, <3>1
    <3>. QED  BY <1>10, <2>4, <3>2
  <2>. QED  BY <1>3, <2>2, <2>3, <2>4
\* Once the step at hand is the last one of its item, the item has its new name.
<1>13. ASSUME NEW i \in Renames(plan)
       PROVE  IF plan[i].old # Now.original THEN i \in Carried' <=> i \in Carried
              ELSE /\ i \notin Carried
                   /\ Now.toTemp => \E k \in DOMAIN g : /\ g[k].original = plan[i].old /\ ~ g[k].toTemp
                                                        /\ g[k].fromTemp /\ g[k].from = Now.to
                   /\ ~ Now.toTemp => i \in Carried' /\ Has(plan[i].new, plan[i].old)'
  <2>0. (i \in Carried) <=> \A k \in DOMAIN steps : steps[k].original # plan[i].old
    BY DEF Carried
  <2>1. (i \in Carried') <=> \A k \in DOMAIN g : g[k].original # plan[i].old
    BY <1>1, <1>2 DEF Carried
  <2>2. CASE plan[i].old # Now.original
    BY <1>3, <2>0, <2>1, <2>2 DEF Now
  <2>3. CASE plan[i].old = Now.original
    <3>1. i \notin Carried
      BY <1>1, <2>0, <2>3 DEF Now
    <3>2. PICK k \in DOMAIN steps : steps[k].original = plan[i].old /\ ~ steps[k].toTemp
      BY <1>1, <3>1 DEF BatchInv, CarriedInv
    <3>3. CASE Now.toTemp
      <4>1. PICK l \in DOMAIN g : k = l + 1 /\ g[l] = steps[k]
        BY <1>3, <3>2, <3>3 DEF Now
      <4>. QED  BY <1>3, <2>3, <3>1, <3>2, <3>3, <4>1 DEF Follow
    <3>4. CASE ~ Now.toTemp
      <4>1. i \in Carried'
        BY <1>3, <2>1, <2>3, <3>4 DEF Follow
      <4>2. plan[i].new = Now.to
        <5>1. IsItem(plan, Now.original, Now.to) /\ IsItem(plan, plan[i].old, plan[i].new)
          BY <1>1, <3>4 DEF StepOK, IsItem
        <5>. QED  BY <1>1, <2>3, <5>1, ItemIs
      <4>3. Has(plan[i].new, plan[i].old)'
        BY <1>1, <1>4, <1>6, <2>3, <4>2 DEF Has
      <4>. QED  BY <2>3, <3>1, <3>4, <4>1, <4>3
    <3>. QED  BY <3>3, <3>4
  <2>. QED  BY <2>2, <2>3
<1>14. PICK mine \in Renames(plan) : plan[mine].old = Now.original
  BY <1>1 DEF Batch
<1>15. \A i \in Renames(plan) : i # mine => plan[i].old # Now.original
  BY <1>1, <1>14 DEF PlanFor, Renames
<1>16. ASSUME NEW r \in Away' PROVE \E j \in DOMAIN g : g[j].fromTemp /\ g[j].from = r.temp
  <2>1. CASE r \in Away /\ (Now.toTemp \/ ~ (Now.fromTemp /\ r.temp = Now.from))
    <3>1. PICK j \in DOMAIN steps : steps[j].fromTemp /\ steps[j].from = r.temp
      BY <1>1, <2>1 DEF BatchInv, CarriedInv
    <3>2. j # 1
      BY <1>1, <2>1, <3>1 DEF StepOK, Now
    <3>. QED  BY <1>3, <3>1, <3>2
  <2>2. CASE Now.toTemp /\ r.temp = Now.to
    BY <1>13, <1>14, <2>2
  <2>. QED  BY <1>8, <2>1, <2>2
<1>17. ASSUME NEW i \in Renames(plan)
       PROVE  \/ \E k \in DOMAIN g : g[k].original = plan[i].old /\ ~ g[k].toTemp
              \/ i \in Carried' /\ Has(plan[i].new, plan[i].old)'
  <2>1. CASE plan[i].old = Now.original
    BY <1>13, <2>1
  <2>2. CASE plan[i].old # Now.original /\ i \in Carried
    <3>1. Has(plan[i].new, plan[i].old)
      BY <1>1, <2>2 DEF BatchInv, CarriedInv, Carried
    <3>2. plan[i].new \in DOMAIN dir \ {s} /\ dir[plan[i].new] = plan[i].old
      BY <1>6, <2>2, <3>1 DEF Has
    <3>3. Has(plan[i].new, plan[i].old)'
      BY <1>1, <1>4, <3>2 DEF Has
    <3>. QED  BY <1>13, <2>2, <3>3
  <2>3. CASE plan[i].old # Now.original /\ i \notin Carried
    <3>1. PICK k \in DOMAIN steps : steps[k].original = plan[i].old /\ ~ steps[k].toTemp
      BY <1>1, <2>3 DEF BatchInv, CarriedInv
    <3>2. k # 1
      BY <2>3, <3>1 DEF Now
    <3>. QED  BY <1>3, <3>1, <3>2
  <2>. QED  BY <2>1, <2>2, <2>3
<1>18. outcome'.succeeded = Cardinality(Carried')
  <2>1. outcome.succeeded = Cardinality(Carried) /\ outcome.succeeded \in Nat
    BY <1>1 DEF BatchInv, CarriedInv, OutcomeSet
  <2>2. Carried \subseteq Renames(plan) /\ Carried' \subseteq Renames(plan)
    BY <1>1 DEF Carried
  <2>3. IsFiniteSet(Carried)
    <3>1. plan \in Seq(PlanItems(existing))
      BY <1>1 DEF PlanFor
    <3>2. PICK l \in Nat : DOMAIN plan = 1..l
      BY <3>1
    <3>3. IsFiniteSet(DOMAIN plan)
      BY <3>2, FS_Interval
    <3>4. Carried \subseteq DOMAIN plan
      BY <2>2 DEF Renames
    <3>. QED  BY <3>3, <3>4, FS_Subset
  <2>4. CASE Now.toTemp
    <3>1. mine \notin Carried /\ mine \notin Carried'
      BY <1>1, <1>2, <1>13, <1>14, <2>4 DEF Carried
    <3>2. Carried' = Carried
      BY <1>13, <1>15, <2>2, <3>1
    <3>. QED  BY <2>1, <2>4, <3>2 DEF Done
  <2>5. CASE ~ Now.toTemp
    <3>1. mine \notin Carried /\ mine \in Carried'
      BY <1>13, <1>14, <2>5
    <3>2. Carried' = Carried \cup {mine}
      BY <1>13, <1>14, <1>15, <2>2, <3>1
    <3>3. Cardinality(Carried') = Cardinality(Carried) + 1
      BY <2>3, <3>1, <3>2, FS_AddElement
    <3>4. outcome'.succeeded = outcome.succeeded + 1
      BY <1>1, <2>5 DEF Done, OutcomeSet
    <3>. QED  BY <2>1, <3>3, <3>4
  <2>. QED  BY <1>1, <2>4, <2>5 DEF StepSet
<1>. QED  BY <1>11, <1>12, <1>16, <1>17, <1>18

\* A step that is tried is done, skipped, or asked about.
LEMMA AttemptKeeps == BatchInv /\ Attempt => BatchInv'
<1>. SUFFICES ASSUME BatchInv, Attempt PROVE BatchInv'
  OBVIOUS
<1>1. phase = "attempt" /\ UNCHANGED <<existing, plan, skipAll, journal, others>>
  BY DEF Attempt
<1>2. CASE /\ CanRename(Now.from, Now.to) /\ dir' = Renamed(Now.from, Now.to) /\ parked' = ParkedAfter
           /\ outcome' = IF Now.toTemp THEN outcome ELSE [outcome EXCEPT !.succeeded = @ + 1]
           /\ NextStep /\ UNCHANGED faults
  <2>1. \A m, n \in DOMAIN dir : SameName(m, n) => m = n
    BY DEF BatchInv, FolderInv
  <2>2. /\ \E s : /\ Moves(s, Now.to) /\ SameName(s, Now.from)
                  /\ \A m \in DOMAIN dir : SameName(m, Now.from) => m = s
        /\ \A m, n \in DOMAIN dir' : SameName(m, n) => m = n
    BY <1>2, <2>1, RenamedIs
  <2>3. PICK s : Done(s)
    BY <1>1, <1>2, <2>2 DEF Done, NextStep
  <2>4. /\ phase' \notin {"form", "preview", "end"} /\ phase' \in Confirmed /\ SoundPlan(existing, plan)
        /\ PlanFor(existing, plan)
    BY <2>3, DoneIs DEF SoundPlan
  <2>5. FolderInv'
    <3>1. outcome' \in OutcomeSet' /\ OutcomeSet' = OutcomeSet
      BY <1>1, <1>2 DEF BatchInv, FolderInv, OutcomeSet, AnyName
    <3>. QED  BY <1>1, <1>2, <2>2, <2>4, <3>1 DEF BatchInv, FolderInv
  <2>6. BeforeInv' /\ UndoRecordsRenamed'
    BY <2>4 DEF BeforeInv, UndoRecordsRenamed
  <2>7. KeptInv'
    BY <1>1, <2>3, MovedKeeps DEF BatchInv, Done
  <2>8. StepsInv' /\ PlacesInv' /\ UntangledInv' /\ CarriedInv'
    BY <2>3, DoneSteps, DonePlaces, DoneUntangled, DoneCarried
  <2>. QED  BY <2>5, <2>6, <2>7, <2>8 DEF BatchInv
<1>3. CASE /\ IF CanRename(Now.from, Now.to) THEN faults < MaxFaults /\ faults' = faults + 1
              ELSE UNCHANGED faults
           /\ IF skipAll THEN Skip ELSE phase' = "error" /\ UNCHANGED <<steps, outcome>>
           /\ UNCHANGED <<dir, parked>>
  BY <1>1, <1>3, FailureKeeps
<1>. QED  BY <1>2, <1>3 DEF Attempt

\* A step that changes nothing.
LEMMA StutterKeeps == BatchInv /\ UNCHANGED vars => BatchInv'
<1>. SUFFICES ASSUME BatchInv, UNCHANGED vars PROVE BatchInv'
  OBVIOUS
<1>1. UNCHANGED <<dir, existing, plan, steps, parked, phase, outcome, journal, faults, others>>
  BY DEF vars
<1>2. /\ OutcomeSet' = OutcomeSet /\ ParkedSet' = ParkedSet /\ Away' = Away /\ Carried' = Carried
      /\ \A k : Foremost(k)' <=> Foremost(k)
      /\ (\A t : IsParked(t)' <=> IsParked(t)) /\ \A n, x : Has(n, x)' <=> Has(n, x)
  BY <1>1 DEF OutcomeSet, AnyName, ParkedSet, Away, Carried, Foremost, IsParked, Has
<1>3. FolderInv' /\ BeforeInv'
  BY <1>1, <1>2 DEF BatchInv, FolderInv, BeforeInv
<1>4. StepsInv'
  BY <1>1, <1>2 DEF BatchInv, StepsInv
<1>5. PlacesInv' /\ KeptInv' /\ UntangledInv'
  BY <1>1, <1>2 DEF BatchInv, PlacesInv, KeptInv, UntangledInv
<1>6. CarriedInv'
  BY <1>1, <1>2 DEF BatchInv, CarriedInv
<1>7. UndoRecordsRenamed'
  BY <1>1, <1>2 DEF BatchInv, UndoRecordsRenamed
<1>. QED  BY <1>3, <1>4, <1>5, <1>6, <1>7 DEF BatchInv

-----------------------------------------------------------------------------
(* The theorems.                                                              *)

\* The invariant holds in every state: the plan, the steps to come, the items
\* under a temporary name and the folder fit each other (RenameItems).
THEOREM BatchInvariant == Spec => []BatchInv
<1>1. Init => BatchInv
  BY BatchStart
<1>2. BatchInv /\ [Next]_vars => BatchInv'
  BY FormKeeps, ConfirmKeeps, LeaveKeeps, BeginKeeps, AttemptKeeps, AnswerKeeps, PutBackKeeps, DoneKeeps,
     RecordKeeps, OtherKeeps, StutterKeeps DEF Next
<1>. QED  BY <1>1, <1>2, PTL DEF Spec

\* A batch that nothing disturbs is carried out: every item gets its new name,
\* whatever names swap, cycle, follow each other or change only their case
\* (OrderRenames and the loop of RenameItems).
THEOREM BatchCarriesOut == Spec => []PlanCarriedOut
<1>1. BatchInv => PlanCarriedOut
  <2>1. phase = "journal" => phase \in Confirmed
    BY DEF Confirmed
  <2>. QED  BY <2>1 DEF BatchInv, CarriedInv, PlanCarriedOut
<1>. QED  BY <1>1, BatchInvariant, PTL

\* However the batch ends, no item is left under a temporary name unreported
\* (FileOps.h:190).
THEOREM BatchStrandsNone == Spec => []NoneStranded
<1>1. BatchInv => NoneStranded
  <2>. SUFFICES ASSUME BatchInv, phase = "journal", NEW i \in Renames(plan), NEW n \in DOMAIN dir,
                       dir[n] = plan[i].old, n # plan[i].old, plan[i].old \notin outcome.stranded
                PROVE  n = plan[i].new
    BY DEF NoneStranded
  <2>1. phase \in Confirmed
    BY DEF Confirmed
  <2>2. SoundPlan(existing, plan) /\ Away = {}
    BY <2>1 DEF BatchInv, FolderInv, StepsInv, Away, Range
  <2>3. plan[i].old \in existing /\ IsItem(plan, plan[i].old, plan[i].new)
    BY <2>2, ItemIs DEF Batch, IsItem
  <2>4. IsItem(plan, plan[i].old, n)
    BY <2>1, <2>2, <2>3 DEF BatchInv, PlacesInv
  <2>. QED  BY <2>2, <2>3, <2>4, ItemIs
<1>. QED  BY <1>1, BatchInvariant, PTL

\* What is recorded for Ctrl+Z is what was renamed (DoGroupRename).
THEOREM BatchRecordsRenamed == Spec => []UndoRecordsRenamed
<1>1. BatchInv => UndoRecordsRenamed
  BY DEF BatchInv
<1>. QED  BY <1>1, BatchInvariant, PTL
=============================================================================
