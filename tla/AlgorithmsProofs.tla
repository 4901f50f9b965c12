-------------------------- MODULE AlgorithmsProofs --------------------------
(***************************************************************************)
(* Proofs about the pure algorithms, for inputs of every size.  What a     *)
(* recursive function of a model computes is proved by induction over the  *)
(* numbers: first that it is well defined, then what it returns.           *)
(***************************************************************************)
EXTENDS MCAlgorithms, FiniteSetTheorems, SequenceTheorems,
        WellFoundedInduction, TLAPS

-----------------------------------------------------------------------------
(* Numbers.                                                                *)

\* A set of numbers that has an element has a least one.
LEMMA Least ==
  ASSUME NEW S, S \subseteq Nat, S # {}
  PROVE  \E m \in S : \A k \in S : m <= k
<1>. DEFINE R == {ss \in Nat \X Nat : ss[1] < ss[2]}
<1>1. PICK m \in S : \A y \in S : <<y, m>> \notin R
  <2>1. IsWellFoundedOn(R, Nat)
    BY NatLessThanWellFounded DEF OpToRel
  <2>. HIDE DEF R
  <2>. QED BY <2>1, WFMin
<1>2. ASSUME NEW k \in S PROVE m <= k
  <2>1. <<k, m>> \notin R /\ k \in Nat /\ m \in Nat
    BY <1>1
  <2>. QED BY <2>1
<1>. QED BY <1>2

\* Induction over the numbers, about a set.
LEMMA Induction ==
  ASSUME NEW S, 0 \in S, \A n \in Nat : n \in S => n + 1 \in S
  PROVE  Nat \subseteq S
<1>. SUFFICES ASSUME ~(Nat \subseteq S) PROVE FALSE
  OBVIOUS
<1>1. PICK m \in Nat \ S : \A k \in Nat \ S : m <= k
  <2>1. Nat \ S # {} /\ Nat \ S \subseteq Nat
    OBVIOUS
  <2>. QED BY <2>1, Least
<1>2. m # 0 /\ m - 1 \in Nat /\ m - 1 \in S
  BY <1>1
<1>. QED BY <1>1, <1>2


\* A set of numbers up to n that has an element has a greatest one.
LEMMA Greatest ==
  ASSUME NEW n \in Nat, NEW S, S \subseteq 0..n, S # {}
  PROVE  \E m \in S : \A k \in S : k <= m
<1>. DEFINE T == {n - k : k \in S}
<1>1. T \subseteq Nat /\ T # {}
  <2>1. \A k \in S : k \in 0..n /\ n - k \in Nat
    OBVIOUS
  <2>2. T \subseteq Nat
    BY <2>1, Zenon
  <2>3. T # {}
    OBVIOUS
  <2>. QED BY <2>2, <2>3
<1>2. PICK t \in T : \A k \in T : t <= k
  <2>. HIDE DEF T
  <2>. QED BY <1>1, Least
<1>3. PICK m \in S : t = n - m
  OBVIOUS
<1>4. ASSUME NEW k \in S PROVE k <= m
  <2>1. n - m <= n - k
    BY <1>2, <1>3
  <2>. QED BY <2>1
<1>. QED BY <1>4
-----------------------------------------------------------------------------
(* Names of tools.                                                         *)

\* The indices up to n of the names of a list that are in a set.
Chosen(list, names, n) == {j \in 1..n : list[j] \in names}

\* They are finitely many.
LEMMA ChosenIsFinite ==
  ASSUME NEW list, NEW names, NEW n \in Nat
  PROVE  /\ IsFiniteSet(Chosen(list, names, n))
         /\ Cardinality(Chosen(list, names, n)) \in Nat
<1>1. IsFiniteSet(1..n)
  BY FS_Interval
<1>2. Chosen(list, names, n) \in SUBSET (1..n)
  BY DEF Chosen
<1>3. IsFiniteSet(Chosen(list, names, n))
  BY <1>1, <1>2, FS_Subset
<1>. QED BY <1>3, FS_CardinalityType

\* The next name of the list is one more of them or it is not.
LEMMA NextChosen ==
  ASSUME NEW list, NEW names, NEW n \in Nat
  PROVE  /\ list[n + 1] \in names =>
              Cardinality(Chosen(list, names, n + 1))
                = Cardinality(Chosen(list, names, n)) + 1
         /\ list[n + 1] \notin names =>
              Chosen(list, names, n + 1) = Chosen(list, names, n)
<1>1. ASSUME list[n + 1] \in names
      PROVE  Cardinality(Chosen(list, names, n + 1))
               = Cardinality(Chosen(list, names, n)) + 1
  <2>1. /\ Chosen(list, names, n + 1) = Chosen(list, names, n) \cup {n + 1}
        /\ n + 1 \notin Chosen(list, names, n)
    BY <1>1 DEF Chosen
  <2>2. IsFiniteSet(Chosen(list, names, n))
    BY ChosenIsFinite
  <2>. QED BY <2>1, <2>2, FS_AddElement
<1>2. ASSUME list[n + 1] \notin names
      PROVE  Chosen(list, names, n + 1) = Chosen(list, names, n)
  BY <1>2 DEF Chosen
<1>. QED BY <1>1, <1>2

\* What a filter leaves of a list is what is chosen of it, each at its rank.
IsSelection(out, list, names, n) ==
    /\ Len(out) = Cardinality(Chosen(list, names, n))
    /\ \A j \in Chosen(list, names, n) :
          /\ Cardinality(Chosen(list, names, j)) \in 1..Len(out)
          /\ out[Cardinality(Chosen(list, names, j))] = list[j]

\* The recursive function of Selected is well defined.
LEMMA SelectedComputes ==
  ASSUME NEW list, Len(list) \in Nat, NEW names
  PROVE  \E f : /\ Selected(list, names) = f[Len(list)]
                /\ f[0] = <<>>
                /\ \A i \in 1..Len(list) :
                      f[i] = IF list[i] \in names
                             THEN Append(f[i - 1], list[i]) ELSE f[i - 1]
<1>. DEFINE l == Len(list)
            Is(g, n) == g = [i \in 0..n |->
                               IF i = 0 THEN <<>>
                               ELSE IF list[i] \in names
                               THEN Append(g[i - 1], list[i])
                               ELSE g[i - 1]]
            S == {n \in Nat : \E g : Is(g, n)}
<1>1. 0 \in S
  <2>. DEFINE g == [i \in 0..0 |-> <<>>]
  <2>1. Is(g, 0)
    OBVIOUS
  <2>. QED BY <2>1
<1>2. ASSUME NEW n \in Nat, n \in S PROVE n + 1 \in S
  <2>1. PICK g : Is(g, n)
    BY <1>2
  <2>. DEFINE h == [i \in 0..n + 1 |->
                      IF i <= n THEN g[i]
                      ELSE IF list[n + 1] \in names
                      THEN Append(g[n], list[n + 1]) ELSE g[n]]
  <2>2. \A i \in 0..n :
           h[i] = IF i = 0 THEN <<>>
                  ELSE IF list[i] \in names THEN Append(g[i - 1], list[i])
                  ELSE g[i - 1]
    <3>. TAKE i \in 0..n
    <3>1. g[i] = IF i = 0 THEN <<>>
                 ELSE IF list[i] \in names THEN Append(g[i - 1], list[i])
                 ELSE g[i - 1]
      BY <2>1, Zenon
    <3>2. h[i] = g[i]
      OBVIOUS
    <3>. HIDE DEF h, Is
    <3>. QED BY <3>1, <3>2
  <2>3. \A i \in 0..n + 1 :
           h[i] = IF i = 0 THEN <<>>
                  ELSE IF list[i] \in names THEN Append(h[i - 1], list[i])
                  ELSE h[i - 1]
    <3>. TAKE i \in 0..n + 1
    <3>1. CASE i = 0
      <4>1. h[0] = g[0] /\ g[0] = <<>>
        BY <2>1
      <4>. QED BY <3>1, <4>1
    <3>2. CASE i # 0
      <4>1. i - 1 \in 0..n /\ h[i - 1] = g[i - 1]
        BY <3>2
      <4>2. CASE i = n + 1
        BY <4>1, <4>2
      <4>3. CASE i # n + 1
        <5>1. i \in 0..n
          BY <4>3
        <5>2. h[i] = IF list[i] \in names THEN Append(g[i - 1], list[i])
                     ELSE g[i - 1]
          BY <5>1, <2>2, <3>2
        <5>. HIDE DEF h
        <5>. QED BY <3>2, <4>1, <5>2
      <4>. QED BY <4>2, <4>3
    <3>. QED BY <3>1, <3>2
  <2>4. Is(h, n + 1)
    <3>1. h = [i \in 0..n + 1 |-> h[i]]
      OBVIOUS
    <3>. HIDE DEF h
    <3>. QED BY <2>3, <3>1
  <2>. HIDE DEF h, Is
  <2>. QED BY <2>4
<1>3. l \in S
  <2>. HIDE DEF S
  <2>. QED BY <1>1, <1>2, Induction
<1>. DEFINE f == CHOOSE g : Is(g, l)
<1>4. Is(f, l)
  <2>. HIDE DEF Is
  <2>. QED BY <1>3
<1>5. Selected(list, names) = f[l]
  BY DEF Selected
<1>. HIDE DEF f
<1>6. /\ f[0] = <<>>
      /\ \A i \in 1..l : f[i] = IF list[i] \in names
                               THEN Append(f[i - 1], list[i]) ELSE f[i - 1]
  <2>1. \A i \in 0..l : f[i] = IF i = 0 THEN <<>>
                                ELSE IF list[i] \in names
                                THEN Append(f[i - 1], list[i]) ELSE f[i - 1]
    BY <1>4, Zenon
  <2>. HIDE DEF Is
  <2>. QED BY <2>1
<1>. QED BY <1>5, <1>6

\* It selects: by induction over the list.
LEMMA SelectedIs ==
  ASSUME NEW N, NEW list \in Seq(N), NEW names
  PROVE  /\ Selected(list, names) \in Seq(N)
         /\ IsSelection(Selected(list, names), list, names, Len(list))
<1>. DEFINE l == Len(list)
            Good(out, n) == out \in Seq(N) /\ IsSelection(out, list, names, n)
<1>0. l \in Nat /\ \A i \in 1..l : list[i] \in N
  OBVIOUS
<1>1. PICK f : /\ Selected(list, names) = f[l]
               /\ f[0] = <<>>
               /\ \A i \in 1..l : f[i] = IF list[i] \in names
                                        THEN Append(f[i - 1], list[i])
                                        ELSE f[i - 1]
  BY <1>0, SelectedComputes
<1>. HIDE DEF l
<1>. DEFINE S == {n \in Nat : n <= l => Good(f[n], n)}
<1>2. 0 \in S
  <2>1. Chosen(list, names, 0) = {}
    BY DEF Chosen
  <2>2. Good(<<>>, 0)
    BY <2>1, FS_EmptySet DEF IsSelection
  <2>. QED BY <1>1, <2>2
<1>3. ASSUME NEW n \in Nat, n \in S PROVE n + 1 \in S
  <2>. DEFINE o == f[n]
              p == f[n + 1]
  <2>. SUFFICES ASSUME n + 1 <= l PROVE Good(p, n + 1)
    OBVIOUS
  <2>1. Good(o, n) /\ n + 1 \in 1..l
    BY <1>0, <1>3
  <2>2. p = IF list[n + 1] \in names THEN Append(o, list[n + 1]) ELSE o
    <3>1. (n + 1) - 1 = n
      OBVIOUS
    <3>. QED BY <1>1, <2>1, <3>1
  <2>. HIDE DEF o, p
  <2>3. CASE list[n + 1] \in names
    <3>1. p = Append(o, list[n + 1]) /\ list[n + 1] \in N
      BY <1>0, <2>1, <2>2, <2>3
    <3>2. o \in Seq(N) /\ Len(o) = Cardinality(Chosen(list, names, n))
      BY <2>1 DEF IsSelection
    <3>3. p \in Seq(N) /\ Len(p) = Len(o) + 1 /\ p[Len(p)] = list[n + 1]
      BY <3>1, <3>2
    <3>4. Len(p) = Cardinality(Chosen(list, names, n + 1))
      BY <2>3, <3>2, <3>3, NextChosen
    <3>5. ASSUME NEW j \in Chosen(list, names, n + 1)
          PROVE  /\ Cardinality(Chosen(list, names, j)) \in 1..Len(p)
                 /\ p[Cardinality(Chosen(list, names, j))] = list[j]
      <4>1. CASE j = n + 1
        BY <3>2, <3>3, <3>4, <4>1
      <4>2. CASE j # n + 1
        <5>1. j \in Chosen(list, names, n)
          BY <4>2 DEF Chosen
        <5>2. PICK k \in 1..Len(o) :
                /\ k = Cardinality(Chosen(list, names, j))
                /\ o[k] = list[j]
          BY <2>1, <5>1 DEF IsSelection
        <5>3. k \in 1..Len(p) /\ p[k] = o[k]
          BY <3>1, <3>2, <3>3
        <5>. QED BY <5>2, <5>3
      <4>. QED BY <4>1, <4>2
    <3>. QED BY <3>3, <3>4, <3>5 DEF IsSelection
  <2>4. CASE list[n + 1] \notin names
    <3>1. p = o /\ Chosen(list, names, n + 1) = Chosen(list, names, n)
      BY <2>2, <2>4, NextChosen
    <3>. QED BY <3>1, <2>1 DEF IsSelection
  <2>. QED BY <2>3, <2>4
<1>4. l \in S
  <2>. HIDE DEF S
  <2>. QED BY <1>0, <1>2, <1>3, Induction
<1>. QED BY <1>0, <1>1, <1>4 DEF l

\* Two sequences in a row.
LEMMA TwoParts ==
  ASSUME NEW C, NEW a \in Seq(C), NEW b \in Seq(C)
  PROVE  a \o b \in Seq(C) /\ Len(a \o b) = Len(a) + Len(b)
OBVIOUS

\* A separator is found where its two characters are.
LEMMA TwoElements ==
  ASSUME NEW C, NEW t \in Seq(C), NEW i \in 1..(Len(t) - 1), NEW u \in C,
         Separator = <<u, u>>
  PROVE  SubSeq(t, i, i + 1) = Separator <=> t[i] = u /\ t[i + 1] = u
<1>. DEFINE a == SubSeq(t, i, i + 1)
<1>1. /\ a \in Seq(C) /\ Len(a) = 2
      /\ a[1] = t[i] /\ a[2] = t[i + 1]
  OBVIOUS
<1>2. /\ Separator \in Seq(C) /\ Len(Separator) = 2
      /\ Separator[1] = u /\ Separator[2] = u
  OBVIOUS
<1>. HIDE DEF a
<1>3. a[1] = u /\ a[2] = u => a = Separator
  <2>. SUFFICES ASSUME a[1] = u, a[2] = u PROVE a = Separator
    OBVIOUS
  <2>1. \A j \in 1..Len(a) : a[j] = Separator[j]
    BY <1>1, <1>2
  <2>. QED BY <1>1, <1>2, <2>1, SeqEqual
<1>. QED BY <1>1, <1>2, <1>3 DEF a

\* So are the separators of a whole name.
LEMMA SeparatorsAre ==
  ASSUME NEW C, NEW u \in C, Separator = <<u, u>>
  PROVE  \A t \in Seq(C) :
           /\ Separators(t) \subseteq 1..(Len(t) - 1)
           /\ \A i \in 1..(Len(t) - 1) :
                i \in Separators(t) <=> t[i] = u /\ t[i + 1] = u
<1>. TAKE t \in Seq(C)
<1>1. ASSUME NEW i \in 1..(Len(t) - 1)
      PROVE  i \in Separators(t) <=> t[i] = u /\ t[i + 1] = u
  <2>1. SubSeq(t, i, i + 1) = Separator <=> t[i] = u /\ t[i + 1] = u
    BY <1>1, TwoElements
  <2>. HIDE DEF Separator
  <2>. QED BY <2>1 DEF Separators
<1>. QED BY <1>1 DEF Separators

\* A name under which a tool is offered leads back to its server and to it:
\* the server's name ends at the first separator.
LEMMA RouteIs ==
  ASSUME NEW C, NEW m \in C, NEW u \in C,
         ToolPrefix = <<m>>, Separator = <<u, u>>,
         NEW servers, NEW s \in DOMAIN servers, s \in Seq(C), s # <<>>,
         Separators(s \o <<u>>) = {}, NEW raw \in Seq(C)
  PROVE  Route(servers, Prefix(s) \o raw) = <<s, raw>>
<1>. DEFINE l == Len(s)
            k == Len(raw)
            p == Prefix(s)
            name == p \o raw
            rest == Tail(name)
<1>1. l \in Nat /\ k \in Nat /\ l > 0
  OBVIOUS
<1>2. /\ p \in Seq(C) /\ Len(p) = l + 3
      /\ p[1] = m /\ p[l + 2] = u /\ p[l + 3] = u
      /\ \A i \in 1..l : p[i + 1] = s[i]
  <2>. DEFINE q == ToolPrefix \o s
  <2>1. /\ ToolPrefix \in Seq(C) /\ Len(ToolPrefix) = 1
        /\ ToolPrefix[1] = m
    OBVIOUS
  <2>2. /\ Separator \in Seq(C) /\ Len(Separator) = 2
        /\ Separator[1] = u /\ Separator[2] = u
    OBVIOUS
  <2>3. /\ q \in Seq(C) /\ Len(q) = l + 1 /\ q[1] = m
        /\ \A i \in 1..l : q[i + 1] = s[i]
    BY <1>1, <2>1
  <2>4. p = q \o Separator
    BY DEF Prefix
  <2>. HIDE DEF p, q, l
  <2>5. p \in Seq(C) /\ Len(p) = l + 3
    BY <1>1, <2>2, <2>3, <2>4
  <2>6. \A i \in 1..(l + 1) : p[i] = q[i]
    BY <1>1, <2>2, <2>3, <2>4
  <2>7. p[l + 2] = Separator[1] /\ p[l + 3] = Separator[2]
    BY <1>1, <2>2, <2>3, <2>4
  <2>8. \A i \in 1..l : p[i + 1] = s[i]
    BY <1>1, <2>3, <2>6
  <2>. QED BY <1>1, <2>2, <2>3, <2>5, <2>6, <2>7, <2>8
<1>. HIDE DEF p
<1>3. /\ name \in Seq(C) /\ Len(name) = l + 3 + k
      /\ \A i \in 1..(l + 3) : name[i] = p[i]
      /\ \A i \in 1..k : name[l + 3 + i] = raw[i]
  <2>1. raw \in Seq(C) /\ Len(raw) = k
    OBVIOUS
  <2>. HIDE DEF l, k
  <2>2. name \in Seq(C) /\ Len(name) = l + 3 + k
    <3>1. /\ p \in Seq(C) /\ raw \in Seq(C) /\ name = p \o raw
          /\ Len(p) = l + 3 /\ Len(raw) = k
      BY <1>2, <2>1
    <3>2. p \o raw \in Seq(C) /\ Len(p \o raw) = Len(p) + Len(raw)
      BY <3>1, TwoParts
    <3>3. name \in Seq(C) /\ Len(name) = Len(p) + Len(raw)
      BY <3>2
    <3>. HIDE DEF name
    <3>. QED BY <1>1, <3>1, <3>3
  <2>3. \A i \in 1..(l + 3) : name[i] = p[i]
    BY <1>1, <1>2, <2>1
  <2>4. \A i \in 1..k : name[l + 3 + i] = raw[i]
    BY <1>1, <1>2, <2>1
  <2>. QED BY <2>2, <2>3, <2>4
<1>. HIDE DEF name, l, k
<1>4. /\ rest \in Seq(C) /\ Len(rest) = l + 2 + k
      /\ \A i \in 1..Len(rest) : rest[i] = name[i + 1]
  <2>1. name \in Seq(C) /\ Len(name) = l + 3 + k /\ name # <<>>
    BY <1>1, <1>3
  <2>2. rest \in Seq(C) /\ Len(rest) = Len(name) - 1
    BY <2>1
  <2>3. \A i \in 1..Len(rest) : rest[i] = name[i + 1]
    BY <2>1
  <2>. QED BY <1>1, <2>1, <2>2, <2>3
<1>. HIDE DEF rest
<1>5. /\ \A i \in 1..l : rest[i] = s[i]
      /\ rest[l + 1] = u /\ rest[l + 2] = u
  <2>1. \A i \in 1..l : rest[i] = s[i]
    <3>. TAKE i \in 1..l
    <3>1. i \in 1..Len(rest) /\ i + 1 \in 1..(l + 3)
      BY <1>1, <1>4
    <3>. QED BY <1>2, <1>3, <1>4, <3>1
  <2>2. /\ l + 1 \in 1..Len(rest) /\ l + 2 \in 1..Len(rest)
        /\ (l + 1) + 1 = l + 2 /\ (l + 2) + 1 = l + 3
        /\ l + 2 \in 1..(l + 3) /\ l + 3 \in 1..(l + 3)
    BY <1>1, <1>4
  <2>. QED BY <1>2, <1>3, <1>4, <2>1, <2>2
<1>6. \A i \in 1..(Len(rest) - 1) :
         i \in Separators(rest) <=> rest[i] = u /\ rest[i + 1] = u
  BY <1>4, SeparatorsAre
<1>7. \A i \in 1..(l - 1) : ~(s[i] = u /\ s[i + 1] = u)
  <2>. TAKE i \in 1..(l - 1)
  <2>. DEFINE t == s \o <<u>>
  <2>1. t \in Seq(C) /\ Len(t) = l + 1 /\ t[i] = s[i] /\ t[i + 1] = s[i + 1]
    BY <1>1 DEF l
  <2>. HIDE DEF t
  <2>2. i \in 1..(Len(t) - 1)
    BY <1>1, <2>1
  <2>3. i \in Separators(t) <=> t[i] = u /\ t[i + 1] = u
    BY <2>1, <2>2, SeparatorsAre
  <2>4. Separators(t) = {}
    BY DEF t
  <2>. QED BY <2>1, <2>2, <2>3, <2>4
<1>8. s[l] # u
  <2>. DEFINE t == s \o <<u>>
  <2>1. t \in Seq(C) /\ Len(t) = l + 1 /\ t[l] = s[l] /\ t[l + 1] = u
    BY <1>1 DEF l
  <2>. HIDE DEF t
  <2>2. l \in 1..(Len(t) - 1)
    BY <1>1, <2>1
  <2>3. l \in Separators(t) <=> t[l] = u /\ t[l + 1] = u
    BY <2>1, <2>2, SeparatorsAre
  <2>4. Separators(t) = {}
    BY DEF t
  <2>. QED BY <2>1, <2>2, <2>3, <2>4
<1>9. /\ l + 1 \in Separators(rest)
      /\ \A j \in Separators(rest) : l + 1 <= j
  <2>1. l + 1 \in 1..(Len(rest) - 1) /\ (l + 1) + 1 = l + 2
    BY <1>1, <1>4
  <2>2. l + 1 \in Separators(rest)
    BY <1>5, <1>6, <2>1
  <2>3. ASSUME NEW j \in Separators(rest), ~(l + 1 <= j) PROVE FALSE
    <3>1. j \in 1..(Len(rest) - 1) /\ j \in 1..l
      BY <1>1, <1>4, <2>3 DEF Separators
    <3>2. rest[j] = u /\ rest[j + 1] = u
      BY <1>6, <2>3, <3>1
    <3>3. CASE j = l
      BY <1>5, <1>8, <3>1, <3>2, <3>3
    <3>4. CASE j # l
      <4>1. j \in 1..(l - 1) /\ j + 1 \in 1..l
        BY <1>1, <3>1, <3>4
      <4>. QED BY <1>5, <1>7, <3>1, <3>2, <4>1
    <3>. QED BY <3>3, <3>4
  <2>. QED BY <2>2, <2>3
<1>10. IsStrictPrefix(ToolPrefix, name)
  <2>1. /\ ToolPrefix \in Seq(C) /\ Len(ToolPrefix) = 1
        /\ ToolPrefix[1] = m
    OBVIOUS
  <2>2. name[1] = m
    BY <1>1, <1>2, <1>3
  <2>3. SubSeq(name, 1, 1) = SubSeq(ToolPrefix, 1, 1)
    <3>. DEFINE a == SubSeq(name, 1, 1)
                b == SubSeq(ToolPrefix, 1, 1)
    <3>1. a \in Seq(C) /\ Len(a) = 1 /\ a[1] = name[1]
      BY <1>1, <1>3
    <3>2. b \in Seq(C) /\ Len(b) = 1 /\ b[1] = ToolPrefix[1]
      BY <2>1
    <3>. HIDE DEF a, b
    <3>3. a = b
      BY <2>1, <2>2, <3>1, <3>2, SeqEqual
    <3>. QED BY <3>3 DEF a, b
  <2>4. Len(name) # 1 /\ Len(name) >= 1
    BY <1>1, <1>3
  <2>. QED BY <2>1, <2>2, <2>3, <2>4 DEF IsStrictPrefix, IsPrefix
<1>11. GetServerName(name) = s
  <2>. DEFINE c == CHOOSE i \in Separators(rest) :
                     \A j \in Separators(rest) : i <= j
  <2>1. c = l + 1
    <3>1. /\ c \in Separators(rest)
          /\ \A j \in Separators(rest) : c <= j
      BY <1>9
    <3>2. c <= l + 1 /\ l + 1 <= c
      BY <1>9, <3>1
    <3>3. c \in Nat
      BY <1>1, <1>4, <3>1 DEF Separators
    <3>. HIDE DEF c
    <3>. QED BY <1>1, <3>2, <3>3
  <2>2. GetServerName(name) = SubSeq(rest, 1, c - 1)
    BY <1>9, <1>10 DEF GetServerName, rest
  <2>. HIDE DEF c
  <2>3. SubSeq(rest, 1, l) = s
    <3>1. /\ SubSeq(rest, 1, l) \in Seq(C) /\ Len(SubSeq(rest, 1, l)) = l
          /\ \A i \in 1..l : SubSeq(rest, 1, l)[i] = rest[i]
      BY <1>1, <1>4
    <3>2. s \in Seq(C) /\ Len(s) = l
      BY DEF l
    <3>. QED BY <1>5, <3>1, <3>2, SeqEqual
  <2>4. c - 1 = l
    BY <1>1, <2>1
  <2>. QED BY <2>2, <2>3, <2>4
<1>12. StripPrefix(name, s) = raw
  <2>1. SubSeq(name, 1, Len(p)) = SubSeq(p, 1, Len(p))
    <3>. DEFINE a == SubSeq(name, 1, Len(p))
                b == SubSeq(p, 1, Len(p))
    <3>1. /\ a \in Seq(C) /\ Len(a) = l + 3
          /\ \A i \in 1..(l + 3) : a[i] = name[i]
      BY <1>1, <1>2, <1>3
    <3>2. /\ b \in Seq(C) /\ Len(b) = l + 3
          /\ \A i \in 1..(l + 3) : b[i] = p[i]
      BY <1>1, <1>2
    <3>. HIDE DEF a, b
    <3>3. a = b
      BY <1>3, <3>1, <3>2, SeqEqual
    <3>. QED BY <3>3 DEF a, b
  <2>2. IsPrefix(Prefix(s), name)
    BY <1>1, <1>2, <1>3, <2>1 DEF IsPrefix, p
  <2>3. SubSeq(name, l + 4, l + 3 + k) = raw
    <3>. DEFINE a == SubSeq(name, l + 4, l + 3 + k)
    <3>1. a \in Seq(C) /\ Len(a) = k
      BY <1>1, <1>3
    <3>2. \A i \in 1..k : a[i] = raw[i]
      <4>. TAKE i \in 1..k
      <4>1. a[i] = name[l + 3 + i]
        BY <1>1, <1>3
      <4>. QED BY <1>3, <4>1
    <3>. HIDE DEF a
    <3>3. raw \in Seq(C) /\ Len(raw) = k
      BY DEF k
    <3>4. a = raw
      BY <3>1, <3>2, <3>3, SeqEqual
    <3>. QED BY <3>4 DEF a
  <2>4. StripPrefix(name, s) = SubSeq(name, Len(p) + 1, Len(name))
    BY <2>2 DEF StripPrefix, p
  <2>5. Len(p) + 1 = l + 4 /\ Len(name) = l + 3 + k
    BY <1>1, <1>2, <1>3
  <2>. QED BY <2>3, <2>4, <2>5
<1>13. s # NoServer
  BY DEF NoServer
<1>14. Route(servers, name) = <<s, raw>>
  BY <1>11, <1>12, <1>13 DEF Route
<1>. QED BY <1>14 DEF name, p


\* A number up to that of the chosen is reached on the way.
LEMMA ManyAreChosen ==
  ASSUME NEW list, NEW names, NEW n \in Nat, NEW m \in Nat,
         m <= Cardinality(Chosen(list, names, n))
  PROVE  \E j \in 0..n : Cardinality(Chosen(list, names, j)) = m
<1>. DEFINE Count(k) == Cardinality(Chosen(list, names, k))
            S == {k \in Nat : m <= Count(k)}
<1>1. \A k \in Nat : Count(k) \in Nat
  BY ChosenIsFinite
<1>2. Count(0) = 0
  <2>1. Chosen(list, names, 0) = {}
    BY DEF Chosen
  <2>. QED BY <2>1, FS_EmptySet
<1>3. \A k \in Nat : Count(k + 1) <= Count(k) + 1
  <2>. TAKE k \in Nat
  <2>. QED BY <1>1, NextChosen
<1>. HIDE DEF Count
<1>4. S # {} /\ S \subseteq Nat
  BY DEF Count
<1>5. PICK j \in S : \A k \in S : j <= k
  <2>. HIDE DEF S
  <2>. QED BY <1>4, Least
<1>6. j <= n /\ j \in Nat
  BY <1>5 DEF Count
<1>7. Count(j) = m
  <2>1. CASE j = 0
    BY <1>2, <1>5, <2>1
  <2>2. CASE j # 0
    <3>1. j - 1 \in Nat /\ (j - 1) + 1 = j /\ ~(j <= j - 1)
      BY <1>6, <2>2
    <3>2. ~(m <= Count(j - 1))
      BY <1>5, <3>1
    <3>3. Count(j) <= Count(j - 1) + 1
      BY <1>3, <3>1
    <3>. QED BY <1>1, <1>5, <1>6, <3>1, <3>2, <3>3
  <2>. QED BY <2>1, <2>2
<1>. QED BY <1>6, <1>7 DEF Count

\* The indices of the tools the configuration leaves, the place of one among
\* them, and those within the cap.
Wanted(tools, config) ==
    {i \in 1..Len(tools) :
       /\ config.include # {} => tools[i] \in config.include
       /\ tools[i] \notin config.exclude}
Rank(tools, config, i) ==
    Cardinality({j \in Wanted(tools, config) : j <= i})
Kept(tools, config) ==
    {i \in Wanted(tools, config) : Rank(tools, config, i) <= config.max}

\* What a server offers of its tools: those the configuration leaves, up to
\* the cap, each at its rank.
LEMMA OfferedAre ==
  ASSUME NEW N, NEW tools \in Seq(N), NEW config, config.max \in Nat
  PROVE  /\ Filtered(tools, config) \in Seq(N)
         /\ Len(Filtered(tools, config)) = Cardinality(Kept(tools, config))
         /\ \A i \in Kept(tools, config) :
               /\ Rank(tools, config, i) \in 1..Len(Filtered(tools, config))
               /\ Filtered(tools, config)[Rank(tools, config, i)] = tools[i]
<1>. DEFINE l == Len(tools)
            included == IF config.include = {} THEN ToSet(tools)
                        ELSE config.include
            names == included \ config.exclude
            wanted == Wanted(tools, config)
            rank(i) == Rank(tools, config, i)
            kept == Kept(tools, config)
            all == Selected(tools, names)
            out == Filtered(tools, config)
<1>1. l \in Nat
  OBVIOUS
<1>2. wanted = Chosen(tools, names, l)
  <2>1. \A i \in 1..l : tools[i] \in ToSet(tools)
    BY DEF ToSet
  <2>. QED BY <2>1 DEF Chosen, Wanted
<1>3. \A i \in wanted : /\ {j \in wanted : j <= i} = Chosen(tools, names, i)
                        /\ i \in 1..l
  BY <1>1, <1>2 DEF Chosen
<1>4. all \in Seq(N) /\ IsSelection(all, tools, names, l)
  BY SelectedIs
<1>5. out = IF Len(all) > config.max THEN SubSeq(all, 1, config.max) ELSE all
  BY DEF Filtered
<1>10. /\ kept = {i \in wanted : rank(i) <= config.max}
       /\ \A i \in wanted : rank(i) = Cardinality({j \in wanted : j <= i})
  BY DEF Kept, Rank
<1>. HIDE DEF names, wanted, all, out, l, rank, kept
<1>6. \A i \in wanted : rank(i) \in 1..Len(all) /\ all[rank(i)] = tools[i]
  BY <1>2, <1>3, <1>4, <1>10 DEF IsSelection
<1>7. Len(all) = Cardinality(wanted) /\ IsFiniteSet(wanted)
  BY <1>1, <1>2, <1>4, ChosenIsFinite DEF IsSelection
<1>8. CASE Len(all) <= config.max
  <2>1. kept = wanted /\ out = all
    BY <1>4, <1>5, <1>6, <1>8, <1>10
  <2>. QED BY <2>1, <1>4, <1>6, <1>7 DEF l, wanted, out, rank, kept
<1>9. CASE Len(all) > config.max
  <2>1. out \in Seq(N) /\ Len(out) = config.max
    BY <1>4, <1>5, <1>9
  <2>2. \A k \in 1..config.max : out[k] = all[k]
    BY <1>4, <1>5, <1>9
  <2>3. Cardinality(kept) = config.max
    <3>1. PICK j \in 0..l : Cardinality(Chosen(tools, names, j)) = config.max
      <4>1. /\ Cardinality(wanted) \in Nat
            /\ Cardinality(wanted) = Cardinality(Chosen(tools, names, l))
        BY <1>2, <1>7, FS_CardinalityType
      <4>2. config.max <= Cardinality(Chosen(tools, names, l))
        BY <1>7, <1>9, <4>1
      <4>. QED BY <1>1, <4>2, ManyAreChosen
    <3>2. ASSUME NEW i \in wanted, i <= j PROVE rank(i) <= config.max
      <4>1. Chosen(tools, names, i) \subseteq Chosen(tools, names, j)
        BY <1>3, <3>1, <3>2 DEF Chosen
      <4>2. Cardinality(Chosen(tools, names, i))
              <= Cardinality(Chosen(tools, names, j))
        BY <4>1, <3>1, ChosenIsFinite, FS_Subset
      <4>. QED BY <4>2, <3>1, <1>3, <1>10
    <3>3. ASSUME NEW i \in wanted, ~(i <= j) PROVE ~(rank(i) <= config.max)
      <4>. DEFINE c == Chosen(tools, names, j)
                  d == Chosen(tools, names, i)
      <4>1. i \in Nat /\ j \in Nat
        BY <1>1, <1>3
      <4>2. c \cup {i} \subseteq d /\ i \notin c
        BY <1>2, <1>3, <3>3, <4>1 DEF Chosen
      <4>3. IsFiniteSet(c) /\ IsFiniteSet(d)
        BY <4>1, ChosenIsFinite
      <4>. HIDE DEF c, d
      <4>4. /\ IsFiniteSet(c \cup {i})
            /\ Cardinality(c \cup {i}) = Cardinality(c) + 1
        BY <4>2, <4>3, FS_AddElement
      <4>5. Cardinality(c) + 1 <= Cardinality(d) /\ Cardinality(d) \in Nat
        BY <4>2, <4>3, <4>4, FS_Subset, FS_CardinalityType
      <4>6. Cardinality(c) = config.max /\ rank(i) = Cardinality(d)
        BY <1>3, <1>10, <3>1 DEF c, d
      <4>. QED BY <4>5, <4>6
    <3>4. kept = Chosen(tools, names, j)
      <4>1. \A i \in wanted : i \in kept <=> i <= j
        BY <1>10, <3>2, <3>3
      <4>2. Chosen(tools, names, j) = {i \in wanted : i <= j}
        BY <1>1, <1>2, <3>1 DEF Chosen
      <4>. QED BY <1>10, <4>1, <4>2
    <3>. QED BY <3>1, <3>4
  <2>4. \A i \in kept : rank(i) \in 1..Len(out) /\ out[rank(i)] = tools[i]
    BY <1>6, <1>10, <2>1, <2>2
  <2>. QED BY <2>1, <2>3, <2>4 DEF l, wanted, out, rank, kept
<1>. QED BY <1>1, <1>4, <1>8, <1>9

\* A server whose name can be told and whose tools have names in the
\* characters C, and what is to show of it.
Telling(C, servers, s) ==
    /\ ToolPrefix[1] \in C /\ Separator[1] \in C
    /\ ToolPrefix = <<ToolPrefix[1]>>
    /\ Separator = <<Separator[1], Separator[1]>>
    /\ s \in DOMAIN servers /\ s \in Seq(C) /\ s # <<>>
    /\ Separators(s \o <<Separator[1]>>) = {}
    /\ servers[s].tools \in Seq(Seq(C))
    /\ servers[s].config.max \in Nat
Reached(servers, s) ==
    LET raw == servers[s].tools
        config == servers[s].config
        offered == Offered(servers, s)
    IN  /\ Len(offered) = Cardinality(Kept(raw, config))
        /\ \A i \in Kept(raw, config) :
              Route(servers, offered[Rank(raw, config, i)]) = <<s, raw[i]>>

\* Every tool a server offers is reached by the name it is offered under,
\* whatever the characters of the prefix and the separator are.
LEMMA ToolsAreReached ==
  ASSUME NEW C, NEW servers, NEW s, Telling(C, servers, s)
  PROVE  Reached(servers, s)
<1>. DEFINE raw == servers[s].tools
            config == servers[s].config
            offered == Offered(servers, s)
            kept == Kept(raw, config)
            rank(i) == Rank(raw, config, i)
            out == Filtered(raw, config)
<1>1. raw \in Seq(Seq(C)) /\ config.max \in Nat
  BY DEF Telling
<1>2. /\ out \in Seq(Seq(C)) /\ Len(out) = Cardinality(kept)
      /\ \A i \in kept : rank(i) \in 1..Len(out) /\ out[rank(i)] = raw[i]
  <2>. HIDE DEF raw, config
  <2>. QED BY <1>1, OfferedAre
<1>3. offered = [i \in 1..Len(out) |-> Prefix(s) \o out[i]]
  BY DEF Offered, TranslateTools
<1>4. \A r \in Seq(C) : Route(servers, Prefix(s) \o r) = <<s, r>>
  <2>. TAKE r \in Seq(C)
  <2>. DEFINE m == ToolPrefix[1]
              u == Separator[1]
  <2>1. /\ m \in C /\ u \in C
        /\ ToolPrefix = <<m>> /\ Separator = <<u, u>>
        /\ Separators(s \o <<u>>) = {}
        /\ s \in DOMAIN servers /\ s \in Seq(C) /\ s # <<>>
    BY DEF Telling
  <2>. HIDE DEF m, u
  <2>. HIDE DEF raw, config, out, kept, rank, offered
  <2>. QED BY <2>1, RouteIs, SMTT(30)
<1>. HIDE DEF raw, config, out, kept, rank, offered
<1>5. Len(out) \in Nat
  BY <1>2
<1>6. Len(offered) = Len(out)
  BY <1>3, <1>5
<1>7. ASSUME NEW i \in kept
      PROVE  Route(servers, offered[rank(i)]) = <<s, raw[i]>>
  <2>1. rank(i) \in 1..Len(out) /\ out[rank(i)] = raw[i]
    BY <1>2
  <2>2. offered[rank(i)] = Prefix(s) \o raw[i]
    BY <1>3, <2>1
  <2>3. raw[i] \in Seq(C)
    BY <1>2, <2>1
  <2>. QED BY <1>4, <2>2, <2>3
<1>. QED BY <1>2, <1>6, <1>7 DEF Reached, raw, config, kept, rank, offered

\* An MCP server's tools can be called by the names they are offered under,
\* whatever the alphabet, the names of the servers that can be told from
\* what follows, the raw names and the filters: every name leads back to its
\* server and tool, and the tools offered are those the configuration
\* leaves, up to the cap (translateTools, getServerName, stripPrefix).
THEOREM EveryToolIsReached ==
  ASSUME NEW C, "mcp_" \in C, "_" \in C, NEW servers,
         \A s \in DOMAIN servers :
            /\ s \in Seq(C) /\ Tellable(s)
            /\ servers[s].tools \in Seq(Seq(C))
            /\ servers[s].config.max \in Nat
  PROVE  CallReachesItsTool(servers)
<1>1. ASSUME NEW s \in DOMAIN servers PROVE Reached(servers, s)
  <2>1. Telling(C, servers, s)
    BY DEF Telling, Tellable, ToolPrefix, Separator
  <2>. QED BY <2>1, ToolsAreReached
<1>. QED BY <1>1, Zenon DEF CallReachesItsTool, Reached, Kept, Rank, Wanted

\* The names the runs enumerate, as sequences of characters.
LEMMA NamesAreSequences ==
  ASSUME NEW C, NEW S \in SUBSET C, NEW n \in Nat
  PROVE  SeqOf(S, n) \subseteq Seq(C)
BY DEF SeqOf

\* Whatever servers are picked, every tool they offer is reached.
THEOREM CallsReach == Spec => []CallsReachTheirTool
<1>. DEFINE C == {"x", "_", "mcp_"}
<1>1. Init => CallsReachTheirTool
  BY DEF Init, CallsReachTheirTool
<1>2. ASSUME CallsReachTheirTool, [Next]_input PROVE CallsReachTheirTool'
  <2>1. CASE UNCHANGED input
    BY <1>2, <2>1 DEF CallsReachTheirTool
  <2>2. CASE PickStream
    BY <2>2 DEF PickStream, CallsReachTheirTool
  <2>3. CASE PickFrames
    BY <2>3 DEF PickFrames, CallsReachTheirTool
  <2>4. CASE PickMessage
    BY <2>4 DEF PickMessage, CallsReachTheirTool
  <2>5. CASE PickText
    BY <2>5 DEF PickText, CallsReachTheirTool
  <2>6. CASE PickPage
    BY <2>6 DEF PickPage, CallsReachTheirTool
  <2>7. CASE PickServers
    <3>1. PICK first \in ServerNames, second \in ServerNames,
               tools \in ToolLists, config \in Filters,
               other \in NameUpTo(2) :
            /\ first # second
            /\ input' = [kind |-> "servers",
                         servers |->
                           [s \in {first, second} |->
                              IF s = first
                              THEN [tools |-> tools, config |-> config]
                              ELSE [tools |-> <<other>>,
                                    config |-> NoFilter]]]
      BY <2>7 DEF PickServers
    <3>. DEFINE servers == [s \in {first, second} |->
                              IF s = first
                              THEN [tools |-> tools, config |-> config]
                              ELSE [tools |-> <<other>>,
                                    config |-> NoFilter]]
    <3>2. /\ first \in Seq(C) /\ second \in Seq(C)
          /\ Tellable(first) /\ Tellable(second)
      BY NamesAreSequences DEF ServerNames, NameUpTo
    <3>3. NameUpTo(2) \subseteq Seq(C)
      BY NamesAreSequences DEF NameUpTo
    <3>4. tools \in Seq(Seq(C)) /\ <<other>> \in Seq(Seq(C))
      <4>1. tools \in SeqOf(NameUpTo(2), 2)
        BY DEF ToolLists
      <4>. DEFINE D == Seq(C)
      <4>2. NameUpTo(2) \in SUBSET D /\ other \in D
        BY <3>3
      <4>. HIDE DEF C, D
      <4>3. tools \in Seq(D)
        BY <4>1, <4>2, NamesAreSequences
      <4>4. <<other>> \in Seq(D)
        BY <4>2
      <4>. QED BY <4>3, <4>4 DEF D
    <3>5. config.max \in Nat /\ NoFilter.max \in Nat
      <4>. DEFINE A == SUBSET {<<"x">>, <<"_", "x">>}
                  B == SUBSET {<<"x">>, <<"_", "_">>}
      <4>1. config \in [include : A, exclude : B, max : 0..2]
        BY DEF Filters
      <4>2. NoFilter.max = 2
        BY DEF NoFilter
      <4>. HIDE DEF A, B
      <4>. QED BY <4>1, <4>2
    <3>6. \A s \in DOMAIN servers :
             /\ s \in Seq(C) /\ Tellable(s)
             /\ servers[s].tools \in Seq(Seq(C))
             /\ servers[s].config.max \in Nat
      <4>. HIDE DEF C
      <4>. QED BY <3>2, <3>4, <3>5
    <3>7. CallReachesItsTool(servers)
      <4>1. "mcp_" \in C /\ "_" \in C
        OBVIOUS
      <4>. HIDE DEF C, servers
      <4>. QED BY <3>6, <4>1, EveryToolIsReached
    <3>8. input'.servers = servers
      BY <3>1
    <3>. HIDE DEF servers
    <3>. QED BY <3>7, <3>8 DEF CallsReachTheirTool
  <2>. QED BY <1>2, <2>1, <2>2, <2>3, <2>4, <2>5, <2>6, <2>7 DEF Next
<1>. QED BY <1>1, <1>2, PTL DEF Spec

-----------------------------------------------------------------------------
(* Content of web pages.                                                   *)

\* The recursive function of ByteLength is well defined: by induction from
\* the end of the units.
LEMMA ByteLengthComputes ==
  ASSUME NEW units, Len(units) \in Nat
  PROVE  \E f : /\ ByteLength(units) = f[1]
                /\ f[Len(units) + 1] = 0
                /\ \A i \in 1..Len(units) :
                      \/ f[i] = Width(units[i]) + f[i + 1]
                      \/ i < Len(units) /\ f[i] = 4 + f[i + 2]
<1>. DEFINE l == Len(units)
            Pair(i) == SubSeq(units, i, i + 1) = <<"high", "low">>
            w(i) == Width(units[i])
            Body(g, i) == IF i > l THEN 0
                          ELSE IF i < l /\ Pair(i) THEN 4 + g[i + 2]
                          ELSE w(i) + g[i + 1]
            S == {n \in Nat : \E g : \A i \in 1..(l + 1) :
                                l + 1 - i <= n => g[i] = Body(g, i)}
<1>1. 0 \in S
  <2>. DEFINE g == [i \in 1..(l + 1) |-> 0]
  <2>1. \A i \in 1..(l + 1) : l + 1 - i <= 0 => g[i] = Body(g, i)
    OBVIOUS
  <2>. HIDE DEF g, Body
  <2>. QED BY <2>1
<1>2. ASSUME NEW n \in Nat, n \in S PROVE n + 1 \in S
  <2>1. PICK g : \A i \in 1..(l + 1) : l + 1 - i <= n => g[i] = Body(g, i)
    BY <1>2
  <2>. DEFINE h == [i \in 1..(l + 1) |->
                      IF l + 1 - i <= n THEN g[i] ELSE Body(g, i)]
  <2>2. ASSUME NEW i \in 1..(l + 1), l + 1 - i <= n + 1
        PROVE  h[i] = Body(h, i)
    <3>1. h[i] = Body(g, i)
      <4>. HIDE DEF Body
      <4>. QED BY <2>1
    <3>2. i < l => h[i + 2] = g[i + 2]
      BY <2>2
    <3>3. i <= l => h[i + 1] = g[i + 1]
      BY <2>2
    <3>. HIDE DEF h, w, Pair
    <3>. QED BY <3>1, <3>2, <3>3
  <2>. HIDE DEF h, Body
  <2>. QED BY <2>2
<1>3. l \in S
  <2>. HIDE DEF S
  <2>. QED BY <1>1, <1>2, Induction
<1>4. \E g : g = [i \in 1..(l + 1) |-> Body(g, i)]
  <2>1. PICK g : \A i \in 1..(l + 1) : l + 1 - i <= l => g[i] = Body(g, i)
    BY <1>3
  <2>. DEFINE h == [i \in 1..(l + 1) |-> g[i]]
  <2>2. ASSUME NEW i \in 1..(l + 1) PROVE h[i] = Body(h, i)
    <3>1. h[i] = Body(g, i)
      <4>. HIDE DEF Body
      <4>. QED BY <2>1
    <3>2. i < l => h[i + 2] = g[i + 2]
      OBVIOUS
    <3>3. i <= l => h[i + 1] = g[i + 1]
      OBVIOUS
    <3>. HIDE DEF h, w, Pair
    <3>. QED BY <3>1, <3>2, <3>3
  <2>3. h = [i \in 1..(l + 1) |-> h[i]]
    OBVIOUS
  <2>. HIDE DEF h, Body
  <2>. QED BY <2>2, <2>3
<1>. DEFINE f == CHOOSE g : g = [i \in 1..(l + 1) |-> Body(g, i)]
<1>5. f = [i \in 1..(l + 1) |-> Body(f, i)]
  <2>. HIDE DEF Body
  <2>. QED BY <1>4
<1>6. ByteLength(units) = f[1]
  BY DEF ByteLength
<1>. HIDE DEF f
<1>7. \A i \in 1..(l + 1) : f[i] = Body(f, i)
  <2>. HIDE DEF Body
  <2>. QED BY <1>5, Zenon
<1>8. \A i \in 1..l : \/ f[i] = w(i) + f[i + 1]
                      \/ i < l /\ f[i] = 4 + f[i + 2]
  <2>. HIDE DEF w, Pair
  <2>. QED BY <1>7
<1>9. f[l + 1] = 0
  <2>. HIDE DEF w, Pair
  <2>. QED BY <1>7
<1>. QED BY <1>6, <1>8, <1>9

\* Units whose widths are numbers up to w, which is no less than half a
\* pair, have a length of at most w each.
LEMMA ByteLengthIs ==
  ASSUME NEW C, NEW w \in Nat, w >= 3, \A u \in C : Width(u) \in 0..w,
         NEW units \in Seq(C)
  PROVE  /\ ByteLength(units) \in Nat
         /\ ByteLength(units) <= w * Len(units)
<1>. DEFINE l == Len(units)
<1>1. l \in Nat /\ \A i \in 1..l : Width(units[i]) \in 0..w
  OBVIOUS
<1>2. PICK f : /\ ByteLength(units) = f[1]
               /\ f[l + 1] = 0
               /\ \A i \in 1..l : \/ f[i] = Width(units[i]) + f[i + 1]
                                  \/ i < l /\ f[i] = 4 + f[i + 2]
  BY <1>1, ByteLengthComputes
<1>. HIDE DEF l
<1>. DEFINE Fine(i) == f[i] \in Nat /\ f[i] <= w * (l + 1 - i)
            S == {n \in Nat : \A i \in 1..(l + 1) :
                                l + 1 - i <= n => Fine(i)}
<1>3. 0 \in S
  BY <1>1, <1>2
<1>4. ASSUME NEW n \in Nat, n \in S PROVE n + 1 \in S
  <2>. SUFFICES ASSUME NEW i \in 1..(l + 1), l + 1 - i = n + 1 PROVE Fine(i)
    <3>. HIDE DEF Fine
    <3>1. \A i \in 1..(l + 1) : l + 1 - i <= n => Fine(i)
      BY <1>4
    <3>. QED BY <1>1, <3>1
  <2>1. i \in 1..l /\ i + 1 \in 1..(l + 1) /\ l + 1 - (i + 1) = n
    BY <1>1
  <2>2. f[i + 1] \in Nat /\ f[i + 1] <= w * n
    <3>1. Fine(i + 1)
      <4>. HIDE DEF Fine
      <4>. QED BY <1>4, <2>1
    <3>. QED BY <2>1, <3>1
  <2>3. w * (n + 1) = w * n + w /\ w * n \in Nat
    OBVIOUS
  <2>4. CASE f[i] = Width(units[i]) + f[i + 1]
    <3>. DEFINE d == Width(units[i])
                p == w * n
    <3>1. d \in 0..w
      BY <1>1, <2>1
    <3>. HIDE DEF d
    <3>2. f[i] = d + f[i + 1]
      BY <2>4 DEF d
    <3>3. f[i] \in Nat /\ f[i] <= w * n + w
      <4>1. p \in Nat /\ f[i + 1] <= p
        BY <2>2, <2>3
      <4>. HIDE DEF p
      <4>2. f[i] \in Nat /\ f[i] <= p + w
        BY <2>2, <3>1, <3>2, <4>1
      <4>. QED BY <4>2 DEF p
    <3>. QED BY <2>3, <3>3
  <2>5. CASE i < l /\ f[i] = 4 + f[i + 2]
    <3>1. i + 2 \in 1..(l + 1) /\ l + 1 - (i + 2) = n - 1 /\ n - 1 \in Nat
          /\ n - 1 <= n
      BY <1>1, <2>1, <2>5
    <3>2. f[i + 2] \in Nat /\ f[i + 2] <= w * (n - 1)
      <4>1. Fine(i + 2)
        <5>. HIDE DEF Fine
        <5>. QED BY <1>4, <3>1
      <4>. QED BY <3>1, <4>1
    <3>3. w * n = w * (n - 1) + w /\ w * (n - 1) \in Nat
      BY <3>1
    <3>4. f[i] \in Nat /\ f[i] <= w * n + w
      <4>. DEFINE p == w * (n - 1)
      <4>1. p \in Nat /\ f[i + 2] <= p
        BY <3>2, <3>3
      <4>. HIDE DEF p
      <4>2. f[i] \in Nat /\ f[i] <= p + w + w
        BY <2>5, <3>2, <4>1
      <4>. QED BY <4>2, <3>3 DEF p
    <3>. QED BY <2>3, <3>4
  <2>. QED BY <1>2, <2>1, <2>4, <2>5
<1>5. l \in S
  <2>. HIDE DEF S
  <2>. QED BY <1>1, <1>3, <1>4, Induction
<1>6. Fine(1)
  <2>. HIDE DEF Fine
  <2>1. l + 1 - 1 <= l /\ 1 \in 1..(l + 1)
    BY <1>1
  <2>. QED BY <1>5, <2>1
<1>. QED BY <1>1, <1>2, <1>6 DEF l

\* An empty text has no bytes.
LEMMA NoBytes == ByteLength(<<>>) = 0
<1>1. Len(<<>>) = 0
  OBVIOUS
<1>2. PICK f : ByteLength(<<>>) = f[1] /\ f[Len(<<>>) + 1] = 0
  BY <1>1, ByteLengthComputes
<1>. QED BY <1>1, <1>2

\* The bisection is well defined: by induction over the distance of its
\* bounds.
LEMMA FittingComputes ==
  ASSUME NEW value, Len(value) \in Nat, NEW bytes
  PROVE  \E f : /\ FittingLength(value, bytes) = f[<<0, Len(value)>>]
                /\ \A low, high \in 0..Len(value) :
                      LET mid == (low + high + 1) \div 2
                      IN  f[<<low, high>>] =
                            IF low >= high THEN low
                            ELSE IF ByteLength(SubSeq(value, 1, mid)) <= bytes
                            THEN f[<<mid, high>>] ELSE f[<<low, mid - 1>>]
<1>. DEFINE l == Len(value)
            P == (0..l) \X (0..l)
            Mid(low, high) == (low + high + 1) \div 2
            Fits(k) == ByteLength(SubSeq(value, 1, k)) <= bytes
            Body(g, r) ==
              IF r[1] >= r[2] THEN r[1]
              ELSE IF Fits(Mid(r[1], r[2])) THEN g[<<Mid(r[1], r[2]), r[2]>>]
              ELSE g[<<r[1], Mid(r[1], r[2]) - 1>>]
            Near(r, n) == r[2] - r[1] <= n
            Good(g, n) == \A r \in P : Near(r, n) => g[r] = Body(g, r)
            S == {n \in Nat : \E g : Good(g, n)}
            Up(r) == <<Mid(r[1], r[2]), r[2]>>
            Down(r) == <<r[1], Mid(r[1], r[2]) - 1>>
<1>0. ASSUME NEW r \in P, r[1] < r[2]
      PROVE  /\ Up(r) \in P /\ Down(r) \in P
             /\ \A n \in Nat : Near(r, n + 1) => Near(Up(r), n)
                                                 /\ Near(Down(r), n)
  <2>. DEFINE mid == Mid(r[1], r[2])
  <2>1. r[1] \in 0..l /\ r[2] \in 0..l /\ l \in Nat
    OBVIOUS
  <2>2. mid \in (r[1] + 1)..r[2]
    BY <1>0, <2>1
  <2>. HIDE DEF mid, l
  <2>3. mid \in 0..l /\ mid - 1 \in 0..l
    BY <2>1, <2>2
  <2>4. \A n \in Nat : r[2] - r[1] <= n + 1 =>
                          r[2] - mid <= n /\ (mid - 1) - r[1] <= n
    BY <2>1, <2>2
  <2>5. Up(r) = <<mid, r[2]>> /\ Down(r) = <<r[1], mid - 1>>
    BY DEF mid
  <2>. HIDE DEF Up, Down
  <2>. QED BY <2>1, <2>3, <2>4, <2>5
<1>9. \A g, r : Body(g, r) = IF r[1] >= r[2] THEN r[1]
                             ELSE IF Fits(Mid(r[1], r[2])) THEN g[Up(r)]
                             ELSE g[Down(r)]
  BY DEF Body
<1>10. \A r \in P : ~(r[1] >= r[2]) => r[1] < r[2]
  OBVIOUS
<1>. HIDE DEF Mid, Fits, l, P, Near, Up, Down
<1>. HIDE DEF Body
\* Where two functions agree on the halves, so do the bodies.
<1>11. ASSUME NEW g, NEW h, NEW r \in P,
             r[1] < r[2] => g[Up(r)] = h[Up(r)] /\ g[Down(r)] = h[Down(r)]
      PROVE  Body(g, r) = Body(h, r)
  BY <1>9, <1>10, <1>11
<1>1. 0 \in S
  <2>. DEFINE g == [r \in P |-> r[1]]
  <2>1. ASSUME NEW r \in P, Near(r, 0) PROVE g[r] = Body(g, r)
    <3>1. r[1] >= r[2]
      BY <2>1 DEF P, Near, l
    <3>2. Body(g, r) = r[1]
      BY <1>9, <3>1
    <3>. QED BY <3>2
  <2>. HIDE DEF g
  <2>. QED BY <2>1
<1>2. ASSUME NEW n \in Nat, n \in S PROVE n + 1 \in S
  <2>1. PICK g : Good(g, n)
    BY <1>2
  <2>. DEFINE h == [r \in P |-> IF Near(r, n) THEN g[r] ELSE Body(g, r)]
  <2>2. ASSUME NEW r \in P, Near(r, n + 1) PROVE h[r] = Body(h, r)
    <3>1. h[r] = Body(g, r)
      BY <2>1
    <3>2. r[1] < r[2] => g[Up(r)] = h[Up(r)] /\ g[Down(r)] = h[Down(r)]
      BY <1>0, <2>2
    <3>. HIDE DEF h
    <3>3. Body(g, r) = Body(h, r)
      BY <1>11, <3>2
    <3>. QED BY <3>1, <3>3
  <2>. HIDE DEF h
  <2>. QED BY <2>2
<1>3. l \in S
  <2>. HIDE DEF S
  <2>1. l \in Nat
    BY DEF l
  <2>. QED BY <1>1, <1>2, <2>1, Induction
<1>4. \E g : g = [r \in P |-> Body(g, r)]
  <2>1. PICK g : Good(g, l)
    BY <1>3
  <2>2. \A r \in P : g[r] = Body(g, r)
    <3>1. \A r \in P : Near(r, l)
      BY DEF l, P, Near
    <3>. QED BY <2>1, <3>1
  <2>. DEFINE h == [r \in P |-> g[r]]
  <2>3. ASSUME NEW r \in P PROVE h[r] = Body(h, r)
    <3>1. h[r] = Body(g, r)
      BY <2>2
    <3>2. r[1] < r[2] => g[Up(r)] = h[Up(r)] /\ g[Down(r)] = h[Down(r)]
      BY <1>0
    <3>. HIDE DEF h
    <3>3. Body(g, r) = Body(h, r)
      BY <1>11, <3>2
    <3>. QED BY <3>1, <3>3
  <2>4. h = [r \in P |-> h[r]]
    OBVIOUS
  <2>. HIDE DEF h
  <2>. QED BY <2>3, <2>4
<1>. DEFINE f == CHOOSE g : g = [r \in P |-> Body(g, r)]
<1>5. f = [r \in P |-> Body(f, r)]
  BY <1>4
<1>6. FittingLength(value, bytes) = f[<<0, l>>]
  BY DEF FittingLength, P, Body, l, Fits, Mid
<1>. HIDE DEF f
<1>7. \A r \in P : f[r] = Body(f, r)
  BY <1>5
<1>8. ASSUME NEW low \in 0..l, NEW high \in 0..l
      PROVE  f[<<low, high>>] =
               IF low >= high THEN low
               ELSE IF Fits(Mid(low, high)) THEN f[<<Mid(low, high), high>>]
               ELSE f[<<low, Mid(low, high) - 1>>]
  <2>1. <<low, high>> \in P
    BY DEF P
  <2>. QED BY <1>7, <2>1 DEF Body
<1>. QED BY <1>6, <1>8 DEF l, Fits, Mid

\* The bisection finds a prefix that fits while the next longer one does not.
LEMMA FittingIs ==
  ASSUME NEW C, NEW value \in Seq(C), NEW bytes \in Nat
  PROVE  /\ FittingLength(value, bytes) \in 0..Len(value)
         /\ LongestPrefixFits(value, bytes)
<1>. DEFINE l == Len(value)
            Fits(k) == ByteLength(SubSeq(value, 1, k)) <= bytes
            Right(n) == n \in 0..l /\ Fits(n) /\ (n < l => ~Fits(n + 1))
            Around(low, high) ==
              low <= high /\ Fits(low) /\ (high < l => ~Fits(high + 1))
<1>1. l \in Nat
  OBVIOUS
<1>2. PICK f : /\ FittingLength(value, bytes) = f[<<0, l>>]
               /\ \A low, high \in 0..l :
                     LET mid == (low + high + 1) \div 2
                     IN  f[<<low, high>>] =
                           IF low >= high THEN low
                           ELSE IF Fits(mid)
                           THEN f[<<mid, high>>] ELSE f[<<low, mid - 1>>]
  BY <1>1, FittingComputes
<1>3. Fits(0)
  <2>1. SubSeq(value, 1, 0) = <<>>
    OBVIOUS
  <2>2. ByteLength(SubSeq(value, 1, 0)) = 0
    BY <2>1, NoBytes
  <2>. QED BY <2>2
<1>. HIDE DEF l, Fits
<1>. DEFINE S == {n \in Nat : \A low, high \in 0..l :
                    high - low <= n /\ Around(low, high)
                      => Right(f[<<low, high>>])}
<1>4. 0 \in S
  <2>. SUFFICES ASSUME NEW low \in 0..l, NEW high \in 0..l,
                       high - low <= 0, Around(low, high)
                PROVE  Right(f[<<low, high>>])
    OBVIOUS
  <2>1. low = high
    BY <1>1
  <2>2. f[<<low, high>>] = low
    BY <1>2, <2>1
  <2>. QED BY <1>1, <2>1, <2>2
<1>5. ASSUME NEW n \in Nat, n \in S PROVE n + 1 \in S
  <2>. SUFFICES ASSUME NEW low \in 0..l, NEW high \in 0..l,
                       high - low <= n + 1, Around(low, high)
                PROVE  Right(f[<<low, high>>])
    OBVIOUS
  <2>1. CASE low = high
    <3>1. f[<<low, high>>] = low
      BY <1>1, <1>2, <2>1
    <3>. QED BY <1>1, <2>1, <3>1
  <2>2. CASE low < high
    <3>. DEFINE mid == (low + high + 1) \div 2
    <3>1. mid \in (low + 1)..high
      BY <1>1, <2>2
    <3>2. f[<<low, high>>] = IF Fits(mid)
                             THEN f[<<mid, high>>] ELSE f[<<low, mid - 1>>]
      BY <1>1, <1>2, <2>2
    <3>. HIDE DEF mid
    <3>3. /\ mid \in 0..l /\ mid - 1 \in 0..l /\ (mid - 1) + 1 = mid
          /\ high - mid <= n /\ (mid - 1) - low <= n
          /\ mid <= high /\ low <= mid - 1
      BY <1>1, <3>1
    <3>4. CASE Fits(mid)
      <4>1. Around(mid, high)
        BY <3>3, <3>4
      <4>. HIDE DEF Around, Right
      <4>. QED BY <1>5, <3>2, <3>3, <3>4, <4>1
    <3>5. CASE ~Fits(mid)
      <4>1. Around(low, mid - 1)
        BY <3>3, <3>5
      <4>. HIDE DEF Around, Right
      <4>. QED BY <1>5, <3>2, <3>3, <3>5, <4>1
    <3>. QED BY <3>4, <3>5
  <2>. QED BY <1>1, <2>1, <2>2
<1>6. l \in S
  <2>. HIDE DEF S
  <2>. QED BY <1>1, <1>4, <1>5, Induction
<1>7. Around(0, l) /\ 0 \in 0..l /\ l \in 0..l /\ l - 0 <= l
  BY <1>1, <1>3
<1>8. Right(f[<<0, l>>])
  <2>. HIDE DEF Around, Right
  <2>. QED BY <1>6, <1>7
<1>. QED BY <1>2, <1>8 DEF LongestPrefixFits, l, Fits

\* What is cut to a number of bytes without a suffix is a prefix that fits.
LEMMA TruncatedIs ==
  ASSUME NEW C, NEW value \in Seq(C), NEW maxBytes \in Nat
  PROVE  \E n \in 0..Len(value) :
            /\ TruncateUtf8(value, maxBytes, <<>>) = SubSeq(value, 1, n)
            /\ ByteLength(SubSeq(value, 1, n)) <= maxBytes
            /\ maxBytes > 0 =>
                  (n = Len(value) <=> ByteLength(value) <= maxBytes)
<1>. DEFINE l == Len(value)
            n == FittingLength(value, maxBytes)
            Size(k) == ByteLength(SubSeq(value, 1, k))
            out == TruncateUtf8(value, maxBytes, <<>>)
<1>1. l \in Nat /\ SubSeq(value, 1, l) = value /\ SubSeq(value, 1, 0) = <<>>
  OBVIOUS
<1>2. Size(l) = ByteLength(value) /\ Size(0) = 0
  BY <1>1, NoBytes
<1>3. n \in 0..l /\ Size(n) <= maxBytes
  BY FittingIs DEF LongestPrefixFits
<1>4. \A k \in 0..l : SubSeq(value, 1, k) \o <<>> = SubSeq(value, 1, k)
  OBVIOUS
<1>5. out = IF maxBytes = 0 THEN <<>>
            ELSE IF ByteLength(value) <= maxBytes THEN value
            ELSE SubSeq(value, 1, n)
  <2>1. (IF maxBytes > 0 THEN maxBytes - 0 ELSE 0) = maxBytes
    OBVIOUS
  <2>. HIDE DEF l
  <2>. QED BY <1>3, <1>4, <2>1, NoBytes DEF TruncateUtf8
<1>. HIDE DEF n, out, Size
<1>6. CASE maxBytes = 0
  <2>1. out = SubSeq(value, 1, 0) /\ Size(0) <= maxBytes /\ 0 \in 0..l
    BY <1>1, <1>2, <1>5, <1>6
  <2>. QED BY <1>6, <2>1 DEF out, Size
<1>7. CASE maxBytes # 0 /\ ByteLength(value) <= maxBytes
  <2>1. out = SubSeq(value, 1, l) /\ Size(l) <= maxBytes /\ l \in 0..l
    BY <1>1, <1>2, <1>5, <1>7
  <2>. QED BY <1>7, <2>1 DEF out, Size
<1>8. CASE maxBytes # 0 /\ ~(ByteLength(value) <= maxBytes)
  <2>1. out = SubSeq(value, 1, n) /\ Size(n) <= maxBytes /\ n \in 0..l
    BY <1>3, <1>5, <1>8
  <2>2. n # l
    BY <1>2, <1>8, <2>1
  <2>. QED BY <1>8, <2>1, <2>2 DEF out, Size
<1>. QED BY <1>6, <1>7, <1>8

\* The recursive function of FlattenSeq is well defined.
LEMMA FlattenComputes ==
  ASSUME NEW seqs, Len(seqs) \in Nat \ {0}
  PROVE  \E f : /\ FlattenSeq(seqs) = f[Len(seqs)]
                /\ f[1] = seqs[1]
                /\ \A i \in 2..Len(seqs) : f[i] = f[i - 1] \o seqs[i]
<1>. DEFINE l == Len(seqs)
            Body(g, i) == IF i = 1 THEN seqs[i] ELSE g[i - 1] \o seqs[i]
            Good(g, n) == \A i \in 1..l : i <= n + 1 => g[i] = Body(g, i)
            S == {n \in Nat : \E g : Good(g, n)}
<1>10. l \in Nat \ {0}
  OBVIOUS
<1>. HIDE DEF l
<1>0. \A g, h : \A i \in 1..l : (i # 1 => g[i - 1] = h[i - 1])
                                  => Body(g, i) = Body(h, i)
  OBVIOUS
<1>9. \A g : Body(g, 1) = seqs[1]
             /\ \A i \in 2..l : Body(g, i) = g[i - 1] \o seqs[i]
  <2>. TAKE g
  <2>1. ASSUME NEW i \in 2..l PROVE Body(g, i) = g[i - 1] \o seqs[i]
    <3>1. i # 1
      BY <1>10
    <3>. QED BY <3>1
  <2>. QED BY <2>1
<1>. HIDE DEF Body
<1>1. 0 \in S
  <2>. DEFINE g == [i \in 1..l |-> seqs[1]]
  <2>1. ASSUME NEW i \in 1..l, i <= 0 + 1 PROVE g[i] = Body(g, i)
    <3>1. i = 1
      BY <2>1
    <3>. QED BY <1>9, <3>1
  <2>. HIDE DEF g
  <2>. QED BY <2>1
<1>2. ASSUME NEW n \in Nat, n \in S PROVE n + 1 \in S
  <2>1. PICK g : Good(g, n)
    BY <1>2
  <2>. DEFINE h == [i \in 1..l |-> IF i <= n + 1 THEN g[i] ELSE Body(g, i)]
  <2>2. ASSUME NEW i \in 1..l, i <= (n + 1) + 1 PROVE h[i] = Body(h, i)
    <3>1. h[i] = Body(g, i)
      BY <2>1
    <3>2. i # 1 => g[i - 1] = h[i - 1]
      <4>1. i # 1 => i - 1 \in 1..l /\ i - 1 <= n + 1
        BY <1>10, <2>2
      <4>. QED BY <4>1
    <3>. HIDE DEF h
    <3>. QED BY <1>0, <3>1, <3>2
  <2>. HIDE DEF h
  <2>. QED BY <2>2
<1>3. l \in S
  <2>. HIDE DEF S
  <2>. QED BY <1>1, <1>2, <1>10, Induction
<1>4. \E g : g = [i \in 1..l |-> Body(g, i)]
  <2>1. PICK g : Good(g, l)
    BY <1>3
  <2>. DEFINE h == [i \in 1..l |-> g[i]]
  <2>2. ASSUME NEW i \in 1..l PROVE h[i] = Body(h, i)
    <3>1. h[i] = Body(g, i)
      BY <1>3, <1>10, <2>1
    <3>2. i # 1 => g[i - 1] = h[i - 1]
      <4>1. i # 1 => i - 1 \in 1..l
        BY <1>10
      <4>. QED BY <4>1
    <3>. HIDE DEF h
    <3>. QED BY <1>0, <3>1, <3>2
  <2>3. h = [i \in 1..l |-> h[i]]
    OBVIOUS
  <2>. HIDE DEF h
  <2>. QED BY <2>2, <2>3
<1>. DEFINE f == CHOOSE g : g = [i \in 1..l |-> Body(g, i)]
<1>5. f = [i \in 1..l |-> Body(f, i)]
  BY <1>4
<1>6. FlattenSeq(seqs) = f[l]
  BY DEF FlattenSeq, Body, l
<1>. HIDE DEF f
<1>7. \A i \in 1..l : f[i] = Body(f, i)
  BY <1>5
<1>8. f[1] = seqs[1] /\ \A i \in 2..l : f[i] = f[i - 1] \o seqs[i]
  <2>1. 1 \in 1..l /\ 2..l \subseteq 1..l
    BY <1>10
  <2>2. f[1] = Body(f, 1) /\ \A i \in 2..l : f[i] = Body(f, i)
    BY <1>7, <2>1
  <2>. QED BY <1>9, <2>2
<1>. QED BY <1>6, <1>8 DEF l

\* Flattening keeps the elements, and parts of at most k of them add up.
LEMMA FlattenIs ==
  ASSUME NEW C, NEW seqs \in Seq(Seq(C)), NEW k \in Nat
  PROVE  /\ FlattenSeq(seqs) \in Seq(C)
         /\ (\A i \in 1..Len(seqs) : Len(seqs[i]) <= k)
               => Len(FlattenSeq(seqs)) <= k * Len(seqs)
<1>. DEFINE l == Len(seqs)
            Bound == \A i \in 1..Len(seqs) : Len(seqs[i]) <= k
<1>1. l \in Nat /\ \A i \in 1..l : seqs[i] \in Seq(C)
  OBVIOUS
<1>2. CASE l = 0
  <2>1. FlattenSeq(seqs) = <<>> /\ k * l = 0
    BY <1>2 DEF FlattenSeq
  <2>. QED BY <2>1
<1>3. CASE l # 0
  <2>1. PICK f : /\ FlattenSeq(seqs) = f[l]
                 /\ f[1] = seqs[1]
                 /\ \A i \in 2..l : f[i] = f[i - 1] \o seqs[i]
    BY <1>1, <1>3, FlattenComputes
  <2>. DEFINE Fine(i) == f[i] \in Seq(C) /\ (Bound => Len(f[i]) <= k * i)
              S == {n \in Nat : n + 1 \in 1..l => Fine(n + 1)}
  <2>2. \A i \in 1..l : /\ Len(seqs[i]) \in Nat
                         /\ Bound => Len(seqs[i]) <= k
    OBVIOUS
  <2>. HIDE DEF l, Bound
  <2>3. 0 \in S
    <3>1. k * (0 + 1) = k /\ 0 + 1 = 1 /\ 1 \in 1..l
      BY <1>1, <1>3
    <3>. QED BY <1>1, <2>1, <2>2, <3>1
  <2>4. ASSUME NEW n \in Nat, n \in S PROVE n + 1 \in S
    <3>. DEFINE i == n + 1
    <3>. SUFFICES ASSUME i + 1 \in 1..l PROVE Fine(i + 1)
      OBVIOUS
    <3>0. i \in Nat /\ i \in 1..l /\ i + 1 \in 2..l /\ (i + 1) - 1 = i
      BY <1>1
    <3>1. Fine(i)
      <4>. HIDE DEF Fine
      <4>. QED BY <2>4, <3>0
    <3>. HIDE DEF i
    <3>2. f[i + 1] = f[i] \o seqs[i + 1]
      BY <2>1, <3>0
    <3>3. f[i] \in Seq(C) /\ seqs[i + 1] \in Seq(C)
      BY <1>1, <3>0, <3>1
    <3>4. f[i + 1] \in Seq(C) /\ Len(f[i + 1]) = Len(f[i]) + Len(seqs[i + 1])
      BY <3>2, <3>3, TwoParts
    <3>5. k * (i + 1) = k * i + k /\ k * i \in Nat
      BY <3>0
    <3>6. ASSUME Bound PROVE Len(f[i + 1]) <= k * i + k
      <4>. DEFINE p == k * i
                  a == Len(f[i])
                  b == Len(seqs[i + 1])
      <4>1. a \in Nat /\ a <= p /\ b \in Nat /\ b <= k /\ p \in Nat
        BY <2>2, <3>0, <3>1, <3>3, <3>5, <3>6
      <4>. HIDE DEF a, b, p
      <4>2. a + b <= p + k
        BY <4>1
      <4>. QED BY <3>4, <4>2 DEF a, b, p
    <3>. QED BY <3>4, <3>5, <3>6
  <2>5. l - 1 \in S /\ (l - 1) + 1 = l /\ l \in 1..l
    <3>1. l - 1 \in Nat /\ (l - 1) + 1 = l /\ l \in 1..l
      BY <1>1, <1>3
    <3>. HIDE DEF S
    <3>2. Nat \subseteq S
      BY <2>3, <2>4, Induction
    <3>. QED BY <3>1, <3>2
  <2>6. Fine(l)
    <3>. HIDE DEF Fine
    <3>. QED BY <2>5
  <2>. QED BY <2>1, <2>6 DEF l, Bound
<1>. QED BY <1>2, <1>3

\* Lines in a row, with newlines between them.
LEMMA JoinedIs ==
  ASSUME NEW C, "newline" \in C, NEW lines \in Seq(Seq(C))
  PROVE  JoinLines(lines) \in Seq(C)
<1>. DEFINE nl == "newline"
            all == [i \in 1..Len(lines) |->
                      IF i = 1 THEN lines[i] ELSE <<nl>> \o lines[i]]
<1>1. JoinLines(lines) = FlattenSeq(all)
  BY DEF JoinLines
<1>2. nl \in C
  OBVIOUS
<1>. HIDE DEF nl
<1>3. \A i \in 1..Len(lines) : lines[i] \in Seq(C)
                               /\ <<nl>> \o lines[i] \in Seq(C)
  <2>. TAKE i \in 1..Len(lines)
  <2>1. lines[i] \in Seq(C) /\ <<nl>> \in Seq(C)
    BY <1>2
  <2>. QED BY <2>1, TwoParts
<1>4. all \in Seq(Seq(C))
  <2>1. \A i \in 1..Len(lines) : all[i] \in Seq(C)
    BY <1>3
  <2>2. all = [i \in 1..Len(lines) |-> all[i]] /\ Len(lines) \in Nat
    OBVIOUS
  <2>. HIDE DEF all
  <2>. QED BY <2>1, <2>2
<1>. HIDE DEF all
<1>5. FlattenSeq(all) \in Seq(C)
  BY <1>4, FlattenIs
<1>. QED BY <1>1, <1>5

\* A row of parts begins as its first part.
LEMMA BeginsAs ==
  ASSUME NEW C, NEW a \in Seq(C), NEW b \in Seq(C), a # <<>>
  PROVE  /\ a \o b \in Seq(C) /\ a \o b # <<>> /\ (a \o b)[1] = a[1]
         /\ Len(a \o b) = Len(a) + Len(b)
<1>1. a \o b \in Seq(C) /\ Len(a \o b) = Len(a) + Len(b)
  BY TwoParts
<1>2. (a \o b)[1] = a[1] /\ Len(a) > 0
  OBVIOUS
<1>. QED BY <1>1, <1>2

\* The content of a page, in characters of C.
PageOf(C) ==
    [url : Seq(C), title : Seq(C), tree : Seq(Seq(C)),
     elements : Seq(Seq(C)), text : Seq(C), screenshot : BOOLEAN]

\* The first ones of a sequence are those there were.
LEMMA FirstOnes ==
  ASSUME NEW D, NEW seq \in Seq(D), NEW n \in Nat
  PROVE  /\ FirstOf(seq, n) \in Seq(D)
         /\ Len(FirstOf(seq, n)) <= Len(seq)
         /\ \A i \in 1..Len(FirstOf(seq, n)) :
               i \in 1..Len(seq) /\ FirstOf(seq, n)[i] = seq[i]
<1>1. CASE Len(seq) <= n
  BY <1>1 DEF FirstOf
<1>2. CASE ~(Len(seq) <= n)
  <2>1. FirstOf(seq, n) = SubSeq(seq, 1, n) /\ n <= Len(seq)
    BY <1>2 DEF FirstOf
  <2>. QED BY <2>1
<1>. QED BY <1>1, <1>2

\* The limits keep what they leave.
LEMMA LimitsKeep ==
  ASSUME NEW C, "suffix" \in C, "ellipsis" \in C, NEW n \in Nat
  PROVE  /\ \A lines \in Seq(Seq(C)) : LimitLines(lines, n) \in Seq(Seq(C))
         /\ \A text \in Seq(C) : Truncate(text, n) \in Seq(C)
<1>. DEFINE suffix == "suffix"
            dots == "ellipsis"
            D == Seq(C)
<1>1. suffix \in C /\ dots \in C
  OBVIOUS
<1>2. /\ \A lines : LimitLines(lines, n) =
                      IF n = 0 THEN <<>> ELSE IF Len(lines) <= n THEN lines
                      ELSE Append(SubSeq(lines, 1, n), <<suffix>>)
      /\ \A text : Truncate(text, n) =
                     IF Len(text) <= n THEN text
                     ELSE SubSeq(text, 1, IF n > 0 THEN n - 1 ELSE 0)
                          \o <<dots>>
  BY DEF LimitLines, Truncate
<1>. HIDE DEF suffix, dots
<1>3. <<suffix>> \in D /\ <<dots>> \in Seq(C)
  BY <1>1
<1>. HIDE DEF D
<1>4. ASSUME NEW lines \in Seq(D) PROVE LimitLines(lines, n) \in Seq(D)
  <2>. DEFINE some == SubSeq(lines, 1, n)
  <2>1. CASE n = 0
    <3>1. LimitLines(lines, n) = <<>> /\ <<>> \in Seq(D)
      BY <2>1 DEF LimitLines
    <3>. QED BY <3>1
  <2>2. CASE n # 0 /\ Len(lines) <= n
    <3>1. LimitLines(lines, n) = lines
      BY <2>2 DEF LimitLines
    <3>. QED BY <3>1
  <2>3. CASE n # 0 /\ ~(Len(lines) <= n)
    <3>1. some \in Seq(D)
      BY <2>3
    <3>2. LimitLines(lines, n) = Append(some, <<suffix>>)
      BY <1>2, <2>3
    <3>. HIDE DEF some
    <3>. QED BY <1>3, <3>1, <3>2
  <2>. QED BY <2>1, <2>2, <2>3
<1>5. ASSUME NEW text \in Seq(C) PROVE Truncate(text, n) \in Seq(C)
  <2>. DEFINE k == IF n > 0 THEN n - 1 ELSE 0
  <2>1. Len(text) <= n \/ (k \in Nat /\ k <= Len(text))
    OBVIOUS
  <2>2. k \in Nat /\ k <= Len(text) => SubSeq(text, 1, k) \in Seq(C)
    <3>. HIDE DEF k
    <3>. QED OBVIOUS
  <2>3. k \in Nat /\ k <= Len(text)
           => SubSeq(text, 1, k) \o <<dots>> \in Seq(C)
    <3>. HIDE DEF k
    <3>. QED BY <1>3, <2>2, TwoParts
  <2>4. Truncate(text, n) = IF Len(text) <= n THEN text
                            ELSE SubSeq(text, 1, k) \o <<dots>>
    BY <1>2
  <2>. HIDE DEF k
  <2>. QED BY <2>1, <2>3, <2>4
<1>. QED BY <1>4, <1>5 DEF D

\* What a payload is made of besides the page.
Marks == {"{", "}", "frame", "suffix", "ellipsis", "newline", "warning"}

\* A payload opens and closes like an object.
LEMMA PayloadIs ==
  ASSUME NEW C, Marks \subseteq C, NEW page \in PageOf(C), NEW level \in Level
  PROVE  /\ StructuredPayload(page, level) \in Seq(C)
         /\ IsStructuredWebPayload(StructuredPayload(page, level))
<1>. DEFINE open == "{"
            close == "}"
            frame == "frame"
            p1 == <<open, frame>> \o page.url
            p2 == p1 \o page.title
            e == FlattenSeq(FirstOf(page.elements, Elements[level]))
            p3 == p2 \o e
            t == JoinLines(LimitLines(page.tree, TreeLines[level]))
            p4 == p3 \o t
            x == Truncate(page.text, TextChars[level])
            p5 == p4 \o x
            p == StructuredPayload(page, level)
<1>1. /\ page.url \in Seq(C) /\ page.title \in Seq(C)
      /\ page.tree \in Seq(Seq(C)) /\ page.elements \in Seq(Seq(C))
      /\ page.text \in Seq(C)
  BY DEF PageOf
<1>2. /\ open \in C /\ close \in C /\ frame \in C
      /\ "suffix" \in C /\ "ellipsis" \in C /\ "newline" \in C
  BY DEF Marks
<1>3. /\ Elements[level] \in Nat /\ TreeLines[level] \in Nat
      /\ TextChars[level] \in Nat
  BY WebOutputAssumption DEF WebOutputAssumption
<1>4. e \in Seq(C)
  <2>1. FirstOf(page.elements, Elements[level]) \in Seq(Seq(C))
    BY <1>1, <1>3, FirstOnes
  <2>. QED BY <2>1, FlattenIs
<1>5. t \in Seq(C)
  <2>1. LimitLines(page.tree, TreeLines[level]) \in Seq(Seq(C))
    BY <1>1, <1>2, <1>3, LimitsKeep
  <2>. QED BY <1>2, <2>1, JoinedIs
<1>6. x \in Seq(C)
  BY <1>1, <1>2, <1>3, LimitsKeep
<1>7. p = p5 \o <<close>>
  BY DEF StructuredPayload
<1>8. \A q : IsStructuredWebPayload(q) <=>
                q # <<>> /\ q[1] = open /\ Last(q) = close
  BY DEF IsStructuredWebPayload
<1>. HIDE DEF open, close, frame, e, t, x, p
<1>9. <<open, frame>> \in Seq(C) /\ <<open, frame>> # <<>>
      /\ <<open, frame>>[1] = open
  BY <1>2
<1>10. p1 \in Seq(C) /\ p1 # <<>> /\ p1[1] = open
  BY <1>1, <1>9, BeginsAs
<1>. HIDE DEF p1
<1>11. p2 \in Seq(C) /\ p2 # <<>> /\ p2[1] = open
  BY <1>1, <1>10, BeginsAs
<1>. HIDE DEF p2
<1>12. p3 \in Seq(C) /\ p3 # <<>> /\ p3[1] = open
  BY <1>4, <1>11, BeginsAs
<1>. HIDE DEF p3
<1>13. p4 \in Seq(C) /\ p4 # <<>> /\ p4[1] = open
  BY <1>5, <1>12, BeginsAs
<1>. HIDE DEF p4
<1>14. p5 \in Seq(C) /\ p5 # <<>> /\ p5[1] = open
  BY <1>6, <1>13, BeginsAs
<1>. HIDE DEF p5
<1>15. p \in Seq(C) /\ p # <<>> /\ p[1] = open
  BY <1>2, <1>7, <1>14, BeginsAs
<1>16. Last(p) = close
  <2>1. Len(p) = Len(p5) + 1 /\ p[Len(p5) + 1] = close
    BY <1>2, <1>7, <1>14
  <2>. QED BY <2>1 DEF Last
<1>17. IsStructuredWebPayload(p)
  BY <1>8, <1>15, <1>16
<1>. QED BY <1>15, <1>17 DEF p

\* What is inside of an object.
Inner(C) == C \ {"}"}

\* So does the smallest one, and what it is cut to does not.
LEMMA MinimalIs ==
  ASSUME NEW C, Marks \subseteq C,
         NEW page \in PageOf(Inner(C))
  PROVE  LET p == MinimalPayload(page)
         IN  /\ p \in Seq(C)
             /\ IsStructuredWebPayload(p)
             /\ \A n \in 0..(Len(p) - 1) :
                   ~IsStructuredWebPayload(SubSeq(p, 1, n))
<1>. DEFINE open == "{"
            close == "}"
            frame == "frame"
            D == Inner(C)
            p1 == <<open, frame>> \o page.url
            p2 == p1 \o page.title
            e == FlattenSeq(FirstOf(page.elements, MinimalElements))
            p3 == p2 \o e
            p == MinimalPayload(page)
<1>1. /\ page.url \in Seq(D) /\ page.title \in Seq(D)
      /\ page.elements \in Seq(Seq(D))
  BY DEF PageOf
<1>2. /\ open \in D /\ close \in C /\ close \notin D /\ frame \in D
      /\ "suffix" \in D /\ "ellipsis" \in D
  BY DEF Marks, Inner
<1>3. MinimalElements \in Nat
  BY WebOutputAssumption DEF WebOutputAssumption
<1>4. e \in Seq(D)
  <2>. HIDE DEF D
  <2>1. FirstOf(page.elements, MinimalElements) \in Seq(Seq(D))
    BY <1>1, <1>3, FirstOnes
  <2>. QED BY <2>1, FlattenIs
<1>5. p = p3 \o <<close>>
  BY DEF MinimalPayload
<1>6. \A q : IsStructuredWebPayload(q) <=>
                q # <<>> /\ q[1] = open /\ Last(q) = close
  BY DEF IsStructuredWebPayload
<1>7. D \subseteq C
  BY DEF Inner
<1>. HIDE DEF open, close, frame, e, p, D
<1>9. <<open, frame>> \in Seq(D) /\ <<open, frame>> # <<>>
      /\ <<open, frame>>[1] = open
  BY <1>2
<1>10. p1 \in Seq(D) /\ p1 # <<>> /\ p1[1] = open
  BY <1>1, <1>9, BeginsAs
<1>. HIDE DEF p1
<1>11. p2 \in Seq(D) /\ p2 # <<>> /\ p2[1] = open
  BY <1>1, <1>10, BeginsAs
<1>. HIDE DEF p2
<1>12. p3 \in Seq(D) /\ p3 # <<>> /\ p3[1] = open
  BY <1>4, <1>11, BeginsAs
<1>. HIDE DEF p3
<1>13. p3 \in Seq(C) /\ <<close>> \in Seq(C)
  BY <1>2, <1>7, <1>12
<1>14. p \in Seq(C) /\ p # <<>> /\ p[1] = open
  BY <1>5, <1>12, <1>13, BeginsAs
<1>15. /\ Len(p) = Len(p3) + 1 /\ p[Len(p3) + 1] = close
       /\ \A i \in 1..Len(p3) : p[i] = p3[i] /\ p3[i] \in D
       /\ Len(p3) \in Nat
  BY <1>2, <1>5, <1>12, <1>13
<1>16. IsStructuredWebPayload(p)
  BY <1>6, <1>14, <1>15 DEF Last
<1>17. ASSUME NEW n \in 0..(Len(p) - 1)
       PROVE  ~IsStructuredWebPayload(SubSeq(p, 1, n))
  <2>. DEFINE q == SubSeq(p, 1, n)
  <2>1. q \in Seq(C) /\ Len(q) = n /\ \A i \in 1..n : q[i] = p[i]
    BY <1>14, <1>15
  <2>. HIDE DEF q
  <2>2. q # <<>> => q[Len(q)] # close
    <3>. SUFFICES ASSUME q # <<>> PROVE q[Len(q)] # close
      OBVIOUS
    <3>1. Len(q) \in 1..n /\ Len(q) \in 1..Len(p3)
      BY <1>15, <2>1
    <3>. QED BY <1>2, <1>15, <2>1, <3>1
  <2>3. ~IsStructuredWebPayload(q)
    BY <1>6, <2>2 DEF Last
  <2>. QED BY <2>3 DEF q
<1>. QED BY <1>14, <1>16, <1>17 DEF p

\* Sequences of few and of more characters.
LEMMA SequencesOf ==
  ASSUME NEW D
  PROVE  /\ <<>> \in Seq(D)
         /\ \A x \in D : <<x>> \in Seq(D)
         /\ \A s \in Seq(D) : s # <<>> => s[1] \in D
         /\ \A C : D \subseteq C => Seq(D) \subseteq Seq(C)
OBVIOUS

\* A raw output that is no payload is shown behind the warning, cut to the
\* limit, or not at all.
LEMMA GatewayMarks ==
  ASSUME NEW C, Marks \subseteq C, NEW raw \in Seq(C), NEW limit \in Nat,
         ~IsStructuredWebPayload(raw)
  PROVE  LET shown == ResultContent(raw, limit)
         IN  /\ shown = <<>> \/ shown[1] = "warning"
             /\ ByteLength(shown) <= limit
<1>. DEFINE warning == "warning"
            v == <<warning>> \o raw
            shown == ResultContent(raw, limit)
<1>1. warning \in C
  BY DEF Marks
<1>2. shown = TruncateUtf8(v, limit, <<>>)
  BY DEF ResultContent
<1>. HIDE DEF warning, shown
<1>3. <<warning>> \in Seq(C) /\ <<warning>> # <<>>
      /\ <<warning>>[1] = warning
  BY <1>1
<1>4. v \in Seq(C) /\ v # <<>> /\ v[1] = warning
  BY <1>3, BeginsAs
<1>. HIDE DEF v
<1>5. PICK n \in 0..Len(v) :
         /\ shown = SubSeq(v, 1, n)
         /\ ByteLength(SubSeq(v, 1, n)) <= limit
  BY <1>2, <1>4, TruncatedIs
<1>6. shown = <<>> \/ shown[1] = warning
  BY <1>4, <1>5
<1>7. ByteLength(shown) <= limit
  BY <1>5
<1>. QED BY <1>6, <1>7 DEF shown, warning

\* What is cut with a suffix is made of the text and the suffix.
LEMMA CutWithSuffix ==
  ASSUME NEW C, "suffix" \in C, NEW value \in Seq(C), NEW maxBytes \in Nat
  PROVE  TruncateUtf8(value, maxBytes, <<"suffix">>) \in Seq(C)
<1>. DEFINE suffix == "suffix"
            b == ByteLength(<<suffix>>)
            target == IF maxBytes > b THEN maxBytes - b ELSE 0
            n == FittingLength(value, target)
            out == TruncateUtf8(value, maxBytes, <<suffix>>)
<1>1. Width(suffix) \in 0..(3 + SuffixBytes) /\ 3 + SuffixBytes \in Nat
      /\ 3 + SuffixBytes >= 3
  <2>1. Width(suffix) = SuffixBytes /\ SuffixBytes \in Nat
    BY WebOutputAssumption DEF Width, WebOutputAssumption
  <2>. HIDE DEF suffix
  <2>. QED BY <2>1
<1>2. suffix \in C
  OBVIOUS
<1>3. out = IF maxBytes = 0 THEN <<>>
            ELSE IF ByteLength(value) <= maxBytes THEN value
            ELSE SubSeq(value, 1, n) \o <<suffix>>
  BY DEF TruncateUtf8
<1>. HIDE DEF suffix, out
<1>4. b \in Nat
  <2>. DEFINE S == {suffix}
              w == 3 + SuffixBytes
  <2>1. <<suffix>> \in Seq(S) /\ \A u \in S : Width(u) \in 0..w
    BY <1>1
  <2>2. w \in Nat /\ w >= 3
    BY <1>1
  <2>. HIDE DEF S, w
  <2>. QED BY <2>1, <2>2, ByteLengthIs
<1>. HIDE DEF b
<1>5. target \in Nat
  BY <1>4
<1>. HIDE DEF target
<1>6. n \in 0..Len(value)
  BY <1>5, FittingIs
<1>. HIDE DEF n
<1>7. SubSeq(value, 1, n) \in Seq(C) /\ <<suffix>> \in Seq(C)
  BY <1>2, <1>6
<1>8. SubSeq(value, 1, n) \o <<suffix>> \in Seq(C)
  BY <1>7, TwoParts
<1>9. <<>> \in Seq(C)
  OBVIOUS
<1>10. out \in Seq(C)
  BY <1>3, <1>8, <1>9
<1>. QED BY <1>10 DEF out, suffix

\* The output of the legacy format is never taken for a payload.
LEMMA LegacyIs ==
  ASSUME NEW C, Marks \subseteq C, NEW D, D \subseteq C, "{" \notin D,
         "newline" \in D, "suffix" \in D,
         NEW page \in PageOf(D), NEW maxBytes \in Nat
  PROVE  /\ BuildLegacyOutput(page, maxBytes) \in Seq(C)
         /\ ~IsStructuredWebPayload(BuildLegacyOutput(page, maxBytes))
<1>. DEFINE nl == "newline"
            open == "{"
            text == IF page.text = <<>> THEN <<>> ELSE <<nl>> \o page.text
            marker == IF page.screenshot THEN <<nl>> ELSE <<>>
            lines == JoinLines(page.tree)
            shown == lines \o text
            v == shown \o marker
            out == BuildLegacyOutput(page, maxBytes)
<1>1. page.tree \in Seq(Seq(D)) /\ page.text \in Seq(D)
  BY DEF PageOf
<1>2. lines \in Seq(D)
  BY <1>1, JoinedIs
<1>3. nl \in D /\ open \notin D
  OBVIOUS
<1>4. out = TruncateUtf8(v, maxBytes, <<"suffix">>)
  BY DEF BuildLegacyOutput
<1>5. \A q : IsStructuredWebPayload(q) => q # <<>> /\ q[1] = open
  BY DEF IsStructuredWebPayload
<1>. HIDE DEF nl, open, lines, out
<1>6. text \in Seq(D)
  <2>1. <<nl>> \in Seq(D) /\ <<>> \in Seq(D)
    BY <1>3, SequencesOf
  <2>2. <<nl>> \o page.text \in Seq(D)
    BY <1>1, <2>1, TwoParts
  <2>. QED BY <2>1, <2>2
<1>. HIDE DEF text
<1>7. v \in Seq(D)
  <2>1. shown \in Seq(D)
    BY <1>2, <1>6, TwoParts
  <2>2. marker \in Seq(D)
    BY <1>3, SequencesOf
  <2>. HIDE DEF shown, marker
  <2>. QED BY <2>1, <2>2, TwoParts
<1>. HIDE DEF v
<1>8. out \in Seq(D)
  BY <1>4, <1>7, CutWithSuffix
<1>9. out # <<>> => out[1] \in D
  BY <1>8, SequencesOf
<1>10. out \in Seq(C)
  BY <1>8, SequencesOf
<1>. QED BY <1>3, <1>5, <1>9, <1>10 DEF out

\* A page of some characters is one of more characters.
LEMMA PagesOf ==
  ASSUME NEW C, NEW D, D \subseteq C
  PROVE  PageOf(D) \subseteq PageOf(C)
<1>1. Seq(D) \subseteq Seq(C)
  BY SequencesOf
<1>. DEFINE S == Seq(D)
            T == Seq(C)
<1>2. S \subseteq T
  BY <1>1
<1>. HIDE DEF S, T
<1>3. Seq(S) \subseteq Seq(T)
  BY <1>2, SequencesOf
<1>. QED BY <1>2, <1>3 DEF S, T, PageOf

\* The payloads of a page.
Payloads(page, mode) ==
    {StructuredPayload(page, l) : l \in {mode, "reduced"}}
    \cup {MinimalPayload(page)}

\* The executor's structured output is a payload that fits, if there is one;
\* if there is none, it is not taken for one.
LEMMA StructuredIs ==
  ASSUME NEW C, Marks \subseteq C, NEW page \in PageOf(Inner(C)),
         NEW mode \in Level, NEW maxBytes \in Nat, maxBytes > 0
  PROVE  LET raw == BuildStructuredOutput(page, mode, maxBytes)
             fits == \E p \in Payloads(page, mode) : ByteLength(p) <= maxBytes
         IN  /\ raw \in Seq(C)
             /\ fits => /\ raw \in Payloads(page, mode)
                        /\ ByteLength(raw) <= maxBytes
             /\ ~fits => ~IsStructuredWebPayload(raw)
<1>. DEFINE raw == BuildStructuredOutput(page, mode, maxBytes)
            reduced == "reduced"
            P(l) == StructuredPayload(page, l)
            m == MinimalPayload(page)
            Small(p) == ByteLength(p) <= maxBytes
            levels == {l \in {mode, reduced} : Small(P(l))}
<1>1. page \in PageOf(C) /\ reduced \in Level
  BY PagesOf DEF Inner, Level
<1>2. \A p : p \in Payloads(page, mode) <=>
                p = P(mode) \/ p = P(reduced) \/ p = m
  BY DEF Payloads
<1>3. raw = IF levels # {} THEN P(IF mode \in levels THEN mode ELSE reduced)
            ELSE IF Small(m) THEN m ELSE TruncateUtf8(m, maxBytes, <<>>)
  BY DEF BuildStructuredOutput
<1>4. P(mode) \in Seq(C) /\ P(reduced) \in Seq(C)
  BY <1>1, PayloadIs
<1>5. m \in Seq(C) /\ \A n \in 0..(Len(m) - 1) :
                         ~IsStructuredWebPayload(SubSeq(m, 1, n))
  BY MinimalIs
<1>. HIDE DEF P, m, raw, reduced, Small
<1>6. CASE levels # {}
  <2>1. PICK l \in {mode, reduced} : raw = P(l) /\ Small(P(l))
    BY <1>3, <1>6
  <2>. QED BY <1>2, <1>4, <2>1 DEF raw, Small
<1>7. CASE levels = {} /\ Small(m)
  <2>1. raw = m
    BY <1>3, <1>7
  <2>. QED BY <1>2, <1>5, <1>7, <2>1 DEF raw, Small
<1>8. CASE levels = {} /\ ~Small(m)
  <2>1. raw = TruncateUtf8(m, maxBytes, <<>>)
    BY <1>3, <1>8
  <2>2. PICK n \in 0..Len(m) :
           /\ raw = SubSeq(m, 1, n)
           /\ n = Len(m) <=> Small(m)
    BY <1>5, <2>1, TruncatedIs DEF Small
  <2>3. n \in 0..(Len(m) - 1)
    BY <1>5, <1>8, <2>2
  <2>4. raw \in Seq(C) /\ ~IsStructuredWebPayload(raw)
    <3>1. ~IsStructuredWebPayload(raw)
      BY <1>5, <2>2, <2>3
    <3>2. raw \in Seq(C)
      BY <1>5, <2>2, <2>3
    <3>. QED BY <3>1, <3>2
  <2>5. ~Small(P(mode)) /\ ~Small(P(reduced))
    BY <1>8
  <2>. QED BY <1>2, <1>8, <2>4, <2>5 DEF raw, Small
<1>. QED BY <1>6, <1>7, <1>8

\* The braces of an object.
Braces == {"{", "}"}

\* The limit of an output without limit is one.
LEMMA DefaultIs == DefaultMaxOutput \in Nat /\ DefaultMaxOutput > 0
BY SMT DEF DefaultMaxOutput

\* What the LLM reads of a page comes in a whole payload or behind the
\* warning and within the limit, and it is a payload whenever one fits:
\* for every page, limit, format and level of detail, whatever the sizes of
\* warning, suffix and frame and the limits of the levels.  Only a page whose
\* smallest payload is larger than the megabyte that stands for no limit is
\* left out (buildStructuredOutput, buildLegacyOutput, runLoop).
THEOREM EveryPageIsMarked ==
  ASSUME NEW U, Braces \cap U = {}, NEW page \in PageOf(U),
         NEW format, NEW mode \in Level, NEW limit \in Nat,
         limit = 0 => ByteLength(MinimalPayload(page)) <= DefaultMaxOutput
  PROVE  ContentIsMarked(page, format, mode, limit)
<1>. DEFINE C == U \cup Marks
            D == U \cup {"newline", "suffix"}
            max == IF limit = 0 THEN DefaultMaxOutput ELSE limit
            whole == Payloads(page, mode)
            raw == ExecutorOutput(page, format, mode, limit)
            shown == ResultContent(raw, limit)
            fits == \E p \in whole : ByteLength(p) <= max
<1>1. /\ Marks \subseteq C /\ U \subseteq Inner(C) /\ U \subseteq C
      /\ D \subseteq C /\ "{" \notin D /\ "newline" \in D /\ "suffix" \in D
      /\ U \subseteq D
  BY DEF Marks, Inner, Braces
<1>2. page \in PageOf(C) /\ page \in PageOf(Inner(C)) /\ page \in PageOf(D)
  <2>. HIDE DEF C, D
  <2>. QED BY <1>1, PagesOf
<1>3. max \in Nat /\ max > 0
  BY DefaultIs
<1>4. raw = IF format = "structured"
            THEN BuildStructuredOutput(page, mode, max)
            ELSE BuildLegacyOutput(page, max)
  BY DEF ExecutorOutput
<1>5. ~IsStructuredWebPayload(raw) => /\ shown = <<>> \/ shown[1] = "warning"
                                      /\ ByteLength(shown) <= limit
  <2>1. raw \in Seq(C)
    <3>. HIDE DEF C, D, max, raw
    <3>. QED BY <1>1, <1>2, <1>3, <1>4, StructuredIs, LegacyIs
  <2>. HIDE DEF C, raw
  <2>. QED BY <1>1, <2>1, GatewayMarks
<1>6. IsStructuredWebPayload(raw) => shown = raw
  BY DEF ResultContent
<1>7. \A p \in whole : IsStructuredWebPayload(p)
  <2>. HIDE DEF C, D
  <2>1. mode \in Level /\ "reduced" \in Level
    BY DEF Level
  <2>2. IsStructuredWebPayload(MinimalPayload(page))
    BY <1>1, <1>2, MinimalIs
  <2>3. \A l \in Level : IsStructuredWebPayload(StructuredPayload(page, l))
    BY <1>1, <1>2, PayloadIs
  <2>. QED BY <2>1, <2>2, <2>3 DEF Payloads
<1>8. format = "structured" =>
         /\ fits => raw \in whole /\ ByteLength(raw) <= max
         /\ ~fits => ~IsStructuredWebPayload(raw)
  <2>. HIDE DEF C, D, max
  <2>. QED BY <1>1, <1>2, <1>3, <1>4, StructuredIs
<1>9. format # "structured" => ~IsStructuredWebPayload(raw)
  <2>. HIDE DEF C, D, max
  <2>. QED BY <1>1, <1>2, <1>3, <1>4, LegacyIs
<1>10. limit = 0 => fits
  BY DEF Payloads
<1>11. ~(shown = <<>> \/ shown[1] = "warning") \/ shown \notin whole
  <2>1. \A p : IsStructuredWebPayload(p) =>
                  p # <<>> /\ p[1] = "{" /\ "{" # "warning"
    BY DEF IsStructuredWebPayload
  <2>. HIDE DEF whole, shown
  <2>. QED BY <1>7, <2>1
<1>12. (\E p \in whole : ByteLength(p) <= limit) /\ limit > 0 => fits
  OBVIOUS
<1>13. fits /\ limit > 0 => \E p \in whole : ByteLength(p) <= limit
  OBVIOUS
<1>. HIDE DEF C, D, whole, raw, shown, fits
<1>14. shown \in whole \/ shown = <<>> \/ shown[1] = "warning"
  BY <1>5, <1>6, <1>8, <1>9
<1>15. limit > 0 => ByteLength(shown) <= limit
  BY <1>5, <1>6, <1>7, <1>8, <1>9
<1>16. shown \in whole <=>
          /\ format = "structured"
          /\ limit = 0 \/ \E p \in whole : ByteLength(p) <= limit
  BY <1>5, <1>6, <1>7, <1>8, <1>9, <1>10, <1>11, <1>12, <1>13
<1>. QED BY <1>14, <1>15, <1>16 DEF ContentIsMarked, shown, raw, whole,
                            Payloads

\* The smallest payload of a small page is far below a megabyte.
LEMMA SmallPage ==
  ASSUME NEW U, \A u \in U : Width(u) \in 0..3, FrameBytes <= 1000,
         NEW page \in PageOf(U), Len(page.url) <= 2, Len(page.title) <= 2,
         Len(page.elements) <= 4,
         \A i \in 1..Len(page.elements) : Len(page.elements[i]) <= 1
  PROVE  ByteLength(MinimalPayload(page)) <= DefaultMaxOutput
<1>. DEFINE open == "{"
            close == "}"
            frame == "frame"
            E == {open, close, frame}
            C == U \cup E
            w == 3 + FrameBytes
            some == FirstOf(page.elements, MinimalElements)
            p1 == <<open, frame>> \o page.url
            p2 == p1 \o page.title
            e == FlattenSeq(some)
            p3 == p2 \o e
            p == MinimalPayload(page)
<1>1. /\ Width(open) = 0 /\ Width(close) = 0 /\ Width(frame) = FrameBytes
      /\ FrameBytes \in Nat /\ MinimalElements \in Nat
  BY WebOutputAssumption DEF Width, WebOutputAssumption
<1>2. p = p3 \o <<close>>
  BY DEF MinimalPayload
<1>3. /\ page.url \in Seq(U) /\ page.title \in Seq(U)
      /\ page.elements \in Seq(Seq(U))
  BY DEF PageOf
<1>. HIDE DEF open, close, frame, p
<1>4. w \in Nat /\ w >= 3 /\ w <= 1003 /\ \A u \in C : Width(u) \in 0..w
  BY <1>1
<1>5. /\ <<open, frame>> \in Seq(C) /\ Len(<<open, frame>>) = 2
      /\ <<close>> \in Seq(C) /\ Len(<<close>>) = 1
  OBVIOUS
<1>6. U \subseteq C
  OBVIOUS
<1>. HIDE DEF C, w
<1>7. page.url \in Seq(C) /\ page.title \in Seq(C)
  BY <1>3, <1>6, SequencesOf
<1>8. /\ some \in Seq(Seq(U)) /\ Len(some) <= Len(page.elements)
      /\ \A i \in 1..Len(some) : Len(some[i]) <= 1
  <2>1. /\ some \in Seq(Seq(U)) /\ Len(some) <= Len(page.elements)
        /\ \A i \in 1..Len(some) : i \in 1..Len(page.elements)
                                   /\ some[i] = page.elements[i]
    <3>. DEFINE D == Seq(U)
                seq == page.elements
                n == MinimalElements
    <3>1. seq \in Seq(D) /\ n \in Nat /\ some = FirstOf(seq, n)
      BY <1>1, <1>3
    <3>. HIDE DEF D, seq, n, some
    <3>2. /\ some \in Seq(D) /\ Len(some) <= Len(seq)
          /\ \A i \in 1..Len(some) : i \in 1..Len(seq) /\ some[i] = seq[i]
      BY <3>1, FirstOnes
    <3>. QED BY <3>2 DEF D, seq
  <2>. QED BY <2>1
<1>. HIDE DEF some
<1>9. e \in Seq(C) /\ Len(e) <= 4
  <2>1. e \in Seq(U) /\ Len(e) <= 1 * Len(some)
    BY <1>8, FlattenIs
  <2>2. Len(some) \in Nat /\ Len(page.elements) \in Nat
    BY <1>3, <1>8
  <2>3. Len(e) <= 4
    BY <1>8, <2>1, <2>2
  <2>. QED BY <1>6, <2>1, <2>3, SequencesOf
<1>. HIDE DEF e
<1>10. p1 \in Seq(C) /\ Len(p1) <= 4
  BY <1>5, <1>7, TwoParts
<1>. HIDE DEF p1
<1>11. p2 \in Seq(C) /\ Len(p2) <= 6
  BY <1>7, <1>10, TwoParts
<1>. HIDE DEF p2
<1>12. p3 \in Seq(C) /\ Len(p3) <= 10
  BY <1>9, <1>11, TwoParts
<1>. HIDE DEF p3
<1>13. p \in Seq(C) /\ Len(p) <= 11 /\ Len(p) \in Nat
  BY <1>2, <1>5, <1>12, TwoParts
<1>14. ByteLength(p) \in Nat /\ ByteLength(p) <= w * Len(p)
  BY <1>4, <1>13, ByteLengthIs
<1>15. w * Len(p) <= w * 11
  BY <1>4, <1>13
<1>16. w * 11 <= DefaultMaxOutput
  BY SMT, <1>4 DEF DefaultMaxOutput
<1>17. w * Len(p) \in Nat /\ w * 11 \in Nat
  BY <1>4, <1>13
<1>. DEFINE a == w * Len(p)
            b == w * 11
            c == ByteLength(p)
<1>18. c \in Nat /\ a \in Nat /\ b \in Nat /\ c <= a /\ a <= b
       /\ b <= DefaultMaxOutput
  BY <1>14, <1>15, <1>16, <1>17
<1>. HIDE DEF a, b, c
<1>19. c <= DefaultMaxOutput
  BY <1>18, DefaultIs
<1>. QED BY <1>19 DEF c, p

\* Short sequences, and ones that repeat an element.
LEMMA ShortSequences ==
  ASSUME NEW D, NEW x \in D, NEW y \in D, NEW n \in Nat
  PROVE  /\ <<>> \in Seq(D) /\ Len(<<>>) = 0
         /\ <<x>> \in Seq(D) /\ Len(<<x>>) = 1
         /\ <<x, y>> \in Seq(D) /\ Len(<<x, y>>) = 2
         /\ [i \in 1..n |-> x] \in Seq(D) /\ Len([i \in 1..n |-> x]) = n
OBVIOUS

\* The pages the run enumerates are small ones.
LEMMA PagesAreSmall ==
  ASSUME NEW page \in SmallPages
  PROVE  /\ page \in PageOf({"x", "wide"})
         /\ Len(page.url) <= 2 /\ Len(page.title) <= 2
         /\ Len(page.elements) <= 4
         /\ \A i \in 1..Len(page.elements) : Len(page.elements[i]) <= 1
<1>. DEFINE U == {"x", "wide"}
            D == Seq(U)
            one == <<"x">>
<1>1. /\ page = [url |-> page.url, title |-> page.title, tree |-> page.tree,
                 elements |-> page.elements, text |-> page.text,
                 screenshot |-> page.screenshot]
      /\ page.url = <<"x">> \/ page.url = <<"x", "wide">>
      /\ page.title = <<>> \/ page.title = <<"x", "x">>
      /\ page.tree \in SmallLists /\ page.elements \in SmallLists
      /\ \E n \in 0..6, u \in {"x", "wide"} : page.text = [i \in 1..n |-> u]
      /\ page.screenshot \in BOOLEAN
  BY DEF SmallPages
<1>2. /\ one \in D /\ Len(one) = 1
      /\ <<"x", "wide">> \in D /\ Len(<<"x", "wide">>) = 2
      /\ <<"x", "x">> \in D /\ Len(<<"x", "x">>) = 2
      /\ <<>> \in D /\ Len(<<>>) = 0
  <2>1. "x" \in U /\ "wide" \in U /\ 0 \in Nat
    OBVIOUS
  <2>. HIDE DEF U
  <2>. QED BY <2>1, ShortSequences, Zenon
<1>3. /\ page.url \in D /\ Len(page.url) <= 2
      /\ page.title \in D /\ Len(page.title) <= 2
  <2>. DEFINE a == <<"x", "wide">>
              b == <<"x", "x">>
  <2>1. /\ page.url \in {one, a} /\ page.title \in {<<>>, b}
        /\ {one, a, b, <<>>} \subseteq D
        /\ Len(one) = 1 /\ Len(a) = 2 /\ Len(b) = 2 /\ Len(<<>>) = 0
    BY <1>1, <1>2, Zenon
  <2>. HIDE DEF a, b, one, D
  <2>2. page.url \in D /\ Len(page.url) \in {1, 2}
    BY <2>1, Zenon
  <2>3. page.title \in D /\ Len(page.title) \in {0, 2}
    BY <2>1, Zenon
  <2>4. \A k \in {0, 1, 2} : k <= 2
    OBVIOUS
  <2>. QED BY <2>2, <2>3, <2>4, Zenon
<1>4. ASSUME NEW list \in SmallLists
      PROVE  /\ list \in Seq(D) /\ Len(list) <= 4
             /\ \A i \in 1..Len(list) : Len(list[i]) <= 1
  <2>1. PICK n \in 0..4 : list = [i \in 1..n |-> one]
    BY DEF SmallLists
  <2>. HIDE DEF D, one
  <2>. QED BY <1>2, <2>1
<1>5. page.text \in D
  <2>1. PICK n \in 0..6, u \in U : page.text = [i \in 1..n |-> u]
    BY <1>1
  <2>. HIDE DEF U
  <2>. QED BY <2>1, ShortSequences
<1>. HIDE DEF D
<1>6. page \in [url : D, title : D, tree : Seq(D), elements : Seq(D),
                text : D, screenshot : BOOLEAN]
  BY <1>1, <1>3, <1>4, <1>5
<1>. QED BY <1>1, <1>3, <1>4, <1>6 DEF PageOf, D

\* Whatever page or text is picked, if the frame of a payload has at most a
\* thousand bytes.
THEOREM PagesAreMarked ==
  ASSUME FrameBytes <= 1000
  PROVE  Spec => []WebContentIsMarked
<1>. DEFINE U == {"x", "wide"}
<1>1. Init => WebContentIsMarked
  BY DEF Init, WebContentIsMarked
<1>2. ASSUME WebContentIsMarked, [Next]_input PROVE WebContentIsMarked'
  <2>1. CASE UNCHANGED input
    BY <1>2, <2>1 DEF WebContentIsMarked
  <2>2. CASE PickStream
    BY <2>2 DEF PickStream, WebContentIsMarked
  <2>3. CASE PickFrames
    BY <2>3 DEF PickFrames, WebContentIsMarked
  <2>4. CASE PickMessage
    BY <2>4 DEF PickMessage, WebContentIsMarked
  <2>5. CASE PickText
    <3>. DEFINE T == {"x", "wide", "high", "low"}
    <3>1. PICK text \in SeqOf(T, 4), bytes \in 0..13 :
             input' = [kind |-> "text", text |-> text, bytes |-> bytes]
      BY <2>5 DEF PickText
    <3>2. text \in Seq(T) /\ bytes \in Nat
      <4>. HIDE DEF T
      <4>. QED BY NamesAreSequences
    <3>3. LongestPrefixFits(text, bytes)
      <4>. HIDE DEF T
      <4>. QED BY <3>2, FittingIs
    <3>. QED BY <3>1, <3>3 DEF WebContentIsMarked
  <2>6. CASE PickPage
    <3>1. PICK page \in SmallPages, format \in {"structured", "legacy"},
               mode \in {"detailed", "compact"}, limit \in 0..MaxOutput :
            input' = [kind |-> "page", page |-> page, format |-> format,
                      mode |-> mode, limit |-> limit]
      BY <2>6 DEF PickPage
    <3>2. /\ page \in PageOf(U)
          /\ Len(page.url) <= 2 /\ Len(page.title) <= 2
          /\ Len(page.elements) <= 4
          /\ \A i \in 1..Len(page.elements) : Len(page.elements[i]) <= 1
      BY PagesAreSmall
    <3>3. limit \in Nat /\ mode \in Level
      BY DEF MaxOutput, Level
    <3>4. /\ Braces \cap U = {}
          /\ \A u \in U : Width(u) \in 0..3
      BY DEF Braces, Width
    <3>5. ContentIsMarked(page, format, mode, limit)
      <4>. HIDE DEF U
      <4>1. ByteLength(MinimalPayload(page)) <= DefaultMaxOutput
        BY <3>2, <3>4, SmallPage
      <4>. QED BY <3>2, <3>3, <3>4, <4>1, EveryPageIsMarked
    <3>6. /\ input'.page = page /\ input'.format = format
          /\ input'.mode = mode /\ input'.limit = limit
          /\ input'.kind = "page"
      BY <3>1
    <3>. QED BY <3>5, <3>6 DEF WebContentIsMarked
  <2>7. CASE PickServers
    BY <2>7 DEF PickServers, WebContentIsMarked
  <2>. QED BY <1>2, <2>1, <2>2, <2>3, <2>4, <2>5, <2>6, <2>7 DEF Next
<1>. QED BY <1>1, <1>2, PTL DEF Spec

-----------------------------------------------------------------------------
(* Pieces of a message.                                                    *)

\* Three parts in a row.
LEMMA InAnyOrder ==
  ASSUME NEW C, NEW a \in Seq(C), NEW b \in Seq(C), NEW c \in Seq(C)
  PROVE  (a \o b) \o c = a \o (b \o c)
BY ConcatAssociative

\* Flattening begins with the first part.
LEMMA FlattenFirst ==
  ASSUME NEW C, NEW a \in Seq(C), NEW rest \in Seq(Seq(C))
  PROVE  FlattenSeq(<<a>> \o rest) = a \o FlattenSeq(rest)
<1>. DEFINE D == Seq(C)
            all == <<a>> \o rest
            l == Len(rest)
<1>1. a \in D /\ rest \in Seq(D)
  OBVIOUS
<1>2. /\ all \in Seq(D) /\ Len(all) = l + 1 /\ l \in Nat
      /\ all[1] = a /\ \A i \in 1..l : all[i + 1] = rest[i]
  <2>. HIDE DEF D
  <2>. QED BY <1>1
<1>. HIDE DEF all, D
<1>3. PICK f : /\ FlattenSeq(all) = f[l + 1]
               /\ f[1] = all[1]
               /\ \A i \in 2..(l + 1) : f[i] = f[i - 1] \o all[i]
  <2>1. Len(all) \in Nat \ {0}
    BY <1>2
  <2>2. Len(all) = l + 1
    BY <1>2
  <2>3. \E f : /\ FlattenSeq(all) = f[Len(all)]
               /\ f[1] = all[1]
               /\ \A i \in 2..Len(all) : f[i] = f[i - 1] \o all[i]
    BY <2>1, FlattenComputes
  <2>. QED BY <2>2, <2>3, Zenon
<1>4. CASE l = 0
  <2>1. FlattenSeq(rest) = <<>>
    BY <1>4 DEF FlattenSeq
  <2>2. FlattenSeq(all) = a
    BY <1>2, <1>3, <1>4
  <2>3. a \o <<>> = a
    OBVIOUS
  <2>. QED BY <2>1, <2>2, <2>3 DEF all
<1>5. CASE l # 0
  <2>1. PICK g : /\ FlattenSeq(rest) = g[l]
                 /\ g[1] = rest[1]
                 /\ \A i \in 2..l : g[i] = g[i - 1] \o rest[i]
    BY <1>2, <1>5, FlattenComputes
  <2>0. \A i \in 1..l : rest[i] \in Seq(C)
    OBVIOUS
  <2>. HIDE DEF l
  <2>. DEFINE Fine(i) == g[i] \in Seq(C) /\ f[i + 1] = a \o g[i]
              S == {n \in Nat : n + 1 \in 1..l => Fine(n + 1)}
  <2>2. 0 \in S
    <3>1. 1 \in 1..l /\ 2 \in 2..(l + 1) /\ 1 + 1 = 2 /\ 2 - 1 = 1
          /\ 0 + 1 = 1
      BY <1>2, <1>5
    <3>2. g[1] \in Seq(C)
      BY <2>0, <2>1, <3>1
    <3>3. f[2] = f[1] \o all[2] /\ all[2] = rest[1]
      BY <1>2, <1>3, <3>1
    <3>4. f[2] = a \o g[1]
      BY <1>2, <1>3, <2>1, <3>3
    <3>. QED BY <3>1, <3>2, <3>4
  <2>3. ASSUME NEW n \in Nat, n \in S PROVE n + 1 \in S
    <3>. DEFINE i == n + 1
    <3>. SUFFICES ASSUME i + 1 \in 1..l PROVE Fine(i + 1)
      OBVIOUS
    <3>1. /\ i \in Nat /\ i \in 1..l /\ i + 1 \in 2..l
          /\ (i + 1) - 1 = i /\ (i + 1) + 1 \in 2..(l + 1)
          /\ ((i + 1) + 1) - 1 = i + 1
      BY <1>2
    <3>2. Fine(i)
      <4>. HIDE DEF Fine
      <4>. QED BY <2>3, <3>1
    <3>. HIDE DEF i
    <3>3. g[i + 1] = g[i] \o rest[i + 1] /\ rest[i + 1] \in Seq(C)
      BY <2>0, <2>1, <3>1
    <3>4. g[i + 1] \in Seq(C)
      BY <3>2, <3>3, TwoParts
    <3>5. f[(i + 1) + 1] = f[i + 1] \o all[(i + 1) + 1]
      BY <1>3, <3>1
    <3>6. all[(i + 1) + 1] = rest[i + 1]
      BY <1>2, <3>1
    <3>7. (a \o g[i]) \o rest[i + 1] = a \o (g[i] \o rest[i + 1])
      <4>. DEFINE b == g[i]
                  c == rest[i + 1]
      <4>1. a \in Seq(C) /\ b \in Seq(C) /\ c \in Seq(C)
        BY <3>2, <3>3
      <4>. HIDE DEF b, c
      <4>2. (a \o b) \o c = a \o (b \o c)
        BY <4>1, InAnyOrder
      <4>. QED BY <4>2 DEF b, c
    <3>8. f[(i + 1) + 1] = a \o g[i + 1]
      BY <3>2, <3>3, <3>5, <3>6, <3>7
    <3>. QED BY <3>4, <3>8
  <2>4. Nat \subseteq S
    <3>. HIDE DEF S
    <3>. QED BY <2>2, <2>3, Induction
  <2>5. l - 1 \in Nat /\ (l - 1) + 1 = l /\ l \in 1..l
    BY <1>2, <1>5
  <2>6. Fine(l)
    <3>. HIDE DEF Fine
    <3>. QED BY <2>4, <2>5
  <2>. QED BY <1>3, <2>1, <2>6 DEF all
<1>. QED BY <1>4, <1>5

\* The cut is after the start and within the limit, and the rest begins
\* there or behind a newline.
SplitNext(text, p, limit) ==
    (p + SplitAt(text, p, limit))
    + (IF text[p + SplitAt(text, p, limit)] = "newline" THEN 1 ELSE 0)

LEMMA SplitIs ==
  ASSUME NEW text, NEW p \in Nat, NEW limit \in Nat, limit > 0
  PROVE  /\ SplitAt(text, p, limit) \in 1..limit
         /\ SplitNext(text, p, limit) \in (p + 1)..(p + limit + 1)
<1>. DEFINE nl == "newline"
            K == {k \in 0..limit : text[p + k] = nl}
            last == CHOOSE k \in K : \A j \in K : j <= k
            a == SplitAt(text, p, limit)
<1>1. a = IF K \subseteq {0} THEN limit ELSE last
  BY DEF SplitAt
<1>2. SplitNext(text, p, limit)
        = (p + a) + (IF text[p + a] = nl THEN 1 ELSE 0)
  BY DEF SplitNext
<1>. HIDE DEF nl, a
<1>3. a \in 1..limit
  <2>1. CASE K \subseteq {0}
    BY <1>1, <2>1
  <2>2. CASE ~(K \subseteq {0})
    <3>1. PICK k \in K : k # 0
      BY <2>2
    <3>2. \E m \in K : \A j \in K : j <= m
      BY <3>1, Greatest
    <3>3. last \in K /\ \A j \in K : j <= last
      BY <3>2
    <3>4. k <= last /\ last \in 0..limit /\ k \in 0..limit
      BY <3>1, <3>3
    <3>. HIDE DEF last
    <3>. QED BY <1>1, <2>2, <3>1, <3>4
  <2>. QED BY <2>1, <2>2
<1>. QED BY <1>2, <1>3 DEF a

\* The recursive function of SplitMessage is well defined: by induction from
\* the end of the text.
LEMMA SplitComputes ==
  ASSUME NEW text, Len(text) \in Nat, NEW limit \in Nat, limit > 0
  PROVE  \E f : /\ SplitMessage(text, limit) = f[1]
                /\ \A p \in 1..(Len(text) + 1) :
                      f[p] = IF p > Len(text) /\ p > 1 THEN <<>>
                             ELSE IF Len(text) - p + 1 <= limit
                             THEN <<SubSeq(text, p, Len(text))>>
                             ELSE <<SubSeq(text, p,
                                           (p + SplitAt(text, p, limit)) - 1)>>
                                  \o f[SplitNext(text, p, limit)]
<1>. DEFINE l == Len(text)
            J(p) == SplitNext(text, p, limit)
            Piece(p) == <<SubSeq(text, p, (p + SplitAt(text, p, limit)) - 1)>>
            End(p) == <<SubSeq(text, p, l)>>
            Body(g, p) == IF p > l /\ p > 1 THEN <<>>
                          ELSE IF l - p + 1 <= limit THEN End(p)
                          ELSE Piece(p) \o g[J(p)]
            Good(g, n) == \A p \in 1..(l + 1) :
                             l + 1 - p <= n => g[p] = Body(g, p)
            S == {n \in Nat : \E g : Good(g, n)}
<1>0. l \in Nat
  OBVIOUS
<1>1. ASSUME NEW p \in 1..(l + 1), ~(l - p + 1 <= limit)
      PROVE  J(p) \in (p + 1)..(l + 1)
  <2>1. J(p) \in (p + 1)..(p + limit + 1)
    BY SplitIs
  <2>. HIDE DEF J, l
  <2>. QED BY <1>0, <1>1, <2>1
<1>. HIDE DEF J, Piece, End, l
<1>2. ASSUME NEW g, NEW h, NEW p \in 1..(l + 1),
             ~(l - p + 1 <= limit) => g[J(p)] = h[J(p)]
      PROVE  Body(g, p) = Body(h, p)
  BY <1>2
<1>. HIDE DEF Body
<1>3. 0 \in S
  <2>. DEFINE g == [p \in 1..(l + 1) |-> Body([q \in {} |-> 0], p)]
  <2>1. ASSUME NEW p \in 1..(l + 1), l + 1 - p <= 0 PROVE g[p] = Body(g, p)
    <3>1. l - p + 1 <= limit
      BY <1>0, <2>1
    <3>. QED BY <1>2, <3>1
  <2>. HIDE DEF g
  <2>. QED BY <2>1
<1>4. ASSUME NEW n \in Nat, n \in S PROVE n + 1 \in S
  <2>1. PICK g : Good(g, n)
    BY <1>4
  <2>. DEFINE h == [p \in 1..(l + 1) |-> IF l + 1 - p <= n THEN g[p]
                                         ELSE Body(g, p)]
  <2>2. ASSUME NEW p \in 1..(l + 1), l + 1 - p <= n + 1
        PROVE  h[p] = Body(h, p)
    <3>1. h[p] = Body(g, p)
      BY <2>1
    <3>2. ASSUME ~(l - p + 1 <= limit) PROVE g[J(p)] = h[J(p)]
      <4>1. J(p) \in 1..(l + 1) /\ l + 1 - J(p) <= n
        BY <1>0, <1>1, <2>2, <3>2
      <4>. QED BY <4>1
    <3>. HIDE DEF h
    <3>. QED BY <1>2, <3>1, <3>2
  <2>. HIDE DEF h
  <2>. QED BY <2>2
<1>5. l \in S
  <2>. HIDE DEF S
  <2>. QED BY <1>0, <1>3, <1>4, Induction
<1>6. \E g : g = [p \in 1..(l + 1) |-> Body(g, p)]
  <2>1. PICK g : Good(g, l)
    BY <1>5
  <2>. DEFINE h == [p \in 1..(l + 1) |-> g[p]]
  <2>2. ASSUME NEW p \in 1..(l + 1) PROVE h[p] = Body(h, p)
    <3>1. h[p] = Body(g, p)
      BY <1>0, <2>1
    <3>2. ASSUME ~(l - p + 1 <= limit) PROVE g[J(p)] = h[J(p)]
      <4>1. J(p) \in 1..(l + 1)
        BY <1>0, <1>1, <3>2
      <4>. QED BY <4>1
    <3>. HIDE DEF h
    <3>. QED BY <1>2, <3>1, <3>2
  <2>3. h = [p \in 1..(l + 1) |-> h[p]]
    OBVIOUS
  <2>. HIDE DEF h
  <2>. QED BY <2>2, <2>3
<1>. DEFINE f == CHOOSE g : g = [p \in 1..(l + 1) |-> Body(g, p)]
<1>7. f = [p \in 1..(l + 1) |-> Body(f, p)]
  BY <1>6
<1>8. SplitMessage(text, limit) = f[1]
  BY DEF SplitMessage, SplitNext, Body, J, Piece, End, l
<1>. HIDE DEF f
<1>9. \A p \in 1..(l + 1) : f[p] = Body(f, p)
  BY <1>7
<1>. QED BY <1>8, <1>9 DEF Body, J, Piece, End, l

\* A text is its pieces, with a newline more behind some of them.
IsParted(text, pieces, nl) ==
    \E dropped \in [1..Len(pieces) -> {<<>>, <<nl>>}] :
       text = FlattenSeq([i \in 1..Len(pieces) |-> pieces[i] \o dropped[i]])

\* One more piece, with or without its newline.
LEMMA OnePieceMore ==
  ASSUME NEW C, NEW nl \in C, NEW piece \in Seq(C),
         NEW drop \in {<<>>, <<nl>>}, NEW pieces \in Seq(Seq(C)), NEW text,
         IsParted(text, pieces, nl)
  PROVE  IsParted((piece \o drop) \o text, <<piece>> \o pieces, nl)
<1>. DEFINE D == Seq(C)
            l == Len(pieces)
            more == <<piece>> \o pieces
            N == {<<>>, <<nl>>}
            first == piece \o drop
<1>1. N \subseteq D /\ pieces \in Seq(D) /\ piece \in D
  BY SequencesOf
<1>2. /\ Len(more) = l + 1 /\ l \in Nat /\ more[1] = piece
      /\ \A i \in 1..l : more[i + 1] = pieces[i]
  <2>. HIDE DEF D
  <2>. QED BY <1>1
<1>3. PICK d \in [1..l -> N] :
         text = FlattenSeq([i \in 1..l |-> pieces[i] \o d[i]])
  BY DEF IsParted
<1>. DEFINE e == [i \in 1..(l + 1) |-> IF i = 1 THEN drop ELSE d[i - 1]]
            all == [i \in 1..l |-> pieces[i] \o d[i]]
<1>4. drop \in N
  OBVIOUS
<1>. HIDE DEF N, l, more
<1>5. e \in [1..(l + 1) -> N]
  <2>1. \A i \in 1..(l + 1) : i # 1 => i - 1 \in 1..l
    BY <1>2
  <2>. QED BY <1>4, <2>1
<1>6. /\ e[1] = drop /\ \A i \in 1..l : e[i + 1] = d[i]
  <2>1. 1 \in 1..(l + 1)
    BY <1>2
  <2>2. \A i \in 1..l : i + 1 \in 1..(l + 1) /\ i + 1 # 1 /\ (i + 1) - 1 = i
    BY <1>2
  <2>. QED BY <2>1, <2>2
<1>. HIDE DEF e
<1>7. \A i \in 1..l : pieces[i] \o d[i] \in Seq(C)
  <2>. TAKE i \in 1..l
  <2>1. pieces[i] \in Seq(C) /\ d[i] \in Seq(C)
    BY <1>1 DEF l
  <2>. QED BY <2>1, TwoParts
<1>8. first \in Seq(C)
  BY <1>1, <1>4, TwoParts
<1>9. /\ all \in Seq(D) /\ Len(all) = l
      /\ \A i \in 1..l : all[i] = pieces[i] \o d[i]
  <2>. DEFINE v(i) == pieces[i] \o d[i]
  <2>1. \A i \in 1..l : v(i) \in D
    BY <1>7
  <2>2. all = [i \in 1..l |-> v(i)]
    OBVIOUS
  <2>. HIDE DEF v, all, D
  <2>3. all \in Seq(D) /\ Len(all) = l /\ \A i \in 1..l : all[i] = v(i)
    BY <1>2, <2>1, <2>2
  <2>. QED BY <2>3 DEF v
<1>. HIDE DEF all
<1>10. [i \in 1..(l + 1) |-> more[i] \o e[i]] = <<first>> \o all
  <2>. DEFINE v(i) == more[i] \o e[i]
              a == [i \in 1..(l + 1) |-> v(i)]
              b == <<first>> \o all
  <2>1. v(1) = first
    BY <1>2, <1>6
  <2>2. \A i \in 1..l : v(i + 1) = all[i]
    BY <1>2, <1>6, <1>9
  <2>3. first \in D
    BY <1>8
  <2>. HIDE DEF v, first, D
  <2>4. /\ b \in Seq(D) /\ Len(b) = l + 1 /\ b[1] = first
        /\ \A i \in 1..l : b[i + 1] = all[i]
    BY <1>2, <1>9, <2>3
  <2>5. ASSUME NEW i \in 1..(l + 1) PROVE a[i] = b[i]
    <3>1. CASE i = 1
      BY <2>1, <2>4, <3>1
    <3>2. CASE i # 1
      <4>1. i - 1 \in 1..l /\ (i - 1) + 1 = i
        BY <1>2, <3>2
      <4>. HIDE DEF b
      <4>2. v(i) = all[i - 1] /\ b[i] = all[i - 1]
        BY <2>2, <2>4, <4>1
      <4>. QED BY <4>2
    <3>. QED BY <3>1, <3>2
  <2>6. b = [i \in 1..(l + 1) |-> b[i]]
    <3>. HIDE DEF b
    <3>. QED BY <1>2, <2>4
  <2>. HIDE DEF b
  <2>7. a = [i \in 1..(l + 1) |-> b[i]]
    BY <2>5
  <2>. QED BY <2>6, <2>7 DEF v, b
<1>11. FlattenSeq(<<first>> \o all) = first \o FlattenSeq(all)
  <2>1. all \in Seq(Seq(C))
    BY <1>9
  <2>. HIDE DEF first
  <2>. QED BY <1>8, <2>1, FlattenFirst
<1>12. first \o text = FlattenSeq([i \in 1..(l + 1) |-> more[i] \o e[i]])
  BY <1>3, <1>10, <1>11 DEF all
<1>13. IsParted(first \o text, more, nl)
  BY <1>2, <1>5, <1>12 DEF IsParted, N
<1>. QED BY <1>13 DEF more

\* Nothing is no pieces.
LEMMA NoPieces ==
  ASSUME NEW nl
  PROVE  IsParted(<<>>, <<>>, nl)
<1>. DEFINE none == <<>>
            N == {<<>>, <<nl>>}
            d == [i \in 1..0 |-> none]
            all == [i \in 1..Len(none) |-> none[i] \o d[i]]
<1>1. Len(none) = 0 /\ none \in N /\ 1..0 = {}
  OBVIOUS
<1>2. FlattenSeq(none) = none
  BY <1>1 DEF FlattenSeq
<1>3. all = none
  <2>1. Len(all) = 0
    BY <1>1
  <2>2. all \in Seq({})
    BY <1>1
  <2>. QED BY <2>1, <2>2
<1>. HIDE DEF none, N
<1>4. d \in [1..Len(none) -> N]
  BY <1>1
<1>. HIDE DEF d, all
<1>5. none = FlattenSeq(all)
  BY <1>2, <1>3
<1>6. IsParted(none, none, nl)
  BY <1>4, <1>5 DEF IsParted, all, N
<1>. QED BY <1>6 DEF none

\* A text from a place on is the piece that is cut off there, the newline
\* that is dropped, and the rest.
IsCutOff(C, nl, text, limit, p) ==
    \E piece \in Seq(C), drop \in {<<>>, <<nl>>} :
       /\ piece = SubSeq(text, p, (p + SplitAt(text, p, limit)) - 1)
       /\ Len(piece) \in 1..limit
       /\ SubSeq(text, p, Len(text))
            = (piece \o drop)
              \o SubSeq(text, SplitNext(text, p, limit), Len(text))

LEMMA CutOff ==
  ASSUME NEW C, NEW nl \in C, nl = "newline", NEW text \in Seq(C),
         NEW limit \in Nat, limit > 0, NEW p \in 1..(Len(text) + 1),
         ~(Len(text) - p + 1 <= limit)
  PROVE  /\ SplitNext(text, p, limit) \in (p + 1)..(Len(text) + 1)
         /\ IsCutOff(C, nl, text, limit, p)
<1>. DEFINE l == Len(text)
            a == SplitAt(text, p, limit)
            next == p + a
            q == SplitNext(text, p, limit)
            piece == SubSeq(text, p, next - 1)
<1>1. l \in Nat /\ p \in Nat /\ p <= l
  OBVIOUS
<1>2. a \in 1..limit /\ q \in (p + 1)..(p + limit + 1)
  BY <1>1, SplitIs
<1>3. q = IF text[next] = nl THEN next + 1 ELSE next
  <2>1. q = next + (IF text[next] = nl THEN 1 ELSE 0)
    BY DEF SplitNext
  <2>. HIDE DEF q, a
  <2>2. next + 0 = next
    BY <1>1, <1>2
  <2>. QED BY <2>1, <2>2
<1>. HIDE DEF a, q
<1>4. /\ p \in 1..l /\ next \in p..l /\ next \in (p + 1)..(p + limit)
      /\ next \in Nat
  BY <1>1, <1>2
<1>5. q \in (p + 1)..(l + 1)
  BY <1>1, <1>2, <1>3, <1>4
<1>6. piece \in Seq(C) /\ Len(piece) = a
  <2>1. /\ next - 1 \in p..l /\ ((next - 1) - p) + 1 = a
        /\ \A i \in p..(next - 1) : text[i] \in C
    BY <1>1, <1>2, <1>4
  <2>. HIDE DEF next
  <2>. QED BY <1>4, <2>1, SubSeqProperties
<1>. HIDE DEF next
<1>. HIDE DEF piece
<1>. SUFFICES \E drop \in {<<>>, <<nl>>} :
                 SubSeq(text, p, l) = (piece \o drop) \o SubSeq(text, q, l)
  <2>. HIDE DEF l
  <2>. QED BY <1>2, <1>5, <1>6 DEF q, piece, next, a, l, IsCutOff
<1>. HIDE DEF l
<1>7. CASE text[next] = nl
  <2>1. next \in p..l /\ next \in 1..l
    BY <1>1, <1>4
  <2>2. SubSeq(text, p, next) = piece \o <<nl>>
    BY <1>4, <1>7, <2>1, SubSeqRecursiveSecond DEF l, piece
  <2>3. /\ p \in 1..(l + 1) /\ next \in (p - 1)..l /\ l \in next..l
    BY <1>1, <1>4
  <2>4. SubSeq(text, p, next) \o SubSeq(text, next + 1, l) = SubSeq(text, p, l)
    BY <2>3, ConcatAdjacentSubSeq DEF l
  <2>. QED BY <1>3, <1>7, <2>2, <2>4
<1>8. CASE text[next] # nl
  <2>1. piece \o <<>> = piece
    BY <1>6
  <2>2. /\ p \in 1..(l + 1) /\ next - 1 \in (p - 1)..l /\ l \in (next - 1)..l
        /\ (next - 1) + 1 = next
    BY <1>1, <1>4
  <2>3. piece \o SubSeq(text, (next - 1) + 1, l) = SubSeq(text, p, l)
    BY <2>2, ConcatAdjacentSubSeq DEF l, piece
  <2>. QED BY <1>3, <1>8, <2>1, <2>2, <2>3
<1>. QED BY <1>7, <1>8

\* The pieces of the rest of a text from a place on: there are some unless
\* the rest is empty, they fit, and together they are the rest.
LEMMA PiecesFrom ==
  ASSUME NEW C, NEW nl \in C, nl = "newline", NEW text \in Seq(C),
         NEW limit \in Nat, limit > 0, NEW f,
         \A p \in 1..(Len(text) + 1) :
            f[p] = IF p > Len(text) /\ p > 1 THEN <<>>
                   ELSE IF Len(text) - p + 1 <= limit
                   THEN <<SubSeq(text, p, Len(text))>>
                   ELSE <<SubSeq(text, p, (p + SplitAt(text, p, limit)) - 1)>>
                        \o f[SplitNext(text, p, limit)],
         NEW p \in 1..(Len(text) + 1)
  PROVE  /\ f[p] \in Seq(Seq(C))
         /\ text # <<>> => \A i \in 1..Len(f[p]) : Len(f[p][i]) \in 1..limit
         /\ IsParted(SubSeq(text, p, Len(text)), f[p], nl)
<1>. DEFINE l == Len(text)
            D == Seq(C)
            Rest(q) == SubSeq(text, q, l)
            Fit(pieces) ==
               \A i \in 1..Len(pieces) : Len(pieces[i]) \in 1..limit
            Fine(q) == /\ f[q] \in Seq(D)
                       /\ text # <<>> => Fit(f[q])
                       /\ IsParted(Rest(q), f[q], nl)
            S == {n \in Nat : \A q \in 1..(l + 1) : l + 1 - q <= n => Fine(q)}
<1>0. l \in Nat /\ (text # <<>> => l > 0) /\ (text = <<>> => l = 0)
  OBVIOUS
<1>1. ASSUME NEW q \in 1..(l + 1), q > l PROVE Rest(q) = <<>>
  BY <1>0, <1>1, SubSeqProperties
<1>2. ASSUME NEW q \in 1..l
      PROVE  Rest(q) \in D /\ Len(Rest(q)) = l - q + 1
  <2>1. \A i \in q..l : text[i] \in C
    BY <1>0
  <2>. QED BY <1>0, <2>1, SubSeqProperties
<1>3. <<>> \in D /\ IsParted(<<>>, <<>>, nl)
  BY NoPieces
<1>4. ASSUME NEW piece \in D PROVE IsParted(piece, <<piece>>, nl)
  <2>. DEFINE none == <<>>
  <2>1. /\ IsParted(none, none, nl) /\ none \in Seq(D)
        /\ none \in {<<>>, <<nl>>}
    BY <1>3
  <2>2. (piece \o none) \o none = piece /\ <<piece>> \o none = <<piece>>
    OBVIOUS
  <2>. HIDE DEF none
  <2>3. IsParted((piece \o none) \o none, <<piece>> \o none, nl)
    BY <2>1, OnePieceMore DEF D, none
  <2>. QED BY <2>2, <2>3
<1>5. ASSUME NEW pieces \in Seq(D), NEW piece \in D,
             Fit(pieces), Len(piece) \in 1..limit
      PROVE  Fit(<<piece>> \o pieces)
  <2>. DEFINE m == Len(pieces)
              more == <<piece>> \o pieces
  <2>1. /\ m \in Nat /\ Len(more) = m + 1 /\ more[1] = piece
        /\ \A i \in 1..m : more[i + 1] = pieces[i]
    <3>. HIDE DEF D
    <3>. QED OBVIOUS
  <2>. HIDE DEF more
  <2>2. ASSUME NEW i \in 1..(m + 1) PROVE Len(more[i]) \in 1..limit
    <3>1. CASE i = 1
      BY <1>5, <2>1, <3>1
    <3>2. CASE i # 1
      <4>1. i - 1 \in 1..m /\ (i - 1) + 1 = i
        BY <2>1, <3>2
      <4>2. more[i] = pieces[i - 1]
        BY <2>1, <4>1
      <4>. QED BY <1>5, <4>1, <4>2
    <3>. QED BY <3>1, <3>2
  <2>. QED BY <2>1, <2>2 DEF more
<1>6. ASSUME NEW q \in 1..(l + 1), q > l /\ q > 1 PROVE Fine(q)
  <2>. DEFINE none == <<>>
  <2>1. f[q] = none /\ Rest(q) = none /\ IsParted(none, none, nl)
    BY <1>1, <1>3, <1>6
  <2>2. none \in Seq(D) /\ 1..Len(none) = {}
    OBVIOUS
  <2>. HIDE DEF none, D, Rest
  <2>. QED BY <2>1, <2>2
<1>7. ASSUME NEW q \in 1..(l + 1), ~(q > l /\ q > 1), l - q + 1 <= limit
      PROVE  Fine(q)
  <2>. DEFINE r == Rest(q)
  <2>1. f[q] = <<r>>
    BY <1>7
  <2>2. r \in D /\ (text # <<>> => Len(r) \in 1..limit)
    BY <1>0, <1>1, <1>2, <1>3, <1>7
  <2>. HIDE DEF r
  <2>3. IsParted(r, <<r>>, nl)
    BY <1>4, <2>2
  <2>. HIDE DEF D
  <2>4. <<r>> \in Seq(D) /\ (text # <<>> => Fit(<<r>>))
    BY <2>2
  <2>. QED BY <2>1, <2>3, <2>4 DEF r
<1>8. ASSUME NEW q \in 1..(l + 1), ~(l - q + 1 <= limit),
             Fine(SplitNext(text, q, limit))
      PROVE  Fine(q)
  <2>. DEFINE next == SplitNext(text, q, limit)
              pieces == f[next]
  <2>1. PICK piece \in D, drop \in {<<>>, <<nl>>} :
           /\ piece = SubSeq(text, q, (q + SplitAt(text, q, limit)) - 1)
           /\ Len(piece) \in 1..limit
           /\ Rest(q) = (piece \o drop) \o Rest(next)
    <3>. q \in 1..(Len(text) + 1) /\ ~(Len(text) - q + 1 <= limit)
      BY <1>8
    <3>. HIDE <1>8
    <3>1. IsCutOff(C, nl, text, limit, q)
      BY CutOff
    <3>. QED BY <3>1 DEF IsCutOff
  <2>2. ~(q > l /\ q > 1) /\ text # <<>>
    BY <1>0, <1>8
  <2>3. f[q] = <<piece>> \o pieces
    BY <1>8, <2>1, <2>2
  <2>4. pieces \in Seq(D) /\ Fit(pieces) /\ IsParted(Rest(next), pieces, nl)
    BY <1>8, <2>2
  <2>. HIDE DEF next, pieces, Rest
  <2>5. Fit(<<piece>> \o pieces)
    BY <1>5, <2>1, <2>4
  <2>6. IsParted(Rest(q), <<piece>> \o pieces, nl)
    BY <2>1, <2>4, OnePieceMore DEF D
  <2>. HIDE DEF D
  <2>7. <<piece>> \o pieces \in Seq(D)
    BY <2>1, <2>4
  <2>. HIDE DEF Fit
  <2>. QED BY <2>3, <2>5, <2>6, <2>7
<1>9. ASSUME NEW q \in 1..(l + 1), ~(l - q + 1 <= limit)
      PROVE  SplitNext(text, q, limit) \in (q + 1)..(l + 1)
  BY <1>9, CutOff
<1>. HIDE DEF Fine, l
<1>10. 0 \in S
  BY <1>0, <1>6, <1>7
<1>11. ASSUME NEW n \in Nat, n \in S PROVE n + 1 \in S
  <2>. SUFFICES ASSUME NEW q \in 1..(l + 1), l + 1 - q <= n + 1 PROVE Fine(q)
    BY <1>0
  <2>1. CASE l - q + 1 <= limit
    BY <1>6, <1>7, <2>1
  <2>2. CASE ~(l - q + 1 <= limit)
    <3>. DEFINE next == SplitNext(text, q, limit)
    <3>1. next \in (q + 1)..(l + 1)
      BY <1>9, <2>2
    <3>. HIDE DEF next
    <3>2. next \in 1..(l + 1) /\ l + 1 - next <= n
      BY <1>0, <3>1
    <3>3. Fine(next)
      BY <1>11, <3>2
    <3>. QED BY <1>8, <2>2, <3>3 DEF next
  <2>. QED BY <2>1, <2>2
<1>12. l + 1 \in S
  <2>. HIDE DEF S
  <2>. QED BY <1>0, <1>10, <1>11, Induction
<1>13. Fine(p)
  BY <1>0, <1>12 DEF l
<1>. QED BY <1>13 DEF Fine, l

\* Every message comes out whole: whatever the text and the limit, no piece is
\* longer than the limit or empty, and the pieces are the text but for a
\* newline where it was cut (splitMessage; the part of CutsKeepText about
\* messages, for texts of any length).
THEOREM EveryPieceFits ==
  ASSUME NEW C, "newline" \in C, NEW text \in Seq(C),
         NEW limit \in Nat, limit > 0
  PROVE  PiecesFit(text, limit)
<1>. DEFINE nl == "newline"
            l == Len(text)
            pieces == SplitMessage(text, limit)
<1>1. nl \in C /\ nl = "newline"
  OBVIOUS
<1>. HIDE DEF nl
<1>2. /\ pieces \in Seq(Seq(C))
      /\ text # <<>> => \A i \in 1..Len(pieces) : Len(pieces[i]) \in 1..limit
      /\ IsParted(SubSeq(text, 1, l), pieces, nl)
  <2>1. l \in Nat /\ 1 \in 1..(l + 1)
    OBVIOUS
  <2>2. PICK f : /\ SplitMessage(text, limit) = f[1]
                 /\ \A p \in 1..(Len(text) + 1) :
                      f[p] = IF p > Len(text) /\ p > 1 THEN <<>>
                             ELSE IF Len(text) - p + 1 <= limit
                             THEN <<SubSeq(text, p, Len(text))>>
                             ELSE <<SubSeq(text, p,
                                           (p + SplitAt(text, p, limit)) - 1)>>
                                  \o f[SplitNext(text, p, limit)]
    BY <2>1, SplitComputes
  <2>3. /\ f[1] \in Seq(Seq(C))
        /\ text # <<>> => \A i \in 1..Len(f[1]) : Len(f[1][i]) \in 1..limit
        /\ IsParted(SubSeq(text, 1, l), f[1], nl)
    BY <1>1, <2>1, <2>2, PiecesFrom
  <2>. QED BY <2>2, <2>3
<1>3. SubSeq(text, 1, l) = text
  OBVIOUS
<1>. HIDE DEF pieces, l
<1>4. PICK dropped \in [1..Len(pieces) -> {<<>>, <<nl>>}] :
         text = FlattenSeq([i \in 1..Len(pieces) |-> pieces[i] \o dropped[i]])
  BY <1>2, <1>3 DEF IsParted
<1>. QED BY <1>2, <1>4 DEF PiecesFit, pieces, nl

-----------------------------------------------------------------------------
(* Walks along a sequence.                                                 *)

\* Induction over the sequences, about a set.
LEMMA AppendInduction ==
  ASSUME NEW C, NEW P, <<>> \in P,
         \A t \in Seq(C) : \A c \in C : t \in P => Append(t, c) \in P
  PROVE  Seq(C) \subseteq P
<1>. DEFINE S == {n \in Nat : \A t \in Seq(C) : Len(t) = n => t \in P}
<1>1. 0 \in S
  <2>1. \A t \in Seq(C) : Len(t) = 0 => t = <<>>
    OBVIOUS
  <2>. QED BY <2>1
<1>2. ASSUME NEW n \in Nat, n \in S PROVE n + 1 \in S
  <2>. SUFFICES ASSUME NEW t \in Seq(C), Len(t) = n + 1 PROVE t \in P
    OBVIOUS
  <2>. DEFINE b == SubSeq(t, 1, n)
              c == t[n + 1]
  <2>1. b \in Seq(C) /\ Len(b) = n /\ c \in C /\ t = Append(b, c)
    OBVIOUS
  <2>2. b \in P
    BY <1>2, <2>1
  <2>. HIDE DEF b, c
  <2>. QED BY <2>1, <2>2
<1>3. Nat \subseteq S
  <2>. HIDE DEF S
  <2>. QED BY <1>1, <1>2, Induction
<1>. QED BY <1>3

\* What step makes of a start and the elements of a sequence, one by one.
Walk(step, start, s) ==
    LET f[n \in 0..Len(s)] == IF n = 0 THEN start ELSE step[<<f[n - 1], s[n]>>]
    IN  f[Len(s)]

Walks(Q, D, step, start) == step \in [Q \X D -> Q] /\ start \in Q

\* The stations of a walk.
IsWalk(Q, step, start, s, f) ==
    /\ f \in [0..Len(s) -> Q] /\ f[0] = start
    /\ \A n \in 1..Len(s) : f[n] = step[<<f[n - 1], s[n]>>]

\* The recursive function of a walk is well defined.
LEMMA WalkComputes ==
  ASSUME NEW Q, NEW D, NEW step, NEW start, Walks(Q, D, step, start),
         NEW s \in Seq(D)
  PROVE  \E f : /\ IsWalk(Q, step, start, s, f)
                /\ Walk(step, start, s) = f[Len(s)]
<1>. DEFINE l == Len(s)
            Body(g, n) == IF n = 0 THEN start ELSE step[<<g[n - 1], s[n]>>]
            Good(g, k) == \A n \in 0..l :
                             n <= k => g[n] = Body(g, n) /\ g[n] \in Q
            S == {k \in Nat : \E g : Good(g, k)}
<1>0. /\ l \in Nat /\ \A n \in 1..l : s[n] \in D
      /\ start \in Q /\ step \in [Q \X D -> Q]
  BY DEF Walks
<1>. HIDE DEF l
<1>1. ASSUME NEW g, NEW h, NEW n \in 0..l, n # 0 => g[n - 1] = h[n - 1]
      PROVE  Body(g, n) = Body(h, n)
  BY <1>1
<1>2. ASSUME NEW g, NEW n \in 0..l, n # 0 => g[n - 1] \in Q
      PROVE  Body(g, n) \in Q
  <2>1. CASE n = 0
    BY <1>0, <2>1
  <2>2. CASE n # 0
    <3>1. <<g[n - 1], s[n]>> \in Q \X D
      BY <1>0, <1>2, <2>2
    <3>. QED BY <1>0, <2>2, <3>1
  <2>. QED BY <2>1, <2>2
<1>. HIDE DEF Body
<1>3. 0 \in S
  <2>. DEFINE g == [n \in 0..l |-> Body([q \in {} |-> 0], n)]
  <2>1. ASSUME NEW n \in 0..l, n <= 0 PROVE g[n] = Body(g, n) /\ g[n] \in Q
    <3>1. n = 0
      BY <2>1
    <3>. QED BY <1>1, <1>2, <3>1
  <2>. HIDE DEF g
  <2>. QED BY <2>1
<1>4. ASSUME NEW k \in Nat, k \in S PROVE k + 1 \in S
  <2>1. PICK g : Good(g, k)
    BY <1>4
  <2>. DEFINE h == [n \in 0..l |-> IF n <= k THEN g[n] ELSE Body(g, n)]
  <2>2. ASSUME NEW n \in 0..l, n <= k + 1 PROVE h[n] = Body(h, n) /\ h[n] \in Q
    <3>1. n # 0 => n - 1 \in 0..l /\ n - 1 <= k
      BY <1>0, <2>2
    <3>2. h[n] = Body(g, n)
      BY <2>1
    <3>3. n # 0 => g[n - 1] = h[n - 1] /\ g[n - 1] \in Q
      BY <2>1, <3>1
    <3>. HIDE DEF h
    <3>. QED BY <1>1, <1>2, <3>2, <3>3
  <2>. HIDE DEF h
  <2>. QED BY <2>2
<1>5. l \in S
  <2>. HIDE DEF S
  <2>. QED BY <1>0, <1>3, <1>4, Induction
<1>6. \E g : g = [n \in 0..l |-> Body(g, n)]
  <2>1. PICK g : Good(g, l)
    BY <1>5
  <2>. DEFINE h == [n \in 0..l |-> g[n]]
  <2>2. ASSUME NEW n \in 0..l PROVE h[n] = Body(h, n)
    <3>1. h[n] = Body(g, n) /\ (n # 0 => g[n - 1] = h[n - 1])
      BY <1>0, <2>1
    <3>. HIDE DEF h
    <3>. QED BY <1>1, <3>1
  <2>3. h = [n \in 0..l |-> h[n]]
    OBVIOUS
  <2>. HIDE DEF h
  <2>. QED BY <2>2, <2>3
<1>. DEFINE f == CHOOSE g : g = [n \in 0..l |-> Body(g, n)]
<1>7. f = [n \in 0..l |-> Body(f, n)]
  BY <1>6
<1>8. Walk(step, start, s) = f[l]
  BY DEF Walk, Body, l
<1>. HIDE DEF f
<1>9. \A n \in 0..l : f[n] = Body(f, n)
  BY <1>7
<1>. DEFINE T == {n \in Nat : n \in 0..l => f[n] \in Q}
<1>10. 0 \in T
  BY <1>0, <1>2, <1>9
<1>11. ASSUME NEW n \in Nat, n \in T PROVE n + 1 \in T
  <2>. SUFFICES ASSUME n + 1 \in 0..l PROVE f[n + 1] \in Q
    OBVIOUS
  <2>1. n \in 0..l /\ (n + 1) - 1 = n /\ n + 1 # 0
    BY <1>0
  <2>2. f[n] \in Q
    BY <1>11, <2>1
  <2>. QED BY <1>2, <1>9, <2>1, <2>2
<1>12. \A n \in 0..l : f[n] \in Q
  <2>1. Nat \subseteq T
    <3>. HIDE DEF T
    <3>. QED BY <1>10, <1>11, Induction
  <2>. QED BY <2>1, <1>0
<1>13. f \in [0..l -> Q]
  BY <1>7, <1>12
<1>14. f[0] = start
  <2>1. 0 \in 0..l
    BY <1>0
  <2>. QED BY <1>9, <2>1 DEF Body
<1>15. ASSUME NEW n \in 1..l PROVE f[n] = step[<<f[n - 1], s[n]>>]
  <2>1. n \in 0..l /\ n # 0
    BY <1>0
  <2>. QED BY <1>9, <2>1 DEF Body
<1>. QED BY <1>8, <1>13, <1>14, <1>15 DEF l, IsWalk

\* It is the only one.
LEMMA WalkUnique ==
  ASSUME NEW Q, NEW D, NEW step, NEW start, Walks(Q, D, step, start),
         NEW s \in Seq(D), NEW g, g[0] = start,
         \A n \in 1..Len(s) :
            g[n - 1] \in Q => g[n] = step[<<g[n - 1], s[n]>>]
  PROVE  g[Len(s)] = Walk(step, start, s)
<1>1. PICK f : IsWalk(Q, step, start, s, f) /\ Walk(step, start, s) = f[Len(s)]
  BY WalkComputes
<1>. DEFINE l == Len(s)
            T == {n \in Nat : n \in 0..l => g[n] = f[n]}
<1>0. l \in Nat
  OBVIOUS
<1>2. 0 \in T
  BY <1>1 DEF IsWalk
<1>3. ASSUME NEW n \in Nat, n \in T PROVE n + 1 \in T
  <2>. SUFFICES ASSUME n + 1 \in 0..l PROVE g[n + 1] = f[n + 1]
    OBVIOUS
  <2>. HIDE DEF l
  <2>1. n \in 0..l /\ (n + 1) - 1 = n /\ n + 1 \in 1..l
    BY <1>0
  <2>2. f[n] \in Q /\ g[n] = f[n]
    BY <1>1, <1>3, <2>1 DEF l, IsWalk
  <2>. QED BY <1>1, <2>1, <2>2 DEF l, IsWalk
<1>4. l \in T
  <2>. HIDE DEF T, l
  <2>. QED BY <1>0, <1>2, <1>3, Induction
<1>. QED BY <1>0, <1>1, <1>4

\* A walk goes on from where it was.
LEMMA WalkIs ==
  ASSUME NEW Q, NEW D, NEW step, NEW start, Walks(Q, D, step, start)
  PROVE  /\ Walk(step, start, <<>>) = start
         /\ \A s \in Seq(D) : Walk(step, start, s) \in Q
         /\ \A s \in Seq(D) : \A c \in D :
               Walk(step, start, Append(s, c))
                  = step[<<Walk(step, start, s), c>>]
<1>1. Walk(step, start, <<>>) = start
  <2>. DEFINE none == <<>>
  <2>1. none \in Seq(D)
    OBVIOUS
  <2>2. Len(none) = 0
    OBVIOUS
  <2>. HIDE DEF none
  <2>3. PICK f : /\ IsWalk(Q, step, start, none, f)
                 /\ Walk(step, start, none) = f[Len(none)]
    BY <2>1, WalkComputes
  <2>4. Walk(step, start, none) = start
    BY <2>2, <2>3 DEF IsWalk
  <2>. QED BY <2>4 DEF none
<1>2. ASSUME NEW s \in Seq(D), NEW c \in D
      PROVE  Walk(step, start, Append(s, c))
                = step[<<Walk(step, start, s), c>>]
  <2>. DEFINE t == Append(s, c)
              l == Len(s)
  <2>1. /\ t \in Seq(D) /\ Len(t) = l + 1 /\ l \in Nat /\ t[l + 1] = c
        /\ \A n \in 1..l : t[n] = s[n]
    OBVIOUS
  <2>. HIDE DEF t
  <2>2. PICK f : /\ IsWalk(Q, step, start, t, f)
                 /\ Walk(step, start, t) = f[Len(t)]
    BY <2>1, WalkComputes
  <2>. HIDE DEF l
  <2>3. \A n \in 1..l : n \in 1..Len(t) /\ t[n] = s[n]
    BY <2>1
  <2>4. f[0] = start /\ \A n \in 1..l : f[n] = step[<<f[n - 1], s[n]>>]
    BY <2>2, <2>3 DEF IsWalk
  <2>5. f[Len(s)] = Walk(step, start, s)
    BY <2>4, WalkUnique DEF l
  <2>6. l + 1 \in 1..Len(t) /\ (l + 1) - 1 = l
    BY <2>1
  <2>. QED BY <2>1, <2>2, <2>5, <2>6 DEF t, IsWalk, l
<1>3. ASSUME NEW s \in Seq(D) PROVE Walk(step, start, s) \in Q
  <2>1. PICK f : /\ IsWalk(Q, step, start, s, f)
                 /\ Walk(step, start, s) = f[Len(s)]
    BY WalkComputes
  <2>. QED BY <2>1 DEF IsWalk
<1>. QED BY <1>1, <1>2, <1>3

\* Flattening, from nothing to the last part.
LEMMA FlattenRun ==
  ASSUME NEW C, NEW seqs \in Seq(Seq(C))
  PROVE  \E f : /\ f[0] = <<>> /\ f[Len(seqs)] = FlattenSeq(seqs)
                /\ \A i \in 0..Len(seqs) : f[i] \in Seq(C)
                /\ \A i \in 1..Len(seqs) : f[i] = f[i - 1] \o seqs[i]
<1>. DEFINE l == Len(seqs)
            none == <<>>
            D == Seq(C)
<1>1. /\ l \in Nat /\ none \in D
      /\ \A i \in 1..l : seqs[i] \in D
  OBVIOUS
<1>2. \A s \in D : none \o s = s
  OBVIOUS
<1>3. CASE l = 0
  <2>1. FlattenSeq(seqs) = none
    BY <1>3 DEF FlattenSeq
  <2>. DEFINE f == [i \in 0..0 |-> none]
  <2>2. f[0] = none
    OBVIOUS
  <2>3. 1..0 = {} /\ 0..0 = {0}
    OBVIOUS
  <2>. HIDE DEF none, D, f
  <2>. QED BY <1>1, <1>3, <2>1, <2>2, <2>3 DEF none, D, l
<1>4. CASE l # 0
  <2>1. PICK g : /\ FlattenSeq(seqs) = g[l]
                 /\ g[1] = seqs[1]
                 /\ \A i \in 2..l : g[i] = g[i - 1] \o seqs[i]
    BY <1>1, <1>4, FlattenComputes
  <2>. DEFINE f == [i \in 0..l |-> IF i = 0 THEN none ELSE g[i]]
  <2>. HIDE DEF none, l
  <2>2. f[0] = none /\ \A i \in 1..l : f[i] = g[i]
    <3>1. 0 \in 0..l
      BY <1>1
    <3>. QED BY <3>1
  <2>. HIDE DEF f
  <2>3. ASSUME NEW i \in 1..l PROVE f[i] = f[i - 1] \o seqs[i]
    <3>1. CASE i = 1
      <4>1. i - 1 = 0 /\ seqs[i] \in D
        BY <1>1, <3>1
      <4>. HIDE DEF D
      <4>. QED BY <1>2, <2>1, <2>2, <3>1, <4>1
    <3>2. CASE i # 1
      <4>1. i \in 2..l /\ i - 1 \in 1..l
        BY <1>1, <3>2
      <4>. QED BY <2>1, <2>2, <4>1
    <3>. QED BY <3>1, <3>2
  <2>. DEFINE T == {n \in Nat : n \in 0..l => f[n] \in D}
  <2>4. 0 \in T
    BY <1>1, <2>2
  <2>5. ASSUME NEW n \in Nat, n \in T PROVE n + 1 \in T
    <3>. SUFFICES ASSUME n + 1 \in 0..l PROVE f[n + 1] \in D
      OBVIOUS
    <3>1. n \in 0..l /\ n + 1 \in 1..l /\ (n + 1) - 1 = n
      BY <1>1
    <3>2. f[n] \in D /\ seqs[n + 1] \in D
      BY <1>1, <2>5, <3>1
    <3>3. f[n] \o seqs[n + 1] \in D
      BY <3>2, TwoParts
    <3>. QED BY <2>3, <3>1, <3>3
  <2>6. \A n \in 0..l : f[n] \in D
    <3>1. Nat \subseteq T
      <4>. HIDE DEF T
      <4>. QED BY <2>4, <2>5, Induction
    <3>. QED BY <1>1, <3>1
  <2>7. f[l] = FlattenSeq(seqs)
    BY <1>1, <1>4, <2>1, <2>2
  <2>. QED BY <2>2, <2>3, <2>6, <2>7 DEF none, l
<1>. QED BY <1>3, <1>4

\* Flattening one more part.
LEMMA FlattenAppend ==
  ASSUME NEW C, NEW seqs \in Seq(Seq(C)), NEW a \in Seq(C)
  PROVE  /\ FlattenSeq(Append(seqs, a)) = FlattenSeq(seqs) \o a
         /\ FlattenSeq(seqs) \in Seq(C)
<1>. DEFINE D == Seq(C)
            l == Len(seqs)
            all == Append(seqs, a)
<1>1. /\ all \in Seq(D) /\ Len(all) = l + 1 /\ l \in Nat /\ all[l + 1] = a
      /\ \A i \in 1..l : all[i] = seqs[i]
  <2>1. a \in D /\ seqs \in Seq(D)
    OBVIOUS
  <2>. HIDE DEF D
  <2>. QED BY <2>1
<1>. HIDE DEF all
<1>2. PICK f : /\ f[0] = <<>> /\ f[Len(seqs)] = FlattenSeq(seqs)
               /\ \A i \in 0..Len(seqs) : f[i] \in Seq(C)
               /\ \A i \in 1..Len(seqs) : f[i] = f[i - 1] \o seqs[i]
  BY FlattenRun
<1>3. PICK g : /\ g[0] = <<>> /\ g[Len(all)] = FlattenSeq(all)
               /\ \A i \in 0..Len(all) : g[i] \in Seq(C)
               /\ \A i \in 1..Len(all) : g[i] = g[i - 1] \o all[i]
  BY <1>1, FlattenRun
<1>. HIDE DEF l
<1>. DEFINE T == {n \in Nat : n \in 0..l => g[n] = f[n]}
<1>4. 0 \in T
  BY <1>2, <1>3
<1>5. ASSUME NEW n \in Nat, n \in T PROVE n + 1 \in T
  <2>. SUFFICES ASSUME n + 1 \in 0..l PROVE g[n + 1] = f[n + 1]
    OBVIOUS
  <2>1. n \in 0..l /\ (n + 1) - 1 = n /\ n + 1 \in 1..l
        /\ n + 1 \in 1..Len(all)
    BY <1>1
  <2>2. g[n + 1] = g[n] \o all[n + 1] /\ f[n + 1] = f[n] \o seqs[n + 1]
    BY <1>2, <1>3, <2>1 DEF l
  <2>. QED BY <1>1, <1>5, <2>1, <2>2
<1>6. l \in T
  <2>. HIDE DEF T
  <2>. QED BY <1>1, <1>4, <1>5, Induction
<1>7. g[l] = f[l] /\ l + 1 \in 1..Len(all) /\ (l + 1) - 1 = l
  BY <1>1, <1>6
<1>8. g[l + 1] = g[l] \o all[l + 1]
  BY <1>3, <1>7
<1>9. FlattenSeq(seqs) \in Seq(C)
  BY <1>1, <1>2 DEF l
<1>. QED BY <1>1, <1>2, <1>3, <1>7, <1>8, <1>9 DEF l, all

\* The elements of a sequence, each as the part that V has for it.
Mapped(V, s) == FlattenSeq([i \in 1..Len(s) |-> V[s[i]]])

Maps(V, D, C) == V \in [D -> Seq(C)]

\* One more element is one more part.
LEMMA MappedIs ==
  ASSUME NEW C, NEW D, NEW V, Maps(V, D, C)
  PROVE  /\ Mapped(V, <<>>) = <<>>
         /\ \A s \in Seq(D) : Mapped(V, s) \in Seq(C)
         /\ \A s \in Seq(D) : \A x \in D :
               Mapped(V, Append(s, x)) = Mapped(V, s) \o V[x]
<1>. DEFINE E == Seq(C)
            Parts(s) == [i \in 1..Len(s) |-> V[s[i]]]
<1>0. V \in [D -> Seq(C)]
  BY DEF Maps
<1>1. Mapped(V, <<>>) = <<>>
  <2>1. Len(Parts(<<>>)) = 0 /\ Parts(<<>>) = <<>>
    OBVIOUS
  <2>. HIDE DEF Parts
  <2>2. FlattenSeq(Parts(<<>>)) = <<>>
    BY <2>1 DEF FlattenSeq
  <2>. QED BY <2>2 DEF Mapped, Parts
<1>2. ASSUME NEW s \in Seq(D)
      PROVE  /\ Parts(s) \in Seq(E) /\ Len(Parts(s)) = Len(s)
             /\ \A i \in 1..Len(s) : Parts(s)[i] = V[s[i]]
  <2>. DEFINE l == Len(s)
  <2>1. l \in Nat /\ \A i \in 1..l : s[i] \in D
    OBVIOUS
  <2>2. \A i \in 1..l : V[s[i]] \in E
    BY <1>0, <2>1
  <2>. HIDE DEF E, l
  <2>3. Parts(s) = [i \in 1..l |-> V[s[i]]]
    BY DEF l
  <2>. HIDE DEF Parts
  <2>. QED BY <2>1, <2>2, <2>3 DEF l
<1>3. ASSUME NEW s \in Seq(D), NEW x \in D
      PROVE  Parts(Append(s, x)) = Append(Parts(s), V[x])
  <2>. DEFINE t == Append(s, x)
              l == Len(s)
              a == Parts(t)
              b == Append(Parts(s), V[x])
  <2>1. /\ t \in Seq(D) /\ Len(t) = l + 1 /\ l \in Nat /\ t[l + 1] = x
        /\ \A i \in 1..l : t[i] = s[i]
    OBVIOUS
  <2>2. V[x] \in E
    BY <1>0
  <2>. HIDE DEF t, E, Parts
  <2>3. /\ a \in Seq(E) /\ Len(a) = l + 1
        /\ \A i \in 1..(l + 1) : a[i] = V[t[i]]
    BY <1>2, <2>1
  <2>4. Parts(s) \in Seq(E) /\ Len(Parts(s)) = l
    BY <1>2
  <2>5. b \in Seq(E) /\ Len(b) = l + 1 /\ b[l + 1] = V[x]
        /\ \A i \in 1..l : b[i] = Parts(s)[i]
    <3>. HIDE DEF l
    <3>. QED BY <2>1, <2>2, <2>4
  <2>. HIDE DEF a, b
  <2>6. \A i \in 1..l : b[i] = V[s[i]]
    BY <1>2, <2>5
  <2>. HIDE DEF l
  <2>7. ASSUME NEW i \in 1..(l + 1) PROVE a[i] = b[i]
    <3>1. CASE i = l + 1
      BY <2>1, <2>3, <2>5, <3>1
    <3>2. CASE i \in 1..l
      BY <2>1, <2>3, <2>6, <3>2
    <3>. QED BY <2>1, <3>1, <3>2
  <2>8. a = b
    BY <2>3, <2>5, <2>7, SeqEqual
  <2>. QED BY <2>8 DEF a, b, t
<1>. HIDE DEF Parts
<1>4. ASSUME NEW s \in Seq(D)
      PROVE  Mapped(V, s) \in Seq(C)
  <2>1. Parts(s) \in Seq(Seq(C))
    BY <1>2
  <2>2. <<>> \in Seq(C)
    OBVIOUS
  <2>. QED BY <2>1, <2>2, FlattenAppend DEF Mapped, Parts
<1>5. ASSUME NEW s \in Seq(D), NEW x \in D
      PROVE  Mapped(V, Append(s, x)) = Mapped(V, s) \o V[x]
  <2>1. Parts(s) \in Seq(Seq(C)) /\ V[x] \in Seq(C)
    BY <1>0, <1>2
  <2>2. FlattenSeq(Append(Parts(s), V[x])) = FlattenSeq(Parts(s)) \o V[x]
    BY <2>1, FlattenAppend
  <2>3. FlattenSeq(Parts(Append(s, x))) = FlattenSeq(Parts(s)) \o V[x]
    BY <1>3, <2>2
  <2>. QED BY <2>3 DEF Mapped, Parts
<1>. QED BY <1>1, <1>4, <1>5

-----------------------------------------------------------------------------
(* Lines.                                                                  *)

NL == "newline"
SP == "space"

\* trim() keeps the characters of a line, and a line that is trimmed away has
\* none but spaces.
LEMMA TrimIs ==
  ASSUME NEW D, NEW line \in Seq(D)
  PROVE  /\ Trim(line) \in Seq(D)
         /\ Trim(line) = <<>> <=> \A i \in 1..Len(line) : line[i] = SP
<1>. DEFINE l == Len(line)
            solid == {i \in 1..l : line[i] # SP}
            First == CHOOSE i \in solid : \A j \in solid : i <= j
            final == CHOOSE i \in solid : \A j \in solid : j <= i
<1>1. Trim(line) = IF solid = {} THEN <<>> ELSE SubSeq(line, First, final)
  BY DEF Trim, SP
<1>2. l \in Nat /\ \A i \in 1..l : line[i] \in D
  OBVIOUS
<1>. HIDE DEF l
<1>3. CASE solid = {}
  BY <1>1, <1>3 DEF l
<1>4. CASE solid # {}
  <2>1. PICK k : k \in solid
    BY <1>4
  <2>2. First \in solid /\ \A j \in solid : First <= j
    <3>1. \E m \in solid : \A j \in solid : m <= j
      <4>1. solid \subseteq Nat
        BY <1>2
      <4>. HIDE DEF solid
      <4>. QED BY <1>4, <4>1, Least
    <3>. HIDE DEF solid
    <3>. QED BY <3>1
  <2>3. final \in solid /\ \A j \in solid : j <= final
    <3>1. \E m \in solid : \A j \in solid : j <= m
      <4>1. solid \subseteq 0..l
        BY <1>2
      <4>. HIDE DEF solid
      <4>. QED BY <1>2, <1>4, <2>1, <4>1, Greatest
    <3>. HIDE DEF solid
    <3>. QED BY <3>1
  <2>. HIDE DEF First, final
  <2>4. First \in 1..l /\ final \in First..l
    BY <1>2, <2>2, <2>3
  <2>. DEFINE u == SubSeq(line, First, final)
  <2>5. u \in Seq(D) /\ Len(u) = final - First + 1
    BY <1>2, <2>4, SubSeqProperties DEF l
  <2>. HIDE DEF u
  <2>6. Len(u) # 0
    BY <1>2, <2>4, <2>5
  <2>7. u # <<>>
    BY <2>6
  <2>8. Trim(line) = u
    BY <1>1, <1>4 DEF u
  <2>9. \E i \in 1..l : line[i] # SP
    BY <2>1
  <2>. QED BY <2>5, <2>7, <2>8, <2>9 DEF l
<1>. QED BY <1>3, <1>4

\* What a completed line hands on: itself without its margins, or nothing if it
\* is blank.
Sent(line) == IF Trim(line) = <<>> THEN <<>> ELSE <<Trim(line)>>

\* A line is handed on once or not at all.
LEMMA KeptIs ==
  ASSUME NEW D, NEW line \in Seq(D)
  PROVE  Sent(line) \in Seq(Seq(D))
<1>. DEFINE E == Seq(D)
<1>1. Trim(line) \in E
  BY TrimIs
<1>. HIDE DEF E
<1>2. Sent(line) \in Seq(E)
  BY <1>1 DEF Sent
<1>. QED BY <1>2 DEF E

\* One more line to hand on.
LEMMA SolidIs ==
  ASSUME NEW D
  PROVE  /\ Solid(<<>>) = <<>>
         /\ \A s \in Seq(Seq(D)) : Solid(s) \in Seq(Seq(D))
         /\ \A s \in Seq(Seq(D)) : \A line \in Seq(D) :
               Solid(Append(s, line)) = Solid(s) \o Sent(line)
<1>. DEFINE E == Seq(D)
            V == [line \in E |-> Sent(line)]
<1>1. Maps(V, E, E)
  BY KeptIs DEF Maps
<1>2. ASSUME NEW s \in Seq(E) PROVE Solid(s) = Mapped(V, s)
  <2>1. \A i \in 1..Len(s) : V[s[i]] = Sent(s[i])
    <3>1. \A i \in 1..Len(s) : s[i] \in E
      <4>. HIDE DEF E
      <4>. QED OBVIOUS
    <3>. QED BY <3>1
  <2>2. [i \in 1..Len(s) |-> V[s[i]]] = [i \in 1..Len(s) |-> Sent(s[i])]
    BY <2>1
  <2>. HIDE DEF V
  <2>. QED BY <2>2 DEF Solid, Mapped, Sent
<1>3. \A line \in E : V[line] = Sent(line)
  OBVIOUS
<1>. HIDE DEF V
<1>4. /\ Mapped(V, <<>>) = <<>>
      /\ \A s \in Seq(E) : Mapped(V, s) \in Seq(E)
      /\ \A s \in Seq(E) : \A x \in E :
            Mapped(V, Append(s, x)) = Mapped(V, s) \o V[x]
  <2>. HIDE DEF E
  <2>. QED BY <1>1, MappedIs
<1>. HIDE DEF E
<1>5. <<>> \in Seq(E) /\ \A s \in Seq(E) : \A x \in E : Append(s, x) \in Seq(E)
  OBVIOUS
<1>6. /\ Solid(<<>>) = <<>>
      /\ \A s \in Seq(E) : Solid(s) \in Seq(E)
      /\ \A s \in Seq(E) : \A x \in E :
            Solid(Append(s, x)) = Solid(s) \o Sent(x)
  BY <1>2, <1>3, <1>4, <1>5
<1>. QED BY <1>6 DEF E

\* Lines, and at least one.
Several(D) == {s \in Seq(Seq(D)) : s # <<>>}

\* The last line and the ones before it.
LEMMA SeveralAre ==
  ASSUME NEW D
  PROVE  /\ <<<<>>>> \in Several(D)
         /\ \A s \in Several(D) : /\ Front(s) \in Seq(Seq(D))
                                  /\ Last(s) \in Seq(D)
         /\ \A s \in Seq(Seq(D)) : \A line \in Seq(D) :
               /\ Append(s, line) \in Several(D)
               /\ Front(Append(s, line)) = s /\ Last(Append(s, line)) = line
<1>. DEFINE E == Seq(D)
            F == {s \in Seq(E) : s # <<>>}
<1>1. <<>> \in E
  OBVIOUS
<1>. HIDE DEF E
<1>2. <<<<>>>> \in F
  BY <1>1
<1>3. ASSUME NEW s \in F PROVE Front(s) \in Seq(E) /\ Last(s) \in E
  BY <1>3 DEF Front, Last
<1>4. ASSUME NEW s \in Seq(E), NEW line \in E
      PROVE  Append(s, line) \in F /\ Front(Append(s, line)) = s
             /\ Last(Append(s, line)) = line
  <2>. DEFINE t == Append(s, line)
              l == Len(s)
  <2>1. /\ t \in Seq(E) /\ Len(t) = l + 1 /\ l \in Nat /\ t[l + 1] = line
        /\ \A i \in 1..l : t[i] = s[i]
    OBVIOUS
  <2>2. SubSeq(t, 1, (l + 1) - 1) = s
    OBVIOUS
  <2>3. t # <<>>
    BY <2>1
  <2>. HIDE DEF t, l
  <2>. QED BY <2>1, <2>2, <2>3 DEF Front, Last, t
<1>. QED BY <1>2, <1>3, <1>4 DEF E, Several

\* The lines of a text with one more character.
LEMMA LinesAre ==
  ASSUME NEW D
  PROVE  /\ Lines(<<>>) = <<<<>>>>
         /\ \A t \in Seq(D) : Lines(t) \in Several(D)
         /\ \A t \in Seq(D) : \A c \in D :
               Lines(Append(t, c)) =
                  IF c = NL THEN Append(Lines(t), <<>>)
                  ELSE Append(Front(Lines(t)), Append(Last(Lines(t)), c))
<1>. DEFINE Q == Several(D)
            More(lines, c) ==
              IF c = NL THEN Append(lines, <<>>)
              ELSE Append(Front(lines), Append(Last(lines), c))
            step == [sc \in Q \X D |-> More(sc[1], sc[2])]
            start == <<<<>>>>
<1>1. \A lines \in Q, c \in D : More(lines, c) \in Q
  <2>. TAKE lines \in Q, c \in D
  <2>1. /\ lines \in Seq(Seq(D)) /\ <<>> \in Seq(D)
        /\ Front(lines) \in Seq(Seq(D)) /\ Last(lines) \in Seq(D)
    BY SeveralAre DEF Several
  <2>2. Append(Last(lines), c) \in Seq(D)
    BY <2>1
  <2>3. Append(lines, <<>>) \in Q
    BY <2>1, SeveralAre
  <2>4. Append(Front(lines), Append(Last(lines), c)) \in Q
    BY <2>1, <2>2, SeveralAre
  <2>. HIDE DEF Q
  <2>. QED BY <2>3, <2>4
<1>2. start \in Q
  BY SeveralAre
<1>. HIDE DEF Q, More, start
<1>3. \A lines \in Q, c \in D : step[<<lines, c>>] = More(lines, c)
  OBVIOUS
<1>4. Walks(Q, D, step, start)
  BY <1>1, <1>2 DEF Walks
<1>. HIDE DEF step
<1>5. ASSUME NEW t \in Seq(D) PROVE Lines(t) = Walk(step, start, t)
  <2>. DEFINE l == Len(t)
              Body(g, n) == IF n = 0 THEN start ELSE More(g[n - 1], t[n])
  <2>1. PICK f : IsWalk(Q, step, start, t, f)
    BY <1>4, WalkComputes
  <2>2. l \in Nat /\ \A n \in 1..l : t[n] \in D
    OBVIOUS
  <2>3. f = [n \in 0..l |-> Body(f, n)]
    <3>1. f[0] = start
      BY <2>1 DEF IsWalk
    <3>2. ASSUME NEW n \in 1..l PROVE f[n] = More(f[n - 1], t[n])
      <4>1. n - 1 \in 0..l
        BY <2>2
      <4>2. f[n - 1] \in Q /\ t[n] \in D /\ f[n] = step[<<f[n - 1], t[n]>>]
        BY <2>1, <2>2, <4>1 DEF IsWalk
      <4>. QED BY <1>3, <4>2
    <3>3. ASSUME NEW n \in 0..l PROVE f[n] = Body(f, n)
      <4>1. CASE n = 0
        BY <3>1, <4>1
      <4>2. CASE n # 0
        <5>1. n \in 1..l
          BY <2>2, <4>2
        <5>. QED BY <3>2, <4>2, <5>1
      <4>. QED BY <4>1, <4>2
    <3>4. f = [n \in 0..l |-> f[n]]
      BY <2>1 DEF IsWalk
    <3>. QED BY <3>3, <3>4
  <2>. DEFINE g == CHOOSE h : h = [n \in 0..l |-> Body(h, n)]
  <2>. HIDE DEF Body
  <2>4. g = [n \in 0..l |-> Body(g, n)]
    BY <2>3
  <2>5. Lines(t) = g[l]
    BY DEF Lines, Body, More, start, l, NL
  <2>. HIDE DEF g
  <2>6. \A n \in 0..l : g[n] = Body(g, n)
    BY <2>4
  <2>7. g[0] = start
    <3>1. 0 \in 0..l
      BY <2>2
    <3>. QED BY <2>6, <3>1 DEF Body
  <2>8. ASSUME NEW n \in 1..l, g[n - 1] \in Q
        PROVE  g[n] = step[<<g[n - 1], t[n]>>]
    <3>1. n \in 0..l /\ n # 0 /\ t[n] \in D
      BY <2>2
    <3>2. g[n] = More(g[n - 1], t[n])
      BY <2>6, <3>1 DEF Body
    <3>. QED BY <1>3, <2>8, <3>1, <3>2
  <2>9. g[Len(t)] = Walk(step, start, t)
    BY <1>4, <2>7, <2>8, WalkUnique DEF l
  <2>. QED BY <2>5, <2>9
<1>6. /\ Walk(step, start, <<>>) = start
      /\ \A s \in Seq(D) : Walk(step, start, s) \in Q
      /\ \A s \in Seq(D) : \A c \in D :
            Walk(step, start, Append(s, c)) = step[<<Walk(step, start, s), c>>]
  BY <1>4, WalkIs
<1>7. Lines(<<>>) = start
  <2>1. <<>> \in Seq(D)
    OBVIOUS
  <2>. QED BY <1>5, <1>6, <2>1
<1>8. \A t \in Seq(D) : Lines(t) \in Q
  BY <1>5, <1>6
<1>9. ASSUME NEW t \in Seq(D), NEW c \in D
      PROVE  Lines(Append(t, c)) = More(Lines(t), c)
  <2>1. Append(t, c) \in Seq(D)
    OBVIOUS
  <2>2. Lines(Append(t, c)) = step[<<Lines(t), c>>]
    BY <1>5, <1>6, <2>1
  <2>. QED BY <1>3, <1>8, <2>2
<1>. QED BY <1>7, <1>8, <1>9 DEF More, start, Q

-----------------------------------------------------------------------------
(* The parsers, character by character.                                    *)

ParserState(D) == [buffer : Seq(D), lines : Seq(Seq(D))]

\* One more character.
Feed(st, c) ==
    IF c = NL
    THEN [buffer |-> <<>>, lines |-> st.lines \o Sent(st.buffer)]
    ELSE [buffer |-> Append(st.buffer, c), lines |-> st.lines]

FeedStep(D) == [sc \in ParserState(D) \X D |-> Feed(sc[1], sc[2])]
Fed(D, st, s) == Walk(FeedStep(D), st, s)

\* Feeding a text character by character.
LEMMA FedIs ==
  ASSUME NEW D, NEW st \in ParserState(D)
  PROVE  /\ Fed(D, st, <<>>) = st
         /\ \A s \in Seq(D) : Fed(D, st, s) \in ParserState(D)
         /\ \A s \in Seq(D) : \A c \in D :
               Fed(D, st, Append(s, c)) = Feed(Fed(D, st, s), c)
<1>. DEFINE Q == ParserState(D)
            step == FeedStep(D)
<1>1. \A q \in Q, c \in D : Feed(q, c) \in Q
  <2>. TAKE q \in Q, c \in D
  <2>1. q.buffer \in Seq(D) /\ q.lines \in Seq(Seq(D))
    BY DEF ParserState
  <2>2. Sent(q.buffer) \in Seq(Seq(D)) /\ <<>> \in Seq(D)
    BY <2>1, KeptIs
  <2>3. q.lines \o Sent(q.buffer) \in Seq(Seq(D))
    BY <2>1, <2>2, TwoParts
  <2>4. Append(q.buffer, c) \in Seq(D)
    BY <2>1
  <2>. QED BY <2>1, <2>2, <2>3, <2>4 DEF Feed, ParserState
<1>2. \A q \in Q, c \in D : step[<<q, c>>] = Feed(q, c)
  <2>. HIDE DEF Q
  <2>. QED BY DEF FeedStep, Q
<1>3. Walks(Q, D, step, st)
  BY <1>1 DEF Walks, FeedStep
<1>. HIDE DEF Q, step
<1>4. /\ Walk(step, st, <<>>) = st
      /\ \A s \in Seq(D) : Walk(step, st, s) \in Q
      /\ \A s \in Seq(D) : \A c \in D :
            Walk(step, st, Append(s, c)) = step[<<Walk(step, st, s), c>>]
  BY <1>3, WalkIs
<1>. QED BY <1>2, <1>4 DEF Fed, Q, step

\* First one text, then the other one.
LEMMA FedConcat ==
  ASSUME NEW D, NEW st \in ParserState(D), NEW a \in Seq(D), NEW b \in Seq(D)
  PROVE  Fed(D, st, a \o b) = Fed(D, Fed(D, st, a), b)
<1>. DEFINE mid == Fed(D, st, a)
            P == {s \in Seq(D) : Fed(D, st, a \o s) = Fed(D, mid, s)}
<1>0. mid \in ParserState(D)
  BY FedIs
<1>. HIDE DEF mid
<1>1. <<>> \in P
  <2>1. Fed(D, mid, <<>>) = mid /\ a \o <<>> = a /\ <<>> \in Seq(D)
    BY <1>0, FedIs
  <2>. QED BY <2>1 DEF mid
<1>2. ASSUME NEW t \in Seq(D), NEW c \in D, t \in P PROVE Append(t, c) \in P
  <2>1. /\ a \o Append(t, c) = Append(a \o t, c) /\ a \o t \in Seq(D)
        /\ Append(t, c) \in Seq(D)
    OBVIOUS
  <2>2. Fed(D, st, Append(a \o t, c)) = Feed(Fed(D, st, a \o t), c)
    BY <2>1, FedIs
  <2>3. Fed(D, mid, Append(t, c)) = Feed(Fed(D, mid, t), c)
    BY <1>0, FedIs
  <2>. QED BY <1>2, <2>1, <2>2, <2>3
<1>3. Seq(D) \subseteq P
  <2>. HIDE DEF P
  <2>. QED BY <1>1, <1>2, AppendInduction
<1>. QED BY <1>3 DEF mid

\* Without a newline everything stays in the buffer.
LEMMA FedNoLine ==
  ASSUME NEW D, NEW kept \in Seq(Seq(D)), NEW b \in Seq(D),
         \A i \in 1..Len(b) : b[i] # NL
  PROVE  Fed(D, [buffer |-> <<>>, lines |-> kept], b)
            = [buffer |-> b, lines |-> kept]
<1>. DEFINE E == D \ {NL}
            st == [buffer |-> <<>>, lines |-> kept]
            P == {s \in Seq(E) : Fed(D, st, s)
                                   = [buffer |-> s, lines |-> kept]}
<1>0. st \in ParserState(D)
  BY DEF ParserState
<1>. HIDE DEF st
<1>1. <<>> \in P
  <2>1. Fed(D, st, <<>>) = st /\ <<>> \in Seq(E)
    BY <1>0, FedIs
  <2>. QED BY <2>1 DEF st
<1>2. ASSUME NEW t \in Seq(E), NEW c \in E, t \in P PROVE Append(t, c) \in P
  <2>1. t \in Seq(D) /\ c \in D /\ c # NL /\ Append(t, c) \in Seq(E)
    OBVIOUS
  <2>2. Fed(D, st, Append(t, c)) = Feed(Fed(D, st, t), c)
    BY <1>0, <2>1, FedIs
  <2>3. Fed(D, st, t) = [buffer |-> t, lines |-> kept]
    BY <1>2
  <2>4. Feed([buffer |-> t, lines |-> kept], c)
          = [buffer |-> Append(t, c), lines |-> kept]
    BY <2>1 DEF Feed
  <2>. QED BY <2>1, <2>2, <2>3, <2>4
<1>3. Seq(E) \subseteq P
  <2>. HIDE DEF P, E
  <2>. QED BY <1>1, <1>2, AppendInduction
<1>4. b \in Seq(E)
  OBVIOUS
<1>. QED BY <1>3, <1>4 DEF st

\* The buffer never holds a newline.
LEMMA NoLineIsKept ==
  ASSUME NEW D, NEW st \in ParserState(D),
         \A i \in 1..Len(st.buffer) : st.buffer[i] # NL, NEW s \in Seq(D)
  PROVE  LET b == Fed(D, st, s).buffer IN \A i \in 1..Len(b) : b[i] # NL
<1>. DEFINE Clear(b) == \A i \in 1..Len(b) : b[i] # NL
            P == {t \in Seq(D) : Clear(Fed(D, st, t).buffer)}
<1>1. <<>> \in P
  <2>1. Fed(D, st, <<>>) = st /\ <<>> \in Seq(D)
    BY FedIs
  <2>. QED BY <2>1
<1>2. ASSUME NEW t \in Seq(D), NEW c \in D, t \in P PROVE Append(t, c) \in P
  <2>. DEFINE q == Fed(D, st, t)
  <2>1. q \in ParserState(D) /\ Clear(q.buffer)
    BY <1>2, FedIs
  <2>2. Fed(D, st, Append(t, c)) = Feed(q, c) /\ Append(t, c) \in Seq(D)
    BY FedIs
  <2>. HIDE DEF q
  <2>3. q.buffer \in Seq(D)
    BY <2>1 DEF ParserState
  <2>4. Clear(Feed(q, c).buffer)
    <3>1. CASE c = NL
      <4>1. Feed(q, c).buffer = <<>>
        BY <3>1 DEF Feed
      <4>2. Len(<<>>) = 0
        OBVIOUS
      <4>. QED BY <4>1, <4>2
    <3>2. CASE c # NL
      <4>1. Feed(q, c).buffer = Append(q.buffer, c)
        BY <3>2 DEF Feed
      <4>2. Clear(Append(q.buffer, c))
        BY <2>1, <2>3, <3>2
      <4>. QED BY <4>1, <4>2
    <3>. QED BY <3>1, <3>2
  <2>. QED BY <2>2, <2>4
<1>3. Seq(D) \subseteq P
  <2>. HIDE DEF P
  <2>. QED BY <1>1, <1>2, AppendInduction
<1>. QED BY <1>3

\* Splitting a text at its newlines is feeding it.
LEMMA LinesAreFed ==
  ASSUME NEW D, NEW kept \in Seq(Seq(D)), NEW t \in Seq(D)
  PROVE  Fed(D, [buffer |-> <<>>, lines |-> kept], t)
           = [buffer |-> Last(Lines(t)),
              lines |-> kept \o Solid(Front(Lines(t)))]
<1>. DEFINE E == Seq(D)
            st == [buffer |-> <<>>, lines |-> kept]
            Split(s) == [buffer |-> Last(Lines(s)),
                         lines |-> kept \o Solid(Front(Lines(s)))]
            P == {s \in Seq(D) : Fed(D, st, s) = Split(s)}
<1>0. st \in ParserState(D) /\ <<>> \in E /\ <<>> \in Seq(E)
  BY DEF ParserState
<1>. HIDE DEF st
<1>1. \A x \in Seq(E) : \A y \in E :
         Front(Append(x, y)) = x /\ Last(Append(x, y)) = y
  BY SeveralAre
<1>2. <<>> \in P
  <2>1. Fed(D, st, <<>>) = st
    BY <1>0, FedIs
  <2>2. Lines(<<>>) = <<<<>>>>
    BY LinesAre
  <2>3. Front(<<<<>>>>) = <<>> /\ Last(<<<<>>>>) = <<>>
    BY DEF Front, Last
  <2>4. Solid(<<>>) = <<>> /\ kept \o <<>> = kept
    BY SolidIs
  <2>. QED BY <1>0, <2>1, <2>2, <2>3, <2>4 DEF st
<1>3. ASSUME NEW s \in Seq(D), NEW c \in D, s \in P PROVE Append(s, c) \in P
  <2>. DEFINE u == Append(s, c)
              b == Last(Lines(s))
              f == Front(Lines(s))
  <2>1. u \in Seq(D) /\ Fed(D, st, u) = Feed(Fed(D, st, s), c)
    BY <1>0, FedIs
  <2>2. Lines(s) \in Several(D)
    BY LinesAre
  <2>3. /\ f \in Seq(E) /\ b \in E /\ Lines(s) = Append(f, b)
    <3>1. f \in Seq(E) /\ b \in E
      BY <2>2, SeveralAre
    <3>2. Lines(s) \in Seq(E) /\ Lines(s) # <<>>
      BY <2>2 DEF Several
    <3>. HIDE DEF E
    <3>3. Lines(s) = Append(f, b)
      BY <3>2 DEF Front, Last
    <3>. QED BY <3>1, <3>3
  <2>4. Lines(u) = IF c = NL THEN Append(Lines(s), <<>>)
                   ELSE Append(f, Append(b, c))
    BY LinesAre
  <2>. HIDE DEF b, f, u
  <2>5. Fed(D, st, s) = [buffer |-> b, lines |-> kept \o Solid(f)]
    BY <1>3 DEF b, f
  <2>6. CASE c = NL
    <3>1. Lines(u) = Append(Append(f, b), <<>>)
      BY <2>3, <2>4, <2>6
    <3>2. Append(f, b) \in Seq(E)
      <4>. HIDE DEF E
      <4>. QED BY <2>3
    <3>3. Front(Lines(u)) = Append(f, b) /\ Last(Lines(u)) = <<>>
      <4>. HIDE DEF E
      <4>. QED BY <1>0, <1>1, <3>1, <3>2
    <3>4. Solid(Append(f, b)) = Solid(f) \o Sent(b) /\ Solid(f) \in Seq(E)
      BY <2>3, SolidIs
    <3>5. Sent(b) \in Seq(E)
      BY <2>3, KeptIs
    <3>6. (kept \o Solid(f)) \o Sent(b) = kept \o (Solid(f) \o Sent(b))
      BY <3>4, <3>5, InAnyOrder
    <3>7. Feed([buffer |-> b, lines |-> kept \o Solid(f)], c)
            = [buffer |-> <<>>, lines |-> (kept \o Solid(f)) \o Sent(b)]
      BY <2>6 DEF Feed
    <3>8. Split(u) = [buffer |-> <<>>, lines |-> kept \o (Solid(f) \o Sent(b))]
      BY <3>3, <3>4
    <3>. QED BY <2>1, <2>5, <3>6, <3>7, <3>8 DEF u
  <2>7. CASE c # NL
    <3>1. Append(b, c) \in E
      BY <2>3
    <3>2. Lines(u) = Append(f, Append(b, c))
      BY <2>4, <2>7
    <3>3. Front(Lines(u)) = f /\ Last(Lines(u)) = Append(b, c)
      <4>. HIDE DEF E
      <4>. QED BY <1>1, <2>3, <3>1, <3>2
    <3>4. Feed([buffer |-> b, lines |-> kept \o Solid(f)], c)
            = [buffer |-> Append(b, c), lines |-> kept \o Solid(f)]
      BY <2>7 DEF Feed
    <3>. QED BY <2>1, <2>5, <3>3, <3>4 DEF u
  <2>. QED BY <2>6, <2>7
<1>4. Seq(D) \subseteq P
  <2>. HIDE DEF P
  <2>. QED BY <1>2, <1>3, AppendInduction
<1>. QED BY <1>4 DEF st

\* The same with more lines kept before.
FedAfter(D, b, q, r, s) ==
    Fed(D, [buffer |-> b, lines |-> q \o r], s)
       = [buffer |-> Fed(D, [buffer |-> b, lines |-> r], s).buffer,
          lines |-> q \o Fed(D, [buffer |-> b, lines |-> r], s).lines]

\* The lines that were kept before are neither read nor changed.
LEMMA FedKept ==
  ASSUME NEW D, NEW b \in Seq(D), NEW q \in Seq(Seq(D)),
         NEW r \in Seq(Seq(D)), NEW s \in Seq(D)
  PROVE  FedAfter(D, b, q, r, s)
<1>. DEFINE E == Seq(D)
            long == [buffer |-> b, lines |-> q \o r]
            short == [buffer |-> b, lines |-> r]
            P == {t \in Seq(D) : Fed(D, long, t)
                    = [buffer |-> Fed(D, short, t).buffer,
                       lines |-> q \o Fed(D, short, t).lines]}
<1>0. long \in ParserState(D) /\ short \in ParserState(D)
  <2>1. q \o r \in Seq(E)
    BY TwoParts
  <2>. QED BY <2>1 DEF ParserState
<1>1. <<>> \in P
  <2>1. /\ Fed(D, long, <<>>) = long /\ Fed(D, short, <<>>) = short
        /\ <<>> \in Seq(D)
    BY <1>0, FedIs
  <2>2. long = [buffer |-> short.buffer, lines |-> q \o short.lines]
    OBVIOUS
  <2>. HIDE DEF long, short
  <2>. QED BY <2>1, <2>2
<1>. HIDE DEF long, short
<1>2. ASSUME NEW t \in Seq(D), NEW c \in D, t \in P PROVE Append(t, c) \in P
  <2>. DEFINE u == Fed(D, short, t)
              v == Fed(D, long, t)
  <2>1. /\ Fed(D, long, Append(t, c)) = Feed(v, c)
        /\ Fed(D, short, Append(t, c)) = Feed(u, c)
        /\ u \in ParserState(D) /\ Append(t, c) \in Seq(D)
    BY <1>0, FedIs
  <2>2. v = [buffer |-> u.buffer, lines |-> q \o u.lines]
    BY <1>2
  <2>. HIDE DEF u, v
  <2>3. u.buffer \in E /\ u.lines \in Seq(E)
    BY <2>1 DEF ParserState
  <2>4. Feed(v, c) = [buffer |-> Feed(u, c).buffer,
                      lines |-> q \o Feed(u, c).lines]
    <3>1. CASE c = NL
      <4>1. Sent(u.buffer) \in Seq(E)
        BY <2>3, KeptIs
      <4>2. (q \o u.lines) \o Sent(u.buffer) = q \o (u.lines \o Sent(u.buffer))
        <5>. DEFINE x == u.lines
                    y == Sent(u.buffer)
        <5>1. q \in Seq(E) /\ x \in Seq(E) /\ y \in Seq(E)
          BY <2>3, <4>1
        <5>. HIDE DEF E, x, y
        <5>2. \A i, j, k \in Seq(E) : (i \o j) \o k = i \o (j \o k)
          OBVIOUS
        <5>3. (q \o x) \o y = q \o (x \o y)
          BY <5>1, <5>2
        <5>. QED BY <5>3 DEF x, y
      <4>3. /\ Feed(v, c) = [buffer |-> <<>>,
                             lines |-> (q \o u.lines) \o Sent(u.buffer)]
            /\ Feed(u, c) = [buffer |-> <<>>,
                             lines |-> u.lines \o Sent(u.buffer)]
        BY <2>2, <3>1 DEF Feed
      <4>. QED BY <4>2, <4>3
    <3>2. CASE c # NL
      BY <2>2, <3>2 DEF Feed
    <3>. QED BY <3>1, <3>2
  <2>. QED BY <2>1, <2>4 DEF u, v
<1>3. Seq(D) \subseteq P
  <2>. HIDE DEF P
  <2>. QED BY <1>1, <1>2, AppendInduction
<1>. QED BY <1>3 DEF long, short, FedAfter

\* The lines of a state, after others.
LEMMA LinesBefore ==
  ASSUME NEW D, NEW st \in ParserState(D), NEW q
  PROVE  [st EXCEPT !.lines = q \o @]
            = [buffer |-> st.buffer, lines |-> q \o st.lines]
<1>1. st = [buffer |-> st.buffer, lines |-> st.lines]
  BY DEF ParserState
<1>. DEFINE b == st.buffer
            k == st.lines
            j == q \o k
<1>. HIDE DEF b, k, j
<1>2. [[buffer |-> b, lines |-> k] EXCEPT !.lines = j]
         = [buffer |-> b, lines |-> j]
  OBVIOUS
<1>. QED BY <1>1, <1>2 DEF b, k, j

\* A state in which the parsers are between two chunks.
Between(D) == {st \in ParserState(D) :
                 \A i \in 1..Len(st.buffer) : st.buffer[i] # NL}

\* A chunk is fed to what has been read.
LEMMA BufferIsFed ==
  ASSUME NEW D, NEW state \in Between(D), NEW s \in Seq(D)
  PROVE  /\ state.buffer \o s \in Seq(D) /\ state.lines \in Seq(Seq(D))
         /\ Fed(D, state, s)
              = Fed(D, [buffer |-> <<>>, lines |-> state.lines],
                    state.buffer \o s)
         /\ Fed(D, state, s) \in Between(D)
<1>. DEFINE b == state.buffer
            kept == state.lines
            st == [buffer |-> <<>>, lines |-> kept]
<1>1. /\ b \in Seq(D) /\ kept \in Seq(Seq(D)) /\ <<>> \in Seq(D)
      /\ \A i \in 1..Len(b) : b[i] # NL
      /\ state = [buffer |-> b, lines |-> kept]
  BY DEF Between, ParserState
<1>2. Fed(D, st, b) = state
  <2>. HIDE DEF b, kept
  <2>. QED BY <1>1, FedNoLine
<1>3. st \in ParserState(D)
  BY <1>1 DEF ParserState
<1>4. Fed(D, st, b \o s) = Fed(D, state, s)
  <2>. HIDE DEF b, st
  <2>. QED BY <1>1, <1>2, <1>3, FedConcat
<1>5. Fed(D, state, s) \in Between(D)
  <2>1. state \in ParserState(D)
    BY DEF Between
  <2>. QED BY <1>1, <2>1, FedIs, NoLineIsKept DEF Between
<1>6. b \o s \in Seq(D)
  BY <1>1
<1>. QED BY <1>1, <1>4, <1>5, <1>6

\* createLineParser reads a chunk character by character.
LEMMA SocketIsFed ==
  ASSUME NEW D, NEW state \in Between(D), NEW chunk, Decode(chunk) \in Seq(D)
  PROVE  SocketChunk(state, chunk) = Fed(D, state, Decode(chunk))
<1>. DEFINE s == Decode(chunk)
            b == state.buffer \o s
<1>1. /\ b \in Seq(D) /\ state.lines \in Seq(Seq(D))
      /\ Fed(D, state, s) = Fed(D, [buffer |-> <<>>, lines |-> state.lines], b)
  BY BufferIsFed
<1>. HIDE DEF b, s
<1>2. Fed(D, [buffer |-> <<>>, lines |-> state.lines], b)
        = [buffer |-> Last(Lines(b)),
           lines |-> state.lines \o Solid(Front(Lines(b)))]
  BY <1>1, LinesAreFed
<1>. QED BY <1>1, <1>2 DEF SocketChunk, b, s

\* What processBuffer leaves of a text from a place on.
RestFrom(D, t, p) ==
    Fed(D, [buffer |-> <<>>, lines |-> <<>>], SubSeq(t, p, Len(t)))

\* A line and what follows it.
LEMMA OneLineIsFed ==
  ASSUME NEW D, NEW t \in Seq(D), NEW p \in 1..(Len(t) + 1),
         NEW i \in p..Len(t), t[i] = NL, \A j \in p..(i - 1) : t[j] # NL
  PROVE  RestFrom(D, t, p)
           = [buffer |-> RestFrom(D, t, i + 1).buffer,
              lines |-> Solid(<<SubSeq(t, p, i - 1)>>)
                           \o RestFrom(D, t, i + 1).lines]
<1>. DEFINE l == Len(t)
            piece == SubSeq(t, p, i - 1)
            rest == SubSeq(t, i + 1, l)
            line == Append(piece, NL)
            E == Seq(D)
            empty == [buffer |-> <<>>, lines |-> <<>>]
<1>1. /\ l \in Nat /\ p \in 1..l /\ i \in 1..l
      /\ piece \in Seq(D) /\ rest \in Seq(D) /\ Len(piece) = i - p
      /\ \A j \in 1..Len(piece) : piece[j] = t[p + j - 1]
  OBVIOUS
<1>2. \A j \in 1..Len(piece) : piece[j] # NL
  BY <1>1
<1>3. NL \in D
  <2>1. t[i] \in D
    BY <1>1
  <2>. QED BY <2>1
<1>4. SubSeq(t, p, l) = line \o rest
  <2>1. SubSeq(t, p, i) = line
    BY <1>1
  <2>2. SubSeq(t, p, l) = SubSeq(t, p, i) \o SubSeq(t, i + 1, l)
    <3>1. i \in (p - 1)..l /\ l \in i..l
      BY <1>1
    <3>. QED BY <1>1, <3>1, ConcatAdjacentSubSeq
  <2>. QED BY <2>1, <2>2
<1>. HIDE DEF l, piece, rest
<1>5. /\ <<>> \in E /\ <<>> \in Seq(E) /\ line \in Seq(D)
      /\ empty \in ParserState(D)
  BY <1>1, <1>3 DEF ParserState
<1>6. Fed(D, empty, piece) = [buffer |-> piece, lines |-> <<>>]
  BY <1>1, <1>2, <1>5, FedNoLine
<1>7. Sent(piece) \in Seq(E) /\ Solid(<<piece>>) = Sent(piece)
  <2>1. Sent(piece) \in Seq(E)
    BY <1>1, KeptIs
  <2>2. Solid(Append(<<>>, piece)) = Solid(<<>>) \o Sent(piece)
    BY <1>1, <1>5, SolidIs
  <2>3. Solid(<<>>) = <<>> /\ Append(<<>>, piece) = <<piece>>
    BY SolidIs
  <2>. HIDE DEF E
  <2>4. <<>> \o Sent(piece) = Sent(piece)
    BY <2>1
  <2>. QED BY <2>1, <2>2, <2>3, <2>4
<1>8. Fed(D, empty, line) = [buffer |-> <<>>, lines |-> Sent(piece) \o <<>>]
  <2>1. Fed(D, empty, line) = Feed(Fed(D, empty, piece), NL)
    BY <1>1, <1>3, <1>5, FedIs
  <2>2. Feed([buffer |-> piece, lines |-> <<>>], NL)
          = [buffer |-> <<>>, lines |-> <<>> \o Sent(piece)]
    BY DEF Feed
  <2>. HIDE DEF E
  <2>3. <<>> \o Sent(piece) = Sent(piece) /\ Sent(piece) \o <<>> = Sent(piece)
    BY <1>7
  <2>. QED BY <1>6, <2>1, <2>2, <2>3
<1>9. Fed(D, empty, line \o rest) = Fed(D, Fed(D, empty, line), rest)
  <2>. HIDE DEF empty, line
  <2>. QED BY <1>1, <1>5, FedConcat
<1>10. Fed(D, [buffer |-> <<>>, lines |-> Sent(piece) \o <<>>], rest)
         = [buffer |-> Fed(D, empty, rest).buffer,
            lines |-> Sent(piece) \o Fed(D, empty, rest).lines]
  <2>. DEFINE b == <<>>
              r == <<>>
              q == Sent(piece)
              long == [buffer |-> b, lines |-> q \o r]
              short == [buffer |-> b, lines |-> r]
  <2>1. b \in Seq(D) /\ r \in Seq(Seq(D)) /\ q \in Seq(Seq(D))
    BY <1>5, <1>7
  <2>. HIDE DEF E, b, r, q
  <2>2. FedAfter(D, b, q, r, rest)
    BY <1>1, <2>1, FedKept
  <2>. QED BY <2>2 DEF b, r, q, FedAfter
<1>. QED BY <1>4, <1>7, <1>8, <1>9, <1>10 DEF RestFrom, rest, l, piece

\* processBuffer reads a chunk character by character.
LEMMA McpIsFed ==
  ASSUME NEW D, NEW state \in Between(D), NEW chunk, Decode(chunk) \in Seq(D)
  PROVE  McpChunk(state, chunk) = Fed(D, state, Decode(chunk))
<1>. DEFINE s == Decode(chunk)
            t == state.buffer \o s
            l == Len(t)
            NewlineFrom(p) == {i \in p..Len(t) : t[i] = NL}
            First(p) == CHOOSE i \in NewlineFrom(p) :
                           \A j \in NewlineFrom(p) : i <= j
            Body(g, p) ==
              IF NewlineFrom(p) = {}
              THEN [buffer |-> SubSeq(t, p, Len(t)), lines |-> <<>>]
              ELSE [g[First(p) + 1] EXCEPT
                      !.lines = Solid(<<SubSeq(t, p, First(p) - 1)>>) \o @]
            f == [p \in 1..(l + 1) |-> RestFrom(D, t, p)]
            g == CHOOSE h : h = [p \in 1..(l + 1) |-> Body(h, p)]
<1>1. /\ t \in Seq(D) /\ state.lines \in Seq(Seq(D))
      /\ Fed(D, state, s) = Fed(D, [buffer |-> <<>>, lines |-> state.lines], t)
  BY BufferIsFed
<1>2. McpChunk(state, chunk) = [g[1] EXCEPT !.lines = state.lines \o @]
  BY DEF McpChunk, NL
<1>. HIDE DEF s, t
<1>3. l \in Nat
  BY <1>1
<1>4. ASSUME NEW p \in 1..(l + 1), NewlineFrom(p) # {}
      PROVE  /\ First(p) \in p..Len(t) /\ t[First(p)] = NL
             /\ \A j \in p..(First(p) - 1) : t[j] # NL
             /\ First(p) + 1 \in 1..(l + 1) /\ First(p) + 1 > p
  <2>1. NewlineFrom(p) \subseteq Nat
    BY <1>3
  <2>2. First(p) \in NewlineFrom(p) /\ \A j \in NewlineFrom(p) : First(p) <= j
    <3>. DEFINE N == NewlineFrom(p)
    <3>1. N # {} /\ N \subseteq Nat
      BY <1>4, <2>1
    <3>. HIDE DEF N
    <3>2. \E i \in N : \A j \in N : i <= j
      BY <3>1, Least
    <3>3. LET m == CHOOSE i \in N : \A j \in N : i <= j
          IN  m \in N /\ \A j \in N : m <= j
      BY <3>2
    <3>. QED BY <3>3 DEF N
  <2>. HIDE DEF First
  <2>. QED BY <1>3, <2>2
<1>. HIDE DEF First
<1>5. ASSUME NEW p \in 1..(l + 1) PROVE f[p] = Body(f, p)
  <2>1. CASE NewlineFrom(p) = {}
    <3>. DEFINE u == SubSeq(t, p, l)
                none == <<>>
    <3>1. /\ u \in Seq(D) /\ \A i \in 1..Len(u) : u[i] # NL
          /\ none \in Seq(Seq(D))
      <4>1. u \in Seq(D) /\ none \in Seq(Seq(D))
        BY <1>1, <1>3
      <4>2. \A i \in 1..Len(u) : p + i - 1 \in p..l /\ u[i] = t[p + i - 1]
        BY <1>1, <1>3
      <4>3. \A j \in p..l : t[j] # NL
        BY <2>1
      <4>. QED BY <4>1, <4>2, <4>3
    <3>. HIDE DEF u, none
    <3>2. Fed(D, [buffer |-> <<>>, lines |-> none], u)
            = [buffer |-> u, lines |-> none]
      BY <3>1, FedNoLine
    <3>3. RestFrom(D, t, p) = [buffer |-> u, lines |-> <<>>]
      BY <3>2 DEF RestFrom, u, none, l
    <3>. QED BY <2>1, <3>3 DEF u, l
  <2>2. CASE NewlineFrom(p) # {}
    <3>. DEFINE i == First(p)
                q == Solid(<<SubSeq(t, p, i - 1)>>)
    <3>1. /\ i \in p..Len(t) /\ t[i] = NL
          /\ \A j \in p..(i - 1) : t[j] # NL
          /\ i + 1 \in 1..(l + 1)
      BY <1>4, <2>2
    <3>. HIDE DEF i
    <3>2. RestFrom(D, t, p) = [buffer |-> RestFrom(D, t, i + 1).buffer,
                            lines |-> q \o RestFrom(D, t, i + 1).lines]
      BY <1>1, <3>1, OneLineIsFed
    <3>3. f[p] = RestFrom(D, t, p) /\ f[i + 1] = RestFrom(D, t, i + 1)
      BY <3>1
    <3>4. f[i + 1] \in ParserState(D)
      <4>. DEFINE u == SubSeq(t, i + 1, l)
                  empty == [buffer |-> <<>>, lines |-> <<>>]
      <4>1. u \in Seq(D)
        BY <1>1, <1>3, <3>1
      <4>2. empty \in ParserState(D)
        BY DEF ParserState
      <4>. HIDE DEF u, empty
      <4>3. Fed(D, empty, u) \in ParserState(D)
        BY <4>1, <4>2, FedIs
      <4>. QED BY <3>3, <4>3 DEF RestFrom, u, empty, l
    <3>. HIDE DEF f, q
    <3>5. [f[i + 1] EXCEPT !.lines = q \o @]
            = [buffer |-> f[i + 1].buffer, lines |-> q \o f[i + 1].lines]
      BY <3>4, LinesBefore
    <3>6. Body(f, p) = [f[i + 1] EXCEPT !.lines = q \o @]
      BY <2>2 DEF i, q
    <3>. QED BY <3>2, <3>3, <3>5, <3>6
  <2>. QED BY <2>1, <2>2
<1>6. f = [p \in 1..(l + 1) |-> Body(f, p)]
  <2>1. f = [p \in 1..(l + 1) |-> f[p]]
    OBVIOUS
  <2>. HIDE DEF f, Body
  <2>. QED BY <1>5, <2>1
<1>7. g = [p \in 1..(l + 1) |-> Body(g, p)]
  <2>. HIDE DEF f, Body
  <2>. QED BY <1>6
<1>8. ASSUME NEW p \in 1..(l + 1) PROVE g[p] = Body(g, p)
  <2>. HIDE DEF g, Body
  <2>. QED BY <1>7
<1>. HIDE DEF f, g
<1>9. ASSUME NEW p \in 1..(l + 1),
             \A i \in 1..(l + 1) : i > p => g[i] = f[i]
      PROVE  g[p] = f[p]
  <2>1. CASE NewlineFrom(p) = {}
    BY <1>5, <1>8, <2>1
  <2>2. CASE NewlineFrom(p) # {}
    <3>1. g[First(p) + 1] = f[First(p) + 1]
      BY <1>4, <1>9, <2>2
    <3>. HIDE DEF NewlineFrom
    <3>. QED BY <1>5, <1>8, <3>1
  <2>. QED BY <2>1, <2>2
<1>. DEFINE T == {n \in Nat : \A p \in 1..(l + 1) : p + n > l => g[p] = f[p]}
<1>10. 0 \in T
  BY <1>3, <1>9
<1>11. ASSUME NEW n \in Nat, n \in T PROVE n + 1 \in T
  <2>. SUFFICES ASSUME NEW p \in 1..(l + 1), p + (n + 1) > l
                PROVE  g[p] = f[p]
    OBVIOUS
  <2>1. \A i \in 1..(l + 1) : i > p => i + n > l
    BY <1>3
  <2>2. \A i \in 1..(l + 1) : i > p => g[i] = f[i]
    BY <1>11, <2>1
  <2>. QED BY <1>9, <2>2
<1>12. g[1] = RestFrom(D, t, 1)
  <2>1. l \in T
    <3>. HIDE DEF T
    <3>. QED BY <1>3, <1>10, <1>11, Induction
  <2>2. 1 \in 1..(l + 1) /\ 1 + l > l
    BY <1>3
  <2>. HIDE DEF l
  <2>. QED BY <2>1, <2>2 DEF f
<1>13. SubSeq(t, 1, l) = t
  BY <1>1
<1>14. Fed(D, [buffer |-> <<>>, lines |-> state.lines \o <<>>], t)
         = [buffer |-> g[1].buffer, lines |-> state.lines \o g[1].lines]
  <2>. DEFINE b == <<>>
              r == <<>>
              q == state.lines
              long == [buffer |-> b, lines |-> q \o r]
              short == [buffer |-> b, lines |-> r]
  <2>1. b \in Seq(D) /\ r \in Seq(Seq(D)) /\ q \in Seq(Seq(D))
    BY <1>1
  <2>2. g[1] = Fed(D, short, t)
    BY <1>12, <1>13 DEF RestFrom
  <2>. HIDE DEF b, r, q
  <2>3. FedAfter(D, b, q, r, t)
    BY <1>1, <2>1, FedKept
  <2>. QED BY <2>2, <2>3 DEF b, r, q, FedAfter
<1>15. state.lines \o <<>> = state.lines
  BY <1>1
<1>16. g[1] \in ParserState(D)
  <2>. DEFINE empty == [buffer |-> <<>>, lines |-> <<>>]
  <2>1. empty \in ParserState(D)
    BY DEF ParserState
  <2>2. g[1] = Fed(D, empty, t)
    BY <1>12, <1>13 DEF RestFrom
  <2>. HIDE DEF empty
  <2>3. Fed(D, empty, t) \in ParserState(D)
    BY <1>1, <2>1, FedIs
  <2>. QED BY <2>2, <2>3
<1>17. [g[1] EXCEPT !.lines = state.lines \o @]
         = [buffer |-> g[1].buffer, lines |-> state.lines \o g[1].lines]
  <2>. HIDE DEF g
  <2>. QED BY <1>16, LinesBefore
<1>. QED BY <1>1, <1>2, <1>14, <1>15, <1>17 DEF s

-----------------------------------------------------------------------------
(* A stream in chunks.                                                     *)

Byte == {"x", "space", "newline", "lead", "trail"}
Glyph == Char \cup {"bad"}

\* Whether a byte is the first of a whole character, or the second.
Opens(bytes, cuts, j) ==
    /\ j \in 1..Len(bytes) /\ j + 1 \in 1..Len(bytes) /\ j \notin cuts
    /\ bytes[j] = "lead" /\ bytes[j + 1] = "trail"

\* The characters that a byte of a stream becomes.
Got(bytes, cuts, j) ==
    IF Opens(bytes, cuts, j) THEN <<"wide">>
    ELSE IF Opens(bytes, cuts, j - 1) THEN <<>>
    ELSE IF bytes[j] \in {"lead", "trail"} THEN <<"bad">> ELSE <<bytes[j]>>

Gots(bytes, cuts, m) == [j \in 1..m |-> Got(bytes, cuts, j)]
UpTo(bytes, cuts, m) == FlattenSeq(Gots(bytes, cuts, m))

\* A byte becomes characters.
LEMMA GotIs ==
  ASSUME NEW bytes \in Seq(Byte), NEW cuts, NEW j \in 1..Len(bytes)
  PROVE  Got(bytes, cuts, j) \in Seq(Glyph)
<1>1. bytes[j] \in Byte
  OBVIOUS
<1>. DEFINE w == "wide"
            b == "bad"
            v == bytes[j]
<1>2. w \in Glyph /\ b \in Glyph
  BY DEF Glyph, Char
<1>3. CASE v \in {"lead", "trail"}
  <2>1. Got(bytes, cuts, j) \in {<<w>>, <<>>, <<b>>}
    BY <1>3 DEF Got
  <2>. HIDE DEF w, b
  <2>2. <<w>> \in Seq(Glyph) /\ <<b>> \in Seq(Glyph) /\ <<>> \in Seq(Glyph)
    BY <1>2
  <2>. QED BY <2>1, <2>2
<1>4. CASE v \notin {"lead", "trail"}
  <2>1. Got(bytes, cuts, j) \in {<<w>>, <<>>, <<v>>}
    BY <1>4 DEF Got
  <2>2. v \in Glyph
    BY <1>1, <1>4 DEF Byte, Glyph, Char
  <2>. HIDE DEF w, b, v
  <2>3. <<w>> \in Seq(Glyph) /\ <<v>> \in Seq(Glyph) /\ <<>> \in Seq(Glyph)
    BY <1>2, <2>2
  <2>. QED BY <2>1, <2>3
<1>. QED BY <1>3, <1>4

\* The characters of the first bytes of a stream.
LEMMA GotsAre ==
  ASSUME NEW bytes \in Seq(Byte), NEW cuts, NEW m \in 0..Len(bytes)
  PROVE  /\ Gots(bytes, cuts, m) \in Seq(Seq(Glyph))
         /\ Len(Gots(bytes, cuts, m)) = m
         /\ UpTo(bytes, cuts, m) \in Seq(Glyph)
         /\ UpTo(bytes, cuts, 0) = <<>>
<1>. DEFINE E == Seq(Glyph)
            s == Gots(bytes, cuts, m)
<1>1. \A j \in 1..m : Got(bytes, cuts, j) \in E
  BY GotIs
<1>2. m \in Nat
  OBVIOUS
<1>3. <<>> \in E
  OBVIOUS
<1>. HIDE DEF E
<1>4. s \in Seq(E) /\ Len(s) = m
  BY <1>1, <1>2 DEF Gots
<1>. HIDE DEF s
<1>5. FlattenSeq(s) \in Seq(Glyph)
  BY <1>3, <1>4, FlattenAppend DEF E
<1>6. FlattenSeq(Gots(bytes, cuts, 0)) = <<>>
  <2>. DEFINE z == Gots(bytes, cuts, 0)
  <2>1. z = <<>> /\ Len(z) = 0
    BY DEF Gots
  <2>. HIDE DEF z
  <2>2. FlattenSeq(z) = <<>>
    BY <2>1 DEF FlattenSeq
  <2>. QED BY <2>2 DEF z
<1>. QED BY <1>4, <1>5, <1>6 DEF s, E, UpTo

\* Decoding a chunk is decoding its bytes where no cut is.
LEMMA DecodedIs ==
  ASSUME NEW chunk, Len(chunk) \in Nat, NEW i \in 1..Len(chunk)
  PROVE  Decoded(chunk, i) = Got(chunk, {}, i)
<1>1. i + 1 \in Nat /\ i - 1 \in Nat /\ (i - 1) + 1 = i
  OBVIOUS
<1>2. "lead" # "trail"
  OBVIOUS
<1>3. CASE Opens(chunk, {}, i)
  <2>1. Got(chunk, {}, i) = <<"wide">>
    BY <1>3 DEF Got
  <2>2. /\ i \in 1..Len(chunk) /\ chunk[i] = "lead"
        /\ i + 1 \in 1..Len(chunk) /\ chunk[i + 1] = "trail"
        /\ chunk[i] # "trail"
    BY <1>2, <1>3 DEF Opens
  <2>3. {i, i + 1} \subseteq 1..Len(chunk)
    BY <2>2
  <2>4. ~({i - 1, (i - 1) + 1} \subseteq 1..Len(chunk)
             /\ chunk[i - 1] = "lead" /\ chunk[(i - 1) + 1] = "trail")
    BY <1>1, <2>2
  <2>5. Decoded(chunk, i) = <<"wide">>
    BY <2>2, <2>3, <2>4 DEF Decoded
  <2>. QED BY <2>1, <2>5
<1>4. CASE ~Opens(chunk, {}, i) /\ Opens(chunk, {}, i - 1)
  <2>1. Got(chunk, {}, i) = <<>>
    BY <1>4 DEF Got
  <2>2. /\ i - 1 \in 1..Len(chunk) /\ chunk[i - 1] = "lead"
        /\ i \in 1..Len(chunk) /\ chunk[i] = "trail"
        /\ chunk[i] # "lead"
    BY <1>1, <1>2, <1>4 DEF Opens
  <2>3. Decoded(chunk, i) = <<>>
    BY <1>1, <2>2 DEF Decoded
  <2>. QED BY <2>1, <2>3
<1>5. CASE ~Opens(chunk, {}, i) /\ ~Opens(chunk, {}, i - 1)
  BY <1>5, <1>1, <1>2 DEF Decoded, Got, Opens
<1>. QED BY <1>3, <1>4, <1>5

\* Between two cuts a stream is decoded as the chunk between them.
LEMMA ChunkIsGot ==
  ASSUME NEW bytes \in Seq(Byte), NEW cuts, NEW p \in Nat,
         NEW m \in Nat, p <= m, m <= Len(bytes),
         p \in cuts \cup {0}, m \in cuts \cup {Len(bytes)},
         \A j \in (p + 1)..(m - 1) : j \notin cuts,
         NEW k \in 1..(m - p)
  PROVE  Decoded(SubSeq(bytes, p + 1, m), k) = Got(bytes, cuts, p + k)
<1>. DEFINE c == SubSeq(bytes, p + 1, m)
            l == Len(bytes)
<1>1. l \in Nat /\ Len(c) = m - p /\ \A j \in 1..(m - p) : c[j] = bytes[p + j]
  OBVIOUS
<1>. HIDE DEF c, l
<1>2. Decoded(c, k) = Got(c, {}, k)
  BY <1>1, DecodedIs
<1>3. Opens(c, {}, k) <=> Opens(bytes, cuts, p + k)
  <2>1. CASE k = m - p
    <3>1. k + 1 \notin 1..Len(c)
      BY <1>1, <2>1
    <3>2. p + k = m /\ (m \in cuts \/ m + 1 \notin 1..Len(bytes))
      BY <1>1, <2>1 DEF l
    <3>. QED BY <3>1, <3>2 DEF Opens
  <2>2. CASE k # m - p
    <3>1. /\ k \in 1..(m - p) /\ k + 1 \in 1..(m - p)
          /\ p + k \in (p + 1)..(m - 1) /\ p + k \in 1..Len(bytes)
          /\ (p + k) + 1 \in 1..Len(bytes) /\ p + (k + 1) = (p + k) + 1
      BY <1>1, <2>2 DEF l
    <3>2. c[k] = bytes[p + k] /\ c[k + 1] = bytes[(p + k) + 1]
      <4>1. c[k] = bytes[p + k]
        BY <1>1
      <4>2. c[k + 1] = bytes[p + (k + 1)]
        BY <1>1, <3>1
      <4>. QED BY <3>1, <4>1, <4>2
    <3>. QED BY <1>1, <3>1, <3>2 DEF Opens
  <2>. QED BY <2>1, <2>2
<1>4. Opens(c, {}, k - 1) <=> Opens(bytes, cuts, (p + k) - 1)
  <2>1. CASE k = 1
    <3>1. k - 1 = 0 /\ 0 \notin 1..Len(c) /\ (p + k) - 1 = p
      BY <2>1
    <3>2. p \in cuts \/ p \notin 1..Len(bytes)
      BY <1>1
    <3>. QED BY <3>1, <3>2 DEF Opens
  <2>2. CASE k # 1
    <3>1. /\ k - 1 \in 1..(m - p) /\ (k - 1) + 1 \in 1..(m - p)
          /\ (k - 1) + 1 = k /\ ((p + k) - 1) + 1 = p + k
          /\ (p + k) - 1 \in (p + 1)..(m - 1) /\ (p + k) - 1 \in 1..Len(bytes)
          /\ p + k \in 1..Len(bytes) /\ p + (k - 1) = (p + k) - 1
      BY <1>1, <2>2 DEF l
    <3>2. c[k - 1] = bytes[(p + k) - 1] /\ c[k] = bytes[p + k]
      BY <1>1, <3>1
    <3>. QED BY <1>1, <3>1, <3>2 DEF Opens
  <2>. QED BY <2>1, <2>2
<1>5. c[k] = bytes[p + k]
  BY <1>1
<1>6. Got(c, {}, k) = Got(bytes, cuts, p + k)
  BY <1>3, <1>4, <1>5 DEF Got
<1>. QED BY <1>2, <1>6 DEF c

\* Flattening one list of parts after another one.
LEMMA FlattenConcat ==
  ASSUME NEW C, NEW a \in Seq(Seq(C)), NEW b \in Seq(Seq(C))
  PROVE  /\ FlattenSeq(a \o b) = FlattenSeq(a) \o FlattenSeq(b)
         /\ FlattenSeq(a) \in Seq(C)
<1>. DEFINE D == Seq(C)
            fa == FlattenSeq(a)
            P == {s \in Seq(D) : FlattenSeq(a \o s) = fa \o FlattenSeq(s)}
<1>0. <<>> \in D /\ a \in Seq(D)
  OBVIOUS
<1>1. fa \in Seq(C)
  BY <1>0, FlattenAppend
<1>. HIDE DEF fa
<1>2. <<>> \in P
  <2>1. FlattenSeq(<<>>) = <<>>
    BY DEF FlattenSeq
  <2>2. a \o <<>> = a /\ fa \o <<>> = fa /\ <<>> \in Seq(D)
    <3>. HIDE DEF D
    <3>. QED BY <1>0, <1>1
  <2>. QED BY <2>1, <2>2 DEF fa
<1>3. ASSUME NEW s \in Seq(D), NEW x \in D, s \in P PROVE Append(s, x) \in P
  <2>1. /\ a \o Append(s, x) = Append(a \o s, x) /\ a \o s \in Seq(D)
        /\ Append(s, x) \in Seq(D)
    <3>. HIDE DEF D, P
    <3>. QED BY <1>0
  <2>2. FlattenSeq(Append(a \o s, x)) = FlattenSeq(a \o s) \o x
    BY <2>1, FlattenAppend
  <2>3. FlattenSeq(Append(s, x)) = FlattenSeq(s) \o x
        /\ FlattenSeq(s) \in Seq(C)
    BY FlattenAppend
  <2>4. (fa \o FlattenSeq(s)) \o x = fa \o (FlattenSeq(s) \o x)
    <3>. DEFINE y == FlattenSeq(s)
    <3>1. fa \in Seq(C) /\ y \in Seq(C) /\ x \in Seq(C)
      BY <1>1, <2>3
    <3>. HIDE DEF y, D
    <3>2. (fa \o y) \o x = fa \o (y \o x)
      BY <3>1, InAnyOrder
    <3>. QED BY <3>2 DEF y
  <2>. QED BY <1>3, <2>1, <2>2, <2>3, <2>4
<1>4. Seq(D) \subseteq P
  <2>. HIDE DEF P, D
  <2>. QED BY <1>2, <1>3, AppendInduction
<1>. QED BY <1>1, <1>4 DEF fa

\* The cut before a place.
LEMMA LastCutIs ==
  ASSUME NEW cuts, cuts \subseteq Nat, NEW i \in Nat \ {0}
  PROVE  LET m == LastCut(cuts, i)
         IN  /\ m \in 0..(i - 1) /\ m \in cuts \cup {0}
             /\ \A j \in (m + 1)..(i - 1) : j \notin cuts
<1>. DEFINE S == {0} \cup {m \in cuts : m < i}
            m == LastCut(cuts, i)
<1>1. S \subseteq 0..i /\ S # {}
  <2>1. \A k \in S : k \in 0..i
    OBVIOUS
  <2>2. 0 \in S
    OBVIOUS
  <2>. QED BY <2>1, <2>2
<1>2. \E x \in S : \A y \in S : y <= x
  <2>. HIDE DEF S
  <2>. QED BY <1>1, Greatest
<1>3. \E x \in S : \A y \in S : x >= y
  BY <1>1, <1>2
<1>4. m \in S /\ \A y \in S : m >= y
  BY <1>3 DEF LastCut, Max
<1>. HIDE DEF m
<1>5. \A j \in (m + 1)..(i - 1) : j \notin cuts
  BY <1>1, <1>4
<1>. QED BY <1>1, <1>4, <1>5 DEF m

\* What is decoded up to a cut, and then the next chunk.
LEMMA UpToGrows ==
  ASSUME NEW bytes \in Seq(Byte), NEW cuts, NEW p \in Nat,
         NEW m \in Nat, p <= m, m <= Len(bytes),
         p \in cuts \cup {0}, m \in cuts \cup {Len(bytes)},
         \A j \in (p + 1)..(m - 1) : j \notin cuts
  PROVE  UpTo(bytes, cuts, m)
           = UpTo(bytes, cuts, p) \o Decode(SubSeq(bytes, p + 1, m))
<1>. DEFINE E == Seq(Glyph)
            c == SubSeq(bytes, p + 1, m)
            a == Gots(bytes, cuts, p)
            b == [k \in 1..Len(c) |-> Decoded(c, k)]
            w == Gots(bytes, cuts, m)
<1>1. /\ p \in 0..Len(bytes) /\ m \in 0..Len(bytes)
      /\ Len(c) = m - p /\ m - p \in Nat
  OBVIOUS
<1>2. /\ a \in Seq(E) /\ Len(a) = p /\ w \in Seq(E) /\ Len(w) = m
  BY <1>1, GotsAre
<1>3. ASSUME NEW k \in 1..(m - p) PROVE b[k] = w[p + k] /\ w[p + k] \in E
  <2>1. p + k \in 1..m /\ p + k \in 1..Len(bytes) /\ k \in 1..Len(c)
    BY <1>1
  <2>2. w[p + k] = Got(bytes, cuts, p + k)
    BY <2>1 DEF Gots
  <2>3. w[p + k] \in E
    BY <2>1, <2>2, GotIs
  <2>4. b[k] = Decoded(c, k)
    BY <2>1
  <2>5. Decoded(c, k) = Got(bytes, cuts, p + k)
    BY ChunkIsGot
  <2>. QED BY <2>2, <2>3, <2>4, <2>5
<1>4. \A k \in 1..p : a[k] = w[k]
  BY <1>1 DEF Gots
<1>5. b = [k \in 1..(m - p) |-> b[k]]
  BY <1>1
<1>. HIDE DEF E, a, b, w, c
<1>6. b \in Seq(E) /\ Len(b) = m - p
  BY <1>1, <1>3, <1>5
<1>7. w = a \o b
  <2>. DEFINE ab == a \o b
  <2>1. /\ ab \in Seq(E) /\ Len(ab) = m
        /\ \A k \in 1..m : ab[k] = IF k <= p THEN a[k] ELSE b[k - p]
    BY <1>1, <1>2, <1>6
  <2>. HIDE DEF ab
  <2>2. ASSUME NEW k \in 1..m PROVE w[k] = ab[k]
    <3>1. CASE k <= p
      BY <1>1, <1>4, <2>1, <3>1
    <3>2. CASE ~(k <= p)
      <4>1. k - p \in 1..(m - p) /\ p + (k - p) = k
        BY <1>1, <3>2
      <4>2. b[k - p] = w[p + (k - p)]
        BY <1>3, <4>1
      <4>. QED BY <2>1, <3>2, <4>1, <4>2
    <3>. QED BY <3>1, <3>2
  <2>3. w = ab
    BY <1>2, <2>1, <2>2, SeqEqual
  <2>. QED BY <2>3 DEF ab
<1>8. FlattenSeq(a \o b) = FlattenSeq(a) \o FlattenSeq(b)
  BY <1>2, <1>6, FlattenConcat DEF E
<1>. QED BY <1>7, <1>8 DEF UpTo, Decode, a, b, c, w

\* A chunk is decoded as a stream without cuts, and becomes characters.
LEMMA DecodeIs ==
  ASSUME NEW chunk \in Seq(Byte)
  PROVE  /\ Decode(chunk) \in Seq(Glyph)
         /\ Decode(chunk) = UpTo(chunk, {}, Len(chunk))
<1>. DEFINE l == Len(chunk)
<1>1. l \in Nat /\ l \in 0..l
  OBVIOUS
<1>2. \A k \in 1..l : Decoded(chunk, k) = Got(chunk, {}, k)
  BY <1>1, DecodedIs
<1>3. [k \in 1..l |-> Decoded(chunk, k)] = [k \in 1..l |-> Got(chunk, {}, k)]
  BY <1>2
<1>4. Decode(chunk) = UpTo(chunk, {}, l)
  BY <1>3 DEF Decode, UpTo, Gots
<1>5. UpTo(chunk, {}, l) \in Seq(Glyph)
  BY <1>1, GotsAre
<1>. QED BY <1>4, <1>5

\* The state of a parser at a place of a stream.
StateAt(bytes, cuts, i) ==
    IF i = 0 THEN NoInput
    ELSE LET m == LastCut(cuts, i)
         IN  Fed(Glyph, NoInput, UpTo(bytes, cuts, m)
                                   \o Decode(SubSeq(bytes, m + 1, i)))

\* Before the first chunk.
LEMMA NoInputIs ==
  ASSUME NEW D
  PROVE  NoInput \in Between(D) /\ NoInput \in ParserState(D)
<1>1. Len(<<>>) = 0 /\ <<>> \in Seq(D) /\ <<>> \in Seq(Seq(D))
  OBVIOUS
<1>. QED BY <1>1 DEF NoInput, Between, ParserState

\* At a cut all that was decoded has been fed.
LEMMA StateAtCut ==
  ASSUME NEW bytes \in Seq(Byte), NEW cuts, cuts \subseteq Nat,
         NEW m \in 0..Len(bytes), m \in cuts \cup {0, Len(bytes)}
  PROVE  StateAt(bytes, cuts, m) = Fed(Glyph, NoInput, UpTo(bytes, cuts, m))
<1>1. CASE m = 0
  <2>1. UpTo(bytes, cuts, 0) = <<>>
    BY <1>1, GotsAre
  <2>2. Fed(Glyph, NoInput, <<>>) = NoInput
    BY NoInputIs, FedIs
  <2>. QED BY <1>1, <2>1, <2>2 DEF StateAt
<1>2. CASE m # 0
  <2>. DEFINE p == LastCut(cuts, m)
  <2>1. /\ p \in 0..(m - 1) /\ p \in cuts \cup {0}
        /\ \A j \in (p + 1)..(m - 1) : j \notin cuts
    <3>1. m \in Nat \ {0}
      BY <1>2
    <3>. QED BY <3>1, LastCutIs
  <2>. HIDE DEF p
  <2>2. p \in Nat /\ m \in Nat /\ p <= m /\ m <= Len(bytes)
    BY <1>2, <2>1
  <2>3. m \in cuts \cup {Len(bytes)}
    BY <1>2
  <2>4. UpTo(bytes, cuts, m)
          = UpTo(bytes, cuts, p) \o Decode(SubSeq(bytes, p + 1, m))
    BY <2>1, <2>2, <2>3, UpToGrows
  <2>. QED BY <1>2, <2>4 DEF StateAt, p
<1>. QED BY <1>1, <1>2

\* The next chunk is fed to the state at the last cut.
LEMMA StateIs ==
  ASSUME NEW bytes \in Seq(Byte), NEW cuts, cuts \subseteq Nat,
         NEW i \in 1..Len(bytes)
  PROVE  LET m == LastCut(cuts, i)
             s == Decode(SubSeq(bytes, m + 1, i))
         IN  /\ m \in 0..(i - 1) /\ StateAt(bytes, cuts, m) \in Between(Glyph)
             /\ s \in Seq(Glyph)
             /\ StateAt(bytes, cuts, i)
                  = Fed(Glyph, StateAt(bytes, cuts, m), s)
<1>. DEFINE m == LastCut(cuts, i)
            c == SubSeq(bytes, m + 1, i)
            s == Decode(c)
            w == UpTo(bytes, cuts, m)
            st == StateAt(bytes, cuts, m)
<1>1. m \in 0..(i - 1) /\ m \in cuts \cup {0}
  <2>1. i \in Nat \ {0}
    OBVIOUS
  <2>. QED BY <2>1, LastCutIs
<1>. HIDE DEF m
<1>2. c \in Seq(Byte) /\ m \in 0..Len(bytes)
  BY <1>1
<1>3. s \in Seq(Glyph)
  BY <1>2, DecodeIs
<1>4. w \in Seq(Glyph)
  BY <1>2, GotsAre
<1>5. st = Fed(Glyph, NoInput, w)
  BY <1>1, <1>2, StateAtCut
<1>6. st \in Between(Glyph)
  BY <1>4, <1>5, NoInputIs, BufferIsFed
<1>. HIDE DEF w, s, st
<1>7. Fed(Glyph, NoInput, w \o s) = Fed(Glyph, st, s)
  BY <1>3, <1>4, <1>5, NoInputIs, FedConcat
<1>8. StateAt(bytes, cuts, i) = Fed(Glyph, NoInput, w \o s)
  BY DEF StateAt, w, s, m
<1>. QED BY <1>1, <1>3, <1>6, <1>7, <1>8 DEF m, s, st

\* Two functions agree at a place if they do at the cut before it.
FollowCuts(g, f, cuts, l) ==
    /\ g[0] = f[0]
    /\ \A i \in 1..l :
          g[LastCut(cuts, i)] = f[LastCut(cuts, i)] => g[i] = f[i]

\* Two computations of the states from cut to cut come to the same.
LEMMA FromCutToCut ==
  ASSUME NEW l \in Nat, NEW cuts, cuts \subseteq Nat, NEW f, NEW g,
         FollowCuts(g, f, cuts, l)
  PROVE  g[l] = f[l]
<1>. DEFINE T == {n \in Nat : \A i \in 0..l : i <= n => g[i] = f[i]}
<1>1. 0 \in T
  BY DEF FollowCuts
<1>2. ASSUME NEW n \in Nat, n \in T PROVE n + 1 \in T
  <2>. SUFFICES ASSUME NEW i \in 0..l, i = n + 1 PROVE g[i] = f[i]
    BY <1>2
  <2>1. i \in Nat \ {0} /\ i \in 1..l
    OBVIOUS
  <2>2. LastCut(cuts, i) \in 0..(i - 1)
    BY <2>1, LastCutIs
  <2>3. LastCut(cuts, i) \in 0..l /\ LastCut(cuts, i) <= n
    BY <2>1, <2>2
  <2>. QED BY <1>2, <2>1, <2>3 DEF FollowCuts
<1>3. l \in T
  <2>. HIDE DEF T
  <2>. QED BY <1>1, <1>2, Induction
<1>. QED BY <1>3

\* Reading a stream chunk by chunk is feeding what its bytes become.
LEMMA SocketReads ==
  ASSUME NEW bytes \in Seq(Byte), NEW cuts, cuts \subseteq Nat
  PROVE  SocketLines(bytes, cuts)
            = Fed(Glyph, NoInput, UpTo(bytes, cuts, Len(bytes))).lines
<1>. DEFINE l == Len(bytes)
            Body(h, i) ==
              IF i = 0 THEN NoInput
              ELSE SocketChunk(h[LastCut(cuts, i)],
                               SubSeq(bytes, LastCut(cuts, i) + 1, i))
            f == [i \in 0..l |-> StateAt(bytes, cuts, i)]
            g == CHOOSE h : h = [i \in 0..l |-> Body(h, i)]
<1>1. SocketLines(bytes, cuts) = g[l].lines
  BY DEF SocketLines
<1>2. l \in Nat
  OBVIOUS
<1>3. ASSUME NEW i \in 1..l
      PROVE  /\ LastCut(cuts, i) \in 0..l
             /\ f[i] = SocketChunk(f[LastCut(cuts, i)],
                                   SubSeq(bytes, LastCut(cuts, i) + 1, i))
  <2>. DEFINE m == LastCut(cuts, i)
              c == SubSeq(bytes, m + 1, i)
              st == StateAt(bytes, cuts, m)
  <2>1. /\ m \in 0..(i - 1) /\ st \in Between(Glyph)
        /\ Decode(c) \in Seq(Glyph)
        /\ StateAt(bytes, cuts, i) = Fed(Glyph, st, Decode(c))
    BY StateIs
  <2>. HIDE DEF m
  <2>2. m \in 0..l /\ i \in 0..l
    BY <1>2, <2>1
  <2>. HIDE DEF c
  <2>3. SocketChunk(st, c) = Fed(Glyph, st, Decode(c))
    BY <2>1, SocketIsFed
  <2>4. f[m] = st /\ f[i] = StateAt(bytes, cuts, i)
    BY <2>2
  <2>. QED BY <2>1, <2>2, <2>3, <2>4 DEF m, c
<1>4. f[0] = NoInput
  <2>1. 0 \in 0..l
    BY <1>2
  <2>. QED BY <2>1 DEF StateAt
<1>5. f = [i \in 0..l |-> f[i]]
  OBVIOUS
<1>. HIDE DEF l
<1>6. f[l] = Fed(Glyph, NoInput, UpTo(bytes, cuts, l))
  <2>1. l \in 0..Len(bytes) /\ l \in cuts \cup {0, Len(bytes)} /\ l \in 0..l
    BY <1>2 DEF l
  <2>. QED BY <2>1, StateAtCut
<1>. HIDE DEF f
<1>7. ASSUME NEW i \in 0..l PROVE f[i] = Body(f, i)
  <2>1. CASE i = 0
    BY <1>4, <2>1
  <2>2. CASE i # 0
    <3>1. i \in 1..l
      BY <1>2, <2>2
    <3>. QED BY <1>3, <2>2, <3>1
  <2>. QED BY <2>1, <2>2
<1>. HIDE DEF Body
<1>8. f = [i \in 0..l |-> Body(f, i)]
  BY <1>5, <1>7
<1>9. g = [i \in 0..l |-> Body(g, i)]
  BY <1>8
<1>. HIDE DEF g
<1>10. \A i \in 0..l : g[i] = Body(g, i)
  BY <1>9
<1>11. g[0] = f[0]
  <2>1. 0 \in 0..l
    BY <1>2
  <2>. QED BY <1>4, <1>10, <2>1 DEF Body
<1>12. ASSUME NEW i \in 1..l, g[LastCut(cuts, i)] = f[LastCut(cuts, i)]
       PROVE  g[i] = f[i]
  <2>1. i \in 0..l /\ i # 0
    BY <1>2
  <2>. QED BY <1>3, <1>10, <1>12, <2>1 DEF Body
<1>13. g[l] = f[l]
  <2>1. FollowCuts(g, f, cuts, l)
    BY <1>11, <1>12 DEF FollowCuts
  <2>. QED BY <1>2, <2>1, FromCutToCut
<1>. QED BY <1>1, <1>6, <1>13 DEF l

\* The same of the other parser.
LEMMA McpReads ==
  ASSUME NEW bytes \in Seq(Byte), NEW cuts, cuts \subseteq Nat
  PROVE  McpLines(bytes, cuts)
            = Fed(Glyph, NoInput, UpTo(bytes, cuts, Len(bytes))).lines
<1>. DEFINE l == Len(bytes)
            Body(h, i) ==
              IF i = 0 THEN NoInput
              ELSE McpChunk(h[LastCut(cuts, i)],
                            SubSeq(bytes, LastCut(cuts, i) + 1, i))
            f == [i \in 0..l |-> StateAt(bytes, cuts, i)]
            g == CHOOSE h : h = [i \in 0..l |-> Body(h, i)]
<1>1. McpLines(bytes, cuts) = g[l].lines
  BY DEF McpLines
<1>2. l \in Nat
  OBVIOUS
<1>3. ASSUME NEW i \in 1..l
      PROVE  /\ LastCut(cuts, i) \in 0..l
             /\ f[i] = McpChunk(f[LastCut(cuts, i)],
                                SubSeq(bytes, LastCut(cuts, i) + 1, i))
  <2>. DEFINE m == LastCut(cuts, i)
              c == SubSeq(bytes, m + 1, i)
              st == StateAt(bytes, cuts, m)
  <2>1. /\ m \in 0..(i - 1) /\ st \in Between(Glyph)
        /\ Decode(c) \in Seq(Glyph)
        /\ StateAt(bytes, cuts, i) = Fed(Glyph, st, Decode(c))
    BY StateIs
  <2>. HIDE DEF m
  <2>2. m \in 0..l /\ i \in 0..l
    BY <1>2, <2>1
  <2>. HIDE DEF c
  <2>3. McpChunk(st, c) = Fed(Glyph, st, Decode(c))
    BY <2>1, McpIsFed
  <2>4. f[m] = st /\ f[i] = StateAt(bytes, cuts, i)
    BY <2>2
  <2>. QED BY <2>1, <2>2, <2>3, <2>4 DEF m, c
<1>4. f[0] = NoInput
  <2>1. 0 \in 0..l
    BY <1>2
  <2>. QED BY <2>1 DEF StateAt
<1>5. f = [i \in 0..l |-> f[i]]
  OBVIOUS
<1>. HIDE DEF l
<1>6. f[l] = Fed(Glyph, NoInput, UpTo(bytes, cuts, l))
  <2>1. l \in 0..Len(bytes) /\ l \in cuts \cup {0, Len(bytes)} /\ l \in 0..l
    BY <1>2 DEF l
  <2>. QED BY <2>1, StateAtCut
<1>. HIDE DEF f
<1>7. ASSUME NEW i \in 0..l PROVE f[i] = Body(f, i)
  <2>1. CASE i = 0
    BY <1>4, <2>1
  <2>2. CASE i # 0
    <3>1. i \in 1..l
      BY <1>2, <2>2
    <3>. QED BY <1>3, <2>2, <3>1
  <2>. QED BY <2>1, <2>2
<1>. HIDE DEF Body
<1>8. f = [i \in 0..l |-> Body(f, i)]
  BY <1>5, <1>7
<1>9. g = [i \in 0..l |-> Body(g, i)]
  BY <1>8
<1>. HIDE DEF g
<1>10. \A i \in 0..l : g[i] = Body(g, i)
  BY <1>9
<1>11. g[0] = f[0]
  <2>1. 0 \in 0..l
    BY <1>2
  <2>. QED BY <1>4, <1>10, <2>1 DEF Body
<1>12. ASSUME NEW i \in 1..l, g[LastCut(cuts, i)] = f[LastCut(cuts, i)]
       PROVE  g[i] = f[i]
  <2>1. i \in 0..l /\ i # 0
    BY <1>2
  <2>. QED BY <1>3, <1>10, <1>12, <2>1 DEF Body
<1>13. g[l] = f[l]
  <2>1. FollowCuts(g, f, cuts, l)
    BY <1>11, <1>12 DEF FollowCuts
  <2>. QED BY <1>2, <2>1, FromCutToCut
<1>. QED BY <1>1, <1>6, <1>13 DEF l

-----------------------------------------------------------------------------
(* The text that was sent, and what is decoded of it.                      *)

LEAD == "lead"
TRAIL == "trail"
WIDE == "wide"
BAD == "bad"

\* The names of the characters and bytes differ.
LEMMA NamesDiffer ==
  /\ NL \in Char /\ SP \in Char /\ WIDE \in Char /\ BAD \notin Char
  /\ {LEAD, TRAIL} \cap Char = {} /\ LEAD # TRAIL /\ NL # SP
  /\ NL \notin {WIDE, BAD} /\ SP \notin {WIDE, BAD}
  /\ Char \ {WIDE} \subseteq Byte /\ {LEAD, TRAIL} \subseteq Byte
  /\ Char \subseteq Glyph /\ BAD \in Glyph
BY DEF NL, SP, WIDE, BAD, LEAD, TRAIL, Char, Byte, Glyph

\* The bytes of a character.
LEMMA BytesAre ==
  ASSUME NEW c \in Char
  PROVE  /\ c = WIDE => Bytes(c) = <<LEAD, TRAIL>>
         /\ c # WIDE => Bytes(c) = <<c>>
         /\ Bytes(c) \in Seq(Byte)
<1>1. CASE c = WIDE
  <2>1. Bytes(c) = <<LEAD, TRAIL>>
    BY <1>1 DEF Bytes, WIDE, LEAD, TRAIL
  <2>2. LEAD \in Byte /\ TRAIL \in Byte
    BY NamesDiffer
  <2>3. <<LEAD, TRAIL>> \in Seq(Byte)
    BY <2>2
  <2>. QED BY <1>1, <2>1, <2>3
<1>2. CASE c # WIDE
  <2>1. Bytes(c) = <<c>>
    BY <1>2 DEF Bytes, WIDE
  <2>2. c \in Byte
    BY <1>2, NamesDiffer
  <2>3. <<c>> \in Seq(Byte)
    BY <2>2
  <2>. QED BY <1>2, <2>1, <2>3
<1>. QED BY <1>1, <1>2

\* The bytes of a text.
LEMMA EncodeIs ==
  /\ Encode(<<>>) = <<>>
  /\ \A t \in Seq(Char) : Encode(t) \in Seq(Byte)
  /\ \A t \in Seq(Char) : \A c \in Char :
        Encode(Append(t, c)) = Encode(t) \o Bytes(c)
<1>. DEFINE V == [c \in Char |-> Bytes(c)]
<1>1. Maps(V, Char, Byte)
  BY BytesAre DEF Maps
<1>2. \A c \in Char : V[c] = Bytes(c)
  OBVIOUS
<1>3. ASSUME NEW t \in Seq(Char) PROVE Encode(t) = Mapped(V, t)
  <2>1. \A i \in 1..Len(t) : t[i] \in Char
    OBVIOUS
  <2>2. \A i \in 1..Len(t) : V[t[i]] = Bytes(t[i])
    BY <1>2, <2>1
  <2>. HIDE DEF V
  <2>3. [i \in 1..Len(t) |-> V[t[i]]] = [i \in 1..Len(t) |-> Bytes(t[i])]
    BY <2>2
  <2>. QED BY <2>3 DEF Encode, Mapped
<1>. HIDE DEF V
<1>4. /\ Mapped(V, <<>>) = <<>>
      /\ \A s \in Seq(Char) : Mapped(V, s) \in Seq(Byte)
      /\ \A s \in Seq(Char) : \A x \in Char :
            Mapped(V, Append(s, x)) = Mapped(V, s) \o V[x]
  BY <1>1, MappedIs
<1>5. <<>> \in Seq(Char)
      /\ \A s \in Seq(Char) : \A x \in Char : Append(s, x) \in Seq(Char)
  OBVIOUS
<1>. QED BY <1>2, <1>3, <1>4, <1>5

\* A text without characters that were cut.
LEMMA PlainIs ==
  ASSUME NEW D
  PROVE  /\ Plain(<<>>) = <<>>
         /\ \A t \in Seq(D) : Plain(t) \in Seq(D)
         /\ \A t \in Seq(D) : \A c \in D :
               Plain(Append(t, c)) =
                  IF c \in {WIDE, BAD} THEN Plain(t) ELSE Append(Plain(t), c)
<1>. DEFINE Part(c) == IF c \in {WIDE, BAD} THEN <<>> ELSE <<c>>
            V == [c \in D |-> Part(c)]
<1>1. \A c \in D : V[c] = Part(c) /\ Part(c) \in Seq(D)
  OBVIOUS
<1>2. Maps(V, D, D)
  BY <1>1 DEF Maps
<1>3. ASSUME NEW t \in Seq(D) PROVE Plain(t) = Mapped(V, t)
  <2>1. \A i \in 1..Len(t) : t[i] \in D
    OBVIOUS
  <2>2. \A i \in 1..Len(t) : V[t[i]] = Part(t[i])
    BY <1>1, <2>1
  <2>. HIDE DEF V
  <2>3. [i \in 1..Len(t) |-> V[t[i]]] = [i \in 1..Len(t) |-> Part(t[i])]
    BY <2>2
  <2>. QED BY <2>3 DEF Plain, Mapped, WIDE, BAD
<1>. HIDE DEF V
<1>4. /\ Mapped(V, <<>>) = <<>>
      /\ \A s \in Seq(D) : Mapped(V, s) \in Seq(D)
      /\ \A s \in Seq(D) : \A x \in D :
            Mapped(V, Append(s, x)) = Mapped(V, s) \o V[x]
  BY <1>2, MappedIs
<1>5. <<>> \in Seq(D)
      /\ \A s \in Seq(D) : \A x \in D : Append(s, x) \in Seq(D)
  OBVIOUS
<1>6. ASSUME NEW t \in Seq(D), NEW c \in D
      PROVE  Plain(Append(t, c)) =
                IF c \in {WIDE, BAD} THEN Plain(t) ELSE Append(Plain(t), c)
  <2>. DEFINE p == Plain(t)
  <2>1. Plain(Append(t, c)) = p \o Part(c) /\ p \in Seq(D)
    BY <1>1, <1>3, <1>4, <1>5
  <2>. HIDE DEF p
  <2>2. CASE c \in {WIDE, BAD}
    <3>1. p \o Part(c) = p
      BY <2>1, <2>2
    <3>. QED BY <2>1, <2>2, <3>1 DEF p
  <2>3. CASE c \notin {WIDE, BAD}
    <3>1. p \o Part(c) = Append(p, c)
      BY <2>1, <2>3
    <3>. QED BY <2>1, <2>3, <3>1 DEF p
  <2>. QED BY <2>2, <2>3
<1>. QED BY <1>3, <1>4, <1>5, <1>6

\* What is decoded of a whole stream.
Whole(bytes, cuts) == UpTo(bytes, cuts, Len(bytes))

\* What follows changes nothing that was decoded, unless it begins with the
\* second byte of a character.
LEMMA GotStays ==
  ASSUME NEW b \in Seq(Byte), NEW more \in Seq(Byte), NEW cuts,
         Len(more) > 0, more[1] # TRAIL
  PROVE  /\ Gots(b \o more, cuts, Len(b)) = Gots(b, cuts, Len(b))
         /\ ~Opens(b \o more, cuts, Len(b))
<1>. DEFINE l == Len(b)
            all == b \o more
<1>1. /\ l \in Nat /\ Len(all) \in Nat /\ Len(all) > l
      /\ \A j \in 1..l : all[j] = b[j]
      /\ all[l + 1] = more[1]
  OBVIOUS
<1>. HIDE DEF all
<1>2. ~Opens(all, cuts, l)
  BY <1>1 DEF Opens, TRAIL
<1>3. ASSUME NEW j \in 0..l PROVE Opens(all, cuts, j) <=> Opens(b, cuts, j)
  <2>1. CASE j = l
    <3>1. j + 1 \notin 1..Len(b)
      BY <1>1, <2>1
    <3>. QED BY <1>2, <2>1, <3>1 DEF Opens
  <2>2. CASE j # l
    <3>1. j + 1 \in 1..l /\ j + 1 \in 1..Len(all)
      BY <1>1, <2>2
    <3>2. j \in 1..l <=> j \in 1..Len(all)
      BY <1>1, <2>2
    <3>. QED BY <1>1, <3>1, <3>2 DEF Opens
  <2>. QED BY <2>1, <2>2
<1>4. ASSUME NEW j \in 1..l PROVE Got(all, cuts, j) = Got(b, cuts, j)
  <2>1. j \in 0..l /\ j - 1 \in 0..l /\ all[j] = b[j]
    BY <1>1
  <2>2. /\ Opens(all, cuts, j) <=> Opens(b, cuts, j)
        /\ Opens(all, cuts, j - 1) <=> Opens(b, cuts, j - 1)
    BY <1>3, <2>1
  <2>. QED BY <2>1, <2>2 DEF Got
<1>. QED BY <1>2, <1>4 DEF Gots, all

\* One more byte is decoded.
LEMMA UpToNext ==
  ASSUME NEW bytes \in Seq(Byte), NEW cuts, NEW m \in Nat, m < Len(bytes)
  PROVE  /\ UpTo(bytes, cuts, m + 1)
              = UpTo(bytes, cuts, m) \o Got(bytes, cuts, m + 1)
         /\ UpTo(bytes, cuts, m) \in Seq(Glyph)
<1>. DEFINE E == Seq(Glyph)
            x == Got(bytes, cuts, m + 1)
            s == Gots(bytes, cuts, m)
            u == Gots(bytes, cuts, m + 1)
            v == Append(s, x)
<1>1. m \in 0..Len(bytes) /\ m + 1 \in 0..Len(bytes) /\ m + 1 \in 1..Len(bytes)
  OBVIOUS
<1>2. s \in Seq(E) /\ Len(s) = m /\ u \in Seq(E) /\ Len(u) = m + 1 /\ x \in E
  BY <1>1, GotsAre, GotIs
<1>3. \A j \in 1..m : u[j] = s[j]
  BY DEF Gots
<1>4. u[m + 1] = x
  BY DEF Gots
<1>5. FlattenSeq(v) = FlattenSeq(s) \o x /\ FlattenSeq(s) \in Seq(Glyph)
  BY <1>2, FlattenAppend
<1>. HIDE DEF E, s, x, u
<1>6. /\ v \in Seq(E) /\ Len(v) = m + 1 /\ v[m + 1] = x
      /\ \A j \in 1..m : v[j] = s[j]
  BY <1>2
<1>. HIDE DEF v
<1>7. u = v
  <2>1. \A j \in 1..(m + 1) : j \in 1..m \/ j = m + 1
    OBVIOUS
  <2>2. \A j \in 1..(m + 1) : u[j] = v[j]
    BY <1>3, <1>4, <1>6, <2>1
  <2>. QED BY <1>2, <1>6, <2>2, SeqEqual
<1>. QED BY <1>5, <1>7 DEF UpTo, u, v, s, x

\* A character that is a byte.
LEMMA ByteDecoded ==
  ASSUME NEW b \in Seq(Byte), NEW cuts, NEW c \in Char, c # WIDE
  PROVE  Whole(b \o <<c>>, cuts) = Append(Whole(b, cuts), c)
<1>. DEFINE l == Len(b)
            more == <<c>>
            all == b \o more
            w == UpTo(b, cuts, l)
<1>1. /\ c \in Byte /\ c # TRAIL /\ c # LEAD /\ c \in Glyph
  BY NamesDiffer
<1>2. more \in Seq(Byte) /\ Len(more) > 0 /\ more[1] # TRAIL
  BY <1>1
<1>3. /\ l \in Nat /\ all \in Seq(Byte) /\ Len(all) = l + 1 /\ all[l + 1] = c
  BY <1>1
<1>. HIDE DEF more
<1>4. Gots(all, cuts, l) = Gots(b, cuts, l) /\ ~Opens(all, cuts, l)
  BY <1>2, GotStays
<1>. HIDE DEF all
<1>5. Got(all, cuts, l + 1) = <<c>>
  <2>1. ~Opens(all, cuts, l + 1) /\ (l + 1) - 1 = l
    BY <1>3 DEF Opens
  <2>2. all[l + 1] \notin {LEAD, TRAIL}
    BY <1>1, <1>3
  <2>. QED BY <1>3, <1>4, <2>1, <2>2 DEF Got, LEAD, TRAIL
<1>6. UpTo(all, cuts, l + 1) = w \o <<c>> /\ w \in Seq(Glyph)
  <2>1. UpTo(all, cuts, l) = w
    BY <1>4 DEF UpTo
  <2>2. UpTo(all, cuts, l + 1)
          = UpTo(all, cuts, l) \o Got(all, cuts, l + 1)
        /\ UpTo(all, cuts, l) \in Seq(Glyph)
    BY <1>3, UpToNext
  <2>. QED BY <1>5, <2>1, <2>2
<1>7. w \o <<c>> = Append(w, c)
  <2>. HIDE DEF w
  <2>. QED BY <1>1, <1>6
<1>. QED BY <1>3, <1>6, <1>7 DEF Whole, all, more

\* A character of two bytes, which may be cut.
LEMMA WideDecoded ==
  ASSUME NEW b \in Seq(Byte), NEW cuts
  PROVE  Whole(b \o <<LEAD, TRAIL>>, cuts) =
            IF Len(b) + 1 \in cuts
            THEN Append(Append(Whole(b, cuts), BAD), BAD)
            ELSE Append(Whole(b, cuts), WIDE)
<1>. DEFINE l == Len(b)
            more == <<LEAD, TRAIL>>
            all == b \o more
            w == UpTo(b, cuts, l)
            x == Got(all, cuts, l + 1)
            y == Got(all, cuts, l + 2)
<1>1. /\ LEAD \in Byte /\ TRAIL \in Byte /\ LEAD # TRAIL
      /\ WIDE \in Glyph /\ BAD \in Glyph
  BY NamesDiffer
<1>2. more \in Seq(Byte) /\ Len(more) > 0 /\ more[1] # TRAIL
  BY <1>1
<1>3. /\ l \in Nat /\ all \in Seq(Byte) /\ Len(all) = l + 2
      /\ all[l + 1] = LEAD /\ all[l + 2] = TRAIL
  BY <1>1
<1>. HIDE DEF more
<1>4. Gots(all, cuts, l) = Gots(b, cuts, l) /\ ~Opens(all, cuts, l)
  BY <1>2, GotStays
<1>. HIDE DEF all
<1>5. /\ (l + 1) - 1 = l /\ (l + 2) - 1 = l + 1 /\ (l + 1) + 1 = l + 2
      /\ l + 1 \in 1..Len(all) /\ l + 2 \in 1..Len(all)
  BY <1>3
<1>6. Opens(all, cuts, l + 1) <=> l + 1 \notin cuts
  BY <1>3, <1>5 DEF Opens, LEAD, TRAIL
<1>7. ~Opens(all, cuts, l + 2)
  BY <1>3 DEF Opens
<1>8. x = IF l + 1 \in cuts THEN <<BAD>> ELSE <<WIDE>>
  <2>1. all[l + 1] \in {"lead", "trail"}
    BY <1>3 DEF LEAD
  <2>. QED BY <1>4, <1>5, <1>6, <2>1 DEF Got, BAD, WIDE
<1>9. y = IF l + 1 \in cuts THEN <<BAD>> ELSE <<>>
  <2>1. all[l + 2] \in {"lead", "trail"}
    BY <1>3 DEF TRAIL
  <2>. QED BY <1>5, <1>6, <1>7, <2>1 DEF Got, BAD
<1>. HIDE DEF x, y
<1>10. /\ UpTo(all, cuts, l + 1) = w \o x /\ w \in Seq(Glyph)
       /\ UpTo(all, cuts, l + 2) = UpTo(all, cuts, l + 1) \o y
  <2>1. UpTo(all, cuts, l) = w
    BY <1>4 DEF UpTo
  <2>2. UpTo(all, cuts, l + 1) = UpTo(all, cuts, l) \o x
        /\ UpTo(all, cuts, l) \in Seq(Glyph)
    BY <1>3, UpToNext DEF x
  <2>3. UpTo(all, cuts, (l + 1) + 1)
          = UpTo(all, cuts, l + 1) \o Got(all, cuts, (l + 1) + 1)
    <3>1. l + 1 \in Nat /\ l + 1 < Len(all)
      BY <1>3
    <3>. QED BY <1>3, <3>1, UpToNext
  <2>. QED BY <1>5, <2>1, <2>2, <2>3 DEF y
<1>. HIDE DEF w
<1>11. (w \o x) \o y = IF l + 1 \in cuts THEN Append(Append(w, BAD), BAD)
                       ELSE Append(w, WIDE)
  <2>1. CASE l + 1 \in cuts
    <3>1. (w \o <<BAD>>) \o <<BAD>> = Append(Append(w, BAD), BAD)
      BY <1>1, <1>10
    <3>. QED BY <1>8, <1>9, <2>1, <3>1
  <2>2. CASE l + 1 \notin cuts
    <3>1. (w \o <<WIDE>>) \o <<>> = Append(w, WIDE)
      BY <1>1, <1>10
    <3>. QED BY <1>8, <1>9, <2>2, <3>1
  <2>. QED BY <2>1, <2>2
<1>12. Whole(b \o <<LEAD, TRAIL>>, cuts) = (w \o x) \o y
  BY <1>3, <1>10 DEF Whole, all, more
<1>. QED BY <1>11, <1>12 DEF Whole, w

\* The places of a line that are not spaces; the first and the last of them.
SolidOf(line) == {i \in 1..Len(line) : line[i] # SP}
LeastOf(S) == CHOOSE i \in S : \A j \in S : i <= j
LastOf(S) == CHOOSE i \in S : \A j \in S : j <= i

\* A line without the spaces before it.
Left(line) ==
    IF SolidOf(line) = {} THEN <<>>
    ELSE SubSeq(line, LeastOf(SolidOf(line)), Len(line))

\* The first and the last place of a line that are not spaces.
LEMMA EndsAre ==
  ASSUME NEW n \in Nat, NEW S, S \subseteq 1..n, S # {}
  PROVE  /\ LeastOf(S) \in S /\ \A j \in S : LeastOf(S) <= j
         /\ LastOf(S) \in S /\ \A j \in S : j <= LastOf(S)
<1>1. S \subseteq Nat /\ S \subseteq 0..n
  OBVIOUS
<1>2. \E i \in S : \A j \in S : i <= j
  BY <1>1, Least
<1>3. \E i \in S : \A j \in S : j <= i
  BY <1>1, Greatest
<1>4. LeastOf(S) \in S /\ \A j \in S : LeastOf(S) <= j
  BY <1>2 DEF LeastOf
<1>5. LastOf(S) \in S /\ \A j \in S : j <= LastOf(S)
  BY <1>3 DEF LastOf
<1>. QED BY <1>4, <1>5

\* What a line has from a place on, with one more character.
Grown(line, c, f) ==
    SubSeq(Append(line, c), f, Len(line) + 1)
       = Append(SubSeq(line, f, Len(line)), c)

\* Parts of a line with one more character.
LEMMA PartsAppend ==
  ASSUME NEW D, NEW line \in Seq(D), NEW c \in D,
         NEW f \in 1..Len(line), NEW k \in f..Len(line)
  PROVE  /\ SubSeq(line, f, k) \in Seq(D) /\ SubSeq(line, f, k) # <<>>
         /\ SubSeq(Append(line, c), f, k) = SubSeq(line, f, k)
         /\ Grown(line, c, f)
<1>. DEFINE l == Len(line)
            t == Append(line, c)
            a == SubSeq(t, f, l + 1)
            b == SubSeq(line, f, l)
            ab == Append(b, c)
<1>1. /\ l \in Nat /\ Len(t) = l + 1 /\ t[l + 1] = c /\ t \in Seq(D)
      /\ \A j \in 1..l : t[j] = line[j]
  OBVIOUS
<1>2. /\ SubSeq(line, f, k) \in Seq(D) /\ Len(SubSeq(line, f, k)) > 0
      /\ SubSeq(t, f, k) = SubSeq(line, f, k)
  OBVIOUS
<1>3. SubSeq(line, f, k) # <<>>
  <2>1. Len(SubSeq(line, f, k)) # Len(<<>>)
    BY <1>2
  <2>. QED BY <2>1
<1>4. /\ b \in Seq(D) /\ Len(b) = (l - f) + 1
      /\ \A j \in 1..((l - f) + 1) : b[j] = line[(f + j) - 1]
  BY <1>1
<1>5. f \in 1..l
  OBVIOUS
<1>. HIDE DEF t, l
<1>6. a \in Seq(D) /\ Len(a) = (l - f) + 2
  BY <1>1, <1>5
<1>7. ASSUME NEW j \in 1..((l - f) + 2) PROVE a[j] = t[(f + j) - 1]
  BY <1>1, <1>5
<1>. HIDE DEF a, b
<1>8. b \in Seq(D)
  BY <1>4
<1>9. /\ ab \in Seq(D) /\ Len(ab) = Len(b) + 1 /\ ab[Len(b) + 1] = c
       /\ \A j \in 1..Len(b) : ab[j] = b[j]
  BY <1>8
<1>. HIDE DEF ab
<1>10. ab \in Seq(D) /\ Len(ab) = (l - f) + 2
  BY <1>1, <1>4, <1>5, <1>9
<1>11. ASSUME NEW j \in 1..((l - f) + 2) PROVE a[j] = ab[j]
  <2>1. CASE j = (l - f) + 2
    <3>1. ab[j] = c
      BY <1>1, <1>4, <1>5, <1>9, <2>1
    <3>2. (f + j) - 1 = l + 1
      BY <1>1, <1>5, <2>1
    <3>. QED BY <1>1, <1>7, <3>1, <3>2
  <2>2. CASE j # (l - f) + 2
    <3>1. j \in 1..((l - f) + 1) /\ (f + j) - 1 \in 1..l
      BY <1>1, <1>5, <2>2
    <3>2. ab[j] = b[j]
      BY <1>4, <1>9, <3>1
    <3>. QED BY <1>1, <1>4, <1>7, <3>1, <3>2
  <2>. QED BY <2>1, <2>2
<1>12. a = ab
  BY <1>6, <1>10, <1>11, SeqEqual
<1>. QED BY <1>2, <1>3, <1>12 DEF a, ab, b, t, l, Grown

\* The last character alone.
LEMMA LastPart ==
  ASSUME NEW D, NEW line \in Seq(D), NEW c \in D
  PROVE  SubSeq(Append(line, c), Len(line) + 1, Len(line) + 1) = <<c>>
<1>. DEFINE t == Append(line, c)
            n == Len(line) + 1
            u == SubSeq(t, n, n)
<1>1. t \in Seq(D) /\ Len(t) = n /\ n \in Nat /\ n > 0 /\ t[n] = c
  OBVIOUS
<1>. HIDE DEF t, n
<1>2. u \in Seq(D) /\ Len(u) = 1
  BY <1>1
<1>3. u[1] = t[n]
  BY <1>1
<1>. HIDE DEF u
<1>4. u = <<c>>
  BY <1>1, <1>2, <1>3
<1>. QED BY <1>4 DEF u, t, n

\* One more character after a line.
LEMMA TrimAppend ==
  ASSUME NEW D, NEW line \in Seq(D), NEW c \in D
  PROVE  /\ c = SP => Trim(Append(line, c)) = Trim(line)
         /\ c # SP => Trim(Append(line, c)) = Append(Left(line), c)
         /\ c # SP => Left(Append(line, c)) = Append(Left(line), c)
         /\ c = SP => Left(Append(line, c)) =
                         IF Left(line) = <<>> THEN <<>>
                         ELSE Append(Left(line), c)
         /\ Left(line) \in Seq(D)
         /\ Left(line) = <<>> <=> Trim(line) = <<>>
<1>. DEFINE l == Len(line)
            t == Append(line, c)
            S == SolidOf(line)
            T == SolidOf(t)
            F == LeastOf(S)
            L == LastOf(S)
<1>1. /\ l \in Nat /\ Len(t) = l + 1 /\ t[l + 1] = c /\ t \in Seq(D)
      /\ \A j \in 1..l : t[j] = line[j]
  OBVIOUS
<1>2. /\ Trim(line) = IF S = {} THEN <<>> ELSE SubSeq(line, F, L)
      /\ Trim(t) = IF T = {} THEN <<>> ELSE SubSeq(t, LeastOf(T), LastOf(T))
  BY DEF Trim, SolidOf, LeastOf, LastOf, SP
<1>. HIDE DEF l, t
<1>3. S \subseteq 1..l /\ T \subseteq 1..(l + 1)
  BY <1>1 DEF SolidOf, l
<1>4. S # {} => /\ F \in 1..l /\ L \in 1..l /\ F <= L /\ F \in S
                /\ \A j \in S : F <= j
  BY <1>1, <1>3, EndsAre
<1>5. c = SP => T = S
  BY <1>1 DEF SolidOf, l
<1>6. c # SP => T = S \cup {l + 1}
  BY <1>1 DEF SolidOf, l
<1>. HIDE DEF S, T, F, L
<1>7. S # {} => /\ SubSeq(line, F, l) \in Seq(D) /\ SubSeq(line, F, l) # <<>>
                /\ SubSeq(line, F, L) # <<>>
                /\ SubSeq(t, F, L) = SubSeq(line, F, L)
                /\ SubSeq(t, F, l + 1) = Append(SubSeq(line, F, l), c)
  <2>. SUFFICES ASSUME S # {}
                PROVE  /\ SubSeq(line, F, l) \in Seq(D)
                       /\ SubSeq(line, F, l) # <<>>
                       /\ SubSeq(line, F, L) # <<>>
                       /\ SubSeq(t, F, L) = SubSeq(line, F, L)
                       /\ SubSeq(t, F, l + 1) = Append(SubSeq(line, F, l), c)
    OBVIOUS
  <2>1. F \in 1..l /\ l \in F..l /\ L \in F..l
    BY <1>1, <1>4
  <2>2. SubSeq(line, F, l) \in Seq(D) /\ SubSeq(line, F, l) # <<>>
        /\ SubSeq(t, F, l + 1) = Append(SubSeq(line, F, l), c)
    <3>1. F \in 1..Len(line) /\ l \in F..Len(line) /\ l = Len(line)
      BY <2>1 DEF l
    <3>2. SubSeq(line, F, l) # <<>>
      <4>1. Len(SubSeq(line, F, l)) # Len(<<>>)
        BY <2>1, <3>1
      <4>. QED BY <4>1
    <3>3. SubSeq(line, F, l) \in Seq(D)
      BY <2>1, <3>1
    <3>4. Grown(line, c, F)
      BY <3>1, PartsAppend
    <3>. QED BY <3>1, <3>2, <3>3, <3>4 DEF t, Grown
  <2>3. SubSeq(line, F, L) # <<>> /\ SubSeq(t, F, L) = SubSeq(line, F, L)
    BY <2>1, PartsAppend DEF l, t
  <2>. QED BY <2>2, <2>3
<1>8. Left(line) = IF S = {} THEN <<>> ELSE SubSeq(line, F, l)
  BY DEF Left, S, F, l
<1>9. Left(t) = IF T = {} THEN <<>> ELSE SubSeq(t, LeastOf(T), l + 1)
  BY <1>1 DEF Left, T
<1>10. Left(line) \in Seq(D)
  BY <1>7, <1>8
<1>11. Left(line) = <<>> <=> S = {}
  BY <1>7, <1>8
<1>12. Trim(line) = <<>> <=> S = {}
  BY <1>2, <1>7
<1>13. CASE c = SP
  <2>1. T = S /\ LeastOf(T) = F /\ LastOf(T) = L
    BY <1>5, <1>13 DEF F, L
  <2>2. Trim(t) = Trim(line)
    BY <1>2, <1>7, <2>1
  <2>3. Left(t) = IF Left(line) = <<>> THEN <<>> ELSE Append(Left(line), c)
    BY <1>7, <1>8, <1>9, <1>11, <2>1
  <2>. QED BY <1>10, <1>11, <1>12, <1>13, <2>2, <2>3 DEF t
<1>14. CASE c # SP
  <2>1. T = S \cup {l + 1} /\ T # {}
    BY <1>6, <1>14
  <2>0. l + 1 \in Nat
    BY <1>1
  <2>2. LeastOf(T) \in T /\ \A j \in T : LeastOf(T) <= j
    BY <1>3, <2>0, <2>1, EndsAre
  <2>3. LastOf(T) \in T /\ \A j \in T : j <= LastOf(T)
    BY <1>3, <2>0, <2>1, EndsAre
  <2>4. LastOf(T) = l + 1
    <3>1. LastOf(T) \in 1..(l + 1) /\ l + 1 <= LastOf(T)
      BY <1>3, <2>1, <2>3
    <3>. QED BY <1>1, <3>1
  <2>5. LeastOf(T) = IF S = {} THEN l + 1 ELSE F
    <3>1. CASE S = {}
      BY <2>1, <2>2, <3>1
    <3>2. CASE S # {}
      <4>. DEFINE G == LeastOf(T)
      <4>1. F \in T /\ F \in 1..l
        BY <1>4, <2>1, <3>2
      <4>2. G \in T /\ G <= F /\ G \in 1..(l + 1)
        BY <1>3, <2>2, <4>1
      <4>. HIDE DEF G
      <4>3. G # l + 1
        BY <1>1, <4>1, <4>2
      <4>4. G \in S
        BY <2>1, <4>2, <4>3
      <4>5. F <= G
        BY <1>4, <3>2, <4>4
      <4>6. G = F
        BY <1>1, <4>1, <4>2, <4>5
      <4>. QED BY <3>2, <4>6 DEF G
    <3>. QED BY <3>1, <3>2
  <2>6. SubSeq(t, LeastOf(T), l + 1) = Append(Left(line), c)
    <3>1. CASE S = {}
      <4>1. SubSeq(t, l + 1, l + 1) = <<c>>
        BY LastPart DEF l, t
      <4>2. Append(<<>>, c) = <<c>>
        OBVIOUS
      <4>. QED BY <1>8, <2>5, <3>1, <4>1, <4>2
    <3>2. CASE S # {}
      BY <1>7, <1>8, <2>5, <3>2
    <3>. QED BY <3>1, <3>2
  <2>. QED BY <1>2, <1>9, <1>10, <1>11, <1>12, <1>14, <2>1, <2>4, <2>6 DEF t
<1>. QED BY <1>13, <1>14

-----------------------------------------------------------------------------
(* What was sent and what was received.                                    *)

\* Two lines with the same characters, but for those that were cut: so they
\* are when they are trimmed, and while more of them may come.
Same(u, v) ==
    /\ u \in Seq(Glyph) /\ v \in Seq(Glyph)
    /\ Trim(u) = <<>> <=> Trim(v) = <<>>
    /\ Plain(Trim(v)) = Plain(Trim(u))
    /\ Plain(Left(v)) = Plain(Left(u))

\* The same character more.
LEMMA SameAppend ==
  ASSUME NEW u, NEW v, Same(u, v), NEW c \in Glyph
  PROVE  Same(Append(u, c), Append(v, c))
<1>1. /\ u \in Seq(Glyph) /\ v \in Seq(Glyph)
      /\ Append(u, c) \in Seq(Glyph) /\ Append(v, c) \in Seq(Glyph)
  BY DEF Same
<1>2. ASSUME NEW a \in Seq(Glyph), NEW b \in Seq(Glyph), Plain(a) = Plain(b)
      PROVE  Plain(Append(a, c)) = Plain(Append(b, c))
  <2>1. Plain(Append(a, c)) =
           IF c \in {WIDE, BAD} THEN Plain(a) ELSE Append(Plain(a), c)
    BY PlainIs
  <2>2. Plain(Append(b, c)) =
           IF c \in {WIDE, BAD} THEN Plain(b) ELSE Append(Plain(b), c)
    BY PlainIs
  <2>. QED BY <1>2, <2>1, <2>2
<1>3. CASE c = SP
  <2>1. Trim(Append(u, c)) = Trim(u) /\ Trim(Append(v, c)) = Trim(v)
    BY <1>1, <1>3, TrimAppend
  <2>2. Plain(Left(Append(v, c))) = Plain(Left(Append(u, c)))
    <3>1. /\ Left(Append(u, c)) =
               IF Left(u) = <<>> THEN <<>> ELSE Append(Left(u), c)
          /\ Left(u) = <<>> <=> Trim(u) = <<>>
          /\ Left(u) \in Seq(Glyph)
      BY <1>1, <1>3, TrimAppend
    <3>2. /\ Left(Append(v, c)) =
               IF Left(v) = <<>> THEN <<>> ELSE Append(Left(v), c)
          /\ Left(v) = <<>> <=> Trim(v) = <<>>
          /\ Left(v) \in Seq(Glyph)
      BY <1>1, <1>3, TrimAppend
    <3>3. Plain(Append(Left(u), c)) = Plain(Append(Left(v), c))
      BY <1>2, <3>1, <3>2 DEF Same
    <3>. QED BY <3>1, <3>2, <3>3 DEF Same
  <2>. QED BY <1>1, <2>1, <2>2 DEF Same
<1>4. CASE c # SP
  <2>1. /\ Trim(Append(u, c)) = Append(Left(u), c)
        /\ Left(Append(u, c)) = Append(Left(u), c)
        /\ Left(u) \in Seq(Glyph)
    BY <1>1, <1>4, TrimAppend
  <2>2. /\ Trim(Append(v, c)) = Append(Left(v), c)
        /\ Left(Append(v, c)) = Append(Left(v), c)
        /\ Left(v) \in Seq(Glyph)
    BY <1>1, <1>4, TrimAppend
  <2>3. Plain(Append(Left(u), c)) = Plain(Append(Left(v), c))
    BY <1>2, <2>1, <2>2 DEF Same
  <2>4. Append(Left(u), c) # <<>> /\ Append(Left(v), c) # <<>>
    BY <2>1, <2>2
  <2>. QED BY <1>1, <2>1, <2>2, <2>3, <2>4 DEF Same
<1>. QED BY <1>3, <1>4

\* A character more, and the two halves of it.
LEMMA SameCut ==
  ASSUME NEW u, NEW v, Same(u, v)
  PROVE  Same(Append(u, WIDE), Append(Append(v, BAD), BAD))
<1>. DEFINE w == Append(v, BAD)
            x == Append(w, BAD)
            y == Append(u, WIDE)
<1>1. WIDE \in Glyph /\ BAD \in Glyph /\ WIDE # SP /\ BAD # SP
  BY NamesDiffer
<1>2. /\ u \in Seq(Glyph) /\ v \in Seq(Glyph) /\ w \in Seq(Glyph)
      /\ x \in Seq(Glyph) /\ y \in Seq(Glyph)
  BY <1>1 DEF Same
<1>3. /\ Trim(y) = Append(Left(u), WIDE) /\ Left(y) = Append(Left(u), WIDE)
      /\ Left(u) \in Seq(Glyph)
  BY <1>1, <1>2, TrimAppend
<1>4. Left(w) = Append(Left(v), BAD) /\ Left(v) \in Seq(Glyph)
  BY <1>1, <1>2, TrimAppend
<1>. HIDE DEF w
<1>5. /\ Trim(x) = Append(Left(w), BAD) /\ Left(x) = Append(Left(w), BAD)
      /\ Left(w) \in Seq(Glyph)
  BY <1>1, <1>2, TrimAppend
<1>6. Append(Left(u), WIDE) # <<>> /\ Append(Left(w), BAD) # <<>>
  BY <1>1, <1>3, <1>5
<1>7. Plain(Append(Left(u), WIDE)) = Plain(Left(u))
  BY <1>1, <1>3, PlainIs
<1>8. Plain(Append(Left(v), BAD)) = Plain(Left(v))
  BY <1>1, <1>4, PlainIs
<1>9. Plain(Append(Left(w), BAD)) = Plain(Left(w))
  BY <1>1, <1>5, PlainIs
<1>10. Plain(Left(v)) = Plain(Left(u))
  BY DEF Same
<1>. HIDE DEF x, y
<1>11. Same(y, x)
  BY <1>2, <1>3, <1>4, <1>5, <1>6, <1>7, <1>8, <1>9, <1>10 DEF Same
<1>. QED BY <1>11 DEF w, x, y

\* Lists of lines that are alike.
AllAlike(p, q) ==
    /\ p \in Seq(Seq(Glyph)) /\ q \in Seq(Seq(Glyph)) /\ Len(q) = Len(p)
    /\ \A i \in 1..Len(p) : Alike(q[i], p[i])

\* One more line of each.
LEMMA AlikeKept ==
  ASSUME NEW p, NEW q, AllAlike(p, q), NEW u, NEW v, Same(u, v)
  PROVE  AllAlike(p \o Sent(u), q \o Sent(v))
<1>. DEFINE E == Seq(Glyph)
            a == Trim(u)
            b == Trim(v)
<1>1. p \in Seq(E) /\ q \in Seq(E) /\ Len(q) = Len(p) /\ u \in E /\ v \in E
      /\ \A i \in 1..Len(p) : Alike(q[i], p[i])
  BY DEF AllAlike, Same
<1>2. a \in E /\ b \in E
  BY <1>1, TrimIs
<1>3. (a = <<>> <=> b = <<>>) /\ Alike(b, a)
  BY DEF Same, Alike
<1>4. CASE a = <<>>
  <2>1. Sent(u) = <<>> /\ Sent(v) = <<>>
    BY <1>3, <1>4 DEF Sent
  <2>. HIDE DEF E
  <2>2. p \o <<>> = p /\ q \o <<>> = q
    BY <1>1
  <2>. QED BY <2>1, <2>2
<1>5. CASE a # <<>>
  <2>1. Sent(u) = <<a>> /\ Sent(v) = <<b>>
    BY <1>3, <1>5 DEF Sent
  <2>. DEFINE pa == p \o <<a>>
              qb == q \o <<b>>
              n == Len(p)
  <2>. HIDE DEF E, a, b
  <2>2. /\ pa \in Seq(E) /\ Len(pa) = n + 1 /\ pa[n + 1] = a
        /\ \A i \in 1..n : pa[i] = p[i]
    BY <1>1, <1>2
  <2>3. /\ qb \in Seq(E) /\ Len(qb) = n + 1 /\ qb[n + 1] = b
        /\ \A i \in 1..n : qb[i] = q[i]
    BY <1>1, <1>2
  <2>. HIDE DEF pa, qb
  <2>4. n \in Nat
    BY <1>1
  <2>5. ASSUME NEW i \in 1..Len(pa) PROVE Alike(qb[i], pa[i])
    <3>1. CASE i = n + 1
      BY <1>3, <2>2, <2>3, <3>1
    <3>2. CASE i # n + 1
      <4>1. i \in 1..n
        BY <2>2, <2>4, <3>2
      <4>. QED BY <1>1, <2>2, <2>3, <4>1
    <3>. QED BY <3>1, <3>2
  <2>6. AllAlike(pa, qb)
    BY <2>2, <2>3, <2>5 DEF AllAlike, E
  <2>. QED BY <2>1, <2>6 DEF pa, qb
<1>. QED BY <1>4, <1>5

\* The state of a parser that got the text, and of one that got it in chunks.
Related(s, r) ==
    /\ s \in ParserState(Glyph) /\ r \in ParserState(Glyph)
    /\ AllAlike(s.lines, r.lines) /\ Same(s.buffer, r.buffer)

\* Before any text.
LEMMA FirstRelated == Related(NoInput, NoInput)
<1>1. Same(<<>>, <<>>)
  BY DEF Same
<1>2. AllAlike(<<>>, <<>>)
  <2>1. Len(<<>>) = 0 /\ <<>> \in Seq(Seq(Glyph))
    OBVIOUS
  <2>. QED BY <2>1 DEF AllAlike
<1>3. NoInput \in ParserState(Glyph)
  BY NoInputIs
<1>. QED BY <1>1, <1>2, <1>3 DEF Related, NoInput

\* One more character leads to a state.
LEMMA FeedIs ==
  ASSUME NEW D, NEW st \in ParserState(D), NEW c \in D
  PROVE  Feed(st, c) \in ParserState(D)
<1>1. /\ Fed(D, st, <<>>) = st
      /\ Fed(D, st, Append(<<>>, c)) = Feed(Fed(D, st, <<>>), c)
      /\ Fed(D, st, Append(<<>>, c)) \in ParserState(D)
  <2>1. <<>> \in Seq(D) /\ Append(<<>>, c) \in Seq(D)
    OBVIOUS
  <2>. QED BY <2>1, FedIs
<1>. QED BY <1>1

\* The same character for both.
LEMMA FeedRelated ==
  ASSUME NEW s, NEW r, Related(s, r), NEW c \in Glyph
  PROVE  Related(Feed(s, c), Feed(r, c))
<1>1. /\ s \in ParserState(Glyph) /\ r \in ParserState(Glyph)
      /\ AllAlike(s.lines, r.lines) /\ Same(s.buffer, r.buffer)
  BY DEF Related
<1>2. Feed(s, c) \in ParserState(Glyph) /\ Feed(r, c) \in ParserState(Glyph)
  BY <1>1, FeedIs
<1>3. CASE c = NL
  <2>1. /\ Feed(s, c) = [buffer |-> <<>>, lines |-> s.lines \o Sent(s.buffer)]
        /\ Feed(r, c) = [buffer |-> <<>>, lines |-> r.lines \o Sent(r.buffer)]
    BY <1>3 DEF Feed
  <2>2. AllAlike(s.lines \o Sent(s.buffer), r.lines \o Sent(r.buffer))
    BY <1>1, AlikeKept
  <2>3. Same(<<>>, <<>>)
    BY DEF Same
  <2>. QED BY <1>2, <2>1, <2>2, <2>3 DEF Related
<1>4. CASE c # NL
  <2>1. /\ Feed(s, c) = [buffer |-> Append(s.buffer, c), lines |-> s.lines]
        /\ Feed(r, c) = [buffer |-> Append(r.buffer, c), lines |-> r.lines]
    BY <1>4 DEF Feed
  <2>2. Same(Append(s.buffer, c), Append(r.buffer, c))
    BY <1>1, SameAppend
  <2>. QED BY <1>1, <1>2, <2>1, <2>2 DEF Related
<1>. QED BY <1>3, <1>4

\* A character for the one, its two halves for the other.
LEMMA FeedCut ==
  ASSUME NEW s, NEW r, Related(s, r)
  PROVE  Related(Feed(s, WIDE), Feed(Feed(r, BAD), BAD))
<1>1. /\ s \in ParserState(Glyph) /\ r \in ParserState(Glyph)
      /\ AllAlike(s.lines, r.lines) /\ Same(s.buffer, r.buffer)
  BY DEF Related
<1>2. WIDE \in Glyph /\ BAD \in Glyph /\ WIDE # NL /\ BAD # NL
  BY NamesDiffer
<1>3. /\ Feed(s, WIDE) \in ParserState(Glyph)
      /\ Feed(r, BAD) \in ParserState(Glyph)
  BY <1>1, <1>2, FeedIs
<1>4. Feed(Feed(r, BAD), BAD) \in ParserState(Glyph)
  BY <1>2, <1>3, FeedIs
<1>5. /\ Feed(s, WIDE) = [buffer |-> Append(s.buffer, WIDE), lines |-> s.lines]
      /\ Feed(Feed(r, BAD), BAD)
           = [buffer |-> Append(Append(r.buffer, BAD), BAD),
              lines |-> r.lines]
  BY <1>2 DEF Feed
<1>6. Same(Append(s.buffer, WIDE), Append(Append(r.buffer, BAD), BAD))
  BY <1>1, SameCut
<1>. QED BY <1>1, <1>3, <1>4, <1>5, <1>6 DEF Related

\* No cut comes after the first byte of a character.
NoneInside(t, cuts) ==
    \A i \in 1..Len(Encode(t)) : Encode(t)[i] = LEAD => i \notin cuts

\* Whatever is sent, what is decoded of it is fed to the same effect, and is
\* the same where no character is cut.
LEMMA ReceivedIsSent ==
  ASSUME NEW cuts, NEW text \in Seq(Char)
  PROVE  LET w == Whole(Encode(text), cuts)
         IN  /\ w \in Seq(Glyph)
             /\ Related(Fed(Glyph, NoInput, text), Fed(Glyph, NoInput, w))
             /\ NoneInside(text, cuts) => w = text
<1>. DEFINE W(t) == Whole(Encode(t), cuts)
            S(t) == Fed(Glyph, NoInput, t)
            P == {t \in Seq(Char) :
                    /\ W(t) \in Seq(Glyph) /\ Related(S(t), S(W(t)))
                    /\ NoneInside(t, cuts) => W(t) = t}
<1>0. \A x \in Seq(Glyph) : \A y \in Glyph : S(Append(x, y)) = Feed(S(x), y)
  <2>1. NoInput \in ParserState(Glyph)
    BY NoInputIs
  <2>2. \A x \in Seq(Glyph) : \A y \in Glyph :
           Fed(Glyph, NoInput, Append(x, y)) = Feed(Fed(Glyph, NoInput, x), y)
    BY <2>1, FedIs
  <2>. QED BY <2>2
<1>1. <<>> \in P
  <2>1. Encode(<<>>) = <<>> /\ <<>> \in Seq(Byte) /\ Len(<<>>) = 0
    BY EncodeIs
  <2>2. W(<<>>) = <<>>
    <3>. DEFINE none == <<>>
    <3>1. none \in Seq(Byte) /\ Len(none) = 0 /\ 0 \in 0..Len(none)
      BY <2>1
    <3>. HIDE DEF none
    <3>2. UpTo(none, cuts, 0) = <<>>
      BY <3>1, GotsAre
    <3>. QED BY <2>1, <3>1, <3>2 DEF Whole, none
  <2>3. S(<<>>) = NoInput
    BY NoInputIs, FedIs
  <2>4. <<>> \in Seq(Char) /\ <<>> \in Seq(Glyph)
    OBVIOUS
  <2>. QED BY <2>2, <2>3, <2>4, FirstRelated
<1>2. ASSUME NEW t \in Seq(Char), NEW c \in Char, t \in P
      PROVE  Append(t, c) \in P
  <2>. DEFINE u == Append(t, c)
              b == Encode(t)
              w == W(t)
              s == S(t)
              r == S(w)
  <2>1. /\ w \in Seq(Glyph) /\ Related(s, r)
        /\ NoneInside(t, cuts) => w = t
    BY <1>2
  <2>2. /\ b \in Seq(Byte) /\ Encode(u) = b \o Bytes(c) /\ u \in Seq(Char)
    BY EncodeIs
  <2>3. /\ t \in Seq(Glyph) /\ c \in Glyph /\ WIDE \in Glyph /\ BAD \in Glyph
    <3>1. Char \subseteq Glyph /\ WIDE \in Glyph /\ BAD \in Glyph
      BY NamesDiffer
    <3>. QED BY <3>1
  <2>4. S(u) = Feed(s, c)
    BY <1>0, <2>3
  <2>. HIDE DEF u, b, w
  <2>5. NoneInside(u, cuts) => NoneInside(t, cuts)
    <3>1. Bytes(c) \in Seq(Byte)
      BY BytesAre
    <3>2. \A i \in 1..Len(b) : i \in 1..Len(b \o Bytes(c))
                               /\ (b \o Bytes(c))[i] = b[i]
      BY <2>2, <3>1
    <3>. QED BY <2>2, <3>2 DEF NoneInside, b
  <2>6. CASE c # WIDE
    <3>1. W(u) = Append(w, c)
      <4>1. Bytes(c) = <<c>>
        BY <2>6, BytesAre
      <4>2. Whole(b \o <<c>>, cuts) = Append(Whole(b, cuts), c)
        BY <2>2, <2>6, ByteDecoded
      <4>. QED BY <2>2, <4>1, <4>2 DEF w, b
    <3>2. S(Append(w, c)) = Feed(r, c)
      BY <2>1, <2>3, NoInputIs, FedIs
    <3>3. Related(Feed(s, c), Feed(r, c))
      BY <2>1, <2>3, FeedRelated
    <3>4. Append(w, c) \in Seq(Glyph)
      BY <2>1, <2>3
    <3>. HIDE DEF S, s, r, W
    <3>. QED BY <2>1, <2>2, <2>4, <2>5, <3>1, <3>2, <3>3, <3>4 DEF u
  <2>7. CASE c = WIDE
    <3>1. Bytes(c) = <<LEAD, TRAIL>>
      BY <2>7, BytesAre
    <3>2. W(u) = IF Len(b) + 1 \in cuts THEN Append(Append(w, BAD), BAD)
                 ELSE Append(w, WIDE)
      BY <2>2, <3>1, WideDecoded DEF w, b
    <3>3. CASE Len(b) + 1 \notin cuts
      <4>1. S(Append(w, WIDE)) = Feed(r, WIDE)
        BY <2>1, <2>3, NoInputIs, FedIs
      <4>2. Related(Feed(s, WIDE), Feed(r, WIDE))
        BY <2>1, <2>3, FeedRelated
      <4>3. Append(w, WIDE) \in Seq(Glyph)
        BY <2>1, <2>3
      <4>4. W(u) = Append(w, WIDE)
        BY <3>2, <3>3
      <4>. HIDE DEF S, s, r, W
      <4>. QED BY <2>1, <2>2, <2>4, <2>5, <2>7, <4>1, <4>2, <4>3, <4>4 DEF u
    <3>4. CASE Len(b) + 1 \in cuts
      <4>1. Append(w, BAD) \in Seq(Glyph)
            /\ Append(Append(w, BAD), BAD) \in Seq(Glyph)
        BY <2>1, <2>3
      <4>2. /\ S(Append(w, BAD)) = Feed(r, BAD)
            /\ S(Append(Append(w, BAD), BAD)) = Feed(S(Append(w, BAD)), BAD)
        <5>. HIDE DEF S
        <5>. QED BY <1>0, <2>1, <2>3, <4>1
      <4>3. Related(Feed(s, WIDE), Feed(Feed(r, BAD), BAD))
        BY <2>1, FeedCut
      <4>4. W(u) = Append(Append(w, BAD), BAD)
        BY <3>2, <3>4
      <4>5. ~NoneInside(u, cuts)
        <5>1. /\ Len(b) + 1 \in 1..Len(b \o <<LEAD, TRAIL>>)
              /\ (b \o <<LEAD, TRAIL>>)[Len(b) + 1] = LEAD
          BY <2>2
        <5>. QED BY <2>2, <3>1, <3>4, <5>1 DEF NoneInside
      <4>. HIDE DEF S, s, r, W
      <4>. QED BY <2>2, <2>4, <2>7, <4>1, <4>2, <4>3, <4>4, <4>5 DEF u
    <3>. QED BY <3>3, <3>4
  <2>. QED BY <2>6, <2>7
<1>3. Seq(Char) \subseteq P
  <2>. HIDE DEF P
  <2>. QED BY <1>1, <1>2, AppendInduction
<1>. QED BY <1>3

\* What character i of a text arrives as: itself, or two replacement characters
\* if a cut is inside it.
Arrives(text, cuts, i) ==
    IF text[i] = "wide" /\ Len(Encode(SubSeq(text, 1, i - 1))) + 1 \in cuts
    THEN <<"bad", "bad">> ELSE <<text[i]>>

Arrived(text, cuts) ==
    FlattenSeq([i \in 1..Len(text) |-> Arrives(text, cuts, i)])

\* What the characters of a text arrive as, whatever character follows them.
ArrivesStays(cuts, t, c) ==
    \A i \in 1..Len(t) : /\ Arrives(t, cuts, i) \in Seq(Glyph)
                         /\ Arrives(Append(t, c), cuts, i)
                              = Arrives(t, cuts, i)

\* It depends on the text before alone.
LEMMA ArrivesIs ==
  ASSUME NEW cuts, NEW t \in Seq(Char), NEW c \in Char
  PROVE  /\ ArrivesStays(cuts, t, c)
         /\ Arrives(Append(t, c), cuts, Len(t) + 1)
              = IF c = WIDE /\ Len(Encode(t)) + 1 \in cuts
                THEN <<BAD, BAD>> ELSE <<c>>
<1>. DEFINE u == Append(t, c)
            l == Len(t)
<1>1. /\ l \in Nat /\ u[l + 1] = c /\ SubSeq(u, 1, l) = t
      /\ \A i \in 1..l : /\ t[i] \in Char /\ u[i] = t[i]
                         /\ SubSeq(u, 1, i - 1) = SubSeq(t, 1, i - 1)
  OBVIOUS
<1>2. Char \subseteq Glyph /\ BAD \in Glyph
  BY NamesDiffer
<1>. HIDE DEF u, l
<1>3. ASSUME NEW i \in 1..l
      PROVE  /\ Arrives(t, cuts, i) \in Seq(Glyph)
             /\ Arrives(u, cuts, i) = Arrives(t, cuts, i)
  <2>1. Arrives(t, cuts, i) \in {<<BAD, BAD>>, <<t[i]>>}
    BY DEF Arrives, BAD
  <2>2. <<BAD, BAD>> \in Seq(Glyph) /\ <<t[i]>> \in Seq(Glyph)
    <3>1. t[i] \in Glyph
      BY <1>1, <1>2
    <3>. QED BY <1>2, <3>1
  <2>3. Arrives(u, cuts, i) = Arrives(t, cuts, i)
    BY <1>1 DEF Arrives
  <2>. QED BY <2>1, <2>2, <2>3
<1>4. Arrives(u, cuts, l + 1) = IF c = WIDE /\ Len(Encode(t)) + 1 \in cuts
                                THEN <<BAD, BAD>> ELSE <<c>>
  <2>1. (l + 1) - 1 = l
    BY <1>1
  <2>. QED BY <1>1, <2>1 DEF Arrives, BAD, WIDE
<1>. QED BY <1>3, <1>4 DEF u, l, ArrivesStays

\* One more character of a text.
LEMMA ArrivedNext ==
  ASSUME NEW cuts, NEW t \in Seq(Char), NEW c \in Char
  PROVE  /\ Arrived(t, cuts) \in Seq(Glyph)
         /\ Arrived(Append(t, c), cuts)
              = Arrived(t, cuts) \o Arrives(Append(t, c), cuts, Len(t) + 1)
<1>. DEFINE E == Seq(Glyph)
            u == Append(t, c)
            l == Len(t)
            a == Arrives(u, cuts, l + 1)
            v == [i \in 1..l |-> Arrives(t, cuts, i)]
            w == [i \in 1..(l + 1) |-> Arrives(u, cuts, i)]
<1>1. l \in Nat /\ Len(u) = l + 1
  OBVIOUS
<1>2. a \in E
  <2>1. a = IF c = WIDE /\ Len(Encode(t)) + 1 \in cuts
            THEN <<BAD, BAD>> ELSE <<c>>
    BY ArrivesIs
  <2>2. BAD \in Glyph /\ c \in Glyph
    <3>1. BAD \in Glyph /\ Char \subseteq Glyph
      BY NamesDiffer
    <3>. QED BY <3>1
  <2>3. <<BAD, BAD>> \in Seq(Glyph) /\ <<c>> \in Seq(Glyph)
    BY <2>2
  <2>. HIDE DEF a
  <2>4. a = <<BAD, BAD>> \/ a = <<c>>
    BY <2>1
  <2>. QED BY <2>3, <2>4
<1>3. /\ \A i \in 1..l : Arrives(t, cuts, i) \in E
      /\ \A i \in 1..l : Arrives(u, cuts, i) = Arrives(t, cuts, i)
  <2>1. ArrivesStays(cuts, t, c)
    BY ArrivesIs
  <2>. QED BY <2>1 DEF ArrivesStays
<1>. HIDE DEF E, u, l
<1>4. v \in Seq(E)
  BY <1>1, <1>3
<1>5. w = Append(v, a)
  <2>1. \A i \in 1..(l + 1) : i \in 1..l \/ i = l + 1
    BY <1>1
  <2>2. /\ Len(v) = l /\ Len(Append(v, a)) = l + 1 /\ Append(v, a)[l + 1] = a
        /\ Append(v, a) \in Seq(E)
        /\ \A i \in 1..l : Append(v, a)[i] = v[i]
    <3>1. Len(v) = l
      BY <1>1
    <3>. HIDE DEF v, a
    <3>. QED BY <1>1, <1>2, <1>4, <3>1
  <2>3. \A i \in 1..l : v[i] = Arrives(u, cuts, i)
    BY <1>3
  <2>4. \A i \in 1..(l + 1) : Append(v, a)[i] = Arrives(u, cuts, i)
    <3>. HIDE DEF v
    <3>. QED BY <2>1, <2>2, <2>3
  <2>5. \A i \in 1..(l + 1) : w[i] = Append(v, a)[i]
    <3>1. \A i \in 1..(l + 1) : w[i] = Arrives(u, cuts, i)
      OBVIOUS
    <3>. HIDE DEF v, w, a
    <3>. QED BY <2>4, <3>1
  <2>6. w \in Seq(E) /\ Len(w) = l + 1
    <3>1. \A i \in 1..(l + 1) : Arrives(u, cuts, i) \in E
      BY <1>2, <1>3, <2>1
    <3>. HIDE DEF a
    <3>. QED BY <1>1, <3>1
  <2>. HIDE DEF w, v, a
  <2>. QED BY <1>1, <2>2, <2>5, <2>6, SeqEqual
<1>. HIDE DEF v, w, a
<1>6. FlattenSeq(Append(v, a)) = FlattenSeq(v) \o a /\ FlattenSeq(v) \in E
  BY <1>2, <1>4, FlattenAppend DEF E
<1>7. Arrived(t, cuts) = FlattenSeq(v)
  BY DEF Arrived, v, l
<1>8. Arrived(u, cuts) = FlattenSeq(w)
  BY <1>1 DEF Arrived, w
<1>. QED BY <1>5, <1>6, <1>7, <1>8 DEF E, a, u, l

\* What is decoded of a stream that is cut.
LEMMA ArrivedIs ==
  ASSUME NEW cuts, NEW text \in Seq(Char)
  PROVE  Whole(Encode(text), cuts) = Arrived(text, cuts)
<1>. DEFINE P == {t \in Seq(Char) : Whole(Encode(t), cuts) = Arrived(t, cuts)}
<1>1. <<>> \in P
  <2>1. Encode(<<>>) = <<>> /\ <<>> \in Seq(Byte) /\ Len(<<>>) = 0
    BY EncodeIs
  <2>2. Whole(Encode(<<>>), cuts) = <<>>
    <3>. DEFINE none == <<>>
    <3>1. none \in Seq(Byte) /\ Len(none) = 0 /\ 0 \in 0..Len(none)
      BY <2>1
    <3>. HIDE DEF none
    <3>2. UpTo(none, cuts, 0) = <<>>
      BY <3>1, GotsAre
    <3>. QED BY <2>1, <3>1, <3>2 DEF Whole, none
  <2>3. Arrived(<<>>, cuts) = <<>>
    <3>. DEFINE z == [i \in 1..Len(<<>>) |-> Arrives(<<>>, cuts, i)]
    <3>1. z = <<>> /\ Len(z) = 0
      OBVIOUS
    <3>. HIDE DEF z
    <3>2. FlattenSeq(z) = <<>>
      BY <3>1 DEF FlattenSeq
    <3>. QED BY <3>2 DEF Arrived, z
  <2>. QED BY <2>2, <2>3
<1>2. ASSUME NEW t \in Seq(Char), NEW c \in Char, t \in P
      PROVE  Append(t, c) \in P
  <2>. DEFINE u == Append(t, c)
              b == Encode(t)
              w == Arrived(t, cuts)
              a == Arrives(u, cuts, Len(t) + 1)
  <2>1. /\ b \in Seq(Byte) /\ Encode(u) = b \o Bytes(c) /\ u \in Seq(Char)
    BY EncodeIs
  <2>2. Whole(b, cuts) = w
    BY <1>2
  <2>3. /\ w \in Seq(Glyph) /\ Arrived(u, cuts) = w \o a
        /\ a = IF c = WIDE /\ Len(b) + 1 \in cuts THEN <<BAD, BAD>> ELSE <<c>>
    <3>1. w \in Seq(Glyph) /\ Arrived(u, cuts) = w \o a
      BY ArrivedNext
    <3>2. a = IF c = WIDE /\ Len(b) + 1 \in cuts THEN <<BAD, BAD>> ELSE <<c>>
      BY ArrivesIs
    <3>. QED BY <3>1, <3>2
  <2>4. c \in Glyph /\ BAD \in Glyph
    <3>1. BAD \in Glyph /\ Char \subseteq Glyph
      BY NamesDiffer
    <3>. QED BY <3>1
  <2>. HIDE DEF u, b, w, a
  <2>5. w \o <<c>> = Append(w, c)
        /\ w \o <<BAD, BAD>> = Append(Append(w, BAD), BAD)
    BY <2>3, <2>4
  <2>6. CASE c # WIDE
    <3>1. Bytes(c) = <<c>>
      BY <2>6, BytesAre
    <3>2. Whole(b \o <<c>>, cuts) = Append(w, c)
      BY <2>1, <2>2, <2>6, ByteDecoded
    <3>3. a = <<c>>
      BY <2>3, <2>6
    <3>4. Whole(Encode(u), cuts) = Arrived(u, cuts)
      BY <2>1, <2>3, <2>5, <3>1, <3>2, <3>3
    <3>. QED BY <2>1, <3>4 DEF u
  <2>7. CASE c = WIDE
    <3>1. Bytes(c) = <<LEAD, TRAIL>>
      BY <2>7, BytesAre
    <3>2. Whole(Encode(u), cuts)
            = IF Len(b) + 1 \in cuts THEN Append(Append(w, BAD), BAD)
              ELSE Append(w, WIDE)
      BY <2>1, <2>2, <3>1, WideDecoded
    <3>3. Whole(Encode(u), cuts) = Arrived(u, cuts)
      <4>1. CASE Len(b) + 1 \in cuts
        <5>1. a = <<BAD, BAD>>
          BY <2>3, <2>7, <4>1
        <5>. QED BY <2>3, <2>5, <3>2, <4>1, <5>1
      <4>2. CASE Len(b) + 1 \notin cuts
        <5>1. a = <<c>>
          BY <2>3, <4>2
        <5>. QED BY <2>3, <2>5, <2>7, <3>2, <4>2, <5>1
      <4>. QED BY <4>1, <4>2
    <3>. QED BY <2>1, <3>3 DEF u
  <2>. QED BY <2>6, <2>7
<1>3. Seq(Char) \subseteq P
  <2>. HIDE DEF P
  <2>. QED BY <1>1, <1>2, AppendInduction
<1>. QED BY <1>3

\* The lines that come of a text, fed one character after the other.
LEMMA FedLines ==
  ASSUME NEW t \in Seq(Glyph)
  PROVE  Fed(Glyph, NoInput, t).lines = Solid(Front(Lines(t)))
<1>. DEFINE none == <<>>
            E == Seq(Glyph)
            solid == Solid(Front(Lines(t)))
<1>1. none \in Seq(E)
  OBVIOUS
<1>2. NoInput = [buffer |-> <<>>, lines |-> none]
  BY DEF NoInput
<1>. HIDE DEF none
<1>3. Fed(Glyph, [buffer |-> <<>>, lines |-> none], t)
        = [buffer |-> Last(Lines(t)), lines |-> none \o solid]
  BY <1>1, LinesAreFed
<1>4. solid \in Seq(E)
  <2>1. Front(Lines(t)) \in Seq(E)
    BY LinesAre, SeveralAre
  <2>. QED BY <2>1, SolidIs
<1>. HIDE DEF solid, E
<1>5. none \o solid = solid
  BY <1>4 DEF none
<1>. QED BY <1>2, <1>3, <1>5 DEF solid

\* However the stream of a text is cut, as many lines arrive as were sent, in
\* order and from either parser, and exactly the lines that were sent if no
\* cut is inside a character (createLineParser, processBuffer).
THEOREM LinesComeWhole ==
  ASSUME NEW text \in Seq(Char), NEW cuts, cuts \subseteq 1..Len(Encode(text))
  PROVE  LinesAreWhole(text, cuts)
<1>. DEFINE bytes == Encode(text)
            w == Whole(bytes, cuts)
            s == Fed(Glyph, NoInput, text)
            r == Fed(Glyph, NoInput, w)
            sent == Solid(Front(Lines(text)))
<1>1. bytes \in Seq(Byte) /\ Len(bytes) \in Nat /\ cuts \subseteq Nat
  BY EncodeIs
<1>2. /\ w \in Seq(Glyph) /\ Related(s, r)
      /\ NoneInside(text, cuts) => w = text
  BY ReceivedIsSent
<1>. HIDE DEF bytes
<1>3. SocketLines(bytes, cuts) = r.lines /\ McpLines(bytes, cuts) = r.lines
  BY <1>1, SocketReads, McpReads DEF Whole
<1>5. sent = s.lines
  <2>1. text \in Seq(Glyph)
    <3>1. Char \subseteq Glyph
      BY NamesDiffer
    <3>. QED BY <3>1
  <2>. QED BY <2>1, FedLines
<1>7. /\ Len(r.lines) = Len(s.lines)
      /\ \A i \in 1..Len(s.lines) : Alike(r.lines[i], s.lines[i])
  BY <1>2 DEF Related, AllAlike
<1>8. CutsInside(bytes, cuts) = {} => r.lines = s.lines
  <2>. SUFFICES ASSUME CutsInside(bytes, cuts) = {} PROVE r.lines = s.lines
    OBVIOUS
  <2>1. NoneInside(text, cuts)
    BY DEF CutsInside, NoneInside, LEAD, bytes
  <2>. QED BY <1>2, <2>1
<1>. HIDE DEF s, r, sent
<1>. QED BY <1>3, <1>5, <1>7, <1>8 DEF LinesAreWhole, bytes, sent

\* What a cut inside a character does: each of its two halves is decoded on
\* its own, so that the line arrives with two replacement characters in its
\* place, and nothing else is changed (createLineParser, chunk.toString).
THEOREM CutCharactersBreak ==
  ASSUME NEW text \in Seq(Char), NEW cuts, cuts \subseteq 1..Len(Encode(text))
  PROVE  SocketLines(Encode(text), cuts)
           = Solid(Front(Lines(Arrived(text, cuts))))
<1>. DEFINE bytes == Encode(text)
            w == Whole(bytes, cuts)
<1>1. bytes \in Seq(Byte) /\ Len(bytes) \in Nat /\ cuts \subseteq Nat
  BY EncodeIs
<1>2. w \in Seq(Glyph) /\ w = Arrived(text, cuts)
  BY ReceivedIsSent, ArrivedIs
<1>. HIDE DEF bytes
<1>3. SocketLines(bytes, cuts) = Fed(Glyph, NoInput, w).lines
  BY <1>1, SocketReads DEF Whole
<1>. HIDE DEF w
<1>4. Fed(Glyph, NoInput, w).lines = Solid(Front(Lines(w)))
  BY <1>2, FedLines
<1>. QED BY <1>2, <1>3, <1>4 DEF bytes

-----------------------------------------------------------------------------
(* The frames of a log.                                                    *)

\* One round of the loop of demuxDockerLogs.
DemuxRound(buffer, stream, s) ==
    LET end == s.offset + 2 + buffer[s.offset + 2]
    IN  IF s.offset + 2 > Len(buffer) \/ end > Len(buffer) THEN s
        ELSE [offset |-> end,
              out |-> IF buffer[s.offset + 1] # stream THEN s.out
                      ELSE s.out \o Decode(SubSeq(buffer, s.offset + 3, end))]

\* States before, between and after the rounds.
Rounds(buffer, stream, f) ==
    /\ f[0] = [offset |-> 0, out |-> <<>>]
    /\ \A n \in 1..Len(buffer) : f[n] = DemuxRound(buffer, stream, f[n - 1])

\* The loop computes them.
LEMMA DemuxIs ==
  ASSUME NEW buffer, Len(buffer) \in Nat, NEW stream, NEW f,
         Rounds(buffer, stream, f)
  PROVE  Demux(buffer, stream) = f[Len(buffer)].out
<1>. DEFINE l == Len(buffer)
            start == [offset |-> 0, out |-> <<>>]
            Body(h, n) == IF n = 0 THEN start
                          ELSE DemuxRound(buffer, stream, h[n - 1])
            e == [n \in 0..l |-> f[n]]
            g == CHOOSE h : h = [n \in 0..l |-> Body(h, n)]
<1>1. Demux(buffer, stream) = g[l].out
  BY DEF Demux, DemuxRound
<1>2. l \in Nat /\ f[0] = start
      /\ \A n \in 1..l : f[n] = DemuxRound(buffer, stream, f[n - 1])
  BY DEF Rounds
<1>. HIDE DEF l, start
<1>3. ASSUME NEW n \in 0..l PROVE e[n] = Body(e, n)
  <2>1. CASE n = 0
    BY <1>2, <2>1
  <2>2. CASE n # 0
    <3>1. n \in 1..l /\ n - 1 \in 0..l
      BY <1>2, <2>2
    <3>. QED BY <1>2, <2>2, <3>1
  <2>. QED BY <2>1, <2>2
<1>4. e = [n \in 0..l |-> e[n]]
  OBVIOUS
<1>. HIDE DEF e, Body
<1>5. e = [n \in 0..l |-> Body(e, n)]
  BY <1>3, <1>4
<1>6. g = [n \in 0..l |-> Body(g, n)]
  BY <1>5
<1>. HIDE DEF g
<1>7. \A n \in 0..l : g[n] = Body(g, n)
  BY <1>6
<1>. DEFINE T == {n \in Nat : n \in 0..l => g[n] = f[n]}
<1>8. 0 \in T
  <2>1. 0 \in 0..l
    BY <1>2
  <2>. QED BY <1>2, <1>7, <2>1 DEF Body
<1>9. ASSUME NEW n \in Nat, n \in T PROVE n + 1 \in T
  <2>. SUFFICES ASSUME n + 1 \in 0..l PROVE g[n + 1] = f[n + 1]
    OBVIOUS
  <2>1. n \in 0..l /\ n + 1 \in 1..l /\ (n + 1) - 1 = n /\ n + 1 # 0
    BY <1>2
  <2>2. g[n + 1] = DemuxRound(buffer, stream, g[n])
    BY <1>7, <2>1 DEF Body
  <2>3. f[n + 1] = DemuxRound(buffer, stream, f[n])
    BY <1>2, <2>1
  <2>. QED BY <1>9, <2>1, <2>2, <2>3
<1>10. l \in T
  <2>. HIDE DEF T
  <2>. QED BY <1>2, <1>8, <1>9, Induction
<1>11. g[l] = f[l]
  BY <1>2, <1>10
<1>. QED BY <1>1, <1>11 DEF l

\* What is encoded is decoded again.
LEMMA DecodeEncode ==
  ASSUME NEW t \in Seq(Char)
  PROVE  Decode(Encode(t)) = t /\ Encode(t) \in Seq(Byte)
<1>1. Encode(t) \in Seq(Byte)
  BY EncodeIs
<1>2. Whole(Encode(t), {}) = t
  <2>1. NoneInside(t, {})
    BY DEF NoneInside
  <2>. QED BY <2>1, ReceivedIsSent
<1>. QED BY <1>1, <1>2, DecodeIs DEF Whole

\* The places of two sequences, one after the other.
Joined(C, a, b) ==
    /\ a \o b \in Seq(C) /\ Len(a \o b) = Len(a) + Len(b)
    /\ \A i \in 1..Len(a) : (a \o b)[i] = a[i]
    /\ \A i \in 1..Len(b) : (a \o b)[Len(a) + i] = b[i]

\* They are where they should be.
LEMMA PlacesOf ==
  ASSUME NEW C, NEW a \in Seq(C), NEW b \in Seq(C)
  PROVE  Joined(C, a, b)
BY DEF Joined

\* What a log is made of.
Cell == Nat \cup Byte

\* The places of two frames, one after the other.
LEMMA TwoFrames ==
  ASSUME NEW d \in Seq(Byte), NEW e \in Seq(Byte), NEW k \in {1, 2}
  PROVE  LET b == Frame(1, d) \o Frame(k, e)
             l == Len(d)
             m == Len(e)
         IN  /\ b \in Seq(Cell) /\ l \in Nat /\ m \in Nat
             /\ Len(b) = (l + m) + 4
             /\ b[1] = 1 /\ b[2] = l /\ b[l + 3] = k /\ b[l + 4] = m
             /\ SubSeq(b, 3, l + 2) = d
             /\ SubSeq(b, l + 5, (l + m) + 4) = e
<1>. DEFINE l == Len(d)
            m == Len(e)
            p == <<1, l>>
            q == <<k, m>>
            b == Frame(1, d) \o Frame(k, e)
<1>1. d \in Seq(Cell) /\ e \in Seq(Cell) /\ l \in Nat /\ m \in Nat
  <2>1. Byte \subseteq Cell
    BY DEF Cell
  <2>. QED BY <2>1
<1>2. p \in Seq(Cell) /\ q \in Seq(Cell) /\ Len(p) = 2 /\ Len(q) = 2
      /\ p[1] = 1 /\ p[2] = l /\ q[1] = k /\ q[2] = m
  <2>1. 1 \in Cell /\ k \in Cell /\ l \in Cell /\ m \in Cell
    BY <1>1 DEF Cell
  <2>. HIDE DEF l, m
  <2>. QED BY <2>1
<1>. HIDE DEF p, q
<1>3. b = (p \o d) \o (q \o e)
  BY DEF Frame, p, q
<1>. HIDE DEF b
<1>. DEFINE pd == p \o d
            qe == q \o e
<1>4. /\ pd \in Seq(Cell) /\ Len(pd) = l + 2 /\ pd[1] = 1 /\ pd[2] = l
      /\ \A i \in 1..l : pd[i + 2] = d[i]
  <2>1. /\ pd \in Seq(Cell) /\ Len(pd) = Len(p) + Len(d)
        /\ \A i \in 1..Len(p) : pd[i] = p[i]
        /\ \A i \in 1..Len(d) : pd[Len(p) + i] = d[i]
    <3>1. Joined(Cell, p, d)
      BY <1>1, <1>2, PlacesOf
    <3>. QED BY <3>1 DEF Joined
  <2>. HIDE DEF pd
  <2>2. 1 \in 1..Len(p) /\ 2 \in 1..Len(p) /\ \A i \in 1..l : 2 + i = i + 2
    BY <1>2
  <2>. QED BY <1>1, <1>2, <2>1, <2>2
<1>5. /\ qe \in Seq(Cell) /\ Len(qe) = m + 2 /\ qe[1] = k /\ qe[2] = m
      /\ \A i \in 1..m : qe[i + 2] = e[i]
  <2>1. /\ qe \in Seq(Cell) /\ Len(qe) = Len(q) + Len(e)
        /\ \A i \in 1..Len(q) : qe[i] = q[i]
        /\ \A i \in 1..Len(e) : qe[Len(q) + i] = e[i]
    <3>1. Joined(Cell, q, e)
      BY <1>1, <1>2, PlacesOf
    <3>. QED BY <3>1 DEF Joined
  <2>. HIDE DEF qe
  <2>2. 1 \in 1..Len(q) /\ 2 \in 1..Len(q) /\ \A i \in 1..m : 2 + i = i + 2
    BY <1>2
  <2>. QED BY <1>1, <1>2, <2>1, <2>2
<1>6. b = pd \o qe
  BY <1>3
<1>. HIDE DEF pd, qe
<1>7. /\ b \in Seq(Cell) /\ Len(b) = (l + m) + 4
      /\ \A i \in 1..(l + 2) : b[i] = pd[i]
      /\ \A i \in 1..(m + 2) : b[(l + 2) + i] = qe[i]
  <2>1. /\ b \in Seq(Cell) /\ Len(b) = Len(pd) + Len(qe)
        /\ \A i \in 1..Len(pd) : b[i] = pd[i]
        /\ \A i \in 1..Len(qe) : b[Len(pd) + i] = qe[i]
    <3>1. Joined(Cell, pd, qe)
      BY <1>4, <1>5, PlacesOf
    <3>. QED BY <1>6, <3>1 DEF Joined
  <2>. HIDE DEF l, m
  <2>. QED BY <1>1, <1>4, <1>5, <2>1
<1>. HIDE DEF l, m
<1>8. b[1] = 1 /\ b[2] = l /\ b[l + 3] = k /\ b[l + 4] = m
  <2>1. /\ 1 \in 1..(l + 2) /\ 2 \in 1..(l + 2)
        /\ 1 \in 1..(m + 2) /\ 2 \in 1..(m + 2)
        /\ (l + 2) + 1 = l + 3 /\ (l + 2) + 2 = l + 4
    BY <1>1
  <2>2. b[(l + 2) + 1] = qe[1] /\ b[(l + 2) + 2] = qe[2]
    BY <1>7, <2>1
  <2>. QED BY <1>4, <1>5, <1>7, <2>1, <2>2
<1>9. SubSeq(b, 3, l + 2) = d
  <2>. DEFINE s == SubSeq(b, 3, l + 2)
  <2>1. /\ s \in Seq(Cell) /\ Len(s) = l
        /\ \A i \in 1..l : s[i] = b[i + 2]
    BY <1>1, <1>7
  <2>. HIDE DEF s
  <2>2. ASSUME NEW i \in 1..l PROVE s[i] = d[i]
    <3>1. i + 2 \in 1..(l + 2)
      BY <1>1
    <3>. QED BY <1>4, <1>7, <2>1, <3>1
  <2>3. s = d
    BY <1>1, <2>1, <2>2, SeqEqual DEF l
  <2>. QED BY <2>3 DEF s
<1>10. SubSeq(b, l + 5, (l + m) + 4) = e
  <2>. DEFINE s == SubSeq(b, l + 5, (l + m) + 4)
  <2>1. /\ s \in Seq(Cell) /\ Len(s) = m
        /\ \A i \in 1..m : s[i] = b[(l + 2) + (i + 2)]
    BY <1>1, <1>7
  <2>. HIDE DEF s
  <2>2. ASSUME NEW i \in 1..m PROVE s[i] = e[i]
    <3>1. i + 2 \in 1..(m + 2)
      BY <1>1
    <3>2. b[(l + 2) + (i + 2)] = qe[i + 2]
      BY <1>7, <3>1
    <3>. QED BY <1>5, <2>1, <3>2
  <2>3. s = e
    BY <1>1, <2>1, <2>2, SeqEqual DEF m
  <2>. QED BY <2>3 DEF s
<1>. QED BY <1>1, <1>7, <1>8, <1>9, <1>10 DEF b, l, m

\* A frame of this size begins where a state is, and what a round makes of
\* it; the buffer ends before a frame of this size does.
FrameAt(b, s, size, payload) ==
    /\ {s.offset, size, Len(b)} \subseteq Nat /\ b[s.offset + 2] = size
    /\ (s.offset + 2) + size <= Len(b)
    /\ SubSeq(b, s.offset + 3, (s.offset + 2) + size) = payload

Reads(b, k, s, size, payload) ==
    DemuxRound(b, k, s)
      = [offset |-> (s.offset + 2) + size,
         out |-> IF b[s.offset + 1] # k THEN s.out
                 ELSE s.out \o Decode(payload)]

NoFrameAt(b, s, size) ==
    /\ {s.offset, size, Len(b)} \subseteq Nat
    /\ s.offset + 2 <= Len(b) =>
          b[s.offset + 2] = size /\ (s.offset + 2) + size > Len(b)

\* A round at the header of a frame that is there.
LEMMA RoundReads ==
  ASSUME NEW b, NEW k, NEW s, NEW size, NEW payload,
         FrameAt(b, s, size, payload)
  PROVE  Reads(b, k, s, size, payload)
<1>1. /\ ~(s.offset + 2 > Len(b) \/ s.offset + 2 + b[s.offset + 2] > Len(b))
      /\ s.offset + 2 + b[s.offset + 2] = (s.offset + 2) + size
      /\ SubSeq(b, s.offset + 3, (s.offset + 2) + size) = payload
  BY DEF FrameAt
<1>. QED BY <1>1 DEF DemuxRound, Reads

\* A round at a frame that is cut off.
LEMMA RoundStops ==
  ASSUME NEW b, NEW k, NEW s, NEW size, NoFrameAt(b, s, size)
  PROVE  DemuxRound(b, k, s) = s
<1>1. s.offset + 2 > Len(b) \/ s.offset + 2 + b[s.offset + 2] > Len(b)
  BY DEF NoFrameAt
<1>. QED BY <1>1 DEF DemuxRound

\* Each stream of a log is the payloads of its frames, and a frame that is cut
\* off is not begun (demuxDockerLogs).
THEOREM StreamsStayApart ==
  ASSUME NEW first \in Seq(Char), NEW second \in Seq(Char),
         NEW stream \in {1, 2}
  PROVE  StreamsAreApart(first, second, stream)
<1>. DEFINE d == Encode(first)
            e == Encode(second)
            b == Frame(1, d) \o Frame(stream, e)
            l == Len(d)
            m == Len(e)
            s0 == [offset |-> 0, out |-> <<>>]
            s1(k) == [offset |-> l + 2, out |-> IF k = 1 THEN first ELSE <<>>]
            end(k) == (IF k = 1 THEN first ELSE <<>>)
                         \o (IF k = stream THEN second ELSE <<>>)
            s2(k) == [offset |-> (l + m) + 4, out |-> end(k)]
<1>1. /\ d \in Seq(Byte) /\ Decode(d) = first
      /\ e \in Seq(Byte) /\ Decode(e) = second
  BY DecodeEncode
<1>. HIDE DEF d, e
<1>2. /\ b \in Seq(Cell) /\ l \in Nat /\ m \in Nat
      /\ Len(b) = (l + m) + 4
      /\ b[1] = 1 /\ b[2] = l /\ b[l + 3] = stream /\ b[l + 4] = m
      /\ SubSeq(b, 3, l + 2) = d
      /\ SubSeq(b, l + 5, (l + m) + 4) = e
  BY <1>1, TwoFrames
<1>. HIDE DEF b, l, m
<1>3. <<>> \o first = first /\ first \o <<>> = first /\ <<>> \o second = second
      /\ <<>> \o <<>> = <<>>
  OBVIOUS
<1>4. ASSUME NEW k \in {1, 2} PROVE DemuxRound(b, k, s0) = s1(k)
  <2>1. 0 + 2 = 2 /\ 0 + 1 = 1 /\ 0 + 3 = 3 /\ 2 + l = l + 2
        /\ s0.offset = 0 /\ 0 \in Nat /\ Len(b) \in Nat /\ 2 + l <= Len(b)
    BY <1>2
  <2>. HIDE DEF s0
  <2>2. DemuxRound(b, k, s0)
          = [offset |-> (0 + 2) + l,
             out |-> IF b[0 + 1] # k THEN s0.out ELSE s0.out \o Decode(d)]
    <3>1. FrameAt(b, s0, l, d)
      BY <1>2, <2>1 DEF FrameAt
    <3>. QED BY <2>1, <3>1, RoundReads DEF Reads
  <2>. QED BY <1>1, <1>2, <1>3, <2>1, <2>2 DEF s0
<1>5. ASSUME NEW k \in {1, 2} PROVE DemuxRound(b, k, s1(k)) = s2(k)
  <2>. DEFINE at == l + 2
              s == s1(k)
  <2>1. at + 2 = l + 4 /\ at + 1 = l + 3 /\ at + 3 = l + 5
        /\ (at + 2) + m = (l + m) + 4
        /\ at \in Nat /\ Len(b) \in Nat /\ (at + 2) + m <= Len(b)
    BY <1>2
  <2>2. s.offset = at
    OBVIOUS
  <2>3. s.out = IF k = 1 THEN first ELSE <<>>
    OBVIOUS
  <2>. HIDE DEF at, s
  <2>4. DemuxRound(b, k, s)
          = [offset |-> (at + 2) + m,
             out |-> IF b[at + 1] # k THEN s.out ELSE s.out \o Decode(e)]
    <3>1. FrameAt(b, s, m, e)
      BY <1>2, <2>1, <2>2 DEF FrameAt
    <3>. QED BY <2>2, <3>1, RoundReads DEF Reads
  <2>5. (IF b[at + 1] # k THEN s.out ELSE s.out \o Decode(e)) = end(k)
    <3>1. CASE stream = k
      BY <1>1, <1>2, <2>1, <2>3, <3>1
    <3>2. CASE stream # k
      BY <1>2, <1>3, <2>1, <2>3, <3>2
    <3>. QED BY <3>1, <3>2
  <2>. HIDE DEF end
  <2>. QED BY <2>1, <2>4, <2>5 DEF s
<1>6. ASSUME NEW k \in {1, 2} PROVE DemuxRound(b, k, s2(k)) = s2(k)
  <2>1. s2(k).offset = (l + m) + 4 /\ (l + m) + 4 \in Nat
        /\ ((l + m) + 4) + 2 > Len(b)
    BY <1>2
  <2>. HIDE DEF s2
  <2>2. NoFrameAt(b, s2(k), m)
    BY <1>2, <2>1 DEF NoFrameAt
  <2>. QED BY <2>2, RoundStops
<1>. HIDE DEF s0, s1, s2, end
<1>7. ASSUME NEW k \in {1, 2} PROVE Demux(b, k) = s2(k).out
  <2>. DEFINE f == [n \in Nat |-> IF n = 0 THEN s0 ELSE
                                  IF n = 1 THEN s1(k) ELSE s2(k)]
  <2>1. Len(b) \in Nat /\ Len(b) \notin {0, 1}
    BY <1>2
  <2>2. ASSUME NEW n \in 1..Len(b) PROVE f[n] = DemuxRound(b, k, f[n - 1])
    <3>1. n \in Nat /\ n - 1 \in Nat
      BY <2>1
    <3>2. CASE n = 1
      BY <1>4, <3>2
    <3>3. CASE n = 2
      BY <1>5, <3>3
    <3>4. CASE n > 2
      <4>1. n - 1 \notin {0, 1} /\ n \notin {0, 1}
        BY <2>1, <3>4
      <4>. QED BY <1>6, <3>1, <4>1
    <3>. QED BY <2>1, <3>2, <3>3, <3>4
  <2>3. f[0] = s0 /\ f[Len(b)] = s2(k)
    BY <2>1
  <2>. HIDE DEF f
  <2>4. Rounds(b, k, f)
    BY <2>2, <2>3 DEF Rounds, s0
  <2>. QED BY <2>1, <2>3, <2>4, DemuxIs
<1>8. Demux(b, 1) = IF stream = 1 THEN first \o second ELSE first
  <2>1. end(1) = IF stream = 1 THEN first \o second ELSE first
    BY <1>3 DEF end
  <2>. QED BY <1>7, <2>1 DEF s2
<1>9. Demux(b, 2) = IF stream = 2 THEN second ELSE <<>>
  <2>1. end(2) = IF stream = 2 THEN second ELSE <<>>
    BY <1>3 DEF end
  <2>. QED BY <1>7, <2>1 DEF s2
<1>10. ASSUME NEW n \in 1..Len(b), n < Len(b)
       PROVE  Demux(SubSeq(b, 1, n), 1) \in {<<>>, first}
  <2>. DEFINE c == SubSeq(b, 1, n)
  <2>1. /\ n \in Nat /\ Len(c) = n /\ \A i \in 1..n : c[i] = b[i]
    BY <1>2
  <2>2. CASE n < l + 2
    <3>. DEFINE f == [i \in Nat |-> s0]
    <3>1. DemuxRound(c, 1, s0) = s0
      <4>1. s0.offset = 0 /\ 0 + 2 = 2 /\ 0 \in Nat
        BY DEF s0
      <4>2. 2 <= Len(c) => c[2] = l /\ 2 + l > Len(c)
        BY <1>2, <2>1, <2>2
      <4>. HIDE DEF c
      <4>3. NoFrameAt(c, s0, l)
        BY <1>2, <2>1, <4>1, <4>2 DEF NoFrameAt, c
      <4>. QED BY <4>3, RoundStops
    <3>2. \A i \in Nat : f[i] = s0
      OBVIOUS
    <3>. HIDE DEF c, f
    <3>3. \A i \in 1..Len(c) : i \in Nat /\ i - 1 \in Nat
      BY <2>1
    <3>4. Rounds(c, 1, f)
      BY <3>1, <3>2, <3>3 DEF Rounds, s0
    <3>5. Demux(c, 1) = f[Len(c)].out
      BY <2>1, <3>4, DemuxIs
    <3>6. s0.out = <<>>
      BY DEF s0
    <3>. QED BY <2>1, <3>2, <3>5, <3>6 DEF c
  <2>3. CASE ~(n < l + 2)
    <3>. DEFINE f == [i \in Nat |-> IF i = 0 THEN s0 ELSE s1(1)]
                at == l + 2
    <3>1. /\ 1 \in 1..n /\ 2 \in 1..n /\ c[1] = 1 /\ c[2] = l /\ 2 + l = l + 2
          /\ 2 + l <= Len(c)
      BY <1>2, <2>1, <2>3
    <3>2. SubSeq(c, 3, l + 2) = d
      <4>1. SubSeq(c, 3, l + 2) = SubSeq(b, 3, l + 2)
        BY <1>2, <2>1, <2>3
      <4>. QED BY <1>2, <4>1
    <3>3. l + 4 <= n => c[l + 4] = m /\ (l + 4) + m > n
      BY <1>2, <1>10, <2>1
    <3>. HIDE DEF c
    <3>4. DemuxRound(c, 1, s0) = s1(1)
      <4>1. 0 + 2 = 2 /\ 0 + 1 = 1 /\ 0 + 3 = 3 /\ s0.offset = 0
            /\ s0.out = <<>> /\ 0 \in Nat
        BY DEF s0
      <4>2. DemuxRound(c, 1, s0)
              = [offset |-> (0 + 2) + l,
                 out |-> IF c[0 + 1] # 1 THEN s0.out ELSE s0.out \o Decode(d)]
        <5>1. FrameAt(c, s0, l, d)
          BY <1>2, <2>1, <3>1, <3>2, <4>1 DEF FrameAt
        <5>2. Reads(c, 1, s0, l, d)
          BY <5>1, RoundReads
        <5>. QED BY <4>1, <5>2 DEF Reads
      <4>. QED BY <1>1, <1>3, <3>1, <4>1, <4>2 DEF s1
    <3>5. DemuxRound(c, 1, s1(1)) = s1(1)
      <4>1. s1(1).offset = at /\ at \in Nat /\ at + 2 = l + 4
        BY <1>2 DEF s1
      <4>2. at + 2 <= Len(c) => c[at + 2] = m /\ (at + 2) + m > Len(c)
        BY <2>1, <3>3, <4>1 DEF c
      <4>. HIDE DEF at
      <4>3. NoFrameAt(c, s1(1), m)
        BY <1>2, <2>1, <4>1, <4>2 DEF NoFrameAt, c
      <4>. QED BY <4>3, RoundStops
    <3>6. f[0] = s0 /\ \A i \in Nat \ {0} : f[i] = s1(1)
      OBVIOUS
    <3>. HIDE DEF f
    <3>7. ASSUME NEW i \in 1..n PROVE f[i] = DemuxRound(c, 1, f[i - 1])
      <4>1. i \in Nat \ {0} /\ (i = 1 => i - 1 = 0)
            /\ (i # 1 => i - 1 \in Nat \ {0})
        BY <2>1
      <4>. QED BY <3>4, <3>5, <3>6, <4>1
    <3>8. Rounds(c, 1, f)
      BY <2>1, <3>6, <3>7 DEF Rounds, s0, c
    <3>9. Demux(c, 1) = f[Len(c)].out
      <4>1. Len(c) \in Nat
        BY <2>1 DEF c
      <4>. QED BY <3>8, <4>1, DemuxIs
    <3>10. Len(c) \in Nat \ {0} /\ s1(1).out = first
      BY <2>1 DEF s1, c
    <3>. QED BY <3>6, <3>9, <3>10 DEF c
  <2>. QED BY <2>2, <2>3
<1>. QED BY <1>8, <1>9, <1>10 DEF StreamsAreApart, b, d, e

\* Whatever stream, log or message is picked.
THEOREM CutsKeep == Spec => []CutsKeepText
<1>1. Init => CutsKeepText
  BY DEF Init, CutsKeepText
<1>2. ASSUME CutsKeepText, [Next]_input PROVE CutsKeepText'
  <2>1. CASE UNCHANGED input
    BY <1>2, <2>1 DEF CutsKeepText
  <2>2. CASE PickStream
    <3>0. PICK text \in SeqOf(Char, 4) :
             \E cuts \in SUBSET (1..(Len(Encode(text)))) :
                input' = [kind |-> "stream", text |-> Append(text, "newline"),
                          cuts |-> cuts]
      BY <2>2 DEF PickStream
    <3>1. PICK cuts \in SUBSET (1..(Len(Encode(text)))) :
             input' = [kind |-> "stream", text |-> Append(text, "newline"),
                       cuts |-> cuts]
      BY <3>0
    <3>. DEFINE t == Append(text, NL)
    <3>2. text \in Seq(Char) /\ NL \in Char /\ NL # WIDE
      BY NamesAreSequences, NamesDiffer
    <3>3. t \in Seq(Char)
      BY <3>2
    <3>4. cuts \subseteq 1..Len(Encode(t))
      <4>. DEFINE b == Encode(text)
                  e == Encode(t)
      <4>1. b \in Seq(Byte) /\ Bytes(NL) = <<NL>> /\ NL \in Byte
            /\ e = b \o Bytes(NL)
        BY <3>2, EncodeIs, BytesAre, NamesDiffer
      <4>. HIDE DEF b, e
      <4>2. Len(e) = Len(b) + 1 /\ Len(b) \in Nat
        BY <4>1
      <4>. QED BY <4>2 DEF b, e
    <3>. HIDE DEF t
    <3>5. LinesAreWhole(t, cuts)
      BY <3>3, <3>4, LinesComeWhole
    <3>. QED BY <3>1, <3>5 DEF CutsKeepText, t, NL
  <2>3. CASE PickFrames
    <3>. DEFINE D == {"x", "wide", "newline"}
    <3>1. PICK first \in SeqOf(D, 2), second \in SeqOf(D, 2),
               stream \in {1, 2} :
             input' = [kind |-> "frames", first |-> first, second |-> second,
                       stream |-> stream]
      BY <2>3 DEF PickFrames
    <3>2. D \subseteq Char
      BY DEF Char
    <3>. HIDE DEF D
    <3>3. first \in Seq(D) /\ second \in Seq(D)
      BY NamesAreSequences
    <3>4. first \in Seq(Char) /\ second \in Seq(Char)
      BY <3>2, <3>3
    <3>5. StreamsAreApart(first, second, stream)
      BY <3>4, StreamsStayApart
    <3>. QED BY <3>1, <3>5 DEF CutsKeepText
  <2>4. CASE PickMessage
    <3>. DEFINE D == {"x", "newline"}
    <3>1. PICK text \in SeqOf(D, 9) :
             input' = [kind |-> "message", text |-> text]
      BY <2>4 DEF PickMessage
    <3>2. "newline" \in D
      OBVIOUS
    <3>. HIDE DEF D
    <3>3. text \in Seq(D)
      BY NamesAreSequences
    <3>4. PieceLimit \in Nat /\ PieceLimit > 0
      BY DEF PieceLimit
    <3>. HIDE DEF PieceLimit
    <3>5. PiecesFit(text, PieceLimit)
      BY <3>2, <3>3, <3>4, EveryPieceFits
    <3>. QED BY <3>1, <3>5 DEF CutsKeepText
  <2>5. CASE PickText
    BY <2>5 DEF PickText, CutsKeepText
  <2>6. CASE PickPage
    BY <2>6 DEF PickPage, CutsKeepText
  <2>7. CASE PickServers
    BY <2>7 DEF PickServers, CutsKeepText
  <2>. QED BY <1>2, <2>1, <2>2, <2>3, <2>4, <2>5, <2>6, <2>7 DEF Next
<1>. QED BY <1>1, <1>2, PTL DEF Spec

=============================================================================
