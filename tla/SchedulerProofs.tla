-------------------------- MODULE SchedulerProofs --------------------------
(***************************************************************************)
(* Proofs about the heartbeat scheduler: for any configs, also with names  *)
(* that repeat, any schedules, any length of a leg and any number of runs, *)
(* the timers of a name do not multiply and an enabled heartbeat that is   *)
(* not at work waits for its very next occurrence.                         *)
(*                                                                         *)
(* The loop of start is a recursive function over the configs, and what    *)
(* it computes is proved by induction over the number of configs loaded.   *)
(***************************************************************************)
EXTENDS Scheduler, FiniteSetTheorems, FunctionTheorems, WellFoundedInduction,
        TLAPS

-----------------------------------------------------------------------------
(* Numbers.                                                                *)

\* A set of numbers that has an element has a least one.
LEMMA Least ==
  ASSUME NEW S, S \subseteq Nat, S # {}
  PROVE  \E m \in S : \A k \in S : m <= k
<1>. DEFINE R == {ss \in Nat \X Nat : ss[1] < ss[2]}
<1>1. PICK m \in S : \A y \in S : <<y, m>> \notin R
  <2>1. IsWellFoundedOn(R, Nat)
    BY NatLessThanWellFounded DEF OpToRel
  <2>. HIDE DEF R
  <2>. QED BY <2>1, WFMin
<1>2. ASSUME NEW k \in S PROVE m <= k
  <2>1. <<k, m>> \notin R /\ k \in Nat /\ m \in Nat
    BY <1>1
  <2>. QED BY <2>1
<1>. QED BY <1>2

\* Induction over the numbers, about a set.
LEMMA Induction ==
  ASSUME NEW S, 0 \in S, \A n \in Nat : n \in S => n + 1 \in S
  PROVE  Nat \subseteq S
<1>. SUFFICES ASSUME ~(Nat \subseteq S) PROVE FALSE
  OBVIOUS
<1>1. PICK m \in Nat \ S : \A k \in Nat \ S : m <= k
  <2>1. Nat \ S # {} /\ Nat \ S \subseteq Nat
    OBVIOUS
  <2>. QED BY <2>1, Least
<1>2. m # 0 /\ m - 1 \in Nat /\ m - 1 \in S
  BY <1>1
<1>. QED BY <1>1, <1>2

\* Division with remainder.
LEMMA Division ==
  ASSUME NEW p \in Nat \ {0}, NEW x \in Nat
  PROVE  /\ x % p \in 0..(p - 1)
         /\ \E q \in Nat : x = p * q + (x % p)
<1>1. x % p \in 0..(p - 1)
  OBVIOUS
<1>2. x \div p \in Nat
  OBVIOUS
<1>3. x = p * (x \div p) + (x % p)
  OBVIOUS
<1>. QED BY <1>1, <1>2, <1>3

\* Its remainder is unique.
LEMMA OneRemainder ==
  ASSUME NEW p \in Nat \ {0}, NEW q1 \in Int, NEW q2 \in Int,
         NEW r1 \in 0..(p - 1), NEW r2 \in 0..(p - 1),
         p * q1 + r1 = p * q2 + r2
  PROVE  r1 = r2
<1>1. ASSUME NEW d \in Int, d >= 1 PROVE p * d >= p
  <2>1. PICK k \in Nat : d = k + 1
    <3>1. d - 1 \in Nat /\ d = (d - 1) + 1
      BY <1>1
    <3>. QED BY <3>1
  <2>2. p * k \in Nat
    OBVIOUS
  <2>3. p * d = p * k + p
    BY <2>1
  <2>. QED BY <2>2, <2>3
<1>2. p * (q1 - q2) = r2 - r1 /\ p * (q2 - q1) = r1 - r2
  OBVIOUS
<1>3. ~(q1 - q2 >= 1)
  BY <1>1, <1>2
<1>4. ~(q2 - q1 >= 1)
  BY <1>1, <1>2
<1>. QED BY <1>2, <1>3, <1>4

\* After a period the minutes repeat.
LEMMA Repeats ==
  ASSUME NEW p \in Nat \ {0}, NEW x \in Nat
  PROVE  (x + p) % p = x % p
<1>. DEFINE r == x % p
            s == (x + p) % p
<1>1. PICK q1 \in Nat : x = p * q1 + (x % p)
  BY Division
<1>2. PICK q2 \in Nat : x + p = p * q2 + ((x + p) % p)
  <2>1. x + p \in Nat
    OBVIOUS
  <2>. QED BY <2>1, Division
<1>3. r \in 0..(p - 1) /\ s \in 0..(p - 1)
  OBVIOUS
<1>4. x = p * q1 + r /\ x + p = p * q2 + s /\ r \in Int /\ s \in Int
   BY <1>1, <1>2, <1>3
<1>5. p * (q1 + 1) + r = p * q2 + s
  <2>. HIDE DEF r, s
  <2>. QED BY <1>4
<1>6. q1 + 1 \in Int /\ q2 \in Int
  OBVIOUS
<1>. QED BY <1>3, <1>5, <1>6, OneRemainder

\* A minute is its own remainder.
LEMMA MinuteIs ==
  ASSUME NEW p \in Nat \ {0}, NEW x \in 0..(p - 1)
  PROVE  x % p = x
OBVIOUS

\* A minute later everything is a minute nearer.
LEMMA Nearer ==
  ASSUME NEW p \in Nat \ {0}, NEW x \in 0..(p - 1), NEW a \in Nat
  PROVE  /\ (x + 1) % p \in 0..(p - 1)
         /\ (((x + 1) % p) + a) % p = (x + (a + 1)) % p
<1>1. CASE x + 1 < p
  <2>1. (x + 1) % p = x + 1
    <3>1. x + 1 \in 0..(p - 1)
      BY <1>1
    <3>. QED BY <3>1, MinuteIs
  <2>2. (x + 1) + a = x + (a + 1)
    OBVIOUS
  <2>. QED BY <1>1, <2>1, <2>2
<1>2. CASE x + 1 = p
  <2>1. (x + 1) % p = 0
    <3>1. (0 + p) % p = 0 % p
      BY Repeats
    <3>2. 0 % p = 0
      BY MinuteIs
    <3>3. 0 + p = x + 1
      BY <1>2
    <3>. QED BY <3>1, <3>2, <3>3
  <2>2. (a + p) % p = a % p
    BY Repeats
  <2>3. a + p = x + (a + 1) /\ 0 + a = a
    BY <1>2
  <2>. QED BY <2>1, <2>2, <2>3
<1>3. x + 1 < p \/ x + 1 = p
  OBVIOUS
<1>. QED BY <1>1, <1>2, <1>3

\* cron.next finds the next occurrence of a schedule that has one.
LEMMA NextOccurrence ==
  ASSUME now \in Minute, NEW schedule, schedule \subseteq Minute,
         schedule # {}
  PROVE  /\ UntilNext(schedule) \in 1..Period
         /\ (now + UntilNext(schedule)) % Period \in schedule
         /\ \A e \in 1..(UntilNext(schedule) - 1) :
               (now + e) % Period \notin schedule
<1>. USE SchedulerAssumption DEF SchedulerAssumption
<1>. DEFINE D == {d \in 1..Period : (now + d) % Period \in schedule}
<1>1. D # {}
  <2>1. PICK s \in schedule : TRUE
    OBVIOUS
  <2>2. /\ s \in 0..(Period - 1) /\ now \in 0..(Period - 1)
        /\ Period \in Nat \ {0}
    BY DEF Minute
  <2>3. s % Period = s /\ (s + Period) % Period = s
    <3>1. s % Period = s
      BY <2>2, MinuteIs
    <3>2. s \in Nat
      BY <2>2
    <3>3. (s + Period) % Period = s % Period
      BY <2>2, <3>2, Repeats
    <3>. QED BY <3>1, <3>3
  <2>4. CASE s > now
    <3>1. s - now \in 1..Period /\ now + (s - now) = s
      BY <2>2, <2>4
    <3>2. s - now \in D
      BY <3>1, <2>3, <2>1
    <3>. QED BY <3>2
  <2>5. CASE s <= now
    <3>1. /\ s - now + Period \in 1..Period
          /\ now + (s - now + Period) = s + Period
      BY <2>2, <2>5
    <3>2. s - now + Period \in D
      BY <3>1, <2>3, <2>1
    <3>. QED BY <3>2
  <2>. QED BY <2>2, <2>4, <2>5
<1>2. PICK m \in D : \A k \in D : m <= k
  <2>1. D \subseteq Nat
    OBVIOUS
  <2>. HIDE DEF D
  <2>. QED BY <1>1, <2>1, Least
<1>3. \A e \in 1..(m - 1) : e \in 1..Period /\ ~(m <= e)
  BY <1>2
<1>4. /\ (now + m) % Period \in schedule
      /\ \A e \in 1..(m - 1) : (now + e) % Period \notin schedule
  BY <1>2, <1>3
<1>. QED BY <1>2, <1>4 DEF UntilNext

-----------------------------------------------------------------------------
(* The state of the timers.                                                *)

\* Entries and timers have their types, a filed timer that exists is one of
\* its name, and no two names file the same.
Good(st) ==
    /\ st = [entries |-> st.entries, timers |-> st.timers]
    /\ DOMAIN st.entries \subseteq Name
    /\ \A n \in DOMAIN st.entries : st.entries[n] \in Entry
    /\ DOMAIN st.timers \subseteq Timer
    /\ \A t \in DOMAIN st.timers : /\ st.timers[t] \in Armed
                                   /\ st.timers[t].name \in DOMAIN st.entries
    /\ \A n \in DOMAIN st.entries :
          LET t == st.entries[n].timer
          IN  t \in DOMAIN st.timers => st.timers[t].name = n
    /\ \A m, n \in DOMAIN st.entries :
          /\ st.entries[m].timer = st.entries[n].timer
          /\ st.entries[m].timer # NoTimer
          => m = n

TimersIn(st, n) == {t \in DOMAIN st.timers : st.timers[t].name = n}

\* Timers of a name that are not the one its entry files.
Orphans(st, n) == TimersIn(st, n) \ {st.entries[n].timer}

\* The first i configs that have the name.
Named(i, n) == {j \in 1..i : configs[j].name = n}

\* After i configs, each name has fewer orphans than configs.
Few(st, i) ==
    \A n \in DOMAIN st.entries :
       /\ IsFiniteSet(Orphans(st, n))
       /\ Cardinality(Orphans(st, n)) < Cardinality(Named(i, n))

\* An occurrence of the schedule that is wait minutes away, and no other
\* one before it.
IsNext(schedule, minute, wait) ==
    /\ (minute + wait) % Period \in schedule
    /\ \A e \in 1..(wait - 1) : (minute + e) % Period \notin schedule

\* The name waits for its next occurrence.
Waits(st, n, minute) ==
    \E t \in DOMAIN st.timers :
       /\ st.timers[t].name = n
       /\ IsNext(st.entries[n].schedule, minute,
                 st.timers[t].left + st.timers[t].rest)

\* The names that should be waiting unless they are at work.
Enabled(st) == {n \in DOMAIN st.entries : /\ st.entries[n].enabled
                                          /\ st.entries[n].schedule # {}}

-----------------------------------------------------------------------------
(* Enough identities.                                                      *)

\* A set that is not larger can be mapped into the other one.
LEMMA MapsInto ==
  ASSUME NEW S, NEW T, IsFiniteSet(S), IsFiniteSet(T),
         Cardinality(S) <= Cardinality(T)
  PROVE  \E f : f \in Injection(S, T)
<1>. DEFINE s == Cardinality(S)
            t == Cardinality(T)
<1>1. s \in Nat /\ t \in Nat /\ s <= t
  BY FS_CardinalityType
<1>2. ExistsBijection(1..s, S) /\ ExistsBijection(1..t, T)
  BY FS_CardinalityType
<1>. HIDE DEF s, t
<1>3. ExistsInjection(1..s, 1..t)
  BY <1>1, Fun_NatInjLeq
<1>4. ExistsInjection(S, 1..s)
  BY <1>2, Fun_ExistsBijEquiv
<1>5. ExistsInjection(1..t, T)
  BY <1>2, Fun_ExistsBijEquiv
<1>6. ExistsInjection(S, 1..t)
  BY <1>3, <1>4, Fun_ExistsInjTransitive
<1>7. ExistsInjection(S, T)
  BY <1>5, <1>6, Fun_ExistsInjTransitive
<1>. QED BY <1>7 DEF ExistsInjection

\* The configs of a name are finitely many.
LEMMA NamedIsFinite ==
  ASSUME NEW i \in Nat, NEW n
  PROVE  IsFiniteSet(Named(i, n)) /\ Cardinality(Named(i, n)) \in Nat
<1>1. IsFiniteSet(1..i)
  BY FS_Interval
<1>2. Named(i, n) \in SUBSET (1..i)
  BY DEF Named
<1>3. IsFiniteSet(Named(i, n))
  BY <1>1, <1>2, FS_Subset
<1>. QED BY <1>3, FS_CardinalityType

\* Timers that exist or are filed.
InUse(st) ==
    DOMAIN st.timers \cup ({st.entries[n].timer : n \in DOMAIN st.entries}
                           \ {NoTimer})

\* The name a timer in use belongs to.
Owner(st, t) ==
    IF t \in DOMAIN st.timers THEN st.timers[t].name
    ELSE CHOOSE n \in DOMAIN st.entries : st.entries[n].timer = t

UsedBy(st, n) == {t \in InUse(st) : Owner(st, t) = n}

\* A timer in use belongs to the name it is an orphan of or filed for.
LEMMA OwnerIs ==
  ASSUME NEW st, Good(st), NEW t \in InUse(st)
  PROVE  /\ Owner(st, t) \in DOMAIN st.entries
         /\ \/ t \in Orphans(st, Owner(st, t))
            \/ t = st.entries[Owner(st, t)].timer
<1>1. CASE t \in DOMAIN st.timers
  BY <1>1 DEF Good, Owner, Orphans, TimersIn
<1>2. CASE t \notin DOMAIN st.timers
  <2>1. \E n \in DOMAIN st.entries : st.entries[n].timer = t
    BY <1>2 DEF InUse
  <2>. QED BY <1>2, <2>1 DEF Owner
<1>. QED BY <1>1, <1>2

\* No more timers are in use than configs have been loaded.
LEMMA FewAreInUse ==
  ASSUME NEW st, Good(st), NEW i \in Nat, Few(st, i)
  PROVE  IsFiniteSet(InUse(st)) /\ Cardinality(InUse(st)) <= i
<1>1. ASSUME NEW n \in DOMAIN st.entries
      PROVE  \E f : f \in Injection(UsedBy(st, n), Named(i, n))
  <2>. DEFINE o == Orphans(st, n)
              x == st.entries[n].timer
              c == Named(i, n)
  <2>1. IsFiniteSet(o) /\ Cardinality(o) < Cardinality(c)
    BY DEF Few
  <2>2. IsFiniteSet(c) /\ Cardinality(c) \in Nat
    BY NamedIsFinite
  <2>3. UsedBy(st, n) \in SUBSET (o \cup {x})
    BY OwnerIs DEF UsedBy
  <2>. HIDE DEF o, x, c
  <2>4. /\ IsFiniteSet(o \cup {x})
        /\ Cardinality(o \cup {x}) <= Cardinality(o) + 1
        /\ Cardinality(o) \in Nat
        /\ Cardinality(o \cup {x}) \in Nat
    <3>1. Cardinality(o) \in Nat
      BY <2>1, FS_CardinalityType
    <3>2. /\ IsFiniteSet(o \cup {x})
          /\ Cardinality(o \cup {x}) = IF x \in o THEN Cardinality(o)
                                       ELSE Cardinality(o) + 1
      BY <2>1, FS_AddElement
    <3>. QED BY <3>1, <3>2
  <2>5. /\ IsFiniteSet(UsedBy(st, n))
        /\ Cardinality(UsedBy(st, n)) <= Cardinality(o \cup {x})
        /\ Cardinality(UsedBy(st, n)) \in Nat
    BY <2>3, <2>4, FS_Subset, FS_CardinalityType
  <2>6. Cardinality(UsedBy(st, n)) <= Cardinality(c)
    BY <2>1, <2>2, <2>4, <2>5
  <2>7. \E f : f \in Injection(UsedBy(st, n), c)
    BY <2>2, <2>5, <2>6, MapsInto
  <2>. QED BY <2>7 DEF c
<1>. DEFINE g == [n \in DOMAIN st.entries |->
                    CHOOSE f : f \in Injection(UsedBy(st, n), Named(i, n))]
            h == [t \in InUse(st) |-> g[Owner(st, t)][t]]
<1>2. \A n \in DOMAIN st.entries :
         g[n] \in Injection(UsedBy(st, n), Named(i, n))
  BY <1>1
<1>. HIDE DEF g
<1>3. \A t \in InUse(st) : /\ Owner(st, t) \in DOMAIN st.entries
                           /\ t \in UsedBy(st, Owner(st, t))
  BY OwnerIs DEF UsedBy
<1>4. \A t \in InUse(st) : h[t] \in Named(i, Owner(st, t))
  BY <1>2, <1>3 DEF Injection
<1>5. \A t \in InUse(st) : h[t] \in 1..i /\ configs[h[t]].name = Owner(st, t)
  <2>. HIDE DEF h
  <2>. QED BY <1>4 DEF Named
<1>6. ASSUME NEW t \in InUse(st), NEW u \in InUse(st), h[t] = h[u]
      PROVE  t = u
  <2>1. Owner(st, t) = Owner(st, u)
    <3>. HIDE DEF h
    <3>. QED BY <1>5, <1>6
  <2>. DEFINE n == Owner(st, t)
  <2>2. t \in UsedBy(st, n) /\ u \in UsedBy(st, n) /\ n \in DOMAIN st.entries
    BY <1>3, <2>1
  <2>3. g[n][t] = g[n][u]
    BY <1>6, <2>1
  <2>4. g[n] \in Injection(UsedBy(st, n), Named(i, n))
    BY <1>2, <2>2
  <2>. HIDE DEF n
  <2>. QED BY <2>2, <2>3, <2>4 DEF Injection, IsInjective
<1>7. h \in Injection(InUse(st), 1..i)
  <2>1. h \in [InUse(st) -> 1..i]
    BY <1>5
  <2>. HIDE DEF h
  <2>. QED BY <2>1, <1>6 DEF Injection, IsInjective
<1>8. IsFiniteSet(1..i) /\ Cardinality(1..i) = i
  BY FS_Interval
<1>. HIDE DEF h
<1>. QED BY <1>7, <1>8, FS_Injection

\* There is a timer to be had.
LEMMA FreeTimerIsFree ==
  ASSUME NEW st, Good(st), NEW i \in Nat, i <= MaxConfigs, Few(st, i)
  PROVE  /\ FreeTimer(st) \in Timer
         /\ FreeTimer(st) \notin DOMAIN st.timers
         /\ \A n \in DOMAIN st.entries : st.entries[n].timer # FreeTimer(st)
<1>1. IsFiniteSet(InUse(st)) /\ Cardinality(InUse(st)) <= i
  BY FewAreInUse
<1>2. Cardinality(InUse(st)) \in Nat
  BY <1>1, FS_CardinalityType
<1>3. ~(Timer \subseteq InUse(st))
  <2>1. SUFFICES ASSUME Timer \subseteq InUse(st) PROVE FALSE
    OBVIOUS
  <2>2. IsFiniteSet(Timer) /\ Cardinality(Timer) <= Cardinality(InUse(st))
    BY <1>1, <2>1, FS_Subset
  <2>3. Cardinality(Timer) \in Nat
    BY <2>2, FS_CardinalityType
  <2>. QED
    BY <1>1, <1>2, <2>2, <2>3, SchedulerAssumption DEF SchedulerAssumption
<1>4. PICK t \in Timer : t \notin InUse(st)
  BY <1>3
<1>5. /\ t \notin DOMAIN st.timers
      /\ \A n \in DOMAIN st.entries : st.entries[n].timer # t
  BY <1>4, SchedulerAssumption DEF InUse, SchedulerAssumption
<1>. QED BY <1>5 DEF FreeTimer

-----------------------------------------------------------------------------
(* What the operators on timers do.                                        *)

\* clearTimeout leaves the entries and the other timers.
LEMMA ClearIs ==
  ASSUME NEW st, Good(st), NEW t
  PROVE  /\ Clear(st, t).entries = st.entries
         /\ Clear(st, t) = [entries |-> st.entries,
                            timers |-> Clear(st, t).timers]
         /\ DOMAIN Clear(st, t).timers = DOMAIN st.timers \ {t}
         /\ \A u \in DOMAIN st.timers \ {t} :
               Clear(st, t).timers[u] = st.timers[u]
         /\ \A n : TimersIn(Clear(st, t), n) = TimersIn(st, n) \ {t}
         /\ \A n : Orphans(Clear(st, t), n) = Orphans(st, n) \ {t}
<1>. DEFINE r == Clear(st, t)
            e == st.entries
            ts == st.timers
            us == [u \in DOMAIN ts \ {t} |-> ts[u]]
<1>1. r = [entries |-> e, timers |-> us]
  <2>1. st = [entries |-> e, timers |-> ts]
    BY DEF Good
  <2>. HIDE DEF e, ts
  <2>. QED BY <2>1 DEF Clear
<1>2. r.entries = e /\ r.timers = us
  BY <1>1
<1>3. \A n : TimersIn(r, n) = TimersIn(st, n) \ {t}
  <2>. HIDE DEF r
  <2>. QED BY <1>2 DEF TimersIn
<1>4. \A n : Orphans(r, n) = Orphans(st, n) \ {t}
  <2>. HIDE DEF r
  <2>. QED BY <1>2, <1>3 DEF Orphans
<1>5. /\ DOMAIN us = DOMAIN st.timers \ {t}
      /\ \A u \in DOMAIN st.timers \ {t} : us[u] = st.timers[u]
  OBVIOUS
<1>. HIDE DEF r, us
<1>. QED BY <1>1, <1>2, <1>3, <1>4, <1>5 DEF r

\* Fewer timers are still good and few.
LEMMA ClearKeeps ==
  ASSUME NEW st, Good(st), NEW i \in Nat, Few(st, i), NEW t
  PROVE  Good(Clear(st, t)) /\ Few(Clear(st, t), i)
<1>. DEFINE r == Clear(st, t)
<1>1. /\ r.entries = st.entries
      /\ r = [entries |-> st.entries, timers |-> r.timers]
      /\ DOMAIN r.timers = DOMAIN st.timers \ {t}
      /\ \A u \in DOMAIN st.timers \ {t} : r.timers[u] = st.timers[u]
      /\ \A n : Orphans(r, n) = Orphans(st, n) \ {t}
  BY ClearIs
<1>. HIDE DEF r
<1>2. Good(r)
  BY <1>1 DEF Good
<1>3. Few(r, i)
  <2>. SUFFICES ASSUME NEW n \in DOMAIN st.entries
                PROVE  /\ IsFiniteSet(Orphans(r, n))
                       /\ Cardinality(Orphans(r, n))
                            < Cardinality(Named(i, n))
    BY <1>1 DEF Few
  <2>1. /\ IsFiniteSet(Orphans(st, n))
        /\ Cardinality(Orphans(st, n)) < Cardinality(Named(i, n))
    BY DEF Few
  <2>2. Orphans(r, n) \in SUBSET Orphans(st, n)
    BY <1>1
  <2>3. /\ IsFiniteSet(Orphans(r, n))
        /\ Cardinality(Orphans(r, n)) <= Cardinality(Orphans(st, n))
    BY <2>1, <2>2, FS_Subset
  <2>4. /\ Cardinality(Orphans(r, n)) \in Nat
        /\ Cardinality(Orphans(st, n)) \in Nat
        /\ Cardinality(Named(i, n)) \in Nat
    BY <2>1, <2>3, FS_CardinalityType, NamedIsFinite
  <2>. QED BY <2>1, <2>3, <2>4
<1>. QED BY <1>2, <1>3 DEF r

\* The timers of a name are no more than its configs.
LEMMA TimersAreFew ==
  ASSUME NEW st, NEW i \in Nat, Few(st, i), NEW n \in DOMAIN st.entries
  PROVE  /\ IsFiniteSet(TimersIn(st, n))
         /\ Cardinality(TimersIn(st, n)) <= Cardinality(Named(i, n))
<1>. DEFINE o == Orphans(st, n)
            x == st.entries[n].timer
<1>1. IsFiniteSet(o) /\ Cardinality(o) < Cardinality(Named(i, n))
  BY DEF Few
<1>2. TimersIn(st, n) \in SUBSET (o \cup {x})
  BY DEF Orphans
<1>. HIDE DEF o, x
<1>3. Cardinality(o) \in Nat /\ Cardinality(Named(i, n)) \in Nat
  BY <1>1, FS_CardinalityType, NamedIsFinite
<1>4. /\ IsFiniteSet(o \cup {x})
      /\ Cardinality(o \cup {x}) = IF x \in o THEN Cardinality(o)
                                   ELSE Cardinality(o) + 1
  BY <1>1, FS_AddElement
<1>5. /\ IsFiniteSet(TimersIn(st, n))
      /\ Cardinality(TimersIn(st, n)) <= Cardinality(o \cup {x})
  BY <1>2, <1>4, FS_Subset
<1>6. Cardinality(TimersIn(st, n)) \in Nat
  BY <1>5, FS_CardinalityType
<1>. QED BY <1>1, <1>3, <1>4, <1>5, <1>6

\* setTimer files one new timer that ends after the delay.
LEMMA SetTimerIs ==
  ASSUME NEW st, Good(st), NEW i \in Nat, i <= MaxConfigs, Few(st, i),
         NEW n \in DOMAIN st.entries, NEW delay \in 0..Period
  PROVE  LET r == SetTimer(st, n, delay)
             t == r.entries[n].timer
         IN  /\ r = [entries |-> r.entries, timers |-> r.timers]
             /\ DOMAIN r.entries = DOMAIN st.entries
             /\ \A m \in DOMAIN st.entries \ {n} : r.entries[m] = st.entries[m]
             /\ r.entries[n] \in Entry
             /\ r.entries[n].schedule = st.entries[n].schedule
             /\ r.entries[n].enabled = st.entries[n].enabled
             /\ t \in Timer /\ t \notin DOMAIN st.timers
             /\ \A m \in DOMAIN st.entries : st.entries[m].timer # t
             /\ DOMAIN r.timers = DOMAIN st.timers \cup {t}
             /\ \A u \in DOMAIN st.timers : r.timers[u] = st.timers[u]
             /\ r.timers[t] \in Armed
             /\ r.timers[t].name = n
             /\ r.timers[t].left + r.timers[t].rest = delay
<1>. DEFINE r == SetTimer(st, n, delay)
            t == FreeTimer(st)
            armed == IF delay > MaxTimeout
                     THEN [name |-> n, left |-> MaxTimeout,
                           rest |-> delay - MaxTimeout]
                     ELSE [name |-> n, left |-> delay, rest |-> 0]
            es == [st.entries EXCEPT ![n].timer = t]
            ts == [u \in DOMAIN st.timers \cup {t} |->
                     IF u = t THEN armed ELSE st.timers[u]]
<1>1. /\ t \in Timer /\ t \notin DOMAIN st.timers
      /\ \A m \in DOMAIN st.entries : st.entries[m].timer # t
  BY FreeTimerIsFree
<1>2. r = [entries |-> es, timers |-> ts]
  BY DEF SetTimer
<1>3. r.entries = es /\ r.timers = ts
  BY <1>2
<1>4. st.entries[n] \in Entry /\ n \in Name
  BY DEF Good
<1>5. es[n] = [st.entries[n] EXCEPT !.timer = t]
  OBVIOUS
<1>6. /\ es[n] \in Entry /\ es[n].timer = t
      /\ es[n].schedule = st.entries[n].schedule
      /\ es[n].enabled = st.entries[n].enabled
  <2>. HIDE DEF t, es
  <2>. QED BY <1>1, <1>4, <1>5 DEF Entry
<1>7. DOMAIN es = DOMAIN st.entries
  OBVIOUS
<1>8. \A m \in DOMAIN st.entries \ {n} : es[m] = st.entries[m]
  OBVIOUS
<1>9. /\ armed \in Armed /\ armed.name = n
      /\ armed.left + armed.rest = delay
  <2>1. CASE delay > MaxTimeout
    <3>1. /\ MaxTimeout \in 0..MaxTimeout /\ delay - MaxTimeout \in 0..Period
          /\ MaxTimeout + (delay - MaxTimeout) = delay
      BY <2>1, SchedulerAssumption DEF SchedulerAssumption
    <3>. QED BY <2>1, <3>1, <1>4 DEF Armed
  <2>2. CASE ~(delay > MaxTimeout)
    <3>1. /\ delay \in 0..MaxTimeout /\ 0 \in 0..Period
          /\ delay + 0 = delay
      BY <2>2, SchedulerAssumption DEF SchedulerAssumption
    <3>. QED BY <2>2, <3>1, <1>4 DEF Armed
  <2>. QED BY <2>1, <2>2
<1>. HIDE DEF armed
<1>10. /\ DOMAIN ts = DOMAIN st.timers \cup {t}
       /\ ts[t] = armed
       /\ \A u \in DOMAIN st.timers : ts[u] = st.timers[u]
  BY <1>1
<1>. HIDE DEF r, t, es, ts
<1>. QED BY <1>1, <1>2, <1>3, <1>6, <1>7, <1>8, <1>9, <1>10 DEF r

\* If the name has room for a timer, setTimer keeps the invariant.
LEMMA SetTimerKeeps ==
  ASSUME NEW st, Good(st), NEW i \in Nat, i <= MaxConfigs, Few(st, i),
         NEW n \in DOMAIN st.entries, NEW delay \in 0..Period,
         Cardinality(TimersIn(st, n)) < Cardinality(Named(i, n))
  PROVE  /\ Good(SetTimer(st, n, delay))
         /\ Few(SetTimer(st, n, delay), i)
<1>. DEFINE r == SetTimer(st, n, delay)
            t == r.entries[n].timer
<1>1. /\ r = [entries |-> r.entries, timers |-> r.timers]
      /\ DOMAIN r.entries = DOMAIN st.entries
      /\ \A m \in DOMAIN st.entries \ {n} : r.entries[m] = st.entries[m]
      /\ r.entries[n] \in Entry
      /\ t \in Timer /\ t \notin DOMAIN st.timers
      /\ \A m \in DOMAIN st.entries : st.entries[m].timer # t
      /\ DOMAIN r.timers = DOMAIN st.timers \cup {t}
      /\ \A u \in DOMAIN st.timers : r.timers[u] = st.timers[u]
      /\ r.timers[t] \in Armed
      /\ r.timers[t].name = n
  BY SetTimerIs
<1>. HIDE DEF r
<1>2. Good(r)
  <2>1. DOMAIN r.entries \subseteq Name /\ DOMAIN r.timers \subseteq Timer
    BY <1>1 DEF Good
  <2>2. \A m \in DOMAIN r.entries : r.entries[m] \in Entry
    BY <1>1 DEF Good
  <2>3. \A u \in DOMAIN r.timers : /\ r.timers[u] \in Armed
                                   /\ r.timers[u].name \in DOMAIN r.entries
    BY <1>1 DEF Good
  <2>4. ASSUME NEW m \in DOMAIN r.entries,
               r.entries[m].timer \in DOMAIN r.timers
        PROVE  r.timers[r.entries[m].timer].name = m
    <3>1. CASE m = n
      BY <3>1, <1>1
    <3>2. CASE m # n
      <4>1. r.entries[m] = st.entries[m] /\ st.entries[m].timer # t
        BY <3>2, <1>1
      <4>2. st.entries[m].timer \in DOMAIN st.timers
        BY <4>1, <2>4, <1>1
      <4>3. st.timers[st.entries[m].timer].name = m
        BY <4>2, <1>1 DEF Good
      <4>. QED BY <4>1, <4>2, <4>3, <1>1
    <3>. QED BY <3>1, <3>2
  <2>5. ASSUME NEW m \in DOMAIN r.entries, NEW k \in DOMAIN r.entries,
               r.entries[m].timer = r.entries[k].timer,
               r.entries[m].timer # NoTimer
        PROVE  m = k
    <3>1. CASE m = n
      BY <3>1, <2>5, <1>1
    <3>2. CASE k = n
      BY <3>2, <2>5, <1>1
    <3>3. CASE m # n /\ k # n
      BY <3>3, <2>5, <1>1 DEF Good
    <3>. QED BY <3>1, <3>2, <3>3
  <2>. HIDE DEF t
  <2>. QED BY <1>1, <2>1, <2>2, <2>3, <2>4, <2>5 DEF Good
<1>3. Few(r, i)
  <2>. SUFFICES ASSUME NEW m \in DOMAIN st.entries
                PROVE  /\ IsFiniteSet(Orphans(r, m))
                       /\ Cardinality(Orphans(r, m))
                            < Cardinality(Named(i, m))
    BY <1>1 DEF Few
  <2>1. CASE m = n
    <3>1. Orphans(r, n) = TimersIn(st, n)
      BY <1>1 DEF Orphans, TimersIn
    <3>2. IsFiniteSet(TimersIn(st, n))
      BY TimersAreFew
    <3>. QED BY <2>1, <3>1, <3>2
  <2>2. CASE m # n
    <3>1. Orphans(r, m) = Orphans(st, m)
      <4>1. TimersIn(r, m) = TimersIn(st, m)
        BY <2>2, <1>1 DEF TimersIn
      <4>. QED BY <2>2, <1>1, <4>1 DEF Orphans
    <3>. QED BY <3>1 DEF Few
  <2>. QED BY <2>1, <2>2
<1>. QED BY <1>2, <1>3 DEF r

-----------------------------------------------------------------------------
(* Scheduling.                                                             *)

\* What scheduleNext makes of a state st, given as a new state r: it changes
\* only the timers of the name, and if the scheduler runs and the heartbeat
\* is enabled with a schedule, then the name waits for its next occurrence.
Rescheduled(st, r, n, running) ==
    /\ DOMAIN r.entries = DOMAIN st.entries
    /\ \A m \in DOMAIN st.entries :
          /\ r.entries[m].schedule = st.entries[m].schedule
          /\ r.entries[m].enabled = st.entries[m].enabled
    /\ \A t \in DOMAIN st.timers :
          st.timers[t].name # n => /\ t \in DOMAIN r.timers
                                   /\ r.timers[t] = st.timers[t]
    /\ running /\ n \in Enabled(st) => Waits(r, n, now)

\* setTimer with the delay of the next occurrence leaves the name waiting.
LEMMA SetTimerReschedules ==
  ASSUME NEW st, Good(st), NEW i \in Nat, i <= MaxConfigs, Few(st, i),
         NEW n \in DOMAIN st.entries, NEW delay \in 0..Period,
         IsNext(st.entries[n].schedule, now, delay)
  PROVE  Rescheduled(st, SetTimer(st, n, delay), n, TRUE)
<1>. DEFINE r == SetTimer(st, n, delay)
            t == r.entries[n].timer
<1>1. /\ DOMAIN r.entries = DOMAIN st.entries
      /\ \A m \in DOMAIN st.entries \ {n} : r.entries[m] = st.entries[m]
      /\ r.entries[n].schedule = st.entries[n].schedule
      /\ r.entries[n].enabled = st.entries[n].enabled
      /\ DOMAIN r.timers = DOMAIN st.timers \cup {t}
      /\ \A u \in DOMAIN st.timers : r.timers[u] = st.timers[u]
      /\ r.timers[t].name = n
      /\ r.timers[t].left + r.timers[t].rest = delay
  BY SetTimerIs
<1>. HIDE DEF r
<1>2. t \in DOMAIN r.timers
  BY <1>1
<1>3. IsNext(r.entries[n].schedule, now, r.timers[t].left + r.timers[t].rest)
  BY <1>1
<1>4. Waits(r, n, now)
  <2>. HIDE DEF t
  <2>. QED BY <1>1, <1>2, <1>3 DEF Waits
<1>5. \A m \in DOMAIN st.entries :
          /\ r.entries[m].schedule = st.entries[m].schedule
          /\ r.entries[m].enabled = st.entries[m].enabled
  BY <1>1
<1>. HIDE DEF t
<1>. QED BY <1>1, <1>4, <1>5 DEF Rescheduled, r

\* scheduleNext keeps the invariant and leaves the name waiting.
LEMMA ScheduleNextKeeps ==
  ASSUME now \in Minute,
         NEW st, Good(st), NEW i \in Nat, i <= MaxConfigs, Few(st, i),
         NEW n \in DOMAIN st.entries
  PROVE  LET r == ScheduleNext(st, n)
         IN  Good(r) /\ Few(r, i) /\ Rescheduled(st, r, n, phase' = "running")
<1>. DEFINE c == Clear(st, st.entries[n].timer)
            schedule == st.entries[n].schedule
            d == UntilNext(schedule)
            r == ScheduleNext(st, n)
<1>1. /\ c.entries = st.entries
      /\ DOMAIN c.timers = DOMAIN st.timers \ {st.entries[n].timer}
      /\ \A u \in DOMAIN st.timers \ {st.entries[n].timer} :
               c.timers[u] = st.timers[u]
      /\ TimersIn(c, n) = Orphans(st, n)
  <2>1. TimersIn(c, n) = TimersIn(st, n) \ {st.entries[n].timer}
    BY ClearIs
  <2>2. TimersIn(c, n) = Orphans(st, n)
    BY <2>1 DEF Orphans
  <2>3. /\ c.entries = st.entries
        /\ DOMAIN c.timers = DOMAIN st.timers \ {st.entries[n].timer}
        /\ \A u \in DOMAIN st.timers \ {st.entries[n].timer} :
               c.timers[u] = st.timers[u]
    BY ClearIs
  <2>. QED BY <2>2, <2>3
<1>2. Good(c) /\ Few(c, i)
  BY ClearKeeps
<1>. HIDE DEF c
<1>3. \A t \in DOMAIN st.timers :
         st.timers[t].name # n => /\ t \in DOMAIN c.timers
                                  /\ c.timers[t] = st.timers[t]
  BY <1>1 DEF Good
<1>4. CASE ~st.entries[n].enabled \/ phase' # "running"
  <2>1. r = st
    BY <1>4 DEF ScheduleNext
  <2>2. ~(phase' = "running" /\ n \in Enabled(st))
    BY <1>4 DEF Enabled
  <2>. HIDE DEF r
  <2>3. Rescheduled(st, r, n, phase' = "running")
    BY <2>1, <2>2 DEF Rescheduled
  <2>. QED BY <2>1, <2>3 DEF r
<1>5. CASE /\ ~(~st.entries[n].enabled \/ phase' # "running")
           /\ schedule = {}
  <2>1. r = c
    BY <1>5 DEF ScheduleNext, c
  <2>2. n \notin Enabled(st)
    BY <1>5 DEF Enabled
  <2>. HIDE DEF r
  <2>3. Rescheduled(st, r, n, phase' = "running")
    BY <1>1, <1>3, <2>1, <2>2 DEF Rescheduled
  <2>. QED BY <1>2, <2>1, <2>3 DEF r
<1>6. CASE /\ ~(~st.entries[n].enabled \/ phase' # "running")
           /\ schedule # {}
  <2>1. r = SetTimer(c, n, d)
    BY <1>6 DEF ScheduleNext, c
  <2>2. schedule \subseteq Minute
    BY SchedulerAssumption DEF SchedulerAssumption, Good, Entry
  <2>3. d \in 1..Period /\ IsNext(schedule, now, d)
    BY <1>6, <2>2, NextOccurrence DEF IsNext
  <2>. HIDE DEF d, r
  <2>4. /\ d \in 0..Period /\ n \in DOMAIN c.entries
        /\ IsNext(c.entries[n].schedule, now, d)
    BY <1>1, <2>3, SchedulerAssumption DEF SchedulerAssumption
  <2>5. Cardinality(TimersIn(c, n)) < Cardinality(Named(i, n))
    BY <1>1 DEF Few
  <2>6. Good(r) /\ Few(r, i)
    BY <1>2, <2>1, <2>4, <2>5, SetTimerKeeps
  <2>7. Rescheduled(c, r, n, TRUE)
    BY <1>2, <2>1, <2>4, SetTimerReschedules
  <2>8. n \in Enabled(c) <=> n \in Enabled(st)
    BY <1>1 DEF Enabled
  <2>9. \A t \in DOMAIN st.timers :
           st.timers[t].name # n => /\ t \in DOMAIN r.timers
                                    /\ r.timers[t] = st.timers[t]
    <3>. SUFFICES ASSUME NEW t \in DOMAIN st.timers, st.timers[t].name # n
                  PROVE  t \in DOMAIN r.timers /\ r.timers[t] = st.timers[t]
      OBVIOUS
    <3>1. t \in DOMAIN c.timers /\ c.timers[t] = st.timers[t]
      BY <1>3
    <3>. QED BY <3>1, <2>7 DEF Rescheduled
  <2>10. Rescheduled(st, r, n, phase' = "running")
    BY <1>1, <2>7, <2>8, <2>9 DEF Rescheduled
  <2>. QED BY <2>6, <2>10 DEF r
<1>. QED BY <1>4, <1>5, <1>6

-----------------------------------------------------------------------------
(* The loop over the configs.                                              *)

\* The recursive function is well defined: it is what the loop computes.
LEMMA LoadedIs ==
  ASSUME Len(configs) \in Nat
  PROVE  /\ Loaded[0] = Here
         /\ \A i \in 1..Len(configs) :
               Loaded[i] = Load(Loaded[i - 1], configs[i])
<1>. DEFINE Is(g, n) ==
              g = [i \in 0..n |->
                     IF i = 0 THEN Here ELSE Load(g[i - 1], configs[i])]
            S == {n \in Nat : \E g : Is(g, n)}
<1>1. 0 \in S
  <2>. DEFINE g == [i \in 0..0 |-> Here]
  <2>1. Is(g, 0)
    OBVIOUS
  <2>. QED BY <2>1
<1>2. ASSUME NEW n \in Nat, n \in S PROVE n + 1 \in S
  <2>1. PICK g : Is(g, n)
    BY <1>2
  <2>. DEFINE h == [i \in 0..n + 1 |->
                      IF i <= n THEN g[i] ELSE Load(g[n], configs[n + 1])]
  <2>2. \A i \in 0..n :
           h[i] = IF i = 0 THEN Here ELSE Load(g[i - 1], configs[i])
    BY <2>1
  <2>3. \A i \in 0..n + 1 :
           h[i] = IF i = 0 THEN Here ELSE Load(h[i - 1], configs[i])
    <3>. TAKE i \in 0..n + 1
    <3>1. CASE i = 0
      <4>1. h[0] = g[0] /\ g[0] = Here
        BY <2>1
      <4>. QED
        BY <3>1, <4>1
    <3>2. CASE i # 0
      <4>1. i - 1 \in 0..n /\ h[i - 1] = g[i - 1]
        BY <3>2
      <4>2. CASE i = n + 1
        BY <4>1, <4>2
      <4>3. CASE i # n + 1
        BY <4>1, <4>3, <2>2, <3>2
      <4>. QED BY <4>2, <4>3
    <3>. QED BY <3>1, <3>2
  <2>4. Is(h, n + 1)
    <3>1. h = [i \in 0..n + 1 |-> h[i]]
      OBVIOUS
    <3>. HIDE DEF h
    <3>. QED BY <2>3, <3>1
  <2>. HIDE DEF h, Is
  <2>. QED BY <2>4
<1>3. Len(configs) \in S
  <2>. HIDE DEF S
  <2>. QED BY <1>1, <1>2, Induction
<1>4. Is(Loaded, Len(configs))
  BY <1>3 DEF Loaded
<1>. QED BY <1>4

\* Every enabled heartbeat waits, but for those at work.
AllWait(st, minute, working) ==
    \A n \in Enabled(st) \ working : Waits(st, n, minute)

\* What was rescheduled keeps the other names waiting.
LEMMA OthersWait ==
  ASSUME NEW st, NEW r, NEW n, NEW running,
         Rescheduled(st, r, n, running),
         NEW m \in Enabled(st), m # n, NEW minute, Waits(st, m, minute)
  PROVE  m \in Enabled(r) /\ Waits(r, m, minute)
<1>1. PICK t \in DOMAIN st.timers :
        /\ st.timers[t].name = m
        /\ IsNext(st.entries[m].schedule, minute,
                  st.timers[t].left + st.timers[t].rest)
  BY DEF Waits
<1>2. t \in DOMAIN r.timers /\ r.timers[t] = st.timers[t]
  BY <1>1 DEF Rescheduled
<1>3. m \in DOMAIN st.entries /\ r.entries[m].schedule = st.entries[m].schedule
  BY DEF Rescheduled, Enabled
<1>4. Waits(r, m, minute)
  BY <1>1, <1>2, <1>3 DEF Waits
<1>5. m \in Enabled(r)
  BY <1>3 DEF Enabled, Rescheduled
<1>. QED BY <1>4, <1>5

\* So all wait after scheduleNext of one that may have been at work.
LEMMA AllWaitAgain ==
  ASSUME NEW st, NEW r, NEW n, NEW working,
         Rescheduled(st, r, n, TRUE), AllWait(st, now, working \cup {n})
  PROVE  AllWait(r, now, working \ {n})
<1>. SUFFICES ASSUME NEW m \in Enabled(r), m \notin working \ {n}
              PROVE  Waits(r, m, now)
  BY DEF AllWait
<1>1. m \in Enabled(st)
  BY DEF Enabled, Rescheduled
<1>2. CASE m = n
  BY <1>1, <1>2 DEF Rescheduled
<1>3. CASE m # n
  <2>1. Waits(st, m, now)
    BY <1>1, <1>3 DEF AllWait
  <2>. QED BY <1>1, <1>3, <2>1, OthersWait
<1>. QED BY <1>2, <1>3

\* One more config is loaded: its entry may replace one whose timer stays
\* behind, which is why a name may have as many timers as configs.
LEMMA LoadKeeps ==
  ASSUME now \in Minute, phase' = "running",
         NEW i \in Nat, i < MaxConfigs, configs[i + 1] \in Config,
         NEW st, Good(st), Few(st, i), AllWait(st, now, {})
  PROVE  LET r == Load(st, configs[i + 1])
         IN  Good(r) /\ Few(r, i + 1) /\ AllWait(r, now, {})
<1>. DEFINE c == configs[i + 1]
            k == c.name
            entry == [schedule |-> c.schedule, enabled |-> c.enabled,
                      timer |-> NoTimer]
            es == [n \in DOMAIN st.entries \cup {k} |->
                     IF n = k THEN entry ELSE st.entries[n]]
            ld == [st EXCEPT !.entries =
                     [n \in DOMAIN @ \cup {k} |->
                        IF n = k THEN entry ELSE @[n]]]
            r == Load(st, c)
<1>1. ld = [entries |-> es, timers |-> st.timers]
  <2>1. st = [entries |-> st.entries, timers |-> st.timers]
    BY DEF Good
  <2>. DEFINE e == st.entries
              ts == st.timers
  <2>. HIDE DEF e, ts
  <2>2. st = [entries |-> e, timers |-> ts]
    BY <2>1 DEF e, ts
  <2>3. ld = [entries |-> [n \in DOMAIN e \cup {k} |->
                             IF n = k THEN entry ELSE e[n]],
              timers |-> ts]
    BY <2>2
  <2>. QED BY <2>3 DEF e, ts
<1>2. r = IF c.enabled THEN ScheduleNext(ld, k) ELSE ld
  BY DEF Load
<1>3. entry \in Entry /\ k \in Name /\ c.enabled \in BOOLEAN
  BY DEF Entry, Config
<1>4. /\ entry.timer = NoTimer /\ entry.schedule = c.schedule
      /\ entry.enabled = c.enabled
  OBVIOUS
<1>. HIDE DEF entry, r
<1>5. /\ DOMAIN es = DOMAIN st.entries \cup {k}
      /\ es[k] = entry
      /\ \A n \in DOMAIN st.entries \ {k} : es[n] = st.entries[n]
  OBVIOUS
<1>6. /\ ld = [entries |-> ld.entries, timers |-> ld.timers]
      /\ ld.entries = es /\ ld.timers = st.timers
  BY <1>1
<1>. HIDE DEF ld, es
<1>7. Good(ld)
  <2>1. NoTimer \notin DOMAIN st.timers
    BY SchedulerAssumption DEF SchedulerAssumption, Good
  <2>2. /\ DOMAIN ld.entries \subseteq Name
        /\ \A n \in DOMAIN ld.entries : ld.entries[n] \in Entry
        /\ DOMAIN ld.timers \subseteq Timer
        /\ \A t \in DOMAIN ld.timers :
              /\ ld.timers[t] \in Armed
              /\ ld.timers[t].name \in DOMAIN ld.entries
    BY <1>3, <1>5, <1>6 DEF Good
  <2>3. \A n \in DOMAIN ld.entries :
           LET t == ld.entries[n].timer
           IN  t \in DOMAIN ld.timers => ld.timers[t].name = n
    BY <1>4, <1>5, <1>6, <2>1 DEF Good
  <2>4. \A m, n \in DOMAIN ld.entries :
          /\ ld.entries[m].timer = ld.entries[n].timer
          /\ ld.entries[m].timer # NoTimer
          => m = n
    BY <1>4, <1>5, <1>6 DEF Good
  <2>. QED BY <1>6, <2>2, <2>3, <2>4 DEF Good
<1>8. Few(ld, i + 1)
  <2>. SUFFICES ASSUME NEW n \in DOMAIN ld.entries
                PROVE  /\ IsFiniteSet(Orphans(ld, n))
                       /\ Cardinality(Orphans(ld, n))
                            < Cardinality(Named(i + 1, n))
    BY DEF Few
  <2>1. TimersIn(ld, n) = TimersIn(st, n)
    BY <1>6 DEF TimersIn
  <2>2. /\ IsFiniteSet(Named(i, n)) /\ Cardinality(Named(i, n)) \in Nat
        /\ IsFiniteSet(Named(i + 1, n)) /\ Cardinality(Named(i + 1, n)) \in Nat
    BY NamedIsFinite
  <2>3. CASE n # k
    <3>1. Orphans(ld, n) = Orphans(st, n) /\ n \in DOMAIN st.entries
      BY <1>5, <1>6, <2>1, <2>3 DEF Orphans
    <3>2. Named(i + 1, n) = Named(i, n)
      BY <2>3 DEF Named
    <3>. QED BY <3>1, <3>2 DEF Few
  <2>4. CASE n = k
    <3>1. /\ Named(i + 1, n) = Named(i, n) \cup {i + 1}
          /\ i + 1 \notin Named(i, n)
      BY <2>4 DEF Named
    <3>2. Cardinality(Named(i + 1, n)) = Cardinality(Named(i, n)) + 1
      BY <2>2, <3>1, FS_AddElement
    <3>3. Orphans(ld, n) \in SUBSET TimersIn(st, n)
      BY <2>1 DEF Orphans
    <3>4. /\ IsFiniteSet(TimersIn(st, n))
          /\ Cardinality(TimersIn(st, n)) <= Cardinality(Named(i, n))
      <4>1. CASE n \in DOMAIN st.entries
        BY <4>1, TimersAreFew
      <4>2. CASE n \notin DOMAIN st.entries
        <5>1. TimersIn(st, n) = {}
          BY <4>2 DEF TimersIn, Good
        <5>. QED BY <2>2, <5>1, FS_EmptySet
      <4>. QED BY <4>1, <4>2
    <3>5. /\ IsFiniteSet(Orphans(ld, n))
          /\ Cardinality(Orphans(ld, n)) <= Cardinality(TimersIn(st, n))
      BY <3>3, <3>4, FS_Subset
    <3>6. /\ Cardinality(Orphans(ld, n)) \in Nat
          /\ Cardinality(TimersIn(st, n)) \in Nat
      BY <3>4, <3>5, FS_CardinalityType
    <3>. QED BY <2>2, <3>2, <3>4, <3>5, <3>6
  <2>. QED BY <2>3, <2>4
<1>9. AllWait(ld, now, {k})
  <2>. SUFFICES ASSUME NEW n \in Enabled(ld), n # k PROVE Waits(ld, n, now)
    BY DEF AllWait
  <2>1. n \in DOMAIN st.entries /\ ld.entries[n] = st.entries[n]
    BY <1>5, <1>6 DEF Enabled
  <2>2. n \in Enabled(st)
    BY <2>1 DEF Enabled
  <2>3. Waits(st, n, now)
    BY <2>2 DEF AllWait
  <2>. QED BY <1>6, <2>1, <2>3 DEF Waits
<1>10. CASE c.enabled
  <2>1. k \in DOMAIN ld.entries /\ i + 1 \in Nat /\ i + 1 <= MaxConfigs
    BY <1>5, <1>6, SchedulerAssumption DEF SchedulerAssumption
  <2>2. r = ScheduleNext(ld, k)
    BY <1>2, <1>10
  <2>3. Good(r) /\ Few(r, i + 1) /\ Rescheduled(ld, r, k, phase' = "running")
    BY <1>7, <1>8, <2>1, <2>2, ScheduleNextKeeps
  <2>4. Rescheduled(ld, r, k, TRUE)
    BY <2>3 DEF Rescheduled
  <2>5. AllWait(ld, now, {} \cup {k})
    BY <1>9
  <2>6. AllWait(r, now, {} \ {k})
    BY <2>4, <2>5, AllWaitAgain
  <2>7. AllWait(r, now, {})
    BY <2>6 DEF AllWait
  <2>. QED BY <2>3, <2>7 DEF r
<1>11. CASE ~c.enabled
  <2>1. r = ld
    BY <1>2, <1>11
  <2>2. k \notin Enabled(ld)
    BY <1>4, <1>5, <1>6, <1>11 DEF Enabled
  <2>3. AllWait(ld, now, {})
    BY <1>9, <2>2 DEF AllWait
  <2>. QED BY <1>7, <1>8, <2>1, <2>3 DEF r
<1>. QED BY <1>3, <1>10, <1>11

-----------------------------------------------------------------------------
(* The inductive invariant.                                                *)

AtWork == {n \in Name : runs[n] > 0}

SchedulerInv ==
    /\ configs \in BoundedSeq(Config, MaxConfigs)
    /\ phase \in {"new", "running", "stopped"}
    /\ now \in Minute
    /\ runs \in [Name -> 0..MaxRuns]
    /\ AtWork \subseteq DOMAIN entries
    /\ phase = "new" => DOMAIN entries = {} /\ DOMAIN timers = {}
    /\ Good(Here)
    /\ Few(Here, Len(configs))
    /\ phase = "running" => AllWait(Here, now, AtWork)

\* The entries and timers after a step.
There == [entries |-> entries', timers |-> timers']

\* The configs are a list of no more than MaxConfigs.
LEMMA ConfigsAre ==
  ASSUME configs \in BoundedSeq(Config, MaxConfigs)
  PROVE  /\ Len(configs) \in Nat /\ Len(configs) <= MaxConfigs
         /\ \A i \in 1..Len(configs) : configs[i] \in Config
<1>1. PICK m \in 0..MaxConfigs : configs \in [1..m -> Config]
  BY DEF BoundedSeq, SeqOf
<1>2. m \in Nat /\ m <= MaxConfigs
  BY SchedulerAssumption DEF SchedulerAssumption
<1>3. configs \in Seq(Config) /\ Len(configs) = m
  BY <1>1, <1>2
<1>. QED BY <1>1, <1>2, <1>3

\* It is enough to look at the new entries and timers.
LEMMA NextState ==
  ASSUME configs' = configs, Good(There), Few(There, Len(configs))
  PROVE  Good(Here)' /\ Few(Here, Len(configs))'
<1>1. Good(Here)'
  BY DEF Good, Here, There, Entry, Armed
<1>2. Few(Here, Len(configs))'
  BY DEF Few, Orphans, TimersIn, Named, Here, There
<1>. QED BY <1>1, <1>2

\* The same about who waits.
LEMMA NextWait ==
  ASSUME AllWait(There, now', AtWork')
  PROVE  AllWait(Here, now, AtWork)'
BY DEF AllWait, Waits, IsNext, Enabled, Here, There

\* A state that became r is r.
LEMMA Became ==
  ASSUME NEW r, Good(r), entries' = r.entries, timers' = r.timers
  PROVE  There = r
BY DEF Good, There

\* Before the start nothing exists.
LEMMA SchedulerInit == Init => SchedulerInv
<1>. SUFFICES ASSUME Init PROVE SchedulerInv
  OBVIOUS
<1>. USE SchedulerAssumption DEF SchedulerAssumption
<1>1. DOMAIN entries = {} /\ DOMAIN timers = {}
  BY DEF Init
<1>2. Good(Here) /\ Few(Here, Len(configs))
  BY <1>1 DEF Good, Few, Here
<1>3. now \in Minute /\ runs \in [Name -> 0..MaxRuns] /\ AtWork = {}
  BY DEF Init, Minute, AtWork
<1>. QED BY <1>1, <1>2, <1>3 DEF Init, SchedulerInv

\* start loads one config after the other.
LEMMA StartKeeps ==
  ASSUME SchedulerInv, Start
  PROVE  SchedulerInv'
<1>1. /\ Len(configs) \in Nat /\ Len(configs) <= MaxConfigs
      /\ \A i \in 1..Len(configs) : configs[i] \in Config
  BY ConfigsAre DEF SchedulerInv
<1>. DEFINE S == {i \in Nat : i <= Len(configs) =>
                    /\ Good(Loaded[i]) /\ Few(Loaded[i], i)
                    /\ AllWait(Loaded[i], now, {})}
<1>2. 0 \in S
  <2>1. Loaded[0] = Here
    BY <1>1, LoadedIs
  <2>2. DOMAIN entries = {}
    BY DEF Start, SchedulerInv
  <2>3. Good(Here) /\ Few(Here, 0) /\ AllWait(Here, now, {})
    BY <2>2 DEF SchedulerInv, Few, AllWait, Enabled, Here
  <2>. QED BY <2>1, <2>3
<1>3. ASSUME NEW i \in Nat, i \in S PROVE i + 1 \in S
  <2>. SUFFICES ASSUME i + 1 <= Len(configs)
                PROVE  /\ Good(Loaded[i + 1]) /\ Few(Loaded[i + 1], i + 1)
                       /\ AllWait(Loaded[i + 1], now, {})
    OBVIOUS
  <2>1. i + 1 \in 1..Len(configs) /\ i < MaxConfigs /\ (i + 1) - 1 = i
    BY <1>1, SchedulerAssumption DEF SchedulerAssumption
  <2>2. Loaded[i + 1] = Load(Loaded[i], configs[i + 1])
    BY <1>1, <2>1, LoadedIs
  <2>3. Good(Loaded[i]) /\ Few(Loaded[i], i) /\ AllWait(Loaded[i], now, {})
    BY <1>1, <1>3
  <2>4. now \in Minute /\ phase' = "running" /\ configs[i + 1] \in Config
    BY <1>1, <2>1 DEF SchedulerInv, Start
  <2>. DEFINE st == Loaded[i]
  <2>. HIDE DEF st
  <2>5. LET r == Load(st, configs[i + 1])
        IN  Good(r) /\ Few(r, i + 1) /\ AllWait(r, now, {})
    BY <2>1, <2>3, <2>4, LoadKeeps DEF st
  <2>. QED BY <2>2, <2>5 DEF st
<1>4. Len(configs) \in S
  <2>. HIDE DEF S
  <2>. QED BY <1>1, <1>2, <1>3, Induction
<1>. DEFINE r == Loaded[Len(configs)]
<1>5. Good(r) /\ Few(r, Len(configs)) /\ AllWait(r, now, {})
  BY <1>1, <1>4
<1>6. entries' = r.entries /\ timers' = r.timers
  BY DEF Start, Become
<1>. HIDE DEF r, S
<1>7. There = r
  BY <1>5, <1>6, Became
<1>8. /\ configs' = configs /\ phase' = "running" /\ now' = now /\ runs' = runs
  BY DEF Start
<1>9. Good(Here)' /\ Few(Here, Len(configs))'
  BY <1>5, <1>7, <1>8, NextState
<1>10. AllWait(There, now', AtWork')
  BY <1>5, <1>7, <1>8 DEF AllWait
<1>11. AllWait(Here, now, AtWork)'
  BY <1>10, NextWait
<1>12. AtWork' \subseteq DOMAIN entries'
  BY <1>8 DEF AtWork, SchedulerInv, Start
<1>. QED BY <1>8, <1>9, <1>11, <1>12 DEF SchedulerInv

\* stop clears what is filed; the orphans stay.
LEMMA StopKeeps ==
  ASSUME SchedulerInv, Stop
  PROVE  SchedulerInv'
<1>1. /\ configs' = configs /\ phase' = "stopped" /\ now' = now /\ runs' = runs
      /\ DOMAIN entries' = DOMAIN entries
      /\ \A n \in DOMAIN entries :
            entries'[n] = [entries[n] EXCEPT !.timer = NoTimer]
      /\ DOMAIN timers' = DOMAIN timers
                            \ {entries[n].timer : n \in DOMAIN entries}
      /\ \A t \in DOMAIN timers' : timers'[t] = timers[t]
  BY DEF Stop
<1>2. Good(Here) /\ Few(Here, Len(configs))
  BY DEF SchedulerInv
<1>3. \A n \in DOMAIN entries : /\ entries'[n] \in Entry
                                /\ entries'[n].timer = NoTimer
  <2>1. \A n \in DOMAIN entries : entries[n] \in Entry
    BY <1>2 DEF Good, Here
  <2>. QED BY <1>1, <2>1 DEF Entry
<1>4. Good(There)
  <2>1. NoTimer \notin DOMAIN timers'
    BY <1>1, <1>2, SchedulerAssumption DEF SchedulerAssumption, Good, Here
  <2>. QED BY <1>1, <1>2, <1>3, <2>1 DEF Good, Here, There
<1>5. Few(There, Len(configs))
  <2>. SUFFICES ASSUME NEW n \in DOMAIN entries
                PROVE  /\ IsFiniteSet(Orphans(There, n))
                       /\ Cardinality(Orphans(There, n))
                            < Cardinality(Named(Len(configs), n))
    BY <1>1 DEF Few, There
  <2>1. Orphans(There, n) \in SUBSET Orphans(Here, n)
    BY <1>1 DEF Orphans, TimersIn, There, Here
  <2>2. /\ IsFiniteSet(Orphans(Here, n))
        /\ Cardinality(Orphans(Here, n)) < Cardinality(Named(Len(configs), n))
    BY <1>2 DEF Few, Here
  <2>3. /\ IsFiniteSet(Orphans(There, n))
        /\ Cardinality(Orphans(There, n)) <= Cardinality(Orphans(Here, n))
    BY <2>1, <2>2, FS_Subset
  <2>4. /\ Cardinality(Orphans(There, n)) \in Nat
        /\ Cardinality(Orphans(Here, n)) \in Nat
        /\ Cardinality(Named(Len(configs), n)) \in Nat
    <3>1. Len(configs) \in Nat
      BY ConfigsAre DEF SchedulerInv
    <3>. QED BY <2>2, <2>3, <3>1, FS_CardinalityType, NamedIsFinite
  <2>. QED BY <2>2, <2>3, <2>4
<1>6. Good(Here)' /\ Few(Here, Len(configs))'
  BY <1>1, <1>4, <1>5, NextState
<1>7. AtWork' \subseteq DOMAIN entries'
  BY <1>1 DEF AtWork, SchedulerInv
<1>. QED BY <1>1, <1>6, <1>7 DEF SchedulerInv

\* Enabling a heartbeat, also one that is enabled, waiting or at work.
LEMMA EnableKeeps ==
  ASSUME SchedulerInv, NEW n \in Name, Enable(n)
  PROVE  SchedulerInv'
<1>. DEFINE i == Len(configs)
            st == [Here EXCEPT !.entries[n].enabled = TRUE]
            es == [entries EXCEPT ![n].enabled = TRUE]
            r == ScheduleNext(st, n)
<1>1. /\ n \in DOMAIN entries
      /\ entries' = r.entries /\ timers' = r.timers
      /\ phase' = phase /\ configs' = configs /\ now' = now /\ runs' = runs
  BY DEF Enable, Become
<1>. HIDE DEF r
<1>2. Good(Here) /\ Few(Here, i) /\ now \in Minute
  BY DEF SchedulerInv
<1>3. i \in Nat /\ i <= MaxConfigs
  BY ConfigsAre DEF SchedulerInv
<1>4. st = [entries |-> es, timers |-> timers]
  <2>1. st = [Here EXCEPT !.entries =
                [Here.entries EXCEPT ![n].enabled = TRUE]]
    OBVIOUS
  <2>2. /\ Here.entries = entries
        /\ Here = [entries |-> entries, timers |-> timers]
    BY DEF Here
  <2>3. st = [Here EXCEPT !.entries = es]
    BY <2>1, <2>2
  <2>. HIDE DEF es, st
  <2>. QED BY <2>2, <2>3
<1>5. st.entries = es /\ st.timers = timers
  BY <1>4
<1>6. /\ DOMAIN es = DOMAIN entries
      /\ \A m \in DOMAIN entries \ {n} : es[m] = entries[m]
      /\ es[n] = [entries[n] EXCEPT !.enabled = TRUE]
  BY <1>1
<1>7. /\ es[n] \in Entry /\ es[n].timer = entries[n].timer
      /\ es[n].schedule = entries[n].schedule
  <2>1. entries[n] \in Entry
    BY <1>1, <1>2 DEF Good, Here
  <2>. HIDE DEF es
  <2>. QED BY <1>6, <2>1 DEF Entry
<1>. HIDE DEF st, es
<1>8. \A m \in DOMAIN entries : /\ es[m].timer = entries[m].timer
                                /\ es[m] \in Entry
  BY <1>2, <1>6, <1>7 DEF Good, Here
<1>9. Good(st)
  <2>1. st = [entries |-> st.entries, timers |-> st.timers]
    BY <1>4, <1>5
  <2>. QED BY <1>2, <1>5, <1>6, <1>8, <2>1 DEF Good, Here
<1>10. Few(st, i)
  <2>1. \A m \in DOMAIN entries : Orphans(st, m) = Orphans(Here, m)
    BY <1>5, <1>8 DEF Orphans, TimersIn, Here
  <2>. QED BY <1>2, <1>5, <1>6, <2>1 DEF Few, Here
<1>11. n \in DOMAIN st.entries
  BY <1>1, <1>5, <1>6
<1>. HIDE DEF i
<1>12. Good(r) /\ Few(r, i) /\ Rescheduled(st, r, n, phase' = "running")
  BY <1>2, <1>3, <1>9, <1>10, <1>11, ScheduleNextKeeps DEF r
<1>13. There = r
  BY <1>1, <1>12, Became
<1>14. Good(Here)' /\ Few(Here, Len(configs))'
  BY <1>1, <1>12, <1>13, NextState DEF i
<1>15. ASSUME phase = "running" PROVE AllWait(Here, now, AtWork)'
  <2>1. AllWait(st, now, AtWork \cup {n})
    <3>. SUFFICES ASSUME NEW m \in Enabled(st), m \notin AtWork, m # n
                  PROVE  Waits(st, m, now)
      BY DEF AllWait
    <3>1. m \in Enabled(Here) /\ st.entries[m] = Here.entries[m]
      BY <1>5, <1>6 DEF Enabled, Here
    <3>2. Waits(Here, m, now)
      BY <1>15, <3>1 DEF SchedulerInv, AllWait
    <3>. QED BY <1>5, <3>1, <3>2 DEF Waits, Here
  <2>2. Rescheduled(st, r, n, TRUE)
    BY <1>1, <1>12, <1>15 DEF Rescheduled
  <2>3. AllWait(r, now, AtWork \ {n})
    BY <2>1, <2>2, AllWaitAgain
  <2>4. AllWait(There, now', AtWork')
    BY <1>1, <1>13, <2>3 DEF AllWait, AtWork
  <2>. QED BY <2>4, NextWait
<1>16. AtWork' \subseteq DOMAIN entries' /\ DOMAIN entries' = DOMAIN entries
  <2>1. DOMAIN r.entries = DOMAIN entries
    BY <1>5, <1>6, <1>12 DEF Rescheduled
  <2>. QED BY <1>1, <2>1 DEF AtWork, SchedulerInv
<1>17. phase # "new"
  BY <1>1 DEF SchedulerInv
<1>. QED BY <1>1, <1>14, <1>15, <1>16, <1>17 DEF SchedulerInv

\* Disabling one clears its filed timer; nobody waits for it.
LEMMA DisableKeeps ==
  ASSUME SchedulerInv, NEW n \in Name, Disable(n)
  PROVE  SchedulerInv'
<1>. DEFINE i == Len(configs)
            c == Clear(Here, entries[n].timer)
            es == [entries EXCEPT ![n].enabled = FALSE,
                                  ![n].timer = NoTimer]
            st == [c EXCEPT !.entries[n].enabled = FALSE,
                            !.entries[n].timer = NoTimer]
<1>1. /\ n \in DOMAIN entries
      /\ entries' = st.entries /\ timers' = st.timers
      /\ phase' = phase /\ configs' = configs /\ now' = now /\ runs' = runs
  BY DEF Disable, Become
<1>2. Good(Here) /\ Few(Here, i)
  BY DEF SchedulerInv
<1>3. i \in Nat
  BY ConfigsAre DEF SchedulerInv
<1>4. /\ c.entries = Here.entries
      /\ c = [entries |-> Here.entries, timers |-> c.timers]
      /\ DOMAIN c.timers = DOMAIN Here.timers \ {entries[n].timer}
      /\ \A u \in DOMAIN Here.timers \ {entries[n].timer} :
               c.timers[u] = Here.timers[u]
      /\ \A m : TimersIn(c, m) = TimersIn(Here, m) \ {entries[n].timer}
      /\ \A m : Orphans(c, m) = Orphans(Here, m) \ {entries[n].timer}
  BY <1>2, ClearIs
<1>5. Good(c) /\ Few(c, i)
  <2>. HIDE DEF i
  <2>. QED BY <1>2, <1>3, ClearKeeps
<1>6. Here.entries = entries /\ Here.timers = timers
  BY DEF Here
<1>. HIDE DEF c
<1>7. st = [entries |-> es, timers |-> c.timers]
  <2>. DEFINE e1 == [c.entries EXCEPT ![n].enabled = FALSE]
              e2 == [e1 EXCEPT ![n].timer = NoTimer]
  <2>1. st = [[c EXCEPT !.entries = e1] EXCEPT !.entries[n].timer = NoTimer]
    OBVIOUS
  <2>2. [c EXCEPT !.entries = e1] = [entries |-> e1, timers |-> c.timers]
    <3>. HIDE DEF e1
    <3>. QED BY <1>4
  <2>3. st = [entries |-> e2, timers |-> c.timers]
    <3>. HIDE DEF e1
    <3>. DEFINE ts == c.timers
                d == [entries |-> e1, timers |-> ts]
    <3>1. st = [d EXCEPT !.entries[n].timer = NoTimer]
      BY <2>1, <2>2
    <3>2. d.entries = e1 /\ d = [entries |-> e1, timers |-> ts]
      OBVIOUS
    <3>. HIDE DEF d, ts, st
    <3>3. st = [d EXCEPT !.entries = [d.entries EXCEPT ![n].timer = NoTimer]]
      BY <3>1
    <3>4. st = [d EXCEPT !.entries = e2]
      BY <3>2, <3>3
    <3>. HIDE DEF e2
    <3>. QED BY <3>2, <3>4 DEF ts
  <2>4. e2 = es
    BY <1>4, <1>6
  <2>. HIDE DEF e1, e2, st, es
  <2>. QED BY <2>3, <2>4
<1>8. st.entries = es /\ st.timers = c.timers
  BY <1>7
<1>9. /\ DOMAIN es = DOMAIN entries
      /\ \A m \in DOMAIN entries \ {n} : es[m] = entries[m]
      /\ es[n] = [entries[n] EXCEPT !.enabled = FALSE, !.timer = NoTimer]
  BY <1>1
<1>10. /\ es[n] \in Entry /\ es[n].timer = NoTimer
       /\ es[n].enabled = FALSE
  <2>1. entries[n] \in Entry
    BY <1>1, <1>2 DEF Good, Here
  <2>. HIDE DEF es
  <2>. QED BY <1>9, <2>1 DEF Entry
<1>. HIDE DEF st, es
<1>11. NoTimer \notin DOMAIN c.timers
  BY <1>5, SchedulerAssumption DEF SchedulerAssumption, Good
<1>12. Good(st)
  <2>1. st = [entries |-> st.entries, timers |-> st.timers]
    BY <1>7, <1>8
  <2>2. /\ DOMAIN st.entries \subseteq Name
        /\ \A m \in DOMAIN st.entries : st.entries[m] \in Entry
        /\ DOMAIN st.timers \subseteq Timer
        /\ \A t \in DOMAIN st.timers :
              /\ st.timers[t] \in Armed
              /\ st.timers[t].name \in DOMAIN st.entries
    BY <1>4, <1>5, <1>6, <1>8, <1>9, <1>10 DEF Good
  <2>3. \A m \in DOMAIN st.entries :
           LET t == st.entries[m].timer
           IN  t \in DOMAIN st.timers => st.timers[t].name = m
    <3>1. \A m \in DOMAIN st.entries \ {n} : st.entries[m] = c.entries[m]
      BY <1>4, <1>6, <1>8, <1>9
    <3>2. st.entries[n].timer = NoTimer /\ st.timers = c.timers
      BY <1>8, <1>10
    <3>3. DOMAIN st.entries = DOMAIN c.entries
      BY <1>4, <1>6, <1>8, <1>9
    <3>. QED BY <1>5, <1>11, <3>1, <3>2, <3>3 DEF Good
  <2>4. \A m, k \in DOMAIN st.entries :
          /\ st.entries[m].timer = st.entries[k].timer
          /\ st.entries[m].timer # NoTimer
          => m = k
    <3>1. \A m \in DOMAIN st.entries \ {n} : st.entries[m] = c.entries[m]
      BY <1>4, <1>6, <1>8, <1>9
    <3>2. st.entries[n].timer = NoTimer
      BY <1>8, <1>10
    <3>3. DOMAIN st.entries = DOMAIN c.entries
      BY <1>4, <1>6, <1>8, <1>9
    <3>. QED BY <1>5, <3>1, <3>2, <3>3 DEF Good
  <2>. QED BY <2>1, <2>2, <2>3, <2>4 DEF Good
<1>13. Few(st, i)
  <2>1. \A m \in DOMAIN entries : Orphans(st, m) = Orphans(c, m)
    <3>. TAKE m \in DOMAIN entries
    <3>1. CASE m = n
      <4>1. NoTimer \notin TimersIn(c, n)
        BY <1>11 DEF TimersIn
      <4>2. entries[n].timer \notin TimersIn(c, n)
        BY <1>4 DEF TimersIn
      <4>3. TimersIn(st, n) = TimersIn(c, n)
        BY <1>8 DEF TimersIn
      <4>. QED BY <1>4, <1>6, <1>8, <1>10, <3>1, <4>1, <4>2, <4>3 DEF Orphans
    <3>2. CASE m # n
      BY <1>4, <1>6, <1>8, <1>9, <3>2 DEF Orphans, TimersIn
    <3>. QED BY <3>1, <3>2
  <2>. QED BY <1>4, <1>5, <1>6, <1>8, <1>9, <2>1 DEF Few
<1>14. There = st
  BY <1>1, <1>12, Became
<1>15. Good(Here)' /\ Few(Here, Len(configs))'
  BY <1>1, <1>12, <1>13, <1>14, NextState
<1>16. ASSUME phase = "running" PROVE AllWait(Here, now, AtWork)'
  <2>1. AllWait(There, now', AtWork')
    <3>. SUFFICES ASSUME NEW m \in Enabled(st), m \notin AtWork
                  PROVE  Waits(st, m, now)
      BY <1>1, <1>14 DEF AllWait, AtWork
    <3>1. m # n /\ m \in DOMAIN entries /\ st.entries[m] = entries[m]
      BY <1>8, <1>9, <1>10 DEF Enabled
    <3>2. m \in Enabled(Here)
      BY <3>1, <1>6 DEF Enabled
    <3>3. PICK t \in DOMAIN timers :
            /\ timers[t].name = m
            /\ IsNext(entries[m].schedule, now,
                      timers[t].left + timers[t].rest)
      BY <1>6, <1>16, <3>2 DEF SchedulerInv, AllWait, Waits
    <3>4. t # entries[n].timer
      BY <1>1, <1>2, <1>6, <3>1, <3>3 DEF Good
    <3>5. t \in DOMAIN st.timers /\ st.timers[t] = timers[t]
      BY <1>4, <1>6, <1>8, <3>3, <3>4
    <3>. QED BY <3>1, <3>3, <3>5 DEF Waits
  <2>. QED BY <2>1, NextWait
<1>17. AtWork' \subseteq DOMAIN entries' /\ phase # "new"
  BY <1>1, <1>8, <1>9 DEF AtWork, SchedulerInv
<1>. QED BY <1>1, <1>15, <1>16, <1>17 DEF SchedulerInv

\* A minute passes: every leg and every wait is a minute shorter.
LEMMA TickKeeps ==
  ASSUME SchedulerInv, Tick
  PROVE  SchedulerInv'
<1>. DEFINE i == Len(configs)
<1>1. /\ configs' = configs /\ phase' = phase /\ runs' = runs
      /\ entries' = entries
      /\ now' = (now + 1) % Period
      /\ DOMAIN timers' = DOMAIN timers
      /\ \A t \in DOMAIN timers :
            /\ timers[t].left > 0
            /\ timers'[t] = [timers[t] EXCEPT !.left = @ - 1]
  BY DEF Tick
<1>2. Good(Here) /\ Few(Here, i) /\ now \in 0..(Period - 1)
  BY DEF SchedulerInv, Minute
<1>3. \A t \in DOMAIN timers :
         /\ timers[t] \in Armed /\ timers'[t] \in Armed
         /\ timers'[t].name = timers[t].name
         /\ timers'[t].left = timers[t].left - 1
         /\ timers'[t].rest = timers[t].rest
  <2>. TAKE t \in DOMAIN timers
  <2>1. timers[t] \in Armed
    BY <1>2 DEF Good, Here
  <2>2. timers[t].left - 1 \in 0..MaxTimeout
    BY <1>1, <2>1, SchedulerAssumption DEF SchedulerAssumption, Armed
  <2>. QED BY <1>1, <2>1, <2>2 DEF Armed
<1>4. Good(There)
  BY <1>1, <1>2, <1>3 DEF Good, Here, There
<1>5. Few(There, i)
  <2>1. \A n : Orphans(There, n) = Orphans(Here, n)
    BY <1>1, <1>3 DEF Orphans, TimersIn, Here, There
  <2>. QED BY <1>1, <1>2, <2>1 DEF Few, Here, There
<1>6. Good(Here)' /\ Few(Here, Len(configs))'
  BY <1>1, <1>4, <1>5, NextState
<1>7. now' \in Minute
  BY <1>1, <1>2, Nearer, SchedulerAssumption DEF SchedulerAssumption, Minute
<1>8. ASSUME phase = "running" PROVE AllWait(Here, now, AtWork)'
  <2>1. AllWait(There, now', AtWork')
    <3>. SUFFICES ASSUME NEW n \in Enabled(Here), n \notin AtWork
                  PROVE  Waits(There, n, now')
      BY <1>1 DEF AllWait, AtWork, Enabled, Here, There
    <3>1. PICK t \in DOMAIN timers :
            /\ timers[t].name = n
            /\ IsNext(entries[n].schedule, now,
                      timers[t].left + timers[t].rest)
      BY <1>8 DEF SchedulerInv, AllWait, Waits, Here
    <3>. DEFINE wait == timers'[t].left + timers'[t].rest
    <3>2. wait \in Nat /\ timers[t].left + timers[t].rest = wait + 1
      BY <1>1, <1>3, SchedulerAssumption DEF SchedulerAssumption, Armed
    <3>. HIDE DEF wait
    <3>3. \A a \in Nat : (now' + a) % Period = (now + (a + 1)) % Period
      BY <1>1, <1>2, Nearer, SchedulerAssumption DEF SchedulerAssumption
    <3>4. /\ (now + (wait + 1)) % Period \in entries[n].schedule
          /\ \A e \in 1..((wait + 1) - 1) :
                (now + e) % Period \notin entries[n].schedule
      BY <3>1, <3>2 DEF IsNext
    <3>5. IsNext(entries[n].schedule, now', wait)
      <4>1. (now' + wait) % Period \in entries[n].schedule
        BY <3>2, <3>3, <3>4
      <4>2. ASSUME NEW e \in 1..(wait - 1)
            PROVE  (now' + e) % Period \notin entries[n].schedule
        <5>1. e \in Nat /\ e + 1 \in 1..((wait + 1) - 1)
          BY <3>2
        <5>. QED BY <3>3, <3>4, <5>1
      <4>. QED BY <4>1, <4>2 DEF IsNext
    <3>6. /\ t \in DOMAIN There.timers /\ There.timers[t].name = n
          /\ There.timers[t].left + There.timers[t].rest = wait
          /\ There.entries[n].schedule = entries[n].schedule
      BY <1>1, <1>3, <3>1 DEF There, wait
    <3>. QED BY <3>5, <3>6 DEF Waits
  <2>. QED BY <2>1, NextWait
<1>9. AtWork' \subseteq DOMAIN entries' /\ phase # "new"
  BY <1>1 DEF AtWork, SchedulerInv, Tick
<1>. QED BY <1>1, <1>6, <1>7, <1>8, <1>9 DEF SchedulerInv

\* The next leg of a timer waits for what remained, whichever of the timers
\* of its name it was; it takes the place of the filed one.
LEMMA LegEndsKeeps ==
  ASSUME SchedulerInv, NEW t \in Timer, LegEnds(t)
  PROVE  SchedulerInv'
<1>. DEFINE i == Len(configs)
            c == Clear(Here, t)
            n == timers[t].name
            delay == timers[t].rest
            r == SetTimer(c, n, delay)
            u == r.entries[n].timer
<1>1. /\ t \in DOMAIN timers /\ timers[t].left = 0
      /\ entries' = r.entries /\ timers' = r.timers
      /\ phase' = phase /\ configs' = configs /\ now' = now /\ runs' = runs
  BY DEF LegEnds, Due, Become
<1>2. Good(Here) /\ Few(Here, i)
  BY DEF SchedulerInv
<1>3. i \in Nat /\ i <= MaxConfigs
  BY ConfigsAre DEF SchedulerInv
<1>. HIDE DEF i
<1>4. /\ c.entries = Here.entries
      /\ DOMAIN c.timers = DOMAIN Here.timers \ {t}
      /\ \A v \in DOMAIN Here.timers \ {t} : c.timers[v] = Here.timers[v]
      /\ \A m : TimersIn(c, m) = TimersIn(Here, m) \ {t}
  BY <1>2, ClearIs
<1>5. Good(c) /\ Few(c, i)
  BY <1>2, <1>3, ClearKeeps
<1>6. Here.entries = entries /\ Here.timers = timers
  BY DEF Here
<1>7. /\ n \in DOMAIN entries
      /\ delay \in 0..Period /\ timers[t].left + timers[t].rest = delay
  <2>1. timers[t] \in Armed /\ timers[t].name \in DOMAIN entries
    BY <1>1, <1>2, <1>6 DEF Good
  <2>2. delay \in 0..Period
    BY <2>1 DEF Armed
  <2>. QED BY <1>1, <2>1, <2>2, SchedulerAssumption DEF SchedulerAssumption
<1>. HIDE DEF c, n, delay, r
<1>8. Cardinality(TimersIn(c, n)) < Cardinality(Named(i, n))
  <2>. DEFINE ts == TimersIn(Here, n)
  <2>1. IsFiniteSet(ts) /\ Cardinality(ts) <= Cardinality(Named(i, n))
    BY <1>2, <1>3, <1>6, <1>7, TimersAreFew
  <2>2. t \in ts /\ TimersIn(c, n) = ts \ {t}
    BY <1>1, <1>4, <1>6 DEF TimersIn, n
  <2>. HIDE DEF ts
  <2>3. Cardinality(ts \ {t}) = Cardinality(ts) - 1
    BY <2>1, <2>2, FS_RemoveElement
  <2>4. Cardinality(ts) \in Nat /\ Cardinality(Named(i, n)) \in Nat
    BY <1>3, <2>1, FS_CardinalityType, NamedIsFinite
  <2>. QED BY <2>1, <2>2, <2>3, <2>4
<1>9. n \in DOMAIN c.entries
  BY <1>4, <1>6, <1>7
<1>10. Good(r) /\ Few(r, i)
  BY <1>3, <1>5, <1>7, <1>8, <1>9, SetTimerKeeps DEF r
<1>11. /\ DOMAIN r.entries = DOMAIN c.entries
       /\ \A m \in DOMAIN c.entries \ {n} : r.entries[m] = c.entries[m]
       /\ r.entries[n].schedule = c.entries[n].schedule
       /\ r.entries[n].enabled = c.entries[n].enabled
       /\ DOMAIN r.timers = DOMAIN c.timers \cup {u}
       /\ \A v \in DOMAIN c.timers : r.timers[v] = c.timers[v]
       /\ r.timers[u].name = n
       /\ r.timers[u].left + r.timers[u].rest = delay
  BY <1>3, <1>5, <1>7, <1>9, SetTimerIs DEF r
<1>12. There = r
  BY <1>1, <1>10, Became
<1>13. Good(Here)' /\ Few(Here, Len(configs))'
  BY <1>1, <1>10, <1>12, NextState DEF i
<1>. HIDE DEF u
<1>14. ASSUME phase = "running" PROVE AllWait(Here, now, AtWork)'
  <2>1. AllWait(There, now', AtWork')
    <3>. SUFFICES ASSUME NEW m \in Enabled(r), m \notin AtWork
                  PROVE  Waits(r, m, now)
      BY <1>1, <1>12 DEF AllWait, AtWork
    <3>1. /\ m \in DOMAIN entries
          /\ r.entries[m].schedule = entries[m].schedule
          /\ r.entries[m].enabled = entries[m].enabled
      BY <1>4, <1>6, <1>11 DEF Enabled
    <3>2. m \in Enabled(Here)
      BY <3>1, <1>6 DEF Enabled
    <3>3. PICK v \in DOMAIN timers :
            /\ timers[v].name = m
            /\ IsNext(entries[m].schedule, now,
                      timers[v].left + timers[v].rest)
      BY <1>6, <1>14, <3>2 DEF SchedulerInv, AllWait, Waits
    <3>4. CASE v = t
      <4>1. m = n /\ IsNext(entries[m].schedule, now, delay)
        BY <1>7, <3>3, <3>4 DEF n
      <4>. QED BY <1>11, <3>1, <4>1 DEF Waits
    <3>5. CASE v # t
      <4>1. v \in DOMAIN r.timers /\ r.timers[v] = timers[v]
        BY <1>4, <1>6, <1>11, <3>3, <3>5
      <4>. QED BY <3>1, <3>3, <4>1 DEF Waits
    <3>. QED BY <3>4, <3>5
  <2>. QED BY <2>1, NextWait
<1>15. AtWork' \subseteq DOMAIN entries' /\ phase # "new"
  <2>1. AtWork' = AtWork /\ DOMAIN entries' = DOMAIN entries
    BY <1>1, <1>4, <1>6, <1>11 DEF AtWork
  <2>. QED BY <1>1, <2>1 DEF SchedulerInv
<1>. QED BY <1>1, <1>13, <1>14, <1>15 DEF SchedulerInv

\* A timer fires: its name goes to work, unless it is disabled or stopped.
LEMMA FireKeeps ==
  ASSUME SchedulerInv, NEW t \in Timer, Fire(t)
  PROVE  SchedulerInv'
<1>. DEFINE i == Len(configs)
            c == Clear(Here, t)
            n == timers[t].name
<1>1. /\ t \in DOMAIN timers
      /\ entries' = c.entries /\ timers' = c.timers
      /\ phase' = phase /\ configs' = configs /\ now' = now
      /\ IF entries[n].enabled /\ phase = "running"
         THEN runs[n] < MaxRuns /\ runs' = [runs EXCEPT ![n] = @ + 1]
         ELSE runs' = runs
  BY DEF Fire, Due, Become
<1>2. /\ Good(Here) /\ Few(Here, i)
      /\ runs \in [Name -> 0..MaxRuns] /\ AtWork \subseteq DOMAIN entries
  BY DEF SchedulerInv
<1>3. i \in Nat
  BY ConfigsAre DEF SchedulerInv
<1>. HIDE DEF i
<1>4. /\ c.entries = Here.entries
      /\ DOMAIN c.timers = DOMAIN Here.timers \ {t}
      /\ \A v \in DOMAIN Here.timers \ {t} : c.timers[v] = Here.timers[v]
  BY <1>2, ClearIs
<1>5. Good(c) /\ Few(c, i)
  BY <1>2, <1>3, ClearKeeps
<1>6. Here.entries = entries /\ Here.timers = timers
  BY DEF Here
<1>7. n \in DOMAIN entries /\ n \in Name
  BY <1>1, <1>2, <1>6 DEF Good
<1>. HIDE DEF c, n
<1>8. There = c
  BY <1>1, <1>5, Became
<1>9. Good(Here)' /\ Few(Here, Len(configs))'
  BY <1>1, <1>5, <1>8, NextState DEF i
<1>10. /\ runs' \in [Name -> 0..MaxRuns]
       /\ \A m \in Name \ {n} : runs'[m] = runs[m]
       /\ entries[n].enabled /\ phase = "running" => runs'[n] > 0
  <2>1. CASE entries[n].enabled /\ phase = "running"
    <3>1. runs[n] + 1 \in 0..MaxRuns /\ runs[n] + 1 > 0
      BY <1>1, <1>2, <1>7, <2>1, SchedulerAssumption DEF SchedulerAssumption
    <3>. QED BY <1>1, <1>2, <1>7, <2>1, <3>1
  <2>2. CASE ~(entries[n].enabled /\ phase = "running")
    BY <1>1, <1>2, <2>2
  <2>. QED BY <2>1, <2>2
<1>11. ASSUME phase = "running" PROVE AllWait(Here, now, AtWork)'
  <2>1. AllWait(There, now', AtWork')
    <3>. SUFFICES ASSUME NEW m \in Enabled(c), m \notin AtWork'
                  PROVE  Waits(c, m, now)
      BY <1>1, <1>8 DEF AllWait
    <3>1. m \in Enabled(Here) /\ m \in DOMAIN entries
      BY <1>4, <1>6 DEF Enabled
    <3>2. m \in Name
      BY <1>2, <1>6, <3>1 DEF Good
    <3>3. m # n
      BY <1>6, <1>7, <1>10, <1>11, <3>1 DEF Enabled, AtWork
    <3>4. m \notin AtWork
      BY <1>10, <3>2, <3>3 DEF AtWork
    <3>5. PICK v \in DOMAIN timers :
            /\ timers[v].name = m
            /\ IsNext(entries[m].schedule, now,
                      timers[v].left + timers[v].rest)
      BY <1>6, <1>11, <3>1, <3>4 DEF SchedulerInv, AllWait, Waits
    <3>6. v # t
      BY <3>3, <3>5 DEF n
    <3>7. v \in DOMAIN c.timers /\ c.timers[v] = timers[v]
      BY <1>4, <1>6, <3>5, <3>6
    <3>. QED BY <1>4, <1>6, <3>5, <3>7 DEF Waits
  <2>. QED BY <2>1, NextWait
<1>12. AtWork' \subseteq DOMAIN entries'
  <2>. SUFFICES ASSUME NEW m \in Name, runs'[m] > 0 PROVE m \in DOMAIN entries
    BY <1>1, <1>4, <1>6 DEF AtWork
  <2>. QED BY <1>2, <1>7, <1>10 DEF AtWork
<1>13. phase # "new"
  BY <1>1 DEF SchedulerInv
<1>. QED BY <1>1, <1>9, <1>10, <1>11, <1>12, <1>13 DEF SchedulerInv

\* A run ends and its name waits again, or another run of it is at work.
LEMMA RunEndsKeeps ==
  ASSUME SchedulerInv, NEW n \in Name, RunEnds(n)
  PROVE  SchedulerInv'
<1>. DEFINE i == Len(configs)
            r == ScheduleNext(Here, n)
<1>1. /\ runs[n] > 0 /\ runs' = [runs EXCEPT ![n] = @ - 1]
      /\ entries' = r.entries /\ timers' = r.timers
      /\ phase' = phase /\ configs' = configs /\ now' = now
  BY DEF RunEnds, Become
<1>. HIDE DEF r
<1>2. /\ Good(Here) /\ Few(Here, i) /\ now \in Minute
      /\ runs \in [Name -> 0..MaxRuns] /\ AtWork \subseteq DOMAIN entries
  BY DEF SchedulerInv
<1>3. i \in Nat /\ i <= MaxConfigs
  BY ConfigsAre DEF SchedulerInv
<1>. HIDE DEF i
<1>4. Here.entries = entries /\ Here.timers = timers
  BY DEF Here
<1>5. n \in AtWork /\ n \in DOMAIN Here.entries
  BY <1>1, <1>2, <1>4 DEF AtWork
<1>6. Good(r) /\ Few(r, i) /\ Rescheduled(Here, r, n, phase' = "running")
  BY <1>2, <1>3, <1>5, ScheduleNextKeeps DEF r
<1>7. There = r
  BY <1>1, <1>6, Became
<1>8. Good(Here)' /\ Few(Here, Len(configs))'
  BY <1>1, <1>6, <1>7, NextState DEF i
<1>9. /\ runs' \in [Name -> 0..MaxRuns]
      /\ \A m \in Name \ {n} : runs'[m] = runs[m]
  <2>1. runs[n] - 1 \in 0..MaxRuns
    BY <1>1, <1>2, SchedulerAssumption DEF SchedulerAssumption
  <2>. QED BY <1>1, <1>2, <2>1
<1>10. ASSUME phase = "running" PROVE AllWait(Here, now, AtWork)'
  <2>1. AllWait(Here, now, AtWork \cup {n})
    BY <1>10 DEF SchedulerInv, AllWait
  <2>2. Rescheduled(Here, r, n, TRUE)
    BY <1>1, <1>6, <1>10 DEF Rescheduled
  <2>3. AllWait(r, now, AtWork \ {n})
    BY <2>1, <2>2, AllWaitAgain
  <2>4. AtWork \ {n} \subseteq AtWork'
    BY <1>9 DEF AtWork
  <2>5. AllWait(There, now', AtWork')
    BY <1>1, <1>7, <2>3, <2>4 DEF AllWait
  <2>. QED BY <2>5, NextWait
<1>11. AtWork' \subseteq DOMAIN entries'
  <2>1. DOMAIN r.entries = DOMAIN entries
    BY <1>4, <1>6 DEF Rescheduled
  <2>. SUFFICES ASSUME NEW m \in Name, runs'[m] > 0 PROVE m \in DOMAIN entries
    BY <1>1, <2>1 DEF AtWork
  <2>. QED BY <1>2, <1>4, <1>5, <1>9 DEF AtWork
<1>12. phase # "new"
  BY <1>4, <1>5 DEF SchedulerInv
<1>. QED BY <1>1, <1>8, <1>9, <1>10, <1>11, <1>12 DEF SchedulerInv

\* Nothing changes.
LEMMA SchedulerStutters ==
  ASSUME SchedulerInv, UNCHANGED vars
  PROVE  SchedulerInv'
<1>1. /\ configs' = configs /\ phase' = phase /\ now' = now
      /\ entries' = entries /\ timers' = timers /\ runs' = runs
  BY DEF vars
<1>2. Good(Here)
  BY DEF SchedulerInv
<1>3. There = Here
  BY <1>1 DEF There, Here
<1>4. Good(Here)' /\ Few(Here, Len(configs))'
  BY <1>1, <1>3, NextState DEF SchedulerInv
<1>5. ASSUME phase = "running" PROVE AllWait(Here, now, AtWork)'
  <2>1. AllWait(There, now', AtWork')
    BY <1>1, <1>3, <1>5 DEF SchedulerInv, AllWait, AtWork
  <2>. QED BY <2>1, NextWait
<1>6. AtWork' \subseteq DOMAIN entries'
  BY <1>1 DEF SchedulerInv, AtWork
<1>. QED BY <1>1, <1>4, <1>5, <1>6 DEF SchedulerInv

\* The entries, timers, runs and the clock of every reachable state agree:
\* the timers of a name are fewer than its configs but for the filed one,
\* and whoever is enabled and not at work waits for its next occurrence.
THEOREM SchedulerInvariant == Spec => []SchedulerInv
<1>1. Init => SchedulerInv
  BY SchedulerInit
<1>2. SchedulerInv /\ [Next]_vars => SchedulerInv'
  <2>. SUFFICES ASSUME SchedulerInv, [Next]_vars PROVE SchedulerInv'
    OBVIOUS
  <2>1. CASE Start
    BY <2>1, StartKeeps
  <2>2. CASE Stop
    BY <2>2, StopKeeps
  <2>3. CASE Tick
    BY <2>3, TickKeeps
  <2>4. ASSUME NEW n \in Name, Enable(n) \/ Disable(n) \/ RunEnds(n)
        PROVE  SchedulerInv'
    BY <2>4, EnableKeeps, DisableKeeps, RunEndsKeeps
  <2>5. ASSUME NEW t \in Timer, LegEnds(t) \/ Fire(t)
        PROVE  SchedulerInv'
    BY <2>5, LegEndsKeeps, FireKeeps
  <2>6. CASE UNCHANGED vars
    BY <2>6, SchedulerStutters
  <2>. QED BY <2>1, <2>2, <2>3, <2>4, <2>5, <2>6 DEF Next
<1>. QED BY <1>1, <1>2, PTL DEF Spec

\* The entries and timers keep their types, and no leg is longer than
\* MAX_TIMEOUT.
THEOREM SchedulerTypes == Spec => []TypeOK
<1>1. SchedulerInv => TypeOK
  BY DEF SchedulerInv, Good, Here, TypeOK
<1>. QED BY <1>1, SchedulerInvariant, PTL

\* A name never has more timers than configs, whatever is toggled, fires or
\* ends, and however many runs overlap.
THEOREM FewTimers == Spec => []TimersDoNotMultiply
<1>1. SchedulerInv => TimersDoNotMultiply
  <2>. SUFFICES ASSUME SchedulerInv, NEW n \in Name
                PROVE  Cardinality(TimersOf(n)) <= Cardinality(ConfigsOf(n))
    BY DEF TimersDoNotMultiply
  <2>1. /\ TimersOf(n) = TimersIn(Here, n)
        /\ ConfigsOf(n) = Named(Len(configs), n)
        /\ Here.entries = entries
    BY DEF TimersOf, TimersIn, ConfigsOf, Named, Here
  <2>2. Len(configs) \in Nat
    BY ConfigsAre DEF SchedulerInv
  <2>3. CASE n \in DOMAIN entries
    <3>1. Few(Here, Len(configs))
      BY DEF SchedulerInv
    <3>. QED BY <2>1, <2>2, <2>3, <3>1, TimersAreFew
  <2>4. CASE n \notin DOMAIN entries
    <3>1. TimersOf(n) = {}
      BY <2>4 DEF SchedulerInv, Good, Here, TimersOf
    <3>2. Cardinality(TimersOf(n)) = 0
      BY <3>1, FS_EmptySet
    <3>3. Cardinality(ConfigsOf(n)) \in Nat
      BY <2>1, <2>2, NamedIsFinite
    <3>. QED BY <3>2, <3>3
  <2>. QED BY <2>3, <2>4
<1>. QED BY <1>1, SchedulerInvariant, PTL

\* An enabled heartbeat that is not at work waits for its very next
\* occurrence.
THEOREM NextIsNeverMissed == Spec => []NextOccurrenceIsArmed
<1>1. SchedulerInv => NextOccurrenceIsArmed
  <2>. SUFFICES ASSUME SchedulerInv, NEW n \in Name, Live(n), runs[n] = 0
                PROVE  NextIsArmed(n)
    BY DEF NextOccurrenceIsArmed
  <2>1. n \in Enabled(Here) /\ n \notin AtWork /\ phase = "running"
    BY DEF Live, Enabled, Here, AtWork
  <2>2. Waits(Here, n, now)
    BY <2>1 DEF SchedulerInv, AllWait
  <2>. QED BY <2>2 DEF Waits, IsNext, Here, NextIsArmed, TimersOf
<1>. QED BY <1>1, SchedulerInvariant, PTL

=============================================================================
