------------------------- MODULE RateLimiterProofs -------------------------
(***************************************************************************)
(* The limit holds in every window, for all keys, limits and windows.      *)
(*                                                                         *)
(* NeverMoreThanLimit speaks of attempts the limiter has forgotten, so it  *)
(* is not inductive.  The strengthening says what forgetting is safe: the  *)
(* deque of a key (empty if the key has none) is the end of the sequence   *)
(* of its allowed attempts, and whatever is missing at the front is at     *)
(* least one window old.                                                   *)
(***************************************************************************)
EXTENDS RateLimiter, SequenceTheorems, WellFoundedInduction, TLAPS

Held(k) == IF k \in DOMAIN hits THEN hits[k] ELSE <<>>

\* h is the end of g; what it lacks has left the window.
Recent(h, g) ==
    /\ Len(h) <= Len(g)
    /\ \A i \in 1..Len(h) : h[i] = g[Len(g) - Len(h) + i]
    /\ \A i \in 1..(Len(g) - Len(h)) : g[i] + Window <= clock

IInv ==
    /\ TypeOK
    /\ \A k \in Keys : Recent(Held(k), granted[k])
    /\ NeverMoreThanLimit

\* Sequences of moments.
LEMMA Moments ==
  ASSUME NEW q \in Seq(0..MaxClock)
  PROVE  Len(q) \in Nat /\ \A i \in 1..Len(q) : q[i] \in 0..MaxClock /\ q[i] \in Nat
<1>1. Len(q) \in Nat
  BY LenProperties
<1>2. \A i \in 1..Len(q) : q[i] \in 0..MaxClock
  BY ElementOfSeq
<1> QED BY <1>1, <1>2, LimiterAssumption

\* A non-empty set of small naturals has a least element.
LEMMA MinExists ==
  ASSUME NEW n \in Nat, NEW S, S \subseteq 0..n, S # {}
  PROVE  \E m \in S : \A j \in S : m <= j
<1> DEFINE R == OpToRel(<, Nat)
<1>1. IsWellFoundedOn(R, Nat)
  BY NatLessThanWellFounded
<1>2. \A e, d \in Nat : e < d => <<e, d>> \in R
  BY DEF OpToRel
<1> HIDE DEF R
<1>3. S \subseteq Nat
  OBVIOUS
<1>4. PICK m \in S : \A j \in S : ~(<<j, m>> \in R)
  BY <1>1, <1>3, WFMin
<1>5. \A j \in S : ~(j < m)
  BY <1>2, <1>3, <1>4
<1> QED BY <1>3, <1>5

\* The pop loop stops at the first entry still in the window.
LEMMA ExpiredCountIs ==
  ASSUME NEW h \in Seq(0..MaxClock), clock \in 0..MaxClock
  PROVE  /\ ExpiredCount(h) \in 0..Len(h)
         /\ \A i \in 1..ExpiredCount(h) : h[i] <= clock - Window
         /\ ExpiredCount(h) < Len(h) => h[ExpiredCount(h) + 1] > clock - Window
<1> DEFINE S == {n \in 0..Len(h) : n < Len(h) => h[n + 1] > clock - Window}
           Stop(n) == /\ \A i \in 1..n : h[i] <= clock - Window
                      /\ n < Len(h) => h[n + 1] > clock - Window
<1>1. Len(h) \in S
  OBVIOUS
<1>2. PICK m \in S : \A j \in S : m <= j
  <2>1. S \subseteq 0..Len(h) /\ S # {} /\ Len(h) \in Nat
    BY <1>1
  <2> HIDE DEF S
  <2> QED BY <2>1, MinExists
<1>3. ASSUME NEW i \in 1..m PROVE h[i] <= clock - Window
  <2>1. m \in 0..Len(h) /\ Len(h) \in Nat
    OBVIOUS
  <2>2. i - 1 \in 0..Len(h) /\ i - 1 < Len(h) /\ i \in 1..Len(h) /\ i - 1 < m
    BY <2>1
  <2>3. i - 1 \notin S
    <3>1. ~(m <= i - 1)
      BY <2>1, <2>2
    <3> HIDE DEF S
    <3> QED BY <1>2, <3>1
  <2>4. ~(h[(i - 1) + 1] > clock - Window)
    BY <2>2, <2>3
  <2>5. (i - 1) + 1 = i /\ h[i] \in 0..MaxClock
    BY <2>2, Moments
  <2> QED BY <2>4, <2>5, LimiterAssumption
<1>4. m \in 0..Len(h) /\ Stop(m)
  BY <1>3
<1> HIDE DEF S
<1>5. ExpiredCount(h) = CHOOSE n \in 0..Len(h) : Stop(n)
  BY DEF ExpiredCount
<1> QED
  <2>1. ExpiredCount(h) \in 0..Len(h) /\ Stop(ExpiredCount(h))
    <3> HIDE DEF Stop
    <3> QED BY <1>4, <1>5
  <2> QED BY <2>1

\* Popping expired entries keeps a deque a recent one.
LEMMA LiveRecent ==
  ASSUME NEW h \in Seq(0..MaxClock), NEW g \in Seq(0..MaxClock),
         clock \in 0..MaxClock, Recent(h, g)
  PROVE  Live(h) \in Seq(0..MaxClock) /\ Recent(Live(h), g)
<1> DEFINE n == ExpiredCount(h)
<1>1. n \in 0..Len(h) /\ \A i \in 1..n : h[i] <= clock - Window
  BY ExpiredCountIs
<1>2. Live(h) = SubSeq(h, n + 1, Len(h))
  BY DEF Live
<1> HIDE DEF n
<1>3. Live(h) \in Seq(0..MaxClock)
  <2>1. \A i \in (n + 1)..Len(h) : h[i] \in 0..MaxClock
    BY <1>1, Moments
  <2> QED BY <1>1, <1>2, <2>1
<1>4. Len(Live(h)) = Len(h) - n /\ \A i \in 1..(Len(h) - n) : Live(h)[i] = h[n + i]
  BY <1>1, <1>2
<1>5. Len(Live(h)) <= Len(g)
  BY <1>1, <1>4 DEF Recent
<1>6. ASSUME NEW i \in 1..Len(Live(h)) PROVE Live(h)[i] = g[Len(g) - Len(Live(h)) + i]
  <2>1. n + i \in 1..Len(h) /\ Live(h)[i] = h[n + i]
    BY <1>1, <1>4
  <2>2. h[n + i] = g[Len(g) - Len(h) + (n + i)]
    BY <2>1 DEF Recent
  <2>3. Len(g) - Len(h) + (n + i) = Len(g) - Len(Live(h)) + i
    BY <1>1, <1>4
  <2> QED BY <2>1, <2>2, <2>3
<1>7. ASSUME NEW i \in 1..(Len(g) - Len(Live(h))) PROVE g[i] + Window <= clock
  <2>1. CASE i <= Len(g) - Len(h)
    BY <2>1 DEF Recent
  <2>2. CASE i > Len(g) - Len(h)
    <3> DEFINE j == i - (Len(g) - Len(h))
    <3>1. j \in 1..n /\ j \in 1..Len(h) /\ Len(g) - Len(h) + j = i
      BY <1>1, <1>4, <2>2 DEF Recent
    <3>2. h[j] = g[i]
      BY <3>1 DEF Recent
    <3> HIDE DEF j
    <3>3. h[j] <= clock - Window /\ h[j] \in 0..MaxClock
      BY <3>1, <1>1, Moments
    <3> QED BY <3>2, <3>3, LimiterAssumption
  <2> QED BY <2>1, <2>2
<1> QED BY <1>3, <1>5, <1>6, <1>7 DEF Recent

\* What check() finds for a key after popping.
LEMMA HitsOfRecent ==
  ASSUME IInv, NEW k \in Keys
  PROVE  HitsOf(k) \in Seq(0..MaxClock) /\ Recent(HitsOf(k), granted[k])
<1>1. granted[k] \in Seq(0..MaxClock) /\ clock \in 0..MaxClock /\ Recent(Held(k), granted[k])
  BY DEF IInv, TypeOK
<1>2. CASE k \in DOMAIN hits
  <2>1. hits[k] \in Seq(0..MaxClock) /\ Held(k) = hits[k] /\ HitsOf(k) = Live(hits[k])
    BY <1>2 DEF IInv, TypeOK, Held, HitsOf
  <2> QED BY <1>1, <2>1, LiveRecent
<1>3. CASE k \notin DOMAIN hits
  BY <1>1, <1>3 DEF Held, HitsOf
<1> QED BY <1>2, <1>3

LEMMA InitInvariant == Init => IInv
<1> SUFFICES ASSUME Init PROVE IInv
  OBVIOUS
<1>1. TypeOK
  BY LimiterAssumption DEF Init, TypeOK
<1>2. \A k \in Keys : granted[k] = <<>> /\ Held(k) = <<>>
  BY DEF Init, Held
<1>3. \A k \in Keys : Recent(Held(k), granted[k])
  BY <1>2 DEF Recent
<1>4. NeverMoreThanLimit
  BY <1>2 DEF NeverMoreThanLimit
<1> QED BY <1>1, <1>3, <1>4 DEF IInv

\* An allowed attempt: the new entry ends both sequences, and the entry
\* Limit places before it has been popped, so it is a window old.
LEMMA AllowStep ==
  ASSUME IInv, NEW k \in Keys, Allow(k)
  PROVE  IInv'
<1> DEFINE h == HitsOf(k)
           d == With(k, Append(h, clock))
<1>1. clock \in 0..MaxClock /\ clock' = clock /\ granted \in [Keys -> Seq(0..MaxClock)]
  BY DEF IInv, TypeOK, Allow
<1>2. h \in Seq(0..MaxClock) /\ Recent(h, granted[k]) /\ Len(h) < Limit
  BY HitsOfRecent DEF Allow
<1>3. granted' = [granted EXCEPT ![k] = Append(@, clock)]
  BY DEF Allow
<1>4. /\ granted'[k] = Append(granted[k], clock)
      /\ \A j \in Keys \ {k} : granted'[j] = granted[j]
      /\ granted' \in [Keys -> Seq(0..MaxClock)]
  BY <1>1, <1>3
<1>5. Append(h, clock) \in Seq(0..MaxClock) /\ Recent(Append(h, clock), granted'[k])
  <2>1. granted[k] \in Seq(0..MaxClock)
    BY <1>1
  <2> HIDE DEF h
  <2>2. /\ Append(h, clock) \in Seq(0..MaxClock)
        /\ Len(Append(h, clock)) = Len(h) + 1
        /\ Len(Append(granted[k], clock)) = Len(granted[k]) + 1
    BY <1>1, <1>2, <2>1
  <2>3. ASSUME NEW i \in 1..Len(Append(h, clock))
        PROVE Append(h, clock)[i] = Append(granted[k], clock)[Len(granted[k]) - Len(h) + i]
    <3>1. CASE i = Len(h) + 1
      <4>1. Append(h, clock)[i] = clock
        BY <3>1, <1>2
      <4>2. Len(granted[k]) - Len(h) + i = Len(granted[k]) + 1
        <5>1. Len(h) \in Nat /\ Len(granted[k]) \in Nat
          BY <1>2, <2>1, Moments
        <5>2. \A m, n \in Nat : n - m + (m + 1) = n + 1
          OBVIOUS
        <5> QED BY <3>1, <5>1, <5>2
      <4>3. Append(granted[k], clock)[Len(granted[k]) + 1] = clock
        BY <2>1
      <4> QED BY <4>1, <4>2, <4>3
    <3>2. CASE i # Len(h) + 1
      <4>1. i \in 1..Len(h) /\ Append(h, clock)[i] = h[i]
        BY <3>2, <2>2, <1>2
      <4>2. Len(granted[k]) - Len(h) + i \in 1..Len(granted[k])
        BY <4>1, <1>2, <2>1 DEF Recent
      <4> QED BY <4>1, <4>2, <1>2, <2>1 DEF Recent
    <3> QED BY <3>1, <3>2
  <2>4. ASSUME NEW i \in 1..(Len(granted[k]) - Len(h))
        PROVE Append(granted[k], clock)[i] + Window <= clock
    BY <1>2, <2>1 DEF Recent
  <2>5. Len(granted[k]) + 1 - (Len(h) + 1) = Len(granted[k]) - Len(h)
        /\ Len(h) + 1 <= Len(granted[k]) + 1
    <3>1. Len(h) \in Nat /\ Len(granted[k]) \in Nat /\ Len(h) <= Len(granted[k])
      BY <1>2, <2>1, Moments DEF Recent
    <3>2. \A m, n \in Nat : m <= n => n + 1 - (m + 1) = n - m /\ m + 1 <= n + 1
      OBVIOUS
    <3> QED BY <3>1, <3>2
  <2>6. Recent(Append(h, clock), Append(granted[k], clock))
    <3> DEFINE a == Append(h, clock)
               b == Append(granted[k], clock)
    <3>1. Len(b) - Len(a) = Len(granted[k]) - Len(h) /\ Len(a) <= Len(b)
      BY <2>2, <2>5
    <3>2. \A i \in 1..Len(a) : a[i] = b[Len(granted[k]) - Len(h) + i]
      BY <2>3
    <3>3. \A i \in 1..(Len(granted[k]) - Len(h)) : b[i] + Window <= clock
      BY <2>4
    <3> HIDE DEF a, b
    <3>4. Recent(a, b)
      BY <3>1, <3>2, <3>3 DEF Recent
    <3> QED BY <3>4 DEF a, b
  <2> QED BY <1>4, <2>2, <2>6
<1>6. /\ DOMAIN d \subseteq Keys
      /\ \A j \in DOMAIN d : d[j] \in Seq(0..MaxClock) /\ Recent(d[j], granted'[j])
      /\ \A j \in Keys \ DOMAIN d : Recent(<<>>, granted'[j])
  <2>1. \A j \in DOMAIN hits : hits[j] \in Seq(0..MaxClock) /\ Recent(hits[j], granted[j])
    BY DEF IInv, TypeOK, Held
  <2>2. \A j \in Keys \ DOMAIN hits : Recent(<<>>, granted[j])
    BY DEF IInv, Held
  <2>3. DOMAIN hits \subseteq Keys
    BY DEF IInv, TypeOK
  <2>4. DOMAIN d = DOMAIN hits \cup {k}
        /\ \A j \in DOMAIN d : d[j] = IF j = k THEN Append(h, clock) ELSE hits[j]
    BY DEF With
  <2> HIDE DEF d, h
  <2> QED BY <1>4, <1>5, <2>1, <2>2, <2>3, <2>4
<1>7. hits' = d \/ hits' = Prune(d)
  BY DEF Allow, Mutated
<1>8. ASSUME NEW j \in Keys
      PROVE  /\ j \in DOMAIN hits' => hits'[j] \in Seq(0..MaxClock)
             /\ Recent(Held(j)', granted'[j])
  <2>1. granted'[j] \in Seq(0..MaxClock)
    BY <1>4
  <2> HIDE DEF d, h
  <2>2. CASE hits' = d
    BY <2>2, <1>6 DEF Held
  <2>3. CASE hits' = Prune(d)
    <3>1. CASE j \in DOMAIN d
      <4>1. Live(d[j]) \in Seq(0..MaxClock) /\ Recent(Live(d[j]), granted'[j])
        BY <3>1, <1>1, <1>6, <2>1, LiveRecent
      <4>2. Held(j)' = Live(d[j])
        BY <2>3, <3>1 DEF Held, Prune
      <4>3. j \in DOMAIN hits' => hits'[j] = Live(d[j])
        BY <2>3 DEF Prune
      <4> QED BY <4>1, <4>2, <4>3
    <3>2. CASE j \notin DOMAIN d
      <4>1. j \notin DOMAIN hits'
        BY <2>3, <3>2 DEF Prune
      <4> QED BY <4>1, <3>2, <1>6 DEF Held
    <3> QED BY <3>1, <3>2
  <2> QED BY <1>7, <2>2, <2>3
<1>9. TypeOK'
  <2>1. DOMAIN hits' \subseteq Keys
    <3> HIDE DEF d
    <3> QED BY <1>6, <1>7 DEF Prune
  <2>2. promise' \in [Keys -> Nat]
    BY DEF IInv, TypeOK, Allow
  <2> QED BY <1>1, <1>4, <1>8, <2>1, <2>2 DEF TypeOK
<1>10. \A j \in Keys : Recent(Held(j), granted[j])'
  BY <1>8, <1>1 DEF Recent
<1>11. NeverMoreThanLimit'
  <2> SUFFICES ASSUME NEW j \in Keys, NEW i \in 1..Len(granted'[j]),
                      i + Limit <= Len(granted'[j])
               PROVE  granted'[j][i] + Window <= granted'[j][i + Limit]
    BY DEF NeverMoreThanLimit
  <2>1. CASE j # k
    BY <2>1, <1>4 DEF IInv, NeverMoreThanLimit
  <2>2. CASE j = k
    <3> DEFINE g == granted[k]
    <3>1. g \in Seq(0..MaxClock) /\ granted'[j] = Append(g, clock)
      BY <2>2, <1>1, <1>4
    <3> HIDE DEF g
    <3>2. i \in 1..Len(g) /\ Append(g, clock)[i] = g[i]
      BY <3>1, LimiterAssumption
    <3>3. CASE i + Limit = Len(g) + 1
      <4>1. Append(g, clock)[i + Limit] = clock
        BY <3>1, <3>3
      <4>2. i \in 1..(Len(g) - Len(h))
        <5> HIDE DEF h
        <5> QED BY <3>1, <3>2, <3>3, <1>2, LimiterAssumption DEF Recent
      <4>3. g[i] + Window <= clock
        BY <4>2, <1>2 DEF Recent, g
      <4> QED BY <3>1, <3>2, <4>1, <4>3
    <3>4. CASE i + Limit # Len(g) + 1
      <4>1. i + Limit <= Len(g) /\ i + Limit \in 1..Len(g)
        BY <3>1, <3>4, LimiterAssumption
      <4>2. Append(g, clock)[i + Limit] = g[i + Limit]
        BY <3>1, <4>1
      <4>3. g[i] + Window <= g[i + Limit]
        BY <3>2, <4>1 DEF IInv, NeverMoreThanLimit, g
      <4> QED BY <3>1, <3>2, <4>2, <4>3
    <3> QED BY <3>3, <3>4
  <2> QED BY <2>1, <2>2
<1> QED BY <1>9, <1>10, <1>11 DEF IInv

\* A refused attempt only pops.
LEMMA RefuseStep ==
  ASSUME IInv, NEW k \in Keys, Refuse(k)
  PROVE  IInv'
<1> DEFINE h == HitsOf(k)
<1>1. h \in Seq(0..MaxClock) /\ Recent(h, granted[k]) /\ Len(h) >= Limit
  BY HitsOfRecent DEF Refuse
<1>2. clock' = clock /\ granted' = granted /\ hits' = With(k, h)
      /\ promise' = [promise EXCEPT ![k] = h[1] + Window]
  BY DEF Refuse
<1> HIDE DEF h
<1>3. h[1] \in 0..MaxClock
  BY <1>1, LimiterAssumption
<1>4. /\ DOMAIN hits' = DOMAIN hits \cup {k}
      /\ \A j \in DOMAIN hits' : hits'[j] = IF j = k THEN h ELSE hits[j]
  BY <1>2 DEF With
<1>5. TypeOK'
  <2>1. promise' \in [Keys -> Nat]
    BY <1>2, <1>3, LimiterAssumption DEF IInv, TypeOK
  <2> QED BY <1>1, <1>2, <1>4, <2>1 DEF IInv, TypeOK
<1>6. ASSUME NEW j \in Keys PROVE Recent(Held(j)', granted[j])
  <2>1. CASE j = k
    BY <2>1, <1>1, <1>4 DEF Held
  <2>2. CASE j # k
    <3>1. Held(j)' = Held(j)
      BY <2>2, <1>4 DEF Held
    <3> QED BY <3>1 DEF IInv
  <2> QED BY <2>1, <2>2
<1>7. \A j \in Keys : Recent(Held(j), granted[j])'
  BY <1>2, <1>6 DEF Recent
<1>8. NeverMoreThanLimit'
  BY <1>2 DEF IInv, NeverMoreThanLimit
<1> QED BY <1>5, <1>7, <1>8 DEF IInv

\* Time only lets more of the past leave the window.
LEMMA TickStep ==
  ASSUME IInv, Tick
  PROVE  IInv'
<1>1. clock \in 0..MaxClock /\ clock' = clock + 1 /\ clock' \in 0..MaxClock
      /\ UNCHANGED <<hits, granted, promise>>
  BY LimiterAssumption DEF IInv, TypeOK, Tick
<1>2. TypeOK'
  BY <1>1 DEF IInv, TypeOK
<1>3. ASSUME NEW k \in Keys PROVE Recent(Held(k), granted[k])'
  <2>1. Held(k)' = Held(k) /\ granted'[k] = granted[k]
    BY <1>1 DEF Held
  <2>2. granted[k] \in Seq(0..MaxClock) /\ Held(k) \in Seq(0..MaxClock)
    <3>1. CASE k \in DOMAIN hits
      BY <3>1 DEF IInv, TypeOK, Held
    <3>2. CASE k \notin DOMAIN hits
      BY <3>2 DEF IInv, TypeOK, Held
    <3> QED BY <3>1, <3>2
  <2>3. Recent(Held(k), granted[k])
    BY DEF IInv
  <2>4. ASSUME NEW i \in 1..(Len(granted[k]) - Len(Held(k)))
        PROVE granted[k][i] + Window <= clock + 1
    <3>1. granted[k][i] + Window <= clock
      BY <2>3 DEF Recent
    <3>2. granted[k][i] \in 0..MaxClock
      <4> DEFINE g == granted[k]
                 m == Len(Held(k))
      <4>1. g \in Seq(0..MaxClock) /\ m \in Nat
        BY <2>2
      <4>2. i \in 1..(Len(g) - m)
        OBVIOUS
      <4> HIDE DEF g, m
      <4>3. i \in 1..Len(g)
        BY <4>1, <4>2
      <4>4. g[i] \in 0..MaxClock
        BY <4>1, <4>3, Moments
      <4> QED BY <4>4 DEF g
    <3> QED BY <3>1, <3>2, <1>1, LimiterAssumption
  <2> QED BY <1>1, <2>1, <2>3, <2>4 DEF Recent
<1>4. NeverMoreThanLimit'
  BY <1>1 DEF IInv, NeverMoreThanLimit
<1> QED BY <1>2, <1>3, <1>4 DEF IInv

LEMMA NextInvariant == IInv /\ [Next]_vars => IInv'
<1> SUFFICES ASSUME IInv, [Next]_vars PROVE IInv'
  OBVIOUS
<1>1. CASE Tick
  BY <1>1, TickStep
<1>2. ASSUME NEW k \in Keys, Check(k) PROVE IInv'
  BY <1>2, AllowStep, RefuseStep DEF Check
<1>3. CASE UNCHANGED vars
  BY <1>3 DEF vars, IInv, TypeOK, Recent, Held, NeverMoreThanLimit
<1> QED BY <1>1, <1>2, <1>3 DEF Next

LEMMA Invariance == Spec => []IInv
BY InitInvariant, NextInvariant, PTL DEF Spec

\* The limiter's state stays well formed for every number of keys, limit,
\* window, sweep threshold and run length.
THEOREM LimiterTypeCorrect == Spec => []TypeOK
<1>1. IInv => TypeOK
  BY DEF IInv
<1> QED BY <1>1, Invariance, PTL

\* No window of any key ever holds more than Limit allowed attempts, whatever
\* the pop loop and the sweep have forgotten.
THEOREM LimitHolds == Spec => []NeverMoreThanLimit
<1>1. IInv => NeverMoreThanLimit
  BY DEF IInv
<1> QED BY <1>1, Invariance, PTL

-----------------------------------------------------------------------------
(* Retry-After.  RetryAfterExact speaks of the deque as it will be after    *)
(* any number of other checks and sweeps.  What decides is the attempt      *)
(* Limit places from the end of all that were ever allowed: the key is     *)
(* refused as long as that one is in the window, and it is the one whose   *)
(* expiry a refused client was told.                                       *)

\* The attempts of a key were allowed in the order of time.
Ordered ==
    \A k \in Keys : \A i \in 1..Len(granted[k]) :
      /\ granted[k][i] <= clock
      /\ \A j \in i..Len(granted[k]) : granted[k][i] <= granted[k][j]

\* The Limit-th attempt from the end.
Oldest(k) == granted[k][Len(granted[k]) - Limit + 1]

Promised ==
    \A k \in Keys : promise[k] # 0 =>
      Len(granted[k]) >= Limit /\ promise[k] = Oldest(k) + Window

RInv == IInv /\ Ordered /\ Promised

\* After popping, the first entry is in the window.
LEMMA LiveHead ==
  ASSUME NEW h \in Seq(0..MaxClock), clock \in 0..MaxClock
  PROVE  Live(h) # <<>> => 1 \in 1..Len(Live(h)) /\ Live(h)[1] > clock - Window
<1> DEFINE n == ExpiredCount(h)
<1>1. n \in 0..Len(h) /\ (n < Len(h) => h[n + 1] > clock - Window)
  BY ExpiredCountIs
<1>2. Live(h) = SubSeq(h, n + 1, Len(h))
  BY DEF Live
<1> HIDE DEF n
<1>3. CASE n = Len(h)
  BY <1>1, <1>2, <1>3
<1>4. CASE n < Len(h)
  BY <1>1, <1>2, <1>4
<1> QED BY <1>1, <1>3, <1>4

\* What check() finds of a key after popping starts in the window.
LEMMA HitsOfHead ==
  ASSUME IInv, NEW k \in Keys
  PROVE  HitsOf(k) # <<>> => HitsOf(k)[1] > clock - Window
<1>1. clock \in 0..MaxClock
  BY DEF IInv, TypeOK
<1>2. CASE k \in DOMAIN hits
  <2>1. hits[k] \in Seq(0..MaxClock) /\ HitsOf(k) = Live(hits[k])
    BY <1>2 DEF IInv, TypeOK, HitsOf
  <2> QED BY <1>1, <2>1, LiveHead
<1>3. CASE k \notin DOMAIN hits
  BY <1>3 DEF HitsOf
<1> QED BY <1>2, <1>3

\* A key is refused exactly while the Limit-th attempt from the end is in
\* the window.
LEMMA RefusedWhile ==
  ASSUME IInv, Ordered, NEW k \in Keys
  PROVE  Len(HitsOf(k)) >= Limit <=>
           Len(granted[k]) >= Limit /\ Oldest(k) > clock - Window
<1> DEFINE h == HitsOf(k)
           g == granted[k]
<1>1. h \in Seq(0..MaxClock) /\ g \in Seq(0..MaxClock) /\ Recent(h, g)
  BY HitsOfRecent DEF IInv, TypeOK
<1>2. h # <<>> => h[1] > clock - Window
  BY HitsOfHead
<1>3. \A i \in 1..Len(g) : \A j \in i..Len(g) : g[i] <= g[j]
  BY DEF Ordered
<1>4. Oldest(k) = g[Len(g) - Limit + 1]
  BY DEF Oldest
<1>5. clock \in 0..MaxClock
  BY DEF IInv, TypeOK
<1> HIDE DEF h, g
<1>6. Len(h) \in Nat /\ Len(g) \in Nat /\ Len(h) <= Len(g)
  BY <1>1, Moments DEF Recent
<1>7. CASE Len(h) >= Limit
  <2>1. h # <<>> /\ 1 \in 1..Len(h)
    BY <1>1, <1>6, <1>7, LimiterAssumption
  <2>2. h[1] = g[Len(g) - Len(h) + 1]
    BY <1>1, <2>1 DEF Recent
  <2>3. /\ Len(g) - Len(h) + 1 \in 1..Len(g)
        /\ Len(g) - Limit + 1 \in (Len(g) - Len(h) + 1)..Len(g)
        /\ Len(g) - Limit + 1 \in 1..Len(g)
    BY <1>6, <1>7, LimiterAssumption
  <2>4. g[Len(g) - Len(h) + 1] <= g[Len(g) - Limit + 1]
    BY <1>3, <2>3
  <2>5. g[Len(g) - Len(h) + 1] \in Nat /\ g[Len(g) - Limit + 1] \in Nat
    BY <1>1, <2>3, Moments
  <2>6. g[Len(g) - Limit + 1] > clock - Window
    BY <1>2, <1>5, <2>1, <2>2, <2>4, <2>5, LimiterAssumption
  <2> QED BY <1>4, <1>6, <1>7, <2>6, LimiterAssumption DEF h, g
<1>8. CASE Len(h) < Limit
  <2>1. ASSUME Len(g) >= Limit PROVE ~(g[Len(g) - Limit + 1] > clock - Window)
    <3>1. Len(g) - Limit + 1 \in 1..(Len(g) - Len(h)) /\ Len(g) - Limit + 1 \in 1..Len(g)
      BY <1>6, <1>8, <2>1, LimiterAssumption
    <3>2. g[Len(g) - Limit + 1] + Window <= clock
      BY <1>1, <3>1 DEF Recent
    <3>3. g[Len(g) - Limit + 1] \in Nat
      BY <1>1, <3>1, Moments
    <3> QED BY <1>5, <3>2, <3>3, LimiterAssumption
  <2> QED BY <1>4, <1>6, <1>8, <2>1, LimiterAssumption DEF h, g
<1> QED BY <1>6, <1>7, <1>8, LimiterAssumption

\* A refused key has exactly Limit attempts in the window, so the first of
\* them is the Limit-th from the end.
LEMMA RefusedAtLimit ==
  ASSUME IInv, Ordered, NEW k \in Keys, Len(HitsOf(k)) >= Limit
  PROVE  HitsOf(k)[1] = Oldest(k)
<1> DEFINE h == HitsOf(k)
           g == granted[k]
<1>1. h \in Seq(0..MaxClock) /\ g \in Seq(0..MaxClock) /\ Recent(h, g)
  BY HitsOfRecent DEF IInv, TypeOK
<1>2. h # <<>> => h[1] > clock - Window
  BY HitsOfHead
<1>3. \A i \in 1..Len(g) : g[i] <= clock
  BY DEF Ordered
<1>4. Oldest(k) = g[Len(g) - Limit + 1]
  BY DEF Oldest
<1>5. \A i \in 1..Len(g) : i + Limit <= Len(g) => g[i] + Window <= g[i + Limit]
  BY DEF IInv, NeverMoreThanLimit
<1>6. clock \in 0..MaxClock /\ Len(h) >= Limit
  BY DEF IInv, TypeOK
<1> HIDE DEF h, g
<1>7. Len(h) \in Nat /\ Len(g) \in Nat /\ Len(h) <= Len(g)
  BY <1>1, Moments DEF Recent
<1>8. h # <<>> /\ 1 \in 1..Len(h)
  BY <1>1, <1>6, <1>7, LimiterAssumption
<1>9. h[1] = g[Len(g) - Len(h) + 1]
  BY <1>1, <1>8 DEF Recent
<1>10. Len(h) = Limit
  <2> SUFFICES ASSUME Len(h) > Limit PROVE FALSE
    BY <1>6, <1>7, LimiterAssumption
  <2> DEFINE i == Len(g) - Len(h) + 1
  <2>1. i \in 1..Len(g) /\ i + Limit \in 1..Len(g)
    BY <1>7, LimiterAssumption
  <2>2. g[i] + Window <= g[i + Limit] /\ g[i + Limit] <= clock
    BY <1>3, <1>5, <2>1
  <2>3. g[i] \in Nat /\ g[i + Limit] \in Nat /\ g[i] > clock - Window
    BY <1>1, <1>2, <1>8, <1>9, <2>1, Moments
  <2> HIDE DEF i
  <2> QED BY <1>6, <2>2, <2>3, LimiterAssumption
<1> QED BY <1>4, <1>9, <1>10 DEF h

LEMMA OrderedNext ==
  ASSUME RInv, IInv', NEW k \in Keys, Allow(k)
  PROVE  Ordered'
<1> SUFFICES ASSUME NEW j \in Keys
             PROVE  \A i \in 1..Len(granted'[j]) :
                      /\ granted'[j][i] <= clock'
                      /\ \A m \in i..Len(granted'[j]) : granted'[j][i] <= granted'[j][m]
  BY DEF Ordered
<1>1. clock' = clock /\ clock \in 0..MaxClock /\ granted \in [Keys -> Seq(0..MaxClock)]
      /\ granted' = [granted EXCEPT ![k] = Append(@, clock)]
  BY DEF RInv, IInv, TypeOK, Allow
<1>2. CASE j # k
  BY <1>1, <1>2 DEF RInv, Ordered
<1>3. CASE j = k
  <2> DEFINE g == granted[k]
  <2>1. g \in Seq(0..MaxClock) /\ granted'[j] = Append(g, clock)
    BY <1>1, <1>3
  <2>2. \A i \in 1..Len(g) : g[i] <= clock /\ \A m \in i..Len(g) : g[i] <= g[m]
    BY DEF RInv, Ordered
  <2> HIDE DEF g
  <2>3. Len(Append(g, clock)) = Len(g) + 1 /\ Append(g, clock)[Len(g) + 1] = clock
        /\ \A i \in 1..Len(g) : Append(g, clock)[i] = g[i]
    BY <1>1, <2>1
  <2>4. \A i \in 1..(Len(g) + 1) :
          /\ Append(g, clock)[i] <= clock
          /\ \A m \in i..(Len(g) + 1) : Append(g, clock)[i] <= Append(g, clock)[m]
    <3> SUFFICES ASSUME NEW i \in 1..(Len(g) + 1), NEW m \in i..(Len(g) + 1)
                 PROVE  /\ Append(g, clock)[i] <= clock
                        /\ Append(g, clock)[i] <= Append(g, clock)[m]
      BY <2>1
    <3>1. Len(g) \in Nat
      BY <2>1, Moments
    <3>2. CASE i = Len(g) + 1
      BY <1>1, <2>3, <3>1, <3>2
    <3>3. CASE i # Len(g) + 1 /\ m = Len(g) + 1
      BY <1>1, <2>2, <2>3, <3>1, <3>3
    <3>4. CASE i # Len(g) + 1 /\ m # Len(g) + 1
      <4>1. i \in 1..Len(g) /\ m \in i..Len(g) /\ m \in 1..Len(g)
        BY <3>1, <3>4
      <4> QED BY <2>2, <2>3, <4>1
    <3> QED BY <3>2, <3>3, <3>4
  <2> DEFINE a == Append(g, clock)
  <2>5. granted'[j] = a /\ Len(a) = Len(g) + 1 /\ clock' = clock
    BY <1>1, <2>1, <2>3
  <2>6. \A i \in 1..Len(a) : a[i] <= clock /\ \A m \in i..Len(a) : a[i] <= a[m]
    BY <2>4, <2>5
  <2> HIDE DEF a
  <2> QED BY <2>5, <2>6
<1> QED BY <1>2, <1>3

LEMMA RetryInvariance == Spec => []RInv
<1>1. Init => RInv
  <2>1. Init => Ordered /\ Promised
    BY DEF Init, Ordered, Promised
  <2> QED BY <2>1, InitInvariant DEF RInv
<1>2. RInv /\ [Next]_vars => RInv'
  <2> SUFFICES ASSUME RInv, IInv', [Next]_vars PROVE Ordered' /\ Promised'
    <3>1. IInv /\ [Next]_vars => IInv'
      BY NextInvariant
    <3> QED BY <3>1 DEF RInv
  <2>1. IInv /\ Ordered /\ Promised
    BY DEF RInv
  <2>2. CASE Tick
    <3>1. clock' = clock + 1 /\ clock \in 0..MaxClock /\ granted' = granted /\ promise' = promise
          /\ granted \in [Keys -> Seq(0..MaxClock)]
      BY <2>1, <2>2 DEF Tick, IInv, TypeOK
    <3>2. ASSUME NEW k \in Keys, NEW i \in 1..Len(granted[k]) PROVE granted[k][i] <= clock + 1
      <4>1. granted[k][i] \in Nat
        BY <3>1, Moments
      <4>2. granted[k][i] <= clock
        BY <2>1 DEF Ordered
      <4> QED BY <3>1, <4>1, <4>2
    <3>3. Ordered'
      BY <2>1, <3>1, <3>2 DEF Ordered
    <3> QED BY <2>1, <3>1, <3>3 DEF Promised, Oldest
  <2>3. ASSUME NEW k \in Keys, Allow(k) PROVE Ordered' /\ Promised'
    <3>1. Ordered'
      BY <2>3, OrderedNext
    <3>2. /\ granted' = [granted EXCEPT ![k] = Append(@, clock)]
          /\ promise' = [promise EXCEPT ![k] = 0]
          /\ granted \in [Keys -> Seq(0..MaxClock)] /\ promise \in [Keys -> Nat]
      BY <2>1, <2>3 DEF Allow, IInv, TypeOK
    <3>3. promise'[k] = 0 /\ \A j \in Keys \ {k} : promise'[j] = promise[j] /\ granted'[j] = granted[j]
      BY <3>2
    <3> QED BY <2>1, <3>1, <3>3 DEF Promised, Oldest
  <2>4. ASSUME NEW k \in Keys, Refuse(k) PROVE Ordered' /\ Promised'
    <3>1. /\ granted' = granted /\ clock' = clock
          /\ promise' = [promise EXCEPT ![k] = HitsOf(k)[1] + Window]
          /\ promise \in [Keys -> Nat] /\ Len(HitsOf(k)) >= Limit
      BY <2>1, <2>4 DEF Refuse, IInv, TypeOK
    <3>2. HitsOf(k)[1] = Oldest(k) /\ Len(granted[k]) >= Limit
      BY <2>1, <3>1, RefusedAtLimit, RefusedWhile
    <3>3. promise'[k] = Oldest(k) + Window /\ \A j \in Keys \ {k} : promise'[j] = promise[j]
      BY <3>1, <3>2
    <3>4. Ordered'
      BY <2>1, <3>1 DEF Ordered
    <3> QED BY <2>1, <3>1, <3>2, <3>3, <3>4 DEF Promised, Oldest
  <2>5. CASE UNCHANGED vars
    BY <2>1, <2>5 DEF vars, Ordered, Promised, Oldest
  <2> QED BY <2>2, <2>3, <2>4, <2>5 DEF Next, Check
<1> QED BY <1>1, <1>2, PTL DEF Spec

\* A refused client that comes back at the promised time is let in and not a
\* moment earlier, whatever checks of other keys, sweeps and further refusals
\* come in between.
THEOREM RetryAfterHolds == Spec => []RetryAfterExact
<1>1. RInv => RetryAfterExact
  <2> SUFFICES ASSUME RInv, NEW k \in Keys, promise[k] # 0
               PROVE  Len(HitsOf(k)) < Limit <=> clock >= promise[k]
    BY DEF RetryAfterExact
  <2>1. Len(granted[k]) >= Limit /\ promise[k] = Oldest(k) + Window
    BY DEF RInv, Promised
  <2>2. Len(HitsOf(k)) >= Limit <=> Oldest(k) > clock - Window
    BY <2>1, RefusedWhile DEF RInv
  <2>3. Len(HitsOf(k)) \in Nat /\ clock \in 0..MaxClock /\ granted[k] \in Seq(0..MaxClock)
    BY HitsOfRecent, Moments DEF RInv, IInv, TypeOK
  <2>4. Oldest(k) \in Nat
    <3>1. Len(granted[k]) - Limit + 1 \in 1..Len(granted[k])
      BY <2>1, <2>3, Moments, LimiterAssumption
    <3> QED BY <2>3, <3>1, Moments DEF Oldest
  <2> QED BY <2>1, <2>2, <2>3, <2>4, LimiterAssumption
<1> QED BY <1>1, RetryInvariance, PTL

\* When more than MaxKeys keys are left after an attempt, the sweep has run
\* and each of them has an attempt in the window.
THEOREM SweepBoundsKeys == Spec => SweptWhenFull
<1>1. ASSUME IInv, NEW k \in Keys, Allow(k), Cardinality(DOMAIN hits') > MaxKeys,
             NEW j \in DOMAIN hits'
      PROVE  \E i \in 1..Len(hits'[j]) : hits'[j][i] > clock - Window
  <2> DEFINE d == With(k, Append(HitsOf(k), clock))
  <2>1. clock \in 0..MaxClock /\ HitsOf(k) \in Seq(0..MaxClock)
    BY <1>1, HitsOfRecent DEF IInv, TypeOK
  <2>2. \A i \in DOMAIN d : d[i] \in Seq(0..MaxClock)
    <3>1. Append(HitsOf(k), clock) \in Seq(0..MaxClock)
      BY <2>1
    <3>2. \A i \in DOMAIN hits : hits[i] \in Seq(0..MaxClock)
      BY <1>1 DEF IInv, TypeOK
    <3> DEFINE a == Append(HitsOf(k), clock)
    <3> HIDE DEF a
    <3>3. \A i \in DOMAIN With(k, a) : With(k, a)[i] \in {a} \cup {hits[m] : m \in DOMAIN hits}
      BY DEF With
    <3>4. \A i \in DOMAIN With(k, a) : With(k, a)[i] \in Seq(0..MaxClock)
      BY <3>1, <3>2, <3>3 DEF a
    <3> QED BY <3>4 DEF a
  <2>3. hits' = IF Cardinality(DOMAIN d) > MaxKeys THEN Prune(d) ELSE d
    BY <1>1 DEF Allow, Mutated
  <2> HIDE DEF d
  <2>4. hits' = Prune(d)
    BY <1>1, <2>3
  <2>5. j \in DOMAIN d /\ hits'[j] = Live(d[j]) /\ Live(d[j]) # <<>>
    BY <1>1, <2>4 DEF Prune
  <2> QED BY <2>1, <2>2, <2>5, LiveHead
<1>2. IInv /\ [Next]_vars =>
        [\A k \in Keys : Allow(k) /\ Cardinality(DOMAIN hits') > MaxKeys
           => \A j \in DOMAIN hits' : \E i \in 1..Len(hits'[j]) : hits'[j][i] > clock - Window]_vars
  BY <1>1
<1> QED BY <1>2, Invariance, PTL DEF Spec, SweptWhenFull

=============================================================================
