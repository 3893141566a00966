---------------------------- MODULE RateLimiter ----------------------------
(***************************************************************************)
(* SlidingWindowLimiter: the attempts of a key that were allowed within    *)
(* the last window, per key, with a sweep over all keys when there are too *)
(* many of them.  check() runs without an await, so it is one action.      *)
(* Time is integral; a key stands for "<client ip>:<e-mail>".              *)
(***************************************************************************)
EXTENDS Integers, Sequences, FiniteSets

CONSTANTS
    Keys,
    Limit,      \* self.limit (10)
    Window,     \* self.window (60)
    MaxKeys,    \* keys kept before a sweep (10_000)
    MaxClock    \* bound on time

ASSUME LimiterAssumption ==
    /\ Limit \in Nat \ {0}
    /\ Window \in Nat \ {0}
    /\ MaxKeys \in Nat
    /\ MaxClock \in Nat

VARIABLES
    clock,
    hits,      \* _hits: dict of deques, a function on the keys it has
    granted,   \* history: when attempts of a key were allowed
    promise    \* history: when a refused key was told to come back, 0 if none

vars == <<clock, hits, granted, promise>>

TypeOK ==
    /\ clock \in 0..MaxClock
    /\ DOMAIN hits \subseteq Keys
    /\ \A k \in DOMAIN hits : hits[k] \in Seq(0..MaxClock)
    /\ granted \in [Keys -> Seq(0..MaxClock)]
    /\ promise \in [Keys -> Nat]

Init ==
    /\ clock = 0
    /\ hits = [k \in {} |-> <<>>]
    /\ granted = [k \in Keys |-> <<>>]
    /\ promise = [k \in Keys |-> 0]

\* Mutant: an attempt exactly one window old still counts.
ExpiredCountStrict(h) ==
    CHOOSE n \in 0..Len(h) :
      /\ \A i \in 1..n : h[i] < clock - Window
      /\ n < Len(h) => h[n + 1] >= clock - Window

\* How many entries `while hits and hits[0] <= now - self.window` pops.
ExpiredCount(h) ==
    CHOOSE n \in 0..Len(h) :
      /\ \A i \in 1..n : h[i] <= clock - Window
      /\ n < Len(h) => h[n + 1] > clock - Window

Live(h) == SubSeq(h, ExpiredCount(h) + 1, Len(h))

\* self._hits.setdefault(key, deque()), then the expired entries popped.
HitsOf(k) == IF k \in DOMAIN hits THEN Live(hits[k]) ELSE <<>>

With(k, h) == [j \in DOMAIN hits \cup {k} |-> IF j = k THEN h ELSE hits[j]]

\* Mutant: the sweep forgets every key.
PruneAll(d) == [k \in {} |-> <<>>]

\* Mutant: the sweep pops but keeps the emptied keys.
PruneKeepsKeys(d) == [k \in DOMAIN d |-> Live(d[k])]

\* _prune: expired entries go, and the keys that have none left.
Prune(d) == [k \in {j \in DOMAIN d : Live(d[j]) # <<>>} |-> Live(d[k])]

\* The new value of _hits once an attempt of k is allowed.
Mutated(k) ==
    LET d == With(k, Append(HitsOf(k), clock))
    IN  IF Cardinality(DOMAIN d) > MaxKeys THEN Prune(d) ELSE d

\* Mutant: the moment an attempt expires is stored, not when it was made.
AllowStoresExpiry(k) ==
    /\ Len(HitsOf(k)) < Limit
    /\ hits' = With(k, Append(HitsOf(k), clock + Window))
    /\ granted' = [granted EXCEPT ![k] = Append(@, clock)]
    /\ promise' = [promise EXCEPT ![k] = 0]
    /\ UNCHANGED clock

\* check() returns None.
Allow(k) ==
    /\ Len(HitsOf(k)) < Limit
    /\ hits' = Mutated(k)
    /\ granted' = [granted EXCEPT ![k] = Append(@, clock)]
    /\ promise' = [promise EXCEPT ![k] = 0]
    /\ UNCHANGED clock

\* check() returns the seconds to wait; the popped deque stays.
Refuse(k) ==
    /\ Len(HitsOf(k)) >= Limit
    /\ hits' = With(k, HitsOf(k))
    /\ promise' = [promise EXCEPT ![k] = HitsOf(k)[1] + Window]
    /\ UNCHANGED <<clock, granted>>

Check(k) == Allow(k) \/ Refuse(k)

\* time.monotonic never goes back.
Tick ==
    /\ clock < MaxClock
    /\ clock' = clock + 1
    /\ UNCHANGED <<hits, granted, promise>>

Next == Tick \/ \E k \in Keys : Check(k)

Spec == Init /\ [][Next]_vars

-----------------------------------------------------------------------------
(* Properties.                                                             *)

\* A sliding-window limit is a limit in every window, not only in the ones
\* the deque happens to hold: of any Limit + 1 consecutive allowed attempts of
\* a key, the last comes a full window after the first, however pops, sweeps
\* and refusals fall in between.
NeverMoreThanLimit ==
    \A k \in Keys : \A i \in 1..Len(granted[k]) :
      i + Limit <= Len(granted[k]) => granted[k][i] + Window <= granted[k][i + Limit]

\* "the seconds to wait until the oldest counted attempt falls out of the
\* window": whatever other keys and sweeps do in between, a refused key that
\* asks again is allowed from the promised moment on and not a moment earlier.
RetryAfterExact ==
    \A k \in Keys : promise[k] # 0 =>
      (Len(HitsOf(k)) < Limit <=> clock >= promise[k])

\* "bound memory under key churn": whenever an attempt leaves more than
\* MaxKeys keys behind, every one of them has an attempt in the window.
SweptWhenFull ==
    [][\A k \in Keys : Allow(k) /\ Cardinality(DOMAIN hits') > MaxKeys
         => \A j \in DOMAIN hits' : \E i \in 1..Len(hits'[j]) : hits'[j][i] > clock - Window]_vars

=============================================================================
