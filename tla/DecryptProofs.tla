---------------------------- MODULE DecryptProofs ----------------------------
(***************************************************************************)
(* Proofs about Decrypt, for any pool, any tracks, any bound of the cache  *)
(* and batches of any size.                                                *)
(*                                                                         *)
(* The barrier rests on active being the number of running tasks.  Given   *)
(* the barrier, the pool works on one batch at a time, and every sample    *)
(* has one place: its stripe is queued, or one thread runs its stripe and  *)
(* has not passed it, or it is done (Accounted).  That an end of the batch *)
(* without an error leaves nothing undone follows.                         *)
(***************************************************************************)
EXTENDS Decrypt, FiniteSetTheorems, SequenceTheorems, TLAPS

Busy == {w \in Workers : at[w] \in Running}

\* The task to which sample i is dealt.
Home(i) == i % Stride

\* The number of the first stripe nobody has taken yet.
FirstQueued == Stride - Len(queue)

\* What is known of the batch at each place of the IPC thread.
BatchOK ==
  /\ main \notin {"idle", "stopping", "join", "gone"} => chunks >= 1
  /\ main \in {"submit", "collect"} \cup InRunAll =>
       DOMAIN plaintexts = 0 .. chunks - 1
  /\ main \in {"lookup", "pool"} => plaintexts = <<>>
  /\ main = "submit" => \A i \in 0 .. chunks - 1 : plaintexts[i] = "cipher"
  /\ main \in {"lookup", "pool", "submit"} => error = None
  /\ main \in {"pool", "submit", "collect"} \cup InRunAll => track \in cache

\* The barrier with the moment between a task's end and its being counted.
PoolBarrier == queue # <<>> \/ Busy # {} => main \in InRunAll

ActiveCounted == active = Cardinality(Busy)

\* The queue holds the last stripes in order; each of the others is run by at
\* most one thread.
StripesOK ==
  /\ Len(queue) <= Stride
  /\ \A k \in DOMAIN queue : queue[k] = FirstQueued + k - 1
  /\ \A w \in Busy : Home(task[w]) < FirstQueued
  /\ \A v, w \in Busy : Home(task[v]) = Home(task[w]) => v = w
  /\ \A w \in Workers : at[w] \in {"decrypt", "report"} => task[w] < chunks

\* Where the samples of a batch are as long as nothing has failed.
Accounted(i) ==
  \/ plaintexts[i] = "plain"
  \/ Home(i) >= FirstQueued
  \/ \E w \in OnLocals : Home(task[w]) = Home(i) /\ task[w] <= i

AllAccounted ==
  main \in InRunAll \cup {"collect"} /\ error = None =>
    \A i \in 0 .. chunks - 1 : Accounted(i)

\* Nobody has decrypted what lies before a task.
AheadUndone ==
  main \in InRunAll =>
    \A i \in 0 .. chunks - 1 :
      \/ Home(i) >= FirstQueued
      \/ \E w \in Workers : /\ at[w] \in {"test", "decrypt"}
                           /\ Home(task[w]) = Home(i) /\ task[w] <= i
      => plaintexts[i] = "cipher"

\* The pool is told to stop when nothing is left to do, and has its threads
\* from before a task is queued until then.
PoolKept ==
  /\ stop <=> main \in {"stopping", "join", "gone"}
  /\ main \in {"submit"} \cup InRunAll => \A w \in Workers : at[w] # "off"

\* The context with which a batch failed is not there for the next request of
\* its track, whichever way the batch failed.
FailedForgotten == main = "idle" /\ outcome = "failed" => track \notin cache

\* The error that the client is told is the first one; the failures it causes
\* in other tasks do not replace it.
FirstErrorKept ==
  [][error # None => error' = error \/ main = "idle"]_vars

\* decrypt.cpp:29 and :40 speak of a prefetch context that the first request
\* caches and that is pinned.  The test at line 200 comes before the only store:
\* there is no such context, and no batch of such a track is decrypted.
PrefetchRefused ==
  /\ cache \cap Prefetch = {}
  /\ main \in {"pool", "submit", "collect"} \cup InRunAll => track \notin Prefetch

IInv ==
  /\ TypeOK /\ BatchOK /\ PoolBarrier /\ ActiveCounted /\ StripesOK
  /\ AllAccounted /\ AheadUndone /\ PoolKept /\ NoLostWakeup /\ CacheInStep
  /\ BatchComplete /\ FailedForgotten
-----------------------------------------------------------------------------
(* Stripes: sample i belongs to task i % Stride.                           *)

\* Different multiples of s are s apart.
LEMMA Multiples ==
  ASSUME NEW s \in Nat \ {0}, NEW a \in Int, NEW b \in Int, a < b
  PROVE  s * a + s <= s * b
<1>1. PICK d \in Nat : b = a + 1 + d
  <2>1. b - a - 1 \in Nat /\ b = a + 1 + (b - a - 1)
    OBVIOUS
  <2>. QED BY <2>1
<1>2. s * b = s * a + s + s * d
  BY <1>1
<1>3. s * d \in Nat
  BY <1>1
<1>4. s * a \in Int
  OBVIOUS
<1>. QED BY <1>2, <1>3, <1>4

\* Division with remainder.
LEMMA DivMod ==
  ASSUME NEW s \in Nat \ {0}, NEW i \in Nat
  PROVE  /\ i = s * (i \div s) + (i % s)
         /\ i \div s \in Int /\ i % s \in 0 .. s - 1 /\ i % s <= i
  OBVIOUS

\* A number is its own remainder if it is small.
LEMMA ModSmall ==
  ASSUME NEW s \in Nat \ {0}, NEW i \in 0 .. s - 1
  PROVE  i % s = i
  OBVIOUS

\* The next sample after i in its stripe is i + s.
LEMMA ModNext ==
  ASSUME NEW s \in Nat \ {0}, NEW i \in Nat, NEW j \in Nat,
         i % s = j % s, i < j
  PROVE  i + s <= j
<1>. DEFINE a == i \div s
            b == j \div s
<1>1. /\ i = s * a + (i % s) /\ j = s * b + (j % s)
      /\ a \in Int /\ b \in Int /\ i % s \in 0 .. s - 1
  BY DivMod
<1>. HIDE DEF a, b
<1>2. s * a \in Int /\ s * b \in Int
  BY <1>1
<1>3. a < b
  <2>1. CASE b < a
    BY <2>1, <1>1, <1>2, Multiples
  <2>2. CASE a = b
    BY <2>2, <1>1
  <2>. QED BY <1>1, <2>1, <2>2
<1>4. s * a + s <= s * b
  BY <1>1, <1>3, Multiples
<1>. QED BY <1>1, <1>2, <1>4

\* A step of s stays in the stripe.
LEMMA ModStep ==
  ASSUME NEW s \in Nat \ {0}, NEW i \in Nat
  PROVE  (i + s) % s = i % s
<1>. DEFINE a == i \div s
            c == (i + s) \div s
            q == i % s
            r == (i + s) % s
<1>1. i = s * a + q /\ a \in Int /\ q \in 0 .. s - 1
  BY DivMod
<1>2. i + s = s * c + r /\ c \in Int /\ r \in 0 .. s - 1
  <2>1. i + s \in Nat
    OBVIOUS
  <2>. QED BY <2>1, DivMod
<1>. HIDE DEF a, c, q, r
<1>3. /\ s * (a + 1) = s * a + s /\ a + 1 \in Int
      /\ s * a \in Int /\ s * c \in Int /\ s * (a + 1) \in Int
  BY <1>1, <1>2
<1>4. ~(c < a + 1)
  <2>1. SUFFICES ASSUME c < a + 1 PROVE FALSE
    OBVIOUS
  <2>2. s * c + s <= s * (a + 1)
    BY <1>2, <1>3, <2>1, Multiples
  <2>. QED BY <1>1, <1>2, <1>3, <2>2
<1>5. ~(a + 1 < c)
  <2>1. SUFFICES ASSUME a + 1 < c PROVE FALSE
    OBVIOUS
  <2>2. s * (a + 1) + s <= s * c
    BY <1>2, <1>3, <2>1, Multiples
  <2>. QED BY <1>1, <1>2, <1>3, <2>2
<1>6. c = a + 1
  BY <1>1, <1>2, <1>4, <1>5
<1>7. q = r
  BY <1>1, <1>2, <1>3, <1>6
<1>. QED BY <1>7 DEF q, r

\* There are no more tasks than samples, and at least one.
LEMMA StrideType ==
  ASSUME DecryptAssumption, TypeOK
  PROVE  /\ chunks \in Nat /\ Stride \in Nat /\ Stride <= chunks
         /\ chunks >= 1 => Stride >= 1
<1>1. Cardinality(Workers) \in Nat \ {0}
  BY FS_CardinalityType, FS_EmptySet DEF DecryptAssumption
<1>2. chunks \in Nat
  BY DEF TypeOK, DecryptAssumption
<1>. QED BY <1>1, <1>2 DEF Stride

LEMMA StrideTypeNext ==
  ASSUME DecryptAssumption, TypeOK'
  PROVE  chunks' \in Nat /\ Stride' \in Nat
<1>1. Cardinality(Workers) \in Nat
  BY FS_CardinalityType DEF DecryptAssumption
<1>2. chunks' \in Nat
  BY DEF TypeOK, DecryptAssumption
<1>. QED BY <1>1, <1>2 DEF Stride

\* The stripes in terms of Home.
LEMMA HomeFacts ==
  ASSUME DecryptAssumption, TypeOK, chunks >= 1
  PROVE  /\ \A i \in Nat : Home(i) \in 0 .. Stride - 1 /\ Home(i) <= i
         /\ \A i \in 0 .. Stride - 1 : Home(i) = i
         /\ \A i \in Nat : Home(i + Stride) = Home(i)
         /\ \A i, j \in Nat : Home(i) = Home(j) /\ i < j => i + Stride <= j
<1>1. Stride \in Nat \ {0}
  BY StrideType
<1>. HIDE DEF Stride
<1>. QED BY <1>1, DivMod, ModSmall, ModStep, ModNext DEF Home

\* Nobody changes the length of a batch while it is served.
LEMMA SameStripes ==
  ASSUME chunks' = chunks
  PROVE  Stride' = Stride /\ \A i : Home(i)' = Home(i)
  BY DEF Stride, Home
-----------------------------------------------------------------------------
(* The cache.                                                              *)

\* Taking an element out of a sequence without repetitions.
LEMMA WithoutOne ==
  ASSUME NEW S, NEW s \in Seq(S), NEW x,
         \E i \in DOMAIN s : s[i] = x,
         \A i, j \in DOMAIN s : s[i] = s[j] => i = j
  PROVE  LET r == Without(s, x) IN
         /\ r \in Seq(S) /\ Len(r) = Len(s) - 1
         /\ {r[i] : i \in DOMAIN r} = {s[i] : i \in DOMAIN s} \ {x}
         /\ \A i, j \in DOMAIN r : r[i] = r[j] => i = j
<1>. DEFINE p == CHOOSE i \in DOMAIN s :
                   s[i] = x /\ \A j \in DOMAIN s : j < i => s[j] # x
            r == Without(s, x)
<1>1. p \in DOMAIN s /\ s[p] = x
  <2>1. PICK i \in DOMAIN s : s[i] = x
    OBVIOUS
  <2>2. \A j \in DOMAIN s : j < i => s[j] # x
    <3>1. SUFFICES ASSUME NEW j \in DOMAIN s, j < i, s[j] = x PROVE FALSE
      OBVIOUS
    <3>. QED BY <2>1, <3>1
  <2>. QED BY <2>1, <2>2
<1>2. r = [i \in 1 .. Len(s) - 1 |-> IF i < p THEN s[i] ELSE s[i + 1]]
  BY DEF Without
<1>. HIDE DEF p, r
<1>3. /\ Len(s) \in Nat \ {0} /\ DOMAIN s = 1 .. Len(s)
      /\ p \in 1 .. Len(s) /\ \A i \in 1 .. Len(s) : s[i] \in S
  BY <1>1
<1>4. Len(s) - 1 \in Nat /\ DOMAIN r = 1 .. Len(s) - 1
  BY <1>2, <1>3
<1>5. \A i \in 1 .. Len(s) - 1 :
        /\ i < p => r[i] = s[i] /\ i \in DOMAIN s
        /\ ~(i < p) => r[i] = s[i + 1] /\ i + 1 \in DOMAIN s
  BY <1>2, <1>3
<1>6. r \in Seq(S) /\ Len(r) = Len(s) - 1
  <2>1. r \in [1 .. Len(s) - 1 -> S]
    BY <1>2, <1>3
  <2>. QED BY <1>4, <2>1
<1>7. \A i, j \in DOMAIN r : r[i] = r[j] => i = j
  <2>1. SUFFICES ASSUME NEW i \in 1 .. Len(s) - 1, NEW j \in 1 .. Len(s) - 1,
                        r[i] = r[j]
                 PROVE  i = j
    BY <1>4
  <2>2. CASE i < p /\ j < p
    BY <1>5, <2>1, <2>2
  <2>3. CASE i < p /\ ~(j < p)
    <3>1. i = j + 1
      BY <1>5, <2>1, <2>3
    <3>. QED BY <1>3, <2>3, <3>1
  <2>4. CASE ~(i < p) /\ j < p
    <3>1. i + 1 = j
      BY <1>5, <2>1, <2>4
    <3>. QED BY <1>3, <2>4, <3>1
  <2>5. CASE ~(i < p) /\ ~(j < p)
    <3>1. i + 1 = j + 1
      BY <1>5, <2>1, <2>5
    <3>. QED BY <1>3, <3>1
  <2>. QED BY <2>2, <2>3, <2>4, <2>5
<1>8. \A i \in DOMAIN r : r[i] \in {s[k] : k \in DOMAIN s} \ {x}
  BY <1>1, <1>3, <1>4, <1>5
<1>9. ASSUME NEW k \in DOMAIN s, s[k] # x
      PROVE  \E i \in DOMAIN r : r[i] = s[k]
  <2>1. CASE k < p
    BY <2>1, <1>3, <1>4, <1>5
  <2>2. CASE p < k
    <3>1. k - 1 \in 1 .. Len(s) - 1 /\ ~(k - 1 < p) /\ (k - 1) + 1 = k
      BY <2>2, <1>3
    <3>. QED BY <3>1, <1>4, <1>5
  <2>. QED BY <1>1, <1>3, <1>9, <2>1, <2>2
<1>10. {r[i] : i \in DOMAIN r} = {s[i] : i \in DOMAIN s} \ {x}
  BY <1>8, <1>9
<1>11. /\ Without(s, x) \in Seq(S) /\ Len(Without(s, x)) = Len(s) - 1
       /\ {Without(s, x)[i] : i \in DOMAIN Without(s, x)}
            = {s[i] : i \in DOMAIN s} \ {x}
       /\ \A i, j \in DOMAIN Without(s, x) :
            Without(s, x)[i] = Without(s, x)[j] => i = j
  BY <1>6, <1>7, <1>10 DEF r
<1>. QED BY <1>11

\* Storing the context of a new track keeps cache and FIFO in step, and the
\* new entry is not the one that makes room.
LEMMA StoreInStep ==
  ASSUME DecryptAssumption, TypeOK, CacheInStep,
         NEW t \in Tracks, t \notin cache, t \notin Prefetch, Store(t)
  PROVE  /\ CacheInStep'
         /\ cache' \subseteq Tracks /\ order' \in Seq(Tracks)
         /\ t \in cache' /\ cache' \subseteq cache \cup {t}
<1>. DEFINE a == Append(order, t)
<1>1. /\ order \in Seq(Tracks) /\ Len(order) \in Nat
      /\ DOMAIN order = 1 .. Len(order)
      /\ \A i \in 1 .. Len(order) : order[i] \in Tracks
      /\ cache \subseteq Tracks /\ MaxEntries \in Nat \ {0}
  BY DEF TypeOK, DecryptAssumption
<1>2. /\ a \in Seq(Tracks) /\ Len(a) = Len(order) + 1
      /\ DOMAIN a = 1 .. Len(order) + 1
      /\ \A i \in 1 .. Len(order) : a[i] = order[i]
      /\ a[Len(order) + 1] = t
  BY <1>1
<1>3. \A i \in DOMAIN order : order[i] # t /\ order[i] \in cache \ Prefetch
  BY DEF CacheInStep
<1>4. \A i, j \in DOMAIN a : a[i] = a[j] => i = j
  BY <1>1, <1>2, <1>3 DEF CacheInStep
<1>5. {a[i] : i \in DOMAIN a} = (cache \cup {t}) \ Prefetch
  <2>1. \A i \in DOMAIN a : a[i] \in (cache \cup {t}) \ Prefetch
    BY <1>1, <1>2, <1>3
  <2>2. \A x \in (cache \cup {t}) \ Prefetch : \E i \in DOMAIN a : a[i] = x
    BY <1>1, <1>2 DEF CacheInStep
  <2>. QED BY <2>1, <2>2
<1>. HIDE DEF a
<1>6. CASE Len(order) < MaxEntries
  <2>1. cache' = cache \cup {t} /\ order' = a
    BY <1>6 DEF Store, a
  <2>. QED BY <1>1, <1>2, <1>4, <1>5, <1>6, <2>1 DEF CacheInStep
<1>7. CASE ~(Len(order) < MaxEntries)
  <2>. DEFINE r == Tail(a)
  <2>. HIDE DEF r
  <2>1. cache' = (cache \cup {t}) \ {Head(order)} /\ order' = r
    BY <1>7 DEF Store, a, r
  <2>2. Len(order) = MaxEntries /\ Len(order) >= 1
    <3>1. Len(order) <= MaxEntries
      BY DEF CacheInStep
    <3>2. \A m, n \in Nat : m <= n /\ ~(m < n) /\ n # 0 => m = n /\ m >= 1
      OBVIOUS
    <3>3. Len(order) \in Nat /\ MaxEntries \in Nat /\ MaxEntries # 0
      BY <1>1
    <3>. QED BY <1>7, <3>1, <3>2, <3>3
  <2>3. Head(order) = order[1] /\ order[1] = a[1] /\ 1 \in DOMAIN order
    BY <1>1, <1>2, <2>2
  <2>4. /\ r \in Seq(Tracks) /\ Len(r) = Len(order)
        /\ DOMAIN r = 1 .. Len(order)
        /\ \A i \in 1 .. Len(order) : r[i] = a[i + 1]
    BY <1>1, <1>2, <2>2 DEF r
  <2>5. \A i, j \in DOMAIN r : r[i] = r[j] => i = j
    <3>1. SUFFICES ASSUME NEW i \in 1 .. Len(order), NEW j \in 1 .. Len(order),
                          r[i] = r[j]
                   PROVE  i = j
      BY <2>4
    <3>2. i + 1 \in DOMAIN a /\ j + 1 \in DOMAIN a
      BY <1>1, <1>2
    <3>3. i + 1 = j + 1
      BY <1>4, <2>4, <3>1, <3>2
    <3>. QED BY <1>1, <3>3
  <2>6. \A i \in DOMAIN r : r[i] \in ((cache \cup {t}) \ Prefetch) \ {a[1]}
    <3>1. SUFFICES ASSUME NEW i \in DOMAIN r
                   PROVE  r[i] \in ((cache \cup {t}) \ Prefetch) \ {a[1]}
      OBVIOUS
    <3>2. i + 1 \in DOMAIN a /\ 1 \in DOMAIN a /\ i + 1 # 1
      BY <1>1, <1>2, <2>4
    <3>. QED BY <1>1, <1>4, <1>5, <2>4, <3>2
  <2>7. \A x \in ((cache \cup {t}) \ Prefetch) \ {a[1]} :
          \E i \in DOMAIN r : r[i] = x
    <3>1. SUFFICES ASSUME NEW x \in ((cache \cup {t}) \ Prefetch) \ {a[1]}
                   PROVE  \E i \in DOMAIN r : r[i] = x
      OBVIOUS
    <3>2. PICK k \in DOMAIN a : a[k] = x
      BY <1>5
    <3>3. k # 1
      BY <3>2
    <3>4. k - 1 \in 1 .. Len(order) /\ (k - 1) + 1 = k
      BY <1>1, <1>2, <3>3
    <3>. QED BY <2>4, <3>2, <3>4
  <2>8. cache' \ Prefetch = {r[i] : i \in DOMAIN r}
    BY <2>1, <2>3, <2>6, <2>7
  <2>9. t # Head(order)
    BY <1>3, <2>3
  <2>. QED BY <1>1, <2>1, <2>2, <2>4, <2>5, <2>8, <2>9 DEF CacheInStep
<1>. QED BY <1>6, <1>7

\* Erasing keeps them in step.
LEMMA EraseInStep ==
  ASSUME DecryptAssumption, TypeOK, CacheInStep, NEW t \in Tracks, Erase(t)
  PROVE  CacheInStep' /\ cache' \subseteq Tracks /\ order' \in Seq(Tracks)
<1>1. /\ order \in Seq(Tracks) /\ Len(order) \in Nat
      /\ cache \subseteq Tracks /\ MaxEntries \in Nat
      /\ cache' = cache \ {t}
  BY DEF TypeOK, DecryptAssumption, Erase
<1>2. CASE t \in cache /\ \E i \in DOMAIN order : order[i] = t
  <2>1. order' = Without(order, t)
    BY <1>2 DEF Erase
  <2>2. /\ order' \in Seq(Tracks) /\ Len(order') = Len(order) - 1
        /\ {order'[i] : i \in DOMAIN order'}
             = {order[i] : i \in DOMAIN order} \ {t}
        /\ \A i, j \in DOMAIN order' : order'[i] = order'[j] => i = j
    BY <1>1, <1>2, <2>1, WithoutOne DEF CacheInStep
  <2>3. cache' \ Prefetch = {order'[i] : i \in DOMAIN order'}
    BY <1>1, <2>2 DEF CacheInStep
  <2>4. Len(order') <= MaxEntries
    BY <1>1, <2>2 DEF CacheInStep
  <2>. QED BY <1>1, <2>2, <2>3, <2>4 DEF CacheInStep
<1>3. CASE ~(t \in cache /\ \E i \in DOMAIN order : order[i] = t)
  <2>1. order' = order
    BY <1>3 DEF Erase
  <2>2. t \notin {order[i] : i \in DOMAIN order}
    BY <1>3 DEF CacheInStep
  <2>. QED BY <1>1, <2>1, <2>2 DEF CacheInStep
<1>. QED BY <1>2, <1>3
-----------------------------------------------------------------------------
(* Types.                                                                  *)

\* A running task is counted.
LEMMA BusyCounted ==
  ASSUME DecryptAssumption, TypeOK, ActiveCounted
  PROVE  /\ IsFiniteSet(Busy) /\ Cardinality(Busy) \in Nat
         /\ Busy # {} => active - 1 \in Nat
         /\ active = 0 => Busy = {}
<1>1. IsFiniteSet(Busy) /\ Cardinality(Busy) \in Nat
  BY FS_Subset, FS_CardinalityType DEF Busy, DecryptAssumption
<1>2. Cardinality(Busy) = 0 <=> Busy = {}
  BY <1>1, FS_EmptySet
<1>. QED BY <1>1, <1>2 DEF ActiveCounted

\* Every step assigns values of the types.
LEMMA TypeStep ==
  ASSUME DecryptAssumption, IInv, [Next]_vars
  PROVE  TypeOK'
<1>. USE DEF TypeOK, Go, vars, batchVars, cacheVars, poolVars, MainPlaces,
             Running
<1>0. TypeOK /\ CacheInStep
  BY DEF IInv
<1>1. CASE UNCHANGED vars \/ Gone
  BY <1>0, <1>1 DEF Gone
<1>2. CASE Receive
  <2>1. chunks' \in 0 .. MaxSamples
    BY <1>2 DEF Receive, DecryptAssumption
  <2>2. plaintexts' = <<>> /\ DOMAIN plaintexts' = {}
    BY <1>2 DEF Receive
  <2>. QED BY <1>0, <1>2, <2>1, <2>2 DEF Receive
<1>3. CASE UseCached \/ RefusePrefetch \/ DeriveFails
  BY <1>0, <1>3 DEF UseCached, RefusePrefetch, DeriveFails, Derivable
<1>4. CASE Derive
  <2>1. cache' \subseteq Tracks /\ order' \in Seq(Tracks)
    BY <1>0, <1>4, StoreInStep DEF Derive, Derivable
  <2>. QED BY <1>0, <1>4, <2>1 DEF Derive
<1>5. CASE GetPool
  <2>1. plaintexts' = [i \in 0 .. chunks - 1 |-> "cipher"]
    BY <1>5 DEF GetPool
  <2>2. /\ DOMAIN plaintexts' = 0 .. chunks - 1
        /\ plaintexts' \in [DOMAIN plaintexts' -> {"cipher", "plain", "broken"}]
    BY <2>1
  <2>. QED BY <1>0, <1>5, <2>2 DEF GetPool
<1>6. CASE Submit
  <2>1. Stride \in Nat /\ Stride <= chunks /\ chunks \in 0 .. MaxSamples
    BY <1>0, StrideType
  <2>2. [t \in 1 .. Stride |-> t - 1] \in Seq(Samples)
    BY <2>1 DEF Samples, DecryptAssumption
  <2>3. queue' \in Seq(Samples)
    BY <1>0, <1>6, <2>2 DEF Submit
  <2>. QED BY <1>0, <1>6, <2>3 DEF Submit
<1>7. CASE NotifyWorkers \/ NotifyStop
  BY <1>0, <1>7 DEF NotifyWorkers, NotifyStop, WakeWorkers
<1>8. CASE Wait \/ CollectOk \/ CollectError \/ Shutdown \/ Join
  BY <1>0, <1>8 DEF Wait, CollectOk, CollectError, Shutdown, Join
<1>9. CASE AnswerFailed
  <2>1. cache' \subseteq Tracks /\ order' \in Seq(Tracks)
    BY <1>0, <1>9, EraseInStep DEF AnswerFailed
  <2>2. plaintexts' = <<>> /\ DOMAIN plaintexts' = {}
    BY <1>9 DEF AnswerFailed
  <2>. QED BY <1>0, <1>9, <2>1, <2>2 DEF AnswerFailed
<1>10. ASSUME NEW w \in Workers, Take(w) PROVE TypeOK'
  <2>1. active' \in Nat /\ queue \in Seq(Samples) /\ queue # <<>>
        /\ queue' = Tail(queue)
    BY <1>0, <1>10 DEF Take, CountTask
  <2>2. Head(queue) \in Samples /\ queue' \in Seq(Samples)
    BY <2>1, HeadTailProperties
  <2>3. Head(queue) \in Nat
    BY <2>2 DEF Samples, DecryptAssumption
  <2>. QED BY <1>0, <1>10, <2>1, <2>2, <2>3 DEF Take
<1>11. ASSUME NEW w \in Workers, Doze(w) \/ Leave(w) \/ Test(w) PROVE TypeOK'
  BY <1>0, <1>11 DEF Doze, Leave, Test
<1>12. ASSUME NEW w \in Workers, DecryptSample(w) PROVE TypeOK'
  <2>1. task' \in [Workers -> Nat]
    BY <1>0, <1>12, StrideType DEF DecryptSample, NextInStripe
  <2>. QED BY <1>0, <1>12, <2>1 DEF DecryptSample
<1>13. ASSUME NEW w \in Workers, SampleFails(w) PROVE TypeOK'
  BY <1>0, <1>13 DEF SampleFails
<1>14. ASSUME NEW w \in Workers, ReportError(w) PROVE TypeOK'
  <2>1. task[w] < chunks
    BY <1>14 DEF IInv, StripesOK, ReportError
  <2>2. task[w] \in Samples
    BY <1>0, <2>1 DEF Samples, DecryptAssumption
  <2>. QED BY <1>0, <1>14, <2>2 DEF ReportError, KeepFirst
<1>15. ASSUME NEW w \in Workers, Retire(w) PROVE TypeOK'
  <2>1. w \in Busy
    BY <1>15 DEF Retire, Busy
  <2>2. active' \in Nat
    BY <1>0, <1>15, <2>1, BusyCounted DEF IInv, Retire
  <2>. QED BY <1>0, <1>15, <2>2 DEF Retire
<1>16. ASSUME NEW w \in Workers, NotifyDone(w) PROVE TypeOK'
  BY <1>0, <1>16 DEF NotifyDone, WakeMain
<1>17. CASE SpuriousWakeup
  BY <1>0, <1>17 DEF SpuriousWakeup
<1>. QED
  BY <1>1, <1>2, <1>3, <1>4, <1>5, <1>6, <1>7, <1>8, <1>9, <1>10, <1>11,
     <1>12, <1>13, <1>14, <1>15, <1>16, <1>17 DEF Next, Main, Worker
-----------------------------------------------------------------------------
(* The barrier.                                                            *)

\* Only taking a task makes a thread busy and only retiring ends it.
LEMMA BusyMoves ==
  ASSUME IInv, [Next]_vars
  PROVE  \/ \E w \in Workers : Take(w) /\ w \notin Busy /\ Busy' = Busy \cup {w}
         \/ \E w \in Workers : Retire(w) /\ w \in Busy /\ Busy' = Busy \ {w}
         \/ Busy' = Busy /\ active' = active /\ (queue' = queue \/ Submit)
<1>. USE DEF Busy, Go, Running
<1>0. at \in [Workers -> {"off", "ready", "asleep", "notify"} \cup Running]
  BY DEF IInv, TypeOK
<1>1. CASE UNCHANGED vars \/ Gone
  BY <1>0, <1>1 DEF Gone, vars, poolVars
<1>2. CASE Receive \/ Shutdown
  BY <1>0, <1>2 DEF Receive, Shutdown, poolVars
<1>3. CASE UseCached \/ RefusePrefetch \/ DeriveFails \/ Derive
  BY <1>0, <1>3 DEF UseCached, RefusePrefetch, DeriveFails, Derive, poolVars
<1>4. CASE GetPool \/ Submit
  BY <1>0, <1>4 DEF GetPool, Submit
<1>5. CASE NotifyWorkers \/ NotifyStop
  BY <1>0, <1>5 DEF NotifyWorkers, NotifyStop, WakeWorkers
<1>6. CASE Wait \/ CollectOk \/ CollectError \/ AnswerFailed \/ Join
  BY <1>0, <1>6 DEF Wait, CollectOk, CollectError, AnswerFailed, Join, poolVars
<1>7. ASSUME NEW w \in Workers, Take(w)
      PROVE  w \notin Busy /\ Busy' = Busy \cup {w}
  BY <1>0, <1>7 DEF Take
<1>8. ASSUME NEW w \in Workers, Retire(w)
      PROVE  w \in Busy /\ Busy' = Busy \ {w}
  BY <1>0, <1>8 DEF Retire
<1>9. ASSUME NEW w \in Workers, Doze(w) \/ Leave(w) \/ NotifyDone(w)
      PROVE  Busy' = Busy /\ active' = active /\ queue' = queue
  BY <1>0, <1>9 DEF Doze, Leave, NotifyDone
<1>10. ASSUME NEW w \in Workers,
              Test(w) \/ DecryptSample(w) \/ SampleFails(w) \/ ReportError(w)
       PROVE  Busy' = Busy /\ active' = active /\ queue' = queue
  BY <1>0, <1>10 DEF Test, DecryptSample, SampleFails, ReportError
<1>11. CASE SpuriousWakeup
  BY <1>0, <1>11 DEF SpuriousWakeup, poolVars
<1>. QED
  BY <1>1, <1>2, <1>3, <1>4, <1>5, <1>6, <1>7, <1>8, <1>9, <1>10, <1>11
  DEF Next, Main, Worker

\* active is increased and decreased with the set of busy threads.
LEMMA ActiveStep ==
  ASSUME DecryptAssumption, IInv, [Next]_vars
  PROVE  ActiveCounted'
<1>1. IsFiniteSet(Busy) /\ active = Cardinality(Busy) /\ active \in Nat
  BY BusyCounted DEF IInv, ActiveCounted
<1>2. ASSUME NEW w \in Workers, Take(w), w \notin Busy, Busy' = Busy \cup {w}
      PROVE  ActiveCounted'
  BY <1>1, <1>2, FS_AddElement DEF ActiveCounted, Take, CountTask
<1>3. ASSUME NEW w \in Workers, Retire(w), w \in Busy, Busy' = Busy \ {w}
      PROVE  ActiveCounted'
  BY <1>1, <1>3, FS_RemoveElement DEF ActiveCounted, Retire
<1>4. CASE Busy' = Busy /\ active' = active
  BY <1>1, <1>4 DEF ActiveCounted
<1>. QED BY <1>2, <1>3, <1>4, BusyMoves

\* Where the IPC thread leaves run_all() the pool is idle.
LEMMA MainMoves ==
  ASSUME DecryptAssumption, IInv, [Next]_vars, main \in InRunAll
  PROVE  main' \in InRunAll \/ (main' = "collect" /\ queue = <<>> /\ Busy = {})
<1>. USE DEF InRunAll
<1>1. CASE Wait
  BY <1>1, BusyCounted DEF Wait, BatchDone, IInv
<1>2. CASE NotifyWorkers \/ SpuriousWakeup \/ Gone \/ UNCHANGED vars
  BY <1>2 DEF NotifyWorkers, SpuriousWakeup, Gone, vars
<1>3. ASSUME NEW w \in Workers, Worker(w) PROVE main' \in InRunAll
  BY <1>3 DEF Worker, Take, Doze, Leave, Test, DecryptSample, SampleFails,
              ReportError, Retire, NotifyDone, WakeMain
<1>. QED
  BY <1>1, <1>2, <1>3
  DEF Next, Main, Receive, Shutdown, UseCached, RefusePrefetch, DeriveFails,
      Derive, Derivable, GetPool, Submit, CollectOk, CollectError,
      AnswerFailed, NotifyStop, Join

\* The barrier: outside run_all() there is nothing to take.
LEMMA BarrierStep ==
  ASSUME DecryptAssumption, IInv, [Next]_vars
  PROVE  PoolBarrier'
<1>1. PoolBarrier /\ queue \in Seq(Samples)
  BY DEF IInv, TypeOK
<1>2. ASSUME NEW w \in Workers, Take(w), Busy' = Busy \cup {w}
      PROVE  PoolBarrier'
  <2>1. main \in InRunAll /\ main' = main
    BY <1>1, <1>2 DEF PoolBarrier, Take
  <2>. QED BY <2>1 DEF PoolBarrier, InRunAll
<1>3. ASSUME NEW w \in Workers, Retire(w), Busy' = Busy \ {w}, w \in Busy
      PROVE  PoolBarrier'
  <2>1. main \in InRunAll /\ main' = main
    BY <1>1, <1>3 DEF PoolBarrier, Retire
  <2>. QED BY <2>1 DEF PoolBarrier, InRunAll
<1>4. CASE Submit
  BY <1>4 DEF Submit, PoolBarrier, InRunAll
<1>5. CASE Busy' = Busy /\ queue' = queue
  BY <1>1, <1>5, MainMoves DEF PoolBarrier
<1>. QED BY <1>2, <1>3, <1>4, <1>5, BusyMoves

-----------------------------------------------------------------------------
(* The batch.                                                              *)

\* chunks, track, error and the cache are as each place of the IPC thread
\* needs them.
LEMMA BatchStep ==
  ASSUME DecryptAssumption, IInv, [Next]_vars
  PROVE  BatchOK'
<1>. USE DEF BatchOK, InRunAll, batchVars, cacheVars
<1>0. BatchOK /\ TypeOK /\ CacheInStep
  BY DEF IInv
<1>1. CASE UNCHANGED vars \/ Gone
  BY <1>0, <1>1 DEF Gone, vars
<1>2. CASE Receive
  <2>1. chunks' >= 1
    BY <1>2 DEF Receive, DecryptAssumption
  <2>. QED BY <1>2, <2>1 DEF Receive
<1>3. CASE UseCached
  BY <1>0, <1>3 DEF UseCached
<1>4. CASE RefusePrefetch \/ DeriveFails
  BY <1>0, <1>4 DEF RefusePrefetch, DeriveFails, Derivable
<1>5. CASE Derive
  <2>1. track \in cache'
    BY <1>0, <1>5, StoreInStep DEF Derive, Derivable, TypeOK
  <2>. QED BY <1>0, <1>5, <2>1 DEF Derive, Derivable
<1>6. CASE GetPool
  <2>1. DOMAIN plaintexts' = 0 .. chunks - 1
    BY <1>6 DEF GetPool
  <2>2. \A i \in 0 .. chunks - 1 : plaintexts'[i] = "cipher"
    BY <1>6 DEF GetPool
  <2>. QED BY <1>0, <1>6, <2>1, <2>2 DEF GetPool
<1>7. CASE Submit \/ NotifyWorkers \/ Wait
  BY <1>0, <1>7 DEF Submit, NotifyWorkers, Wait
<1>8. CASE CollectOk \/ CollectError \/ AnswerFailed
  BY <1>0, <1>8 DEF CollectOk, CollectError, AnswerFailed
<1>9. CASE Shutdown \/ NotifyStop \/ Join
  BY <1>0, <1>9 DEF Shutdown, NotifyStop, Join
<1>10. CASE SpuriousWakeup
  BY <1>0, <1>10 DEF SpuriousWakeup
<1>11. ASSUME NEW w \in Workers,
              Take(w) \/ Doze(w) \/ Leave(w) \/ Test(w) \/ Retire(w)
       PROVE  BatchOK'
  BY <1>0, <1>11 DEF Take, Doze, Leave, Test, Retire
<1>12. ASSUME NEW w \in Workers, DecryptSample(w) \/ SampleFails(w)
       PROVE  BatchOK'
  <2>1. DOMAIN plaintexts' = DOMAIN plaintexts
    BY <1>0, <1>12 DEF DecryptSample, SampleFails, TypeOK
  <2>2. w \in Busy
    BY <1>12 DEF DecryptSample, SampleFails, Go, Busy, Running
  <2>3. main \in InRunAll
    BY <2>2 DEF IInv, PoolBarrier
  <2>. QED BY <1>0, <1>12, <2>1, <2>3 DEF DecryptSample, SampleFails
<1>13. ASSUME NEW w \in Workers, ReportError(w) PROVE BatchOK'
  <2>1. w \in Busy
    BY <1>13 DEF ReportError, Go, Busy, Running
  <2>2. main \in InRunAll
    BY <2>1 DEF IInv, PoolBarrier
  <2>. QED BY <1>0, <1>13, <2>2 DEF ReportError
<1>14. ASSUME NEW w \in Workers, NotifyDone(w) PROVE BatchOK'
  BY <1>0, <1>14 DEF NotifyDone, WakeMain
<1>. QED
  BY <1>1, <1>2, <1>3, <1>4, <1>5, <1>6, <1>7, <1>8, <1>9, <1>10, <1>11,
     <1>12, <1>13, <1>14 DEF Next, Main, Worker

\* What steps that are not about the pool's work have in common.
Quiet ==
  /\ UNCHANGED <<chunks, queue, task>>
  /\ Busy' \subseteq Busy
  /\ \A w \in Workers :
       at'[w] \in {"decrypt", "report"} =>
         at[w] \in {"decrypt", "report"} \/ task[w] < chunks

LEMMA QuietSteps ==
  ASSUME IInv, [Next]_vars
  PROVE  \/ Quiet
         \/ Receive \/ Submit
         \/ \E w \in Workers : Take(w) \/ DecryptSample(w)
<1>. USE DEF Quiet, Busy, Go, Running, batchVars, poolVars
<1>0. at \in [Workers -> {"off", "ready", "asleep", "notify"} \cup Running]
  BY DEF IInv, TypeOK
<1>1. CASE UNCHANGED vars \/ Gone \/ SpuriousWakeup
  BY <1>0, <1>1 DEF Gone, vars, SpuriousWakeup
<1>2. CASE UseCached \/ RefusePrefetch \/ DeriveFails \/ Derive \/ GetPool
  BY <1>0, <1>2 DEF UseCached, RefusePrefetch, DeriveFails, Derive, GetPool
<1>3. CASE NotifyWorkers \/ NotifyStop
  BY <1>0, <1>3 DEF NotifyWorkers, NotifyStop, WakeWorkers
<1>4. CASE Wait \/ CollectOk \/ CollectError \/ AnswerFailed \/ Join \/ Shutdown
  BY <1>0, <1>4
  DEF Wait, CollectOk, CollectError, AnswerFailed, Join, Shutdown
<1>5. ASSUME NEW w \in Workers,
             Doze(w) \/ Leave(w) \/ Retire(w) \/ NotifyDone(w)
      PROVE  Quiet
  BY <1>0, <1>5 DEF Doze, Leave, Retire, NotifyDone
<1>6. ASSUME NEW w \in Workers, Test(w) \/ SampleFails(w) \/ ReportError(w)
      PROVE  Quiet
  BY <1>0, <1>6 DEF Test, SampleFails, ReportError
<1>. QED BY <1>1, <1>2, <1>3, <1>4, <1>5, <1>6 DEF Next, Main, Worker

\* The head of the queue is the first stripe nobody has taken.
LEMMA TakeFacts ==
  ASSUME DecryptAssumption, IInv, NEW w \in Workers, Take(w)
  PROVE  /\ chunks >= 1 /\ chunks' = chunks
         /\ task' = [task EXCEPT ![w] = FirstQueued]
         /\ FirstQueued \in 0 .. Stride - 1 /\ Home(FirstQueued) = FirstQueued
         /\ Len(queue') = Len(queue) - 1
         /\ DOMAIN queue' = 1 .. Len(queue) - 1
         /\ \A k \in DOMAIN queue' : queue'[k] = queue[k + 1]
         /\ FirstQueued' = FirstQueued + 1
<1>1. queue \in Seq(Samples) /\ queue # <<>> /\ queue' = Tail(queue)
  BY DEF IInv, TypeOK, Take
<1>2. /\ Len(queue) \in Nat /\ Len(queue) >= 1 /\ DOMAIN queue = 1 .. Len(queue)
      /\ Head(queue) = queue[1]
  BY <1>1
<1>3. /\ Len(queue') = Len(queue) - 1 /\ DOMAIN queue' = 1 .. Len(queue) - 1
      /\ \A k \in DOMAIN queue' : queue'[k] = queue[k + 1]
  BY <1>1, <1>2
<1>4. chunks >= 1 /\ chunks' = chunks
  BY <1>1 DEF IInv, PoolBarrier, BatchOK, InRunAll, Take, batchVars
<1>5. Stride \in Nat /\ Len(queue) <= Stride /\ Stride' = Stride
  BY <1>4, StrideType, SameStripes DEF IInv, StripesOK
<1>6. FirstQueued \in 0 .. Stride - 1 /\ FirstQueued' = FirstQueued + 1
  BY <1>2, <1>3, <1>5 DEF FirstQueued
<1>7. Home(FirstQueued) = FirstQueued
  BY <1>4, <1>6, HomeFacts DEF IInv
<1>8. queue[1] = FirstQueued
  <2>1. queue[1] = FirstQueued + 1 - 1
    BY <1>2 DEF IInv, StripesOK
  <2>. QED BY <1>5, <1>6, <2>1
<1>. QED BY <1>2, <1>3, <1>4, <1>6, <1>7, <1>8 DEF Take

\* A thread that decrypts a sample goes on in its stripe.
LEMMA DecryptFacts ==
  ASSUME DecryptAssumption, IInv, NEW w \in Workers, DecryptSample(w)
  PROVE  /\ chunks >= 1 /\ UNCHANGED <<chunks, queue>>
         /\ main \in InRunAll /\ main' = main /\ error' = error
         /\ task' = [task EXCEPT ![w] = task[w] + Stride]
         /\ task[w] \in 0 .. chunks - 1 /\ task[w] + Stride \in Nat
         /\ Home(task[w] + Stride) = Home(task[w])
         /\ at[w] = "decrypt" /\ at' = [at EXCEPT ![w] = "test"]
         /\ plaintexts' = [plaintexts EXCEPT ![task[w]] = "plain"]
<1>1. w \in Busy /\ at[w] = "decrypt" /\ at' = [at EXCEPT ![w] = "test"]
  BY DEF DecryptSample, Go, Busy, Running
<1>2. main \in InRunAll
  BY <1>1 DEF IInv, PoolBarrier
<1>3. chunks >= 1 /\ chunks \in Nat /\ Stride \in Nat
  BY <1>2, StrideType DEF IInv, BatchOK, InRunAll
<1>4. task[w] \in Nat /\ task[w] < chunks
  BY <1>1 DEF IInv, TypeOK, StripesOK
<1>5. Home(task[w] + Stride) = Home(task[w])
  BY <1>3, <1>4, HomeFacts DEF IInv
<1>. QED
  BY <1>1, <1>2, <1>3, <1>4, <1>5 DEF DecryptSample, NextInStripe

\* Stripes stay dealt out.
LEMMA StripesStep ==
  ASSUME DecryptAssumption, IInv, [Next]_vars
  PROVE  StripesOK'
<1>0. /\ TypeOK /\ TypeOK' /\ StripesOK
      /\ at \in [Workers -> {"off", "ready", "asleep", "notify"} \cup Running]
      /\ task \in [Workers -> Nat] /\ queue \in Seq(Samples)
      /\ Len(queue) \in Nat /\ chunks \in Nat /\ Stride \in Nat
      /\ chunks' \in Nat /\ Stride' \in Nat
  <2>1. TypeOK /\ TypeOK' /\ StripesOK
    BY TypeStep DEF IInv
  <2>2. (chunks \in Nat /\ Stride \in Nat) /\ (chunks' \in Nat /\ Stride' \in Nat)
    BY <2>1, StrideType, StrideTypeNext
  <2>3. /\ at \in [Workers -> {"off", "ready", "asleep", "notify"} \cup Running]
        /\ task \in [Workers -> Nat] /\ queue \in Seq(Samples)
    BY <2>1 DEF TypeOK
  <2>4. Len(queue) \in Nat
    BY <2>3
  <2>. QED BY <2>1, <2>2, <2>3, <2>4
<1>1. CASE Quiet
  <2>1. UNCHANGED <<Stride, FirstQueued>> /\ \A w \in Workers :
          Home(task[w])' = Home(task[w])
    BY <1>1 DEF Quiet, Stride, FirstQueued, Home
  <2>2. \A w \in Busy : Home(task[w]) < FirstQueued
    BY <1>0 DEF StripesOK
  <2>3. \A w \in Busy' : w \in Busy /\ w \in Workers
    BY <1>1 DEF Quiet, Busy
  <2>4. \A w \in Busy' : Home(task[w])' < FirstQueued'
    BY <2>1, <2>2, <2>3
  <2>5. \A v, w \in Busy' : Home(task[v])' = Home(task[w])' => v = w
    BY <1>0, <2>1, <2>3 DEF StripesOK
  <2>6. Len(queue') <= Stride' /\ \A k \in DOMAIN queue' :
          queue'[k] = FirstQueued' + k - 1
    BY <1>0, <1>1, <2>1 DEF StripesOK, Quiet
  <2>7. \A w \in Workers : at'[w] \in {"decrypt", "report"} => task'[w] < chunks'
    BY <1>0, <1>1 DEF StripesOK, Quiet
  <2>. QED BY <2>4, <2>5, <2>6, <2>7 DEF StripesOK
<1>2. CASE Receive
  <2>1. queue' = <<>> /\ Busy' = {}
    BY <1>2 DEF Receive, IInv, PoolBarrier, InRunAll, poolVars, Busy
  <2>2. \A w \in Workers : at'[w] \notin {"decrypt", "report"}
    BY <2>1 DEF Busy, Running
  <2>. QED BY <1>0, <2>1, <2>2 DEF StripesOK
<1>3. CASE Submit
  <2>1. queue = <<>> /\ Busy' = {} /\ Busy = {}
    BY <1>3 DEF Submit, IInv, PoolBarrier, InRunAll, Busy
  <2>2. Stride' = Stride
    BY <1>3, SameStripes DEF Submit, batchVars
  <2>3. queue' = [t \in 1 .. Stride |-> t - 1]
    <3>1. [t \in 1 .. Stride |-> t - 1] \in Seq(Int)
      BY <1>0
    <3>. QED BY <1>3, <2>1, <3>1 DEF Submit
  <2>4. /\ Len(queue') = Stride /\ DOMAIN queue' = 1 .. Stride
        /\ FirstQueued' = 0
    BY <1>0, <2>2, <2>3 DEF FirstQueued
  <2>5. \A w \in Workers : at'[w] \notin {"decrypt", "report"}
    BY <2>1 DEF Busy, Running
  <2>. QED BY <1>0, <2>1, <2>2, <2>3, <2>4, <2>5 DEF StripesOK
<1>4. ASSUME NEW w \in Workers, Take(w) PROVE StripesOK'
  <2>1. /\ chunks' = chunks
        /\ task' = [task EXCEPT ![w] = FirstQueued]
        /\ FirstQueued \in 0 .. Stride - 1 /\ Home(FirstQueued) = FirstQueued
        /\ Len(queue') = Len(queue) - 1
        /\ DOMAIN queue' = 1 .. Len(queue) - 1
        /\ \A k \in DOMAIN queue' : queue'[k] = queue[k + 1]
        /\ FirstQueued' = FirstQueued + 1
    BY <1>4, TakeFacts
  <2>2. Stride' = Stride /\ \A i : Home(i)' = Home(i)
    BY <2>1, SameStripes
  <2>3. at' = [at EXCEPT ![w] = "test"] /\ at[w] = "ready"
    BY <1>4 DEF Take, Go
  <2>4. w \notin Busy /\ Busy' = Busy \cup {w}
    BY <1>0, <2>3 DEF Busy, Running
  <2>5. /\ Home(task'[w]) = FirstQueued
        /\ \A v \in Busy : task'[v] = task[v] /\ Home(task[v]) < FirstQueued
    BY <1>0, <2>1, <2>4 DEF StripesOK, Busy
  <2>6. Len(queue') <= Stride'
    BY <1>0, <2>1, <2>2 DEF StripesOK
  <2>7. \A k \in DOMAIN queue' : queue'[k] = FirstQueued' + k - 1
    <3>1. SUFFICES ASSUME NEW k \in 1 .. Len(queue) - 1
                   PROVE  queue'[k] = FirstQueued' + k - 1
      BY <2>1
    <3>2. k + 1 \in DOMAIN queue
      BY <1>0
    <3>3. queue[k + 1] = FirstQueued + (k + 1) - 1
      BY <1>0, <3>2 DEF StripesOK
    <3>4. queue'[k] = queue[k + 1]
      BY <2>1
    <3>5. FirstQueued \in Nat /\ FirstQueued' = FirstQueued + 1 /\ k \in Nat
      BY <1>0, <2>1
    <3>. QED BY <3>3, <3>4, <3>5
  <2>8. \A v \in Busy' : Home(task'[v]) < FirstQueued'
    <3>1. SUFFICES ASSUME NEW v \in Busy' PROVE Home(task'[v]) < FirstQueued'
      OBVIOUS
    <3>2. CASE v = w
      BY <2>1, <2>5, <3>2
    <3>3. CASE v \in Busy
      <4>1. Home(task[v]) \in Nat
        BY <1>0, <1>4, <3>3, TakeFacts, HomeFacts DEF Busy
      <4>. QED BY <2>1, <2>5, <3>3, <4>1
    <3>. QED BY <2>4, <3>2, <3>3
  <2>9. \A u, v \in Busy' : Home(task'[u]) = Home(task'[v]) => u = v
    <3>1. \A v \in Busy : Home(task[v]) # FirstQueued
      <4>1. SUFFICES ASSUME NEW v \in Busy PROVE Home(task[v]) # FirstQueued
        OBVIOUS
      <4>2. Home(task[v]) \in Nat /\ Home(task[v]) < FirstQueued
        BY <1>0, <1>4, <2>5, TakeFacts, HomeFacts DEF Busy
      <4>. QED BY <2>1, <4>2
    <3>. QED BY <1>0, <2>4, <2>5, <3>1 DEF StripesOK
  <2>10. \A v \in Workers : at'[v] \in {"decrypt", "report"} => task'[v] < chunks'
    BY <1>0, <2>1, <2>3 DEF StripesOK
  <2>. QED BY <2>2, <2>6, <2>7, <2>8, <2>9, <2>10 DEF StripesOK
<1>5. ASSUME NEW w \in Workers, DecryptSample(w) PROVE StripesOK'
  <2>1. /\ UNCHANGED <<chunks, queue>> /\ at[w] = "decrypt"
        /\ at' = [at EXCEPT ![w] = "test"]
        /\ task' = [task EXCEPT ![w] = task[w] + Stride]
        /\ Home(task[w] + Stride) = Home(task[w])
    BY <1>5, DecryptFacts
  <2>2. UNCHANGED <<Stride, FirstQueued>> /\ \A i : Home(i)' = Home(i)
    BY <2>1, SameStripes DEF FirstQueued
  <2>3. Busy' = Busy
    BY <1>0, <2>1 DEF Busy, Running
  <2>4. \A v \in Workers : Home(task'[v]) = Home(task[v])
    BY <1>0, <2>1
  <2>. QED BY <1>0, <2>1, <2>2, <2>3, <2>4 DEF StripesOK, Busy
<1>. QED BY <1>1, <1>2, <1>3, <1>4, <1>5, QuietSteps

\* Where a sample is accounted for does not change in any other step.
LEMMA AccountedKept ==
  ASSUME UNCHANGED <<chunks, queue, task, plaintexts>>,
         OnLocals \subseteq OnLocals',
         NEW i, Accounted(i)
  PROVE  Accounted(i)'
<1>1. FirstQueued' = FirstQueued /\ Home(i)' = Home(i)
      /\ \A w : Home(task[w])' = Home(task[w])
  BY DEF FirstQueued, Home, Stride
<1>. QED BY <1>1 DEF Accounted

\* A thread that is done with its stripe has passed every sample of it.
LEMMA TestAccounted ==
  ASSUME DecryptAssumption, IInv, NEW w \in Workers, Test(w), error = None,
         NEW i \in 0 .. chunks - 1, Accounted(i)
  PROVE  Accounted(i)'
<1>1. /\ UNCHANGED <<chunks, queue, task, plaintexts>>
      /\ at[w] = "test"
      /\ at' = [at EXCEPT ![w] = IF task[w] < chunks THEN "decrypt" ELSE "retire"]
      /\ at \in [Workers -> {"off", "ready", "asleep", "notify"} \cup Running]
      /\ task \in [Workers -> Nat] /\ chunks \in Nat
  BY StrideType DEF Test, Go, batchVars, IInv, TypeOK
<1>2. CASE task[w] < chunks
  <2>1. OnLocals \subseteq OnLocals'
    BY <1>1, <1>2 DEF OnLocals
  <2>. QED BY <1>1, <2>1, AccountedKept
<1>3. CASE ~(task[w] < chunks)
  <2>1. FirstQueued' = FirstQueued /\ \A j : Home(j)' = Home(j)
    BY <1>1 DEF FirstQueued, Home, Stride
  <2>2. CASE plaintexts[i] = "plain" \/ Home(i) >= FirstQueued
    BY <1>1, <2>1, <2>2 DEF Accounted
  <2>3. ASSUME NEW v \in OnLocals, Home(task[v]) = Home(i), task[v] <= i
        PROVE  Accounted(i)'
    <3>1. v # w /\ v \in Workers
      BY <1>1, <1>3, <2>3 DEF OnLocals
    <3>2. v \in OnLocals'
      BY <1>1, <2>3, <3>1 DEF OnLocals
    <3>. QED BY <1>1, <2>1, <2>3, <3>2 DEF Accounted
  <2>. QED BY <2>2, <2>3 DEF Accounted
<1>. QED BY <1>2, <1>3

\* A stripe moves from the queue to the thread that takes it.
LEMMA TakeAccounted ==
  ASSUME DecryptAssumption, IInv, NEW w \in Workers, Take(w),
         NEW i \in 0 .. chunks - 1, Accounted(i)
  PROVE  Accounted(i)'
<1>1. /\ chunks >= 1 /\ chunks' = chunks
      /\ task' = [task EXCEPT ![w] = FirstQueued]
      /\ FirstQueued \in 0 .. Stride - 1 /\ Home(FirstQueued) = FirstQueued
      /\ FirstQueued' = FirstQueued + 1
  BY TakeFacts
<1>2. /\ at[w] = "ready" /\ at' = [at EXCEPT ![w] = "test"]
      /\ plaintexts' = plaintexts
      /\ at \in [Workers -> {"off", "ready", "asleep", "notify"} \cup Running]
      /\ task \in [Workers -> Nat] /\ chunks \in Nat /\ Stride \in Nat
  BY StrideType DEF Take, Go, batchVars, IInv, TypeOK
<1>3. \A j : Home(j)' = Home(j)
  BY <1>1, SameStripes
<1>4. i \in Nat /\ Home(i) \in 0 .. Stride - 1 /\ Home(i) <= i
  BY <1>1, <1>2, HomeFacts DEF IInv
<1>5. w \notin OnLocals /\ OnLocals' = OnLocals \cup {w}
  BY <1>2 DEF OnLocals, Running
<1>6. CASE plaintexts[i] = "plain"
  BY <1>2, <1>6 DEF Accounted
<1>7. CASE Home(i) >= FirstQueued
  <2>1. CASE Home(i) = FirstQueued
    <3>1. task'[w] = FirstQueued /\ w \in OnLocals'
      BY <1>1, <1>2, <1>5
    <3>2. Home(task[w])' = Home(i)' /\ task'[w] <= i
      BY <1>1, <1>3, <1>4, <2>1, <3>1
    <3>. QED BY <3>1, <3>2 DEF Accounted
  <2>2. CASE Home(i) # FirstQueued
    <3>1. Home(i)' >= FirstQueued'
      BY <1>1, <1>2, <1>3, <1>4, <1>7, <2>2
    <3>. QED BY <3>1 DEF Accounted
  <2>. QED BY <2>1, <2>2
<1>8. ASSUME NEW v \in OnLocals, Home(task[v]) = Home(i), task[v] <= i
      PROVE  Accounted(i)'
  <2>1. v \in OnLocals' /\ task'[v] = task[v]
    BY <1>1, <1>2, <1>5, <1>8 DEF OnLocals
  <2>2. Home(task[v])' = Home(i)' /\ task'[v] <= i
    BY <1>3, <1>8, <2>1
  <2>. QED BY <2>1, <2>2 DEF Accounted
<1>. QED BY <1>6, <1>7, <1>8 DEF Accounted

\* A thread leaves only a decrypted sample behind.
LEMMA DecryptAccounted ==
  ASSUME DecryptAssumption, IInv, NEW w \in Workers, DecryptSample(w),
         NEW i \in 0 .. chunks - 1, Accounted(i)
  PROVE  Accounted(i)'
<1>1. /\ chunks >= 1 /\ UNCHANGED <<chunks, queue>> /\ main \in InRunAll
      /\ task' = [task EXCEPT ![w] = task[w] + Stride]
      /\ task[w] \in 0 .. chunks - 1
      /\ Home(task[w] + Stride) = Home(task[w])
      /\ at[w] = "decrypt" /\ at' = [at EXCEPT ![w] = "test"]
      /\ plaintexts' = [plaintexts EXCEPT ![task[w]] = "plain"]
  BY DecryptFacts
<1>2. /\ at \in [Workers -> {"off", "ready", "asleep", "notify"} \cup Running]
      /\ task \in [Workers -> Nat] /\ chunks \in Nat /\ Stride \in Nat
      /\ DOMAIN plaintexts = 0 .. chunks - 1
      /\ plaintexts \in [DOMAIN plaintexts -> {"cipher", "plain", "broken"}]
  BY <1>1, StrideType DEF IInv, TypeOK, BatchOK
<1>3. FirstQueued' = FirstQueued /\ \A j : Home(j)' = Home(j)
  BY <1>1 DEF FirstQueued, Home, Stride
<1>4. OnLocals' = OnLocals
  BY <1>1, <1>2 DEF OnLocals
<1>5. CASE plaintexts[i] = "plain" \/ i = task[w]
  BY <1>1, <1>2, <1>5 DEF Accounted
<1>6. CASE Home(i) >= FirstQueued
  BY <1>3, <1>6 DEF Accounted
<1>7. ASSUME NEW v \in OnLocals, Home(task[v]) = Home(i), task[v] <= i,
             i # task[w]
      PROVE  Accounted(i)'
  <2>1. CASE v # w
    <3>1. v \in OnLocals' /\ task'[v] = task[v]
      BY <1>1, <1>2, <1>4, <2>1, <1>7 DEF OnLocals
    <3>2. Home(task[v])' = Home(i)' /\ task'[v] <= i
      BY <1>3, <1>7, <3>1
    <3>. QED BY <3>1, <3>2 DEF Accounted
  <2>2. CASE v = w
    <3>1. task[w] \in Nat /\ i \in Nat /\ task[w] < i
      BY <1>1, <1>2, <1>7, <2>2
    <3>2. task[w] + Stride <= i
      BY <1>1, <1>7, <2>2, <3>1, HomeFacts DEF IInv
    <3>3. task'[w] = task[w] + Stride
      BY <1>1, <1>2
    <3>4. Home(task[w])' = Home(i)' /\ task'[w] <= i
      BY <1>1, <1>3, <1>7, <2>2, <3>2, <3>3
    <3>. QED BY <1>4, <1>7, <2>2, <3>4 DEF Accounted
  <2>. QED BY <2>1, <2>2
<1>. QED BY <1>5, <1>6, <1>7 DEF Accounted

\* A failing sample stays with its thread until the error is reported.
LEMMA FailAccounted ==
  ASSUME DecryptAssumption, IInv, NEW w \in Workers, SampleFails(w),
         NEW i \in 0 .. chunks - 1, Accounted(i)
  PROVE  Accounted(i)'
<1>1. /\ UNCHANGED <<chunks, queue, task>>
      /\ at[w] = "decrypt" /\ at' = [at EXCEPT ![w] = "report"]
      /\ plaintexts' = [plaintexts EXCEPT ![task[w]] = "broken"]
      /\ at \in [Workers -> {"off", "ready", "asleep", "notify"} \cup Running]
      /\ plaintexts \in [DOMAIN plaintexts -> {"cipher", "plain", "broken"}]
      /\ task \in [Workers -> Nat]
  BY DEF SampleFails, Go, IInv, TypeOK
<1>2. FirstQueued' = FirstQueued /\ \A j : Home(j)' = Home(j)
  BY <1>1 DEF FirstQueued, Home, Stride
<1>3. OnLocals' = OnLocals /\ w \in OnLocals
  BY <1>1 DEF OnLocals
<1>4. CASE i = task[w]
  BY <1>1, <1>2, <1>3, <1>4 DEF Accounted
<1>5. CASE i # task[w]
  BY <1>1, <1>2, <1>3, <1>5 DEF Accounted
<1>. QED BY <1>4, <1>5

\* No sample gets lost.
LEMMA AccountedStep ==
  ASSUME DecryptAssumption, IInv, [Next]_vars
  PROVE  AllAccounted'
<1>. SUFFICES ASSUME main' \in InRunAll \cup {"collect"}, error' = None,
                     NEW i \in 0 .. chunks' - 1
              PROVE  Accounted(i)'
  BY DEF AllAccounted
<1>1. \/ Submit \/ NotifyWorkers \/ Wait \/ SpuriousWakeup \/ Gone
      \/ UNCHANGED vars \/ \E w \in Workers : Worker(w)
  BY DEF Next, Main, Receive, Shutdown, UseCached, RefusePrefetch, DeriveFails,
         Derive, GetPool, CollectOk, CollectError, AnswerFailed, NotifyStop,
         Join, InRunAll
<1>2. at \in [Workers -> {"off", "ready", "asleep", "notify"} \cup Running]
  BY DEF IInv, TypeOK
<1>3. ASSUME chunks' = chunks, error = None, main \in InRunAll \cup {"collect"}
      PROVE  Accounted(i)
  BY <1>3 DEF IInv, AllAccounted
<1>4. CASE Submit
  <2>1. queue = <<>> /\ chunks' = chunks /\ chunks >= 1
    BY <1>4 DEF Submit, IInv, PoolBarrier, BatchOK, InRunAll, batchVars
  <2>2. Stride \in Nat /\ Stride' = Stride /\ Home(i)' = Home(i)
    BY <2>1, StrideType, SameStripes DEF IInv
  <2>3. Len(queue') = Stride
    <3>1. [t \in 1 .. Stride |-> t - 1] \in Seq(Int)
          /\ Len([t \in 1 .. Stride |-> t - 1]) = Stride
      BY <2>2
    <3>. QED BY <1>4, <2>1, <2>2, <3>1 DEF Submit
  <2>4. Home(i) \in Nat
    BY <2>1, StrideType, HomeFacts DEF IInv
  <2>. QED BY <2>2, <2>3, <2>4 DEF Accounted, FirstQueued
<1>5. CASE NotifyWorkers
  <2>1. OnLocals' = OnLocals
    BY <1>2, <1>5 DEF NotifyWorkers, WakeWorkers, OnLocals
  <2>. QED BY <1>3, <1>5, <2>1, AccountedKept
       DEF NotifyWorkers, InRunAll, batchVars
<1>6. CASE Wait \/ Gone \/ UNCHANGED vars
  <2>1. UNCHANGED <<chunks, queue, task, plaintexts, error, at>>
    BY <1>6 DEF Wait, Gone, vars, batchVars, poolVars
  <2>2. main \in InRunAll \cup {"collect"}
    BY <1>6 DEF Wait, Gone, vars, InRunAll
  <2>. QED BY <1>3, <2>1, <2>2, AccountedKept DEF OnLocals
<1>7. CASE SpuriousWakeup
  <2>1. OnLocals' = OnLocals /\ UNCHANGED <<chunks, queue, task, plaintexts, error>>
    BY <1>2, <1>7 DEF SpuriousWakeup, Go, OnLocals, batchVars, poolVars
  <2>2. main \in InRunAll \cup {"collect"}
    BY <1>7 DEF SpuriousWakeup, InRunAll
  <2>. QED BY <1>3, <2>1, <2>2, AccountedKept
<1>8. ASSUME NEW w \in Workers, Worker(w) PROVE Accounted(i)'
  <2>1. main \in InRunAll \cup {"collect"} /\ chunks' = chunks
    BY <1>8 DEF Worker, Take, Doze, Leave, Test, DecryptSample, SampleFails,
                ReportError, Retire, NotifyDone, WakeMain, InRunAll, batchVars
  <2>2. CASE ReportError(w)
    <3>1. task[w] \in Nat /\ None \notin Nat
      BY DEF IInv, TypeOK, DecryptAssumption
    <3>. QED BY <2>2, <3>1 DEF ReportError, KeepFirst
  <2>3. CASE ~ReportError(w)
    <3>1. error' = error
      BY <1>8, <2>3 DEF Worker, Take, Doze, Leave, Test, DecryptSample,
                        SampleFails, Retire, NotifyDone, batchVars
    <3>2. Accounted(i) /\ i \in 0 .. chunks - 1 /\ error = None
      BY <1>3, <2>1, <3>1
    <3>3. CASE Doze(w) \/ Leave(w) \/ Retire(w) \/ NotifyDone(w)
      <4>1. OnLocals' = OnLocals
        BY <1>2, <3>3 DEF Doze, Leave, Retire, NotifyDone, Go, OnLocals
      <4>. QED BY <3>2, <3>3, <4>1, AccountedKept
           DEF Doze, Leave, Retire, NotifyDone, batchVars
    <3>. QED BY <1>8, <2>3, <3>2, <3>3, TestAccounted, TakeAccounted,
                DecryptAccounted, FailAccounted DEF Worker
  <2>. QED BY <2>2, <2>3
<1>. QED BY <1>1, <1>4, <1>5, <1>6, <1>7, <1>8

\* Whoever is at work on a sample finds it as nobody has touched it.
LEMMA UndoneStep ==
  ASSUME DecryptAssumption, IInv, [Next]_vars
  PROVE  AheadUndone'
<1>. DEFINE Ahead(i) ==
       \/ Home(i) >= FirstQueued
       \/ \E w \in Workers : /\ at[w] \in {"test", "decrypt"}
                             /\ Home(task[w]) = Home(i) /\ task[w] <= i
<1>. SUFFICES ASSUME main' \in InRunAll, NEW i \in 0 .. chunks' - 1, Ahead(i)'
              PROVE  plaintexts'[i] = "cipher"
  BY DEF AheadUndone
<1>1. \/ Submit \/ NotifyWorkers \/ Wait \/ SpuriousWakeup \/ Gone
      \/ UNCHANGED vars \/ \E w \in Workers : Worker(w)
  BY DEF Next, Main, Receive, Shutdown, UseCached, RefusePrefetch, DeriveFails,
         Derive, GetPool, CollectOk, CollectError, AnswerFailed, NotifyStop,
         Join, InRunAll
<1>2. at \in [Workers -> {"off", "ready", "asleep", "notify"} \cup Running]
      /\ task \in [Workers -> Nat]
  BY DEF IInv, TypeOK
<1>3. ASSUME UNCHANGED <<chunks, queue, task, plaintexts>>, main \in InRunAll,
             \A w \in Workers : at'[w] \in {"test", "decrypt"} =>
                                  at[w] \in {"test", "decrypt"}
      PROVE  plaintexts'[i] = "cipher"
  <2>1. FirstQueued' = FirstQueued /\ Home(i)' = Home(i)
        /\ \A w : Home(task[w])' = Home(task[w])
    BY <1>3 DEF FirstQueued, Home, Stride
  <2>2. Ahead(i)
    BY <1>3, <2>1
  <2>. QED BY <1>3, <2>2 DEF IInv, AheadUndone
<1>4. CASE Submit
  BY <1>4 DEF Submit, IInv, BatchOK, batchVars
<1>5. CASE NotifyWorkers
  BY <1>2, <1>3, <1>5 DEF NotifyWorkers, WakeWorkers, batchVars, InRunAll
<1>6. CASE Wait \/ Gone \/ UNCHANGED vars
  BY <1>3, <1>6 DEF Wait, Gone, vars, batchVars, poolVars, InRunAll
<1>7. CASE SpuriousWakeup
  BY <1>2, <1>3, <1>7 DEF SpuriousWakeup, Go, batchVars, poolVars, InRunAll
<1>8. ASSUME NEW w \in Workers, Worker(w) PROVE plaintexts'[i] = "cipher"
  <2>1. main \in InRunAll
    BY <1>8 DEF Worker, Take, Doze, Leave, Test, DecryptSample, SampleFails,
                ReportError, Retire, NotifyDone, WakeMain, InRunAll
  <2>2. CASE Doze(w) \/ Leave(w) \/ Test(w) \/ ReportError(w) \/ Retire(w)
               \/ NotifyDone(w)
    BY <1>2, <1>3, <2>1, <2>2 DEF Doze, Leave, Test, ReportError, Retire,
                                  NotifyDone, Go, batchVars
  <2>3. CASE Take(w)
    <3>1. /\ chunks >= 1 /\ chunks' = chunks
          /\ task' = [task EXCEPT ![w] = FirstQueued]
          /\ FirstQueued \in 0 .. Stride - 1 /\ Home(FirstQueued) = FirstQueued
          /\ FirstQueued' = FirstQueued + 1
      BY <2>3, TakeFacts
    <3>2. Home(i)' = Home(i) /\ \A v : Home(task[v])' = Home(task'[v])
      BY <3>1 DEF Home, Stride
    <3>3. at' = [at EXCEPT ![w] = "test"] /\ plaintexts' = plaintexts
      BY <2>3 DEF Take, Go, batchVars
    <3>4. Home(i) \in Nat
      BY <3>1, StrideType, HomeFacts DEF IInv
    <3>5. CASE Home(i) >= FirstQueued
      BY <2>1, <3>1, <3>3, <3>5 DEF IInv, AheadUndone
    <3>6. CASE ~(Home(i) >= FirstQueued)
      <4>1. ~(Home(i)' >= FirstQueued')
        BY <3>1, <3>2, <3>4, <3>6
      <4>2. PICK v \in Workers : /\ at'[v] \in {"test", "decrypt"}
                                 /\ Home(task[v])' = Home(i)' /\ task'[v] <= i
        BY <4>1
      <4>3. v # w
        BY <1>2, <3>1, <3>2, <3>4, <3>6, <4>2
      <4>. QED BY <1>2, <2>1, <3>1, <3>2, <3>3, <4>2, <4>3 DEF IInv, AheadUndone
    <3>. QED BY <3>5, <3>6
  <2>4. CASE DecryptSample(w)
    <3>1. /\ chunks >= 1 /\ UNCHANGED <<chunks, queue>>
          /\ task' = [task EXCEPT ![w] = task[w] + Stride]
          /\ task[w] \in 0 .. chunks - 1
          /\ Home(task[w] + Stride) = Home(task[w])
          /\ at[w] = "decrypt" /\ at' = [at EXCEPT ![w] = "test"]
          /\ plaintexts' = [plaintexts EXCEPT ![task[w]] = "plain"]
      BY <2>4, DecryptFacts
    <3>2. /\ FirstQueued' = FirstQueued /\ Home(i)' = Home(i)
          /\ \A v : Home(task[v])' = Home(task'[v])
      BY <3>1 DEF FirstQueued, Home, Stride
    <3>3. w \in Busy /\ Home(task[w]) < FirstQueued /\ Stride \in Nat
          /\ Stride >= 1 /\ FirstQueued \in Int /\ Home(task[w]) \in Nat
      <4>1. w \in Busy
        BY <3>1 DEF Busy, Running
      <4>2. Stride \in Nat /\ Stride >= 1
        BY <3>1, StrideType DEF IInv
      <4>3. FirstQueued \in Int
        BY <4>2 DEF FirstQueued, IInv, TypeOK
      <4>4. Home(task[w]) \in Nat
        BY <1>2, <3>1, StrideType, HomeFacts DEF IInv
      <4>. QED BY <4>1, <4>2, <4>3, <4>4 DEF IInv, StripesOK
    <3>4. i # task[w]
      <4>1. SUFFICES ASSUME i = task[w] PROVE FALSE
        OBVIOUS
      <4>2. PICK v \in Workers : /\ at'[v] \in {"test", "decrypt"}
                                 /\ Home(task[v])' = Home(i)' /\ task'[v] <= i
        BY <3>2, <3>3, <4>1
      <4>3. CASE v = w
        BY <1>2, <3>1, <3>3, <4>1, <4>2, <4>3
      <4>4. CASE v # w
        <5>1. v \in Busy /\ Home(task[v]) = Home(task[w])
          BY <1>2, <3>1, <3>2, <4>1, <4>2, <4>4 DEF Busy, Running
        <5>. QED BY <3>3, <4>4, <5>1 DEF IInv, StripesOK
      <4>. QED BY <4>3, <4>4
    <3>5. Ahead(i)
      <4>1. CASE Home(i)' >= FirstQueued'
        BY <3>2, <4>1
      <4>2. ASSUME NEW v \in Workers, at'[v] \in {"test", "decrypt"},
                   Home(task[v])' = Home(i)', task'[v] <= i
            PROVE  Ahead(i)
        <5>1. CASE v = w
          <6>1. task'[w] = task[w] + Stride /\ task[w] \in Nat
            BY <1>2, <3>1
          <6>2. Home(task[w]) = Home(i)
            BY <3>1, <3>2, <4>2, <5>1, <6>1
          <6>3. i \in Nat /\ task[w] <= i
            BY <3>1, <3>3, <4>2, <5>1, <6>1
          <6>. QED BY <3>1, <6>2, <6>3
        <5>2. CASE v # w
          BY <1>2, <3>1, <3>2, <4>2, <5>2
        <5>. QED BY <5>1, <5>2
      <4>. QED BY <4>1, <4>2
    <3>6. plaintexts[i] = "cipher" /\ plaintexts'[i] = plaintexts[i]
      BY <2>1, <3>1, <3>4, <3>5 DEF IInv, AheadUndone, TypeOK
    <3>. QED BY <3>6
  <2>5. CASE SampleFails(w)
    <3>1. /\ UNCHANGED <<chunks, queue, task>>
          /\ at[w] = "decrypt" /\ at' = [at EXCEPT ![w] = "report"]
          /\ plaintexts' = [plaintexts EXCEPT ![task[w]] = "broken"]
          /\ plaintexts \in [DOMAIN plaintexts -> {"cipher", "plain", "broken"}]
      BY <2>5 DEF SampleFails, Go, IInv, TypeOK
    <3>2. /\ FirstQueued' = FirstQueued /\ Home(i)' = Home(i)
          /\ \A v : Home(task[v])' = Home(task[v])
      BY <3>1 DEF FirstQueued, Home, Stride
    <3>3. Ahead(i)
      BY <1>2, <3>1, <3>2
    <3>4. plaintexts[i] = "cipher"
      BY <2>1, <3>1, <3>3 DEF IInv, AheadUndone
    <3>5. w \in Busy /\ Home(task[w]) < FirstQueued
      BY <3>1 DEF Busy, Running, IInv, StripesOK
    <3>6. FirstQueued \in Int /\ Home(task[w]) \in Int
      <4>1. chunks \in Nat /\ chunks >= 1
        BY <2>1 DEF IInv, TypeOK, BatchOK, InRunAll
      <4>2. Stride \in Nat /\ Stride >= 1
        BY <4>1, StrideType DEF IInv
      <4>3. FirstQueued \in Int
        BY <4>2 DEF FirstQueued, IInv, TypeOK
      <4>4. Home(task[w]) \in Int
        BY <1>2, <3>1, <4>1, <4>2, StrideType, HomeFacts DEF IInv
      <4>. QED BY <4>3, <4>4
    <3>7. i # task[w]
      <4>1. SUFFICES ASSUME i = task[w] PROVE FALSE
        OBVIOUS
      <4>2. ~(Home(i)' >= FirstQueued')
        BY <3>2, <3>5, <3>6, <4>1
      <4>3. PICK v \in Workers : /\ at'[v] \in {"test", "decrypt"}
                                 /\ Home(task[v])' = Home(i)' /\ task'[v] <= i
        BY <4>2
      <4>4. v # w
        BY <1>2, <3>1, <4>3
      <4>5. v \in Busy /\ Home(task[v]) = Home(task[w])
        BY <1>2, <3>1, <3>2, <4>1, <4>3, <4>4 DEF Busy, Running
      <4>. QED BY <3>5, <4>4, <4>5 DEF IInv, StripesOK
    <3>. QED BY <3>1, <3>4, <3>7
  <2>. QED BY <1>8, <2>2, <2>3, <2>4, <2>5 DEF Worker
<1>. QED BY <1>1, <1>4, <1>5, <1>6, <1>7, <1>8

-----------------------------------------------------------------------------
(* Sleeping and waking.                                                    *)

\* The threads are there as long as the IPC thread counts on them.
LEMMA KeptStep ==
  ASSUME IInv, [Next]_vars
  PROVE  PoolKept'
<1>. USE DEF PoolKept, InRunAll
<1>0. /\ PoolKept
      /\ at \in [Workers -> {"off", "ready", "asleep", "notify"} \cup Running]
  BY DEF IInv, TypeOK
<1>1. CASE UNCHANGED vars \/ Gone
  BY <1>0, <1>1 DEF Gone, vars, poolVars
<1>2. CASE Receive \/ UseCached \/ RefusePrefetch \/ DeriveFails \/ Derive
  BY <1>0, <1>2 DEF Receive, UseCached, RefusePrefetch, DeriveFails, Derive,
                    Derivable, poolVars
<1>3. CASE GetPool
  BY <1>0, <1>3 DEF GetPool
<1>4. CASE Submit \/ Wait \/ CollectOk \/ CollectError \/ AnswerFailed
  BY <1>0, <1>4 DEF Submit, Wait, CollectOk, CollectError, AnswerFailed,
                    poolVars
<1>5. CASE NotifyWorkers
  BY <1>0, <1>5 DEF NotifyWorkers, WakeWorkers
<1>6. CASE Shutdown \/ NotifyStop \/ Join
  BY <1>0, <1>6 DEF Shutdown, NotifyStop, Join
<1>7. CASE SpuriousWakeup
  BY <1>0, <1>7 DEF SpuriousWakeup, Go, poolVars
<1>8. ASSUME NEW w \in Workers, Leave(w) PROVE PoolKept'
  BY <1>0, <1>8 DEF Leave
<1>9. ASSUME NEW w \in Workers, NotifyDone(w) PROVE PoolKept'
  BY <1>0, <1>9 DEF NotifyDone, WakeMain, Go
<1>10. ASSUME NEW w \in Workers,
              \/ Take(w) \/ Doze(w) \/ Test(w) \/ DecryptSample(w)
              \/ SampleFails(w) \/ ReportError(w) \/ Retire(w)
       PROVE  PoolKept'
  BY <1>0, <1>10 DEF Take, Doze, Test, DecryptSample, SampleFails, ReportError,
                     Retire, Go
<1>. QED
  BY <1>1, <1>2, <1>3, <1>4, <1>5, <1>6, <1>7, <1>8, <1>9, <1>10
  DEF Next, Main, Worker

\* A thread goes to sleep only with nothing to do, and is woken when there is:
\* whoever has made a test true is still to notify.
LEMMA WakeupStep ==
  ASSUME DecryptAssumption, IInv, [Next]_vars
  PROVE  NoLostWakeup'
<1>. USE DEF NoLostWakeup
<1>0. /\ NoLostWakeup /\ PoolKept
      /\ at \in [Workers -> {"off", "ready", "asleep", "notify"} \cup Running]
      /\ active \in Nat
  BY DEF IInv, TypeOK
<1>1. CASE UNCHANGED vars \/ Gone
  BY <1>0, <1>1 DEF Gone, vars, poolVars
<1>2. CASE Receive \/ UseCached \/ RefusePrefetch \/ DeriveFails \/ Derive
            \/ GetPool \/ Submit
  BY <1>2 DEF Receive, UseCached, RefusePrefetch, DeriveFails, Derive, GetPool,
              Submit
<1>3. CASE NotifyWorkers
  BY <1>0, <1>3 DEF NotifyWorkers, WakeWorkers, PoolKept, InRunAll
<1>4. CASE Wait
  BY <1>0, <1>4 DEF Wait, BatchDone, poolVars
<1>5. CASE CollectOk \/ CollectError \/ AnswerFailed \/ Shutdown \/ Join
  BY <1>5 DEF CollectOk, CollectError, AnswerFailed, Shutdown, Join
<1>6. CASE NotifyStop
  BY <1>0, <1>6 DEF NotifyStop, WakeWorkers
<1>7. CASE SpuriousWakeup
  BY <1>0, <1>7 DEF SpuriousWakeup, Go, poolVars
<1>8. ASSUME NEW w \in Workers, Take(w) PROVE NoLostWakeup'
  <2>1. active' # 0 /\ main' = main
    BY <1>0, <1>8 DEF Take, CountTask
  <2>2. queue # <<>> /\ \A v \in Workers :
          at'[v] \in {"asleep", "off"} => at'[v] = at[v]
    BY <1>0, <1>8 DEF Take, Go
  <2>. QED BY <1>0, <2>1, <2>2
<1>9. ASSUME NEW w \in Workers, Doze(w) PROVE NoLostWakeup'
  <2>1. main' = main /\ queue' = queue /\ queue = <<>> /\ main # "join"
        /\ active' = active
    BY <1>0, <1>9 DEF Doze, PoolKept
  <2>2. \A v \in Workers : at[v] = "notify" => at'[v] = "notify"
    BY <1>0, <1>9 DEF Doze, Go
  <2>. QED BY <1>0, <2>1, <2>2
<1>10. ASSUME NEW w \in Workers, Leave(w) PROVE NoLostWakeup'
  BY <1>0, <1>10 DEF Leave, Go, PoolKept
<1>11. ASSUME NEW w \in Workers,
              \/ Test(w) \/ DecryptSample(w) \/ SampleFails(w) \/ ReportError(w)
       PROVE  NoLostWakeup'
  <2>1. UNCHANGED <<main, queue, active>>
    BY <1>11 DEF Test, DecryptSample, SampleFails, ReportError
  <2>2. \A v \in Workers :
          /\ at[v] = "notify" => at'[v] = "notify"
          /\ at'[v] \in {"asleep", "off"} => at'[v] = at[v]
    BY <1>0, <1>11 DEF Test, DecryptSample, SampleFails, ReportError, Go
  <2>. QED BY <1>0, <2>1, <2>2
<1>12. ASSUME NEW w \in Workers, Retire(w) PROVE NoLostWakeup'
  <2>1. at'[w] = "notify" /\ main' = main /\ queue' = queue
    BY <1>0, <1>12 DEF Retire, Go
  <2>2. \A v \in Workers : at'[v] \in {"asleep", "off"} => at'[v] = at[v]
    BY <1>0, <1>12 DEF Retire, Go
  <2>. QED BY <1>0, <2>1, <2>2
<1>13. ASSUME NEW w \in Workers, NotifyDone(w) PROVE NoLostWakeup'
  <2>1. /\ main' # "asleep" /\ queue' = queue
        /\ (main' \in {"wait", "asleep"} => main \in {"wait", "asleep"})
        /\ (main' = "join" => main = "join")
    BY <1>13 DEF NotifyDone, WakeMain
  <2>2. \A v \in Workers : at'[v] \in {"asleep", "off"} => at'[v] = at[v]
    BY <1>0, <1>13 DEF NotifyDone, Go
  <2>. QED BY <1>0, <2>1, <2>2
<1>. QED
  BY <1>1, <1>2, <1>3, <1>4, <1>5, <1>6, <1>7, <1>8, <1>9, <1>10, <1>11,
     <1>12, <1>13 DEF Next, Main, Worker

-----------------------------------------------------------------------------
(* Answers.                                                                *)

\* A batch without an error that has passed the barrier is complete.
LEMMA CollectedComplete ==
  ASSUME DecryptAssumption, IInv, main = "collect", error = None
  PROVE  plaintexts = [i \in 0 .. chunks - 1 |-> "plain"]
<1>1. chunks >= 1 /\ DOMAIN plaintexts = 0 .. chunks - 1
      /\ plaintexts \in [DOMAIN plaintexts -> {"cipher", "plain", "broken"}]
  BY DEF IInv, BatchOK, TypeOK
<1>2. queue = <<>> /\ Busy = {}
  BY DEF IInv, PoolBarrier, InRunAll
<1>3. OnLocals = {}
  BY <1>2 DEF OnLocals, Busy, Running
<1>4. Stride \in Nat /\ FirstQueued = Stride /\ chunks \in Nat
  BY <1>2, StrideType DEF FirstQueued, IInv
<1>5. ASSUME NEW i \in 0 .. chunks - 1 PROVE plaintexts[i] = "plain"
  <2>1. Accounted(i)
    BY DEF IInv, AllAccounted
  <2>2. Home(i) \in 0 .. Stride - 1
    BY <1>1, <1>4, HomeFacts DEF IInv
  <2>. QED BY <1>3, <1>4, <2>1, <2>2 DEF Accounted
<1>. QED BY <1>1, <1>5

\* An idle IPC thread's last answer stays true.
LEMMA AnswersStep ==
  ASSUME DecryptAssumption, IInv, [Next]_vars
  PROVE  BatchComplete' /\ FailedForgotten'
<1>. USE DEF BatchComplete, FailedForgotten
<1>0. BatchComplete /\ FailedForgotten
  BY DEF IInv
<1>1. CASE CollectOk
  BY <1>1, CollectedComplete DEF CollectOk
<1>2. CASE AnswerFailed
  BY <1>2 DEF AnswerFailed, Erase
<1>3. CASE main' # "idle"
  BY <1>3
<1>4. CASE UNCHANGED vars \/ Gone
  BY <1>0, <1>4 DEF Gone, vars, batchVars, cacheVars
<1>5. ASSUME NEW w \in Workers, Worker(w), main' = "idle"
      PROVE  BatchComplete' /\ FailedForgotten'
  <2>1. main = "idle" /\ w \notin Busy
    <3>1. main = "idle"
      BY <1>5 DEF Worker, Take, Doze, Leave, Test, DecryptSample, SampleFails,
                  ReportError, Retire, NotifyDone, WakeMain
    <3>. QED BY <3>1 DEF IInv, PoolBarrier, InRunAll
  <2>2. UNCHANGED <<batchVars, cacheVars>>
    BY <1>5, <2>1 DEF Worker, Take, Doze, Leave, Test, DecryptSample,
       SampleFails, ReportError, Retire, NotifyDone, Go, Busy, Running
  <2>. QED BY <1>0, <2>1, <2>2 DEF batchVars, cacheVars
<1>6. CASE SpuriousWakeup
  BY <1>0, <1>6 DEF SpuriousWakeup, batchVars, cacheVars
<1>. QED
  BY <1>1, <1>2, <1>3, <1>4, <1>5, <1>6
  DEF Next, Main, Receive, Shutdown, UseCached, RefusePrefetch, DeriveFails,
      Derive, GetPool, Submit, NotifyWorkers, Wait, CollectError, NotifyStop,
      Join

\* Only the IPC thread stores and erases.
LEMMA CacheStep ==
  ASSUME DecryptAssumption, IInv, [Next]_vars
  PROVE  CacheInStep'
<1>0. TypeOK /\ CacheInStep
  BY DEF IInv
<1>1. CASE Derive
  BY <1>0, <1>1, StoreInStep DEF Derive, Derivable, TypeOK
<1>2. CASE AnswerFailed
  BY <1>0, <1>2, EraseInStep DEF AnswerFailed, TypeOK
<1>3. CASE UNCHANGED cacheVars
  BY <1>0, <1>3 DEF CacheInStep, cacheVars
<1>4. ASSUME NEW w \in Workers, Worker(w) PROVE UNCHANGED cacheVars
  BY <1>4 DEF Worker, Take, Doze, Leave, Test, DecryptSample, SampleFails,
              ReportError, Retire, NotifyDone
<1>. QED
  BY <1>1, <1>2, <1>3, <1>4
  DEF Next, Main, Receive, Shutdown, UseCached, RefusePrefetch, DeriveFails,
      GetPool, Submit, NotifyWorkers, Wait, CollectOk, CollectError,
      NotifyStop, Join, SpuriousWakeup, Gone, vars

\* The invariant holds initially.
LEMMA InvInit ==
  ASSUME DecryptAssumption, Init
  PROVE  IInv
<1>. USE DEF Init
<1>1. TypeOK
  <2>1. 0 \in 0 .. MaxSamples /\ plaintexts = <<>> /\ DOMAIN plaintexts = {}
    BY DEF DecryptAssumption
  <2>2. plaintexts \in [DOMAIN plaintexts -> {"cipher", "plain", "broken"}]
        /\ DOMAIN plaintexts \in {0 .. chunks - 1, {}}
    BY <2>1
  <2>3. queue \in Seq(Samples) /\ order \in Seq(Tracks)
    OBVIOUS
  <2>4. at \in [Workers -> {"off", "ready", "asleep", "notify"} \cup Running]
        /\ task \in [Workers -> Nat] /\ active \in Nat
    OBVIOUS
  <2>5. main \in MainPlaces
    BY DEF MainPlaces
  <2>. QED BY <2>1, <2>2, <2>3, <2>4, <2>5 DEF TypeOK
<1>2. Busy = {}
  BY DEF Busy, Running
<1>3. BatchOK /\ PoolBarrier /\ AllAccounted /\ AheadUndone /\ PoolKept
      /\ NoLostWakeup
  BY <1>2 DEF BatchOK, PoolBarrier, AllAccounted, AheadUndone, PoolKept,
              NoLostWakeup, InRunAll
<1>4. ActiveCounted
  BY <1>2, FS_EmptySet DEF ActiveCounted
<1>5. StripesOK
  BY <1>1, <1>2, StrideType DEF StripesOK
<1>6. CacheInStep /\ FailedForgotten
  BY DEF CacheInStep, FailedForgotten, DecryptAssumption
<1>7. BatchComplete
  <2>1. [i \in 0 .. chunks - 1 |-> "plain"] = <<>>
    OBVIOUS
  <2>. QED BY <2>1 DEF BatchComplete
<1>. QED BY <1>1, <1>3, <1>4, <1>5, <1>6, <1>7 DEF IInv

\* The inductive invariant holds in every behaviour.
THEOREM IInvHolds == Spec => []IInv
<1>1. Init => IInv
  BY InvInit, DecryptAssumption
<1>2. IInv /\ [Next]_vars => IInv'
  BY DecryptAssumption, TypeStep, BatchStep, BarrierStep, ActiveStep,
     StripesStep, AccountedStep, UndoneStep, KeptStep, WakeupStep, CacheStep,
     AnswersStep DEF IInv
<1>. QED BY <1>1, <1>2, PTL DEF Spec

\* Every variable keeps its type: active is never decremented at zero, and an
\* error names a sample of the batch.
THEOREM DecryptTypes == Spec => []TypeOK
<1>1. IInv => TypeOK
  BY DEF IInv
<1>. QED BY <1>1, IInvHolds, PTL

\* When run_all() has returned, no task is left to touch the batch's locals.
THEOREM BarrierCorrect == Spec => []BarrierHolds
<1>1. IInv => BarrierHolds
  BY DEF IInv, PoolBarrier, BarrierHolds, OnLocals, Busy, Running
<1>. QED BY <1>1, IInvHolds, PTL

\* What a thread decrypts is ciphertext that nobody has touched, and that no
\* other thread is at.
THEOREM OnceCorrect == Spec => []DecryptedOnce
<1>1. DecryptAssumption /\ IInv => DecryptedOnce
  <2>1. ASSUME DecryptAssumption, IInv, NEW w \in Workers, at[w] = "decrypt"
        PROVE  plaintexts[task[w]] = "cipher"
    <3>1. main \in InRunAll /\ task[w] < chunks
      BY <2>1 DEF IInv, PoolBarrier, StripesOK, Busy, Running
    <3>2. task[w] \in 0 .. chunks - 1
      BY <2>1, <3>1 DEF IInv, TypeOK
    <3>. QED BY <2>1, <3>1, <3>2 DEF IInv, AheadUndone
  <2>2. ASSUME IInv, NEW v \in Workers, NEW w \in Workers,
               at[v] = "decrypt", at[w] = "decrypt", v # w
        PROVE  task[v] # task[w]
    BY <2>2 DEF IInv, StripesOK, Busy, Running
  <2>. QED BY <2>1, <2>2 DEF DecryptedOnce
<1>. QED BY <1>1, IInvHolds, DecryptAssumption, PTL

\* No wakeup of either condition variable is lost, with any number of threads.
THEOREM WakeupCorrect == Spec => []NoLostWakeup
<1>1. IInv => NoLostWakeup
  BY DEF IInv
<1>. QED BY <1>1, IInvHolds, PTL

\* A batch answered OK is complete.
THEOREM CompleteCorrect == Spec => []BatchComplete
<1>1. IInv => BatchComplete
  BY DEF IInv
<1>. QED BY <1>1, IInvHolds, PTL

\* Cache and FIFO agree and stay within the bound.
THEOREM CacheCorrect == Spec => []CacheInStep
<1>1. IInv => CacheInStep
  BY DEF IInv
<1>. QED BY <1>1, IInvHolds, PTL

\* A context that failed is gone when the answer is given.
THEOREM ForgottenCorrect == Spec => []FailedForgotten
<1>1. IInv => FailedForgotten
  BY DEF IInv
<1>. QED BY <1>1, IInvHolds, PTL

\* The first error of a batch is the one that is reported.
THEOREM FirstErrorCorrect == Spec => FirstErrorKept
<1>1. IInv /\ [Next]_vars => [error # None => error' = error \/ main = "idle"]_vars
  <2>1. SUFFICES ASSUME IInv, Next, error # None, main # "idle"
                 PROVE  error' = error
    OBVIOUS
  <2>2. main \notin {"lookup", "pool", "submit"}
    BY <2>1 DEF IInv, BatchOK
  <2>3. ASSUME NEW w \in Workers, Worker(w) PROVE error' = error
    BY <2>1, <2>3 DEF Worker, Take, Doze, Leave, Test, DecryptSample,
       SampleFails, ReportError, KeepFirst, Retire, NotifyDone, batchVars
  <2>. QED
    BY <2>1, <2>2, <2>3
    DEF Next, Main, Receive, Shutdown, UseCached, RefusePrefetch, DeriveFails,
        Derive, Derivable, GetPool, Submit, NotifyWorkers, Wait, CollectOk,
        CollectError, AnswerFailed, NotifyStop, Join, SpuriousWakeup, Gone,
        vars, batchVars
<1>. QED BY <1>1, IInvHolds, PTL DEF Spec, FirstErrorKept

-----------------------------------------------------------------------------
(* The promise of decrypt_samples().                                       *)

\* What the service does not see.
LEMMA Unseen ==
  ASSUME UNCHANGED <<Serving, track, chunks, plaintexts, cache>>
  PROVE  UNCHANGED Service!vars
BY DEF Left, Service!vars

\* A step of the cache and the pool is one of the service, or nothing to it.
LEMMA ServiceStep ==
  ASSUME DecryptAssumption, IInv, [Next]_vars
  PROVE  [Service!Next]_(Service!vars)
<1>. DEFINE Goal == [Service!Next]_(Service!vars)
<1>0. TypeOK /\ BatchOK
  BY DEF IInv
<1>1. CASE Receive
  <2>1. ~Serving /\ Serving' /\ track' \in Tracks /\ cache' = cache
    BY <1>1 DEF Receive, Serving, cacheVars
  <2>2. Left' = 0 .. chunks' - 1 /\ chunks' \in 1 .. MaxSamples
    BY <1>1, <2>1 DEF Receive, Left
  <2>3. Service!Accept
    BY <2>1, <2>2 DEF Service!Accept
  <2>. QED BY <2>3 DEF Service!Next
<1>2. CASE Derive
  <2>1. Serving /\ Serving' /\ UNCHANGED <<track, chunks, plaintexts>>
    BY <1>2 DEF Derive, Derivable, Serving, batchVars
  <2>2. Left' = Left
    BY <2>1 DEF Left
  <2>3. track \in cache' /\ cache' \subseteq cache \cup {track}
    BY <1>0, <1>2, StoreInStep DEF IInv, Derive, Derivable, TypeOK
  <2>4. Service!Learn
    BY <2>1, <2>2, <2>3 DEF Service!Learn
  <2>. QED BY <2>4 DEF Service!Next
<1>3. CASE GetPool
  <2>1. Serving /\ Serving' /\ UNCHANGED <<track, cache>> /\ chunks' = chunks
    BY <1>3 DEF GetPool, Serving, cacheVars
  <2>2. plaintexts = <<>> /\ chunks >= 1 /\ chunks \in Nat
    BY <1>0, <1>3, StrideType DEF BatchOK, GetPool
  <2>3. plaintexts' = [i \in 0 .. chunks - 1 |-> "cipher"]
    BY <1>3 DEF GetPool
  <2>4. plaintexts' # <<>>
    <3>1. 0 \in DOMAIN plaintexts'
      BY <2>2, <2>3
    <3>. QED BY <3>1
  <2>5. Left = 0 .. chunks - 1 /\ Left' = 0 .. chunks - 1
    BY <2>1, <2>2, <2>3, <2>4 DEF Left
  <2>. QED BY <2>1, <2>5 DEF Service!vars
<1>4. CASE CollectOk
  <2>1. Serving /\ ~Serving' /\ UNCHANGED <<track, cache>>
    BY <1>4 DEF CollectOk, Serving, cacheVars
  <2>2. plaintexts = [i \in 0 .. chunks - 1 |-> "plain"] /\ chunks >= 1
        /\ chunks \in Nat
    BY <1>0, <1>4, CollectedComplete, StrideType DEF CollectOk, BatchOK
  <2>3. plaintexts # <<>>
    <3>1. 0 \in DOMAIN plaintexts
      BY <2>2
    <3>. QED BY <3>1
  <2>4. Left = {} /\ Left' = {}
    BY <2>1, <2>2, <2>3 DEF Left
  <2>5. Service!Succeed
    BY <2>1, <2>4 DEF Service!Succeed
  <2>. QED BY <2>5 DEF Service!Next
<1>5. CASE AnswerFailed
  <2>1. Serving /\ ~Serving' /\ track' = track /\ cache' = cache \ {track}
    BY <1>5 DEF AnswerFailed, Erase, Serving
  <2>2. Left' = {}
    BY <2>1 DEF Left
  <2>3. Service!Fail
    BY <2>1, <2>2 DEF Service!Fail
  <2>. QED BY <2>3 DEF Service!Next
<1>6. ASSUME NEW w \in Workers, DecryptSample(w) \/ SampleFails(w) PROVE Goal
  <2>1. at[w] = "decrypt" /\ w \in Busy
        /\ UNCHANGED <<main, track, chunks, cache>>
    BY <1>6 DEF DecryptSample, SampleFails, Go, Busy, Running, cacheVars
  <2>2. main \in InRunAll
    BY <2>1 DEF IInv, PoolBarrier
  <2>3. /\ Serving /\ Serving' /\ chunks >= 1 /\ chunks \in Nat
        /\ DOMAIN plaintexts = 0 .. chunks - 1 /\ track \in cache
    BY <1>0, <2>1, <2>2, StrideType DEF Serving, InRunAll, BatchOK
  <2>4. task[w] \in 0 .. chunks - 1 /\ plaintexts[task[w]] # "plain"
    <3>1. task[w] \in 0 .. chunks - 1
      BY <1>0, <2>1, <2>3 DEF IInv, StripesOK, TypeOK
    <3>. QED BY <2>1, <2>2, <3>1 DEF IInv, AheadUndone
  <2>5. /\ DOMAIN plaintexts' = 0 .. chunks - 1
        /\ \A i \in 0 .. chunks - 1 :
             i # task[w] => plaintexts'[i] = plaintexts[i]
    BY <1>0, <1>6, <2>3 DEF DecryptSample, SampleFails, TypeOK
  <2>6. plaintexts # <<>> /\ plaintexts' # <<>>
    <3>1. 0 \in DOMAIN plaintexts /\ 0 \in DOMAIN plaintexts'
      BY <2>3, <2>5
    <3>. QED BY <3>1
  <2>7. /\ Left = {i \in 0 .. chunks - 1 : plaintexts[i] # "plain"}
        /\ Left' = {i \in 0 .. chunks - 1 : plaintexts'[i] # "plain"}
    BY <2>1, <2>3, <2>6 DEF Left
  <2>8. CASE DecryptSample(w)
    <3>1. plaintexts'[task[w]] = "plain"
      BY <1>0, <2>3, <2>4, <2>8 DEF DecryptSample, TypeOK
    <3>2. task[w] \in Left /\ Left' = Left \ {task[w]}
      BY <2>4, <2>5, <2>7, <3>1
    <3>3. Service!DecryptOne
      BY <2>1, <2>3, <3>2 DEF Service!DecryptOne
    <3>. QED BY <3>3 DEF Service!Next
  <2>9. CASE SampleFails(w)
    <3>1. plaintexts'[task[w]] = "broken"
      BY <1>0, <2>3, <2>4, <2>9 DEF SampleFails, TypeOK
    <3>2. Left' = Left
      BY <2>4, <2>5, <2>7, <3>1
    <3>. QED BY <2>1, <2>3, <3>2 DEF Service!vars
  <2>. QED BY <1>6, <2>8, <2>9
<1>7. ASSUME NEW w \in Workers,
             Take(w) \/ Doze(w) \/ Leave(w) \/ Test(w) \/ ReportError(w)
               \/ Retire(w) \/ NotifyDone(w)
      PROVE  Goal
  <2>1. UNCHANGED <<Serving, track, chunks, plaintexts, cache>>
    BY <1>7 DEF Take, Doze, Leave, Test, ReportError, Retire, NotifyDone,
                WakeMain, Serving, batchVars, cacheVars
  <2>. QED BY <2>1, Unseen
<1>8. CASE UseCached \/ RefusePrefetch \/ DeriveFails \/ Submit \/ NotifyWorkers
             \/ Wait \/ CollectError
  <2>1. UNCHANGED <<Serving, track, chunks, plaintexts, cache>>
    BY <1>8 DEF UseCached, RefusePrefetch, DeriveFails, Derivable, Submit,
                NotifyWorkers, Wait, CollectError, Serving, batchVars, cacheVars
  <2>. QED BY <2>1, Unseen
<1>9. CASE Shutdown \/ NotifyStop \/ Join \/ SpuriousWakeup \/ Gone
             \/ UNCHANGED vars
  <2>1. UNCHANGED <<Serving, track, chunks, plaintexts, cache>>
    BY <1>9 DEF Shutdown, NotifyStop, Join, SpuriousWakeup, Gone, vars,
                Serving, batchVars, cacheVars
  <2>. QED BY <2>1, Unseen
<1>. QED
  BY <1>1, <1>2, <1>3, <1>4, <1>5, <1>6, <1>7, <1>8, <1>9
  DEF Next, Main, Worker

\* Batches are served one at a time, with a context of their own track, and
\* succeed only when complete.
THEOREM DecryptImplementsService == Spec => ServiceImplemented
<1>1. Init => Service!Init
  BY DEF Init, Service!Init, Serving, Left
<1>2. IInv /\ [Next]_vars => [Service!Next]_(Service!vars)
  BY ServiceStep, DecryptAssumption
<1>. QED BY <1>1, <1>2, IInvHolds, PTL DEF Spec, ServiceImplemented, Service!Spec

\* Every request of a prefetch track is refused, whatever came before it.
THEOREM PrefetchNeverServed == Spec => []PrefetchRefused
<1>. USE DEF PrefetchRefused, InRunAll
<1>1. Init => PrefetchRefused
  BY DEF Init
<1>2. PrefetchRefused /\ [Next]_vars => PrefetchRefused'
  <2>1. SUFFICES ASSUME PrefetchRefused, [Next]_vars
                 PROVE  PrefetchRefused'
    OBVIOUS
  <2>2. CASE Derive
    BY <2>1, <2>2 DEF Derive, Derivable, Store, batchVars
  <2>3. CASE AnswerFailed
    BY <2>1, <2>3 DEF AnswerFailed, Erase
  <2>4. ASSUME NEW w \in Workers, Worker(w) PROVE PrefetchRefused'
    BY <2>1, <2>4 DEF Worker, Take, Doze, Leave, Test, DecryptSample,
       SampleFails, ReportError, Retire, NotifyDone, WakeMain, batchVars,
       cacheVars
  <2>5. CASE Receive \/ UseCached \/ RefusePrefetch \/ DeriveFails \/ GetPool
             \/ Submit \/ NotifyWorkers \/ Wait \/ CollectOk \/ CollectError
    BY <2>1, <2>5 DEF Receive, UseCached, RefusePrefetch, DeriveFails,
       Derivable, GetPool, Submit, NotifyWorkers, Wait, CollectOk,
       CollectError, batchVars, cacheVars
  <2>. QED
    BY <2>1, <2>2, <2>3, <2>4, <2>5
    DEF Next, Main, Shutdown, NotifyStop, Join, SpuriousWakeup, Gone, vars,
        batchVars, cacheVars
<1>. QED BY <1>1, <1>2, PTL DEF Spec
=============================================================================
