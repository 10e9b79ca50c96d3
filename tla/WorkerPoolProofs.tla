-------------------------- MODULE WorkerPoolProofs --------------------------
(***************************************************************************)
(* Theorems about WorkerPool: the rate of a throttled worker, for every    *)
(* interval, number of slots and length of history.                        *)
(***************************************************************************)
EXTENDS WorkerPool, FiniteSetTheorems, TLAPS

\* n intervals.
Gap(n) == n * Interval

\* Gaps grow by one interval, and the history is long enough for Memory of them.
LEMMA GapFacts ==
  /\ Interval \in Nat /\ Interval > 0 /\ Memory \in Nat /\ Memory > 0
  /\ Horizon \in Nat
  /\ \A n \in Int : Gap(n) \in Int /\ Gap(n + 1) = Gap(n) + Interval
  /\ Gap(0) = 0
  /\ \A n \in Nat : Gap(n) >= 0
  /\ \A n \in Nat : n <= Memory => Gap(n) <= Horizon
<1>1. /\ Interval \in Nat /\ Interval > 0
      /\ Memory \in Nat /\ Memory > 0
  BY PoolAssumption
<1>2. \A n \in Int : Gap(n) \in Int /\ Gap(n + 1) = Gap(n) + Interval
  BY <1>1 DEF Gap
<1>3. \A n \in Nat : n <= Memory => n * Interval <= Memory * Interval
  BY <1>1
<1>4. \A n \in Nat : Gap(n) >= 0
  BY <1>1 DEF Gap
<1>5. Gap(0) = 0
  BY <1>1 DEF Gap
<1>6. Horizon \in Nat
  BY <1>1 DEF Horizon
<1> QED BY <1>1, <1>2, <1>3, <1>4, <1>5, <1>6 DEF Gap, Horizon

-----------------------------------------------------------------------------
(* The invariant *)

\* How far the bucket is ahead: one interval past the token the loop waits for.
TokenAhead ==
    /\ pc = "acquiring" => next <= wait + Interval
    /\ pc \notin {"acquiring", "draining", "ended"} => next <= Interval

\* The bucket never falls behind the beginnings it has paid for: the token that
\* is handed out next is due i - 1 intervals after the i-th latest of them, the
\* one after it i intervals.
PaidFor ==
    \A i \in DOMAIN begun :
        /\ next + begun[i] >= Gap(i - 1)
        /\ pc = "acquiring" => /\ wait + begun[i] >= Gap(i - 1)
                               /\ next + begun[i] >= Gap(i)

\* RateBound, pair by pair.
Spaced ==
    \A i, j \in DOMAIN begun :
        i < j /\ begun[j] < Horizon => begun[j] - begun[i] >= Gap(j - i - 1)

PoolInv ==
    /\ TypeOK
    /\ TokenAhead
    /\ throttled => PaidFor /\ Spaced

\* The history is a sequence of at most Memory ages of at most Horizon.
LEMMA History ==
  ASSUME TypeOK
  PROVE  /\ Len(begun) \in Nat /\ Len(begun) <= Memory
         /\ DOMAIN begun = 1..Len(begun)
         /\ \A i \in DOMAIN begun : begun[i] \in 0..Horizon
<1>1. begun \in Seq(0..Horizon) /\ Len(begun) <= Memory
  BY DEF TypeOK
<1>2. \A T : \A s \in Seq(T) :
        Len(s) \in Nat /\ DOMAIN s = 1..Len(s) /\ \A i \in DOMAIN s : s[i] \in T
  OBVIOUS
<1> QED BY <1>1, <1>2, Zenon

\* create_task puts beginnings in front of the history and drops its end.
LEMMA BeginEffect ==
  ASSUME TypeOK, NEW S \in SUBSET Slots, Begin(S)
  PROVE  /\ begun' \in Seq(0..Horizon)
         /\ Len(begun') <= Memory
         /\ slots' \in [Slots -> {"free", "running", "processed", "empty",
                                  "error"}]
         /\ \A s : S = {s} =>
              \A i \in DOMAIN begun' :
                  IF i = 1 THEN begun'[i] = 0
                           ELSE /\ i - 1 \in DOMAIN begun
                                /\ begun'[i] = begun[i - 1]
<1> DEFINE n == Cardinality(S)
           length == IF n + Len(begun) < Memory THEN n + Len(begun)
                                                ELSE Memory
<1>1. n \in Nat
  <2>1. IsFiniteSet(Slots)
    BY PoolAssumption, FS_Interval DEF Slots
  <2>2. IsFiniteSet(S)
    BY <2>1, FS_Subset
  <2> QED BY <2>2, FS_CardinalityType
<1>2. Len(begun) \in Nat /\ DOMAIN begun = 1..Len(begun)
      /\ \A i \in DOMAIN begun : begun[i] \in 0..Horizon
  BY History, Zenon
<1>3. begun' = [i \in 1..length |-> IF i <= n THEN 0 ELSE begun[i - n]]
  BY DEF Begin
<1> HIDE DEF n
<1>4. length \in Nat /\ length <= Memory /\ length <= n + Len(begun)
  <2>1. Memory \in Nat
    BY GapFacts
  <2> QED BY <1>1, <1>2, <2>1
<1> HIDE DEF length
<1>5. \A i \in 1..length : IF i <= n THEN TRUE
                           ELSE i - n \in DOMAIN begun
  BY <1>1, <1>2, <1>4
<1>6. \A i \in 1..length :
        (IF i <= n THEN 0 ELSE begun[i - n]) \in 0..Horizon
  BY <1>2, <1>5, GapFacts
<1>7. begun' \in Seq(0..Horizon) /\ Len(begun') = length
      /\ DOMAIN begun' = 1..length
  BY <1>3, <1>4, <1>6
<1>8. ASSUME NEW s, S = {s}, NEW i \in DOMAIN begun'
      PROVE  IF i = 1 THEN begun'[i] = 0
                      ELSE i - 1 \in DOMAIN begun /\ begun'[i] = begun[i - 1]
  <2>1. n = 1
    BY <1>8, FS_Singleton DEF n
  <2> QED BY <1>3, <1>5, <1>7, <1>8, <2>1
<1>9. slots' \in [Slots -> {"free", "running", "processed", "empty", "error"}]
  BY DEF Begin, TypeOK
<1> QED BY <1>4, <1>7, <1>8, <1>9

\* A step that neither begins a task nor lets time pass, and does not
\* wait for a token, keeps the invariant.
LEMMA QuietStep ==
  ASSUME PoolInv, UNCHANGED <<throttled, next, begun>>,
         \/ pc' = pc /\ wait' = wait
         \/ /\ pc' \in {"looping", "filling", "waiting", "pausing"}
            /\ pc \notin {"acquiring", "draining", "ended"}
         \/ pc' \in {"draining", "ended"},
         stop' \in BOOLEAN, wait' \in Nat,
         slots' \in [Slots -> {"free", "running", "processed", "empty",
                               "error"}]
  PROVE  PoolInv'
<1>1. TypeOK'
  BY DEF PoolInv, TypeOK
<1>2. TokenAhead'
  BY DEF PoolInv, TokenAhead
<1>3. ASSUME throttled PROVE PaidFor' /\ Spaced'
  BY <1>3 DEF PoolInv, PaidFor, Spaced
<1> QED BY <1>1, <1>2, <1>3 DEF PoolInv

\* The steps of the coroutine that begin nothing, and what happens around it.
LEMMA QuietActions ==
  ASSUME PoolInv,
         \/ Filled \/ Leave \/ Collect \/ CollectRaises \/ Paused \/ Drain
         \/ Stop \/ Cancel
         \/ \E s \in Slots : Finish(s)
  PROVE  PoolInv'
<1> USE DEF PoolInv, TypeOK
<1>1. CASE Filled \/ Leave \/ Paused
  BY <1>1, QuietStep DEF Filled, Leave, Paused, Inside
<1>2. CASE Collect
  BY <1>2, QuietStep, PoolAssumption DEF Collect
<1>3. CASE CollectRaises
  BY <1>3, QuietStep DEF CollectRaises
<1>4. CASE Drain
  BY <1>4, QuietStep DEF Drain
<1>5. CASE Stop
  BY <1>5, QuietStep DEF Stop
<1>6. CASE Cancel
  BY <1>6, QuietStep DEF Cancel
<1>7. ASSUME NEW s \in Slots, Finish(s) PROVE PoolInv'
  BY <1>7, QuietStep DEF Finish
<1> QED BY <1>1, <1>2, <1>3, <1>4, <1>5, <1>6, <1>7

\* A beginning at age 0 in front of the history is paid for and spaced if those
\* before it are.
LEMMA SpacedBegin ==
  ASSUME TypeOK, NEW S \in SUBSET Slots, NEW s, S = {s}, Begin(S), Spaced,
         next' \in Nat,
         \A i \in DOMAIN begun : begun[i] >= Gap(i - 1),
         \A i \in DOMAIN begun : next' + begun[i] >= Gap(i),
         pc' # "acquiring"
  PROVE  PaidFor' /\ Spaced'
<1>1. \A i \in DOMAIN begun' :
        IF i = 1 THEN begun'[i] = 0
                 ELSE i - 1 \in DOMAIN begun /\ begun'[i] = begun[i - 1]
  BY BeginEffect
<1>2. \A i \in DOMAIN begun : begun[i] \in Nat /\ i \in Nat /\ i >= 1
  BY History, GapFacts
<1>3. \A i \in DOMAIN begun' : i \in Nat /\ i >= 1
  <2>1. begun' \in Seq(0..Horizon)
    BY BeginEffect
  <2> QED BY <2>1
<1>4. ASSUME NEW i \in DOMAIN begun' PROVE next' + begun'[i] >= Gap(i - 1)
  <2>1. CASE i = 1
    <3>1. Gap(1 - 1) = 0
      BY GapFacts
    <3> QED BY <1>1, <2>1, <3>1
  <2>2. CASE i # 1
    BY <1>1, <1>4, <2>2
  <2> QED BY <2>1, <2>2
<1>5. ASSUME NEW i \in DOMAIN begun', NEW j \in DOMAIN begun', i < j,
             begun'[j] < Horizon
      PROVE  begun'[j] - begun'[i] >= Gap(j - i - 1)
  <2>1. j # 1 /\ j - 1 \in DOMAIN begun /\ begun'[j] = begun[j - 1]
    BY <1>1, <1>3, <1>5
  <2>2. CASE i = 1
    <3>1. begun'[i] = 0 /\ begun[j - 1] >= Gap((j - 1) - 1)
      BY <1>1, <2>1, <2>2
    <3>2. j - i - 1 = (j - 1) - 1 /\ begun[j - 1] \in Nat
      BY <1>2, <1>3, <2>1, <2>2
    <3> QED BY <2>1, <3>1, <3>2
  <2>3. CASE i # 1
    <3>1. i - 1 \in DOMAIN begun /\ begun'[i] = begun[i - 1]
      BY <1>1, <2>3
    <3>2. i - 1 < j - 1 /\ (j - 1) - (i - 1) - 1 = j - i - 1
      BY <1>3, <1>5
    <3>3. begun[j - 1] - begun[i - 1] >= Gap((j - 1) - (i - 1) - 1)
      BY <1>5, <2>1, <3>1, <3>2 DEF Spaced
    <3> QED BY <2>1, <3>1, <3>2, <3>3
  <2> QED BY <2>2, <2>3
<1> QED BY <1>4, <1>5 DEF PaidFor, Spaced

\* A token is paid for: at once, and the task begins, or ahead of a sleep.
LEMMA AcquireStep ==
  ASSUME PoolInv, Acquire
  PROVE  PoolInv'
<1>0. Interval \in Nat /\ \A i \in Nat : Gap(i) \in Int /\ Gap(i - 1) \in Int
                                        /\ Gap(i) = Gap(i - 1) + Interval
  <2>1. ASSUME NEW i \in Nat PROVE Gap(i) = Gap(i - 1) + Interval
    <3>1. i - 1 \in Int /\ (i - 1) + 1 = i
      OBVIOUS
    <3>2. Gap((i - 1) + 1) = Gap(i - 1) + Interval
      BY <3>1, GapFacts, Zenon
    <3> QED BY <3>1, <3>2
  <2>2. \A i \in Nat : i \in Int /\ i - 1 \in Int
    OBVIOUS
  <2> QED BY <2>1, <2>2, GapFacts, Zenon
<1>1. /\ throttled /\ throttled' = throttled /\ stop' = stop
      /\ next' = next + Interval
      /\ next \in Nat /\ next <= Interval
      /\ pc \in {"looping", "filling"}
  BY PoolAssumption
     DEF PoolInv, TypeOK, TokenAhead, Acquire, Inside, TokenAfter
<1>2. PaidFor /\ Spaced
  BY <1>1 DEF PoolInv
<1>3. \A i \in DOMAIN begun : i \in Nat /\ begun[i] \in Nat
  BY History, GapFacts DEF PoolInv
<1>4. \A i \in DOMAIN begun : /\ next + begun[i] >= Gap(i - 1)
                              /\ next + Interval + begun[i] >= Gap(i)
  BY <1>0, <1>1, <1>2, <1>3 DEF PaidFor
<1>5. next' \in 0..(2 * Interval)
  BY <1>0, <1>1
<1>6. CASE next = 0
  <2>1. PICK s \in Free : Begin({s})
    BY <1>6 DEF Acquire
  <2>2. pc' = "filling" /\ wait' = wait
    BY <1>6 DEF Acquire
  <2>3. {s} \in SUBSET Slots
    BY DEF Free
  <2>4. TypeOK'
    <3>1. /\ begun' \in Seq(0..Horizon) /\ Len(begun') <= Memory
          /\ slots' \in [Slots -> {"free", "running", "processed", "empty",
                                   "error"}]
      BY <2>1, <2>3, BeginEffect DEF PoolInv
    <3> QED BY <1>1, <1>5, <2>2, <3>1 DEF PoolInv, TypeOK
  <2>5. TokenAhead'
    BY <1>0, <1>1, <1>6, <2>2 DEF TokenAhead
  <2>6. PaidFor' /\ Spaced'
    <3>1. \A i \in DOMAIN begun : /\ begun[i] >= Gap(i - 1)
                                  /\ next' + begun[i] >= Gap(i)
      BY <1>1, <1>3, <1>4, <1>6
    <3>2. TypeOK /\ next' \in Nat /\ pc' # "acquiring"
      BY <1>0, <1>1, <2>2 DEF PoolInv
    <3> QED BY <1>2, <2>1, <2>3, <3>1, <3>2, SpacedBegin
  <2> QED BY <2>4, <2>5, <2>6 DEF PoolInv
<1>7. CASE next # 0
  <2>1. pc' = "acquiring" /\ wait' = next /\ UNCHANGED <<slots, begun>>
    BY <1>7 DEF Acquire
  <2>2. TypeOK'
    BY <1>1, <1>5, <2>1 DEF PoolInv, TypeOK
  <2>3. TokenAhead'
    BY <1>0, <1>1, <2>1 DEF TokenAhead
  <2>4. PaidFor'
    BY <1>0, <1>1, <1>3, <1>4, <2>1 DEF PaidFor
  <2>5. Spaced'
    BY <1>2, <2>1 DEF Spaced
  <2> QED BY <2>2, <2>3, <2>4, <2>5 DEF PoolInv
<1> QED BY <1>6, <1>7

\* The sleep is over: the task begins that the token was for.
LEMMA AcquiredStep ==
  ASSUME PoolInv, Acquired
  PROVE  PoolInv'
<1>1. /\ pc = "acquiring" /\ pc' = "filling" /\ wait = 0 /\ wait' = 0
      /\ throttled' = throttled /\ stop' = stop /\ next' = next
  BY DEF Acquired
<1>2. TypeOK /\ TokenAhead /\ next \in Nat
  BY PoolAssumption DEF PoolInv, TypeOK
<1>3. PICK s \in Free : Begin({s})
  BY DEF Acquired
<1>4. {s} \in SUBSET Slots
  BY DEF Free
<1>5. TypeOK'
  <2>1. /\ begun' \in Seq(0..Horizon) /\ Len(begun') <= Memory
        /\ slots' \in [Slots -> {"free", "running", "processed", "empty",
                                 "error"}]
    BY <1>2, <1>3, <1>4, BeginEffect
  <2> QED BY <1>1, <1>2, <2>1 DEF TypeOK
<1>6. TokenAhead'
  BY <1>1, <1>2, PoolAssumption DEF TokenAhead
<1>7. ASSUME throttled PROVE PaidFor' /\ Spaced'
  <2>1. PaidFor /\ Spaced
    BY <1>7 DEF PoolInv
  <2>2. \A i \in DOMAIN begun : begun[i] \in Nat
    BY <1>2, History, GapFacts
  <2>3. \A i \in DOMAIN begun : /\ begun[i] >= Gap(i - 1)
                                /\ next' + begun[i] >= Gap(i)
    BY <1>1, <2>1, <2>2 DEF PaidFor
  <2>4. next' \in Nat /\ pc' # "acquiring"
    BY <1>1, <1>2
  <2> QED BY <1>2, <1>3, <1>4, <2>1, <2>3, <2>4, SpacedBegin
<1> QED BY <1>1, <1>5, <1>6, <1>7 DEF PoolInv

\* Without a bucket there is nothing to pay for.
LEMMA FillAllStep ==
  ASSUME PoolInv, FillAll
  PROVE  PoolInv'
<1>1. /\ ~throttled /\ throttled' = throttled /\ stop' = stop
      /\ pc \in {"looping", "filling"} /\ pc' = "filling"
      /\ wait' = wait /\ next' = next
  BY DEF FillAll, Inside
<1>2. TypeOK /\ TokenAhead
  BY DEF PoolInv
<1>3. TypeOK'
  <2>1. Begin(Free) /\ Free \in SUBSET Slots
    BY DEF FillAll, Free
  <2>2. /\ begun' \in Seq(0..Horizon) /\ Len(begun') <= Memory
        /\ slots' \in [Slots -> {"free", "running", "processed", "empty",
                                 "error"}]
    BY <1>2, <2>1, BeginEffect
  <2> QED BY <1>1, <1>2, <2>2 DEF TypeOK
<1>4. TokenAhead'
  BY <1>1, <1>2 DEF TokenAhead
<1> QED BY <1>1, <1>3, <1>4 DEF PoolInv

\* Time passes: ages grow by what the bucket's distance shrinks at most, and an
\* age that stops growing is larger than any gap the history may ask for.
LEMMA TickStep ==
  ASSUME PoolInv, Tick
  PROVE  PoolInv'
<1>1. /\ throttled' = throttled /\ stop' = stop /\ pc' = pc /\ slots' = slots
      /\ wait' = Decrease(wait) /\ next' = Decrease(next)
  BY DEF Tick
<1>2. TypeOK /\ TokenAhead /\ next \in 0..(2 * Interval) /\ wait \in Nat
      /\ Interval \in Nat /\ next \in Nat
  BY PoolAssumption DEF PoolInv, TypeOK
<1>3. /\ wait' \in Nat /\ wait' >= wait - 1 /\ wait' <= wait
      /\ next' \in 0..(2 * Interval) /\ next' >= next - 1 /\ next' <= next
      /\ next' \in Nat
      /\ next' <= next - 1 \/ next' = 0
  BY <1>1, <1>2 DEF Decrease
<1>4. /\ DOMAIN begun' = DOMAIN begun /\ DOMAIN begun = 1..Len(begun)
      /\ Len(begun) \in Nat /\ Len(begun) <= Memory
      /\ \A i \in DOMAIN begun :
            /\ begun[i] \in 0..Horizon
            /\ begun'[i] = IF begun[i] < Horizon THEN begun[i] + 1 ELSE Horizon
            /\ i \in Nat /\ i >= 1 /\ i <= Memory
  <2>1. /\ Len(begun) \in Nat /\ Len(begun) <= Memory
        /\ DOMAIN begun = 1..Len(begun)
        /\ \A i \in DOMAIN begun : begun[i] \in 0..Horizon
    BY <1>2, History, Zenon
  <2>2. begun' = [i \in DOMAIN begun |->
                    IF begun[i] < Horizon THEN begun[i] + 1 ELSE Horizon]
    BY DEF Tick
  <2>3. Memory \in Nat
    BY GapFacts
  <2>4. \A i \in DOMAIN begun : i \in Nat /\ i >= 1 /\ i <= Memory
    BY <2>1, <2>3
  <2> QED BY <2>1, <2>2, <2>4
<1>5. Horizon \in Nat
  BY GapFacts
<1>6. TypeOK'
  <2>1. begun' \in Seq(0..Horizon) /\ Len(begun') <= Memory
    <3>1. begun' = [i \in 1..Len(begun) |->
                      IF begun[i] < Horizon THEN begun[i] + 1 ELSE Horizon]
      BY <1>4 DEF Tick
    <3>2. \A i \in 1..Len(begun) :
            (IF begun[i] < Horizon THEN begun[i] + 1 ELSE Horizon) \in 0..Horizon
      BY <1>4, <1>5
    <3>3. \A T : \A n \in Nat : \A f \in [1..n -> T] : f \in Seq(T) /\ Len(f) = n
      OBVIOUS
    <3>4. begun' \in [1..Len(begun) -> 0..Horizon]
      BY <3>1, <3>2
    <3> QED BY <1>4, <3>3, <3>4
  <2> QED BY <1>1, <1>2, <1>3, <2>1 DEF TypeOK
<1>7. TokenAhead'
  BY <1>1, <1>2, <1>3 DEF TokenAhead
<1>8. ASSUME throttled PROVE PaidFor' /\ Spaced'
  <2>1. PaidFor /\ Spaced
    BY <1>8 DEF PoolInv
  <2>2. PaidFor'
    <3> SUFFICES ASSUME NEW i \in DOMAIN begun
                 PROVE  /\ next' + begun'[i] >= Gap(i - 1)
                        /\ pc = "acquiring" => /\ wait' + begun'[i] >= Gap(i - 1)
                                               /\ next' + begun'[i] >= Gap(i)
      BY <1>1, <1>4 DEF PaidFor
    <3>1. /\ next + begun[i] >= Gap(i - 1)
          /\ pc = "acquiring" => /\ wait + begun[i] >= Gap(i - 1)
                                 /\ next + begun[i] >= Gap(i)
      BY <2>1 DEF PaidFor
    <3>2. Gap(i) \in Int /\ Gap(i - 1) \in Int
      <4>1. i \in Int /\ i - 1 \in Int
        BY <1>4
      <4> QED BY <4>1, GapFacts, Zenon
    <3>3. CASE begun[i] < Horizon
      BY <1>2, <1>3, <1>4, <1>5, <3>1, <3>2, <3>3
    <3>4. CASE ~(begun[i] < Horizon)
      <4>1. i - 1 \in Nat /\ i - 1 <= Memory
        <5>1. i \in Nat /\ i >= 1 /\ i <= Memory
          BY <1>4, Zenon
        <5>2. Memory \in Nat
          BY GapFacts
        <5> QED BY <5>1, <5>2
      <4>2. Gap(i) <= Horizon /\ Gap(i - 1) <= Horizon
        BY <1>4, <4>1, GapFacts
      <4> QED BY <1>3, <1>4, <1>5, <3>2, <3>4, <4>2
    <3> QED BY <3>3, <3>4
  <2>3. Spaced'
    <3> SUFFICES ASSUME NEW i \in DOMAIN begun, NEW j \in DOMAIN begun,
                        i < j, begun'[j] < Horizon
                 PROVE  begun'[j] - begun'[i] >= Gap(j - i - 1)
      BY <1>4 DEF Spaced
    <3>1. begun[j] < Horizon /\ begun'[j] = begun[j] + 1
      BY <1>4, <1>5
    <3>2. begun[j] - begun[i] >= Gap(j - i - 1)
      BY <2>1, <3>1 DEF Spaced
    <3>3. j - i - 1 \in Int /\ begun'[i] <= begun[i] + 1 /\ begun'[i] \in Nat
      BY <1>4, <1>5
    <3>4. Gap(j - i - 1) \in Int
      BY <3>3, GapFacts
    <3> QED BY <1>4, <1>5, <3>1, <3>2, <3>3, <3>4
  <2> QED BY <2>2, <2>3
<1> QED BY <1>1, <1>6, <1>7, <1>8 DEF PoolInv

\* Every step keeps the invariant.
LEMMA PoolStep == PoolInv /\ [Next]_vars => PoolInv'
<1> SUFFICES ASSUME PoolInv, [Next]_vars PROVE PoolInv'
  OBVIOUS
<1>1. CASE UNCHANGED vars
  BY <1>1 DEF vars, PoolInv, TypeOK, TokenAhead, PaidFor, Spaced
<1>2. CASE Next
  BY <1>2, QuietActions, AcquireStep, AcquiredStep, FillAllStep, TickStep
     DEF Next, Loop
<1> QED BY <1>1, <1>2

\* A new loop has no history and a token.
LEMMA PoolInit == Init => PoolInv
<1> SUFFICES ASSUME Init PROVE PoolInv
  OBVIOUS
<1>1. Interval \in Nat /\ Horizon \in Nat /\ Memory \in Nat
  BY GapFacts
<1>2. begun = <<>>
  BY DEF Init
<1>3. begun \in Seq(0..Horizon) /\ Len(begun) <= Memory
  <2>1. \A T : <<>> \in Seq(T)
    OBVIOUS
  <2>2. Len(<<>>) <= Memory
    BY <1>1
  <2> QED BY <1>2, <2>1, <2>2, Zenon
<1>4. TypeOK
  <2>1. /\ throttled \in BOOLEAN /\ stop \in BOOLEAN /\ pc = "looping"
        /\ wait \in Nat /\ next \in 0..(2 * Interval)
    <3>1. 0 \in 0..(2 * Interval) /\ 0 \in Nat
      BY <1>1
    <3> QED BY <3>1 DEF Init
  <2>2. slots \in [Slots -> {"free", "running", "processed", "empty", "error"}]
    BY DEF Init
  <2> QED BY <1>3, <2>1, <2>2 DEF TypeOK
<1>5. TokenAhead
  BY <1>1 DEF Init, TokenAhead
<1>6. PaidFor /\ Spaced
  BY <1>2 DEF PaidFor, Spaced
<1> QED BY <1>4, <1>5, <1>6 DEF PoolInv

\* The invariant holds in every state.
LEMMA PoolInvariance == Spec => []PoolInv
<1> QED BY PoolInit, PoolStep, PTL DEF Spec

-----------------------------------------------------------------------------
(* The theorems *)

\* Every reachable state is typed; the bucket is never more than two intervals
\* ahead of the clock.
THEOREM TypesKept == Spec => []TypeOK
<1>1. PoolInv => TypeOK
  BY DEF PoolInv
<1> QED BY <1>1, PoolInvariance, PTL

\* run_forever with a TokenBucket keeps its rate, however late its sleeps end.
THEOREM RateKept == Spec => []RateBound
<1>1. PoolInv => RateBound
  BY DEF PoolInv, RateBound, Spaced, Gap
<1> QED BY <1>1, PoolInvariance, PTL

\* The loop ends only when nothing is running, and begins nothing after that.
THEOREM NothingAbandoned == Spec => []NoDeliveryAbandoned
<1>1. Init => NoDeliveryAbandoned
  BY DEF Init, NoDeliveryAbandoned
<1>2. NoDeliveryAbandoned /\ [Next]_vars => NoDeliveryAbandoned'
  <2> SUFFICES ASSUME NoDeliveryAbandoned, [Next]_vars, pc' = "ended"
               PROVE  With("running")' = {}
    BY DEF NoDeliveryAbandoned
  <2>1. CASE pc # "ended"
    <3>1. Drain
      BY <2>1 DEF Next, Loop, vars, Acquire, Acquired, FillAll, Filled, Leave,
                  Collect, CollectRaises, Paused, Finish, Stop, Cancel, Tick
    <3> QED BY <3>1 DEF Drain, Drained, With
  <2>2. CASE pc = "ended"
    <3>1. With("running") = {}
      BY <2>2 DEF NoDeliveryAbandoned
    <3>2. UNCHANGED slots
      BY <2>2, <3>1 DEF Next, Loop, vars, Acquire, Acquired, FillAll, Filled,
                        Leave, Collect, CollectRaises, Paused, Drain, Finish,
                        Stop, Cancel, Tick, Inside, With
    <3> QED BY <3>1, <3>2 DEF With
  <2> QED BY <2>1, <2>2
<1> QED BY <1>1, <1>2, PTL DEF Spec
=============================================================================
