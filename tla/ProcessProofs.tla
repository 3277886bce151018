---------------------------- MODULE ProcessProofs ---------------------------
(***************************************************************************)
(* Proofs about the parts of MCProcess: Governor, for any capacity, rate   *)
(* and number of calls; Rpc, for any endpoints, retries and polls; Boot,   *)
(* for any tokens and any series of boots, runs, power losses and settings;*)
(* and all parts side by side, with those of SinksProofs.                  *)
(*                                                                         *)
(* Each admitted call of the governor is a mark on a time line: from it    *)
(* on, the later calls, the tokens left and the time since the refill mark *)
(* are paid for by the burst and by the time since the call (Paid). No     *)
(* endpoint that was got past is the preferred one, so that a call that    *)
(* comes back to a dead one has met a failure of each in between. On any   *)
(* state path, a token that is not stale there is told truly by its file   *)
(* and by the book of a sending run of that path (PathIsTrue).             *)
(***************************************************************************)
EXTENDS MCProcess, SinksProofs

-----------------------------------------------------------------------------
(* The governor                                                            *)

Ordered ==
    /\ \A i \in DOMAIN takes : takes[i] <= govNow
    /\ \A i, j \in DOMAIN takes : i <= j => takes[i] <= takes[j]

\* The time that earns n tokens.
Price(n) == n * Period

Paid ==
    \A i \in DOMAIN takes :
        Price(Len(takes) - i) + Price(available) + (govNow - mark)
            < Price(Capacity) + (govNow - takes[i])

\* Before the first call the bucket is full, and the mark never passes the last.
Fresh ==
    IF takes = <<>> THEN available = Capacity ELSE mark <= takes[Len(takes)]

\* A rested pass waits for its swap with a token left.
SwapCovered ==
    Capacity >= 2 /\ rested /\ stage = "quoted" => available >= 1

GovInv ==
    /\ GovernorTypeOK
    /\ Ordered
    /\ Paid
    /\ RateBounded
    /\ Fresh
    /\ SwapCovered
    /\ RestedPassWhole

-----------------------------------------------------------------------------
(* Arithmetic                                                              *)

LEMMA PeriodType == Period \in Nat /\ Period > 0 /\ Capacity \in Nat
  BY GovernorAssumption

\* All that is used of prices below.
LEMMA PriceType == \A a \in Int : Price(a) \in Int
  BY PeriodType DEF Price

LEMMA PriceSum ==
    ASSUME NEW a \in Int, NEW b \in Int
    PROVE  Price(a + b) = Price(a) + Price(b)
  BY PeriodType DEF Price

LEMMA PriceOf == Price(0) = 0 /\ Price(1) = Period
  BY PeriodType DEF Price

LEMMA PriceOne ==
    ASSUME NEW a \in Int
    PROVE  Price(a + 1) = Price(a) + Period
  BY PeriodType DEF Price

LEMMA PriceNat == \A a \in Nat : Price(a) >= 0
  BY PeriodType DEF Price

LEMMA Monotone ==
    ASSUME NEW a \in Int, NEW b \in Int, a <= b
    PROVE  Price(a) <= Price(b)
<1> DEFINE d == b - a
<1>1. d \in Nat /\ a + d = b
  OBVIOUS
<1>2. Price(d) >= 0
  BY <1>1, PriceNat
<1>3. Price(a + d) = Price(a) + Price(d)
  BY <1>1, PriceSum
<1>4. Price(a) \in Int /\ Price(d) \in Int
  BY <1>1, PriceType
<1>5. Price(b) = Price(a) + Price(d)
  BY <1>1, <1>3
<1> HIDE DEF d
<1> QED BY <1>2, <1>4, <1>5

\* The step from one payment to the next.
LEMMA StillPaid ==
    ASSUME NEW p \in Int, NEW q \in Int, NEW r \in Int, NEW c \in Int,
           NEW d \in Int, NEW e \in Int, NEW n \in Int, NEW m \in Int,
           NEW t \in Int, NEW k \in Int,
           p + q + d < c + (n - t), r + k + e <= q + d, n <= m
    PROVE  (p + k) + r + e < c + (m - t)
  OBVIOUS

LEMMA EarnedPays ==
    ASSUME GovernorTypeOK
    PROVE  /\ Earned \in Nat
           /\ Price(Earned) <= govNow - mark
           /\ govNow - mark < Price(Earned + 1)
<1> DEFINE d == govNow - mark
<1>1. d \in Nat
  BY DEF GovernorTypeOK
<1> QED BY <1>1, PeriodType DEF Earned, Price

LEMMA OwnTake ==
    ASSUME NEW p \in Int, NEW q \in Int, NEW c \in Int, NEW n \in Int,
           NEW m \in Int, NEW t \in Int,
           p + q + (n - m) < c + t, q >= 0, m <= n
    PROVE  p < c + t
  OBVIOUS

-----------------------------------------------------------------------------
(* Taking a token                                                          *)

\* What try_take does, in numbers.
LEMMA TakeFacts ==
    ASSUME GovInv, NEW later, TryTake(later)
    PROVE  /\ govNow' \in Nat /\ govNow <= govNow'
           /\ mark' \in 0 .. govNow'
           /\ available' \in 0 .. Capacity
           /\ Admitted =>
                /\ takes' = Append(takes, govNow')
                /\ available' + 1 <= Capacity
                /\ Price(available') + Period + (govNow' - mark')
                      <= Price(available) + (govNow - mark)
                /\ govNow' - mark' < Period
           /\ ~Admitted =>
                /\ takes' = takes
                /\ Price(available') + (govNow' - mark')
                      <= Price(available) + (govNow - mark)
<1>1. /\ govNow \in Nat /\ mark \in 0 .. govNow
      /\ available \in 0 .. Capacity
      /\ Capacity \in Nat /\ Period \in Nat /\ Period > 0
  BY PeriodType DEF GovInv, GovernorTypeOK
<1>2. /\ Earned \in Nat
      /\ Price(Earned) <= govNow - mark
      /\ govNow - mark < Price(Earned + 1)
  BY EarnedPays DEF GovInv
<1>3. /\ later \in govNow .. govNow + 1
      /\ govNow' = IF Earned > 0 THEN later ELSE govNow
      /\ mark' = IF Earned > 0 THEN later ELSE mark
  BY DEF TryTake, Marked
<1>4. /\ Refilled \in 0 .. Capacity
      /\ Refilled <= available + Earned
  BY <1>1, <1>2 DEF Refilled, AtMost
<1>5. /\ govNow' \in Nat /\ govNow <= govNow' /\ mark' \in 0 .. govNow'
  BY <1>1, <1>2, <1>3
<1>6. /\ Price(Refilled) \in Int /\ Price(available) \in Int
      /\ Price(Earned) \in Int
  BY <1>1, <1>2, <1>4, PriceType
<1>7. Price(Refilled) <= Price(available) + Price(Earned)
  <2>1. available + Earned \in Int /\ Refilled \in Int
    BY <1>1, <1>2, <1>4
  <2>2. Price(Refilled) <= Price(available + Earned)
    BY <1>4, <2>1, Monotone
  <2>3. Price(available + Earned) = Price(available) + Price(Earned)
    BY <1>1, <1>2, PriceSum
  <2> QED BY <2>2, <2>3
<1>8. /\ Price(Refilled) + (govNow' - mark')
            <= Price(available) + (govNow - mark)
      /\ govNow' - mark' < Period
  <2>1. CASE Earned > 0
    BY <1>1, <1>2, <1>3, <1>6, <1>7, <2>1
  <2>2. CASE Earned = 0
    <3>1. Price(Earned) = 0 /\ Price(Earned + 1) = Period
      BY <2>2, PriceOf
    <3> QED BY <1>1, <1>2, <1>3, <1>6, <1>7, <2>2, <3>1
  <2> QED BY <1>2, <2>1, <2>2
<1>9. CASE Admitted
  <2>1. available' = Refilled - 1 /\ takes' = Append(takes, govNow')
    BY <1>9 DEF TryTake, Admitted
  <2>2. Refilled >= 1 /\ available' \in Nat /\ available' + 1 = Refilled
    BY <1>4, <1>9, <2>1 DEF Admitted
  <2>3. Price(available' + 1) = Price(available') + Period
    BY <2>2, PriceOne
  <2>4. Price(available') + Period = Price(Refilled)
    BY <2>2, <2>3
  <2>5. available' + 1 <= Capacity /\ available' \in 0 .. Capacity
    <3>1. Capacity \in Int /\ Refilled <= Capacity
      BY <1>1, <1>4
    <3>2. available' + 1 <= Capacity
      BY <2>2, <3>1
    <3>3. available' <= Capacity
      BY <2>2, <3>1, <3>2
    <3>4. available' \in 0 .. Capacity
      BY <2>2, <3>1, <3>3
    <3> QED BY <3>2, <3>4
  <2>6. Price(available') + Period + (govNow' - mark')
            <= Price(available) + (govNow - mark)
    BY <1>8, <2>4
  <2> QED BY <1>5, <1>8, <1>9, <2>1, <2>5, <2>6
<1>10. CASE ~Admitted
  <2>1. available' = Refilled /\ takes' = takes
    BY <1>10 DEF TryTake, Admitted
  <2> QED BY <1>4, <1>5, <1>8, <1>10, <2>1
<1> QED BY <1>9, <1>10

\* Taking a token keeps the order of the calls and what they are paid with.
LEMMA TakePaid ==
    ASSUME GovInv, NEW later, TryTake(later)
    PROVE  Ordered' /\ Paid' /\ RateBounded' /\ takes' \in Seq(Nat)
<1> DEFINE L == Len(takes)
<1>1. /\ takes \in Seq(Nat) /\ L \in Nat /\ DOMAIN takes = 1 .. L
      /\ \A i \in 1 .. L : takes[i] \in Nat
  BY DEF GovInv, GovernorTypeOK
<1>2. /\ govNow \in Nat /\ mark \in Nat /\ available \in Nat
      /\ Capacity \in Nat /\ Period \in Nat /\ Period > 0
  BY PeriodType DEF GovInv, GovernorTypeOK
<1>3. /\ govNow' \in Nat /\ govNow <= govNow' /\ mark' \in Nat
      /\ mark' <= govNow' /\ available' \in Nat
  BY <1>2, TakeFacts
<1>4. /\ Price(available) \in Int /\ Price(available') \in Int
      /\ Price(Capacity) \in Int
  BY <1>2, <1>3, PriceType
<1>5. ASSUME NEW i \in 1 .. L
      PROVE  /\ takes[i] \in Int /\ Price(L - i) \in Int
             /\ Price(L - i) + Price(available) + (govNow - mark)
                    < Price(Capacity) + (govNow - takes[i])
             /\ Price(L + 1 - i) = Price(L - i) + Period
  <2>1. takes[i] \in Int /\ L - i \in Int
    BY <1>1
  <2>2. Price(L - i) \in Int /\ Price((L - i) + 1) = Price(L - i) + Period
    BY <2>1, PriceType, PriceOne
  <2>3. (L - i) + 1 = L + 1 - i
    BY <1>1
  <2>4. Price(L - i) + Price(available) + (govNow - mark)
            < Price(Capacity) + (govNow - takes[i])
    BY <1>1 DEF GovInv, Paid
  <2> QED BY <2>1, <2>2, <2>3, <2>4
<1>6. CASE ~Admitted
  <2>1. /\ takes' = takes
        /\ Price(available') + 0 + (govNow' - mark')
              <= Price(available) + (govNow - mark)
    BY <1>4, <1>6, TakeFacts
  <2>2. Ordered'
    BY <1>1, <1>2, <1>3, <2>1 DEF GovInv, Ordered
  <2>3. RateBounded'
    BY <2>1 DEF GovInv, RateBounded
  <2>4. ASSUME NEW i \in 1 .. L
        PROVE  Price(L - i) + Price(available') + (govNow' - mark')
                   < Price(Capacity) + (govNow' - takes[i])
    <3>1. /\ Price(L - i) \in Int /\ takes[i] \in Int
          /\ Price(L - i) + Price(available) + (govNow - mark)
                < Price(Capacity) + (govNow - takes[i])
      BY <1>5
    <3>2. govNow - mark \in Int /\ govNow' - mark' \in Int /\ 0 \in Int
      BY <1>2, <1>3
    <3>3. govNow \in Int /\ govNow' \in Int
      BY <1>2, <1>3
    <3>4. (Price(L - i) + 0) + Price(available') + (govNow' - mark')
              < Price(Capacity) + (govNow' - takes[i])
      BY <1>3, <1>4, <2>1, <3>1, <3>2, <3>3, StillPaid
    <3>5. Price(L - i) + 0 = Price(L - i)
      BY <3>1
    <3> QED BY <3>4, <3>5
  <2>5. Paid'
    BY <1>1, <2>1, <2>4 DEF Paid
  <2> QED BY <1>1, <2>1, <2>2, <2>3, <2>5
<1>7. CASE Admitted
  <2>1. /\ takes' = Append(takes, govNow')
        /\ available' + 1 <= Capacity
        /\ Price(available') + Period + (govNow' - mark')
              <= Price(available) + (govNow - mark)
        /\ govNow' - mark' < Period
    BY <1>7, TakeFacts
  <2>2. /\ takes' \in Seq(Nat) /\ Len(takes') = L + 1
        /\ DOMAIN takes' = 1 .. L + 1
        /\ \A i \in 1 .. L : takes'[i] = takes[i]
        /\ takes'[L + 1] = govNow'
    BY <1>1, <1>3, <2>1
  <2>3. Ordered'
    <3>1. /\ \A i \in 1 .. L : takes[i] <= govNow
          /\ \A i, j \in 1 .. L : i <= j => takes[i] <= takes[j]
      BY <1>1 DEF GovInv, Ordered
    <3>2. \A i \in 1 .. L + 1 : takes'[i] <= govNow'
      BY <1>1, <1>2, <1>3, <2>2, <3>1
    <3>3. \A i, j \in 1 .. L + 1 : i <= j => takes'[i] <= takes'[j]
      <4> SUFFICES ASSUME NEW i \in 1 .. L + 1, NEW j \in 1 .. L + 1, i <= j
                   PROVE  takes'[i] <= takes'[j]
        OBVIOUS
      <4>1. CASE j \in 1 .. L
        <5>1. i \in 1 .. L
          BY <1>1, <4>1
        <5> QED BY <2>2, <3>1, <4>1, <5>1
      <4>2. CASE j = L + 1
        BY <2>2, <3>2, <4>2
      <4> QED BY <1>1, <4>1, <4>2
    <3> QED BY <2>2, <3>2, <3>3 DEF Ordered
  <2>4. Price(available') + (govNow' - mark') < Price(Capacity)
    <3>1. Price(available' + 1) <= Price(Capacity)
      <4>1. available' + 1 \in Int /\ Capacity \in Int
        BY <1>2, <1>3
      <4> QED BY <2>1, <4>1, Monotone
    <3>2. Price(available' + 1) = Price(available') + Period
      BY <1>3, PriceOne
    <3>3. Price(available') + Period <= Price(Capacity)
      BY <3>1, <3>2
    <3>4. govNow' - mark' \in Int
      BY <1>3
    <3> QED BY <1>2, <1>4, <2>1, <3>3, <3>4
  <2>5. ASSUME NEW i \in 1 .. L + 1
        PROVE  Price(L + 1 - i) + Price(available') + (govNow' - mark')
                   < Price(Capacity) + (govNow' - takes'[i])
    <3>1. CASE i \in 1 .. L
      <4>2. /\ Price(L - i) \in Int /\ takes[i] \in Int
            /\ Price(L - i) + Price(available) + (govNow - mark)
                  < Price(Capacity) + (govNow - takes[i])
        BY <1>5, <3>1
      <4>3. govNow - mark \in Int /\ govNow' - mark' \in Int
        BY <1>2, <1>3
      <4>4. govNow \in Int /\ govNow' \in Int /\ Period \in Int
        BY <1>2, <1>3
      <4>1. (Price(L - i) + Period) + Price(available') + (govNow' - mark')
                < Price(Capacity) + (govNow' - takes[i])
        BY <1>3, <1>4, <2>1, <4>2, <4>3, <4>4, StillPaid
      <4> QED BY <1>5, <2>2, <3>1, <4>1
    <3>2. CASE i = L + 1
      <4>1. L + 1 - i = 0
        BY <1>1, <3>2
      <4>2. Price(L + 1 - i) = 0 /\ takes'[i] = govNow'
        BY <2>2, <3>2, <4>1, PriceOf
      <4> QED BY <1>2, <1>3, <1>4, <2>4, <4>2
    <3> QED BY <1>1, <3>1, <3>2
  <2>6. Paid'
    BY <2>2, <2>5 DEF Paid
  <2>7. ASSUME NEW i \in 1 .. L + 1, NEW j \in 1 .. L + 1, i <= j
        PROVE  (j - i + 1) * Period
                  < (Capacity + 1) * Period + (takes'[j] - takes'[i])
    <3>1. CASE j \in 1 .. L
      <4>1. i \in 1 .. L
        BY <1>1, <2>7, <3>1
      <4>2. (j - i + 1) * Period
                < (Capacity + 1) * Period + (takes[j] - takes[i])
        BY <1>1, <2>7, <3>1, <4>1 DEF GovInv, RateBounded
      <4> QED BY <2>2, <3>1, <4>1, <4>2
    <3>2. CASE j = L + 1
      <4>1. Price(j - i) + Price(available') + (govNow' - mark')
                < Price(Capacity) + (takes'[j] - takes'[i])
        BY <2>2, <2>5, <3>2
      <4>2. /\ Price(j - i) \in Int
            /\ Price(j - i + 1) = Price(j - i) + Period
            /\ Price(Capacity + 1) = Price(Capacity) + Period
        <5>1. j - i \in Int /\ Capacity \in Int
          BY <1>1, <1>2
        <5>2. Price(j - i) \in Int
          BY <5>1, PriceType
        <5>3. Price((j - i) + 1) = Price(j - i) + Period
          BY <5>1, PriceOne
        <5>4. Price(Capacity + 1) = Price(Capacity) + Period
          BY <5>1, PriceOne
        <5> QED BY <5>2, <5>3, <5>4
      <4>3. takes'[i] \in Int /\ takes'[j] \in Int
        BY <2>2
      <4>4. Price(available') >= 0
        BY <1>3, PriceNat
      <4>5. Price(j - i + 1) < Price(Capacity + 1) + (takes'[j] - takes'[i])
        <5>1. /\ govNow' \in Int /\ mark' \in Int
              /\ mark' <= govNow'
          BY <1>3
        <5>4. takes'[j] - takes'[i] \in Int
          BY <4>3
        <5>2. Price(j - i) < Price(Capacity) + (takes'[j] - takes'[i])
          BY <1>4, <4>1, <4>2, <4>4, <5>1, <5>4, OwnTake
        <5>5. Price(j - i) \in Int /\ Price(Capacity) \in Int /\ Period \in Int
          BY <1>2, <1>4, <4>2
        <5>3. Price(j - i) + Period
                  < (Price(Capacity) + Period) + (takes'[j] - takes'[i])
          BY <4>3, <5>2, <5>5
        <5> QED BY <4>2, <5>3
      <4> QED BY <4>5 DEF Price
    <3> QED BY <1>1, <3>1, <3>2
  <2>8. RateBounded'
    BY <2>2, <2>7 DEF RateBounded
  <2> QED BY <2>2, <2>3, <2>6, <2>8
<1> QED BY <1>6, <1>7

LEMMA TakeFresh ==
    ASSUME GovInv, NEW later, TryTake(later)
    PROVE  Fresh'
<1>1. /\ takes \in Seq(Nat) /\ govNow \in Nat /\ mark \in 0 .. govNow
      /\ available \in 0 .. Capacity /\ Capacity \in Nat
  BY PeriodType DEF GovInv, GovernorTypeOK
<1>2. Earned \in Nat
  BY EarnedPays DEF GovInv
<1>3. CASE Admitted
  <2>1. takes' = Append(takes, govNow') /\ mark' <= govNow' /\ govNow' \in Nat
    BY <1>3, TakeFacts
  <2> QED BY <1>1, <2>1 DEF Fresh
<1>4. CASE ~Admitted
  <2>1. takes' = takes /\ available' = Refilled
    BY <1>4 DEF TryTake, Admitted
  <2>2. Refilled = 0 /\ (Capacity = 0 \/ (available = 0 /\ Earned = 0))
    <3>1. ~(Refilled >= 1)
      BY <1>4 DEF Admitted
    <3>2. available + Earned \in Nat
      BY <1>1, <1>2
    <3>3. CASE available + Earned <= Capacity
      BY <1>1, <1>2, <3>1, <3>2, <3>3 DEF Refilled, AtMost
    <3>4. CASE ~(available + Earned <= Capacity)
      <4>1. Refilled = Capacity
        BY <3>4 DEF Refilled, AtMost
      <4>2. Capacity = 0
        BY <1>1, <3>1, <4>1
      <4> QED BY <4>1, <4>2
    <3> QED BY <3>3, <3>4
  <2>3. CASE takes = <<>>
    BY <1>1, <2>1, <2>2, <2>3 DEF GovInv, Fresh
  <2>4. CASE takes # <<>> /\ Earned = 0
    <3>1. mark' = mark
      BY <2>4 DEF TryTake, Marked
    <3> QED BY <2>1, <2>4, <3>1 DEF GovInv, Fresh
  <2>5. CASE takes # <<>> /\ Capacity = 0
    <3> DEFINE L == Len(takes)
    <3>1. L \in DOMAIN takes /\ takes[L] \in Nat /\ L \in Nat
      BY <1>1, <2>5
    <3>2. L - L = 0 /\ available = 0
      BY <1>1, <2>5, <3>1
    <3>3. Price(L - L) + Price(available) + (govNow - mark)
              < Price(Capacity) + (govNow - takes[L])
      BY <3>1 DEF GovInv, Paid
    <3>4. 0 + 0 + (govNow - mark) < 0 + (govNow - takes[L])
      BY <2>5, <3>2, <3>3, PriceOf
    <3>5. mark <= takes[L]
      BY <2>5 DEF GovInv, Fresh
    <3> QED BY <1>1, <3>1, <3>4, <3>5
  <2> QED BY <2>2, <2>3, <2>4, <2>5
<1> QED BY <1>3, <1>4

-----------------------------------------------------------------------------
(* The invariant                                                           *)

LEMMA GovInvInit == GovernorInit => GovInv
<1> SUFFICES ASSUME GovernorInit PROVE GovInv
  OBVIOUS
<1>1. takes = <<>> /\ takes \in Seq(Nat) /\ DOMAIN takes = {}
  BY DEF GovernorInit
<1>2. GovernorTypeOK
  <2>1. govNow \in Nat /\ mark \in 0 .. govNow /\ available \in 0 .. Capacity
    BY PeriodType DEF GovernorInit
  <2>2. rested \in BOOLEAN /\ refused \in BOOLEAN
    BY DEF GovernorInit
  <2>3. stage \in {"none", "quoted"}
    BY DEF GovernorInit
  <2> QED BY <1>1, <2>1, <2>2, <2>3 DEF GovernorTypeOK
<1>3. Ordered /\ Paid /\ RateBounded
  BY <1>1 DEF Ordered, Paid, RateBounded
<1>4. Fresh /\ SwapCovered /\ RestedPassWhole
  BY DEF GovernorInit, Fresh, SwapCovered, RestedPassWhole
<1> QED BY <1>2, <1>3, <1>4 DEF GovInv

LEMMA QuoteStep ==
    ASSUME GovInv, NEW later, Quote(later)
    PROVE  GovInv'
<1>1. TryTake(later)
  BY DEF Quote
<1>2. Ordered' /\ Paid' /\ RateBounded' /\ Fresh' /\ takes' \in Seq(Nat)
  BY <1>1, TakePaid, TakeFresh
<1>3. /\ stage' \in {"none", "quoted"} /\ rested' \in BOOLEAN
      /\ refused' \in BOOLEAN
  BY DEF Quote, Rest
<1>4. GovernorTypeOK'
  BY <1>1, <1>2, <1>3, TakeFacts DEF GovernorTypeOK
<1>5. ASSUME Capacity >= 2, rested'
      PROVE  Refilled >= 2
  <2>1. /\ govNow \in Nat /\ mark \in Nat /\ available \in 0 .. Capacity
        /\ takes \in Seq(Nat) /\ Capacity \in Nat
        /\ Period \in Nat /\ Period > 0
    BY PeriodType DEF GovInv, GovernorTypeOK
  <2>2. Earned \in Nat
    BY EarnedPays DEF GovInv
  <2>3. CASE takes = <<>>
    BY <1>5, <2>1, <2>2, <2>3 DEF GovInv, Fresh, Refilled, AtMost
  <2>4. CASE takes # <<>>
    <3>1. takes[Len(takes)] \in Nat /\ mark <= takes[Len(takes)]
      BY <2>1, <2>4 DEF GovInv, Fresh
    <3>2. govNow - takes[Len(takes)] >= 2 * Period
      BY <1>5, <2>4 DEF Quote, Rest
    <3>3. govNow - mark >= 2 * Period
      BY <2>1, <3>1, <3>2
    <3>4. Earned >= 2
      BY <2>1, <3>3 DEF Earned
    <3> QED BY <1>5, <2>1, <2>2, <3>4 DEF Refilled, AtMost
  <2> QED BY <2>3, <2>4
<1>6. RestedPassWhole'
  <2> SUFFICES ASSUME Capacity >= 2, rested' PROVE ~refused'
    BY DEF RestedPassWhole
  <2>1. Admitted
    <3>1. Refilled >= 2 /\ Refilled \in Int
      BY <1>5, EarnedPays, PeriodType
         DEF Refilled, AtMost, GovInv, GovernorTypeOK
    <3> QED BY <3>1 DEF Admitted
  <2>2. refused' = ~Admitted
    BY DEF Quote
  <2> QED BY <2>1, <2>2
<1>7. SwapCovered'
  <2> SUFFICES ASSUME Capacity >= 2, rested' PROVE available' >= 1
    BY DEF SwapCovered
  <2>1. Refilled >= 2 /\ Refilled \in Int
    BY <1>5, EarnedPays, PeriodType
       DEF Refilled, AtMost, GovInv, GovernorTypeOK
  <2>2. available' = Refilled - 1
    BY <1>1, <2>1 DEF TryTake
  <2> QED BY <2>1, <2>2
<1> QED BY <1>2, <1>4, <1>6, <1>7 DEF GovInv

LEMMA SwapStep ==
    ASSUME GovInv, NEW later, Swap(later)
    PROVE  GovInv'
<1>1. TryTake(later)
  BY DEF Swap
<1>2. Ordered' /\ Paid' /\ RateBounded' /\ Fresh' /\ takes' \in Seq(Nat)
  BY <1>1, TakePaid, TakeFresh
<1>3. /\ stage' = "none" /\ rested' = rested /\ stage = "quoted"
      /\ refused' = ~Admitted
  BY DEF Swap
<1>4. GovernorTypeOK'
  BY <1>1, <1>2, <1>3, TakeFacts DEF GovernorTypeOK, GovInv
<1>5. SwapCovered'
  BY <1>3 DEF SwapCovered
<1>6. ASSUME Capacity >= 2, rested PROVE Admitted
  <2>1. available >= 1 /\ available \in Int /\ Capacity \in Int
    BY <1>3, <1>6, PeriodType DEF GovInv, SwapCovered, GovernorTypeOK
  <2>2. Earned \in Nat
    BY EarnedPays DEF GovInv
  <2> QED BY <1>6, <2>1, <2>2 DEF Admitted, Refilled, AtMost
<1>7. RestedPassWhole'
  BY <1>3, <1>6 DEF RestedPassWhole
<1> QED BY <1>2, <1>4, <1>5, <1>7 DEF GovInv

\* Time that passes counts on both sides of the account.
LEMMA TimePasses ==
    ASSUME NEW a \in Int, NEW b \in Int, NEW c \in Int,
           NEW now \in Int, NEW m \in Int, NEW t \in Int,
           a + b + (now - m) < c + (now - t)
    PROVE  a + b + ((now + 1) - m) < c + ((now + 1) - t)
OBVIOUS

LEMMA GovInvStep == GovInv /\ [GovernorNext]_govVars => GovInv'
<1> SUFFICES ASSUME GovInv, [GovernorNext]_govVars PROVE GovInv'
  OBVIOUS
<1>1. ASSUME NEW later, Quote(later) PROVE GovInv'
  BY <1>1, QuoteStep
<1>2. ASSUME NEW later, Swap(later) PROVE GovInv'
  BY <1>2, SwapStep
<1>3. CASE QuoteUnusable
  BY <1>3 DEF QuoteUnusable, GovInv, GovernorTypeOK, Ordered, Paid,
              RateBounded, Fresh, SwapCovered, RestedPassWhole
<1>4. CASE GovTick
  <2>1. /\ govNow' = govNow + 1
        /\ UNCHANGED <<available, mark, stage, rested, refused, takes>>
    BY <1>4 DEF GovTick
  <2>2. /\ govNow \in Nat /\ mark \in 0 .. govNow /\ available \in Nat
        /\ takes \in Seq(Nat) /\ Capacity \in Nat
    BY PeriodType DEF GovInv, GovernorTypeOK
  <2>3. GovernorTypeOK'
    BY <2>1, <2>2 DEF GovInv, GovernorTypeOK
  <2>4. Ordered'
    BY <2>1, <2>2 DEF GovInv, Ordered
  <2>5. ASSUME NEW i \in DOMAIN takes
        PROVE  Price(Len(takes) - i) + Price(available) + (govNow' - mark)
                   < Price(Capacity) + (govNow' - takes[i])
    <3>1. Price(Len(takes) - i) + Price(available) + (govNow - mark)
              < Price(Capacity) + (govNow - takes[i])
      BY DEF GovInv, Paid
    <3>2. /\ Price(Len(takes) - i) \in Int /\ Price(available) \in Int
          /\ Price(Capacity) \in Int /\ takes[i] \in Nat
      <4>1. Len(takes) - i \in Int /\ takes[i] \in Nat
        BY <2>2
      <4>2. available \in Int /\ Capacity \in Int
        BY <2>2
      <4> QED BY <4>1, <4>2, PriceType
    <3>3. govNow \in Int /\ mark \in Int /\ takes[i] \in Int
      BY <2>2, <3>2
    <3>4. Price(Len(takes) - i) + Price(available) + ((govNow + 1) - mark)
              < Price(Capacity) + ((govNow + 1) - takes[i])
      BY <3>1, <3>2, <3>3, TimePasses, Zenon
    <3> QED BY <2>1, <3>4, Zenon
  <2>6. Paid'
    BY <2>1, <2>5 DEF Paid
  <2> QED BY <2>1, <2>3, <2>4, <2>6
          DEF GovInv, RateBounded, Fresh, SwapCovered, RestedPassWhole
<1>5. CASE UNCHANGED govVars
  BY <1>5 DEF govVars, GovInv, GovernorTypeOK, Ordered, Paid,
              RateBounded, Fresh, SwapCovered, RestedPassWhole
<1> QED BY <1>1, <1>2, <1>3, <1>4, <1>5 DEF GovernorNext

\* Every variable of the governor keeps its type; the tokens stay in the bucket.
THEOREM GovernorTypeCorrect == GovernorSpec => []GovernorTypeOK
<1>1. GovInv => GovernorTypeOK
  BY DEF GovInv
<1> QED BY <1>1, GovInvInit, GovInvStep, PTL DEF GovernorSpec

\* The calls admitted over any stretch of time exceed the burst by less than
\* one more than that time earns (live.rs:43-45), for any capacity and rate.
THEOREM RateIsBounded == GovernorSpec => []RateBounded
<1>1. GovInv => RateBounded
  BY DEF GovInv
<1> QED BY <1>1, GovInvInit, GovInvStep, PTL DEF GovernorSpec

\* A pass that begins after a rest is admitted whole (live.rs:198-200).
THEOREM RestedPassIsWhole == GovernorSpec => []RestedPassWhole
<1>1. GovInv => RestedPassWhole
  BY DEF GovInv
<1> QED BY <1>1, GovInvInit, GovInvStep, PTL DEF GovernorSpec

-----------------------------------------------------------------------------
(* The RPC client                                                          *)

\* Dead endpoints that were got past are not the preferred one, and a call has
\* had a failure of every endpoint from the preferred one up to the one it asks.
RpcInv ==
    /\ RpcTypeOK
    /\ step = "airdrop" => drops < MaxDrops
    /\ passed \subseteq dead
    /\ active \notin passed
    /\ calling => /\ start = active
                  /\ \A i \in 0 .. tried - 1 : (start + i) % Endpoints \in failed

\* Whatever a call returns, the flow goes to one of its steps.
LEMMA AdvanceType ==
    ASSUME RpcInv, NEW result \in Results, Advance(result)
    PROVE  /\ step' \in Steps /\ drops' \in 0 .. MaxDrops
           /\ waited' \in 0 .. ConfirmPolls + 1
           /\ step' = "airdrop" => drops' < MaxDrops
<1>0. /\ step \in Steps /\ drops \in 0 .. MaxDrops
      /\ waited \in 0 .. ConfirmPolls + 1
      /\ MaxDrops \in Nat /\ ConfirmPolls \in Nat
  BY RpcAssumption DEF RpcInv, RpcTypeOK
<1> DEFINE Good == /\ step' \in Steps /\ drops' \in 0 .. MaxDrops
                   /\ waited' \in 0 .. ConfirmPolls + 1
                   /\ step' = "airdrop" => drops' < MaxDrops
<1>1. CASE step = "airdrop" /\ Airdrop(result)
  <2>1. drops < MaxDrops
    BY <1>1 DEF RpcInv
  <2>2. CASE result = "good"
    BY <1>0, <1>1, <2>2 DEF Airdrop, Steps
  <2>3. CASE result # "good"
    BY <1>0, <1>1, <2>1, <2>3 DEF Airdrop, Steps
  <2> QED BY <2>2, <2>3
<1>2. ASSUME NEW next \in Steps, next # "airdrop", Plain(result, next)
      PROVE  Good
  BY <1>0, <1>2 DEF Plain, Steps
<1>3. ASSUME NEW next \in Steps, next # "airdrop", step # "airdrop",
             Confirm(result, next)
      PROVE  Good
  BY <1>0, <1>3 DEF Confirm, Pending, Steps
<1> QED BY <1>1, <1>2, <1>3 DEF Advance, Steps

LEMMA RpcInvInit == RpcInit => RpcInv
<1> SUFFICES ASSUME RpcInit PROVE RpcInv
  OBVIOUS
<1>1. 0 \in Hosts /\ 0 \in 0 .. MaxDrops /\ 0 \in 0 .. ConfirmPolls + 1
  BY RpcAssumption DEF Hosts
<1>2. RpcTypeOK
  BY <1>1 DEF RpcInit, RpcTypeOK, Steps
<1> QED BY <1>2, RpcAssumption DEF RpcInit, RpcInv

LEMMA RpcInvStep == RpcInv /\ [RpcNext]_rpcVars => RpcInv'
<1> SUFFICES ASSUME RpcInv, [RpcNext]_rpcVars PROVE RpcInv'
  OBVIOUS
<1>0. /\ Endpoints \in Nat \ {0}
      /\ start \in Hosts /\ tried \in Hosts /\ active \in Hosts
      /\ dead \subseteq Hosts /\ failed \subseteq Hosts /\ passed \subseteq Hosts
      /\ passed \subseteq dead /\ active \notin passed /\ calling \in BOOLEAN
  BY RpcAssumption DEF RpcInv, RpcTypeOK
<1>a. Asked \in Hosts
  BY <1>0 DEF Asked, Hosts
<1>1. CASE BeginCall
  <2>1. /\ calling' = TRUE /\ start' = active /\ tried' = 0 /\ failed' = {}
        /\ UNCHANGED <<step, active, drops, waited, passed, dead>>
    BY <1>1 DEF BeginCall, peers
  <2>2. 0 \in Hosts
    BY <1>0 DEF Hosts
  <2> QED BY <1>0, <2>1, <2>2 DEF RpcInv, RpcTypeOK
<1>2. CASE Answer
  <2>1. PICK result \in Results : Advance(result)
    BY <1>2 DEF Answer
  <2>2. /\ calling' = FALSE /\ active' = Asked /\ Asked \notin dead
        /\ passed' = passed \cup (failed \cap dead)
        /\ UNCHANGED <<start, tried, failed, dead>>
    BY <1>2 DEF Answer, peers
  <2>3. RpcTypeOK' /\ (step = "airdrop" => drops < MaxDrops)'
    BY <1>0, <1>a, <2>1, <2>2, AdvanceType DEF RpcInv, RpcTypeOK
  <2> QED BY <1>0, <2>2, <2>3 DEF RpcInv
<1>3. CASE NoAnswer
  <2>1. /\ calling /\ failed' = failed \cup {Asked}
        /\ UNCHANGED <<start, active, passed, dead>>
    BY <1>3 DEF NoAnswer, peers
  <2>2. CASE tried + 1 < Endpoints
    <3>1. tried' = tried + 1 /\ UNCHANGED <<step, calling, drops, waited>>
      BY <1>3, <2>2 DEF NoAnswer
    <3>2. RpcTypeOK' /\ (step = "airdrop" => drops < MaxDrops)'
      BY <1>0, <1>a, <2>1, <2>2, <3>1 DEF RpcInv, RpcTypeOK, Hosts
    <3>3. ASSUME NEW i \in 0 .. tried' - 1
          PROVE  (start' + i) % Endpoints \in failed'
      <4>1. i \in 0 .. tried - 1 \/ i = tried
        BY <1>0, <3>1 DEF Hosts
      <4> QED BY <2>1, <4>1 DEF RpcInv, Asked
    <3> QED BY <1>0, <2>1, <3>2, <3>3 DEF RpcInv
  <2>3. CASE ~(tried + 1 < Endpoints)
    <3>1. calling' = FALSE /\ tried' = tried /\ Advance("bad")
      BY <1>3, <2>3 DEF NoAnswer
    <3>2. RpcTypeOK' /\ (step = "airdrop" => drops < MaxDrops)'
      BY <1>0, <1>a, <2>1, <3>1, AdvanceType DEF RpcInv, RpcTypeOK, Results
    <3> QED BY <1>0, <2>1, <3>1, <3>2 DEF RpcInv
  <2> QED BY <2>2, <2>3
<1>4. ASSUME NEW e \in Hosts, EndpointDies(e) PROVE RpcInv'
  <2>1. /\ dead' = dead \cup {e}
        /\ UNCHANGED <<step, calling, start, tried, active, drops, waited,
                       failed, passed>>
    BY <1>4 DEF EndpointDies
  <2> QED BY <1>0, <2>1 DEF RpcInv, RpcTypeOK
<1>5. CASE UNCHANGED rpcVars
  BY <1>5 DEF rpcVars, RpcInv, RpcTypeOK
<1> QED BY <1>1, <1>2, <1>3, <1>4, <1>5 DEF RpcNext, FlowOver

\* Every variable of the client and of the flow keeps its type.
THEOREM RpcTypeCorrect == RpcSpec => []RpcTypeOK
<1>1. RpcInv => RpcTypeOK
  BY DEF RpcInv
<1> QED BY <1>1, RpcInvInit, RpcInvStep, PTL DEF RpcSpec

\* For any number of endpoints and any deaths: a dead endpoint that a call once
\* got past is asked by a later one only after the last good endpoint, and all
\* from there round to it, have failed in that call (live.rs:411-413).
THEOREM DeadAreLeftAlone == RpcSpec => []DeadNotHammered
<1>1. ASSUME RpcInv PROVE DeadNotHammered
  <2> SUFFICES ASSUME calling, Asked \in passed
               PROVE  \E n \in 1 .. Endpoints - 1 :
                          /\ Asked = (active + n) % Endpoints
                          /\ \A i \in 0 .. n - 1 :
                                 (active + i) % Endpoints \in failed
    BY DEF DeadNotHammered
  <2>1. /\ Endpoints \in Nat \ {0} /\ start = active /\ active \notin passed
        /\ start \in 0 .. Endpoints - 1 /\ tried \in 0 .. Endpoints - 1
        /\ \A i \in 0 .. tried - 1 : (start + i) % Endpoints \in failed
    BY <1>1, RpcAssumption DEF RpcInv, RpcTypeOK, Hosts
  <2>2. tried # 0
    BY <2>1 DEF Asked
  <2>3. tried \in 1 .. Endpoints - 1
    BY <2>1, <2>2
  <2>4. Asked = (active + tried) % Endpoints
    BY <2>1 DEF Asked
  <2> QED BY <2>1, <2>3, <2>4
<1> QED BY <1>1, RpcInvInit, RpcInvStep, PTL DEF RpcSpec

-----------------------------------------------------------------------------
(* Boots                                                                  *)

\* What the file of a path says of a token is true.
FileIsTrue(p, m) == IsTrue(files[p].book, m)

\* Of a token that is not stale on a path, the run that sends there says the
\* truth, and so does the file unless this run has traded the token since.
PathIsTrue(p, m) ==
    m \notin stale[p] =>
        /\ Sending /\ path = p => IsTrue(book, m)
        /\ ~(Sending /\ path = p /\ m \in unsaved) => FileIsTrue(p, m)

\* Without a file there is nothing in it, and a run differs from its file in
\* what it has traded or would not resume.
FilesInv ==
    /\ \A p \in Paths : files[p].state = "missing" => files[p].book = Flat
    /\ \A p \in Paths : disk[p].state = "missing" => disk[p].book = Flat
    /\ kind # "down" => Differ(book, files[path].book) \subseteq unsaved

BootInv ==
    /\ BootTypeOK
    /\ FilesInv
    /\ \A p \in Paths, m \in Mints : PathIsTrue(p, m)

LEMMA BootInvInit == BootInit => BootInv
<1> SUFFICES ASSUME BootInit PROVE BootInv
  OBVIOUS
<1>1. Flat \in Book /\ "live_state" \in Paths /\ "down" \in Kinds
  BY DEF Flat, Book, Origins, Paths, Kinds
<1>2. BootTypeOK
  BY <1>1 DEF BootInit, BootTypeOK, Snapshots
<1>3. FilesInv
  BY DEF BootInit, FilesInv
<1>4. ASSUME NEW p \in Paths, NEW m \in Mints PROVE FileIsTrue(p, m)
  BY <1>4 DEF BootInit, FileIsTrue, IsTrue, Flat
<1> QED BY <1>2, <1>3, <1>4 DEF BootInit, BootInv, PathIsTrue, Sending

\* Settings lead to a known kind of run and to one of the two files.
LEMMA StartableType ==
    \A run \in Startable : run[1] \in Kinds /\ run[2] \in Paths
<1>1. ASSUME NEW s \in Settings PROVE KindOf(s) \in Kinds
  BY DEF KindOf, Kinds
<1>2. ASSUME NEW s \in Settings PROVE StatePath(s) \in Paths
  BY DEF StatePath, Settings, Paths
<1> QED BY <1>1, <1>2 DEF Startable

LEMMA StartStep ==
    ASSUME BootInv, NEW k \in Kinds, NEW p \in Paths, Start(k, p)
    PROVE  BootInv'
<1>1. /\ kind = "down" /\ kind' = k /\ path' = p
      /\ book' = IF files[p].state = "good" THEN files[p].book ELSE Flat
      /\ unsaved' = Differ(book', files[p].book)
      /\ UNCHANGED <<files, disk, held, stale>>
  BY DEF Start
<1>2. /\ files \in [Paths -> Snapshots] /\ files[p] \in Snapshots
      /\ files[p].book \in Book /\ Flat \in Book
  BY DEF BootInv, BootTypeOK, Snapshots, Flat, Book, Origins
<1>3. BootTypeOK'
  BY <1>1, <1>2 DEF BootInv, BootTypeOK, Differ
<1>4. FilesInv'
  BY <1>1 DEF BootInv, FilesInv, Differ
<1>5. k = "send" => book' = files[p].book
  BY <1>1 DEF Start, SnapshotUsable, BootInv, FilesInv
<1>6. ASSUME NEW q \in Paths, NEW m \in Mints PROVE PathIsTrue(q, m)'
  <2>1. PathIsTrue(q, m)
    BY DEF BootInv
  <2> QED BY <1>1, <1>5, <2>1
          DEF PathIsTrue, FileIsTrue, IsTrue, Sending
<1> QED BY <1>3, <1>4, <1>6 DEF BootInv

\* A real trade makes the token stale on the other path.
LEMMA UntoldType ==
    ASSUME BootTypeOK, NEW m \in Mints
    PROVE  /\ Untold(m) \in [Paths -> SUBSET Mints]
           /\ \A p \in Paths : p = path => Untold(m)[p] = stale[p]
           /\ \A p \in Paths : p # path => Untold(m)[p] = stale[p] \cup {m}
BY DEF BootTypeOK, Untold


\* A trade of m keeps the invariant if a real one is untold on the other path,
\* and told by the book of this run unless m stays stale here.
LEMMA TradeStep ==
    ASSUME BootInv, NEW m \in Mints,
           UNCHANGED <<kind, path, files, disk>>,
           book' \in Book, \A n \in Mints \ {m} : book'[n] = book[n],
           unsaved' = unsaved \cup {m},
           held' \subseteq Mints,
           \A n \in Mints \ {m} : n \in held' <=> n \in held,
           stale' \in [Paths -> SUBSET Mints],
           Sending => \A q \in Paths, n \in Mints : n \notin stale'[q] =>
                          \/ n = m /\ q = path /\ IsTrue(book, m)'
                          \/ n # m /\ n \notin stale[q],
           ~Sending => UNCHANGED <<held, stale>>
    PROVE  BootInv'
<1>1. BootTypeOK'
  BY DEF BootInv, BootTypeOK
<1>2. FilesInv'
  BY DEF BootInv, FilesInv, Differ
<1>3. ASSUME NEW q \in Paths, NEW n \in Mints, n \notin stale'[q]
      PROVE  PathIsTrue(q, n)'
  <2>1. CASE Sending /\ n = m /\ q = path /\ IsTrue(book, m)'
    BY <2>1 DEF PathIsTrue, Sending
  <2>2. CASE Sending /\ n # m /\ n \notin stale[q]
    <3>1. PathIsTrue(q, n)
      BY DEF BootInv
    <3>2. IsTrue(book, n)' <=> IsTrue(book, n)
      BY <2>2 DEF IsTrue
    <3>3. FileIsTrue(q, n)' <=> FileIsTrue(q, n)
      BY <2>2 DEF FileIsTrue, IsTrue
    <3> QED BY <2>2, <3>1, <3>2, <3>3 DEF PathIsTrue, Sending
  <2>3. CASE ~Sending
    <3>1. PathIsTrue(q, n)
      BY DEF BootInv
    <3> QED BY <1>3, <2>3, <3>1 DEF PathIsTrue, FileIsTrue, IsTrue, Sending
  <2> QED BY <1>3, <2>1, <2>2, <2>3
<1>4. \A q \in Paths, n \in Mints : PathIsTrue(q, n)'
  BY <1>3 DEF PathIsTrue
<1> QED BY <1>1, <1>2, <1>4 DEF BootInv

LEMMA BuyStep ==
    ASSUME BootInv, NEW m \in Mints, BuyFills(m)
    PROVE  BootInv'
<1>0. /\ book \in [Mints -> Origins] /\ held \subseteq Mints /\ path \in Paths
      /\ stale \in [Paths -> SUBSET Mints]
  BY DEF BootInv, BootTypeOK, Book
<1>1. /\ UNCHANGED <<kind, path, files, disk>> /\ unsaved' = unsaved \cup {m}
      /\ book' = [book EXCEPT ![m] = IF Sending THEN "real" ELSE "simulated"]
      /\ book[m] = "none"
  BY DEF BuyFills
<1>2. book' \in Book /\ \A n \in Mints \ {m} : book'[n] = book[n]
  BY <1>0, <1>1 DEF Book, Origins
<1>3. CASE Sending
  <2>1. /\ held' = held \cup {m}
        /\ stale' = IF m \in held THEN Untold(m)
                    ELSE [Untold(m) EXCEPT ![path] = @ \ {m}]
    BY <1>3 DEF BuyFills
  <2>2. /\ held' \subseteq Mints
        /\ \A n \in Mints \ {m} : n \in held' <=> n \in held
    BY <1>0, <2>1
  <2>3. stale' \in [Paths -> SUBSET Mints]
    BY <2>1, UntoldType DEF BootInv
  <2>4. IsTrue(book, m)'
    BY <1>0, <1>1, <1>3, <2>1 DEF IsTrue
  <2>5. m \in held => m \in stale[path]
    BY <1>0, <1>1, <1>3 DEF BootInv, PathIsTrue, IsTrue
  <2>6. ASSUME NEW q \in Paths, NEW n \in Mints, n \notin stale'[q]
        PROVE  \/ n = m /\ q = path
               \/ n # m /\ n \notin stale[q]
    <3>1. CASE q = path
      BY <1>0, <2>1, <2>5, <2>6, <3>1, UntoldType DEF BootInv
    <3>2. CASE q # path
      BY <1>0, <2>1, <2>6, <3>2, UntoldType DEF BootInv
    <3> QED BY <3>1, <3>2
  <2> QED BY <1>1, <1>2, <1>3, <2>2, <2>3, <2>4, <2>6, TradeStep
<1>4. CASE ~Sending
  <2>1. UNCHANGED <<held, stale>>
    BY <1>4 DEF BuyFills
  <2> QED BY <1>0, <1>1, <1>2, <1>4, <2>1, TradeStep
<1> QED BY <1>3, <1>4

LEMMA ExitStep ==
    ASSUME BootInv, NEW m \in Mints, ExitFills(m)
    PROVE  BootInv'
<1>0. /\ book \in [Mints -> Origins] /\ held \subseteq Mints /\ path \in Paths
      /\ stale \in [Paths -> SUBSET Mints]
  BY DEF BootInv, BootTypeOK, Book
<1>1. /\ UNCHANGED <<kind, path, files, disk>> /\ unsaved' = unsaved \cup {m}
      /\ book' = [book EXCEPT ![m] = "none"]
  BY DEF ExitFills
<1>2. book' \in Book /\ \A n \in Mints \ {m} : book'[n] = book[n]
  BY <1>0, <1>1 DEF Book, Origins
<1>3. CASE Sending
  <2>1. /\ held' = held \ {m} \/ (m \in stale[path] /\ held' = held)
        /\ stale' = Untold(m)
    BY <1>3 DEF ExitFills
  <2>2. /\ held' \subseteq Mints
        /\ \A n \in Mints \ {m} : n \in held' <=> n \in held
    BY <1>0, <2>1
  <2>3. stale' \in [Paths -> SUBSET Mints]
    BY <2>1, UntoldType DEF BootInv
  <2>4. ASSUME NEW q \in Paths, NEW n \in Mints, n \notin stale'[q]
        PROVE  \/ n = m /\ q = path /\ IsTrue(book, m)'
               \/ n # m /\ n \notin stale[q]
    <3>1. CASE q = path
      <4>1. n \notin stale[q]
        BY <2>1, <2>4, <3>1, UntoldType DEF BootInv
      <4>2. CASE n = m
        <5>1. held' = held \ {m}
          BY <2>1, <3>1, <4>1, <4>2
        <5>2. IsTrue(book, m)'
          BY <1>0, <1>1, <5>1 DEF IsTrue
        <5> QED BY <3>1, <4>2, <5>2
      <4> QED BY <4>1, <4>2
    <3>2. CASE q # path
      BY <1>0, <2>1, <2>4, <3>2, UntoldType DEF BootInv
    <3> QED BY <3>1, <3>2
  <2> QED BY <1>1, <1>2, <1>3, <2>2, <2>3, <2>4, TradeStep
<1>4. CASE ~Sending
  <2>1. UNCHANGED <<held, stale>>
    BY <1>4 DEF ExitFills
  <2> QED BY <1>0, <1>1, <1>2, <1>4, <2>1, TradeStep
<1> QED BY <1>3, <1>4

\* After a save the file of a path says what its run does; what a run that does
\* not send had traded is stale.
LEMMA SavedStep ==
    ASSUME BootInv, Saved, held' = held
    PROVE  /\ files' \in [Paths -> Snapshots] /\ stale' \in [Paths -> SUBSET Mints]
           /\ files'[path] = [state |-> "good", book |-> book]
           /\ \A q \in Paths \ {path} : files'[q] = files[q]
           /\ kind # "down" => \A q \in Paths, m \in Mints : m \notin stale'[q] =>
                /\ m \notin stale[q]
                /\ FileIsTrue(q, m)'
<1>1. /\ book \in Book /\ files \in [Paths -> Snapshots] /\ path \in Paths
      /\ stale \in [Paths -> SUBSET Mints] /\ unsaved \subseteq Mints
  BY DEF BootInv, BootTypeOK
<1>2. files' = [files EXCEPT ![path] = [state |-> "good", book |-> book]]
  BY DEF Saved
<1>3. files' \in [Paths -> Snapshots] /\ stale' \in [Paths -> SUBSET Mints]
  BY <1>1, <1>2 DEF Saved, StaleHere, Snapshots
<1>4. /\ files'[path] = [state |-> "good", book |-> book]
      /\ \A q \in Paths \ {path} : files'[q] = files[q]
  BY <1>1, <1>2
<1>5. ASSUME kind # "down", NEW q \in Paths, NEW m \in Mints, m \notin stale'[q]
      PROVE  m \notin stale[q] /\ FileIsTrue(q, m)'
  <2>1. /\ m \notin stale[q]
        /\ q = path /\ ~Sending => m \notin unsaved
    BY <1>1, <1>5 DEF Saved, StaleHere
  <2>2. PathIsTrue(q, m)
    BY DEF BootInv
  <2>3. CASE q # path
    BY <1>4, <2>1, <2>2, <2>3 DEF PathIsTrue, FileIsTrue, IsTrue
  <2>4. CASE q = path /\ Sending
    BY <1>4, <2>1, <2>2, <2>4 DEF PathIsTrue, FileIsTrue, IsTrue
  <2>5. CASE q = path /\ ~Sending
    <3>1. book[m] = files[path].book[m]
      BY <1>5, <2>1, <2>5 DEF BootInv, FilesInv, Differ
    <3> QED BY <1>4, <2>1, <2>2, <2>5, <3>1 DEF PathIsTrue, FileIsTrue, IsTrue
  <2> QED BY <2>3, <2>4, <2>5
<1> QED BY <1>3, <1>4, <1>5

LEMMA CheckpointStep == ASSUME BootInv, Checkpoint PROVE BootInv'
<1>1. /\ Saved /\ UNCHANGED <<kind, path, book, disk, held>> /\ kind # "down"
      /\ unsaved' = {}
  BY DEF Checkpoint, Saves
<1>2. BootTypeOK'
  BY <1>1, SavedStep DEF BootInv, BootTypeOK
<1>3. FilesInv'
  BY <1>1, SavedStep DEF BootInv, BootTypeOK, FilesInv, Differ
<1>4. ASSUME NEW q \in Paths, NEW m \in Mints, m \notin stale'[q]
      PROVE  PathIsTrue(q, m)'
  <2>1. m \notin stale[q] /\ FileIsTrue(q, m)'
    BY <1>1, <1>4, SavedStep
  <2>2. PathIsTrue(q, m)
    BY DEF BootInv
  <2>3. IsTrue(book, m)' <=> IsTrue(book, m)
    BY <1>1 DEF IsTrue
  <2> QED BY <1>1, <2>1, <2>2, <2>3 DEF PathIsTrue, Sending
<1>5. \A q \in Paths, m \in Mints : PathIsTrue(q, m)'
  BY <1>4 DEF PathIsTrue
<1> QED BY <1>2, <1>3, <1>5 DEF BootInv

\* When a process ends, what its book alone knew is stale, and the files say
\* the truth of all the rest.
LEMMA LostStep ==
    ASSUME BootInv
    PROVE  /\ Lost \in [Paths -> SUBSET Mints]
           /\ \A q \in Paths, m \in Mints :
                 m \notin Lost[q] => FileIsTrue(q, m)
<1>1. Lost \in [Paths -> SUBSET Mints]
  BY DEF Lost, StaleHere, BootInv, BootTypeOK
<1>2. ASSUME NEW q \in Paths, NEW m \in Mints, m \notin Lost[q]
      PROVE  FileIsTrue(q, m)
  <2>1. m \notin stale[q] /\ ~(Sending /\ path = q /\ m \in unsaved)
    BY <1>2 DEF Lost, StaleHere, BootInv, BootTypeOK
  <2> QED BY <2>1 DEF BootInv, PathIsTrue
<1> QED BY <1>1, <1>2

\* Without a process it is enough to look at the files.
LEMMA GoneStep ==
    ASSUME BootInv, Gone,
           files' \in [Paths -> Snapshots], disk' \in [Paths -> Snapshots],
           stale' \in [Paths -> SUBSET Mints],
           \A p \in Paths : files'[p].state = "missing" => files'[p].book = Flat,
           \A p \in Paths : disk'[p].state = "missing" => disk'[p].book = Flat,
           \A p \in Paths, m \in Mints : m \notin stale'[p] => FileIsTrue(p, m)'
    PROVE  BootInv'
<1>1. /\ kind' = "down" /\ book' = Flat /\ unsaved' = {} /\ held' = held
      /\ path' = "live_state"
  BY DEF Gone
<1>2. BootTypeOK'
  BY <1>1 DEF BootInv, BootTypeOK, Kinds, Paths, Flat, Book, Origins
<1>3. FilesInv'
  BY <1>1 DEF FilesInv, Flat
<1>4. \A p \in Paths, m \in Mints : PathIsTrue(p, m)'
  BY <1>1 DEF PathIsTrue, Sending
<1> QED BY <1>2, <1>3, <1>4 DEF BootInv

LEMMA FinishStep == ASSUME BootInv, Finish PROVE BootInv'
<1>1. Gone /\ held' = held /\ disk' = disk /\ kind # "down"
  BY DEF Finish, Gone
<1>2. disk' \in [Paths -> Snapshots] /\ path \in Paths
  BY <1>1 DEF BootInv, BootTypeOK
<1>3. CASE Saved
  BY <1>1, <1>2, <1>3, SavedStep, GoneStep DEF BootInv, FilesInv
<1>4. CASE stale' = Lost /\ UNCHANGED files
  <2>1. /\ files' \in [Paths -> Snapshots] /\ stale' \in [Paths -> SUBSET Mints]
    BY <1>4, LostStep DEF BootInv, BootTypeOK
  <2>2. ASSUME NEW q \in Paths, NEW m \in Mints, m \notin stale'[q]
        PROVE  FileIsTrue(q, m)'
    BY <1>1, <1>4, <2>2, LostStep DEF FileIsTrue, IsTrue
  <2> QED BY <1>1, <1>2, <1>4, <2>1, <2>2, GoneStep DEF BootInv, FilesInv
<1> QED BY <1>3, <1>4 DEF Finish

LEMMA FlushStep ==
    ASSUME BootInv, NEW p \in Paths, Flush(p) PROVE BootInv'
<1>1. /\ disk' = [disk EXCEPT ![p] = files[p]]
      /\ UNCHANGED <<kind, path, book, files, held, unsaved, stale>>
  BY DEF Flush
<1>2. BootTypeOK' /\ FilesInv'
  BY <1>1 DEF BootInv, BootTypeOK, FilesInv, Differ
<1>3. \A q \in Paths, m \in Mints : PathIsTrue(q, m)' <=> PathIsTrue(q, m)
  BY <1>1 DEF PathIsTrue, FileIsTrue, IsTrue, Sending
<1> QED BY <1>2, <1>3 DEF BootInv

LEMMA PowerStep == ASSUME BootInv, PowerLoss PROVE BootInv'
<1>1. /\ Gone /\ held' = held /\ disk' = files'
      /\ files' \in [Paths -> UNION {AfterPowerLoss(p) : p \in Paths}]
      /\ \A p \in Paths : files'[p] \in AfterPowerLoss(p)
      /\ stale' = [p \in Paths |->
                      Lost[p] \cup Differ(files'[p].book, files[p].book)]
  BY DEF PowerLoss, Gone
<1>2. /\ files \in [Paths -> Snapshots] /\ disk \in [Paths -> Snapshots]
      /\ \A p \in Paths : files[p].state = "missing" => files[p].book = Flat
      /\ \A p \in Paths : disk[p].state = "missing" => disk[p].book = Flat
  BY DEF BootInv, BootTypeOK, FilesInv
<1>3. ASSUME NEW p \in Paths
      PROVE  /\ files'[p] \in Snapshots
             /\ files'[p].state = "missing" => files'[p].book = Flat
  BY <1>1, <1>2 DEF AfterPowerLoss, Snapshots
<1>4. files' \in [Paths -> Snapshots]
  BY <1>1, <1>3
<1>5. stale' \in [Paths -> SUBSET Mints]
  BY <1>1, LostStep DEF Differ
<1>6. ASSUME NEW q \in Paths, NEW m \in Mints, m \notin stale'[q]
      PROVE  FileIsTrue(q, m)'
  <2>1. m \notin Lost[q] /\ files'[q].book[m] = files[q].book[m]
    BY <1>1, <1>6 DEF Differ
  <2>2. FileIsTrue(q, m)
    BY <2>1, LostStep
  <2> QED BY <1>1, <2>1, <2>2 DEF FileIsTrue, IsTrue
<1> QED BY <1>1, <1>3, <1>4, <1>5, <1>6, GoneStep

LEMMA RemoveStep ==
    ASSUME BootInv, NEW p \in Paths, RemoveSnapshot(p)
    PROVE  BootInv'
<1>1. /\ kind = "down" /\ kind' = kind
      /\ files' = [files EXCEPT ![p] = [state |-> "missing", book |-> Flat]]
      /\ stale' = [stale EXCEPT ![p] = @ \cup Differ(files[p].book, Flat)]
      /\ UNCHANGED <<path, book, disk, held, unsaved>>
  BY DEF RemoveSnapshot
<1>2. BootTypeOK'
  BY <1>1
     DEF BootInv, BootTypeOK, Snapshots, Book, Flat, Origins, Differ
<1>3. FilesInv'
  BY <1>1 DEF BootInv, BootTypeOK, FilesInv
<1>4. ASSUME NEW q \in Paths, NEW m \in Mints, m \notin stale'[q]
      PROVE  FileIsTrue(q, m)'
  <2>1. m \notin stale[q] /\ files'[q].book[m] = files[q].book[m]
    BY <1>1, <1>4 DEF BootInv, BootTypeOK, Differ
  <2>2. FileIsTrue(q, m)
    BY <1>1, <2>1 DEF BootInv, PathIsTrue, Sending
  <2> QED BY <1>1, <2>1, <2>2 DEF FileIsTrue, IsTrue
<1> QED BY <1>1, <1>2, <1>3, <1>4 DEF BootInv, PathIsTrue, Sending

LEMMA EquityStep == ASSUME BootInv, ChangeEquity PROVE BootInv'
<1>1. /\ kind = "down" /\ kind' = kind
      /\ files' = [p \in Paths |-> OtherEquity(files[p])]
      /\ disk' = [p \in Paths |-> OtherEquity(disk[p])]
      /\ UNCHANGED <<path, book, held, unsaved, stale>>
  BY DEF ChangeEquity
<1>2. ASSUME NEW snap \in Snapshots
      PROVE  /\ OtherEquity(snap) \in Snapshots
             /\ OtherEquity(snap).book = snap.book
             /\ OtherEquity(snap).state = "missing" => snap.state = "missing"
  BY DEF Snapshots, OtherEquity
<1>3. BootTypeOK'
  BY <1>1, <1>2 DEF BootInv, BootTypeOK
<1>4. FilesInv'
  BY <1>1, <1>2 DEF BootInv, BootTypeOK, FilesInv
<1>5. ASSUME NEW q \in Paths, NEW m \in Mints PROVE PathIsTrue(q, m)'
  <2>1. PathIsTrue(q, m) /\ files'[q].book = files[q].book
    BY <1>1, <1>2 DEF BootInv, BootTypeOK
  <2> QED BY <1>1, <2>1 DEF PathIsTrue, FileIsTrue, IsTrue, Sending
<1> QED BY <1>3, <1>4, <1>5 DEF BootInv

LEMMA BootInvStep == BootInv /\ [BootNext]_bootVars => BootInv'
<1> SUFFICES ASSUME BootInv, [BootNext]_bootVars PROVE BootInv'
  OBVIOUS
<1>1. ASSUME NEW run \in Startable, Start(run[1], run[2]) PROVE BootInv'
  BY <1>1, StartableType, StartStep
<1>2. ASSUME NEW m \in Mints, BuyFills(m) \/ ExitFills(m) PROVE BootInv'
  BY <1>2, BuyStep, ExitStep
<1>3. ASSUME NEW p \in Paths, Flush(p) \/ RemoveSnapshot(p) PROVE BootInv'
  BY <1>3, FlushStep, RemoveStep
<1>4. CASE UNCHANGED bootVars
  BY <1>4 DEF bootVars, BootInv, BootTypeOK, FilesInv, PathIsTrue, FileIsTrue,
              IsTrue, Sending, Differ
<1> QED BY <1>1, <1>2, <1>3, <1>4, CheckpointStep, FinishStep, PowerStep,
           EquityStep
        DEF BootNext

\* Every variable of a boot keeps its type.
THEOREM BootTypeCorrect == BootSpec => []BootTypeOK
<1>1. BootInv => BootTypeOK
  BY DEF BootInv
<1> QED BY <1>1, BootInvInit, BootInvStep, PTL DEF BootSpec

\* Over any boots, a run that sends has in its book exactly what the wallet
\* really holds, of the tokens that are not stale on its path (main.rs:169-170).
THEOREM BookIsRealAlways == BootSpec => []BookIsReal
<1>1. BootInv => BookIsReal
  BY DEF BootInv, BootTypeOK, PathIsTrue, BookIsReal
<1> QED BY <1>1, BootInvInit, BootInvStep, PTL DEF BootSpec

-----------------------------------------------------------------------------
(* Side by side                                                            *)

ProcessInv == AlertsInv /\ AuditInv /\ GovInv /\ RpcInv /\ BootInv

LEMMA ProcessInvInit == ProcessInit => ProcessInv
BY AlertsInvInit, AuditInvInit, GovInvInit, RpcInvInit, BootInvInit
   DEF ProcessInit, ProcessInv

LEMMA ProcessInvStep ==
    ProcessInv /\ [ProcessNext]_ProcessVars => ProcessInv'
<1> SUFFICES ASSUME ProcessInv, [ProcessNext]_ProcessVars
             PROVE  ProcessInv'
  OBVIOUS
<1>1. /\ [AlertsNext]_alertVars
      /\ [AuditNext]_auditVars
      /\ [GovernorNext]_govVars
      /\ [RpcNext]_rpcVars
      /\ [BootNext]_bootVars
  BY DEF ProcessNext, ProcessVars, AlertsSteps, AuditSteps, GovernorSteps,
         RpcSteps, BootSteps
<1> QED BY <1>1, AlertsInvStep, AuditInvStep, GovInvStep, RpcInvStep,
           BootInvStep DEF ProcessInv

\* All parts around the engine, side by side, keep their types.
THEOREM ProcessTypeCorrect == ProcessSpec => []ProcessTypeOK
<1>1. ProcessInv => ProcessTypeOK
  BY DEF ProcessInv, AlertsInv, AuditInv, GovInv, RpcInv, BootInv, ProcessTypeOK
<1> QED BY <1>1, ProcessInvInit, ProcessInvStep, PTL DEF ProcessSpec
=============================================================================
