---------------------------- MODULE EngineApiProofs ----------------------------
(***************************************************************************)
(* Proofs about EngineApi for any callers, requests, arithmetic and         *)
(* generator of random numbers.                                             *)
(***************************************************************************)
EXTENDS EngineApi, SequenceTheorems, TLAPS

(* Rows and columns of a flattened matrix. *)
Place(k, rows, columns, p, j) ==
  /\ k \in 1 .. (rows * columns)
  /\ ((k - 1) \div columns) + 1 = p
  /\ ((k - 1) % columns) + 1 = j

LEMMA Flattened ==
  ASSUME NEW rows \in Nat, NEW columns \in Nat, NEW p \in 1 .. rows, NEW j \in 1 .. columns
  PROVE  Place((p - 1) * columns + j, rows, columns, p, j)
<1> DEFINE row == p - 1
           k == row * columns + j
<1>1. row \in Nat /\ row + 1 <= rows /\ columns > 0 /\ j - 1 \in 0 .. (columns - 1)
  OBVIOUS
<1>2. row * columns \in Nat /\ (row + 1) * columns = row * columns + columns
  BY <1>1
<1>3. (row + 1) * columns <= rows * columns /\ rows * columns \in Nat
  <2>1. \A a, b, c \in Nat : a <= b => a * c <= b * c
    OBVIOUS
  <2>2. QED
    BY <1>1, <2>1
<1>4. k \in 1 .. (rows * columns)
  BY <1>1, <1>2, <1>3
<1>5. \A a \in Nat, r \in Nat : r < columns => (a * columns + r) \div columns = a /\ (a * columns + r) % columns = r
  BY <1>1
<1>6. k - 1 = row * columns + (j - 1)
  BY <1>2
<1>7. ((k - 1) \div columns) + 1 = p /\ ((k - 1) % columns) + 1 = j
  BY <1>1, <1>5, <1>6
<1>8. QED
  BY <1>4, <1>7 DEF Place

LEMMA RowsOf ==
  ASSUME NEW rows \in Nat, NEW columns \in Nat \ {0}
  PROVE  (rows * columns) \div columns = rows /\ rows * columns \in Nat
OBVIOUS

LEMMA FunctionIsSeq ==
  ASSUME NEW n \in Nat, NEW f, f = [i \in 1 .. n |-> f[i]]
  PROVE  Len(f) = n /\ DOMAIN f = 1 .. n
<1> DEFINE S == {f[i] : i \in 1 .. n}
<1>1. f \in [1 .. n -> S]
  OBVIOUS
<1>2. f \in Seq(S)
  BY <1>1
<1>3. QED
  BY <1>1, <1>2, LenProperties

(* A tensor over paths. *)
IsTensor(x) == \E n \in Nat : x = [p \in 1 .. n |-> x[p]]

(* A swap of a batch as a swap of its own. *)
AtomOf(q, one, j) ==
  /\ Len(q.notionals) \in Nat /\ j \in 1 .. Len(q.notionals)
  /\ one.m = q.m
  /\ BuildSwap(one.m, one) = [notional |-> q.notionals[j], fixed_rate |-> q.fixed_rates[j], start |-> q.start,
                              payment_times |-> q.payment_times, accruals |-> q.accruals]

(* On one date the column of a trade in a batch has the mean and the        *)
(* quantile the trade has alone.                                            *)
LEMMA ColumnIsTrade ==
  ASSUME NEW q, NEW one, NEW t, NEW states, IsTensor(states), NEW j, AtomOf(q, one, j)
  PROVE  EePfePerTrade(FlatNpvs(q, t, states), Len(q.notionals))[j] = EePfe(ExposuresOn(one, t, states))
<1> PICK trades \in Nat : trades = Len(q.notionals) /\ j \in 1 .. trades
  BY DEF AtomOf
<1>0. PICK n \in Nat : states = [p \in 1 .. n |-> states[p]]
  BY DEF IsTensor
<1> DEFINE swap(i) == [notional |-> q.notionals[i], fixed_rate |-> q.fixed_rates[i], start |-> q.start,
                       payment_times |-> q.payment_times, accruals |-> q.accruals]
           flat == FlatNpvs(q, t, states)
           At(k) == Plain!Npv(RemainingFrom(swap(((k - 1) % trades) + 1), t),
                              states[((k - 1) \div trades) + 1], t, q.m)
           rows == Len(flat) \div trades
           column == [p \in 1 .. rows |-> PositivePart(flat[(p - 1) * trades + j])]
<1>1. Len(states) = n /\ DOMAIN states = 1 .. n
  BY <1>0, FunctionIsSeq
<1>2. flat = [k \in 1 .. (n * trades) |-> At(k)]
  BY <1>1, Zenon DEF FlatNpvs
<1>3. n * trades \in Nat
  BY RowsOf
<1>4. Len(flat) = n * trades
  <2>1. flat = [k \in 1 .. (n * trades) |-> flat[k]]
    BY <1>2, Zenon
  <2> HIDE DEF flat
  <2>2. QED
    BY <1>3, <2>1, FunctionIsSeq
<1>5. rows = n
  <2>1. trades \in Nat \ {0}
    OBVIOUS
  <2>2. QED
    BY <1>4, <2>1, RowsOf
<1> HIDE DEF rows
<1>6. ASSUME NEW p \in 1 .. n
      PROVE  flat[(p - 1) * trades + j] = Plain!Npv(RemainingFrom(swap(j), t), states[p], t, q.m)
  <2> DEFINE k == (p - 1) * trades + j
  <2>1. Place(k, n, trades, p, j)
    BY Flattened, Zenon
  <2> HIDE DEF k
  <2>2. /\ k \in 1 .. (n * trades)
        /\ ((k - 1) \div trades) + 1 = p /\ ((k - 1) % trades) + 1 = j
    BY <2>1, Zenon DEF Place
  <2>3. flat[k] = At(k)
    BY <1>2, <2>2, Zenon
  <2>4. At(k) = Plain!Npv(RemainingFrom(swap(j), t), states[p], t, q.m)
    BY <2>2, Zenon
  <2>5. flat[k] = Plain!Npv(RemainingFrom(swap(j), t), states[p], t, q.m)
    BY <2>3, <2>4, Zenon
  <2>6. QED
    BY <2>5, Zenon DEF k
<1>7. column = ExposuresOn(one, t, states)
  <2>1. ExposuresOn(one, t, states)
          = [p \in 1 .. n |-> PositivePart(Plain!Npv(RemainingFrom(swap(j), t), states[p], t, q.m))]
    BY <1>1, Zenon DEF ExposuresOn, AtomOf
  <2> HIDE DEF flat, swap
  <2>2. column = [p \in 1 .. n |-> PositivePart(Plain!Npv(RemainingFrom(swap(j), t), states[p], t, q.m))]
    BY <1>5, <1>6, Zenon
  <2>3. QED
    BY <2>1, <2>2, Zenon
<1>8. EePfePerTrade(flat, trades)[j] = EePfe(column)
  BY Zenon DEF EePfePerTrade, rows
<1>9. QED
  BY <1>7, <1>8, Zenon

(* The request one asks for the swap of the j-th trade of the batch q. *)
Alone(q, one, j) ==
  /\ AtomOf(q, one, j)
  /\ one.start = q.start /\ one.payment_times = q.payment_times
  /\ one.n_steps = q.n_steps /\ one.n_paths = q.n_paths
  /\ one.hazard_rate = q.hazard_rate /\ one.recovery_rate = q.recovery_rate

(* The profiles over given states of the dates. *)
ProfileOver(q, on) ==
  LET times == ResetDates(q)
  IN  ProfileOf(times,
                IF Horizon(q) <= 0
                THEN << EePfe(ExposuresOn(q, times[1], <<InitialState(q.m)>>)) >>
                ELSE [k \in DOMAIN times |-> EePfe(ExposuresOn(q, times[k], on[k]))])
BatchOver(q, on) ==
  LET times == ResetDates(q)
      trades == Len(q.notionals)
  IN  ProfilesOf(times, trades,
                 IF Horizon(q) <= 0
                 THEN << EePfePerTrade(FlatNpvs(q, times[1], <<InitialState(q.m)>>), trades) >>
                 ELSE [k \in DOMAIN times |-> EePfePerTrade(FlatNpvs(q, times[k], on[k]), trades)])

LEMMA AloneOnGrid ==
  ASSUME NEW q, NEW one, NEW j, Alone(q, one, j)
  PROVE  /\ ResetDates(one) = ResetDates(q)
         /\ Horizon(one) = Horizon(q)
         /\ StepLength(one) = StepLength(q)
         /\ \A t : GridIndex(one, t) = GridIndex(q, t)
<1>1. ResetDates(one) = ResetDates(q)
  BY Zenon DEF ResetDates, Alone
<1>2. Horizon(one) = Horizon(q)
  BY <1>1, Zenon DEF Horizon
<1>3. StepLength(one) = StepLength(q)
  BY <1>2, Zenon DEF StepLength, Alone
<1>4. \A t : GridIndex(one, t) = GridIndex(q, t)
  BY <1>2, Zenon DEF GridIndex, Alone
<1>5. QED
  BY <1>1, <1>2, <1>3, <1>4

(* The profile of a trade in a batch is the profile of the trade alone. *)
LEMMA ProfileInBatch ==
  ASSUME NEW q, NEW one, NEW j, Alone(q, one, j), NEW on, \A k \in DOMAIN ResetDates(q) : IsTensor(on[k])
  PROVE  /\ DOMAIN BatchOver(q, on) = 1 .. Len(q.notionals)
         /\ BatchOver(q, on)[j] = ProfileOver(one, on)
<1> DEFINE trades == Len(q.notionals)
           times == ResetDates(q)
           today == <<InitialState(q.m)>>
           Together1 == << EePfePerTrade(FlatNpvs(q, times[1], today), trades) >>
           Together2 == [k \in DOMAIN times |-> EePfePerTrade(FlatNpvs(q, times[k], on[k]), trades)]
           Alone1 == << EePfe(ExposuresOn(one, times[1], today)) >>
           Alone2 == [k \in DOMAIN times |-> EePfe(ExposuresOn(one, times[k], on[k]))]
           Chosen(x, y) == IF Horizon(q) <= 0 THEN x ELSE y
<1>1. BatchOver(q, on) = ProfilesOf(times, trades, Chosen(Together1, Together2))
  BY Zenon DEF BatchOver
<1>2. ProfileOver(one, on) = ProfileOf(times, Chosen(Alone1, Alone2))
  BY AloneOnGrid, Zenon DEF ProfileOver, Alone, AtomOf
<1>3. AtomOf(q, one, j)
  BY DEF Alone
<1>4. IsTensor(today)
  <2>1. today = [p \in 1 .. 1 |-> today[p]] /\ 1 \in Nat
    OBVIOUS
  <2>2. QED
    BY <2>1, Zenon DEF IsTensor
<1> HIDE DEF today
<1>4a. \A t, states : IsTensor(states) => EePfePerTrade(FlatNpvs(q, t, states), trades)[j] = EePfe(ExposuresOn(one, t, states))
  <2>1. TAKE t, states
  <2>2. HAVE IsTensor(states)
  <2>3. QED
    BY <1>3, <2>2, ColumnIsTrade
<1>5. EePfePerTrade(FlatNpvs(q, times[1], today), trades)[j] = EePfe(ExposuresOn(one, times[1], today))
  BY <1>4a, <1>4, Zenon
<1>6. \A k \in DOMAIN times :
        EePfePerTrade(FlatNpvs(q, times[k], on[k]), trades)[j] = EePfe(ExposuresOn(one, times[k], on[k]))
  BY <1>4a, Zenon
<1>7. [k \in DOMAIN Together1 |-> Together1[k][j]] = Alone1
  <2> DEFINE x == EePfePerTrade(FlatNpvs(q, times[1], today), trades)
             y == EePfe(ExposuresOn(one, times[1], today))
  <2>1. x[j] = y
    BY <1>5, Zenon
  <2> HIDE DEF x, y
  <2>2. [k \in DOMAIN <<x>> |-> <<x>>[k][j]] = <<y>>
    BY <2>1
  <2>3. QED
    BY <2>2, Zenon DEF x, y
<1>8. [k \in DOMAIN Together2 |-> Together2[k][j]] = Alone2
  BY <1>6, Zenon
<1> HIDE DEF Together1, Together2, Alone1, Alone2
<1>9. [k \in DOMAIN Chosen(Together1, Together2) |-> Chosen(Together1, Together2)[k][j]] = Chosen(Alone1, Alone2)
  <2>1. CASE Horizon(q) <= 0
    BY <1>7, <2>1, Zenon
  <2>2. CASE ~(Horizon(q) <= 0)
    BY <1>8, <2>2, Zenon
  <2>3. QED
    BY <2>1, <2>2, Zenon
<1> HIDE DEF Chosen
<1>10. j \in 1 .. trades
  BY <1>3, Zenon DEF AtomOf
<1>11. QED
  BY <1>1, <1>2, <1>9, <1>10, Zenon DEF ProfilesOf

(* The simulated states of every date. *)
StatesOf1F(q, draws) ==
  [k \in DOMAIN ResetDates(q) |->
     States1F(q.m, StepLength(q), draws, GridIndex(q, ResetDates(q)[k]), q.n_paths)]
StatesOf2F(q, draws) ==
  [k \in DOMAIN ResetDates(q) |->
     States2F(q.m, StepLength(q), draws, GridIndex(q, ResetDates(q)[k]), q.n_paths)]

LEMMA StatesAreTensors ==
  ASSUME NEW q, q.n_paths \in Nat, NEW draws, NEW k \in DOMAIN ResetDates(q)
  PROVE  IsTensor(StatesOf1F(q, draws)[k]) /\ IsTensor(StatesOf2F(q, draws)[k])
<1>1. ASSUME NEW dt, NEW index
      PROVE  IsTensor(States1F(q.m, dt, draws, index, q.n_paths))
  <2>1. PICK n \in Nat : n = IF index = 0 THEN 1 ELSE q.n_paths
    OBVIOUS
  <2>2. States1F(q.m, dt, draws, index, q.n_paths)
          = [p \in 1 .. n |-> Trajectory1F(q.m, dt, draws, p)[index + 1]]
    BY <2>1, Zenon DEF States1F
  <2>3. QED
    BY <2>1, <2>2, Zenon DEF IsTensor
<1>2. ASSUME NEW dt, NEW index
      PROVE  IsTensor(States2F(q.m, dt, draws, index, q.n_paths))
  BY Zenon DEF IsTensor, States2F
<1>3. QED
  BY <1>1, <1>2, Zenon DEF StatesOf1F, StatesOf2F

LEMMA ProfilesOverStates ==
  ASSUME NEW q, NEW one, NEW j, Alone(q, one, j), NEW draws
  PROVE  /\ ExposureProfile1F(one, draws) = ProfileOver(one, StatesOf1F(q, draws))
         /\ ExposureProfileBatch1F(q, draws) = BatchOver(q, StatesOf1F(q, draws))
         /\ ExposureProfile2F(one, draws) = ProfileOver(one, StatesOf2F(q, draws))
         /\ ExposureProfileBatch2F(q, draws) = BatchOver(q, StatesOf2F(q, draws))
<1> DEFINE times == ResetDates(q)
<1>1. times = ResetDates(one) /\ one.m = q.m /\ one.n_paths = q.n_paths
  BY AloneOnGrid, Zenon DEF Alone, AtomOf
<1>2. ASSUME NEW k \in DOMAIN times
      PROVE  /\ StatesOf1F(q, draws)[k] = States1F(one.m, StepLength(one), draws, GridIndex(one, times[k]), one.n_paths)
             /\ StatesOf2F(q, draws)[k] = States2F(one.m, StepLength(one), draws, GridIndex(one, times[k]), one.n_paths)
             /\ StatesOf1F(q, draws)[k] = States1F(q.m, StepLength(q), draws, GridIndex(q, times[k]), q.n_paths)
             /\ StatesOf2F(q, draws)[k] = States2F(q.m, StepLength(q), draws, GridIndex(q, times[k]), q.n_paths)
  <2>1. StepLength(one) = StepLength(q) /\ GridIndex(one, times[k]) = GridIndex(q, times[k])
    BY AloneOnGrid, Zenon
  <2>2. QED
    BY <1>1, <2>1, Zenon DEF StatesOf1F, StatesOf2F
<1>3. ExposureProfile1F(one, draws) = ProfileOver(one, StatesOf1F(q, draws))
  BY <1>1, <1>2, Zenon DEF ExposureProfile1F, Profile, ProfileOver
<1>4. ExposureProfile2F(one, draws) = ProfileOver(one, StatesOf2F(q, draws))
  BY <1>1, <1>2, Zenon DEF ExposureProfile2F, Profile, ProfileOver
<1>5. ExposureProfileBatch1F(q, draws) = BatchOver(q, StatesOf1F(q, draws))
  BY <1>2, Zenon DEF ExposureProfileBatch1F, BatchProfiles, BatchOver
<1>6. ExposureProfileBatch2F(q, draws) = BatchOver(q, StatesOf2F(q, draws))
  BY <1>2, Zenon DEF ExposureProfileBatch2F, BatchProfiles, BatchOver
<1>7. QED
  BY <1>3, <1>4, <1>5, <1>6

LEMMA ProfileOfTrade ==
  ASSUME NEW q, NEW one, NEW j, Alone(q, one, j), q.n_paths \in Nat, NEW draws
  PROVE  /\ ExposureProfileBatch1F(q, draws)[j] = ExposureProfile1F(one, draws)
         /\ ExposureProfileBatch2F(q, draws)[j] = ExposureProfile2F(one, draws)
         /\ DOMAIN ExposureProfileBatch1F(q, draws) = 1 .. Len(q.notionals)
         /\ DOMAIN ExposureProfileBatch2F(q, draws) = 1 .. Len(q.notionals)
<1>1. \A k \in DOMAIN ResetDates(q) : IsTensor(StatesOf1F(q, draws)[k]) /\ IsTensor(StatesOf2F(q, draws)[k])
  BY StatesAreTensors
<1>2. /\ DOMAIN BatchOver(q, StatesOf1F(q, draws)) = 1 .. Len(q.notionals)
      /\ BatchOver(q, StatesOf1F(q, draws))[j] = ProfileOver(one, StatesOf1F(q, draws))
  BY <1>1, ProfileInBatch
<1>3. /\ DOMAIN BatchOver(q, StatesOf2F(q, draws)) = 1 .. Len(q.notionals)
      /\ BatchOver(q, StatesOf2F(q, draws))[j] = ProfileOver(one, StatesOf2F(q, draws))
  BY <1>1, ProfileInBatch
<1>4. QED
  BY <1>2, <1>3, ProfilesOverStates

(* A batch answers for each of its trades what a request for the trade answers. *)
TradeOf(q, one, j) == Alone(q, one, j) /\ q.n_paths \in Nat /\ q.batch = TRUE /\ one.batch = FALSE

LEMMA AnswerOfTrade ==
  ASSUME NEW q, NEW one, NEW j, TradeOf(q, one, j), NEW draws
  PROVE  /\ ExposureAnswer(one, draws)
               = Ok([profiles |-> <<ExposureAnswer(q, draws).value.profiles[j]>>,
                     cva |-> <<ExposureAnswer(q, draws).value.cva[j]>>])
         /\ DOMAIN ExposureAnswer(q, draws).value.profiles = 1 .. Len(q.notionals)
         /\ DOMAIN ExposureAnswer(q, draws).value.cva = 1 .. Len(q.notionals)
<1>0. Alone(q, one, j) /\ q.n_paths \in Nat /\ q.batch = TRUE /\ one.batch = FALSE
  BY Zenon DEF TradeOf
<1>1. /\ one.m = q.m /\ one.hazard_rate = q.hazard_rate /\ one.recovery_rate = q.recovery_rate
      /\ j \in 1 .. Len(q.notionals)
  BY <1>0, Zenon DEF Alone, AtomOf
<1>2. /\ HullWhiteExposures(q, draws) = ExposureProfileBatch1F(q, draws)
      /\ HullWhiteExposures(one, draws) = <<ExposureProfile1F(one, draws)>>
      /\ HullWhite2FExposures(q, draws) = ExposureProfileBatch2F(q, draws)
      /\ HullWhite2FExposures(one, draws) = <<ExposureProfile2F(one, draws)>>
  BY <1>0, Zenon DEF HullWhiteExposures, HullWhite2FExposures
<1>3. CASE q.m.kind = "1F"
  <2> DEFINE profiles == ExposureProfileBatch1F(q, draws)
             Cva(x) == UnilateralCva1F(q.m, x, q.hazard_rate, q.recovery_rate)
  <2>1. profiles[j] = ExposureProfile1F(one, draws) /\ DOMAIN profiles = 1 .. Len(q.notionals)
    BY <1>0, ProfileOfTrade
  <2>2. ExposureAnswer(q, draws) = Ok([profiles |-> profiles, cva |-> [i \in DOMAIN profiles |-> Cva(profiles[i])]])
    BY <1>2, <1>3, Zenon DEF ExposureAnswer, WithCva1F, CvaFromExposure1F
  <2>3. ExposureAnswer(one, draws)
          = Ok([profiles |-> <<profiles[j]>>, cva |-> [i \in DOMAIN <<profiles[j]>> |-> Cva(<<profiles[j]>>[i])]])
    BY <1>1, <1>2, <1>3, <2>1, Zenon DEF ExposureAnswer, WithCva1F, CvaFromExposure1F
  <2> HIDE DEF profiles, Cva
  <2>4. [i \in DOMAIN <<profiles[j]>> |-> Cva(<<profiles[j]>>[i])] = <<Cva(profiles[j])>>
    OBVIOUS
  <2>5. QED
    BY <1>1, <2>1, <2>2, <2>3, <2>4 DEF Ok
<1>4. CASE q.m.kind # "1F"
  <2> DEFINE profiles == ExposureProfileBatch2F(q, draws)
             Cva(x) == UnilateralCva2F(q.m, x, q.hazard_rate, q.recovery_rate)
  <2>1. profiles[j] = ExposureProfile2F(one, draws) /\ DOMAIN profiles = 1 .. Len(q.notionals)
    BY <1>0, ProfileOfTrade
  <2>2. ExposureAnswer(q, draws) = Ok([profiles |-> profiles, cva |-> [i \in DOMAIN profiles |-> Cva(profiles[i])]])
    BY <1>2, <1>4, Zenon DEF ExposureAnswer, WithCva2F, CvaFromExposure2F
  <2>3. ExposureAnswer(one, draws)
          = Ok([profiles |-> <<profiles[j]>>, cva |-> [i \in DOMAIN <<profiles[j]>> |-> Cva(<<profiles[j]>>[i])]])
    BY <1>1, <1>2, <1>4, <2>1, Zenon DEF ExposureAnswer, WithCva2F, CvaFromExposure2F
  <2> HIDE DEF profiles, Cva
  <2>4. [i \in DOMAIN <<profiles[j]>> |-> Cva(<<profiles[j]>>[i])] = <<Cva(profiles[j])>>
    OBVIOUS
  <2>5. QED
    BY <1>1, <2>1, <2>2, <2>3, <2>4 DEF Ok
<1>5. QED
  BY <1>3, <1>4

OnePerTrade(q, answer) ==
  \E profiles, cva :
     /\ answer = Ok([profiles |-> profiles, cva |-> cva])
     /\ profiles = [j \in 1 .. Len(q.notionals) |-> profiles[j]]
     /\ cva = [j \in 1 .. Len(q.notionals) |-> cva[j]]

LEMMA AnswerOfBatch ==
  ASSUME NEW q, NEW draws, q.batch = TRUE
  PROVE  OnePerTrade(q, ExposureAnswer(q, draws))
<1>1. PICK profiles : profiles = IF q.m.kind = "1F" THEN ExposureProfileBatch1F(q, draws)
                                                    ELSE ExposureProfileBatch2F(q, draws)
  OBVIOUS
<1>2. profiles = [j \in 1 .. Len(q.notionals) |-> profiles[j]]
  <2>1. \A times, trades, at : ProfilesOf(times, trades, at) = [j \in 1 .. trades |-> ProfilesOf(times, trades, at)[j]]
    BY Zenon DEF ProfilesOf
  <2>2. CASE q.m.kind = "1F"
    <3>1. PICK times, at : profiles = ProfilesOf(times, Len(q.notionals), at)
      BY <1>1, <2>2, Zenon DEF ExposureProfileBatch1F, BatchProfiles
    <3>2. ProfilesOf(times, Len(q.notionals), at)
            = [j \in 1 .. Len(q.notionals) |-> ProfilesOf(times, Len(q.notionals), at)[j]]
      BY <2>1, Zenon
    <3>3. QED
      BY <3>1, <3>2
  <2>3. CASE q.m.kind # "1F"
    <3>1. PICK times, at : profiles = ProfilesOf(times, Len(q.notionals), at)
      BY <1>1, <2>3, Zenon DEF ExposureProfileBatch2F, BatchProfiles
    <3>2. ProfilesOf(times, Len(q.notionals), at)
            = [j \in 1 .. Len(q.notionals) |-> ProfilesOf(times, Len(q.notionals), at)[j]]
      BY <2>1, Zenon
    <3>3. QED
      BY <3>1, <3>2
  <2>4. QED
    BY <2>2, <2>3
<1>3. PICK cva : cva = IF q.m.kind = "1F" THEN CvaFromExposure1F(q, profiles) ELSE CvaFromExposure2F(q, profiles)
  OBVIOUS
<1>4. cva = [j \in 1 .. Len(q.notionals) |-> cva[j]]
  <2>1. CASE q.m.kind = "1F"
    BY <1>2, <1>3, <2>1, Zenon DEF CvaFromExposure1F
  <2>2. CASE q.m.kind # "1F"
    BY <1>2, <1>3, <2>2, Zenon DEF CvaFromExposure2F
  <2>3. QED
    BY <2>1, <2>2
<1>5. ExposureAnswer(q, draws) = Ok([profiles |-> profiles, cva |-> cva])
  <2>1. CASE q.m.kind = "1F"
    BY <1>1, <1>3, <2>1, Zenon DEF ExposureAnswer, WithCva1F, HullWhiteExposures
  <2>2. CASE q.m.kind # "1F"
    BY <1>1, <1>3, <2>2, Zenon DEF ExposureAnswer, WithCva2F, HullWhite2FExposures
  <2>3. QED
    BY <2>1, <2>2
<1>6. QED
  BY <1>2, <1>4, <1>5, Zenon DEF OnePerTrade

LEMMA TradeFields ==
  ASSUME NEW q, RequestTyped(q), q.op = "exposure", NEW j \in DOMAIN q.notionals
  PROVE  /\ Alone(q, [Trade(q, j) EXCEPT !.batch = FALSE], j)
         /\ [Trade(q, j) EXCEPT !.batch = FALSE].batch = FALSE
         /\ [Trade(q, j) EXCEPT !.batch = FALSE].op = "exposure"
<1> DEFINE one == [Trade(q, j) EXCEPT !.batch = FALSE]
<1>1. ExposureFields \subseteq DOMAIN q
  BY Zenon DEF RequestTyped, ExposureTyped
<1>2. Len(q.notionals) \in Nat /\ j \in 1 .. Len(q.notionals)
  BY LenProperties DEF RequestTyped, ExposureTyped
<1>3. DOMAIN Trade(q, j) = DOMAIN q
  BY DEF Trade
<1>4. /\ one.m = q.m /\ one.op = q.op /\ one.start = q.start /\ one.payment_times = q.payment_times
      /\ one.accruals = q.accruals /\ one.n_steps = q.n_steps /\ one.n_paths = q.n_paths
      /\ one.hazard_rate = q.hazard_rate /\ one.recovery_rate = q.recovery_rate
      /\ one.notional = q.notionals[j] /\ one.fixed_rate = q.fixed_rates[j] /\ one.use_par_rate = FALSE
      /\ one.batch = FALSE
  BY <1>1, <1>3 DEF Trade, ExposureFields
<1> HIDE DEF one
<1>5. BuildSwap(one.m, one) = [notional |-> q.notionals[j], fixed_rate |-> q.fixed_rates[j], start |-> q.start,
                              payment_times |-> q.payment_times, accruals |-> q.accruals]
  BY <1>4 DEF BuildSwap
<1>6. Alone(q, one, j) /\ one.batch = FALSE /\ one.op = "exposure"
  BY <1>2, <1>4, <1>5, Zenon DEF Alone, AtomOf
<1>7. QED
  BY <1>6, Zenon DEF one

LEMMA BatchOfOneFields ==
  ASSUME NEW q, RequestTyped(q), q.op = "exposure"
  PROVE  /\ Alone(AsBatchOfOne(q), q, 1)
         /\ AsBatchOfOne(q).batch = TRUE
         /\ AsBatchOfOne(q).op = "exposure"
         /\ AsBatchOfOne(q).n_paths \in Nat
         /\ Len(AsBatchOfOne(q).notionals) = 1
<1> DEFINE batch == AsBatchOfOne(q)
           coupon == BuildSwap(q.m, q).fixed_rate
<1>1. ExposureFields \subseteq DOMAIN q
  BY Zenon DEF RequestTyped, ExposureTyped
<1>2. q.n_paths \in Nat
  BY DEF RequestTyped, ExposureTyped
<1>3. batch = [q EXCEPT !.batch = TRUE, !.notionals = <<q.notional>>, !.fixed_rates = <<coupon>>]
  BY Zenon DEF AsBatchOfOne
<1>4. coupon = BuildSwap(q.m, q).fixed_rate
  OBVIOUS
<1> HIDE DEF batch, coupon
<1>5. /\ batch.m = q.m /\ batch.op = q.op /\ batch.start = q.start /\ batch.payment_times = q.payment_times
      /\ batch.accruals = q.accruals /\ batch.n_steps = q.n_steps /\ batch.n_paths = q.n_paths
      /\ batch.hazard_rate = q.hazard_rate /\ batch.recovery_rate = q.recovery_rate
      /\ batch.notionals = <<q.notional>> /\ batch.fixed_rates = <<coupon>>
      /\ batch.batch = TRUE
  BY <1>1, <1>3 DEF ExposureFields
<1>6. Len(batch.notionals) = 1 /\ batch.notionals[1] = q.notional /\ batch.fixed_rates[1] = coupon
  BY <1>5
<1>7. BuildSwap(q.m, q) = [notional |-> q.notional, fixed_rate |-> coupon, start |-> q.start,
                          payment_times |-> q.payment_times, accruals |-> q.accruals]
  BY <1>4 DEF BuildSwap
<1>8. 1 \in Nat /\ 1 \in 1 .. 1
  OBVIOUS
<1>9. AtomOf(batch, q, 1)
  BY <1>5, <1>6, <1>7, <1>8, Zenon DEF AtomOf
<1>10. Alone(batch, q, 1)
  BY <1>5, <1>9, Zenon DEF Alone
<1>11. QED
  BY <1>2, <1>5, <1>6, <1>10, Zenon DEF batch

(* What its seed determines is also what a simulation answers trade by      *)
(* trade, or as a batch of one: AloneIsReproducible compares with that.     *)
THEOREM BatchIsOneByOne ==
  ASSUME NEW q \in Simulations
  PROVE  Reference(q) = SimulationAnswer(q, Stream(q))
<1>1. RequestTyped(q) /\ q.op \in {"exposure", "paths", "hedge"}
  <2>1. PICK work \in Workloads, c \in Callers : q = work[c]
    BY DEF Simulations
  <2>2. q.op \in {"exposure", "paths", "hedge"}
    BY DEF Simulations
  <2>3. QED
    BY <2>1, <2>2, RequestsTyped, Zenon
<1> DEFINE draws == IF Stream(q) = <<>> THEN <<>> ELSE Stream(q)[1]
           answers == [j \in DOMAIN OneByOne(q) |-> SimulationAnswer(OneByOne(q)[j], Stream(q))]
<1>2. Reference(q) = Together(q, answers)
  BY Zenon DEF Reference
<1>3. ASSUME NEW one, one.op = "exposure"
      PROVE  SimulationAnswer(one, Stream(q)) = ExposureAnswer(one, draws)
  BY <1>3, Zenon DEF SimulationAnswer
<1> HIDE DEF draws
<1>4. CASE q.op # "exposure"
  <2>1. OneByOne(q) = <<q>>
    BY <1>4, Zenon DEF OneByOne
  <2>2. answers = [j \in DOMAIN <<q>> |-> SimulationAnswer(<<q>>[j], Stream(q))]
    BY <2>1, Zenon
  <2>3. Head(answers) = SimulationAnswer(q, Stream(q))
    <3> DEFINE f(x) == SimulationAnswer(x, Stream(q))
    <3>1. answers = [j \in DOMAIN <<q>> |-> f(<<q>>[j])]
      BY <2>2, Zenon
    <3> HIDE DEF f, answers
    <3>2. answers = <<f(q)>>
      BY <3>1
    <3>3. Head(answers) = f(q)
      BY <3>2
    <3>4. QED
      BY <3>3, Zenon DEF f
  <2>4. QED
    BY <1>2, <1>4, <2>3, Zenon DEF Together
<1>5. CASE q.op = "exposure" /\ q.batch = TRUE
  <2> DEFINE one(j) == [Trade(q, j) EXCEPT !.batch = FALSE]
             whole == ExposureAnswer(q, draws)
  <2>1. OneByOne(q) = [j \in DOMAIN q.notionals |-> one(j)]
    BY <1>5, Zenon DEF OneByOne
  <2>2. Len(q.notionals) \in Nat /\ DOMAIN q.notionals = 1 .. Len(q.notionals) /\ q.n_paths \in Nat
    BY <1>1, <1>5, LenProperties DEF RequestTyped, ExposureTyped
  <2>3. ASSUME NEW j \in DOMAIN q.notionals
        PROVE  /\ answers[j].value.profiles[1] = whole.value.profiles[j]
               /\ answers[j].value.cva[1] = whole.value.cva[j]
               /\ DOMAIN whole.value.profiles = DOMAIN q.notionals
               /\ DOMAIN whole.value.cva = DOMAIN q.notionals
    <3>1. Alone(q, one(j), j) /\ one(j).batch = FALSE /\ one(j).op = "exposure"
      BY <1>1, <1>5, TradeFields, Zenon
    <3>2. answers[j] = ExposureAnswer(one(j), draws)
      BY <1>3, <2>1, <3>1, Zenon
    <3> HIDE DEF one, answers
    <3>3. /\ ExposureAnswer(one(j), draws) = Ok([profiles |-> <<whole.value.profiles[j]>>, cva |-> <<whole.value.cva[j]>>])
          /\ DOMAIN whole.value.profiles = 1 .. Len(q.notionals)
          /\ DOMAIN whole.value.cva = 1 .. Len(q.notionals)
      <4>1. TradeOf(q, one(j), j)
        BY <1>5, <2>2, <3>1, Zenon DEF TradeOf
      <4>2. QED
        BY <4>1, AnswerOfTrade
    <3> HIDE DEF whole
    <3>4. answers[j].value.profiles[1] = whole.value.profiles[j] /\ answers[j].value.cva[1] = whole.value.cva[j]
      BY <3>2, <3>3 DEF Ok
    <3>5. QED
      BY <2>2, <3>3, <3>4, Zenon
  <2>4. PICK profiles, cva : /\ whole = Ok([profiles |-> profiles, cva |-> cva])
                            /\ profiles = [j \in DOMAIN q.notionals |-> profiles[j]]
                            /\ cva = [j \in DOMAIN q.notionals |-> cva[j]]
    <3>1. OnePerTrade(q, whole)
      BY <1>5, AnswerOfBatch
    <3>2. QED
      BY <2>2, <3>1, Zenon DEF OnePerTrade
  <2>5. DOMAIN answers = DOMAIN q.notionals
    BY <2>1, Zenon
  <2>6. Together(q, answers) = Ok([profiles |-> [j \in DOMAIN answers |-> answers[j].value.profiles[1]],
                                   cva |-> [j \in DOMAIN answers |-> answers[j].value.cva[1]]])
    BY <1>5, Zenon DEF Together
  <2> HIDE DEF answers, whole
  <2>7. whole.value.profiles = profiles /\ whole.value.cva = cva
    BY <2>4 DEF Ok
  <2>8. /\ [j \in DOMAIN answers |-> answers[j].value.profiles[1]] = profiles
        /\ [j \in DOMAIN answers |-> answers[j].value.cva[1]] = cva
    BY <2>3, <2>4, <2>5, <2>7, Zenon
  <2>9. SimulationAnswer(q, Stream(q)) = whole
    BY <1>3, <1>5, Zenon DEF whole
  <2>10. QED
    BY <1>2, <2>4, <2>6, <2>8, <2>9, Zenon
<1>6. CASE q.op = "exposure" /\ q.batch = FALSE
  <2> DEFINE batch == AsBatchOfOne(q)
             whole == ExposureAnswer(batch, draws)
  <2>1. /\ Alone(batch, q, 1) /\ batch.batch = TRUE /\ batch.op = "exposure"
        /\ batch.n_paths \in Nat /\ Len(batch.notionals) = 1
    BY <1>1, <1>6, BatchOfOneFields
  <2> HIDE DEF batch
  <2>2. ExposureAnswer(q, draws) = Ok([profiles |-> <<whole.value.profiles[1]>>, cva |-> <<whole.value.cva[1]>>])
    <3>1. TradeOf(batch, q, 1)
      BY <1>6, <2>1, Zenon DEF TradeOf
    <3>2. QED
      BY <3>1, AnswerOfTrade
  <2>3. OneByOne(q) = <<batch>>
    BY <1>6, Zenon DEF OneByOne, batch
  <2>4. DOMAIN <<batch>> = {1} /\ <<batch>>[1] = batch
    OBVIOUS
  <2>5. SimulationAnswer(batch, Stream(q)) = whole
    BY <1>3, <2>1, Zenon
  <2>6. answers = [j \in {1} |-> whole]
    BY <2>3, <2>4, <2>5, Zenon
  <2>7. Together(q, answers) = Ok([profiles |-> [j \in {1} |-> whole.value.profiles[1]],
                                   cva |-> [j \in {1} |-> whole.value.cva[1]]])
    BY <1>6, <2>6, Zenon DEF Together
  <2> HIDE DEF whole
  <2>8. \A x : [j \in {1} |-> x] = <<x>>
    OBVIOUS
  <2>9. SimulationAnswer(q, Stream(q)) = ExposureAnswer(q, draws)
    BY <1>3, <1>6, Zenon
  <2>10. QED
    BY <1>2, <2>2, <2>7, <2>8, <2>9, Zenon
<1>7. QED
  BY <1>1, <1>4, <1>5, <1>6 DEF RequestTyped, ExposureTyped

-----------------------------------------------------------------------------
(* The state machine. *)

LEMMA RoundsFacts ==
  ASSUME NEW q \in Simulations
  PROVE  Rounds(q) \in Nat /\ (q.op = "hedge" => Rounds(q) >= 1)
<1>1. q.op \in {"exposure", "paths", "hedge"}
  BY DEF Simulations
<1>2. QED
  BY <1>1 DEF Rounds

(* Complete rounds that follow the seed are the stream of the seed. *)
LEMMA CompleteRounds ==
  ASSUME NEW q, Rounds(q) \in Nat, NEW rounds \in Seq(Seq(Nat)), Len(rounds) = Rounds(q),
         \A r \in DOMAIN rounds : rounds[r] = FirstDraws(q, RoundDraws(q))
  PROVE  rounds = Stream(q)
<1>1. DOMAIN rounds = 1 .. Rounds(q) /\ rounds = [r \in 1 .. Rounds(q) |-> rounds[r]]
  BY LenProperties
<1>2. QED
  BY <1>1, Zenon DEF Stream

(* All rounds but the last are complete, and the last one is when it is     *)
(* finished.                                                                *)
LEMMA FinishedRounds ==
  ASSUME TypeInv, NEW c \in Callers, FollowsSeed(c), RoundFinished(c)
  PROVE  /\ calls[c].rounds # <<>>
         /\ \A r \in DOMAIN calls[c].rounds :
                /\ calls[c].rounds[r] = FirstDraws(calls[c].request, RoundDraws(calls[c].request))
                /\ Len(calls[c].rounds[r]) = RoundDraws(calls[c].request)
<1> DEFINE rounds == calls[c].rounds
           q == calls[c].request
<1>1. /\ rounds \in Seq(Seq(Nat)) /\ rounds # <<>>
      /\ Len(Last(rounds)) = RoundDraws(q)
      /\ \A r \in DOMAIN rounds : rounds[r] = FirstDraws(q, Len(rounds[r]))
      /\ \A r \in 1 .. Len(rounds) - 1 : Len(rounds[r]) = RoundDraws(q)
  BY Zenon DEF TypeInv, FollowsSeed, RoundFinished
<1> HIDE DEF rounds, q
<1>2. Last(rounds) = rounds[Len(rounds)] /\ DOMAIN rounds = 1 .. Len(rounds) /\ Len(rounds) \in Nat
  BY <1>1, LenProperties DEF Last
<1>3. \A r \in DOMAIN rounds : Len(rounds[r]) = RoundDraws(q)
  <2>1. \A r \in DOMAIN rounds : r = Len(rounds) \/ r \in 1 .. Len(rounds) - 1
    BY <1>2
  <2>2. QED
    BY <1>1, <1>2, <2>1, Zenon
<1>4. QED
  BY <1>1, <1>3, Zenon DEF rounds, q

(* What an undisturbed simulation answers. *)
LEMMA AnswerFollows ==
  ASSUME IInv, NEW c \in Callers, Simulated(c), undisturbed[c], calls[c].request \in Simulations
  PROVE  SimulationAnswer(calls[c].request, calls[c].rounds) = References[calls[c].request]
<1> DEFINE q == calls[c].request
           rounds == calls[c].rounds
<1>1. q \in Simulations /\ rounds \in Seq(Seq(Nat)) /\ FollowsSeed(c) /\ PhasesFit(c)
  BY Zenon DEF IInv, TypeInv, AloneIsReproducible
<1>2. Rounds(q) \in Nat /\ (q.op = "hedge" => Rounds(q) >= 1)
  BY <1>1, RoundsFacts, Zenon
<1>3. References[q] = SimulationAnswer(q, Stream(q))
  BY <1>1, BatchIsOneByOne, Zenon DEF References
<1>4. \/ calls[c].pc = "called" /\ Rounds(q) = 0
      \/ RoundFinished(c) /\ Len(rounds) = Rounds(q)
      \/ RoundFinished(c) /\ HedgeGivenUp(c)
  BY Zenon DEF Simulated
<1>5. CASE calls[c].pc = "called" /\ Rounds(q) = 0
  <2>1. rounds = <<>>
    BY <1>1, <1>5, Zenon DEF PhasesFit
  <2>2. Stream(q) = [r \in 1 .. 0 |-> FirstDraws(q, RoundDraws(q))]
    BY <1>5, Zenon DEF Stream
  <2>3. \A x : [r \in 1 .. 0 |-> x] = <<>>
    OBVIOUS
  <2>4. QED
    BY <1>3, <2>1, <2>2, <2>3, Zenon
<1>6. CASE RoundFinished(c) /\ Len(rounds) = Rounds(q)
  <2>1. \A r \in DOMAIN rounds : rounds[r] = FirstDraws(q, RoundDraws(q))
    BY <1>1, <1>6, FinishedRounds, Zenon DEF IInv
  <2> HIDE DEF q, rounds
  <2>2. rounds = Stream(q)
    BY <1>1, <1>2, <1>6, <2>1, CompleteRounds
  <2>3. QED
    BY <1>3, <2>2, Zenon DEF q, rounds
<1>7. CASE RoundFinished(c) /\ HedgeGivenUp(c)
  <2>1. q.op = "hedge" /\ HedgeFails(q, HedgeScenario(q, rounds[1]))
    BY <1>7, Zenon DEF HedgeGivenUp
  <2>2. rounds # <<>> /\ \A r \in DOMAIN rounds : rounds[r] = FirstDraws(q, RoundDraws(q))
    BY <1>1, <1>7, FinishedRounds, Zenon DEF IInv
  <2> HIDE DEF q, rounds
  <2>3. 1 \in DOMAIN rounds
    BY <1>1, <2>2
  <2>4. rounds[1] = Stream(q)[1]
    <3>1. 1 \in 1 .. Rounds(q)
      BY <1>2, <2>1
    <3>2. QED
      BY <2>2, <2>3, <3>1, Zenon DEF Stream
  <2>5. SimulationAnswer(q, rounds) = HedgeAnswer(q, rounds) /\ SimulationAnswer(q, Stream(q)) = HedgeAnswer(q, Stream(q))
    BY <2>1 DEF SimulationAnswer
  <2>6. HedgeAnswer(q, rounds) = Refusal /\ HedgeAnswer(q, Stream(q)) = Refusal
    BY <2>1, <2>4, Zenon DEF HedgeAnswer
  <2>7. QED
    BY <1>3, <2>5, <2>6, Zenon DEF q, rounds
<1>8. QED
  BY <1>4, <1>5, <1>6, <1>7, Zenon

(* What a step of c may do to the others.                                   *)
LeavesOthers(c) ==
  \A d \in Callers \ {c} :
     /\ calls'[d] = calls[d]
     /\ undisturbed'[d] => undisturbed[d]
     /\ undisturbed'[d] /\ MidRound(d) => generator'[BackendOf(d)] = generator[BackendOf(d)]

Good(c) == PhasesFit(c) /\ (undisturbed[c] => FollowsSeed(c) /\ (IsSimulation(c) => Matches(c)))

LEMMA GoodIsInv == IInv <=> TypeInv /\ \A c \in Callers : Good(c)
BY Zenon DEF IInv, AloneIsReproducible, Good

LEMMA OthersStayGood ==
  ASSUME IInv, NEW c \in Callers, LeavesOthers(c), NEW d \in Callers \ {c}
  PROVE  Good(d)'
<1>1. /\ calls'[d] = calls[d] /\ (undisturbed'[d] => undisturbed[d])
      /\ (undisturbed'[d] /\ MidRound(d) => generator'[BackendOf(d)] = generator[BackendOf(d)])
  BY Zenon DEF LeavesOthers
<1>2. Good(d)
  BY GoodIsInv, Zenon
<1>3. PhasesFit(d)'
  BY <1>1, <1>2, Zenon DEF PhasesFit, Good
<1>4. MidRound(d)' <=> MidRound(d)
  BY <1>1, Zenon DEF MidRound, RoundFinished
<1>5. BackendOf(d)' = BackendOf(d)
  BY <1>1, Zenon DEF BackendOf
<1>6. ASSUME undisturbed'[d]
      PROVE  FollowsSeed(d)' /\ (IsSimulation(d)' => Matches(d)')
  <2>1. FollowsSeed(d) /\ (IsSimulation(d) => Matches(d))
    BY <1>1, <1>2, <1>6, Zenon DEF Good
  <2>2. FollowsSeed(d)'
    BY <1>1, <1>4, <1>5, <1>6, <2>1, Zenon DEF FollowsSeed
  <2>3. IsSimulation(d)' => Matches(d)'
    BY <1>1, <2>1, Zenon DEF IsSimulation, Matches
  <2>4. QED
    BY <2>2, <2>3
<1>7. QED
  BY <1>3, <1>6, Zenon DEF Good

(* A step that replaces the call of c. *)
Replaces(c, pc, rounds, fit, answer) ==
  calls' = [calls EXCEPT ![c] = Call(calls[c].request, pc, rounds, fit, answer)]

LEMMA CallFields ==
  ASSUME NEW request, NEW pc, NEW rounds, NEW fit, NEW answer
  PROVE  LET x == Call(request, pc, rounds, fit, answer)
         IN  /\ x.request = request /\ x.pc = pc /\ x.rounds = rounds /\ x.fit = fit /\ x.answer = answer
             /\ x = Call(x.request, x.pc, x.rounds, x.fit, x.answer)
BY DEF Call

LEMMA ReplacedCall ==
  ASSUME TypeInv, NEW c \in Callers, NEW pc, NEW rounds, NEW fit, NEW answer,
         Replaces(c, pc, rounds, fit, answer)
  PROVE  /\ calls'[c].request = calls[c].request /\ calls'[c].pc = pc /\ calls'[c].rounds = rounds
         /\ calls'[c].answer = answer
         /\ \A d \in Callers \ {c} : calls'[d] = calls[d]
         /\ rounds \in Seq(Seq(Nat)) /\ generator' \in [Backends -> [seed : Nat, drawn : Nat]]
              /\ undisturbed' \in [Callers -> BOOLEAN] => TypeInv'
<1> DEFINE x == Call(calls[c].request, pc, rounds, fit, answer)
<1>1. /\ x.request = calls[c].request /\ x.pc = pc /\ x.rounds = rounds /\ x.fit = fit /\ x.answer = answer
      /\ x = Call(x.request, x.pc, x.rounds, x.fit, x.answer)
  BY CallFields
<1>2. calls' = [calls EXCEPT ![c] = x] /\ DOMAIN calls = Callers
  BY Zenon DEF Replaces, TypeInv
<1> HIDE DEF x
<1>3. calls'[c] = x /\ DOMAIN calls' = Callers /\ \A d \in Callers \ {c} : calls'[d] = calls[d]
  BY <1>2
<1>4. PICK work \in Workloads : \A d \in Callers : calls[d].request = work[d]
  BY Zenon DEF TypeInv
<1>5. \A d \in Callers : calls'[d].request = work[d]
  BY <1>1, <1>3, <1>4
<1>6. ASSUME rounds \in Seq(Seq(Nat)), generator' \in [Backends -> [seed : Nat, drawn : Nat]],
             undisturbed' \in [Callers -> BOOLEAN]
      PROVE  TypeInv'
  <2>1. ASSUME NEW d \in Callers
        PROVE  /\ calls'[d] = Call(calls'[d].request, calls'[d].pc, calls'[d].rounds, calls'[d].fit, calls'[d].answer)
               /\ calls'[d].rounds \in Seq(Seq(Nat))
    <3>1. CASE d = c
      BY <1>1, <1>3, <1>6, <3>1, Zenon
    <3>2. CASE d # c
      BY <1>3, <3>2, Zenon DEF TypeInv
    <3>3. QED
      BY <3>1, <3>2
  <2>2. QED
    BY <1>3, <1>5, <1>6, <2>1, Zenon DEF TypeInv
<1>7. QED
  BY <1>1, <1>3, <1>6, Zenon

(* A step without the generator: c leaves its simulation, or had none. *)
LEMMA QuietStep ==
  ASSUME IInv, NEW c \in Callers, NEW pc, NEW fit, NEW answer,
         Replaces(c, pc, calls[c].rounds, fit, answer), UNCHANGED <<generator, undisturbed>>,
         pc \in {"ended", "aborted", "fitting"},
         pc = "fitting" => calls[c].request.op = "calibration",
         pc = "ended" /\ undisturbed[c] /\ calls[c].request \in Simulations
             => answer = References[calls[c].request]
  PROVE  IInv'
<1>1. TypeInv /\ Good(c)
  BY GoodIsInv, Zenon
<1>2. /\ calls'[c].request = calls[c].request /\ calls'[c].pc = pc /\ calls'[c].rounds = calls[c].rounds
      /\ calls'[c].answer = answer
      /\ \A d \in Callers \ {c} : calls'[d] = calls[d]
  BY <1>1, ReplacedCall
<1>3. TypeInv'
  <2>1. /\ calls[c].rounds \in Seq(Seq(Nat)) /\ generator' \in [Backends -> [seed : Nat, drawn : Nat]]
        /\ undisturbed' \in [Callers -> BOOLEAN]
    BY <1>1, Zenon DEF TypeInv
  <2>2. QED
    BY <1>1, <2>1, ReplacedCall, Zenon
<1>4. LeavesOthers(c)
  BY <1>2, Zenon DEF LeavesOthers
<1>5. Good(c)'
  <2>1. PhasesFit(c)'
    BY <1>2 DEF PhasesFit
  <2>2. ~MidRound(c)'
    BY <1>2 DEF MidRound
  <2>3. ASSUME undisturbed[c]
        PROVE  FollowsSeed(c)' /\ (IsSimulation(c)' => Matches(c)')
    <3>1. FollowsSeed(c)
      BY <1>1, <2>3, Zenon DEF Good
    <3>2. FollowsSeed(c)'
      BY <1>2, <2>2, <3>1, Zenon DEF FollowsSeed
    <3>3. IsSimulation(c)' => Matches(c)'
      BY <1>2, <2>3 DEF IsSimulation, Matches
    <3>4. QED
      BY <3>2, <3>3
  <2>4. QED
    BY <2>1, <2>3, Zenon DEF Good
<1>6. \A d \in Callers : Good(d)'
  BY <1>4, <1>5, OthersStayGood, Zenon
<1>7. QED
  BY <1>3, <1>6, Zenon DEF IInv, AloneIsReproducible, Good

LEMMA BackendFacts ==
  ASSUME NEW c \in Callers
  PROVE  BackendOf(c) \in Backends
BY DEF BackendOf, ResolvedBackend, Backends

LEMMA TouchesOthers ==
  ASSUME IInv, NEW c \in Callers, Touches(c), NEW g, generator' = [generator EXCEPT ![BackendOf(c)] = g],
         \A d \in Callers \ {c} : calls'[d] = calls[d]
  PROVE  /\ LeavesOthers(c)
         /\ undisturbed' \in [Callers -> BOOLEAN]
         /\ undisturbed'[c] = undisturbed[c]
         /\ generator'[BackendOf(c)] = g
         /\ g \in [seed : Nat, drawn : Nat] => generator' \in [Backends -> [seed : Nat, drawn : Nat]]
<1>1. /\ undisturbed \in [Callers -> BOOLEAN] /\ generator \in [Backends -> [seed : Nat, drawn : Nat]]
  BY Zenon DEF IInv, TypeInv
<1>2. undisturbed' = [d \in Callers |->
                        undisturbed[d] /\ (d = c \/ BackendOf(d) # BackendOf(c) \/ ~MidRound(d))]
  BY Zenon DEF Touches
<1>3. undisturbed' \in [Callers -> BOOLEAN]
  BY <1>1, <1>2, Zenon
<1>4. undisturbed'[c] = undisturbed[c]
  BY <1>1, <1>2, Zenon
<1>5. \A d \in Callers \ {c} :
        /\ undisturbed'[d] => undisturbed[d]
        /\ undisturbed'[d] /\ MidRound(d) => BackendOf(d) # BackendOf(c)
  BY <1>2, Zenon
<1>6. \A b \in Backends \ {BackendOf(c)} : generator'[b] = generator[b]
  BY <1>1
<1>7. generator'[BackendOf(c)] = g
  BY <1>1, BackendFacts
<1>8. LeavesOthers(c)
  BY <1>5, <1>6, BackendFacts, Zenon DEF LeavesOthers
<1>9. ASSUME g \in [seed : Nat, drawn : Nat]
      PROVE  generator' \in [Backends -> [seed : Nat, drawn : Nat]]
  BY <1>1, <1>9
<1>10. QED
  BY <1>3, <1>4, <1>7, <1>8, <1>9

LEMMA SeedStep ==
  ASSUME IInv, NEW c \in Callers, Seed(c)
  PROVE  IInv'
<1> DEFINE q == calls[c].request
           rounds == calls[c].rounds
           longer == Append(rounds, <<>>)
           g == [seed |-> q.seed, drawn |-> 0]
<1>1. TypeInv /\ Good(c) /\ rounds \in Seq(Seq(Nat))
  BY GoodIsInv, Zenon DEF TypeInv
<1>2. /\ Replaces(c, "sampling", longer, calls[c].fit, calls[c].answer)
      /\ Touches(c)
      /\ generator' = [generator EXCEPT ![BackendOf(c)] = g]
      /\ Len(rounds) < Rounds(q)
      /\ calls[c].pc = "called" \/ RoundFinished(c)
  BY Zenon DEF Seed, Replaces
<1>3. Len(rounds) \in Nat /\ DOMAIN rounds = 1 .. Len(rounds)
  BY <1>1, LenProperties
<1>4. Rounds(q) > 0 /\ q.seed \in Nat
  <2>1. q.op \in {"paths", "exposure", "hedge"} /\ Rounds(q) > 0
    BY <1>2, <1>3 DEF Rounds
  <2>2. PICK work \in Workloads : q = work[c]
    BY <1>1, Zenon DEF TypeInv
  <2>3. RequestTyped(q)
    BY <2>2, RequestsTyped, Zenon
  <2>4. QED
    BY <2>1, <2>3 DEF RequestTyped
<1>5. /\ calls'[c].request = q /\ calls'[c].pc = "sampling" /\ calls'[c].rounds = longer
      /\ calls'[c].answer = calls[c].answer
      /\ \A d \in Callers \ {c} : calls'[d] = calls[d]
  BY <1>1, <1>2, ReplacedCall
<1> HIDE DEF q, rounds, longer, g
<1>6. /\ LeavesOthers(c) /\ undisturbed' \in [Callers -> BOOLEAN] /\ undisturbed'[c] = undisturbed[c]
      /\ generator'[BackendOf(c)] = g
      /\ g \in [seed : Nat, drawn : Nat] => generator' \in [Backends -> [seed : Nat, drawn : Nat]]
  BY <1>2, <1>5, TouchesOthers
<1>7. g \in [seed : Nat, drawn : Nat]
  BY <1>4 DEF g
<1>8. /\ longer \in Seq(Seq(Nat)) /\ Len(longer) = Len(rounds) + 1 /\ DOMAIN longer = 1 .. Len(rounds) + 1
      /\ longer[Len(rounds) + 1] = <<>> /\ \A r \in DOMAIN rounds : longer[r] = rounds[r]
      /\ Last(longer) = <<>> /\ longer # <<>>
  BY <1>1, <1>3 DEF longer, Last
<1>9. TypeInv'
  BY <1>1, <1>2, <1>6, <1>7, <1>8, ReplacedCall DEF q
<1>10. PhasesFit(c)'
  BY <1>4, <1>5, <1>8 DEF PhasesFit
<1>11. ASSUME undisturbed[c]
       PROVE  FollowsSeed(c)' /\ ~IsSimulation(c)'
  <2>1. FollowsSeed(c) /\ PhasesFit(c)
    BY <1>1, <1>11, Zenon DEF Good
  <2>2. \A r \in DOMAIN rounds : rounds[r] = FirstDraws(q, Len(rounds[r])) /\ Len(rounds[r]) = RoundDraws(q)
    <3>1. CASE calls[c].pc = "called"
      <4>1. rounds = <<>>
        BY <2>1, <3>1, Zenon DEF PhasesFit, rounds
      <4>2. QED
        BY <4>1
    <3>2. CASE RoundFinished(c)
      BY <1>1, <2>1, <3>2, FinishedRounds, Zenon DEF q, rounds
    <3>3. QED
      BY <1>2, <3>1, <3>2
  <2>3. FirstDraws(q, Len(<<>>)) = <<>>
    <3>1. \A f : f = [k \in 1 .. 0 |-> f[k]] => f = <<>>
      OBVIOUS
    <3>2. FirstDraws(q, 0) = [k \in 1 .. 0 |-> FirstDraws(q, 0)[k]]
      BY Zenon DEF FirstDraws
    <3>3. Len(<<>>) = 0
      OBVIOUS
    <3>4. QED
      BY <3>1, <3>2, <3>3, Zenon
  <2>4. \A r \in DOMAIN longer : longer[r] = FirstDraws(q, Len(longer[r]))
    <3>1. \A r \in DOMAIN longer : r \in DOMAIN rounds \/ r = Len(rounds) + 1
      BY <1>3, <1>8
    <3>2. QED
      BY <1>8, <2>2, <2>3, <3>1, Zenon
  <2>5. \A r \in 1 .. Len(longer) - 1 : Len(longer[r]) = RoundDraws(q)
    <3>1. \A r \in 1 .. Len(longer) - 1 : r \in DOMAIN rounds
      BY <1>3, <1>8
    <3>2. QED
      BY <1>8, <2>2, <3>1, Zenon
  <2>6. generator'[BackendOf(c)'] = [seed |-> q.seed, drawn |-> Len(Last(longer))]
    <3>1. BackendOf(c)' = BackendOf(c)
      BY <1>5, Zenon DEF BackendOf, q
    <3>2. Len(Last(longer)) = 0
      BY <1>8
    <3>3. QED
      BY <1>6, <3>1, <3>2, Zenon DEF g
  <2>7. QED
    BY <1>5, <2>4, <2>5, <2>6 DEF FollowsSeed, IsSimulation
<1>12. Good(c)'
  BY <1>6, <1>10, <1>11, Zenon DEF Good
<1>13. \A d \in Callers : Good(d)'
  BY <1>6, <1>12, OthersStayGood, Zenon
<1>14. QED
  BY <1>9, <1>13, Zenon DEF IInv, AloneIsReproducible, Good

(* The last round with one element more. *)
LEMMA LongerRound ==
  ASSUME NEW rounds \in Seq(Seq(Nat)), rounds # <<>>, NEW x \in Nat
  PROVE  LET drawn == Front(rounds) \o <<Append(Last(rounds), x)>>
         IN  /\ drawn \in Seq(Seq(Nat)) /\ DOMAIN drawn = DOMAIN rounds /\ Len(drawn) = Len(rounds)
             /\ \A r \in 1 .. Len(rounds) - 1 : drawn[r] = rounds[r]
             /\ drawn[Len(rounds)] = Append(Last(rounds), x)
             /\ Last(drawn) = Append(Last(rounds), x)
             /\ drawn # <<>>
<1> DEFINE n == Len(rounds)
           front == Front(rounds)
           last == Append(Last(rounds), x)
           drawn == front \o <<last>>
<1>1. n \in Nat /\ n >= 1 /\ DOMAIN rounds = 1 .. n /\ \A r \in 1 .. n : rounds[r] \in Seq(Nat)
  BY LenProperties
<1>2. Last(rounds) \in Seq(Nat)
  BY <1>1 DEF Last
<1>3. last \in Seq(Nat)
  BY <1>2
<1>4. front \in Seq(Seq(Nat)) /\ Len(front) = n - 1 /\ \A r \in 1 .. n - 1 : front[r] = rounds[r]
  <2>1. front = SubSeq(rounds, 1, n - 1)
    BY Zenon DEF Front
  <2> HIDE DEF front
  <2>2. QED
    BY <1>1, <2>1
<1> HIDE DEF front, last
<1>5. drawn = Append(front, last)
  BY <1>3, <1>4, AppendIsConcat
<1> HIDE DEF drawn
<1>6. /\ drawn \in Seq(Seq(Nat)) /\ Len(drawn) = n /\ DOMAIN drawn = 1 .. n
      /\ drawn[n] = last /\ \A r \in 1 .. n - 1 : drawn[r] = rounds[r]
  <2>1. /\ drawn \in Seq(Seq(Nat)) /\ Len(drawn) = Len(front) + 1
        /\ \A r \in 1 .. Len(front) : drawn[r] = front[r]
        /\ drawn[Len(front) + 1] = last
    BY <1>3, <1>4, <1>5, AppendProperties
  <2>2. Len(front) = n - 1 /\ (n - 1) + 1 = n
    BY <1>1, <1>4
  <2>3. Len(drawn) = n /\ drawn[n] = last /\ \A r \in 1 .. n - 1 : drawn[r] = rounds[r]
    BY <1>4, <2>1, <2>2, Zenon
  <2>4. DOMAIN drawn = 1 .. n
    BY <2>1, <2>3, LenProperties, Zenon
  <2>5. QED
    BY <2>1, <2>3, <2>4
<1>7. Last(drawn) = last
  BY <1>6, Zenon DEF Last
<1>8. drawn # <<>>
  BY <1>1, <1>6
<1>9. QED
  BY <1>1, <1>6, <1>7, <1>8, Zenon DEF front, last, drawn

LEMMA NextDraw ==
  ASSUME NEW q, NEW n \in Nat, FirstDraws(q, n) \in Seq(Nat)
  PROVE  /\ Append(FirstDraws(q, n), Tensor(q.seed, n + 1)) = FirstDraws(q, n + 1)
         /\ Len(Append(FirstDraws(q, n), Tensor(q.seed, n + 1))) = n + 1
<1> DEFINE f == FirstDraws(q, n)
           x(k) == Tensor(q.seed, k)
           longer == Append(f, x(n + 1))
<1>1. f = [k \in 1 .. n |-> x(k)] /\ FirstDraws(q, n + 1) = [k \in 1 .. n + 1 |-> x(k)]
  BY Zenon DEF FirstDraws
<1> HIDE DEF f, x
<1>2. Len(f) = n /\ DOMAIN f = 1 .. n
  BY <1>1, FunctionIsSeq
<1>3. longer = [k \in 1 .. n + 1 |-> IF k = n + 1 THEN x(n + 1) ELSE f[k]]
  BY <1>2
<1>4. \A k \in 1 .. n + 1 : k # n + 1 => k \in 1 .. n
  OBVIOUS
<1>5. longer = [k \in 1 .. n + 1 |-> x(k)]
  BY <1>1, <1>3, <1>4, Zenon
<1>6. Len(longer) = n + 1
  <2>1. longer = [k \in 1 .. n + 1 |-> longer[k]] /\ n + 1 \in Nat
    BY <1>5
  <2> HIDE DEF longer
  <2>2. QED
    BY <2>1, FunctionIsSeq
<1>7. QED
  BY <1>1, <1>5, <1>6, Zenon DEF f, x

LEMMA DrawStep ==
  ASSUME IInv, NEW c \in Callers, Draw(c)
  PROVE  IInv'
<1> DEFINE q == calls[c].request
           rounds == calls[c].rounds
           n == Len(rounds)
           rng == generator[BackendOf(c)]
           x == Tensor(rng.seed, rng.drawn + 1)
           drawn == Front(rounds) \o <<Append(Last(rounds), x)>>
           g == [rng EXCEPT !.drawn = @ + 1]
<1>1. TypeInv /\ Good(c) /\ rounds \in Seq(Seq(Nat))
  BY GoodIsInv, Zenon DEF TypeInv
<1>2. /\ MidRound(c)
      /\ Replaces(c, calls[c].pc, drawn, calls[c].fit, calls[c].answer)
      /\ Touches(c)
      /\ generator' = [generator EXCEPT ![BackendOf(c)].drawn = @ + 1]
  BY Zenon DEF Draw, Replaces
<1>3. rng \in [seed : Nat, drawn : Nat]
  BY <1>1, BackendFacts, Zenon DEF TypeInv
<1>4. generator' = [generator EXCEPT ![BackendOf(c)] = g]
  BY <1>2
<1>5. calls[c].pc = "sampling" /\ rounds # <<>> /\ Rounds(q) > 0
  BY <1>1, <1>2, Zenon DEF MidRound, Good, PhasesFit
<1>6. /\ calls'[c].request = q /\ calls'[c].pc = "sampling" /\ calls'[c].rounds = drawn
      /\ calls'[c].answer = calls[c].answer
      /\ \A d \in Callers \ {c} : calls'[d] = calls[d]
  <2>1. Replaces(c, "sampling", drawn, calls[c].fit, calls[c].answer)
    BY <1>2, <1>5, Zenon
  <2>2. QED
    BY <1>1, <2>1, ReplacedCall
<1> HIDE DEF q, rounds, rng, g
<1>7. /\ LeavesOthers(c) /\ undisturbed' \in [Callers -> BOOLEAN] /\ undisturbed'[c] = undisturbed[c]
      /\ generator'[BackendOf(c)] = g
      /\ g \in [seed : Nat, drawn : Nat] => generator' \in [Backends -> [seed : Nat, drawn : Nat]]
  BY <1>2, <1>4, <1>6, TouchesOthers
<1>8. /\ g \in [seed : Nat, drawn : Nat] /\ g.seed = rng.seed /\ g.drawn = rng.drawn + 1
      /\ x \in Nat
  BY <1>3 DEF g, Tensor
<1> HIDE DEF x
<1>9. /\ drawn \in Seq(Seq(Nat)) /\ DOMAIN drawn = DOMAIN rounds /\ Len(drawn) = n
      /\ \A r \in 1 .. n - 1 : drawn[r] = rounds[r]
      /\ drawn[n] = Append(Last(rounds), x)
      /\ Last(drawn) = Append(Last(rounds), x)
      /\ drawn # <<>>
  BY <1>1, <1>5, <1>8, LongerRound, Zenon
<1> HIDE DEF drawn
<1>10. TypeInv'
  BY <1>1, <1>2, <1>7, <1>8, <1>9, ReplacedCall DEF q
<1>11. PhasesFit(c)'
  BY <1>5, <1>6, <1>9 DEF PhasesFit
<1>12. n \in Nat /\ n >= 1 /\ DOMAIN rounds = 1 .. n /\ Last(rounds) = rounds[n] /\ Last(rounds) \in Seq(Nat)
  BY <1>1, <1>5, LenProperties DEF Last
<1>13. ASSUME undisturbed[c]
       PROVE  FollowsSeed(c)' /\ ~IsSimulation(c)'
  <2> DEFINE m == Len(Last(rounds))
  <2>1. /\ \A r \in DOMAIN rounds : rounds[r] = FirstDraws(q, Len(rounds[r]))
        /\ \A r \in 1 .. n - 1 : Len(rounds[r]) = RoundDraws(q)
        /\ rng = [seed |-> q.seed, drawn |-> m]
    BY <1>1, <1>2, <1>13, Zenon DEF Good, FollowsSeed, q, rounds, rng
  <2>2. m \in Nat
    BY <1>12, LenProperties
  <2>3. Last(rounds) = FirstDraws(q, m)
    BY <1>12, <2>1
  <2> HIDE DEF m
  <2>4. rng.seed = q.seed /\ rng.drawn = m
    BY <2>1
  <2>5. x = Tensor(q.seed, m + 1)
    BY <2>4, Zenon DEF x
  <2>6. /\ Append(Last(rounds), x) = FirstDraws(q, m + 1)
        /\ Len(Append(Last(rounds), x)) = m + 1
    BY <1>12, <2>2, <2>3, <2>5, NextDraw
  <2>7. g = [seed |-> q.seed, drawn |-> m + 1]
    BY <2>1 DEF g
  <2>8. \A r \in DOMAIN drawn : drawn[r] = FirstDraws(q, Len(drawn[r]))
    <3>1. \A r \in 1 .. n : r = n \/ r \in 1 .. n - 1
      <4>1. \A k \in Nat : \A r \in 1 .. k : r = k \/ r \in 1 .. k - 1
        OBVIOUS
      <4>2. QED
        BY <1>12, <4>1, Zenon
    <3>2. \A r \in 1 .. n - 1 : r \in 1 .. n
      <4>1. \A k \in Nat : \A r \in 1 .. k - 1 : r \in 1 .. k
        OBVIOUS
      <4>2. QED
        BY <1>12, <4>1, Zenon
    <3>3. QED
      BY <1>9, <1>12, <2>1, <2>6, <3>1, <3>2, Zenon
  <2>9. \A r \in 1 .. Len(drawn) - 1 : Len(drawn[r]) = RoundDraws(q)
    BY <1>9, <2>1, Zenon
  <2>10. generator'[BackendOf(c)'] = [seed |-> q.seed, drawn |-> Len(Last(drawn))]
    <3>1. BackendOf(c)' = BackendOf(c)
      BY <1>6, Zenon DEF BackendOf, q
    <3>2. QED
      BY <1>7, <1>9, <2>6, <2>7, <3>1, Zenon
  <2>11. QED
    BY <1>6, <2>8, <2>9, <2>10 DEF FollowsSeed, IsSimulation
<1>14. Good(c)'
  BY <1>7, <1>11, <1>13, Zenon DEF Good
<1>15. \A d \in Callers : Good(d)'
  BY <1>7, <1>14, OthersStayGood, Zenon
<1>16. QED
  BY <1>10, <1>15, Zenon DEF IInv, AloneIsReproducible, Good

(* Every step keeps the invariant. *)
LEMMA StepKeepsInv ==
  ASSUME IInv, NEW c \in Callers, Step(c)
  PROVE  IInv'
<1> DEFINE q == calls[c].request
           x == calls[c]
<1>1. TypeInv
  BY Zenon DEF IInv
<1>2. CASE Refuse(c)
  <2>1. /\ Replaces(c, "ended", x.rounds, x.fit, Refusal) /\ UNCHANGED <<generator, undisturbed>> /\ Refuses(q)
    BY <1>2, Zenon DEF Refuse, Ends, Replaces
  <2>2. q \notin Simulations
    BY <2>1 DEF Simulations
  <2>3. QED
    BY <2>1, <2>2, QuietStep
<1>3. CASE Abort(c)
  <2>1. x = Call(q, x.pc, x.rounds, x.fit, x.answer)
    BY <1>1, Zenon DEF TypeInv
  <2>2. calls' = [calls EXCEPT ![c].pc = "aborted"] /\ UNCHANGED <<generator, undisturbed>>
    BY <1>3, Zenon DEF Abort
  <2>3. [x EXCEPT !.pc = "aborted"] = Call(q, "aborted", x.rounds, x.fit, x.answer)
    <3>1. \A a, b, r, f, y : [Call(a, b, r, f, y) EXCEPT !.pc = "aborted"] = Call(a, "aborted", r, f, y)
      BY DEF Call
    <3> DEFINE a == x.request
               b == x.pc
               r == x.rounds
               f == x.fit
               y == x.answer
    <3>2. x = Call(a, b, r, f, y)
      BY <2>1, Zenon
    <3> HIDE DEF a, b, r, f, y
    <3>3. [x EXCEPT !.pc = "aborted"] = Call(a, "aborted", r, f, y)
      BY <3>1, <3>2
    <3>4. QED
      BY <3>3, Zenon DEF a, b, r, f, y
  <2>4. Replaces(c, "aborted", x.rounds, x.fit, x.answer)
    BY <2>2, <2>3 DEF Replaces
  <2>5. QED
    BY <2>2, <2>4, QuietStep
<1>4. CASE Value(c)
  <2>1. /\ Replaces(c, "ended", x.rounds, x.fit, ValuationAnswer(q))
        /\ UNCHANGED <<generator, undisturbed>> /\ q.op = "valuation"
    BY <1>4, Zenon DEF Value, Ends, Replaces
  <2>2. q \notin Simulations
    BY <2>1 DEF Simulations
  <2>3. QED
    BY <2>1, <2>2, QuietStep
<1>5. CASE Seed(c)
  BY <1>5, SeedStep
<1>6. CASE Draw(c)
  BY <1>6, DrawStep
<1>7. CASE Simulated(c)
  <2>1. /\ Replaces(c, "ended", x.rounds, x.fit, SimulationAnswer(q, x.rounds))
        /\ UNCHANGED <<generator, undisturbed>>
    BY <1>7, Zenon DEF Simulated, Ends, Replaces
  <2>2. undisturbed[c] /\ q \in Simulations => SimulationAnswer(q, x.rounds) = References[q]
    BY <1>7, AnswerFollows, Zenon
  <2>3. QED
    BY <2>1, <2>2, QuietStep
<1>8. CASE Calibrate(c)
  <2>1. /\ Replaces(c, "fitting", x.rounds, FitStarted(q.m, q.curve), x.answer)
        /\ UNCHANGED <<generator, undisturbed>> /\ q.op = "calibration"
    BY <1>8, Zenon DEF Calibrate, FitOf, Replaces
  <2>2. QED
    BY <2>1, QuietStep
<1>9. CASE Iterate(c)
  <2>1. /\ Replaces(c, "fitting", x.rounds, FitIterates(x.fit), x.answer)
        /\ UNCHANGED <<generator, undisturbed>> /\ x.pc = "fitting"
    BY <1>9, Zenon DEF Iterate, FitOf, Replaces
  <2>2. q.op = "calibration"
    BY <2>1, Zenon DEF IInv, PhasesFit
  <2>3. QED
    BY <2>1, <2>2, QuietStep
<1>10. CASE Damp(c)
  <2>1. PICK candidate \in Candidates :
           /\ Replaces(c, "fitting", x.rounds, FitDamps(q.m, q.curve, x.fit, candidate), x.answer)
           /\ UNCHANGED <<generator, undisturbed>> /\ x.pc = "fitting"
    BY <1>10, Zenon DEF Damp, FitOf, Replaces
  <2>2. q.op = "calibration"
    BY <2>1, Zenon DEF IInv, PhasesFit
  <2>3. QED
    BY <2>1, <2>2, QuietStep
<1>11. CASE Fitted(c)
  <2>1. /\ Replaces(c, "ended", x.rounds, x.fit, Ok(CalibrationResult(q.m, x.fit)))
        /\ UNCHANGED <<generator, undisturbed>> /\ x.pc = "fitting"
    BY <1>11, Zenon DEF Fitted, Ends, Replaces
  <2>2. q \notin Simulations
    <3>1. q.op = "calibration"
      BY <2>1, Zenon DEF IInv, PhasesFit
    <3>2. QED
      BY <3>1 DEF Simulations
  <2>3. QED
    BY <2>1, <2>2, QuietStep
<1>12. QED
  BY <1>2, <1>3, <1>4, <1>5, <1>6, <1>7, <1>8, <1>9, <1>10, <1>11, Zenon DEF Step

LEMMA InitHolds == Init => IInv
<1> SUFFICES ASSUME Init
             PROVE  IInv
  OBVIOUS
<1>1. PICK work \in Workloads : calls = [c \in Callers |-> Call(work[c], "called", <<>>, NoFit, NoAnswer)]
  BY Zenon DEF Init
<1>2. ASSUME NEW c \in Callers
      PROVE  /\ calls[c] = Call(calls[c].request, calls[c].pc, calls[c].rounds, calls[c].fit, calls[c].answer)
             /\ calls[c].request = work[c] /\ calls[c].pc = "called" /\ calls[c].rounds = <<>>
  BY <1>1, CallFields
<1>3. TypeInv
  <2>1. generator \in [Backends -> [seed : Nat, drawn : Nat]] /\ undisturbed \in [Callers -> BOOLEAN]
    BY DEF Init
  <2>2. DOMAIN calls = Callers
    BY <1>1, Zenon
  <2>3. <<>> \in Seq(Seq(Nat))
    OBVIOUS
  <2>4. QED
    BY <1>2, <2>1, <2>2, <2>3, Zenon DEF TypeInv
<1>4. ASSUME NEW c \in Callers
      PROVE  Good(c)
  <2>1. calls[c].pc = "called" /\ calls[c].rounds = <<>>
    BY <1>2
  <2>2. DOMAIN <<>> = {} /\ 1 .. Len(<<>>) - 1 = {}
    OBVIOUS
  <2>3. FollowsSeed(c) /\ PhasesFit(c) /\ ~IsSimulation(c)
    BY <2>1, <2>2 DEF FollowsSeed, PhasesFit, IsSimulation, MidRound
  <2>4. QED
    BY <2>3, Zenon DEF Good
<1>5. QED
  BY <1>3, <1>4, GoodIsInv, Zenon

LEMMA Stutters ==
  ASSUME IInv, UNCHANGED vars
  PROVE  IInv'
BY Zenon DEF vars, IInv, TypeInv, PhasesFit, AloneIsReproducible, FollowsSeed, MidRound,
             RoundFinished, BackendOf, IsSimulation, Matches

(* The inductive invariant: rounds of a caller that nobody disturbed are    *)
(* its seed's, and the generator stands where it left it.                   *)
THEOREM EngineInvariance == Spec => []IInv
<1>1. IInv /\ [Next]_vars => IInv'
  <2> SUFFICES ASSUME IInv, [Next]_vars
               PROVE  IInv'
    OBVIOUS
  <2>1. CASE Next
    BY <2>1, StepKeepsInv, Zenon DEF Next
  <2>2. CASE UNCHANGED vars
    BY <2>2, Stutters, Zenon
  <2>3. QED
    BY <2>1, <2>2
<1>2. QED
  BY <1>1, InitHolds, PTL DEF Spec

(* A simulation that no other call disturbed draws what its seed determines *)
(* and answers what that determines, whatever the other threads of the      *)
(* process do; and a batch answers what its trades answer one by one.       *)
THEOREM AnswersAreReproducible == Spec => []AloneIsReproducible
<1>1. IInv => AloneIsReproducible
  BY Zenon DEF IInv
<1>2. QED
  BY <1>1, EngineInvariance, PTL

(* Calibration.                                                             *)

LEMMA Typed ==
  ASSUME TypeInv, NEW c \in Callers
  PROVE  RequestTyped(calls[c].request)
<1>1. PICK work \in Workloads : calls[c].request = work[c]
  BY Zenon DEF TypeInv
<1>2. QED
  BY <1>1, RequestsTyped, Zenon

LEMMA FitFields ==
  ASSUME NEW p, NEW cost, NEW iterations, NEW tries, NEW phase
  PROVE  /\ Fit(p, cost, iterations, tries, phase).p = p
         /\ Fit(p, cost, iterations, tries, phase).cost = cost
         /\ Fit(p, cost, iterations, tries, phase).iterations = iterations
BY DEF Fit

LEMMA StartedSound ==
  ASSUME NEW q, CalibrationTyped(q.m, q.curve), ~GuessAborts(q.m), ~CurveAborts(q.curve)
  PROVE  SoundFit(q, FitStarted(q.m, q.curve))
<1> DEFINE p == InitialPoint(q.m)
           cost == Cost(q.m, q.curve, p)
           fit == FitStarted(q.m, q.curve)
<1>1. fit.p = p /\ fit.cost = cost /\ fit.iterations = 0
  BY FitFields DEF FitStarted
<1>2. p \in Points(q.m)
  BY Zenon DEF Points
<1>3. cost \in Int
  BY <1>2, Zenon DEF CalibrationTyped
<1> HIDE DEF p, cost, fit
<1>4. cost <= cost /\ 0 \in 0 .. MaxIterations
  BY <1>3, LimitsTyped
<1>5. QED
  BY <1>1, <1>2, <1>4, Zenon DEF SoundFit, p, cost, fit

LEMMA IteratesSound ==
  ASSUME NEW q, NEW fit, SoundFit(q, fit)
  PROVE  SoundFit(q, FitIterates(fit))
<1> DEFINE next == FitIterates(fit)
<1>1. fit.iterations \in 0 .. MaxIterations /\ MaxIterations \in Nat
  BY LimitsTyped, Zenon DEF SoundFit
<1>2. /\ next.p = fit.p /\ next.cost = fit.cost
      /\ \/ next.iterations = fit.iterations
         \/ next.iterations = fit.iterations + 1 /\ fit.iterations < MaxIterations
  <2>1. CASE ~Converged(fit) /\ fit.iterations < MaxIterations
    BY <2>1, FitFields DEF FitIterates
  <2>2. CASE ~(~Converged(fit) /\ fit.iterations < MaxIterations)
    BY <2>2, FitFields DEF FitIterates
  <2>3. QED
    BY <2>1, <2>2, Zenon
<1> HIDE DEF next
<1>3. next.iterations \in 0 .. MaxIterations
  BY <1>1, <1>2
<1>4. QED
  BY <1>2, <1>3, Zenon DEF SoundFit, next

LEMMA DampsSound ==
  ASSUME NEW q, CalibrationTyped(q.m, q.curve), NEW fit, SoundFit(q, fit), NEW candidate \in Candidates
  PROVE  SoundFit(q, FitDamps(q.m, q.curve, fit, candidate))
<1> DEFINE next == FitDamps(q.m, q.curve, fit, candidate)
           cost == Cost(q.m, q.curve, candidate)
           first == Cost(q.m, q.curve, InitialPoint(q.m))
<1>1. CASE candidate # <<>> /\ cost < fit.cost
  <2>1. next.p = candidate /\ next.cost = cost /\ next.iterations = fit.iterations
    BY <1>1, FitFields DEF FitDamps
  <2>2. candidate \in Points(q.m) /\ InitialPoint(q.m) \in Points(q.m) /\ fit.p \in Points(q.m)
    BY <1>1, Zenon DEF Points, SoundFit
  <2>3. cost \in Int /\ first \in Int /\ fit.cost \in Int /\ fit.cost <= first
    BY <2>2, Zenon DEF CalibrationTyped, SoundFit
  <2> HIDE DEF next, cost, first
  <2>4. cost <= first
    BY <1>1, <2>3
  <2>5. QED
    BY <2>1, <2>2, <2>4, Zenon DEF SoundFit, next, cost, first
<1>2. CASE ~(candidate # <<>> /\ cost < fit.cost)
  <2>1. next.p = fit.p /\ next.cost = fit.cost /\ next.iterations = fit.iterations
    BY <1>2, FitFields DEF FitDamps
  <2>2. QED
    BY <2>1, Zenon DEF SoundFit
<1>3. QED
  BY <1>1, <1>2, Zenon

(* A calibrated model is the guess but for a and b.                         *)
LEMMA CalibratedFields ==
  ASSUME NEW m, m = [p \in DOMAIN m |-> m[p]], {"kind", "a", "b", "r0"} \subseteq DOMAIN m, NEW p
  PROVE  /\ \A name \in DOMAIN m \ {"a", "b"} : Calibrated(m, p)[name] = m[name]
         /\ InitialState(Calibrated(m, p)) = InitialState(m)
<1>1. \A x, y : \A name \in DOMAIN m \ {"a", "b"} : [m EXCEPT !.a = x, !.b = y][name] = m[name]
  OBVIOUS
<1>2. \A name \in DOMAIN m \ {"a", "b"} : Calibrated(m, p)[name] = m[name]
  BY <1>1, Zenon DEF Calibrated
<1>3. Calibrated(m, p).kind = m.kind /\ Calibrated(m, p).r0 = m.r0
  BY <1>2
<1>4. QED
  BY <1>2, <1>3, Zenon DEF InitialState

LEMMA SoundResult ==
  ASSUME NEW q, CalibrationTyped(q.m, q.curve), NEW fit, SoundFit(q, fit)
  PROVE  ImprovesOn(q, CalibrationResult(q.m, fit))
<1> DEFINE result == CalibrationResult(q.m, fit)
           m == q.m
<1>1. /\ result.m = Calibrated(m, fit.p) /\ result.cost = fit.cost
      /\ result.iterations = fit.iterations /\ result.converged = Converged(fit)
  BY DEF CalibrationResult
<1>2. /\ \A name \in DOMAIN m \ {"a", "b"} : result.m[name] = m[name]
      /\ InitialState(result.m) = InitialState(m)
  <2>1. q.m = [p \in DOMAIN q.m |-> q.m[p]] /\ {"kind", "a", "b", "r0"} \subseteq DOMAIN q.m
    BY Zenon DEF CalibrationTyped
  <2> HIDE DEF result
  <2>2. QED
    BY <1>1, <2>1, CalibratedFields
<1>3. result.cost = SquaredError(result.m, InitialState(result.m), q.curve)
  BY <1>1, <1>2, Zenon DEF SoundFit, Cost
<1>4. Cost(m, q.curve, InitialPoint(m)) = SquaredError(m, InitialState(m), q.curve)
  BY Zenon DEF SoundFit, CalibrationTyped, Cost
<1>5. result.cost <= SquaredError(m, InitialState(m), q.curve)
  BY <1>1, <1>4, Zenon DEF SoundFit
<1>6. result.converged <=> result.cost < Tolerance
  BY <1>1, Zenon DEF Converged
<1>7. result.iterations <= MaxIterations
  <2>1. fit.iterations \in 0 .. MaxIterations
    BY Zenon DEF SoundFit
  <2>2. QED
    BY <1>1, <2>1, LimitsTyped
<1> HIDE DEF result
<1>8. QED
  BY <1>2, <1>3, <1>5, <1>6, <1>7, Zenon DEF ImprovesOn, result

(* What a step may do to the call c for FitInv to survive it.               *)
FitStep(c) ==
  LET call == calls'[c]
  IN  /\ call.request = calls[c].request
      /\ \A d \in Callers \ {c} : calls'[d] = calls[d]
      /\ call.pc = "fitting" => SoundFit(call.request, call.fit)
      /\ call.request.op = "calibration" /\ call.answer.status = "ok"
             => ImprovesOn(call.request, call.answer.value)

LEMMA FitStepKeepsInv ==
  ASSUME FitInv, IInv', NEW c \in Callers, FitStep(c)
  PROVE  FitInv'
<1>1. ASSUME NEW d \in Callers
      PROVE  /\ calls'[d].pc = "fitting" => SoundFit(calls'[d].request, calls'[d].fit)
             /\ calls'[d].request.op = "calibration" /\ calls'[d].answer.status = "ok"
                    => ImprovesOn(calls'[d].request, calls'[d].answer.value)
  <2>1. CASE d = c
    BY <2>1, Zenon DEF FitStep
  <2>2. CASE d # c
    BY <2>2, Zenon DEF FitStep, FitInv, CalibrationImproves, Answered
  <2>3. QED
    BY <2>1, <2>2
<1>2. QED
  BY <1>1, Zenon DEF FitInv, CalibrationImproves, Answered

(* The fields after c's call was replaced. *)
LEMMA AfterReplaces ==
  ASSUME TypeInv, NEW c \in Callers, NEW pc, NEW rounds, NEW fit, NEW answer,
         Replaces(c, pc, rounds, fit, answer)
  PROVE  /\ calls'[c].request = calls[c].request /\ calls'[c].pc = pc /\ calls'[c].fit = fit
         /\ calls'[c].answer = answer
         /\ \A d \in Callers \ {c} : calls'[d] = calls[d]
<1>1. DOMAIN calls = Callers
  BY Zenon DEF TypeInv
<1>2. calls' = [calls EXCEPT ![c] = Call(calls[c].request, pc, rounds, fit, answer)]
  BY Zenon DEF Replaces
<1>3. /\ calls'[c] = Call(calls[c].request, pc, rounds, fit, answer)
      /\ \A d \in Callers \ {c} : calls'[d] = calls[d]
  BY <1>1, <1>2
<1>4. QED
  BY <1>3, CallFields


LEMMA CalibrationStep ==
  ASSUME FitInv, NEW c \in Callers, Step(c)
  PROVE  FitStep(c)
<1> DEFINE q == calls[c].request
           x == calls[c]
<1>1. /\ TypeInv /\ PhasesFit(c)
      /\ x.pc = "fitting" => SoundFit(q, x.fit)
      /\ q.op = "calibration" /\ x.answer.status = "ok" => ImprovesOn(q, x.answer.value)
  BY Zenon DEF FitInv, IInv, CalibrationImproves, Answered
<1>2. q.op = "calibration" => CalibrationTyped(q.m, q.curve)
  BY <1>1, Typed, Zenon DEF RequestTyped
<1>3. ASSUME NEW pc, NEW rounds, NEW fit, NEW answer, Replaces(c, pc, rounds, fit, answer),
             pc = "fitting" => SoundFit(q, fit),
             q.op = "calibration" /\ answer.status = "ok" => ImprovesOn(q, answer.value)
      PROVE  FitStep(c)
  BY <1>1, <1>3, AfterReplaces, Zenon DEF FitStep
<1>4. CASE Refuse(c)
  <2>1. Replaces(c, "ended", x.rounds, x.fit, Refusal)
    BY <1>4, Zenon DEF Refuse, Ends, Replaces
  <2>2. Refusal.status # "ok"
    BY DEF Refusal
  <2>3. QED
    BY <1>3, <2>1, <2>2
<1>5. CASE Abort(c)
  <2>1. calls' = [calls EXCEPT ![c].pc = "aborted"] /\ DOMAIN calls = Callers
        /\ x = Call(q, x.pc, x.rounds, x.fit, x.answer)
    BY <1>1, <1>5, Zenon DEF Abort, TypeInv
  <2>2. /\ calls'[c] = [calls[c] EXCEPT !.pc = "aborted"]
        /\ \A d \in Callers \ {c} : calls'[d] = calls[d]
    BY <2>1
  <2>3. \A a, b, r, f, y : LET z == [Call(a, b, r, f, y) EXCEPT !.pc = "aborted"]
                           IN  z.request = a /\ z.pc = "aborted" /\ z.answer = y
    BY DEF Call
  <2>4. calls'[c].request = q /\ calls'[c].pc = "aborted" /\ calls'[c].answer = x.answer
    <3> DEFINE a == x.request
               b == x.pc
               r == x.rounds
               f == x.fit
               y == x.answer
    <3>1. x = Call(a, b, r, f, y)
      BY <2>1, Zenon
    <3> HIDE DEF a, b, r, f, y
    <3>2. [x EXCEPT !.pc = "aborted"].request = a /\ [x EXCEPT !.pc = "aborted"].pc = "aborted"
          /\ [x EXCEPT !.pc = "aborted"].answer = y
      BY <2>3, <3>1
    <3>3. QED
      BY <2>2, <3>2, Zenon DEF a, y
  <2>5. QED
    BY <1>1, <2>2, <2>4 DEF FitStep
<1>6. CASE Value(c)
  <2>1. Replaces(c, "ended", x.rounds, x.fit, ValuationAnswer(q)) /\ q.op = "valuation"
    BY <1>6, Zenon DEF Value, Ends, Replaces
  <2>2. QED
    BY <1>3, <2>1
<1>7. CASE Seed(c)
  <2>1. Replaces(c, "sampling", Append(x.rounds, <<>>), x.fit, x.answer)
    BY <1>7, Zenon DEF Seed, Replaces
  <2>2. QED
    BY <1>1, <1>3, <2>1
<1>8. CASE Draw(c)
  <2>1. PICK rounds : Replaces(c, x.pc, rounds, x.fit, x.answer)
    BY <1>8, Zenon DEF Draw, Replaces
  <2>2. QED
    BY <1>1, <1>3, <2>1
<1>9. CASE Simulated(c)
  <2>1. Replaces(c, "ended", x.rounds, x.fit, SimulationAnswer(q, x.rounds))
    BY <1>9, Zenon DEF Simulated, Ends, Replaces
  <2>2. q.op # "calibration"
    <3>1. q.op = "exposure" \/ x.pc = "sampling"
      BY <1>9, Zenon DEF Simulated
    <3>2. x.pc = "sampling" => Rounds(q) > 0
      BY <1>1, Zenon DEF PhasesFit
    <3>3. QED
      BY <3>1, <3>2 DEF Rounds
  <2>3. QED
    BY <1>3, <2>1, <2>2
<1>10. CASE Calibrate(c)
  <2>1. /\ Replaces(c, "fitting", x.rounds, FitStarted(q.m, q.curve), x.answer)
        /\ q.op = "calibration" /\ Accepted(c)
    BY <1>10, Zenon DEF Calibrate, FitOf, Replaces
  <2>2. ~GuessAborts(q.m) /\ ~CurveAborts(q.curve)
    BY <2>1, Zenon DEF Accepted, Aborts
  <2>3. SoundFit(q, FitStarted(q.m, q.curve))
    BY <1>2, <2>1, <2>2, StartedSound, Zenon
  <2>4. QED
    BY <1>1, <1>3, <2>1, <2>3
<1>11. CASE Iterate(c)
  <2>1. Replaces(c, "fitting", x.rounds, FitIterates(x.fit), x.answer) /\ x.pc = "fitting"
    BY <1>11, Zenon DEF Iterate, FitOf, Replaces
  <2>2. SoundFit(q, FitIterates(x.fit))
    BY <1>1, <2>1, IteratesSound, Zenon
  <2>3. QED
    BY <1>1, <1>3, <2>1, <2>2
<1>12. CASE Damp(c)
  <2>1. PICK candidate \in Candidates :
           Replaces(c, "fitting", x.rounds, FitDamps(q.m, q.curve, x.fit, candidate), x.answer)
           /\ x.pc = "fitting"
    BY <1>12, Zenon DEF Damp, FitOf, Replaces
  <2>2. SoundFit(q, FitDamps(q.m, q.curve, x.fit, candidate))
    BY <1>1, <1>2, <2>1, DampsSound, Zenon DEF PhasesFit
  <2>3. QED
    BY <1>1, <1>3, <2>1, <2>2
<1>13. CASE Fitted(c)
  <2>1. /\ Replaces(c, "ended", x.rounds, x.fit, Ok(CalibrationResult(q.m, x.fit)))
        /\ x.pc = "fitting"
    BY <1>13, Zenon DEF Fitted, Ends, Replaces
  <2>2. ImprovesOn(q, CalibrationResult(q.m, x.fit))
    BY <1>1, <1>2, <2>1, SoundResult, Zenon DEF PhasesFit
  <2>3. \A v : Ok(v).value = v
    BY DEF Ok
  <2>4. QED
    BY <1>3, <2>1, <2>2, <2>3
<1>14. QED
  BY <1>4, <1>5, <1>6, <1>7, <1>8, <1>9, <1>10, <1>11, <1>12, <1>13, Zenon DEF Step

(* A calibration that returns is never worse than its guess, reports the    *)
(* distance of the parameters it returns, says it converged exactly when    *)
(* that distance is below the tolerance, and moves nothing else: whatever   *)
(* candidate points the damped system offers, and however many.             *)
THEOREM CalibrationsImprove == Spec => []CalibrationImproves
<1>1. Init => FitInv
  <2> SUFFICES ASSUME Init
               PROVE  FitInv
    OBVIOUS
  <2>1. PICK work \in Workloads : calls = [c \in Callers |-> Call(work[c], "called", <<>>, NoFit, NoAnswer)]
    BY Zenon DEF Init
  <2>2. \A c \in Callers : calls[c].pc = "called" /\ calls[c].answer = NoAnswer
    BY <2>1, CallFields
  <2>3. NoAnswer.status # "ok"
    BY DEF NoAnswer
  <2>4. QED
    BY <2>2, <2>3, InitHolds DEF FitInv, CalibrationImproves, Answered
<1>2. FitInv /\ [Next]_vars => FitInv'
  <2> SUFFICES ASSUME FitInv, [Next]_vars
               PROVE  FitInv'
    OBVIOUS
  <2>1. CASE Next
    <3>1. PICK c \in Callers : Step(c)
      BY <2>1, Zenon DEF Next
    <3>2. IInv' /\ FitStep(c)
      BY <3>1, StepKeepsInv, CalibrationStep, Zenon DEF FitInv
    <3>3. QED
      BY <3>2, FitStepKeepsInv
  <2>2. CASE UNCHANGED vars
    <3>1. IInv'
      BY <2>2, Stutters, Zenon DEF FitInv
    <3>2. QED
      BY <2>2, <3>1, Zenon DEF vars, FitInv, CalibrationImproves, Answered
  <2>3. QED
    BY <2>1, <2>2
<1>3. FitInv => CalibrationImproves
  BY Zenon DEF FitInv
<1>4. QED
  BY <1>1, <1>2, <1>3, PTL DEF Spec

=============================================================================
