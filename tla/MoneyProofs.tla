----------------------------- MODULE MoneyProofs -----------------------------
(***************************************************************************)
(* The money of Engine and of its restarts in Recovery, for every value of *)
(* the constants: the book adds up, the day's ledger is that of its trades *)
(* and a boot accepts what the engine saved.  All three are about sums, so *)
(* the module begins with what a sum is.                                   *)
(***************************************************************************)
EXTENDS EngineSafetyProofs

-----------------------------------------------------------------------------
(* Sums.  The library defines SumFunction by a recursive function on the   *)
(* subsets of the domain that picks its elements with CHOOSE.  The lemmas  *)
(* below establish, by the well-foundedness of strict inclusion on finite  *)
(* sets, that it is a sum: it does not depend on the order of the picks.   *)

\* A non-empty set of subsets of a finite set has a minimal member.
LEMMA MinimalSubset ==
    ASSUME NEW S, IsFiniteSet(S), NEW T, T \subseteq SUBSET S, T # {}
    PROVE  \E s \in T : \A r \in T : r \subseteq s => r = s
<1>1. IsWellFoundedOn(StrictSubsetOrdering(S), SUBSET S)
  BY FS_StrictSubsetOrderingWellFounded, FS_FiniteSubsetsOfFinite
<1>2. PICK s \in T : \A r \in T : ~(<<r, s>> \in StrictSubsetOrdering(S))
  BY <1>1, WFMin, Zenon
<1>3. \A r \in T : r \subseteq s => r = s
  <2> SUFFICES ASSUME NEW r \in T, r \subseteq s, r # s PROVE FALSE
    OBVIOUS
  <2>1. <<r, s>> \in (SUBSET S) \X (SUBSET S)
    OBVIOUS
  <2>2. <<r, s>> \in StrictSubsetOrdering(S)
    BY <2>1 DEF StrictSubsetOrdering
  <2> QED BY <1>2, <2>2
<1> QED BY <1>3

\* The element the library's fold takes out of a set first.
Pick(s) == CHOOSE x \in s : TRUE

\* The recursive function on the subsets of S that the fold applies to S.
IsFold(g, f, S) ==
    g = [s \in SUBSET S |->
            IF s = {} THEN 0
                      ELSE LET x == CHOOSE x \in s : TRUE
                           IN  f[x] + g[s \ {x}]]

LEMMA SumUnfolds ==
    ASSUME NEW f, NEW S
    PROVE  SumFunctionOnSet(f, S) = (CHOOSE g : IsFold(g, f, S))[S]
BY DEF SumFunctionOnSet, FoldFunctionOnSet, MapThenFoldSet, IsFold

LEMMA PickIsIn == ASSUME NEW s, s # {} PROVE Pick(s) \in s
BY DEF Pick

LEMMA FoldAt ==
    ASSUME NEW f, NEW S, NEW g, IsFold(g, f, S), NEW s \in SUBSET S
    PROVE  /\ s = {} => g[s] = 0
           /\ s # {} => g[s] = f[Pick(s)] + g[s \ {Pick(s)}]
<1>1. g[s] = IF s = {} THEN 0
                       ELSE LET x == CHOOSE x \in s : TRUE
                            IN  f[x] + g[s \ {x}]
  BY Zenon DEF IsFold
<1> QED BY <1>1 DEF Pick

\* Two such functions agree where both are defined and the summands agree.
LEMMA FoldsAgree ==
    ASSUME NEW f, NEW A, NEW g, IsFold(g, f, A), IsFiniteSet(A),
           NEW h, NEW B, NEW k, IsFold(k, h, B),
           NEW s \in SUBSET A, s \in SUBSET B, \A x \in s : f[x] = h[x]
    PROVE  g[s] = k[s]
<1> DEFINE Bad == {r \in SUBSET s : g[r] # k[r]}
<1>1. SUFFICES ASSUME Bad # {} PROVE FALSE
  OBVIOUS
<1>2. IsFiniteSet(s)
  BY FS_Subset
<1>3. PICK r \in Bad : \A q \in Bad : q \subseteq r => q = r
  <2>1. Bad \subseteq SUBSET s
    OBVIOUS
  <2> HIDE DEF Bad
  <2> QED BY <1>1, <1>2, <2>1, MinimalSubset
<1>4. r \in SUBSET A /\ r \in SUBSET B
  OBVIOUS
<1>5. r # {}
  BY <1>4, FoldAt
<1> DEFINE x == Pick(r)
<1>6. x \in r /\ r \ {x} \in SUBSET s /\ r \ {x} # r /\ f[x] = h[x]
  BY <1>5, PickIsIn
<1>7. g[r \ {x}] = k[r \ {x}]
  BY <1>3, <1>6
<1>8. g[r] = f[x] + g[r \ {x}] /\ k[r] = h[x] + k[r \ {x}]
  BY <1>4, <1>5, FoldAt
<1>9. g[r] = k[r]
  BY <1>6, <1>7, <1>8
<1> QED BY <1>9

\* The recursion has a solution on every finite set.
LEMMA FoldExists ==
    ASSUME NEW f, NEW S, IsFiniteSet(S)
    PROVE  \E g : IsFold(g, f, S)
<1> DEFINE Bad == {s \in SUBSET S : ~\E g : IsFold(g, f, s)}
<1>1. SUFFICES ASSUME Bad # {} PROVE FALSE
  OBVIOUS
<1>2. PICK t \in Bad : \A q \in Bad : q \subseteq t => q = t
  <2>1. Bad \subseteq SUBSET S
    OBVIOUS
  <2> HIDE DEF Bad
  <2> QED BY <1>1, <2>1, MinimalSubset
<1> DEFINE F(s) == CHOOSE g : IsFold(g, f, s)
           h == [s \in SUBSET t |->
                    IF s = {} THEN 0
                              ELSE f[Pick(s)] + F(s \ {Pick(s)})[s \ {Pick(s)}]]
<1>3. \A s \in SUBSET t : s # t => IsFold(F(s), f, s) /\ IsFiniteSet(s)
  <2> SUFFICES ASSUME NEW s \in SUBSET t, s # t
               PROVE  IsFold(F(s), f, s) /\ IsFiniteSet(s)
    OBVIOUS
  <2>1. s \in SUBSET S /\ s \notin Bad
    BY <1>2
  <2>2. \E g : IsFold(g, f, s)
    BY <2>1
  <2> QED BY <2>1, <2>2, FS_Subset, Zenon
<1>4. \A s \in SUBSET t : s # t => h[s] = F(s)[s]
  <2> SUFFICES ASSUME NEW s \in SUBSET t, s # t PROVE h[s] = F(s)[s]
    OBVIOUS
  <2>1. IsFold(F(s), f, s) /\ IsFiniteSet(s) /\ s \in SUBSET s
    BY <1>3
  <2> DEFINE r == s \ {Pick(s)}
  <2>2. CASE s = {}
    <3>1. F(s)[s] = 0
      BY <2>1, <2>2, FoldAt
    <3> QED BY <2>2, <3>1
  <2>3. CASE s # {}
    <3>1. r \in SUBSET t /\ r \in SUBSET s /\ r # t
      BY <2>3, PickIsIn
    <3>2. IsFold(F(r), f, r) /\ IsFiniteSet(r) /\ r \in SUBSET r
      BY <1>3, <3>1
    <3> HIDE DEF F, r
    <3>3. F(r)[r] = F(s)[r]
      BY <2>1, <3>1, <3>2, FoldsAgree
    <3>4. F(s)[s] = f[Pick(s)] + F(s)[r]
      BY <2>1, <2>3, FoldAt DEF r
    <3>5. h[s] = f[Pick(s)] + F(r)[r]
      BY <2>3 DEF r
    <3> QED BY <3>3, <3>4, <3>5
  <2> QED BY <2>2, <2>3
<1>5. \A s \in SUBSET t : h[s] =
          IF s = {} THEN 0
                    ELSE LET x == CHOOSE x \in s : TRUE
                         IN  f[x] + h[s \ {x}]
  <2> SUFFICES ASSUME NEW s \in SUBSET t, s # {}
               PROVE  h[s] = f[Pick(s)] + h[s \ {Pick(s)}]
    <3>1. \A s \in SUBSET t : s = {} => h[s] = 0
      OBVIOUS
    <3> HIDE DEF h
    <3> QED BY <3>1 DEF Pick
  <2> DEFINE r == s \ {Pick(s)}
  <2>1. r \in SUBSET t /\ r # t
    BY PickIsIn
  <2>2. h[r] = F(r)[r]
    BY <1>4, <2>1
  <2>3. h[s] = f[Pick(s)] + F(r)[r]
    OBVIOUS
  <2> HIDE DEF F, r, h
  <2>4. h[s] = f[Pick(s)] + h[r]
    BY <2>2, <2>3
  <2> QED BY <2>4 DEF r
<1>6. h = [s \in SUBSET t |-> h[s]]
  OBVIOUS
<1>7. IsFold(h, f, t)
  <2> HIDE DEF h
  <2> QED BY <1>5, <1>6, Zenon DEF IsFold
<1>8. \E g : IsFold(g, f, t)
  <2> HIDE DEF h
  <2> QED BY <1>7
<1> QED BY <1>8

\* What the library's sum is: the recursion, applied to the whole set.
LEMMA SumIsFold ==
    ASSUME NEW f, NEW S, IsFiniteSet(S)
    PROVE  \E g : IsFold(g, f, S) /\ SumFunctionOnSet(f, S) = g[S]
BY FoldExists, SumUnfolds, Zenon

\* The empty sum.
LEMMA SumEmpty == ASSUME NEW f PROVE SumFunctionOnSet(f, {}) = 0
<1>1. PICK g : IsFold(g, f, {}) /\ SumFunctionOnSet(f, {}) = g[{}]
  BY FS_EmptySet, SumIsFold
<1>2. {} \in SUBSET {}
  OBVIOUS
<1>3. g[{}] = 0
  <2>1. IsFold(g, f, {})
    BY <1>1
  <2>2. g[{}] = IF {} = {} THEN 0
                ELSE LET x == CHOOSE x \in {} : TRUE
                     IN  f[x] + g[{} \ {x}]
    BY <1>2, <2>1, Zenon DEF IsFold
  <2> QED BY <2>2, Zenon
<1> QED BY <1>1, <1>3

\* Equal summands have equal sums.
LEMMA SumCongruent ==
    ASSUME NEW f, NEW h, NEW S, IsFiniteSet(S), \A x \in S : f[x] = h[x]
    PROVE  SumFunctionOnSet(f, S) = SumFunctionOnSet(h, S)
<1>1. PICK g : IsFold(g, f, S) /\ SumFunctionOnSet(f, S) = g[S]
  BY SumIsFold
<1>2. PICK k : IsFold(k, h, S) /\ SumFunctionOnSet(h, S) = k[S]
  BY SumIsFold
<1>3. S \in SUBSET S
  OBVIOUS
<1>4. g[S] = k[S]
  BY <1>1, <1>2, <1>3, FoldsAgree
<1> QED BY <1>1, <1>2, <1>4

\* Any element may be taken out first.
LEMMA FoldAnyOrder ==
    ASSUME NEW S, IsFiniteSet(S), NEW f, \A x \in S : f[x] \in Int,
           NEW g, IsFold(g, f, S)
    PROVE  \A s \in SUBSET S :
               /\ g[s] \in Int
               /\ \A a \in s : g[s] = f[a] + g[s \ {a}]
<1> DEFINE OK(s) == /\ g[s] \in Int
                    /\ \A a \in s : g[s] = f[a] + g[s \ {a}]
           Bad == {s \in SUBSET S : ~OK(s)}
<1>1. SUFFICES ASSUME Bad # {} PROVE FALSE
  OBVIOUS
<1>2. PICK s \in Bad : \A q \in Bad : q \subseteq s => q = s
  <2>1. Bad \subseteq SUBSET S
    OBVIOUS
  <2> HIDE DEF Bad
  <2> QED BY <1>1, <2>1, MinimalSubset
<1>3. \A q \in SUBSET S : q \subseteq s /\ q # s => OK(q)
  BY <1>2
<1> USE <1>2
<1>4. s # {}
  <2> SUFFICES ASSUME s = {} PROVE FALSE
    OBVIOUS
  <2>1. g[s] = 0
    BY FoldAt
  <2> QED BY <2>1
<1> DEFINE x == Pick(s)
<1>5. x \in s /\ s \in SUBSET S /\ f[x] \in Int
  BY <1>4, PickIsIn
<1>6. g[s] = f[x] + g[s \ {x}]
  BY <1>4, <1>5, FoldAt
<1> HIDE DEF x
<1>7. s \ {x} \in SUBSET S /\ s \ {x} \subseteq s /\ s \ {x} # s
  BY <1>5
<1>8. OK(s \ {x})
  BY <1>3, <1>7
<1>9. g[s] \in Int
  BY <1>5, <1>6, <1>8
<1>10. \A a \in s : g[s] = f[a] + g[s \ {a}]
  <2> SUFFICES ASSUME NEW a \in s, a # x PROVE g[s] = f[a] + g[s \ {a}]
    BY <1>6
  <2> DEFINE r == (s \ {x}) \ {a}
  <2>1. g[s \ {x}] = f[a] + g[r]
    BY <1>8
  <2>2. s \ {a} \in SUBSET S /\ s \ {a} \subseteq s /\ s \ {a} # s
    OBVIOUS
  <2>3. OK(s \ {a})
    BY <1>3, <2>2
  <2>4. (s \ {a}) \ {x} = r /\ x \in s \ {a}
    BY <1>5
  <2>5. g[s \ {a}] = f[x] + g[r]
    BY <2>3, <2>4
  <2>6. r \in SUBSET S /\ r \subseteq s /\ r # s
    OBVIOUS
  <2>7. g[r] \in Int /\ f[a] \in Int /\ f[x] \in Int
    BY <1>3, <1>5, <2>6
  <2> HIDE DEF r, OK
  <2> QED BY <1>6, <2>1, <2>5, <2>7
<1> QED BY <1>9, <1>10

\* A sum of integers is an integer, and any of them can be taken out of it.
LEMMA SumTakeOut ==
    ASSUME NEW S, IsFiniteSet(S), NEW f, \A x \in S : f[x] \in Int
    PROVE  /\ SumFunctionOnSet(f, S) \in Int
           /\ \A a \in S : SumFunctionOnSet(f, S) =
                               f[a] + SumFunctionOnSet(f, S \ {a})
<1>1. PICK g : IsFold(g, f, S) /\ SumFunctionOnSet(f, S) = g[S]
  BY SumIsFold
<1>2. S \in SUBSET S
  OBVIOUS
<1>3. g[S] \in Int /\ \A a \in S : g[S] = f[a] + g[S \ {a}]
  BY <1>1, <1>2, FoldAnyOrder
<1>4. \A a \in S : g[S \ {a}] = SumFunctionOnSet(f, S \ {a})
  <2> SUFFICES ASSUME NEW a \in S
               PROVE  g[S \ {a}] = SumFunctionOnSet(f, S \ {a})
    OBVIOUS
  <2>1. IsFiniteSet(S \ {a}) /\ S \ {a} \in SUBSET S /\ S \ {a} \in SUBSET (S \ {a})
    BY FS_Subset
  <2>2. PICK k : /\ IsFold(k, f, S \ {a})
                 /\ SumFunctionOnSet(f, S \ {a}) = k[S \ {a}]
    BY <2>1, SumIsFold
  <2>3. g[S \ {a}] = k[S \ {a}]
    BY <1>1, <2>1, <2>2, FoldsAgree
  <2> QED BY <2>2, <2>3
<1> QED BY <1>1, <1>3, <1>4

\* Integer functions on finite domains: g is f with one element more.
OneMore(f, g, a) ==
    /\ IsFiniteSet(DOMAIN f)
    /\ a \notin DOMAIN f /\ DOMAIN g = DOMAIN f \cup {a}
    /\ \A x \in DOMAIN f : f[x] \in Int /\ g[x] = f[x]
    /\ g[a] \in Int

\* Integer functions on finite domains: g is f with one element changed.
OneChanged(f, g, a) ==
    /\ IsFiniteSet(DOMAIN f)
    /\ a \in DOMAIN f /\ DOMAIN g = DOMAIN f
    /\ \A x \in DOMAIN f : f[x] \in Int /\ g[x] \in Int
    /\ \A x \in DOMAIN f \ {a} : g[x] = f[x]

LEMMA SumOneMore ==
    ASSUME NEW f, NEW g, NEW a, OneMore(f, g, a)
    PROVE  /\ SumFunction(f) \in Int
           /\ SumFunction(g) = SumFunction(f) + g[a]
<1> DEFINE S == DOMAIN f
<1>0. /\ IsFiniteSet(S) /\ a \notin S /\ DOMAIN g = S \cup {a}
      /\ \A x \in S : f[x] \in Int /\ g[x] = f[x]
      /\ g[a] \in Int
  BY DEF OneMore
<1>1. IsFiniteSet(S \cup {a}) /\ (S \cup {a}) \ {a} = S
  BY <1>0, FS_AddElement
<1>2. \A x \in S \cup {a} : g[x] \in Int
  BY <1>0
<1>3. SumFunctionOnSet(g, S \cup {a}) = g[a] + SumFunctionOnSet(g, S)
  <2>1. SumFunctionOnSet(g, S \cup {a}) =
            g[a] + SumFunctionOnSet(g, (S \cup {a}) \ {a})
    BY <1>1, <1>2, SumTakeOut
  <2> QED BY <1>1, <2>1
<1>4. SumFunctionOnSet(g, S) = SumFunctionOnSet(f, S)
  BY <1>0, SumCongruent
<1>5. SumFunctionOnSet(f, S) \in Int
  BY <1>0, SumTakeOut
<1> QED BY <1>0, <1>3, <1>4, <1>5 DEF SumFunction

LEMMA SumOneChanged ==
    ASSUME NEW f, NEW g, NEW a, OneChanged(f, g, a)
    PROVE  /\ SumFunction(f) \in Int
           /\ SumFunction(g) = SumFunction(f) - f[a] + g[a]
<1> DEFINE S == DOMAIN f
           rest == SumFunctionOnSet(f, S \ {a})
<1>0. /\ IsFiniteSet(S) /\ a \in S /\ DOMAIN g = S
      /\ \A x \in S : f[x] \in Int /\ g[x] \in Int
      /\ \A x \in S \ {a} : g[x] = f[x]
  BY DEF OneChanged
<1>1. IsFiniteSet(S \ {a})
  BY <1>0, FS_Subset
<1>2. SumFunctionOnSet(f, S) = f[a] + rest /\ rest \in Int
  BY <1>0, <1>1, SumTakeOut
<1>3. SumFunctionOnSet(g, S) = g[a] + SumFunctionOnSet(g, S \ {a})
  BY <1>0, SumTakeOut
<1>4. SumFunctionOnSet(g, S \ {a}) = rest
  BY <1>0, <1>1, SumCongruent
<1> HIDE DEF rest
<1>5. f[a] \in Int /\ g[a] \in Int
  BY <1>0
<1> QED BY <1>0, <1>2, <1>3, <1>4, <1>5 DEF SumFunction

-----------------------------------------------------------------------------
(* The book                                                                *)

\* The two sums of check_invariants.
Costs(pos) == [m \in DOMAIN pos |-> pos[m].cost]
Pnls(done) == [i \in DOMAIN done |-> done[i].pnl]

\* A book whose sums are right.
Sums(e, d, pos, done) ==
    /\ e = StartEquity + SumFunction(Pnls(done))
    /\ d = SumFunction(Costs(pos))
    /\ \A i \in DOMAIN done : done[i].pnl = done[i].proceeds - done[i].cost

LEMMA SumsArePart ==
    ASSUME NEW e, NEW d, NEW pos, NEW done
    PROVE  CheckInvariants(e, d, pos, done) <=>
               /\ Sums(e, d, pos, done)
               /\ \A m \in DOMAIN pos : pos[m].qty > 0 /\ pos[m].cost > 0
BY DEF CheckInvariants, Sums, Pnls, Costs

MoneyInv == SizingInv /\ MoneyConserved

\* One more trade adds its P&L to the sum.
LEMMA TradeAdded ==
    ASSUME NEW done \in Seq(Trade), NEW t \in Trade
    PROVE  /\ SumFunction(Pnls(done)) \in Int
           /\ SumFunction(Pnls(Append(done, t))) = SumFunction(Pnls(done)) + t.pnl
<1> DEFINE more == Append(done, t)
           n == Len(done) + 1
<1>1. /\ DOMAIN done = 1 .. Len(done) /\ Len(done) \in Nat
      /\ DOMAIN more = DOMAIN done \cup {n} /\ n \notin DOMAIN done
      /\ \A i \in DOMAIN done : more[i] = done[i] /\ done[i] \in Trade
      /\ more[n] = t
  OBVIOUS
<1>2. IsFiniteSet(DOMAIN done)
  BY <1>1, FS_Interval
<1> HIDE DEF more, n
<1>3. /\ DOMAIN Pnls(done) = DOMAIN done
      /\ DOMAIN Pnls(more) = DOMAIN done \cup {n}
      /\ \A i \in DOMAIN done : /\ Pnls(done)[i] \in Int
                                /\ Pnls(more)[i] = Pnls(done)[i]
      /\ Pnls(more)[n] = t.pnl /\ t.pnl \in Int
  BY <1>1 DEF Pnls, Trade
<1>4. n \notin DOMAIN done
  BY <1>1
<1>5. OneMore(Pnls(done), Pnls(more), n)
  BY <1>2, <1>3, <1>4 DEF OneMore
<1> QED BY <1>3, <1>5, SumOneMore DEF more

\* A step that leaves every position's cost alone leaves the book's sums alone.
LEMMA SumsKept ==
    ASSUME Sums(equity, deployed, positions, closed),
           UNCHANGED <<equity, deployed, closed>>,
           Held' = Held, \A m \in Held : positions'[m].cost = positions[m].cost
    PROVE  Sums(equity, deployed, positions, closed)'
<1>1. Costs(positions)' = Costs(positions) /\ Pnls(closed)' = Pnls(closed)
  BY DEF Costs, Pnls, Held
<1> QED BY <1>1 DEF Sums

\* A filled slice raises the cost of its position and the deployed capital by
\* the same amount; a filled sell takes the cost of its position out of both
\* and adds its P&L to the equity and to the trades.
LEMMA MoneyStep == MoneyInv /\ [Next]_vars => MoneyInv'
<1> SUFFICES ASSUME MoneyInv, Next
             PROVE  Sums(equity, deployed, positions, closed)'
  <2> SUFFICES ASSUME MoneyInv, [Next]_vars PROVE MoneyInv'
    OBVIOUS
  <2>1. CASE UNCHANGED vars
    BY <2>1, SizingStep DEF vars, MoneyInv, MoneyConserved, CheckInvariants
  <2>2. CASE Next
    <3>1. SizingInv' /\ PositiveBook'
      BY <2>2, SizingStep DEF MoneyInv, SizingInv
    <3>2. CheckInvariants(equity, deployed, positions, closed)'
      BY <2>2, <3>1, SumsArePart DEF PositiveBook, Held
    <3> QED BY <3>1, <3>2 DEF MoneyInv, MoneyConserved
  <2> QED BY <2>1, <2>2
<1> USE DEF MoneyInv
<1>0. /\ positions \in [Held -> Position] /\ closed \in Seq(Trade)
      /\ equity \in Int /\ deployed \in Int /\ ev \in Event
      /\ Held \subseteq Mints /\ IsFiniteSet(Held)
      /\ Sums(equity, deployed, positions, closed)
  <2>1. Held \subseteq Mints
    BY DEF SizingInv, TypeOK
  <2> QED BY <2>1, SumsArePart, EngineAssumption, FS_Subset
          DEF SizingInv, TypeOK, MoneyConserved
<1>1. CASE UNCHANGED <<equity, deployed, closed, positions>>
  BY <1>0, <1>1, SumsKept DEF Held
<1>2. ASSUME NEW m \in Mints, NEW p \in Prices, NEW ts \in EventTimes,
             StepTicks(m, p, ts)
      PROVE  Sums(equity, deployed, positions, closed)'
  <2>1. Observe(positions[m], p).cost = positions[m].cost
    BY <1>0, <1>2 DEF StepTicks, Observe, Position
  <2> QED BY <1>0, <1>2, <2>1, SumsKept DEF StepTicks, Arriving
<1>3. ASSUME NEW m \in Mints, StepFails(m)
      PROVE  Sums(equity, deployed, positions, closed)'
  <2>1. Attempted(positions[m]).cost = positions[m].cost
    BY <1>0, <1>3 DEF StepFails, Sold, Attempted, Position
  <2> QED BY <1>0, <1>3, <2>1, SumsKept DEF StepFails, Sold
<1>4. ASSUME NEW p \in Prices, NEW delay \in FillDelays, StepFills(p, delay)
      PROVE  Sums(equity, deployed, positions, closed)'
  <2> DEFINE m == ev.mint
             amount == Slice(ev.budget, ev.slice)
             before == IF m \in Held THEN positions[m]
                                     ELSE NewPosition(p, ev.ts + delay)
  <2>1. /\ equity' = equity /\ closed' = closed /\ Held' = Held \cup {m}
        /\ deployed' = deployed + amount + Fee
        /\ positions' = [x \in Held \cup {m} |->
                            IF x = m THEN Filled(before, amount, p)
                                     ELSE positions[x]]
    BY <1>4 DEF StepFills, SliceFilled
  <2>2. amount \in Int /\ Fee \in Int
    <3>1. /\ ev.budget \in Int /\ ev.budget > 0
          /\ ev.slice \in 1 .. SliceCount(ev.budget)
      BY <1>0, <1>4 DEF StepFills, SliceFilled, SliceSent, SizingInv,
                        FunnelFunded, Event
    <3> QED BY <3>1, SliceSizes, EngineAssumption
  <2>3. before \in Position /\ (m \notin Held => before.cost = 0)
    <3>1. ev.ts + delay \in Int
      BY <1>0, EngineAssumption DEF Event
    <3>2. NewPosition(p, ev.ts + delay) \in Position
      BY <3>1, NewPositionType
    <3> QED BY <1>0, <3>2 DEF NewPosition
  <2>4. m \in Held => before = positions[m]
    OBVIOUS
  <2> HIDE DEF before, amount
  <2>5. Filled(before, amount, p).cost = before.cost + amount + Fee
          /\ before.cost \in Int
    BY <2>3 DEF Filled, Position
  <2>6. /\ DOMAIN Costs(positions) = Held
        /\ DOMAIN Costs(positions') = Held \cup {m}
        /\ \A x \in Held : Costs(positions)[x] \in Int
        /\ \A x \in Held \ {m} : Costs(positions')[x] = Costs(positions)[x]
        /\ Costs(positions')[m] = before.cost + amount + Fee
        /\ m \in Held => Costs(positions)[m] = before.cost
    BY <1>0, <2>1, <2>4, <2>5 DEF Costs, Held, Position
  <2>7. SumFunction(Costs(positions')) =
            SumFunction(Costs(positions)) + amount + Fee
    <3>1. before.cost + amount + Fee \in Int
      BY <2>2, <2>5
    <3>2. CASE m \in Held
      <4>1. /\ SumFunction(Costs(positions)) \in Int
            /\ SumFunction(Costs(positions')) = SumFunction(Costs(positions))
                   - Costs(positions)[m] + Costs(positions')[m]
        <5>1. /\ Held \cup {m} = Held
              /\ \A x \in Held : Costs(positions')[x] \in Int
          BY <2>6, <3>1, <3>2
        <5>2. OneChanged(Costs(positions), Costs(positions'), m)
          BY <1>0, <2>6, <3>2, <5>1 DEF OneChanged
        <5> QED BY <5>2, SumOneChanged
      <4> QED BY <2>2, <2>5, <2>6, <3>2, <4>1
    <3>3. CASE m \notin Held
      <4>1. /\ SumFunction(Costs(positions)) \in Int
            /\ SumFunction(Costs(positions')) =
                   SumFunction(Costs(positions)) + Costs(positions')[m]
        <5>1. \A x \in Held : /\ Costs(positions)[x] \in Int
                              /\ Costs(positions')[x] = Costs(positions)[x]
          BY <2>6, <3>3
        <5>2. OneMore(Costs(positions), Costs(positions'), m)
          BY <1>0, <2>6, <3>1, <3>3, <5>1 DEF OneMore
        <5> QED BY <5>2, SumOneMore
      <4> QED BY <2>2, <2>3, <2>6, <3>3, <4>1
    <3> QED BY <3>2, <3>3
  <2>8. deployed = SumFunction(Costs(positions))
    BY <1>0 DEF Sums
  <2> QED BY <1>0, <2>1, <2>7, <2>8 DEF Sums
<1>5. ASSUME NEW m \in Mints, NEW p \in Prices, NEW delay \in FillDelays,
             StepSells(m, p, delay)
      PROVE  Sums(equity, deployed, positions, closed)'
  <2> DEFINE cost == positions[m].cost
             proceeds == (p * positions[m].qty) \div Unit - Fee
             t == [mint |-> m, cost |-> cost, proceeds |-> proceeds,
                   pnl |-> proceeds - cost, day |-> Day(ev.ts)]
  <2>1. /\ equity' = equity + (proceeds - cost)
        /\ deployed' = deployed - cost
        /\ closed' = Append(closed, t)
        /\ m \in Held
        /\ positions' = [x \in Held \ {m} |-> positions[x]]
    BY <1>5 DEF StepSells, Sold, SellFilled
  <2>2. t \in Trade /\ t.pnl = t.proceeds - t.cost /\ t.pnl = proceeds - cost
          /\ cost \in Int /\ t.pnl \in Int
    <3>1. positions[m].qty \in Int /\ cost \in Int
      BY <1>0, <2>1 DEF Position
    <3>2. p * positions[m].qty \in Int
      BY <3>1, StrategyAssumption
    <3>3. (p * positions[m].qty) \div Unit \in Int
      BY <3>2, StrategyAssumption
    <3>4. Day(ev.ts) \in Int
      BY <1>0, RiskAssumption DEF Day, Event
    <3>5. proceeds \in Int
      BY <3>3, EngineAssumption
    <3> HIDE DEF proceeds, cost
    <3> QED BY <3>1, <3>4, <3>5 DEF Trade
  <2> HIDE DEF t, proceeds, cost
  <2>3. SumFunction(Pnls(closed')) = SumFunction(Pnls(closed)) + t.pnl
          /\ SumFunction(Pnls(closed)) \in Int
    BY <1>0, <2>1, <2>2, TradeAdded
  <2>4. SumFunction(Costs(positions)) = SumFunction(Costs(positions')) + cost
          /\ SumFunction(Costs(positions')) \in Int
    <3>1. /\ DOMAIN Costs(positions') = Held \ {m}
          /\ DOMAIN Costs(positions) = (Held \ {m}) \cup {m}
          /\ \A x \in Held \ {m} : /\ Costs(positions')[x] \in Int
                                   /\ Costs(positions)[x] = Costs(positions')[x]
          /\ Costs(positions)[m] = cost
      BY <1>0, <2>1 DEF Costs, Held, Position, cost
    <3>2. IsFiniteSet(Held \ {m}) /\ m \notin Held \ {m}
      BY <1>0, FS_Subset
    <3>3. Costs(positions)[m] \in Int
      BY <2>2, <3>1
    <3>4. /\ SumFunction(Costs(positions')) \in Int
          /\ SumFunction(Costs(positions)) =
                 SumFunction(Costs(positions')) + Costs(positions)[m]
      <4>1. OneMore(Costs(positions'), Costs(positions), m)
        BY <3>1, <3>2, <3>3 DEF OneMore
      <4> QED BY <4>1, SumOneMore
    <3> QED BY <3>1, <3>4
  <2>5. \A i \in DOMAIN closed' : closed'[i].pnl = closed'[i].proceeds - closed'[i].cost
    <3>1. \A i \in DOMAIN closed : closed[i].pnl = closed[i].proceeds - closed[i].cost
      BY <1>0 DEF Sums
    <3>2. /\ DOMAIN closed' = DOMAIN closed \cup {Len(closed) + 1}
          /\ \A i \in DOMAIN closed : closed'[i] = closed[i]
          /\ closed'[Len(closed) + 1] = t
      BY <1>0, <2>1, <2>2
    <3> QED BY <2>2, <3>1, <3>2
  <2>6. /\ equity = StartEquity + SumFunction(Pnls(closed))
        /\ deployed = SumFunction(Costs(positions))
    BY <1>0 DEF Sums
  <2>7. equity' = StartEquity + SumFunction(Pnls(closed'))
    BY <1>0, <2>1, <2>2, <2>3, <2>6, RiskAssumption
  <2>8. deployed' = SumFunction(Costs(positions'))
    BY <1>0, <2>1, <2>2, <2>4, <2>6
  <2> QED BY <2>5, <2>7, <2>8 DEF Sums
<1> QED BY <1>1, <1>2, <1>3, <1>4, <1>5, StepCases
        DEF SizingInv, StepSkips, StepFunnels, Arriving, StepCuts, EndEvent,
            book, vars

LEMMA MoneyInit == Init => MoneyInv
<1> SUFFICES ASSUME Init PROVE MoneyConserved
  BY SizingInit DEF MoneyInv
<1>1. DOMAIN closed = {} /\ DOMAIN positions = {}
        /\ equity = StartEquity /\ deployed = 0
  BY DEF Init
<1>2. SumFunction(Pnls(closed)) = 0 /\ SumFunction(Costs(positions)) = 0
  BY <1>1, SumEmpty DEF SumFunction, Pnls, Costs
<1>3. Sums(equity, deployed, positions, closed)
  BY <1>1, <1>2, RiskAssumption DEF Sums
<1> QED BY <1>1, <1>3, SumsArePart DEF MoneyConserved

\* The money invariants (engine.rs:599-631) hold between any two orders:
\* equity is the start equity and the P&L of all closed trades, the deployed
\* capital is the cost of the open positions, each of which has tokens and a
\* cost, whatever fills, fees, failures and sweeps come in whatever order.
THEOREM MoneyIsConserved == Spec => []MoneyConserved
<1>1. MoneyInv => MoneyConserved
  BY DEF MoneyInv
<1> QED BY <1>1, MoneyInit, MoneyStep, PTL DEF Spec
-----------------------------------------------------------------------------
(* The daily ledger                                                        *)

\* The P&L of the trades closed on day d.
DayPnls(done, d) == [i \in {j \in DOMAIN done : done[j].day = d} |-> done[i].pnl]

\* The ledger of r is right about the trades done, none of which is of a
\* later day, and it is not ahead of time t.
Ledger(r, done, t) ==
    /\ r.dayPnl = SumFunction(DayPnls(done, r.day))
    /\ LossReached(r.dayPnl) /\ DailyLossLimitPct > 0 => r.tripped
    /\ r.day <= Day(t)
    /\ \A i \in DOMAIN done : done[i].day <= r.day

\* What the ledger is made of.
SameLedger(q, r) == q.day = r.day /\ q.dayPnl = r.dayPnl /\ q.tripped = r.tripped

LedgerInv == TypeOK /\ ev.ts <= clock /\ Ledger(risk, closed, Now)

LEMMA DaysInOrderOfTime ==
    ASSUME NEW t \in Int, NEW u \in Int, t <= u
    PROVE  Day(t) \in Int /\ Day(u) \in Int /\ Day(t) <= Day(u)
<1> DEFINE d == t \div DayLength
           e == u \div DayLength
<1>1. DayLength \in Int /\ DayLength > 0
  BY RiskAssumption
<1>2. d \in Int /\ e \in Int /\ DayLength * d <= t /\ u < DayLength * e + DayLength
  BY <1>1
<1> HIDE DEF d, e
<1>3. ASSUME e + 1 <= d PROVE FALSE
  <2> DEFINE x == DayLength * d
             y == DayLength * e
  <2>1. DayLength * (e + 1) <= x
    BY <1>1, <1>2, <1>3
  <2>2. DayLength * (e + 1) = y + DayLength
    BY <1>1, <1>2
  <2>3. x \in Int /\ y \in Int /\ x <= t /\ u < y + DayLength
    BY <1>1, <1>2
  <2> HIDE DEF x, y
  <2> QED BY <1>1, <2>1, <2>2, <2>3
<1>4. d <= e
  BY <1>2, <1>3
<1> QED BY <1>2, <1>4 DEF Day, d, e

\* A P&L of zero is no loss.
LEMMA NoLossAtZero == DailyLossLimitPct > 0 => ~LossReached(0)
<1>1. StartEquity \in Int /\ StartEquity > 0 /\ DailyLossLimitPct \in Int
  BY RiskAssumption
<1>2. DailyLossLimitPct > 0 => StartEquity * DailyLossLimitPct > 0
  BY <1>1
<1>3. StartEquity * DailyLossLimitPct \in Int
  BY <1>1
<1> QED BY <1>2, <1>3 DEF LossReached

\* The ledger stays right as time goes by.
LEMMA LedgerKept ==
    ASSUME NEW r, NEW q, NEW done, NEW t \in Int, NEW u \in Int, t <= u,
           r.day \in Int, Ledger(r, done, t), SameLedger(q, r)
    PROVE  Ledger(q, done, u)
<1>1. Day(t) \in Int /\ Day(u) \in Int /\ Day(t) <= Day(u)
  BY DaysInOrderOfTime
<1>2. r.day <= Day(u)
  BY <1>1 DEF Ledger
<1> QED BY <1>2 DEF Ledger, SameLedger

\* A new day has no trades yet: an empty ledger is right (risk.rs:94-104).
LEMMA LedgerRolls ==
    ASSUME NEW r \in RiskState, NEW done \in Seq(Trade), NEW t \in Int,
           NEW u \in Int, t <= u, Ledger(r, done, t)
    PROVE  Ledger(Rollover(r, u), done, u) /\ Rollover(r, u).day = Day(u)
<1>0. r.day \in Int /\ Day(t) \in Int /\ Day(u) \in Int /\ Day(t) <= Day(u)
  BY DaysInOrderOfTime DEF RiskState
<1>1. CASE Day(u) = r.day
  <2>1. Rollover(r, u) = r
    BY <1>1 DEF Rollover
  <2>2. Ledger(r, done, u)
    BY <1>0, LedgerKept DEF SameLedger
  <2> QED BY <1>1, <2>1, <2>2
<1>2. CASE Day(u) # r.day
  <2> DEFINE q == Rollover(r, u)
  <2>1. q.day = Day(u) /\ q.dayPnl = 0 /\ q.tripped = FALSE
    BY <1>2 DEF Rollover, RiskState
  <2> HIDE DEF q
  <2>2. r.day < Day(u)
    BY <1>0, <1>2 DEF Ledger
  <2>3. \A i \in DOMAIN done : done[i].day \in Int /\ done[i].day <= r.day
    <3>1. \A i \in DOMAIN done : done[i] \in Trade
      OBVIOUS
    <3> QED BY <3>1 DEF Ledger, Trade
  <2>4. \A i \in DOMAIN done : done[i].day <= Day(u) /\ done[i].day # Day(u)
    BY <1>0, <2>2, <2>3
  <2>5. DOMAIN DayPnls(done, Day(u)) = {}
    BY <2>4 DEF DayPnls
  <2>6. SumFunction(DayPnls(done, Day(u))) = 0
    BY <2>5, SumEmpty DEF SumFunction
  <2>7. q.day <= Day(u)
    BY <1>0, <2>1
  <2> QED BY <2>1, <2>4, <2>6, <2>7, NoLossAtZero DEF Ledger, q
<1> QED BY <1>1, <1>2

\* A trade of the ledger's day is booked on it (risk.rs:106-120).
LEMMA LedgerBooks ==
    ASSUME NEW r \in RiskState, NEW q, NEW done \in Seq(Trade),
           NEW t \in Trade, NEW u \in Int, Ledger(r, done, u),
           r.day = Day(u), t.day = Day(u), q.day = r.day,
           q.dayPnl = r.dayPnl + t.pnl,
           q.tripped = (r.tripped \/ LossReached(r.dayPnl + t.pnl))
    PROVE  Ledger(q, Append(done, t), u)
<1> DEFINE more == Append(done, t)
           n == Len(done) + 1
           f == DayPnls(done, Day(u))
           g == DayPnls(more, Day(u))
<1>1. /\ DOMAIN done = 1 .. Len(done) /\ Len(done) \in Nat
      /\ DOMAIN more = DOMAIN done \cup {n} /\ n \notin DOMAIN done
      /\ \A i \in DOMAIN done : more[i] = done[i] /\ done[i] \in Trade
      /\ more[n] = t
  OBVIOUS
<1>2. IsFiniteSet(DOMAIN done)
  BY <1>1, FS_Interval
<1> HIDE DEF more, n
<1>0. t.pnl \in Int /\ Day(u) \in Int
  BY RiskAssumption DEF Trade, Day
<1>3. /\ DOMAIN f = {i \in DOMAIN done : done[i].day = Day(u)}
      /\ DOMAIN g = {i \in DOMAIN more : more[i].day = Day(u)}
      /\ \A i \in DOMAIN f : f[i] = done[i].pnl
      /\ \A i \in DOMAIN g : g[i] = more[i].pnl
  BY DEF DayPnls
<1> HIDE DEF f, g
<1>4. /\ DOMAIN g = DOMAIN f \cup {n} /\ n \notin DOMAIN f
  BY <1>1, <1>3
<1>5. /\ \A i \in DOMAIN f : f[i] \in Int /\ g[i] = f[i]
      /\ g[n] = t.pnl
  BY <1>1, <1>3, <1>4 DEF Trade
<1>6. IsFiniteSet(DOMAIN f)
  BY <1>2, <1>3, FS_Subset
<1>7. OneMore(f, g, n)
  BY <1>0, <1>4, <1>5, <1>6 DEF OneMore
<1>8. SumFunction(g) = SumFunction(f) + t.pnl
  BY <1>5, <1>7, SumOneMore
<1>9. r.dayPnl = SumFunction(f)
  BY DEF Ledger, f
<1>10. q.dayPnl = SumFunction(DayPnls(more, q.day))
  BY <1>8, <1>9 DEF g
<1>11. \A i \in DOMAIN more : more[i].day <= q.day
  <2>1. \A i \in DOMAIN done : done[i].day <= r.day
    BY DEF Ledger
  <2> QED BY <1>0, <1>1, <2>1
<1>12. q.day <= Day(u)
  BY <1>0
<1> QED BY <1>10, <1>11, <1>12 DEF Ledger, more

\* Time does not run backwards, in an event or between two.
LEMMA ClockStep ==
    ASSUME TypeOK, ev.ts <= clock, Next
    PROVE  /\ ev'.ts <= clock'
           /\ clock <= clock'
           /\ Now \in Int /\ Now' \in Int /\ Now <= Now'
           /\ \A ts : Arriving(ts) /\ ev'.pc # "idle" => Now' = ts
           /\ Going /\ ev'.pc # "idle" => Now = ev.ts /\ Now' = ev.ts
<1>1. ev.ts \in Int /\ clock \in Nat /\ ev'.ts \in Int /\ clock' \in Nat
  BY TypeStep DEF TypeOK, Event
<1>2. Now \in Int /\ Now' \in Int
  BY <1>1 DEF Now
<1>3. ASSUME NEW ts, Arriving(ts), ev'.pc # "idle"
      PROVE  /\ Now' = ts /\ Now <= Now'
             /\ clock <= clock' /\ ev'.ts <= clock'
  BY <1>1, <1>3 DEF Arriving, Now
<1>4. ASSUME Going, ev'.pc # "idle"
      PROVE  Now = ev.ts /\ Now' = ev.ts
  BY <1>4 DEF Going, Now
<1>5. clock <= clock' /\ ev'.ts <= clock' /\ Now <= Now'
  <2>1. ASSUME NEW ts \in EventTimes, StepSkips(ts)
        PROVE  clock <= clock' /\ ev'.ts <= clock' /\ Now <= Now'
    BY <1>3, <2>1 DEF StepSkips
  <2>2. ASSUME NEW m \in Mints, NEW ts \in EventTimes, StepFunnels(m, ts)
        PROVE  clock <= clock' /\ ev'.ts <= clock' /\ Now <= Now'
    BY <1>3, <2>2 DEF StepFunnels
  <2>3. ASSUME NEW m \in Mints, NEW p \in Prices, NEW ts \in EventTimes,
               StepTicks(m, p, ts)
        PROVE  clock <= clock' /\ ev'.ts <= clock' /\ Now <= Now'
    BY <1>3, <2>3 DEF StepTicks
  <2>4. CASE StepCuts
    BY <1>1, <1>4, <2>4 DEF StepCuts, Going
  <2>5. ASSUME NEW p \in Prices, NEW delay \in FillDelays, StepFills(p, delay)
        PROVE  clock <= clock' /\ ev'.ts <= clock' /\ Now <= Now'
    <3>1. /\ clock' = clock + delay /\ delay \in Nat /\ ev'.ts = ev.ts
          /\ ev'.pc # "idle"
      BY <2>5, EngineAssumption DEF StepFills, SliceFilled, Going
    <3> QED BY <1>1, <1>4, <2>5, <3>1 DEF StepFills
  <2>6. ASSUME NEW m \in Mints, StepFails(m)
        PROVE  clock <= clock' /\ ev'.ts <= clock' /\ Now <= Now'
    BY <1>1, <1>4, <2>6 DEF StepFails, Sold, Going
  <2>7. ASSUME NEW m \in Mints, NEW p \in Prices, NEW delay \in FillDelays,
               StepSells(m, p, delay)
        PROVE  clock <= clock' /\ ev'.ts <= clock' /\ Now <= Now'
    <3>1. /\ clock' = clock + delay /\ delay \in Nat /\ ev'.ts = ev.ts
          /\ ev'.pc # "idle"
      BY <2>7, EngineAssumption DEF StepSells, SellFilled, Sold, Going
    <3> QED BY <1>1, <1>4, <2>7, <3>1 DEF StepSells, Sold
  <2>8. CASE EndEvent
    BY <1>1, <2>8 DEF EndEvent, Idle, Now
  <2>9. CASE UNCHANGED vars
    BY <1>1, <2>9 DEF vars, Now
  <2> QED BY <2>1, <2>2, <2>3, <2>4, <2>5, <2>6, <2>7, <2>8, <2>9, StepCases
<1> QED BY <1>2, <1>3, <1>4, <1>5
\* What a check leaves of the ledger, and what a sell makes of it.
LEMMA LedgerEffects ==
    ASSUME NEW r \in RiskState, NEW ts \in Int
    PROVE  /\ SameLedger(Checked(r, ts), Rollover(r, ts))
           /\ SameLedger(NoteOrder(r, ts), r)
           /\ \A n : SameLedger(SetOpenPositions(r, n), r)
           /\ Rollover(NoteOrder(r, ts), ts).day = Rollover(r, ts).day
           /\ SameLedger(Rollover(NoteOrder(r, ts), ts), Rollover(r, ts))
<1>1. Rollover(r, ts) \in RiskState
  BY RiskTypes
<1>2. SameLedger(Checked(r, ts), Rollover(r, ts))
  BY <1>1 DEF SameLedger, Checked, RiskState
<1>3. \A n : SameLedger(SetOpenPositions(r, n), r)
  BY DEF SameLedger, SetOpenPositions, RiskState
<1>4. SameLedger(NoteOrder(r, ts), r)
  BY DEF SameLedger, NoteOrder, RiskState
<1>5. SameLedger(Rollover(NoteOrder(r, ts), ts), Rollover(r, ts))
  <2>1. NoteOrder(r, ts) \in RiskState
    BY RiskTypes
  <2> HIDE DEF NoteOrder
  <2>2. CASE Day(ts) = r.day
    BY <1>4, <2>1, <2>2 DEF Rollover, SameLedger
  <2>3. CASE Day(ts) # r.day
    BY <1>4, <2>1, <2>3 DEF Rollover, SameLedger, RiskState
  <2> QED BY <2>2, <2>3
<1> QED BY <1>2, <1>3, <1>4, <1>5 DEF SameLedger

\* The ledger q is s with one result more.
Books(q, s, pnl) ==
    /\ q.day = s.day
    /\ q.dayPnl = s.dayPnl + pnl
    /\ q.tripped = (s.tripped \/ LossReached(s.dayPnl + pnl))

LEMMA SellBooks ==
    ASSUME NEW r \in RiskState, NEW ts \in Int, NEW pnl \in Int
    PROVE  /\ RecordRealizedPnl(r, pnl, ts) \in RiskState
           /\ Books(RecordRealizedPnl(r, pnl, ts), Rollover(r, ts), pnl)
<1>1. Rollover(r, ts) \in RiskState /\ RecordRealizedPnl(r, pnl, ts) \in RiskState
  BY RiskTypes
<1> QED BY <1>1 DEF Books, RecordRealizedPnl, RiskState

\* Every check and every sell rolls the day over first; only a sell books.
LEMMA LedgerStep == LedgerInv /\ [Next]_vars => LedgerInv'
<1> SUFFICES ASSUME LedgerInv, Next
             PROVE  (ev.ts <= clock /\ Ledger(risk, closed, Now))'
  <2>1. CASE UNCHANGED vars
    BY <2>1 DEF vars, LedgerInv, TypeOK, Held, Now
  <2>2. CASE Next
    BY <2>2, TypeStep DEF LedgerInv
  <2> QED BY <2>1, <2>2
<1> USE DEF LedgerInv
<1> DEFINE T == Now
           U == Now'
<1>0. /\ risk \in RiskState /\ risk' \in RiskState /\ closed \in Seq(Trade)
      /\ ev.ts \in Int /\ ev \in Event
      /\ positions \in [Held -> Position] /\ Held \subseteq Mints
  BY TypeStep DEF TypeOK, Event
<1>1. /\ ev'.ts <= clock'
      /\ T \in Int /\ U \in Int /\ T <= U
      /\ \A ts : Arriving(ts) /\ ev'.pc # "idle" => U = ts
      /\ Going /\ ev'.pc # "idle" => T = ev.ts /\ U = ev.ts
  BY ClockStep
<1>2. Ledger(risk, closed, T)
  OBVIOUS
<1> HIDE DEF T, U
<1>3. Ledger(Rollover(risk, U), closed, U) /\ Rollover(risk, U) \in RiskState
        /\ Rollover(risk, U).day = Day(U)
  BY <1>0, <1>1, <1>2, LedgerRolls, RiskTypes
<1>4. ASSUME SameLedger(risk', risk) \/ SameLedger(risk', Rollover(risk, U)),
             closed' = closed
      PROVE  Ledger(risk', closed', U)
  <2>1. risk.day \in Int /\ Rollover(risk, U).day \in Int
    BY <1>0, <1>3 DEF RiskState
  <2>2. CASE SameLedger(risk', risk)
    BY <1>1, <1>2, <1>4, <2>1, <2>2, LedgerKept
  <2>3. CASE SameLedger(risk', Rollover(risk, U))
    BY <1>1, <1>3, <1>4, <2>1, <2>3, LedgerKept
  <2> QED BY <1>4, <2>2, <2>3
<1>5. ASSUME NEW ts \in EventTimes, StepSkips(ts)
      PROVE  Ledger(risk', closed', U)
  <2>1. U = ts /\ closed' = closed
    BY <1>1, <1>5 DEF StepSkips, Arriving
  <2>2. SameLedger(risk', risk) \/ SameLedger(risk', Rollover(risk, U))
    BY <1>0, <1>1, <1>5, <2>1, LedgerEffects DEF StepSkips, SameLedger
  <2> QED BY <1>4, <2>1, <2>2
<1>6. ASSUME NEW m \in Mints, NEW ts \in EventTimes, StepFunnels(m, ts)
      PROVE  Ledger(risk', closed', U)
  <2>1. U = ts /\ closed' = closed
    BY <1>1, <1>6 DEF StepFunnels, Arriving
  <2>2. SameLedger(risk', Rollover(risk, U))
    BY <1>0, <1>1, <1>6, <2>1, LedgerEffects DEF StepFunnels
  <2> QED BY <1>4, <2>1, <2>2
<1>7. ASSUME NEW m \in Mints, NEW p \in Prices, NEW ts \in EventTimes,
             StepTicks(m, p, ts)
      PROVE  Ledger(risk', closed', U)
  BY <1>4, <1>7 DEF StepTicks, Arriving, SameLedger
<1>8. SameLedger(Granted, Rollover(risk, ev.ts))
  <2>1. Checked(risk, ev.ts) \in RiskState
    BY <1>0, RiskTypes
  <2>2. SameLedger(Granted, Checked(risk, ev.ts))
    BY <1>0, <2>1, LedgerEffects DEF Granted
  <2> QED BY <1>0, <2>2, LedgerEffects DEF SameLedger
<1>9. ASSUME StepCuts PROVE Ledger(risk', closed', U)
  <2>1. U = ev.ts /\ closed' = closed
    BY <1>1, <1>9 DEF StepCuts, book
  <2>2. SameLedger(risk', Rollover(risk, U))
    BY <1>0, <1>8, <1>9, <2>1, LedgerEffects DEF StepCuts
  <2> QED BY <1>4, <2>1, <2>2
<1>10. ASSUME NEW p \in Prices, NEW delay \in FillDelays, StepFills(p, delay)
       PROVE  Ledger(risk', closed', U)
  <2>1. /\ U = ev.ts /\ closed' = closed
        /\ risk' = SetOpenPositions(Granted, Cardinality(Held'))
    BY <1>1, <1>10 DEF StepFills, SliceFilled, Held
  <2>2. Granted \in RiskState
    BY <1>0, RiskTypes DEF Granted
  <2>3. SameLedger(risk', Granted)
    BY <1>0, <2>1, <2>2, LedgerEffects
  <2>4. SameLedger(risk', Rollover(risk, U))
    BY <1>8, <2>1, <2>3 DEF SameLedger
  <2> QED BY <1>4, <2>1, <2>4
<1>11. ASSUME NEW m \in Mints, StepFails(m)
       PROVE  Ledger(risk', closed', U)
  <2>1. closed' = closed /\ SameLedger(risk', risk)
    BY <1>0, <1>11, LedgerEffects DEF StepFails
  <2> QED BY <1>4, <2>1
<1>12. ASSUME NEW m \in Mints, NEW p \in Prices, NEW delay \in FillDelays,
              StepSells(m, p, delay)
       PROVE  Ledger(risk', closed', U)
  <2> DEFINE cost == positions[m].cost
             proceeds == (p * positions[m].qty) \div Unit - Fee
             pnl == proceeds - cost
             t == [mint |-> m, cost |-> cost, proceeds |-> proceeds,
                   pnl |-> pnl, day |-> Day(ev.ts)]
             noted == NoteOrder(risk, ev.ts)
             after == RecordRealizedPnl(noted, pnl, ev.ts)
  <2>1. /\ U = ev.ts /\ m \in Held
        /\ closed' = Append(closed, t)
        /\ risk' = SetOpenPositions(after, Cardinality(Held'))
    BY <1>1, <1>12 DEF StepSells, Sold, SellFilled, Held
  <2>2. t \in Trade /\ t.pnl = pnl /\ t.day = Day(ev.ts) /\ pnl \in Int
    <3>1. positions[m].qty \in Int /\ cost \in Int
      BY <1>0, <2>1 DEF Position
    <3>2. p * positions[m].qty \in Int
      BY <3>1, StrategyAssumption
    <3>3. (p * positions[m].qty) \div Unit \in Int
      BY <3>2, StrategyAssumption
    <3>4. Day(ev.ts) \in Int
      BY <1>0, RiskAssumption DEF Day
    <3>5. proceeds \in Int
      BY <3>3, EngineAssumption
    <3> HIDE DEF proceeds, cost
    <3> QED BY <3>1, <3>4, <3>5 DEF Trade
  <2> HIDE DEF t, pnl
  <2>3. noted \in RiskState /\ SameLedger(Rollover(noted, ev.ts), Rollover(risk, ev.ts))
    BY <1>0, RiskTypes, LedgerEffects
  <2> HIDE DEF noted
  <2>4. after \in RiskState /\ Books(after, Rollover(noted, ev.ts), pnl)
    BY <1>0, <2>2, <2>3, SellBooks
  <2> HIDE DEF after
  <2>5. SameLedger(risk', after)
    BY <1>0, <2>1, <2>4, LedgerEffects
  <2> DEFINE r == Rollover(risk, U)
  <2>6. /\ risk'.day = r.day
        /\ risk'.dayPnl = r.dayPnl + t.pnl
        /\ risk'.tripped = (r.tripped \/ LossReached(r.dayPnl + t.pnl))
    BY <2>1, <2>2, <2>3, <2>4, <2>5 DEF SameLedger, Books
  <2>7. r \in RiskState /\ Ledger(r, closed, U) /\ r.day = Day(U) /\ t.day = Day(U)
    BY <1>3, <2>1, <2>2
  <2> HIDE DEF r
  <2>8. Ledger(risk', Append(closed, t), U)
    BY <1>0, <1>1, <2>2, <2>6, <2>7, LedgerBooks
  <2> QED BY <2>1, <2>8
<1>13. ASSUME EndEvent PROVE Ledger(risk', closed', U)
  BY <1>4, <1>13 DEF EndEvent, book, SameLedger
<1>14. ASSUME UNCHANGED vars PROVE Ledger(risk', closed', U)
  BY <1>4, <1>14 DEF vars, SameLedger
<1>15. Ledger(risk', closed', U)
  BY <1>5, <1>6, <1>7, <1>9, <1>10, <1>11, <1>12, <1>13, <1>14, StepCases
<1> QED BY <1>1, <1>15 DEF U

LEMMA LedgerInit == Init => LedgerInv
<1> SUFFICES ASSUME Init PROVE ev.ts <= clock /\ Ledger(risk, closed, Now)
  BY InitType DEF LedgerInv
<1>1. /\ ev.ts = 0 /\ clock = 0 /\ Now = 0 /\ DOMAIN closed = {}
      /\ risk.day = Day(0) /\ risk.dayPnl = 0
  BY DEF Init, Idle, NewRisk, Now
<1>2. SumFunction(DayPnls(closed, risk.day)) = 0
  BY <1>1, SumEmpty DEF SumFunction, DayPnls
<1>3. Day(0) \in Int
  BY RiskAssumption DEF Day
<1> QED BY <1>1, <1>2, <1>3, NoLossAtZero DEF Ledger

LEMMA LedgerIsRight == LedgerInv => DayLedgerMatchesTrades /\ DaysInOrder
BY DEF LedgerInv, Ledger, DayPnls, DayLedgerMatchesTrades, DaysInOrder

\* The daily-loss ledger (risk.rs:94-120) is the P&L of the trades closed on
\* its own day, across rollovers, fills late in the day and sweeps; a day at
\* its limit has tripped the breaker.
THEOREM DayLedgerAlways == Spec => []DayLedgerMatchesTrades
<1> QED BY LedgerIsRight, LedgerInit, LedgerStep, PTL DEF Spec

\* The inductive invariant that TLC checks as a whole holds as a whole: the
\* parts proved one by one, and the order of the days.
THEOREM InductiveAlways == Spec => []Inductive
<1>1. Init => ThrottleInv /\ PageInv
  BY ThrottleInit, PageInit
<1>2. CapInv /\ SizingInv /\ ThrottleInv /\ ExitInv /\ PageInv /\ LedgerInv
          => Inductive
  BY LedgerIsRight
     DEF CapInv, SizingInv, ThrottleInv, SweepInv, ExitInv, PageInv, LedgerInv,
         Inductive
<1> QED BY <1>1, <1>2, CapInit, CapStep, SizingInit, SizingStep, ThrottleStep,
           ExitInit, ExitStep, PageStep, LedgerInit, LedgerStep, PTL DEF Spec
-----------------------------------------------------------------------------
(* Across restarts                                                         *)

\* The book and the ledger are right in the engine and on disk.
RestartMoneyInv ==
    /\ RestartInv
    /\ MoneyInv
    /\ LedgerInv
    /\ SnapshotAccepted
    /\ \A snap \in disk : Ledger(snap.risk, snap.closed, clock)

LEMMA RestartMoneyInit == RInit => RestartMoneyInv
BY RestartInit, MoneyInit, LedgerInit
   DEF RInit, RestartMoneyInv, SnapshotAccepted

\* A booted engine whose book adds up has the other parts of MoneyInv.
LEMMA BootedMoney ==
    ASSUME TypeOK', ev' = Idle, MoneyConserved'
    PROVE  MoneyInv'
BY DEF MoneyInv, SizingInv, FunnelFunded, PositiveBook, MoneyConserved,
       CheckInvariants, Held, Idle

\* What is saved has passed the invariants that a boot tests, and what is
\* restored is the ledger as it was saved, at most a few days old.
LEMMA RestartMoneyStep == RestartMoneyInv /\ [RNext]_rvars => RestartMoneyInv'
<1> SUFFICES ASSUME RestartMoneyInv, [RNext]_rvars PROVE RestartMoneyInv'
  OBVIOUS
<1> USE DEF RestartMoneyInv
<1>0. /\ RestartInv' /\ TypeOK /\ TypeOK' /\ clock \in Int /\ ev.ts <= clock
      /\ \A snap \in disk : snap.risk \in RiskState /\ snap.risk.day \in Int
  <2>1. RestartInv'
    BY RestartStep
  <2>2. TypeOK /\ ev.ts <= clock
    BY DEF LedgerInv
  <2>3. TypeOK'
    BY <2>1 DEF RestartInv, CapInv
  <2>4. clock \in Int
    BY <2>2 DEF TypeOK
  <2>5. \A snap \in disk : snap.risk \in RiskState
    <3>1. \A snap \in disk : Resumable(snap)
      BY DEF RestartInv
    <3> QED BY <3>1 DEF Resumable
  <2>6. \A snap \in disk : snap.risk.day \in Int
    BY <2>5 DEF RiskState
  <2> QED BY <2>1, <2>2, <2>3, <2>4, <2>5, <2>6
<1>1. CASE Run
  <2>1. MoneyInv' /\ LedgerInv' /\ disk' = disk
    BY <1>1, MoneyStep, LedgerStep DEF Run
  <2>2. clock <= clock' /\ clock' \in Int
    BY <1>0, <1>1, ClockStep DEF Run, TypeOK
  <2>3. ASSUME NEW snap \in disk PROVE Ledger(snap.risk, snap.closed, clock')
    BY <1>0, <2>2, <2>3, LedgerKept DEF SameLedger
  <2> QED BY <1>0, <2>1, <2>3 DEF SnapshotAccepted
<1>2. CASE Save
  <2>1. MoneyInv' /\ LedgerInv' /\ disk' = {Snapshot} /\ clock' = clock
          /\ Now = clock
    BY <1>2, MoneyStep, LedgerStep DEF Save, vars, Now
  <2>2. CheckInvariants(Snapshot.equity, Snapshot.deployed,
                        Snapshot.positions, Snapshot.closed)
    BY DEF Snapshot, MoneyInv, MoneyConserved
  <2>3. Ledger(Snapshot.risk, Snapshot.closed, clock)
    <3>1. SameLedger(Snapshot.risk, risk) /\ Snapshot.closed = closed
            /\ risk.day \in Int
      BY <1>0 DEF SameLedger, Snapshot, TypeOK, RiskState
    <3>2. Ledger(risk, closed, clock)
      BY <2>1 DEF LedgerInv
    <3> QED BY <1>0, <3>1, <3>2, LedgerKept
  <2> QED BY <1>0, <2>1, <2>2, <2>3 DEF SnapshotAccepted
<1>3. ASSUME NEW ts \in EventTimes, Reboot(ts)
      PROVE  /\ ts \in Int /\ clock <= ts /\ clock' = ts /\ ev' = Idle
             /\ ev'.ts <= clock' /\ Now' = ts /\ disk' = disk
             /\ \A snap \in disk : Ledger(snap.risk, snap.closed, ts)
  <2>1. ts \in Nat /\ clock <= ts
    BY <1>0, EventTimesType DEF TypeOK
  <2>2. clock' = ts /\ ev' = Idle /\ disk' = disk
    BY <1>3 DEF Reboot
  <2>3. ASSUME NEW snap \in disk PROVE Ledger(snap.risk, snap.closed, ts)
    BY <1>0, <2>1, <2>3, LedgerKept DEF SameLedger
  <2> QED BY <2>1, <2>2, <2>3 DEF Idle, Now
<1>4. ASSUME NEW kill \in BOOLEAN, NEW ts \in EventTimes, BootFlat(kill, ts)
      PROVE  RestartMoneyInv'
  <2>1. /\ Reboot(ts) /\ disk = {}
        /\ equity' = StartEquity /\ deployed' = 0
        /\ DOMAIN positions' = {} /\ DOMAIN closed' = {}
        /\ risk'.day = Day(ts) /\ risk'.dayPnl = 0
    BY <1>4 DEF BootFlat, NewRisk
  <2>2. MoneyConserved'
    <3>1. SumFunction(Pnls(closed')) = 0 /\ SumFunction(Costs(positions')) = 0
      BY <2>1, SumEmpty DEF SumFunction, Pnls, Costs
    <3>2. Sums(equity', deployed', positions', closed')
      BY <2>1, <3>1, RiskAssumption DEF Sums
    <3> QED BY <2>1, <3>2, SumsArePart DEF MoneyConserved
  <2>3. MoneyInv'
    BY <1>0, <1>3, <2>1, <2>2, BootedMoney
  <2>4. Ledger(risk', closed', ts)
    <3>1. SumFunction(DayPnls(closed', risk'.day)) = 0
      BY <2>1, SumEmpty DEF SumFunction, DayPnls
    <3>2. Day(ts) \in Int
      BY <1>3, <2>1, RiskAssumption DEF Day
    <3> QED BY <2>1, <3>1, <3>2, NoLossAtZero DEF Ledger
  <2>5. LedgerInv'
    BY <1>0, <1>3, <2>1, <2>4 DEF LedgerInv
  <2> QED BY <1>0, <1>3, <2>1, <2>3, <2>5 DEF SnapshotAccepted
<1>5. ASSUME NEW snap \in disk, NEW kill \in BOOLEAN, NEW ts \in EventTimes,
             BootRestored(snap, kill, ts)
      PROVE  RestartMoneyInv'
  <2>1. /\ Reboot(ts)
        /\ CheckInvariants(equity', deployed', positions', closed')
        /\ closed' = snap.closed
        /\ risk' = RestoredRisk(snap.risk, kill,
                                Cardinality(DOMAIN snap.positions))
    BY <1>5 DEF BootRestored
  <2>2. MoneyInv'
    <3>1. MoneyConserved'
      BY <2>1 DEF MoneyConserved
    <3> QED BY <1>0, <1>3, <2>1, <3>1, BootedMoney
  <2>3. SameLedger(risk', snap.risk)
    BY <1>0, <2>1 DEF SameLedger, RestoredRisk, RiskState
  <2>4. Ledger(risk', closed', ts)
    BY <1>0, <1>3, <2>1, <2>3, LedgerKept
  <2>5. LedgerInv'
    BY <1>0, <1>3, <2>1, <2>4 DEF LedgerInv
  <2> QED BY <1>0, <1>3, <2>1, <2>2, <2>5 DEF SnapshotAccepted
<1>6. CASE UNCHANGED rvars
  <2>1. UNCHANGED vars /\ disk' = disk /\ clock' = clock
    BY <1>6 DEF rvars, vars
  <2>2. MoneyInv' /\ LedgerInv'
    BY <2>1, MoneyStep, LedgerStep
  <2> QED BY <1>0, <2>1, <2>2 DEF SnapshotAccepted
<1> QED BY <1>1, <1>2, <1>4, <1>5, <1>6 DEF RNext

\* A boot never refuses the engine's own snapshot (engine.rs:91-114): what was
\* saved at any time passes check_invariants.
THEOREM SnapshotsAreAccepted == RSpec => []SnapshotAccepted
<1>1. RestartMoneyInv => SnapshotAccepted
  BY DEF RestartMoneyInv
<1> QED BY <1>1, RestartMoneyInit, RestartMoneyStep, PTL DEF RSpec

\* The book adds up across any number of crashes, at whatever point of an
\* event, and boots from whatever snapshot there was (persist.rs, engine.rs).
THEOREM MoneySurvivesRestarts == RSpec => []MoneyConserved
<1>1. RestartMoneyInv => MoneyConserved
  BY DEF RestartMoneyInv, MoneyInv
<1> QED BY <1>1, RestartMoneyInit, RestartMoneyStep, PTL DEF RSpec

\* So does the daily ledger agree with the trades the engine remembers, also
\* when a boot comes days after the snapshot (risk.rs:94-120, 139-147).
THEOREM DayLedgerSurvivesRestarts == RSpec => []DayLedgerMatchesTrades
<1>1. RestartMoneyInv => DayLedgerMatchesTrades
  BY LedgerIsRight DEF RestartMoneyInv
<1> QED BY <1>1, RestartMoneyInit, RestartMoneyStep, PTL DEF RSpec
=============================================================================
