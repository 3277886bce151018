---------------------------- MODULE LiveExecProofs ----------------------------
(***************************************************************************)
(* Proofs about LiveExec: its types, that it implements Orders and that    *)
(* its book does not drift from the wallet, for any amounts, slippage,     *)
(* tips, timeouts and number of orders.                                    *)
(***************************************************************************)
EXTENDS LiveExec, FiniteSetTheorems, TLAPS

\* What the place of the pipeline says of the order in progress, and what is
\* known of the orders before it.
Begun ==
    /\ pc # "idle" => last \in Ids
    /\ \A o \in Ids : o > last => orders[o] = NoOrder
    /\ \A o \in Ids : o \in 1 .. last => orders[o].side \in {"buy", "sell"}
    /\ \A o \in Ids : orders[o].result = "open" <=> o = last /\ pc # "idle"

BundleKnown ==
    /\ pc \in Stages \cup {"sign"} => This.bundle = "unsent"
    /\ pc \in {"send", "asked", "waiting", "balance"} => ~simulate
    /\ pc = "balance" => This.bundle = "landed"
    /\ \A o \in Ids :
          orders[o].bundle = "flight" => orders[o].result \in {"open", "unknown"}

\* A buy has its amount from the quote on.
Quoted ==
    /\ pc \in {"decimals", "swap", "sign"} /\ This.side = "buy" => This.qty \in Outs
    /\ \A o \in Ids : orders[o].side = "buy" /\ orders[o].bundle # "unsent"
                         => orders[o].qty \in Outs

Inv == TypeOK /\ Begun /\ BundleKnown /\ Quoted

-----------------------------------------------------------------------------
(* What the helpers of the steps do                                        *)

\* A blockhash is fetched or cached, and stays known.
LEMMA BlockhashKnown ==
    ASSUME ages \in Seq(Nat)
    PROVE  /\ Fetched \in Seq(Nat)
           /\ DOMAIN ages \subseteq DOMAIN Fetched
           /\ Blockhash \in DOMAIN Fetched
<1>1. CASE Cached
  BY <1>1 DEF Cached, Fetched, Blockhash
<1>2. CASE ~Cached
  BY <1>2 DEF Fetched, Blockhash
<1> QED BY <1>1, <1>2

\* Time changes ages, not the blockhashes that are known.
LEMMA TimeKeeps ==
    ASSUME ages \in Seq(Nat), left \in 0 .. Timeout, TimePasses
    PROVE  /\ ages' \in Seq(Nat)
           /\ DOMAIN ages' = DOMAIN ages
           /\ left' \in 0 .. Timeout
<1>1. \A h \in DOMAIN ages : Older(ages[h]) \in Nat
  BY DEF Older
<1>2. /\ ages' \in Seq(Nat)
      /\ DOMAIN ages' = DOMAIN ages
  BY <1>1 DEF TimePasses
<1>3. left' \in 0 .. Timeout
  BY LiveExecAssumption DEF TimePasses
<1> QED BY <1>2, <1>3

\* The order in progress is one of the orders.
LEMMA InProgress ==
    ASSUME Inv, pc # "idle"
    PROVE  /\ last \in Ids
           /\ This \in Order
           /\ This.result = "open" /\ This.side \in {"buy", "sell"}
<1>1. last \in Ids
  BY DEF Inv, Begun
<1>2. This \in Order /\ This.result = "open" /\ This.side # "none"
  BY <1>1 DEF Inv, TypeOK, This
<1> QED BY <1>1, <1>2 DEF Order

-----------------------------------------------------------------------------
(* Every step keeps Inv                                                    *)

\* A call that returns keeps Inv, when a fill was simulated or has landed.
LEMMA ReturnsKeeps ==
    ASSUME Inv, pc # "idle",
           NEW r \in {"fill", "rejected", "unknown"}, Returns(r),
           This.bundle = "flight" => r = "unknown",
           wallet' = wallet, settled' = settled,
           ages' \in Seq(Nat), DOMAIN ages \subseteq DOMAIN ages',
           reqId' \in Nat \ {0}, left' = left
    PROVE  Inv'
<1>1. /\ last \in Ids /\ This \in Order
      /\ This.result = "open" /\ This.side \in {"buy", "sell"}
  BY InProgress
<1>2. /\ pc' = "idle" /\ last' = last /\ simulate' = simulate
      /\ orders' = [orders EXCEPT ![last].result = r]
  BY DEF Returns
<1>3. /\ orders' \in [Ids -> Order]
      /\ orders'[last] = [This EXCEPT !.result = r]
      /\ \A o \in Ids : o # last => orders'[o] = orders[o]
  <2>1. orders \in [Ids -> Order]
    BY DEF Inv, TypeOK
  <2>2. [This EXCEPT !.result = r] \in Order
    BY <1>1 DEF Order
  <2> QED BY <1>1, <1>2, <2>1, <2>2 DEF This
<1>4. /\ orders'[last].result = r /\ orders'[last].bundle = This.bundle
      /\ orders'[last].side = This.side /\ orders'[last].qty = This.qty
      /\ orders'[last].hash = This.hash
  BY <1>1, <1>3 DEF Order
<1>5. TypeOK'
  <2>1. book' \in Nat /\ funnel' \in BOOLEAN
    BY <1>1 DEF Returns, Inv, TypeOK, Order
  <2>2. \A o \in Ids : orders'[o].bundle # "unsent" => orders'[o].hash \in DOMAIN ages'
    BY <1>3, <1>4 DEF Inv, TypeOK, This
  <2> QED BY <1>2, <1>3, <2>1, <2>2 DEF Inv, TypeOK
<1>6. Begun'
  BY <1>1, <1>2, <1>3, <1>4 DEF Inv, Begun, This, Ids
<1>7. BundleKnown'
  BY <1>1, <1>2, <1>3, <1>4 DEF Inv, BundleKnown, This, Stages
<1>8. Quoted'
  BY <1>1, <1>2, <1>3, <1>4 DEF Inv, Quoted, This
<1> QED BY <1>5, <1>6, <1>7, <1>8 DEF Inv
\* The order in progress stays the one in progress.
LEMMA ThisStays ==
    ASSUME Inv, pc # "idle", pc' # "idle", last' = last,
           \A o \in Ids : o # last => orders'[o] = orders[o],
           orders'[last].result = "open", orders'[last].side = This.side
    PROVE  Begun'
<1>1. last \in Ids /\ last \in Nat /\ This.side \in {"buy", "sell"}
  BY InProgress DEF Inv, TypeOK
<1>2. \A o \in Ids : o > last => orders'[o] = NoOrder
  BY <1>1 DEF Inv, Begun, Ids
<1>3. \A o \in Ids : o \in 1 .. last => orders'[o].side \in {"buy", "sell"}
  BY <1>1 DEF Inv, Begun
<1>4. \A o \in Ids : orders'[o].result = "open" <=> o = last
  BY DEF Inv, Begun
<1> QED BY <1>1, <1>2, <1>3, <1>4 DEF Begun

\* A new order keeps Inv.
LEMMA StartKeeps ==
    ASSUME Inv, NEW side \in {"buy", "sell"}, NEW qty \in Nat,
           NEW stage \in {"quote", "decimals"}, Start(side, qty, stage),
           stage = "quote" => side = "buy", side = "buy" => stage = "quote"
    PROVE  Inv'
<1> DEFINE new == [NoOrder EXCEPT !.side = side, !.qty = qty, !.result = "open"]
<1>0. /\ pc = "idle" /\ pc' = stage /\ simulate' = simulate
      /\ last < MaxOrders /\ last' = last + 1
      /\ orders' = [orders EXCEPT ![last + 1] = new]
      /\ funnel' = FALSE
      /\ UNCHANGED <<book, wallet, settled, ages, reqId, left>>
  BY DEF Start, chain
<1>1. last + 1 \in Ids /\ last \in Nat /\ last + 1 \in 0 .. MaxOrders
  <2>1. last \in 0 .. MaxOrders /\ MaxOrders \in Nat
    BY LiveExecAssumption DEF Inv, TypeOK
  <2> QED BY <1>0, <2>1 DEF Ids
<1>2. /\ new \in Order /\ new.side = side /\ new.result = "open"
      /\ new.bundle = "unsent"
  BY DEF NoOrder, Order
<1>3. /\ orders' \in [Ids -> Order]
      /\ orders'[last + 1] = new
      /\ \A o \in Ids : o # last + 1 => orders'[o] = orders[o]
  <2>1. orders \in [Ids -> Order]
    BY DEF Inv, TypeOK
  <2> QED BY <1>0, <1>1, <1>2, <2>1
<1>4. TypeOK'
  <2>1. \A o \in Ids : orders'[o].bundle # "unsent" => orders'[o].hash \in DOMAIN ages'
    BY <1>0, <1>2, <1>3 DEF Inv, TypeOK
  <2> HIDE DEF new
  <2>2. pc' \in Stages /\ This'.side # "none" /\ This'.result = "open"
    BY <1>0, <1>2, <1>3 DEF This, Stages
  <2>3. last' > 0
    BY <1>0, <1>1
  <2> QED BY <1>0, <1>1, <1>3, <2>1, <2>2, <2>3 DEF Inv, TypeOK
<1>5. Begun'
  <2> HIDE DEF new
  <2>1. \A o \in Ids : o > last + 1 => orders'[o] = NoOrder
    BY <1>1, <1>3 DEF Inv, Begun, Ids
  <2>2. \A o \in Ids : o \in 1 .. last + 1 => orders'[o].side \in {"buy", "sell"}
    BY <1>1, <1>2, <1>3 DEF Inv, Begun, Ids
  <2>3. \A o \in Ids : orders'[o].result = "open" <=> o = last + 1
    BY <1>0, <1>2, <1>3 DEF Inv, Begun
  <2> QED BY <1>0, <1>1, <2>1, <2>2, <2>3 DEF Begun
<1>6. BundleKnown'
  BY <1>0, <1>1, <1>2, <1>3 DEF Inv, BundleKnown, This, Stages
<1>7. Quoted'
  BY <1>0, <1>1, <1>2, <1>3 DEF Inv, Quoted, This
<1> QED BY <1>4, <1>5, <1>6, <1>7 DEF Inv

\* So does a stage that is passed.
LEMMA StageDoneKeeps ==
    ASSUME Inv, NEW stage \in Stages, StageDone(stage)
    PROVE  Inv'
<1>1. /\ last \in Ids /\ This \in Order
      /\ This.result = "open" /\ This.side \in {"buy", "sell"}
  BY InProgress DEF StageDone, Stages
<1>2. /\ pc = stage /\ last' = last /\ simulate' = simulate
      /\ pc' \in {"quote", "decimals", "swap", "sign"}
      /\ This.side = "buy" /\ pc' \in {"decimals", "swap", "sign"}
            => stage = "quote" \/ stage \in {"decimals", "swap"}
  BY <1>1 DEF StageDone, Following, Stages
<1>3. CASE stage = "quote" /\ This.side = "buy"
  <2>1. PICK q \in Outs : orders' = [orders EXCEPT ![last].qty = q]
    BY <1>3 DEF StageDone
  <2>2. /\ orders' \in [Ids -> Order]
        /\ orders'[last] = [This EXCEPT !.qty = q]
        /\ \A o \in Ids : o # last => orders'[o] = orders[o]
    <3>1. orders \in [Ids -> Order]
      BY DEF Inv, TypeOK
    <3>2. [This EXCEPT !.qty = q] \in Order
      BY <1>1, LiveExecAssumption DEF Order
    <3> QED BY <1>1, <2>1, <3>1, <3>2 DEF This
  <2>3. /\ orders'[last].result = "open" /\ orders'[last].bundle = This.bundle
        /\ orders'[last].side = This.side /\ orders'[last].qty = q
        /\ orders'[last].hash = This.hash
    BY <1>1, <2>2 DEF Order
  <2>4. TypeOK'
    BY <1>1, <1>2, <2>2, <2>3 DEF Inv, TypeOK, This, StageDone, engine, chain, Stages
  <2>5. Begun'
    BY <1>1, <1>2, <2>2, <2>3, ThisStays DEF Stages, This
  <2>6. BundleKnown'
    BY <1>1, <1>2, <2>2, <2>3 DEF Inv, BundleKnown, This, Stages
  <2>7. Quoted'
    BY <1>1, <1>2, <1>3, <2>2, <2>3 DEF Inv, Quoted, This
  <2> QED BY <2>4, <2>5, <2>6, <2>7 DEF Inv
<1>4. CASE ~(stage = "quote" /\ This.side = "buy")
  <2>1. orders' = orders
    BY <1>4 DEF StageDone
  <2>2. TypeOK'
    BY <1>1, <1>2, <2>1 DEF Inv, TypeOK, This, StageDone, engine, chain, Stages
  <2>3. Begun'
    BY <1>1, <1>2, <2>1 DEF Inv, Begun, Stages
  <2>4. BundleKnown'
    BY <1>1, <1>2, <2>1 DEF Inv, BundleKnown, This, Stages
  <2>5. Quoted'
    BY <1>1, <1>2, <1>4, <2>1 DEF Inv, Quoted, This, Stages
  <2> QED BY <2>2, <2>3, <2>4, <2>5 DEF Inv
<1> QED BY <1>3, <1>4

\* So does a bundle that is sent.
LEMMA SentKeeps == ASSUME Inv, Sent PROVE Inv'
<1>1. /\ last \in Ids /\ This \in Order
      /\ This.result = "open" /\ This.side \in {"buy", "sell"}
  BY InProgress DEF Sent
<1>2. /\ pc = "sign" /\ pc' = "send" /\ last' = last
      /\ ~simulate /\ simulate' = simulate /\ ages' = Fetched
  BY DEF Sent
<1>3. /\ ages' \in Seq(Nat) /\ DOMAIN ages \subseteq DOMAIN ages'
      /\ Blockhash \in DOMAIN ages' /\ Blockhash \in Nat
      /\ reqId % TipAccounts \in Nat
  <2>1. ages \in Seq(Nat) /\ Len(ages) \in Nat
    BY DEF Inv, TypeOK
  <2>2. Blockhash \in Nat
    BY <2>1 DEF Blockhash
  <2>3. reqId % TipAccounts \in Nat
    BY LiveExecAssumption DEF Inv, TypeOK
  <2> QED BY <1>2, <2>1, <2>2, <2>3, BlockhashKnown
<1>4. /\ orders' \in [Ids -> Order]
      /\ orders'[last] = [This EXCEPT !.hash = Blockhash,
                                      !.dest = reqId % TipAccounts,
                                      !.bundle = "flight"]
      /\ \A o \in Ids : o # last => orders'[o] = orders[o]
  <2>1. orders \in [Ids -> Order]
    BY DEF Inv, TypeOK
  <2>2. [This EXCEPT !.hash = Blockhash, !.dest = reqId % TipAccounts,
                     !.bundle = "flight"] \in Order
    BY <1>1, <1>3 DEF Order
  <2> QED BY <1>1, <2>1, <2>2 DEF Sent, This
<1>5. /\ orders'[last].result = "open" /\ orders'[last].bundle = "flight"
      /\ orders'[last].side = This.side /\ orders'[last].qty = This.qty
      /\ orders'[last].hash = Blockhash
  BY <1>1, <1>4 DEF Order
<1>6. TypeOK'
  BY <1>1, <1>2, <1>3, <1>4, <1>5 DEF Inv, TypeOK, This, Sent, engine, chain
<1>7. Begun'
  BY <1>1, <1>2, <1>4, <1>5, ThisStays DEF This
<1>8. BundleKnown'
  BY <1>1, <1>2, <1>4, <1>5 DEF Inv, BundleKnown, This, Stages
<1>9. Quoted'
  BY <1>1, <1>2, <1>4, <1>5 DEF Inv, Quoted, This
<1> QED BY <1>6, <1>7, <1>8, <1>9 DEF Inv
\* So does a step from one await of a sent bundle to the next.
LEMMA AwaitKeeps ==
    ASSUME Inv, pc # "idle", pc' \in {"asked", "waiting", "balance"},
           pc \in {"send", "asked", "waiting"},
           pc' = "balance" => This.bundle = "landed",
           UNCHANGED <<orders, last, book, funnel, wallet, settled, reqId, simulate>>,
           ages' \in Seq(Nat), DOMAIN ages' = DOMAIN ages,
           left' \in 0 .. Timeout
    PROVE  Inv'
<1>1. TypeOK'
  BY DEF Inv, TypeOK, This, Stages
<1>2. Begun'
  BY DEF Inv, Begun
<1>3. BundleKnown'
  BY DEF Inv, BundleKnown, This, Stages
<1>4. Quoted'
  BY DEF Inv, Quoted, This
<1> QED BY <1>1, <1>2, <1>3, <1>4 DEF Inv

\* So does the fate of a bundle on its way.
LEMMA FateKeeps ==
    ASSUME Inv, NEW o \in Ids, orders[o].bundle = "flight",
           NEW fate \in {"landed", "dead"},
           orders' = [orders EXCEPT ![o].bundle = fate],
           wallet' \in Nat,
           UNCHANGED <<pc, last, book, funnel, settled, ages, reqId, left, simulate>>
    PROVE  Inv'
<1>1. /\ orders' \in [Ids -> Order]
      /\ orders'[o] = [orders[o] EXCEPT !.bundle = fate]
      /\ \A p \in Ids : p # o => orders'[p] = orders[p]
  <2>1. orders \in [Ids -> Order]
    BY DEF Inv, TypeOK
  <2>2. [orders[o] EXCEPT !.bundle = fate] \in Order
    BY <2>1 DEF Order
  <2> QED BY <2>1, <2>2
<1>2. orders[o] \in Order
  BY DEF Inv, TypeOK
<1>3. /\ orders'[o].result = orders[o].result /\ orders'[o].side = orders[o].side
      /\ orders'[o].qty = orders[o].qty /\ orders'[o].hash = orders[o].hash
      /\ orders'[o].bundle = fate
  BY <1>1, <1>2 DEF Order
<1>4. TypeOK'
  BY <1>1, <1>3 DEF Inv, TypeOK, This
<1>5. Begun'
  <2>1. o <= last
    BY DEF Inv, TypeOK, Begun, NoOrder, Ids
  <2>2. \A p \in Ids : p > last => orders'[p] = NoOrder
    BY <1>1, <2>1 DEF Inv, TypeOK, Begun, Ids
  <2> QED BY <1>1, <1>3, <2>2 DEF Inv, Begun
<1>6. BundleKnown'
  BY <1>1, <1>3 DEF Inv, BundleKnown, This, Stages
<1>7. Quoted'
  BY <1>1, <1>3 DEF Inv, Quoted, This
<1> QED BY <1>4, <1>5, <1>6, <1>7 DEF Inv

\* Every step keeps Inv.
LEMMA InvStep == Inv /\ [Next]_vars => Inv'
<1> SUFFICES ASSUME Inv, [Next]_vars PROVE Inv'
  OBVIOUS
<1>0. /\ ages \in Seq(Nat) /\ reqId \in Nat \ {0} /\ left \in 0 .. Timeout
      /\ wallet \in Nat /\ book \in Nat
  BY DEF Inv, TypeOK
<1>1. CASE Buy
  BY <1>1, StartKeeps DEF Buy
<1>2. CASE Sell
  BY <1>0, <1>2, StartKeeps DEF Sell
<1>3. ASSUME NEW stage \in Stages, StageDone(stage) PROVE Inv'
  BY <1>3, StageDoneKeeps
<1>4. ASSUME NEW stage \in Stages, NEW r \in Failures, StageFails(stage, r) PROVE Inv'
  <2>1. pc # "idle" /\ This.bundle # "flight" /\ Returns(r)
    BY <1>4 DEF StageFails, Stages, Inv, BundleKnown
  <2> QED BY <1>0, <1>4, <2>1, ReturnsKeeps DEF StageFails, Failures, chain
<1>5. ASSUME NEW r \in Failures, SignFails(r) PROVE Inv'
  <2>1. pc # "idle" /\ This.bundle # "flight" /\ Returns(r)
    BY <1>5 DEF SignFails, Inv, BundleKnown
  <2>2. ages' \in Seq(Nat) /\ DOMAIN ages \subseteq DOMAIN ages'
    BY <1>0, <1>5, BlockhashKnown DEF SignFails
  <2> QED BY <1>0, <1>5, <2>1, <2>2, ReturnsKeeps DEF SignFails, Failures, chain
<1>6. CASE Simulated
  <2>1. pc # "idle" /\ This.bundle # "flight" /\ Returns("fill")
    BY <1>6 DEF Simulated, Inv, BundleKnown
  <2>2. ages' \in Seq(Nat) /\ DOMAIN ages \subseteq DOMAIN ages'
    BY <1>0, <1>6, BlockhashKnown DEF Simulated
  <2>3. reqId' \in Nat \ {0}
    BY <1>0, <1>6 DEF Simulated
  <2> QED BY <1>6, <2>1, <2>2, <2>3, ReturnsKeeps DEF Simulated, chain
<1>7. CASE Sent
  BY <1>7, SentKeeps
<1>8. CASE SendFails
  BY <1>0, <1>8, ReturnsKeeps DEF SendFails, chain
<1>9. CASE SendAccepted
  <2>1. left' \in 0 .. Timeout
    BY <1>9, LiveExecAssumption DEF SendAccepted
  <2> QED BY <1>0, <1>9, <2>1, AwaitKeeps DEF SendAccepted, engine, chain
<1>10. CASE StatusLanded
  BY <1>0, <1>10, AwaitKeeps DEF StatusLanded, engine, chain
<1>11. CASE StatusFailed
  BY <1>0, <1>11, ReturnsKeeps DEF StatusFailed, chain
<1>12. CASE StatusUnknown
  <2>1. CASE left = 0
    BY <1>0, <1>12, <2>1, ReturnsKeeps DEF StatusUnknown, chain
  <2>2. CASE left # 0
    BY <1>0, <1>12, <2>2, AwaitKeeps DEF StatusUnknown, engine, chain
  <2> QED BY <2>1, <2>2
<1>13. CASE AskAgain
  <2>1. /\ ages' \in Seq(Nat) /\ DOMAIN ages' = DOMAIN ages
        /\ left' \in 0 .. Timeout
    BY <1>0, <1>13, TimeKeeps DEF AskAgain
  <2> QED BY <1>13, <2>1, AwaitKeeps DEF AskAgain, engine, chain
<1>14. CASE BalanceRead
  <2>1. This.bundle # "flight"
    BY <1>14 DEF BalanceRead, Inv, BundleKnown
  <2> QED BY <1>0, <1>14, <2>1, ReturnsKeeps DEF BalanceRead, chain
<1>15. ASSUME NEW r \in Failures, BalanceFails(r) PROVE Inv'
  <2>1. This.bundle # "flight"
    BY <1>15 DEF BalanceFails, Inv, BundleKnown
  <2> QED BY <1>0, <1>15, <2>1, ReturnsKeeps DEF BalanceFails, Failures, chain
<1>16. ASSUME NEW o \in Ids, Lands(o) PROVE Inv'
  <2>1. orders[o].bundle = "flight" /\ orders[o] \in Order
    BY <1>16 DEF Lands, Inv, TypeOK
  <2>2. CASE orders[o].side = "buy"
    <3>1. orders[o].qty \in Outs
      BY <2>1, <2>2 DEF Inv, Quoted
    <3>2. orders[o].qty \in Nat /\ Slip \in Nat /\ Slip < orders[o].qty
      BY <3>1, LiveExecAssumption
    <3>3. wallet' \in Nat
      BY <1>0, <1>16, <2>2, <3>2 DEF Lands
    <3> QED BY <1>16, <2>1, <3>3, FateKeeps DEF Lands, engine
  <2>3. CASE orders[o].side # "buy"
    <3>1. wallet' \in Nat
      BY <1>0, <1>16, <2>1, <2>3 DEF Lands, Order
    <3> QED BY <1>16, <2>1, <3>1, FateKeeps DEF Lands, engine
  <2> QED BY <2>2, <2>3
<1>17. ASSUME NEW o \in Ids, Dies(o) PROVE Inv'
  BY <1>0, <1>17, FateKeeps DEF Dies, engine, chain
<1>18. CASE Settles
  BY <1>0, <1>18 DEF Settles, engine, Inv, TypeOK, Begun, BundleKnown, Quoted, This
<1>19. CASE Tick
  <2>1. /\ ages' \in Seq(Nat) /\ DOMAIN ages' = DOMAIN ages
        /\ left' \in 0 .. Timeout
    BY <1>0, <1>19, TimeKeeps DEF Tick
  <2> QED BY <1>19, <2>1
          DEF Tick, engine, chain, Inv, TypeOK, Begun, BundleKnown, Quoted, This
<1>20. CASE UNCHANGED vars
  BY <1>20 DEF vars, engine, chain, Inv, TypeOK, Begun, BundleKnown, Quoted, This
<1> QED BY <1>1, <1>2, <1>3, <1>4, <1>5, <1>6, <1>7, <1>8, <1>9, <1>10, <1>11,
           <1>12, <1>13, <1>14, <1>15, <1>16, <1>17, <1>18, <1>19, <1>20
        DEF Next, Before, After, Chain
\* The initial states satisfy Inv.
LEMMA InitInv == Init => Inv
<1> SUFFICES ASSUME Init PROVE Inv
  OBVIOUS
<1>1. NoOrder \in Order
  BY DEF NoOrder, Order
<1>2. \A o \in Ids : orders[o] = NoOrder
  BY DEF Init
<1>3. TypeOK
  <2>1. orders \in [Ids -> Order]
    BY <1>1 DEF Init
  <2>2. \A o \in Ids : orders[o].bundle = "unsent"
    BY <1>2 DEF NoOrder
  <2>3. last \in 0 .. MaxOrders /\ left \in 0 .. Timeout /\ ages \in Seq(Nat)
    BY LiveExecAssumption DEF Init
  <2>4. pc = "idle" /\ funnel \in BOOLEAN /\ simulate \in BOOLEAN
    BY DEF Init
  <2>5. book \in Nat /\ wallet \in Nat /\ settled \in Nat /\ reqId \in Nat \ {0}
    BY DEF Init
  <2> QED BY <2>1, <2>2, <2>3, <2>4, <2>5 DEF TypeOK
<1>4. Begun
  BY <1>2, LiveExecAssumption DEF Init, Begun, NoOrder, Ids
<1>5. BundleKnown /\ Quoted
  BY <1>2 DEF Init, BundleKnown, Quoted, NoOrder, Stages
<1> QED BY <1>3, <1>4, <1>5 DEF Inv

\* Inv holds in every reachable state.
LEMMA InvAlways == Spec => []Inv
BY InitInv, InvStep, PTL DEF Spec

\* Every variable keeps its type, and whatever order is awaited is open and has
\* its blockhash (LiveExecutor, live.rs:1153-1177).
THEOREM TypeCorrect == Spec => []TypeOK
<1>1. Inv => TypeOK
  BY DEF Inv
<1> QED BY <1>1, InvAlways, PTL

-----------------------------------------------------------------------------
(* LiveExec implements Orders                                              *)

\* A call that returns is the end of its order.
LEMMA ReturnsIsFinish ==
    ASSUME Inv, pc # "idle",
           NEW r \in {"fill", "rejected", "unknown"}, Returns(r),
           r = "fill" => simulate \/ This.bundle = "landed"
    PROVE  Contract!Next
<1> DEFINE told == IF simulate /\ r = "fill" THEN "simulated" ELSE r
<1>1. /\ last \in Ids /\ This \in Order /\ This.result = "open"
  BY InProgress
<1>2. /\ simulate' = simulate
      /\ orders' \in [Ids -> Order]
      /\ orders'[last].result = r /\ orders'[last].bundle = This.bundle
      /\ \A o \in Ids : o # last => orders'[o] = orders[o]
  BY <1>1 DEF Returns, Inv, TypeOK, This, Order
<1>3. [o \in Ids |-> ResultOf(o)]' =
          [[o \in Ids |-> ResultOf(o)] EXCEPT ![last] = told]
  BY <1>1, <1>2 DEF ResultOf
<1>4. [o \in Ids |-> orders[o].bundle = "landed"]' =
          [o \in Ids |-> orders[o].bundle = "landed"]
  <2>1. \A o \in Ids : orders'[o].bundle = orders[o].bundle
    BY <1>1, <1>2 DEF This
  <2> QED BY <2>1
<1>5. ResultOf(last) = "open"
  BY <1>1 DEF ResultOf, This
<1>6. told = "fill" => orders[last].bundle = "landed"
  BY DEF This
<1>7. told \in Contract!Results \ {"none", "open"}
  BY DEF Contract!Results
<1> HIDE DEF told
<1>8. Contract!Finish(last, told)
  BY <1>1, <1>3, <1>4, <1>5, <1>6 DEF Contract!Finish
<1> QED BY <1>1, <1>7, <1>8 DEF Contract!Next

\* A new order begins.
LEMMA StartIsBegin ==
    ASSUME Inv, NEW side, NEW qty, NEW stage, Start(side, qty, stage)
    PROVE  Contract!Next
<1>1. /\ last + 1 \in Ids /\ last + 1 > last /\ pc = "idle"
      /\ simulate' = simulate
  BY LiveExecAssumption DEF Start, Ids, Inv, TypeOK
<1>2. /\ orders[last + 1] = NoOrder
      /\ orders'[last + 1].result = "open" /\ orders'[last + 1].bundle = "unsent"
      /\ \A o \in Ids : o # last + 1 => orders'[o] = orders[o]
  BY <1>1 DEF Start, Inv, TypeOK, Begun, NoOrder
<1>3. [o \in Ids |-> ResultOf(o)]' =
          [[o \in Ids |-> ResultOf(o)] EXCEPT ![last + 1] = "open"]
  BY <1>1, <1>2 DEF ResultOf
<1>4. [o \in Ids |-> orders[o].bundle = "landed"]' =
          [o \in Ids |-> orders[o].bundle = "landed"]
  <2>1. \A o \in Ids : (orders'[o].bundle = "landed") = (orders[o].bundle = "landed")
    BY <1>1, <1>2 DEF NoOrder
  <2> QED BY <2>1
<1>5. ResultOf(last + 1) = "none" /\ \A p \in Ids : ResultOf(p) # "open"
  BY <1>1, <1>2 DEF ResultOf, NoOrder, Inv, Begun
<1>6. Contract!Begin(last + 1)
  BY <1>1, <1>3, <1>4, <1>5 DEF Contract!Begin
<1> QED BY <1>1, <1>6 DEF Contract!Next

\* A bundle that lands is of an order that is open or unknown.
LEMMA LandsIsLand ==
    ASSUME Inv, NEW o \in Ids, Lands(o)
    PROVE  Contract!Next
<1>1. /\ orders[o].bundle = "flight" /\ orders[o].result \in {"open", "unknown"}
      /\ orders \in [Ids -> Order] /\ orders[o] \in Order
      /\ simulate' = simulate
      /\ orders' = [orders EXCEPT ![o].bundle = "landed"]
  BY DEF Lands, Inv, TypeOK, BundleKnown
<1>2. /\ orders'[o].bundle = "landed" /\ orders'[o].result = orders[o].result
      /\ \A p \in Ids : p # o => orders'[p] = orders[p]
  BY <1>1 DEF Order
<1>3. [p \in Ids |-> ResultOf(p)]' = [p \in Ids |-> ResultOf(p)]
  <2>1. \A p \in Ids : orders'[p].result = orders[p].result
    BY <1>2
  <2> QED BY <1>1, <2>1 DEF ResultOf
<1>4. [p \in Ids |-> orders[p].bundle = "landed"]' =
          [[p \in Ids |-> orders[p].bundle = "landed"] EXCEPT ![o] = TRUE]
  BY <1>2
<1>5. ResultOf(o) \in {"open", "unknown"}
  BY <1>1 DEF ResultOf
<1>6. Contract!Land(o)
  BY <1>1, <1>3, <1>4, <1>5 DEF Contract!Land
<1> QED BY <1>6 DEF Contract!Next

\* A step that changes no result and lands no bundle is none of the contract's.
LEMMA Stutters ==
    ASSUME simulate' = simulate,
           \A o \in Ids : orders'[o].result = orders[o].result,
           \A o \in Ids : (orders'[o].bundle = "landed") = (orders[o].bundle = "landed")
    PROVE  UNCHANGED Contract!ovars
<1>1. [o \in Ids |-> ResultOf(o)]' = [o \in Ids |-> ResultOf(o)]
  BY DEF ResultOf
<1>2. [o \in Ids |-> orders[o].bundle = "landed"]' =
          [o \in Ids |-> orders[o].bundle = "landed"]
  OBVIOUS
<1> QED BY <1>1, <1>2 DEF Contract!ovars
\* A stage that is passed or a bundle that is sent changes no result.
LEMMA OwnStepStutters ==
    ASSUME Inv, Sent \/ (\E stage \in Stages : StageDone(stage))
    PROVE  UNCHANGED Contract!ovars
<1>1. pc # "idle" /\ This.bundle = "unsent" /\ simulate' = simulate
  BY DEF Sent, StageDone, Stages, Inv, BundleKnown
<1>2. /\ last \in Ids /\ This \in Order /\ orders \in [Ids -> Order]
  BY <1>1, InProgress DEF Inv, TypeOK
<1>3. /\ \A o \in Ids : o # last => orders'[o] = orders[o]
      /\ orders'[last].result = orders[last].result
      /\ orders'[last].bundle # "landed"
  <2>1. CASE Sent
    BY <1>2, <2>1 DEF Sent, Order
  <2>2. CASE \E stage \in Stages : StageDone(stage)
    BY <1>1, <1>2, <2>2 DEF StageDone, This, Order
  <2> QED BY <2>1, <2>2
<1> QED BY <1>1, <1>2, <1>3, Stutters DEF This

\* The fate of a bundle that does not land changes no result.
LEMMA DiesStutters ==
    ASSUME Inv, NEW o \in Ids, Dies(o)
    PROVE  UNCHANGED Contract!ovars
<1>1. /\ orders[o].bundle = "flight" /\ orders \in [Ids -> Order]
      /\ orders[o] \in Order /\ simulate' = simulate
      /\ orders' = [orders EXCEPT ![o].bundle = "dead"]
  BY DEF Dies, Inv, TypeOK
<1>2. /\ orders'[o].bundle = "dead" /\ orders'[o].result = orders[o].result
      /\ \A p \in Ids : p # o => orders'[p] = orders[p]
  BY <1>1 DEF Order
<1> QED BY <1>1, <1>2, Stutters

\* Every step of the executor or of the chain is one of the contract's or none.
LEMMA StepImplements == Inv /\ [Next]_vars => [Contract!Next]_(Contract!ovars)
<1> SUFFICES ASSUME Inv, [Next]_vars
             PROVE  Contract!Next \/ UNCHANGED Contract!ovars
  OBVIOUS
<1>1. CASE Buy \/ Sell
  BY <1>1, StartIsBegin DEF Buy, Sell
<1>2. CASE Sent \/ (\E stage \in Stages : StageDone(stage))
  BY <1>2, OwnStepStutters
<1>3. ASSUME NEW stage \in Stages, NEW r \in Failures, StageFails(stage, r)
      PROVE  Contract!Next
  BY <1>3, ReturnsIsFinish DEF StageFails, Stages, Failures
<1>4. ASSUME NEW r \in Failures, SignFails(r) \/ BalanceFails(r)
      PROVE  Contract!Next
  BY <1>4, ReturnsIsFinish DEF SignFails, BalanceFails, Failures
<1>5. CASE Simulated
  BY <1>5, ReturnsIsFinish DEF Simulated
<1>6. CASE SendFails \/ StatusFailed
  BY <1>6, ReturnsIsFinish DEF SendFails, StatusFailed
<1>7. CASE StatusUnknown
  <2>1. CASE left = 0
    BY <1>7, <2>1, ReturnsIsFinish DEF StatusUnknown
  <2>2. CASE left # 0
    BY <1>7, <2>2, Stutters DEF StatusUnknown
  <2> QED BY <2>1, <2>2
<1>8. CASE BalanceRead
  <2>1. pc # "idle" /\ This.bundle = "landed"
    BY <1>8 DEF BalanceRead, Inv, BundleKnown
  <2> QED BY <1>8, <2>1, ReturnsIsFinish DEF BalanceRead
<1>9. CASE SendAccepted \/ StatusLanded \/ AskAgain
  BY <1>9, Stutters DEF SendAccepted, StatusLanded, AskAgain
<1>10. ASSUME NEW o \in Ids, Lands(o) PROVE Contract!Next
  BY <1>10, LandsIsLand
<1>11. ASSUME NEW o \in Ids, Dies(o) PROVE UNCHANGED Contract!ovars
  BY <1>11, DiesStutters
<1>12. CASE Settles \/ Tick \/ UNCHANGED vars
  BY <1>12, Stutters DEF Settles, Tick, vars
<1> QED BY <1>1, <1>2, <1>3, <1>4, <1>5, <1>6, <1>7, <1>8, <1>9, <1>10, <1>11,
           <1>12
        DEF Next, Before, After, Chain

\* The executor begins as the contract does.
LEMMA InitImplements == Init => Contract!Init
<1> SUFFICES ASSUME Init PROVE Contract!Init
  OBVIOUS
<1>1. \A o \in Ids : ResultOf(o) = "none" /\ orders[o].bundle # "landed"
  BY DEF Init, NoOrder, ResultOf
<1> QED BY <1>1 DEF Contract!Init

\* However calls fail and bundles are late, the engine is told of one end of
\* each order, of a fill only when the bundle has landed, and of no rejection
\* or fill before a bundle that is still to land (exec.rs:20-33, live.rs:1038-
\* 1068, 1338-1396).
THEOREM Implements == Spec => ImplementsOrders
BY InitImplements, StepImplements, InvAlways, PTL
   DEF Spec, ImplementsOrders, Contract!Spec
-----------------------------------------------------------------------------
(* No silent drift                                                         *)

\* The dust tolerated is less than half of any slice that is bought.  The
\* default of HFM_RECONCILE_DUST_TOKENS is one millionth of a token.
DustIsSmall == \A q \in Outs : 2 * Dust < q

\* Every bundle that landed is of an order reported filled, or not yet
\* reported.
Clean == ~simulate /\ \A o \in Landed : orders[o].result \in {"fill", "open"}

\* The bundle of the order in progress has landed.
Bought == pc # "idle" /\ This.bundle = "landed" /\ This.side = "buy"
Sold   == pc # "idle" /\ This.bundle = "landed" /\ This.side = "sell"

\* How far the slippage of the book's slices can take the wallet off.
Off == Slip * Cardinality(BookSlices)

\* A sell is of all there is in the book.
SellsAll ==
    /\ pc # "idle" /\ This.side = "sell" => This.qty = book /\ book > 0
    /\ book = 0 => BookSlices = {}

\* Up to slippage and dust, the wallet holds the book and what was bought.
WalletMatches ==
    /\ ~Bought /\ ~Sold => book - Off <= wallet /\ wallet <= book + Off + Dust
    /\ Bought => /\ book + This.qty - (Off + Slip) <= wallet
                 /\ wallet <= book + This.qty + (Off + Slip) + Dust

\* A balance that a reconciliation accepts is not one from before the bundle:
\* with an empty book it was too low, with a book it was too high.
BalanceIsTelling ==
    /\ book = 0 => settled <= Dust \/ (Bought /\ settled = wallet)
    /\ book > 0 /\ ~Sold => settled > Dust /\ wallet > Dust
    /\ Sold => settled > Dust \/ settled = wallet

DriftInv == Inv /\ SellsAll /\ (Clean => WalletMatches /\ BalanceIsTelling)

\* The slices of the book depend on the sides of the orders and their fills.
LEMMA SlicesSame ==
    ASSUME TypeOK, last' = last,
           \A o \in Ids : /\ orders'[o].side = orders[o].side
                          /\ orders'[o].result = "fill" <=> orders[o].result = "fill"
    PROVE  BookSlices' = BookSlices
<1>1. \A o \in Ids : o .. last \subseteq Ids
  BY LiveExecAssumption DEF TypeOK, Ids
<1> QED BY <1>1 DEF BookSlices

\* There are finitely many of them.
LEMMA OffType ==
    /\ IsFiniteSet(BookSlices) /\ Cardinality(BookSlices) \in Nat
    /\ Off \in Nat
    /\ BookSlices = {} => Off = 0
<1>1. IsFiniteSet(Ids) /\ BookSlices \subseteq Ids
  <2>1. 1 \in Int /\ MaxOrders \in Int
    BY LiveExecAssumption
  <2>2. IsFiniteSet(1 .. MaxOrders)
    BY <2>1, FS_Interval
  <2>3. BookSlices \subseteq Ids
    BY DEF BookSlices
  <2> QED BY <2>2, <2>3 DEF Ids
<1>2. IsFiniteSet(BookSlices)
  BY <1>1, FS_Subset
<1>3. Cardinality(BookSlices) \in Nat /\ Slip \in Nat
  BY <1>2, FS_CardinalityType, LiveExecAssumption
<1>4. Off \in Nat
  BY <1>3 DEF Off
<1>5. BookSlices = {} => Off = 0
  BY FS_EmptySet, LiveExecAssumption DEF Off
<1> QED BY <1>2, <1>3, <1>4, <1>5

\* Nothing is told, bought or sold; a balance may catch up with the wallet.
Calm ==
    /\ last' = last /\ book' = book /\ wallet' = wallet /\ simulate' = simulate
    /\ settled' = settled \/ settled' = wallet
    /\ (pc' # "idle") <=> (pc # "idle")
    /\ \A o \in Ids : /\ orders'[o].side = orders[o].side
                      /\ orders'[o].result = orders[o].result
                      /\ (orders'[o].bundle = "landed") <=> (orders[o].bundle = "landed")
    /\ pc # "idle" /\ (This.side = "sell" \/ This.bundle = "landed")
           => orders'[last].qty = This.qty

LEMMA CalmDrift == ASSUME DriftInv, Inv', Calm PROVE DriftInv'
<1>0. /\ book \in Nat /\ wallet \in Nat /\ settled \in Nat /\ Dust \in Nat
      /\ pc # "idle" => last \in Ids
      /\ TypeOK
  BY LiveExecAssumption DEF DriftInv, Inv, TypeOK, Begun
<1>1. BookSlices' = BookSlices /\ Off' = Off
  <2>1. BookSlices' = BookSlices
    BY <1>0, SlicesSame DEF Calm
  <2> QED BY <2>1 DEF Off
<1>2. /\ Bought' <=> Bought
      /\ Sold' <=> Sold
      /\ Bought => This'.qty = This.qty
  BY <1>0 DEF Calm, Bought, Sold, This
<1>3. SellsAll'
  BY <1>0, <1>1 DEF Calm, SellsAll, This, DriftInv
<1>4. ASSUME Clean' PROVE WalletMatches' /\ BalanceIsTelling'
  <2>1. WalletMatches /\ BalanceIsTelling
    <3>1. Clean
      BY <1>4 DEF Calm, Clean, Landed
    <3> QED BY <3>1 DEF DriftInv
  <2>2. WalletMatches'
    BY <1>1, <1>2, <2>1 DEF Calm, WalletMatches
  <2>3. BalanceIsTelling'
    <3>1. CASE settled' = settled
      BY <1>2, <2>1, <3>1 DEF Calm, BalanceIsTelling
    <3>2. CASE settled' = wallet
      <4>1. book = 0 /\ ~Bought => wallet <= Dust
        <5> SUFFICES ASSUME book = 0, ~Bought PROVE wallet <= Dust
          OBVIOUS
        <5>1. ~Sold /\ BookSlices = {}
          BY DEF DriftInv, SellsAll, Sold
        <5>2. Off = 0
          BY <5>1, OffType
        <5> QED BY <1>0, <2>1, <5>1, <5>2 DEF WalletMatches
      <4> QED BY <1>2, <2>1, <3>2, <4>1 DEF Calm, BalanceIsTelling
    <3> QED BY <3>1, <3>2 DEF Calm
  <2> QED BY <2>2, <2>3
<1> QED BY <1>3, <1>4 DEF DriftInv

\* A new order has no bundle yet, and a sell is of the book.
LEMMA StartDrift ==
    ASSUME DriftInv, Inv', NEW side \in {"buy", "sell"}, NEW qty \in Nat,
           NEW stage \in {"quote", "decimals"}, Start(side, qty, stage),
           side = "sell" => qty = book /\ book > 0
    PROVE  DriftInv'
<1>0. /\ pc = "idle" /\ last' = last + 1 /\ pc' # "idle"
      /\ last \in Nat /\ last + 1 \in Ids /\ TypeOK
      /\ UNCHANGED <<book, wallet, settled, simulate>>
  <2>1. TypeOK /\ last \in Nat
    BY DEF DriftInv, Inv, TypeOK
  <2>2. pc = "idle" /\ last' = last + 1 /\ pc' # "idle" /\ last < MaxOrders
    BY DEF Start
  <2>3. last + 1 \in Ids
    BY <2>1, <2>2, LiveExecAssumption DEF Ids
  <2>4. UNCHANGED <<book, wallet, settled, simulate>>
    BY DEF Start, chain
  <2> QED BY <2>1, <2>2, <2>3, <2>4
<1>1. /\ orders'[last + 1].side = side /\ orders'[last + 1].qty = qty
      /\ orders'[last + 1].result = "open" /\ orders'[last + 1].bundle = "unsent"
      /\ \A o \in Ids : o # last + 1 => orders'[o] = orders[o]
  BY <1>0 DEF Start, TypeOK, NoOrder
<1>2. orders[last + 1] = NoOrder
  BY <1>0 DEF DriftInv, Inv, Begun
<1>3. BookSlices' = BookSlices /\ Off' = Off
  <2>1. ASSUME NEW o \in Ids
        PROVE  o \in BookSlices' <=> o \in BookSlices
    <3>1. CASE o = last + 1
      BY <1>1, <1>2, <3>1 DEF BookSlices, NoOrder
    <3>2. CASE o # last + 1
      <4>1. orders'[o] = orders[o]
        BY <1>1, <3>2
      <4>2. o .. last \subseteq Ids \ {last + 1}
        BY <1>0, LiveExecAssumption DEF TypeOK, Ids
      <4>3. \A p \in o .. last : orders'[p] = orders[p]
        BY <1>1, <4>2
      <4>4. CASE o > last + 1
        <5>1. orders[o].result # "fill" /\ orders'[o].result # "fill"
          BY <1>0, <4>1, <4>4 DEF DriftInv, Inv, Begun, NoOrder
        <5> QED BY <5>1 DEF BookSlices
      <4>5. CASE ~(o > last + 1)
        <5>1. o .. last' = (o .. last) \cup {last + 1}
          BY <1>0, <4>5 DEF Ids
        <5>2. /\ \A p \in o .. last' : p \in o .. last \/ p = last + 1
              /\ \A p \in o .. last : p \in o .. last'
          BY <5>1
        <5>3. (\A p \in o .. last' : ~(orders'[p].side = "sell"
                                          /\ orders'[p].result = "fill"))
              <=> (\A p \in o .. last : ~(orders[p].side = "sell"
                                          /\ orders[p].result = "fill"))
          BY <1>1, <4>3, <5>2
        <5> QED BY <4>1, <5>3 DEF BookSlices
      <4> QED BY <4>4, <4>5
    <3> QED BY <3>1, <3>2
  <2>2. BookSlices' = BookSlices
    BY <2>1 DEF BookSlices
  <2> QED BY <2>2 DEF Off
<1>4. ~Bought /\ ~Sold /\ ~Bought' /\ ~Sold'
  BY <1>0, <1>1 DEF Bought, Sold, This
<1>5. SellsAll'
  BY <1>0, <1>1, <1>3 DEF DriftInv, SellsAll, This
<1>6. Clean' => Clean
  <2>1. Landed' = Landed /\ \A o \in Landed : orders'[o].result = orders[o].result
    BY <1>1, <1>2 DEF Landed, NoOrder
  <2> QED BY <1>0, <2>1 DEF Clean
<1> QED BY <1>0, <1>3, <1>4, <1>5, <1>6
        DEF DriftInv, WalletMatches, BalanceIsTelling

\* A filled buy is one more slice of the book; a filled sell ends them all.
LEMMA SlicesAfter ==
    ASSUME Inv, pc # "idle", last' = last,
           \A o \in Ids : /\ orders'[o].side = orders[o].side
                          /\ o # last => orders'[o].result = orders[o].result,
           orders'[last].result = "fill"
    PROVE  /\ last \notin BookSlices
           /\ This.side = "buy" => BookSlices' = BookSlices \cup {last}
           /\ This.side = "sell" => BookSlices' = {}
<1>1. /\ last \in Ids /\ last \in Nat
      /\ This.result = "open" /\ This.side \in {"buy", "sell"}
      /\ \A o \in Ids : o .. last \subseteq Ids
  BY InProgress, LiveExecAssumption DEF Inv, TypeOK, Ids
<1>2. last \notin BookSlices
  BY <1>1 DEF BookSlices, This
<1>3. ASSUME This.side = "buy" PROVE BookSlices' = BookSlices \cup {last}
  <2>1. ASSUME NEW o \in Ids, o # last
        PROVE  o \in BookSlices' <=> o \in BookSlices
    <3>1. \A p \in o .. last :
             (orders'[p].side = "sell" /\ orders'[p].result = "fill")
                 <=> (orders[p].side = "sell" /\ orders[p].result = "fill")
      BY <1>1, <1>3 DEF This
    <3> QED BY <2>1, <3>1 DEF BookSlices
  <2>2. last \in BookSlices'
    <3>1. \A p \in last .. last : p = last
      BY <1>1
    <3> QED BY <1>1, <1>3, <3>1 DEF BookSlices, This
  <2> QED BY <1>1, <2>1, <2>2 DEF BookSlices
<1>4. ASSUME This.side = "sell" PROVE BookSlices' = {}
  <2>1. ASSUME NEW o \in Ids, orders'[o].result = "fill", o \notin 1 .. last
        PROVE  FALSE
    <3>1. o > last
      BY <1>1, <2>1 DEF Ids
    <3>2. orders[o] = NoOrder /\ o # last
      BY <1>1, <3>1 DEF Inv, Begun, Ids
    <3> QED BY <2>1, <3>2 DEF NoOrder
  <2>2. \A o \in 1 .. last : last \in o .. last
    BY <1>1
  <2> QED BY <1>1, <1>4, <2>1, <2>2 DEF BookSlices, This
<1> QED BY <1>2, <1>3, <1>4

\* A call that returns: a fill moves the bought or sold tokens into the book,
\* and its balance is one from after the bundle.
LEMMA ReturnsDrift ==
    ASSUME DustIsSmall, DriftInv, Inv', pc # "idle",
           NEW r \in {"fill", "rejected", "unknown"}, Returns(r),
           This.bundle = "landed" /\ r = "fill" => Reconciled,
           r = "fill" => simulate \/ This.bundle = "landed",
           This.side = "buy" /\ r = "fill" => This.qty \in Outs,
           wallet' = wallet, settled' = settled
    PROVE  DriftInv'
<1>0. /\ book \in Nat /\ wallet \in Nat /\ settled \in Nat /\ Dust \in Nat
      /\ Slip \in Nat /\ Outs \subseteq Nat \ {0}
      /\ last \in Ids /\ This \in Order /\ This.qty \in Nat
      /\ This.result = "open" /\ This.side \in {"buy", "sell"}
      /\ orders \in [Ids -> Order] /\ TypeOK /\ Inv
  <2>1. Inv
    BY DEF DriftInv
  <2> QED BY <2>1, InProgress, LiveExecAssumption DEF Inv, TypeOK, Order
<1>1. /\ pc' = "idle" /\ last' = last /\ simulate' = simulate
      /\ orders'[last].result = r
      /\ \A o \in Ids : o # last => orders'[o].result = orders[o].result
      /\ \A o \in Ids : /\ orders'[o].side = orders[o].side
                        /\ orders'[o].bundle = orders[o].bundle
  BY <1>0 DEF Returns, Order
<1>2. ~Bought' /\ ~Sold'
  BY <1>1 DEF Bought, Sold
<1>3. Clean' => Clean /\ (This.bundle = "landed" => r = "fill")
  BY <1>0, <1>1 DEF Clean, Landed, This
<1>4. CASE r # "fill"
  <2>1. book' = book
    BY <1>4 DEF Returns
  <2>2. BookSlices' = BookSlices /\ Off' = Off
    <3>1. BookSlices' = BookSlices
      BY <1>0, <1>1, <1>4, SlicesSame DEF This
    <3> QED BY <3>1 DEF Off
  <2>3. SellsAll'
    BY <1>1, <2>1, <2>2 DEF DriftInv, SellsAll
  <2>4. Clean' => ~Bought /\ ~Sold
    BY <1>3, <1>4 DEF Bought, Sold
  <2> QED BY <1>2, <1>3, <2>1, <2>2, <2>3, <2>4
          DEF DriftInv, WalletMatches, BalanceIsTelling
<1>5. CASE r = "fill" /\ This.side = "buy"
  <2>1. /\ book' = book + This.qty /\ This.qty \in Outs /\ This.qty > 0
        /\ 2 * Dust < This.qty
    BY <1>0, <1>5 DEF Returns, DustIsSmall
  <2>2. BookSlices' = BookSlices \cup {last} /\ last \notin BookSlices
    BY <1>0, <1>1, <1>5, SlicesAfter
  <2>3. Off' = Off + Slip /\ Off \in Nat
    <3>1. Cardinality(BookSlices \cup {last}) = Cardinality(BookSlices) + 1
      BY <2>2, OffType, FS_AddElement
    <3>2. Slip * (Cardinality(BookSlices) + 1) = Slip * Cardinality(BookSlices) + Slip
      BY <1>0, OffType
    <3> QED BY <2>2, <3>1, <3>2, OffType DEF Off
  <2>4. SellsAll'
    BY <1>0, <1>1, <2>1 DEF SellsAll
  <2>5. ASSUME Clean' PROVE WalletMatches' /\ BalanceIsTelling'
    <3>1. Bought /\ Clean /\ ~Sold
      BY <1>0, <1>1, <1>3, <1>5, <2>5 DEF Bought, Sold, Clean
    <3>2. WalletMatches /\ BalanceIsTelling
      BY <3>1 DEF DriftInv
    <3>3. WalletMatches'
      BY <1>0, <1>2, <2>1, <2>3, <3>1, <3>2 DEF WalletMatches
    <3>4. settled + Dust >= This.qty
      BY <1>5, <3>1 DEF Bought, Reconciled
    <3>5. settled > Dust /\ wallet > Dust
      BY <1>0, <2>1, <3>1, <3>2, <3>4 DEF BalanceIsTelling
    <3>6. BalanceIsTelling'
      BY <1>0, <1>2, <2>1, <3>5 DEF BalanceIsTelling
    <3> QED BY <3>3, <3>6
  <2> QED BY <2>4, <2>5 DEF DriftInv
<1>6. CASE r = "fill" /\ This.side = "sell"
  <2>1. book' = 0
    BY <1>6 DEF Returns
  <2>2. BookSlices' = {} /\ Off' = 0
    <3>1. BookSlices' = {}
      BY <1>0, <1>1, <1>6, SlicesAfter
    <3>2. Cardinality({}) = 0
      BY FS_EmptySet
    <3> QED BY <1>0, <3>1, <3>2 DEF Off
  <2>3. SellsAll'
    BY <1>1, <2>2 DEF SellsAll
  <2>4. ASSUME Clean' PROVE WalletMatches' /\ BalanceIsTelling'
    <3>1. Sold /\ Clean
      BY <1>1, <1>3, <1>6, <2>4 DEF Sold, Clean
    <3>2. settled > Dust \/ settled = wallet
      BY <3>1 DEF DriftInv, BalanceIsTelling
    <3>3. settled <= Dust
      BY <1>6, <3>1 DEF Sold, Reconciled
    <3>4. wallet <= Dust
      BY <1>0, <3>2, <3>3
    <3>5. WalletMatches'
      BY <1>0, <1>2, <2>1, <2>2, <3>4 DEF WalletMatches
    <3>6. BalanceIsTelling'
      BY <1>2, <2>1, <3>3 DEF BalanceIsTelling
    <3> QED BY <3>5, <3>6
  <2> QED BY <2>3, <2>4 DEF DriftInv
<1> QED BY <1>0, <1>4, <1>5, <1>6

\* A bundle that lands is the open order's, or its order was told otherwise.
LEMMA LandsDrift ==
    ASSUME DriftInv, Inv', NEW o \in Ids, Lands(o)
    PROVE  DriftInv'
<1>0. /\ book \in Nat /\ wallet \in Nat /\ settled \in Nat /\ Dust \in Nat
      /\ Slip \in Nat /\ orders \in [Ids -> Order] /\ TypeOK /\ Inv
      /\ Off \in Nat
  BY OffType, LiveExecAssumption DEF DriftInv, Inv, TypeOK
<1>1. /\ orders[o].bundle = "flight"
      /\ UNCHANGED <<pc, last, book, settled, simulate>>
      /\ orders'[o].bundle = "landed"
      /\ \A p \in Ids : p # o => orders'[p].bundle = orders[p].bundle
      /\ \A p \in Ids : /\ orders'[p].side = orders[p].side
                        /\ orders'[p].qty = orders[p].qty
                        /\ orders'[p].result = orders[p].result
  BY <1>0 DEF Lands, engine, Order
<1>2. BookSlices' = BookSlices /\ Off' = Off
  <2>1. BookSlices' = BookSlices
    BY <1>0, <1>1, SlicesSame
  <2> QED BY <2>1 DEF Off
<1>3. SellsAll'
  <2>1. pc # "idle" => last \in Ids
    BY <1>0 DEF Inv, Begun
  <2> QED BY <1>1, <1>2, <2>1 DEF DriftInv, SellsAll, This
<1>4. ASSUME Clean' PROVE WalletMatches' /\ BalanceIsTelling'
  <2>1. orders[o].result = "open" /\ Clean
    <3>1. orders[o].result \in {"open", "unknown"}
      BY <1>0, <1>1 DEF Inv, BundleKnown
    <3> QED BY <1>1, <1>4, <3>1 DEF Clean, Landed
  <2>2. o = last /\ pc # "idle"
    BY <1>0, <2>1 DEF Inv, Begun
  <2>3. /\ ~Bought /\ ~Sold
        /\ WalletMatches /\ BalanceIsTelling
        /\ This.side \in {"buy", "sell"}
    BY <1>0, <1>1, <2>1, <2>2, InProgress DEF Bought, Sold, This, DriftInv
  <2>4. CASE This.side = "buy"
    <3>1. PICK got \in This.qty - Slip .. This.qty + Slip : wallet' = wallet + got
      BY <2>2, <2>4 DEF Lands, This
    <3>2. Bought' /\ ~Sold' /\ This'.qty = This.qty
      BY <1>1, <2>2, <2>4 DEF Bought, Sold, This
    <3>3. This.qty \in Nat /\ Slip < This.qty
      <4>1. This.qty \in Outs
        BY <1>0, <1>1, <2>2, <2>4 DEF Inv, Quoted, This
      <4> QED BY <4>1, LiveExecAssumption
    <3>4. book - Off <= wallet /\ wallet <= book + Off + Dust
      BY <2>3 DEF WalletMatches
    <3>5. WalletMatches'
      <4>1. /\ book + This.qty - (Off + Slip) <= wallet'
            /\ wallet' <= book + This.qty + (Off + Slip) + Dust
        BY <1>0, <3>1, <3>3, <3>4
      <4> QED BY <1>1, <1>2, <3>2, <4>1 DEF WalletMatches
    <3>6. wallet' >= wallet /\ wallet' \in Nat
      BY <1>0, <3>1, <3>3
    <3>7. BalanceIsTelling'
      BY <1>0, <1>1, <2>3, <3>2, <3>6 DEF BalanceIsTelling
    <3> QED BY <3>5, <3>7
  <2>5. CASE This.side = "sell"
    <3>1. Sold' /\ ~Bought'
      BY <1>1, <2>2, <2>5 DEF Bought, Sold, This
    <3>2. book > 0
      BY <2>2, <2>5 DEF DriftInv, SellsAll
    <3>3. settled > Dust
      BY <2>3, <3>2 DEF BalanceIsTelling
    <3> QED BY <1>0, <1>1, <3>1, <3>2, <3>3 DEF WalletMatches, BalanceIsTelling
  <2> QED BY <2>3, <2>4, <2>5
<1> QED BY <1>3, <1>4 DEF DriftInv

LEMMA DriftStep ==
    ASSUME DustIsSmall
    PROVE  DriftInv /\ [Next]_vars => DriftInv'
<1> SUFFICES ASSUME DriftInv, [Next]_vars PROVE DriftInv'
  OBVIOUS
<1>0. /\ Inv /\ Inv' /\ book \in Nat /\ orders \in [Ids -> Order]
      /\ pc # "idle" => last \in Ids
  BY InvStep DEF DriftInv, Inv, TypeOK, Begun
<1>1. CASE Buy
  BY <1>0, <1>1, StartDrift DEF Buy
<1>2. CASE Sell
  BY <1>0, <1>2, StartDrift DEF Sell
<1>3. ASSUME NEW stage \in Stages, StageDone(stage) PROVE DriftInv'
  <2>1. /\ pc # "idle" /\ pc' # "idle" /\ last \in Ids
        /\ This.bundle = "unsent" /\ This.side \in {"buy", "sell"}
    BY <1>0, <1>3, InProgress DEF StageDone, Stages, Following, Inv, BundleKnown
  <2>2. Calm
    BY <1>0, <1>3, <2>1 DEF StageDone, Calm, This, Order, engine, chain
  <2> QED BY <1>0, <2>2, CalmDrift
<1>4. ASSUME NEW stage \in Stages, NEW r \in Failures, StageFails(stage, r)
      PROVE  DriftInv'
  BY <1>0, <1>4, ReturnsDrift DEF StageFails, Stages, Failures, chain
<1>5. ASSUME NEW r \in Failures, SignFails(r) PROVE DriftInv'
  BY <1>0, <1>5, ReturnsDrift DEF SignFails, Failures, chain
<1>6. CASE Simulated
  <2>1. This.bundle = "unsent" /\ (This.side = "buy" => This.qty \in Outs)
    BY <1>0, <1>6 DEF Simulated, Inv, BundleKnown, Quoted
  <2> QED BY <1>0, <1>6, <2>1, ReturnsDrift DEF Simulated, chain
<1>7. CASE Sent
  <2>1. pc # "idle" /\ pc' # "idle" /\ last \in Ids /\ This.bundle = "unsent"
    BY <1>0, <1>7 DEF Sent, Inv, BundleKnown
  <2>2. Calm
    BY <1>0, <1>7, <2>1 DEF Sent, Calm, This, Order, engine, chain
  <2> QED BY <1>0, <2>2, CalmDrift
<1>8. CASE SendFails
  BY <1>0, <1>8, ReturnsDrift DEF SendFails, chain
<1>9. CASE SendAccepted \/ StatusLanded \/ AskAgain
  <2>1. Calm
    BY <1>9 DEF SendAccepted, StatusLanded, AskAgain, Calm, This, engine, chain
  <2> QED BY <1>0, <2>1, CalmDrift
<1>10. CASE StatusFailed
  BY <1>0, <1>10, ReturnsDrift DEF StatusFailed, chain
<1>11. CASE StatusUnknown
  <2>1. CASE left = 0
    BY <1>0, <1>11, <2>1, ReturnsDrift DEF StatusUnknown, chain
  <2>2. CASE left # 0
    <3>1. Calm
      BY <1>11, <2>2 DEF StatusUnknown, Calm, This, engine, chain
    <3> QED BY <1>0, <3>1, CalmDrift
  <2> QED BY <2>1, <2>2
<1>12. CASE BalanceRead
  <2>1. /\ pc # "idle" /\ This.bundle = "landed" /\ last \in Ids
        /\ This.side = "buy" => This.qty \in Outs
    BY <1>0, <1>12 DEF BalanceRead, Inv, BundleKnown, Quoted, This
  <2>2. PICK r \in {"fill", "unknown"} : Returns(r) /\ (r = "fill" => Reconciled)
    BY <1>12 DEF BalanceRead
  <2> QED BY <1>0, <1>12, <2>1, <2>2, ReturnsDrift DEF BalanceRead, chain
<1>13. ASSUME NEW r \in Failures, BalanceFails(r) PROVE DriftInv'
  BY <1>0, <1>13, ReturnsDrift DEF BalanceFails, Failures, chain
<1>14. ASSUME NEW o \in Ids, Lands(o) PROVE DriftInv'
  BY <1>0, <1>14, LandsDrift
<1>15. ASSUME NEW o \in Ids, Dies(o) PROVE DriftInv'
  <2>1. Calm
    BY <1>0, <1>15 DEF Dies, Calm, This, Order, engine, chain
  <2> QED BY <1>0, <2>1, CalmDrift
<1>16. CASE Settles \/ Tick \/ UNCHANGED vars
  <2>1. Calm
    BY <1>16 DEF Settles, Tick, vars, Calm, This, engine, chain
  <2> QED BY <1>0, <2>1, CalmDrift
<1> QED BY <1>1, <1>2, <1>3, <1>4, <1>5, <1>6, <1>7, <1>8, <1>9, <1>10, <1>11,
           <1>12, <1>13, <1>14, <1>15, <1>16
        DEF Next, Before, After, Chain

LEMMA DriftInit == Init => DriftInv
<1> SUFFICES ASSUME Init PROVE DriftInv
  OBVIOUS
<1>1. /\ Inv /\ pc = "idle" /\ book = 0 /\ wallet = 0 /\ settled = 0
      /\ Dust \in Nat
  BY InitInv, LiveExecAssumption DEF Init
<1>2. BookSlices = {}
  BY DEF Init, NoOrder, BookSlices
<1>3. Off = 0
  BY <1>2, OffType
<1> QED BY <1>1, <1>2, <1>3
        DEF DriftInv, SellsAll, WalletMatches, BalanceIsTelling, Bought, Sold

\* No silent drift (live.rs:1299-1305), for any amounts, slippage, lost calls
\* and late balances: while every bundle that landed is of an order that was
\* reported filled, the book differs from the wallet by the slippage of its
\* own slices and by the dust of the last sell.  The dust must be less than
\* half of any slice bought: a larger one lets a balance from before the
\* bundle pass for one after it.
THEOREM NoDriftIsSilent ==
    ASSUME DustIsSmall
    PROVE  Spec => []NoSilentDrift
<1>1. DriftInv => NoSilentDrift
  <2> SUFFICES ASSUME DriftInv, pc = "idle", ~simulate,
                      \A o \in Landed : orders[o].result = "fill"
               PROVE  book - Off <= wallet /\ wallet <= book + Off + Dust
    BY DEF NoSilentDrift, Off
  <2>1. Clean /\ ~Bought /\ ~Sold
    BY DEF Clean, Bought, Sold
  <2> QED BY <2>1 DEF DriftInv, WalletMatches
<1> QED BY <1>1, DriftInit, DriftStep, PTL DEF Spec
=============================================================================
