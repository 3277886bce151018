----------------------------- MODULE SinksProofs ------------------------------
(***************************************************************************)
(* Proofs about the sinks of what goes wrong and what was done: Alerts, for*)
(* any kinds, window and number of calls, and AuditTrail, for any depth of *)
(* the channel and any number of records, both across restarts.            *)
(*                                                                         *)
(* An alert is left out only for one that was logged (LastIsLatest).  The  *)
(* records of the mirror flow from the channel through the INSERT under way*)
(* to the table and keep their order (Flow); a record is missing from the  *)
(* table while it flows or because it was counted (Counted).               *)
(***************************************************************************)
EXTENDS Alerts, AuditTrail, FiniteSetTheorems, TLAPS

-----------------------------------------------------------------------------
(* Alerts                                                                  *)

\* The logged alerts of kind k in the running process.
Own(i, k) == fires[i].new /\ fires[i].kind = k /\ fires[i].life = alertLife

\* last_sent is the time of the latest of them.
LastIsLatest ==
    \A k \in AlertKinds :
        IF lastFired[k] = Never
        THEN \A i \in DOMAIN fires : ~Own(i, k)
        ELSE /\ lastFired[k] \in 0 .. alertNow
             /\ \E i \in DOMAIN fires : Own(i, k) /\ fires[i].at = lastFired[k]
             /\ \A i \in DOMAIN fires : Own(i, k) => fires[i].at <= lastFired[k]

NoLaterLife == \A i \in DOMAIN fires : fires[i].life <= alertLife

AlertsInv ==
    /\ AlertsTypeOK
    /\ LastIsLatest
    /\ NoLaterLife
    /\ OncePerWindow

LEMMA AlertsInvInit == AlertsInit => AlertsInv
<1> SUFFICES ASSUME AlertsInit PROVE AlertsInv
  OBVIOUS
<1>1. fires = <<>> /\ fires \in Seq(Fire) /\ DOMAIN fires = {}
  BY DEF AlertsInit
<1>2. lastFired \in [AlertKinds -> Nat \cup {Never}]
  BY DEF AlertsInit
<1>3. webhook \in BOOLEAN /\ posted \subseteq Nat /\ lost \subseteq Nat
  BY DEF AlertsInit
<1>4. alertNow \in Nat /\ alertLife \in Nat
  BY DEF AlertsInit
<1>5. outbox \in Seq(Nat) /\ posting \in Seq(Nat)
  BY DEF AlertsInit
<1>6. AlertsTypeOK
  BY <1>1, <1>2, <1>3, <1>4, <1>5 DEF AlertsTypeOK
<1>7. LastIsLatest
  BY <1>1 DEF AlertsInit, LastIsLatest
<1> QED BY <1>1, <1>6, <1>7 DEF AlertsInv, NoLaterLife, OncePerWindow

-----------------------------------------------------------------------------
(* Calls of fire                                                           *)

\* What a call adds to the history.
LEMMA CallAdds ==
    ASSUME AlertsInv, NEW k \in AlertKinds, NEW new \in BOOLEAN, Called(k, new)
    PROVE  /\ fires' \in Seq(Fire)
           /\ Len(fires) \in Nat /\ DOMAIN fires = 1 .. Len(fires)
           /\ DOMAIN fires' = 1 .. Len(fires) + 1
           /\ Len(fires') = Len(fires) + 1
           /\ \A i \in 1 .. Len(fires) : fires'[i] = fires[i]
           /\ fires'[Len(fires) + 1] =
                 [kind |-> k, at |-> alertNow, life |-> alertLife, new |-> new]
           /\ \A i \in 1 .. Len(fires) : fires[i] \in Fire
<1> DEFINE f == [kind |-> k, at |-> alertNow, life |-> alertLife, new |-> new]
<1>1. fires \in Seq(Fire) /\ f \in Fire
  BY DEF AlertsInv, AlertsTypeOK, Fire
<1>2. fires' = Append(fires, f)
  BY DEF Called
<1> HIDE DEF f
<1>3. /\ fires' \in Seq(Fire)
      /\ Len(fires) \in Nat /\ DOMAIN fires = 1 .. Len(fires)
      /\ Len(fires') = Len(fires) + 1
      /\ DOMAIN fires' = 1 .. Len(fires) + 1
  BY <1>1, <1>2
<1>4. /\ \A i \in 1 .. Len(fires) : fires'[i] = fires[i]
      /\ fires'[Len(fires) + 1] = f
      /\ \A i \in 1 .. Len(fires) : fires[i] \in Fire
  BY <1>1, <1>2
<1> QED BY <1>3, <1>4 DEF f

LEMMA SuppressedStep ==
    ASSUME AlertsInv, NEW k \in AlertKinds, FireSuppressed(k)
    PROVE  AlertsInv'
<1> DEFINE L == Len(fires)
           f == [kind |-> k, at |-> alertNow, life |-> alertLife, new |-> FALSE]
<1>1. /\ Called(k, FALSE) /\ InWindow(k)
      /\ UNCHANGED <<alertNow, alertLife, webhook, lastFired, outbox, posting,
                     posted, lost>>
  BY DEF FireSuppressed, worker
<1>2. /\ fires' \in Seq(Fire)
      /\ L \in Nat /\ DOMAIN fires = 1 .. L /\ DOMAIN fires' = 1 .. L + 1
      /\ \A i \in 1 .. L : fires'[i] = fires[i]
      /\ fires'[L + 1] = f
  BY <1>1, CallAdds
<1>3. AlertsTypeOK'
  BY <1>1, <1>2 DEF AlertsInv, AlertsTypeOK
<1>4. \A i \in 1 .. L + 1 : i \in 1 .. L \/ i = L + 1
  BY <1>2
<1>5. f.new = FALSE /\ f.life = alertLife /\ f.kind = k /\ f.at = alertNow
  OBVIOUS
<1> HIDE DEF f, L
<1>6. \A i \in 1 .. L + 1, q \in AlertKinds :
          Own(i, q)' <=> i \in 1 .. L /\ Own(i, q)
  BY <1>1, <1>2, <1>4, <1>5 DEF Own
<1>7. LastIsLatest'
  <2> SUFFICES ASSUME NEW q \in AlertKinds
               PROVE  IF lastFired[q] = Never
                      THEN \A i \in 1 .. L + 1 : ~Own(i, q)'
                      ELSE /\ lastFired[q] \in 0 .. alertNow
                           /\ \E i \in 1 .. L + 1 :
                                 Own(i, q)' /\ fires'[i].at = lastFired[q]
                           /\ \A i \in 1 .. L + 1 :
                                 Own(i, q)' => fires'[i].at <= lastFired[q]
    BY <1>1, <1>2 DEF LastIsLatest
  <2>1. \A i \in 1 .. L : i \in 1 .. L + 1 /\ i \in DOMAIN fires
    BY <1>2
  <2>2. CASE lastFired[q] = Never
    BY <1>2, <1>6, <2>2 DEF AlertsInv, LastIsLatest
  <2>3. CASE lastFired[q] # Never
    <3>1. /\ lastFired[q] \in 0 .. alertNow
          /\ \E i \in 1 .. L : Own(i, q) /\ fires[i].at = lastFired[q]
          /\ \A i \in 1 .. L : Own(i, q) => fires[i].at <= lastFired[q]
      BY <1>2, <2>3 DEF AlertsInv, LastIsLatest
    <3> QED BY <1>2, <1>6, <2>1, <2>3, <3>1
  <2> QED BY <2>2, <2>3
<1>8. NoLaterLife'
  <2>1. alertLife \in Nat
    BY DEF AlertsInv, AlertsTypeOK
  <2> QED BY <1>1, <1>2, <1>4, <1>5, <2>1 DEF AlertsInv, NoLaterLife
<1>9. OncePerWindow'
  <2> SUFFICES ASSUME NEW i \in 1 .. L + 1
               PROVE  IF fires'[i].new
                      THEN \A j \in 1 .. i - 1 :
                              /\ fires'[j].new
                              /\ fires'[j].kind = fires'[i].kind
                              /\ fires'[j].life = fires'[i].life
                              => fires'[i].at - fires'[j].at >= MinInterval
                      ELSE \E j \in 1 .. i - 1 :
                              /\ fires'[j].new
                              /\ fires'[j].kind = fires'[i].kind
                              /\ fires'[j].life = fires'[i].life
                              /\ fires'[i].at - fires'[j].at < MinInterval
    BY <1>2 DEF OncePerWindow
  <2>1. CASE i \in 1 .. L
    <3>1. \A j \in 1 .. i - 1 : j \in 1 .. L
      BY <1>2, <2>1
    <3>2. fires'[i] = fires[i] /\ \A j \in 1 .. i - 1 : fires'[j] = fires[j]
      BY <1>2, <2>1, <3>1
    <3>3. i \in DOMAIN fires /\ OncePerWindow
      BY <1>2, <2>1 DEF AlertsInv
    <3>4. IF fires[i].new
          THEN \A j \in 1 .. i - 1 :
                  /\ fires[j].new
                  /\ fires[j].kind = fires[i].kind
                  /\ fires[j].life = fires[i].life
                  => fires[i].at - fires[j].at >= MinInterval
          ELSE \E j \in 1 .. i - 1 :
                  /\ fires[j].new
                  /\ fires[j].kind = fires[i].kind
                  /\ fires[j].life = fires[i].life
                  /\ fires[i].at - fires[j].at < MinInterval
      BY <3>3 DEF OncePerWindow
    <3> QED BY <3>2, <3>4
  <2>2. CASE i = L + 1
    <3>1. PICK j \in 1 .. L : Own(j, k) /\ fires[j].at = lastFired[k]
      BY <1>1, <1>2 DEF InWindow, AlertsInv, LastIsLatest
    <3>2. alertNow - lastFired[k] < MinInterval
      BY <1>1 DEF InWindow
    <3>3. j \in 1 .. i - 1
      BY <1>2, <2>2
    <3> QED BY <1>2, <1>5, <2>2, <3>1, <3>2, <3>3 DEF Own
  <2> QED BY <1>4, <2>1, <2>2
<1> QED BY <1>3, <1>7, <1>8, <1>9 DEF AlertsInv

LEMMA NewStep ==
    ASSUME AlertsInv, NEW k \in AlertKinds, FireNew(k)
    PROVE  AlertsInv'
<1> DEFINE L == Len(fires)
           f == [kind |-> k, at |-> alertNow, life |-> alertLife, new |-> TRUE]
<1>1. /\ Called(k, TRUE) /\ ~InWindow(k)
      /\ lastFired' = [lastFired EXCEPT ![k] = alertNow]
      /\ outbox' = IF webhook THEN Append(outbox, Len(fires')) ELSE outbox
      /\ UNCHANGED <<alertNow, alertLife, webhook, posting, posted, lost>>
  BY DEF FireNew, worker
<1>2. /\ fires' \in Seq(Fire)
      /\ L \in Nat /\ DOMAIN fires = 1 .. L /\ DOMAIN fires' = 1 .. L + 1
      /\ Len(fires') = L + 1
      /\ \A i \in 1 .. L : fires'[i] = fires[i] /\ fires[i] \in Fire
      /\ fires'[L + 1] = f
  BY <1>1, CallAdds
<1>0. /\ alertNow \in Nat /\ alertLife \in Nat /\ MinInterval \in Nat
      /\ lastFired \in [AlertKinds -> Nat \cup {Never}]
  BY AlertsAssumption DEF AlertsInv, AlertsTypeOK
<1>3. AlertsTypeOK'
  <2>1. lastFired' \in [AlertKinds -> Nat \cup {Never}]
    BY <1>0, <1>1
  <2>2. outbox' \in Seq(Nat)
    <3>1. outbox \in Seq(Nat) /\ Len(fires') \in Nat
      BY <1>2 DEF AlertsInv, AlertsTypeOK
    <3> QED BY <1>1, <3>1
  <2> QED BY <1>1, <1>2, <2>1, <2>2 DEF AlertsInv, AlertsTypeOK
<1>4. \A i \in 1 .. L + 1 : i \in 1 .. L \/ i = L + 1
  BY <1>2
<1>5. f.new = TRUE /\ f.life = alertLife /\ f.kind = k /\ f.at = alertNow
  OBVIOUS
<1> HIDE DEF f, L
<1>6. \A i \in 1 .. L + 1, q \in AlertKinds :
          Own(i, q)' <=> (i \in 1 .. L /\ Own(i, q)) \/ (i = L + 1 /\ q = k)
  BY <1>1, <1>2, <1>4, <1>5 DEF Own
\* The logged alerts of this kind and process were no later than last_sent.
<1>7. ASSUME NEW i \in 1 .. L, Own(i, k)
      PROVE  /\ lastFired[k] # Never /\ fires[i].at <= lastFired[k]
             /\ alertNow - fires[i].at >= MinInterval
             /\ fires[i].at <= alertNow
  <2>1. lastFired[k] # Never
    BY <1>2, <1>7 DEF AlertsInv, LastIsLatest
  <2>2. lastFired[k] \in 0 .. alertNow /\ fires[i].at <= lastFired[k]
    BY <1>2, <1>7, <2>1 DEF AlertsInv, LastIsLatest
  <2>3. ~(alertNow - lastFired[k] < MinInterval)
    BY <1>1, <2>1 DEF InWindow
  <2>4. fires[i].at \in Nat
    BY <1>2 DEF Fire
  <2> QED BY <1>0, <2>1, <2>2, <2>3, <2>4
<1>8. LastIsLatest'
  <2> SUFFICES ASSUME NEW q \in AlertKinds
               PROVE  IF lastFired'[q] = Never
                      THEN \A i \in 1 .. L + 1 : ~Own(i, q)'
                      ELSE /\ lastFired'[q] \in 0 .. alertNow
                           /\ \E i \in 1 .. L + 1 :
                                 Own(i, q)' /\ fires'[i].at = lastFired'[q]
                           /\ \A i \in 1 .. L + 1 :
                                 Own(i, q)' => fires'[i].at <= lastFired'[q]
    BY <1>1, <1>2 DEF LastIsLatest
  <2>1. \A i \in 1 .. L : i \in 1 .. L + 1 /\ i \in DOMAIN fires
    BY <1>2
  <2>2. CASE q = k
    <3>1. lastFired'[q] = alertNow /\ alertNow # Never
      BY <1>0, <1>1, <2>2 DEF Never
    <3>2. PICK m \in 1 .. L + 1 : m = L + 1
      BY <1>2
    <3>7. Own(m, q)' /\ fires'[m].at = alertNow
      BY <1>2, <1>5, <1>6, <2>2, <3>2
    <3>3. ASSUME NEW i \in 1 .. L + 1, Own(i, q)'
          PROVE  fires'[i].at <= alertNow
      <4>1. CASE i \in 1 .. L
        <5>1. Own(i, k)
          BY <1>2, <1>6, <2>2, <3>3, <4>1
        <5> QED BY <1>2, <1>7, <4>1, <5>1
      <4>2. CASE i = L + 1
        BY <1>0, <3>2, <3>7, <4>2
      <4> QED BY <1>4, <4>1, <4>2
    <3>4. lastFired'[q] \in 0 .. alertNow
      BY <1>0, <3>1
    <3>5. \E i \in 1 .. L + 1 : Own(i, q)' /\ fires'[i].at = lastFired'[q]
      BY <3>1, <3>7
    <3>6. \A i \in 1 .. L + 1 : Own(i, q)' => fires'[i].at <= lastFired'[q]
      BY <3>1, <3>3
    <3> QED BY <3>1, <3>4, <3>5, <3>6
  <2>3. CASE q # k
    <3>1. lastFired'[q] = lastFired[q]
      BY <1>0, <1>1, <2>3
    <3>2. \A i \in 1 .. L + 1 : Own(i, q)' <=> i \in 1 .. L /\ Own(i, q)
      BY <1>6, <2>3
    <3>3. CASE lastFired[q] = Never
      BY <1>2, <3>1, <3>2, <3>3 DEF AlertsInv, LastIsLatest
    <3>4. CASE lastFired[q] # Never
      <4>1. /\ lastFired[q] \in 0 .. alertNow
            /\ \E i \in 1 .. L : Own(i, q) /\ fires[i].at = lastFired[q]
            /\ \A i \in 1 .. L : Own(i, q) => fires[i].at <= lastFired[q]
        BY <1>2, <3>4 DEF AlertsInv, LastIsLatest
      <4> QED BY <1>2, <2>1, <3>1, <3>2, <3>4, <4>1
    <3> QED BY <3>3, <3>4
  <2> QED BY <2>2, <2>3
<1>9. NoLaterLife'
  BY <1>0, <1>1, <1>2, <1>4, <1>5 DEF AlertsInv, NoLaterLife
<1>10. OncePerWindow'
  <2> SUFFICES ASSUME NEW i \in 1 .. L + 1
               PROVE  IF fires'[i].new
                      THEN \A j \in 1 .. i - 1 :
                              /\ fires'[j].new
                              /\ fires'[j].kind = fires'[i].kind
                              /\ fires'[j].life = fires'[i].life
                              => fires'[i].at - fires'[j].at >= MinInterval
                      ELSE \E j \in 1 .. i - 1 :
                              /\ fires'[j].new
                              /\ fires'[j].kind = fires'[i].kind
                              /\ fires'[j].life = fires'[i].life
                              /\ fires'[i].at - fires'[j].at < MinInterval
    BY <1>2 DEF OncePerWindow
  <2>1. CASE i \in 1 .. L
    <3>1. \A j \in 1 .. i - 1 : j \in 1 .. L
      BY <1>2, <2>1
    <3>2. fires'[i] = fires[i] /\ \A j \in 1 .. i - 1 : fires'[j] = fires[j]
      BY <1>2, <2>1, <3>1
    <3>3. i \in DOMAIN fires /\ OncePerWindow
      BY <1>2, <2>1 DEF AlertsInv
    <3>4. IF fires[i].new
          THEN \A j \in 1 .. i - 1 :
                  /\ fires[j].new
                  /\ fires[j].kind = fires[i].kind
                  /\ fires[j].life = fires[i].life
                  => fires[i].at - fires[j].at >= MinInterval
          ELSE \E j \in 1 .. i - 1 :
                  /\ fires[j].new
                  /\ fires[j].kind = fires[i].kind
                  /\ fires[j].life = fires[i].life
                  /\ fires[i].at - fires[j].at < MinInterval
      BY <3>3 DEF OncePerWindow
    <3> QED BY <3>2, <3>4
  <2>2. CASE i = L + 1
    <3>1. ASSUME NEW j \in 1 .. i - 1, fires'[j].new,
                 fires'[j].kind = fires'[i].kind,
                 fires'[j].life = fires'[i].life
          PROVE  fires'[i].at - fires'[j].at >= MinInterval
      <4>1. j \in 1 .. L
        BY <1>2, <2>2
      <4>2. Own(j, k)
        BY <1>2, <1>5, <2>2, <3>1, <4>1 DEF Own
      <4> QED BY <1>2, <1>5, <1>7, <2>2, <4>1, <4>2
    <3> QED BY <1>2, <1>5, <2>2, <3>1
  <2> QED BY <1>4, <2>1, <2>2
<1> QED BY <1>3, <1>8, <1>9, <1>10 DEF AlertsInv

-----------------------------------------------------------------------------
(* The invariant                                                           *)

\* A step that leaves the calls and their limits alone.
LEMMA KeepsCalls ==
    ASSUME AlertsInv, AlertsTypeOK', alertNow <= alertNow',
           UNCHANGED <<alertLife, lastFired, fires>>
    PROVE  AlertsInv'
<1>1. \A i, k : Own(i, k)' <=> Own(i, k)
  BY DEF Own
<1>2. LastIsLatest'
  <2> SUFFICES ASSUME NEW k \in AlertKinds
               PROVE  IF lastFired[k] = Never
                      THEN \A i \in DOMAIN fires : ~Own(i, k)'
                      ELSE /\ lastFired[k] \in 0 .. alertNow'
                           /\ \E i \in DOMAIN fires :
                                 Own(i, k)' /\ fires[i].at = lastFired[k]
                           /\ \A i \in DOMAIN fires :
                                 Own(i, k)' => fires[i].at <= lastFired[k]
    BY DEF LastIsLatest
  <2>1. CASE lastFired[k] = Never
    BY <1>1, <2>1 DEF AlertsInv, LastIsLatest
  <2>2. CASE lastFired[k] # Never
    <3>1. /\ lastFired[k] \in 0 .. alertNow
          /\ \E i \in DOMAIN fires : Own(i, k) /\ fires[i].at = lastFired[k]
          /\ \A i \in DOMAIN fires : Own(i, k) => fires[i].at <= lastFired[k]
      BY <2>2 DEF AlertsInv, LastIsLatest
    <3>2. lastFired[k] \in 0 .. alertNow'
      BY <3>1 DEF AlertsInv, AlertsTypeOK
    <3> QED BY <1>1, <2>2, <3>1, <3>2
  <2> QED BY <2>1, <2>2
<1> QED BY <1>2 DEF AlertsInv, NoLaterLife, OncePerWindow

LEMMA AlertsRestartStep ==
    ASSUME AlertsInv, AlertsRestart
    PROVE  AlertsInv'
<1>1. /\ alertLife' = alertLife + 1
      /\ lastFired' = [q \in AlertKinds |-> Never]
      /\ UNCHANGED <<alertNow, posted, fires>>
  BY DEF AlertsRestart
<1>2. /\ alertLife \in Nat /\ outbox \in Seq(Nat) /\ posting \in Seq(Nat)
      /\ lost \subseteq Nat /\ fires \in Seq(Fire)
  BY DEF AlertsInv, AlertsTypeOK
<1>3. ToSet(outbox) \subseteq Nat /\ ToSet(posting) \subseteq Nat
  BY <1>2 DEF ToSet
<1>4. lost' \subseteq Nat
  BY <1>2, <1>3 DEF AlertsRestart
<1>5. webhook' \in BOOLEAN /\ outbox' \in Seq(Nat) /\ posting' \in Seq(Nat)
  <2>1. webhook' \in BOOLEAN
    BY DEF AlertsRestart
  <2>2. outbox' = <<>> /\ posting' = <<>>
    BY DEF AlertsRestart
  <2> QED BY <2>1, <2>2
<1>6. alertLife' \in Nat /\ lastFired' \in [AlertKinds -> Nat \cup {Never}]
  BY <1>1, <1>2
<1>7. AlertsTypeOK'
  BY <1>1, <1>4, <1>5, <1>6 DEF AlertsInv, AlertsTypeOK
<1>8. \A i \in DOMAIN fires : fires[i].life \in Nat /\ fires[i].life <= alertLife
  <2>1. \A i \in DOMAIN fires : fires[i] \in Fire
    BY <1>2
  <2>2. \A i \in DOMAIN fires : fires[i].life \in Nat
    BY <2>1 DEF Fire
  <2> QED BY <2>2 DEF AlertsInv, NoLaterLife
<1>9. NoLaterLife'
  BY <1>1, <1>2, <1>8 DEF NoLaterLife
<1>10. \A i \in DOMAIN fires : fires[i].life # alertLife'
  BY <1>1, <1>2, <1>8
<1>11. LastIsLatest'
  BY <1>1, <1>10 DEF LastIsLatest, Own
<1> QED BY <1>1, <1>7, <1>9, <1>11 DEF AlertsInv, OncePerWindow

LEMMA AlertsInvStep == AlertsInv /\ [AlertsNext]_alertVars => AlertsInv'
<1> SUFFICES ASSUME AlertsInv, [AlertsNext]_alertVars PROVE AlertsInv'
  OBVIOUS
<1>0. /\ AlertsTypeOK /\ alertNow \in Nat /\ outbox \in Seq(Nat)
      /\ posting \in Seq(Nat) /\ posted \subseteq Nat /\ lost \subseteq Nat
  BY DEF AlertsInv, AlertsTypeOK
<1>1. ASSUME NEW k \in AlertKinds, FireSuppressed(k) PROVE AlertsInv'
  BY <1>1, SuppressedStep
<1>2. ASSUME NEW k \in AlertKinds, FireNew(k) PROVE AlertsInv'
  BY <1>2, NewStep
<1>3. CASE TakeAlert
  <2>1. /\ posting' = <<Head(outbox)>> /\ outbox' = Tail(outbox)
        /\ outbox # <<>>
        /\ UNCHANGED <<alertNow, alertLife, webhook, lastFired, posted, lost,
                       fires>>
    BY <1>3 DEF TakeAlert
  <2>2. outbox' \in Seq(Nat) /\ posting' \in Seq(Nat)
    BY <1>0, <2>1
  <2>3. AlertsTypeOK'
    BY <1>0, <2>1, <2>2 DEF AlertsTypeOK
  <2>4. alertNow <= alertNow'
    BY <1>0, <2>1
  <2> QED BY <2>1, <2>3, <2>4, KeepsCalls
<1>4. CASE PostEnds
  <2>1. /\ posting # <<>> /\ posting' = <<>>
        /\ posted' \in {posted, posted \cup {Head(posting)}}
        /\ lost' \in {lost, lost \cup {Head(posting)}}
        /\ UNCHANGED <<alertNow, alertLife, webhook, lastFired, outbox, fires>>
    BY <1>4 DEF PostEnds
  <2>2. posting' \in Seq(Nat) /\ Head(posting) \in Nat
    BY <1>0, <2>1
  <2>3. AlertsTypeOK'
    BY <1>0, <2>1, <2>2 DEF AlertsTypeOK
  <2>4. alertNow <= alertNow'
    BY <1>0, <2>1
  <2> QED BY <2>1, <2>3, <2>4, KeepsCalls
<1>5. CASE AlertTick
  <2>1. /\ alertNow' = alertNow + 1
        /\ UNCHANGED <<alertLife, webhook, lastFired, outbox, posting, posted,
                       lost, fires>>
    BY <1>5 DEF AlertTick, worker
  <2>2. alertNow' \in Nat /\ alertNow <= alertNow'
    BY <1>0, <2>1
  <2>3. AlertsTypeOK'
    BY <1>0, <2>1, <2>2 DEF AlertsTypeOK
  <2> QED BY <2>1, <2>2, <2>3, KeepsCalls
<1>6. CASE AlertsRestart
  BY <1>6, AlertsRestartStep
<1>7. CASE UNCHANGED alertVars
  <2>1. AlertsTypeOK'
    BY <1>0, <1>7 DEF alertVars, AlertsTypeOK
  <2>2. alertNow <= alertNow' /\ UNCHANGED <<alertLife, lastFired, fires>>
    BY <1>0, <1>7 DEF alertVars
  <2> QED BY <2>1, <2>2, KeepsCalls
<1> QED BY <1>1, <1>2, <1>3, <1>4, <1>5, <1>6, <1>7 DEF AlertsNext

\* Every variable of the alerting keeps its type.
THEOREM AlertsTypeCorrect == AlertsSpec => []AlertsTypeOK
<1>1. AlertsInv => AlertsTypeOK
  BY DEF AlertsInv
<1> QED BY <1>1, AlertsInvInit, AlertsInvStep, PTL DEF AlertsSpec

\* Two logged alerts of a kind are a window apart, and one is left out only
\* inside the window of another (alerts.rs:11-12), whatever the kinds and the
\* window, and however many calls and restarts there are.
THEOREM WindowsAreKept == AlertsSpec => []OncePerWindow
<1>1. AlertsInv => OncePerWindow
  BY DEF AlertsInv
<1> QED BY <1>1, AlertsInvInit, AlertsInvStep, PTL DEF AlertsSpec

-----------------------------------------------------------------------------
(* The audit trail and its mirror                                          *)

Flow ==
    /\ Increasing(rows)
    /\ Increasing(channel)
    /\ \A i \in DOMAIN rows : rows[i] <= appended
    /\ \A i \in DOMAIN inserting : born < inserting[i] /\ inserting[i] <= appended
    /\ \A i \in DOMAIN channel : born < channel[i] /\ channel[i] <= appended
    /\ \A i \in DOMAIN rows, k \in DOMAIN inserting : rows[i] < inserting[k]
    /\ \A i \in DOMAIN rows, k \in DOMAIN channel : rows[i] < channel[k]
    /\ \A i \in DOMAIN inserting, k \in DOMAIN channel : inserting[i] < channel[k]

Counted ==
    /\ miscounted \subseteq ToSet(rows)
    /\ mirror => Cardinality(Missing) + Cardinality(miscounted)
                    = dropped + Len(channel) + Len(inserting)

\* A record reported as written has a line that was ended.
Written ==
    \A r \in acked : \E i \in DOMAIN trail : trail[i].rec = r /\ trail[i].ended

\* The file has the records in the order of their appends.
InOrder ==
    /\ \A i \in DOMAIN trail : trail[i].rec <= appended
    /\ \A i, j \in DOMAIN trail : i < j => trail[i].rec < trail[j].rec

AuditInv ==
    /\ AuditTypeOK
    /\ Flow
    /\ Counted
    /\ Written
    /\ InOrder

LEMMA JustOne ==
    ASSUME NEW n \in Nat, n <= 1, n # 0
    PROVE  n = 1
  OBVIOUS

LEMMA NoneAbove ==
    ASSUME NEW n \in Nat
    PROVE  n + 1 .. n = {}
  OBVIOUS

-----------------------------------------------------------------------------
(* Missing records                                                         *)

LEMMA MissingFinite ==
    ASSUME AuditTypeOK
    PROVE  IsFiniteSet(Missing) /\ Cardinality(Missing) \in Nat
<1>1. Missing \in SUBSET (born + 1 .. appended)
  BY DEF Missing
<1>2. IsFiniteSet(born + 1 .. appended)
  <2>1. born + 1 \in Int /\ appended \in Int
    BY DEF AuditTypeOK
  <2> QED BY <2>1, FS_Interval
<1> QED BY <1>1, <1>2, FS_Subset, FS_CardinalityType

\* A new record is missing until it is inserted.
LEMMA OneMoreMissing ==
    ASSUME AuditTypeOK, \A i \in DOMAIN rows : rows[i] <= appended,
           appended' = appended + 1, UNCHANGED <<born, rows>>
    PROVE  Cardinality(Missing') = Cardinality(Missing) + 1
<1>1. appended \in Nat /\ born \in Nat /\ born <= appended /\ rows \in Seq(Nat)
  BY DEF AuditTypeOK
<1>2. appended + 1 \notin ToSet(rows) /\ appended + 1 \notin Missing
  BY <1>1 DEF ToSet, Missing
<1>3. Missing' = Missing \cup {appended + 1}
  BY <1>1, <1>2 DEF Missing
<1> QED BY <1>2, <1>3, MissingFinite, FS_AddElement

\* One record more on the left and one more on the right of an exact count.
LEMMA OneMoreEach ==
    ASSUME NEW a \in Nat, NEW b \in Nat, NEW d \in Nat, NEW c \in Nat,
           NEW i \in Nat, a + b = d + c + i
    PROVE  /\ (a + 1) + b = (d + 1) + c + i
           /\ (a + 1) + b = d + (c + 1) + i
  OBVIOUS

\* A row more, counted as dropped or not.
LEMMA OneRowMore ==
    ASSUME NEW a \in Nat, NEW b \in Nat, NEW bb \in Nat, NEW c \in Nat,
           NEW d \in Nat, NEW dd \in Nat, a + b = d + c + 1, dd + b = d + bb
    PROVE  (a - 1) + bb = dd + c
  OBVIOUS

\* The rows counted as dropped are finitely many.
LEMMA MiscountedFinite ==
    ASSUME AuditTypeOK
    PROVE  IsFiniteSet(miscounted) /\ Cardinality(miscounted) \in Nat
<1>1. miscounted \in SUBSET (1 .. appended) /\ appended \in Nat
  BY DEF AuditTypeOK
<1>2. IsFiniteSet(1 .. appended)
  BY <1>1, FS_Interval
<1> QED BY <1>1, <1>2, FS_Subset, FS_CardinalityType

LEMMA SetOfAppended ==
    ASSUME NEW s \in Seq(Nat), NEW r \in Nat
    PROVE  ToSet(s \o <<r>>) = ToSet(s) \cup {r}
<1>1. /\ Len(s) \in Nat /\ DOMAIN s = 1 .. Len(s)
      /\ Len(s \o <<r>>) = Len(s) + 1
      /\ DOMAIN (s \o <<r>>) = 1 .. Len(s) + 1
      /\ \A i \in 1 .. Len(s) : (s \o <<r>>)[i] = s[i]
      /\ (s \o <<r>>)[Len(s) + 1] = r
  OBVIOUS
<1>2. \A i \in 1 .. Len(s) + 1 : i \in 1 .. Len(s) \/ i = Len(s) + 1
  BY <1>1
<1>3. \A i \in 1 .. Len(s) : i \in 1 .. Len(s) + 1
  BY <1>1
<1>4. Len(s) + 1 \in 1 .. Len(s) + 1
  BY <1>1
<1> QED BY <1>1, <1>2, <1>3, <1>4 DEF ToSet

-----------------------------------------------------------------------------
(* The flow                                                                *)

\* The INSERT under way, if any, is one record.
LEMMA OneInsert ==
    ASSUME AuditTypeOK, inserting # <<>>
    PROVE  \E r \in Nat : inserting = <<r>>
<1>1. inserting \in Seq(Nat) /\ Len(inserting) = 1
  <2>1. inserting \in Seq(Nat) /\ Len(inserting) <= 1
    BY DEF AuditTypeOK
  <2>2. Len(inserting) \in Nat /\ Len(inserting) # 0
    BY <2>1
  <2>3. Len(inserting) = 1
    BY <2>1, <2>2, JustOne
  <2> QED BY <2>1, <2>3
<1>2. inserting = <<inserting[1]>> /\ inserting[1] \in Nat
  BY <1>1
<1> QED BY <1>2

\* Rows with the record of the INSERT under way.
LEMMA RowsGrow ==
    ASSUME AuditInv, NEW r \in Nat, inserting = <<r>>
    PROVE  /\ rows \o inserting \in Seq(Nat)
           /\ Increasing(rows \o inserting)
           /\ \A i \in DOMAIN (rows \o inserting) : (rows \o inserting)[i] <= r
           /\ r <= appended /\ born < r
           /\ \A k \in DOMAIN channel : r < channel[k]
<1> DEFINE L == Len(rows)
           s == rows \o inserting
<1>1. rows \in Seq(Nat) /\ appended \in Nat /\ born \in Nat
  BY DEF AuditInv, AuditTypeOK
<1>2. /\ L \in Nat /\ DOMAIN rows = 1 .. L /\ s \in Seq(Nat)
      /\ DOMAIN s = 1 .. L + 1 /\ s[L + 1] = r
      /\ \A i \in 1 .. L : s[i] = rows[i] /\ rows[i] \in Nat
  BY <1>1
<1>3. 1 \in DOMAIN inserting /\ inserting[1] = r
  OBVIOUS
<1>4. /\ \A i \in 1 .. L : rows[i] < r
      /\ r <= appended /\ born < r
      /\ \A k \in DOMAIN channel : r < channel[k]
  BY <1>2, <1>3 DEF AuditInv, Flow
<1>5. \A i, j \in 1 .. L : i < j => rows[i] < rows[j]
  BY <1>2 DEF AuditInv, Flow, Increasing
<1> HIDE DEF L, s
<1>6. ASSUME NEW i \in 1 .. L + 1, NEW j \in 1 .. L + 1, i < j
      PROVE  s[i] < s[j]
  <2>1. i \in 1 .. L
    BY <1>2, <1>6
  <2>2. CASE j \in 1 .. L
    BY <1>2, <1>5, <1>6, <2>1, <2>2
  <2>3. CASE j = L + 1
    BY <1>2, <1>4, <2>1, <2>3
  <2> QED BY <1>2, <2>2, <2>3
<1>7. \A i \in 1 .. L + 1 : s[i] <= r
  <2> SUFFICES ASSUME NEW i \in 1 .. L + 1 PROVE s[i] <= r
    OBVIOUS
  <2>1. CASE i \in 1 .. L
    BY <1>2, <1>4, <2>1
  <2>2. CASE i = L + 1
    BY <1>2, <2>2
  <2> QED BY <1>2, <2>1, <2>2
<1>8. Increasing(s)
  BY <1>2, <1>6 DEF Increasing
<1> QED BY <1>2, <1>4, <1>7, <1>8 DEF s

\* The record of the INSERT under way is missing until it is done.
LEMMA DoneCounts ==
    ASSUME AuditInv, NEW r \in Nat, inserting = <<r>>,
           rows' = rows \o inserting, UNCHANGED <<born, appended>>
    PROVE  /\ Cardinality(Missing') \in Nat
           /\ Cardinality(Missing') = Cardinality(Missing) - 1
           /\ r \notin ToSet(rows) /\ ToSet(rows') = ToSet(rows) \cup {r}
<1>1. rows \in Seq(Nat) /\ appended \in Nat /\ born \in Nat /\ AuditTypeOK
  BY DEF AuditInv, AuditTypeOK
<1>2. r <= appended /\ born < r
  BY RowsGrow
<1>3. r \notin ToSet(rows)
  <2>1. 1 \in DOMAIN inserting /\ inserting[1] = r
    OBVIOUS
  <2>2. \A i \in DOMAIN rows : rows[i] < r /\ rows[i] \in Nat
    BY <1>1, <2>1 DEF AuditInv, Flow
  <2> QED BY <2>2 DEF ToSet
<1>4. r \in Missing
  BY <1>1, <1>2, <1>3 DEF Missing
<1>5. ToSet(rows') = ToSet(rows) \cup {r}
  BY <1>1, SetOfAppended
<1>6. Missing' = Missing \ {r}
  BY <1>5 DEF Missing
<1>7. /\ IsFiniteSet(Missing \ {r})
      /\ Cardinality(Missing \ {r}) = Cardinality(Missing) - 1
  BY <1>1, <1>4, MissingFinite, FS_RemoveElement
<1> QED BY <1>3, <1>5, <1>6, <1>7, FS_CardinalityType

-----------------------------------------------------------------------------
(* The steps                                                               *)

\* The mirror's part of the invariant.
MirrorOK ==
    /\ channel \in Seq(Nat) /\ Len(channel) <= MirrorDepth
    /\ dropped \in Nat
    /\ Flow
    /\ Counted

LEMMA AppendMirrors ==
    ASSUME AuditInv, AppendRecord
    PROVE  MirrorOK'
<1> DEFINE L == Len(channel)
<1>1. /\ appended' = appended + 1
      /\ Log(appended + 1)
      /\ UNCHANGED <<auditLife, mirror, inserting, rows, born, miscounted>>
  BY DEF AppendRecord
<1>2. /\ AuditTypeOK /\ appended \in Nat /\ born \in 0 .. appended
      /\ channel \in Seq(Nat) /\ inserting \in Seq(Nat) /\ rows \in Seq(Nat)
      /\ dropped \in Nat /\ MirrorDepth \in Nat /\ L <= MirrorDepth
  BY AuditTrailAssumption DEF AuditInv, AuditTypeOK
<1>3. L \in Nat /\ DOMAIN channel = 1 .. L /\ Len(inserting) \in Nat
  BY <1>2
<1>4. /\ Cardinality(Missing') = Cardinality(Missing) + 1
      /\ Cardinality(Missing) \in Nat /\ Cardinality(miscounted) \in Nat
  BY <1>1, <1>2, OneMoreMissing, MissingFinite, MiscountedFinite
     DEF AuditInv, Flow
<1>5. /\ miscounted \subseteq ToSet(rows)
      /\ mirror => Cardinality(Missing) + Cardinality(miscounted)
                      = dropped + L + Len(inserting)
  BY DEF AuditInv, Counted
<1>6. CASE channel' = channel /\ dropped' \in {dropped, dropped + 1}
            /\ (mirror => dropped' = dropped + 1)
  <2>1. Flow'
    BY <1>1, <1>2, <1>3, <1>6 DEF AuditInv, Flow, Increasing
  <2>2. ASSUME mirror
        PROVE  Cardinality(Missing') + Cardinality(miscounted)
                  = dropped' + L + Len(inserting)
    <3>1. Cardinality(Missing) + Cardinality(miscounted)
             = dropped + L + Len(inserting)
      BY <1>5, <2>2
    <3>2. (Cardinality(Missing) + 1) + Cardinality(miscounted)
             = (dropped + 1) + L + Len(inserting)
      <4> DEFINE a == Cardinality(Missing)
                 b == Cardinality(miscounted)
                 i == Len(inserting)
      <4>1. /\ a \in Nat /\ b \in Nat /\ i \in Nat /\ L \in Nat
            /\ dropped \in Nat /\ a + b = dropped + L + i
        BY <1>2, <1>3, <1>4, <3>1
      <4> HIDE DEF a, b, i, L
      <4>2. (a + 1) + b = (dropped + 1) + L + i
        BY <4>1, OneMoreEach
      <4> QED BY <4>2 DEF a, b, i, L
    <3> QED BY <1>4, <1>6, <2>2, <3>2
  <2>3. Counted'
    BY <1>1, <1>5, <1>6, <2>2 DEF Counted
  <2>4. dropped' \in Nat /\ channel' \in Seq(Nat) /\ Len(channel') <= MirrorDepth
    BY <1>2, <1>6
  <2> QED BY <2>1, <2>3, <2>4 DEF MirrorOK
<1>7. CASE channel' = Append(channel, appended + 1) /\ dropped' = dropped
            /\ L < MirrorDepth
  <2>1. /\ channel' \in Seq(Nat) /\ Len(channel') = L + 1
        /\ DOMAIN channel' = 1 .. L + 1 /\ channel'[L + 1] = appended + 1
        /\ \A i \in 1 .. L : channel'[i] = channel[i] /\ channel[i] \in Nat
    BY <1>2, <1>3, <1>7
  <2>2. /\ \A i \in 1 .. L : born < channel[i] /\ channel[i] <= appended
        /\ \A i, j \in 1 .. L : i < j => channel[i] < channel[j]
        /\ \A i \in DOMAIN rows : rows[i] <= appended /\ rows[i] \in Nat
        /\ \A i \in DOMAIN inserting :
              inserting[i] <= appended /\ inserting[i] \in Nat
    <3>1. \A i \in 1 .. L : born < channel[i] /\ channel[i] <= appended
      BY <1>3 DEF AuditInv, Flow
    <3>2. \A i, j \in 1 .. L : i < j => channel[i] < channel[j]
      BY <1>3 DEF AuditInv, Flow, Increasing
    <3>3. \A i \in DOMAIN rows : rows[i] <= appended /\ rows[i] \in Nat
      BY <1>2 DEF AuditInv, Flow
    <3>4. \A i \in DOMAIN inserting :
              inserting[i] <= appended /\ inserting[i] \in Nat
      BY <1>2 DEF AuditInv, Flow
    <3> QED BY <3>1, <3>2, <3>3, <3>4
  <2>3. \A i \in 1 .. L + 1 : i \in 1 .. L \/ i = L + 1
    BY <1>3
  <2>4. \A i \in 1 .. L + 1 : born < channel'[i] /\ channel'[i] <= appended + 1
    <3> SUFFICES ASSUME NEW i \in 1 .. L + 1
                 PROVE  born < channel'[i] /\ channel'[i] <= appended + 1
      OBVIOUS
    <3>1. CASE i \in 1 .. L
      <4>1. /\ channel'[i] \in Nat /\ born < channel'[i]
            /\ channel'[i] <= appended
        BY <2>1, <2>2, <3>1
      <4> QED BY <1>2, <4>1
    <3>2. CASE i = L + 1
      BY <1>2, <2>1, <3>2
    <3> QED BY <2>3, <3>1, <3>2
  <2>5. Increasing(channel')
    <3> SUFFICES ASSUME NEW i \in 1 .. L + 1, NEW j \in 1 .. L + 1, i < j
                 PROVE  channel'[i] < channel'[j]
      BY <2>1 DEF Increasing
    <3>1. i \in 1 .. L
      BY <1>3
    <3>2. CASE j \in 1 .. L
      BY <2>1, <2>2, <3>1, <3>2
    <3>3. CASE j = L + 1
      <4>1. channel'[i] \in Nat /\ channel'[i] <= appended
        BY <2>1, <2>2, <3>1
      <4> QED BY <1>2, <2>1, <3>3, <4>1
    <3> QED BY <2>3, <3>2, <3>3
  <2>6. \A i \in DOMAIN rows, k \in 1 .. L + 1 : rows[i] < channel'[k]
    <3> SUFFICES ASSUME NEW i \in DOMAIN rows, NEW k \in 1 .. L + 1
                 PROVE  rows[i] < channel'[k]
      OBVIOUS
    <3>1. CASE k \in 1 .. L
      BY <1>3, <2>1, <3>1 DEF AuditInv, Flow
    <3>2. CASE k = L + 1
      BY <1>2, <2>1, <2>2, <3>2
    <3> QED BY <2>3, <3>1, <3>2
  <2>7. \A i \in DOMAIN inserting, k \in 1 .. L + 1 : inserting[i] < channel'[k]
    <3> SUFFICES ASSUME NEW i \in DOMAIN inserting, NEW k \in 1 .. L + 1
                 PROVE  inserting[i] < channel'[k]
      OBVIOUS
    <3>1. CASE k \in 1 .. L
      BY <1>3, <2>1, <3>1 DEF AuditInv, Flow
    <3>2. CASE k = L + 1
      BY <1>2, <2>1, <2>2, <3>2
    <3> QED BY <2>3, <3>1, <3>2
  <2>8. /\ \A i \in DOMAIN rows : rows[i] <= appended + 1
        /\ \A i \in DOMAIN inserting : inserting[i] <= appended + 1
    BY <1>2, <2>2
  <2>9. Flow'
    BY <1>1, <2>1, <2>4, <2>5, <2>6, <2>7, <2>8 DEF AuditInv, Flow
  <2>10. ASSUME mirror
         PROVE  Cardinality(Missing') + Cardinality(miscounted)
                   = dropped + (L + 1) + Len(inserting)
    <3>1. Cardinality(Missing) + Cardinality(miscounted)
             = dropped + L + Len(inserting)
      BY <1>5, <2>10
    <3>2. (Cardinality(Missing) + 1) + Cardinality(miscounted)
             = dropped + (L + 1) + Len(inserting)
      <4> DEFINE a == Cardinality(Missing)
                 b == Cardinality(miscounted)
                 i == Len(inserting)
      <4>1. /\ a \in Nat /\ b \in Nat /\ i \in Nat /\ L \in Nat
            /\ dropped \in Nat /\ a + b = dropped + L + i
        BY <1>2, <1>3, <1>4, <3>1
      <4> HIDE DEF a, b, i, L
      <4>2. (a + 1) + b = dropped + (L + 1) + i
        BY <4>1, OneMoreEach
      <4> QED BY <4>2 DEF a, b, i, L
    <3> QED BY <1>4, <3>2
  <2>11. Counted'
    BY <1>1, <1>5, <1>7, <2>1, <2>10 DEF Counted
  <2>12. dropped' \in Nat /\ Len(channel') <= MirrorDepth
    BY <1>2, <1>3, <1>7, <2>1
  <2> QED BY <2>1, <2>9, <2>11, <2>12 DEF MirrorOK
<1>8. \/ channel' = channel /\ dropped' \in {dropped, dropped + 1}
         /\ (mirror => dropped' = dropped + 1)
      \/ channel' = Append(channel, appended + 1) /\ dropped' = dropped
         /\ L < MirrorDepth
  BY <1>1 DEF Log
<1> QED BY <1>6, <1>7, <1>8

\* What a write adds to the file.
LEMMA FileGrows ==
    ASSUME AuditInv, NEW n \in Nat, n = appended + 1, appended' = n,
           NEW ended \in BOOLEAN,
           trail' = Append(trail, [rec |-> n, ended |-> ended]),
           acked' = IF ended THEN acked \cup {n} ELSE acked
    PROVE  /\ Written' /\ InOrder'
           /\ trail' \in Seq(Piece) /\ acked' \subseteq 1 .. n
<1> DEFINE piece == [rec |-> n, ended |-> ended]
<1>1. trail \in Seq(Piece) /\ acked \subseteq 1 .. appended /\ appended \in Nat
  BY DEF AuditInv, AuditTypeOK
<1>2. piece \in Piece /\ piece.rec = n /\ piece.ended = ended
  BY DEF Piece
<1> HIDE DEF piece
<1>3. trail' = Append(trail, piece)
  BY DEF piece
<1>4. /\ Len(trail) \in Nat /\ DOMAIN trail = 1 .. Len(trail)
      /\ trail' \in Seq(Piece) /\ DOMAIN trail' = 1 .. Len(trail) + 1
      /\ \A i \in 1 .. Len(trail) : trail'[i] = trail[i]
      /\ trail'[Len(trail) + 1] = piece
  BY <1>1, <1>2, <1>3
<1>5. ASSUME NEW r \in acked'
      PROVE  \E i \in DOMAIN trail' : trail'[i].rec = r /\ trail'[i].ended
  <2>1. CASE r \in acked
    <3>1. PICK i \in DOMAIN trail : trail[i].rec = r /\ trail[i].ended
      BY <2>1 DEF AuditInv, Written
    <3>2. i \in DOMAIN trail' /\ trail'[i] = trail[i]
      BY <1>4
    <3> QED BY <3>1, <3>2
  <2>2. CASE r = n /\ ended
    <3>1. Len(trail) + 1 \in DOMAIN trail'
      BY <1>4
    <3> QED BY <1>2, <1>4, <2>2, <3>1
  <2> QED BY <2>1, <2>2
<1>6. acked' \subseteq 1 .. n
  BY <1>1
<1>7. \A i \in 1 .. Len(trail) : /\ trail[i].rec \in Nat
                               /\ trail[i].rec <= appended
                               /\ trail'[i] = trail[i]
  <2>1. \A i \in 1 .. Len(trail) : trail[i] \in Piece
    BY <1>1
  <2> QED BY <1>4, <2>1 DEF AuditInv, InOrder, Piece
<1>8. \A i \in DOMAIN trail' : i \in 1 .. Len(trail) \/ i = Len(trail) + 1
  BY <1>4
<1>9. \A i \in DOMAIN trail' : trail'[i].rec <= n
  <2> SUFFICES ASSUME NEW i \in DOMAIN trail' PROVE trail'[i].rec <= n
    OBVIOUS
  <2>1. CASE i \in 1 .. Len(trail)
    BY <1>1, <1>7, <2>1
  <2>2. CASE i = Len(trail) + 1
    BY <1>2, <1>4, <2>2
  <2> QED BY <1>8, <2>1, <2>2
<1>10. ASSUME NEW i \in DOMAIN trail', NEW j \in DOMAIN trail', i < j
       PROVE  trail'[i].rec < trail'[j].rec
  <2>1. i \in 1 .. Len(trail)
    BY <1>4, <1>10
  <2>2. CASE j \in 1 .. Len(trail)
    BY <1>4, <1>7, <1>10, <2>1, <2>2 DEF AuditInv, InOrder
  <2>3. CASE j = Len(trail) + 1
    BY <1>1, <1>2, <1>4, <1>7, <2>1, <2>3
  <2> QED BY <1>8, <2>2, <2>3
<1>11. InOrder'
  BY <1>9, <1>10 DEF InOrder
<1> QED BY <1>4, <1>5, <1>6, <1>11 DEF Written

LEMMA AppendStep ==
    ASSUME AuditInv, AppendRecord
    PROVE  AuditInv'
<1>1. /\ appended' = appended + 1
      /\ Write(appended + 1)
      /\ UNCHANGED <<auditLife, mirror, inserting, rows, born, miscounted>>
  BY DEF AppendRecord
<1>2. appended \in Nat /\ appended + 1 \in Nat
  BY DEF AuditInv, AuditTypeOK
<1>3. /\ Written' /\ InOrder'
      /\ trail' \in Seq(Piece) /\ acked' \subseteq 1 .. appended'
  <2>1. CASE /\ trail' = Append(trail, [rec |-> appended + 1, ended |-> TRUE])
             /\ acked' = acked \cup {appended + 1}
    BY <1>1, <1>2, <2>1, FileGrows
  <2>2. CASE /\ trail' = Append(trail, [rec |-> appended + 1, ended |-> FALSE])
             /\ acked' = acked
    BY <1>1, <1>2, <2>2, FileGrows
  <2>3. CASE UNCHANGED <<trail, acked>>
    <3>1. /\ trail \in Seq(Piece) /\ acked \subseteq 1 .. appended /\ Written
      BY DEF AuditInv, AuditTypeOK
    <3>2. acked \subseteq 1 .. appended + 1
      BY <1>2, <3>1
    <3>3. trail' = trail /\ acked' = acked
      BY <2>3
    <3>4. Written'
      BY <3>1, <3>3 DEF Written
    <3>5. \A i \in DOMAIN trail : trail[i].rec <= appended + 1
      <4>1. \A i \in DOMAIN trail : trail[i] \in Piece
        BY <3>1
      <4> QED BY <1>2, <4>1 DEF AuditInv, InOrder, Piece
    <3>6. InOrder'
      BY <1>1, <3>3, <3>5 DEF AuditInv, InOrder
    <3> QED BY <1>1, <3>1, <3>2, <3>3, <3>4, <3>6
  <2> QED BY <1>1, <2>1, <2>2, <2>3 DEF Write
<1>4. born' \in 0 .. appended' /\ appended' \in Nat
  BY <1>1, <1>2 DEF AuditInv, AuditTypeOK
<1>5. AuditTypeOK'
  <2>1. miscounted' \subseteq 1 .. appended'
    BY <1>1, <1>2 DEF AuditInv, AuditTypeOK
  <2> QED BY <1>1, <1>3, <1>4, <2>1, AppendMirrors
          DEF AuditInv, AuditTypeOK, MirrorOK
<1> QED BY <1>3, <1>5, AppendMirrors DEF AuditInv, MirrorOK

LEMMA TakeStep ==
    ASSUME AuditInv, TakeRecord
    PROVE  AuditInv'
<1> DEFINE r == Head(channel)
<1>1. /\ inserting = <<>> /\ channel # <<>>
      /\ inserting' = <<r>> /\ channel' = Tail(channel)
      /\ UNCHANGED <<auditLife, mirror, rows, dropped, appended, born, trail,
                     acked, miscounted>>
  BY DEF TakeRecord, file
<1>2. AuditTypeOK /\ channel \in Seq(Nat)
  BY DEF AuditInv, AuditTypeOK
<1>3. /\ Len(channel) \in Nat /\ DOMAIN channel = 1 .. Len(channel)
      /\ 1 \in DOMAIN channel /\ r = channel[1] /\ r \in Nat
      /\ channel' \in Seq(Nat) /\ Len(channel') = Len(channel) - 1
      /\ DOMAIN channel' = 1 .. Len(channel) - 1
      /\ \A i \in 1 .. Len(channel) - 1 : channel'[i] = channel[i + 1]
  BY <1>1, <1>2
<1> HIDE DEF r
<1>4. \A i \in DOMAIN channel' : i \in Nat /\ i + 1 \in DOMAIN channel /\ 1 < i + 1
  BY <1>3
<1>5. /\ inserting' \in Seq(Nat) /\ Len(inserting') = 1 /\ DOMAIN inserting' = {1}
      /\ inserting'[1] = r
  BY <1>1, <1>3
<1>6. Increasing(channel')
  <2> SUFFICES ASSUME NEW i \in DOMAIN channel', NEW j \in DOMAIN channel', i < j
               PROVE  channel'[i] < channel'[j]
    BY DEF Increasing
  <2>1. i + 1 < j + 1
    BY <1>4
  <2> QED BY <1>3, <1>4, <2>1 DEF AuditInv, Flow, Increasing
<1>7. /\ \A k \in DOMAIN channel' : r < channel'[k]
      /\ \A k \in DOMAIN channel' : born < channel'[k] /\ channel'[k] <= appended
      /\ \A i \in DOMAIN rows, k \in DOMAIN channel' : rows[i] < channel'[k]
      /\ \A i \in DOMAIN rows : rows[i] < r
      /\ born < r /\ r <= appended
  BY <1>3, <1>4 DEF AuditInv, Flow, Increasing
<1>8. Flow'
  BY <1>1, <1>5, <1>6, <1>7 DEF AuditInv, Flow
<1>9. Counted'
  <2>1. Missing' = Missing
    BY <1>1 DEF Missing
  <2>2. Len(inserting) = 0
    BY <1>1
  <2>3. dropped \in Nat /\ Cardinality(Missing) \in Nat
    BY <1>2, MissingFinite DEF AuditTypeOK
  <2>4. /\ miscounted \subseteq ToSet(rows)
        /\ mirror => Cardinality(Missing) + Cardinality(miscounted)
                        = dropped + Len(channel) + 0
    BY <2>2 DEF AuditInv, Counted
  <2>5. mirror => Cardinality(Missing) + Cardinality(miscounted)
                     = dropped + (Len(channel) - 1) + 1
    BY <1>3, <2>3, <2>4
  <2> QED BY <1>1, <1>3, <1>5, <2>1, <2>4, <2>5 DEF Counted
<1>10. AuditTypeOK'
  <2>1. Len(channel') <= MirrorDepth
    BY <1>2, <1>3, AuditTrailAssumption DEF AuditTypeOK
  <2> QED BY <1>1, <1>2, <1>3, <1>5, <2>1 DEF AuditTypeOK
<1> QED BY <1>1, <1>8, <1>9, <1>10 DEF AuditInv, Written, InOrder

LEMMA InsertStep ==
    ASSUME AuditInv, InsertDone \/ InsertFails
    PROVE  AuditInv'
<1>1. AuditTypeOK /\ dropped \in Nat /\ rows \in Seq(Nat) /\ channel \in Seq(Nat)
  BY DEF AuditInv, AuditTypeOK
<1>2. /\ inserting # <<>> /\ inserting' = <<>>
      /\ \/ /\ rows' = rows \o inserting /\ dropped' = dropped
            /\ miscounted' = miscounted
         \/ /\ rows' = rows /\ dropped' = dropped + 1
            /\ miscounted' = miscounted
         \/ /\ rows' = rows \o inserting /\ dropped' = dropped + 1
            /\ miscounted' = miscounted \cup ToSet(inserting)
      /\ UNCHANGED <<auditLife, mirror, channel, appended, born, trail, acked>>
  BY DEF InsertDone, InsertFails, file
<1>3. PICK r \in Nat : inserting = <<r>>
  BY <1>1, <1>2, OneInsert
<1>4. DOMAIN inserting' = {} /\ inserting' \in Seq(Nat) /\ Len(inserting') = 0
  BY <1>2
<1>5. CASE /\ rows' = rows \o inserting
           /\ \/ dropped' = dropped /\ miscounted' = miscounted
              \/ /\ dropped' = dropped + 1
                 /\ miscounted' = miscounted \cup ToSet(inserting)
  <2>1. /\ rows' \in Seq(Nat) /\ Increasing(rows')
        /\ \A i \in DOMAIN rows' : rows'[i] <= r
        /\ r <= appended /\ born < r
        /\ \A k \in DOMAIN channel : r < channel[k]
    BY <1>3, <1>5, RowsGrow
  <2>2. /\ \A i \in DOMAIN rows' : rows'[i] \in Nat
        /\ \A i \in DOMAIN channel : channel[i] \in Nat
        /\ appended \in Nat
    BY <1>1, <2>1 DEF AuditTypeOK
  <2>3. /\ \A i \in DOMAIN rows' : rows'[i] <= appended
        /\ \A i \in DOMAIN rows', k \in DOMAIN channel : rows'[i] < channel[k]
    BY <2>1, <2>2
  <2>4. Flow'
    BY <1>2, <1>4, <2>1, <2>3 DEF AuditInv, Flow
  <2>5. /\ Cardinality(Missing') = Cardinality(Missing) - 1
        /\ r \notin ToSet(rows) /\ ToSet(rows') = ToSet(rows) \cup {r}
        /\ ToSet(inserting) = {r}
        /\ miscounted \subseteq ToSet(rows)
    <3>1. ToSet(inserting) = {r}
      BY <1>3 DEF ToSet
    <3>2. miscounted \subseteq ToSet(rows)
      BY DEF AuditInv, Counted
    <3> QED BY <1>2, <1>3, <1>5, <3>1, <3>2, DoneCounts
  <2>6. miscounted' \subseteq ToSet(rows')
    BY <1>5, <2>5
  <2>7. dropped' + Cardinality(miscounted)
           = dropped + Cardinality(miscounted')
    <3>1. CASE dropped' = dropped /\ miscounted' = miscounted
      BY <3>1
    <3>2. CASE dropped' = dropped + 1 /\ miscounted' = miscounted \cup {r}
      <4>1. r \notin miscounted
        BY <2>5
      <4>2. Cardinality(miscounted') = Cardinality(miscounted) + 1
        BY <1>1, <3>2, <4>1, MiscountedFinite, FS_AddElement
      <4>3. Cardinality(miscounted) \in Nat
        BY <1>1, MiscountedFinite
      <4> QED BY <1>1, <3>2, <4>2, <4>3
    <3> QED BY <1>5, <2>5, <3>1, <3>2
  <2>8. ASSUME mirror
        PROVE  Cardinality(Missing') + Cardinality(miscounted')
                  = dropped' + Len(channel) + 0
    <3>1. Cardinality(Missing) + Cardinality(miscounted)
             = dropped + Len(channel) + 1
      <4>1. Len(inserting) = 1
        BY <1>3
      <4> QED BY <2>8, <4>1 DEF AuditInv, Counted
    <3>2. /\ Len(channel) \in Nat /\ dropped' \in Nat
          /\ Cardinality(Missing) \in Nat /\ Cardinality(miscounted) \in Nat
      BY <1>1, <1>2, MissingFinite, MiscountedFinite
    <3>3. Cardinality(miscounted') \in Nat
      <4>1. miscounted' = miscounted \/ miscounted' = miscounted \cup {r}
        BY <1>5, <2>5
      <4> QED BY <1>1, <4>1, MiscountedFinite, FS_AddElement, FS_CardinalityType
    <3>4. Cardinality(Missing') + Cardinality(miscounted')
             = dropped' + Len(channel)
      <4> DEFINE a == Cardinality(Missing)
                 b == Cardinality(miscounted)
                 bb == Cardinality(miscounted')
                 c == Len(channel)
                 d == dropped
                 dd == dropped'
      <4>1. /\ a \in Nat /\ b \in Nat /\ bb \in Nat /\ c \in Nat
            /\ d \in Nat /\ dd \in Nat
            /\ a + b = d + c + 1 /\ dd + b = d + bb
            /\ Cardinality(Missing') = a - 1
        BY <1>1, <2>5, <2>7, <3>1, <3>2, <3>3
      <4> HIDE DEF a, b, bb, c, d, dd
      <4>2. (a - 1) + bb = dd + c
        BY <4>1, OneRowMore
      <4> QED BY <4>1, <4>2 DEF bb, c, dd
    <3> QED BY <3>2, <3>4
  <2>9. Counted'
    BY <1>2, <1>4, <2>6, <2>8 DEF Counted
  <2>10. AuditTypeOK'
    <3>1. dropped' \in Nat
      BY <1>1, <1>2
    <3>2. miscounted' \subseteq 1 .. appended'
      <4>1. r \in 1 .. appended
        BY <1>1, <2>1, <2>2 DEF AuditTypeOK
      <4> QED BY <1>1, <1>2, <1>5, <2>5, <4>1 DEF AuditTypeOK
    <3> QED BY <1>1, <1>2, <1>4, <2>1, <3>1, <3>2 DEF AuditTypeOK
  <2> QED BY <1>2, <2>4, <2>9, <2>10 DEF AuditInv, Written, InOrder
<1>6. CASE rows' = rows /\ dropped' = dropped + 1 /\ miscounted' = miscounted
  <2>1. Flow'
    BY <1>2, <1>4, <1>6 DEF AuditInv, Flow
  <2>2. ASSUME mirror
        PROVE  Cardinality(Missing') + Cardinality(miscounted)
                  = dropped' + Len(channel) + 0
    <3>1. Missing' = Missing
      BY <1>2, <1>6 DEF Missing
    <3>2. Cardinality(Missing) + Cardinality(miscounted)
             = dropped + Len(channel) + 1
      <4>1. Len(inserting) = 1
        BY <1>3
      <4> QED BY <2>2, <4>1 DEF AuditInv, Counted
    <3>3. /\ Len(channel) \in Nat /\ Cardinality(Missing) \in Nat
          /\ Cardinality(miscounted) \in Nat
      BY <1>1, MissingFinite, MiscountedFinite
    <3> QED BY <1>1, <1>6, <3>1, <3>2, <3>3
  <2>3. Counted'
    BY <1>2, <1>4, <1>6, <2>2 DEF AuditInv, Counted
  <2>4. AuditTypeOK'
    <3>1. dropped' \in Nat
      BY <1>1, <1>6
    <3> QED BY <1>1, <1>2, <1>4, <1>6, <3>1 DEF AuditTypeOK
  <2> QED BY <1>2, <2>1, <2>3, <2>4 DEF AuditInv, Written, InOrder
<1> QED BY <1>2, <1>5, <1>6

LEMMA AuditRestartStep ==
    ASSUME AuditInv, NEW cut \in BOOLEAN, AuditRestart(cut)
    PROVE  AuditInv'
<1>1. AuditTypeOK /\ rows \in Seq(Nat) /\ appended \in Nat /\ MirrorDepth \in Nat
      /\ auditLife \in Nat
  BY AuditTrailAssumption DEF AuditInv, AuditTypeOK
<1>2. /\ auditLife' = auditLife + 1 /\ mirror' \in BOOLEAN
      /\ channel' = <<>> /\ inserting' = <<>>
      /\ rows' \in {rows, rows \o inserting} /\ dropped' = 0
      /\ born' = appended' /\ acked' = acked /\ miscounted' = {}
      /\ IF cut
         THEN /\ appended' = appended + 1
              /\ trail' = Append(trail, [rec |-> appended + 1, ended |-> FALSE])
         ELSE UNCHANGED <<appended, trail>>
  BY DEF AuditRestart
<1>3. appended' \in Nat /\ appended <= appended'
  BY <1>1, <1>2
<1>4. /\ Written' /\ InOrder'
      /\ trail' \in Seq(Piece) /\ acked' \subseteq 1 .. appended'
  <2>1. CASE cut
    <3>1. appended + 1 \in Nat
      BY <1>1
    <3> QED BY <1>1, <1>2, <2>1, <3>1, FileGrows
  <2>2. CASE ~cut
    BY <1>1, <1>2, <2>2 DEF AuditInv, AuditTypeOK, Written, InOrder
  <2> QED BY <2>1, <2>2
<1>5. /\ channel' \in Seq(Nat) /\ Len(channel') = 0 /\ DOMAIN channel' = {}
      /\ inserting' \in Seq(Nat) /\ Len(inserting') = 0 /\ DOMAIN inserting' = {}
  BY <1>2
<1>6. /\ rows' \in Seq(Nat) /\ Increasing(rows')
      /\ \A i \in DOMAIN rows' : rows'[i] <= appended
  <2>1. CASE rows' = rows
    BY <1>1, <2>1 DEF AuditInv, Flow
  <2>2. CASE inserting = <<>>
    <3>1. rows' = rows
      BY <1>1, <1>2, <2>2
    <3> QED BY <2>1, <3>1
  <2>3. CASE inserting # <<>> /\ rows' = rows \o inserting
    <3>1. PICK r \in Nat : inserting = <<r>>
      BY <1>1, <2>3, OneInsert
    <3>2. /\ rows' \in Seq(Nat) /\ Increasing(rows')
          /\ \A i \in DOMAIN rows' : rows'[i] <= r
          /\ r <= appended
      BY <2>3, <3>1, RowsGrow
    <3>3. \A i \in DOMAIN rows' : rows'[i] \in Nat
      BY <3>2
    <3> QED BY <1>1, <3>2, <3>3
  <2> QED BY <1>2, <2>1, <2>2, <2>3
<1>7. \A i \in DOMAIN rows' : rows'[i] <= appended'
  <2>1. \A i \in DOMAIN rows' : rows'[i] \in Nat
    BY <1>6
  <2> QED BY <1>1, <1>3, <1>6, <2>1
<1>8. Flow'
  BY <1>5, <1>6, <1>7 DEF Flow, Increasing
<1>9. Counted'
  <2>1. appended' + 1 .. appended' = {}
    BY <1>3, NoneAbove
  <2>2. Missing' = {}
    BY <1>2, <2>1 DEF Missing
  <2>3. Cardinality(Missing') = 0
    BY <2>2, FS_EmptySet
  <2>4. Cardinality(miscounted') = 0 /\ miscounted' \subseteq ToSet(rows')
    BY <1>2, FS_EmptySet
  <2> QED BY <1>2, <1>5, <2>3, <2>4 DEF Counted
<1>10. AuditTypeOK'
  <2>1. auditLife' \in Nat /\ dropped' \in Nat
    BY <1>1, <1>2
  <2>2. born' \in 0 .. appended'
    BY <1>2, <1>3
  <2>3. Len(channel') <= MirrorDepth
    BY <1>1, <1>5
  <2> QED BY <1>2, <1>3, <1>4, <1>5, <1>6, <2>1, <2>2, <2>3 DEF AuditTypeOK
<1> QED BY <1>4, <1>8, <1>9, <1>10 DEF AuditInv

-----------------------------------------------------------------------------
(* The invariant                                                           *)

LEMMA AuditInvInit == AuditInit => AuditInv
<1> SUFFICES ASSUME AuditInit PROVE AuditInv
  OBVIOUS
<1>1. /\ channel = <<>> /\ inserting = <<>> /\ rows = <<>> /\ trail = <<>>
      /\ dropped = 0 /\ appended = 0 /\ born = 0 /\ acked = {} /\ auditLife = 1
      /\ miscounted = {}
  BY DEF AuditInit
<1>2. mirror \in BOOLEAN
  BY DEF AuditInit
<1>3. /\ channel \in Seq(Nat) /\ inserting \in Seq(Nat) /\ rows \in Seq(Nat)
      /\ trail \in Seq(Piece)
  BY <1>1
<1>4. /\ DOMAIN channel = {} /\ DOMAIN inserting = {} /\ DOMAIN rows = {}
      /\ Len(channel) = 0 /\ Len(inserting) = 0
  BY <1>1
<1>5. Len(channel) <= MirrorDepth /\ born \in 0 .. appended
  BY <1>1, <1>4, AuditTrailAssumption
<1>6. AuditTypeOK
  BY <1>1, <1>2, <1>3, <1>4, <1>5 DEF AuditTypeOK
<1>7. Flow
  BY <1>4 DEF Flow, Increasing
<1>8. Counted
  <2>1. born + 1 .. appended = {}
    BY <1>1
  <2>2. Missing = {}
    BY <2>1 DEF Missing
  <2>3. Cardinality(Missing) = 0
    BY <2>2, FS_EmptySet
  <2>4. Cardinality(miscounted) = 0 /\ miscounted \subseteq ToSet(rows)
    BY <1>1, FS_EmptySet
  <2> QED BY <1>1, <1>4, <2>3, <2>4 DEF Counted
<1>9. Written /\ InOrder
  BY <1>1 DEF Written, InOrder
<1> QED BY <1>6, <1>7, <1>8, <1>9 DEF AuditInv

LEMMA AuditInvStep == AuditInv /\ [AuditNext]_auditVars => AuditInv'
<1> SUFFICES ASSUME AuditInv, [AuditNext]_auditVars PROVE AuditInv'
  OBVIOUS
<1>1. CASE AppendRecord
  BY <1>1, AppendStep
<1>2. CASE TakeRecord
  BY <1>2, TakeStep
<1>3. CASE InsertDone \/ InsertFails
  BY <1>3, InsertStep
<1>4. ASSUME NEW cut \in BOOLEAN, AuditRestart(cut) PROVE AuditInv'
  BY <1>4, AuditRestartStep
<1>5. CASE UNCHANGED auditVars
  <2>1. Missing' = Missing
    BY <1>5 DEF auditVars, Missing
  <2> QED BY <1>5, <2>1
          DEF auditVars, AuditInv, AuditTypeOK, Flow, Counted, Written, InOrder
<1> QED BY <1>1, <1>2, <1>3, <1>4, <1>5 DEF AuditNext

\* A record that was reported as written and cannot be read stands right behind
\* a torn line, another record behind another one.
LEMMA TornBefore ==
    ASSUME AuditInv
    PROVE  TornLinesCost
<1> DEFINE place(r) == CHOOSE i \in DOMAIN trail :
                            trail[i].rec = r /\ trail[i].ended
           before == [r \in Unreadable |-> place(r) - 1]
<1>1. /\ trail \in Seq(Piece) /\ Len(trail) \in Nat
      /\ DOMAIN trail = 1 .. Len(trail)
  BY DEF AuditInv, AuditTypeOK
<1>2. ASSUME NEW r \in Unreadable
      PROVE  /\ place(r) \in DOMAIN trail
             /\ trail[place(r)].rec = r
             /\ place(r) - 1 \in Torn
             /\ place(r) \in Int
  <2>1. r \in acked /\ ~Readable(r)
    BY DEF Unreadable
  <2>2. \E i \in DOMAIN trail : trail[i].rec = r /\ trail[i].ended
    BY <2>1 DEF AuditInv, Written
  <2>3. /\ place(r) \in DOMAIN trail
        /\ trail[place(r)].rec = r /\ trail[place(r)].ended
    BY <2>2
  <2> HIDE DEF place
  <2>4. place(r) > 1 /\ ~trail[place(r) - 1].ended
    BY <2>1, <2>3 DEF Readable
  <2>5. place(r) \in Int /\ place(r) - 1 \in DOMAIN trail
    BY <1>1, <2>3, <2>4
  <2> QED BY <2>3, <2>4, <2>5 DEF Torn
<1> HIDE DEF place
<1>3. before \in Injection(Unreadable, Torn)
  <2>1. before \in [Unreadable -> Torn]
    BY <1>2
  <2>2. ASSUME NEW r \in Unreadable, NEW s \in Unreadable, before[r] = before[s]
        PROVE  r = s
    <3>1. place(r) - 1 = place(s) - 1
      BY <2>2
    <3>2. place(r) = place(s)
      BY <1>2, <3>1
    <3> QED BY <1>2, <3>2
  <2>3. IsInjective(before)
    BY <2>1, <2>2 DEF IsInjective
  <2> QED BY <2>1, <2>3 DEF Injection
<1>4. IsFiniteSet(Torn)
  <2>1. Torn \in SUBSET (1 .. Len(trail))
    BY <1>1 DEF Torn
  <2>2. IsFiniteSet(1 .. Len(trail))
    BY <1>1, FS_Interval
  <2> QED BY <2>1, <2>2, FS_Subset
<1>5. ASSUME NEW r \in Unreadable
      PROVE  /\ trail[place(r) - 1].rec < r
             /\ \A q \in acked : ~(trail[place(r) - 1].rec < q /\ q < r)
  <2> DEFINE p == place(r)
  <2>1. /\ p \in DOMAIN trail /\ p - 1 \in DOMAIN trail /\ p \in Int
        /\ trail[p].rec = r
    BY <1>2 DEF Torn
  <2> HIDE DEF p
  <2>2. /\ \A i, j \in DOMAIN trail : i < j => trail[i].rec < trail[j].rec
        /\ \A i \in DOMAIN trail : trail[i].rec \in Nat
    <3>1. \A i \in DOMAIN trail : trail[i] \in Piece
      BY <1>1
    <3> QED BY <3>1 DEF AuditInv, InOrder, Piece
  <2>3. trail[p - 1].rec < r
    BY <2>1, <2>2
  <2>4. ASSUME NEW q \in acked, trail[p - 1].rec < q, q < r PROVE FALSE
    <3>1. PICK i \in DOMAIN trail : trail[i].rec = q
      BY DEF AuditInv, Written
    <3>2. i \in Int /\ (i <= p - 1 \/ p <= i)
      BY <1>1, <2>1
    <3>3. trail[i].rec <= trail[p - 1].rec \/ r <= trail[i].rec
      <4>1. CASE i < p - 1
        BY <2>1, <2>2, <4>1
      <4>2. CASE i = p - 1
        BY <2>1, <2>2, <4>2
      <4>3. CASE p < i
        BY <2>1, <2>2, <4>3
      <4>4. CASE p = i
        BY <2>1, <2>2, <4>4
      <4> QED BY <2>1, <3>2, <4>1, <4>2, <4>3, <4>4
    <3> QED BY <2>1, <2>2, <2>4, <3>1, <3>3
  <2> QED BY <2>3, <2>4 DEF p
<1> QED BY <1>2, <1>3, <1>4, <1>5, FS_Injection DEF TornLinesCost

\* Every variable of the audit trail keeps its type, the channel its depth.
THEOREM AuditTypeCorrect == AuditSpec => []AuditTypeOK
<1>1. AuditInv => AuditTypeOK
  BY DEF AuditInv
<1> QED BY <1>1, AuditInvInit, AuditInvStep, PTL DEF AuditSpec

\* The mirror's count is the records the table lacks and that are not under way,
\* and those whose INSERT was done although its answer was lost, no more and no
\* less; and the table keeps the order of the appends (pg_audit.rs:151-152,
\* 171-172): for any depth of the channel, through failed INSERTs and restarts.
THEOREM MirrorIsAccounted == AuditSpec => []MirrorAccounts
<1>1. AuditInv => MirrorAccounts
  BY DEF AuditInv, Flow, Counted, MirrorAccounts
<1> QED BY <1>1, AuditInvInit, AuditInvStep, PTL DEF AuditSpec

\* A record that was reported as written can be unreadable, but only the first
\* one since a torn line, and one for each torn line at most (persist.rs:87-96).
THEOREM TornLinesAreCheap == AuditSpec => []TornLinesCost
<1> QED BY TornBefore, AuditInvInit, AuditInvStep, PTL DEF AuditSpec
=============================================================================
