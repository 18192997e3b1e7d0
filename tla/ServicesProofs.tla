--------------------------- MODULE ServicesProofs ---------------------------
(***************************************************************************)
(* Proofs about four services that the rest leans on: the limit of         *)
(* requests (RateLimit), the webhook subscriptions (Subscription), the     *)
(* chain of the audit log (Audit) and the queue of mints whose names and   *)
(* prices are asked for (Tokens), for every value of their constants.      *)
(* Each has an inductive invariant of its own (LimitOK, SubscriptionOK,    *)
(* AuditOK, TokensOK), and one lemma for each of its actions.              *)
(***************************************************************************)
EXTENDS WellFoundedInduction, Tokens, RateLimit, Subscription, Audit, FiniteSetTheorems, TLAPS

-----------------------------------------------------------------------------
(* RateLimit: any callers, instances, windows, limits and retention.       *)

(* Windows.                                                                *)

\* A moment lies in its window.
LEMMA InItsWindow ==
    ASSUME NEW t \in Nat
    PROVE  /\ WindowOf(t) \in Nat /\ Ends(t) \in Nat
           /\ WindowOf(t) * Window <= t /\ t < Ends(t)
<1> DEFINE q == t \div Window
           r == t % Window
<1>1. Window \in Nat /\ Window > 0
  BY WindowAssumption
<1>2. q \in Int /\ r \in 0 .. Window - 1 /\ t = Window * q + r
  BY <1>1
<1> HIDE DEF q, r
<1>3. q >= 0
  <2>1. SUFFICES ASSUME q <= -1 PROVE FALSE
    BY <1>2
  <2>2. Window * q <= Window * (-1)
    BY <1>1, <1>2, <2>1
  <2> QED
    BY <1>1, <1>2, <2>2
<1>4. (q + 1) * Window = Window * q + Window /\ q * Window = Window * q
  BY <1>1, <1>2
<1>5. (q + 1) * Window \in Nat
  BY <1>1, <1>2, <1>3
<1>6. WindowOf(t) = q /\ Ends(t) = (q + 1) * Window
  BY DEF WindowOf, Ends, q
<1> QED
  BY <1>1, <1>2, <1>3, <1>4, <1>5, <1>6

\* Later moments are in later windows, whose ends are later.
LEMMA WindowsAreInOrder ==
    ASSUME NEW s \in Nat, NEW t \in Nat, s <= t
    PROVE  WindowOf(s) <= WindowOf(t) /\ Ends(s) <= Ends(t)
<1>1. Window \in Nat /\ Window > 0
  BY WindowAssumption
<1>2. /\ WindowOf(s) \in Nat /\ WindowOf(s) * Window <= s
      /\ WindowOf(t) \in Nat /\ t < (WindowOf(t) + 1) * Window
  BY InItsWindow DEF Ends
<1>3. WindowOf(s) <= WindowOf(t)
  <2>1. SUFFICES ASSUME WindowOf(s) >= WindowOf(t) + 1 PROVE FALSE
    BY <1>2
  <2>2. WindowOf(s) * Window >= (WindowOf(t) + 1) * Window
    BY <1>1, <1>2, <2>1
  <2>3. WindowOf(s) * Window \in Nat /\ (WindowOf(t) + 1) * Window \in Nat
    BY <1>1, <1>2
  <2> QED
    BY <1>2, <2>2, <2>3
<1>4. (WindowOf(s) + 1) * Window <= (WindowOf(t) + 1) * Window
  BY <1>1, <1>2, <1>3
<1> QED
  BY <1>3, <1>4 DEF Ends

\* What has not ended yet is in the same window.
LEMMA SameWindow ==
    ASSUME NEW s \in Nat, NEW t \in Nat, s <= t, t < Ends(s)
    PROVE  WindowOf(s) = WindowOf(t)
<1>1. Window \in Nat /\ Window > 0
  BY WindowAssumption
<1>2. WindowOf(s) <= WindowOf(t)
  BY WindowsAreInOrder
<1>3. /\ WindowOf(s) \in Nat /\ WindowOf(t) \in Nat
      /\ WindowOf(t) * Window <= t /\ t < (WindowOf(s) + 1) * Window
  BY InItsWindow DEF Ends
<1>4. SUFFICES ASSUME WindowOf(t) >= WindowOf(s) + 1 PROVE FALSE
  BY <1>2, <1>3
<1>5. WindowOf(t) * Window >= (WindowOf(s) + 1) * Window
  BY <1>1, <1>3, <1>4
<1>6. WindowOf(t) * Window \in Nat /\ (WindowOf(s) + 1) * Window \in Nat
  BY <1>1, <1>3
<1> QED
  BY <1>3, <1>5, <1>6

\* The table has a row for the window of every moment.
LEMMA WindowType ==
    ASSUME NEW t \in 0 .. MaxClock
    PROVE  WindowOf(t) \in Windows
<1>1. MaxClock \in Nat /\ t \in Nat /\ t <= MaxClock
  BY DriftAssumption
<1>2. WindowOf(t) <= WindowOf(MaxClock) /\ WindowOf(t) \in Nat /\ WindowOf(MaxClock) \in Nat
  BY <1>1, InItsWindow, WindowsAreInOrder
<1> QED
  BY <1>2 DEF Windows, WindowOf

-----------------------------------------------------------------------------
(* The invariant.                                                          *)

\* The clock an instance read is not ahead, and what it remembers does not reach
\* beyond the window in progress.
MemoIsNotBeyond ==
    /\ \A i \in Instances : asking[i].now <= clock
    /\ \A i \in Instances, c \in Callers : memo[i][c] <= Ends(clock)

\* As long as a window is not over, whom it let through was counted in it: pruning
\* takes what is over.
AdmittedWereCounted ==
    \A c \in Callers, w \in Windows : w >= WindowOf(clock) => admitted[<<c, w>>] <= hits[<<c, w>>]

LimitOK == LimitTypeOK /\ MemoIsNotBeyond /\ AdmittedWereCounted /\ WithinLimit

LEMMA LimitBeginsOK == LimitInit => LimitOK
<1> SUFFICES ASSUME LimitInit PROVE LimitOK
  OBVIOUS
<1>1. LimitTypeOK
  BY DriftAssumption DEF LimitInit, LimitTypeOK, NoCaller
<1>2. Ends(0) \in Nat /\ Limit \in Nat
  BY InItsWindow, WindowAssumption
<1>3. MemoIsNotBeyond
  BY <1>2 DEF LimitInit, MemoIsNotBeyond, NoCaller
<1>4. AdmittedWereCounted
  BY DEF LimitInit, AdmittedWereCounted
<1>5. WithinLimit
  BY <1>2 DEF LimitInit, WithinLimit, MemoIsOfAFullWindow
<1> QED
  BY <1>1, <1>3, <1>4, <1>5 DEF LimitOK

\* The next moment is in the same window or after every memory's end.
LEMMA TickOK == ASSUME LimitOK, Tick PROVE LimitOK'
<1> USE DEF LimitOK
<1>1. /\ clock \in Nat /\ clock < MaxClock /\ clock' = clock + 1
      /\ hits' = hits /\ memo' = memo /\ asking' = asking /\ admitted' = admitted
  BY DriftAssumption DEF Tick, LimitTypeOK
<1>2. WindowOf(clock) <= WindowOf(clock + 1) /\ Ends(clock) <= Ends(clock + 1)
  BY <1>1, WindowsAreInOrder
<1>3. /\ WindowOf(clock) \in Nat /\ WindowOf(clock + 1) \in Nat
      /\ Ends(clock) \in Nat /\ Ends(clock + 1) \in Nat
  BY <1>1, InItsWindow
<1>4. LimitTypeOK'
  BY <1>1, DriftAssumption DEF LimitTypeOK
<1>5. MemoIsNotBeyond'
  <2>1. \A i \in Instances : asking[i].now \in Nat /\ asking[i].now <= clock
    BY DEF LimitTypeOK, MemoIsNotBeyond
  <2>2. \A i \in Instances, c \in Callers : memo[i][c] \in Nat /\ memo[i][c] <= Ends(clock)
    BY DEF LimitTypeOK, MemoIsNotBeyond
  <2>3. Ends(clock)' = Ends(clock + 1)
    BY <1>1 DEF Ends, WindowOf
  <2> QED
    BY <1>1, <1>2, <1>3, <2>1, <2>2, <2>3 DEF MemoIsNotBeyond
<1>6. AdmittedWereCounted'
  <2> SUFFICES ASSUME NEW c \in Callers, NEW w \in Windows, w >= WindowOf(clock')
               PROVE  admitted[<<c, w>>] <= hits[<<c, w>>]
    BY <1>1 DEF AdmittedWereCounted, WindowOf
  <2>1. w \in Int
    BY DEF Windows
  <2>2. w >= WindowOf(clock)
    BY <1>1, <1>2, <1>3, <2>1
  <2> QED
    BY <2>2 DEF AdmittedWereCounted
<1>7. WithinLimit'
  <2>1. SUFFICES ASSUME NEW i \in Instances, NEW c \in Callers, clock' < memo[i][c]
                 PROVE  hits[<<c, WindowOf(clock')>>] > Limit
    BY <1>1 DEF WithinLimit, MemoIsOfAFullWindow, WindowOf
  <2>2. memo[i][c] \in Nat /\ memo[i][c] <= Ends(clock)
    BY DEF LimitTypeOK, MemoIsNotBeyond
  <2>3. WindowOf(clock') = WindowOf(clock)
    BY <1>1, <1>3, <2>1, <2>2, SameWindow
  <2>4. clock < memo[i][c]
    BY <1>1, <2>1, <2>2
  <2> QED
    BY <2>3, <2>4 DEF WithinLimit, MemoIsOfAFullWindow
<1> QED
  BY <1>4, <1>5, <1>6, <1>7

\* Forgetting disturbs nothing: what a memory says is the only thing that is promised of it.
LEMMA ForgettingOK ==
    ASSUME LimitOK, UNCHANGED <<clock, hits, admitted>>,
           memo' \in [Instances -> [Callers -> Nat]],
           \A i \in Instances, c \in Callers : memo'[i][c] \in {0, memo[i][c]},
           asking' \in [Instances -> [who : {{}} \cup {{c} : c \in Callers}, now : 0 .. MaxClock]],
           \A i \in Instances : asking'[i].now <= clock
    PROVE  LimitOK'
<1> USE DEF LimitOK
<1>1. clock \in Nat /\ Ends(clock) \in Nat
  BY InItsWindow, DriftAssumption DEF LimitTypeOK
<1>2. LimitTypeOK'
  BY DEF LimitTypeOK
<1>3. MemoIsNotBeyond'
  BY <1>1 DEF MemoIsNotBeyond, Ends, WindowOf
<1>4. AdmittedWereCounted'
  BY DEF AdmittedWereCounted, WindowOf
<1>5. WithinLimit'
  <2>1. \A i \in Instances, c \in Callers : clock < memo'[i][c] => clock < memo[i][c]
    BY <1>1
  <2> QED
    BY <2>1 DEF WithinLimit, MemoIsOfAFullWindow, WindowOf
<1> QED
  BY <1>2, <1>3, <1>4, <1>5

LEMMA ArriveOK ==
    ASSUME LimitOK, NEW i \in Instances, NEW c \in Callers, NEW now \in 0 .. MaxClock, Arrive(i, c, now)
    PROVE  LimitOK'
<1>1. /\ memo' \in [Instances -> [Callers -> Nat]]
      /\ \A j \in Instances, d \in Callers : memo'[j][d] \in {0, memo[j][d]}
  BY DEF LimitOK, LimitTypeOK, Arrive
<1>2. asking' \in [Instances -> [who : {{}} \cup {{d} : d \in Callers}, now : 0 .. MaxClock]]
  BY DEF LimitOK, LimitTypeOK, Arrive
<1>3. \A j \in Instances : asking'[j].now <= clock
  BY DEF LimitOK, LimitTypeOK, MemoIsNotBeyond, Arrive
<1> QED
  BY <1>1, <1>2, <1>3, ForgettingOK DEF Arrive

LEMMA RecycleOK == ASSUME LimitOK, NEW i \in Instances, Recycle(i) PROVE LimitOK'
<1>1. /\ memo' \in [Instances -> [Callers -> Nat]]
      /\ \A j \in Instances, d \in Callers : memo'[j][d] \in {0, memo[j][d]}
  BY DEF LimitOK, LimitTypeOK, Recycle
<1>2. asking' \in [Instances -> [who : {{}} \cup {{d} : d \in Callers}, now : 0 .. MaxClock]]
  BY DriftAssumption DEF LimitOK, LimitTypeOK, Recycle, NoCaller
<1>3. \A j \in Instances : asking'[j].now <= clock
  BY DEF LimitOK, LimitTypeOK, MemoIsNotBeyond, Recycle, NoCaller
<1> QED
  BY <1>1, <1>2, <1>3, ForgettingOK DEF Recycle

\* A window that is pruned is over.
LEMMA PruneOK == ASSUME LimitOK, Prune PROVE LimitOK'
<1> USE DEF LimitOK
<1>1. /\ clock \in 0 .. MaxClock /\ clock \in Nat
      /\ clock' = clock /\ memo' = memo /\ asking' = asking /\ admitted' = admitted
  BY DriftAssumption DEF Prune, LimitTypeOK
<1>2. \A c \in Callers, w \in Windows :
         hits'[<<c, w>>] = IF w * Window < clock - Retention THEN 0 ELSE hits[<<c, w>>]
  BY DEF Prune
<1>3. ASSUME NEW c \in Callers, NEW w \in Windows, w >= WindowOf(clock)
      PROVE  hits'[<<c, w>>] = hits[<<c, w>>]
  <2>1. Window \in Nat /\ Window > 0 /\ Retention \in Nat /\ Retention >= Window /\ w \in Nat
    BY WindowAssumption, RetentionAssumption DEF Windows
  <2>2. WindowOf(clock) \in Nat /\ clock < (WindowOf(clock) + 1) * Window
    BY <1>1, InItsWindow DEF Ends
  <2>3. (w + 1) * Window >= (WindowOf(clock) + 1) * Window
    BY <1>3, <2>1, <2>2
  <2>4. (w + 1) * Window = w * Window + Window /\ w * Window \in Nat /\ (WindowOf(clock) + 1) * Window \in Nat
    BY <2>1, <2>2
  <2>5. ~(w * Window < clock - Retention)
    BY <1>1, <2>1, <2>2, <2>3, <2>4
  <2> QED
    BY <1>2, <2>5
<1>4. LimitTypeOK'
  <2>1. hits' \in [Callers \X Windows -> Nat]
    BY DEF Prune, LimitTypeOK
  <2> QED
    BY <1>1, <2>1 DEF LimitTypeOK
<1>5. MemoIsNotBeyond'
  BY <1>1 DEF MemoIsNotBeyond, Ends, WindowOf
<1>6. AdmittedWereCounted'
  BY <1>1, <1>3 DEF AdmittedWereCounted, WindowOf
<1>7. WithinLimit'
  <2>1. WindowOf(clock) \in Windows /\ WindowOf(clock) \in Nat
    BY <1>1, WindowType, InItsWindow
  <2>2. \A c \in Callers : hits'[<<c, WindowOf(clock)>>] = hits[<<c, WindowOf(clock)>>]
    BY <1>3, <2>1
  <2> QED
    BY <1>1, <2>2 DEF WithinLimit, MemoIsOfAFullWindow, WindowOf
<1> QED
  BY <1>4, <1>5, <1>6, <1>7

\* A sweep only forgets.
LEMMA SweptForgets ==
    ASSUME NEW m \in [Callers -> Nat], NEW now \in Nat
    PROVE  /\ Swept(m, now) \in [Callers -> Nat]
           /\ \A c \in Callers : Swept(m, now)[c] \in {0, m[c]}
  BY DEF Swept

\* A request is counted in the window of the database's clock, and let through or
\* remembered until the end of the window of a clock that is not ahead of it.
LEMMA CountOK == ASSUME LimitOK, NEW i \in Instances, Count(i) PROVE LimitOK'
<1> USE DEF LimitOK
<1>1. PICK c \in asking[i].who :
         /\ hits' = [hits EXCEPT ![<<c, WindowOf(clock)>>] = @ + 1]
         /\ IF hits'[<<c, WindowOf(clock)>>] > Limit
            THEN /\ memo' = [memo EXCEPT ![i] = [Swept(@, asking[i].now) EXCEPT ![c] = Ends(asking[i].now)]]
                 /\ UNCHANGED admitted
            ELSE /\ admitted' = [admitted EXCEPT ![<<c, WindowOf(clock)>>] = @ + 1]
                 /\ UNCHANGED memo
         /\ asking' = [asking EXCEPT ![i] = NoCaller]
         /\ UNCHANGED clock
  BY DEF Count
<1> DEFINE w == WindowOf(clock)
           now == asking[i].now
<1>2. /\ c \in Callers /\ clock \in 0 .. MaxClock /\ clock \in Nat /\ now \in Nat /\ now <= clock
      /\ clock' = clock
  <2>1. asking[i].who \in {{}} \cup {{d} : d \in Callers} /\ asking[i].now \in 0 .. MaxClock
    BY DEF LimitTypeOK
  <2>2. c \in Callers
    BY <2>1
  <2>3. clock \in 0 .. MaxClock /\ asking[i].now <= clock /\ clock' = clock
    BY <1>1 DEF LimitTypeOK, MemoIsNotBeyond
  <2> QED
    BY <2>1, <2>2, <2>3, DriftAssumption
<1>3. w \in Windows /\ w \in Nat /\ Ends(clock) \in Nat /\ Ends(now) \in Nat /\ Ends(now) <= Ends(clock)
  BY <1>2, WindowType, InItsWindow, WindowsAreInOrder
<1>4. /\ hits \in [Callers \X Windows -> Nat] /\ admitted \in [Callers \X Windows -> Nat]
      /\ memo \in [Instances -> [Callers -> Nat]]
  BY DEF LimitTypeOK
<1> HIDE DEF w
<1>5. /\ hits' \in [Callers \X Windows -> Nat]
      /\ hits'[<<c, w>>] = hits[<<c, w>>] + 1
      /\ \A d \in Callers, v \in Windows : hits'[<<d, v>>] >= hits[<<d, v>>]
  <2>1. hits' = [hits EXCEPT ![<<c, w>>] = @ + 1] /\ <<c, w>> \in Callers \X Windows
    BY <1>1, <1>2, <1>3 DEF w
  <2>2. hits[<<c, w>>] \in Nat
    BY <1>4, <2>1
  <2>3. hits' \in [Callers \X Windows -> Nat] /\ hits'[<<c, w>>] = hits[<<c, w>>] + 1
    BY <1>4, <2>1, <2>2
  <2>4. ASSUME NEW d \in Callers, NEW v \in Windows
        PROVE  hits'[<<d, v>>] >= hits[<<d, v>>]
    <3>1. hits[<<d, v>>] \in Nat
      BY <1>4
    <3>2. CASE <<d, v>> = <<c, w>>
      BY <2>2, <2>3, <3>2
    <3>3. CASE <<d, v>> # <<c, w>>
      BY <1>4, <2>1, <3>1, <3>3
    <3> QED
      BY <3>2, <3>3
  <2> QED
    BY <2>3, <2>4
<1>6. /\ asking' \in [Instances -> [who : {{}} \cup {{d} : d \in Callers}, now : 0 .. MaxClock]]
      /\ \A j \in Instances : asking'[j].now <= clock
  BY <1>1, <1>2, DriftAssumption DEF LimitTypeOK, MemoIsNotBeyond, NoCaller
<1>7. CASE hits'[<<c, w>>] > Limit
  <2> DEFINE swept == Swept(memo[i], now)
  <2>1. memo' = [memo EXCEPT ![i] = [swept EXCEPT ![c] = Ends(now)]] /\ admitted' = admitted
    BY <1>1, <1>7 DEF w
  <2>2. swept \in [Callers -> Nat] /\ \A d \in Callers : swept[d] \in {0, memo[i][d]}
    BY <1>2, <1>4, SweptForgets
  <2> HIDE DEF swept
  <2>3. memo' \in [Instances -> [Callers -> Nat]]
    BY <1>3, <1>4, <2>1, <2>2
  <2>4. \A j \in Instances, d \in Callers :
           memo'[j][d] \in {0, memo[j][d]} \/ (j = i /\ d = c /\ memo'[j][d] = Ends(now))
    BY <1>2, <1>4, <2>1, <2>2
  <2>5. LimitTypeOK'
    BY <1>1, <1>2, <1>4, <1>5, <1>6, <2>1, <2>3 DEF LimitTypeOK
  <2>6. MemoIsNotBeyond'
    <3>1. \A j \in Instances, d \in Callers : memo'[j][d] <= Ends(clock)
      BY <1>3, <1>4, <2>4 DEF MemoIsNotBeyond
    <3> QED
      BY <1>2, <1>6, <3>1 DEF MemoIsNotBeyond, Ends, WindowOf
  <2>7. AdmittedWereCounted'
    <3> SUFFICES ASSUME NEW d \in Callers, NEW v \in Windows, v >= WindowOf(clock)
                 PROVE  admitted[<<d, v>>] <= hits'[<<d, v>>]
      BY <1>2, <2>1 DEF AdmittedWereCounted, WindowOf
    <3>1. admitted[<<d, v>>] <= hits[<<d, v>>] /\ hits[<<d, v>>] <= hits'[<<d, v>>]
      BY <1>5 DEF AdmittedWereCounted
    <3>2. admitted[<<d, v>>] \in Nat /\ hits[<<d, v>>] \in Nat /\ hits'[<<d, v>>] \in Nat
      BY <1>4, <1>5
    <3> QED
      BY <3>1, <3>2
  <2>8. WithinLimit'
    <3>1. SUFFICES ASSUME NEW j \in Instances, NEW d \in Callers, clock < memo'[j][d]
                   PROVE  hits'[<<d, w>>] > Limit
      BY <1>2, <2>1 DEF WithinLimit, MemoIsOfAFullWindow, WindowOf, w
    <3>2. CASE j = i /\ d = c
      BY <1>7, <3>2
    <3>3. CASE ~(j = i /\ d = c)
      <4>1. clock < memo[j][d]
        BY <1>2, <2>4, <3>1, <3>3
      <4>2. hits[<<d, w>>] > Limit
        BY <4>1 DEF WithinLimit, MemoIsOfAFullWindow, w
      <4>3. hits[<<d, w>>] \in Nat /\ hits'[<<d, w>>] \in Nat /\ hits'[<<d, w>>] >= hits[<<d, w>>] /\ Limit \in Nat
        BY <1>3, <1>4, <1>5, WindowAssumption
      <4> QED
        BY <4>2, <4>3
    <3> QED
      BY <3>2, <3>3
  <2> QED
    BY <2>5, <2>6, <2>7, <2>8
<1>8. CASE ~(hits'[<<c, w>>] > Limit)
  <2>1. memo' = memo /\ admitted' = [admitted EXCEPT ![<<c, w>>] = @ + 1]
    BY <1>1, <1>8 DEF w
  <2>2. /\ admitted' \in [Callers \X Windows -> Nat]
        /\ admitted'[<<c, w>>] = admitted[<<c, w>>] + 1
        /\ \A d \in Callers, v \in Windows : <<d, v>> # <<c, w>> => admitted'[<<d, v>>] = admitted[<<d, v>>]
    BY <1>2, <1>3, <1>4, <2>1
  <2>3. LimitTypeOK'
    BY <1>1, <1>2, <1>4, <1>5, <1>6, <2>1, <2>2 DEF LimitTypeOK
  <2>4. MemoIsNotBeyond'
    BY <1>2, <1>6, <2>1 DEF MemoIsNotBeyond, Ends, WindowOf
  <2>5. admitted'[<<c, w>>] <= hits'[<<c, w>>] /\ hits'[<<c, w>>] \in Nat /\ admitted'[<<c, w>>] \in Nat
    <3>1. admitted[<<c, w>>] <= hits[<<c, w>>]
      BY <1>2, <1>3 DEF AdmittedWereCounted, w
    <3>2. admitted[<<c, w>>] \in Nat /\ hits[<<c, w>>] \in Nat
      BY <1>2, <1>3, <1>4
    <3> QED
      BY <1>5, <2>2, <3>1, <3>2
  <2>6. AdmittedWereCounted'
    <3> SUFFICES ASSUME NEW d \in Callers, NEW v \in Windows, v >= WindowOf(clock)
                 PROVE  admitted'[<<d, v>>] <= hits'[<<d, v>>]
      BY <1>2 DEF AdmittedWereCounted, WindowOf
    <3>1. CASE <<d, v>> = <<c, w>>
      BY <2>5, <3>1
    <3>2. CASE <<d, v>> # <<c, w>>
      <4>1. admitted[<<d, v>>] <= hits[<<d, v>>] /\ hits[<<d, v>>] <= hits'[<<d, v>>] /\ admitted'[<<d, v>>] = admitted[<<d, v>>]
        BY <1>5, <2>2, <3>2 DEF AdmittedWereCounted
      <4>2. admitted[<<d, v>>] \in Nat /\ hits[<<d, v>>] \in Nat /\ hits'[<<d, v>>] \in Nat
        BY <1>4, <1>5
      <4> QED
        BY <4>1, <4>2
    <3> QED
      BY <3>1, <3>2
  <2>7. \A r \in Callers \X Windows : admitted'[r] <= Limit
    <3> SUFFICES ASSUME NEW d \in Callers, NEW v \in Windows PROVE admitted'[<<d, v>>] <= Limit
      OBVIOUS
    <3>1. CASE <<d, v>> = <<c, w>>
      BY <1>8, <2>5, <3>1, WindowAssumption
    <3>2. CASE <<d, v>> # <<c, w>>
      <4>1. <<d, v>> \in Callers \X Windows /\ admitted'[<<d, v>>] = admitted[<<d, v>>]
        BY <2>2, <3>2
      <4> QED
        BY <4>1 DEF WithinLimit
    <3> QED
      BY <3>1, <3>2
  <2>8. MemoIsOfAFullWindow'
    <3>1. SUFFICES ASSUME NEW j \in Instances, NEW d \in Callers, clock < memo[j][d]
                   PROVE  hits'[<<d, w>>] > Limit
      BY <1>2, <2>1 DEF MemoIsOfAFullWindow, WindowOf, w
    <3>2. hits[<<d, w>>] > Limit
      BY <3>1 DEF WithinLimit, MemoIsOfAFullWindow, w
    <3>3. hits[<<d, w>>] \in Nat /\ hits'[<<d, w>>] \in Nat /\ hits'[<<d, w>>] >= hits[<<d, w>>] /\ Limit \in Nat
      BY <1>3, <1>4, <1>5, WindowAssumption
    <3> QED
      BY <3>2, <3>3
  <2> QED
    BY <2>3, <2>4, <2>6, <2>7, <2>8 DEF WithinLimit
<1> QED
  BY <1>7, <1>8

\* Every step of the limiter preserves the invariant.
LEMMA LimitStepOK == ASSUME LimitOK, [LimitNext]_limitVars PROVE LimitOK'
<1>1. CASE Tick
  BY <1>1, TickOK
<1>2. CASE Prune
  BY <1>2, PruneOK
<1>3. ASSUME NEW i \in Instances, NEW c \in Callers, NEW now \in 0 .. MaxClock, Arrive(i, c, now)
      PROVE  LimitOK'
  BY <1>3, ArriveOK
<1>4. ASSUME NEW i \in Instances, Count(i) PROVE LimitOK'
  BY <1>4, CountOK
<1>5. ASSUME NEW i \in Instances, Recycle(i) PROVE LimitOK'
  BY <1>5, RecycleOK
<1>6. CASE UNCHANGED limitVars
  BY <1>6 DEF limitVars, LimitOK, LimitTypeOK, MemoIsNotBeyond, AdmittedWereCounted, WithinLimit,
              MemoIsOfAFullWindow, WindowOf, Ends
<1> QED
  BY <1>1, <1>2, <1>3, <1>4, <1>5, <1>6 DEF LimitNext

\* The variables of the limiter keep their types (rate_limit and the memo of an instance).
THEOREM LimitTypeCorrect == LimitSpec => []LimitTypeOK
<1>1. LimitOK => LimitTypeOK
  BY DEF LimitOK
<1> QED
  BY <1>1, LimitBeginsOK, LimitStepOK, PTL DEF LimitSpec

\* hitLimit, rateLimited and pruneRateLimit: of one caller as many requests as the limit are
\* let through in one window and no more, on however many instances, whenever they forget and
\* whatever is pruned; and none is refused from memory that the database would let through.
THEOREM LimitIsKept == LimitSpec => []WithinLimit
<1>1. LimitOK => WithinLimit
  BY DEF LimitOK
<1> QED
  BY <1>1, LimitBeginsOK, LimitStepOK, PTL DEF LimitSpec

-----------------------------------------------------------------------------
(* Subscription: any wallets, webhooks, reconciliations and losses.        *)

(* The invariant.                                                          *)

HookType == [there : BOOLEAN, used : BOOLEAN, holds : SUBSET Wallets]

SyncType ==
    [step : {"idle", "read", "edit", "create", "sent", "confirmed", "bnb", "patch", "post"},
     set : SUBSET Wallets, saw : Stored, id : Hooks \cup {NoHook}]

Gone(a) == roster[a] = "gone"
Listed(S) == \A a \in S : roster[a] # "new"

\* A set that was the roster's covers one that was it before, but for wallets gone since.
Covers(T, S) == \A a \in S : a \in T \/ Gone(a)

\* What a reconciliation under way knows.
SyncOK(r) ==
    /\ r.step # "idle" => Listed(r.set) /\ Covers(r.set, stored.set)
    /\ r.step = "edit" => r.saw.id \in Hooks
    /\ r.step \in {"sent", "confirmed"} => r.id \in Hooks /\ hook[r.id].holds = r.set

OneAtATime == \A s, t \in Syncs : ~Resting(s) /\ ~Resting(t) => s = t

WatchedOK ==
    stored.id # NoHook /\ hook[stored.id].there => Covers(hook[stored.id].holds, stored.set)

SubscriptionOK ==
    /\ SubscriptionTypeOK
    /\ OneAtATime
    /\ Listed(stored.set)
    /\ WatchedOK
    /\ \A s \in Syncs : SyncOK(sync[s])

-----------------------------------------------------------------------------
(* Frames.                                                                 *)

LEMMA TypeIs ==
    SubscriptionTypeOK <=>
    /\ roster \in [Wallets -> {"new", "wanted", "gone"}] /\ hook \in [Hooks -> HookType]
    /\ stored \in Stored /\ sync \in [Syncs -> SyncType]
    /\ bnb \in [there : BOOLEAN, holds : SUBSET Wallets] /\ told \subseteq Wallets
    /\ started \in 0 .. MaxSyncs
  BY DEF SubscriptionTypeOK, HookType, SyncType

LEMMA TypeIsPrimed ==
    SubscriptionTypeOK' <=>
    /\ roster' \in [Wallets -> {"new", "wanted", "gone"}] /\ hook' \in [Hooks -> HookType]
    /\ stored' \in Stored /\ sync' \in [Syncs -> SyncType]
    /\ bnb' \in [there : BOOLEAN, holds : SUBSET Wallets] /\ told' \subseteq Wallets
    /\ started' \in 0 .. MaxSyncs
  BY DEF SubscriptionTypeOK, HookType, SyncType

LEMMA QuietType == Quiet \in SyncType /\ Quiet.step = "idle" /\ Unsynced \in Stored
  BY DEF Quiet, Unsynced, SyncType, Stored

LEMMA SetsAre == ASSUME SubscriptionOK PROVE stored.set \subseteq Wallets /\ Wanted \subseteq Wallets
  BY TypeIs DEF SubscriptionOK, Stored, Wanted

\* One reconciliation goes on; the others are at rest.
LEMMA OneSync ==
    ASSUME SubscriptionOK, NEW s \in Syncs, NEW q \in SyncType, sync' = [sync EXCEPT ![s] = q],
           roster' = roster, hook' \in [Hooks -> HookType], stored' \in Stored,
           bnb' \in [there : BOOLEAN, holds : SUBSET Wallets], told' \subseteq Wallets,
           started' \in 0 .. MaxSyncs,
           \A t \in Syncs : t # s => Resting(t), SyncOK(q)',
           Listed(stored.set)', WatchedOK'
    PROVE  SubscriptionOK'
<1>1. sync \in [Syncs -> SyncType] /\ roster \in [Wallets -> {"new", "wanted", "gone"}]
  BY TypeIs DEF SubscriptionOK
<1>2. sync' \in [Syncs -> SyncType]
  BY <1>1
<1>3. SubscriptionTypeOK'
  BY <1>1, <1>2, TypeIsPrimed
<1>4. \A t \in Syncs : sync'[t] = IF t = s THEN q ELSE sync[t]
  BY <1>1
<1>5. OneAtATime'
  BY <1>4 DEF OneAtATime, Resting
<1>6. ASSUME NEW t \in Syncs PROVE SyncOK(sync[t])'
  <2>1. CASE t = s
    <3>1. sync'[t] = q
      BY <1>4, <2>1
    <3> QED
      BY <3>1 DEF SyncOK
  <2>2. CASE t # s
    <3>1. sync'[t].step = "idle"
      BY <1>4, <2>2 DEF Resting
    <3> QED
      BY <3>1 DEF SyncOK
  <2> QED
    BY <2>1, <2>2
<1> QED
  BY <1>3, <1>5, <1>6 DEF SubscriptionOK

LEMMA Others ==
    ASSUME SubscriptionOK, NEW s \in Syncs, ~Resting(s)
    PROVE  /\ sync[s] \in SyncType /\ SyncOK(sync[s]) /\ \A t \in Syncs : t # s => Resting(t)
           /\ roster \in [Wallets -> {"new", "wanted", "gone"}] /\ hook \in [Hooks -> HookType]
           /\ stored \in Stored /\ bnb \in [there : BOOLEAN, holds : SUBSET Wallets]
           /\ told \subseteq Wallets /\ started \in 0 .. MaxSyncs
           /\ Listed(stored.set) /\ WatchedOK
  BY TypeIs DEF SubscriptionOK, OneAtATime

\* A step that changes nothing but the reconciliation itself.
LEMMA OnlySync ==
    ASSUME SubscriptionOK, NEW s \in Syncs, NEW q \in SyncType, sync' = [sync EXCEPT ![s] = q],
           UNCHANGED <<roster, hook, stored, bnb, told>>, started' \in 0 .. MaxSyncs,
           \A t \in Syncs : t # s => Resting(t), SyncOK(q)'
    PROVE  SubscriptionOK'
<1>1. Listed(stored.set)' /\ WatchedOK'
  BY DEF SubscriptionOK, Listed, WatchedOK, Covers, Gone
<1>2. /\ roster' = roster /\ hook' \in [Hooks -> HookType] /\ stored' \in Stored
      /\ bnb' \in [there : BOOLEAN, holds : SUBSET Wallets] /\ told' \subseteq Wallets
  BY TypeIs DEF SubscriptionOK
<1> QED
  BY <1>1, <1>2, OneSync

-----------------------------------------------------------------------------
(* Steps.                                                                  *)

\* The roster: what was listed is not new, and what is gone stays gone.
LEMMA RosterOK ==
    ASSUME SubscriptionOK, NEW a \in Wallets, NEW now \in {"wanted", "gone"},
           roster' = [roster EXCEPT ![a] = now], roster[a] # "gone",
           UNCHANGED <<hook, stored, sync, bnb, told, started>>
    PROVE  SubscriptionOK'
<1>1. roster \in [Wallets -> {"new", "wanted", "gone"}] /\ sync \in [Syncs -> SyncType] /\ stored \in Stored
  BY TypeIs DEF SubscriptionOK
<1>2. SubscriptionTypeOK'
  <2>1. roster' \in [Wallets -> {"new", "wanted", "gone"}]
    BY <1>1
  <2> QED
    BY <2>1, TypeIs, TypeIsPrimed DEF SubscriptionOK
<1>3. \A b \in Wallets : (roster[b] # "new" => roster'[b] # "new") /\ (Gone(b) => Gone(b)')
  BY <1>1 DEF Gone
<1>4. \A T \in SUBSET Wallets : (Listed(T) => Listed(T)') /\ (\A S \in SUBSET Wallets : Covers(S, T) => Covers(S, T)')
  BY <1>3 DEF Listed, Covers
<1>5. \A S : Covers(S, stored.set) => Covers(S, stored.set)'
  BY <1>1, <1>3 DEF Covers, Stored
<1>6. Listed(stored.set)' /\ WatchedOK' /\ OneAtATime'
  <2>1. stored.set \in SUBSET Wallets
    BY <1>1 DEF Stored
  <2>2. Listed(stored.set)'
    BY <1>4, <2>1 DEF SubscriptionOK, Listed
  <2>3. WatchedOK'
    BY <1>5 DEF SubscriptionOK, WatchedOK
  <2>4. OneAtATime'
    BY DEF SubscriptionOK, OneAtATime, Resting
  <2> QED
    BY <2>2, <2>3, <2>4
<1>7. ASSUME NEW s \in Syncs PROVE SyncOK(sync[s])'
  <2>1. PICK r \in SyncType : r = sync[s] /\ SyncOK(r)
    BY <1>1 DEF SubscriptionOK
  <2>2. r.set \in SUBSET Wallets
    BY DEF SyncType
  <2>3. r.step # "idle" => Listed(r.set)' /\ Covers(r.set, stored.set)'
    BY <1>4, <1>5, <2>1, <2>2 DEF SyncOK
  <2>4. SyncOK(r)'
    BY <2>1, <2>3 DEF SyncOK
  <2> QED
    BY <2>1, <2>4 DEF SyncOK
<1> QED
  BY <1>2, <1>6, <1>7 DEF SubscriptionOK

\* One that starts takes the roster as it is.
LEMMA StartOK ==
    ASSUME SubscriptionOK, SyncAlone, NEW s \in Syncs, NEW step \in {"read", "bnb"},
           started < MaxSyncs, SyncAlone => \A t \in Syncs : Resting(t),
           sync' = [sync EXCEPT ![s] = [Quiet EXCEPT !.step = step, !.set = Wanted]],
           started' = started + 1, UNCHANGED <<roster, hook, stored, bnb, told>>
    PROVE  SubscriptionOK'
<1>1. PICK q : q = [Quiet EXCEPT !.step = step, !.set = Wanted]
  OBVIOUS
<1>2. q \in SyncType /\ q.step = step /\ q.set = Wanted
  BY <1>1, QuietType, SetsAre DEF Quiet, SyncType
<1>3. Listed(Wanted) /\ Covers(Wanted, stored.set)
  <2>1. roster \in [Wallets -> {"new", "wanted", "gone"}] /\ stored.set \subseteq Wallets
    BY SetsAre, TypeIs DEF SubscriptionOK
  <2> QED
    BY <2>1 DEF SubscriptionOK, Listed, Covers, Wanted, Gone
<1>4. SyncOK(q)'
  <2>1. Listed(q.set)' /\ Covers(q.set, stored.set)'
    BY <1>2, <1>3 DEF Listed, Covers, Gone
  <2> QED
    BY <1>2, <2>1 DEF SyncOK
<1>5. started' \in 0 .. MaxSyncs
  BY HookAssumption, TypeIs DEF SubscriptionOK
<1> QED
  BY <1>1, <1>2, <1>4, <1>5, OnlySync

LEMMA GiveOK ==
    ASSUME SubscriptionOK, NEW s \in Syncs, Give(s), \A t \in Syncs : t # s => Resting(t),
           UNCHANGED <<roster, hook, stored, bnb, told, started>>
    PROVE  SubscriptionOK'
<1>1. SyncOK(Quiet)'
  BY QuietType DEF SyncOK
<1>2. sync' = [sync EXCEPT ![s] = Quiet] /\ started' \in 0 .. MaxSyncs
  BY TypeIs DEF SubscriptionOK, Give
<1> QED
  BY <1>1, <1>2, QuietType, OnlySync

LEMMA CheckHookOK == ASSUME SubscriptionOK, NEW s \in Syncs, CheckHook(s) PROVE SubscriptionOK'
<1>1. ~Resting(s) /\ sync[s].step = "read" /\ UNCHANGED <<roster, hook, stored, bnb, told, started>>
  BY DEF CheckHook, Stands, Resting
<1>2. PICK r : r = sync[s] /\ r \in SyncType /\ SyncOK(r)
  BY <1>1, Others
<1>3. \A t \in Syncs : t # s => Resting(t)
  BY <1>1, Others
<1>4. PICK exists \in BOOLEAN :
         /\ exists => stored.id # NoHook
         /\ \/ Give(s)
            \/ sync' = [sync EXCEPT ![s].step = IF exists THEN "edit" ELSE "create", ![s].saw = stored]
  BY DEF CheckHook
<1>5. CASE Give(s)
  BY <1>1, <1>3, <1>5, GiveOK
<1>6. CASE sync' = [sync EXCEPT ![s].step = IF exists THEN "edit" ELSE "create", ![s].saw = stored]
  <2>1. PICK q : q = [r EXCEPT !.step = IF exists THEN "edit" ELSE "create", !.saw = stored]
    OBVIOUS
  <2>2. stored \in Stored /\ sync \in [Syncs -> SyncType] /\ started \in 0 .. MaxSyncs
    BY TypeIs DEF SubscriptionOK
  <2>3. /\ q \in SyncType /\ q.step = (IF exists THEN "edit" ELSE "create") /\ q.set = r.set
        /\ q.saw = stored
    BY <1>2, <2>1, <2>2 DEF SyncType
  <2>4. sync' = [sync EXCEPT ![s] = q]
    BY <1>2, <1>6, <2>1, <2>2
  <2>5. Listed(r.set)' /\ Covers(r.set, stored.set)'
    BY <1>1, <1>2 DEF SyncOK, Listed, Covers, Gone
  <2>6. exists => q.saw.id \in Hooks
    BY <1>4, <2>2, <2>3 DEF Stored
  <2>7. SyncOK(q)'
    BY <2>3, <2>5, <2>6 DEF SyncOK
  <2> QED
    BY <1>1, <1>3, <2>2, <2>3, <2>4, <2>7, OnlySync
<1> QED
  BY <1>4, <1>5, <1>6

\* What a webhook holds after a call that reached it is the set of the one that called.
LEMMA SentOK ==
    ASSUME SubscriptionOK, NEW s \in Syncs, ~Resting(s), NEW h \in Hooks, NEW now \in HookType,
           hook' = [hook EXCEPT ![h] = now], now.holds = sync[s].set,
           \/ sync' = [sync EXCEPT ![s].step = "sent", ![s].id = h]
           \/ Give(s),
           UNCHANGED <<roster, stored, bnb, told, started>>
    PROVE  SubscriptionOK'
<1>1. PICK r : r = sync[s] /\ r \in SyncType /\ SyncOK(r)
  BY Others
<1>2. /\ sync \in [Syncs -> SyncType] /\ hook \in [Hooks -> HookType]
      /\ (\A t \in Syncs : t # s => Resting(t)) /\ stored \in Stored
      /\ bnb \in [there : BOOLEAN, holds : SUBSET Wallets] /\ told \subseteq Wallets
      /\ started \in 0 .. MaxSyncs /\ Listed(stored.set) /\ WatchedOK
  BY Others, TypeIs DEF SubscriptionOK
<1>3. hook' \in [Hooks -> HookType] /\ \A i \in Hooks : hook'[i] = IF i = h THEN now ELSE hook[i]
  BY <1>2
<1>4. Listed(r.set) /\ Covers(r.set, stored.set)
  BY <1>1 DEF SyncOK, Resting
<1>5. Listed(r.set)' /\ Covers(r.set, stored.set)' /\ Listed(stored.set)'
  BY <1>2, <1>4 DEF Listed, Covers, Gone
<1>6. WatchedOK'
  <2>0. stored' = stored /\ roster' = roster /\ h \in Hooks
    OBVIOUS
  <2> SUFFICES ASSUME stored.id # NoHook, (hook')[stored.id].there, NEW a \in stored.set
               PROVE  a \in (hook')[stored.id].holds \/ roster[a] = "gone"
    BY <2>0 DEF WatchedOK, Covers, Gone
  <2>1. stored.id \in Hooks
    BY <1>2 DEF Stored
  <2>2. CASE stored.id = h
    <3>1. (hook')[stored.id].holds = r.set
      BY <1>1, <1>3, <2>1, <2>2
    <3>2. a \in r.set \/ roster[a] = "gone"
      BY <1>4 DEF Covers, Gone
    <3> QED
      BY <3>1, <3>2
  <2>3. CASE stored.id # h
    <3>1. (hook')[stored.id] = hook[stored.id]
      BY <1>3, <2>1, <2>3
    <3>2. a \in hook[stored.id].holds \/ roster[a] = "gone"
      BY <1>2, <3>1 DEF WatchedOK, Covers, Gone
    <3> QED
      BY <3>1, <3>2
  <2> QED
    BY <2>2, <2>3
<1>7. CASE sync' = [sync EXCEPT ![s].step = "sent", ![s].id = h]
  <2>1. PICK q : q = [r EXCEPT !.step = "sent", !.id = h]
    OBVIOUS
  <2>2. q \in SyncType /\ q.step = "sent" /\ q.id = h /\ q.set = r.set
    BY <1>1, <2>1 DEF SyncType
  <2>3. sync' = [sync EXCEPT ![s] = q]
    BY <1>1, <1>2, <1>7, <2>1
  <2>4. hook'[h].holds = q.set
    BY <1>1, <1>3, <2>2
  <2>5. SyncOK(q)'
    BY <1>5, <2>2, <2>4 DEF SyncOK
  <2> QED
    BY <1>2, <1>3, <1>5, <1>6, <2>2, <2>3, <2>5, OneSync
<1>8. CASE Give(s)
  <2>1. sync' = [sync EXCEPT ![s] = Quiet] /\ SyncOK(Quiet)'
    BY <1>8, QuietType DEF Give, SyncOK
  <2> QED
    BY <1>2, <1>3, <1>5, <1>6, <2>1, QuietType, OneSync
<1> QED
  BY <1>7, <1>8

LEMMA EditHookOK == ASSUME SubscriptionOK, NEW s \in Syncs, EditHook(s) PROVE SubscriptionOK'
<1>1. ~Resting(s) /\ sync[s].step = "edit" /\ UNCHANGED <<roster, stored, bnb, told, started>>
  BY DEF EditHook, Stands, Resting
<1>2. PICK h : h = sync[s].saw.id
  OBVIOUS
<1>3. h \in Hooks /\ sync[s] \in SyncType /\ hook \in [Hooks -> HookType]
      /\ \A t \in Syncs : t # s => Resting(t)
  BY <1>1, <1>2, Others DEF SyncOK
<1>4. IF hook[h].there
      THEN /\ hook' = [hook EXCEPT ![h].holds = sync[s].set]
           /\ sync' = [sync EXCEPT ![s].step = "sent", ![s].id = h] \/ Give(s)
      ELSE Give(s) /\ UNCHANGED hook
  BY <1>2 DEF EditHook
<1>5. CASE ~hook[h].there
  BY <1>1, <1>3, <1>4, <1>5, GiveOK
<1>6. CASE hook[h].there
  <2>1. PICK now : now = [hook[h] EXCEPT !.holds = sync[s].set]
    OBVIOUS
  <2>2. now \in HookType /\ now.holds = sync[s].set
    BY <1>3, <2>1 DEF HookType, SyncType
  <2>3. hook' = [hook EXCEPT ![h] = now]
    BY <1>3, <1>4, <1>6, <2>1
  <2> QED
    BY <1>1, <1>3, <1>4, <1>6, <2>2, <2>3, SentOK
<1> QED
  BY <1>5, <1>6

LEMMA CreateHookOK == ASSUME SubscriptionOK, NEW s \in Syncs, CreateHook(s) PROVE SubscriptionOK'
<1>1. ~Resting(s) /\ UNCHANGED <<roster, stored, bnb, told, started>>
  BY DEF CreateHook, Stands, Resting
<1>2. PICK h \in Hooks :
         /\ hook' = [hook EXCEPT ![h] = [there |-> TRUE, used |-> TRUE, holds |-> sync[s].set]]
         /\ sync' = [sync EXCEPT ![s].step = "sent", ![s].id = h] \/ Give(s)
  BY DEF CreateHook
<1>3. PICK now : now = [there |-> TRUE, used |-> TRUE, holds |-> sync[s].set]
  OBVIOUS
<1>4. sync[s] \in SyncType
  BY <1>1, Others
<1>5. now \in HookType /\ now.holds = sync[s].set /\ hook' = [hook EXCEPT ![h] = now]
  BY <1>2, <1>3, <1>4 DEF HookType, SyncType
<1> QED
  BY <1>1, <1>2, <1>5, SentOK

\* A step that only moves on.
LEMMA TurnOK ==
    ASSUME SubscriptionOK, NEW s \in Syncs, NEW step \in {"confirmed", "patch", "post"}, Turn(s, step), ~Resting(s),
           step = "confirmed" => sync[s].step = "sent",
           UNCHANGED <<roster, hook, stored, bnb, told, started>>
    PROVE  SubscriptionOK'
<1>1. PICK r : r = sync[s] /\ r \in SyncType /\ SyncOK(r)
  BY Others
<1>2. PICK q : q = [r EXCEPT !.step = step]
  OBVIOUS
<1>3. q \in SyncType /\ q.step = step /\ q.set = r.set /\ q.id = r.id
  BY <1>1, <1>2 DEF SyncType
<1>4. sync' = [sync EXCEPT ![s] = q] /\ started' \in 0 .. MaxSyncs
  BY <1>1, <1>2, TypeIs DEF SubscriptionOK, Turn
<1>5. Listed(r.set)' /\ Covers(r.set, stored.set)'
  BY <1>1 DEF SyncOK, Resting, Listed, Covers, Gone
<1>6. step = "confirmed" => q.id \in Hooks /\ hook'[q.id].holds = q.set
  BY <1>1, <1>3 DEF SyncOK
<1>7. SyncOK(q)'
  BY <1>3, <1>5, <1>6 DEF SyncOK
<1> QED
  BY <1>3, <1>4, <1>7, Others, OnlySync

LEMMA ConfirmCountOK == ASSUME SubscriptionOK, NEW s \in Syncs, ConfirmCount(s) PROVE SubscriptionOK'
<1>1. ~Resting(s) /\ sync[s].step = "sent" /\ UNCHANGED <<roster, hook, stored, bnb, told, started>>
  BY DEF ConfirmCount, Stands, Resting
<1>2. Turn(s, "confirmed") \/ Give(s)
  BY DEF ConfirmCount
<1> QED
  BY <1>1, <1>2, TurnOK, GiveOK, Others

LEMMA StoreHashOK == ASSUME SubscriptionOK, NEW s \in Syncs, StoreHash(s) PROVE SubscriptionOK'
<1>1. /\ ~Resting(s) /\ sync[s].step = "confirmed" /\ UNCHANGED <<roster, hook, bnb, told, started>>
      /\ stored' = [id |-> sync[s].id, set |-> sync[s].set] /\ sync' = [sync EXCEPT ![s] = Quiet]
  BY DEF StoreHash, Stands, Resting, Give
<1>2. PICK r : r = sync[s] /\ r \in SyncType /\ SyncOK(r)
  BY <1>1, Others
<1>3. Listed(r.set) /\ r.id \in Hooks /\ hook[r.id].holds = r.set
  BY <1>1, <1>2 DEF SyncOK
<1>4. stored' \in Stored /\ stored'.id = r.id /\ stored'.set = r.set
  BY <1>1, <1>2 DEF Stored, SyncType
<1>5. Listed(stored.set)' /\ WatchedOK'
  BY <1>1, <1>3, <1>4 DEF Listed, WatchedOK, Covers
<1>6. SyncOK(Quiet)'
  BY QuietType DEF SyncOK
<1>7. /\ hook' \in [Hooks -> HookType] /\ bnb' \in [there : BOOLEAN, holds : SUBSET Wallets]
      /\ told' \subseteq Wallets /\ started' \in 0 .. MaxSyncs /\ roster' = roster
      /\ \A t \in Syncs : t # s => Resting(t)
  BY <1>1, Others
<1> QED
  BY <1>1, <1>4, <1>5, <1>6, <1>7, QuietType, OneSync

LEMMA FailSyncOK == ASSUME SubscriptionOK, NEW s \in Syncs, FailSync(s) PROVE SubscriptionOK'
<1>1. ~Resting(s) /\ Give(s) /\ UNCHANGED <<roster, hook, stored, bnb, told, started>>
  BY DEF FailSync
<1> QED
  BY <1>1, Others, GiveOK

LEMMA LoseHookOK == ASSUME SubscriptionOK, NEW h \in Hooks, LoseHook(h) PROVE SubscriptionOK'
<1>1. hook' = [hook EXCEPT ![h].there = FALSE] /\ UNCHANGED <<roster, stored, sync, bnb, told, started>>
  BY DEF LoseHook
<1>2. hook \in [Hooks -> HookType] /\ stored \in Stored
  BY TypeIs DEF SubscriptionOK
<1>3. hook' \in [Hooks -> HookType] /\ \A i \in Hooks : /\ hook'[i].holds = hook[i].holds
                                                       /\ hook'[i].there => hook[i].there
  BY <1>1, <1>2 DEF HookType
<1>4. SubscriptionTypeOK'
  BY <1>1, <1>3, TypeIs, TypeIsPrimed DEF SubscriptionOK
<1>5. WatchedOK'
  BY <1>1, <1>2, <1>3 DEF SubscriptionOK, WatchedOK, Covers, Gone, Stored
<1>6. ASSUME NEW s \in Syncs PROVE SyncOK(sync[s])'
  <2>1. SyncOK(sync[s])
    BY DEF SubscriptionOK
  <2> QED
    BY <1>1, <1>3, <2>1 DEF SyncOK, Listed, Covers, Gone
<1>7. OneAtATime' /\ Listed(stored.set)'
  BY <1>1 DEF SubscriptionOK, OneAtATime, Resting, Listed
<1> QED
  BY <1>4, <1>5, <1>6, <1>7 DEF SubscriptionOK

\* The other webhook's calls end a reconciliation and touch nothing of this one's.
LEMMA BnbOK ==
    ASSUME SubscriptionOK, NEW s \in Syncs, ~Resting(s), Give(s), UNCHANGED <<roster, hook, stored, started>>,
           bnb' \in [there : BOOLEAN, holds : SUBSET Wallets], told' \subseteq Wallets
    PROVE  SubscriptionOK'
<1>1. sync' = [sync EXCEPT ![s] = Quiet] /\ SyncOK(Quiet)'
  BY QuietType DEF Give, SyncOK
<1>2. Listed(stored.set)' /\ WatchedOK'
  BY DEF SubscriptionOK, Listed, WatchedOK, Covers, Gone
<1>3. /\ hook' \in [Hooks -> HookType] /\ stored' \in Stored /\ started' \in 0 .. MaxSyncs
      /\ roster' = roster /\ \A t \in Syncs : t # s => Resting(t)
  BY Others
<1> QED
  BY <1>1, <1>2, <1>3, QuietType, OneSync

LEMMA PatchBnbOK == ASSUME SubscriptionOK, NEW s \in Syncs, PatchBnb(s) \/ CreateBnb(s) PROVE SubscriptionOK'
<1>1. /\ ~Resting(s) /\ Give(s) /\ UNCHANGED <<roster, hook, stored, started>> /\ told' = sync[s].set
      /\ \/ bnb' = [bnb EXCEPT !.holds = @ \cup sync[s].set]
         \/ bnb' = [there |-> TRUE, holds |-> sync[s].set]
  <2>1. CASE PatchBnb(s)
    <3>1. sync[s].step = "patch"
      BY <2>1 DEF PatchBnb, Stands
    <3>2. ~Resting(s)
      BY <3>1 DEF Resting
    <3> QED
      BY <2>1, <3>2, Zenon DEF PatchBnb
  <2>2. CASE CreateBnb(s)
    <3>1. sync[s].step = "post"
      BY <2>2 DEF CreateBnb, Stands
    <3>2. ~Resting(s)
      BY <3>1 DEF Resting
    <3> QED
      BY <2>2, <3>2, Zenon DEF CreateBnb
  <2> QED
    BY <2>1, <2>2
<1>2. bnb \in [there : BOOLEAN, holds : SUBSET Wallets] /\ sync[s].set \subseteq Wallets
  BY <1>1, Others DEF SyncType
<1>3. PICK S \in SUBSET Wallets : S = sync[s].set
  BY <1>2
<1>4. told' \subseteq Wallets
  BY <1>1, <1>3
<1>5. bnb' \in [there : BOOLEAN, holds : SUBSET Wallets]
  <2>1. CASE bnb' = [bnb EXCEPT !.holds = @ \cup sync[s].set]
    <3>1. bnb' = [bnb EXCEPT !.holds = bnb.holds \cup S]
      BY <1>3, <2>1
    <3>2. bnb.holds \cup S \in SUBSET Wallets
      BY <1>2
    <3> QED
      BY <1>2, <3>1, <3>2
  <2>2. CASE bnb' = [there |-> TRUE, holds |-> sync[s].set]
    BY <1>3, <2>2
  <2> QED
    BY <1>1, <2>1, <2>2
<1> QED
  BY <1>1, <1>4, <1>5, BnbOK

-----------------------------------------------------------------------------
(* The theorem.                                                            *)

LEMMA SubscriptionBeginsOK == SubscriptionInit => SubscriptionOK
<1> SUFFICES ASSUME SubscriptionInit PROVE SubscriptionOK
  OBVIOUS
<1>1. /\ roster = [a \in Wallets |-> "new"] /\ stored = Unsynced /\ sync = [s \in Syncs |-> Quiet]
      /\ hook = [h \in Hooks |-> [there |-> FALSE, used |-> FALSE, holds |-> {}]]
      /\ bnb = [there |-> FALSE, holds |-> {}] /\ told = {} /\ started = 0
  BY DEF SubscriptionInit
<1>2. SubscriptionTypeOK
  <2>1. [there |-> FALSE, used |-> FALSE, holds |-> {}] \in HookType
    BY DEF HookType
  <2>2. 0 \in 0 .. MaxSyncs
    BY HookAssumption
  <2> QED
    BY <1>1, <2>1, <2>2, QuietType, TypeIs
<1>3. stored.id = NoHook /\ stored.set = {}
  BY <1>1 DEF Unsynced
<1>4. \A s \in Syncs : Resting(s) /\ SyncOK(sync[s])
  BY <1>1, QuietType DEF Resting, SyncOK
<1> QED
  BY <1>2, <1>3, <1>4 DEF SubscriptionOK, OneAtATime, Listed, WatchedOK

LEMMA SubscriptionStepOK == ASSUME SyncAlone PROVE SubscriptionOK /\ [SubscriptionNext]_subscriptionVars => SubscriptionOK'
<1> SUFFICES ASSUME SubscriptionOK, [SubscriptionNext]_subscriptionVars PROVE SubscriptionOK'
  OBVIOUS
<1>1. CASE UNCHANGED subscriptionVars
  <2>1. UNCHANGED <<roster, hook, stored, sync, bnb, told, started>>
    BY <1>1 DEF subscriptionVars
  <2>2. SubscriptionTypeOK'
    BY <2>1, TypeIs, TypeIsPrimed DEF SubscriptionOK
  <2>3. OneAtATime' /\ Listed(stored.set)' /\ WatchedOK'
    BY <2>1 DEF SubscriptionOK, OneAtATime, Resting, Listed, WatchedOK, Covers, Gone
  <2>4. \A s \in Syncs : SyncOK(sync[s])'
    BY <2>1 DEF SubscriptionOK, SyncOK, Listed, Covers, Gone
  <2> QED
    BY <2>2, <2>3, <2>4 DEF SubscriptionOK
<1>2. ASSUME NEW a \in Wallets, Enlist(a) \/ Delist(a) PROVE SubscriptionOK'
  BY <1>2, RosterOK DEF Enlist, Delist
<1>3. ASSUME NEW s \in Syncs, StartSync(s) PROVE SubscriptionOK'
  BY <1>3, StartOK DEF StartSync
<1>4. ASSUME NEW s \in Syncs, StartBnb(s) PROVE SubscriptionOK'
  BY <1>4, StartOK DEF StartBnb
<1>5. ASSUME NEW s \in Syncs, ListBnb(s) PROVE SubscriptionOK'
  <2>1. ~Resting(s) /\ UNCHANGED <<roster, hook, stored, bnb, told, started>>
    BY <1>5 DEF ListBnb, Stands, Resting
  <2>2. Turn(s, "patch") \/ Turn(s, "post")
    BY <1>5 DEF ListBnb
  <2> QED
    BY <2>1, <2>2, TurnOK
<1>6. ASSUME NEW s \in Syncs,
             CheckHook(s) \/ EditHook(s) \/ CreateHook(s) \/ ConfirmCount(s) \/ StoreHash(s) \/ FailSync(s)
             \/ PatchBnb(s) \/ CreateBnb(s)
      PROVE  SubscriptionOK'
  BY <1>6, CheckHookOK, EditHookOK, CreateHookOK, ConfirmCountOK, StoreHashOK, FailSyncOK, PatchBnbOK
<1>7. ASSUME NEW h \in Hooks, LoseHook(h) PROVE SubscriptionOK'
  BY <1>7, LoseHookOK
<1> QED
  BY <1>1, <1>2, <1>3, <1>4, <1>5, <1>6, <1>7 DEF SubscriptionNext

\* As long as reconciliations go one at a time, a wallet of the roster whose hash is the
\* stored one is watched (syncHeliusWebhook), whatever calls fail or are lost in between.
THEOREM UnchangedIsWatched == ASSUME SyncAlone PROVE SubscriptionSpec => []NothingUnwatched
<1>1. SubscriptionInit => SubscriptionOK
  BY SubscriptionBeginsOK
<1>2. SubscriptionOK /\ [SubscriptionNext]_subscriptionVars => SubscriptionOK'
  BY SubscriptionStepOK
<1>3. SubscriptionOK => NothingUnwatched
  <2> SUFFICES ASSUME SubscriptionOK, stored.id # NoHook, hook[stored.id].there, stored.set = Wanted
               PROVE  Wanted \subseteq hook[stored.id].holds
    BY DEF NothingUnwatched
  <2>1. Covers(hook[stored.id].holds, Wanted)
    BY DEF SubscriptionOK, WatchedOK
  <2> QED
    BY <2>1 DEF Covers, Wanted, Gone
<1> QED
  BY <1>1, <1>2, <1>3, PTL DEF SubscriptionSpec

-----------------------------------------------------------------------------
(* Audit: any writers, any rows, any clocks, whoever edits the table.      *)

WriterType == [step : {"outside", "locked", "read"}, prev : 0 .. MaxRows]

\* The rows L of which n were ever written: no two share a number or an identifier.
RowsOK(L, n) ==
    /\ L \subseteq Row /\ n \in 0 .. MaxRows
    /\ \A r \in L : r.hash <= n
    /\ \A r, q \in L : r.hash = q.hash \/ r.id = q.id => r = q

\* One writer is inside at most.
WritersOK(W) ==
    /\ W \in [Writers -> WriterType]
    /\ \A v, w \in Writers : W[v].step # "outside" /\ W[w].step # "outside" => v = w

\* Untouched, every row is as it was written, and links to what was the tip when it was
\* appended; whoever has read the tip has read what still is.
ChainOK(L, W) ==
    /\ \A r \in L : ~r.altered /\ r.prev = Tip({q \in L : q.hash < r.hash})
    /\ \A w \in Writers : W[w].step = "read" => W[w].prev = Tip(L)

\* A row that is not the first links to the number h, of which the row is gone.
Orphan(L, h) ==
    /\ \E q, s \in L : s.prev = h /\ ~s.altered /\ Before(q, s)
    /\ \A q \in L : q.hash # h

\* What was touched shows.
ShowsOK(L, n, t) ==
    /\ t.hash <= n
    /\ t.altered \/ t.linked => (\E r \in L : r.altered) \/ Orphan(L, t.hash)

TouchType == [hash : 1 .. MaxRows, altered : BOOLEAN, linked : BOOLEAN]

AuditOK ==
    /\ RowsOK(log, written)
    /\ WritersOK(writer)
    /\ touched \subseteq TouchType
    /\ touched = {} => ChainOK(log, writer)
    /\ \A t \in touched : ShowsOK(log, written, t)

-----------------------------------------------------------------------------
(* The last row.                                                           *)

LEMMA RowFields ==
    ASSUME NEW r \in Row
    PROVE  r.hash \in Nat /\ r.hash >= 1 /\ r.hash \in 1 .. MaxRows /\ r.at \in Nat /\ r.at <= MaxTime
           /\ r.id \in Nat /\ r.id <= MaxRows /\ r.prev \in 0 .. MaxRows /\ r.altered \in BOOLEAN
  BY AuditAssumption DEF Row

LEMMA LeastNumber == ASSUME NEW T, T \subseteq Nat, T # {} PROVE \E n \in T : \A k \in T : n <= k
<1> DEFINE Less == OpToRel(<, Nat)
<1>1. IsWellFoundedOn(Less, Nat)
  BY NatLessThanWellFounded
<1>2. \A x, y \in Nat : y < x => <<y, x>> \in Less
  BY DEF OpToRel
<1> HIDE DEF Less
<1>3. PICK n \in T : \A k \in T : <<k, n>> \notin Less
  BY <1>1, WFMin
<1>4. \A k \in T : n <= k
  <2> SUFFICES ASSUME NEW k \in T PROVE n <= k
    OBVIOUS
  <2>1. n \in Nat /\ k \in Nat /\ ~(k < n)
    BY <1>2, <1>3
  <2> QED
    BY <2>1
<1> QED
  BY <1>4

\* Of rows there is one that is read last: of those with the latest stamp the one with the
\* greatest identifier.
LEMMA LastIs ==
    ASSUME NEW L, NEW n, RowsOK(L, n), NEW S, S \subseteq L, S # {}
    PROVE  \E m \in S : Tip(S) = m.hash
<1>1. \A r \in S : /\ r.at \in Nat /\ r.at <= MaxTime /\ MaxTime - r.at \in Nat
                   /\ r.id \in Nat /\ r.id <= MaxRows /\ MaxRows - r.id \in Nat
  BY RowFields, AuditAssumption DEF RowsOK
<1>2. PICK ages : ages = {MaxTime - r.at : r \in S}
  OBVIOUS
<1>3. PICK a \in ages : \A b \in ages : a <= b
  <2>1. ages \subseteq Nat /\ ages # {}
    BY <1>1, <1>2
  <2> QED
    BY <2>1, LeastNumber
<1>4. PICK p \in S : a = MaxTime - p.at
  BY <1>2
<1>5. \A r \in S : r.at <= p.at
  <2>1. ASSUME NEW r \in S PROVE r.at <= p.at
    <3>1. MaxTime - p.at <= MaxTime - r.at
      BY <1>2, <1>3, <1>4
    <3> QED
      BY <1>1, <3>1, AuditAssumption
  <2> QED
    BY <2>1
<1>6. PICK F : F = {r \in S : r.at = p.at}
  OBVIOUS
<1>7. PICK ids : ids = {MaxRows - r.id : r \in F}
  OBVIOUS
<1>8. PICK i \in ids : \A j \in ids : i <= j
  <2>1. ids \subseteq Nat /\ ids # {}
    BY <1>1, <1>6, <1>7
  <2> QED
    BY <2>1, LeastNumber
<1>9. PICK m \in F : i = MaxRows - m.id
  BY <1>7
<1>10. \A r \in F : r.id <= m.id
  <2>1. ASSUME NEW r \in F PROVE r.id <= m.id
    <3>1. MaxRows - m.id <= MaxRows - r.id
      BY <1>7, <1>8, <1>9
    <3> QED
      BY <1>1, <1>6, <3>1, AuditAssumption
  <2> QED
    BY <2>1
<1>11. m \in S /\ m.at = p.at
  BY <1>6
<1>12. ASSUME NEW q \in S \ {m} PROVE Before(q, m) /\ ~Before(m, q)
  <2>1. q.id # m.id
    BY <1>11, <1>12 DEF RowsOK
  <2>2. q.at = m.at => q.id < m.id
    BY <1>1, <1>6, <1>10, <1>11, <2>1
  <2>3. q.at <= m.at
    BY <1>5, <1>11
  <2> QED
    BY <1>1, <1>11, <2>2, <2>3 DEF Before
<1>13. Latest(S) = {m}
  BY <1>11, <1>12 DEF Latest
<1>14. Tip(S) = (CHOOSE r \in Latest(S) : TRUE).hash
  BY DEF Tip
<1> QED
  BY <1>11, <1>13, <1>14

LEMMA TipIs ==
    ASSUME NEW L, NEW n, RowsOK(L, n), NEW S, S \subseteq L
    PROVE  Tip(S) \in 0 .. MaxRows
<1>1. CASE S = {}
  BY <1>1, AuditAssumption DEF Tip, Genesis
<1>2. CASE S # {}
  <2>1. PICK m \in S : Tip(S) = m.hash
    BY <1>2, LastIs
  <2> QED
    BY <2>1, RowFields, AuditAssumption DEF RowsOK
<1> QED
  BY <1>1, <1>2

-----------------------------------------------------------------------------
(* The writers.                                                            *)

\* One writer goes on and the rows stay.
LEMMA WriterGoesOn ==
    ASSUME AuditOK, NEW w \in Writers, NEW x \in WriterType, writer' = [writer EXCEPT ![w] = x],
           x.step # "outside" => \A v \in Writers : v # w => writer[v].step = "outside",
           x.step = "read" => x.prev = Tip(log),
           UNCHANGED <<log, written, touched>>
    PROVE  AuditOK'
<1>1. PICK W : W = [writer EXCEPT ![w] = x]
  OBVIOUS
<1>2. W \in [Writers -> WriterType] /\ W[w] = x /\ \A v \in Writers : v # w => W[v] = writer[v]
  BY <1>1 DEF AuditOK, WritersOK
<1>3. WritersOK(W)
  BY <1>2 DEF AuditOK, WritersOK
<1>4. touched = {} => ChainOK(log, W)
  BY <1>2 DEF AuditOK, ChainOK
<1> QED
  BY <1>1, <1>3, <1>4 DEF AuditOK

LEMMA OutsideOK == Outside \in WriterType /\ Outside.step = "outside"
  BY AuditAssumption DEF Outside, WriterType, Genesis

LEMMA LockOK == ASSUME AuditOK, NEW w \in Writers, TakeLock(w) PROVE AuditOK'
<1>1. writer \in [Writers -> WriterType]
  BY DEF AuditOK, WritersOK
<1>2. PICK x : x = [writer[w] EXCEPT !.step = "locked"]
  OBVIOUS
<1>3. x \in WriterType /\ x.step = "locked"
  BY <1>1, <1>2 DEF WriterType
<1>4. writer' = [writer EXCEPT ![w] = x]
  BY <1>2 DEF TakeLock
<1> QED
  BY <1>3, <1>4, WriterGoesOn DEF TakeLock

LEMMA TipOK == ASSUME AuditOK, NEW w \in Writers, ReadTip(w) PROVE AuditOK'
<1>1. PICK tip : tip = Tip(log)
  OBVIOUS
<1>2. PICK x : x = [step |-> "read", prev |-> tip]
  OBVIOUS
<1>3. tip \in 0 .. MaxRows
  BY <1>1, TipIs DEF AuditOK
<1>4. x \in WriterType /\ x.step = "read" /\ x.prev = Tip(log)
  BY <1>1, <1>2, <1>3 DEF WriterType
<1>5. writer' = [writer EXCEPT ![w] = x] /\ writer[w].step = "locked" /\ UNCHANGED <<log, written, touched>>
  BY <1>1, <1>2 DEF ReadTip
<1>6. \A v \in Writers : v # w => writer[v].step = "outside"
  BY <1>5 DEF AuditOK, WritersOK
<1> QED
  BY <1>4, <1>5, <1>6, WriterGoesOn

LEMMA RollsBackOK == ASSUME AuditOK, NEW w \in Writers, RollBack(w) PROVE AuditOK'
  BY OutsideOK, WriterGoesOn DEF RollBack

LEMMA CommitsOK == ASSUME AuditOK, NEW w \in Writers, CommitEntry(w) PROVE AuditOK'
<1>1. PICK t \in 0 .. MaxTime, i \in 1 .. MaxRows :
         /\ \A r \in log : r.id # i
         /\ log' = log \cup {[hash |-> written + 1, prev |-> writer[w].prev, at |-> t, id |-> i, altered |-> FALSE]}
  BY DEF CommitEntry
<1>2. PICK x : x = [hash |-> written + 1, prev |-> writer[w].prev, at |-> t, id |-> i, altered |-> FALSE]
  OBVIOUS
<1>3. /\ RowsOK(log, written) /\ writer \in [Writers -> WriterType] /\ written \in 0 .. MaxRows
      /\ written < MaxRows /\ writer[w].step = "read" /\ written' = written + 1 /\ UNCHANGED touched
      /\ writer' = [writer EXCEPT ![w] = Outside]
  BY DEF AuditOK, RowsOK, WritersOK, CommitEntry
<1>4. x \in Row /\ x.hash = written + 1 /\ x.prev = writer[w].prev /\ x.id = i /\ ~x.altered
  <2>1. writer[w].prev \in 0 .. MaxRows /\ written + 1 \in 1 .. MaxRows
    BY <1>3, AuditAssumption DEF WriterType
  <2> QED
    BY <1>2, <2>1 DEF Row
<1>5. PICK L : L = log \cup {x}
  OBVIOUS
<1>6. written \in Nat /\ \A r \in log : r.hash \in Nat /\ r.hash <= written /\ r.hash < x.hash
  BY <1>3, <1>4, RowFields, AuditAssumption DEF RowsOK
<1>7. RowsOK(L, written + 1)
  <2>1. L \subseteq Row /\ \A r \in L : r.hash <= written + 1
    BY <1>3, <1>4, <1>5, <1>6 DEF RowsOK
  <2>2. ASSUME NEW r \in L, NEW q \in L, r.hash = q.hash \/ r.id = q.id PROVE r = q
    <3>1. CASE r \in log /\ q \in log
      BY <1>3, <2>2, <3>1 DEF RowsOK
    <3>2. CASE ~(r \in log /\ q \in log)
      BY <1>1, <1>4, <1>5, <1>6, <2>2, <3>2
    <3> QED
      BY <3>1, <3>2
  <2>3. written + 1 \in 0 .. MaxRows
    BY <1>3, AuditAssumption
  <2> QED
    BY <2>1, <2>2, <2>3 DEF RowsOK
<1>8. PICK W : W = [writer EXCEPT ![w] = Outside]
  OBVIOUS
<1>9. W \in [Writers -> WriterType] /\ W[w] = Outside /\ \A v \in Writers : v # w => W[v] = writer[v]
  BY <1>3, <1>8, OutsideOK
<1>10. \A v \in Writers : W[v].step = "outside"
  BY <1>3, <1>9, OutsideOK DEF AuditOK, WritersOK
<1>11. WritersOK(W)
  BY <1>9, <1>10 DEF WritersOK
<1>12. ASSUME touched = {} PROVE ChainOK(L, W)
  <2>1. ASSUME NEW r \in L PROVE ~r.altered /\ r.prev = Tip({q \in L : q.hash < r.hash})
    <3>1. CASE r \in log
      <4>1. ~(x.hash < r.hash)
        BY <1>4, <1>6, <3>1
      <4>2. \A q : q \in L /\ q.hash < r.hash <=> q \in log /\ q.hash < r.hash
        BY <1>5, <4>1
      <4>3. {q \in L : q.hash < r.hash} = {q \in log : q.hash < r.hash}
        BY <4>2
      <4> QED
        BY <1>12, <3>1, <4>3 DEF AuditOK, ChainOK
    <3>2. CASE r = x
      <4>1. {q \in L : q.hash < r.hash} = log
        BY <1>4, <1>5, <1>6, <3>2
      <4>2. writer[w].prev = Tip(log)
        BY <1>3, <1>12 DEF AuditOK, ChainOK
      <4> QED
        BY <1>4, <3>2, <4>1, <4>2
    <3> QED
      BY <1>5, <3>1, <3>2
  <2> QED
    BY <1>10, <2>1 DEF ChainOK
<1>13. ASSUME NEW u \in touched PROVE ShowsOK(L, written + 1, u)
  <2>1. ShowsOK(log, written, u) /\ u.hash \in Nat
    BY DEF AuditOK, TouchType
  <2>2. u.hash <= written + 1 /\ x.hash # u.hash
    BY <1>4, <1>6, <2>1 DEF ShowsOK
  <2>3. Orphan(log, u.hash) => Orphan(L, u.hash)
    BY <1>5, <2>2 DEF Orphan
  <2> QED
    BY <1>5, <2>1, <2>2, <2>3 DEF ShowsOK
<1>14. log' = L /\ writer' = W
  BY <1>1, <1>2, <1>3, <1>5, <1>8
<1> QED
  BY <1>3, <1>7, <1>11, <1>12, <1>13, <1>14 DEF AuditOK

-----------------------------------------------------------------------------
(* Tampering.                                                              *)

\* What is known where a row r is touched.
LEMMA TouchIs ==
    ASSUME AuditOK, NEW r \in log, NEW a \in BOOLEAN, Touch(r, a)
    PROVE  /\ RowsOK(log, written) /\ WritersOK(writer) /\ ChainOK(log, writer)
           /\ r \in Row
           /\ \E t \in TouchType :
                 /\ touched' = {t} /\ t.hash = r.hash /\ t.altered = a
                 /\ t.linked => \E q, s \in log \ {r} : s.prev = r.hash /\ Before(q, s)
<1>1. RowsOK(log, written) /\ WritersOK(writer) /\ ChainOK(log, writer) /\ r \in Row
  BY DEF AuditOK, Touch, RowsOK
<1>2. PICK m \in BOOLEAN : m = \E q, s \in log \ {r} : s.prev = r.hash /\ Before(q, s)
  OBVIOUS
<1>3. PICK t : t = [hash |-> r.hash, altered |-> a, linked |-> m]
  OBVIOUS
<1>4. t \in TouchType /\ t.hash = r.hash /\ t.altered = a /\ t.linked = m
  BY <1>1, <1>3, RowFields DEF TouchType
<1>5. touched' = {t}
  BY <1>2, <1>3 DEF Touch
<1> QED
  BY <1>1, <1>2, <1>4, <1>5

LEMMA AlteredOK == ASSUME AuditOK, NEW r \in log, Alter(r) PROVE AuditOK'
<1>0. Touch(r, TRUE) /\ log' = (log \ {r}) \cup {[r EXCEPT !.altered = TRUE]} /\ UNCHANGED <<writer, written>>
  BY DEF Alter, Touch
<1>1. RowsOK(log, written) /\ WritersOK(writer) /\ r \in Row
  BY <1>0, TouchIs
<1>2. PICK t \in TouchType : touched' = {t} /\ t.hash = r.hash
  BY <1>0, TouchIs
<1>3. PICK x : x = [r EXCEPT !.altered = TRUE]
  OBVIOUS
<1>4. x \in Row /\ x.hash = r.hash /\ x.id = r.id /\ x.altered
  BY <1>1, <1>3 DEF Row
<1>5. PICK L : L = (log \ {r}) \cup {x}
  OBVIOUS
<1>6. RowsOK(L, written)
  <2>1. L \subseteq Row /\ \A q \in L : q.hash <= written
    BY <1>1, <1>4, <1>5 DEF RowsOK
  <2>2. ASSUME NEW q \in L, NEW s \in L, q.hash = s.hash \/ q.id = s.id PROVE q = s
    BY <1>1, <1>4, <1>5, <2>2 DEF RowsOK
  <2> QED
    BY <1>1, <2>1, <2>2 DEF RowsOK
<1>7. ShowsOK(L, written, t)
  BY <1>1, <1>2, <1>4, <1>5 DEF ShowsOK, RowsOK
<1>8. log' = L
  BY <1>0, <1>3, <1>5
<1> QED
  BY <1>0, <1>1, <1>2, <1>6, <1>7, <1>8 DEF AuditOK

LEMMA DeletedOK == ASSUME AuditOK, NEW r \in log, Delete(r) PROVE AuditOK'
<1>0. Touch(r, FALSE) /\ log' = log \ {r} /\ UNCHANGED <<writer, written>>
  BY DEF Delete, Touch
<1>1. RowsOK(log, written) /\ WritersOK(writer) /\ ChainOK(log, writer) /\ r \in Row
  BY <1>0, TouchIs
<1>2. PICK t \in TouchType :
         /\ touched' = {t} /\ t.hash = r.hash /\ t.altered = FALSE
         /\ t.linked => \E q, s \in log \ {r} : s.prev = r.hash /\ Before(q, s)
  BY <1>0, TouchIs
<1>3. PICK L : L = log \ {r}
  OBVIOUS
<1>4. RowsOK(L, written)
  BY <1>1, <1>3 DEF RowsOK
<1>5. \A q \in L : q.hash # r.hash
  BY <1>1, <1>3 DEF RowsOK
<1>6. t.linked => Orphan(L, r.hash)
  BY <1>1, <1>2, <1>3, <1>5 DEF Orphan, ChainOK
<1>7. ShowsOK(L, written, t)
  BY <1>1, <1>2, <1>6 DEF ShowsOK, RowsOK
<1>8. log' = L
  BY <1>0, <1>3
<1> QED
  BY <1>0, <1>1, <1>2, <1>4, <1>7, <1>8 DEF AuditOK

-----------------------------------------------------------------------------
(* The verdict.                                                            *)

\* A row is reported, of which those before it are those appended before it: then what
\* it links to is what it should.
LEMMA OnlyDisorderBreaks ==
    ASSUME AuditOK, touched = {}, NEW r \in Breaks
    PROVE  \E q \in log : q # r /\ ~(q.hash < r.hash <=> Before(q, r))
<1>1. RowsOK(log, written) /\ ChainOK(log, writer)
  BY DEF AuditOK
<1>2. r \in log /\ r.prev # Expected(r) /\ r.prev = Tip({q \in log : q.hash < r.hash})
  BY <1>1 DEF Breaks, ContentBreaks, LinkBreaks, ChainOK
<1> SUFFICES ASSUME \A q \in log : q # r => (q.hash < r.hash <=> Before(q, r)) PROVE FALSE
  OBVIOUS
<1>3. ~(r.hash < r.hash) /\ ~Before(r, r)
  BY <1>1, <1>2, RowFields DEF RowsOK, Before
<1>4. {q \in log : q.hash < r.hash} = {q \in log : Before(q, r)}
  BY <1>3
<1> QED
  BY <1>2, <1>4 DEF Expected

LEMMA OrphanBreaks == ASSUME AuditOK, NEW h, Orphan(log, h) PROVE Breaks # {}
<1>1. PICK q, s \in log : s.prev = h /\ ~s.altered /\ Before(q, s)
  BY DEF Orphan
<1>2. RowsOK(log, written)
  BY DEF AuditOK
<1>3. PICK earlier : earlier = {p \in log : Before(p, s)}
  OBVIOUS
<1>4. PICK m \in earlier : Tip(earlier) = m.hash
  BY <1>1, <1>2, <1>3, LastIs
<1>5. m.hash \in Nat /\ m.hash >= 1 /\ m.hash # h
  BY <1>2, <1>3, RowFields DEF RowsOK, Orphan
<1>6. Expected(s) = m.hash
  BY <1>3, <1>4 DEF Expected
<1>7. s \in LinkBreaks
  BY <1>1, <1>5, <1>6 DEF LinkBreaks, Genesis
<1> QED
  BY <1>7 DEF Breaks

LEMMA AuditShows == AuditOK => VerdictIsRight
<1> SUFFICES ASSUME AuditOK PROVE VerdictIsRight
  OBVIOUS
<1>1. ASSUME NEW t \in touched, t.altered \/ t.linked PROVE Breaks # {}
  <2>1. (\E r \in log : r.altered) \/ Orphan(log, t.hash)
    BY <1>1 DEF AuditOK, ShowsOK
  <2>2. CASE \E r \in log : r.altered
    BY <2>2 DEF Breaks, ContentBreaks
  <2>3. CASE Orphan(log, t.hash)
    BY <2>3, OrphanBreaks
  <2> QED
    BY <2>1, <2>2, <2>3
<1> QED
  BY <1>1, OnlyDisorderBreaks DEF VerdictIsRight

LEMMA AuditStepOK == ASSUME AuditOK, AuditNext PROVE AuditOK'
  BY LockOK, TipOK, CommitsOK, RollsBackOK, AlteredOK, DeletedOK DEF AuditNext

LEMMA AuditBeginsOK == ASSUME AuditInit PROVE AuditOK
  BY AuditAssumption, OutsideOK DEF AuditInit, AuditOK, RowsOK, WritersOK, ChainOK, Outside, WriterType, Genesis

\* Whatever the clocks of the instances say, what is reported when nothing was tampered with
\* is a row that the clocks put out of order, and what is altered, or deleted from under a
\* row that links to it, shows, however many are appended afterwards.
THEOREM AuditTellsTampering == AuditSpec => [](AuditTypeOK /\ VerdictIsRight)
<1>1. AuditOK /\ UNCHANGED auditVars => AuditOK'
  BY DEF auditVars, AuditOK
<1>2. AuditOK /\ AuditNext => AuditOK'
  BY AuditStepOK
<1>3. AuditOK => AuditTypeOK
  BY DEF AuditOK, AuditTypeOK, RowsOK, WritersOK, WriterType, TouchType
<1> QED
  BY <1>1, <1>2, <1>3, AuditBeginsOK, AuditShows, PTL DEF AuditSpec

-----------------------------------------------------------------------------
(* Tokens: any mints, limits and pairs.  What a mint that waits has behind *)
(* it (Past) only grows while it waits, by one for each row that is        *)
(* written: either mints that are out of the queue, or ones at its back.   *)
(* A complete run that does not take it writes as many rows as the limit.  *)

(* Sequences without repetitions.                                          *)

\* y is somewhere after x in s.
Behind(s, x, y) == \E i, j \in 1 .. Len(s) : i < j /\ s[i] = x /\ s[j] = y

LEMMA MembersAre ==
    ASSUME NEW S, NEW s \in Seq(S)
    PROVE  /\ ToSet(s) \subseteq S
           /\ \A x : x \in ToSet(s) <=> \E i \in 1 .. Len(s) : s[i] = x
  BY DEF ToSet

LEMMA ConcatIs ==
    ASSUME NEW S, NEW a \in Seq(S), NEW b \in Seq(S), NEW t, t = a \o b
    PROVE  /\ t \in Seq(S) /\ Len(t) = Len(a) + Len(b)
           /\ \A i \in 1 .. Len(a) : i \in 1 .. Len(t) /\ t[i] = a[i]
           /\ \A i \in 1 .. Len(b) : Len(a) + i \in 1 .. Len(t) /\ t[Len(a) + i] = b[i]
  OBVIOUS

\* Each element but the k-th keeps its place or moves up by one.
LEMMA PlacesAfterRemoval ==
    ASSUME NEW S, NEW s \in Seq(S), NEW k \in 1 .. Len(s), NEW t, t = RemoveAt(s, k)
    PROVE  /\ t \in Seq(S) /\ Len(t) = Len(s) - 1
           /\ \A i \in 1 .. Len(t) : t[i] = s[IF i < k THEN i ELSE i + 1]
<1> DEFINE a == SubSeq(s, 1, k - 1)
           b == SubSeq(s, k + 1, Len(s))
<1>1. a \in Seq(S) /\ Len(a) = k - 1 /\ \A i \in 1 .. k - 1 : a[i] = s[i]
  OBVIOUS
<1>2. b \in Seq(S) /\ Len(b) = Len(s) - k /\ \A i \in 1 .. Len(s) - k : b[i] = s[k + i]
  OBVIOUS
<1>3. t = a \o b
  BY DEF RemoveAt
<1> HIDE DEF a, b
<1>4. t \in Seq(S) /\ Len(t) = Len(s) - 1
  <2>0. a \in Seq(S) /\ b \in Seq(S)
    BY <1>1, <1>2
  <2>1. Len(t) = Len(a) + Len(b) /\ t \in Seq(S)
    BY <1>3, <2>0, ConcatIs
  <2> QED
    BY <1>1, <1>2, <2>1
<1>6. /\ \A i \in 1 .. Len(a) : t[i] = a[i]
      /\ \A i \in 1 .. Len(b) : t[Len(a) + i] = b[i]
  BY <1>1, <1>2, <1>3, ConcatIs
<1>5. ASSUME NEW i \in 1 .. Len(t) PROVE t[i] = s[IF i < k THEN i ELSE i + 1]
  <2>1. CASE i < k
    BY <1>1, <1>6, <2>1
  <2>2. CASE i >= k
    <3>1. PICK j \in 1 .. Len(b) : i = Len(a) + j /\ k + j = i + 1
      <4>1. i - (k - 1) \in 1 .. Len(b) /\ i = Len(a) + (i - (k - 1)) /\ k + (i - (k - 1)) = i + 1
        BY <1>1, <1>2, <1>4, <2>2
      <4> QED
        BY <4>1
    <3>2. j \in 1 .. Len(s) - k
      BY <1>2
    <3>3. t[i] = b[j] /\ b[j] = s[i + 1]
      BY <1>2, <1>6, <3>1, <3>2
    <3> QED
      BY <2>2, <3>3
  <2> QED
    BY <2>1, <2>2
<1> QED
  BY <1>4, <1>5

\* What is left of a sequence without one of its elements.
LEMMA WithoutIs ==
    ASSUME NEW S, NEW s \in Seq(S), IsInjective(s), NEW m, NEW t, t = Without(s, m)
    PROVE  /\ t \in Seq(S) /\ IsInjective(t) /\ ToSet(t) = ToSet(s) \ {m}
           /\ Len(t) = IF m \in ToSet(s) THEN Len(s) - 1 ELSE Len(s)
           /\ \A x, y : x # m /\ y # m => (Behind(t, x, y) <=> Behind(s, x, y))
<1>1. CASE m \notin ToSet(s)
  BY <1>1 DEF Without
<1>2. CASE m \in ToSet(s)
  <2> DEFINE k == PlaceOf(s, m)
  <2>1. k \in 1 .. Len(s) /\ s[k] = m
    BY <1>2 DEF PlaceOf, ToSet
  <2>2. t = RemoveAt(s, k)
    BY <1>2 DEF Without
  <2> HIDE DEF k
  <2>3. /\ t \in Seq(S) /\ Len(t) = Len(s) - 1
        /\ \A i \in 1 .. Len(t) : t[i] = s[IF i < k THEN i ELSE i + 1]
    BY <2>1, <2>2, PlacesAfterRemoval
  <2>4. \A i, j \in 1 .. Len(s) : s[i] = s[j] => i = j
    BY DEF IsInjective
  <2>5. ASSUME NEW i \in 1 .. Len(s), i # k
        PROVE  (IF i < k THEN i ELSE i - 1) \in 1 .. Len(t) /\ t[IF i < k THEN i ELSE i - 1] = s[i]
    <3>1. CASE i < k
      BY <2>1, <2>3, <3>1
    <3>2. CASE i > k
      <4>1. i - 1 \in 1 .. Len(t) /\ ~(i - 1 < k) /\ (i - 1) + 1 = i
        BY <2>1, <2>3, <3>2
      <4> QED
        BY <2>1, <2>3, <3>2, <4>1
    <3> QED
      BY <2>1, <2>5, <3>1, <3>2
  <2>6. ASSUME NEW i \in 1 .. Len(t)
        PROVE  (IF i < k THEN i ELSE i + 1) \in 1 .. Len(s) \ {k} /\ t[i] # m
    <3>1. (IF i < k THEN i ELSE i + 1) \in 1 .. Len(s) \ {k}
      BY <2>1, <2>3
    <3> QED
      BY <2>1, <2>3, <2>4, <3>1
  <2>7. IsInjective(t)
    <3>1. SUFFICES ASSUME NEW i \in 1 .. Len(t), NEW j \in 1 .. Len(t), t[i] = t[j] PROVE i = j
      BY <2>3 DEF IsInjective
    <3>2. (IF i < k THEN i ELSE i + 1) = (IF j < k THEN j ELSE j + 1)
      BY <2>3, <2>4, <2>6, <3>1
    <3> QED
      BY <2>1, <3>2
  <2>8. ToSet(t) = ToSet(s) \ {m}
    <3>1. ASSUME NEW x \in ToSet(t) PROVE x \in ToSet(s) \ {m}
      <4>1. PICK i \in 1 .. Len(t) : t[i] = x
        BY <2>3 DEF ToSet
      <4>2. PICK j \in 1 .. Len(s) : s[j] = x
        BY <2>3, <2>6, <4>1
      <4>3. x # m
        BY <2>6, <4>1
      <4> QED
        BY <4>2, <4>3 DEF ToSet
    <3>2. ASSUME NEW x \in ToSet(s) \ {m} PROVE x \in ToSet(t)
      <4>1. PICK i \in 1 .. Len(s) : s[i] = x
        BY DEF ToSet
      <4>2. i # k
        BY <2>1, <3>2, <4>1
      <4> QED
        BY <2>3, <2>5, <4>1, <4>2 DEF ToSet
    <3> QED
      BY <3>1, <3>2
  <2>9. ASSUME NEW x, NEW y, x # m, y # m PROVE Behind(t, x, y) <=> Behind(s, x, y)
    <3>1. ASSUME Behind(t, x, y) PROVE Behind(s, x, y)
      <4>1. PICK i \in 1 .. Len(t), j \in 1 .. Len(t) : i < j /\ t[i] = x /\ t[j] = y
        BY <3>1 DEF Behind
      <4>2. (IF i < k THEN i ELSE i + 1) < (IF j < k THEN j ELSE j + 1)
        BY <2>1, <4>1
      <4> QED
        BY <2>3, <2>6, <4>1, <4>2 DEF Behind
    <3>2. ASSUME Behind(s, x, y) PROVE Behind(t, x, y)
      <4>1. PICK i \in 1 .. Len(s), j \in 1 .. Len(s) : i < j /\ s[i] = x /\ s[j] = y
        BY <3>2 DEF Behind
      <4>2. i # k /\ j # k
        BY <2>1, <2>9, <4>1
      <4>3. (IF i < k THEN i ELSE i - 1) < (IF j < k THEN j ELSE j - 1)
        BY <2>1, <4>1, <4>2
      <4> QED
        BY <2>5, <4>1, <4>2, <4>3 DEF Behind
    <3> QED
      BY <3>1, <3>2
  <2> QED
    BY <1>2, <2>3, <2>7, <2>8, <2>9
<1> QED
  BY <1>1, <1>2

\* Append, by a name that the provers do not expand.
AtBack(s, m) == Append(s, m)

\* A new element comes behind all the others.
LEMMA AppendIs ==
    ASSUME NEW S, NEW s \in Seq(S), IsInjective(s), NEW m \in S, m \notin ToSet(s), NEW t, t = AtBack(s, m)
    PROVE  /\ t \in Seq(S) /\ IsInjective(t) /\ ToSet(t) = ToSet(s) \cup {m} /\ Len(t) = Len(s) + 1
           /\ \A x, y : y # m => (Behind(t, x, y) <=> Behind(s, x, y))
           /\ \A x \in ToSet(s) : Behind(t, x, m)
<1>1. /\ t \in Seq(S) /\ Len(t) = Len(s) + 1 /\ t[Len(t)] = m
      /\ \A i \in 1 .. Len(s) : i \in 1 .. Len(t) /\ t[i] = s[i]
      /\ \A i \in 1 .. Len(t) : i = Len(t) \/ i \in 1 .. Len(s)
  BY DEF AtBack
<1>2. \A i \in 1 .. Len(s) : s[i] # m
  BY DEF ToSet
<1>3. IsInjective(t)
  BY <1>1, <1>2 DEF IsInjective
<1>4. ToSet(t) = ToSet(s) \cup {m}
  <2>1. Len(t) \in 1 .. Len(t) /\ DOMAIN t = 1 .. Len(t) /\ DOMAIN s = 1 .. Len(s)
    BY <1>1
  <2> QED
    BY <1>1, <2>1 DEF ToSet
<1>5. ASSUME NEW x, NEW y, y # m PROVE Behind(t, x, y) <=> Behind(s, x, y)
  BY <1>1, <1>2, <1>5 DEF Behind
<1>6. ASSUME NEW x \in ToSet(s) PROVE Behind(t, x, m)
  <2>1. PICK i \in 1 .. Len(s) : s[i] = x
    BY DEF ToSet
  <2>2. i \in 1 .. Len(t) /\ Len(t) \in 1 .. Len(t) /\ i < Len(t)
    BY <1>1
  <2> QED
    BY <1>1, <2>1, <2>2 DEF Behind
<1> QED
  BY <1>1, <1>3, <1>4, <1>5, <1>6

LEMMA InsertIs ==
    ASSUME NEW S, NEW s \in Seq(S), IsInjective(s), NEW m \in S, m \notin ToSet(s),
           NEW k \in 1 .. Len(s) + 1, NEW t, t = InsertAt(s, k, m)
    PROVE  t \in Seq(S) /\ IsInjective(t) /\ ToSet(t) = ToSet(s) \cup {m}
<1> DEFINE a == SubSeq(s, 1, k - 1)
           b == SubSeq(s, k, Len(s))
           c == a \o <<m>>
<1>1. a \in Seq(S) /\ Len(a) = k - 1 /\ \A i \in 1 .. k - 1 : a[i] = s[i]
  OBVIOUS
<1>2. b \in Seq(S) /\ Len(b) = Len(s) - k + 1 /\ \A i \in 1 .. Len(s) - k + 1 : b[i] = s[k + i - 1]
  OBVIOUS
<1>3. t = c \o b
  BY DEF InsertAt
<1> HIDE DEF a, b
<1>4. c \in Seq(S) /\ Len(c) = k /\ c[k] = m /\ \A i \in 1 .. k - 1 : c[i] = s[i]
  BY <1>1
<1> HIDE DEF c
<1>5. t \in Seq(S) /\ Len(t) = Len(s) + 1
  <2>0. c \in Seq(S) /\ b \in Seq(S)
    BY <1>2, <1>4
  <2>1. Len(t) = Len(c) + Len(b) /\ t \in Seq(S)
    BY <1>3, <2>0, ConcatIs
  <2> QED
    BY <1>2, <1>4, <2>1
<1>11. /\ \A i \in 1 .. Len(c) : t[i] = c[i]
       /\ \A i \in 1 .. Len(b) : t[Len(c) + i] = b[i]
  BY <1>2, <1>3, <1>4, ConcatIs
<1>6. ASSUME NEW i \in 1 .. Len(t)
      PROVE  /\ i < k => i \in 1 .. Len(s) /\ t[i] = s[i]
             /\ i = k => t[i] = m
             /\ i > k => i - 1 \in 1 .. Len(s) /\ t[i] = s[i - 1]
  <2>1. CASE i <= k
    <3>1. t[i] = c[i]
      BY <1>4, <1>11, <2>1
    <3> QED
      BY <1>4, <1>5, <2>1, <3>1
  <2>2. CASE i > k
    <3>1. PICK j \in 1 .. Len(b) : i = Len(c) + j /\ k + j - 1 = i - 1 /\ i - 1 \in 1 .. Len(s)
      <4>1. i - k \in 1 .. Len(b) /\ i = Len(c) + (i - k) /\ k + (i - k) - 1 = i - 1 /\ i - 1 \in 1 .. Len(s)
        BY <1>2, <1>4, <1>5, <2>2
      <4> QED
        BY <4>1
    <3>2. j \in 1 .. Len(s) - k + 1
      BY <1>2
    <3>3. t[i] = b[j] /\ b[j] = s[i - 1]
      BY <1>2, <1>11, <3>1, <3>2
    <3> QED
      BY <2>2, <3>1, <3>3
  <2> QED
    BY <1>5, <2>1, <2>2
<1>7. \A i \in 1 .. Len(s) : s[i] # m
  BY DEF ToSet
<1>8. \A i, j \in 1 .. Len(s) : s[i] = s[j] => i = j
  BY DEF IsInjective
<1>9. IsInjective(t)
  <2>1. SUFFICES ASSUME NEW i \in 1 .. Len(t), NEW j \in 1 .. Len(t), t[i] = t[j] PROVE i = j
    BY <1>5 DEF IsInjective
  <2> DEFINE p(x) == IF x < k THEN x ELSE x - 1
  <2>2. \A x \in 1 .. Len(t) : x # k => p(x) \in 1 .. Len(s) /\ t[x] = s[p(x)] /\ t[x] # m
    <3>1. SUFFICES ASSUME NEW x \in 1 .. Len(t), x # k
                   PROVE  p(x) \in 1 .. Len(s) /\ t[x] = s[p(x)]
      BY <1>7
    <3>2. CASE x < k
      BY <1>6, <3>2
    <3>3. CASE x > k
      BY <1>6, <3>3
    <3> QED
      BY <3>1, <3>2, <3>3
  <2>3. t[k] = m
    BY <1>5, <1>6
  <2>4. (i = k) <=> (j = k)
    <3> HIDE DEF p
    <3> QED
      BY <2>1, <2>2, <2>3
  <2>5. i # k => p(i) = p(j)
    <3> HIDE DEF p
    <3> QED
      BY <1>8, <2>1, <2>2, <2>4
  <2> QED
    BY <2>4, <2>5
<1>10. ToSet(t) = ToSet(s) \cup {m}
  <2>0. DOMAIN t = 1 .. Len(t) /\ DOMAIN s = 1 .. Len(s) /\ k \in 1 .. Len(t)
    BY <1>5
  <2>1. ASSUME NEW i \in 1 .. Len(t) PROVE t[i] \in ToSet(s) \cup {m}
    <3>1. \A j \in 1 .. Len(s) : s[j] \in ToSet(s)
      BY <2>0 DEF ToSet
    <3>2. i < k \/ i = k \/ i > k
      BY <1>5
    <3> QED
      BY <1>6, <3>1, <3>2
  <2>2. ASSUME NEW i \in 1 .. Len(s) PROVE s[i] \in ToSet(t)
    <3>1. CASE i < k
      <4>1. i \in 1 .. Len(t) /\ t[i] = s[i]
        BY <1>5, <1>6, <3>1
      <4> QED
        BY <2>0, <4>1 DEF ToSet
    <3>2. CASE i >= k
      <4>1. i + 1 \in 1 .. Len(t) /\ i + 1 > k /\ (i + 1) - 1 = i
        BY <1>5, <3>2
      <4>2. t[i + 1] = s[i]
        BY <1>6, <4>1
      <4> QED
        BY <2>0, <4>1, <4>2 DEF ToSet
    <3> QED
      BY <3>1, <3>2
  <2>3. m \in ToSet(t)
    BY <1>6, <2>0 DEF ToSet
  <2> QED
    BY <2>0, <2>1, <2>2, <2>3 DEF ToSet
<1> QED
  BY <1>5, <1>9, <1>10

\* The first n and the rest share out a sequence.
LEMMA PartsAre ==
    ASSUME NEW S, NEW s \in Seq(S), IsInjective(s), NEW n \in Nat,
           NEW a, NEW b, a = Prefix(s, n), b = Beyond(s, n)
    PROVE  /\ a \in Seq(S) /\ b \in Seq(S) /\ IsInjective(a) /\ IsInjective(b)
           /\ Len(a) + Len(b) = Len(s) /\ Len(a) = (IF Len(s) < n THEN Len(s) ELSE n)
           /\ \A i \in 1 .. Len(a) : a[i] = s[i]
           /\ ToSet(a) \cup ToSet(b) = ToSet(s) /\ ToSet(a) \cap ToSet(b) = {}
<1> DEFINE l == IF Len(s) < n THEN Len(s) ELSE n
<1>0. l \in 0 .. Len(s) /\ (l = n \/ (l = Len(s) /\ l < n))
  OBVIOUS
<1>1. a \in Seq(S) /\ Len(a) = l /\ \A i \in 1 .. l : a[i] = s[i]
  BY <1>0 DEF Prefix
<1>2. b \in Seq(S) /\ Len(b) = Len(s) - l /\ \A i \in 1 .. Len(s) - l : b[i] = s[l + i]
  <2>1. CASE l = n
    <3>1. b = SubSeq(s, l + 1, Len(s))
      BY <2>1 DEF Beyond
    <3> HIDE DEF l
    <3> QED
      BY <1>0, <3>1
  <2>2. CASE l = Len(s) /\ l < n
    <3>1. b = SubSeq(s, n + 1, Len(s)) /\ n + 1 > Len(s)
      BY <2>2 DEF Beyond
    <3>2. b \in Seq(S) /\ Len(b) = 0
      BY <3>1
    <3> HIDE DEF l
    <3> QED
      BY <2>2, <3>2
  <2> QED
    BY <1>0, <2>1, <2>2
<1>3. l = IF Len(s) < n THEN Len(s) ELSE n
  OBVIOUS
<1> HIDE DEF l
<1>4. \A i, j \in 1 .. Len(s) : s[i] = s[j] => i = j
  BY DEF IsInjective
<1>5. \A i \in 1 .. Len(b) : l + i \in 1 .. Len(s) /\ l + i > l /\ b[i] = s[l + i]
  BY <1>0, <1>2
<1>6. \A i \in 1 .. Len(a) : i \in 1 .. Len(s) /\ i <= l /\ a[i] = s[i]
  BY <1>0, <1>1
<1>7. IsInjective(a)
  BY <1>1, <1>4, <1>6 DEF IsInjective
<1>8. IsInjective(b)
  <2>1. SUFFICES ASSUME NEW i \in 1 .. Len(b), NEW j \in 1 .. Len(b), b[i] = b[j] PROVE i = j
    BY <1>2 DEF IsInjective
  <2>2. l + i = l + j
    BY <1>4, <1>5, <2>1
  <2> QED
    BY <1>0, <2>2
<1>9. DOMAIN a = 1 .. Len(a) /\ DOMAIN b = 1 .. Len(b) /\ DOMAIN s = 1 .. Len(s)
  BY <1>1, <1>2
<1>10. ToSet(a) \cup ToSet(b) = ToSet(s)
  <2>1. ASSUME NEW i \in 1 .. Len(s) PROVE s[i] \in ToSet(a) \cup ToSet(b)
    <3>1. CASE i <= l
      <4>1. i \in 1 .. Len(a) /\ a[i] = s[i]
        BY <1>0, <1>1, <3>1
      <4> QED
        BY <1>9, <4>1 DEF ToSet
    <3>2. CASE i > l
      <4>1. i - l \in 1 .. Len(b) /\ l + (i - l) = i
        BY <1>0, <1>2, <3>2
      <4>2. b[i - l] = s[i]
        BY <1>5, <4>1
      <4> QED
        BY <1>9, <4>1, <4>2 DEF ToSet
    <3> QED
      BY <1>0, <3>1, <3>2
  <2>2. \A i \in 1 .. Len(a) : a[i] \in ToSet(s)
    BY <1>6, <1>9 DEF ToSet
  <2>3. \A i \in 1 .. Len(b) : b[i] \in ToSet(s)
    BY <1>5, <1>9 DEF ToSet
  <2>4. ASSUME NEW x \in ToSet(s) PROVE x \in ToSet(a) \cup ToSet(b)
    <3>1. PICK i \in 1 .. Len(s) : s[i] = x
      BY <1>9 DEF ToSet
    <3> QED
      BY <2>1, <3>1
  <2>5. ToSet(a) \subseteq ToSet(s)
    BY <1>9, <2>2 DEF ToSet
  <2>6. ToSet(b) \subseteq ToSet(s)
    BY <1>9, <2>3 DEF ToSet
  <2> QED
    BY <2>4, <2>5, <2>6
<1>11. ToSet(a) \cap ToSet(b) = {}
  <2>1. SUFFICES ASSUME NEW i \in 1 .. Len(a), NEW j \in 1 .. Len(b), a[i] = b[j] PROVE FALSE
    BY <1>9 DEF ToSet
  <2> QED
    BY <1>0, <1>4, <1>5, <1>6, <2>1
<1>12. Len(a) + Len(b) = Len(s)
  BY <1>0, <1>1, <1>2
<1> QED
  BY <1>1, <1>2, <1>3, <1>7, <1>8, <1>10, <1>11, <1>12

\* The head and the tail share it out too.
LEMMA HeadIs ==
    ASSUME NEW S, NEW s \in Seq(S), IsInjective(s), s # <<>>, NEW h, h = Head(s), NEW b, b = Tail(s)
    PROVE  /\ h \in S /\ b \in Seq(S) /\ IsInjective(b) /\ Len(b) = Len(s) - 1
           /\ ToSet(s) = ToSet(b) \cup {h} /\ h \notin ToSet(b)
<1>1. h = s[1] /\ b \in Seq(S) /\ Len(b) = Len(s) - 1 /\ \A i \in 1 .. Len(b) : i + 1 \in 1 .. Len(s) /\ b[i] = s[i + 1]
  OBVIOUS
<1>2. Len(s) \in Nat \ {0} /\ 1 \in 1 .. Len(s) /\ DOMAIN s = 1 .. Len(s) /\ DOMAIN b = 1 .. Len(b) /\ h \in S
  BY <1>1
<1>3. \A i, j \in 1 .. Len(s) : s[i] = s[j] => i = j
  BY DEF IsInjective
<1>4. IsInjective(b)
  BY <1>1, <1>2, <1>3 DEF IsInjective
<1>5. h \notin ToSet(b)
  BY <1>1, <1>2, <1>3 DEF ToSet
<1>6. ASSUME NEW i \in 1 .. Len(s) PROVE s[i] \in ToSet(b) \cup {h}
  <2>1. CASE i = 1
    BY <1>1, <2>1
  <2>2. CASE i # 1
    <3>1. i - 1 \in 1 .. Len(b) /\ (i - 1) + 1 = i
      BY <1>1, <1>2, <2>2
    <3>2. b[i - 1] = s[i]
      BY <1>1, <3>1
    <3> QED
      BY <1>2, <3>1, <3>2 DEF ToSet
  <2> QED
    BY <2>1, <2>2
<1>7. \A i \in 1 .. Len(b) : b[i] \in ToSet(s)
  BY <1>1, <1>2 DEF ToSet
<1>8. h \in ToSet(s)
  BY <1>1, <1>2 DEF ToSet
<1> QED
  BY <1>1, <1>2, <1>4, <1>5, <1>6, <1>7, <1>8 DEF ToSet

-----------------------------------------------------------------------------
(* The invariant.                                                          *)

RunType == [step : {"idle", "running"}, left : Seq(Mints), chunk : Seq(Mints),
            could : SUBSET Mints, failed : BOOLEAN]

TokenType == [there : BOOLEAN, named : BOOLEAN, state : {"none", "unpriced", "stale", "priced"}]

\* The two parts of the queue, f of mints without a row and s of mints with one.
QueuesOK(f, s, c, t) ==
    /\ f \in Seq(Mints) /\ IsInjective(f) /\ s \in Seq(Mints) /\ IsInjective(s)
    /\ c \in 0 .. Len(s)
    /\ t \in [Mints -> TokenType]
    /\ (\A x \in ToSet(f) : ~t[x].there) /\ (\A x \in ToSet(s) : t[x].there)

\* What a run has in its hands, and that it could take what waits only.
RunOK(f, s, r) ==
    /\ r \in RunType
    /\ IsInjective(r.left) /\ IsInjective(r.chunk) /\ ToSet(r.left) \cap ToSet(r.chunk) = {}
    /\ r.could \subseteq ToSet(f) \cup ToSet(s)

\* The mints that m does not wait for any more: they have a row, and are out of
\* the queue or behind m in it.
Past(f, s, t, m) ==
    {x \in Mints : t[x].there /\ (x \notin ToSet(s) \/ m \in ToSet(f) \/ Behind(s, m, x))}

\* Each run that went by m put as many mints behind it as the limit.
PassedOK(f, s, t, p) ==
    /\ p \in [Mints -> Nat]
    /\ \A m \in Mints : m \notin ToSet(f) \cup ToSet(s) => p[m] = 0
    /\ \A m \in Mints : p[m] * RunLimit <= Cardinality(Past(f, s, t, m))

\* So will the run under way, with what it has put there and what is in its hands.
InTurnOK(f, s, t, r, p) ==
    r.step = "running" /\ ~r.failed =>
        \A m \in r.could : m \notin ToSet(r.left) \cup ToSet(r.chunk) =>
            /\ p[m] * RunLimit + RunLimit <= Cardinality(Past(f, s, t, m)) + Len(r.left) + Len(r.chunk)
            /\ (ToSet(r.left) \cup ToSet(r.chunk)) \cap Past(f, s, t, m) = {}

TokensOK ==
    /\ QueuesOK(fresh, stamped, cooled, token)
    /\ RunOK(fresh, stamped, refresh)
    /\ PassedOK(fresh, stamped, token, passed)
    /\ InTurnOK(fresh, stamped, token, refresh, passed)

\* What m has behind it is finite, and m is not of it while it waits.
LEMMA PastIs ==
    ASSUME NEW f, NEW s, NEW c, NEW t, QueuesOK(f, s, c, t), NEW m \in Mints
    PROVE  /\ IsFiniteSet(Past(f, s, t, m)) /\ Cardinality(Past(f, s, t, m)) \in Nat
           /\ Cardinality(Past(f, s, t, m)) <= Cardinality(Mints) /\ Cardinality(Mints) \in Nat
           /\ m \in ToSet(f) \cup ToSet(s) =>
                 m \notin Past(f, s, t, m) /\ Cardinality(Past(f, s, t, m)) < Cardinality(Mints)
<1> DEFINE P == Past(f, s, t, m)
<1>1. P \subseteq Mints /\ IsFiniteSet(Mints)
  BY TokenAssumption DEF Past
<1>2. ASSUME m \in ToSet(f) \cup ToSet(s) PROVE m \notin P
  <2>1. CASE m \in ToSet(f)
    BY <2>1 DEF Past, QueuesOK
  <2>2. CASE m \in ToSet(s) /\ m \notin ToSet(f)
    <3>1. ~Behind(s, m, m)
      <4>1. \A i, j \in 1 .. Len(s) : s[i] = s[j] => i = j
        BY DEF QueuesOK, IsInjective
      <4>2. SUFFICES ASSUME NEW i \in 1 .. Len(s), NEW j \in 1 .. Len(s), i < j, s[i] = m, s[j] = m
                     PROVE  FALSE
        BY DEF Behind
      <4>3. i = j
        BY <4>1, <4>2
      <4> QED
        BY <4>2, <4>3
    <3> QED
      BY <2>2, <3>1 DEF Past
  <2> QED
    BY <1>2, <2>1, <2>2
<1> HIDE DEF P
<1>3. P \in SUBSET Mints
  BY <1>1
<1>4. /\ IsFiniteSet(P) /\ Cardinality(P) <= Cardinality(Mints)
      /\ Cardinality(P) = Cardinality(Mints) => P = Mints
  BY <1>1, <1>3, FS_Subset
<1>5. Cardinality(P) \in Nat /\ Cardinality(Mints) \in Nat
  BY <1>1, <1>4, FS_CardinalityType
<1>6. m \notin P => Cardinality(P) < Cardinality(Mints)
  BY <1>4, <1>5
<1> QED
  BY <1>2, <1>4, <1>5, <1>6 DEF P

\* The invariant gives the type and the promise.
LEMMA TokensShow == TokensOK => TokensTypeOK /\ ReachedInTurn
<1> SUFFICES ASSUME TokensOK PROVE TokensTypeOK /\ ReachedInTurn
  OBVIOUS
<1>1. TokensTypeOK
  BY DEF TokensOK, QueuesOK, RunOK, PassedOK, TokensTypeOK, RunType, TokenType
<1>2. ASSUME NEW m \in Mints PROVE passed[m] * RunLimit < Cardinality(Mints)
  <2>1. passed[m] \in Nat /\ passed[m] * RunLimit <= Cardinality(Past(fresh, stamped, token, m))
    BY DEF TokensOK, PassedOK
  <2>2. RunLimit \in Nat
    BY TokenAssumption
  <2>3. passed[m] * RunLimit \in Nat
    BY <2>1, <2>2
  <2>4. /\ Cardinality(Past(fresh, stamped, token, m)) \in Nat /\ Cardinality(Mints) \in Nat
        /\ m \in ToSet(fresh) \cup ToSet(stamped) =>
              Cardinality(Past(fresh, stamped, token, m)) < Cardinality(Mints)
    BY PastIs DEF TokensOK
  <2>5. CASE m \in ToSet(fresh) \cup ToSet(stamped)
    BY <2>1, <2>3, <2>4, <2>5
  <2>6. CASE m \notin ToSet(fresh) \cup ToSet(stamped)
    <3>1. passed[m] * RunLimit = 0
      <4>1. passed[m] = 0
        BY <2>6 DEF TokensOK, PassedOK
      <4> QED
        BY <2>2, <4>1
    <3>2. Cardinality(Mints) # 0
      <4>1. IsFiniteSet(Mints) /\ Mints # {}
        BY TokenAssumption
      <4> QED
        BY <4>1, FS_EmptySet
    <3> QED
      BY <2>4, <3>1, <3>2
  <2> QED
    BY <2>5, <2>6
<1> QED
  BY <1>1, <1>2 DEF ReachedInTurn

\* A change that leaves the queues, the rows and the counts alone.
LEMMA RunGoesOn ==
    ASSUME TokensOK, NEW r, refresh' = r, RunOK(fresh, stamped, r),
           InTurnOK(fresh, stamped, token, r, passed), UNCHANGED <<fresh, stamped, token, passed>>,
           cooled' \in 0 .. Len(stamped)
    PROVE  TokensOK'
<1>1. QueuesOK(fresh, stamped, cooled', token)
  BY DEF TokensOK, QueuesOK
<1> QED
  BY <1>1 DEF TokensOK

LEMMA NoRefreshOK ==
    ASSUME NEW f, NEW s, NEW t, NEW p
    PROVE  RunOK(f, s, NoRefresh) /\ InTurnOK(f, s, t, NoRefresh, p)
<1>1. /\ NoRefresh \in RunType /\ NoRefresh.step = "idle"
      /\ NoRefresh.left = <<>> /\ NoRefresh.chunk = <<>> /\ NoRefresh.could = {}
  <2>1. <<>> \in Seq(Mints)
    OBVIOUS
  <2> QED
    BY <2>1 DEF NoRefresh, RunType
<1>2. IsInjective(<<>>) /\ ToSet(<<>>) = {}
  BY DEF IsInjective, ToSet
<1> QED
  BY <1>1, <1>2 DEF RunOK, InTurnOK

LEMMA TokensBeginOK == TokensInit => TokensOK
<1> SUFFICES ASSUME TokensInit PROVE TokensOK
  OBVIOUS
<1>1. /\ fresh = <<>> /\ stamped = <<>> /\ cooled = 0 /\ refresh = NoRefresh
      /\ token = [m \in Mints |-> [there |-> FALSE, named |-> FALSE, state |-> "none"]]
      /\ passed = [m \in Mints |-> 0]
  BY DEF TokensInit
<1>2. IsInjective(<<>>) /\ ToSet(<<>>) = {} /\ <<>> \in Seq(Mints) /\ 0 \in 0 .. Len(<<>>)
  BY DEF IsInjective, ToSet
<1>3. QueuesOK(fresh, stamped, cooled, token)
  <2>1. token \in [Mints -> TokenType]
    BY <1>1 DEF TokenType
  <2> QED
    BY <1>1, <1>2, <2>1 DEF QueuesOK
<1>4. ASSUME NEW m \in Mints
      PROVE  passed[m] = 0 /\ passed[m] * RunLimit <= Cardinality(Past(fresh, stamped, token, m))
  <2>1. passed[m] = 0 /\ RunLimit \in Nat
    BY <1>1, TokenAssumption
  <2>2. Cardinality(Past(fresh, stamped, token, m)) \in Nat
    BY <1>3, PastIs
  <2> QED
    BY <2>1, <2>2
<1>5. PassedOK(fresh, stamped, token, passed)
  BY <1>1, <1>4 DEF PassedOK
<1> QED
  BY <1>1, <1>3, <1>5, NoRefreshOK DEF TokensOK

LEMMA DropOK == ASSUME TokensOK, DropRefresh PROVE TokensOK'
<1>1. refresh' = NoRefresh /\ UNCHANGED <<fresh, stamped, cooled, token, passed>>
  BY DEF DropRefresh
<1>2. cooled' \in 0 .. Len(stamped)
  BY <1>1 DEF TokensOK, QueuesOK
<1> QED
  BY <1>1, <1>2, NoRefreshOK, RunGoesOn

LEMMA CoolOK == ASSUME TokensOK, Cool PROVE TokensOK'
<1>1. cooled' = Len(stamped) /\ UNCHANGED <<fresh, stamped, token, refresh, passed>> /\ Len(stamped) \in Nat
  BY DEF Cool, TokensOK, QueuesOK
<1>2. cooled' \in 0 .. Len(stamped)
  BY <1>1
<1> QED
  BY <1>1, <1>2, RunGoesOn DEF TokensOK

\* A run ends, as far as it came, and those that it could have taken are counted.
LEMMA EndOK == ASSUME TokensOK, EndRefresh PROVE TokensOK'
<1>1. /\ refresh.step = "running" /\ refresh.left = <<>> /\ refresh.chunk = <<>> /\ refresh' = NoRefresh
      /\ UNCHANGED <<fresh, stamped, cooled, token>>
  BY DEF EndRefresh, Asking
<1>2. PICK q : q = [m \in Mints |-> IF m \in refresh.could /\ ~refresh.failed THEN passed[m] + 1 ELSE passed[m]]
  OBVIOUS
<1>3. passed' = q /\ passed \in [Mints -> Nat] /\ q \in [Mints -> Nat]
  BY <1>2 DEF EndRefresh, TokensOK, PassedOK
<1>4. ASSUME NEW m \in Mints
      PROVE  /\ m \notin ToSet(fresh) \cup ToSet(stamped) => q[m] = 0
             /\ q[m] * RunLimit <= Cardinality(Past(fresh, stamped, token, m))
  <2>1. /\ m \notin ToSet(fresh) \cup ToSet(stamped) => passed[m] = 0
        /\ passed[m] * RunLimit <= Cardinality(Past(fresh, stamped, token, m)) /\ passed[m] \in Nat
    BY DEF TokensOK, PassedOK
  <2>2. CASE m \in refresh.could /\ ~refresh.failed
    <3>1. q[m] = passed[m] + 1 /\ m \in ToSet(fresh) \cup ToSet(stamped)
      BY <1>2, <2>2 DEF TokensOK, RunOK
    <3>2. ToSet(<<>>) = {} /\ Len(<<>>) = 0
      BY DEF ToSet
    <3>3. passed[m] * RunLimit + RunLimit
             <= Cardinality(Past(fresh, stamped, token, m)) + Len(refresh.left) + Len(refresh.chunk)
      BY <1>1, <2>2, <3>2 DEF TokensOK, InTurnOK
    <3>4. Cardinality(Past(fresh, stamped, token, m)) \in Nat
      BY PastIs DEF TokensOK
    <3>5. RunLimit \in Nat
      BY TokenAssumption
    <3>6. (passed[m] + 1) * RunLimit = passed[m] * RunLimit + RunLimit
      BY <2>1, <3>5
    <3>7. passed[m] * RunLimit + RunLimit <= Cardinality(Past(fresh, stamped, token, m))
      BY <1>1, <3>2, <3>3, <3>4
    <3> QED
      BY <3>1, <3>6, <3>7
  <2>3. CASE ~(m \in refresh.could /\ ~refresh.failed)
    BY <1>2, <2>1, <2>3
  <2> QED
    BY <2>2, <2>3
<1>5. PassedOK(fresh, stamped, token, q)
  BY <1>3, <1>4 DEF PassedOK
<1> QED
  BY <1>1, <1>3, <1>5, NoRefreshOK DEF TokensOK

\* A run takes what is first in the queue: what it leaves there is behind that.
LEMMA StartRefreshOK == ASSUME TokensOK, StartRefresh PROVE TokensOK'
<1> DEFINE Q == Queue
           taken == Prefix(Queue, RunLimit)
<1>1. UNCHANGED <<fresh, stamped, cooled, token, passed>>
  BY DEF StartRefresh
<1>2. PICK r : r = [NoRefresh EXCEPT !.step = "running", !.left = taken, !.could = ToSet(Q)]
  OBVIOUS
<1>3. /\ r.step = "running" /\ r.left = taken /\ r.chunk = <<>> /\ r.could = ToSet(Q) /\ r.failed = FALSE
      /\ r = [step |-> "running", left |-> taken, chunk |-> <<>>, could |-> ToSet(Q), failed |-> FALSE]
  BY <1>2 DEF NoRefresh
<1>4. refresh' = r
  BY <1>2 DEF StartRefresh
<1>5. /\ fresh \in Seq(Mints) /\ IsInjective(fresh) /\ stamped \in Seq(Mints) /\ IsInjective(stamped)
      /\ cooled \in 0 .. Len(stamped)
      /\ \A x \in ToSet(fresh) : ~token[x].there
      /\ \A x \in ToSet(stamped) : token[x].there
  BY DEF TokensOK, QueuesOK
<1> DEFINE d == Retried
<1>6. /\ d \in Seq(Mints) /\ IsInjective(d) /\ ToSet(d) \subseteq ToSet(stamped)
      /\ Len(d) <= Len(stamped) /\ Len(d) \in Nat /\ \A i \in 1 .. Len(d) : d[i] = stamped[i]
  <2>0. d = Prefix(stamped, cooled) /\ cooled \in Nat
    BY <1>5 DEF Retried
  <2>1. /\ d \in Seq(Mints) /\ IsInjective(d) /\ ToSet(d) \subseteq ToSet(stamped)
        /\ Len(d) + Len(Beyond(stamped, cooled)) = Len(stamped) /\ Beyond(stamped, cooled) \in Seq(Mints)
        /\ \A i \in 1 .. Len(d) : d[i] = stamped[i]
    <3> HIDE DEF d
    <3> QED
      BY <1>5, <2>0, PartsAre
  <2> HIDE DEF d
  <2>2. Len(d) \in Nat /\ Len(Beyond(stamped, cooled)) \in Nat
    BY <2>1
  <2> QED
    BY <2>1, <2>2
<1>7. Q = fresh \o d
  BY DEF Queue
<1> HIDE DEF d, Q
<1>8. /\ Q \in Seq(Mints) /\ Len(Q) = Len(fresh) + Len(d) /\ Len(fresh) \in Nat
      /\ \A i \in 1 .. Len(fresh) : i \in 1 .. Len(Q) /\ Q[i] = fresh[i]
      /\ \A i \in 1 .. Len(d) : Len(fresh) + i \in 1 .. Len(Q) /\ Q[Len(fresh) + i] = d[i]
  <2>1. fresh \in Seq(Mints) /\ d \in Seq(Mints)
    BY <1>5, <1>6
  <2> QED
    BY <1>7, <2>1, ConcatIs
<1>9. ASSUME NEW k \in 1 .. Len(Q)
      PROVE  \/ k \in 1 .. Len(fresh) /\ Q[k] = fresh[k] /\ Q[k] \in ToSet(fresh)
             \/ /\ k > Len(fresh) /\ k - Len(fresh) \in 1 .. Len(stamped)
                /\ Q[k] = stamped[k - Len(fresh)] /\ Q[k] \in ToSet(stamped)
  <2>1. CASE k <= Len(fresh)
    <3>1. k \in 1 .. Len(fresh) /\ Q[k] = fresh[k]
      BY <1>8, <2>1
    <3> QED
      BY <1>5, <3>1 DEF ToSet
  <2>2. CASE k > Len(fresh)
    <3>1. PICK i \in 1 .. Len(d) : k = Len(fresh) + i /\ i = k - Len(fresh)
      <4>1. k - Len(fresh) \in 1 .. Len(d) /\ k = Len(fresh) + (k - Len(fresh))
        BY <1>6, <1>8, <2>2
      <4> QED
        BY <4>1
    <3>2. Q[k] = stamped[i] /\ i \in 1 .. Len(stamped)
      BY <1>5, <1>6, <1>8, <3>1
    <3> QED
      BY <1>5, <2>2, <3>1, <3>2 DEF ToSet
  <2> QED
    BY <1>8, <2>1, <2>2
<1>10. ToSet(fresh) \cap ToSet(stamped) = {}
  BY <1>5
<1>11. IsInjective(Q)
  <2>1. SUFFICES ASSUME NEW i \in 1 .. Len(Q), NEW j \in 1 .. Len(Q), Q[i] = Q[j] PROVE i = j
    BY <1>8 DEF IsInjective
  <2>2. (i \in 1 .. Len(fresh)) <=> (j \in 1 .. Len(fresh))
    BY <1>8, <1>9, <1>10, <2>1
  <2>3. CASE i \in 1 .. Len(fresh)
    <3>1. j \in 1 .. Len(fresh) /\ fresh[i] = fresh[j]
      BY <1>8, <2>1, <2>2, <2>3
    <3> QED
      BY <1>5, <2>3, <3>1 DEF IsInjective
  <2>4. CASE i \notin 1 .. Len(fresh)
    <3> DEFINE u == i - Len(fresh)
               v == j - Len(fresh)
    <3>1. u \in 1 .. Len(stamped) /\ v \in 1 .. Len(stamped) /\ stamped[u] = stamped[v]
      BY <1>9, <2>1, <2>2, <2>4
    <3>2. u = v
      <4> HIDE DEF u, v
      <4> QED
        BY <1>5, <3>1 DEF IsInjective
    <3> QED
      BY <1>8, <3>2
  <2> QED
    BY <2>3, <2>4
<1>12. ToSet(Q) \subseteq ToSet(fresh) \cup ToSet(stamped) /\ ToSet(Q) \subseteq Mints
  BY <1>8, <1>9 DEF ToSet
<1> DEFINE rest == Beyond(Q, RunLimit)
<1>13. RunLimit \in Nat
  BY TokenAssumption
<1>14. /\ taken \in Seq(Mints) /\ rest \in Seq(Mints) /\ IsInjective(taken)
       /\ Len(taken) = (IF Len(Q) < RunLimit THEN Len(Q) ELSE RunLimit)
       /\ \A i \in 1 .. Len(taken) : taken[i] = Q[i]
       /\ ToSet(taken) \cup ToSet(rest) = ToSet(Q)
       /\ Len(taken) + Len(rest) = Len(Q)
  <2>1. taken = Prefix(Q, RunLimit)
    BY DEF Q
  <2>2. rest = Beyond(Q, RunLimit)
    OBVIOUS
  <2>3. Q \in Seq(Mints)
    BY <1>8
  <2> HIDE DEF taken, rest
  <2> QED
    BY <1>11, <1>13, <2>1, <2>2, <2>3, PartsAre
<1> HIDE DEF taken, rest
<1>15. ToSet(<<>>) = {} /\ IsInjective(<<>>) /\ <<>> \in Seq(Mints) /\ Len(<<>>) = 0
  BY DEF ToSet, IsInjective
<1>16. RunOK(fresh, stamped, r)
  <2>1. r \in RunType
    BY <1>3, <1>12, <1>14, <1>15 DEF RunType
  <2> QED
    BY <1>3, <1>12, <1>14, <1>15, <2>1 DEF RunOK
<1>17. ASSUME NEW m \in r.could, m \notin ToSet(r.left) \cup ToSet(r.chunk)
       PROVE  /\ passed[m] * RunLimit + RunLimit
                    <= Cardinality(Past(fresh, stamped, token, m)) + Len(r.left) + Len(r.chunk)
              /\ (ToSet(r.left) \cup ToSet(r.chunk)) \cap Past(fresh, stamped, token, m) = {}
  <2>1. m \in Mints /\ m \in ToSet(Q) /\ m \notin ToSet(taken)
    BY <1>3, <1>12, <1>17
  <2>2. PICK k \in 1 .. Len(Q) : Q[k] = m
    BY <1>8, <2>1 DEF ToSet
  <2>3. ~(k <= Len(taken))
    <3>1. SUFFICES ASSUME k <= Len(taken) PROVE FALSE
      OBVIOUS
    <3>2. k \in 1 .. Len(taken) /\ taken[k] = m
      BY <1>14, <2>2, <3>1
    <3> QED
      BY <1>14, <2>1, <3>2 DEF ToSet
  <2>4. Len(taken) = RunLimit
    BY <1>8, <1>13, <1>14, <2>2, <2>3
  <2>5. /\ passed[m] * RunLimit <= Cardinality(Past(fresh, stamped, token, m)) /\ passed[m] \in Nat
        /\ Cardinality(Past(fresh, stamped, token, m)) \in Nat
    BY <2>1, PastIs DEF TokensOK, PassedOK
  <2>6. passed[m] * RunLimit \in Nat
    BY <1>13, <2>5
  <2>7. passed[m] * RunLimit + RunLimit
           <= Cardinality(Past(fresh, stamped, token, m)) + Len(r.left) + Len(r.chunk)
    BY <1>3, <1>13, <1>15, <2>4, <2>5, <2>6
  <2>8. ASSUME NEW z \in ToSet(taken), z \in Past(fresh, stamped, token, m) PROVE FALSE
    <3>1. PICK i \in 1 .. Len(taken) : taken[i] = z
      BY <1>14 DEF ToSet
    <3>2. i \in 1 .. Len(Q) /\ Q[i] = z /\ i < k
      BY <1>8, <1>14, <2>2, <2>3, <2>4, <3>1
    <3>3. z \notin ToSet(fresh)
      BY <1>5, <2>8 DEF Past
    <3>4. /\ i > Len(fresh) /\ i - Len(fresh) \in 1 .. Len(stamped)
          /\ z = stamped[i - Len(fresh)] /\ z \in ToSet(stamped)
      BY <1>9, <3>2, <3>3
    <3>5. k > Len(fresh) /\ k \notin 1 .. Len(fresh)
      BY <1>8, <3>2, <3>4
    <3>6. /\ k - Len(fresh) \in 1 .. Len(stamped) /\ m = stamped[k - Len(fresh)] /\ m \in ToSet(stamped)
      BY <1>9, <2>2, <3>5
    <3>7. m \notin ToSet(fresh)
      BY <1>10, <3>6
    <3>8. Behind(stamped, m, z)
      BY <2>8, <3>4, <3>7 DEF Past
    <3>9. PICK a \in 1 .. Len(stamped), b \in 1 .. Len(stamped) : a < b /\ stamped[a] = m /\ stamped[b] = z
      BY <3>8 DEF Behind
    <3>10. a = k - Len(fresh) /\ b = i - Len(fresh)
      <4>1. \A x, y \in 1 .. Len(stamped) : stamped[x] = stamped[y] => x = y
        BY <1>5 DEF IsInjective
      <4> QED
        BY <3>4, <3>6, <3>9, <4>1
    <3> QED
      BY <1>8, <3>2, <3>9, <3>10
  <2> QED
    BY <1>3, <1>15, <2>7, <2>8
<1>18. InTurnOK(fresh, stamped, token, r, passed)
  BY <1>17 DEF InTurnOK
<1> QED
  BY <1>1, <1>4, <1>5, <1>16, <1>18, RunGoesOn

\* A batch comes into the run's hands as one, or is left alone as one.
LEMMA AskOK == ASSUME TokensOK, AskChunk PROVE TokensOK'
<1> DEFINE a == Prefix(refresh.left, BatchSize)
           b == Beyond(refresh.left, BatchSize)
<1>1. /\ refresh.step = "running" /\ refresh.chunk = <<>>
      /\ UNCHANGED <<fresh, stamped, cooled, token, passed>>
  BY DEF AskChunk, Asking
<1>2. refresh \in RunType /\ IsInjective(refresh.left) /\ refresh.could \subseteq ToSet(fresh) \cup ToSet(stamped)
  BY DEF TokensOK, RunOK
<1>3. refresh.left \in Seq(Mints) /\ BatchSize \in Nat
  BY <1>2, TokenAssumption DEF RunType
<1>4. /\ a \in Seq(Mints) /\ b \in Seq(Mints) /\ IsInjective(a) /\ IsInjective(b)
      /\ Len(a) + Len(b) = Len(refresh.left)
      /\ ToSet(a) \cup ToSet(b) = ToSet(refresh.left) /\ ToSet(a) \cap ToSet(b) = {}
  <2>1. a = Prefix(refresh.left, BatchSize) /\ b = Beyond(refresh.left, BatchSize)
    OBVIOUS
  <2> HIDE DEF a, b
  <2>2. PICK l : l = refresh.left
    OBVIOUS
  <2>3. l \in Seq(Mints) /\ BatchSize \in Nat
    BY <1>3, <2>2
  <2>4. IsInjective(l)
    BY <1>2, <2>2
  <2>5. a = Prefix(l, BatchSize) /\ b = Beyond(l, BatchSize)
    BY <2>1, <2>2
  <2>6. /\ a \in Seq(Mints) /\ b \in Seq(Mints) /\ IsInjective(a) /\ IsInjective(b)
        /\ Len(a) + Len(b) = Len(l)
        /\ ToSet(a) \cup ToSet(b) = ToSet(l) /\ ToSet(a) \cap ToSet(b) = {}
    BY <2>3, <2>4, <2>5, PartsAre
  <2> QED
    BY <2>2, <2>6
<1>5. cooled' \in 0 .. Len(stamped)
  BY <1>1 DEF TokensOK, QueuesOK
<1>6. ToSet(<<>>) = {} /\ IsInjective(<<>>) /\ <<>> \in Seq(Mints) /\ Len(<<>>) = 0
  BY DEF ToSet, IsInjective
<1>7. CASE refresh' = [refresh EXCEPT !.chunk = a, !.left = b]
  <2> HIDE DEF a, b
  <2>1. PICK r : r = [refresh EXCEPT !.chunk = a, !.left = b]
    OBVIOUS
  <2>2. /\ r.step = refresh.step /\ r.chunk = a /\ r.left = b
        /\ r.could = refresh.could /\ r.failed = refresh.failed /\ r \in RunType
    BY <1>2, <1>4, <2>1 DEF RunType
  <2>3. RunOK(fresh, stamped, r)
    BY <1>2, <1>4, <2>2 DEF RunOK
  <2>4. InTurnOK(fresh, stamped, token, r, passed)
    <3>1. SUFFICES ASSUME r.step = "running" /\ ~r.failed, NEW m \in r.could,
                          m \notin ToSet(r.left) \cup ToSet(r.chunk)
                   PROVE  /\ passed[m] * RunLimit + RunLimit
                                <= Cardinality(Past(fresh, stamped, token, m)) + Len(r.left) + Len(r.chunk)
                          /\ (ToSet(r.left) \cup ToSet(r.chunk)) \cap Past(fresh, stamped, token, m) = {}
      BY DEF InTurnOK
    <3>2. /\ passed[m] * RunLimit + RunLimit
                <= Cardinality(Past(fresh, stamped, token, m)) + Len(refresh.left) + Len(refresh.chunk)
          /\ (ToSet(refresh.left) \cup ToSet(refresh.chunk)) \cap Past(fresh, stamped, token, m) = {}
      BY <1>1, <1>4, <1>6, <2>2, <3>1 DEF TokensOK, InTurnOK
    <3>3. m \in Mints
      BY <1>2, <2>2, <3>1 DEF RunType
    <3>4. Cardinality(Past(fresh, stamped, token, m)) \in Nat
      BY <3>3, PastIs DEF TokensOK
    <3>5. Len(a) \in Nat /\ Len(b) \in Nat /\ Len(refresh.chunk) = 0
      BY <1>1, <1>4, <1>6
    <3>6. Cardinality(Past(fresh, stamped, token, m)) + Len(refresh.left) + Len(refresh.chunk)
             = Cardinality(Past(fresh, stamped, token, m)) + Len(b) + Len(a)
      BY <1>4, <3>4, <3>5
    <3> QED
      BY <1>1, <1>4, <1>6, <2>2, <3>2, <3>6
  <2> QED
    BY <1>1, <1>5, <1>7, <2>1, <2>3, <2>4, RunGoesOn
<1>8. CASE refresh' = [refresh EXCEPT !.left = b, !.failed = TRUE]
  <2> HIDE DEF a, b
  <2>1. PICK r : r = [refresh EXCEPT !.left = b, !.failed = TRUE]
    OBVIOUS
  <2>2. r.chunk = <<>> /\ r.left = b /\ r.could = refresh.could /\ r.failed /\ r \in RunType
    BY <1>1, <1>2, <1>4, <2>1 DEF RunType
  <2>3. RunOK(fresh, stamped, r)
    BY <1>2, <1>4, <1>6, <2>2 DEF RunOK
  <2>4. InTurnOK(fresh, stamped, token, r, passed)
    BY <2>2 DEF InTurnOK
  <2> QED
    BY <1>1, <1>5, <1>8, <2>1, <2>3, <2>4, RunGoesOn
<1> QED
  BY <1>7, <1>8 DEF AskChunk

\* A trade puts a mint among those without a row, of which nobody has it behind them.
LEMMA TradeMintOK == ASSUME TokensOK, NEW m \in Mints, TradeMint(m) PROVE TokensOK'
<1>1. /\ m \notin ToSet(fresh) \cup ToSet(stamped) /\ ~token[m].there
      /\ UNCHANGED <<stamped, cooled, token, refresh, passed>>
  BY DEF TradeMint
<1>2. PICK i \in 1 .. Len(fresh) + 1 : fresh' = InsertAt(fresh, i, m)
  BY DEF TradeMint
<1>3. PICK f : f = fresh'
  OBVIOUS
<1>4. fresh \in Seq(Mints) /\ IsInjective(fresh)
  BY DEF TokensOK, QueuesOK
<1>5. f \in Seq(Mints) /\ IsInjective(f) /\ ToSet(f) = ToSet(fresh) \cup {m}
  <2>1. f = InsertAt(fresh, i, m) /\ m \notin ToSet(fresh)
    BY <1>1, <1>2, <1>3
  <2> QED
    BY <1>4, <2>1, InsertIs
<1>6. QueuesOK(f, stamped, cooled, token)
  BY <1>1, <1>5 DEF TokensOK, QueuesOK
<1>7. RunOK(f, stamped, refresh)
  BY <1>5 DEF TokensOK, RunOK
<1>8. \A x \in Mints : x # m => Past(f, stamped, token, x) = Past(fresh, stamped, token, x)
  BY <1>5 DEF Past
<1>9. PassedOK(f, stamped, token, passed)
  <2>1. \A x \in Mints : x \notin ToSet(f) \cup ToSet(stamped) => passed[x] = 0
    BY <1>5 DEF TokensOK, PassedOK
  <2>2. passed[m] * RunLimit <= Cardinality(Past(f, stamped, token, m))
    <3>1. passed[m] = 0 /\ RunLimit \in Nat
      BY <1>1, TokenAssumption DEF TokensOK, PassedOK
    <3>2. Cardinality(Past(f, stamped, token, m)) \in Nat
      BY <1>6, PastIs
    <3> QED
      BY <3>1, <3>2
  <2>3. \A x \in Mints : x # m => passed[x] * RunLimit <= Cardinality(Past(f, stamped, token, x))
    BY <1>8 DEF TokensOK, PassedOK
  <2> QED
    BY <2>1, <2>2, <2>3 DEF TokensOK, PassedOK
<1>10. InTurnOK(f, stamped, token, refresh, passed)
  <2>1. \A x \in refresh.could : x \in Mints /\ x # m
    BY <1>1 DEF TokensOK, RunOK, RunType
  <2> QED
    BY <1>8, <2>1 DEF TokensOK, InTurnOK
<1> QED
  BY <1>1, <1>3, <1>6, <1>7, <1>9, <1>10 DEF TokensOK

\* The row of m is written: m leaves the queue or goes to its back.
LEMMA MovedIs ==
    ASSUME NEW f, NEW s, NEW c, NEW t, QueuesOK(f, s, c, t), NEW m \in Mints,
           NEW g, g = Without(f, m), NEW w, w = Without(s, m), NEW u, u = w \/ u = AtBack(w, m),
           NEW e, e = IF m \in ToSet(Prefix(s, c)) THEN c - 1 ELSE c,
           NEW v, v \in [Mints -> TokenType], v[m].there, \A x \in Mints : x # m => v[x] = t[x]
    PROVE  /\ QueuesOK(g, u, e, v)
           /\ ToSet(g) = ToSet(f) \ {m} /\ ToSet(u) \ {m} = ToSet(s) \ {m}
           /\ \A x \in ToSet(f) \cup ToSet(s) : x # m => Past(g, u, v, x) = Past(f, s, t, x) \cup {m}
<1>1. /\ f \in Seq(Mints) /\ IsInjective(f) /\ s \in Seq(Mints) /\ IsInjective(s) /\ c \in 0 .. Len(s)
      /\ t \in [Mints -> TokenType] /\ (\A x \in ToSet(f) : ~t[x].there) /\ (\A x \in ToSet(s) : t[x].there)
  BY DEF QueuesOK
<1>2. g \in Seq(Mints) /\ IsInjective(g) /\ ToSet(g) = ToSet(f) \ {m}
  BY <1>1, WithoutIs
<1>3. /\ w \in Seq(Mints) /\ IsInjective(w) /\ ToSet(w) = ToSet(s) \ {m}
      /\ Len(w) = IF m \in ToSet(s) THEN Len(s) - 1 ELSE Len(s)
      /\ \A x, y : x # m /\ y # m => (Behind(w, x, y) <=> Behind(s, x, y))
  BY <1>1, WithoutIs
<1>4. /\ u \in Seq(Mints) /\ IsInjective(u) /\ ToSet(u) \ {m} = ToSet(s) \ {m} /\ Len(u) >= Len(w)
      /\ \A x, y : x # m /\ y # m => (Behind(u, x, y) <=> Behind(s, x, y))
      /\ \A x \in ToSet(s) : x # m => m \notin ToSet(u) \/ Behind(u, x, m)
  <2>0. Len(w) \in Nat
    BY <1>3
  <2>1. CASE u = w
    BY <1>3, <2>0, <2>1
  <2>2. CASE u = AtBack(w, m)
    <3>0. w \in Seq(Mints)
      BY <1>3
    <3>1. IsInjective(w)
      BY <1>3
    <3>4. m \notin ToSet(w)
      BY <1>3
    <3>2. /\ u \in Seq(Mints) /\ IsInjective(u) /\ ToSet(u) = ToSet(w) \cup {m} /\ Len(u) = Len(w) + 1
          /\ \A x, y : y # m => (Behind(u, x, y) <=> Behind(w, x, y))
          /\ \A x \in ToSet(w) : Behind(u, x, m)
      BY <2>2, <3>0, <3>1, <3>4, AppendIs
    <3>3. Len(u) >= Len(w)
      BY <2>0, <3>2
    <3> QED
      BY <1>3, <3>2, <3>3
  <2> QED
    BY <2>1, <2>2
<1>5. e \in 0 .. Len(u)
  <2> DEFINE p == Prefix(s, c)
             q == Beyond(s, c)
  <2>0. c \in Nat /\ Len(s) \in Nat /\ c <= Len(s)
    BY <1>1
  <2>1. /\ p \in Seq(Mints) /\ q \in Seq(Mints) /\ Len(p) + Len(q) = Len(s)
        /\ Len(p) = (IF Len(s) < c THEN Len(s) ELSE c) /\ ToSet(p) \cup ToSet(q) = ToSet(s)
    <3>1. p = Prefix(s, c) /\ q = Beyond(s, c)
      OBVIOUS
    <3> HIDE DEF p, q
    <3> QED
      BY <1>1, <2>0, <3>1, PartsAre
  <2>2. e = IF m \in ToSet(p) THEN c - 1 ELSE c
    OBVIOUS
  <2> HIDE DEF p, q
  <2>3. Len(p) = c /\ Len(w) \in Nat /\ Len(u) \in Nat
    BY <1>3, <1>4, <2>0, <2>1
  <2>4. CASE m \in ToSet(p)
    <3>1. c # 0
      <4>1. PICK i \in 1 .. Len(p) : p[i] = m
        BY <2>1, <2>4 DEF ToSet
      <4> QED
        BY <2>3, <4>1
    <3>2. m \in ToSet(s)
      BY <2>1, <2>4
    <3> QED
      BY <1>3, <1>4, <2>0, <2>2, <2>3, <2>4, <3>1, <3>2
  <2>5. CASE m \notin ToSet(p) /\ m \in ToSet(s)
    <3>1. m \in ToSet(q)
      BY <2>1, <2>5
    <3>2. PICK i \in 1 .. Len(q) : q[i] = m
      BY <2>1, <3>1 DEF ToSet
    <3>3. Len(q) \in Nat /\ Len(q) > 0
      BY <2>1, <3>2
    <3>4. c <= Len(s) - 1
      BY <2>0, <2>1, <2>3, <3>3
    <3> QED
      BY <1>3, <1>4, <2>0, <2>2, <2>3, <2>5, <3>4
  <2>6. CASE m \notin ToSet(p) /\ m \notin ToSet(s)
    BY <1>3, <1>4, <2>0, <2>2, <2>3, <2>6
  <2> QED
    BY <2>4, <2>5, <2>6
<1>6. QueuesOK(g, u, e, v)
  <2>0. ToSet(g) \subseteq Mints /\ ToSet(u) \subseteq Mints
    BY <1>2, <1>4 DEF ToSet
  <2>1. \A x \in ToSet(g) : ~v[x].there
    BY <1>1, <1>2, <2>0
  <2>2. \A x \in ToSet(u) : v[x].there
    BY <1>1, <1>4, <2>0
  <2> QED
    BY <1>2, <1>4, <1>5, <2>1, <2>2 DEF QueuesOK
<1>7. ASSUME NEW x \in ToSet(f) \cup ToSet(s), x # m PROVE Past(g, u, v, x) = Past(f, s, t, x) \cup {m}
  <2>1. ASSUME NEW y \in Mints, y # m PROVE y \in Past(g, u, v, x) <=> y \in Past(f, s, t, x)
    <3>1. v[y] = t[y] /\ (y \in ToSet(u) <=> y \in ToSet(s)) /\ (x \in ToSet(g) <=> x \in ToSet(f))
      BY <1>2, <1>4, <1>7, <2>1
    <3>2. Behind(u, x, y) <=> Behind(s, x, y)
      BY <1>4, <1>7, <2>1
    <3> QED
      BY <3>1, <3>2 DEF Past
  <2>2. m \in Past(g, u, v, x)
    <3>1. x \in ToSet(f) => x \in ToSet(g)
      BY <1>2, <1>7
    <3>2. x \in ToSet(s) => m \notin ToSet(u) \/ Behind(u, x, m)
      BY <1>4, <1>7
    <3> QED
      BY <1>7, <3>1, <3>2 DEF Past
  <2>3. Past(g, u, v, x) \subseteq Mints /\ Past(f, s, t, x) \subseteq Mints
    BY DEF Past
  <2> QED
    BY <2>1, <2>2, <2>3
<1> QED
  BY <1>2, <1>4, <1>6, <1>7

\* What a row that is written makes of the rows.
LEMMA RowIs ==
    ASSUME TokensOK, WriteToken
    PROVE  LET m == Head(refresh.chunk)
           IN  /\ token' \in [Mints -> TokenType] /\ token'[m].there
               /\ \A x \in Mints : x # m => token'[x] = token[x]
               /\ stamped' = Without(stamped, m) \/ stamped' = Append(Without(stamped, m), m)
<1> DEFINE m == Head(refresh.chunk)
<1>1. refresh.chunk # <<>> /\ refresh.chunk \in Seq(Mints) /\ token \in [Mints -> TokenType]
  BY DEF WriteToken, TokensOK, RunOK, RunType, QueuesOK
<1>2. m \in Mints
  BY <1>1
<1>3. PICK named \in BOOLEAN, state \in {"unpriced", "stale", "priced"}, out \in BOOLEAN :
         Upsert(m, named, state) /\ Moved(m, out)
  <2> HIDE DEF m
  <2>1. ASSUME NEW named \in BOOLEAN PROVE (token[m].named \/ named) \in BOOLEAN
    OBVIOUS
  <2>2. PICK raw \in SUBSET RawPairs :
           LET pairs == Parsed(raw)
           IN  IF pairs = {}
               THEN \E named \in HeliusAnswers :
                       Upsert(m, named, "unpriced") /\ Moved(m, token[m].named \/ named)
               ELSE \E p \in Best(pairs) :
                       Upsert(m, p.named, PriceState(p)) /\ Moved(m, token[m].named \/ p.named)
    BY DEF WriteToken, m
  <2>3. CASE Parsed(raw) = {}
    <3>1. PICK named \in BOOLEAN : Upsert(m, named, "unpriced") /\ Moved(m, token[m].named \/ named)
      BY <2>2, <2>3 DEF HeliusAnswers
    <3> QED
      BY <2>1, <3>1
  <2>4. CASE Parsed(raw) # {}
    <3>1. PICK p \in Best(Parsed(raw)) : Upsert(m, p.named, PriceState(p)) /\ Moved(m, token[m].named \/ p.named)
      BY <2>2, <2>4
    <3>2. p \in RawPairs
      BY DEF Best, Parsed
    <3>3. p.named \in BOOLEAN
      BY <3>2, TokenAssumption
    <3>4. PriceState(p) \in {"unpriced", "stale", "priced"}
      BY DEF PriceState
    <3> QED
      BY <2>1, <3>1, <3>3, <3>4
  <2> QED
    BY <2>3, <2>4
<1> HIDE DEF m
<1>4. PICK y : y = [there |-> TRUE, named |-> token[m].named \/ named, state |-> state]
  OBVIOUS
<1>5. y \in TokenType /\ y.there
  BY <1>4 DEF TokenType
<1>6. token' = [token EXCEPT ![m] = y]
  BY <1>3, <1>4 DEF Upsert
<1>7. stamped' = Without(stamped, m) \/ stamped' = Append(Without(stamped, m), m)
  BY <1>3 DEF Moved
<1> QED
  BY <1>1, <1>2, <1>5, <1>6, <1>7 DEF m

LEMMA WriteOK == ASSUME TokensOK, WriteToken PROVE TokensOK'
<1> DEFINE m == Head(refresh.chunk)
           rest == Tail(refresh.chunk)
<1>1. /\ refresh.chunk # <<>> /\ refresh \in RunType
      /\ IsInjective(refresh.left) /\ IsInjective(refresh.chunk)
      /\ ToSet(refresh.left) \cap ToSet(refresh.chunk) = {}
      /\ refresh.could \subseteq ToSet(fresh) \cup ToSet(stamped)
  BY DEF WriteToken, TokensOK, RunOK
<1>2. refresh.chunk \in Seq(Mints) /\ refresh.left \in Seq(Mints) /\ refresh.could \subseteq Mints
  BY <1>1 DEF RunType
<1>3. /\ m \in Mints /\ rest \in Seq(Mints) /\ IsInjective(rest) /\ Len(rest) = Len(refresh.chunk) - 1
      /\ ToSet(refresh.chunk) = ToSet(rest) \cup {m} /\ m \notin ToSet(rest)
  <2>1. PICK s : s = refresh.chunk
    OBVIOUS
  <2>2. s \in Seq(Mints) /\ s # <<>>
    BY <1>1, <1>2, <2>1
  <2>3. IsInjective(s)
    BY <1>1, <2>1
  <2>4. /\ Head(s) \in Mints /\ Tail(s) \in Seq(Mints) /\ IsInjective(Tail(s)) /\ Len(Tail(s)) = Len(s) - 1
        /\ ToSet(s) = ToSet(Tail(s)) \cup {Head(s)} /\ Head(s) \notin ToSet(Tail(s))
    BY <2>2, <2>3, HeadIs
  <2> QED
    BY <2>1, <2>4
<1>4. /\ token' \in [Mints -> TokenType] /\ token'[m].there
      /\ \A x \in Mints : x # m => token'[x] = token[x]
      /\ stamped' = Without(stamped, m) \/ stamped' = Append(Without(stamped, m), m)
  BY RowIs
<1>5. /\ fresh' = Without(fresh, m)
      /\ cooled' = (IF m \in ToSet(Prefix(stamped, cooled)) THEN cooled - 1 ELSE cooled)
      /\ passed' = [passed EXCEPT ![m] = 0]
      /\ refresh' = [refresh EXCEPT !.chunk = rest, !.could = @ \ {m}]
  BY DEF WriteToken, Retried
<1> HIDE DEF m, rest
<1>6. PICK g, w, u, e, v, r, p :
         /\ g = fresh' /\ w = Without(stamped, m) /\ u = stamped' /\ e = cooled' /\ v = token'
         /\ r = [refresh EXCEPT !.chunk = rest, !.could = @ \ {m}] /\ p = [passed EXCEPT ![m] = 0]
  OBVIOUS
<1>7. /\ QueuesOK(g, u, e, v)
      /\ ToSet(g) = ToSet(fresh) \ {m} /\ ToSet(u) \ {m} = ToSet(stamped) \ {m}
      /\ \A x \in ToSet(fresh) \cup ToSet(stamped) :
            x # m => Past(g, u, v, x) = Past(fresh, stamped, token, x) \cup {m}
  <2>1. QueuesOK(fresh, stamped, cooled, token)
    BY DEF TokensOK
  <2>2. g = Without(fresh, m)
    BY <1>5, <1>6
  <2>3. w = Without(stamped, m)
    BY <1>6
  <2>4. u = w \/ u = AtBack(w, m)
    BY <1>4, <1>6 DEF AtBack
  <2>5. e = IF m \in ToSet(Prefix(stamped, cooled)) THEN cooled - 1 ELSE cooled
    BY <1>5, <1>6
  <2>6. v \in [Mints -> TokenType]
    BY <1>4, <1>6
  <2>7. v[m].there
    BY <1>4, <1>6
  <2>8. \A x \in Mints : x # m => v[x] = token[x]
    BY <1>4, <1>6
  <2>9. m \in Mints
    BY <1>3
  <2> QED
    BY <2>1, <2>2, <2>3, <2>4, <2>5, <2>6, <2>7, <2>8, <2>9, MovedIs
<1>8. /\ r.step = refresh.step /\ r.left = refresh.left /\ r.chunk = rest /\ r.could = refresh.could \ {m}
      /\ r.failed = refresh.failed /\ r \in RunType
  BY <1>1, <1>2, <1>3, <1>6 DEF RunType
<1>9. RunOK(g, u, r)
  BY <1>1, <1>3, <1>7, <1>8 DEF RunOK
<1>10. /\ passed \in [Mints -> Nat] /\ p \in [Mints -> Nat] /\ p[m] = 0
       /\ \A x \in Mints : x # m => p[x] = passed[x]
  BY <1>3, <1>6 DEF TokensOK, PassedOK
\* Whoever waits has m behind it now.
<1>11. ASSUME NEW x \in ToSet(fresh) \cup ToSet(stamped), x # m
       PROVE  /\ Cardinality(Past(fresh, stamped, token, x)) \in Nat
              /\ Cardinality(Past(g, u, v, x)) \in Nat
              /\ Cardinality(Past(g, u, v, x)) >= Cardinality(Past(fresh, stamped, token, x))
              /\ m \notin Past(fresh, stamped, token, x) =>
                    Cardinality(Past(g, u, v, x)) = Cardinality(Past(fresh, stamped, token, x)) + 1
  <2>1. PICK P : P = Past(fresh, stamped, token, x)
    OBVIOUS
  <2>2. x \in Mints
    <3>1. fresh \in Seq(Mints) /\ stamped \in Seq(Mints)
      BY DEF TokensOK, QueuesOK
    <3> QED
      BY <3>1 DEF ToSet
  <2>3. IsFiniteSet(P) /\ Cardinality(P) \in Nat
    BY <2>1, <2>2, PastIs DEF TokensOK
  <2>4. Cardinality(P \cup {m}) = IF m \in P THEN Cardinality(P) ELSE Cardinality(P) + 1
    BY <2>3, FS_AddElement
  <2>5. Past(g, u, v, x) = P \cup {m}
    BY <1>7, <1>11, <2>1
  <2> QED
    BY <2>1, <2>3, <2>4, <2>5
<1>12. PassedOK(g, u, v, p)
  <2>1. ASSUME NEW x \in Mints PROVE p[x] * RunLimit <= Cardinality(Past(g, u, v, x))
    <3>0. RunLimit \in Nat /\ Cardinality(Past(g, u, v, x)) \in Nat
      BY <1>7, <2>1, PastIs, TokenAssumption
    <3>1. CASE p[x] = 0
      BY <3>0, <3>1
    <3>2. CASE p[x] # 0
      <4>1. x # m /\ p[x] = passed[x]
        BY <1>10, <2>1, <3>2
      <4>2. x \in ToSet(fresh) \cup ToSet(stamped)
        BY <2>1, <3>2, <4>1 DEF TokensOK, PassedOK
      <4>3. p[x] * RunLimit <= Cardinality(Past(fresh, stamped, token, x))
        BY <2>1, <4>1 DEF TokensOK, PassedOK
      <4>4. p[x] * RunLimit \in Nat
        BY <1>10, <2>1, <3>0
      <4> QED
        BY <1>11, <3>0, <4>1, <4>2, <4>3, <4>4
    <3> QED
      BY <3>1, <3>2
  <2>2. ASSUME NEW x \in Mints, x \notin ToSet(g) \cup ToSet(u) PROVE p[x] = 0
    <3>1. CASE x = m
      BY <1>10, <3>1
    <3>2. CASE x # m
      <4>1. x \notin ToSet(fresh) \cup ToSet(stamped)
        BY <1>7, <2>2, <3>2
      <4> QED
        BY <1>10, <2>2, <3>2, <4>1 DEF TokensOK, PassedOK
    <3> QED
      BY <3>1, <3>2
  <2> QED
    BY <1>10, <2>1, <2>2 DEF PassedOK
<1>13. InTurnOK(g, u, v, r, p)
  <2>1. SUFFICES ASSUME r.step = "running" /\ ~r.failed, NEW x \in r.could,
                        x \notin ToSet(r.left) \cup ToSet(r.chunk)
                 PROVE  /\ p[x] * RunLimit + RunLimit
                              <= Cardinality(Past(g, u, v, x)) + Len(r.left) + Len(r.chunk)
                        /\ (ToSet(r.left) \cup ToSet(r.chunk)) \cap Past(g, u, v, x) = {}
    BY DEF InTurnOK
  <2>2. x # m /\ x \in refresh.could /\ x \in ToSet(fresh) \cup ToSet(stamped) /\ x \in Mints
    BY <1>1, <1>2, <1>8, <2>1
  <2>3. x \notin ToSet(refresh.left) \cup ToSet(refresh.chunk)
    BY <1>3, <1>8, <2>1, <2>2
  <2>4. /\ passed[x] * RunLimit + RunLimit
              <= Cardinality(Past(fresh, stamped, token, x)) + Len(refresh.left) + Len(refresh.chunk)
        /\ (ToSet(refresh.left) \cup ToSet(refresh.chunk)) \cap Past(fresh, stamped, token, x) = {}
    BY <1>8, <2>1, <2>2, <2>3 DEF TokensOK, InTurnOK
  <2>5. m \notin Past(fresh, stamped, token, x)
    BY <1>3, <2>4
  <2>6. /\ Cardinality(Past(fresh, stamped, token, x)) \in Nat
        /\ Cardinality(Past(g, u, v, x)) = Cardinality(Past(fresh, stamped, token, x)) + 1
    BY <1>11, <2>2, <2>5
  <2>7. Len(refresh.left) \in Nat /\ Len(refresh.chunk) \in Nat /\ Len(r.chunk) = Len(refresh.chunk) - 1
    BY <1>2, <1>3, <1>8
  <2>8. Cardinality(Past(g, u, v, x)) + Len(r.left) + Len(r.chunk)
           = Cardinality(Past(fresh, stamped, token, x)) + Len(refresh.left) + Len(refresh.chunk)
    BY <1>8, <2>6, <2>7
  <2>9. p[x] = passed[x]
    BY <1>10, <2>2
  <2>10. Past(g, u, v, x) = Past(fresh, stamped, token, x) \cup {m}
    BY <1>7, <2>2
  <2>11. m \notin ToSet(r.left) \cup ToSet(r.chunk)
    BY <1>1, <1>3, <1>8
  <2>12. ToSet(r.chunk) \subseteq ToSet(refresh.chunk)
    BY <1>3, <1>8
  <2>13. (ToSet(r.left) \cup ToSet(r.chunk)) \cap Past(g, u, v, x) = {}
    BY <1>8, <2>4, <2>10, <2>11, <2>12
  <2> QED
    BY <2>4, <2>8, <2>9, <2>13
<1> QED
  BY <1>5, <1>6, <1>7, <1>9, <1>12, <1>13 DEF TokensOK

-----------------------------------------------------------------------------
LEMMA TokensStepOK == TokensOK /\ [TokensNext]_tokenVars => TokensOK'
<1> SUFFICES ASSUME TokensOK, [TokensNext]_tokenVars PROVE TokensOK'
  OBVIOUS
<1>1. CASE UNCHANGED tokenVars
  BY <1>1 DEF tokenVars, TokensOK
<1>2. CASE TokensNext
  BY <1>2, TradeMintOK, CoolOK, StartRefreshOK, AskOK, WriteOK, EndOK, DropOK DEF TokensNext
<1> QED
  BY <1>1, <1>2

\* TokensTypeOK and ReachedInTurn: whatever mints are traded, examined, retried and
\* given up meanwhile, no more complete runs than the number of mints over the
\* limit of a run go by a mint whose turn it could be.
THEOREM MintsAreReached == TokensSpec => [](TokensTypeOK /\ ReachedInTurn)
<1>1. TokensInit => TokensOK
  BY TokensBeginOK
<1>2. TokensOK /\ [TokensNext]_tokenVars => TokensOK'
  BY TokensStepOK
<1>3. TokensOK => TokensTypeOK /\ ReachedInTurn
  BY TokensShow
<1> QED
  BY <1>1, <1>2, <1>3, PTL DEF TokensSpec
=============================================================================
