------------------------ MODULE BoundedFanOutProofs ------------------------
(***************************************************************************)
(* The bound, the queue and the wakeups of BoundedFanOut, for every number *)
(* of calls, slots and stop signals.                                       *)
(***************************************************************************)
EXTENDS BoundedFanOut, FiniteSetTheorems, InductionLemmas

(* The invariant: no part is inductive without the others.  A slot that is *)
(* handed over stays counted because the queue names a waiting call, and a *)
(* waiting call means that every slot is counted.                          *)
IInv == TypeOK /\ SlotAccounting /\ QueueMatchesCalls /\ NoIdleSlot

-----------------------------------------------------------------------------
(* What abandon() leaves of a queue w of length n.                         *)

QueueOf(w, n) ==
  /\ \A i \in 1 .. n : w[i] \in Requests
  /\ \A i, j \in 1 .. n : w[i] = w[j] => i = j

Rest(w, n, s, kept) ==
  [i \in 0 .. n |-> IF i = 0 THEN <<>>
                    ELSE IF SignalOf[w[i]] = s THEN kept[i - 1]
                    ELSE Append(kept[i - 1], w[i])]

(* The walk over the queue that Unstopped describes is a function.         *)
LEMMA RestExists ==
  ASSUME NEW n \in Nat, NEW w, QueueOf(w, n), NEW s
  PROVE  \E kept : kept = Rest(w, n, s, kept)
<1> DEFINE S == Seq(Requests)
           Step(i, v) == IF SignalOf[w[i]] = s THEN v ELSE Append(v, w[i])
           step == [p \in (1 .. n) \X S |-> Step(p[1], p[2])]
<1>1. <<>> \in S
  OBVIOUS
<1>2. \A i \in 1 .. n : \A v \in S : step[<<i, v>>] = Step(i, v)
  OBVIOUS
<1>3. StepsWithin(step, n, S)
  <2>1. \A i \in 1 .. n : \A v \in S : Step(i, v) \in S
    BY DEF QueueOf
  <2> HIDE DEF S, step, Step
  <2> QED BY <1>2, <2>1 DEF StepsWithin
<1> HIDE DEF S, step
<1>4. PICK f : Recursion(f, n, S, <<>>, step)
  BY <1>1, <1>3, IntervalRecursion
<1>5. f \in [0 .. n -> S] /\ f[0] = <<>> /\ \A i \in 1 .. n : f[i - 1] \in S
  BY <1>4 DEF Recursion
<1>6. \A i \in 1 .. n : f[i] = Step(i, f[i - 1])
  BY <1>2, <1>4, <1>5 DEF Recursion
<1>7. f = Rest(w, n, s, f)
  <2>1. \A i \in 0 .. n : f[i] = IF i = 0 THEN <<>>
                                ELSE IF SignalOf[w[i]] = s THEN f[i - 1]
                                ELSE Append(f[i - 1], w[i])
    <3>1. \A i \in 0 .. n : i = 0 \/ (i # 0 /\ i \in 1 .. n) OBVIOUS
    <3> QED BY <1>5, <1>6, <3>1, Zenon
  <2>2. f = [i \in 0 .. n |-> f[i]]
    BY <1>5
  <2> QED BY <2>1, <2>2, Zenon DEF Rest
<1> QED BY <1>7

(* The queue u holds the calls of w with another signal, each once and in  *)
(* the order of w.                                                         *)
OthersOf(u, w, n, s) ==
  /\ u \in Seq(Requests)
  /\ \A k \in DOMAIN u : \E j \in 1 .. n : u[k] = w[j] /\ SignalOf[w[j]] # s
  /\ \A j \in 1 .. n : SignalOf[w[j]] # s => \E k \in DOMAIN u : u[k] = w[j]
  /\ \A k, l \in DOMAIN u : u[k] = u[l] => k = l
  /\ \A i, j \in 1 .. n :
       i < j /\ SignalOf[w[i]] # s /\ SignalOf[w[j]] # s =>
         \E k, l \in DOMAIN u : k < l /\ u[k] = w[i] /\ u[l] = w[j]

(* The walk keeps the calls of the other signals, each once and in order.  *)
LEMMA RestOfQueue ==
  ASSUME NEW n \in Nat, NEW w, QueueOf(w, n),
         NEW s, NEW kept, kept = Rest(w, n, s, kept)
  PROVE  OthersOf(kept[n], w, n, s)
<1> USE DEF QueueOf
<1> DEFINE From(i) ==
      \A k \in DOMAIN kept[i] :
        \E j \in 1 .. i : kept[i][k] = w[j] /\ SignalOf[w[j]] # s
    Into(i) ==
      \A j \in 1 .. i :
        SignalOf[w[j]] # s => \E k \in DOMAIN kept[i] : kept[i][k] = w[j]
    Once(i) == \A k, l \in DOMAIN kept[i] : kept[i][k] = kept[i][l] => k = l
    Order(i) ==
      \A h, j \in 1 .. i :
        h < j /\ SignalOf[w[h]] # s /\ SignalOf[w[j]] # s =>
          \E k, l \in DOMAIN kept[i] : k < l /\ kept[i][k] = w[h] /\ kept[i][l] = w[j]
    Sound(i) == kept[i] \in Seq(Requests) /\ From(i) /\ Into(i) /\ Once(i) /\ Order(i)
    P == {i \in 0 .. n : Sound(i)}
<1>1. kept[0] = <<>> /\ \A i \in 1 .. n : kept[i] = IF SignalOf[w[i]] = s THEN kept[i - 1]
                                                   ELSE Append(kept[i - 1], w[i])
  <2>1. \A i \in 0 .. n : kept[i] = IF i = 0 THEN <<>>
                                   ELSE IF SignalOf[w[i]] = s THEN kept[i - 1]
                                   ELSE Append(kept[i - 1], w[i])
    BY Zenon DEF Rest
  <2> QED BY <2>1
<1>2. Sound(0)
  BY <1>1
<1>3. ASSUME NEW i \in 1 .. n, Sound(i - 1) PROVE Sound(i)
  <2>1. CASE SignalOf[w[i]] = s
    <3>1. kept[i] = kept[i - 1] BY <1>1, <2>1
    <3>2. \A j \in 1 .. i : j \in 1 .. (i - 1) \/ j = i OBVIOUS
    <3>3. \A j \in 1 .. (i - 1) : j \in 1 .. i OBVIOUS
    <3> QED BY <1>3, <2>1, <3>1, <3>2, <3>3
  <2>2. CASE SignalOf[w[i]] # s
    <3> DEFINE q == kept[i - 1]
               m == Len(q)
    <3>1. q \in Seq(Requests) /\ m \in Nat /\ DOMAIN q = 1 .. m
      BY <1>3
    <3>2. kept[i] = Append(q, w[i])
      BY <1>1, <2>2
    <3>3. /\ kept[i] \in Seq(Requests)
          /\ DOMAIN kept[i] = 1 .. (m + 1)
          /\ kept[i][m + 1] = w[i]
          /\ \A k \in 1 .. m : kept[i][k] = q[k]
      BY <3>1, <3>2
    <3>4. \A j \in 1 .. i : j \in 1 .. (i - 1) \/ j = i OBVIOUS
    <3>5. \A j \in 1 .. (i - 1) : j \in 1 .. i /\ w[j] # w[i] OBVIOUS
    <3>6. \A k \in 1 .. (m + 1) : k \in 1 .. m \/ k = m + 1 BY <3>1
    <3>7. \A k \in 1 .. m : k \in 1 .. (m + 1) BY <3>1
    <3>8. m + 1 \in 1 .. (m + 1) /\ i \in 1 .. i BY <3>1
    <3> HIDE DEF q, m
    <3>9. \A k \in 1 .. m : \E j \in 1 .. (i - 1) : q[k] = w[j] /\ SignalOf[w[j]] # s
      BY <1>3, <3>1 DEF q
    <3>10. From(i)
      BY <2>2, <3>3, <3>5, <3>6, <3>8, <3>9
    <3>11. \A j \in 1 .. (i - 1) : SignalOf[w[j]] # s => \E k \in 1 .. m : q[k] = w[j]
      BY <1>3, <3>1 DEF q
    <3>12. Into(i)
      BY <3>3, <3>4, <3>7, <3>8, <3>11
    <3>13. \A k \in 1 .. m : kept[i][k] # w[i]
      BY <3>3, <3>5, <3>9
    <3>14. \A k, l \in 1 .. m : q[k] = q[l] => k = l
      BY <1>3, <3>1 DEF q
    <3>15. Once(i)
      BY <3>3, <3>6, <3>13, <3>14
    <3>16. \A h, j \in 1 .. (i - 1) :
             h < j /\ SignalOf[w[h]] # s /\ SignalOf[w[j]] # s =>
               \E k, l \in 1 .. m : k < l /\ q[k] = w[h] /\ q[l] = w[j]
      <4> SUFFICES ASSUME NEW h \in 1 .. (i - 1), NEW j \in 1 .. (i - 1), h < j,
                          SignalOf[w[h]] # s, SignalOf[w[j]] # s
                   PROVE  \E k, l \in 1 .. m : k < l /\ q[k] = w[h] /\ q[l] = w[j]
        OBVIOUS
      <4>1. Order(i - 1) BY <1>3
      <4>2. \E k, l \in DOMAIN kept[i - 1] :
              k < l /\ kept[i - 1][k] = w[h] /\ kept[i - 1][l] = w[j]
        BY <4>1
      <4> QED BY <3>1, <4>2 DEF q
    <3>17. \A h, j \in 1 .. i : h < j => h \in 1 .. (i - 1) OBVIOUS
    <3>18. \A k \in 1 .. m : k < m + 1 BY <3>1
    <3>19. Order(i)
      <4> SUFFICES ASSUME NEW h \in 1 .. i, NEW j \in 1 .. i, h < j,
                          SignalOf[w[h]] # s, SignalOf[w[j]] # s
                   PROVE  \E k, l \in 1 .. (m + 1) :
                            k < l /\ kept[i][k] = w[h] /\ kept[i][l] = w[j]
        BY <3>3
      <4>1. h \in 1 .. (i - 1) BY <3>17
      <4>2. CASE j = i
        BY <3>3, <3>7, <3>8, <3>11, <3>18, <4>1, <4>2
      <4>3. CASE j \in 1 .. (i - 1)
        BY <3>3, <3>7, <3>16, <4>1, <4>3
      <4> QED BY <3>4, <4>2, <4>3
    <3> QED BY <3>3, <3>10, <3>12, <3>15, <3>19
  <2> QED BY <2>1, <2>2
<1> HIDE DEF Sound
<1>4. 0 \in P
  BY <1>2
<1>5. \A i \in 1 .. n : i - 1 \in P => i \in P
  BY <1>3
<1> HIDE DEF P
<1>6. 0 .. n \subseteq P
  BY <1>4, <1>5, IntervalInduction
<1>7. n \in P
  BY <1>6
<1> QED BY <1>7 DEF P, Sound, OthersOf

\* After a signal is aborted the queue holds exactly the other waiters, each once
\* and in the order in which they came.
LEMMA UnstoppedQueue ==
  ASSUME TypeOK, QueueMatchesCalls, NEW s
  PROVE  /\ Unstopped(s) \in Seq(Requests)
         /\ \A r : (\E i \in DOMAIN Unstopped(s) : Unstopped(s)[i] = r)
                     <=> r \in Waiters /\ SignalOf[r] # s
         /\ \A i, j \in DOMAIN Unstopped(s) :
              Unstopped(s)[i] = Unstopped(s)[j] => i = j
         /\ \A i, j \in DOMAIN waiting :
              i < j /\ SignalOf[waiting[i]] # s /\ SignalOf[waiting[j]] # s =>
                \E k, l \in DOMAIN Unstopped(s) :
                  k < l /\ Unstopped(s)[k] = waiting[i] /\ Unstopped(s)[l] = waiting[j]
<1> DEFINE n == Len(waiting)
           kept == CHOOSE k : k = Rest(waiting, n, s, k)
<1>1. n \in Nat /\ DOMAIN waiting = 1 .. n /\ \A i \in 1 .. n : waiting[i] \in Requests
  BY DEF TypeOK
<1>2. QueueOf(waiting, n)
  BY <1>1 DEF QueueMatchesCalls, QueueOf
<1>3. Unstopped(s) = kept[n]
  BY DEF Unstopped, Rest
<1> HIDE DEF n
<1>4. kept = Rest(waiting, n, s, kept)
  BY <1>1, <1>2, RestExists, Zenon
<1> HIDE DEF kept
<1>5. OthersOf(kept[n], waiting, n, s)
  BY <1>1, <1>2, <1>4, RestOfQueue
<1>6. \A r : r \in Waiters <=> \E j \in 1 .. n : waiting[j] = r
  BY <1>1 DEF Waiters
<1> QED BY <1>1, <1>3, <1>5, <1>6 DEF OthersOf

-----------------------------------------------------------------------------
(* Where a call stands decides whether it holds a slot.                    *)

\* Finitely many calls hold a slot.
LEMMA HoldingSlotFinite ==
  IsFiniteSet(HoldingSlot) /\ Cardinality(HoldingSlot) \in Nat
BY FanOutAssumption, FS_Subset, FS_CardinalityType DEF HoldingSlot

\* A new instance: every slot is free and nobody waits.
LEMMA InitInv == Init => IInv
<1> SUFFICES ASSUME Init PROVE IInv
  OBVIOUS
<1>1. HoldingSlot = {}
  BY DEF Init, HoldingSlot
<1>2. Cardinality(HoldingSlot) = 0
  BY <1>1, FS_EmptySet
<1> QED
  BY <1>2, FanOutAssumption
  DEF Init, IInv, TypeOK, CallStates, SlotAccounting, QueueMatchesCalls, Waiters, NoIdleSlot

(* acquire(): a slot or a place in the queue.                              *)
LEMMA AcquireFreeInv ==
  ASSUME IInv, NEW r \in Requests, AcquireFree(r) PROVE IInv'
<1> USE FanOutAssumption DEF IInv
<1>1. HoldingSlot' = HoldingSlot \cup {r} /\ r \notin HoldingSlot
  BY DEF TypeOK, AcquireFree, HoldingSlot
<1>2. Cardinality(HoldingSlot') = Cardinality(HoldingSlot) + 1
  BY <1>1, HoldingSlotFinite, FS_AddElement
<1>3. SlotAccounting'
  BY <1>2 DEF AcquireFree, SlotAccounting, TypeOK
<1>4. waiting = <<>>
  BY DEF AcquireFree, NoIdleSlot, TypeOK
<1>5. TypeOK' /\ QueueMatchesCalls' /\ NoIdleSlot'
  BY <1>4 DEF AcquireFree, TypeOK, CallStates, QueueMatchesCalls, Waiters, IsAborted, NoIdleSlot
<1> QED BY <1>3, <1>5

\* acquire() with no free slot: the call joins the end of the queue.
LEMMA AcquireWaitInv ==
  ASSUME IInv, NEW r \in Requests, AcquireWait(r) PROVE IInv'
<1> USE FanOutAssumption DEF IInv
<1>1. HoldingSlot' = HoldingSlot
  BY DEF TypeOK, AcquireWait, HoldingSlot
<1>2. SlotAccounting'
  BY <1>1 DEF AcquireWait, SlotAccounting
<1>3. TypeOK' /\ NoIdleSlot'
  BY DEF AcquireWait, TypeOK, CallStates, NoIdleSlot, SlotAccounting
<1>4. r \notin Waiters
  BY DEF AcquireWait, QueueMatchesCalls
<1>5. Waiters' = Waiters \cup {r}
  BY DEF AcquireWait, Waiters, TypeOK
<1>6. \A i, j \in DOMAIN waiting' : waiting'[i] = waiting'[j] => i = j
  BY <1>4 DEF AcquireWait, Waiters, TypeOK, QueueMatchesCalls
<1>7. QueueMatchesCalls'
  BY <1>4, <1>5, <1>6 DEF AcquireWait, QueueMatchesCalls, TypeOK, IsAborted
<1> QED BY <1>2, <1>3, <1>7

(* release(): the slot goes to the first waiter, or is free.               *)
LEMMA SettleInv ==
  ASSUME IInv, NEW r \in Requests, Settle(r) PROVE IInv'
<1> USE FanOutAssumption DEF IInv
<1>1. CASE waiting # <<>>
  <2> DEFINE h == Head(waiting)
  <2>1. h \in Requests /\ h \in Waiters /\ h # r /\ state[h] = "waiting"
    BY <1>1 DEF TypeOK, Waiters, QueueMatchesCalls, Settle
  <2>2. /\ waiting' = Tail(waiting)
        /\ state' = [state EXCEPT ![r] = "settled", ![h] = "granted"]
        /\ UNCHANGED <<inFlight, aborted>>
    BY <1>1 DEF Settle, Release
  <2>3. TypeOK'
    BY <1>1, <2>1, <2>2 DEF TypeOK, CallStates
  <2>4. HoldingSlot' = (HoldingSlot \ {r}) \cup {h} /\ r \in HoldingSlot /\ h \notin HoldingSlot
    BY <2>1, <2>2 DEF TypeOK, Settle, HoldingSlot
  <2>5. Cardinality(HoldingSlot') = Cardinality(HoldingSlot)
    <3>1. /\ IsFiniteSet(HoldingSlot \ {r})
          /\ Cardinality(HoldingSlot \ {r}) = Cardinality(HoldingSlot) - 1
      BY <2>4, HoldingSlotFinite, FS_RemoveElement
    <3>2. Cardinality((HoldingSlot \ {r}) \cup {h}) = Cardinality(HoldingSlot \ {r}) + 1
      BY <2>4, <3>1, FS_AddElement
    <3> QED BY <2>4, <3>1, <3>2, HoldingSlotFinite
  <2>6. SlotAccounting' /\ NoIdleSlot'
    BY <1>1, <2>2, <2>5 DEF SlotAccounting, NoIdleSlot
  <2>7. \A i \in DOMAIN waiting' : i + 1 \in DOMAIN waiting /\ waiting'[i] = waiting[i + 1]
    BY <1>1, <2>2 DEF TypeOK
  <2>8. \A i \in DOMAIN waiting : i # 1 => i - 1 \in DOMAIN waiting' /\ waiting'[i - 1] = waiting[i]
    BY <1>1, <2>2 DEF TypeOK
  <2>9. h = waiting[1] /\ 1 \in DOMAIN waiting /\ DOMAIN waiting \subseteq Nat
    BY <1>1 DEF TypeOK
  <2>10. \A i, j \in DOMAIN waiting : waiting[i] = waiting[j] => i = j
    BY DEF QueueMatchesCalls
  <2> HIDE DEF h
  <2>11. Waiters' = Waiters \ {h}
    <3>1. \A i \in DOMAIN waiting' : waiting'[i] \in Waiters /\ waiting'[i] # h
      <4> TAKE i \in DOMAIN waiting'
      <4>1. i + 1 \in DOMAIN waiting /\ waiting'[i] = waiting[i + 1]
        BY <2>7
      <4>2. i \in Nat /\ i # 0
        BY <2>2, <1>1, <2>3 DEF TypeOK
      <4>3. waiting[i + 1] # waiting[1]
        BY <2>9, <2>10, <4>1, <4>2
      <4> QED BY <2>9, <4>1, <4>3 DEF Waiters
    <3>2. \A q \in Waiters : q # h => \E i \in DOMAIN waiting' : waiting'[i] = q
      <4> TAKE q \in Waiters
      <4> HAVE q # h
      <4>1. PICK i \in DOMAIN waiting : waiting[i] = q
        BY DEF Waiters
      <4>2. i # 1
        BY <2>9, <4>1
      <4> QED BY <2>8, <4>1, <4>2
    <3> QED BY <3>1, <3>2 DEF Waiters
  <2>12. \A i, j \in DOMAIN waiting' : waiting'[i] = waiting'[j] => i = j
    <3>1. DOMAIN waiting' \subseteq Nat
      BY <2>3 DEF TypeOK
    <3> QED BY <2>7, <2>10, <3>1
  <2>13. QueueMatchesCalls'
    BY <2>1, <2>2, <2>11, <2>12 DEF QueueMatchesCalls, TypeOK, IsAborted, Settle
  <2> QED BY <2>3, <2>6, <2>13
<1>2. CASE waiting = <<>>
  <2>1. /\ UNCHANGED <<waiting, aborted>>
        /\ state' = [state EXCEPT ![r] = "settled"]
        /\ inFlight' = inFlight - 1
    BY <1>2 DEF Settle, Release
  <2>2. HoldingSlot' = HoldingSlot \ {r} /\ r \in HoldingSlot
    BY <2>1 DEF TypeOK, Settle, HoldingSlot
  <2>3. Cardinality(HoldingSlot') = Cardinality(HoldingSlot) - 1 /\ Cardinality(HoldingSlot') \in Nat
    BY <2>2, HoldingSlotFinite, FS_RemoveElement, FS_CardinalityType
  <2>4. TypeOK' /\ SlotAccounting'
    BY <2>1, <2>3 DEF TypeOK, CallStates, SlotAccounting
  <2>5. QueueMatchesCalls' /\ NoIdleSlot'
    BY <1>2, <2>1 DEF QueueMatchesCalls, Waiters, NoIdleSlot, TypeOK, Settle
  <2> QED BY <2>4, <2>5
<1> QED BY <1>1, <1>2

(* A stop signal aborts.                                                   *)
LEMMA AbortInv ==
  ASSUME IInv, NEW s \in Signals, Abort(s) PROVE IInv'
<1> USE FanOutAssumption DEF IInv
<1>1. /\ waiting' \in Seq(Requests)
      /\ \A r : (\E i \in DOMAIN waiting' : waiting'[i] = r) <=> r \in Waiters /\ SignalOf[r] # s
      /\ \A i, j \in DOMAIN waiting' : waiting'[i] = waiting'[j] => i = j
  BY UnstoppedQueue DEF Abort
<1>2. Waiters' = {r \in Waiters : SignalOf[r] # s}
  BY <1>1 DEF Waiters
<1>3. /\ aborted' = aborted \cup {s} /\ inFlight' = inFlight
      /\ state' = [r \in Requests |-> IF Abandons(r, s) THEN "stopped" ELSE state[r]]
  BY DEF Abort
<1>4. TypeOK'
  BY <1>1, <1>3 DEF TypeOK, CallStates
<1>5. \A r \in Requests : Abandons(r, s) => state[r] = "waiting"
  BY DEF Abandons, QueueMatchesCalls
<1>6. HoldingSlot' = HoldingSlot
  BY <1>3, <1>5 DEF HoldingSlot
<1>7. SlotAccounting'
  BY <1>3, <1>6 DEF SlotAccounting
<1>8. \A r \in Waiters : r \in Requests
  BY DEF Waiters, TypeOK
<1>9. QueueMatchesCalls'
  BY <1>1, <1>2, <1>3, <1>8 DEF QueueMatchesCalls, Abandons, IsAborted
<1>10. NoIdleSlot'
  <2>1. waiting' # <<>> => waiting # <<>>
    <3>1. waiting' # <<>> => \E i \in DOMAIN waiting' : TRUE
      BY <1>1
    <3>2. (\E r : r \in Waiters) => waiting # <<>>
      BY DEF Waiters, TypeOK
    <3> QED BY <1>1, <3>1, <3>2
  <2> QED BY <1>3, <2>1 DEF NoIdleSlot
<1> QED BY <1>4, <1>7, <1>9, <1>10

\* One step of any caller.
LEMMA NextInv == IInv /\ [Next]_vars => IInv'
<1> SUFFICES ASSUME IInv, [Next]_vars PROVE IInv'
  OBVIOUS
<1>1. ASSUME NEW r \in Requests, AcquireRefused(r) \/ StartSend(r) PROVE IInv'
  <2>1. HoldingSlot' = HoldingSlot
    BY <1>1 DEF AcquireRefused, StartSend, HoldingSlot, IInv, TypeOK
  <2>2. r \notin Waiters
    BY <1>1 DEF AcquireRefused, StartSend, IInv, QueueMatchesCalls
  <2>3. TypeOK' /\ SlotAccounting' /\ NoIdleSlot'
    BY <1>1, <2>1 DEF AcquireRefused, StartSend, IInv, TypeOK, CallStates, SlotAccounting, NoIdleSlot
  <2>4. QueueMatchesCalls'
    BY <1>1, <2>2 DEF AcquireRefused, StartSend, IInv, TypeOK, QueueMatchesCalls, Waiters, IsAborted
  <2> QED BY <2>3, <2>4 DEF IInv
<1>2. CASE UNCHANGED vars
  BY <1>2 DEF vars, IInv, TypeOK, SlotAccounting, HoldingSlot, QueueMatchesCalls, Waiters,
     IsAborted, NoIdleSlot
<1> QED
  BY <1>1, <1>2, AcquireFreeInv, AcquireWaitInv, SettleInv, AbortInv DEF Next

\* The inductive invariant of the class and its callers: acquire(), release() and the
\* abort listener keep the slots accounted for and the queue in step with the calls.
THEOREM Invariant == Spec => []IInv
BY InitInv, NextInv, PTL DEF Spec

(* The type invariant of the class and its callers.                        *)
THEOREM TypeCorrect == Spec => []TypeOK
BY Invariant, PTL DEF IInv

(* Never more than Limit relay requests in flight, and the counter of the  *)
(* class never drifts from the calls that hold a slot.                     *)
THEOREM SlotsAreCounted == Spec => []SlotAccounting
BY Invariant, PTL DEF IInv

(* The queue of grants is the queue of the calls that wait, each once,     *)
(* none of them stopped.                                                   *)
THEOREM QueueIsOfWaitingCalls == Spec => []QueueMatchesCalls
BY Invariant, PTL DEF IInv

(* No lost wakeup: no call waits beside a free slot.                       *)
THEOREM NoSlotIsIdle == Spec => []NoIdleSlot
BY Invariant, PTL DEF IInv

(* Nobody overtakes in one step.                                           *)
Keeps(q, r) ==
  /\ state'[r] # "granted"
  /\ state'[q] = "waiting" /\ state'[r] \in {"idle", "waiting"} => Precedes(q, r)'

\* A call that starts, or is refused, leaves the queue and its order alone.
LEMMA OthersKeepOrder ==
  ASSUME IInv, NEW q \in Requests, NEW r \in Requests, Precedes(q, r),
         NEW c \in Requests, AcquireRefused(c) \/ AcquireFree(c) \/ StartSend(c)
  PROVE  Keeps(q, r)
<1>1. waiting' = waiting /\ q # c /\ state'[q] = state[q]
  BY DEF AcquireRefused, AcquireFree, StartSend, Precedes, IInv, TypeOK
<1>2. waiting # <<>>
  BY DEF Precedes, IInv, QueueMatchesCalls, Waiters, TypeOK
<1>3. ~AcquireFree(c)
  BY <1>2, FanOutAssumption DEF AcquireFree, IInv, NoIdleSlot, TypeOK
<1>4. state[r] \in {"idle", "waiting"}
  BY DEF Precedes, IInv, QueueMatchesCalls, Waiters
<1> QED BY <1>1, <1>3, <1>4 DEF AcquireRefused, StartSend, Precedes, Keeps, IInv, TypeOK

\* A new waiter is behind all others.
LEMMA WaitKeepsOrder ==
  ASSUME IInv, NEW q \in Requests, NEW r \in Requests, Precedes(q, r),
         NEW c \in Requests, AcquireWait(c)
  PROVE  Keeps(q, r)
<1> DEFINE n == Len(waiting)
<1>1. /\ n \in Nat /\ DOMAIN waiting = 1 .. n /\ DOMAIN waiting' = 1 .. (n + 1)
      /\ waiting'[n + 1] = c /\ \A i \in 1 .. n : waiting'[i] = waiting[i]
  BY DEF AcquireWait, IInv, TypeOK
<1>2. q # c /\ state'[q] = "waiting" /\ state'[c] = "waiting"
  BY DEF AcquireWait, Precedes, IInv, TypeOK
<1>3. PICK i \in 1 .. n : waiting[i] = q
  BY <1>1 DEF Precedes, IInv, QueueMatchesCalls, Waiters
<1>4. i < n + 1 /\ i \in 1 .. (n + 1) /\ n + 1 \in 1 .. (n + 1)
  BY <1>1
<1> HIDE DEF n
<1>5. CASE r = c
  BY <1>1, <1>2, <1>3, <1>4, <1>5 DEF Keeps, Precedes
<1>6. CASE r # c /\ state[r] = "idle"
  BY <1>2, <1>6 DEF Keeps, Precedes, AcquireWait, IInv, TypeOK
<1>7. CASE r # c /\ state[r] # "idle"
  <2>1. PICK k \in 1 .. n, l \in 1 .. n : k < l /\ waiting[k] = q /\ waiting[l] = r
    BY <1>1, <1>7 DEF Precedes
  <2>2. k \in 1 .. (n + 1) /\ l \in 1 .. (n + 1)
    BY <1>1
  <2>3. state'[r] = "waiting"
    BY <1>1, <1>7, <2>1 DEF AcquireWait, IInv, TypeOK, QueueMatchesCalls, Waiters
  <2> QED BY <1>1, <1>2, <2>1, <2>2, <2>3 DEF Keeps, Precedes
<1> QED BY <1>5, <1>6, <1>7

\* The slot of a call that settles goes to the first of the queue.
LEMMA SettleKeepsOrder ==
  ASSUME IInv, NEW q \in Requests, NEW r \in Requests, Precedes(q, r),
         NEW c \in Requests, Settle(c)
  PROVE  Keeps(q, r)
<1> DEFINE n == Len(waiting)
           h == Head(waiting)
<1>1. PICK i \in DOMAIN waiting : waiting[i] = q
  BY DEF Precedes, IInv, QueueMatchesCalls, Waiters
<1>2. /\ waiting # <<>> /\ n \in Nat /\ DOMAIN waiting = 1 .. n
      /\ 1 \in 1 .. n /\ h = waiting[1] /\ h \in Requests
  BY <1>1 DEF IInv, TypeOK
<1>3. /\ DOMAIN waiting' = 1 .. (n - 1)
      /\ \A k \in 1 .. n : k # 1 => k - 1 \in 1 .. (n - 1) /\ waiting'[k - 1] = waiting[k]
  BY <1>2 DEF Settle, Release, IInv, TypeOK
<1>4. state' = [state EXCEPT ![c] = "settled", ![h] = "granted"] /\ state[h] = "waiting"
  BY <1>2 DEF Settle, Release, IInv, QueueMatchesCalls, Waiters
<1>5. \A k, l \in 1 .. n : waiting[k] = waiting[l] => k = l
  BY <1>2 DEF IInv, QueueMatchesCalls
<1> HIDE DEF n, h
<1>6. CASE state[r] = "idle"
  BY <1>4, <1>6 DEF Keeps, Precedes, Settle, IInv, TypeOK
<1>7. CASE state[r] # "idle"
  <2>1. PICK k \in 1 .. n, l \in 1 .. n : k < l /\ waiting[k] = q /\ waiting[l] = r
    BY <1>2, <1>7 DEF Precedes
  <2>2. l # 1 /\ r # h
    BY <1>2, <1>5, <2>1
  <2>3. state[r] = "waiting" /\ r # c
    BY <1>2, <2>1 DEF IInv, QueueMatchesCalls, Waiters, Settle
  <2>4. state'[r] = "waiting"
    BY <1>4, <2>2, <2>3 DEF IInv, TypeOK
  <2>5. CASE k = 1
    BY <1>2, <1>4, <2>1, <2>4, <2>5 DEF Keeps, IInv, TypeOK
  <2>6. CASE k # 1
    <3>1. k - 1 < l - 1
      BY <2>1
    <3> QED BY <1>3, <2>1, <2>2, <2>4, <2>6, <3>1 DEF Keeps, Precedes
  <2> QED BY <2>5, <2>6
<1> QED BY <1>6, <1>7

\* The calls that an abort leaves in the queue keep their order.
LEMMA AbortKeepsOrder ==
  ASSUME IInv, NEW q \in Requests, NEW r \in Requests, Precedes(q, r),
         NEW s \in Signals, Abort(s)
  PROVE  Keeps(q, r)
<1>1. waiting' = Unstopped(s)
  BY DEF Abort
<1>2. \A c \in Requests : state'[c] = IF Abandons(c, s) THEN "stopped" ELSE state[c]
  BY DEF Abort
<1>3. state[q] = "waiting" /\ state[r] \in {"idle", "waiting"}
  BY DEF Precedes, IInv, QueueMatchesCalls, Waiters
<1>4. CASE state[r] = "idle"
  BY <1>2, <1>4 DEF Keeps, Precedes, Abandons, IInv, QueueMatchesCalls
<1>5. CASE state[r] = "waiting"
  <2> SUFFICES ASSUME state'[q] = "waiting", state'[r] = "waiting"
               PROVE  \E k, l \in DOMAIN waiting' : k < l /\ waiting'[k] = q /\ waiting'[l] = r
    BY <1>2, <1>5 DEF Keeps, Precedes
  <2>1. PICK i \in DOMAIN waiting, j \in DOMAIN waiting :
          i < j /\ waiting[i] = q /\ waiting[j] = r
    BY <1>5 DEF Precedes
  <2>2. SignalOf[q] # s /\ SignalOf[r] # s
    BY <1>2, <2>1 DEF Abandons, Waiters
  <2> QED BY <1>1, <2>1, <2>2, UnstoppedQueue DEF IInv
<1> QED BY <1>3, <1>4, <1>5

(* First come, first served: no call of acquire() gets a slot before one   *)
(* that came earlier and waits, through handovers, new calls and aborts.   *)
THEOREM NobodyOvertakes == Spec => NoOvertaking
<1>1. IInv /\ [Next]_vars => [\A q, r \in Requests : Precedes(q, r) => Keeps(q, r)]_vars
  BY OthersKeepOrder, WaitKeepsOrder, SettleKeepsOrder, AbortKeepsOrder DEF Next
<1> QED BY <1>1, Invariant, PTL DEF Spec, NoOvertaking, Keeps
=============================================================================
