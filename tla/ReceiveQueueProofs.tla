------------------------- MODULE ReceiveQueueProofs -------------------------
(***************************************************************************)
(* What holds of the receive queue for any records, any limits and any     *)
(* interleaving of passes, receive paths, calls of the application, stops, *)
(* crashes and failures.                                                   *)
(*                                                                         *)
(* A pass works on a copy of what it listed.  The argument needs two facts *)
(* about the copies: what a copy says about its stage stays true when the  *)
(* store has moved on, and a copy of a record of the Relay is the stored   *)
(* record, or the record is gone for good, because only the pass and       *)
(* removals write such a record.                                           *)
(***************************************************************************)
EXTENDS ReceiveQueue, InductionLemmas, TLAPS

Outcomes == {"none", "delivered", "expired", "denied", "silent"}

\* What a version of a record says stays true: later steps only add to accepted.
Sound(acc, r, rec) ==
  /\ rec \in WorkRecord
  /\ rec.stage = "receipt-due" => Origin[r] = "relay" /\ r \in acc
  /\ rec.stage = "awaiting-completion" => Origin[r] = "caller"
  /\ Origin[r] = "caller" => rec.attempts = 0

Gone(r) == work[r] = NoWork /\ done[r] # "none"

StoreInv ==
  /\ work \in [Records -> WorkRecord \cup {NoWork}]
  /\ done \in [Records -> Outcomes]
  /\ \A r \in Records : work[r] # NoWork => done[r] = "none" /\ Sound(accepted, r, work[r])

ReceiveInv ==
  /\ receive \in [Records -> [at : {"idle", "held", "decide", "release"},
                              rec : WorkRecord \cup {NoWork}]]
  /\ \A r \in Records : receive[r].at = "decide" =>
       Origin[r] = "caller" /\ receive[r].rec # NoWork /\ Sound(accepted, r, receive[r].rec)
  /\ \A r \in Records : Held(r) => starts > 0

Entries == [id : Records, rec : WorkRecord]

PassFields == {"mode", "at", "todo", "capped", "listed", "blocked", "woken", "next"}

\* A copy and the stored record.
CopyOK(w, d, acc, e) ==
  /\ Sound(acc, e.id, e.rec)
  /\ Origin[e.id] = "relay" => w[e.id] = e.rec \/ (w[e.id] = NoWork /\ d[e.id] # "none")

\* What the pass has found out of the record it works on.
HeadOK(p, acc, rep, off) ==
  LET e == p.todo[1] IN
  /\ p.at \in {"hook", "finish"} => Origin[e.id] = "relay"
  /\ p.at \in {"process", "hook", "finish"} => e.rec.stage = "decrypted"
  /\ p.at = "finish" => e.id \in acc
  /\ p.at = "expire" => e.id \in rep
  /\ p.at = "process" /\ e.rec.attempts >= Cap =>
       p.mode = "all" \/ (p.mode = "unoffered" /\ e.id \notin off)

PassType(p, run) ==
  /\ DOMAIN p = PassFields
  /\ p.mode \in {"none", "unoffered", "all"}
  /\ p.at \in {"visit", "process", "hook", "finish", "report", "expire"}
  /\ p.mode # "all" => run
  /\ p.at # "visit" => p.todo # <<>>

TodoOK(s, w, d, acc) ==
  /\ s \in Seq(Entries)
  /\ \A i \in 1 .. Len(s) : CopyOK(w, d, acc, s[i])
  /\ \A i, j \in 1 .. Len(s) : s[i].id = s[j].id => i = j

PassInv ==
  pass # NoPass =>
    /\ PassType(pass, running)
    /\ TodoOK(pass.todo, work, done, accepted)
    /\ pass.todo # <<>> => HeadOK(pass, accepted, reported, offered)

ReceiptInv ==
  inFlight \subseteq {r \in Records : Gone(r) \/ (work[r] # NoWork /\ work[r].stage = "receipt-due")}

Called == IF pass # NoPass /\ pass.mode = "all" THEN 1 ELSE 0

CountInv ==
  /\ now \in 0 .. MaxTime
  /\ {starts, made, calls, failures} \subseteq Nat
  /\ running \in BOOLEAN
  /\ backoff \in [Records -> 0 .. MaxTime + Backoff]
  /\ calls + Called <= made
  /\ running \/ calls > 0 \/ pass # NoPass => starts > 0

\* The offers of a record at the cap that are still to come without another
\* start or call: one of the pass, when a call started it, and one of this start.
InPass(r) ==
  IF /\ pass # NoPass /\ pass.mode = "all"
     /\ \E i \in 1 .. Len(pass.todo) :
          pass.todo[i].id = r /\ ~(i = 1 /\ pass.at \in {"hook", "finish"})
    THEN 1 ELSE 0

Slot(r) == IF running /\ r \notin offered THEN 1 ELSE 0

Owed(r) == calls + InPass(r) + Slot(r) - starts - made

OfferInv ==
  \A r \in Records :
    work[r] # NoWork /\ work[r].attempts >= Cap => work[r].attempts + Owed(r) <= Cap - 1

IInv ==
  /\ StoreInv
  /\ ReceiveInv
  /\ PassInv
  /\ ReceiptInv
  /\ CountInv
  /\ OfferInv
  /\ NothingLost

-----------------------------------------------------------------------------
(* The writes of the store.                                                *)

\* What a step does to the record of one envelope.
GoneAfter(r) == work'[r] = NoWork /\ done'[r] # "none"

Kept(r) == work'[r] = work[r] /\ done'[r] = done[r]

Admitted(r) ==
  /\ work[r] = NoWork /\ done[r] = "none" /\ done'[r] = "none"
  /\ work'[r].stage = "decrypted" /\ work'[r].attempts = 0

Edited(r) ==
  /\ work[r] # NoWork /\ work[r].stage # "receipt-due" /\ done'[r] = done[r]
  /\ work'[r] \in WorkRecord /\ work'[r].attempts = work[r].attempts

KeptBut(r) == \A q \in Records : q # r => Kept(q)

Grows == accepted \subseteq accepted' /\ reported \subseteq reported' /\ removed \subseteq removed'

\* What putReceiveWork() does when the new version changes neither the attempts
\* nor the stage of a record that has reached its hook.
LEMMA Puts ==
  ASSUME StoreInv, Grows, NEW r \in Records, NEW rec \in WorkRecord, NEW new \in WorkRecord,
         Sound(accepted', r, new), Put(r, rec, new), done' = done
  PROVE  /\ StoreInv' /\ KeptBut(r)
         /\ Kept(r) \/ (Current(r, rec) /\ work'[r] = [new EXCEPT !.revision = rec.revision + 1])
         /\ work[r] = NoWork => work'[r] = NoWork
<1> DEFINE n == [new EXCEPT !.revision = rec.revision + 1]
<1>1. n \in WorkRecord /\ n.stage = new.stage /\ n.attempts = new.attempts
  BY DEF WorkRecord
<1>2. Sound(accepted', r, n)
  BY <1>1 DEF Sound
<1>3. \A q \in Records : work[q] # NoWork => Sound(accepted', q, work[q])
  BY DEF StoreInv, Sound, Grows
<1>4. work' = IF Current(r, rec) THEN [work EXCEPT ![r] = n] ELSE work
  BY DEF Put
<1> HIDE DEF n
<1>5. CASE Current(r, rec)
  <2>1. \A q \in Records : work'[q] = IF q = r THEN n ELSE work[q]
    BY <1>4, <1>5 DEF StoreInv
  <2>2. work' \in [Records -> WorkRecord \cup {NoWork}]
    BY <1>1, <1>4, <1>5 DEF StoreInv
  <2>3. StoreInv'
    BY <1>2, <1>3, <1>5, <2>1, <2>2 DEF StoreInv, Current
  <2> QED BY <1>5, <2>1, <2>3 DEF KeptBut, Kept, Current, n
<1>6. CASE ~Current(r, rec)
  BY <1>3, <1>4, <1>6 DEF StoreInv, KeptBut, Kept
<1> QED BY <1>5, <1>6

\* What completeReceiveRecord() does.
LEMMA Completes ==
  ASSUME StoreInv, Grows, NEW r \in Records, NEW rec,
         NEW outcome \in Outcomes \ {"none"}, Complete(r, rec, outcome)
  PROVE  /\ StoreInv' /\ KeptBut(r)
         /\ Kept(r) \/ (GoneAfter(r) /\ done'[r] = outcome)
         /\ Current(r, rec) => GoneAfter(r)
<1>1. \A q \in Records : work[q] # NoWork => Sound(accepted', q, work[q])
  BY DEF StoreInv, Sound, Grows
<1>2. CASE Current(r, rec)
  <2>1. work' = [work EXCEPT ![r] = NoWork] /\ done' = [done EXCEPT ![r] = outcome]
    BY <1>2 DEF Complete
  <2>2. \A q \in Records : /\ work'[q] = IF q = r THEN NoWork ELSE work[q]
                           /\ done'[q] = IF q = r THEN outcome ELSE done[q]
    BY <2>1 DEF StoreInv
  <2>3. work' \in [Records -> WorkRecord \cup {NoWork}] /\ done' \in [Records -> Outcomes]
    BY <2>1 DEF StoreInv
  <2>4. StoreInv'
    BY <1>1, <2>2, <2>3 DEF StoreInv
  <2> QED BY <2>2, <2>4 DEF KeptBut, Kept, GoneAfter
<1>3. CASE ~Current(r, rec)
  BY <1>1, <1>3 DEF Complete, store, StoreInv, KeptBut, Kept
<1> QED BY <1>2, <1>3

\* A step that writes nothing to the store.
LEMMA StoreKept ==
  ASSUME StoreInv, Grows, UNCHANGED store
  PROVE  StoreInv' /\ \A q \in Records : Kept(q)
  BY DEF StoreInv, Sound, Grows, store, Kept

-----------------------------------------------------------------------------
(* Frames of the other parts.                                              *)

\* A step that leaves the receive paths alone.
LEMMA ReceiveFrame ==
  ASSUME ReceiveInv, Grows, receive' = receive, starts' = starts
  PROVE  ReceiveInv'
  BY DEF ReceiveInv, Sound, Grows, Held

\* A step that sends no receipt: a record at receipt-due stays so, or goes for good.
LEMMA ReceiptFrame ==
  ASSUME StoreInv, ReceiptInv, inFlight' \subseteq inFlight,
         \A q \in Records : Kept(q) \/ GoneAfter(q) \/ Admitted(q) \/ Edited(q)
  PROVE  ReceiptInv'
<1> SUFFICES ASSUME NEW q \in inFlight
             PROVE  /\ q \in Records
                    /\ GoneAfter(q) \/ (work'[q] # NoWork /\ work'[q].stage = "receipt-due")
  BY DEF ReceiptInv, Gone, GoneAfter
<1>1. q \in Records /\ (Gone(q) \/ (work[q] # NoWork /\ work[q].stage = "receipt-due"))
  BY DEF ReceiptInv
<1>2. CASE Kept(q)
  BY <1>1, <1>2 DEF Kept, Gone, GoneAfter
<1>3. ~Admitted(q) /\ ~Edited(q)
  BY <1>1 DEF Admitted, Edited, Gone
<1> QED BY <1>1, <1>2, <1>3

\* The parts of the account of offers are numbers.
LEMMA OwedType ==
  ASSUME NEW r
  PROVE  /\ InPass(r) \in 0 .. 1 /\ Slot(r) \in 0 .. 1
         /\ InPass(r)' \in 0 .. 1 /\ Slot(r)' \in 0 .. 1
         /\ CountInv => Owed(r) \in Int
         /\ CountInv' => Owed(r)' \in Int
<1>1. InPass(r) \in 0 .. 1 /\ Slot(r) \in 0 .. 1
  BY DEF InPass, Slot
<1>2. InPass(r)' \in 0 .. 1 /\ Slot(r)' \in 0 .. 1
  BY DEF InPass, Slot
<1> QED BY <1>1, <1>2 DEF CountInv, Owed

\* The record of q is not at the cap, or costs no offer more than before.
Unspent(q) ==
  work'[q] # NoWork =>
    \/ work'[q].attempts < Cap
    \/ (Kept(q) \/ Edited(q)) /\ Owed(q)' <= Owed(q)

\* A step that costs no offer keeps the account of offers.
LEMMA OfferFrame ==
  ASSUME StoreInv, StoreInv', CountInv, CountInv', OfferInv, \A q \in Records : Unspent(q)
  PROVE  OfferInv'
<1> SUFFICES ASSUME NEW r \in Records, work'[r] # NoWork, work'[r].attempts >= Cap
             PROVE  work'[r].attempts + Owed(r)' <= Cap - 1
  BY DEF OfferInv
<1>0. Cap \in Nat
  BY QueueAssumption
<1>1. work'[r].attempts \in Nat
  BY DEF StoreInv, WorkRecord
<1>2. (Kept(r) \/ Edited(r)) /\ Owed(r)' <= Owed(r)
  BY <1>0, <1>1 DEF Unspent
<1>3. work[r] # NoWork /\ work'[r].attempts = work[r].attempts
  BY <1>2 DEF Kept, Edited
<1>4. work[r].attempts + Owed(r) <= Cap - 1
  BY <1>3 DEF OfferInv
<1>5. Owed(r)' \in Int /\ Owed(r) \in Int
  BY OwedType
<1> HIDE DEF Owed
<1> QED BY <1>0, <1>1, <1>2, <1>3, <1>4, <1>5

\* An envelope is marked for a reason.
Reason(q) ==
  \/ done'[q] = done[q]
  \/ done'[q] = "delivered" /\ q \in accepted' \cup removed'
  \/ done'[q] = "expired" /\ q \in reported' \cup removed'
  \/ done'[q] \in {"denied", "silent"} /\ Content[q] = done'[q]

\* A step that marks envelopes only for a reason.
LEMMA LostFrame ==
  ASSUME NothingLost, Grows, \A q \in Records : Reason(q)
  PROVE  NothingLost'
<1> SUFFICES ASSUME NEW q \in Records
             PROVE  /\ done'[q] = "delivered" => q \in accepted' \cup removed'
                    /\ done'[q] = "expired" => q \in reported' \cup removed'
                    /\ done'[q] \in {"denied", "silent"} => Content[q] = done'[q]
  BY DEF NothingLost
<1>1. CASE done'[q] = done[q]
  BY <1>1 DEF NothingLost, Grows
<1>2. CASE done'[q] # done[q]
  BY <1>2 DEF Reason
<1> QED BY <1>1, <1>2

\* A step outside of the pass.  It may take from offered, never add to it.
LEMMA PassFrame ==
  ASSUME PassInv, Grows, pass' = pass, running' = running, offered' \subseteq offered,
         \A q \in Records : \/ Kept(q) \/ GoneAfter(q) \/ Admitted(q)
                            \/ Origin[q] = "caller"
  PROVE  PassInv'
<1> SUFFICES ASSUME pass # NoPass PROVE PassInv'
  BY DEF PassInv
<1>1. PassType(pass, running) /\ TodoOK(pass.todo, work, done, accepted)
  BY DEF PassInv
<1>2. ASSUME NEW e \in Entries, CopyOK(work, done, accepted, e)
      PROVE  CopyOK(work', done', accepted', e)
  <2>1. e.id \in Records /\ e.rec \in WorkRecord
    BY DEF Entries
  <2>2. Sound(accepted', e.id, e.rec)
    BY <1>2 DEF CopyOK, Sound, Grows
  <2>3. ASSUME Origin[e.id] = "relay"
        PROVE  work'[e.id] = e.rec \/ (work'[e.id] = NoWork /\ done'[e.id] # "none")
    <3>1. work[e.id] = e.rec \/ (work[e.id] = NoWork /\ done[e.id] # "none")
      BY <1>2, <2>3 DEF CopyOK
    <3>2. ~Admitted(e.id)
      BY <2>1, <3>1, QueueAssumption DEF Admitted
    <3> QED BY <2>1, <2>3, <3>1, <3>2 DEF Kept, GoneAfter
  <2> QED BY <2>2, <2>3 DEF CopyOK
<1>3. TodoOK(pass.todo, work', done', accepted')
  BY <1>1, <1>2 DEF TodoOK
<1>4. ASSUME pass.todo # <<>> PROVE HeadOK(pass, accepted', reported', offered')
  BY <1>4 DEF PassInv, HeadOK, Grows
<1> QED BY <1>1, <1>3, <1>4 DEF PassInv

\* How the pass goes on to its next record.
Advances(p) ==
  /\ DOMAIN p = PassFields
  /\ p.todo = Tail(pass.todo)
  /\ p.at = "visit"
  /\ p.mode = pass.mode

\* Both ways to go on drop the record that the pass works on.
LEMMA AdvanceShape ==
  ASSUME PassInv, pass # NoPass, NEW key, NEW wait
  PROVE  Advances(Advance(wait)) /\ Advances(AdvanceBlocking(key, wait))
<1>1. DOMAIN pass = PassFields
  BY DEF PassInv, PassType
<1>2. /\ DOMAIN Advance(wait) = PassFields /\ Advance(wait).todo = Tail(pass.todo)
      /\ Advance(wait).at = "visit" /\ Advance(wait).mode = pass.mode
  BY <1>1 DEF Advance, PassFields
<1> HIDE DEF Advance
<1>3. /\ DOMAIN AdvanceBlocking(key, wait) = PassFields
      /\ AdvanceBlocking(key, wait).todo = Tail(pass.todo)
      /\ AdvanceBlocking(key, wait).at = "visit" /\ AdvanceBlocking(key, wait).mode = pass.mode
  BY <1>2 DEF AdvanceBlocking, PassFields
<1> QED BY <1>2, <1>3 DEF Advances

\* The record that the pass works on.
LEMMA HeadFacts ==
  ASSUME PassInv, pass # NoPass, pass.todo # <<>>
  PROVE  /\ pass.todo \in Seq(Entries) /\ Len(pass.todo) \in Nat \ {0}
         /\ Head1 = pass.todo[1] /\ Head1.id \in Records /\ Head1.rec \in WorkRecord
         /\ CopyOK(work, done, accepted, Head1) /\ HeadOK(pass, accepted, reported, offered)
<1>1. pass.todo \in Seq(Entries)
  BY DEF PassInv, TodoOK
<1>2. Len(pass.todo) \in Nat \ {0} /\ Head1 = pass.todo[1]
  BY <1>1 DEF Head1
<1>3. pass.todo[1] \in Entries
  BY <1>1, <1>2
<1> QED BY <1>1, <1>2, <1>3 DEF PassInv, TodoOK, Entries

\* The rest of a sequence, by its places.
LEMMA TailFacts ==
  ASSUME NEW S, NEW s \in Seq(S), s # <<>>
  PROVE  /\ Tail(s) \in Seq(S) /\ Len(Tail(s)) = Len(s) - 1 /\ Len(s) \in Nat \ {0}
         /\ \A i \in 1 .. Len(Tail(s)) :
              i + 1 \in 1 .. Len(s) /\ i + 1 # 1 /\ Tail(s)[i] = s[i + 1]
  OBVIOUS

\* The rest of the records does not have the first one.
LEMMA TailOK ==
  ASSUME NEW s, NEW w, NEW d, NEW acc, TodoOK(s, w, d, acc), s # <<>>,
         NEW w2, NEW d2, NEW acc2, acc \subseteq acc2,
         \A q \in Records : q # s[1].id => w2[q] = w[q] /\ d2[q] = d[q]
  PROVE  /\ TodoOK(Tail(s), w2, d2, acc2)
         /\ \A i \in 1 .. Len(Tail(s)) : Tail(s)[i].id # s[1].id
<1> DEFINE t == Tail(s)
<1>1. /\ s \in Seq(Entries)
      /\ \A i \in 1 .. Len(s) : CopyOK(w, d, acc, s[i])
      /\ \A i, j \in 1 .. Len(s) : s[i].id = s[j].id => i = j
  BY DEF TodoOK
<1>2. /\ t \in Seq(Entries) /\ Len(s) \in Nat \ {0}
      /\ \A i \in 1 .. Len(t) : i + 1 \in 1 .. Len(s) /\ i + 1 # 1 /\ t[i] = s[i + 1]
  BY <1>1, TailFacts
<1> HIDE DEF t
<1>3. \A i \in 1 .. Len(t) : t[i].id # s[1].id /\ CopyOK(w, d, acc, t[i])
  <2>1. 1 \in 1 .. Len(s)
    BY <1>2
  <2>2. ASSUME NEW i \in 1 .. Len(t) PROVE t[i].id # s[1].id /\ CopyOK(w, d, acc, t[i])
    <3>1. i + 1 \in 1 .. Len(s) /\ i + 1 # 1 /\ t[i] = s[i + 1]
      BY <1>2, Zenon
    <3> QED BY <1>1, <2>1, <3>1, Zenon
  <2> QED BY <2>2, Zenon
<1>4. ASSUME NEW i \in 1 .. Len(t) PROVE CopyOK(w2, d2, acc2, t[i])
  <2>1. t[i] \in Entries
    BY <1>2
  <2>2. t[i].id \in Records
    BY <2>1 DEF Entries
  <2> QED BY <1>3, <2>2 DEF CopyOK, Sound
<1>5. ASSUME NEW i \in 1 .. Len(t), NEW j \in 1 .. Len(t), t[i].id = t[j].id PROVE i = j
  <2>1. i + 1 = j + 1
    BY <1>1, <1>2, <1>5
  <2> QED BY <2>1
<1> QED BY <1>2, <1>3, <1>4, <1>5 DEF TodoOK, t

\* The pass invariant after the pass has gone on.
LEMMA PassAdvances ==
  ASSUME PassInv, Grows, pass # NoPass, pass.todo # <<>>, Advances(pass'), running' = running,
         KeptBut(Head1.id)
  PROVE  PassInv'
<1>1. Head1 = pass.todo[1]
  BY HeadFacts
<1>2. TodoOK(pass.todo, work, done, accepted) /\ PassType(pass, running)
  BY DEF PassInv
<1>3. \A q \in Records : q # pass.todo[1].id => work'[q] = work[q] /\ done'[q] = done[q]
  BY <1>1 DEF KeptBut, Kept
<1>4. TodoOK(pass'.todo, work', done', accepted')
  BY <1>2, <1>3, TailOK DEF Advances, Grows
<1>5. PassType(pass', running') /\ HeadOK(pass', accepted', reported', offered')
  BY <1>2 DEF PassType, HeadOK, Advances
<1> QED BY <1>4, <1>5 DEF PassInv

-----------------------------------------------------------------------------
(* What a pass lists.                                                      *)

\* The order in which a pass visits the records that it lists.
AtCap(r, mode) == RetriesCap(r, work[r], mode)

VisitedBefore(q, r, mode) == IF AtCap(q, mode) = AtCap(r, mode) THEN q < r ELSE AtCap(r, mode)

\* The records of a new pass: the stored ones, each once, in the order of the visits.
LEMMA NewPassShape ==
  ASSUME StoreInv, NEW mode
  PROVE  LET p == NewPass(mode) IN
         /\ DOMAIN p = PassFields /\ p.mode = mode /\ p.at = "visit"
         /\ TodoOK(p.todo, work, done, accepted)
         /\ \A i \in 1 .. Len(p.todo) : p.todo[i].rec = work[p.todo[i].id]
         /\ \A i, j \in 1 .. Len(p.todo) :
              i < j => VisitedBefore(p.todo[i].id, p.todo[j].id, mode)
         /\ \A e \in p.listed : e.id \in Records /\ e.rec = work[e.id]
         /\ \A e \in p.listed : \E i \in 1 .. Len(p.todo) : p.todo[i] = e
         /\ p.blocked = [c \in Keys |-> Never]
<1> DEFINE stored == {r \in Records : work[r] # NoWork}
           R == {x \in stored \X stored : VisitedBefore(x[1], x[2], mode)}
           n == Cardinality(stored)
           Entry(r) == [id |-> r, rec |-> work[r]]
           Nth(i) == CHOOSE r \in stored : Cardinality({q \in stored : VisitedBefore(q, r, mode)}) = i - 1
           p == NewPass(mode)
           s == [i \in 1 .. n |-> Entry(Nth(i))]
<1>1. /\ DOMAIN p = PassFields /\ p.mode = mode /\ p.at = "visit"
      /\ p.listed = {Entry(r) : r \in stored} /\ p.blocked = [c \in Keys |-> Never]
  BY DEF NewPass, PassFields
<1>2. p.todo = s
  BY DEF NewPass, AtCap, VisitedBefore
<1>3. IsFiniteSet(stored) /\ stored \subseteq Nat /\ n \in Nat
  <2>1. stored \subseteq Records
    OBVIOUS
  <2>2. IsFiniteSet(stored)
    BY <2>1, FS_Subset, QueueAssumption
  <2> QED BY <2>1, <2>2, FS_CardinalityType, QueueAssumption
<1>4. \A q, r \in stored : <<q, r>> \in R <=> VisitedBefore(q, r, mode)
  OBVIOUS
<1>5. StrictOrder(stored, R)
  <2>1. \A r \in stored : AtCap(r, mode) \in BOOLEAN /\ r \in Nat
    BY <1>3 DEF AtCap, RetriesCap
  <2> HIDE DEF R, stored
  <2>2. \A x \in stored : ~VisitedBefore(x, x, mode)
    BY <2>1 DEF VisitedBefore
  <2>3. \A x, y, z \in stored :
          VisitedBefore(x, y, mode) /\ VisitedBefore(y, z, mode) => VisitedBefore(x, z, mode)
    BY <2>1 DEF VisitedBefore
  <2>4. \A x, y \in stored : x = y \/ VisitedBefore(x, y, mode) \/ VisitedBefore(y, x, mode)
    BY <2>1 DEF VisitedBefore
  <2> QED BY <1>4, <2>2, <2>3, <2>4 DEF StrictOrder
<1>6. \A r \in stored :
        Cardinality({q \in stored : VisitedBefore(q, r, mode)}) = Place(stored, R, r)
  <2> TAKE r \in stored
  <2>1. {q \in stored : VisitedBefore(q, r, mode)} = Below(stored, R, r)
    BY <1>4 DEF Below
  <2> QED BY <2>1 DEF Place
<1> HIDE DEF R
<1>7. ASSUME NEW i \in 1 .. n PROVE Nth(i) \in stored /\ Place(stored, R, Nth(i)) = i - 1
  <2>1. i - 1 \in 0 .. (n - 1)
    BY <1>3
  <2>2. {Place(stored, R, x) : x \in stored} = 0 .. (n - 1)
    BY <1>3, <1>5, PlaceOnto, Zenon
  <2>3. PICK x \in stored : Place(stored, R, x) = i - 1
    BY <2>1, <2>2, Zenon
  <2> HIDE DEF stored
  <2>4. \E r \in stored : Cardinality({q \in stored : VisitedBefore(q, r, mode)}) = i - 1
    BY <1>6, <2>3
  <2>5. Nth(i) \in stored
        /\ Cardinality({q \in stored : VisitedBefore(q, Nth(i), mode)}) = i - 1
    BY <2>4, Zenon
  <2> HIDE DEF Nth
  <2> QED BY <1>6, <2>5
<1> HIDE DEF Nth
<1>8. ASSUME NEW i \in 1 .. n, NEW j \in 1 .. n, i < j
      PROVE  Nth(i) # Nth(j) /\ VisitedBefore(Nth(i), Nth(j), mode)
  <2>1. Nth(i) # Nth(j)
    BY <1>3, <1>7, <1>8
  <2>2. ASSUME <<Nth(j), Nth(i)>> \in R PROVE FALSE
    <3>1. Place(stored, R, Nth(j)) < Place(stored, R, Nth(i))
      BY <1>3, <1>5, <1>7, <2>2, PlaceGrows
    <3> QED BY <1>3, <1>7, <1>8, <3>1
  <2>3. <<Nth(i), Nth(j)>> \in R
    BY <1>5, <1>7, <2>1, <2>2 DEF StrictOrder
  <2> QED BY <1>4, <1>7, <2>1, <2>3
<1>9. \A r \in stored : Entry(r) \in Entries /\ CopyOK(work, done, accepted, Entry(r))
  BY DEF StoreInv, Entries, CopyOK
<1>10. s \in Seq(Entries) /\ Len(s) = n /\ \A i \in 1 .. n : s[i] = Entry(Nth(i))
  <2>1. \A i \in 1 .. n : Entry(Nth(i)) \in Entries
    BY <1>7, <1>9
  <2> HIDE DEF Entry, n, stored
  <2>2. \A i \in 1 .. n : s[i] = Entry(Nth(i))
    OBVIOUS
  <2>3. s \in [1 .. n -> Entries]
    BY <2>1
  <2> HIDE DEF s
  <2> QED BY <1>3, <2>2, <2>3
<1>11. \A i \in 1 .. n : s[i].id = Nth(i) /\ s[i].rec = work[Nth(i)]
  BY <1>10
<1> HIDE DEF s, n
<1>12. TodoOK(s, work, done, accepted)
  <2>1. \A i \in 1 .. n : CopyOK(work, done, accepted, s[i])
    BY <1>7, <1>9, <1>10
  <2>2. \A i, j \in 1 .. n : s[i].id = s[j].id => i = j
    BY <1>3, <1>8, <1>11
  <2> QED BY <1>10, <2>1, <2>2 DEF TodoOK
<1>13. \A r \in stored : \E i \in 1 .. n : Nth(i) = r
  <2> TAKE r \in stored
  <2>1. Place(stored, R, r) \in 0 .. (n - 1)
    BY <1>3, <1>5, PlaceBounds DEF n
  <2>2. Place(stored, R, r) + 1 \in 1 .. n
    BY <1>3, <2>1
  <2>3. Place(stored, R, Nth(Place(stored, R, r) + 1)) = Place(stored, R, r)
    BY <1>7, <2>1, <2>2
  <2> QED BY <1>3, <1>5, <1>7, <2>2, <2>3, PlaceInjective
<1>14. \A e \in p.listed : /\ e.id \in Records /\ e.rec = work[e.id]
                            /\ \E i \in 1 .. n : s[i] = e
  BY <1>1, <1>10, <1>13
<1> HIDE DEF p
<1>15. \A i, j \in 1 .. n : i < j => VisitedBefore(s[i].id, s[j].id, mode)
  BY <1>8, <1>11
<1>16. \A i \in 1 .. n : s[i].rec = work[s[i].id]
  BY <1>11
<1> QED BY <1>1, <1>2, <1>10, <1>12, <1>14, <1>15, <1>16 DEF p

-----------------------------------------------------------------------------
(* The steps of a pass that go on to the next record.                      *)

\* The offers of a called pass only get fewer.
LEMMA InPassAdvances ==
  ASSUME PassInv, pass # NoPass, pass.todo # <<>>, Advances(pass'), NEW q \in Records
  PROVE  InPass(q)' <= InPass(q)
<1>1. /\ pass.todo \in Seq(Entries) /\ Len(pass.todo) \in Nat \ {0} /\ Head1 = pass.todo[1]
  BY HeadFacts
<1> DEFINE s == pass.todo
           t == pass'.todo
<1>2. \A i \in 1 .. Len(t) : i + 1 \in 1 .. Len(s) /\ i + 1 # 1 /\ t[i] = s[i + 1]
  BY <1>1, TailFacts DEF Advances
<1>3. InPass(q) \in 0 .. 1 /\ InPass(q)' \in 0 .. 1
  BY OwedType
<1>4. SUFFICES ASSUME InPass(q)' = 1 PROVE InPass(q) = 1
  <2> HIDE DEF InPass
  <2> QED BY <1>3
<1>5. PICK i \in 1 .. Len(t) : t[i].id = q
  BY <1>4 DEF InPass
<1>6. pass.mode = "all"
  BY <1>4 DEF InPass, Advances
<1>7. i + 1 \in 1 .. Len(s) /\ s[i + 1].id = q /\ i + 1 # 1
  BY <1>2, <1>5
<1> QED BY <1>6, <1>7 DEF InPass

\* What a step of the pass changes besides the record it works on.
LEMMA AdvancingStep ==
  ASSUME IInv, pass # NoPass, pass.todo # <<>>, PassOnly, Grows, Advances(pass'),
         StoreInv', KeptBut(Head1.id), ReceiptInv',
         Kept(Head1.id) \/ GoneAfter(Head1.id) \/ Edited(Head1.id)
           \/ work'[Head1.id].attempts < Cap,
         Reason(Head1.id),
         backoff' \in [Records -> 0 .. MaxTime + Backoff], failures' \in Nat,
         \A q \in Records : q \in offered \ offered' => q = Head1.id,
         Head1.id \in offered' \/ Head1.id \notin offered
           \/ work'[Head1.id] = NoWork \/ Origin[Head1.id] = "caller"
  PROVE  IInv'
<1> DEFINE h == Head1.id
<1>0. /\ receive' = receive /\ starts' = starts /\ made' = made /\ calls' = calls
      /\ running' = running /\ now' = now
  BY DEF PassOnly, timers
<1>1. /\ StoreInv /\ ReceiveInv /\ PassInv /\ ReceiptInv /\ CountInv /\ OfferInv /\ NothingLost
  BY DEF IInv
<1>2. h \in Records
  BY <1>1, HeadFacts
<1>3. ReceiveInv'
  BY <1>0, <1>1, ReceiveFrame
<1>4. PassInv'
  BY <1>0, <1>1, PassAdvances
<1>5. CountInv'
  <2>1. Called' <= Called /\ Called \in 0 .. 1 /\ Called' \in 0 .. 1
    BY DEF Called, Advances
  <2> HIDE DEF Called
  <2> QED BY <1>0, <1>1, <2>1 DEF CountInv
<1>6. ASSUME NEW q \in Records PROVE Unspent(q)
  <2>1. CASE q = h /\ work'[h] # NoWork /\ Origin[h] = "caller"
    <3>1. work'[h].attempts = 0
      BY <1>2, <2>1 DEF StoreInv, Sound
    <3> QED BY <2>1, <3>1, QueueAssumption DEF Unspent
  <2>2. CASE q \in offered => q \in offered'
    <3>1. Slot(q)' <= Slot(q)
      BY <1>0, <2>2 DEF Slot
    <3>2. InPass(q)' <= InPass(q)
      BY <1>1, InPassAdvances
    <3>3. /\ InPass(q) \in 0 .. 1 /\ Slot(q) \in 0 .. 1
          /\ InPass(q)' \in 0 .. 1 /\ Slot(q)' \in 0 .. 1
      BY OwedType
    <3>4. calls \in Nat /\ starts \in Nat /\ made \in Nat
      BY <1>1 DEF CountInv
    <3>5. Owed(q)' <= Owed(q)
      <4> HIDE DEF Slot, InPass
      <4> QED BY <1>0, <3>1, <3>2, <3>3, <3>4 DEF Owed
    <3>6. q # h => Kept(q)
      BY DEF KeptBut
    <3> HIDE DEF Owed
    <3> QED BY <3>5, <3>6 DEF Unspent, GoneAfter
  <2>3. CASE q = h /\ work'[h] = NoWork
    BY <2>3 DEF Unspent
  <2> QED BY <2>1, <2>2, <2>3
<1>7. OfferInv'
  BY <1>1, <1>5, <1>6, OfferFrame
<1>8. NothingLost'
  <2>1. \A q \in Records : Reason(q)
    BY DEF KeptBut, Kept, Reason
  <2> QED BY <1>1, <2>1, LostFrame
<1> QED BY <1>3, <1>4, <1>5, <1>7, <1>8 DEF IInv

\* The pass is at a record.
AtRecord == pass # NoPass /\ pass.todo # <<>>

\* A write of the pass on the record that it works on.
LEMMA HeadPuts ==
  ASSUME IInv, AtRecord, Grows, NEW new \in WorkRecord,
         new.attempts = Head1.rec.attempts, Sound(accepted', Head1.id, new),
         Head1.rec.stage # "receipt-due", Put(Head1.id, Head1.rec, new), done' = done
  PROVE  /\ StoreInv' /\ KeptBut(Head1.id) /\ Reason(Head1.id)
         /\ Kept(Head1.id) \/ Edited(Head1.id)
         /\ inFlight' \subseteq inFlight => ReceiptInv'
<1> DEFINE h == Head1.id
           rec == Head1.rec
<1>1. StoreInv /\ PassInv /\ ReceiptInv
  BY DEF IInv
<1>2. /\ h \in Records /\ rec \in WorkRecord /\ CopyOK(work, done, accepted, Head1)
  BY <1>1, HeadFacts DEF AtRecord
<1>3. Origin[h] \in {"relay", "caller"}
  BY <1>2, QueueAssumption
<1> HIDE DEF h, rec
<1>4. /\ StoreInv' /\ KeptBut(h)
      /\ Kept(h) \/ (Current(h, rec) /\ work'[h] = [new EXCEPT !.revision = rec.revision + 1])
  BY <1>1, <1>2, Puts DEF h, rec
<1>5. ASSUME ~Kept(h) PROVE Edited(h)
  <2>1. Current(h, rec) /\ work'[h] = [new EXCEPT !.revision = rec.revision + 1]
    BY <1>4, <1>5
  <2>2. /\ [new EXCEPT !.revision = rec.revision + 1] \in WorkRecord
        /\ [new EXCEPT !.revision = rec.revision + 1].attempts = rec.attempts
    BY <1>2 DEF WorkRecord, rec
  <2>3. work[h] # NoWork /\ Sound(accepted, h, work[h])
    BY <1>1, <1>2, <2>1 DEF Current, StoreInv
  <2>4. work[h].stage # "receipt-due" /\ work[h].attempts = rec.attempts
    <3>1. CASE Origin[h] = "relay"
      BY <1>2, <2>3, <3>1 DEF CopyOK, h, rec
    <3>2. CASE Origin[h] = "caller"
      BY <1>2, <2>3, <3>2 DEF CopyOK, Sound, h, rec
    <3> QED BY <1>3, <3>1, <3>2
  <2> QED BY <2>1, <2>2, <2>3, <2>4 DEF Edited
<1>6. \A q \in Records : Kept(q) \/ Edited(q)
  BY <1>4, <1>5 DEF KeptBut
<1>7. inFlight' \subseteq inFlight => ReceiptInv'
  BY <1>1, <1>6, ReceiptFrame
<1> QED BY <1>4, <1>5, <1>7 DEF h, Reason

\* A completion by the pass: a record of the Relay is gone after it.
LEMMA HeadCompletes ==
  ASSUME IInv, AtRecord, Grows, NEW outcome \in Outcomes \ {"none"},
         Complete(Head1.id, Head1.rec, outcome)
  PROVE  /\ StoreInv' /\ KeptBut(Head1.id)
         /\ Kept(Head1.id) \/ GoneAfter(Head1.id)
         /\ work'[Head1.id] = NoWork \/ Origin[Head1.id] = "caller"
         /\ done'[Head1.id] = done[Head1.id] \/ done'[Head1.id] = outcome
         /\ inFlight' \subseteq inFlight => ReceiptInv'
<1> DEFINE h == Head1.id
           rec == Head1.rec
<1>1. StoreInv /\ PassInv /\ ReceiptInv
  BY DEF IInv
<1>2. /\ h \in Records /\ rec \in WorkRecord /\ CopyOK(work, done, accepted, Head1)
  BY <1>1, HeadFacts DEF AtRecord
<1>3. Origin[h] \in {"relay", "caller"}
  BY <1>2, QueueAssumption
<1> HIDE DEF h, rec
<1>4. /\ StoreInv' /\ KeptBut(h)
      /\ Kept(h) \/ (GoneAfter(h) /\ done'[h] = outcome)
      /\ Current(h, rec) => GoneAfter(h)
  BY <1>1, <1>2, Completes DEF h, rec
<1>5. ASSUME Origin[h] = "relay" PROVE work'[h] = NoWork
  <2>1. CASE work[h] = NoWork
    BY <1>4, <2>1 DEF Kept, GoneAfter
  <2>2. CASE work[h] # NoWork
    <3>1. Current(h, rec)
      BY <1>2, <1>5, <2>2 DEF CopyOK, Current, h, rec
    <3> QED BY <1>4, <3>1 DEF GoneAfter
  <2> QED BY <2>1, <2>2
<1>6. \A q \in Records : Kept(q) \/ GoneAfter(q)
  BY <1>4 DEF KeptBut
<1>7. inFlight' \subseteq inFlight => ReceiptInv'
  BY <1>1, <1>6, ReceiptFrame
<1> QED BY <1>3, <1>4, <1>5, <1>7 DEF h, Kept

\* A step of the pass that writes nothing to the store.
LEMMA HeadKept ==
  ASSUME IInv, AtRecord, Grows, UNCHANGED store
  PROVE  /\ StoreInv' /\ KeptBut(Head1.id) /\ Kept(Head1.id) /\ Reason(Head1.id)
         /\ inFlight' \subseteq inFlight => ReceiptInv'
<1>1. StoreInv /\ PassInv /\ ReceiptInv
  BY DEF IInv
<1>2. Head1.id \in Records
  BY <1>1, HeadFacts DEF AtRecord
<1>3. StoreInv' /\ \A q \in Records : Kept(q)
  BY <1>1, StoreKept
<1>4. inFlight' \subseteq inFlight => ReceiptInv'
  BY <1>1, <1>3, ReceiptFrame
<1> QED BY <1>2, <1>3, <1>4 DEF KeptBut, Kept, Reason

\* What forget() leaves of the retry times and of the offers made.
LEMMA Forgets ==
  ASSUME IInv, NEW r \in Records, Forget(r)
  PROVE  /\ backoff' \in [Records -> 0 .. MaxTime + Backoff]
         /\ \A q \in Records : q \in offered \ offered' => q = r
         /\ offered' \subseteq offered
  BY QueueAssumption DEF IInv, CountInv, Forget

\* Setting the retry time of a record keeps the type of the map.
LEMMA BackoffType ==
  ASSUME IInv, NEW r \in Records
  PROVE  /\ [backoff EXCEPT ![r] = now + Backoff] \in [Records -> 0 .. MaxTime + Backoff]
         /\ [backoff EXCEPT ![r] = 0] \in [Records -> 0 .. MaxTime + Backoff]
         /\ backoff \in [Records -> 0 .. MaxTime + Backoff] /\ failures \in Nat
  BY QueueAssumption DEF IInv, CountInv

\* A record that the pass leaves where it is.
LEMMA SkipStep ==
  ASSUME IInv, AtRecord, SkipRecord, PassOnly
  PROVE  IInv'
<1> DEFINE h == Head1.id
           rec == Head1.rec
           new == [rec EXCEPT !.blocked = TRUE]
<1>1. /\ done' = done /\ backoff' = backoff /\ offered' = offered /\ inFlight' = inFlight
      /\ failures' = failures /\ Grows
  BY DEF SkipRecord, PassOnly, memory, Grows
<1>2. h \in Records /\ rec \in WorkRecord /\ CopyOK(work, done, accepted, Head1) /\ PassInv
  BY HeadFacts DEF IInv, AtRecord
<1>3. Advances(pass')
  BY <1>2, AdvanceShape DEF SkipRecord, AtRecord
<1>4. /\ StoreInv' /\ KeptBut(h) /\ Reason(h) /\ (Kept(h) \/ Edited(h)) /\ ReceiptInv'
  <2>1. CASE UNCHANGED work
    <3>1. UNCHANGED store
      BY <1>1, <2>1 DEF store
    <3> QED BY <1>1, <3>1, HeadKept
  <2>2. CASE Put(h, rec, new) /\ Verdict(h, rec) = "behind"
    <3>1. rec.stage # "receipt-due"
      BY <2>2 DEF Verdict
    <3>2. new \in WorkRecord /\ new.attempts = rec.attempts /\ Sound(accepted', h, new)
      BY <1>2, <1>1 DEF WorkRecord, Sound, CopyOK, Grows
    <3> HIDE DEF new
    <3> QED BY <1>1, <2>2, <3>1, <3>2, HeadPuts
  <2> QED BY <2>1, <2>2 DEF SkipRecord
<1> QED BY <1>1, <1>2, <1>3, <1>4, BackoffType, AdvancingStep DEF AtRecord

\* The steps that stay at the record, and change neither the store nor offered.
LEMMA StayingStep ==
  ASSUME IInv, AtRecord, PassOnly, Grows, UNCHANGED store, UNCHANGED memory, failures' = failures,
         NEW at \in {"process", "hook", "finish", "report", "expire"}, pass' = [pass EXCEPT !.at = at],
         pass.at \in {"hook", "finish"} => at \in {"hook", "finish"},
         HeadOK([pass EXCEPT !.at = at], accepted', reported', offered)
  PROVE  IInv'
<1>0. /\ receive' = receive /\ starts' = starts /\ made' = made /\ calls' = calls
      /\ running' = running /\ now' = now /\ offered' = offered /\ inFlight' = inFlight
      /\ backoff' = backoff /\ done' = done
  BY DEF PassOnly, timers, memory, store
<1>1. /\ StoreInv /\ ReceiveInv /\ PassInv /\ ReceiptInv /\ CountInv /\ OfferInv /\ NothingLost
  BY DEF IInv
<1>2. StoreInv' /\ \A q \in Records : Kept(q)
  BY <1>1, StoreKept
<1>3. ReceiveInv'
  BY <1>0, <1>1, ReceiveFrame
<1>4. /\ DOMAIN pass' = PassFields /\ pass'.todo = pass.todo /\ pass'.mode = pass.mode
      /\ pass'.at = at
  BY <1>1 DEF PassInv, PassType, PassFields, AtRecord
<1>5. PassInv'
  <2>1. PassType(pass', running')
    BY <1>0, <1>1, <1>4 DEF PassInv, PassType, AtRecord
  <2>2. TodoOK(pass'.todo, work', done', accepted')
    <3>1. TodoOK(pass.todo, work, done, accepted)
      BY <1>1 DEF PassInv, AtRecord
    <3>2. work' = work
      BY DEF store
    <3> QED BY <1>0, <1>4, <3>1, <3>2 DEF TodoOK, CopyOK, Sound, Grows
  <2> QED BY <1>0, <2>1, <2>2 DEF PassInv
<1>6. ReceiptInv'
  BY <1>0, <1>1, <1>2, ReceiptFrame
<1>7. CountInv'
  <2>1. Called' <= Called /\ Called \in 0 .. 1 /\ Called' \in 0 .. 1
    BY <1>4 DEF Called, AtRecord
  <2>2. starts > 0
    BY <1>1 DEF CountInv, AtRecord
  <2> HIDE DEF Called
  <2> QED BY <1>0, <1>1, <2>1, <2>2 DEF CountInv
<1>8. ASSUME NEW q \in Records PROVE Unspent(q)
  <2>1. Slot(q)' = Slot(q)
    BY <1>0 DEF Slot
  <2>2. InPass(q)' <= InPass(q)
    BY <1>4 DEF InPass, AtRecord
  <2>3. InPass(q) \in 0 .. 1 /\ Slot(q) \in 0 .. 1 /\ InPass(q)' \in 0 .. 1
    BY OwedType
  <2>4. calls \in Nat /\ starts \in Nat /\ made \in Nat
    BY <1>1 DEF CountInv
  <2>5. Owed(q)' <= Owed(q)
    <3> HIDE DEF Slot, InPass
    <3> QED BY <1>0, <2>1, <2>2, <2>3, <2>4 DEF Owed
  <2> HIDE DEF Owed
  <2> QED BY <1>2, <2>5 DEF Unspent
<1>9. OfferInv'
  BY <1>1, <1>2, <1>7, <1>8, OfferFrame
<1>10. NothingLost'
  BY <1>0, <1>1, LostFrame DEF Reason
<1> QED BY <1>2, <1>3, <1>5, <1>6, <1>7, <1>9, <1>10 DEF IInv

\* A completion of the record that the pass works on, and the next record.
LEMMA CompletingStep ==
  ASSUME IInv, AtRecord, PassOnly, Grows, NEW outcome \in Outcomes \ {"none"},
         Complete(Head1.id, Head1.rec, outcome), Forget(Head1.id), inFlight' = inFlight,
         Advances(pass'), failures' = failures,
         \/ outcome = "delivered" /\ Head1.id \in accepted
         \/ outcome = "expired" /\ Head1.id \in reported
         \/ outcome \in {"denied", "silent"} /\ Content[Head1.id] = outcome
  PROVE  IInv'
<1> DEFINE h == Head1.id
<1>1. h \in Records
  BY HeadFacts DEF IInv, AtRecord
<1>2. /\ StoreInv' /\ KeptBut(h) /\ (Kept(h) \/ GoneAfter(h)) /\ ReceiptInv'
      /\ work'[h] = NoWork \/ Origin[h] = "caller"
      /\ done'[h] = done[h] \/ done'[h] = outcome
  BY HeadCompletes
<1>3. Reason(h)
  BY <1>2 DEF Reason, Grows
<1>4. /\ backoff' \in [Records -> 0 .. MaxTime + Backoff] /\ failures' \in Nat
      /\ \A q \in Records : q \in offered \ offered' => q = h
  BY <1>1, Forgets, BackoffType
<1> QED BY <1>2, <1>3, <1>4, AdvancingStep DEF AtRecord

\* step(), up to its first await.
LEMMA VisitStep == IInv /\ Visit => IInv'
<1> SUFFICES ASSUME IInv, Visit PROVE IInv'
  OBVIOUS
<1> DEFINE h == Head1.id
           rec == Head1.rec
<1>0. AtRecord /\ PassOnly /\ pass.at = "visit" /\ removed' = removed
  BY DEF Visit, AtRecord, PassOnly
<1>1. /\ h \in Records /\ rec \in WorkRecord /\ CopyOK(work, done, accepted, Head1) /\ PassInv
      /\ Head1 = pass.todo[1]
  BY <1>0, HeadFacts DEF IInv, AtRecord
<1>2. \A key, wait : Advances(Advance(wait)) /\ Advances(AdvanceBlocking(key, wait))
  BY <1>0, <1>1, AdvanceShape DEF AtRecord
<1>3. DOMAIN pass = PassFields
  BY <1>0, <1>1 DEF PassInv, PassType, AtRecord
<1>4. CASE SkipRecord
  BY <1>0, <1>4, SkipStep
<1>5. CASE SendReceipt
  <2>1. /\ UNCHANGED store /\ backoff' = backoff /\ offered' = offered /\ failures' = failures
        /\ Grows /\ Verdict(h, rec) = "receipt" /\ inFlight' \subseteq inFlight \cup {h}
    BY <1>0, <1>5 DEF SendReceipt, Grows
  <2>2. Advances(pass')
    BY <1>2, <1>5 DEF SendReceipt
  <2>3. StoreInv' /\ KeptBut(h) /\ Kept(h) /\ Reason(h)
    BY <1>0, <2>1, HeadKept
  <2>4. ReceiptInv'
    <3>1. rec.stage = "receipt-due"
      BY <2>1 DEF Verdict
    <3>2. Origin[h] = "relay" /\ (work[h] = rec \/ (work[h] = NoWork /\ done[h] # "none"))
      BY <1>1, <3>1 DEF CopyOK, Sound
    <3>3. work' = work /\ done' = done
      BY <2>1 DEF store
    <3>4. Gone(h) \/ (work[h] # NoWork /\ work[h].stage = "receipt-due")
      BY <1>1, <3>1, <3>2, QueueAssumption DEF Gone
    <3> QED BY <1>1, <2>1, <3>3, <3>4 DEF ReceiptInv, Gone, IInv
  <2> QED BY <1>0, <2>1, <2>2, <2>3, <2>4, BackoffType, <1>1, AdvancingStep DEF AtRecord
<1>6. CASE EndReceipt
  <2>1. /\ Complete(h, rec, "delivered") /\ Forget(h) /\ inFlight' = inFlight
        /\ failures' = failures /\ Grows /\ rec.stage = "receipt-due"
    BY <1>0, <1>6 DEF EndReceipt, Grows
  <2>2. Advances(pass')
    BY <1>2, <1>6 DEF EndReceipt
  <2>3. h \in accepted /\ "delivered" \in Outcomes \ {"none"}
    BY <1>1, <2>1 DEF CopyOK, Sound, Outcomes
  <2> QED BY <1>0, <2>1, <2>2, <2>3, CompletingStep
<1>7. CASE ReadExpired /\ Current(h, rec)
  <2>1. /\ pass' = [pass EXCEPT !.at = "report"] /\ UNCHANGED store /\ UNCHANGED memory
        /\ failures' = failures /\ accepted' = accepted /\ reported' = reported
    BY <1>7 DEF ReadExpired
  <2>2. HeadOK([pass EXCEPT !.at = "report"], accepted', reported', offered)
    BY <1>1, <1>3, <2>1 DEF HeadOK, PassFields
  <2>3. Grows
    BY <1>0, <2>1 DEF Grows
  <2> QED BY <1>0, <2>1, <2>2, <2>3, StayingStep
<1>8. CASE ReadExpired /\ ~Current(h, rec)
  <2>1. /\ UNCHANGED store /\ Forget(h) /\ inFlight' = inFlight /\ failures' = failures
        /\ Grows /\ Advances(pass')
    BY <1>0, <1>2, <1>8 DEF ReadExpired, Grows
  <2>2. StoreInv' /\ KeptBut(h) /\ Kept(h) /\ Reason(h) /\ ReceiptInv'
    BY <1>0, <2>1, HeadKept
  <2>3. work'[h] = NoWork \/ Origin[h] = "caller"
    <3>1. Origin[h] \in {"relay", "caller"}
      BY <1>1, QueueAssumption
    <3> QED BY <1>1, <1>8, <2>2, <3>1 DEF CopyOK, Current, Kept
  <2>4. /\ backoff' \in [Records -> 0 .. MaxTime + Backoff] /\ failures' \in Nat
        /\ \A q \in Records : q \in offered \ offered' => q = h
    BY <1>1, <2>1, Forgets, BackoffType
  <2> QED BY <1>0, <2>1, <2>2, <2>3, <2>4, AdvancingStep DEF AtRecord
<1>9. CASE TakeRecord
  <2>1. /\ pass' = [pass EXCEPT !.at = "process"] /\ Verdict(h, rec) = "process"
        /\ UNCHANGED store /\ UNCHANGED memory /\ failures' = failures
        /\ accepted' = accepted /\ reported' = reported
    BY <1>9 DEF TakeRecord
  <2>2. rec.stage = "decrypted" /\ ~(rec.attempts >= Cap /\ ~RetriesCap(h, rec, pass.mode))
    BY <1>1, <2>1 DEF Verdict, WorkRecord, Stages
  <2>3. HeadOK([pass EXCEPT !.at = "process"], accepted', reported', offered)
    BY <1>1, <1>3, <2>2 DEF HeadOK, PassFields, RetriesCap
  <2>4. Grows
    BY <1>0, <2>1 DEF Grows
  <2> QED BY <1>0, <2>1, <2>3, <2>4, StayingStep
<1> QED BY <1>4, <1>5, <1>6, <1>7, <1>8, <1>9 DEF Visit

-----------------------------------------------------------------------------
(* The steps after the visit of a record.                                  *)

\* A pass at a record.
LEMMA BusyFacts ==
  ASSUME IInv, pass # NoPass, pass.at # "visit" \/ pass.todo # <<>>
  PROVE  /\ AtRecord /\ PassInv /\ DOMAIN pass = PassFields
         /\ Head1.id \in Records /\ Head1.rec \in WorkRecord /\ Head1 = pass.todo[1]
         /\ CopyOK(work, done, accepted, Head1) /\ HeadOK(pass, accepted, reported, offered)
         /\ \A key, wait : Advances(Advance(wait)) /\ Advances(AdvanceBlocking(key, wait))
<1>1. AtRecord /\ PassInv /\ DOMAIN pass = PassFields
  BY DEF IInv, PassInv, PassType, AtRecord
<1>2. \A key, wait : Advances(Advance(wait)) /\ Advances(AdvanceBlocking(key, wait))
  BY <1>1, AdvanceShape
<1> QED BY <1>1, <1>2, HeadFacts DEF AtRecord

\* expireReceiveWork() after its read: the report.
LEMMA ReportStep == IInv /\ ReportExpired => IInv'
<1> SUFFICES ASSUME IInv, ReportExpired PROVE IInv'
  OBVIOUS
<1>1. /\ pass # NoPass /\ pass.at = "report" /\ reported' = reported \cup {Head1.id}
      /\ pass' = [pass EXCEPT !.at = "expire"] /\ UNCHANGED store /\ UNCHANGED memory
      /\ failures' = failures /\ accepted' = accepted /\ PassOnly
  BY DEF ReportExpired
<1>2. AtRecord /\ DOMAIN pass = PassFields /\ Head1 = pass.todo[1]
  BY <1>1, BusyFacts
<1>3. HeadOK([pass EXCEPT !.at = "expire"], accepted', reported', offered)
  BY <1>1, <1>2 DEF HeadOK, PassFields
<1>4. Grows
  BY <1>1 DEF Grows, PassOnly
<1> QED BY <1>1, <1>2, <1>3, <1>4, StayingStep

\* expireReceiveWork() after its report.
LEMMA ExpireStep == IInv /\ Expire => IInv'
<1> SUFFICES ASSUME IInv, Expire PROVE IInv'
  OBVIOUS
<1>1. /\ pass # NoPass /\ pass.at = "expire" /\ Complete(Head1.id, Head1.rec, "expired")
      /\ Forget(Head1.id) /\ inFlight' = inFlight /\ failures' = failures /\ PassOnly /\ Grows
      /\ pass' = Advance(Never)
  BY DEF Expire, Grows, PassOnly
<1>2. AtRecord /\ Advances(pass') /\ Head1.id \in reported
  BY <1>1, BusyFacts DEF HeadOK
<1>3. "expired" \in Outcomes \ {"none"}
  BY DEF Outcomes
<1> QED BY <1>1, <1>2, <1>3, CompletingStep

\* processRecord() of content that the queue consumes.
LEMMA ConsumeStep == IInv /\ Consume => IInv'
<1> SUFFICES ASSUME IInv, Consume PROVE IInv'
  OBVIOUS
<1> DEFINE o == Content[Head1.id]
<1>1. /\ pass # NoPass /\ pass.at = "process" /\ Complete(Head1.id, Head1.rec, o)
      /\ o \in {"denied", "silent"}
      /\ Forget(Head1.id) /\ inFlight' = inFlight /\ failures' = failures /\ PassOnly /\ Grows
      /\ pass' = Advance(Never)
  BY DEF Consume, Processing, Grows, PassOnly
<1>2. AtRecord /\ Advances(pass')
  BY <1>1, BusyFacts
<1>3. o \in Outcomes \ {"none"}
  BY <1>1 DEF Outcomes
<1> HIDE DEF o
<1>4. Content[Head1.id] = o
  BY DEF o
<1> QED BY <1>1, <1>2, <1>3, <1>4, CompletingStep

\* The versions that blockReceiveWork() and awaitReceiveCompletion() write.
LEMMA NewVersions ==
  ASSUME CountInv, NEW r \in Records, NEW rec \in WorkRecord
  PROVE  /\ Blocked(r, rec) \in WorkRecord /\ Blocked(r, rec).stage = rec.stage
         /\ Blocked(r, rec).attempts = rec.attempts
         /\ Awaiting(r, rec) \in WorkRecord /\ Awaiting(r, rec).stage = "awaiting-completion"
         /\ Awaiting(r, rec).attempts = rec.attempts
         /\ NewWork(r) \in WorkRecord /\ NewWork(r).stage = "decrypted"
         /\ NewWork(r).attempts = 0
<1>1. now \in Nat /\ Backoff \in Nat /\ MaxAge \in Nat /\ Conversation[r] \in Keys
  BY QueueAssumption DEF CountInv
<1>2. rec.receivedAt \in Nat /\ rec.group \in Keys \cup {NoGroup}
  BY DEF WorkRecord
<1>3. ExpiresAt(rec) \in Nat
  BY <1>1, <1>2 DEF ExpiresAt
<1> HIDE DEF Keys
<1>4. MinOf(now + Backoff, ExpiresAt(rec)) \in Nat
  BY <1>1, <1>3 DEF MinOf
<1>5. /\ Blocked(r, rec) \in WorkRecord /\ Blocked(r, rec).stage = rec.stage
      /\ Blocked(r, rec).attempts = rec.attempts
  BY <1>1, <1>4 DEF Blocked, WorkRecord
<1>6. /\ Awaiting(r, rec) \in WorkRecord /\ Awaiting(r, rec).stage = "awaiting-completion"
      /\ Awaiting(r, rec).attempts = rec.attempts
  BY <1>1, <1>2, <1>3 DEF Awaiting, WorkRecord, Stages
<1>7. /\ NewWork(r) \in WorkRecord /\ NewWork(r).stage = "decrypted"
      /\ NewWork(r).attempts = 0
  BY <1>1 DEF NewWork, WorkRecord, Stages
<1> QED BY <1>5, <1>6, <1>7

\* processRecord() of a conversation that is held back, or of a group that waits.
LEMMA WaitStep == IInv /\ WaitRestored => IInv'
<1> SUFFICES ASSUME IInv, WaitRestored PROVE IInv'
  OBVIOUS
<1> DEFINE h == Head1.id
           rec == Head1.rec
<1>1. /\ pass # NoPass /\ pass.at = "process" /\ PassOnly /\ Grows
      /\ done' = done /\ backoff' = backoff /\ offered' = offered /\ inFlight' = inFlight
      /\ failures' = failures
  BY DEF WaitRestored, Delivering, Processing, Grows, PassOnly
<1>2. /\ AtRecord /\ h \in Records /\ rec \in WorkRecord /\ rec.stage = "decrypted"
      /\ Sound(accepted, h, rec)
      /\ \A key, wait : Advances(Advance(wait)) /\ Advances(AdvanceBlocking(key, wait))
  BY <1>1, BusyFacts DEF HeadOK, CopyOK
<1>3. Advances(pass')
  BY <1>2 DEF WaitRestored
<1>4. ASSUME NEW new \in WorkRecord, new.stage = rec.stage, new.attempts = rec.attempts,
             Put(h, rec, new)
      PROVE  StoreInv' /\ KeptBut(h) /\ Reason(h) /\ (Kept(h) \/ Edited(h)) /\ ReceiptInv'
  <2>1. Sound(accepted', h, new)
    BY <1>1, <1>2, <1>4 DEF Sound, Grows
  <2> QED BY <1>1, <1>2, <1>4, <2>1, HeadPuts
<1>5. StoreInv' /\ KeptBut(h) /\ Reason(h) /\ (Kept(h) \/ Edited(h)) /\ ReceiptInv'
  <2>1. CASE UNCHANGED work
    <3>1. UNCHANGED store
      BY <1>1, <2>1 DEF store
    <3> QED BY <1>1, <1>2, <3>1, HeadKept
  <2>2. CASE Put(h, rec, [rec EXCEPT !.blocked = TRUE, !.group = Conversation[h]])
    <3>0. Conversation[h] \in Keys \cup {NoGroup}
      BY <1>2, QueueAssumption
    <3> HIDE DEF Keys
    <3>1. LET new == [rec EXCEPT !.blocked = TRUE, !.group = Conversation[h]] IN
          new \in WorkRecord /\ new.stage = rec.stage /\ new.attempts = rec.attempts
      BY <1>2, <3>0 DEF WorkRecord
    <3> QED BY <1>4, <2>2, <3>1
  <2>3. CASE Put(h, rec, Blocked(h, rec))
    <3>1. /\ Blocked(h, rec) \in WorkRecord /\ Blocked(h, rec).stage = rec.stage
          /\ Blocked(h, rec).attempts = rec.attempts
      BY <1>2, NewVersions DEF IInv
    <3> QED BY <1>4, <2>3, <3>1
  <2> QED BY <2>1, <2>2, <2>3 DEF WaitRestored
<1> QED BY <1>1, <1>2, <1>3, <1>5, BackoffType, AdvancingStep DEF AtRecord

\* processRecord() of a caller's content.
LEMMA HandStep == IInv /\ HandToCaller => IInv'
<1> SUFFICES ASSUME IInv, HandToCaller PROVE IInv'
  OBVIOUS
<1> DEFINE h == Head1.id
           rec == Head1.rec
           new == Awaiting(h, rec)
<1>1. /\ pass # NoPass /\ pass.at = "process" /\ PassOnly /\ Grows /\ Origin[h] = "caller"
      /\ Put(h, rec, new) /\ Forget(h) /\ done' = done /\ inFlight' = inFlight
      /\ failures' = failures /\ pass' = Advance(Never)
  BY DEF HandToCaller, Delivering, Processing, Grows, PassOnly
<1>2. /\ AtRecord /\ h \in Records /\ rec \in WorkRecord /\ rec.stage = "decrypted"
      /\ Sound(accepted, h, rec) /\ Advances(pass')
  BY <1>1, BusyFacts DEF HeadOK, CopyOK
<1>3. new \in WorkRecord /\ new.stage = "awaiting-completion" /\ new.attempts = rec.attempts
  BY <1>2, NewVersions DEF IInv
<1> HIDE DEF new
<1>4. Sound(accepted', h, new)
  BY <1>1, <1>2, <1>3 DEF Sound
<1>5. StoreInv' /\ KeptBut(h) /\ Reason(h) /\ (Kept(h) \/ Edited(h)) /\ ReceiptInv'
  BY <1>1, <1>2, <1>3, <1>4, HeadPuts
<1>6. /\ backoff' \in [Records -> 0 .. MaxTime + Backoff] /\ failures' \in Nat
      /\ \A q \in Records : q \in offered \ offered' => q = h
  BY <1>1, <1>2, Forgets, BackoffType
<1> QED BY <1>1, <1>2, <1>5, <1>6, AdvancingStep DEF AtRecord

\* The hook takes the content, rejects it or times out.
LEMMA HookStep == IInv /\ (HookAccepts \/ HookRejects) => IInv'
<1> SUFFICES ASSUME IInv, HookAccepts \/ HookRejects PROVE IInv'
  OBVIOUS
<1> DEFINE h == Head1.id
<1>1. pass # NoPass /\ pass.at = "hook" /\ PassOnly /\ UNCHANGED store /\ Grows /\ failures' = failures
  BY DEF HookAccepts, HookRejects, Grows, PassOnly
<1>2. /\ AtRecord /\ h \in Records /\ DOMAIN pass = PassFields /\ Head1 = pass.todo[1]
      /\ HeadOK(pass, accepted, reported, offered)
      /\ \A key, wait : Advances(Advance(wait)) /\ Advances(AdvanceBlocking(key, wait))
  BY <1>1, BusyFacts
<1>3. CASE HookAccepts
  <2>1. /\ pass' = [pass EXCEPT !.at = "finish"] /\ accepted' = accepted \cup {h}
        /\ UNCHANGED memory /\ reported' = reported
    BY <1>3 DEF HookAccepts
  <2>2. HeadOK([pass EXCEPT !.at = "finish"], accepted', reported', offered)
    BY <1>1, <1>2, <2>1 DEF HeadOK, PassFields
  <2> QED BY <1>1, <1>2, <2>1, <2>2, StayingStep
<1>4. CASE HookRejects
  <2>1. Advances(pass') /\ offered' = offered /\ inFlight' = inFlight
    BY <1>2, <1>4 DEF HookRejects
  <2>2. \/ backoff' = [backoff EXCEPT ![h] = now + Backoff]
        \/ backoff' = [backoff EXCEPT ![h] = 0]
    BY <1>4 DEF HookRejects
  <2>3. backoff' \in [Records -> 0 .. MaxTime + Backoff] /\ failures' \in Nat
    BY <1>1, <1>2, <2>2, BackoffType
  <2>4. StoreInv' /\ KeptBut(h) /\ Kept(h) /\ Reason(h) /\ ReceiptInv'
    BY <1>1, <1>2, <2>1, HeadKept
  <2> QED BY <1>1, <1>2, <2>1, <2>3, <2>4, AdvancingStep DEF AtRecord
<1> QED BY <1>3, <1>4

\* visit(): a read or write of the store fails.
LEMMA StepFailsStep == IInv /\ StepFails => IInv'
<1> SUFFICES ASSUME IInv, StepFails PROVE IInv'
  OBVIOUS
<1> DEFINE h == Head1.id
<1>1. /\ pass # NoPass /\ pass.todo # <<>> /\ PassOnly /\ UNCHANGED store /\ Grows
      /\ failures' = failures + 1 /\ offered' = offered /\ inFlight' = inFlight
      /\ backoff' = [backoff EXCEPT ![h] = now + Backoff]
  BY DEF StepFails, Fails, Grows, PassOnly
<1>2. /\ AtRecord /\ h \in Records
      /\ \A key, wait : Advances(Advance(wait)) /\ Advances(AdvanceBlocking(key, wait))
  BY <1>1, BusyFacts
<1>3. Advances(pass')
  BY <1>2 DEF StepFails
<1>4. backoff' \in [Records -> 0 .. MaxTime + Backoff] /\ failures' \in Nat
  BY <1>1, <1>2, BackoffType
<1>5. StoreInv' /\ KeptBut(h) /\ Kept(h) /\ Reason(h) /\ ReceiptInv'
  BY <1>1, <1>2, HeadKept
<1> QED BY <1>1, <1>2, <1>3, <1>4, <1>5, AdvancingStep DEF AtRecord

\* processRecord() after the hook: the record goes, or owes its receipt.
LEMMA FinishStep == IInv /\ Finish => IInv'
<1> SUFFICES ASSUME IInv, Finish PROVE IInv'
  OBVIOUS
<1> DEFINE h == Head1.id
           rec == Head1.rec
           new == [rec EXCEPT !.stage = "receipt-due", !.blocked = FALSE,
                              !.attempts = 0, !.dueAt = now]
<1>1. /\ pass # NoPass /\ pass.at = "finish" /\ PassOnly /\ Grows
      /\ failures' = failures /\ accepted' = accepted /\ pass' = Advance(Never)
  BY DEF Finish, Grows, PassOnly
<1>2. /\ AtRecord /\ h \in Records /\ rec \in WorkRecord /\ rec.stage = "decrypted"
      /\ h \in accepted /\ Origin[h] = "relay" /\ CopyOK(work, done, accepted, Head1)
      /\ Advances(pass')
  BY <1>1, BusyFacts DEF HeadOK
<1>3. CASE h \notin OwesReceipt
  <2>1. Complete(h, rec, "delivered") /\ Forget(h) /\ inFlight' = inFlight
    BY <1>3 DEF Finish
  <2>2. "delivered" \in Outcomes \ {"none"}
    BY DEF Outcomes
  <2> QED BY <1>1, <1>2, <2>1, <2>2, CompletingStep
<1>4. CASE h \in OwesReceipt
  <2>1. /\ Put(h, rec, new) /\ backoff' = [backoff EXCEPT ![h] = 0]
        /\ inFlight' = (IF Current(h, rec) THEN inFlight \cup {h} ELSE inFlight)
        /\ done' = done /\ offered' = offered
    BY <1>4 DEF Finish
  <2>2. now \in Nat
    BY QueueAssumption DEF IInv, CountInv
  <2>3. new \in WorkRecord /\ new.stage = "receipt-due" /\ new.attempts = 0
    BY <1>2, <2>2 DEF WorkRecord, Stages
  <2> HIDE DEF new
  <2>4. Sound(accepted', h, new)
    BY <1>1, <1>2, <2>3 DEF Sound
  <2>5. /\ StoreInv' /\ KeptBut(h)
        /\ Kept(h) \/ (Current(h, rec) /\ work'[h] = [new EXCEPT !.revision = rec.revision + 1])
    BY <1>1, <1>2, <2>1, <2>3, <2>4, Puts DEF IInv
  <2>6. LET n == [new EXCEPT !.revision = rec.revision + 1] IN
        n.attempts < Cap /\ n.stage = "receipt-due" /\ n \in WorkRecord
    BY <1>2, <2>3, QueueAssumption DEF WorkRecord
  <2>7. Current(h, rec) => work'[h] = [new EXCEPT !.revision = rec.revision + 1]
    BY <1>2, <2>1 DEF Put, IInv, StoreInv
  <2>8. ReceiptInv'
    <3>1. ASSUME NEW q \in inFlight'
          PROVE  /\ q \in Records
                 /\ GoneAfter(q) \/ (work'[q] # NoWork /\ work'[q].stage = "receipt-due")
      <4>1. CASE q = h /\ Current(h, rec)
        BY <1>2, <2>6, <2>7, <4>1, QueueAssumption
      <4>2. CASE ~(q = h /\ Current(h, rec))
        <5>1. q \in inFlight
          BY <2>1, <4>2
        <5>2. q \in Records /\ Kept(q)
          BY <2>5, <4>2, <5>1 DEF IInv, ReceiptInv, KeptBut
        <5> QED BY <5>1, <5>2 DEF Kept, IInv, ReceiptInv, Gone, GoneAfter
      <4> QED BY <4>1, <4>2
    <3> QED BY <3>1 DEF ReceiptInv, Gone, GoneAfter
  <2>9. backoff' \in [Records -> 0 .. MaxTime + Backoff] /\ failures' \in Nat
    BY <1>1, <1>2, <2>1, BackoffType
  <2>10. Reason(h)
    BY <2>1 DEF Reason
  <2> QED BY <1>1, <1>2, <2>1, <2>5, <2>6, <2>8, <2>9, <2>10, AdvancingStep DEF AtRecord
<1> QED BY <1>3, <1>4

\* processRecord() before the hook.
LEMMA CountStep == IInv /\ CountAttempt => IInv'
<1> SUFFICES ASSUME IInv, CountAttempt PROVE IInv'
  OBVIOUS
<1> DEFINE h == Head1.id
           rec == Head1.rec
           new == [rec EXCEPT !.attempts = @ + 1]
           n == [new EXCEPT !.revision = rec.revision + 1]
<1>1. /\ pass # NoPass /\ pass.at = "process" /\ PassOnly /\ Grows /\ Origin[h] = "relay"
      /\ failures' = failures /\ accepted' = accepted /\ reported' = reported
      /\ done' = done /\ backoff' = backoff /\ inFlight' = inFlight
  BY DEF CountAttempt, Delivering, Processing, Grows, PassOnly
<1>2. /\ AtRecord /\ h \in Records /\ rec \in WorkRecord /\ rec.stage = "decrypted"
      /\ CopyOK(work, done, accepted, Head1) /\ Head1 = pass.todo[1] /\ DOMAIN pass = PassFields
      /\ \A key, wait : Advances(Advance(wait)) /\ Advances(AdvanceBlocking(key, wait))
      /\ HeadOK(pass, accepted, reported, offered)
  BY <1>1, BusyFacts DEF HeadOK
<1>3. CASE UNCHANGED <<work, offered>> /\ Advances(pass')
  <2>1. UNCHANGED store
    BY <1>1, <1>3 DEF store
  <2>2. StoreInv' /\ KeptBut(h) /\ Kept(h) /\ Reason(h) /\ ReceiptInv'
    BY <1>1, <1>2, <2>1, HeadKept
  <2>3. offered' = offered /\ backoff' \in [Records -> 0 .. MaxTime + Backoff] /\ failures' \in Nat
    BY <1>1, <1>2, <1>3, BackoffType
  <2> QED BY <1>1, <1>2, <1>3, <2>2, <2>3, AdvancingStep DEF AtRecord
<1>4. CASE ~(UNCHANGED <<work, offered>> /\ Advances(pass'))
  <2>1. /\ Current(h, rec) /\ Put(h, rec, new)
        /\ offered' = (IF CountsAtCap(new.attempts) THEN offered \cup {h} ELSE offered)
        /\ pass' = [pass EXCEPT !.at = "hook",
                       !.todo[1].rec = [new EXCEPT !.revision = @ + 1]]
    BY <1>2, <1>4 DEF CountAttempt
  <2>2. /\ receive' = receive /\ starts' = starts /\ made' = made /\ calls' = calls
        /\ running' = running /\ now' = now
    BY <1>1 DEF PassOnly, timers
  <2>3. /\ StoreInv /\ ReceiveInv /\ PassInv /\ ReceiptInv /\ CountInv /\ OfferInv /\ NothingLost
    BY DEF IInv
  <2>4. rec.attempts \in Nat /\ rec.revision \in Nat /\ Cap \in Nat \ {0}
    BY <1>2, QueueAssumption DEF WorkRecord
  <2>5. /\ new \in WorkRecord /\ new.stage = "decrypted" /\ new.attempts = rec.attempts + 1
        /\ n \in WorkRecord /\ n.stage = "decrypted" /\ n.attempts = rec.attempts + 1
        /\ [new EXCEPT !.revision = @ + 1] = n
    <3>1. /\ new \in WorkRecord /\ new.stage = "decrypted" /\ new.attempts = rec.attempts + 1
          /\ new.revision = rec.revision
      <4> HIDE DEF n
      <4> QED BY <1>2, <2>4 DEF WorkRecord
    <3> HIDE DEF new
    <3>2. n \in WorkRecord /\ n.stage = "decrypted" /\ n.attempts = rec.attempts + 1
      BY <2>4, <3>1 DEF WorkRecord
    <3>3. [new EXCEPT !.revision = @ + 1] = [new EXCEPT !.revision = new.revision + 1]
      BY <3>1, SMT DEF WorkRecord
    <3> QED BY <3>1, <3>2, <3>3
  <2>6. work[h] = rec
    BY <1>1, <1>2, <2>1 DEF CopyOK, Current
  <2> DEFINE s == pass.todo
             t == [s EXCEPT ![1] = [id |-> h, rec |-> n]]
  <2>7. s \in Seq(Entries) /\ Len(s) \in Nat \ {0} /\ TodoOK(s, work, done, accepted)
    BY <1>2, <2>3, HeadFacts DEF AtRecord, PassInv
  <2>8. Sound(accepted', h, n) /\ Sound(accepted', h, new)
    BY <1>1, <2>5 DEF Sound
  <2>9. /\ DOMAIN pass' = PassFields /\ pass'.mode = pass.mode /\ pass'.at = "hook"
        /\ pass'.todo = t
    <3>1. pass' = [pass EXCEPT !.at = "hook", !.todo = [pass.todo EXCEPT ![1] = [pass.todo[1] EXCEPT !.rec = n]]]
      BY <2>1, <2>5, Zenon
    <3>2. [s[1] EXCEPT !.rec = n] = [id |-> h, rec |-> n]
      <4>1. s[1] \in Entries
        BY <2>7
      <4> HIDE DEF n
      <4> QED BY <1>2, <4>1 DEF Entries
    <3> HIDE DEF n, h
    <3>3. pass' = [pass EXCEPT !.at = "hook", !.todo = t]
      BY <3>1, <3>2
    <3> HIDE DEF t
    <3> QED BY <1>2, <3>3 DEF PassFields
  <2> HIDE DEF new, n
  <2>10. /\ StoreInv' /\ KeptBut(h) /\ work'[h] = n
    <3>1. /\ StoreInv' /\ KeptBut(h)
          /\ Kept(h) \/ (Current(h, rec) /\ work'[h] = n)
      BY <1>1, <1>2, <2>1, <2>3, <2>5, <2>8, Puts DEF n
    <3>2. work' = [work EXCEPT ![h] = n]
      BY <2>1 DEF Put, n
    <3> QED BY <1>2, <2>3, <3>1, <3>2 DEF StoreInv
  <2>11. /\ t \in Seq(Entries) /\ Len(t) = Len(s) /\ t # <<>>
         /\ t[1] = [id |-> h, rec |-> n]
         /\ \A i \in 1 .. Len(s) : (i # 1 => t[i] = s[i]) /\ t[i].id = s[i].id
    <3>1. [id |-> h, rec |-> n] \in Entries
      BY <1>2, <2>5 DEF Entries
    <3> HIDE DEF s
    <3>2. t \in Seq(Entries) /\ Len(t) = Len(s) /\ t[1] = [id |-> h, rec |-> n]
          /\ \A i \in 1 .. Len(s) : i # 1 => t[i] = s[i]
      BY <2>7, <3>1
    <3>3. h = s[1].id
      BY <1>2 DEF s
    <3> QED BY <2>7, <3>2, <3>3
  <2> HIDE DEF t
  <2>12. PassInv'
    <3>1. PassType(pass', running')
      BY <1>1, <2>2, <2>3, <2>9, <2>11 DEF PassType, PassInv
    <3>2. TodoOK(t, work', done', accepted')
      <4>1. ASSUME NEW i \in 1 .. Len(t) PROVE CopyOK(work', done', accepted', t[i])
        <5>1. CASE i = 1
          BY <2>8, <2>10, <2>11, <5>1 DEF CopyOK
        <5>2. CASE i # 1
          <6>1. t[i] = s[i] /\ i \in 1 .. Len(s) /\ 1 \in 1 .. Len(s)
            BY <2>7, <2>11, <5>2
          <6>2. CopyOK(work, done, accepted, s[i]) /\ s[i] \in Entries /\ s[i].id # s[1].id
            BY <2>7, <5>2, <6>1 DEF TodoOK
          <6>3. s[i].id \in Records /\ s[i].id # h
            BY <1>2, <6>2 DEF Entries
          <6>4. work'[s[i].id] = work[s[i].id]
            BY <2>10, <6>3 DEF KeptBut, Kept
          <6> QED BY <1>1, <6>1, <6>2, <6>4 DEF CopyOK
        <5> QED BY <5>1, <5>2
      <4>2. \A i, j \in 1 .. Len(t) : t[i].id = t[j].id => i = j
        BY <2>7, <2>11 DEF TodoOK
      <4> QED BY <2>11, <4>1, <4>2 DEF TodoOK
    <3>3. HeadOK(pass', accepted', reported', offered')
      BY <1>1, <2>5, <2>9, <2>11 DEF HeadOK
    <3> QED BY <2>9, <3>1, <3>2, <3>3 DEF PassInv
  <2>13. ReceiveInv'
    BY <1>1, <2>2, <2>3, ReceiveFrame
  <2>14. ReceiptInv'
    <3>1. h \notin inFlight
      BY <1>2, <2>3, <2>6, QueueAssumption DEF ReceiptInv, Gone
    <3> QED BY <1>1, <2>3, <2>10, <3>1 DEF ReceiptInv, KeptBut, Kept, Gone
  <2>15. CountInv'
    <3>1. Called' <= Called /\ Called \in 0 .. 1 /\ Called' \in 0 .. 1
      BY <1>1, <2>9 DEF Called
    <3>2. starts > 0
      BY <1>1, <2>3 DEF CountInv
    <3> HIDE DEF Called
    <3> QED BY <1>1, <2>2, <2>3, <3>1, <3>2 DEF CountInv
  <2>16. NothingLost'
    BY <1>1, <2>3, LostFrame DEF Reason
  <2>17. OfferInv'
    <3> SUFFICES ASSUME NEW q \in Records, work'[q] # NoWork, work'[q].attempts >= Cap
                 PROVE  work'[q].attempts + Owed(q)' <= Cap - 1
      BY DEF OfferInv
    <3>1. /\ InPass(q) \in 0 .. 1 /\ Slot(q) \in 0 .. 1
          /\ InPass(q)' \in 0 .. 1 /\ Slot(q)' \in 0 .. 1
      BY OwedType
    <3>2. /\ calls \in Nat /\ starts \in Nat /\ made \in Nat /\ starts > 0
          /\ calls + Called <= made /\ Called \in 0 .. 1
      BY <1>1, <2>3 DEF CountInv, Called
    <3>3. ASSUME NEW x \in Records, InPass(x)' = 1 PROVE InPass(x) = 1 /\ x # h
      <4>1. PICK i \in 1 .. Len(t) : t[i].id = x /\ i # 1
        BY <2>9, <3>3 DEF InPass
      <4>2. i \in 1 .. Len(s) /\ s[i].id = x /\ 1 \in 1 .. Len(s) /\ h = s[1].id
        BY <1>2, <2>7, <2>11, <4>1
      <4>3. x # h
        BY <2>7, <4>1, <4>2 DEF TodoOK
      <4>4. pass.mode = "all"
        BY <2>9, <3>3 DEF InPass
      <4> QED BY <1>1, <4>2, <4>3, <4>4 DEF InPass
    <3>4. CASE q # h
      <4>1. work'[q] = work[q]
        BY <2>10, <3>4 DEF KeptBut, Kept
      <4>2. work[q].attempts + Owed(q) <= Cap - 1 /\ work[q].attempts \in Nat
        BY <2>3, <4>1 DEF OfferInv, StoreInv, WorkRecord
      <4>3. InPass(q)' <= InPass(q)
        <5> HIDE DEF InPass
        <5> QED BY <3>1, <3>3
      <4>4. Slot(q)' <= Slot(q)
        BY <2>1, <2>2, <3>4 DEF Slot
      <4> HIDE DEF InPass, Slot
      <4> QED BY <2>2, <2>4, <3>1, <3>2, <4>1, <4>2, <4>3, <4>4 DEF Owed
    <3>5. CASE q = h
      <4>1. work'[q].attempts = rec.attempts + 1
        BY <2>5, <2>10, <3>5
      <4>2. CountsAtCap(new.attempts)
        BY <2>4, <2>5, <3>5, <4>1 DEF CountsAtCap
      <4>3. Slot(q)' = 0 /\ InPass(q)' = 0
        <5>1. Slot(q)' = 0
          BY <2>1, <3>5, <4>2 DEF Slot
        <5>2. InPass(q)' # 1
          BY <3>3, <3>5
        <5> HIDE DEF InPass
        <5> QED BY <3>1, <5>1, <5>2
      <4>4. Owed(q)' = calls - starts - made
        <5> HIDE DEF InPass, Slot
        <5> QED BY <2>2, <3>2, <4>3 DEF Owed
      <4>5. CASE rec.attempts < Cap
        <5> HIDE DEF Owed, Called
        <5> QED BY <2>4, <3>2, <4>1, <4>4, <4>5
      <4>6. CASE rec.attempts >= Cap
        <5>1. work[h].attempts + Owed(h) <= Cap - 1
          BY <1>2, <2>3, <2>6, <4>6, QueueAssumption DEF OfferInv
        <5>2. InPass(h) = 1 \/ Slot(h) = 1
          <6>1. pass.mode = "all" \/ (pass.mode = "unoffered" /\ h \notin offered)
            BY <1>1, <1>2, <4>6 DEF HeadOK
          <6>2. CASE pass.mode = "all"
            <7>1. 1 \in 1 .. Len(s) /\ s[1].id = h
              BY <1>2, <2>7
            <7> QED BY <1>1, <6>2, <7>1 DEF InPass
          <6>3. CASE pass.mode = "unoffered" /\ h \notin offered
            <7>1. running
              BY <1>1, <2>3, <6>3 DEF PassInv, PassType
            <7> QED BY <6>3, <7>1 DEF Slot
          <6> QED BY <6>1, <6>2, <6>3
        <5>3. Owed(h) = calls + InPass(h) + Slot(h) - starts - made
          BY DEF Owed
        <5> HIDE DEF Owed, InPass, Slot, Called
        <5> QED BY <2>4, <2>6, <3>1, <3>2, <3>5, <4>1, <4>4, <5>1, <5>2, <5>3
      <4> QED BY <2>4, <4>5, <4>6
    <3> QED BY <3>4, <3>5
  <2> QED BY <2>10, <2>12, <2>13, <2>14, <2>15, <2>16, <2>17 DEF IInv
<1> QED BY <1>3, <1>4

-----------------------------------------------------------------------------
(* The steps that start and end a pass, and the steps outside of it.       *)

\* A step that leaves the store alone and costs no offer.
LEMMA QuietStep ==
  ASSUME IInv, UNCHANGED store, Grows, ReceiveInv', PassInv', CountInv',
         inFlight' \subseteq inFlight, \A q \in Records : Owed(q)' <= Owed(q)
  PROVE  IInv'
<1>1. StoreInv /\ ReceiptInv /\ CountInv /\ OfferInv /\ NothingLost
  BY DEF IInv
<1>2. StoreInv' /\ \A q \in Records : Kept(q)
  BY <1>1, StoreKept
<1>3. ReceiptInv'
  BY <1>1, <1>2, ReceiptFrame
<1>4. OfferInv'
  <2>1. \A q \in Records : Unspent(q)
    BY <1>2, Zenon DEF Unspent
  <2> QED BY <1>1, <1>2, <2>1, OfferFrame
<1>5. NothingLost'
  <2>1. \A q \in Records : Reason(q)
    BY <1>2 DEF Kept, Reason
  <2> QED BY <1>1, <2>1, LostFrame
<1> QED BY <1>2, <1>3, <1>4, <1>5 DEF IInv

\* Each call of processPending() that waits is one that was made.
CallsCounted ==
  \/ calls' = calls /\ made' = made
  \/ calls' = calls /\ made' = made + 1
  \/ calls' = calls + 1 /\ made' = made + 1 /\ starts > 0

\* A step outside of the pass, that forgets only what is gone or is a caller's.
LEMMA OutsideStep ==
  ASSUME IInv, pass' = pass, running' = running, starts' = starts, Grows,
         StoreInv', ReceiveInv', inFlight' \subseteq inFlight, offered' \subseteq offered,
         \A q \in Records : \/ Kept(q) \/ GoneAfter(q) \/ Admitted(q)
                            \/ (Origin[q] = "caller" /\ Edited(q)),
         \A q \in Records : q \in offered \ offered' => work'[q] = NoWork \/ Origin[q] = "caller",
         \A q \in Records : Reason(q),
         now' \in 0 .. MaxTime, failures' \in Nat,
         backoff' \in [Records -> 0 .. MaxTime + Backoff],
         CallsCounted
  PROVE  IInv'
<1>1. /\ StoreInv /\ ReceiveInv /\ PassInv /\ ReceiptInv /\ CountInv /\ OfferInv /\ NothingLost
  BY DEF IInv
<1>2. PassInv'
  BY <1>1, PassFrame
<1>3. ReceiptInv'
  BY <1>1, ReceiptFrame
<1>4. CountInv'
  <2>1. Called' = Called /\ Called \in 0 .. 1
    BY DEF Called
  <2>2. calls \in Nat /\ made \in Nat /\ calls + Called <= made
    BY <1>1 DEF CountInv
  <2>3. calls' \in Nat /\ made' \in Nat /\ calls' + Called' <= made' /\ (calls' > 0 => calls > 0 \/ starts > 0)
    <3> HIDE DEF Called
    <3> QED BY <2>1, <2>2 DEF CallsCounted
  <2> HIDE DEF Called
  <2> QED BY <1>1, <2>3 DEF CountInv
<1>5. ASSUME NEW q \in Records PROVE Unspent(q)
  <2>0. Cap \in Nat \ {0}
    BY QueueAssumption
  <2>1. CASE work'[q] = NoWork
    BY <2>1 DEF Unspent
  <2>2. CASE work'[q] # NoWork /\ Origin[q] = "caller"
    <3>1. work'[q].attempts = 0
      BY <2>2 DEF StoreInv, Sound
    <3> QED BY <2>0, <3>1 DEF Unspent
  <2>3. CASE work'[q] # NoWork /\ Origin[q] # "caller"
    <3>1. Slot(q)' <= Slot(q)
      BY <2>3 DEF Slot
    <3>2. InPass(q)' = InPass(q)
      BY DEF InPass
    <3>3. /\ InPass(q) \in 0 .. 1 /\ Slot(q) \in 0 .. 1 /\ Slot(q)' \in 0 .. 1
      BY OwedType
    <3>4. calls \in Nat /\ starts \in Nat /\ made \in Nat
      BY <1>1 DEF CountInv
    <3>5. Owed(q)' <= Owed(q)
      <4> HIDE DEF Slot, InPass
      <4> QED BY <3>1, <3>2, <3>3, <3>4 DEF Owed, CallsCounted
    <3>6. Kept(q) \/ work'[q].attempts = 0
      BY <2>3 DEF GoneAfter, Admitted
    <3> HIDE DEF Owed
    <3> QED BY <2>0, <3>5, <3>6 DEF Unspent
  <2> QED BY <2>1, <2>2, <2>3
<1>6. OfferInv'
  BY <1>1, <1>4, <1>5, OfferFrame
<1>7. NothingLost'
  BY <1>1, LostFrame
<1> QED BY <1>2, <1>3, <1>4, <1>6, <1>7 DEF IInv

\* A pass that starts: the records that it lists are the stored ones.
LEMMA PassStarts ==
  ASSUME IInv, UNCHANGED store, Grows, NEW mode \in {"none", "unoffered", "all"},
         pass' = NewPass(mode), mode # "all" => running', accepted' = accepted
  PROVE  PassInv' /\ pass'.mode = mode
<1>1. StoreInv
  BY DEF IInv
<1>2. /\ DOMAIN pass' = PassFields /\ pass'.mode = mode /\ pass'.at = "visit"
      /\ TodoOK(pass'.todo, work, done, accepted)
  BY <1>1, NewPassShape
<1>3. work' = work /\ done' = done
  BY DEF store
<1> QED BY <1>2, <1>3 DEF PassInv, PassType, HeadOK

\* run(), when its turn comes.
LEMMA StartPassStep == IInv /\ StartPass => IInv'
<1> SUFFICES ASSUME IInv, StartPass PROVE IInv'
  OBVIOUS
<1>1. /\ UNCHANGED store /\ Grows /\ receive' = receive /\ starts' = starts /\ made' = made
      /\ calls' = calls /\ running' = running /\ now' = now /\ failures' = failures
      /\ backoff' = backoff /\ offered' = offered /\ inFlight' = inFlight /\ pass = NoPass
      /\ accepted' = accepted
  BY DEF StartPass, memory, world, history, Grows
<1>2. ReceiveInv /\ CountInv /\ PassInv
  BY DEF IInv
<1>3. ReceiveInv'
  BY <1>1, <1>2, ReceiveFrame
<1>4. PassInv' /\ (pass' # NoPass => pass'.mode # "all" /\ running)
  <2>1. CASE running
    <3>1. pass' = NewPass(Mode) /\ Mode \in {"none", "unoffered", "all"} /\ Mode # "all"
      BY <2>1 DEF StartPass, Mode
    <3> HIDE DEF Mode
    <3> QED BY <1>1, <2>1, <3>1, PassStarts
  <2>2. CASE ~running
    BY <1>1, <2>2 DEF StartPass, PassInv
  <2> QED BY <2>1, <2>2
<1>5. CountInv'
  <2>1. Called' = 0 /\ Called = 0
    BY <1>1, <1>4 DEF Called
  <2> HIDE DEF Called
  <2> QED BY <1>1, <1>2, <1>4, <2>1 DEF CountInv
<1>6. ASSUME NEW q \in Records PROVE Owed(q)' <= Owed(q)
  <2>1. InPass(q)' = 0 /\ InPass(q) = 0
    BY <1>1, <1>4 DEF InPass
  <2>2. Slot(q)' = Slot(q) /\ Slot(q) \in 0 .. 1
    BY <1>1 DEF Slot
  <2> HIDE DEF InPass, Slot
  <2> QED BY <1>1, <1>2, <2>1, <2>2 DEF Owed, CountInv
<1> HIDE DEF Owed
<1> QED BY <1>1, <1>3, <1>4, <1>5, <1>6, QuietStep

\* processPending(), when its turn comes: the call becomes the pass.
LEMMA StartCalledPassStep == IInv /\ StartCalledPass => IInv'
<1> SUFFICES ASSUME IInv, StartCalledPass PROVE IInv'
  OBVIOUS
<1>1. /\ UNCHANGED store /\ Grows /\ receive' = receive /\ starts' = starts /\ made' = made
      /\ calls' = calls - 1 /\ running' = running /\ now' = now /\ failures' = failures
      /\ backoff' = backoff /\ offered' = offered /\ inFlight' = inFlight /\ pass = NoPass
      /\ accepted' = accepted /\ calls > 0 /\ pass' = NewPass("all")
  BY DEF StartCalledPass, memory, world, history, Grows
<1>2. ReceiveInv /\ CountInv /\ PassInv
  BY DEF IInv
<1>3. ReceiveInv'
  BY <1>1, <1>2, ReceiveFrame
<1>4. PassInv'
  BY <1>1, PassStarts
<1>5. CountInv'
  <2>1. Called' \in 0 .. 1 /\ Called = 0
    BY <1>1 DEF Called
  <2> HIDE DEF Called
  <2> QED BY <1>1, <1>2, <2>1 DEF CountInv
<1>6. ASSUME NEW q \in Records PROVE Owed(q)' <= Owed(q)
  <2>1. InPass(q)' \in 0 .. 1 /\ InPass(q) = 0
    BY <1>1 DEF InPass
  <2>2. Slot(q)' = Slot(q) /\ Slot(q) \in 0 .. 1
    BY <1>1 DEF Slot
  <2> HIDE DEF InPass, Slot
  <2> QED BY <1>1, <1>2, <2>1, <2>2 DEF Owed, CountInv
<1> HIDE DEF Owed
<1> QED BY <1>1, <1>3, <1>4, <1>5, <1>6, QuietStep

\* The pass ends, with its last record or at the deadline of the call.
LEMMA EndPassStep == IInv /\ (EndPass \/ Deadline) => IInv'
<1> SUFFICES ASSUME IInv, EndPass \/ Deadline PROVE IInv'
  OBVIOUS
<1>1. /\ UNCHANGED store /\ Grows /\ receive' = receive /\ starts' = starts /\ made' = made
      /\ calls' = calls /\ running' = running /\ now' = now /\ failures' = failures
      /\ backoff' = backoff /\ offered' = offered /\ inFlight' = inFlight /\ pass' = NoPass
  BY DEF EndPass, Deadline, memory, world, history, Grows
<1>2. ReceiveInv /\ CountInv
  BY DEF IInv
<1>3. ReceiveInv' /\ PassInv'
  BY <1>1, <1>2, ReceiveFrame DEF PassInv
<1>4. CountInv'
  <2>1. Called' = 0 /\ Called \in 0 .. 1
    BY <1>1 DEF Called
  <2> HIDE DEF Called
  <2> QED BY <1>1, <1>2, <2>1 DEF CountInv
<1>5. ASSUME NEW q \in Records PROVE Owed(q)' <= Owed(q)
  <2>1. InPass(q)' = 0 /\ InPass(q) \in 0 .. 1
    BY <1>1 DEF InPass
  <2>2. Slot(q)' = Slot(q) /\ Slot(q) \in 0 .. 1
    BY <1>1 DEF Slot
  <2> HIDE DEF InPass, Slot
  <2> QED BY <1>1, <1>2, <2>1, <2>2 DEF Owed, CountInv
<1> HIDE DEF Owed
<1> QED BY <1>1, <1>3, <1>4, <1>5, QuietStep

\* stop() and a crash: the memory goes, the store stays.
LEMMA StopStep == IInv /\ (Stop \/ Crash) => IInv'
<1> SUFFICES ASSUME IInv, Stop \/ Crash PROVE IInv'
  OBVIOUS
<1>1. /\ UNCHANGED store /\ Grows /\ starts' = starts /\ made' = made /\ now' = now
      /\ failures' = failures /\ pass' = NoPass /\ running' = FALSE
      /\ backoff' = [r \in Records |-> 0] /\ inFlight' \subseteq inFlight
      /\ calls' = calls \/ calls' = 0
  BY DEF Stop, Crash, LosesMemory, world, history, Grows
<1>2. ReceiveInv /\ CountInv
  BY DEF IInv
<1>3. ReceiveInv' /\ PassInv'
  <2>1. CASE receive' = receive
    BY <1>1, <1>2, <2>1, ReceiveFrame DEF PassInv
  <2>2. CASE receive' = [r \in Records |-> [at |-> "idle", rec |-> NoWork]]
    BY <1>1, <2>2 DEF ReceiveInv, Held, PassInv
  <2> QED BY <2>1, <2>2 DEF Stop, Crash
<1>4. CountInv'
  <2>1. Called' = 0 /\ Called \in 0 .. 1
    BY <1>1 DEF Called
  <2>2. backoff' \in [Records -> 0 .. MaxTime + Backoff]
    BY <1>1, QueueAssumption
  <2>3. calls' \in Nat /\ calls' + Called' <= made' /\ (calls' > 0 => starts > 0)
    <3> HIDE DEF Called
    <3> QED BY <1>1, <1>2, <2>1 DEF CountInv
  <2> HIDE DEF Called
  <2> QED BY <1>1, <1>2, <2>2, <2>3 DEF CountInv
<1>5. ASSUME NEW q \in Records PROVE Owed(q)' <= Owed(q)
  <2>1. InPass(q)' = 0 /\ InPass(q) \in 0 .. 1
    BY <1>1 DEF InPass
  <2>2. Slot(q)' = 0 /\ Slot(q) \in 0 .. 1
    BY <1>1 DEF Slot
  <2> HIDE DEF InPass, Slot
  <2> QED BY <1>1, <1>2, <2>1, <2>2 DEF Owed, CountInv
<1> HIDE DEF Owed
<1> QED BY <1>1, <1>3, <1>4, <1>5, QuietStep

\* start(): the offer that it makes possible is the one that it counts.
LEMMA StartStep == IInv /\ Start => IInv'
<1> SUFFICES ASSUME IInv, Start PROVE IInv'
  OBVIOUS
<1>1. /\ UNCHANGED store /\ Grows /\ starts' = starts + 1 /\ made' = made /\ now' = now
      /\ failures' = failures /\ pass' = pass /\ running' = TRUE /\ running = FALSE
      /\ backoff' = backoff /\ inFlight' \subseteq inFlight /\ offered' = offered
      /\ calls' = calls /\ receive' = receive
  BY DEF Start, history, Grows, IInv, CountInv
<1>2. ReceiveInv /\ CountInv /\ PassInv
  BY DEF IInv
<1>3. ReceiveInv'
  BY <1>1, <1>2 DEF ReceiveInv, CountInv, Held, Sound, Grows
<1>4. PassInv'
  <2>1. work' = work /\ done' = done
    BY <1>1 DEF store
  <2> QED BY <1>1, <1>2, <2>1 DEF PassInv, PassType, TodoOK, CopyOK, Sound, HeadOK, Grows
<1>5. CountInv'
  <2>1. Called' = Called
    BY <1>1 DEF Called
  <2> HIDE DEF Called
  <2> QED BY <1>1, <1>2, <2>1 DEF CountInv
<1>6. ASSUME NEW q \in Records PROVE Owed(q)' <= Owed(q)
  <2>1. InPass(q)' = InPass(q) /\ InPass(q) \in 0 .. 1
    BY <1>1 DEF InPass
  <2>2. Slot(q)' \in 0 .. 1 /\ Slot(q) = 0
    BY <1>1 DEF Slot
  <2> HIDE DEF InPass, Slot
  <2> QED BY <1>1, <1>2, <2>1, <2>2 DEF Owed, CountInv
<1> HIDE DEF Owed
<1> QED BY <1>1, <1>3, <1>4, <1>5, <1>6, QuietStep

\* The steps outside of the pass that leave the store and the memory alone.
LEMMA TimerStep ==
  ASSUME IInv,
         \/ TimerFires \/ Resume \/ Tick \/ PassFails \/ RegisterHook \/ ProcessPending
         \/ \E g \in Groups : GroupFetched(g)
         \/ \E r \in Records : BeginReceive(r) \/ EndReceive(r)
  PROVE  IInv'
<1>1. StoreInv /\ ReceiveInv /\ CountInv
  BY DEF IInv
<1>2. /\ now \in 0 .. MaxTime /\ starts \in Nat /\ made \in Nat /\ calls \in Nat
      /\ failures \in Nat /\ backoff \in [Records -> 0 .. MaxTime + Backoff]
      /\ running => starts > 0 
      /\ calls > 0 => starts > 0
  BY <1>1 DEF CountInv
<1>3. /\ UNCHANGED store /\ UNCHANGED memory /\ pass' = pass /\ running' = running
      /\ starts' = starts /\ Grows
  BY DEF TimerFires, Resume, Tick, PassFails, RegisterHook, ProcessPending, GroupFetched,
         BeginReceive, EndReceive, timers, world, history, Grows
<1>4. failures' = failures \/ failures' = failures + 1
  BY DEF TimerFires, Resume, Tick, PassFails, RegisterHook, ProcessPending, GroupFetched,
         BeginReceive, EndReceive, Fails, timers, world, history
<1>5. now' = now \/ (now' = now + 1 /\ now < MaxTime)
  BY DEF TimerFires, Resume, Tick, PassFails, RegisterHook, ProcessPending, GroupFetched,
         BeginReceive, EndReceive, world
<1>6. \/ calls' = calls /\ made' = made
      \/ calls' = calls + 1 /\ made' = made + 1 /\ running
  BY DEF TimerFires, Resume, Tick, PassFails, RegisterHook, ProcessPending, GroupFetched,
         BeginReceive, EndReceive, timers, world
<1>7. ReceiveInv'
  <2>1. CASE receive' = receive
    BY <1>1, <1>3, <2>1, ReceiveFrame
  <2>2. ASSUME NEW r \in Records, BeginReceive(r) PROVE ReceiveInv'
    <3>1. receive' = [receive EXCEPT ![r].at = "held"] /\ running
      BY <2>2 DEF BeginReceive
    <3>2. \A q \in Records : q # r => receive'[q] = receive[q]
      BY <1>1, <3>1 DEF ReceiveInv
    <3>3. /\ receive' \in [Records -> [at : {"idle", "held", "decide", "release"},
                                       rec : WorkRecord \cup {NoWork}]]
          /\ receive'[r].at = "held"
      BY <1>1, <3>1 DEF ReceiveInv
    <3> QED BY <1>1, <1>2, <1>3, <3>1, <3>2, <3>3 DEF ReceiveInv, Held, Sound, Grows
  <2>3. ASSUME NEW r \in Records, EndReceive(r) PROVE ReceiveInv'
    <3>1. receive' = [receive EXCEPT ![r] = [at |-> "idle", rec |-> NoWork]]
      BY <2>3 DEF EndReceive
    <3>2. \A q \in Records : q # r => receive'[q] = receive[q]
      BY <1>1, <3>1 DEF ReceiveInv
    <3>3. /\ receive' \in [Records -> [at : {"idle", "held", "decide", "release"},
                                       rec : WorkRecord \cup {NoWork}]]
          /\ receive'[r].at = "idle"
      BY <1>1, <3>1 DEF ReceiveInv
    <3> QED BY <1>1, <1>3, <3>2, <3>3 DEF ReceiveInv, Held, Sound, Grows
  <2> QED BY <2>1, <2>2, <2>3 DEF TimerFires, Resume, Tick, PassFails, RegisterHook,
            ProcessPending, GroupFetched
<1>8. StoreInv' /\ \A q \in Records : Kept(q)
  BY <1>1, <1>3, StoreKept
<1>9. inFlight' = inFlight /\ offered' = offered /\ backoff' = backoff
  BY <1>3 DEF memory
<1>10. \A q \in Records : Reason(q)
  BY <1>8 DEF Kept, Reason
<1>11. now' \in 0 .. MaxTime /\ failures' \in Nat /\ MaxTime \in Nat
  BY <1>2, <1>4, <1>5, QueueAssumption
<1>12. CallsCounted
  BY <1>2, <1>6 DEF CallsCounted
<1> QED BY <1>2, <1>3, <1>7, <1>8, <1>9, <1>10, <1>11, <1>12, OutsideStep

\* The commit of a receive path.
LEMMA CommitStep ==
  ASSUME IInv, NEW r \in Records, CommitReceive(r)
  PROVE  IInv'
<1> DEFINE admit == /\ work[r] = NoWork /\ done[r] = "none"
                    /\ Cardinality({q \in Records : work[q] # NoWork}) < MaxItems
                    /\ now <= LastArrival
           rec == IF admit THEN NewWork(r) ELSE work[r]
           at == IF rec # NoWork /\ Origin[r] = "caller" /\ rec.stage = "decrypted"
                   THEN "decide" ELSE "release"
<1>1. /\ receive[r].at = "held" /\ work' = [work EXCEPT ![r] = rec]
      /\ receive' = [receive EXCEPT ![r] = [at |-> at, rec |-> rec]]
  BY DEF CommitReceive
<1>2. /\ done' = done /\ pass' = pass /\ backoff' = backoff /\ offered' = offered
      /\ inFlight' = inFlight /\ running' = running /\ calls' = calls /\ now' = now
      /\ starts' = starts /\ made' = made /\ failures' = failures /\ Grows
      /\ accepted' = accepted
  BY DEF CommitReceive, memory, timers, world, history, Grows
<1>3. StoreInv /\ ReceiveInv /\ CountInv
  BY DEF IInv
<1>4. /\ now \in 0 .. MaxTime /\ starts \in Nat /\ made \in Nat /\ calls \in Nat
      /\ failures \in Nat /\ backoff \in [Records -> 0 .. MaxTime + Backoff]
      /\ calls > 0 => starts > 0
  BY <1>3 DEF CountInv
<1>5. NewWork(r) \in WorkRecord /\ NewWork(r).stage = "decrypted" /\ NewWork(r).attempts = 0
  <2>1. [stage |-> "decrypted", revision |-> 0, attempts |-> 0, blocked |-> FALSE,
         group |-> NoGroup, receivedAt |-> 0, dueAt |-> 0] \in WorkRecord
    BY DEF WorkRecord, Stages
  <2> QED BY <1>3, <2>1, NewVersions
<1>6. Origin[r] \in {"relay", "caller"} /\ starts > 0
  BY <1>1, <1>3, QueueAssumption DEF ReceiveInv, Held
<1> HIDE DEF admit
<1>7. /\ rec \in WorkRecord \cup {NoWork}
      /\ rec # NoWork => done[r] = "none" /\ Sound(accepted, r, rec)
  <2>1. CASE admit
    BY <1>5, <2>1 DEF admit, Sound
  <2>2. CASE ~admit
    BY <1>3, <2>2 DEF StoreInv
  <2> QED BY <2>1, <2>2
<1>8. /\ admit => work[r] = NoWork /\ done[r] = "none" /\ rec = NewWork(r)
      /\ ~admit => rec = work[r]
  BY DEF admit
<1>9. at \in {"decide", "release"} /\ (at = "decide" => rec # NoWork /\ Origin[r] = "caller")
  OBVIOUS
<1> HIDE DEF rec, at
<1>10. /\ work' \in [Records -> WorkRecord \cup {NoWork}] /\ work'[r] = rec
       /\ \A q \in Records : q # r => work'[q] = work[q]
  BY <1>1, <1>3, <1>7 DEF StoreInv
<1>11. /\ receive'[r] = [at |-> at, rec |-> rec]
       /\ \A q \in Records : q # r => receive'[q] = receive[q]
       /\ receive' \in [Records -> [at : {"idle", "held", "decide", "release"},
                                    rec : WorkRecord \cup {NoWork}]]
  BY <1>1, <1>3, <1>7, <1>9 DEF ReceiveInv
<1>12. StoreInv'
  BY <1>2, <1>3, <1>7, <1>10 DEF StoreInv
<1>13. ReceiveInv'
  BY <1>2, <1>3, <1>6, <1>7, <1>9, <1>11 DEF ReceiveInv, Held
<1>14. \A q \in Records : Kept(q) \/ Admitted(q)
  <2>1. CASE admit
    BY <1>2, <1>5, <1>8, <1>10, <2>1 DEF Kept, Admitted
  <2>2. CASE ~admit
    BY <1>2, <1>8, <1>10, <2>2 DEF Kept
  <2> QED BY <2>1, <2>2
<1>15. \A q \in Records : Reason(q)
  BY <1>2 DEF Reason
<1>16. CallsCounted
  BY <1>2 DEF CallsCounted
<1> QED BY <1>2, <1>4, <1>12, <1>13, <1>14, <1>15, <1>16, OutsideStep

\* The decision of a caller's receive path, on the version that it committed.
LEMMA DecideStep ==
  ASSUME IInv, NEW r \in Records, CallerDecides(r)
  PROVE  IInv'
<1> DEFINE rec == receive[r].rec
<1>1. /\ receive[r].at = "decide" /\ receive' = [receive EXCEPT ![r].at = "release"]
      /\ pass' = pass /\ backoff' = backoff /\ offered' = offered
      /\ inFlight' = inFlight /\ running' = running /\ calls' = calls /\ now' = now
      /\ starts' = starts /\ made' = made /\ failures' = failures /\ Grows
      /\ accepted' = accepted
  BY DEF CallerDecides, memory, timers, world, history, Grows
<1>2. StoreInv /\ ReceiveInv /\ CountInv
  BY DEF IInv
<1>3. /\ now \in 0 .. MaxTime /\ starts \in Nat /\ made \in Nat /\ calls \in Nat
      /\ failures \in Nat /\ backoff \in [Records -> 0 .. MaxTime + Backoff]
      /\ calls > 0 => starts > 0
  BY <1>2 DEF CountInv
<1>4. /\ rec \in WorkRecord /\ Origin[r] = "caller" /\ Sound(accepted, r, rec) /\ starts > 0
  BY <1>1, <1>2 DEF ReceiveInv, Held
<1>5. ReceiveInv'
  <2>1. /\ receive' \in [Records -> [at : {"idle", "held", "decide", "release"},
                                     rec : WorkRecord \cup {NoWork}]]
        /\ receive'[r].at = "release"
        /\ \A q \in Records : q # r => receive'[q] = receive[q]
    BY <1>1, <1>2 DEF ReceiveInv
  <2> QED BY <1>1, <1>2, <1>4, <2>1 DEF ReceiveInv, Held
<1> HIDE DEF rec
<1>8. CallsCounted
  BY <1>1 DEF CallsCounted
<1>6. CASE Content[r] \in {"denied", "silent"}
  <2> DEFINE o == Content[r]
  <2>1. Complete(r, rec, o)
    BY <1>6 DEF CallerDecides, rec
  <2>2. o \in Outcomes \ {"none"}
    BY <1>6 DEF Outcomes
  <2> HIDE DEF o
  <2>3. StoreInv' /\ KeptBut(r) /\ (Kept(r) \/ (GoneAfter(r) /\ done'[r] = o))
    BY <1>1, <1>2, <2>1, <2>2, Completes
  <2>4. \A q \in Records : Kept(q) \/ GoneAfter(q)
    BY <2>3 DEF KeptBut
  <2>5. \A q \in Records : Reason(q)
    BY <1>6, <2>3 DEF KeptBut, Kept, Reason, o
  <2> QED BY <1>1, <1>3, <1>5, <1>8, <2>3, <2>4, <2>5, OutsideStep
<1>7. CASE Content[r] \notin {"denied", "silent"}
  <2> DEFINE new == IF Available(r) THEN Awaiting(r, rec) ELSE Blocked(r, rec)
  <2>1. Put(r, rec, new) /\ done' = done
    BY <1>7 DEF CallerDecides, rec
  <2>2. /\ new \in WorkRecord /\ new.stage \in {rec.stage, "awaiting-completion"}
        /\ new.attempts = rec.attempts
    BY <1>2, <1>4, NewVersions
  <2> HIDE DEF new
  <2>3. Sound(accepted', r, new)
    BY <1>1, <1>4, <2>2 DEF Sound
  <2>4. /\ StoreInv' /\ KeptBut(r)
        /\ Kept(r) \/ (Current(r, rec) /\ work'[r] = [new EXCEPT !.revision = rec.revision + 1])
        /\ work[r] = NoWork => work'[r] = NoWork
    BY <1>1, <1>2, <1>4, <2>1, <2>2, <2>3, Puts
  <2>5. ASSUME ~Kept(r) PROVE Edited(r)
    <3>1. /\ [new EXCEPT !.revision = rec.revision + 1] \in WorkRecord
          /\ [new EXCEPT !.revision = rec.revision + 1].attempts = 0
      BY <1>4, <2>2 DEF WorkRecord, Sound
    <3>2. work[r] # NoWork /\ Sound(accepted, r, work[r])
      BY <1>2, <2>4, <2>5 DEF Current, StoreInv
    <3>3. work[r].stage # "receipt-due" /\ work[r].attempts = 0
      BY <1>4, <3>2 DEF Sound
    <3> QED BY <2>1, <2>4, <2>5, <3>1, <3>2, <3>3 DEF Edited
  <2>6. \A q \in Records : Kept(q) \/ (Origin[q] = "caller" /\ Edited(q))
    BY <1>4, <2>4, <2>5 DEF KeptBut
  <2>7. \A q \in Records : Reason(q)
    BY <2>1 DEF Reason
  <2> QED BY <1>1, <1>3, <1>5, <1>8, <2>4, <2>6, <2>7, OutsideStep
<1> QED BY <1>6, <1>7

\* What stays in the steps of the application and of the receipts.
LEMMA CountFacts ==
  ASSUME IInv
  PROVE  /\ now \in 0 .. MaxTime /\ starts \in Nat /\ made \in Nat /\ calls \in Nat
         /\ failures \in Nat /\ backoff \in [Records -> 0 .. MaxTime + Backoff]
         /\ calls > 0 => starts > 0
  BY DEF IInv, CountInv

\* A stored record goes, outside of a pass.
LEMMA RemovalStep ==
  ASSUME IInv, NEW r \in Records, work[r] # NoWork,
         NEW outcome \in {"delivered", "expired"}, Complete(r, work[r], outcome),
         Forget(r) \/ UNCHANGED <<backoff, offered>>, inFlight' \subseteq inFlight, Grows,
         outcome = "delivered" => r \in accepted' \cup removed',
         outcome = "expired" => r \in removed',
         pass' = pass, running' = running, starts' = starts, receive' = receive, now' = now,
         calls' = calls, made' = made \/ made' = made + 1, failures' = failures
  PROVE  IInv'
<1>1. StoreInv /\ ReceiveInv
  BY DEF IInv
<1>2. ReceiveInv'
  BY <1>1, ReceiveFrame
<1>3. outcome \in Outcomes \ {"none"} /\ Current(r, work[r])
  BY DEF Outcomes, Current
<1>4. StoreInv' /\ KeptBut(r) /\ GoneAfter(r) /\ (Kept(r) \/ done'[r] = outcome)
  BY <1>1, <1>3, Completes
<1>5. \A q \in Records : Kept(q) \/ GoneAfter(q)
  BY <1>4 DEF KeptBut
<1>6. \A q \in Records : Reason(q)
  BY <1>4 DEF KeptBut, Kept, Reason
<1>7. /\ backoff' \in [Records -> 0 .. MaxTime + Backoff] /\ offered' \subseteq offered
      /\ \A q \in Records : q \in offered \ offered' => work'[q] = NoWork
  <2>1. CASE Forget(r)
    BY <1>4, <2>1, Forgets DEF GoneAfter
  <2>2. CASE UNCHANGED <<backoff, offered>>
    BY <2>2, CountFacts
  <2> QED BY <2>1, <2>2
<1>8. CallsCounted
  BY DEF CallsCounted
<1> QED BY <1>2, <1>4, <1>5, <1>6, <1>7, <1>8, CountFacts, OutsideStep

\* discardPendingReceive() and completeReceive().
LEMMA DiscardStep ==
  ASSUME IInv, NEW r \in Records, Discard(r) \/ CompleteReceive(r)
  PROVE  IInv'
<1>1. CASE Discard(r)
  <2>1. /\ work[r] # NoWork /\ Complete(r, work[r], "expired") /\ Forget(r)
        /\ inFlight' = inFlight /\ removed' = removed \cup {r} /\ accepted' = accepted
        /\ reported' = reported /\ pass' = pass /\ running' = running /\ starts' = starts
        /\ receive' = receive /\ now' = now /\ calls' = calls /\ made' = made + 1
        /\ failures' = failures
    BY <1>1 DEF Discard
  <2>2. Grows /\ r \in removed'
    BY <2>1 DEF Grows
  <2> QED BY <2>1, <2>2, RemovalStep
<1>2. CASE CompleteReceive(r)
  <2>1. /\ work[r] # NoWork /\ Complete(r, work[r], "delivered")
        /\ UNCHANGED <<backoff, offered>> /\ inFlight' = inFlight
        /\ removed' = removed \cup {r} /\ accepted' = accepted
        /\ reported' = reported /\ pass' = pass /\ running' = running /\ starts' = starts
        /\ receive' = receive /\ now' = now /\ calls' = calls /\ made' = made
        /\ failures' = failures
    BY <1>2 DEF CompleteReceive, memory, timers, world
  <2>2. Grows /\ r \in removed'
    BY <2>1 DEF Grows
  <2> QED BY <2>1, <2>2, RemovalStep
<1> QED BY <1>1, <1>2

\* receiptSettled(): the record is at receipt-due, or is gone for good.
LEMMA ReceiptStep ==
  ASSUME IInv, NEW r \in Records, ReceiptSettles(r)
  PROVE  IInv'
<1>1. /\ inFlight' \subseteq inFlight /\ Grows /\ pass' = pass /\ running' = running
      /\ starts' = starts /\ receive' = receive /\ now' = now /\ calls' = calls
      /\ made' = made /\ accepted' = accepted /\ r \in inFlight
  BY DEF ReceiptSettles, history, Grows
<1>2. StoreInv /\ ReceiveInv /\ ReceiptInv
  BY DEF IInv
<1>3. Gone(r) \/ (work[r] # NoWork /\ work[r].stage = "receipt-due")
  BY <1>1, <1>2 DEF ReceiptInv
<1>4. CASE /\ work[r] # NoWork /\ work[r].stage = "receipt-due"
           /\ Complete(r, work[r], "delivered") /\ Forget(r) /\ failures' = failures
  <2>1. r \in accepted
    BY <1>2, <1>4 DEF StoreInv, Sound
  <2>2. r \in accepted' \cup removed'
    BY <1>1, <2>1
  <2> QED BY <1>1, <1>4, <2>2, RemovalStep
<1>5. CASE /\ UNCHANGED store /\ failures' \in Nat
           /\ \/ UNCHANGED <<backoff, offered>>
              \/ backoff' = [backoff EXCEPT ![r] = now + Backoff] /\ offered' = offered
              \/ Forget(r) /\ work[r] = NoWork
  <2>1. ReceiveInv'
    BY <1>1, <1>2, ReceiveFrame
  <2>2. StoreInv' /\ \A q \in Records : Kept(q)
    BY <1>1, <1>2, <1>5, StoreKept
  <2>3. \A q \in Records : Reason(q)
    BY <2>2 DEF Kept, Reason
  <2>4. /\ backoff' \in [Records -> 0 .. MaxTime + Backoff] /\ offered' \subseteq offered
        /\ \A q \in Records : q \in offered \ offered' => work'[q] = NoWork
    <3>1. CASE UNCHANGED <<backoff, offered>>
      BY <3>1, CountFacts
    <3>2. CASE backoff' = [backoff EXCEPT ![r] = now + Backoff] /\ offered' = offered
      BY <3>2, BackoffType
    <3>3. CASE Forget(r) /\ work[r] = NoWork
      BY <2>2, <3>3, Forgets DEF Kept
    <3> QED BY <1>5, <3>1, <3>2, <3>3
  <2>5. CallsCounted
    BY <1>1 DEF CallsCounted
  <2> QED BY <1>1, <1>5, <2>1, <2>2, <2>3, <2>4, <2>5, CountFacts, OutsideStep
<1>6. CASE ReceiptSent(r)
  <2>1. failures \in Nat
    BY CountFacts
  <2>2. CASE running /\ work[r] # NoWork /\ work[r].stage = "receipt-due" /\ failures' = failures
             /\ Complete(r, work[r], "delivered") /\ Forget(r)
    BY <1>4, <2>2
  <2>3. CASE UNCHANGED <<store, backoff, restored, offered>> /\ failures' \in Nat
    BY <1>5, <2>3
  <2> QED BY <1>6, <2>1, <2>2, <2>3 DEF ReceiptSent, Fails
<1>7. CASE ReceiptFailed(r)
  <2>1. failures' \in Nat /\ UNCHANGED store
    BY <1>7, CountFacts DEF ReceiptFailed, Fails
  <2>2. \/ UNCHANGED <<backoff, offered>>
        \/ backoff' = [backoff EXCEPT ![r] = now + Backoff] /\ offered' = offered
        \/ Forget(r) /\ work[r] = NoWork
    <3>1. running \in BOOLEAN
      BY DEF IInv, CountInv
    <3>2. CASE ~running
      BY <1>7, <3>2 DEF ReceiptFailed
    <3>3. CASE running /\ work[r] # NoWork /\ work[r].stage = "receipt-due"
      BY <1>7, <3>3 DEF ReceiptFailed
    <3>4. CASE running /\ work[r] = NoWork
      BY <1>7, <3>4 DEF ReceiptFailed
    <3> QED BY <1>3, <3>1, <3>2, <3>3, <3>4 DEF Gone
  <2> QED BY <1>5, <2>1, <2>2
<1> QED BY <1>6, <1>7 DEF ReceiptSettles

-----------------------------------------------------------------------------
(* The theorems.                                                           *)

\* Nothing is stored and nothing runs at first.
LEMMA InitIInv == Init => IInv
<1> SUFFICES ASSUME Init PROVE IInv
  OBVIOUS
<1> USE DEF Init
<1>1. StoreInv
  BY DEF StoreInv, Outcomes
<1>2. ReceiveInv
  BY DEF ReceiveInv, Held
<1>3. PassInv /\ ReceiptInv
  BY DEF PassInv, ReceiptInv
<1>4. CountInv
  <2>1. backoff \in [Records -> 0 .. MaxTime + Backoff] /\ now \in 0 .. MaxTime
    BY QueueAssumption
  <2>2. Called = 0
    BY DEF Called
  <2>3. running \in BOOLEAN /\ ~running /\ pass = NoPass
    BY Zenon
  <2>4. {starts, made, calls, failures} \subseteq Nat /\ calls + 0 <= made /\ ~(calls > 0)
    OBVIOUS
  <2> QED BY <2>1, <2>2, <2>3, <2>4, Zenon DEF CountInv
<1>5. OfferInv /\ NothingLost
  BY DEF OfferInv, NothingLost
<1> QED BY <1>1, <1>2, <1>3, <1>4, <1>5 DEF IInv

\* A step that changes nothing.
LEMMA StutterIInv == IInv /\ UNCHANGED vars => IInv'
<1> SUFFICES ASSUME IInv, UNCHANGED vars PROVE IInv'
  OBVIOUS
<1> USE DEF vars, store, memory, timers, world, history
<1>1. StoreInv'
  BY DEF IInv, StoreInv, Sound
<1>2. ReceiveInv'
  BY DEF IInv, ReceiveInv, Held, Sound
<1>3. PassInv'
  BY DEF IInv, PassInv
<1>4. ReceiptInv'
  BY DEF IInv, ReceiptInv, Gone
<1>5. CountInv'
  BY DEF IInv, CountInv, Called
<1>6. OfferInv'
  BY DEF IInv, OfferInv, Owed, InPass, Slot
<1>7. NothingLost'
  BY DEF IInv, NothingLost
<1> QED BY <1>1, <1>2, <1>3, <1>4, <1>5, <1>6, <1>7 DEF IInv

\* Every step keeps the inductive invariant.
LEMMA NextIInv == IInv /\ [Next]_vars => IInv'
<1> SUFFICES ASSUME IInv, [Next]_vars PROVE IInv'
  OBVIOUS
<1>1. CASE \E r \in Records : ReceiveStep(r)
  BY <1>1, TimerStep, CommitStep, DecideStep DEF ReceiveStep
<1>2. CASE PassStep
  BY <1>2, StartPassStep, StartCalledPassStep, VisitStep, ReportStep, ExpireStep, ConsumeStep,
     WaitStep, HandStep, CountStep, HookStep, FinishStep, EndPassStep DEF PassStep
<1>3. CASE PassFails \/ TimerFires \/ Resume \/ Tick \/ RegisterHook \/ ProcessPending
           \/ \E g \in Groups : GroupFetched(g)
  BY <1>3, TimerStep
<1>4. CASE StepFails \/ Deadline \/ Start \/ Stop \/ Crash
  BY <1>4, StepFailsStep, EndPassStep, StartStep, StopStep
<1>5. CASE \E r \in Records : ReceiptSettles(r) \/ Discard(r) \/ CompleteReceive(r)
  BY <1>5, ReceiptStep, DiscardStep
<1>6. CASE UNCHANGED vars
  BY <1>6, StutterIInv
<1> QED BY <1>1, <1>2, <1>3, <1>4, <1>5, <1>6 DEF Next

\* The inductive invariant holds of every run of the queue.
THEOREM Invariance == Spec => []IInv
<1>1. Init => IInv
  BY InitIInv
<1>2. IInv /\ [Next]_vars => IInv'
  BY NextIInv
<1> QED BY <1>1, <1>2, PTL DEF Spec

\* A stored record belongs to an envelope that is not marked as processed, at a stage
\* that its origin reaches, whatever versions the passes and receive paths write.
THEOREM TypeCorrect == Spec => []TypeOK
<1>1. IInv => TypeOK
  BY DEF IInv, StoreInv, CountInv, Sound, TypeOK, WorkRecord
<1> QED BY <1>1, Invariance, PTL

\* An envelope is marked as processed only after its content reached the application,
\* was refused, or was given up with a report, also when the pass completes a record
\* from a copy that it read before other steps, a stop or a crash came in between.
THEOREM NothingIsLost == Spec => []NothingLost
<1>1. IInv => NothingLost
  BY DEF IInv
<1> QED BY <1>1, Invariance, PTL

\* The hook gets a record at the attempt cap at most once in each start and once in
\* each call of processPending(), for any cap and any number of starts and calls.
THEOREM OffersAreBounded == Spec => []OffersBounded
<1>1. ASSUME IInv PROVE OffersBounded
  <2> SUFFICES ASSUME NEW r \in Records, work[r] # NoWork
               PROVE  work[r].attempts <= Cap + (starts - 1) + made
    BY DEF OffersBounded
  <2>1. work[r].attempts \in Nat /\ Cap \in Nat
    BY <1>1, QueueAssumption DEF IInv, StoreInv, WorkRecord
  <2>2. starts \in Nat /\ made \in Nat /\ calls \in Nat
    BY <1>1, CountFacts
  <2>3. InPass(r) \in 0 .. 1 /\ Slot(r) \in 0 .. 1
    BY OwedType
  <2>4. work[r].attempts >= Cap => work[r].attempts + Owed(r) <= Cap - 1
    BY <1>1 DEF IInv, OfferInv
  <2> HIDE DEF InPass, Slot
  <2> QED BY <2>1, <2>2, <2>3, <2>4 DEF Owed
<1> QED BY <1>1, Invariance, PTL

-----------------------------------------------------------------------------
(* The order of the offers in one conversation.                            *)

\* conversationOf(), with what the queue has restored as a parameter.
Key(res, r, rec) ==
  IF r \in res THEN Conversation[r] ELSE IF rec.group # NoGroup THEN rec.group ELSE Sender[r]

\* The hook is not to be called for the record any more, or not before others.
Settled(w, d, acc, r) ==
  \/ w[r] = NoWork /\ d[r] # "none"
  \/ w[r] # NoWork /\ w[r].attempts >= Cap
  \/ r \in acc
  \/ Content[r] \in {"denied", "silent"}

\* The pass has still to visit the record that it listed.
Waits(s, e) == \E i \in 1 .. Len(s) : s[i].id = e.id

\* The copies of a record name the same group.
SameGroups(s, listed) ==
  \A e \in listed, i \in 1 .. Len(s) : s[i].id = e.id => s[i].rec.group = e.rec.group

\* The record holds back the later ones of its conversation.
HoldsUp(b, res, e) == b[Key(res, e.id, e.rec)] <= e.id

\* The records at the cap come after the others.
Sorted(s) ==
  \A i, j \in 1 .. Len(s) : i < j => s[i].id < s[j].id \/ s[j].rec.attempts >= Cap

OrderOK(p, w, d, acc, res) ==
  /\ p.blocked \in [Keys -> Int]
  /\ p.listed \subseteq Entries
  /\ Sorted(p.todo)
  /\ SameGroups(p.todo, p.listed)
  /\ \A e \in p.listed : Origin[e.id] = "relay" =>
       Waits(p.todo, e) \/ Settled(w, d, acc, e.id) \/ HoldsUp(p.blocked, res, e)
  /\ p.at \in {"hook", "finish"} => p.todo[1].id \in res \/ Settled(w, d, acc, p.todo[1].id)

OrderInv == pass # NoPass => OrderOK(pass, work, done, accepted, restored)

\* The work IDs are numbers.
LEMMA RecordNumber == \A r \in Records : r \in Int
  BY QueueAssumption

\* The key of a record is a conversation.
LEMMA KeyType ==
  ASSUME NEW res, NEW r \in Records, NEW rec \in WorkRecord
  PROVE  Key(res, r, rec) \in Keys /\ Key(restored, r, rec) = KeyOf(r, rec)
<1>1. Conversation[r] \in Keys
  BY QueueAssumption
<1>2. Sender[r] \in Keys
  BY DEF Keys, Accounts
<1>3. rec.group \in Keys \cup {NoGroup}
  BY DEF WorkRecord
<1> HIDE DEF Keys
<1> QED BY <1>1, <1>2, <1>3 DEF Key, KeyOf

\* What the ways to go on say of the blocked conversations.
Marks(p, key) ==
  /\ p.listed = pass.listed
  /\ p.blocked \in [Keys -> Int]
  /\ \A k \in Keys : p.blocked[k] <= pass.blocked[k]
  /\ key \in Keys => p.blocked[key] <= Head1.id

\* Both ways to go on only lower the marks of the conversations.
LEMMA AdvanceMarks ==
  ASSUME IInv, OrderInv, AtRecord, NEW key, NEW wait
  PROVE  /\ Advance(wait).listed = pass.listed /\ Advance(wait).blocked = pass.blocked
         /\ pass.blocked \in [Keys -> Int]
         /\ key \in Keys => Marks(AdvanceBlocking(key, wait), key)
<1>1. DOMAIN pass = PassFields /\ pass.blocked \in [Keys -> Int] /\ Head1.id \in Int
  <2>1. Head1.id \in Records
    BY HeadFacts DEF IInv, AtRecord
  <2>2. Head1.id \in Int
    BY <2>1, RecordNumber
  <2>3. DOMAIN pass = PassFields
    BY DEF IInv, PassInv, PassType, AtRecord
  <2>4. pass.blocked \in [Keys -> Int]
    BY DEF OrderInv, OrderOK, AtRecord
  <2> QED BY <2>2, <2>3, <2>4
<1>2. /\ DOMAIN Advance(wait) = PassFields /\ Advance(wait).listed = pass.listed
      /\ Advance(wait).blocked = pass.blocked
  BY <1>1 DEF Advance, PassFields
<1>3. ASSUME key \in Keys PROVE Marks(AdvanceBlocking(key, wait), key)
  <2> DEFINE b == [pass.blocked EXCEPT ![key] = MinOf(pass.blocked[key], Head1.id)]
  <2>1. AdvanceBlocking(key, wait) = [Advance(wait) EXCEPT !.blocked = b]
    BY <1>2 DEF AdvanceBlocking
  <2>2. b \in [Keys -> Int] /\ (\A k \in Keys : b[k] <= pass.blocked[k]) /\ b[key] <= Head1.id
    BY <1>1, <1>3 DEF MinOf
  <2> HIDE DEF b, Keys
  <2>3. AdvanceBlocking(key, wait).listed = pass.listed /\ AdvanceBlocking(key, wait).blocked = b
    <3> HIDE DEF Advance
    <3> QED BY <1>2, <2>1 DEF PassFields
  <2> QED BY <2>2, <2>3 DEF Marks
<1> QED BY <1>1, <1>2, <1>3

\* A record of the Relay that the step does not work on stays settled.
LEMMA StaysSettled ==
  ASSUME StoreInv, NEW r \in Records, Kept(r) \/ GoneAfter(r) \/ Admitted(r), Grows,
         Settled(work, done, accepted, r)
  PROVE  Settled(work', done', accepted', r)
  BY DEF Settled, Kept, GoneAfter, Admitted, Grows

\* The pass leaves the record that it works on: it is settled, or holds back the others.
LEMMA OrderAdvances ==
  ASSUME IInv, OrderInv, AtRecord, Grows, Advances(pass'), pass'.listed = pass.listed,
         pass'.blocked \in [Keys -> Int],
         \A k \in Keys : pass'.blocked[k] <= pass.blocked[k],
         KeptBut(Head1.id), \A q \in Records : q # Head1.id => (q \in restored' <=> q \in restored),
         Origin[Head1.id] = "relay" =>
           \/ Settled(work', done', accepted', Head1.id)
           \/ pass'.blocked[Key(restored', Head1.id, Head1.rec)] <= Head1.id
  PROVE  OrderInv'
<1>1. /\ pass.todo \in Seq(Entries) /\ Len(pass.todo) \in Nat \ {0} /\ Head1 = pass.todo[1]
      /\ Head1.id \in Records /\ Head1.rec \in WorkRecord
  BY HeadFacts DEF IInv, AtRecord
<1>2. OrderOK(pass, work, done, accepted, restored) /\ StoreInv
  BY DEF OrderInv, AtRecord, IInv
<1> DEFINE s == pass.todo
           t == pass'.todo
<1>3. /\ Len(t) = Len(s) - 1
      /\ \A i \in 1 .. Len(t) : i + 1 \in 1 .. Len(s) /\ i + 1 # 1 /\ t[i] = s[i + 1]
  BY <1>1, TailFacts DEF Advances
<1>4. Sorted(t)
  <2> SUFFICES ASSUME NEW i \in 1 .. Len(t), NEW j \in 1 .. Len(t), i < j
               PROVE  t[i].id < t[j].id \/ t[j].rec.attempts >= Cap
    BY DEF Sorted
  <2>1. /\ i + 1 \in 1 .. Len(s) /\ j + 1 \in 1 .. Len(s) /\ i + 1 < j + 1
        /\ t[i] = s[i + 1] /\ t[j] = s[j + 1]
    <3> HIDE DEF s, t
    <3> QED BY <1>1, <1>3
  <2> QED BY <1>2, <2>1 DEF OrderOK, Sorted
<1>5. ASSUME NEW e \in pass.listed, Origin[e.id] = "relay"
      PROVE  \/ Waits(t, e) \/ Settled(work', done', accepted', e.id)
             \/ HoldsUp(pass'.blocked, restored', e)
  <2>1. e \in Entries /\ e.id \in Records /\ e.rec \in WorkRecord
    BY <1>2 DEF OrderOK, Entries
  <2>2. CASE e.id = Head1.id
    <3>1. Head1.rec.group = e.rec.group
      <4>1. 1 \in 1 .. Len(s)
        BY <1>1
      <4> QED BY <1>1, <1>2, <2>2, <4>1 DEF OrderOK, SameGroups
    <3>2. Key(restored', e.id, e.rec) = Key(restored', Head1.id, Head1.rec)
      BY <2>2, <3>1 DEF Key
    <3> QED BY <1>5, <2>2, <3>2 DEF HoldsUp
  <2>3. CASE e.id # Head1.id /\ Waits(s, e)
    <3>1. PICK i \in 1 .. Len(s) : s[i].id = e.id
      BY <2>3 DEF Waits
    <3>2. i # 1
      BY <1>1, <2>3, <3>1
    <3>3. i - 1 \in 1 .. Len(t) /\ (i - 1) + 1 = i
      <4> HIDE DEF s, t
      <4> QED BY <1>1, <1>3, <3>2
    <3>4. t[i - 1] = s[i]
      BY <1>3, <3>3
    <3> QED BY <3>1, <3>3, <3>4 DEF Waits
  <2>4. CASE e.id # Head1.id /\ Settled(work, done, accepted, e.id)
    BY <1>2, <2>1, <2>4, StaysSettled DEF KeptBut
  <2>5. CASE e.id # Head1.id /\ HoldsUp(pass.blocked, restored, e)
    <3>1. Key(restored', e.id, e.rec) = Key(restored, e.id, e.rec)
      BY <2>1, <2>5 DEF Key
    <3>2. Key(restored, e.id, e.rec) \in Keys
      BY <2>1, KeyType
    <3>3. pass.blocked \in [Keys -> Int]
      BY <1>2 DEF OrderOK
    <3>4. e.id \in Int
      BY <2>1, RecordNumber
    <3> HIDE DEF Keys
    <3> QED BY <2>5, <3>1, <3>2, <3>3, <3>4 DEF HoldsUp
  <2> QED BY <1>2, <1>5, <2>2, <2>3, <2>4, <2>5 DEF OrderOK
<1>6. SameGroups(t, pass.listed)
  <2> SUFFICES ASSUME NEW e \in pass.listed, NEW i \in 1 .. Len(t), t[i].id = e.id
               PROVE  t[i].rec.group = e.rec.group
    BY DEF SameGroups
  <2>1. i + 1 \in 1 .. Len(s) /\ t[i] = s[i + 1]
    BY <1>3
  <2> QED BY <1>2, <2>1 DEF OrderOK, SameGroups
<1>7. OrderOK(pass', work', done', accepted', restored')
  BY <1>2, <1>4, <1>5, <1>6 DEF OrderOK, Advances
<1> QED BY <1>7 DEF OrderInv

\* A step outside of the pass.
LEMMA OrderOutside ==
  ASSUME IInv, OrderInv, pass' = pass, Grows,
         \A q \in Records : Origin[q] = "relay" => Kept(q) \/ GoneAfter(q) \/ Admitted(q),
         \A q \in Records : (q \in restored' <=> q \in restored) \/ GoneAfter(q)
                              \/ Origin[q] = "caller"
  PROVE  OrderInv'
<1> SUFFICES ASSUME pass # NoPass PROVE OrderOK(pass, work', done', accepted', restored')
  BY DEF OrderInv
<1>1. OrderOK(pass, work, done, accepted, restored) /\ StoreInv /\ PassInv
  BY DEF OrderInv, IInv
<1>2. ASSUME NEW q \in Records, Origin[q] = "relay", Settled(work, done, accepted, q)
      PROVE  Settled(work', done', accepted', q)
  BY <1>1, <1>2, StaysSettled
<1>3. ASSUME NEW e \in pass.listed, Origin[e.id] = "relay"
      PROVE  \/ Waits(pass.todo, e) \/ Settled(work', done', accepted', e.id)
             \/ HoldsUp(pass.blocked, restored', e)
  <2>1. e.id \in Records /\ e.rec \in WorkRecord
    BY <1>1 DEF OrderOK, Entries
  <2>2. CASE HoldsUp(pass.blocked, restored, e) /\ (e.id \in restored' <=> e.id \in restored)
    BY <2>2 DEF HoldsUp, Key
  <2>3. CASE GoneAfter(e.id)
    BY <2>3 DEF GoneAfter, Settled
  <2> QED BY <1>1, <1>2, <1>3, <2>1, <2>2, <2>3 DEF OrderOK
<1>4. ASSUME pass.at \in {"hook", "finish"}
      PROVE  pass.todo[1].id \in restored' \/ Settled(work', done', accepted', pass.todo[1].id)
  <2>1. pass.todo # <<>>
    BY <1>1, <1>4 DEF PassInv, PassType
  <2> DEFINE h == pass.todo[1].id
  <2>2. h \in Records /\ Origin[h] = "relay"
    BY <1>1, <1>4, <2>1, HeadFacts DEF HeadOK
  <2>3. h \in restored \/ Settled(work, done, accepted, h)
    BY <1>1, <1>4 DEF OrderOK
  <2> HIDE DEF h
  <2>4. Origin[h] # "caller"
    BY <2>2
  <2>5. GoneAfter(h) => Settled(work', done', accepted', h)
    BY DEF GoneAfter, Settled
  <2>6. h \in restored' \/ Settled(work', done', accepted', h)
    BY <1>2, <2>2, <2>3, <2>4, <2>5
  <2> QED BY <2>6 DEF h
<1> QED BY <1>1, <1>3, <1>4 DEF OrderOK

\* The steps that stay at the record, and change neither the store nor the memory.
LEMMA OrderStays ==
  ASSUME IInv, OrderInv, AtRecord, Grows, UNCHANGED store, UNCHANGED memory,
         NEW at, pass' = [pass EXCEPT !.at = at],
         at \in {"hook", "finish"} => pass.at \in {"hook", "finish"}
  PROVE  OrderInv'
<1>1. OrderOK(pass, work, done, accepted, restored) /\ StoreInv /\ DOMAIN pass = PassFields
  BY DEF OrderInv, IInv, AtRecord, PassInv, PassType
<1>2. /\ pass'.at = at /\ pass'.todo = pass.todo /\ pass'.listed = pass.listed
      /\ pass'.blocked = pass.blocked
  BY <1>1 DEF PassFields
<1>3. work' = work /\ done' = done /\ restored' = restored
  BY DEF store, memory
<1>4. \A q : Settled(work, done, accepted, q) => Settled(work', done', accepted', q)
  BY <1>3 DEF Settled, Grows
<1>5. OrderOK(pass', work', done', accepted', restored')
  BY <1>1, <1>2, <1>3, <1>4 DEF OrderOK
<1> QED BY <1>5 DEF OrderInv

\* A pass that starts has every record that it lists before it.
LEMMA OrderStarts ==
  ASSUME IInv, UNCHANGED store, NEW mode, pass' = NewPass(mode), accepted' = accepted
  PROVE  OrderInv'
<1>1. StoreInv
  BY DEF IInv
<1> DEFINE s == pass'.todo
<1>2. /\ pass'.at = "visit" /\ s \in Seq(Entries)
      /\ \A i \in 1 .. Len(s) : s[i].rec = work[s[i].id]
      /\ \A i, j \in 1 .. Len(s) : i < j => VisitedBefore(s[i].id, s[j].id, mode)
      /\ \A e \in pass'.listed : e.id \in Records /\ e.rec = work[e.id]
      /\ \A e \in pass'.listed : \E i \in 1 .. Len(s) : s[i] = e
      /\ pass'.blocked = [c \in Keys |-> Never]
  BY <1>1, NewPassShape DEF TodoOK
<1>3. pass'.blocked \in [Keys -> Int]
  <2>1. Never \in Int
    BY QueueAssumption DEF Never
  <2> HIDE DEF Never, Keys
  <2> QED BY <1>2, <2>1
<1>4. pass'.listed \subseteq Entries
  <2> SUFFICES ASSUME NEW e \in pass'.listed PROVE e \in Entries
    OBVIOUS
  <2>1. PICK i \in 1 .. Len(s) : s[i] = e
    BY <1>2
  <2> HIDE DEF s
  <2> QED BY <1>2, <2>1
<1>5. Sorted(s)
  <2> SUFFICES ASSUME NEW i \in 1 .. Len(s), NEW j \in 1 .. Len(s), i < j
               PROVE  s[i].id < s[j].id \/ s[j].rec.attempts >= Cap
    BY DEF Sorted
  <2>1. VisitedBefore(s[i].id, s[j].id, mode) /\ s[j].rec = work[s[j].id]
    BY <1>2
  <2> QED BY <2>1 DEF VisitedBefore, AtCap, RetriesCap
<1>6. SameGroups(s, pass'.listed)
  BY <1>2 DEF SameGroups
<1>7. \A e \in pass'.listed : Waits(s, e)
  BY <1>2 DEF Waits
<1>8. OrderOK(pass', work', done', accepted', restored')
  BY <1>2, <1>3, <1>4, <1>5, <1>6, <1>7 DEF OrderOK
<1> QED BY <1>8 DEF OrderInv

\* The record of the Relay goes with its completion by the pass.
LEMMA OrderCompletes ==
  ASSUME IInv, OrderInv, AtRecord, Grows, NEW outcome \in Outcomes \ {"none"},
         Complete(Head1.id, Head1.rec, outcome), Forget(Head1.id), pass' = Advance(Never)
  PROVE  OrderInv'
<1> DEFINE h == Head1.id
<1>1. /\ h \in Records /\ Head1.rec \in WorkRecord /\ CopyOK(work, done, accepted, Head1)
      /\ PassInv
  BY HeadFacts DEF IInv, AtRecord
<1>2. /\ KeptBut(h) /\ (Kept(h) \/ GoneAfter(h)) /\ (work'[h] = NoWork \/ Origin[h] = "caller")
  BY HeadCompletes
<1>3. Advances(pass')
  BY <1>1, AdvanceShape DEF AtRecord
<1>4. /\ pass'.listed = pass.listed /\ pass'.blocked = pass.blocked
      /\ pass.blocked \in [Keys -> Int]
  BY AdvanceMarks
<1>5. \A k \in Keys : pass'.blocked[k] <= pass.blocked[k]
  <2> HIDE DEF Keys
  <2> QED BY <1>4
<1>6. \A q \in Records : q # h => (q \in restored' <=> q \in restored)
  BY DEF Forget
<1>7. ASSUME Origin[h] = "relay" PROVE Settled(work', done', accepted', h)
  <2>1. work'[h] = NoWork
    BY <1>2, <1>7
  <2>2. done'[h] # "none"
    BY <1>1, <1>2, <1>7, <2>1, QueueAssumption DEF CopyOK, Kept, GoneAfter
  <2> QED BY <2>1, <2>2 DEF Settled
<1> QED BY <1>2, <1>3, <1>4, <1>5, <1>6, <1>7, OrderAdvances

\* The ways to go on from the record that the pass works on.
LEMMA OrderLeaves ==
  ASSUME IInv, OrderInv, AtRecord, Grows, KeptBut(Head1.id), NEW key, NEW wait,
         \A q \in Records : q # Head1.id => (q \in restored' <=> q \in restored),
         \/ /\ pass' = AdvanceBlocking(key, wait) /\ key \in Keys
            /\ Origin[Head1.id] = "relay" =>
                 \/ Settled(work', done', accepted', Head1.id)
                 \/ key = Key(restored', Head1.id, Head1.rec)
         \/ /\ pass' = Advance(wait)
            /\ Origin[Head1.id] = "relay" =>
                 \/ Settled(work', done', accepted', Head1.id)
                 \/ pass.blocked[Key(restored', Head1.id, Head1.rec)] < Head1.id
  PROVE  OrderInv'
<1>1. /\ Head1.id \in Records /\ Head1.rec \in WorkRecord /\ PassInv
  BY HeadFacts DEF IInv, AtRecord
<1>2. Advances(pass')
  BY <1>1, AdvanceShape DEF AtRecord
<1>3. Key(restored', Head1.id, Head1.rec) \in Keys
  BY <1>1, KeyType
<1>4. Head1.id \in Int
  BY <1>1, RecordNumber
<1>5. CASE /\ pass' = AdvanceBlocking(key, wait) /\ key \in Keys
           /\ Origin[Head1.id] = "relay" =>
                \/ Settled(work', done', accepted', Head1.id)
                \/ key = Key(restored', Head1.id, Head1.rec)
  <2>1. Marks(pass', key)
    BY <1>5, AdvanceMarks
  <2> QED BY <1>2, <1>5, <2>1, OrderAdvances DEF Marks
<1>6. CASE /\ pass' = Advance(wait)
           /\ Origin[Head1.id] = "relay" =>
                \/ Settled(work', done', accepted', Head1.id)
                \/ pass.blocked[Key(restored', Head1.id, Head1.rec)] < Head1.id
  <2>1. /\ pass'.listed = pass.listed /\ pass'.blocked = pass.blocked
        /\ pass.blocked \in [Keys -> Int]
    BY <1>6, AdvanceMarks
  <2> HIDE DEF Keys
  <2>2. \A k \in Keys : pass'.blocked[k] <= pass.blocked[k]
    BY <2>1
  <2>3. Origin[Head1.id] = "relay" =>
           \/ Settled(work', done', accepted', Head1.id)
           \/ pass'.blocked[Key(restored', Head1.id, Head1.rec)] <= Head1.id
    BY <1>3, <1>4, <1>6, <2>1
  <2> QED BY <1>2, <2>1, <2>2, <2>3, OrderAdvances
<1> QED BY <1>5, <1>6

\* A copy of a record of the Relay that is not current, or is at the cap, is settled.
LEMMA CopySettles ==
  ASSUME IInv, AtRecord, Origin[Head1.id] = "relay", Kept(Head1.id), Grows,
         ~Current(Head1.id, Head1.rec) \/ Head1.rec.stage # "decrypted"
           \/ Head1.rec.attempts >= Cap
  PROVE  Settled(work', done', accepted', Head1.id)
<1>1. /\ Head1.id \in Records /\ Head1.rec \in WorkRecord /\ CopyOK(work, done, accepted, Head1)
  BY HeadFacts DEF IInv, AtRecord
<1>2. Head1.rec.stage \in Stages
  BY <1>1 DEF WorkRecord
<1>3. CASE work[Head1.id] = NoWork
  BY <1>1, <1>3, QueueAssumption DEF CopyOK, Settled, Kept
<1>4. CASE work[Head1.id] # NoWork
  <2>1. work[Head1.id] = Head1.rec
    BY <1>1, <1>4 DEF CopyOK
  <2>2. Current(Head1.id, Head1.rec)
    BY <1>4, <2>1 DEF Current
  <2>3. CASE Head1.rec.stage # "decrypted"
    <3>1. Head1.rec.stage = "receipt-due"
      BY <1>1, <1>2, <2>3 DEF CopyOK, Sound, Stages
    <3>2. Head1.id \in accepted
      BY <1>1, <3>1 DEF CopyOK, Sound
    <3> QED BY <3>2 DEF Settled, Grows
  <2>4. CASE Head1.rec.attempts >= Cap
    BY <1>4, <2>1, <2>4 DEF Settled, Kept
  <2> QED BY <2>2, <2>3, <2>4
<1> QED BY <1>3, <1>4

\* A record that the pass leaves where it is.
LEMMA OrderSkip ==
  ASSUME IInv, OrderInv, AtRecord, SkipRecord, PassOnly
  PROVE  OrderInv'
<1> DEFINE h == Head1.id
           rec == Head1.rec
           key == KeyOf(h, rec)
           v == Verdict(h, rec)
<1>1. /\ h \in Records /\ rec \in WorkRecord /\ CopyOK(work, done, accepted, Head1) /\ PassInv
  BY HeadFacts DEF IInv, AtRecord
<1>2. Grows /\ restored' = restored /\ done' = done /\ accepted' = accepted
  BY DEF SkipRecord, PassOnly, memory, Grows
<1>3. v \in {"held", "awaiting", "behind", "capped", "backoff", "group"}
  BY DEF SkipRecord
<1>4. /\ v = "behind" => IsBlocked(h, key)
      /\ v = "capped" => rec.attempts >= Cap
      /\ v = "awaiting" => rec.stage # "decrypted"
  BY DEF Verdict
<1>5. key \in Keys /\ key = Key(restored', h, rec)
  BY <1>1, <1>2, KeyType
<1>6. PICK wait : pass' = IF HoldsBack(v) THEN AdvanceBlocking(key, wait) ELSE Advance(wait)
  BY Zenon DEF SkipRecord
<1>7. KeptBut(h)
  <2>1. \A q \in Records : q # h => work'[q] = work[q]
    <3>1. work' = work \/ Put(h, rec, [rec EXCEPT !.blocked = TRUE])
      BY DEF SkipRecord
    <3> QED BY <1>1, <3>1 DEF Put, IInv, StoreInv
  <2> QED BY <1>2, <2>1 DEF KeptBut, Kept
<1>8. v # "behind" => Kept(h)
  BY <1>2 DEF SkipRecord, Kept
<1>9. CASE HoldsBack(v)
  <2>1. pass' = AdvanceBlocking(key, wait)
    BY <1>6, <1>9
  <2> HIDE DEF key, h, rec, v
  <2> QED BY <1>2, <1>5, <1>7, <2>1, OrderLeaves DEF h, rec
<1>10. CASE ~HoldsBack(v)
  <2>1. pass' = Advance(wait)
    BY <1>6, <1>10
  <2>2. v \in {"awaiting", "behind", "capped"}
    BY <1>3, <1>10 DEF HoldsBack
  <2>3. ASSUME Origin[h] = "relay"
        PROVE  \/ Settled(work', done', accepted', h)
               \/ pass.blocked[Key(restored', h, rec)] < h
    <3>1. CASE v = "behind"
      BY <1>4, <1>5, <3>1 DEF IsBlocked
    <3>2. CASE v \in {"awaiting", "capped"}
      BY <1>2, <1>4, <1>8, <2>3, <3>2, CopySettles
    <3> QED BY <2>2, <3>1, <3>2
  <2> HIDE DEF key, v
  <2> QED BY <1>2, <1>7, <2>1, <2>3, OrderLeaves
<1> QED BY <1>9, <1>10

\* step(), up to its first await.
LEMMA OrderVisit == IInv /\ OrderInv /\ Visit => OrderInv'
<1> SUFFICES ASSUME IInv, OrderInv, Visit PROVE OrderInv'
  OBVIOUS
<1> DEFINE h == Head1.id
           rec == Head1.rec
<1>0. AtRecord /\ PassOnly /\ pass.at = "visit" /\ Grows
  BY DEF Visit, AtRecord, PassOnly, Grows, SkipRecord, SendReceipt, EndReceipt, ReadExpired,
     TakeRecord
<1>1. /\ h \in Records /\ rec \in WorkRecord /\ CopyOK(work, done, accepted, Head1) /\ PassInv
  BY <1>0, HeadFacts DEF IInv, AtRecord
<1>2. CASE SkipRecord
  BY <1>0, <1>2, OrderSkip
<1>3. CASE SendReceipt
  <2>1. UNCHANGED store /\ restored' = restored /\ Verdict(h, rec) = "receipt"
    BY <1>3 DEF SendReceipt
  <2>2. KeptBut(h) /\ Kept(h)
    BY <1>0, <2>1, HeadKept
  <2>3. rec.stage # "decrypted"
    BY <2>1 DEF Verdict
  <2>4. Origin[h] = "relay" => Settled(work', done', accepted', h)
    BY <1>0, <2>2, <2>3, CopySettles
  <2>5. pass' = Advance(Never) \/ pass' = Advance(backoff[h])
    BY <1>3 DEF SendReceipt
  <2> QED BY <1>0, <2>1, <2>2, <2>4, <2>5, OrderLeaves
<1>4. CASE EndReceipt
  <2>1. Complete(h, rec, "delivered") /\ Forget(h) /\ pass' = Advance(Never)
    BY <1>4 DEF EndReceipt
  <2>2. "delivered" \in Outcomes \ {"none"}
    BY DEF Outcomes
  <2> QED BY <1>0, <2>1, <2>2, OrderCompletes
<1>5. CASE ReadExpired /\ Current(h, rec)
  <2>1. pass' = [pass EXCEPT !.at = "report"] /\ UNCHANGED store /\ UNCHANGED memory
    BY <1>5 DEF ReadExpired
  <2> QED BY <1>0, <2>1, OrderStays
<1>6. CASE ReadExpired /\ ~Current(h, rec)
  <2>1. UNCHANGED store /\ Forget(h) /\ pass' = Advance(Never)
    BY <1>6 DEF ReadExpired
  <2>2. KeptBut(h) /\ Kept(h)
    BY <1>0, <2>1, HeadKept
  <2>3. Origin[h] = "relay" => Settled(work', done', accepted', h)
    BY <1>0, <1>6, <2>2, CopySettles
  <2>4. \A q \in Records : q # h => (q \in restored' <=> q \in restored)
    BY <2>1 DEF Forget
  <2> QED BY <1>0, <2>1, <2>2, <2>3, <2>4, OrderLeaves
<1>7. CASE TakeRecord
  <2>1. pass' = [pass EXCEPT !.at = "process"] /\ UNCHANGED store /\ UNCHANGED memory
    BY <1>7 DEF TakeRecord
  <2> QED BY <1>0, <2>1, OrderStays
<1> QED BY <1>2, <1>3, <1>4, <1>5, <1>6, <1>7 DEF Visit

\* The report of an expired record.
LEMMA OrderReport == IInv /\ OrderInv /\ ReportExpired => OrderInv'
<1> SUFFICES ASSUME IInv, OrderInv, ReportExpired PROVE OrderInv'
  OBVIOUS
<1>1. /\ pass # NoPass /\ pass.at # "visit" /\ Grows /\ UNCHANGED store /\ UNCHANGED memory
      /\ pass' = [pass EXCEPT !.at = "expire"]
  BY DEF ReportExpired, Grows, PassOnly
<1>2. AtRecord
  BY <1>1, BusyFacts
<1> QED BY <1>1, <1>2, OrderStays

\* The records that end with their visit.
LEMMA OrderEnds == IInv /\ OrderInv /\ (Expire \/ Consume) => OrderInv'
<1> SUFFICES ASSUME IInv, OrderInv, Expire \/ Consume PROVE OrderInv'
  OBVIOUS
<1>1. /\ pass # NoPass /\ pass.at # "visit" /\ Forget(Head1.id) /\ Grows
      /\ pass' = Advance(Never)
  BY DEF Expire, Consume, Processing, Grows, PassOnly
<1>2. AtRecord
  BY <1>1, BusyFacts
<1>3. PICK outcome \in Outcomes \ {"none"} : Complete(Head1.id, Head1.rec, outcome)
  BY DEF Expire, Consume, Outcomes
<1> QED BY <1>1, <1>2, <1>3, OrderCompletes

\* A write of the pass leaves the other records alone.
LEMMA PutKeeps ==
  ASSUME StoreInv, NEW r \in Records, NEW rec, NEW new, Put(r, rec, new), done' = done
  PROVE  KeptBut(r)
<1>1. \A q \in Records : q # r => work'[q] = work[q]
  BY DEF Put, StoreInv
<1> QED BY <1>1 DEF KeptBut, Kept

\* The restored conversation is held back, or its group waits.
LEMMA OrderWait == IInv /\ OrderInv /\ WaitRestored => OrderInv'
<1> SUFFICES ASSUME IInv, OrderInv, WaitRestored PROVE OrderInv'
  OBVIOUS
<1> DEFINE h == Head1.id
           rec == Head1.rec
<1>1. /\ pass # NoPass /\ pass.at # "visit" /\ Grows /\ done' = done
      /\ restored' = restored \cup {h}
  BY DEF WaitRestored, Delivering, Processing, Grows, PassOnly
<1>2. AtRecord /\ h \in Records
  BY <1>1, BusyFacts
<1>3. KeptBut(h)
  <2>1. StoreInv
    BY DEF IInv
  <2>2. \/ work' = work
        \/ Put(h, rec, [rec EXCEPT !.blocked = TRUE, !.group = Conversation[h]])
        \/ Put(h, rec, Blocked(h, rec))
    BY DEF WaitRestored
  <2>3. CASE work' = work
    BY <1>1, <2>3 DEF KeptBut, Kept
  <2> QED BY <1>1, <1>2, <2>1, <2>2, <2>3, PutKeeps
<1>4. \A q \in Records : q # h => (q \in restored' <=> q \in restored)
  BY <1>1
<1>5. Conversation[h] = Key(restored', h, rec) /\ Conversation[h] \in Keys
  BY <1>1, <1>2, QueueAssumption DEF Key
<1>6. CASE IsBlocked(h, Conversation[h])
  <2>1. pass' = Advance(ExpiresAt(rec)) /\ pass.blocked[Key(restored', h, rec)] < h
    BY <1>5, <1>6 DEF WaitRestored, IsBlocked
  <2> QED BY <1>1, <1>2, <1>3, <1>4, <2>1, OrderLeaves
<1>7. CASE ~IsBlocked(h, Conversation[h])
  <2>1. pass' = AdvanceBlocking(Conversation[h], Blocked(h, rec).dueAt)
    BY <1>7 DEF WaitRestored
  <2> QED BY <1>1, <1>2, <1>3, <1>4, <1>5, <2>1, OrderLeaves
<1> QED BY <1>6, <1>7

\* The caller's content.
LEMMA OrderHand == IInv /\ OrderInv /\ HandToCaller => OrderInv'
<1> SUFFICES ASSUME IInv, OrderInv, HandToCaller PROVE OrderInv'
  OBVIOUS
<1> DEFINE h == Head1.id
<1>1. /\ pass # NoPass /\ pass.at # "visit" /\ Grows /\ done' = done /\ Origin[h] = "caller"
      /\ Put(h, Head1.rec, Awaiting(h, Head1.rec)) /\ Forget(h) /\ pass' = Advance(Never)
  BY DEF HandToCaller, Delivering, Processing, Grows, PassOnly
<1>2. AtRecord /\ h \in Records
  BY <1>1, BusyFacts
<1>3. KeptBut(h)
  BY <1>1, <1>2, PutKeeps DEF IInv
<1>4. \A q \in Records : q # h => (q \in restored' <=> q \in restored)
  BY <1>1 DEF Forget
<1> QED BY <1>1, <1>2, <1>3, <1>4, OrderLeaves

\* The hook takes the content, or rejects it.
LEMMA OrderHook == IInv /\ OrderInv /\ (HookAccepts \/ HookRejects) => OrderInv'
<1> SUFFICES ASSUME IInv, OrderInv, HookAccepts \/ HookRejects PROVE OrderInv'
  OBVIOUS
<1> DEFINE h == Head1.id
           rec == Head1.rec
<1>1. pass # NoPass /\ pass.at = "hook" /\ UNCHANGED store /\ Grows /\ restored' = restored
  BY DEF HookAccepts, HookRejects, Grows, PassOnly, memory
<1>2. AtRecord /\ h \in Records /\ Origin[h] = "relay" /\ h = pass.todo[1].id
  BY <1>1, BusyFacts DEF HeadOK
<1>3. CASE HookAccepts
  <2>1. pass' = [pass EXCEPT !.at = "finish"] /\ UNCHANGED memory
    BY <1>3 DEF HookAccepts
  <2> QED BY <1>1, <1>2, <2>1, OrderStays
<1>4. CASE HookRejects
  <2>1. KeptBut(h) /\ Kept(h)
    BY <1>1, <1>2, HeadKept
  <2>2. CASE rec.attempts < Cap
    <3>1. pass' = AdvanceBlocking(Conversation[h], MinOf(now + Backoff, ExpiresAt(rec)))
      BY <1>4, <2>2 DEF HookRejects
    <3>2. h \in restored \/ Settled(work, done, accepted, h)
      BY <1>1, <1>2 DEF OrderInv, OrderOK
    <3>3. Settled(work, done, accepted, h) => Settled(work', done', accepted', h)
      BY <1>1, <1>2, <2>1, StaysSettled DEF IInv
    <3>4. h \in restored => Conversation[h] = Key(restored', h, rec)
      BY <1>1 DEF Key
    <3>5. Conversation[h] \in Keys
      BY <1>2, QueueAssumption
    <3> QED BY <1>1, <1>2, <2>1, <3>1, <3>2, <3>3, <3>4, <3>5, OrderLeaves
  <2>3. CASE ~(rec.attempts < Cap)
    <3>1. pass' = Advance(ExpiresAt(rec))
      BY <1>4, <2>3 DEF HookRejects
    <3>2. rec.attempts >= Cap
      <4>1. rec.attempts \in Nat /\ Cap \in Nat
        BY <1>1, BusyFacts, QueueAssumption DEF WorkRecord
      <4> QED BY <2>3, <4>1
    <3>3. Settled(work', done', accepted', h)
      BY <1>1, <1>2, <2>1, <3>2, CopySettles
    <3> QED BY <1>1, <1>2, <2>1, <3>1, <3>3, OrderLeaves
  <2> QED BY <2>2, <2>3
<1> QED BY <1>3, <1>4

\* processRecord() after the hook.
LEMMA OrderFinish == IInv /\ OrderInv /\ Finish => OrderInv'
<1> SUFFICES ASSUME IInv, OrderInv, Finish PROVE OrderInv'
  OBVIOUS
<1> DEFINE h == Head1.id
           rec == Head1.rec
<1>1. pass # NoPass /\ pass.at = "finish" /\ Grows /\ pass' = Advance(Never)
  BY DEF Finish, Grows, PassOnly
<1>2. AtRecord /\ h \in Records /\ h \in accepted
  BY <1>1, BusyFacts DEF HeadOK
<1>3. CASE h \notin OwesReceipt
  <2>1. Complete(h, rec, "delivered") /\ Forget(h)
    BY <1>3 DEF Finish
  <2>2. "delivered" \in Outcomes \ {"none"}
    BY DEF Outcomes
  <2> QED BY <1>1, <1>2, <2>1, <2>2, OrderCompletes
<1>4. CASE h \in OwesReceipt
  <2> DEFINE new == [rec EXCEPT !.stage = "receipt-due", !.blocked = FALSE,
                                !.attempts = 0, !.dueAt = now]
  <2>1. Put(h, rec, new) /\ done' = done /\ restored' = restored
    BY <1>4 DEF Finish
  <2> HIDE DEF new
  <2>2. KeptBut(h)
    BY <1>2, <2>1, PutKeeps DEF IInv
  <2>3. Settled(work', done', accepted', h)
    BY <1>1, <1>2 DEF Settled, Grows
  <2> QED BY <1>1, <1>2, <2>1, <2>2, <2>3, OrderLeaves
<1> QED BY <1>3, <1>4

\* visit(): a read or write of the store fails.
LEMMA OrderStepFails == IInv /\ OrderInv /\ StepFails => OrderInv'
<1> SUFFICES ASSUME IInv, OrderInv, StepFails PROVE OrderInv'
  OBVIOUS
<1> DEFINE h == Head1.id
           rec == Head1.rec
<1>1. /\ pass # NoPass /\ pass.todo # <<>> /\ UNCHANGED store /\ Grows /\ restored' = restored
      /\ pass' = AdvanceBlocking(KeyOf(h, rec), now + Backoff)
  BY DEF StepFails, Grows, PassOnly
<1>2. AtRecord /\ h \in Records /\ rec \in WorkRecord
  BY <1>1, BusyFacts
<1>3. KeptBut(h)
  BY <1>1, <1>2, HeadKept
<1>4. KeyOf(h, rec) = Key(restored', h, rec) /\ KeyOf(h, rec) \in Keys
  BY <1>1, <1>2, KeyType
<1> HIDE DEF h, rec
<1> QED BY <1>1, <1>2, <1>3, <1>4, OrderLeaves DEF h, rec

\* The attempt is counted: the pass goes on with the version that it wrote.
LEMMA CountShape ==
  ASSUME IInv, CountAttempt, ~(UNCHANGED <<work, offered>> /\ Advances(pass'))
  PROVE  /\ pass'.at = "hook" /\ pass'.listed = pass.listed /\ pass'.blocked = pass.blocked
         /\ Current(Head1.id, Head1.rec) /\ KeptBut(Head1.id)
         /\ \E n \in WorkRecord :
              /\ n.attempts = Head1.rec.attempts + 1 /\ n.group = Head1.rec.group
              /\ pass'.todo = [pass.todo EXCEPT ![1] = [id |-> Head1.id, rec |-> n]]
              /\ work'[Head1.id] = n
<1> DEFINE h == Head1.id
           rec == Head1.rec
           new == [rec EXCEPT !.attempts = @ + 1]
           n == [new EXCEPT !.revision = rec.revision + 1]
<1>1. pass # NoPass /\ pass.at = "process" /\ Origin[h] = "relay" /\ done' = done
  BY DEF CountAttempt, Delivering, Processing
<1>2. /\ AtRecord /\ h \in Records /\ rec \in WorkRecord /\ Head1 = pass.todo[1]
      /\ DOMAIN pass = PassFields /\ PassInv
      /\ \A key, wait : Advances(Advance(wait)) /\ Advances(AdvanceBlocking(key, wait))
  BY <1>1, BusyFacts
<1>3. /\ Current(h, rec) /\ Put(h, rec, new)
      /\ pass' = [pass EXCEPT !.at = "hook",
                     !.todo[1].rec = [new EXCEPT !.revision = @ + 1]]
  BY <1>2 DEF CountAttempt
<1>4. rec.attempts \in Nat /\ rec.revision \in Nat
  BY <1>2 DEF WorkRecord
<1>5. /\ new \in WorkRecord /\ new.attempts = rec.attempts + 1 /\ new.revision = rec.revision
      /\ new.group = rec.group
  <2> HIDE DEF n
  <2> QED BY <1>2, <1>4 DEF WorkRecord
<1> HIDE DEF new
<1>6. n \in WorkRecord /\ n.attempts = rec.attempts + 1 /\ n.group = rec.group
  BY <1>4, <1>5 DEF WorkRecord
<1>7. [new EXCEPT !.revision = @ + 1] = n
  <2>1. [new EXCEPT !.revision = @ + 1] = [new EXCEPT !.revision = new.revision + 1]
    BY <1>5, SMT DEF WorkRecord
  <2> QED BY <1>5, <2>1
<1>8. pass' = [pass EXCEPT !.at = "hook",
                 !.todo = [pass.todo EXCEPT ![1] = [pass.todo[1] EXCEPT !.rec = n]]]
  BY <1>3, <1>7, Zenon
<1>9. work' = [work EXCEPT ![h] = n]
  BY <1>3 DEF Put
<1> HIDE DEF n
<1>10. [pass.todo[1] EXCEPT !.rec = n] = [id |-> h, rec |-> n]
  <2>1. pass.todo[1] \in Entries
    BY <1>2, HeadFacts DEF AtRecord
  <2> QED BY <1>2, <2>1 DEF Entries
<1> DEFINE t == [pass.todo EXCEPT ![1] = [id |-> h, rec |-> n]]
<1>11. pass' = [pass EXCEPT !.at = "hook", !.todo = t]
  <2> HIDE DEF h
  <2> QED BY <1>8, <1>10
<1>12. /\ pass'.at = "hook" /\ pass'.listed = pass.listed /\ pass'.blocked = pass.blocked
       /\ pass'.todo = t
  <2> HIDE DEF t
  <2> QED BY <1>2, <1>11 DEF PassFields
<1>13. work'[h] = n /\ KeptBut(h)
  <2>1. StoreInv
    BY DEF IInv
  <2>2. work'[h] = n
    BY <1>2, <1>9, <2>1 DEF StoreInv
  <2>3. KeptBut(h)
    BY <1>1, <1>2, <1>3, <2>1, PutKeeps
  <2> QED BY <2>2, <2>3
<1> QED BY <1>3, <1>6, <1>12, <1>13

\* processRecord() before the hook.
LEMMA OrderCount == IInv /\ OrderInv /\ CountAttempt => OrderInv'
<1> SUFFICES ASSUME IInv, OrderInv, CountAttempt PROVE OrderInv'
  OBVIOUS
<1> DEFINE h == Head1.id
           rec == Head1.rec
           s == pass.todo
           t == pass'.todo
<1>1. /\ pass # NoPass /\ pass.at = "process" /\ Grows /\ Origin[h] = "relay" /\ done' = done
      /\ restored' = restored \cup {h} /\ accepted' = accepted
  BY DEF CountAttempt, Delivering, Processing, Grows, PassOnly
<1>2. /\ AtRecord /\ h \in Records /\ rec \in WorkRecord
      /\ \A key, wait : Advances(Advance(wait)) /\ Advances(AdvanceBlocking(key, wait))
  BY <1>1, BusyFacts
<1>3. \A q \in Records : q # h => (q \in restored' <=> q \in restored)
  BY <1>1
<1>4. Conversation[h] = Key(restored', h, rec) /\ Conversation[h] \in Keys
  BY <1>1, <1>2, QueueAssumption DEF Key
<1>5. CASE UNCHANGED <<work, offered>> /\ Advances(pass')
  <2>1. UNCHANGED store
    BY <1>1, <1>5 DEF store
  <2>2. KeptBut(h)
    BY <1>1, <1>2, <2>1, HeadKept
  <2>3. \E wait : pass' = AdvanceBlocking(Conversation[h], wait)
    <3>1. pass'.at # "hook"
      BY <1>5 DEF Advances
    <3>2. CASE ~hook \/ ~Current(h, rec)
      BY <3>2 DEF CountAttempt
    <3>3. CASE hook /\ Current(h, rec)
      <4>1. pass' = [pass EXCEPT !.at = "hook",
                       !.todo[1].rec = [[rec EXCEPT !.attempts = @ + 1] EXCEPT !.revision = @ + 1]]
        BY <3>3, Zenon DEF CountAttempt
      <4>2. DOMAIN pass = PassFields
        BY <1>1, BusyFacts
      <4>3. pass'.at = "hook"
        BY <4>1, <4>2 DEF PassFields
      <4> QED BY <3>1, <4>3
    <3> QED BY <3>2, <3>3
  <2> QED BY <1>1, <1>2, <1>3, <1>4, <2>2, <2>3, OrderLeaves
<1>6. CASE ~(UNCHANGED <<work, offered>> /\ Advances(pass'))
  <2>1. /\ pass'.at = "hook" /\ pass'.listed = pass.listed /\ pass'.blocked = pass.blocked
        /\ KeptBut(h)
    BY <1>6, CountShape
  <2>2. PICK n \in WorkRecord :
              /\ n.attempts = rec.attempts + 1 /\ n.group = rec.group
              /\ t = [s EXCEPT ![1] = [id |-> h, rec |-> n]] /\ work'[h] = n
    BY <1>6, CountShape
  <2>3. /\ s \in Seq(Entries) /\ Len(s) \in Nat \ {0} /\ Head1 = s[1]
        /\ OrderOK(pass, work, done, accepted, restored) /\ StoreInv
    BY <1>2, HeadFacts DEF AtRecord, IInv, OrderInv
  <2>4. /\ Len(t) = Len(s) /\ t[1] = [id |-> h, rec |-> n]
        /\ \A i \in 1 .. Len(s) : i # 1 => t[i] = s[i]
        /\ \A i \in 1 .. Len(s) : t[i].id = s[i].id /\ t[i].rec.group = s[i].rec.group
    <3> HIDE DEF s, t
    <3>1. [id |-> h, rec |-> n] \in Entries
      BY <1>2, <2>2 DEF Entries
    <3>2. Len(t) = Len(s) /\ t[1] = [id |-> h, rec |-> n] /\ \A i \in 1 .. Len(s) : i # 1 => t[i] = s[i]
      BY <2>2, <2>3, <3>1
    <3> QED BY <2>2, <2>3, <3>2
  <2>5. Sorted(t)
    <3> SUFFICES ASSUME NEW i \in 1 .. Len(s), NEW j \in 1 .. Len(s), i < j
                 PROVE  t[i].id < t[j].id \/ t[j].rec.attempts >= Cap
      BY <2>4 DEF Sorted
    <3>1. j # 1
      <4> HIDE DEF s
      <4> QED BY <2>3
    <3> QED BY <2>3, <2>4, <3>1 DEF OrderOK, Sorted
  <2>6. SameGroups(t, pass.listed)
    BY <2>3, <2>4 DEF OrderOK, SameGroups
  <2>7. ASSUME NEW e \in pass.listed, Origin[e.id] = "relay"
        PROVE  \/ Waits(t, e) \/ Settled(work', done', accepted', e.id)
               \/ HoldsUp(pass.blocked, restored', e)
    <3>1. e.id \in Records
      BY <2>3 DEF OrderOK, Entries
    <3>2. CASE e.id = h
      <4>1. 1 \in 1 .. Len(t) /\ t[1].id = e.id
        BY <2>3, <2>4, <3>2
      <4> QED BY <4>1 DEF Waits
    <3>3. CASE e.id # h /\ Waits(s, e)
      BY <2>4, <3>3 DEF Waits
    <3>4. CASE e.id # h /\ Settled(work, done, accepted, e.id)
      BY <1>1, <2>1, <2>3, <3>1, <3>4, StaysSettled DEF KeptBut
    <3>5. CASE e.id # h /\ HoldsUp(pass.blocked, restored, e)
      BY <1>3, <3>1, <3>5 DEF HoldsUp, Key
    <3> QED BY <2>3, <2>7, <3>2, <3>3, <3>4, <3>5 DEF OrderOK
  <2>8. pass'.todo[1].id \in restored'
    BY <1>1, <2>4
  <2>9. OrderOK(pass', work', done', accepted', restored')
    BY <2>1, <2>3, <2>5, <2>6, <2>7, <2>8 DEF OrderOK
  <2> QED BY <2>9 DEF OrderInv
<1> QED BY <1>5, <1>6

\* The steps outside of the pass.
LEMMA OrderOthers ==
  ASSUME IInv, OrderInv,
         \/ TimerFires \/ Resume \/ Tick \/ PassFails \/ RegisterHook \/ ProcessPending \/ Start
         \/ \E g \in Groups : GroupFetched(g)
         \/ \E r \in Records : BeginReceive(r) \/ EndReceive(r)
         \/ UNCHANGED vars
  PROVE  OrderInv' /\ pass' = pass
<1>1. UNCHANGED store /\ restored' = restored /\ pass' = pass /\ Grows
  BY DEF TimerFires, Resume, Tick, PassFails, RegisterHook, ProcessPending, Start, GroupFetched,
         BeginReceive, EndReceive, vars, memory, history, Grows
<1>2. \A q \in Records : Kept(q)
  BY <1>1 DEF store, Kept
<1> QED BY <1>1, <1>2, OrderOutside

\* The steps on one record, outside of the pass.
LEMMA OrderRecords ==
  ASSUME IInv, OrderInv, NEW r \in Records,
         CommitReceive(r) \/ CallerDecides(r) \/ Discard(r) \/ CompleteReceive(r)
           \/ ReceiptSettles(r)
  PROVE  OrderInv' /\ pass' = pass
<1>1. StoreInv /\ ReceiveInv /\ CountInv
  BY DEF IInv
<1>2. CASE CommitReceive(r)
  <2>1. /\ done' = done /\ restored' = restored /\ pass' = pass /\ Grows
        /\ \/ work' = [work EXCEPT ![r] = work[r]]
           \/ work' = [work EXCEPT ![r] = NewWork(r)] /\ work[r] = NoWork /\ done[r] = "none"
    BY <1>2, Zenon DEF CommitReceive, memory, history, Grows
  <2>2. NewWork(r).stage = "decrypted" /\ NewWork(r).attempts = 0
    BY DEF NewWork
  <2> HIDE DEF NewWork
  <2>3. \A q \in Records : Kept(q) \/ Admitted(q)
    <3>1. CASE work' = [work EXCEPT ![r] = work[r]]
      BY <1>1, <2>1, <3>1 DEF StoreInv, Kept
    <3>2. CASE work' = [work EXCEPT ![r] = NewWork(r)] /\ work[r] = NoWork /\ done[r] = "none"
      BY <1>1, <2>1, <2>2, <3>2 DEF StoreInv, Kept, Admitted
    <3> QED BY <2>1, <3>1, <3>2
  <2> QED BY <2>1, <2>3, OrderOutside
<1>3. CASE CallerDecides(r)
  <2>1. /\ restored' = restored /\ pass' = pass /\ Grows /\ receive[r].at = "decide"
    BY <1>3 DEF CallerDecides, memory, history, Grows
  <2>2. Origin[r] = "caller"
    BY <1>1, <2>1 DEF ReceiveInv
  <2>3. KeptBut(r)
    <3>1. CASE Content[r] \in {"denied", "silent"}
      BY <1>1, <1>3, <3>1 DEF CallerDecides, Complete, store, StoreInv, KeptBut, Kept
    <3>2. CASE Content[r] \notin {"denied", "silent"}
      BY <1>1, <1>3, <3>2, PutKeeps DEF CallerDecides
    <3> QED BY <3>1, <3>2
  <2>4. \A q \in Records : Origin[q] = "relay" => Kept(q)
    BY <2>2, <2>3 DEF KeptBut
  <2> QED BY <2>1, <2>4, OrderOutside
<1>4. CASE Discard(r) \/ CompleteReceive(r)
  <2>1. /\ pass' = pass /\ Grows /\ work[r] # NoWork
        /\ \A q \in Records : q # r => (q \in restored' <=> q \in restored)
    BY <1>4 DEF Discard, CompleteReceive, Forget, memory, Grows
  <2>2. PICK o \in {"expired", "delivered"} : Complete(r, work[r], o)
    BY <1>4 DEF Discard, CompleteReceive
  <2>3. KeptBut(r) /\ GoneAfter(r)
    <3>1. o \in Outcomes \ {"none"} /\ Current(r, work[r])
      BY <2>1 DEF Outcomes, Current
    <3> QED BY <1>1, <2>1, <2>2, <3>1, Completes
  <2>4. \A q \in Records : Kept(q) \/ GoneAfter(q)
    BY <2>3 DEF KeptBut
  <2> QED BY <2>1, <2>3, <2>4, OrderOutside
<1>5. CASE ReceiptSettles(r)
  BY <1>5 DEF ReceiptSettles, OrderInv
<1> QED BY <1>2, <1>3, <1>4, <1>5

\* The starts and the ends of a pass.
LEMMA OrderPass ==
  ASSUME IInv, OrderInv, StartPass \/ StartCalledPass \/ EndPass \/ Deadline \/ Stop \/ Crash
  PROVE  OrderInv' /\ (pass = NoPass \/ pass' = NoPass)
<1>1. UNCHANGED store /\ accepted' = accepted
  BY DEF StartPass, StartCalledPass, EndPass, Deadline, Stop, Crash, history
<1>2. CASE StartPass
  <2>1. pass = NoPass /\ (pass' = NewPass(Mode) \/ pass' = pass)
    BY <1>2 DEF StartPass
  <2> QED BY <1>1, <2>1, OrderStarts DEF OrderInv
<1>3. CASE StartCalledPass
  <2>1. pass = NoPass /\ pass' = NewPass("all")
    BY <1>3 DEF StartCalledPass
  <2> QED BY <1>1, <2>1, OrderStarts
<1>4. CASE EndPass \/ Deadline \/ Stop \/ Crash
  <2>1. pass' = NoPass
    BY <1>4 DEF EndPass, Deadline, Stop, Crash, LosesMemory
  <2> QED BY <2>1 DEF OrderInv
<1> QED BY <1>2, <1>3, <1>4

\* Every step keeps the order.
LEMMA NextOrder == IInv /\ OrderInv /\ [Next]_vars => OrderInv'
<1> SUFFICES ASSUME IInv, OrderInv, [Next]_vars PROVE OrderInv'
  OBVIOUS
<1>1. CASE \E r \in Records : ReceiveStep(r)
  BY <1>1, OrderOthers, OrderRecords DEF ReceiveStep
<1>2. CASE PassStep
  BY <1>2, OrderPass, OrderVisit, OrderReport, OrderEnds, OrderWait, OrderHand, OrderCount,
     OrderHook, OrderFinish DEF PassStep
<1>3. CASE \/ PassFails \/ TimerFires \/ Resume \/ Tick \/ RegisterHook \/ ProcessPending
           \/ Start \/ (\E g \in Groups : GroupFetched(g)) \/ UNCHANGED vars
  BY <1>3, OrderOthers
<1>4. CASE StepFails \/ Deadline \/ Stop \/ Crash
  BY <1>4, OrderStepFails, OrderPass
<1>5. CASE \E r \in Records : ReceiptSettles(r) \/ Discard(r) \/ CompleteReceive(r)
  BY <1>5, OrderRecords
<1> QED BY <1>1, <1>2, <1>3, <1>4, <1>5 DEF Next

\* The hook is called in one step only.
LEMMA OnlyCountCalls ==
  ASSUME IInv, OrderInv, [Next]_vars, pass # NoPass, pass' # NoPass, pass.at = "process",
         pass'.at = "hook"
  PROVE  CountAttempt /\ ~(UNCHANGED <<work, offered>> /\ Advances(pass'))
<1>1. pass' # pass /\ ~Advances(pass')
  BY DEF Advances
<1>2. \A key, wait : Advances(Advance(wait)) /\ Advances(AdvanceBlocking(key, wait))
  BY BusyFacts
<1>3. CASE \E r \in Records : ReceiveStep(r)
  BY <1>1, <1>3, OrderOthers, OrderRecords DEF ReceiveStep
<1>4. CASE PassStep
  <2>1. ~StartPass /\ ~StartCalledPass /\ ~EndPass
    BY OrderPass
  <2>2. ~Visit /\ ~ReportExpired /\ ~Expire /\ ~HookAccepts /\ ~HookRejects /\ ~Finish
    BY DEF Visit, ReportExpired, Expire, HookAccepts, HookRejects, Finish
  <2>3. ~Consume /\ ~WaitRestored /\ ~HandToCaller
    BY <1>1, <1>2 DEF Consume, WaitRestored, HandToCaller
  <2> QED BY <1>1, <1>4, <2>1, <2>2, <2>3 DEF PassStep
<1>5. CASE \/ PassFails \/ TimerFires \/ Resume \/ Tick \/ RegisterHook \/ ProcessPending
           \/ Start \/ (\E g \in Groups : GroupFetched(g)) \/ UNCHANGED vars
  BY <1>1, <1>5, OrderOthers
<1>6. CASE Deadline \/ Stop \/ Crash
  BY <1>6, OrderPass
<1>7. CASE StepFails
  BY <1>1, <1>2, <1>7 DEF StepFails
<1>8. CASE \E r \in Records : ReceiptSettles(r) \/ Discard(r) \/ CompleteReceive(r)
  BY <1>1, <1>8, OrderRecords
<1> QED BY <1>3, <1>4, <1>5, <1>6, <1>7, <1>8 DEF Next

\* No record of the conversation that waits below the cap comes before the one
\* whose hook is called.
LEMMA NobodyWaits ==
  ASSUME IInv, OrderInv, CountAttempt, Current(Head1.id, Head1.rec), NEW e \in pass.listed,
         e.id < Head1.id, Origin[e.id] = "relay", work[e.id] # NoWork,
         Content[e.id] \notin {"denied", "silent"}, work[e.id].attempts < Cap,
         e.id \notin accepted, KeyOf(e.id, e.rec) = Conversation[Head1.id]
  PROVE  FALSE
<1> DEFINE h == Head1.id
           s == pass.todo
<1>1. pass # NoPass /\ pass.at = "process" /\ ~IsBlocked(h, Conversation[h])
  BY DEF CountAttempt, Delivering, Processing
<1>2. /\ AtRecord /\ h \in Records /\ PassInv
  BY <1>1, BusyFacts
<1>3. /\ s \in Seq(Entries) /\ Len(s) \in Nat \ {0} /\ Head1 = s[1]
      /\ OrderOK(pass, work, done, accepted, restored) /\ TodoOK(s, work, done, accepted)
  BY <1>1, <1>2, HeadFacts DEF AtRecord, OrderInv, PassInv
<1>4. e.id \in Records /\ e.rec \in WorkRecord
  BY <1>3 DEF OrderOK, Entries
<1>5. h \in Int /\ e.id \in Int /\ pass.blocked \in [Keys -> Int] /\ Conversation[h] \in Keys
  <2>1. h \in Int /\ e.id \in Int
    BY <1>2, <1>4, RecordNumber
  <2>2. pass.blocked \in [Keys -> Int]
    BY <1>3 DEF OrderOK
  <2>3. Conversation[h] \in Keys
    BY <1>2, QueueAssumption
  <2> QED BY <2>1, <2>2, <2>3
<1>6. work[e.id].attempts \in Nat /\ Cap \in Nat
  BY <1>4, QueueAssumption DEF IInv, StoreInv, WorkRecord
<1>7. ~Settled(work, done, accepted, e.id)
  BY <1>6 DEF Settled
<1>8. ~HoldsUp(pass.blocked, restored, e)
  <2>1. Key(restored, e.id, e.rec) = Conversation[h]
    BY <1>4, KeyType
  <2>2. pass.blocked[Conversation[h]] \in Int
    <3> HIDE DEF Keys
    <3> QED BY <1>5
  <2> QED BY <1>1, <1>5, <2>1, <2>2 DEF HoldsUp, IsBlocked
<1>9. PICK i \in 1 .. Len(s) : s[i].id = e.id
  BY <1>3, <1>7, <1>8 DEF OrderOK, Waits
<1>10. i # 1 /\ 1 \in 1 .. Len(s) /\ 1 < i
  <2>1. i # 1
    BY <1>3, <1>5, <1>9
  <2> HIDE DEF s
  <2> QED BY <1>3, <2>1
<1>11. s[i].rec.attempts >= Cap
  <2>1. s[1].id < s[i].id \/ s[i].rec.attempts >= Cap
    BY <1>3, <1>10 DEF OrderOK, Sorted
  <2> QED BY <1>3, <1>5, <1>9, <2>1
<1>12. work[e.id] = s[i].rec
  <2>1. CopyOK(work, done, accepted, s[i])
    BY <1>3 DEF TodoOK
  <2> QED BY <1>9, <2>1 DEF CopyOK
<1> QED BY <1>6, <1>11, <1>12

\* The hook gets the records of one conversation in arrival order, whatever the receive
\* paths, the application, failures of the store and crashes do while a pass runs.
THEOREM DeliveriesAreOrdered == Spec => DeliveredInOrder
<1> DEFINE P == pass # NoPass /\ pass' # NoPass /\ pass.at = "process" /\ pass'.at = "hook" =>
                  \A e \in pass.listed :
                    ~(/\ e.id < Head1.id /\ Origin[e.id] = "relay"
                      /\ work[e.id] # NoWork /\ work[e.id].stage = "decrypted"
                      /\ Content[e.id] \notin {"denied", "silent"}
                      /\ work[e.id].attempts < Cap
                      /\ e.id \notin accepted
                      /\ KeyOf(e.id, e.rec) = Conversation[Head1.id])
<1>1. Init => OrderInv
  BY DEF Init, OrderInv
<1>2. IInv /\ OrderInv /\ [Next]_vars => OrderInv'
  BY NextOrder
<1>3. ASSUME IInv, OrderInv, [Next]_vars PROVE [P]_vars
  <2> SUFFICES ASSUME pass # NoPass, pass' # NoPass, pass.at = "process", pass'.at = "hook",
                      NEW e \in pass.listed,
                      e.id < Head1.id, Origin[e.id] = "relay", work[e.id] # NoWork,
                      Content[e.id] \notin {"denied", "silent"}, work[e.id].attempts < Cap,
                      e.id \notin accepted, KeyOf(e.id, e.rec) = Conversation[Head1.id]
               PROVE  FALSE
    BY Zenon
  <2>1. CountAttempt /\ Current(Head1.id, Head1.rec)
    BY <1>3, OnlyCountCalls, CountShape
  <2> QED BY <1>3, <2>1, NobodyWaits
<1> QED BY <1>1, <1>2, <1>3, Invariance, PTL DEF Spec, DeliveredInOrder

-----------------------------------------------------------------------------
(* What the application has removed.                                       *)

\* The pass will send no receipt for the record: a copy of a record of the Relay is
\* the stored record, and the application removes none that owes its receipt.
Unsent(p, r) ==
  p # NoPass =>
    \A i \in 1 .. Len(p.todo) : p.todo[i].id = r => p.todo[i].rec.stage # "receipt-due"

RemovedInv == \A r \in removed : r \in Records /\ Gone(r) /\ r \notin inFlight /\ Unsent(pass, r)

Stands(r) == work'[r] = NoWork /\ done'[r] = done[r] /\ r \notin inFlight' /\ Unsent(pass', r)

\* No write finds the revision of a record that is gone.
LEMMA GoneStays ==
  ASSUME StoreInv, NEW q \in Records, NEW r \in Records, Gone(r), NEW rec,
         \/ \E new : Put(q, rec, new) /\ done' = done
         \/ \E outcome : Complete(q, rec, outcome)
         \/ UNCHANGED store
  PROVE  work'[r] = NoWork /\ done'[r] = done[r]
<1>1. ~Current(r, rec)
  BY DEF Gone, Current
<1>2. ASSUME NEW new, Put(q, rec, new), done' = done PROVE work'[r] = NoWork
  BY <1>1, <1>2 DEF Put, Gone, StoreInv
<1>3. ASSUME NEW outcome, Complete(q, rec, outcome) PROVE work'[r] = NoWork /\ done'[r] = done[r]
  BY <1>1, <1>3 DEF Complete, Gone, StoreInv, store
<1> QED BY <1>2, <1>3 DEF Gone, store

\* The pass goes on to its next record.
LEMMA UnsentTail ==
  ASSUME PassInv, pass # NoPass, pass.todo # <<>>, Advances(pass'), NEW r, Unsent(pass, r)
  PROVE  Unsent(pass', r)
<1>1. pass.todo \in Seq(Entries)
  BY DEF PassInv, TodoOK
<1>2. \A i \in 1 .. Len(Tail(pass.todo)) :
        i + 1 \in 1 .. Len(pass.todo) /\ Tail(pass.todo)[i] = pass.todo[i + 1]
  BY <1>1, TailFacts
<1>3. pass'.todo = Tail(pass.todo)
  BY DEF Advances
<1> QED BY <1>2, <1>3 DEF Unsent

\* A step of the pass at a record.
LEMMA PassLeavesRemoved ==
  ASSUME IInv, RemovedInv, AtRecord, NEW r \in removed, NEW rec,
         \/ \E new : Put(Head1.id, rec, new) /\ done' = done
         \/ \E outcome : Complete(Head1.id, rec, outcome)
         \/ UNCHANGED store,
         inFlight' = inFlight, Advances(pass') \/ (\E at : pass' = [pass EXCEPT !.at = at])
  PROVE  Stands(r)
<1>1. r \in Records /\ Gone(r) /\ r \notin inFlight /\ Unsent(pass, r)
  BY DEF RemovedInv
<1>2. StoreInv /\ PassInv /\ Head1.id \in Records /\ pass # NoPass /\ pass.todo # <<>>
  BY HeadFacts DEF IInv, AtRecord
<1>3. work'[r] = NoWork /\ done'[r] = done[r]
  BY <1>1, <1>2, GoneStays
<1>4. CASE Advances(pass')
  BY <1>1, <1>2, <1>3, <1>4, UnsentTail DEF Stands
<1>5. CASE \E at : pass' = [pass EXCEPT !.at = at]
  <2>1. pass'.todo = pass.todo
    BY <1>2, <1>5 DEF PassInv, PassType, PassFields
  <2> QED BY <1>1, <1>2, <1>3, <2>1 DEF Stands, Unsent
<1> QED BY <1>4, <1>5

\* step(), up to its first await.
LEMMA VisitLeavesRemoved ==
  ASSUME IInv, RemovedInv, Visit, NEW r \in removed PROVE Stands(r)
<1> DEFINE h == Head1.id
           rec == Head1.rec
<1>0. AtRecord /\ pass # NoPass /\ pass.todo # <<>>
  BY DEF Visit, AtRecord
<1>1. \A key, wait : Advances(Advance(wait)) /\ Advances(AdvanceBlocking(key, wait))
  BY <1>0, BusyFacts
<1>2. CASE SkipRecord
  <2>1. done' = done /\ inFlight' = inFlight /\ Advances(pass')
    BY <1>1, <1>2 DEF SkipRecord, memory
  <2>2. UNCHANGED store \/ Put(h, rec, [rec EXCEPT !.blocked = TRUE])
    BY <1>2, <2>1 DEF SkipRecord, store
  <2> HIDE DEF h, rec
  <2> QED BY <1>0, <2>1, <2>2, PassLeavesRemoved DEF h
<1>3. CASE SendReceipt
  <2>1. UNCHANGED store /\ Verdict(h, rec) = "receipt" /\ inFlight' \subseteq inFlight \cup {h}
    BY <1>3 DEF SendReceipt
  <2>2. Advances(pass')
    BY <1>1, <1>3 DEF SendReceipt
  <2>3. rec.stage = "receipt-due"
    BY <2>1 DEF Verdict
  <2>4. PassInv /\ Head1 = pass.todo[1] /\ 1 \in 1 .. Len(pass.todo)
    BY <1>0, HeadFacts DEF IInv
  <2>5. r # h /\ r \notin inFlight /\ Gone(r) /\ Unsent(pass, r)
    BY <1>0, <2>3, <2>4 DEF RemovedInv, Unsent
  <2>6. work' = work /\ done' = done
    BY <2>1 DEF store
  <2> QED BY <1>0, <2>1, <2>2, <2>4, <2>5, <2>6, UnsentTail DEF Stands, Gone
<1>4. CASE EndReceipt
  <2>1. Complete(h, rec, "delivered") /\ inFlight' = inFlight /\ Advances(pass')
    BY <1>1, <1>4 DEF EndReceipt
  <2> QED BY <1>0, <2>1, PassLeavesRemoved
<1>5. CASE ReadExpired \/ TakeRecord
  <2>1. UNCHANGED store /\ inFlight' = inFlight
    BY <1>5 DEF ReadExpired, TakeRecord, memory
  <2>2. Advances(pass') \/ \E at : pass' = [pass EXCEPT !.at = at]
    BY <1>1, <1>5 DEF ReadExpired, TakeRecord
  <2> QED BY <1>0, <2>1, <2>2, PassLeavesRemoved
<1> QED BY <1>2, <1>3, <1>4, <1>5 DEF Visit

\* The attempt is counted for a stored record only.
LEMMA CountLeavesRemoved ==
  ASSUME IInv, RemovedInv, CountAttempt, NEW r \in removed PROVE Stands(r)
<1>1. /\ pass # NoPass /\ pass.at = "process" /\ inFlight' = inFlight /\ done' = done
  BY DEF CountAttempt, Delivering, Processing
<1>2. /\ AtRecord /\ Head1.id \in Records /\ Head1 = pass.todo[1] /\ PassInv /\ StoreInv
  BY <1>1, BusyFacts DEF IInv
<1>3. CASE UNCHANGED <<work, offered>> /\ Advances(pass')
  <2>1. UNCHANGED store
    BY <1>1, <1>3 DEF store
  <2> QED BY <1>1, <1>2, <1>3, <2>1, PassLeavesRemoved
<1>4. CASE ~(UNCHANGED <<work, offered>> /\ Advances(pass'))
  <2>1. Current(Head1.id, Head1.rec) /\ KeptBut(Head1.id)
    BY <1>4, CountShape
  <2>2. r # Head1.id /\ r \in Records /\ Gone(r) /\ r \notin inFlight /\ Unsent(pass, r)
    BY <2>1 DEF RemovedInv, Gone, Current
  <2>3. PICK n : pass'.todo = [pass.todo EXCEPT ![1] = [id |-> Head1.id, rec |-> n]]
    BY <1>4, CountShape
  <2>4. pass.todo \in Seq(Entries) /\ Len(pass.todo) \in Nat
    BY <1>1, <1>2, HeadFacts DEF AtRecord
  <2>5. /\ Len(pass'.todo) = Len(pass.todo)
        /\ \A i \in 1 .. Len(pass.todo) :
             pass'.todo[i] = pass.todo[i] \/ pass'.todo[i].id = Head1.id
    BY <2>3, <2>4
  <2>6. Unsent(pass', r)
    BY <1>1, <2>2, <2>5 DEF Unsent
  <2>7. work'[r] = NoWork /\ done'[r] = done[r]
    BY <2>1, <2>2 DEF KeptBut, Kept, Gone
  <2> QED BY <1>1, <2>2, <2>6, <2>7 DEF Stands
<1> QED BY <1>3, <1>4

\* The other steps of the pass at a record.
LEMMA RecordLeavesRemoved ==
  ASSUME IInv, RemovedInv, NEW r \in removed,
         \/ ReportExpired \/ Expire \/ Consume \/ WaitRestored \/ HandToCaller
         \/ HookAccepts \/ HookRejects \/ Finish \/ StepFails
  PROVE  Stands(r)
<1> DEFINE h == Head1.id
           rec == Head1.rec
<1>0. AtRecord /\ h \in Records
      /\ \A key, wait : Advances(Advance(wait)) /\ Advances(AdvanceBlocking(key, wait))
  <2>1. pass # NoPass /\ (pass.at # "visit" \/ pass.todo # <<>>)
    BY DEF ReportExpired, Expire, Consume, WaitRestored, HandToCaller, HookAccepts, HookRejects,
       Finish, StepFails, Delivering, Processing
  <2> QED BY <2>1, BusyFacts
<1>1. CASE ReportExpired \/ HookAccepts \/ HookRejects \/ StepFails
  <2>1. UNCHANGED store /\ inFlight' = inFlight
    BY <1>1 DEF ReportExpired, HookAccepts, HookRejects, StepFails, memory
  <2>2. Advances(pass') \/ \E at : pass' = [pass EXCEPT !.at = at]
    BY <1>0, <1>1 DEF ReportExpired, HookAccepts, HookRejects, StepFails
  <2> QED BY <1>0, <2>1, <2>2, PassLeavesRemoved
<1>2. CASE Expire \/ Consume
  <2>1. (\E o : Complete(h, rec, o)) /\ inFlight' = inFlight /\ Advances(pass')
    BY <1>0, <1>2 DEF Expire, Consume
  <2> QED BY <1>0, <2>1, PassLeavesRemoved
<1>3. CASE WaitRestored \/ HandToCaller
  <2>1. done' = done /\ inFlight' = inFlight /\ Advances(pass')
    BY <1>0, <1>3 DEF WaitRestored, HandToCaller
  <2>2. UNCHANGED store \/ \E new : Put(h, rec, new)
    BY <1>3, <2>1 DEF WaitRestored, HandToCaller, store
  <2> HIDE DEF h, rec
  <2> QED BY <1>0, <2>1, <2>2, PassLeavesRemoved DEF h
<1>4. CASE Finish /\ h \notin OwesReceipt
  <2>1. Complete(h, rec, "delivered") /\ inFlight' = inFlight /\ Advances(pass')
    BY <1>0, <1>4 DEF Finish
  <2> QED BY <1>0, <2>1, PassLeavesRemoved
<1>5. CASE Finish /\ h \in OwesReceipt
  <2>1. /\ \E new : Put(h, rec, new)
        /\ done' = done /\ Advances(pass')
        /\ inFlight' = IF Current(h, rec) THEN inFlight \cup {h} ELSE inFlight
    BY <1>0, <1>5 DEF Finish
  <2>2. r \in Records /\ Gone(r) /\ r \notin inFlight /\ Unsent(pass, r)
    BY DEF RemovedInv
  <2>3. r \notin inFlight'
    BY <2>1, <2>2 DEF Gone, Current
  <2>4. work'[r] = NoWork /\ done'[r] = done[r]
    BY <1>0, <2>1, <2>2, GoneStays DEF IInv
  <2>5. Unsent(pass', r)
    BY <1>0, <2>1, <2>2, UnsentTail DEF IInv, AtRecord
  <2> QED BY <2>3, <2>4, <2>5 DEF Stands
<1> QED BY <1>1, <1>2, <1>3, <1>4, <1>5

\* The start of a pass lists the stored records, and its end none.
LEMMA TurnsLeaveRemoved ==
  ASSUME IInv, RemovedInv, NEW r \in removed,
         StartPass \/ StartCalledPass \/ EndPass \/ Deadline \/ Stop \/ Crash
  PROVE  Stands(r)
<1>1. UNCHANGED store /\ inFlight' \subseteq inFlight
  BY DEF StartPass, StartCalledPass, EndPass, Deadline, Stop, Crash, memory
<1>2. r \in Records /\ Gone(r) /\ r \notin inFlight /\ Unsent(pass, r)
  BY DEF RemovedInv
<1>3. pass' = NoPass \/ pass' = pass \/ \E mode : pass' = NewPass(mode)
  BY DEF StartPass, StartCalledPass, EndPass, Deadline, Stop, Crash, LosesMemory
<1>4. ASSUME NEW mode, pass' = NewPass(mode) PROVE Unsent(pass', r)
  <2>1. /\ \A i \in 1 .. Len(pass'.todo) : pass'.todo[i].rec = work[pass'.todo[i].id]
        /\ pass'.todo \in Seq(Entries)
    BY <1>4, NewPassShape DEF IInv, TodoOK
  <2>2. \A i \in 1 .. Len(pass'.todo) : pass'.todo[i].rec \in WorkRecord
    <3> DEFINE s == pass'.todo
    <3>1. s \in Seq(Entries)
      BY <2>1
    <3> HIDE DEF s
    <3>2. \A i \in 1 .. Len(s) : s[i] \in Entries
      BY <3>1
    <3>3. \A i \in 1 .. Len(s) : s[i].rec \in WorkRecord
      BY <3>2 DEF Entries
    <3> QED BY <3>3 DEF s
  <2>3. \A i \in 1 .. Len(pass'.todo) : pass'.todo[i].id # r
    BY <1>2, <2>1, <2>2, QueueAssumption DEF Gone
  <2> QED BY <2>3 DEF Unsent
<1>5. Unsent(pass', r)
  BY <1>2, <1>3, <1>4 DEF Unsent
<1> QED BY <1>1, <1>2, <1>5 DEF Stands, store, Gone

\* The steps outside of a pass.
LEMMA OthersLeaveRemoved ==
  ASSUME IInv, RemovedInv, NEW r \in removed,
         \/ TimerFires \/ Resume \/ Tick \/ PassFails \/ RegisterHook \/ ProcessPending \/ Start
         \/ \E g \in Groups : GroupFetched(g)
         \/ \E q \in Records : BeginReceive(q) \/ EndReceive(q) \/ CommitReceive(q)
                                 \/ CallerDecides(q) \/ Discard(q) \/ CompleteReceive(q)
                                 \/ ReceiptSettles(q)
         \/ UNCHANGED vars
  PROVE  Stands(r)
<1>1. r \in Records /\ Gone(r) /\ r \notin inFlight /\ Unsent(pass, r) /\ StoreInv
  BY DEF RemovedInv, IInv
<1>2. pass' = pass /\ inFlight' \subseteq inFlight
  BY DEF TimerFires, Resume, Tick, PassFails, RegisterHook, ProcessPending, Start, GroupFetched,
     BeginReceive, EndReceive, CommitReceive, CallerDecides, Discard, CompleteReceive,
     ReceiptSettles, vars, memory
<1> SUFFICES work'[r] = NoWork /\ done'[r] = done[r]
  BY <1>1, <1>2 DEF Stands
<1>3. ASSUME NEW q \in Records, CommitReceive(q) PROVE work'[r] = NoWork /\ done'[r] = done[r]
  <2>1. /\ done' = done
        /\ \/ work' = [work EXCEPT ![q] = work[q]]
           \/ work' = [work EXCEPT ![q] = NewWork(q)] /\ done[q] = "none"
    BY <1>3, Zenon DEF CommitReceive
  <2> QED BY <1>1, <2>1 DEF Gone, StoreInv
<1>4. ASSUME NEW q \in Records, CallerDecides(q) \/ Discard(q) \/ CompleteReceive(q)
      PROVE  work'[r] = NoWork /\ done'[r] = done[r]
  <2>1. \E rec : \/ \E new : Put(q, rec, new) /\ done' = done
                 \/ \E outcome : Complete(q, rec, outcome)
    BY <1>4 DEF CallerDecides, Discard, CompleteReceive
  <2> QED BY <1>1, <2>1, GoneStays
<1>5. ASSUME NEW q \in Records, ReceiptSettles(q) PROVE work'[r] = NoWork /\ done'[r] = done[r]
  <2>1. (\E outcome : Complete(q, work[q], outcome)) \/ UNCHANGED store
    BY <1>5 DEF ReceiptSettles, ReceiptSent, ReceiptFailed, store
  <2> QED BY <1>1, <2>1, GoneStays
<1>6. CASE UNCHANGED store
  BY <1>1, <1>6 DEF store, Gone
<1>7. CASE \/ TimerFires \/ Resume \/ Tick \/ PassFails \/ RegisterHook \/ ProcessPending \/ Start
           \/ (\E g \in Groups : GroupFetched(g))
           \/ (\E q \in Records : BeginReceive(q) \/ EndReceive(q)) \/ UNCHANGED vars
  BY <1>6, <1>7 DEF TimerFires, Resume, Tick, PassFails, RegisterHook, ProcessPending, Start,
     GroupFetched, BeginReceive, EndReceive, vars
<1> QED BY <1>3, <1>4, <1>5, <1>7

\* No step gives a removed record back.
LEMMA RemovedStand ==
  ASSUME IInv, RemovedInv, [Next]_vars, NEW r \in removed PROVE Stands(r)
<1>1. CASE PassStep \/ StepFails \/ Deadline \/ Stop \/ Crash
  BY <1>1, VisitLeavesRemoved, CountLeavesRemoved, RecordLeavesRemoved, TurnsLeaveRemoved
  DEF PassStep
<1>2. CASE ~(PassStep \/ StepFails \/ Deadline \/ Stop \/ Crash)
  BY <1>2, OthersLeaveRemoved DEF Next, ReceiveStep
<1> QED BY <1>1, <1>2

\* The application removes a record that owes no receipt.
LEMMA RemovalIsClean ==
  ASSUME IInv, NEW r \in Records, Discard(r) \/ CompleteReceive(r)
  PROVE  /\ removed' = removed \cup {r} /\ Gone(r)' /\ r \notin inFlight' /\ Unsent(pass', r)
<1>1. /\ work[r] # NoWork /\ work[r].stage # "receipt-due" /\ removed' = removed \cup {r}
      /\ pass' = pass /\ inFlight' = inFlight /\ Grows
  BY DEF Discard, CompleteReceive, memory, Grows
<1>2. PICK o \in {"expired", "delivered"} : Complete(r, work[r], o)
  BY DEF Discard, CompleteReceive
<1>3. GoneAfter(r)
  <2>1. o \in Outcomes \ {"none"} /\ Current(r, work[r])
    BY <1>1 DEF Outcomes, Current
  <2> QED BY <1>1, <1>2, <2>1, Completes DEF IInv
<1>4. r \notin inFlight
  BY <1>1 DEF IInv, ReceiptInv, Gone
<1>5. Unsent(pass, r)
  <2> SUFFICES ASSUME pass # NoPass, NEW i \in 1 .. Len(pass.todo), pass.todo[i].id = r,
                      pass.todo[i].rec.stage = "receipt-due"
               PROVE  FALSE
    BY DEF Unsent
  <2>1. CopyOK(work, done, accepted, pass.todo[i])
    BY DEF IInv, PassInv, TodoOK
  <2> QED BY <1>1, <2>1 DEF CopyOK, Sound
<1> QED BY <1>1, <1>3, <1>4, <1>5 DEF GoneAfter, Gone

\* Only the application removes.
LEMMA OnlyRemovals ==
  ASSUME [Next]_vars
  PROVE  removed' = removed \/ \E r \in Records : Discard(r) \/ CompleteReceive(r)
<1>1. CASE \E r \in Records : ReceiveStep(r) \/ ReceiptSettles(r)
  BY <1>1 DEF ReceiveStep, BeginReceive, CommitReceive, CallerDecides, EndReceive, ReceiptSettles,
     history
<1>2. CASE PassStep
  BY <1>2 DEF PassStep, StartPass, StartCalledPass, Visit, ReportExpired, Expire, Consume,
     WaitRestored, HandToCaller, CountAttempt, HookAccepts, HookRejects, Finish, EndPass,
     PassOnly, history
<1>3. CASE PassFails \/ StepFails \/ Deadline \/ TimerFires \/ Resume \/ Tick
  BY <1>3 DEF PassFails, StepFails, Deadline, TimerFires, Resume, Tick, PassOnly, history
<1>4. CASE \/ (\E g \in Groups : GroupFetched(g)) \/ RegisterHook \/ ProcessPending
           \/ Start \/ Stop \/ Crash \/ UNCHANGED vars
  BY <1>4 DEF GroupFetched, RegisterHook, ProcessPending, Start, Stop, Crash, vars, history
<1> QED BY <1>1, <1>2, <1>3, <1>4 DEF Next

\* What the application has completed or discarded stays so, whichever copy of the
\* record a pass that listed it or a receive path that read it still holds: no write
\* brings it back, its outcome stays, and no receipt follows.
THEOREM RemovalsStand == Spec => RemovalStands
<1>1. Init => RemovedInv
  BY DEF Init, RemovedInv
<1>2. IInv /\ RemovedInv /\ [Next]_vars => RemovedInv'
  <2> SUFFICES ASSUME IInv, RemovedInv, [Next]_vars PROVE RemovedInv'
    OBVIOUS
  <2>1. \A r \in removed : r \in Records /\ Gone(r)' /\ r \notin inFlight' /\ Unsent(pass', r)
    BY RemovedStand DEF RemovedInv, Stands, Gone
  <2>2. CASE removed' = removed
    BY <2>1, <2>2 DEF RemovedInv, Gone, Unsent
  <2>3. CASE \E r \in Records : Discard(r) \/ CompleteReceive(r)
    BY <2>1, <2>3, RemovalIsClean DEF RemovedInv, Gone, Unsent
  <2> QED BY <2>2, <2>3, OnlyRemovals
<1>3. ASSUME IInv, RemovedInv, [Next]_vars
      PROVE  [\A r \in removed : work'[r] = NoWork /\ done'[r] = done[r] /\ r \notin inFlight']_vars
  BY <1>3, RemovedStand DEF Stands
<1> QED BY <1>1, <1>2, <1>3, Invariance, PTL DEF Spec, RemovalStands
=============================================================================
