--------------------------- MODULE Gateway_proofs ---------------------------
(***************************************************************************)
(* Theorems about Gateway, for any payloads, any number of deliveries and  *)
(* any bounds on the faults.  What Normalization computes matters to the   *)
(* last two only: to the others a key is a value.                          *)
(***************************************************************************)
EXTENDS Gateway, EnquiryQueue_proofs, Normalization_proofs

-----------------------------------------------------------------------------
(* The gateway does to the queue what EnquiryQueue says.                   *)

LEMMA DeliverySimulates ==
  ASSUME GatewayTypeOK, NEW d \in Deliveries, DeliveryStep(d)
  PROVE  [Next]_vars
  <1>1. ASSUME NEW p, Deliver(d, p) PROVE UNCHANGED vars
    BY <1>1 DEF Deliver
  <1>2. CASE Redeliver(d) \/ Conflict(d) \/ LookUp(d) \/ Answer(d) \/ Break(d)
    BY <1>2 DEF Redeliver, Conflict, LookUp, Answer, Break
  <1>3. ASSUME NEW e \in Enquiries, Accept(d, e) \/ AcceptUnreported(d, e) PROVE Next
    BY <1>3 DEF Accept, AcceptUnreported, Next, RowStep
  <1>4. ASSUME Signal(d) PROVE Next
    <2>1. found[d] \in Enquiries
      BY <1>4 DEF Signal, GatewayTypeOK
    <2> QED
      BY <1>4, <2>1 DEF Signal, Next, RowStep
  <1> QED
    BY <1>1, <1>2, <1>3, <1>4 DEF DeliveryStep

LEMMA GatewaySimulates ==
  ASSUME GatewayTypeOK, [GatewayNext]_allVars
  PROVE  [Next]_vars
  <1>1. ASSUME NEW d \in Deliveries, DeliveryStep(d) PROVE [Next]_vars
    BY <1>1, DeliverySimulates
  <1>2. ASSUME Behind PROVE [Next]_vars
    BY <1>2 DEF Behind, Next, RowStep
  <1>3. ASSUME ProcessDies PROVE [Next]_vars
    BY <1>3 DEF ProcessDies, Next
  <1>4. ASSUME UNCHANGED allVars PROVE [Next]_vars
    BY <1>4 DEF allVars
  <1> QED
    BY <1>1, <1>2, <1>3, <1>4 DEF GatewayNext

-----------------------------------------------------------------------------
(* Types.                                                                  *)

HeldIsThere == \A w \in Workers : held[w] # None => status[held[w]] # "absent"

SameRows == \A e \in Enquiries : status'[e] = "absent" <=> status[e] = "absent"

\* A worker writes rows it claimed, and claims rows that are there.
LEMMA WorkerKeepsRows ==
  ASSUME TypeOK, HeldIsThere, NEW w \in Workers, WorkerStep(w)
  PROVE  SameRows
  <1> USE QueueAssumption DEF TypeOK, HeldIsThere, SameRows, Busy, row, local, hist, reviews
  <1>1. ASSUME NEW e \in Enquiries, Claimable(e), ClaimRow(e) PROVE SameRows
    BY <1>1 DEF Claimable, ClaimRow
  <1>2. CASE \E e \in Enquiries : Claim(w, e)
    BY <1>2, <1>1 DEF Claim
  <1>3. CASE ClaimFails(w)
    BY <1>3, <1>1 DEF ClaimFails
  <1>4. CASE ClaimNothing(w) \/ TakeWake(w) \/ Tick(w) \/ Return(w) \/ RunFails(w) \/ FailNotRecorded(w)
    BY <1>4 DEF ClaimNothing, TakeWake, Tick, Return, RunFails, FailNotRecorded
  <1>5. ASSUME NEW s \in Outcomes, Finish(w, s) \/ AnswerLost(w, s) PROVE SameRows
    BY <1>5 DEF Finish, AnswerLost, SetStatus
  <1>6. CASE Release(w) \/ Retry(w) \/ DeadLetter(w)
    BY <1>6 DEF Release, Retry, DeadLetter, Requeue, SetStatus
  <1> QED
    BY <1>2, <1>3, <1>4, <1>5, <1>6 DEF WorkerStep

\* Only a delivery makes a row.
LEMMA BehindKeepsRows ==
  ASSUME TypeOK, HeldIsThere, Behind \/ ProcessDies
  PROVE  SameRows
  <1>1. ASSUME NEW w \in Workers, WorkerStep(w) PROVE SameRows
    BY <1>1, WorkerKeepsRows
  <1>2. ASSUME NEW e \in Enquiries, OrphanExpires(e) \/ Overrun(e) \/ BackoffElapses(e) PROVE SameRows
    BY <1>2 DEF OrphanExpires, Overrun, LeaseExpires, BackoffElapses, SameRows
  <1>3. CASE Stop \/ Start \/ Exit \/ Crash
    BY <1>3 DEF Stop, Start, Exit, Crash, ProcessEnds, SameRows, row
  <1> QED
    BY <1>1, <1>2, <1>3 DEF Behind, ProcessDies

LEMMA HeldStep ==
  ASSUME TypeOK, HeldIsThere, [Next]_vars, \A e \in Enquiries : status[e] # "absent" => status'[e] # "absent"
  PROVE  HeldIsThere'
  <1> USE QueueAssumption DEF TypeOK, HeldIsThere, Busy, row, local, hist, reviews
  <1>1. ASSUME NEW w \in Workers, held'[w] = held[w] \/ held'[w] = None
        PROVE held'[w] # None => status'[held'[w]] # "absent"
    BY <1>1
  <1>2. ASSUME NEW w \in Workers, NEW e \in Enquiries, Claim(w, e) PROVE HeldIsThere'
    BY <1>2 DEF Claim, Claimable, ClaimRow
  <1>3. ASSUME \A w \in Workers : held'[w] = held[w] \/ held'[w] = None PROVE HeldIsThere'
    BY <1>3, <1>1
  <1>4. ASSUME NEW w \in Workers, WorkerStep(w), ~\E e \in Enquiries : Claim(w, e) PROVE HeldIsThere'
    <2>1. \A v \in Workers : held'[v] = held[v] \/ held'[v] = None
      BY <1>4 DEF WorkerStep, ClaimNothing, ClaimFails, TakeWake, Tick, Return, Finish, AnswerLost,
                  RunFails, Release, DeadLetter, Retry, FailNotRecorded, BackToLoop
    <2> QED
      BY <2>1, <1>3
  <1>5. ASSUME NEW e \in Enquiries, RowStep(e) PROVE held' = held
    BY <1>5 DEF RowStep, Insert, InsertUnreported, InsertRow, Wake, OrphanExpires, Overrun,
                LeaseExpires, BackoffElapses, Decide, Resolve
  <1>6. ASSUME Stop \/ Exit \/ Crash \/ Start \/ UNCHANGED vars
        PROVE \A w \in Workers : held'[w] = held[w] \/ held'[w] = None
    BY <1>6 DEF Stop, Exit, Crash, Start, ProcessEnds, vars
  <1> QED
    BY <1>2, <1>3, <1>4, <1>5, <1>6 DEF Next

\* What a sender carries has a key.
LEMMA CarriedHasKey ==
  \A d \in Deliveries : \A p \in Payloads[d] :
      p \in Carried /\ p # None /\ IdempotencyKey(p) \in KeysInUse /\ IdempotencyKey(p) # None
  BY GatewayAssumption DEF Carried, KeysInUse

GatewayBase == GatewayTypeOK /\ HeldIsThere

\* A request's row, key and place agree after each of its steps.
LEMMA DeliveryType ==
  ASSUME GatewayBase, NEW d \in Deliveries, DeliveryStep(d)
  PROVE  GatewayTypeOK' /\ \A e \in Enquiries : status[e] # "absent" => status'[e] # "absent"
  <1> USE QueueAssumption, GatewayAssumption
      DEF GatewayBase, GatewayTypeOK, Handling, Goto, Rows, gatewayVars
  <1>t. TypeOK'
    BY DeliverySimulates, TypeStep
  <1>1. ASSUME NEW p \in Payloads[d], Deliver(d, p)
        PROVE GatewayTypeOK' /\ status' = status
    BY <1>1, <1>t, CarriedHasKey DEF Deliver, vars, row
  <1>2. ASSUME Redeliver(d) \/ Conflict(d) PROVE GatewayTypeOK' /\ status' = status
    BY <1>2, <1>t DEF Redeliver, Conflict, vars, row
  <1>3. ASSUME LookUp(d) PROVE GatewayTypeOK' /\ status' = status
    BY <1>3, <1>t DEF LookUp, Original, Stored, vars, row
  <1>4. ASSUME Answer(d) PROVE GatewayTypeOK' /\ status' = status
    BY <1>4, <1>t DEF Answer, vars, row
  <1>5. ASSUME Break(d) PROVE GatewayTypeOK' /\ status' = status
    BY <1>5, <1>t DEF Break, vars, row
  <1>6. ASSUME Signal(d) PROVE GatewayTypeOK' /\ status' = status
    BY <1>6, <1>t DEF Signal, Wake, vars, row
  <1>7. ASSUME NEW e \in Enquiries, Accept(d, e) \/ AcceptUnreported(d, e)
        PROVE GatewayTypeOK' /\ \A f \in Enquiries : status[f] # "absent" => status'[f] # "absent"
    <2>1. status[e] = "absent" /\ status' = [status EXCEPT ![e] = "received"] /\ at[d] = "insert"
      BY <1>7 DEF Accept, AcceptUnreported, Free, Insert, InsertUnreported, InsertRow
    <2>2. status \in [Enquiries -> Statuses]
      BY DEF TypeOK
    <2>3. key[d] # None
      BY <2>1
    <2>4. idemKey' = [idemKey EXCEPT ![e] = key[d]]
      BY <1>7 DEF Accept, AcceptUnreported, Keep
    <2>5. \A f \in Enquiries : f \in Rows' <=> f = e \/ f \in Rows
      BY <2>1, <2>2
    <2>6. \A f \in Enquiries : f \in Rows' <=> idemKey'[f] # None
      BY <2>3, <2>4, <2>5
    <2>7. \A f \in Enquiries : status[f] # "absent" => status'[f] # "absent"
      BY <2>1, <2>2
    <2>8. key[d] \in KeysInUse /\ payload[d] # None /\ ack[d] = None
      BY <2>1, <2>3
    <2>9. idemKey' \in [Enquiries -> KeysInUse \cup {None}]
      BY <2>4, <2>8
    <2>10. payload' = payload /\ key' = key /\ ack' = ack /\ broken' = broken
      BY <1>7 DEF Accept, AcceptUnreported
    <2>11. CASE Accept(d, e)
      <3>1. found' = [found EXCEPT ![d] = e] /\ at' = [at EXCEPT ![d] = "wake"]
        BY <2>11 DEF Accept
      <3>2. \A c \in Deliveries :
              /\ at'[c] = "unsent" <=> payload[c] = None
              /\ at'[c] \in {"wake", "answer"} <=> found'[c] # None
              /\ at'[c] = "done" <=> ack[c] # None
        BY <3>1, <2>1, <2>8
      <3> QED
        BY <3>1, <3>2, <2>6, <2>7, <2>9, <2>10, <1>t
    <2>12. CASE AcceptUnreported(d, e)
      <3>1. found' = found /\ at' = [at EXCEPT ![d] = "waiting"]
        BY <2>12 DEF AcceptUnreported
      <3>2. \A c \in Deliveries :
              /\ at'[c] = "unsent" <=> payload[c] = None
              /\ at'[c] \in {"wake", "answer"} <=> found'[c] # None
              /\ at'[c] = "done" <=> ack[c] # None
        BY <3>1, <2>1, <2>8
      <3> QED
        BY <3>1, <3>2, <2>6, <2>7, <2>9, <2>10, <1>t
    <2> QED
      BY <1>7, <2>11, <2>12
  <1> QED
    BY <1>1, <1>2, <1>3, <1>4, <1>5, <1>6, <1>7 DEF DeliveryStep

LEMMA GatewayBaseStep ==
  GatewayBase /\ [GatewayNext]_allVars => GatewayBase'
  <1> SUFFICES ASSUME GatewayBase, [GatewayNext]_allVars PROVE GatewayBase'
    OBVIOUS
  <1> USE QueueAssumption, GatewayAssumption DEF GatewayBase
  <1>1. [Next]_vars
    BY GatewaySimulates
  <1>t. TypeOK /\ TypeOK'
    BY <1>1, TypeStep DEF GatewayTypeOK
  <1>2. ASSUME NEW d \in Deliveries, DeliveryStep(d) PROVE GatewayBase'
    BY <1>2, <1>1, <1>t, DeliveryType, HeldStep
  <1>3. ASSUME Behind PROVE GatewayBase'
    <2>1. SameRows
      BY <1>3, <1>t, BehindKeepsRows
    <2>2. HeldIsThere'
      BY <2>1, <1>1, <1>t, HeldStep DEF SameRows
    <2>3. GatewayTypeOK'
      BY <1>3, <2>1, <1>t DEF Behind, GatewayTypeOK, gatewayVars, Rows, SameRows
    <2> QED
      BY <2>2, <2>3
  <1>4. ASSUME ProcessDies PROVE GatewayBase'
    <2>1. SameRows
      BY <1>4, <1>t, BehindKeepsRows
    <2>2. HeldIsThere'
      BY <2>1, <1>1, <1>t, HeldStep DEF SameRows
    <2>3. GatewayTypeOK'
      BY <1>4, <2>1, <1>t DEF ProcessDies, GatewayTypeOK, Handling, Rows, SameRows
    <2> QED
      BY <2>2, <2>3
  <1>5. ASSUME UNCHANGED allVars PROVE GatewayBase'
    BY <1>5, <1>t DEF allVars, gatewayVars, vars, row, local, GatewayTypeOK, HeldIsThere, Rows
  <1> QED
    BY <1>2, <1>3, <1>4, <1>5 DEF GatewayNext

LEMMA GatewayBaseHolds == GatewaySpec => []GatewayBase
  <1>1. ASSUME GatewayInit PROVE GatewayBase
    <2>1. TypeOK
      BY <1>1, TypeInit DEF GatewayInit
    <2>2. HeldIsThere
      BY <1>1 DEF GatewayInit, Init, HeldIsThere
    <2> QED
      BY <1>1, <2>1, <2>2 DEF GatewayInit, Init, GatewayBase, GatewayTypeOK, Handling, Rows
  <1> QED
    BY <1>1, GatewayBaseStep, PTL DEF GatewaySpec

(***************************************************************************)
(* Types, and what ties the handlers to the table: a row has a key, and a  *)
(* handler has an enquiry in its hands exactly from the INSERT or the      *)
(* lookup until it answers.                                                *)
(***************************************************************************)
THEOREM GatewayTypeCorrect == GatewaySpec => []GatewayTypeOK
  BY GatewayBaseHolds, PTL DEF GatewayBase

(***************************************************************************)
(* Refinement: with the gateway in front, the table and the pool behave as *)
(* EnquiryQueue says, so its theorems hold of them.                        *)
(***************************************************************************)
THEOREM GatewayImplementsQueue == GatewaySpec => Spec
  <1>1. GatewayBase /\ [GatewayNext]_allVars => [Next]_vars
    BY GatewaySimulates DEF GatewayBase
  <1>2. GatewayInit => Init
    BY DEF GatewayInit
  <1> QED
    BY <1>1, <1>2, GatewayBaseHolds, PTL DEF GatewaySpec, Spec

(***************************************************************************)
(* The same for the gateway, however deliveries are repeated, cut off or   *)
(* raced; and, with a worker at all, no signal that one of them drops      *)
(* leaves an enquiry to the ticker alone.                                  *)
(***************************************************************************)
THEOREM GatewayKeepsTheQueue ==
  ASSUME Workers # {}
  PROVE  GatewaySpec => [](LeasedWhileProcessing /\ OneWorkerPerLease /\ DeadLetterExact
                           /\ RetryBudget /\ FreshIsNoticed)
  BY GatewayImplementsQueue, LeasesAgree, MutualExclusion, DeadLetterAfterBudget, ClaimsAreBounded,
     FreshAreNoticed, PTL

-----------------------------------------------------------------------------
(* One enquiry for each key.                                               *)

KeyedRows ==
  /\ \A e, f \in Enquiries : e \in Rows /\ f \in Rows /\ idemKey[e] = idemKey[f] => e = f
  /\ \A d \in Deliveries : found[d] # None => idemKey[found[d]] = key[d]
  /\ \A d \in Deliveries : ack[d] # None => idemKey[ack[d]] = key[d]

\* The unique index lets no second row in, and a row never loses its key.
LEMMA KeyedStep ==
  ASSUME GatewayBase, KeyedRows, [GatewayNext]_allVars
  PROVE  KeyedRows'
  <1> USE QueueAssumption, GatewayAssumption DEF KeyedRows, GatewayTypeOK, GatewayBase, Handling, Goto
  <1>t. TypeOK
    OBVIOUS
  <1>1. ASSUME NEW d \in Deliveries, NEW p \in Payloads[d], Deliver(d, p) PROVE KeyedRows'
    BY <1>1 DEF Deliver, vars, row, Rows
  <1>2. ASSUME NEW d \in Deliveries, Redeliver(d) \/ Conflict(d) \/ Break(d) PROVE KeyedRows'
    BY <1>2 DEF Redeliver, Conflict, Break, vars, row, Rows
  <1>3. ASSUME NEW d \in Deliveries, LookUp(d) PROVE KeyedRows'
    BY <1>3 DEF LookUp, Original, Stored, vars, row, Rows
  <1>4. ASSUME NEW d \in Deliveries, Answer(d) \/ Signal(d) PROVE KeyedRows'
    BY <1>4 DEF Answer, Signal, Wake, vars, row, Rows
  <1>5. ASSUME NEW d \in Deliveries, NEW e \in Enquiries, Accept(d, e) \/ AcceptUnreported(d, e)
        PROVE KeyedRows'
    <2>1. /\ e \notin Rows /\ idemKey' = [idemKey EXCEPT ![e] = key[d]]
          /\ \A f \in Rows : idemKey[f] # key[d]
          /\ status' = [status EXCEPT ![e] = "received"]
          /\ UNCHANGED <<key, ack>>
      BY <1>5 DEF Accept, AcceptUnreported, Free, Stored, Keep, Insert, InsertUnreported, InsertRow, Rows
    <2>2. \A f \in Enquiries : f \in Rows' <=> f = e \/ f \in Rows
      BY <2>1, <1>t DEF Rows, TypeOK
    <2>3. found' = [found EXCEPT ![d] = e] \/ found' = found
      BY <1>5 DEF Accept, AcceptUnreported
    <2>4. \A f \in Enquiries : idemKey[f] # None => f # e
      BY <2>1
    <2>5. \A c \in Deliveries : (ack[c] # None => ack[c] # e) /\ (found[c] # None => found[c] # e)
      <3>1. \A c \in Deliveries : ack[c] # None \/ found[c] # None => key[c] # None
        OBVIOUS
      <3> QED
        BY <3>1, <2>4
    <2>6. (\A f, g \in Enquiries : f \in Rows /\ g \in Rows /\ idemKey[f] = idemKey[g] => f = g)'
      BY <2>1, <2>2
    <2>7. (\A c \in Deliveries : found[c] # None => idemKey[found[c]] = key[c])'
      BY <2>1, <2>3, <2>5
    <2>8. (\A c \in Deliveries : ack[c] # None => idemKey[ack[c]] = key[c])'
      BY <2>1, <2>5
    <2> QED
      BY <2>6, <2>7, <2>8
  <1>6. ASSUME Behind PROVE KeyedRows'
    BY <1>6, <1>t, BehindKeepsRows DEF Behind, gatewayVars, SameRows, Rows
  <1>7. ASSUME ProcessDies PROVE KeyedRows'
    BY <1>7, <1>t, BehindKeepsRows DEF ProcessDies, SameRows, Rows
  <1>8. ASSUME UNCHANGED allVars PROVE KeyedRows'
    BY <1>8 DEF allVars, gatewayVars, vars, row, Rows
  <1> QED
    BY <1>1, <1>2, <1>3, <1>4, <1>5, <1>6, <1>7, <1>8 DEF GatewayNext, DeliveryStep

(***************************************************************************)
(* A redelivered webhook is a no-op: however requests with one key overlap *)
(* or are cut off, and whatever INSERT is applied without being reported,  *)
(* the senders are told of one enquiry if their keys agree and of two if   *)
(* they do not, and the enquiry is stored under that key.                  *)
(***************************************************************************)
THEOREM RedeliveryIsNoOp == GatewaySpec => []OneEnquiryPerKey
  <1>1. GatewayInit => KeyedRows
    BY DEF GatewayInit, Init, KeyedRows, Rows
  <1>2. ASSUME GatewayBase, KeyedRows PROVE OneEnquiryPerKey
    <2>1. \A d \in Deliveries : ack[d] # None => key[d] # None /\ ack[d] \in Enquiries
      BY <1>2 DEF GatewayBase, GatewayTypeOK
    <2>2. \A d \in Deliveries : ack[d] # None => idemKey[ack[d]] = key[d] /\ ack[d] \in Rows
      BY <1>2, <2>1 DEF GatewayBase, GatewayTypeOK, KeyedRows
    <2> QED
      BY <1>2, <2>1, <2>2 DEF KeyedRows, OneEnquiryPerKey
  <1> QED
    BY <1>1, <1>2, KeyedStep, GatewayBaseHolds, PTL DEF GatewaySpec

-----------------------------------------------------------------------------
(* What one key means.                                                     *)

\* Who is told of an enquiry has sent a payload, and its key decides of which.
LEMMA AcknowledgedKeys ==
  ASSUME GatewayTypeOK, OneEnquiryPerKey,
         NEW c \in Deliveries, NEW d \in Deliveries, ack[c] # None, ack[d] # None
  PROVE  /\ IsPayload(payload[c]) /\ IsPayload(payload[d])
         /\ ack[c] = ack[d] <=> IdempotencyKey(payload[c]) = IdempotencyKey(payload[d])
  <1>1. payload[c] # None /\ payload[d] # None
    BY DEF GatewayTypeOK
  <1>2. payload[c] \in Carried /\ payload[d] \in Carried
    BY <1>1 DEF GatewayTypeOK
  <1>3. IsPayload(payload[c]) /\ IsPayload(payload[d])
    BY <1>2, GatewayAssumption DEF Carried
  <1>4. key[c] = IdempotencyKey(payload[c]) /\ key[d] = IdempotencyKey(payload[d])
    BY <1>1 DEF GatewayTypeOK
  <1> QED
    BY <1>3, <1>4 DEF OneEnquiryPerKey

(***************************************************************************)
(* "Two different enquiries from one sender do not" collide: senders who   *)
(* are told of one enquiry without a key of their own are one sender, and  *)
(* what they say is the same, whatever is quoted, signed or padded around  *)
(* it, for texts of any length.                                            *)
(***************************************************************************)
THEOREM NothingElseIsSwallowed == GatewaySpec => []NoOtherIsSwallowed
  <1>1. ASSUME GatewayTypeOK, OneEnquiryPerKey PROVE NoOtherIsSwallowed
    <2>1. ASSUME NEW c \in Deliveries, NEW d \in Deliveries,
                 ack[c] # None, ack[c] = ack[d],
                 payload[c].key = Missing, payload[d].key = Missing,
                 TopPosted(payload[c]), TopPosted(payload[d])
          PROVE  /\ payload[c].from.address = payload[d].from.address
                 /\ Said(payload[c]) = Said(payload[d])
      <3> DEFINE p == payload[c]
                 q == payload[d]
      <3>1. IsPayload(p) /\ IsPayload(q) /\ IdempotencyKey(p) = IdempotencyKey(q)
        BY <1>1, <2>1, AcknowledgedKeys
      <3>2. DedupeHash(normalizeSender(p.from), Text(p)) = DedupeHash(normalizeSender(q.from), Text(q))
        BY <2>1, <3>1 DEF IdempotencyKey
      <3> HIDE DEF p, q
      <3>3. TopPosted(p) /\ TopPosted(q)
        BY <2>1 DEF p, q
      <3>4. p.from.address = q.from.address /\ Said(p) = Said(q)
        BY <3>1, <3>2, <3>3, EqualHashesSayTheSame
      <3> QED
        BY <3>4 DEF p, q
    <2> QED
      BY <2>1 DEF NoOtherIsSwallowed
  <1> QED
    BY <1>1, GatewayTypeCorrect, RedeliveryIsNoOp, PTL

(***************************************************************************)
(* Zero-width padding does not defeat the hash: deliveries that differ in  *)
(* noise only, and have no key of their own, are one enquiry.              *)
(***************************************************************************)
THEOREM NoiseMakesNoEnquiry == GatewaySpec => []NoiseIsOneEnquiry
  <1>1. ASSUME GatewayTypeOK, OneEnquiryPerKey PROVE NoiseIsOneEnquiry
    BY <1>1, AcknowledgedKeys, NoiseIsNotHashed DEF NoiseIsOneEnquiry
  <1> QED
    BY <1>1, GatewayTypeCorrect, RedeliveryIsNoOp, PTL
=============================================================================
