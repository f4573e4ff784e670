------------------------------- MODULE Gateway -------------------------------
(***************************************************************************)
(* The public side of the service: a provider delivers a message to        *)
(* POST /webhooks/{channel} until it gets a 2xx, and handleWebhook         *)
(* (internal/api/server.go) stores it once, nudges the pool and answers.   *)
(* The table and the pool are those of EnquiryQueue, with every fault of   *)
(* theirs; Normalization says what is stored.                              *)
(*                                                                         *)
(* A delivery has at most one request under way; two deliveries of one     *)
(* message stand for two requests that overlap.  Left out: signatures,     *)
(* which a provider gets right or not, and the reviewers' requests, which  *)
(* EnquiryQueue has.                                                       *)
(***************************************************************************)
EXTENDS EnquiryQueue, Normalization

CONSTANTS
    Deliveries,
    Payloads,   \* for each delivery, what its provider may send
    MaxBroken   \* bound: requests broken off while the process is up

ASSUME GatewayAssumption ==
    /\ \A d \in Deliveries : \A p \in Payloads[d] :
          IsPayload(p) /\ p # None /\ IdempotencyKey(p) # None
    /\ MaxBroken \in Nat

VARIABLES
    payload,    \* what each delivery carries
    key,        \* e.IdempotencyKey, as Normalize computes it for each request
    at,         \* where its request is
    found,      \* the enquiry the handler will answer with
    ack,        \* the enquiry_id of the 2xx the sender got
    idemKey,    \* enquiry.idempotency_key
    broken      \* how much of the bound is used

gatewayVars == <<payload, key, at, found, ack, idemKey, broken>>
allVars == <<vars, gatewayVars>>

Carried == UNION {Payloads[d] : d \in Deliveries}

KeysInUse == {IdempotencyKey(p) : p \in Carried}

Handling == {"insert", "lookup", "wake", "answer"}

Rows == {e \in Enquiries : status[e] # "absent"}

GatewayTypeOK ==
    /\ TypeOK
    /\ payload \in [Deliveries -> Carried \cup {None}]
    /\ key \in [Deliveries -> KeysInUse \cup {None}]
    /\ at \in [Deliveries -> {"unsent", "waiting", "refused", "done"} \cup Handling]
    /\ found \in [Deliveries -> Enquiries \cup {None}]
    /\ ack \in [Deliveries -> Enquiries \cup {None}]
    /\ idemKey \in [Enquiries -> KeysInUse \cup {None}]
    /\ broken \in Nat
    /\ \A e \in Enquiries : e \in Rows <=> idemKey[e] # None
    /\ \A d \in Deliveries :
          /\ at[d] = "unsent" <=> payload[d] = None
          /\ payload[d] = None <=> key[d] = None
          /\ payload[d] # None => key[d] = IdempotencyKey(payload[d])
          /\ at[d] \in {"wake", "answer"} <=> found[d] # None
          /\ at[d] = "done" <=> ack[d] # None

GatewayInit ==
    /\ Init
    /\ payload = [d \in Deliveries |-> None]
    /\ key = [d \in Deliveries |-> None]
    /\ at = [d \in Deliveries |-> "unsent"]
    /\ found = [d \in Deliveries |-> None]
    /\ ack = [d \in Deliveries |-> None]
    /\ idemKey = [e \in Enquiries |-> None]
    /\ broken = 0

Goto(d, place) == at' = [at EXCEPT ![d] = place]

-----------------------------------------------------------------------------
(* The provider.                                                           *)

\* A payload that is not accepted is answered 400 before the table is touched.
Deliver(d, p) ==
    /\ proc = "up"
    /\ at[d] = "unsent"
    /\ payload' = [payload EXCEPT ![d] = p]
    /\ key' = [key EXCEPT ![d] = IdempotencyKey(p)]
    /\ Goto(d, IF Accepted(p) THEN "insert" ELSE "refused")
    /\ UNCHANGED <<vars, found, ack, idemKey, broken>>

Redeliver(d) ==
    /\ proc = "up"
    /\ at[d] = "waiting"
    /\ Goto(d, "insert")
    /\ UNCHANGED <<vars, payload, key, found, ack, idemKey, broken>>

-----------------------------------------------------------------------------
(* handleWebhook.                                                          *)

Stored(k) == {e \in Rows : idemKey[e] = k}

\* Variant: enquiry.idempotency_key is not unique.
FreeAlways(d) == at[d] = "insert"

\* The unique index has no row with the key.
Free(d) == at[d] = "insert" /\ Stored(key[d]) = {}

\* Variant: the column holds the client's key, and NULL without one.
KeepClientKey(d, e) ==
    idemKey' = [idemKey EXCEPT ![e] = IF payload[d].key = Missing THEN None ELSE key[d]]

Keep(d, e) == idemKey' = [idemKey EXCEPT ![e] = key[d]]

\* InsertEnquiry returns the new row, whose id is any that no row has.
Accept(d, e) ==
    /\ Free(d)
    /\ Insert(e)
    /\ Keep(d, e)
    /\ found' = [found EXCEPT ![d] = e]
    /\ Goto(d, "wake")
    /\ UNCHANGED <<payload, key, ack, broken>>

\* The row is there, and the handler answers 500.
AcceptUnreported(d, e) ==
    /\ Free(d)
    /\ InsertUnreported(e)
    /\ Keep(d, e)
    /\ Goto(d, "waiting")
    /\ UNCHANGED <<payload, key, found, ack, broken>>

\* Variants: a redelivery is answered 409, or puts its enquiry back in the queue.
ConflictRefused(d) ==
    /\ proc # "down"
    /\ at[d] = "insert"
    /\ Stored(key[d]) # {}
    /\ Goto(d, "refused")
    /\ UNCHANGED <<vars, payload, key, found, ack, idemKey, broken>>

ConflictRequeues(d) ==
    /\ proc # "down"
    /\ at[d] = "insert"
    /\ \E e \in Stored(key[d]) : Requeue(e, TRUE)
    /\ Goto(d, "lookup")
    /\ UNCHANGED <<proc, local, wake, nudges, faults, hist, payload, key, found, ack, idemKey, broken>>

\* ErrDuplicate.
Conflict(d) ==
    /\ proc # "down"
    /\ at[d] = "insert"
    /\ Stored(key[d]) # {}
    /\ Goto(d, "lookup")
    /\ UNCHANGED <<vars, payload, key, found, ack, idemKey, broken>>

\* Variant: any enquiry of the table is as good.
OriginalOfAny(d) == Rows

\* EnquiryByIdempotencyKey.
Original(d) == Stored(key[d])

LookUp(d) ==
    /\ proc # "down"
    /\ at[d] = "lookup"
    /\ \E e \in Original(d) : found' = [found EXCEPT ![d] = e]
    /\ Goto(d, "answer")
    /\ UNCHANGED <<vars, payload, key, ack, idemKey, broken>>

\* s.wake().  (The audit row before it is written or not: its error is dropped.)
Signal(d) ==
    /\ proc # "down"
    /\ at[d] = "wake"
    /\ Wake(found[d])
    /\ Goto(d, "answer")
    /\ UNCHANGED <<payload, key, found, ack, idemKey, broken>>

\* 202 with the new id or 200 with the original's, and the sender is content.
Answer(d) ==
    /\ proc # "down"
    /\ at[d] = "answer"
    /\ ack' = [ack EXCEPT ![d] = found[d]]
    /\ found' = [found EXCEPT ![d] = None]
    /\ Goto(d, "done")
    /\ UNCHANGED <<vars, payload, key, idemKey, broken>>

\* A statement fails and the answer is 500, or the sender has stopped waiting
\* for the answer.
Break(d) ==
    /\ at[d] \in {"insert", "lookup", "answer"}
    /\ \/ proc = "stopping" /\ UNCHANGED broken
       \/ proc = "up" /\ broken < MaxBroken /\ broken' = broken + 1
    /\ found' = [found EXCEPT ![d] = None]
    /\ Goto(d, "waiting")
    /\ UNCHANGED <<vars, payload, key, ack, idemKey>>

-----------------------------------------------------------------------------

DeliveryStep(d) ==
    \/ \E p \in Payloads[d] : Deliver(d, p)
    \/ Redeliver(d)
    \/ \E e \in Enquiries : Accept(d, e) \/ AcceptUnreported(d, e)
    \/ Conflict(d)
    \/ LookUp(d)
    \/ Signal(d)
    \/ Answer(d)
    \/ Break(d)

\* The pool, the clock and the start and end of the process go on as in
\* EnquiryQueue.
Behind ==
    /\ \/ \E w \in Workers : WorkerStep(w)
       \/ \E e \in Enquiries : OrphanExpires(e) \/ Overrun(e) \/ BackoffElapses(e)
       \/ Stop
       \/ Start
    /\ UNCHANGED gatewayVars

\* Every request is cut off.
ProcessDies ==
    /\ Exit \/ Crash
    /\ at' = [d \in Deliveries |-> IF at[d] \in Handling THEN "waiting" ELSE at[d]]
    /\ found' = [d \in Deliveries |-> None]
    /\ UNCHANGED <<payload, key, ack, idemKey, broken>>

GatewayNext ==
    \/ \E d \in Deliveries : DeliveryStep(d)
    \/ Behind
    \/ ProcessDies

GatewaySpec == GatewayInit /\ [][GatewayNext]_allVars

\* A handler whose statements are answered goes on, and a provider delivers
\* again until it has a 2xx.
Proceed(d) ==
    \/ Redeliver(d)
    \/ \E e \in Enquiries : Accept(d, e)
    \/ Conflict(d)
    \/ LookUp(d)
    \/ Signal(d)
    \/ Answer(d)

RequestsProceed == \A d \in Deliveries : WF_allVars(Proceed(d))

FairGatewaySpec == GatewaySpec /\ RequestsProceed /\ WorkersProceed /\ TimePasses /\ Restarts

-----------------------------------------------------------------------------
(* Safety.                                                                 *)

(***************************************************************************)
(* "A redelivered webhook is a no-op": whatever requests overlap, fail or  *)
(* are cut off, and whatever statement is applied without being reported,  *)
(* two senders are told of one enquiry exactly if their deliveries have    *)
(* one key, and the row of that enquiry has this key.                      *)
(***************************************************************************)
OneEnquiryPerKey ==
    \A c, d \in Deliveries : ack[c] # None /\ ack[d] # None =>
        /\ ack[c] = ack[d] <=> key[c] = key[d]
        /\ idemKey[ack[d]] = key[d]

(***************************************************************************)
(* "Retries and double-submits collide while two different enquiries from  *)
(* one sender do not": deliveries without a key that are acknowledged with *)
(* one id are from one sender and say the same, unless a reply was written *)
(* below the message it answers.                                           *)
(***************************************************************************)
NoOtherIsSwallowed ==
    \A c, d \in Deliveries :
        /\ ack[c] # None /\ ack[c] = ack[d]
        /\ payload[c].key = Missing /\ payload[d].key = Missing
        /\ TopPosted(payload[c]) /\ TopPosted(payload[d])
        => /\ payload[c].from.address = payload[d].from.address
           /\ Said(payload[c]) = Said(payload[d])

(***************************************************************************)
(* clean "stops zero-width padding from defeating the dedupe hash", and    *)
(* "the same sender hashes identically": deliveries without a key that     *)
(* differ in noise only are one enquiry.                                   *)
(***************************************************************************)
NoiseIsOneEnquiry ==
    \A c, d \in Deliveries :
        /\ ack[c] # None /\ ack[d] # None
        /\ payload[c].key = Missing /\ payload[d].key = Missing
        /\ SameButForNoise(payload[c], payload[d])
        => ack[c] = ack[d]

-----------------------------------------------------------------------------
(* Liveness.                                                               *)

(***************************************************************************)
(* From the provider to a human: a message that is not refused is          *)
(* acknowledged in the end, and the enquiry its sender was told of comes   *)
(* to rest in a status a human sees, through crashes, stops, lost answers  *)
(* and failing runs.                                                       *)
(***************************************************************************)
EveryDeliveryLands ==
    \A d \in Deliveries :
        at[d] \in Handling ~>
            [](ack[d] # None /\ status[ack[d]] \in Settled)
=============================================================================
