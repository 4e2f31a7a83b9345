--------------------------- MODULE VirtioBlkProofs ---------------------------
(***************************************************************************)
(* Proofs about the virtio block driver, for every queue size of three     *)
(* and more, every number of DMA slots, every index width and every disk.  *)
(***************************************************************************)
EXTENDS VirtioBlk, Iteration, FiniteSetTheorems, TLAPS

\* The first descriptor of the chain in use, or of the next one to be taken.
First == IF Busy THEN head ELSE free_head

\* Every call uses the descriptors 0, 1 and 2, upwards or downwards; behind them the free
\* list is as setupQueue linked it.
LinksInOrder ==
  /\ First \in {0, 2}
  /\ next[First] = 1 /\ next[1] = 2 - First
  /\ next[2 - First] = 3 % QUEUE_SIZE
  /\ \A d \in Desc : d >= 3 => next[d] = (d + 1) % QUEUE_SIZE
  /\ num_free = IF Busy THEN QUEUE_SIZE - 3 ELSE QUEUE_SIZE
  /\ Busy => free_head = 3 % QUEUE_SIZE

\* Only the chain of the call in progress is filled in, and it describes that call.
ChainInOrder ==
  /\ \A d \in Desc : addr[d].part # "none" => Busy /\ d \in 0 .. 2
  /\ Busy =>
       /\ addr[head] = [part |-> "req", slot |-> slot] /\ more[head]
       /\ addr[1] = [part |-> "data", slot |-> slot] /\ more[1]
       /\ addr[2 - head] = [part |-> "status", slot |-> slot] /\ ~ more[2 - head]

\* There is a request exactly while a call is in progress, and its header is in the slot.
CallInOrder ==
  /\ ~ Busy => request = NULL
  /\ Busy =>
       /\ request \in Request
       /\ header[slot] = [kind |-> request.kind, sector |-> request.sector]

\* The device works on an entry of the avail ring once.
DeviceInOrder ==
  /\ IsFiniteSet(inflight)
  /\ \A r \in inflight : r.at < taken
  /\ \A r1, r2 \in inflight : r1.at = r2.at => r1 = r2

\* The transfer of the request in progress has taken place.
Served ==
  /\ request.kind = "read" => data[slot] = disk[request.sector]
  /\ request.kind = "write" => disk[request.sector] = request.value

\* While no request has timed out the device works for the call in progress alone.
TrustInOrder ==
  trusted =>
    /\ Busy =>
         /\ status[slot] = "ok" => Served
         /\ request.kind = "write" => data[slot] = request.value
    /\ stage = "waiting" =>
         /\ avail[last_used_idx % QUEUE_SIZE] = head
         /\ used_idx # last_used_idx => used[last_used_idx % QUEUE_SIZE] = head
         /\ \A r \in inflight :
              /\ r.kind = request.kind /\ r.sector = request.sector
              /\ r.done => Served

IInv ==
  /\ TypeOK
  /\ NothingHeldBetweenCalls
  /\ InStep
  /\ LinksInOrder
  /\ ChainInOrder
  /\ CallInOrder
  /\ DeviceInOrder
  /\ TrustInOrder

------------------------------------------------------------------------------

\* Going round the queue: the remainder of the successor of a descriptor.
LEMMA Successor ==
  /\ \A d \in Desc : (d + 1) % QUEUE_SIZE = IF d = QUEUE_SIZE - 1 THEN 0 ELSE d + 1
  /\ 3 % QUEUE_SIZE = IF QUEUE_SIZE = 3 THEN 0 ELSE 3
  /\ \A n \in Nat : n % QUEUE_SIZE \in Desc
BY QueueAssumption DEF Desc

\* The descriptors of the chain in use or of the next one.
LEMMA ChainOfThree ==
  ASSUME TypeOK, LinksInOrder
  PROVE  /\ First \in Desc /\ 2 - First \in Desc /\ 1 \in Desc
         /\ Second(First) = 1 /\ Third(First) = 2 - First
         /\ {First, Second(First), Third(First)} = 0 .. 2
<1>1. First \in {0, 2} /\ next[First] = 1 /\ next[1] = 2 - First
  BY DEF LinksInOrder
<1> QED
  BY <1>1, QueueAssumption DEF Desc, Second, Third

\* init leaves the invariant true.
LEMMA InitInvariant == Init => IInv
<1> SUFFICES ASSUME Init PROVE IInv
  OBVIOUS
<1>1. TypeOK
  <2>1. \A d \in Desc : (d + 1) % QUEUE_SIZE \in Desc
    BY QueueAssumption DEF Desc
  <2>2. 0 \in Desc /\ 0 \in Slot
    BY QueueAssumption, SlotsAssumption DEF Desc, Slot
  <2>3. /\ addr \in [Desc -> [part : {"none", "req", "data", "status"}, slot : Slot]]
        /\ result \in [outcome : Outcome, value : Value \cup {NULL}]
    BY <2>2 DEF Init, Nowhere, Outcome
  <2>4. /\ header \in [Slot -> [kind : {"read", "write"}, sector : Sector] \cup {NULL}]
        /\ request \in Request \cup {NULL} /\ inflight \subseteq InFlight
    BY DEF Init
  <2>5. num_free \in 0 .. QUEUE_SIZE /\ {avail_idx, used_idx, last_used_idx, taken} \subseteq 0 .. IDX_MAX
    BY QueueAssumption, IndexAssumption DEF Init
  <2>6. data \in [Slot -> Value] /\ disk \in [Sector -> Value]
        /\ status \in [Slot -> {"ok", "ioerr", "pending"}]
    BY ValueAssumption DEF Init
  <2>7. /\ more \in [Desc -> BOOLEAN] /\ next \in [Desc -> Desc]
        /\ free_head \in Desc
        /\ avail \in [Desc -> Desc] /\ used \in [Desc -> Desc]
        /\ in_use \in [Slot -> BOOLEAN]
        /\ slot \in Slot /\ head \in Desc
    BY <2>1, <2>2 DEF Init
  <2> QED
    BY <2>3, <2>4, <2>5, <2>6, <2>7 DEF Init, TypeOK
<1>2. NothingHeldBetweenCalls
  BY DEF Init, NothingHeldBetweenCalls, Busy
<1>3. InStep
  BY FS_EmptySet DEF Init, InStep
<1>4. LinksInOrder
  <2>1. \A d \in Desc : next[d] = (d + 1) % QUEUE_SIZE
    BY DEF Init
  <2>2. First = 0 /\ ~ Busy /\ num_free = QUEUE_SIZE
    BY DEF Init, First, Busy
  <2>3. {0, 1, 2} \subseteq Desc
    BY QueueAssumption DEF Desc
  <2>4. next[0] = 1 /\ next[1] = 2
    BY <2>1, <2>3, Successor, QueueAssumption
  <2>5. next[2] = 3 % QUEUE_SIZE
    BY <2>1, <2>3
  <2> QED
    BY <2>1, <2>2, <2>4, <2>5 DEF LinksInOrder
<1>5. ChainInOrder
  BY DEF Init, ChainInOrder, Nowhere, Busy
<1>6. CallInOrder
  BY DEF Init, CallInOrder, Busy
<1>7. DeviceInOrder
  BY FS_EmptySet DEF Init, DeviceInOrder
<1>8. TrustInOrder
  BY DEF Init, TrustInOrder, Busy
<1> QED
  BY <1>1, <1>2, <1>3, <1>4, <1>5, <1>6, <1>7, <1>8 DEF IInv

------------------------------------------------------------------------------
(* The driver. *)

\* A call takes the first three descriptors and a free slot.
LEMMA PrepareKeeps == ASSUME IInv, NEW r \in Request, Prepare(r) PROVE IInv'
<1> USE DEF IInv
<1>0. PICK s \in Slot, h \in Desc :
       /\ allocDmaSlot(s)
       /\ allocDescChain(h)
       /\ in_use' = [in_use EXCEPT ![s] = TRUE]
       /\ header' = [header EXCEPT ![s] = [kind |-> r.kind, sector |-> r.sector]]
       /\ data' = IF r.kind = "write" THEN [data EXCEPT ![s] = r.value] ELSE data
       /\ status' = [status EXCEPT ![s] = "pending"]
       /\ addr' = [addr EXCEPT ![h] = [part |-> "req", slot |-> s],
                               ![Second(h)] = [part |-> "data", slot |-> s],
                               ![Third(h)] = [part |-> "status", slot |-> s]]
       /\ more' = [more EXCEPT ![h] = TRUE, ![Second(h)] = TRUE, ![Third(h)] = FALSE]
       /\ slot' = s /\ head' = h
  BY DEF Prepare
<1>1. /\ stage = "idle" /\ stage' = "prepared" /\ ~ Busy /\ Busy'
      /\ request' = r
      /\ UNCHANGED <<next, avail, avail_idx, used, used_idx, last_used_idx, is_read_only,
                     result, disk, taken, inflight, broken, trusted>>
  BY DEF Prepare, Busy, device
<1>2. /\ r.kind \in {"read", "write"} /\ r.sector \in Sector /\ r.value \in Value
  BY ValueAssumption DEF Request
<1>3. /\ h = First /\ h \in {0, 2} /\ h \in Desc /\ 1 \in Desc /\ 2 - h \in Desc
      /\ Second(h) = 1 /\ Third(h) = 2 - h
      /\ num_free = QUEUE_SIZE
      /\ free_head' = 3 % QUEUE_SIZE /\ num_free' = QUEUE_SIZE - 3
  BY <1>0, <1>1, ChainOfThree DEF allocDescChain, First, LinksInOrder
<1>4. /\ addr' = [addr EXCEPT ![h] = [part |-> "req", slot |-> s],
                              ![1] = [part |-> "data", slot |-> s],
                              ![2 - h] = [part |-> "status", slot |-> s]]
      /\ more' = [more EXCEPT ![h] = TRUE, ![1] = TRUE, ![2 - h] = FALSE]
  BY <1>0, <1>3
<1>5. TypeOK'
  <2>1. addr' \in [Desc -> [part : {"none", "req", "data", "status"}, slot : Slot]]
    BY <1>3, <1>4 DEF TypeOK
  <2>2. more' \in [Desc -> BOOLEAN]
    BY <1>3, <1>4 DEF TypeOK
  <2>5. free_head' \in Desc /\ num_free' \in 0 .. QUEUE_SIZE
    BY <1>3, Successor, QueueAssumption
  <2>3. in_use' \in [Slot -> BOOLEAN]
        /\ header' \in [Slot -> [kind : {"read", "write"}, sector : Sector] \cup {NULL}]
    BY <1>0, <1>2 DEF TypeOK
  <2>4. /\ data' \in [Slot -> Value] /\ status' \in [Slot -> {"ok", "ioerr", "pending"}]
    BY <1>0, <1>2 DEF TypeOK
  <2> QED
    BY <1>0, <1>1, <2>1, <2>2, <2>3, <2>4, <2>5 DEF TypeOK
<1>6. NothingHeldBetweenCalls'
  BY <1>0, <1>1 DEF NothingHeldBetweenCalls, TypeOK
<1>7. InStep'
  BY <1>1 DEF InStep
<1>8. LinksInOrder'
  <2>1. First' = First
    BY <1>0, <1>1, <1>3 DEF First
  <2> QED
    BY <1>1, <1>3, <2>1 DEF LinksInOrder
<1>9. ChainInOrder'
  BY <1>0, <1>1, <1>3, <1>4 DEF ChainInOrder, TypeOK
<1>10. CallInOrder'
  BY <1>0, <1>1 DEF CallInOrder, TypeOK
<1>11. DeviceInOrder'
  BY <1>1 DEF DeviceInOrder
<1>12. TrustInOrder'
  BY <1>0, <1>1 DEF TrustInOrder, TypeOK
<1> QED
  BY <1>5, <1>6, <1>7, <1>8, <1>9, <1>10, <1>11, <1>12

\* A call that is refused changes nothing but the answer.
LEMMA RefuseKeeps == ASSUME IInv, Refuse PROVE IInv'
<1> USE DEF IInv, Refuse, table, slots, call, device
<1>1. TypeOK'
  BY DEF TypeOK, Outcome
<1>2. /\ NothingHeldBetweenCalls' /\ InStep'
      /\ LinksInOrder' /\ ChainInOrder' /\ CallInOrder' /\ DeviceInOrder'
  BY DEF NothingHeldBetweenCalls, InStep, LinksInOrder, First, ChainInOrder, CallInOrder,
         DeviceInOrder, Busy
<1>3. TrustInOrder'
  BY DEF TrustInOrder, Busy, Served
<1> QED
  BY <1>1, <1>2, <1>3

\* The chain goes into the avail ring; the device has not seen it yet.
LEMMA SubmitKeeps == ASSUME IInv, submitChain PROVE IInv'
<1> USE DEF IInv, submitChain, table, slots, device
<1>1. avail_idx % QUEUE_SIZE \in Desc /\ avail_idx \in Nat
  BY Successor, IndexAssumption DEF TypeOK
<1>2. TypeOK'
  <2>1. avail' \in [Desc -> Desc]
    BY <1>1 DEF TypeOK
  <2>2. avail_idx' \in 0 .. IDX_MAX
    BY <1>1, IndexAssumption
  <2> QED
    BY <2>1, <2>2 DEF TypeOK
<1>3. InStep'
  BY <1>1 DEF InStep, TypeOK
<1>4. /\ NothingHeldBetweenCalls'
      /\ LinksInOrder' /\ ChainInOrder' /\ CallInOrder' /\ DeviceInOrder'
  BY DEF NothingHeldBetweenCalls, LinksInOrder, First, ChainInOrder, CallInOrder,
         DeviceInOrder, Busy
<1>5. TrustInOrder'
  <2>1. ASSUME trusted PROVE inflight = {} /\ last_used_idx = avail_idx /\ used_idx = last_used_idx
    <3>1. {avail_idx, used_idx, last_used_idx, taken} \subseteq Nat
      BY IndexAssumption DEF TypeOK
    <3>2. inflight = {} /\ last_used_idx = avail_idx
      BY <2>1 DEF InStep
    <3> QED
      BY <3>1, <3>2 DEF InStep
  <2>2. avail'[avail_idx % QUEUE_SIZE] = head
    BY <1>1 DEF TypeOK
  <2> QED
    BY <2>1, <2>2 DEF TrustInOrder, Busy, Served
<1> QED
  BY <1>2, <1>3, <1>4, <1>5

\* The index that does not fit stops the kernel in the middle of the call.
LEMMA PanicKeeps == ASSUME IInv, Panic PROVE IInv'
<1> USE DEF IInv, Panic, table, slots, device
<1>1. TypeOK'
  BY DEF TypeOK
<1>2. /\ NothingHeldBetweenCalls' /\ InStep'
      /\ LinksInOrder' /\ ChainInOrder' /\ CallInOrder' /\ DeviceInOrder'
  BY DEF NothingHeldBetweenCalls, InStep, LinksInOrder, First, ChainInOrder, CallInOrder,
         DeviceInOrder, Busy
<1>3. TrustInOrder'
  BY DEF TrustInOrder, Busy, Served
<1> QED
  BY <1>1, <1>2, <1>3

\* While driver and device are in step the entry consumed is the last one.
LEMMA CompletionKeeps == ASSUME IInv, waitForCompletion PROVE IInv'
<1> USE DEF IInv, waitForCompletion, table, slots, device
<1>1. {avail_idx, used_idx, last_used_idx, taken} \subseteq Nat
  BY IndexAssumption DEF TypeOK
<1>2. last_used_idx < used_idx
  BY <1>1 DEF InStep
<1>3. TypeOK'
  <2>1. used_idx \in 0 .. IDX_MAX
    BY DEF TypeOK
  <2>2. last_used_idx' \in 0 .. IDX_MAX
    BY <1>1, <1>2, <2>1, IndexAssumption
  <2> QED
    BY <2>2 DEF TypeOK
<1>4. InStep'
  <2>1. Cardinality(inflight) \in Nat /\ (Cardinality(inflight) = 0 <=> inflight = {})
    BY FS_CardinalityType, FS_EmptySet DEF DeviceInOrder
  <2>2. last_used_idx' <= used_idx
    BY <1>1, <1>2
  <2>3. ASSUME trusted
        PROVE  /\ ~ broken /\ last_used_idx' = avail_idx /\ inflight = {}
               /\ used[(last_used_idx' - 1) % QUEUE_SIZE] = head
    <3>1. last_used_idx + 1 = avail_idx /\ used_idx = avail_idx /\ taken = avail_idx
      BY <1>1, <1>2, <2>3 DEF InStep
    <3>2. used_idx + Cardinality(inflight) = taken /\ ~ broken
      BY <2>3 DEF InStep
    <3>3. (last_used_idx + 1) - 1 = last_used_idx
      BY <1>1
    <3> QED
      BY <1>1, <2>1, <2>3, <3>1, <3>2, <3>3 DEF TrustInOrder
  <2> QED
    BY <2>2, <2>3 DEF InStep
<1>5. /\ NothingHeldBetweenCalls'
      /\ LinksInOrder' /\ ChainInOrder' /\ CallInOrder' /\ DeviceInOrder'
  BY DEF NothingHeldBetweenCalls, LinksInOrder, First, ChainInOrder, CallInOrder,
         DeviceInOrder, Busy
<1>6. TrustInOrder'
  BY DEF TrustInOrder, Busy, Served
<1> QED
  BY <1>3, <1>4, <1>5, <1>6

\* Every way out of a call turns the chain round and puts it back in front of the free list.
\* Only a call that consumed a completion leaves driver and device in step.
LEMMA ReturnKeeps ==
  ASSUME IInv, stage \in {"waiting", "completed"},
         NEW outcome \in Outcome, NEW value \in Value \cup {NULL}, Return(outcome, value),
         trusted' \in BOOLEAN, trusted' => trusted /\ stage = "completed"
  PROVE  IInv'
<1> USE DEF IInv
<1>1. /\ stage' = "idle" /\ Busy /\ ~ Busy' /\ request' = NULL
      /\ in_use' = [in_use EXCEPT ![slot] = FALSE]
      /\ result' = [outcome |-> outcome, value |-> value]
      /\ UNCHANGED <<avail, avail_idx, used, used_idx, last_used_idx, header, data, status,
                     is_read_only, slot, head, disk, taken, inflight, broken>>
  BY DEF Return, Busy, device
<1>2. /\ First = head /\ head \in {0, 2} /\ head \in Desc /\ 1 \in Desc /\ 2 - head \in Desc
      /\ Second(head) = 1 /\ Third(head) = 2 - head
      /\ num_free = QUEUE_SIZE - 3 /\ free_head = 3 % QUEUE_SIZE
  BY <1>1, ChainOfThree DEF First, LinksInOrder
<1>3. /\ addr' = [addr EXCEPT ![head] = Nowhere, ![1] = Nowhere, ![2 - head] = Nowhere]
      /\ more' = [more EXCEPT ![head] = FALSE, ![1] = FALSE, ![2 - head] = FALSE]
      /\ next' = [next EXCEPT ![head] = free_head, ![1] = head, ![2 - head] = 1]
      /\ free_head' = 2 - head
      /\ num_free' = num_free + 3
  BY <1>2 DEF Return, freeDescChain
<1>4. TypeOK'
  <2>1. 0 \in Slot
    BY SlotsAssumption DEF Slot
  <2>2. addr' \in [Desc -> [part : {"none", "req", "data", "status"}, slot : Slot]]
    BY <1>2, <1>3, <2>1 DEF TypeOK, Nowhere
  <2>3. more' \in [Desc -> BOOLEAN]
    BY <1>2, <1>3 DEF TypeOK
  <2>4. next' \in [Desc -> Desc]
    BY <1>2, <1>3 DEF TypeOK
  <2>5. free_head' \in Desc /\ num_free' \in 0 .. QUEUE_SIZE
    BY <1>2, <1>3, QueueAssumption
  <2>6. in_use' \in [Slot -> BOOLEAN]
        /\ result' \in [outcome : Outcome, value : Value \cup {NULL}]
    BY <1>1 DEF TypeOK
  <2> QED
    BY <1>1, <2>2, <2>3, <2>4, <2>5, <2>6 DEF TypeOK
<1>5. NothingHeldBetweenCalls'
  BY <1>1, <1>2, <1>3, QueueAssumption DEF NothingHeldBetweenCalls, TypeOK
<1>6. InStep'
  BY <1>1 DEF InStep
<1>7. LinksInOrder'
  <2>1. First' = 2 - head /\ 2 - First' = head
    BY <1>1, <1>2, <1>3 DEF First
  <2>2. next'[2 - head] = 1 /\ next'[1] = head /\ next'[head] = 3 % QUEUE_SIZE
    BY <1>2, <1>3 DEF TypeOK
  <2>3. \A d \in Desc : d >= 3 => next'[d] = (d + 1) % QUEUE_SIZE
    <3>1. ASSUME NEW d \in Desc, d >= 3 PROVE next'[d] = next[d]
      <4>1. d # head /\ d # 1 /\ d # 2 - head
        BY <1>2, <3>1
      <4> QED
        BY <1>3, <4>1 DEF TypeOK
    <3> QED
      BY <3>1 DEF LinksInOrder
  <2>4. num_free' = QUEUE_SIZE
    BY <1>2, <1>3, QueueAssumption
  <2> QED
    BY <1>1, <1>2, <2>1, <2>2, <2>3, <2>4 DEF LinksInOrder
<1>8. ChainInOrder'
  <2>1. ASSUME NEW d \in Desc PROVE addr'[d].part = "none"
    <3>1. CASE d \in 0 .. 2
      BY <1>2, <1>3, <3>1 DEF TypeOK, Nowhere
    <3>2. CASE d \notin 0 .. 2
      BY <1>2, <1>3, <3>2 DEF TypeOK, ChainInOrder
    <3> QED
      BY <3>1, <3>2
  <2> QED
    BY <1>1, <2>1 DEF ChainInOrder
<1>9. CallInOrder' /\ DeviceInOrder'
  BY <1>1 DEF CallInOrder, DeviceInOrder
<1>10. TrustInOrder'
  BY <1>1 DEF TrustInOrder
<1> QED
  BY <1>4, <1>5, <1>6, <1>7, <1>8, <1>9, <1>10

\* The three ways out of a submitted request.
LEMMA ReturnsKeep == ASSUME IInv, Timeout \/ Succeed \/ Fail PROVE IInv'
<1>1. CASE Timeout
  BY <1>1, ReturnKeeps DEF Timeout, Outcome
<1>2. CASE Succeed
  <2>1. stage = "completed" /\ trusted' = trusted /\ trusted \in BOOLEAN
    BY <1>2 DEF Succeed, IInv, TypeOK
  <2>2. request \in Request /\ data[slot] \in Value
    BY <2>1 DEF IInv, CallInOrder, Busy, TypeOK
  <2>3. (IF request.kind = "read" THEN data[slot] ELSE request.value) \in Value
    BY <2>2, ValueAssumption DEF Request
  <2>4. "ok" \in Outcome
    BY DEF Outcome
  <2> HIDE DEF IInv
  <2> QED
    BY <1>2, <2>1, <2>3, <2>4, ReturnKeeps DEF Succeed
<1>3. CASE Fail
  <2>1. stage = "completed" /\ trusted' = trusted /\ trusted \in BOOLEAN
    BY <1>3 DEF Fail, IInv, TypeOK
  <2>2. "failed" \in Outcome
    BY DEF Outcome
  <2> QED
    BY <1>3, <2>1, <2>2, ReturnKeeps DEF Fail
<1> QED
  BY <1>1, <1>2, <1>3

------------------------------------------------------------------------------
(* The device. *)

\* The rings count on: the device never answers more than it has taken.
LEMMA Indices ==
  ASSUME IInv
  PROVE  /\ {avail_idx, used_idx, last_used_idx, taken} \subseteq Nat
         /\ {avail_idx, used_idx, last_used_idx, taken} \subseteq 0 .. IDX_MAX
         /\ last_used_idx <= used_idx /\ used_idx <= taken /\ taken <= avail_idx
         /\ Cardinality(inflight) \in Nat /\ (Cardinality(inflight) = 0 <=> inflight = {})
BY FS_CardinalityType, FS_EmptySet, IndexAssumption DEF IInv, TypeOK, InStep, DeviceInOrder

\* A chain that the device accepts is the chain of the call in progress, whatever avail
\* entry led it there.
LEMMA AcceptedChain ==
  ASSUME IInv, NEW h \in Desc, addr[h].part = "req",
         addr[Third(h)].part = "status"
  PROVE  Busy /\ h = head /\ addr[h].slot = slot
<1> USE DEF IInv
<1>1. Busy /\ h \in 0 .. 2
  BY DEF ChainInOrder
<1>2. head \in {0, 2} /\ addr[head].slot = slot
      /\ addr[1].part = "data" /\ addr[2 - head].part = "status"
  BY <1>1 DEF ChainInOrder, LinksInOrder, First
<1> QED
  BY <1>1, <1>2

\* The chain of the call in progress is one that the device accepts.
LEMMA OwnChainAccepted ==
  ASSUME IInv, Busy
  PROVE  /\ addr[head].part = "req" /\ more[head] /\ addr[head].slot = slot
         /\ addr[Second(head)].part = "data" /\ more[Second(head)]
         /\ addr[Third(head)].part = "status" /\ ~ more[Third(head)]
<1>1. Second(head) = 1 /\ Third(head) = 2 - head
  BY ChainOfThree DEF IInv, First
<1> QED
  BY <1>1 DEF IInv, ChainInOrder

\* The device takes the chain the oldest entry of the available ring names.
LEMMA TakesKeeps == ASSUME IInv, DeviceTakes PROVE IInv'
<1> USE DEF IInv
<1> DEFINE h == avail[taken % QUEUE_SIZE]
           s == addr[h].slot
           wellFormed == /\ addr[h].part = "req" /\ more[h]
                         /\ addr[Second(h)].part = "data" /\ more[Second(h)]
                         /\ addr[Third(h)].part = "status" /\ ~ more[Third(h)]
           r == [at |-> taken, head |-> h, slot |-> s, kind |-> header[s].kind,
                 sector |-> header[s].sector, done |-> FALSE]
<1>1. /\ ~ broken /\ taken < avail_idx /\ taken' = taken + 1
      /\ broken' = ~ wellFormed
      /\ inflight' = IF wellFormed THEN inflight \cup {r} ELSE inflight
      /\ UNCHANGED <<addr, more, next, free_head, num_free, avail, avail_idx, used, used_idx,
                     last_used_idx, in_use, header, data, status, is_read_only, request,
                     stage, slot, head, result, disk, trusted>>
  BY DEF DeviceTakes, table, slots, call
<1>n. /\ taken < avail_idx /\ taken' = taken + 1 /\ avail_idx' = avail_idx
      /\ used_idx' = used_idx /\ last_used_idx' = last_used_idx
  BY <1>1
<1>2. h \in Desc
  BY Indices, Successor DEF TypeOK
<1>3. ASSUME wellFormed
      PROVE  /\ Busy /\ r.head = head /\ r.slot = slot /\ r.at = taken /\ r.done = FALSE
             /\ r.kind = request.kind /\ r.sector = request.sector
             /\ r.kind \in {"read", "write"} /\ r.sector \in Sector
             /\ r.head \in Desc /\ r.slot \in Slot
  <2>1. Busy /\ h = head /\ s = slot
    BY <1>2, <1>3, AcceptedChain
  <2>2. header[slot] = [kind |-> request.kind, sector |-> request.sector] /\ request \in Request
    BY <2>1 DEF CallInOrder
  <2>3. request.kind \in {"read", "write"} /\ request.sector \in Sector
    BY <2>2 DEF Request
  <2> HIDE DEF h
  <2> QED
    BY <2>1, <2>2, <2>3 DEF TypeOK
<1>4. ASSUME Busy, h = head PROVE wellFormed
  BY <1>4, OwnChainAccepted
<1>5. \/ wellFormed /\ broken' = FALSE /\ inflight' = inflight \cup {r}
      \/ ~ wellFormed /\ broken' = TRUE /\ inflight' = inflight
  BY <1>1
<1> HIDE DEF wellFormed
<1>6. r \notin inflight
  <2>1. taken \in Nat /\ \A x \in inflight : x.at < taken
    BY Indices DEF DeviceInOrder
  <2>2. r.at = taken
    OBVIOUS
  <2> QED
    BY ONLY <2>1, <2>2
<1>7. TypeOK'
  <2>1. taken' \in 0 .. IDX_MAX /\ taken \in 0 .. IDX_MAX - 1
    BY ONLY <1>n, Indices, IndexAssumption, IInv
  <2>2. wellFormed => r \in InFlight
    BY <1>3, <2>1 DEF InFlight
  <2>3. inflight' \subseteq InFlight
    BY <1>5, <2>2 DEF TypeOK
  <2>4. broken' \in BOOLEAN
    BY <1>5
  <2> HIDE DEF r
  <2> QED
    BY <1>1, <2>1, <2>3, <2>4 DEF TypeOK
<1>8. NothingHeldBetweenCalls' /\ LinksInOrder' /\ ChainInOrder' /\ CallInOrder'
  BY <1>1 DEF NothingHeldBetweenCalls, LinksInOrder, First, ChainInOrder, CallInOrder, Busy
<1>9. DeviceInOrder'
  <2>1. IsFiniteSet(inflight')
    <3> HIDE DEF r
    <3> QED
      BY <1>5, FS_AddElement DEF DeviceInOrder
  <2>2. r.at = taken /\ taken' = taken + 1 /\ \A q \in inflight : q.at < taken
    BY <1>1 DEF DeviceInOrder
  <2>3. \A q \in inflight : q.at \in Nat
    BY DEF TypeOK, InFlight
  <2> HIDE DEF r
  <2> QED
    BY <1>5, <2>1, <2>2, <2>3, Indices DEF DeviceInOrder
<1>10. trusted => stage = "waiting" /\ h = head /\ wellFormed /\ taken = last_used_idx
  <2>1. ASSUME trusted
        PROVE  stage = "waiting" /\ taken = last_used_idx
    BY <1>n, <2>1, Indices DEF InStep
  <2>2. ASSUME trusted PROVE h = head
    BY <2>1, <2>2 DEF TrustInOrder
  <2> QED
    BY <1>4, <2>1, <2>2 DEF Busy
<1>11. InStep'
  <2>1. /\ last_used_idx' <= used_idx' /\ used_idx' <= taken' /\ taken' <= avail_idx'
    BY ONLY <1>n, Indices, IInv
  <2> HIDE DEF r, h
  <2>2. wellFormed => Cardinality(inflight') = Cardinality(inflight) + 1
    BY <1>5, <1>6, FS_AddElement DEF DeviceInOrder
  <2>3. used_idx + Cardinality(inflight) = taken
    BY <1>1 DEF InStep
  <2>4. ~ broken' => used_idx' + Cardinality(inflight') = taken'
    BY <1>1, <1>5, <2>2, <2>3, Indices
  <2>5. trusted =>
          /\ stage = "waiting" /\ ~ broken' /\ last_used_idx + 1 = avail_idx
          /\ \A q \in inflight' : q.head = head /\ q.slot = slot
    BY <1>3, <1>5, <1>10 DEF InStep
  <2> QED
    BY <1>1, <2>1, <2>4, <2>5 DEF InStep
<1>12. TrustInOrder'
  <2> HIDE DEF r, h
  <2> QED
    BY <1>1, <1>3, <1>5, <1>10 DEF TrustInOrder, Busy, Served
<1> QED
  BY <1>7, <1>8, <1>9, <1>11, <1>12

\* While no request has timed out, the device works on the request of the caller that
\* waits, so its transfer serves that caller.
LEMMA OwnRequest ==
  ASSUME IInv, NEW r \in inflight, trusted
  PROVE  /\ stage = "waiting" /\ r.head = head /\ r.slot = slot
         /\ r.kind = request.kind /\ r.sector = request.sector
         /\ r.done => Served
         /\ used_idx = last_used_idx
<1>1. /\ stage = "waiting" /\ r.head = head /\ r.slot = slot /\ last_used_idx + 1 = avail_idx
      /\ used_idx + Cardinality(inflight) = taken
  BY DEF IInv, InStep
<1> QED
  BY <1>1, Indices DEF IInv, TrustInOrder

\* It moves the data of a request it has.
LEMMA TransfersKeeps == ASSUME IInv, NEW r \in inflight, DeviceTransfers(r) PROVE IInv'
<1> USE DEF IInv
<1> DEFINE q == [r EXCEPT !.done = TRUE]
<1>1. /\ ~ r.done
      /\ inflight' = (inflight \ {r}) \cup {q}
      /\ UNCHANGED <<addr, more, next, free_head, num_free, avail, avail_idx, used, used_idx,
                     last_used_idx, in_use, header, status, is_read_only, request, stage,
                     slot, head, result, taken, broken, trusted>>
  BY DEF DeviceTransfers, table, call
<1>2. /\ r \in InFlight /\ q \in InFlight
      /\ q.at = r.at /\ q.head = r.head /\ q.slot = r.slot /\ q.kind = r.kind
      /\ q.sector = r.sector /\ q.done = TRUE
      /\ r.slot \in Slot /\ r.sector \in Sector /\ r.kind \in {"read", "write"} /\ r.at \in Nat
  <2>1. r \in InFlight
    BY DEF TypeOK
  <2>2. q \in InFlight
    BY <2>1 DEF InFlight
  <2> QED
    BY <2>1, <2>2 DEF InFlight
<1>3. \/ /\ r.kind = "read" /\ data' = [data EXCEPT ![r.slot] = disk[r.sector]] /\ disk' = disk
      \/ /\ r.kind = "write" /\ disk' = [disk EXCEPT ![r.sector] = data[r.slot]] /\ data' = data
  BY <1>2 DEF DeviceTransfers
<1> HIDE DEF q
<1>4. TypeOK'
  <2>i. data \in [Slot -> Value] /\ disk \in [Sector -> Value]
    BY DEF TypeOK
  <2>1. data' \in [Slot -> Value] /\ disk' \in [Sector -> Value]
    BY ONLY <1>2, <1>3, <2>i
  <2>2. inflight \subseteq InFlight
    BY DEF TypeOK
  <2>3. inflight' \subseteq InFlight
    BY ONLY <1>1, <1>2, <2>2
  <2> QED
    BY <1>1, <2>1, <2>3 DEF TypeOK
<1>5. NothingHeldBetweenCalls' /\ LinksInOrder' /\ ChainInOrder' /\ CallInOrder'
  BY <1>1 DEF NothingHeldBetweenCalls, LinksInOrder, First, ChainInOrder, CallInOrder, Busy
<1>6. q \notin inflight \ {r}
  BY <1>1, <1>2 DEF DeviceInOrder
<1>7. DeviceInOrder' /\ Cardinality(inflight') = Cardinality(inflight)
  <2>1. /\ IsFiniteSet(inflight \ {r})
        /\ Cardinality(inflight \ {r}) = Cardinality(inflight) - 1
    BY FS_RemoveElement DEF DeviceInOrder
  <2>2. /\ IsFiniteSet(inflight')
        /\ Cardinality(inflight') = Cardinality(inflight \ {r}) + 1
    BY <1>1, <1>6, <2>1, FS_AddElement
  <2>3. Cardinality(inflight') = Cardinality(inflight)
    BY <2>1, <2>2, Indices
  <2> QED
    BY <1>1, <1>2, <2>2, <2>3 DEF DeviceInOrder
<1>8. InStep'
  <2>1. trusted => stage = "waiting" /\ \A p \in inflight' : p.head = head /\ p.slot = slot
    BY <1>1, <1>2, OwnRequest
  <2> QED
    BY <1>1, <1>7, <2>1 DEF InStep
<1>9. TrustInOrder'
  <2>1. SUFFICES ASSUME trusted PROVE TrustInOrder'
    BY <1>1 DEF TrustInOrder
  <2>2. stage = "waiting" /\ r.slot = slot /\ r.kind = request.kind /\ r.sector = request.sector
    BY <2>1, OwnRequest
  <2>3. request.kind = "write" => data[slot] = request.value
    BY <2>1, <2>2 DEF TrustInOrder, Busy
  <2>4. Served' /\ (request.kind = "write" => data'[slot] = request.value)
    BY <1>1, <1>2, <1>3, <2>2, <2>3 DEF Served, TypeOK
  <2>5. \A p \in inflight' : p.kind = request.kind /\ p.sector = request.sector
    BY <1>1, <1>2, <2>1, OwnRequest
  <2> QED
    BY <1>1, <2>1, <2>2, <2>4, <2>5 DEF TrustInOrder, Busy
<1> QED
  BY <1>4, <1>5, <1>7, <1>8, <1>9

\* It finishes a request: its chain is named in the used ring.
LEMMA FinishesKeeps ==
  ASSUME IInv, NEW r \in inflight, NEW outcome \in {"ok", "ioerr"}, DeviceFinishes(r, outcome)
  PROVE  IInv'
<1> USE DEF IInv
<1>1. /\ ~ broken /\ (outcome = "ok" => r.done)
      /\ status' = [status EXCEPT ![r.slot] = outcome]
      /\ used' = [used EXCEPT ![used_idx % QUEUE_SIZE] = r.head]
      /\ used_idx' = used_idx + 1
      /\ inflight' = inflight \ {r}
      /\ UNCHANGED <<addr, more, next, free_head, num_free, avail, avail_idx, last_used_idx,
                     in_use, header, data, is_read_only, request, stage, slot, head, result,
                     disk, taken, broken, trusted>>
  BY DEF DeviceFinishes, table, call
<1>2. r.head \in Desc /\ r.slot \in Slot
  BY DEF TypeOK, InFlight
<1>3. used_idx % QUEUE_SIZE \in Desc
  BY Indices, Successor
<1>4. /\ IsFiniteSet(inflight') /\ Cardinality(inflight') = Cardinality(inflight) - 1
      /\ Cardinality(inflight) # 0
  BY <1>1, Indices, FS_RemoveElement DEF DeviceInOrder
<1>5. used_idx' + Cardinality(inflight') = taken /\ used_idx' <= taken
  <2>1. used_idx + Cardinality(inflight) = taken
    BY <1>1 DEF InStep
  <2> QED
    BY <1>1, <1>4, <2>1, Indices
<1>6. TypeOK'
  <2>1. used' \in [Desc -> Desc] /\ status' \in [Slot -> {"ok", "ioerr", "pending"}]
    BY <1>1, <1>2, <1>3 DEF TypeOK
  <2>2. used_idx' \in 0 .. IDX_MAX
    BY <1>1, <1>5, Indices, IndexAssumption
  <2> QED
    BY <1>1, <2>1, <2>2 DEF TypeOK
<1>7. NothingHeldBetweenCalls' /\ LinksInOrder' /\ ChainInOrder' /\ CallInOrder'
  BY <1>1 DEF NothingHeldBetweenCalls, LinksInOrder, First, ChainInOrder, CallInOrder, Busy
<1>8. DeviceInOrder'
  BY <1>1, <1>4 DEF DeviceInOrder
<1>9. InStep'
  <2>1. last_used_idx' <= used_idx' /\ used_idx' <= taken' /\ taken' <= avail_idx'
    BY <1>1, <1>5, Indices
  <2>2. trusted => stage = "waiting" /\ last_used_idx + 1 = avail_idx
    BY OwnRequest DEF InStep
  <2>3. trusted => \A p \in inflight' : p.head = head /\ p.slot = slot
    BY <1>1, OwnRequest
  <2> QED
    BY <1>1, <1>5, <2>1, <2>2, <2>3 DEF InStep
<1>10. TrustInOrder'
  <2>1. SUFFICES ASSUME trusted PROVE TrustInOrder'
    BY <1>1 DEF TrustInOrder
  <2>2. /\ stage = "waiting" /\ r.head = head /\ r.slot = slot /\ (r.done => Served)
        /\ used_idx = last_used_idx
    BY <2>1, OwnRequest
  <2>3. used'[last_used_idx % QUEUE_SIZE] = head
    BY <1>1, <1>3, <2>2 DEF TypeOK
  <2>4. Served' <=> Served
    BY <1>1 DEF Served
  <2>5. status'[slot] = "ok" => Served'
    BY <1>1, <1>2, <2>2, <2>4 DEF TypeOK
  <2> QED
    BY <1>1, <2>1, <2>2, <2>3, <2>4, <2>5 DEF TrustInOrder, Busy
<1> QED
  BY <1>6, <1>7, <1>8, <1>9, <1>10

------------------------------------------------------------------------------

\* Every step keeps the invariant.
LEMMA StepKeeps == IInv /\ [Next]_vars => IInv'
<1> SUFFICES ASSUME IInv, [Next]_vars PROVE IInv'
  OBVIOUS
<1>1. CASE Ask
  BY <1>1, PrepareKeeps, RefuseKeeps DEF Ask
<1>2. CASE Proceed
  BY <1>2, SubmitKeeps, PanicKeeps, CompletionKeeps, ReturnsKeep DEF Proceed
<1>3. CASE Device
  BY <1>3, TakesKeeps, TransfersKeeps, FinishesKeeps DEF Device
<1>4. CASE UNCHANGED vars
  BY <1>4 DEF vars, table, slots, call, device, IInv, TypeOK, NothingHeldBetweenCalls, InStep,
     LinksInOrder, First, ChainInOrder, CallInOrder, DeviceInOrder, TrustInOrder, Served, Busy
<1> QED
  BY <1>1, <1>2, <1>3, <1>4 DEF Next

\* In every reachable state the whole invariant holds.
THEOREM Invariant == Spec => []IInv
BY InitInvariant, StepKeeps, PTL DEF Spec

\* TypeOK: in particular no index of a ring goes beyond its width, because a call panics
\* before it would, and the device answers no more than it was asked.
THEOREM TypeCorrect == Spec => []TypeOK
BY Invariant, PTL DEF IInv

\* NothingHeldBetweenCalls: whatever way calls ended, a call finds all descriptors and all
\* slots free.
THEOREM CallsGiveBack == Spec => []NothingHeldBetweenCalls
BY Invariant, PTL DEF IInv

\* InStep: until a request times out, the completion a call consumes is its own.
THEOREM DriverAndDeviceInStep == Spec => []InStep
BY Invariant, PTL DEF IInv

------------------------------------------------------------------------------
(* The free list. *)

\* The free list is a walk along next from free_head.
LEMMA FreeListIsIterate == FreeList = Iterate(free_head, next)
BY DEF FreeList, Iterate

\* What the walk finds, step by step: between calls the first three descriptors in either
\* direction and then the others upwards, during a call the others.
LEMMA FreeListValues ==
  ASSUME TypeOK, LinksInOrder
  PROVE  \A i \in 0 .. num_free - 1 :
           FreeList[i] = IF Busy THEN i + 3
                         ELSE IF i = 0 THEN free_head
                         ELSE IF i = 1 THEN 1
                         ELSE IF i = 2 THEN 2 - free_head
                         ELSE i
<1> DEFINE Expected(i) == IF Busy THEN i + 3
                          ELSE IF i = 0 THEN free_head
                          ELSE IF i = 1 THEN 1
                          ELSE IF i = 2 THEN 2 - free_head
                          ELSE i
           T == {i \in Nat : i < num_free => FreeList[i] = Expected(i)}
<1>0. free_head \in Desc /\ next \in [Desc -> Desc]
  BY DEF TypeOK
<1>i. /\ Iterate(free_head, next)[0] = free_head
      /\ \A i \in Nat : Iterate(free_head, next)[i + 1] = next[Iterate(free_head, next)[i]]
  BY <1>0, IterateIsRecursive
<1>1. FreeList[0] = free_head /\ \A i \in Nat : FreeList[i + 1] = next[FreeList[i]]
  BY <1>i, FreeListIsIterate
<1>2. num_free \in Nat /\ num_free = IF Busy THEN QUEUE_SIZE - 3 ELSE QUEUE_SIZE
  BY QueueAssumption DEF LinksInOrder
<1>3. 0 \in T
  <2>1. CASE Busy
    <3>1. num_free > 0 => free_head = 3
      BY <1>2, <2>1, Successor, QueueAssumption DEF LinksInOrder
    <3> QED
      BY <1>1, <1>2, <2>1, <3>1
  <2>2. CASE ~ Busy
    BY <1>1, <2>2
  <2> QED
    BY <2>1, <2>2
<1>4. ASSUME NEW i \in T PROVE i + 1 \in T
  <2>1. SUFFICES ASSUME i + 1 < num_free PROVE FreeList[i + 1] = Expected(i + 1)
    OBVIOUS
  <2>2. i \in Nat /\ FreeList[i] = Expected(i) /\ FreeList[i + 1] = next[FreeList[i]]
    BY <1>1, <1>2, <2>1
  <2>3. \A d \in Desc : d >= 3 /\ d < QUEUE_SIZE - 1 => next[d] = d + 1
    BY Successor, QueueAssumption DEF LinksInOrder
  <2>4. CASE Busy
    <3>1. i + 3 \in Desc /\ i + 3 >= 3 /\ i + 3 < QUEUE_SIZE - 1
      BY <1>2, <2>1, <2>2, <2>4, QueueAssumption DEF Desc
    <3> QED
      BY <2>2, <2>3, <2>4, <3>1
  <2>5. CASE ~ Busy /\ i = 0
    BY <2>2, <2>5 DEF LinksInOrder, First
  <2>6. CASE ~ Busy /\ i = 1
    BY <2>2, <2>6 DEF LinksInOrder, First
  <2>7. CASE ~ Busy /\ i = 2
    <3>1. QUEUE_SIZE > 3
      BY <1>2, <2>1, <2>7, QueueAssumption
    <3> QED
      BY <2>2, <2>7, <3>1, Successor DEF LinksInOrder, First
  <2>8. CASE ~ Busy /\ i >= 3
    <3>1. i \in Desc /\ i < QUEUE_SIZE - 1
      BY <1>2, <2>1, <2>2, <2>8, QueueAssumption DEF Desc
    <3> QED
      BY <2>2, <2>3, <2>8, <3>1
  <2> QED
    BY <2>2, <2>4, <2>5, <2>6, <2>7, <2>8
<1>5. T = Nat
  <2> HIDE DEF T
  <2>1. T \in SUBSET Nat
    BY DEF T
  <2> QED
    BY <1>3, <1>4, <2>1, SetInduction
<1>6. ASSUME NEW i \in 0 .. num_free - 1 PROVE FreeList[i] = Expected(i)
  BY <1>2, <1>5
<1> QED
  BY <1>6

\* In every state the free list and the chain in use share out the descriptors.
LEMMA LinksAccount == TypeOK /\ LinksInOrder => DescriptorsAccounted
<1> SUFFICES ASSUME TypeOK, LinksInOrder PROVE DescriptorsAccounted
  OBVIOUS
<1>1. Free = IF Busy THEN 3 .. QUEUE_SIZE - 1 ELSE Desc
  <2>1. CASE Busy
    <3>1. num_free = QUEUE_SIZE - 3
      BY <2>1 DEF LinksInOrder
    <3>2. \A i \in 0 .. QUEUE_SIZE - 4 : FreeList[i] = i + 3
      BY <2>1, <3>1, FreeListValues, QueueAssumption
    <3>3. Free = {FreeList[i] : i \in 0 .. QUEUE_SIZE - 4}
      BY <3>1, QueueAssumption DEF Free
    <3>4. ASSUME NEW d \in 3 .. QUEUE_SIZE - 1 PROVE d \in Free
      <4>1. d - 3 \in 0 .. QUEUE_SIZE - 4 /\ FreeList[d - 3] = d
        BY <3>2, QueueAssumption
      <4> QED
        BY <3>3, <4>1
    <3>5. Free \subseteq 3 .. QUEUE_SIZE - 1
      BY <3>2, <3>3, QueueAssumption
    <3> QED
      BY <2>1, <3>4, <3>5
  <2>2. CASE ~ Busy
    <3>1. num_free = QUEUE_SIZE /\ free_head \in {0, 2}
      BY <2>2 DEF LinksInOrder, First
    <3>2. \A i \in Desc : FreeList[i] = IF i = 0 THEN free_head
                                       ELSE IF i = 1 THEN 1
                                       ELSE IF i = 2 THEN 2 - free_head
                                       ELSE i
      BY <2>2, <3>1, FreeListValues DEF Desc
    <3>3. Free = {FreeList[i] : i \in Desc}
      BY <3>1 DEF Free, Desc
    <3>4. ASSUME NEW d \in Desc PROVE \E i \in Desc : FreeList[i] = d
      <4>1. {0, 1, 2} \subseteq Desc
        BY QueueAssumption DEF Desc
      <4>2. CASE free_head = 0
        BY <3>2, <4>1, <4>2 DEF Desc
      <4>3. CASE free_head = 2
        <5>1. FreeList[0] = 2 /\ FreeList[1] = 1 /\ FreeList[2] = 0
          BY <3>2, <4>1, <4>3
        <5> QED
          BY <3>2, <4>1, <5>1 DEF Desc
      <4> QED
        BY <3>1, <4>2, <4>3
    <3>5. Free \subseteq Desc
      BY <3>1, <3>2, <3>3, QueueAssumption DEF Desc
    <3> QED
      BY <2>2, <3>3, <3>4, <3>5
  <2> QED
    BY <2>1, <2>2
<1>2. Chain = IF Busy THEN 0 .. 2 ELSE {}
  BY ChainOfThree DEF Chain, First
<1>3. /\ Cardinality(Desc) = QUEUE_SIZE
      /\ Cardinality(0 .. 2) = 3
      /\ Cardinality(3 .. QUEUE_SIZE - 1) = QUEUE_SIZE - 3
  <2>1. \A a, b \in Int : Cardinality(a .. b) = IF a > b THEN 0 ELSE b - a + 1
    BY FS_Interval
  <2>2. Cardinality(0 .. QUEUE_SIZE - 1) = QUEUE_SIZE
    BY <2>1, QueueAssumption
  <2>3. Cardinality(0 .. 2) = 3
    <3>1. Cardinality(0 .. 2) = 2 - 0 + 1
      BY <2>1, ~ (0 > 2), 0 \in Int, 2 \in Int
    <3> QED
      BY <3>1
  <2>4. Cardinality(3 .. QUEUE_SIZE - 1) = QUEUE_SIZE - 3
    BY <2>1, QueueAssumption
  <2> QED
    BY <2>2, <2>3, <2>4 DEF Desc
<1>4. num_free = IF Busy THEN QUEUE_SIZE - 3 ELSE QUEUE_SIZE
  BY DEF LinksInOrder
<1> QED
  BY <1>1, <1>2, <1>3, <1>4, FS_EmptySet, QueueAssumption DEF DescriptorsAccounted, Desc

\* DescriptorsAccounted: freeDescChain undoes allocDescChain whichever way round the chain
\* was, so no sequence of calls loses a descriptor or hands one out twice.
THEOREM NoDescriptorLost == Spec => []DescriptorsAccounted
<1>1. IInv => DescriptorsAccounted
  BY LinksAccount DEF IInv
<1> QED
  BY <1>1, Invariant, PTL

------------------------------------------------------------------------------
(* The driver as a block device. *)

\* A write of the request in progress reaches the disk; any other is after a timeout.
LEMMA TransferIsPromised ==
  ASSUME IInv, NEW r \in inflight, DeviceTransfers(r)
  PROVE  [Promise!Next]_(Promise!vars)
<1>1. UNCHANGED <<request, result, trusted>>
  BY DEF DeviceTransfers, call
<1>2. /\ r.kind \in {"read", "write"} /\ r.sector \in Sector /\ r.slot \in Slot
      /\ data \in [Slot -> Value] /\ disk \in [Sector -> Value] /\ trusted \in BOOLEAN
  BY DEF IInv, TypeOK, InFlight
<1>3. CASE r.kind = "read"
  <2>1. UNCHANGED disk
    BY <1>3 DEF DeviceTransfers
  <2> QED
    BY <1>1, <2>1 DEF Promise!vars
<1>4. CASE r.kind = "write"
  <2>1. disk' = [disk EXCEPT ![r.sector] = data[r.slot]]
    BY <1>4 DEF DeviceTransfers
  <2>2. CASE trusted
    <3>1. /\ stage = "waiting" /\ r.slot = slot /\ r.kind = request.kind
          /\ r.sector = request.sector
      BY <2>2, OwnRequest
    <3>2. data[slot] = request.value /\ request \in Request
      BY <1>4, <2>2, <3>1 DEF IInv, TrustInOrder, CallInOrder, Busy
    <3>3. request # NULL
      BY <3>2, RequestAssumption
    <3>4. Promise!Carry
      BY <1>1, <1>4, <2>1, <3>1, <3>2, <3>3 DEF Promise!Carry
    <3> QED
      BY <3>4 DEF Promise!Next
  <2>3. CASE ~ trusted
    <3>1. disk' \in [Sector -> Value]
      BY <1>2, <2>1
    <3>2. Promise!Stray
      BY <1>1, <2>3, <3>1 DEF Promise!Stray
    <3> QED
      BY <3>2 DEF Promise!Next
  <2> QED
    BY <2>2, <2>3
<1> QED
  BY <1>2, <1>3, <1>4

\* A request answered ok has been carried out on the sector and with the data it named.
LEMMA SuccessIsPromised ==
  ASSUME IInv, Succeed
  PROVE  \E v \in Value : Promise!AnswerOk(v)
<1> DEFINE v == IF request.kind = "read" THEN data[slot] ELSE request.value
<1>1. /\ stage = "completed" /\ status[slot] = "ok"
      /\ result' = [outcome |-> "ok", value |-> v] /\ request' = NULL
      /\ UNCHANGED <<disk, trusted>>
  BY DEF Succeed, Return, device
<1>2. request \in Request /\ request # NULL
  BY <1>1, RequestAssumption DEF IInv, CallInOrder, Busy
<1>3. v \in Value /\ request.kind \in {"read", "write"}
  BY <1>2, ValueAssumption DEF IInv, TypeOK, Request
<1>4. trusted => Served
  BY <1>1 DEF IInv, TrustInOrder, Busy
<1>5. trusted => v = disk[request.sector]
  BY <1>3, <1>4 DEF Served
<1>6. trusted /\ request.kind = "write" => v = request.value
  OBVIOUS
<1> HIDE DEF v
<1>7. Promise!AnswerOk(v)
  BY <1>1, <1>2, <1>5, <1>6 DEF Promise!AnswerOk
<1> QED
  BY <1>3, <1>7

\* Every step is one of a block device or none.
LEMMA StepIsPromised == IInv /\ [Next]_vars => [Promise!Next]_(Promise!vars)
<1> SUFFICES ASSUME IInv, [Next]_vars PROVE [Promise!Next]_(Promise!vars)
  OBVIOUS
<1>1. ASSUME NEW r \in Request, Prepare(r) PROVE Promise!Next
  <2>1. request = NULL /\ request' = r /\ UNCHANGED <<disk, result, trusted>>
    BY <1>1 DEF Prepare, IInv, CallInOrder, Busy, device
  <2>2. r \in Promise!Request
    BY <1>1, ValueAssumption DEF Request, Promise!Request
  <2> QED
    BY <2>1, <2>2 DEF Promise!Next, Promise!Ask
<1>2. ASSUME Refuse PROVE Promise!Next
  BY <1>2 DEF Refuse, IInv, CallInOrder, Busy, call, device, Promise!Next, Promise!Reject
<1>3. ASSUME submitChain \/ Panic \/ waitForCompletion PROVE UNCHANGED Promise!vars
  BY <1>3 DEF submitChain, Panic, waitForCompletion, device, Promise!vars
<1>4. ASSUME Timeout PROVE Promise!Next
  <2>1. request # NULL
    BY <1>4, RequestAssumption DEF Timeout, IInv, CallInOrder, Busy
  <2> QED
    BY <1>4, <2>1 DEF Timeout, Return, device, Promise!Next, Promise!TimeOut
<1>5. ASSUME Succeed PROVE Promise!Next
  BY <1>5, SuccessIsPromised DEF Promise!Next
<1>6. ASSUME Fail PROVE Promise!Next
  <2>1. request # NULL
    BY <1>6, RequestAssumption DEF Fail, IInv, CallInOrder, Busy
  <2> QED
    BY <1>6, <2>1 DEF Fail, Return, device, Promise!Next, Promise!AnswerFailed
<1>7. ASSUME DeviceTakes PROVE UNCHANGED Promise!vars
  BY <1>7 DEF DeviceTakes, call, Promise!vars
<1>8. ASSUME NEW r \in inflight, NEW outcome \in {"ok", "ioerr"}, DeviceFinishes(r, outcome)
      PROVE  UNCHANGED Promise!vars
  BY <1>8 DEF DeviceFinishes, call, Promise!vars
<1>9. CASE Ask
  BY <1>1, <1>2, <1>9 DEF Ask
<1>10. CASE Proceed
  BY <1>3, <1>4, <1>5, <1>6, <1>10 DEF Proceed
<1>11. CASE Device
  BY <1>7, <1>8, <1>11, TransferIsPromised DEF Device
<1>12. CASE UNCHANGED vars
  BY <1>12 DEF vars, call, device, Promise!vars
<1> QED
  BY <1>9, <1>10, <1>11, <1>12 DEF Next

\* KeepsPromise: until a request times out the driver is a block device that serves one
\* request at a time and answers ok only for what has been done.
THEOREM DriverIsBlockDevice == Spec => KeepsPromise
<1>1. Init => Promise!Init
  BY DEF Init, Promise!Init
<1> QED
  BY <1>1, StepIsPromised, Invariant, PTL DEF Spec, KeepsPromise, Promise!Spec

==============================================================================
