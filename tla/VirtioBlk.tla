------------------------------ MODULE VirtioBlk ------------------------------
(***************************************************************************)
(* The virtio block driver (virtio_blk.zig) after init: the descriptor     *)
(* table and its free list, the avail and used rings, the DMA slots, and   *)
(* the two operations readSectors and writeSectors, which submit a chain   *)
(* of three descriptors and poll for its completion; together with the     *)
(* device on the other side of the rings, which works concurrently.        *)
(*                                                                         *)
(* A buffer address is the slot it lies in and what it holds.  The driver  *)
(* serves one caller at a time.  Ring indices are 16 bits wide in the code *)
(* and their + 1 is checked (the kernel is built in Debug mode): IDX_MAX   *)
(* is the largest.                                                         *)
(***************************************************************************)
EXTENDS Integers, FiniteSets

CONSTANTS
  QUEUE_SIZE,     \* descriptors, and entries of either ring
  NUM_DMA_SLOTS,
  IDX_MAX,
  Sector, Value,
  ZERO,           \* what setupDmaSlots puts in the data pages
  NULL

ASSUME QueueAssumption == QUEUE_SIZE \in Nat /\ QUEUE_SIZE >= 3
ASSUME SlotsAssumption == NUM_DMA_SLOTS \in Nat \ {0}
ASSUME IndexAssumption == IDX_MAX \in Nat \ {0}
ASSUME ValueAssumption == ZERO \in Value /\ NULL \notin Value

Desc == 0 .. QUEUE_SIZE - 1
Slot == 0 .. NUM_DMA_SLOTS - 1
Request ==
  [kind : {"read"}, sector : Sector, value : {ZERO}] \cup
  [kind : {"write"}, sector : Sector, value : Value]
ASSUME RequestAssumption == NULL \notin Request
Outcome == {"none", "ok", "failed", "timeout"}
Nowhere == [part |-> "none", slot |-> 0]

VARIABLES
  addr, more, next,        \* per descriptor: addr, the NEXT flag, next
  free_head, num_free,
  avail, avail_idx, used, used_idx, last_used_idx,
  in_use, header, data, status,   \* per DMA slot
  is_read_only,
  request, stage, slot, head,     \* the call in progress and its locals
  result,                         \* what the last call returned
  disk, taken, inflight, broken,  \* the device: the avail entries it has read, the
                                  \* requests it works on
  trusted                         \* history: no request has timed out

table  == <<addr, more, next, free_head, num_free>>
slots  == <<in_use, header, data, status>>
call   == <<request, stage, slot, head>>
device == <<disk, taken, inflight, broken>>
vars   == <<table, avail, avail_idx, used, used_idx, last_used_idx, slots, is_read_only, call,
            result, device, trusted>>

------------------------------------------------------------------------------

\* What init leaves: setupQueue links the descriptors in order and clears the rings,
\* setupDmaSlots clears the slots.
Init ==
  /\ addr = [d \in Desc |-> Nowhere]
  /\ more = [d \in Desc |-> FALSE]
  /\ next = [d \in Desc |-> (d + 1) % QUEUE_SIZE]
  /\ free_head = 0
  /\ num_free = QUEUE_SIZE
  /\ avail = [e \in Desc |-> 0] /\ avail_idx = 0
  /\ used = [e \in Desc |-> 0] /\ used_idx = 0
  /\ last_used_idx = 0
  /\ in_use = [s \in Slot |-> FALSE]
  /\ header = [s \in Slot |-> NULL]
  /\ data = [s \in Slot |-> ZERO]
  /\ status = [s \in Slot |-> "ok"]
  /\ is_read_only \in BOOLEAN
  /\ request = NULL /\ stage = "idle" /\ slot = 0 /\ head = 0
  /\ result = [outcome |-> "none", value |-> NULL]
  /\ disk \in [Sector -> Value]
  /\ taken = 0 /\ inflight = {} /\ broken = FALSE
  /\ trusted = TRUE

\* The descriptors of the chain that starts at h.
Second(h) == next[h]
Third(h) == next[next[h]]

allocDescChain(h) ==
  /\ num_free >= 3
  /\ h = free_head
  /\ free_head' = next[Third(h)]
  /\ num_free' = num_free - 3

\* Definitions named Faulty... are not the code's: each is a plausible mistake in the
\* definition after it, put in its place to see that a property notices.

FaultyFreeDescChain(h) ==  \* free_head read once, before the loop
  LET c == Second(h)
      l == Third(h)
  IN  /\ addr' = [addr EXCEPT ![h] = Nowhere, ![c] = Nowhere, ![l] = Nowhere]
      /\ more' = [more EXCEPT ![h] = FALSE, ![c] = FALSE, ![l] = FALSE]
      /\ next' = [next EXCEPT ![h] = free_head, ![c] = free_head, ![l] = free_head]
      /\ free_head' = l
      /\ num_free' = num_free + 3

\* Each descriptor becomes the new head of the free list.
freeDescChain(h) ==
  LET c == Second(h)
      l == Third(h)
  IN  /\ addr' = [addr EXCEPT ![h] = Nowhere, ![c] = Nowhere, ![l] = Nowhere]
      /\ more' = [more EXCEPT ![h] = FALSE, ![c] = FALSE, ![l] = FALSE]
      /\ next' = [next EXCEPT ![h] = free_head, ![c] = h, ![l] = c]
      /\ free_head' = l
      /\ num_free' = num_free + 3

allocDmaSlot(s) == ~ in_use[s] /\ \A other \in Slot : other < s => in_use[other]

\* readSectors and writeSectors up to submitChain.  Their NoDmaSlot returns are not
\* modelled: NothingHeldBetweenCalls shows that a call always finds a slot and a chain.
Prepare(r) ==
  /\ stage = "idle"
  /\ r.kind = "write" => ~ is_read_only
  /\ \E s \in Slot, h \in Desc :
       /\ allocDmaSlot(s)
       /\ allocDescChain(h)
       /\ in_use' = [in_use EXCEPT ![s] = TRUE]
       /\ header' = [header EXCEPT ![s] = [kind |-> r.kind, sector |-> r.sector]]
       /\ data' = IF r.kind = "write" THEN [data EXCEPT ![s] = r.value] ELSE data
       /\ status' = [status EXCEPT ![s] = "pending"]
       /\ addr' = [addr EXCEPT ![h] = [part |-> "req", slot |-> s],
                               ![Second(h)] = [part |-> "data", slot |-> s],
                               ![Third(h)] = [part |-> "status", slot |-> s]]
       /\ more' = [more EXCEPT ![h] = TRUE, ![Second(h)] = TRUE, ![Third(h)] = FALSE]
       /\ slot' = s /\ head' = h
  /\ request' = r
  /\ stage' = "prepared"
  /\ UNCHANGED <<next, avail, avail_idx, used, used_idx, last_used_idx, is_read_only, result,
                 device, trusted>>

FaultyRefuse ==  \* returns without giving the slot back
  /\ stage = "idle"
  /\ \E s \in Slot : allocDmaSlot(s) /\ in_use' = [in_use EXCEPT ![s] = TRUE]
  /\ result' = [outcome |-> "failed", value |-> NULL]
  /\ UNCHANGED <<table, avail, avail_idx, used, used_idx, last_used_idx, header, data, status,
                 is_read_only, call, device, trusted>>

\* More than eight sectors, or a write to a read-only device: the slot that was taken
\* goes back by the defer.
Refuse ==
  /\ stage = "idle"
  /\ result' = [outcome |-> "failed", value |-> NULL]
  /\ UNCHANGED <<table, avail, avail_idx, used, used_idx, last_used_idx, slots, is_read_only,
                 call, device, trusted>>

FaultySubmitChain ==  \* the index is not checked
  /\ stage = "prepared"
  /\ avail' = [avail EXCEPT ![avail_idx % QUEUE_SIZE] = head]
  /\ avail_idx' = avail_idx + 1
  /\ stage' = "waiting"
  /\ UNCHANGED <<table, used, used_idx, last_used_idx, slots, is_read_only, request, slot, head,
                 result, device, trusted>>

submitChain ==
  /\ stage = "prepared"
  /\ avail_idx < IDX_MAX
  /\ avail' = [avail EXCEPT ![avail_idx % QUEUE_SIZE] = head]
  /\ avail_idx' = avail_idx + 1
  /\ stage' = "waiting"
  /\ UNCHANGED <<table, used, used_idx, last_used_idx, slots, is_read_only, request, slot, head,
                 result, device, trusted>>

\* idx + 1 does not fit: the overflow check stops the kernel.
Panic ==
  /\ stage = "prepared"
  /\ avail_idx = IDX_MAX
  /\ stage' = "panic"
  /\ UNCHANGED <<table, avail, avail_idx, used, used_idx, last_used_idx, slots, is_read_only,
                 request, slot, head, result, device, trusted>>

FaultyWaitForCompletion ==  \* the entry is not consumed
  /\ stage = "waiting"
  /\ last_used_idx # used_idx
  /\ stage' = "completed"
  /\ UNCHANGED <<table, avail, avail_idx, used, used_idx, last_used_idx, slots, is_read_only,
                 request, slot, head, result, device, trusted>>

\* waitForCompletion returns as soon as there is any new entry in the used ring; which
\* chain it is about, the callers do not look at.
waitForCompletion ==
  /\ stage = "waiting"
  /\ last_used_idx # used_idx
  /\ last_used_idx' = last_used_idx + 1
  /\ stage' = "completed"
  /\ UNCHANGED <<table, avail, avail_idx, used, used_idx, slots, is_read_only, request, slot,
                 head, result, device, trusted>>

\* All ways out of a submitted request free the chain and, by the defer, the slot.
Return(outcome, value) ==
  /\ freeDescChain(head)
  /\ in_use' = [in_use EXCEPT ![slot] = FALSE]
  /\ result' = [outcome |-> outcome, value |-> value]
  /\ request' = NULL
  /\ stage' = "idle"
  /\ UNCHANGED <<avail, avail_idx, used, used_idx, last_used_idx, header, data, status,
                 is_read_only, slot, head, device>>

FaultyTimeout == FALSE  \* polls for ever

\* The polling loop runs out: the device still has the chain and the slot.
Timeout ==
  /\ stage = "waiting"
  /\ Return("timeout", NULL)
  /\ trusted' = FALSE

FaultySucceed ==  \* no look at the status byte
  /\ stage = "completed"
  /\ Return("ok", IF request.kind = "read" THEN data[slot] ELSE request.value)
  /\ UNCHANGED trusted

\* What the answer of a successful write has as its value is what was written.
Succeed ==
  /\ stage = "completed"
  /\ status[slot] = "ok"
  /\ Return("ok", IF request.kind = "read" THEN data[slot] ELSE request.value)
  /\ UNCHANGED trusted

Fail ==
  /\ stage = "completed"
  /\ status[slot] # "ok"
  /\ Return("failed", NULL)
  /\ UNCHANGED trusted

------------------------------------------------------------------------------
(* The device, modelled from how the driver uses it. *)

\* It reads the next avail entry, the chain as the table has it now and the header.
\* A chain that is not one of a request makes it stop for good.
DeviceTakes ==
  LET h == avail[taken % QUEUE_SIZE]
      s == addr[h].slot
      wellFormed == /\ addr[h].part = "req" /\ more[h]
                    /\ addr[Second(h)].part = "data" /\ more[Second(h)]
                    /\ addr[Third(h)].part = "status" /\ ~ more[Third(h)]
  IN  /\ ~ broken
      /\ taken < avail_idx
      /\ taken' = taken + 1
      /\ broken' = ~ wellFormed
      /\ inflight' = IF wellFormed
                     THEN inflight \cup {[at |-> taken, head |-> h, slot |-> s,
                                          kind |-> header[s].kind,
                                          sector |-> header[s].sector, done |-> FALSE]}
                     ELSE inflight
      /\ UNCHANGED <<table, avail, avail_idx, used, used_idx, last_used_idx, slots,
                     is_read_only, call, result, disk, trusted>>

DeviceTransfers(r) ==
  /\ r \in inflight /\ ~ r.done
  /\ r.kind = "read" =>
       data' = [data EXCEPT ![r.slot] = disk[r.sector]] /\ UNCHANGED disk
  /\ r.kind = "write" =>
       disk' = [disk EXCEPT ![r.sector] = data[r.slot]] /\ UNCHANGED data
  /\ inflight' = (inflight \ {r}) \cup {[r EXCEPT !.done = TRUE]}
  /\ UNCHANGED <<table, avail, avail_idx, used, used_idx, last_used_idx, in_use, header, status,
                 is_read_only, call, result, taken, broken, trusted>>

\* It may give up with an error before the transfer or after it.
DeviceFinishes(r, outcome) ==
  /\ r \in inflight /\ ~ broken
  /\ outcome = "ok" => r.done
  /\ status' = [status EXCEPT ![r.slot] = outcome]
  /\ used' = [used EXCEPT ![used_idx % QUEUE_SIZE] = r.head]
  /\ used_idx' = used_idx + 1
  /\ inflight' = inflight \ {r}
  /\ UNCHANGED <<table, avail, avail_idx, last_used_idx, in_use, header, data, is_read_only,
                 call, result, disk, taken, broken, trusted>>

Device ==
  \/ DeviceTakes
  \/ \E r \in inflight :
       \/ DeviceTransfers(r)
       \/ \E outcome \in {"ok", "ioerr"} : DeviceFinishes(r, outcome)

------------------------------------------------------------------------------

Ask == (\E r \in Request : Prepare(r)) \/ Refuse

Proceed == submitChain \/ Panic \/ waitForCompletion \/ Timeout \/ Succeed \/ Fail

Next == Ask \/ Proceed \/ Device

Spec == Init /\ [][Next]_vars

\* A call that was made keeps executing; nothing is assumed of the device.
FairSpec == Spec /\ WF_vars(Proceed)

------------------------------------------------------------------------------
(***************************************************************************)
(* Properties.                                                             *)
(***************************************************************************)

Busy == stage # "idle"
Chain == IF Busy THEN {head, Second(head), Third(head)} ELSE {}

FreeList[i \in Nat] == IF i = 0 THEN free_head ELSE next[FreeList[i - 1]]
Free == {FreeList[i] : i \in 0 .. num_free - 1}

InFlight ==
  [at : 0 .. IDX_MAX - 1, head : Desc, slot : Slot, kind : {"read", "write"},
   sector : Sector, done : BOOLEAN]

\* Every variable has its type; no index of a ring goes beyond 16 bits.
TypeOK ==
  /\ addr \in [Desc -> [part : {"none", "req", "data", "status"}, slot : Slot]]
  /\ more \in [Desc -> BOOLEAN] /\ next \in [Desc -> Desc]
  /\ free_head \in Desc /\ num_free \in 0 .. QUEUE_SIZE
  /\ avail \in [Desc -> Desc] /\ used \in [Desc -> Desc]
  /\ {avail_idx, used_idx, last_used_idx, taken} \subseteq 0 .. IDX_MAX
  /\ in_use \in [Slot -> BOOLEAN]
  /\ header \in [Slot -> [kind : {"read", "write"}, sector : Sector] \cup {NULL}]
  /\ data \in [Slot -> Value]
  /\ status \in [Slot -> {"ok", "ioerr", "pending"}]
  /\ {is_read_only, broken, trusted} \subseteq BOOLEAN
  /\ request \in Request \cup {NULL}
  /\ stage \in {"idle", "prepared", "waiting", "completed", "panic"}
  /\ slot \in Slot /\ head \in Desc
  /\ result \in [outcome : Outcome, value : Value \cup {NULL}]
  /\ disk \in [Sector -> Value]
  /\ inflight \subseteq InFlight

\* Every descriptor is either on the free list, once, or in the chain of the call in
\* progress, however calls ended before: freeDescChain undoes allocDescChain in any
\* order of the links.
DescriptorsAccounted ==
  /\ Cardinality(Free) = num_free
  /\ Cardinality(Chain) = IF Busy THEN 3 ELSE 0
  /\ Free \cap Chain = {}
  /\ Free \cup Chain = Desc

\* No way out of a call keeps a descriptor or a slot, so no sequence of errors and
\* timeouts brings the driver to NoDmaSlot.
NothingHeldBetweenCalls ==
  /\ ~ Busy => num_free = QUEUE_SIZE
  /\ \A s \in Slot : in_use[s] <=> Busy /\ s = slot

\* The indices follow each other, and until a request times out driver and device are
\* in step: the device works on nothing but the call that waits, and the completion a
\* call consumes is its own.
InStep ==
  /\ last_used_idx <= used_idx /\ used_idx <= taken /\ taken <= avail_idx
  /\ ~ broken => used_idx + Cardinality(inflight) = taken
  /\ trusted =>
       /\ ~ broken
       /\ stage # "waiting" => last_used_idx = avail_idx /\ inflight = {}
       /\ stage = "waiting" =>
            /\ last_used_idx + 1 = avail_idx
            /\ \A r \in inflight : r.head = head /\ r.slot = slot
       /\ stage = "completed" => used[(last_used_idx - 1) % QUEUE_SIZE] = head

\* Until a request times out the driver is a block device in the sense of BlockDevice;
\* after it, every answer and every sector is open.
Promise == INSTANCE BlockDevice

KeepsPromise == Promise!Spec

\* Every call returns, also when the device never answers, or stops the kernel.
CallsReturn == Busy ~> stage \in {"idle", "panic"}

\* virtio_blk.zig: "Read sectors from the block device into a buffer": a read that
\* succeeds returns what the sector it named holds.
ReadsItsSector ==
  [][Succeed /\ request.kind = "read" => data[slot] = disk[request.sector]]_vars

==============================================================================
