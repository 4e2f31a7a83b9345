----------------------------- MODULE BlockDevice -----------------------------
(***************************************************************************)
(* What a caller of the block device driver may rely on: one request at a  *)
(* time; a request answered ok has been carried out, on the sector and     *)
(* with the data it named; the disk changes only by the write in progress. *)
(* All of it holds until a request times out, and nothing of it after.     *)
(***************************************************************************)
CONSTANTS
  Sector, Value,
  NULL      \* no request

VARIABLES
  disk,     \* what each sector holds
  request,  \* the request being served, [kind, sector, value], or NULL
  result,   \* the answer to the last request: [outcome, value]
  trusted   \* no request has timed out yet

vars == <<disk, request, result, trusted>>

Request == [kind : {"read", "write"}, sector : Sector, value : Value]

Init ==
  /\ disk \in [Sector -> Value]
  /\ request = NULL
  /\ result = [outcome |-> "none", value |-> NULL]
  /\ trusted = TRUE

Ask(r) ==
  /\ request = NULL
  /\ request' = r
  /\ UNCHANGED <<disk, result, trusted>>

Carry ==
  /\ request # NULL /\ request.kind = "write"
  /\ disk' = [disk EXCEPT ![request.sector] = request.value]
  /\ UNCHANGED <<request, result, trusted>>

AnswerOk(v) ==
  /\ request # NULL
  /\ trusted => v = disk[request.sector]
  /\ trusted /\ request.kind = "write" => v = request.value
  /\ result' = [outcome |-> "ok", value |-> v]
  /\ request' = NULL
  /\ UNCHANGED <<disk, trusted>>

\* An error of the device: a write may have been carried out all the same.
AnswerFailed ==
  /\ request # NULL
  /\ result' = [outcome |-> "failed", value |-> NULL]
  /\ request' = NULL
  /\ UNCHANGED <<disk, trusted>>

\* A request that cannot be served at all is not taken on.
Reject ==
  /\ request = NULL
  /\ result' = [outcome |-> "failed", value |-> NULL]
  /\ UNCHANGED <<disk, request, trusted>>

TimeOut ==
  /\ request # NULL
  /\ result' = [outcome |-> "timeout", value |-> NULL]
  /\ request' = NULL
  /\ trusted' = FALSE
  /\ UNCHANGED disk

\* A request that was given up is still on its way to the disk.
Stray ==
  /\ ~ trusted
  /\ disk' \in [Sector -> Value]
  /\ UNCHANGED <<request, result, trusted>>

Next ==
  \/ \E r \in Request : Ask(r)
  \/ Carry
  \/ \E v \in Value : AnswerOk(v)
  \/ AnswerFailed \/ Reject \/ TimeOut \/ Stray

Spec == Init /\ [][Next]_vars

==============================================================================
