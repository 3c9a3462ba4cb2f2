----------------------------- MODULE GaslessBets -----------------------------
(***************************************************************************)
(* What the relayer promises those who submit bets, whatever its process   *)
(* does inside: each submit is paid for once at most, a bet of one nonce   *)
(* is executed once, a key is on record once, a record follows its call,   *)
(* and each caller is answered once, from what is on record.  It does not  *)
(* promise that a caller who hears of an error has no record, nor that a   *)
(* record is ever confirmed: only one whose caller was told of it can be.  *)
(***************************************************************************)
CONSTANTS Requests, KeyOf, SlotOf

VARIABLES fate,    \* of each submit's call: "none", "open", or how it ended
          record,  \* what is on record of it
          told     \* what its caller was told, and about whose call

vars == <<fate, record, told>>

Silence == [status |-> "none"]
Error   == [status |-> "error"]

Init ==
  /\ fate = [r \in Requests |-> "none"] /\ record = [r \in Requests |-> "none"]
  /\ told = [r \in Requests |-> Silence]

Known(r) == {q \in Requests : record[q] # "none" /\ KeyOf[q] = KeyOf[r]}

Tell(r, a) == told[r] = Silence /\ told' = [told EXCEPT ![r] = a]

\* The caller may hear of an error though the call was paid.
Pay(r) ==
  /\ fate[r] = "none" /\ told[r] = Silence
  /\ fate' = [fate EXCEPT ![r] = "open"]
  /\ Tell(r, Error) \/ UNCHANGED told
  /\ UNCHANGED record

\* Only a key that is new, and whatever its caller was told or will be.
Record(r) ==
  /\ fate[r] # "none" /\ Known(r) = {}
  /\ record' = [record EXCEPT ![r] = "PENDING"]
  /\ UNCHANGED <<fate, told>>

\* A caller hears what is on record under its key, of its own call or another's.
Report(r) ==
  /\ \E q \in Known(r) : Tell(r, [status |-> record[q], task |-> q])
  /\ UNCHANGED <<fate, record>>

\* Requests that fail, one by one or with the process.
GiveUp(S) ==
  /\ told' = [r \in Requests |-> IF r \in S /\ told[r] = Silence THEN Error ELSE told[r]]
  /\ UNCHANGED <<fate, record>>

Settle(r) ==
  /\ fate[r] = "open"
  /\ \/ /\ \A q \in Requests : fate[q] = "ExecSuccess" => SlotOf[q] # SlotOf[r]
        /\ fate' = [fate EXCEPT ![r] = "ExecSuccess"]
     \/ fate' = [fate EXCEPT ![r] = "ExecReverted"]
     \/ fate' = [fate EXCEPT ![r] = "Cancelled"]
  /\ UNCHANGED <<record, told>>

\* A record is followed once its own caller was told of it.
Confirm(r) ==
  /\ record[r] = "PENDING" /\ told[r] = [status |-> "PENDING", task |-> r]
  /\ \/ fate[r] = "ExecSuccess"  /\ record' = [record EXCEPT ![r] = "EXECUTED"]
     \/ fate[r] = "ExecReverted" /\ record' = [record EXCEPT ![r] = "FAILED"]
  /\ UNCHANGED <<fate, told>>

Next ==
  \/ \E r \in Requests : Pay(r) \/ Record(r) \/ Report(r) \/ Settle(r) \/ Confirm(r)
  \/ \E S \in SUBSET Requests : GiveUp(S)

Spec == Init /\ [][Next]_vars
=============================================================================
