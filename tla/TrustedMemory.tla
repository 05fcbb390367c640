----------------------------- MODULE TrustedMemory -----------------------------
(***************************************************************************)
(* What the Vertical Trust Fabric promises a requester, without clocks,     *)
(* keys or tags: requests are served one at a time; a request takes effect  *)
(* at most once, and only if it is authentic, current, fresh and permitted, *)
(* and the fabric has not tripped; and a requester that is told its request *)
(* was executed is told the truth.                                          *)
(***************************************************************************)
EXTENDS Integers

CONSTANTS
    Requesters,
    SeqMod,
    Requests,
    NoRequest,
    Authentic(_),   \* the request was made by the requester it names
    Permitted(_)    \* the policy lets the requester access the word it names

VARIABLES
    mem,            \* words, by <<layer, addr>>
    last,           \* last sequence number consumed, per requester
    active_epoch,
    tripped,        \* lockdown
    pending,        \* the request in flight, or NoRequest
    effect,         \* what became of it: "none", "done" or "refused"
    reply           \* the last response a requester accepted

trustedVars == <<mem, last, active_epoch, tripped, pending, effect, reply>>

Init ==
    /\ \A c \in DOMAIN mem : mem[c] = 0
    /\ last = [q \in Requesters |-> 0]
    /\ active_epoch = 0
    /\ tripped = FALSE
    /\ pending = NoRequest
    /\ effect = "none"
    /\ reply = NoRequest

\* The fabric may trip in any step, and never recovers.
MayTrip == tripped' \in BOOLEAN /\ (tripped => tripped')

Cell(q) == <<q.layer, q.addr>>

Submit(q) ==
    /\ pending = NoRequest
    /\ pending' = q
    /\ effect' = "none"
    /\ MayTrip
    /\ UNCHANGED <<mem, last, active_epoch, reply>>

\* The request is one its requester made for this epoch, and its next one.
Valid(q) ==
    /\ Authentic(q)
    /\ q.epoch = active_epoch
    /\ q.seq = (last[q.requester] + 1) % SeqMod

Consume ==
    /\ pending # NoRequest
    /\ effect = "none"
    /\ ~tripped
    /\ Valid(pending)
    /\ last' = [last EXCEPT ![pending.requester] = pending.seq]
    /\ UNCHANGED <<active_epoch, tripped, pending, reply>>

Execute ==
    /\ Consume
    /\ Permitted(pending)
    /\ mem' = IF pending.write THEN [mem EXCEPT ![Cell(pending)] = pending.data] ELSE mem
    /\ effect' = "done"

Refuse ==
    /\ Consume
    /\ effect' = "refused"
    /\ UNCHANGED mem

\* The requester learns of an execution only if there was one, with the word
\* that is in the memory; anything else it takes for a denial.
Answer ==
    /\ pending # NoRequest
    /\ pending' = NoRequest
    /\ \/ UNCHANGED reply
       \/ effect = "done" /\ reply' = [request |-> pending, data |-> mem[Cell(pending)]]
    /\ MayTrip
    /\ UNCHANGED <<mem, last, active_epoch, effect>>

Trip ==
    /\ tripped' = TRUE
    /\ UNCHANGED <<mem, last, active_epoch, pending, effect, reply>>

AdvanceEpoch ==
    /\ active_epoch' = active_epoch + 1
    /\ UNCHANGED <<mem, last, tripped, pending, effect, reply>>

Next ==
    \/ \E q \in Requests : Submit(q)
    \/ Execute
    \/ Refuse
    \/ Answer
    \/ Trip
    \/ AdvanceEpoch

Spec == Init /\ [][Next]_trustedVars

=============================================================================
