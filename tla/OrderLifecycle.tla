---------------------------- MODULE OrderLifecycle ----------------------------
(***************************************************************************)
(* What the order queue promises, without leases, sessions, time, storage  *)
(* or crashes: an accepted order waits, is held by one worker at a time,   *)
(* goes from one worker to another only by waiting again, and ends either  *)
(* acknowledged while it is held or withdrawn while it waits.              *)
(***************************************************************************)
CONSTANTS Orders, Workers, NoWorker

VARIABLES status, holder

Statuses == {"absent", "waiting", "held", "acknowledged", "withdrawn"}

Init ==
    /\ status = [o \in Orders |-> "absent"]
    /\ holder = [o \in Orders |-> NoWorker]

Accept(o) ==
    /\ status[o] = "absent"
    /\ status' = [status EXCEPT ![o] = "waiting"]
    /\ UNCHANGED holder

Hand(o, w) ==
    /\ status[o] = "waiting"
    /\ status' = [status EXCEPT ![o] = "held"]
    /\ holder' = [holder EXCEPT ![o] = w]

Return(o) ==
    /\ status[o] = "held"
    /\ status' = [status EXCEPT ![o] = "waiting"]
    /\ holder' = [holder EXCEPT ![o] = NoWorker]

Acknowledge(o) ==
    /\ status[o] = "held"
    /\ status' = [status EXCEPT ![o] = "acknowledged"]
    /\ holder' = [holder EXCEPT ![o] = NoWorker]

Withdraw(S) ==
    /\ \A o \in S : status[o] = "waiting"
    /\ status' = [o \in Orders |-> IF o \in S THEN "withdrawn" ELSE status[o]]
    /\ UNCHANGED holder

Next ==
    \/ \E o \in Orders : Accept(o) \/ Return(o) \/ Acknowledge(o)
    \/ \E o \in Orders, w \in Workers : Hand(o, w)
    \/ \E S \in SUBSET Orders : Withdraw(S)

Spec == Init /\ [][Next]_<<status, holder>>
=============================================================================
