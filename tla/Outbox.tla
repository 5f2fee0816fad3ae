------------------------------- MODULE Outbox -------------------------------
(***************************************************************************)
(* What a measuring device promises about its readings, whatever happens   *)
(* to its network: a bounded buffer in the order of measurement, from      *)
(* which only readings that the broker has are released, oldest first;     *)
(* when it is full, the newest reading is skipped and nothing else is lost.*)
(* No connection, message or timeout is mentioned.                         *)
(***************************************************************************)
EXTENDS Integers, Sequences

CONSTANTS Readings, Capacity

VARIABLES
    buffer,     \* the readings the device holds, oldest first
    stored      \* the readings the broker has

outboxVars == <<buffer, stored>>

Held == {buffer[i] : i \in 1 .. Len(buffer)}
Oldest(n) == {buffer[i] : i \in 1 .. n}

Init == buffer = <<>> /\ stored = {}

\* A new measurement takes a name that the device no longer holds.
Name(r) ==
    /\ r \notin Held
    /\ stored' = stored \ {r}
    /\ UNCHANGED buffer

\* A new measurement enters the buffer, which has room for it; an older one of
\* the same name is forgotten.
Accept(r) ==
    /\ r \notin Held
    /\ Len(buffer) < Capacity
    /\ buffer' = Append(buffer, r)
    /\ stored' = stored \ {r}

\* The broker receives the n oldest readings, some of them perhaps again.
Deliver(n) ==
    /\ stored' = stored \cup Oldest(n)
    /\ UNCHANGED buffer

\* The n oldest readings leave the buffer; the broker has them.
Release(n) ==
    /\ Oldest(n) \subseteq stored
    /\ buffer' = SubSeq(buffer, n + 1, Len(buffer))
    /\ UNCHANGED stored

Next ==
    \/ \E r \in Readings : Name(r) \/ Accept(r)
    \/ \E n \in 1 .. Len(buffer) : Deliver(n) \/ Release(n)

Spec == Init /\ [][Next]_outboxVars
=============================================================================
