--------------------------- MODULE GuardContract ---------------------------
(***************************************************************************)
(* What a TransactionGuard promises about durable data, whatever fails and *)
(* whenever the process dies.  It is weaker than an atomic transaction     *)
(* over all backends, because TransactionGuard::commit() commits the       *)
(* backends one by one: the writes of a guard appear backend by backend in *)
(* the order of the storage list, a guard that reports completion is       *)
(* all-or-nothing, and a guard dropped in between keeps a prefix.          *)
(***************************************************************************)
EXTENDS Naturals

CONSTANTS Guard, N

VARIABLES
    staged,     \* backends each guard has modified
    published,  \* guards whose writes are durable in each backend
    verdict     \* what the guard has reported to its owner

cvars == <<staged, published, verdict>>

Backends == 1..N

Init ==
    /\ staged    = [g \in Guard |-> {}]
    /\ published = [b \in Backends |-> {}]
    /\ verdict   = [g \in Guard |-> "open"]

\* A modification never goes to a backend at or before a published one.
Stage(g, b) ==
    /\ verdict[g] = "open"
    /\ \A c \in Backends : g \in published[c] => c < b
    /\ staged' = [staged EXCEPT ![g] = @ \cup {b}]
    /\ UNCHANGED <<published, verdict>>

\* Backend b takes the guard's writes after all earlier backends did.
Publish(g, b) ==
    /\ verdict[g] = "open"
    /\ b \in staged[g]
    /\ \A c \in staged[g] : c < b => g \in published[c]
    /\ published' = [published EXCEPT ![b] = @ \cup {g}]
    /\ UNCHANGED <<staged, verdict>>

Verdict(g, v) == verdict' = [verdict EXCEPT ![g] = v] /\ UNCHANGED <<staged, published>>

Committed(g) ==
    /\ verdict[g] = "open"
    /\ \A b \in staged[g] : g \in published[b]
    /\ Verdict(g, "committed")

RolledBack(g) ==
    /\ verdict[g] = "open"
    /\ \A b \in Backends : g \notin published[b]
    /\ Verdict(g, "rolledback")

Drop ==
    /\ \E S \in SUBSET Guard :
        verdict' = [g \in Guard |-> IF g \in S /\ verdict[g] = "open" THEN "dropped" ELSE verdict[g]]
    /\ UNCHANGED <<staged, published>>

Next ==
    \/ \E g \in Guard : \/ \E b \in Backends : Stage(g, b) \/ Publish(g, b)
                        \/ Committed(g) \/ RolledBack(g)
    \/ Drop

Spec == Init /\ [][Next]_cvars
=============================================================================
