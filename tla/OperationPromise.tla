--------------------------- MODULE OperationPromise ---------------------------
(***************************************************************************)
(* What a caller of the operation ledger may rely on, without processes,   *)
(* rows or tasks: an operation ID is bound to one request for ever, its    *)
(* side effect is applied at most once and only while the verdict is open, *)
(* and one verdict is given.  A verdict may be "unknown" (or "failed")     *)
(* whether or not the effect happened; "completed" implies that it did.    *)
(* This is the contract of docs/ARCHITECTURE.md, "Why a lost response is   *)
(* recoverable", as state.py and engine.py carry it out.                   *)
(***************************************************************************)
CONSTANTS Op, Arg, None

VARIABLES bound,   \* the request an ID was used for
          applied, \* the IDs whose side effect has happened
          verdict  \* "open", or the recorded outcome

pvars == <<bound, applied, verdict>>

PromiseInit ==
    /\ bound = [o \in Op |-> None]
    /\ applied = {}
    /\ verdict = [o \in Op |-> "open"]

Bind(o, a) ==
    /\ bound[o] = None
    /\ bound' = [bound EXCEPT ![o] = a]
    /\ UNCHANGED <<applied, verdict>>

Apply(o) ==
    /\ bound[o] # None
    /\ o \notin applied
    /\ verdict[o] = "open"
    /\ applied' = applied \cup {o}
    /\ UNCHANGED <<bound, verdict>>

Settle(o, v) ==
    /\ bound[o] # None
    /\ verdict[o] = "open"
    /\ v = "completed" => o \in applied
    /\ verdict' = [verdict EXCEPT ![o] = v]
    /\ UNCHANGED <<bound, applied>>

\* A restart settles every open operation at once.
SettleAll ==
    /\ verdict' = [o \in Op |-> IF bound[o] # None /\ verdict[o] = "open"
                                THEN "unknown" ELSE verdict[o]]
    /\ UNCHANGED <<bound, applied>>

Next ==
    \/ \E o \in Op : Apply(o)
    \/ \E o \in Op, a \in Arg : Bind(o, a)
    \/ \E o \in Op, v \in {"completed", "failed", "unknown"} : Settle(o, v)
    \/ SettleAll

Spec == PromiseInit /\ [][Next]_pvars
=============================================================================
