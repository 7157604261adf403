--------------------------- MODULE LaggingCopies ---------------------------
(***************************************************************************)
(* What a read cache beside a store promises at least: a copy may lag, but *)
(* it never shows what was never stored, and some places never get a copy. *)
(***************************************************************************)
CONSTANTS
    Versions,      \* what the store can hold
    Places,        \* where a copy may be kept
    Hidden,        \* places that must never hold one
    None

VARIABLES
    value,         \* the store
    past,          \* every version it has held
    copy           \* copy[p]: the version kept at p, or None

Init ==
    /\ value \in Versions
    /\ past = {value}
    /\ copy = [p \in Places |-> None]

Write ==
    /\ value' \in Versions
    /\ past' = past \cup {value'}
    /\ UNCHANGED copy

Keep(p) ==
    /\ p \notin Hidden
    /\ \E v \in past \cup {None} : copy' = [copy EXCEPT ![p] = v]
    /\ UNCHANGED <<value, past>>

Next == Write \/ \E p \in Places : Keep(p)

Spec == Init /\ [][Next]_<<value, past, copy>>
=============================================================================
