----------------------------- MODULE Lifecycle -----------------------------
(***************************************************************************)
(* A security record's states and the moves between them                   *)
(* (internal/effectpoint/lifecycle.go).  A held record's state names its    *)
(* hold reason and an ended record's its end reason, as the table does;     *)
(* "none" is a record not yet inserted.                                     *)
(***************************************************************************)

\* saved, not yet effective
Pending == {"requested", "awaiting_confirmation", "scheduled"}

HeldStates == {"held/security_hold", "held/uncomputable", "held/restore_pending"}

\* how an effective or held record ends, and how one not yet effective does
Endings == {"ended/revoked", "ended/relinquished", "ended/superseded",
            "ended/source_ended", "ended/source_narrowed", "ended/expired"}
PendingEndings == {"ended/rejected", "ended/withdrawn", "ended/cancelled"}
EndedStates == Endings \cup PendingEndings

Effective == {"active"} \cup HeldStates

States == {"none"} \cup Pending \cup Effective \cup EndedStates

\* The table: where a record may go from each state.
Moves(from) ==
  CASE from = "none" -> Pending \cup {"active", "ended/rejected"}
    [] from = "requested" -> {"awaiting_confirmation", "scheduled", "active"} \cup PendingEndings
    [] from = "awaiting_confirmation" -> {"awaiting_confirmation", "scheduled", "active"} \cup PendingEndings
    [] from = "scheduled" -> {"awaiting_confirmation", "active"} \cup PendingEndings
    [] from = "active" -> {"held/security_hold", "held/uncomputable"} \cup Endings
    [] from = "held/security_hold" -> {"active", "held/security_hold", "held/restore_pending"} \cup Endings
    [] from \in HeldStates \ {"held/security_hold"} -> {"active", "held/security_hold"} \cup Endings
    [] OTHER -> {}

\* What Transition and insert ask before they write a state.
Allowed(from, to) == to \in Moves(from)

=============================================================================
