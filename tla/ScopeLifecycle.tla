--------------------------- MODULE ScopeLifecycle ---------------------------
(***************************************************************************)
(* What a transaction scope promises to the Engine, which sees only its    *)
(* row (lock_run_scopes): a state and a one-way fence.  Module             *)
(* Coordinator implements this with worker processes, leases, tools and    *)
(* sweeps.                                                                 *)
(*                                                                         *)
(*    absent -> open -> pivot-inflight -> pivot-passed -> committed        *)
(*                 \  \------ fenced open <---/                            *)
(*                  \-> cancelling -> cancelled                            *)
(*                                                                         *)
(* Any state but absent and committed may also end in suspended.           *)
(***************************************************************************)
CONSTANT Scope

VARIABLES state, fenced

Init == state = [s \in Scope |-> "absent"] /\ fenced = {}

Move(s, from, to) ==
    state[s] \in from /\ state' = [state EXCEPT ![s] = to]

Open(s) == Move(s, {"absent"}, "open") /\ UNCHANGED fenced

\* A member failed, or the Engine asked for a cancellation.
Fence(s) == state[s] = "open" /\ fenced' = fenced \cup {s} /\ UNCHANGED state

\* The fence refuses the pivot for good.
Admit(s) == s \notin fenced /\ Move(s, {"open"}, "pivot-inflight") /\ UNCHANGED fenced

\* A pivot that did not happen gives the scope back, but fenced.
Reopen(s) == Move(s, {"pivot-inflight"}, "open") /\ fenced' = fenced \cup {s}

Pass(s) == Move(s, {"pivot-inflight"}, "pivot-passed") /\ UNCHANGED fenced

Commit(s) == Move(s, {"pivot-passed"}, "committed") /\ UNCHANGED fenced

\* Only from open: neither an admitted pivot nor a suspended scope is ever cancelled.
RequestCancel(s) == Move(s, {"open"}, "cancelling") /\ UNCHANGED fenced

CompleteCancel(s) == Move(s, {"cancelling"}, "cancelled") /\ UNCHANGED fenced

Suspend(s) ==
    /\ Move(s, {"open", "pivot-inflight", "pivot-passed", "cancelling", "cancelled"}, "suspended")
    /\ UNCHANGED fenced

Next == \E s \in Scope :
    Open(s) \/ Fence(s) \/ Admit(s) \/ Reopen(s) \/ Pass(s) \/ Commit(s)
    \/ RequestCancel(s) \/ CompleteCancel(s) \/ Suspend(s)

Spec == Init /\ [][Next]_<<state, fenced>>
=============================================================================
