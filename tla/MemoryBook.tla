----------------------------- MODULE MemoryBook -----------------------------
(***************************************************************************)
(* What the Memory Book promises its user: one atomic step per request.    *)
(* A corrected memory is replaced by a new one and never comes back; a     *)
(* forgotten one can be restored until its undo window has lapsed.         *)
(***************************************************************************)
CONSTANTS Memories, None

VARIABLES state, replacedBy
promiseVars == <<state, replacedBy>>

PromiseInit ==
    /\ state = [m \in Memories |-> "absent"]
    /\ replacedBy = [m \in Memories |-> None]

Remember(m) ==
    /\ state[m] = "absent"
    /\ state' = [state EXCEPT ![m] = "live"]
    /\ UNCHANGED replacedBy

Replace(m, n) ==
    /\ state[m] = "live"
    /\ state[n] = "absent"
    /\ state' = [state EXCEPT ![m] = "corrected", ![n] = "live"]
    /\ replacedBy' = [replacedBy EXCEPT ![m] = n]

\* A request that takes longer than the window leaves nothing to undo.
Dismiss(m) ==
    /\ state[m] = "live"
    /\ \E result \in {"forgotten", "gone"} :
          state' = [state EXCEPT ![m] = result]
    /\ UNCHANGED replacedBy

Restore(m) ==
    /\ state[m] = "forgotten"
    /\ state' = [state EXCEPT ![m] = "live"]
    /\ UNCHANGED replacedBy

\* Time passes: some undo windows close for good.
Lapse ==
    /\ \E closed \in SUBSET {m \in Memories : state[m] = "forgotten"} :
          state' = [m \in Memories |-> IF m \in closed THEN "gone" ELSE state[m]]
    /\ UNCHANGED replacedBy

PromiseNext ==
    \/ \E m \in Memories : Remember(m) \/ Dismiss(m) \/ Restore(m)
    \/ \E m, n \in Memories : Replace(m, n)
    \/ Lapse

Promise == PromiseInit /\ [][PromiseNext]_promiseVars
=============================================================================
