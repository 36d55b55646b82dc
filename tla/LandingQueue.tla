---------------------------- MODULE LandingQueue ----------------------------
(***************************************************************************)
(* The order of the plans that wait in `landing/` (agent/landing_queue.rs) *)
(* and the order in which a pump pass visits the plans (agent/advance.rs). *)
(* Plan names are naturals: only their order matters.  `stamp' is the      *)
(* phase-entry time every plan directory carries in its state.json.        *)
(***************************************************************************)
EXTENDS Naturals

\* sort_names: oldest first by (arrival, name).
Before(stamp, p, q) ==
    \/ stamp[p] < stamp[q]
    \/ stamp[p] = stamp[q] /\ p < q

\* The waiters: every plan whose directory is in landing/.
Waiting(phase) == {p \in DOMAIN phase : phase[p] = "landing"}

\* position = Head: the first of the sorted landing names.
IsHead(phase, stamp, p) ==
    /\ p \in Waiting(phase)
    /\ \A q \in Waiting(phase) \ {p} : Before(stamp, p, q)

\* position = Queued: in landing/ behind the head.
IsQueued(phase, stamp, p) ==
    p \in Waiting(phase) /\ ~IsHead(phase, stamp, p)

\* phase_rank: the pump visits phases in this order.
PhaseRank(phase) ==
    CASE phase = "scoping"      -> 0
      [] phase = "executing"    -> 1
      [] phase = "evergreening" -> 2
      [] phase = "landing"      -> 3
      [] phase = "completed"    -> 4
      [] OTHER                  -> 5

\* The pump's sort: phase rank first, then arrival, then name.
Precedes(phase, stamp, p, q) ==
    \/ PhaseRank(phase[p]) < PhaseRank(phase[q])
    \/ PhaseRank(phase[p]) = PhaseRank(phase[q]) /\ Before(stamp, p, q)

\* The plans of S in visiting order (a set with one sequence in it).
VisitOrders(phase, stamp, S, n) ==
    {s \in [1..n -> S] :
        \A i, j \in 1..n : i < j => Precedes(phase, stamp, s[i], s[j])}
=============================================================================
