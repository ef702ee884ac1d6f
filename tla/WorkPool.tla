------------------------------ MODULE WorkPool ------------------------------
(***************************************************************************)
(* What an IOManager promises to its users, independently of threads,      *)
(* queues and wake-ups: a work that was handed over (submitted, armed as a *)
(* timer, or registered as an event) and whose cause has come is run once; *)
(* a callback of a timer may be dropped instead; once stop() has returned  *)
(* nothing is run, and nothing is outstanding but late works, whose cause  *)
(* had not come when they were handed over.                                *)
(***************************************************************************)
CONSTANTS Works, Droppable

VARIABLES
    handed,     \* works handed over and not yet run
    caused,     \* those of them that nothing outside the pool delays
    late,       \* works that stop() may leave behind
    ran,        \* works that have been run
    closed      \* stop() has returned

wpVars == <<handed, caused, late, ran, closed>>

Init == handed = {} /\ caused = {} /\ late = {} /\ ran = {} /\ closed = FALSE

Hand(w) ==
    /\ ~closed /\ w \notin handed \cup ran
    /\ handed' = handed \cup {w}
    /\ \/ caused' = caused \cup {w} /\ late' = late
       \/ caused' = caused /\ late' \in {late, late \cup {w}}
    /\ UNCHANGED <<ran, closed>>

Cause(w) ==
    /\ w \in handed \ caused
    /\ caused' = caused \cup {w}
    /\ UNCHANGED <<handed, late, ran, closed>>

Run(w) ==
    /\ ~closed /\ w \in caused
    /\ handed' = handed \ {w} /\ caused' = caused \ {w}
    /\ ran' = ran \cup {w}
    /\ UNCHANGED <<late, closed>>

(* At once, several callbacks of expired timers. *)
Drop(W) ==
    /\ ~closed /\ W # {} /\ W \subseteq caused \cap Droppable
    /\ handed' = handed \ W /\ caused' = caused \ W
    /\ UNCHANGED <<late, ran, closed>>

Close ==
    /\ ~closed /\ handed \subseteq late
    /\ closed' = TRUE
    /\ UNCHANGED <<handed, caused, late, ran>>

Next ==
    \/ \E w \in Works : Hand(w) \/ Cause(w) \/ Run(w)
    \/ \E W \in SUBSET Droppable : Drop(W)
    \/ Close

Safety == Init /\ [][Next]_wpVars

(* What has been caused leaves the pool, by running unless it is dropped or *)
(* late.                                                                    *)
Leaves(w) == Run(w) \/ \E W \in SUBSET Droppable : w \in W /\ Drop(W)

Spec ==
    /\ Safety
    /\ \A w \in Works : WF_wpVars(w \notin late /\ Leaves(w))
=============================================================================
