------------------------------- MODULE Agenda -------------------------------
(* What the event system promises to its users: events wait in the order they *)
(* will run, by due time and, for one due time, in the order they were        *)
(* posted.  Only the first one is ever served, exactly when it is due, and    *)
(* the clock moves only when nothing is due, never past an event.             *)
EXTENDS Naturals

CONSTANTS Events, Delays

VARIABLES
  due,       \* of every event that waits: the time it is posted for
  ahead,     \* of every event that waits: those that will run before it
  clock,
  serving    \* << >>, or the event that runs

Waiting == DOMAIN due

Init ==
  /\ due = [e \in {} |-> 0]
  /\ ahead = [e \in {} |-> {}]
  /\ clock = 0
  /\ serving = << >>

\* The new event goes behind everything due no later than itself.
Post(e, d) ==
  LET t == clock + d
      sooner == {f \in Waiting : due[f] <= t}
  IN  /\ e \notin Waiting
      /\ due' = [f \in Waiting \cup {e} |-> IF f = e THEN t ELSE due[f]]
      /\ ahead' = [f \in Waiting \cup {e} |->
                     IF f = e THEN sooner
                     ELSE IF f \in sooner THEN ahead[f] ELSE ahead[f] \cup {e}]
      /\ UNCHANGED <<clock, serving>>

Serve(e) ==
  /\ serving = << >>
  /\ e \in Waiting
  /\ due[e] = clock
  /\ ahead[e] = {}
  /\ serving' = <<e>>
  /\ due' = [f \in Waiting \ {e} |-> due[f]]
  /\ ahead' = [f \in Waiting \ {e} |-> ahead[f] \ {e}]
  /\ UNCHANGED clock

Release ==
  /\ serving # << >>
  /\ serving' = << >>
  /\ UNCHANGED <<due, ahead, clock>>

Tick ==
  /\ serving = << >>
  /\ clock' \in Nat
  /\ clock' > clock
  /\ \A e \in Waiting : clock' <= due[e]
  /\ UNCHANGED <<due, ahead, serving>>

Next ==
  \/ \E e \in Events : Serve(e) \/ \E d \in Delays : Post(e, d)
  \/ Release
  \/ Tick

Spec == Init /\ [][Next]_<<due, ahead, clock, serving>>
=============================================================================
