---------------------------- MODULE TaskContract ----------------------------
(***************************************************************************)
(* What a caller of TaskSystem may rely on, with no threads, locks or      *)
(* wakeups: submitted tasks form a line, are begun from its head, and each *)
(* resolves once; destroying the system breaks the promises of those still *)
(* in line and closes it.                                                  *)
(***************************************************************************)
EXTENDS Naturals, Sequences, Functions

CONSTANT Tasks

VARIABLES
    line,    \* tasks submitted and not begun, in order
    stage,   \* the stage of each task's life
    closed   \* the system has been destroyed

Resolved == {"value", "exception", "broken"}

Init ==
    /\ line = <<>>
    /\ stage = [t \in Tasks |-> "fresh"]
    /\ closed = FALSE

Accept(t) ==
    /\ ~closed
    /\ stage[t] = "fresh"
    /\ stage' = [stage EXCEPT ![t] = "waiting"]
    /\ line' = Append(line, t)
    /\ UNCHANGED closed

Begin ==
    /\ line # <<>>
    /\ stage' = [stage EXCEPT ![Head(line)] = "begun"]
    /\ line' = Tail(line)
    /\ UNCHANGED closed

Resolve(t, r) ==
    /\ stage[t] = "begun"
    /\ stage' = [stage EXCEPT ![t] = r]
    /\ UNCHANGED <<line, closed>>

\* Nothing is cut short: a task that has begun is waited for.
Close ==
    /\ ~closed
    /\ \A t \in Tasks : stage[t] # "begun"
    /\ stage' = [t \in Tasks |-> IF stage[t] = "waiting" THEN "broken"
                                                         ELSE stage[t]]
    /\ line' = <<>>
    /\ closed' = TRUE

Next ==
    \/ \E t \in Tasks : Accept(t) \/ \E r \in Resolved : Resolve(t, r)
    \/ Begin
    \/ Close

Spec == Init /\ [][Next]_<<line, stage, closed>>
=============================================================================
