---------------------------- MODULE TaskExecutor ----------------------------
(***************************************************************************)
(* What the callback dispatcher promises to the rest of the library: every *)
(* task that is submitted is executed once, one at a time, in the order of *)
(* submission, and the executor does not close over unexecuted tasks.      *)
(***************************************************************************)
EXTENDS Naturals, Sequences

CONSTANT Tasks     \* what can be submitted

VARIABLES
  pending,   \* submitted and not yet executed, oldest first
  executed,  \* executed, oldest first
  open       \* whether the executor takes tasks

vars == <<pending, executed, open>>

Init == pending = <<>> /\ executed = <<>> /\ open = TRUE

Submit(t) ==
  /\ open
  /\ pending' = Append(pending, t)
  /\ UNCHANGED <<executed, open>>

Execute ==
  /\ pending # <<>>
  /\ executed' = Append(executed, Head(pending))
  /\ pending' = Tail(pending)
  /\ UNCHANGED open

Close ==
  /\ open /\ pending = <<>>
  /\ open' = FALSE
  /\ UNCHANGED <<pending, executed>>

Next == Execute \/ Close \/ \E t \in Tasks : Submit(t)

Spec == Init /\ [][Next]_vars /\ WF_vars(Execute)
=============================================================================
