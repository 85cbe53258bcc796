----------------------------- MODULE DurableLog -----------------------------
(***************************************************************************)
(* What the session-persistence seam promises of one live session's log:   *)
(* events become durable in the order they were submitted, none is skipped *)
(* and none is taken back, so a crash at any moment leaves a prefix; and   *)
(* when a flush resolves, everything submitted so far is durable.          *)
(***************************************************************************)
EXTENDS Naturals

VARIABLES
  submitted,  \* number of events appended to the live session
  durable,    \* number of events in storage
  promised    \* number of events the last resolved flush vouched for

Init ==
  /\ submitted = 0
  /\ durable = 0
  /\ promised = 0

Submit ==
  /\ submitted' = submitted + 1
  /\ UNCHANGED <<durable, promised>>

Store ==
  /\ durable' \in durable + 1 .. submitted
  /\ UNCHANGED <<submitted, promised>>

ResolveFlush ==
  /\ durable = submitted
  /\ promised' = submitted
  /\ UNCHANGED <<submitted, durable>>

Next == Submit \/ Store \/ ResolveFlush

Spec == Init /\ [][Next]_<<submitted, durable, promised>>
=============================================================================
