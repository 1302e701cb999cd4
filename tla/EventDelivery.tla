--------------------------- MODULE EventDelivery ---------------------------
(***************************************************************************)
(* What the gateway promises about events, whatever carries them: every    *)
(* event a Go thread raises is handled by the adapter once, the events of  *)
(* one thread in the order it raised them, and no two events at a time.    *)
(*                                                                         *)
(* EventPipeline, the channel, the worker and the asyncio loop of the      *)
(* code, is shown to implement this specification.                         *)
(***************************************************************************)
EXTENDS Naturals

CONSTANTS Producer,  \* the threads that raise events
          Nobody     \* stands for "no event is being handled"

VARIABLES raised,    \* how many events each producer has raised
          handled,   \* the number of the last event handled, per producer
          current    \* the producer whose event is being handled, or Nobody

dvars == <<raised, handled, current>>

DInit == /\ raised = [p \in Producer |-> 0]
         /\ handled = [p \in Producer |-> 0]
         /\ current = Nobody

DRaise(p) == /\ raised' = [raised EXCEPT ![p] = @ + 1]
             /\ UNCHANGED <<handled, current>>

DBegin(p) == /\ current = Nobody
             /\ handled[p] < raised[p]
             /\ current' = p
             /\ UNCHANGED <<raised, handled>>

DFinish(p) == /\ current = p
              /\ handled' = [handled EXCEPT ![p] = @ + 1]
              /\ current' = Nobody
              /\ UNCHANGED raised

DNext == \E p \in Producer : DRaise(p) \/ DBegin(p) \/ DFinish(p)

DSpec == DInit /\ [][DNext]_dvars
=============================================================================
