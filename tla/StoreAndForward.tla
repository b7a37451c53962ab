--------------------------- MODULE StoreAndForward ---------------------------
(***************************************************************************)
(* What an edge gateway promises about custody of its events, without      *)
(* tables, threads, transports or crashes.                                 *)
(*                                                                         *)
(*   "none"  the event has not been recorded                               *)
(*   "held"  the gateway owes it to the broker                             *)
(*   "shed"  given up under retention, still on file                       *)
(*   "done"  the gateway has let go of it                                  *)
(*                                                                         *)
(* An event is let go only once the broker has it; it is never forgotten;  *)
(* and the broker first sees the events of a sensor in sequence order.     *)
(***************************************************************************)
EXTENDS Integers

CONSTANTS Sensors, MaxSeq

VARIABLES custody, delivered

vars == <<custody, delivered>>

Event == Sensors \X (1 .. MaxSeq)

Custody == {"none", "held", "shed", "done"}

TypeOK == /\ custody \in [Event -> Custody]
          /\ delivered \subseteq Event

\* f is an event of the same sensor with a higher sequence number
Later(e, f) == e[1] = f[1] /\ e[2] < f[2]

Init == /\ custody = [e \in Event |-> "none"]
        /\ delivered = {}

Take(e) == /\ custody[e] = "none"
           /\ custody' = [custody EXCEPT ![e] = "held"]
           /\ UNCHANGED delivered

\* The broker receives e, perhaps again; the first time, in sensor order.
Deliver(e) == /\ custody[e] # "none"
              /\ e \in delivered \/ \A f \in delivered : ~Later(e, f)
              /\ delivered' = delivered \cup {e}
              /\ UNCHANGED custody

LetGo(e) == /\ custody[e] \in {"held", "shed"}
            /\ e \in delivered
            /\ custody' = [custody EXCEPT ![e] = "done"]
            /\ UNCHANGED delivered

Shed(D) == /\ \A e \in D : custody[e] = "held"
           /\ custody' = [e \in Event |-> IF e \in D THEN "shed" ELSE custody[e]]
           /\ UNCHANGED delivered

\* A shed event that was already on its way out goes back to being owed.
Reclaim(e) == /\ custody[e] = "shed"
              /\ custody' = [custody EXCEPT ![e] = "held"]
              /\ UNCHANGED delivered

Next == \/ \E e \in Event : Take(e) \/ Deliver(e) \/ LetGo(e) \/ Reclaim(e)
        \/ \E D \in SUBSET Event : Shed(D)

Spec == Init /\ [][Next]_vars
=============================================================================
