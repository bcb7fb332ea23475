-------------------------- MODULE ComponentRegister ---------------------------
(***************************************************************************)
(* What the components in the database promise (services/Components): a    *)
(* register for each of them that shows the newest of the events it has    *)
(* been offered since it was last removed, in whatever order they come.    *)
(* Newest is by timestamp; by place in the chain, if they are of one chain *)
(* and the register is not one of the coarse ones.                         *)
(***************************************************************************)
EXTENDS Integers

VARIABLES
    events,      \* a history; events are numbered by it, and 0 is none
    coarse,      \* the registers that compare nothing but timestamps
    register, offered

OneChain(S) == \A x, y \in S : events[x].chain = events[y].chain

Newest(k, S) ==
    {x \in S : \A y \in S :
       /\ events[y].time <= events[x].time
       /\ k \notin coarse /\ OneChain(S) => y <= x}

Init ==
    /\ DOMAIN offered = DOMAIN register
    /\ \A k \in DOMAIN register : register[k] = 0 /\ offered[k] = {}

Offer(k, e) ==
    /\ offered' = [offered EXCEPT ![k] = @ \cup {e}]
    /\ \E x \in Newest(k, offered'[k]) : register' = [register EXCEPT ![k] = x]

Remove(k) ==
    /\ register' = [register EXCEPT ![k] = 0]
    /\ offered' = [offered EXCEPT ![k] = {}]

Next ==
    /\ \E k \in DOMAIN register : Remove(k) \/ \E e \in DOMAIN events : Offer(k, e)
    /\ UNCHANGED <<events, coarse>>

Spec == Init /\ [][Next]_<<events, coarse, register, offered>>
=============================================================================
