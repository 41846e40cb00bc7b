----------------------------- MODULE NameLease -----------------------------
(***************************************************************************)
(* What the personal-name registry promises (contracts/neta-names-v2/      *)
(* README.md, "Contract interface"): a name is an exclusive lease.         *)
(*                                                                         *)
(*   - a free name may be claimed; a lapsed one is free after the grace    *)
(*   - its holder's term may be extended until then                        *)
(*   - a live lease may be handed to the one address its holder approved   *)
(*   - nobody holds two live leases                                        *)
(*   - <<generation, revision>> counts the claims of a name and, within a  *)
(*     claim, the times it was handed over                                 *)
(***************************************************************************)
EXTENDS Integers

CONSTANTS Names, Addresses, None,
          GRACE,    \* how long a lapsed lease stays reserved for its holder
          Horizon   \* the longest remaining term

VARIABLES lease,    \* per name: [holder, until, generation, revision], or None
          consent,  \* per name: the address its holder approves, or None
          now

vars == <<lease, consent, now>>

Live(n) == lease[n] # None /\ now < lease[n].until

Free(n) == lease[n] # None => now >= lease[n].until + GRACE

(* The address holds no live lease besides, possibly, that of n. *)
MayHold(a, n) == \A m \in Names \ {n} : Live(m) => lease[m].holder # a

(* The number of the next claim. *)
NextGeneration(n) == IF lease[n] = None THEN 1 ELSE lease[n].generation + 1

Init ==
    /\ lease = [n \in Names |-> None]
    /\ consent = [n \in Names |-> None]
    /\ now = 0

Claim(n, a) ==
    /\ Free(n)
    /\ MayHold(a, n)
    /\ \E until \in now + 1 .. now + Horizon :
           lease' = [lease EXCEPT ![n] = [holder |-> a, until |-> until,
                         generation |-> NextGeneration(n), revision |-> 1]]
    /\ consent' = [consent EXCEPT ![n] = None]
    /\ UNCHANGED now

Extend(n) ==
    /\ lease[n] # None
    /\ ~Free(n)
    /\ MayHold(lease[n].holder, n)
    /\ \E until \in lease[n].until + 1 .. now + Horizon :
           lease' = [lease EXCEPT ![n].until = until]
    /\ UNCHANGED <<consent, now>>

Approve(n, a) ==
    /\ Live(n)
    /\ a # lease[n].holder
    /\ consent' = [consent EXCEPT ![n] = a]
    /\ UNCHANGED <<lease, now>>

Withdraw(n) ==
    /\ consent' = [consent EXCEPT ![n] = None]
    /\ UNCHANGED <<lease, now>>

HandOver(n, a) ==
    /\ Live(n)
    /\ consent[n] = a
    /\ MayHold(a, n)
    /\ lease' = [lease EXCEPT ![n] = [holder |-> a, until |-> lease[n].until,
                     generation |-> lease[n].generation,
                     revision |-> lease[n].revision + 1]]
    /\ consent' = [consent EXCEPT ![n] = None]
    /\ UNCHANGED now

Pass ==
    /\ now' >= now
    /\ UNCHANGED <<lease, consent>>

Next ==
    \/ \E n \in Names, a \in Addresses : Claim(n, a) \/ Approve(n, a) \/ HandOver(n, a)
    \/ \E n \in Names : Extend(n) \/ Withdraw(n)
    \/ Pass

Spec == Init /\ [][Next]_vars

=============================================================================
