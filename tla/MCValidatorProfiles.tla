------------------------- MODULE MCValidatorProfiles -------------------------
(* A small instance of the validator profiles over the registry's leases. *)
EXTENDS ValidatorProfiles, TLC

Symmetry == Permutations(Names) \cup Permutations(Addresses) \cup Permutations(Testnet)

(* Names change hands once they have a profile: while a link is stored by a *)
(* transfer, one at a time, and by another claim.                          *)
OneHandOver ==
    /\ Cardinality({n \in Names : consent[n] # None}) <= 1
    /\ \A n \in Names : consent[n] # None => StoredLink(n) # None
    /\ \A n \in Names : lease[n] # None /\ profiles[n] = None => lease[n].generation = 1

(* The operators of the test network sign after those of the main network, *)
(* which alone revoke, and one challenge at most is waiting for use; none  *)
(* is signed that the bound on revisions would refuse.                     *)
SignedInTurn ==
    /\ \A r, s \in signed \ accepted : r.text = s.text
    /\ \A s \in signed :
        /\ s.text.revision < MaxRevision
        /\ s.text.revoke => s.operator \in Mainnet
        /\ s.operator \in Testnet =>
               \E r \in signed : r.operator \in Mainnet /\ r.text = s.text

=============================================================================
