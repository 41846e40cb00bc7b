----------------------------- MODULE MCRelayDao -----------------------------
(* Small instances of the mailbox contract for TLC. *)
EXTENDS RelayDao, TLC

CONSTANTS alice, bob

Symmetry == Permutations(MessageIds)

(* Bob writes to a DAO that alice reads and manages. *)
OneReader == {[all |-> FALSE, selected |-> {alice}, managers |-> {alice}]}

Correspondents == {<<alice, bob>>, <<bob, alice>>, <<bob, Authority>>}

(* What one account grants, refuses or loses does not depend on the others: *)
(* a state has one consent, block, lapsed name or former member at most.    *)
OneException ==
    Cardinality({p \in DOMAIN consent : consent[p] # None})
        + Cardinality(blocked) + Cardinality(daoBlocks)
        + Cardinality(Accounts \ named) + Cardinality(Accounts \ members) <= 1

(* Devices are replaced or revoked once in a behaviour. *)
OneRotation == \A a, b \in Accounts : a # b => Generation(a) + Generation(b) <= 3

(* The DAO is set up before there are devices, and its policy changes once  *)
(* more to block somebody.                                                  *)
SetUpFirst ==
    /\ dao = None \/ ~registry => \A a \in Accounts : devices[a] = None
    /\ dao # None =>
        /\ dao.revision = 1 => \A a \in Accounts : devices[a] = None
        /\ dao.revision > 1 => dao.enabled
        /\ dao.revision > 2 => daoBlocks # {}

=============================================================================
