-------------------------- MODULE MCNamesRegistry --------------------------
(* A small instance of the name registry for TLC. *)
EXTENDS NamesRegistry, TLC

Symmetry == Permutations(Names) \cup Permutations(Addresses) \cup Permutations(Nonces)

(* A commitment to somebody else's registration can never be revealed by   *)
(* its maker: the instance leaves such commitments out.                    *)
OwnCommitments ==
    \A a \in Addresses : commits[a] # None => commits[a].hash.owner = a

(* Quotes are signed for the configuration in force, so that a rotated one  *)
(* behaves as the first: the instance pauses and rotates only before the    *)
(* first block.                                                             *)
ReconfiguredUnused ==
    config.purchases_paused \/ config.signer_version > 1 \/ config.tariff_version > 1
        => height = 0

=============================================================================
