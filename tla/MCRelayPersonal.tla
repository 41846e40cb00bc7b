--------------------------- MODULE MCRelayPersonal ---------------------------
(***************************************************************************)
(* Instances of RelayPersonal: two profiles of one wallet for what sharing *)
(* a backup may do, and one profile, with more failures and retries, for   *)
(* what it must recover.                                                   *)
(***************************************************************************)
EXTENDS RelayPersonal, TLC
CONSTANTS A, B
Symmetry == Permutations(Browsers)
(* With an inbox the two profiles do not fail and send one message only.   *)
InboxAlone ==
    inbox # <<>> =>
        /\ failures = 0
        /\ \A b \in Browsers : mem[b] # None => \A m \in Messages \ {1} : mem[b].sends[m] = NoRow
(* A second message is sent while the other profile is not open. *)
SecondAlone ==
    \A b \in Browsers, m \in Messages \ {1} :
        mem[b] # None /\ mem[b].sends[m].st \in {"preparing", "ready"} =>
            \A c \in Browsers \ {b} : mem[c] = None
=============================================================================
