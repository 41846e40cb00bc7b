-------------------------- MODULE MCReviewWorkshop --------------------------
(* A small instance of the review workshop for TLC. *)
EXTENDS ReviewWorkshop

CONSTANTS alice, bob, body, broken

(* A body in two chunks and one whose digest is not that of its chunk. *)
Bodies == [c \in {body, broken} |-> IF c = body THEN 2 ELSE 1]

(* An account that may do everything, and one that holds exactly the       *)
(* comment minimum.                                                        *)
Stake(p, ne, na) == [power |-> p, neta |-> ne, native |-> na]
Varying == {Stake(1, 2, 1), Stake(0, 1, 0)}

(* At most one measure of the administration is in force at a time, and    *)
(* none is while there are comments.                                       *)
QuietAdministration ==
    LET measures == <<owner # FirstOwner \/ pendingOwner # None,
                      moderators # {}, blocked # {}, paused>>
        inForce  == {i \in DOMAIN measures : measures[i]}
    IN  Cardinality(inForce) <= IF comments[<<1, 1>>] = None THEN 1 ELSE 0

(* Once there are comments, no body of a later revision is uploaded. *)
FirstBodyOnly == comments[<<1, 1>>] # None => uploaded[<<1, 2>>] = {}

=============================================================================
