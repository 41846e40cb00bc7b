---------------------------- MODULE MCDiscussions ----------------------------
(* A small instance of the discussions for TLC. *)
EXTENDS DiscussionPage, TLC

(* The first synchronization finds both proposals, or the review alone.     *)
IndexedTogether == Indexed \in {{}, Reviews, Threads}

(* No proposal is found later. *)
FoundOnce == Indexed # {} => Indexed' = Indexed

(* At most one measure is in force at a time.  Comments are hidden on the   *)
(* chain before the first reply is sent, wallets are restricted before the  *)
(* first post; locks and hidden posts, which refuse a reply too, come at    *)
(* any time after the first reply was sent, hidden posts and restricted     *)
(* wallets only where nothing fails.                                        *)
OneMeasure ==
    LET lockedNow == {t \in Indexed : threads[t].redirect = None /\ threads[t].locked}
        hiddenNow == {p \in PostIds : posts[p].hidden}
        tombstones == {p \in PostIds : posts[p].sourceHidden}
    IN  /\ Cardinality(lockedNow) + Cardinality(blocked) + Cardinality(hiddenNow)
            + Cardinality(tombstones) <= 1
        /\ blocked # {} => posts = <<>>
        /\ hiddenNow \cup blocked # {} => failures = 0
        /\ IF requests = <<>> THEN lockedNow \cup hiddenNow = {} ELSE tombstones = {}

(* Comments of the review are older than the replies, authors do not open   *)
(* a locked discussion, and sessions last until the first reply is sent.    *)
QuietPages ==
    /\ \A p \in PostIds : posts[p].origin # None => p = 1
    /\ \A w \in Wallets : view[w] # None => ~view[w].locked
    /\ requests = <<>> => sessions = signed

(* No comment is imported, and moderators only lock discussions, while a    *)
(* call is under way that may find them locked.                             *)
OnlyLocks ==
    /\ blocked = {}
    /\ \A p \in PostIds : posts[p].origin = None /\ ~posts[p].hidden
    /\ (\E t \in Indexed : threads[t].locked) => calls # {}

(* Where the review is alone, its page waits for several calls and checks;  *)
(* where both are found and joined, for one.  Two requests make one pair,   *)
(* which is excepted for good once a receipt went with a rejected session   *)
(* or with an answer that was not the last one.                             *)
OneCall(w) ==
    Cardinality({c \in calls : c.wallet = w /\ c.open}) + Cardinality(ChecksOf(w)) <= 1

OverlapAlone ==
    IF Indexed = Reviews THEN OnlyLocks /\ rejected \cup overtaken = {}
    ELSE \A w \in Wallets : OneCall(w)
=============================================================================
