----------------------------- MODULE Discussions -----------------------------
(***************************************************************************)
(* The discussion service: the SQLite store of threads and replies, the    *)
(* handler that posts a reply, moderation, and the synchronizer that       *)
(* imports proposals and joins a review with the native proposal it led    *)
(* to (src/discussions/store.mjs, server.mjs, chain.mjs).  A reply is      *)
(* validated, its author looked up on the chain, and then validated again  *)
(* in the transaction that stores it; whatever happens in between is an    *)
(* action of its own.  The calls are those of DiscussionPage.              *)
(***************************************************************************)
EXTENDS Naturals, Sequences, FiniteSets

CONSTANTS
    Wallets,     \* authors
    Reviews,     \* proposal sources: reviews ...
    Natives,     \* ... and native proposals; a thread has the id of its root source
    None,
    MaxPosts,    \* the store's capacity (maximumPosts)
    Cooldown,    \* ticks between two replies of a wallet
    Hour,        \* ticks of the hourly limit
    HourLimit,   \* replies of a wallet within the hour
    MaxRequests  \* bound: request ids in use

Threads == Reviews \cup Natives
ThreadRow == [locked : BOOLEAN, redirect : Threads \cup {None}]

ASSUME DiscussionsAssumption ==
    /\ IsFiniteSet(Threads)
    /\ {MaxPosts, Cooldown, Hour, HourLimit, MaxRequests} \subseteq Nat
    /\ None \notin Threads \cup ThreadRow

VARIABLES
    threads,   \* the threads table: FALSE, or the row
    posts,     \* the posts table, by id
    blocked,   \* wallets that moderators restricted
    ready,     \* sources in sync_state with a success
    sessions,  \* wallets whose page holds a token of the service
    requests,  \* the replies pages asked for, by request id
    calls      \* POSTs between the pages and the service

store == <<threads, posts, blocked, ready>>
service == <<store, sessions>>

Post == [thread : Threads, wallet : Wallets \cup {None}, request : 0..MaxRequests,
         reply : Nat, age : 0..Hour, hidden : BOOLEAN,
         origin : Reviews \cup {None}, sourceHidden : BOOLEAN]

Indexed == {t \in Threads : threads[t] # None}
PostIds == 1..Len(posts)

(* thread: the row that the redirects from t lead to. *)
Canonical(table, t) ==
    LET at[k \in 0..Cardinality(Threads)] ==
            IF k = 0 THEN t
            ELSE IF table[at[k - 1]].redirect = None THEN at[k - 1]
            ELSE table[at[k - 1]].redirect
    IN  at[Cardinality(Threads)]

Thread(t) == Canonical(threads, t)
Locked(t) == threads[Thread(t)].locked
Aliases(t) == {s \in Indexed : threads[s].redirect = t}
-----------------------------------------------------------------------------
(* request: the reply of that request id is stored. *)
Saved(i) == \E p \in PostIds : posts[p].request = i
SavedIn(i) == posts[CHOOSE p \in PostIds : posts[p].request = i].thread

Recent(w) == {p \in PostIds : posts[p].wallet = w /\ posts[p].age < Hour}

(* The wallet replied less than the cooldown ago or too often this hour. *)
Resting(w) ==
    \/ Cardinality(Recent(w)) >= HourLimit
    \/ \E p \in Recent(w) : posts[p].age < Cooldown

(* A post that can be answered or quoted in thread t. *)
Answerable(p, t) ==
    p # 0 => p \in PostIds /\ posts[p].thread = t /\ ~posts[p].hidden /\ ~posts[p].sourceHidden

(* validatePost, by the status it ends with. *)
Verdict(c) ==
    LET t == Thread(c.thread)
        w == c.wallet
    IN  CASE Saved(c.request) -> IF Thread(SavedIn(c.request)) = t THEN "accepted" ELSE "refused"
          [] ~Saved(c.request) /\ (threads[t].locked \/ w \in blocked \/ Resting(w)) -> "refused"
          [] OTHER -> IF Len(posts) >= MaxPosts THEN "failed"
                      ELSE IF Answerable(requests[c.request].reply, t) THEN "admitted" ELSE "refused"

(* An answer reaches a page that waits for it; the handler goes on without. *)
Settle(c, stage) ==
    calls' = (calls \ {c}) \cup
        {d \in {[c EXCEPT !.stage = stage]} : d.open \/ stage = "identity"}

(* The POST handler up to its await: the session, the first validation and *)
(* the source's status; a reply stored before is answered at once.  The    *)
(* service may or may not know a session that the page left meanwhile.     *)
Admit(c) ==
    /\ c.stage = "sent"
    /\ \/ /\ c.current => c.wallet \notin sessions
          /\ Settle(c, "unauthorized")
       \/ /\ c.current => c.wallet \in sessions
          /\ Settle(c, IF Verdict(c) # "admitted" THEN Verdict(c)
                       ELSE IF Thread(c.thread) \in ready THEN "identity" ELSE "failed")
    /\ UNCHANGED <<service, requests>>

(* addPost after the await: validated again in the transaction. *)
AddPost(c) ==
    /\ c.stage = "identity"
    /\ IF Verdict(c) = "admitted"
       THEN /\ posts' = Append(posts,
                   [thread |-> Thread(c.thread), wallet |-> c.wallet, request |-> c.request,
                    reply |-> requests[c.request].reply, age |-> 0, hidden |-> FALSE,
                    origin |-> None, sourceHidden |-> FALSE])
            /\ Settle(c, "accepted")
       ELSE Settle(c, Verdict(c)) /\ UNCHANGED posts
    /\ UNCHANGED <<threads, blocked, ready, sessions, requests>>
-----------------------------------------------------------------------------
(* moderate *)
SetHidden(p, hidden) ==
    /\ posts' = [posts EXCEPT ![p].hidden = hidden]
    /\ UNCHANGED <<threads, blocked, ready, sessions, requests, calls>>

SetLocked(t, locked) ==
    /\ threads' = [threads EXCEPT ![Thread(t)].locked = locked]
    /\ UNCHANGED <<posts, blocked, ready, sessions, requests, calls>>

SetBlocked(w, block) ==
    /\ blocked' = IF block THEN blocked \cup {w} ELSE blocked \ {w}
    /\ UNCHANGED <<threads, posts, ready, sessions, requests, calls>>

Moderate ==
    \/ \E p \in PostIds, hidden \in BOOLEAN : SetHidden(p, hidden)
    \/ \E t \in Indexed, locked \in BOOLEAN : SetLocked(t, locked)
    \/ \E w \in Wallets, block \in BOOLEAN : SetBlocked(w, block)
-----------------------------------------------------------------------------
(* syncThread for the proposals that are new on the chain. *)
WithThreads(new) ==
    [t \in Threads |-> IF t \in new THEN [locked |-> FALSE, redirect |-> None] ELSE threads[t]]

(* importComment: the tombstones of the chain are taken over, and a comment *)
(* of the review is added to its discussion.                                *)
WithComments(table, comment, tombstones) ==
    LET seen == [p \in PostIds |-> [posts[p] EXCEPT !.sourceHidden = posts[p].origin \in tombstones]]
    IN  IF comment = None THEN seen
        ELSE Append(seen,
                 [thread |-> Canonical(table, comment), wallet |-> None, request |-> 0,
                  reply |-> 0, age |-> Hour, hidden |-> FALSE,
                  origin |-> comment, sourceHidden |-> comment \in tombstones])

(* Faulty link: of discussions that are one already, ... *)
LinkThreadsAgain(table, review, native) ==
    [table EXCEPT ![native].redirect = review,
                  ![review].locked = @ \/ table[native].locked]

(* ... or the lock is left behind, ... *)
LinkThreadsUnlocked(table, review, native) ==
    IF review = native THEN table ELSE [table EXCEPT ![native].redirect = review]

(* ... or the posts are. *)
LinkPostsNot(entries, review, native) == entries

(* link: the discussion of the native proposal continues in the review's;  *)
(* its posts move, its id leads on, and a lock on either holds.            *)
LinkThreads(table, review, native) ==
    IF review = native THEN table
    ELSE [table EXCEPT ![native].redirect = review,
                       ![review].locked = @ \/ table[native].locked]

LinkPosts(entries, review, native) ==
    [p \in DOMAIN entries |->
        IF entries[p].thread = native THEN [entries[p] EXCEPT !.thread = review] ELSE entries[p]]

(* sync: one transaction indexes what is new, imports comments and joins   *)
(* the native proposal that matches a finalized review, if any.            *)
Sync(new, comment, tombstones, pair) ==
    LET table == WithThreads(new)
        review == Canonical(table, pair[1])
        native == Canonical(table, pair[2])
        entries == WithComments(table, comment, tombstones)
        known == {t \in Threads : table[t] # None}
    IN  /\ comment # None =>
               /\ comment \in known
               /\ \A p \in PostIds : posts[p].origin # comment
        /\ IF pair = <<>> THEN threads' = table /\ posts' = entries
           ELSE /\ {pair[1], pair[2]} \subseteq known
                /\ threads' = LinkThreads(table, review, native)
                /\ posts' = LinkPosts(entries, review, native)
        /\ ready' = known
        /\ UNCHANGED <<blocked, sessions, requests, calls>>

SyncAny ==
    \E new \in SUBSET (Threads \ Indexed), comment \in Reviews \cup {None},
       pair \in {<<>>} \cup (Reviews \X Natives) :
        \E tombstones \in SUBSET (({comment} \cup {posts[p].origin : p \in PostIds}) \ {None}) :
            Sync(new, comment, tombstones, pair)
-----------------------------------------------------------------------------
(* A tick of the clock, as far as the limits can tell. *)
Tick ==
    /\ posts' = [p \in PostIds |-> [posts[p] EXCEPT !.age = IF @ < Hour THEN @ + 1 ELSE @]]
    /\ UNCHANGED <<threads, blocked, ready, sessions, requests, calls>>

(* Sessions are gone for good: what was sent with them will be rejected. *)
Forgotten(gone) ==
    LET lost == {c \in calls : c.wallet \in gone /\ c.stage = "sent"}
    IN  (calls \ lost) \cup {[c EXCEPT !.stage = "unauthorized"] : c \in {d \in lost : d.open}}

(* The session of a wallet expires, or has made its last request. *)
Expire(w) ==
    /\ sessions' = sessions \ {w}
    /\ calls' = Forgotten({w})
    /\ UNCHANGED <<store, requests>>

(* The service stops and starts again: sessions and handlers are gone,     *)
(* requests and answers on their way are not, and sync_state is deleted    *)
(* where the start date is configured.                                     *)
Restart ==
    /\ sessions' = {}
    /\ ready' \in {ready, {}}
    /\ calls' = {c \in Forgotten(Wallets) : c.stage # "identity"}
    /\ UNCHANGED <<threads, posts, blocked, requests>>

StoreInit ==
    /\ threads = [t \in Threads |-> None]
    /\ posts = <<>>
    /\ blocked = {}
    /\ ready = {}
    /\ sessions = {}
=============================================================================
