---------------------------- MODULE DiscussionPage ----------------------------
(***************************************************************************)
(* The discussion page in the browsers of its authors, over the service of *)
(* Discussions (src/discussions.mjs).  A reply is saved under a request id *)
(* before it is sent; when its outcome is uncertain the saved request is   *)
(* kept, the author checks whether it was received and may send it again.  *)
(* Each wallet has one page; drafts and saved requests are in its          *)
(* localStorage under the thread they were written in.                     *)
(***************************************************************************)
EXTENDS Discussions

CONSTANTS
    MaxDrafts,   \* bound: texts a wallet writes
    MaxCopies,   \* bound: calls, or checks, of one request under way
    MaxOpen,     \* bound: calls and checks a page waits for at once
    MaxFailures  \* bound: requests given up and restarts

View == [at : Threads, aliases : SUBSET Threads, locked : BOOLEAN]
Draft == [text : 1..MaxDrafts, reply : Nat]

ASSUME PageAssumption ==
    /\ {MaxDrafts, MaxCopies, MaxOpen, MaxFailures} \subseteq Nat
    /\ None \notin View \cup Draft

VARIABLES
    view,      \* the thread a page shows, as it was loaded
    signed,    \* wallets whose page has a session
    offered,   \* "Send saved reply" is shown
    drafts,    \* texts being written, by thread id
    pending,   \* saved requests, by thread id; 0: none
    written,   \* texts written so far
    checks,    \* status checks the pages wait for
    rejected,  \* history: requests whose receipt a rejected session removed
    overtaken, \* history: requests whose receipt went with the answer to another call
    failures

page == <<view, signed, offered, drafts, pending, written, rejected, overtaken>>
vars == <<service, requests, calls, checks, page, failures>>

Request == [wallet : Wallets, text : 1..MaxDrafts, reply : Nat]
RequestIds == 1..Len(requests)
Call == [wallet : Wallets, request : 1..MaxRequests, copy : 1..MaxCopies, thread : Threads,
         key : Threads, keys : SUBSET Threads, saved : BOOLEAN, current : BOOLEAN, open : BOOLEAN,
         stage : {"sent", "identity", "accepted", "refused", "failed", "unauthorized"}]
StatusCheck == [wallet : Wallets, request : 1..MaxRequests, copy : 1..MaxCopies, key : Threads,
                keys : SUBSET Threads, answer : {"none", "found", "missing", "unauthorized"}]

(* The keys of walletStorageKeys, the thread's own first. *)
Keys(w) == {view[w].at} \cup view[w].aliases
KeyOf(w, held) ==
    IF view[w].at \in held \/ Keys(w) \cap held = {} THEN view[w].at
    ELSE CHOOSE k \in Keys(w) \cap held : TRUE

DraftKey(w) == KeyOf(w, {k \in Threads : drafts[w][k] # None})
PendingKey(w) == KeyOf(w, {k \in Threads : pending[w][k] # 0})
Pending(w) == pending[w][PendingKey(w)]

(* clearMatchingDrafts *)
WithoutText(w, i, keys) ==
    [drafts EXCEPT ![w] = [k \in Threads |->
        IF k \in keys /\ drafts[w][k] # None /\ drafts[w][k].text = requests[i].text
        THEN None ELSE drafts[w][k]]]

Seen(t) == [at |-> Thread(t), aliases |-> Aliases(Thread(t)), locked |-> Locked(t)]

(* walletEpoch moves on: answers under way belong to an earlier sign-in, *)
(* and checkReply leaves them alone.                                      *)
Outdated(w) == {IF c.wallet = w THEN [c EXCEPT !.current = FALSE] ELSE c : c \in calls}
ChecksOf(w) == {k \in checks : k.wallet = w}
-----------------------------------------------------------------------------
(* openLocation, loadThread: also a refresh of the thread that is shown. *)
Open(w, t) ==
    /\ t \in Indexed
    /\ view' = [view EXCEPT ![w] = Seen(t)]
    /\ offered' = [offered EXCEPT ![w] = FALSE]
    /\ UNCHANGED <<service, requests, calls, checks, signed, drafts, pending, written, rejected,
                   overtaken, failures>>

(* connect *)
Connect(w) ==
    /\ w \notin signed
    /\ signed' = signed \cup {w}
    /\ sessions' = sessions \cup {w}
    /\ calls' = Outdated(w) /\ checks' = checks \ ChecksOf(w)
    /\ offered' = [offered EXCEPT ![w] = FALSE]
    /\ UNCHANGED <<store, requests, view, drafts, pending, written, rejected, overtaken, failures>>

(* expireSession and disconnect: the page forgets its session. *)
SignOff(w) ==
    /\ w \in signed
    /\ signed' = signed \ {w}
    /\ sessions' = sessions \ {w}
    /\ calls' = Outdated(w) /\ checks' = checks \ ChecksOf(w)
    /\ offered' = [offered EXCEPT ![w] = FALSE]
    /\ UNCHANGED <<store, requests, view, drafts, pending, written, rejected, overtaken, failures>>

(* saveDraft: a new text, perhaps an answer to a post of the thread. *)
Write(w, reply) ==
    /\ w \in signed /\ view[w] # None
    /\ ~view[w].locked
    /\ Pending(w) = 0
    /\ written < MaxDrafts
    /\ written' = written + 1
    /\ drafts' = [drafts EXCEPT ![w][DraftKey(w)] = [text |-> written', reply |-> reply]]
    /\ UNCHANGED <<service, requests, calls, checks, view, signed, offered, pending, rejected,
                   overtaken, failures>>

(* Neither send nor checkReply waits for an earlier call to be answered. *)
HasRoom(w) ==
    Cardinality({c \in calls : c.wallet = w /\ c.open}) + Cardinality(ChecksOf(w)) < MaxOpen

Copies(i) == {c \in calls : c.request = i}

(* The POST of send. *)
PostCall(w, i, saved) ==
    LET free == {n \in 1..MaxCopies : \A c \in Copies(i) : c.copy # n}
    IN  \E n \in free :
        /\ \A m \in free : n <= m
        /\ HasRoom(w)
        /\ calls' = calls \cup {[wallet |-> w, request |-> i, copy |-> n, thread |-> view[w].at,
               key |-> PendingKey(w), keys |-> Keys(w), saved |-> saved,
               current |-> TRUE, open |-> TRUE, stage |-> "sent"]}

(* send: a new request is saved before it is posted. *)
Send(w) ==
    /\ w \in signed /\ view[w] # None
    /\ ~view[w].locked
    /\ Pending(w) = 0
    /\ drafts[w][DraftKey(w)] # None
    /\ Len(requests) < MaxRequests
    /\ LET draft == drafts[w][DraftKey(w)]
           i == Len(requests) + 1
       IN  /\ requests' = Append(requests, [wallet |-> w, text |-> draft.text, reply |-> draft.reply])
           /\ pending' = [pending EXCEPT ![w][PendingKey(w)] = i]
           /\ PostCall(w, i, FALSE)
    /\ offered' = [offered EXCEPT ![w] = FALSE]
    /\ UNCHANGED <<service, checks, view, signed, drafts, written, rejected, overtaken, failures>>

(* send(true): the saved request once more. *)
SendSaved(w) ==
    /\ w \in signed /\ view[w] # None
    /\ offered[w]
    /\ Pending(w) # 0
    /\ PostCall(w, Pending(w), TRUE)
    /\ offered' = [offered EXCEPT ![w] = FALSE]
    /\ UNCHANGED <<service, requests, checks, view, signed, drafts, pending, written, rejected,
                   overtaken, failures>>

(* checkReply up to its await: what is saved, and under which keys. *)
StartCheck(w) ==
    /\ w \in signed /\ view[w] # None
    /\ Pending(w) # 0
    /\ HasRoom(w)
    /\ LET free == {n \in 1..MaxCopies : \A k \in checks : k.request = Pending(w) => k.copy # n}
       IN  \E n \in free :
           /\ \A m \in free : n <= m
           /\ checks' = checks \cup {[wallet |-> w, request |-> Pending(w), copy |-> n,
                  key |-> PendingKey(w), keys |-> Keys(w), answer |-> "none"]}
    /\ UNCHANGED <<service, requests, calls, page, failures>>

(* The service answers a check: whether it knows the session, and the reply. *)
AnswerCheck(k) ==
    /\ k.answer = "none"
    /\ checks' = (checks \ {k}) \cup {[k EXCEPT !.answer =
           IF k.wallet \notin sessions THEN "unauthorized"
           ELSE IF Saved(k.request) THEN "found" ELSE "missing"]}
    /\ UNCHANGED <<service, requests, calls, page, failures>>

(* checkReply goes on: the session is gone, ... *)
CheckRejected(k) ==
    /\ k.answer = "unauthorized"
    /\ SignOff(k.wallet)

(* ... or the reply was received: whatever request is saved under the key   *)
(* by now is removed, ...                                                   *)
CheckReceived(k) ==
    LET w == k.wallet
    IN  /\ k.answer = "found"
        /\ checks' = checks \ {k}
        /\ pending' = [pending EXCEPT ![w][k.key] = 0]
        /\ drafts' = WithoutText(w, k.request, k.keys)
        /\ view' = [view EXCEPT ![w] = Seen(SavedIn(k.request))]
        /\ offered' = [offered EXCEPT ![w] = FALSE]
        /\ overtaken' = overtaken \cup ({pending[w][k.key]} \ {0, k.request})
        /\ UNCHANGED <<service, requests, calls, signed, written, rejected, failures>>

(* ... or it was not, and may be sent again, ... *)
CheckMissing(k) ==
    /\ k.answer = "missing"
    /\ checks' = checks \ {k}
    /\ offered' = [offered EXCEPT ![k.wallet] = TRUE]
    /\ UNCHANGED <<service, requests, calls, view, signed, drafts, pending, written, rejected,
                   overtaken, failures>>

(* ... or no answer came. *)
CheckFails(k) ==
    /\ checks' = checks \ {k}
    /\ UNCHANGED <<service, requests, calls, page, failures>>

ReceiveCheck(k) == CheckRejected(k) \/ CheckReceived(k) \/ CheckMissing(k) \/ CheckFails(k)
-----------------------------------------------------------------------------
(* storage.remove(key): whatever request is saved there by now. *)
Removed(c) == [pending EXCEPT ![c.wallet][c.key] = 0]

(* send goes on with an answer.  Accepted: the saved request and the drafts *)
(* with its text go, and the thread is loaded again.                        *)
ReceiveAccepted(c) ==
    LET w == c.wallet
    IN  /\ c.open /\ c.stage = "accepted"
        /\ calls' = calls \ {c}
        /\ pending' = Removed(c)
        /\ drafts' = WithoutText(w, c.request, c.keys)
        /\ view' = [view EXCEPT ![w] = IF c.current /\ @.at = c.thread THEN Seen(@.at) ELSE @]
        /\ offered' = [offered EXCEPT ![w] = FALSE]
        /\ overtaken' = overtaken \cup ({pending[w][c.key]} \ {0, c.request})
        /\ UNCHANGED <<service, requests, checks, signed, written, rejected, failures>>

(* Refused for good, or for now: a new request is forgotten, a repeated one *)
(* is kept.                                                                 *)
ReceiveRefused(c) ==
    LET w == c.wallet
        forget == c.current /\ ~c.saved
        final == Copies(c.request) = {c} /\ ~Saved(c.request)
    IN  /\ c.open /\ c.stage = "refused"
        /\ calls' = calls \ {c}
        /\ pending' = IF forget THEN Removed(c) ELSE pending
        /\ offered' = [offered EXCEPT ![w] = FALSE]
        /\ overtaken' = overtaken \cup {i \in {pending[w][c.key]} \ {0} :
                            forget /\ ~(i = c.request /\ final)}
        /\ UNCHANGED <<service, requests, checks, view, signed, drafts, written, rejected, failures>>

(* The service failed: nothing is known, the saved request is kept. *)
ReceiveFailed(c) ==
    /\ c.open /\ c.stage = "failed"
    /\ calls' = calls \ {c}
    /\ offered' = [offered EXCEPT ![c.wallet] = FALSE]
    /\ UNCHANGED <<service, requests, checks, view, signed, drafts, pending, written, rejected,
                   overtaken, failures>>

(* The session was rejected: the page signs off, unless it moved on        *)
(* meanwhile, and the saved request is removed as one never written.       *)
ReceiveUnauthorized(c) ==
    LET w == c.wallet
    IN  /\ c.open /\ c.stage = "unauthorized"
        /\ signed' = IF c.current THEN signed \ {w} ELSE signed
        /\ calls' = IF c.current THEN Outdated(w) \ {[c EXCEPT !.current = FALSE]} ELSE calls \ {c}
        /\ checks' = IF c.current THEN checks \ ChecksOf(w) ELSE checks
        /\ pending' = Removed(c)
        /\ offered' = [offered EXCEPT ![w] = FALSE]
        /\ rejected' = rejected \cup ({pending[w][c.key]} \ {0})
        /\ UNCHANGED <<service, requests, view, drafts, written, overtaken, failures>>

Receive(c) ==
    \/ ReceiveAccepted(c)
    \/ ReceiveRefused(c)
    \/ ReceiveFailed(c)
    \/ ReceiveUnauthorized(c)

(* Faulty timeout: taken for a refusal. *)
GiveUpForgets(c) ==
    /\ c.open
    /\ failures < MaxFailures
    /\ failures' = failures + 1
    /\ \/ calls' = calls \ {c}
       \/ c.stage \in {"sent", "identity"} /\ calls' = (calls \ {c}) \cup {[c EXCEPT !.open = FALSE]}
    /\ pending' = Removed(c)
    /\ offered' = [offered EXCEPT ![c.wallet] = FALSE]
    /\ UNCHANGED <<service, requests, checks, view, signed, drafts, written, rejected, overtaken>>

(* No answer in time: the request was lost, or its answer, or it goes on   *)
(* without the page.                                                       *)
GiveUp(c) ==
    /\ c.open
    /\ failures < MaxFailures
    /\ failures' = failures + 1
    /\ \/ calls' = calls \ {c}
       \/ c.stage \in {"sent", "identity"} /\ calls' = (calls \ {c}) \cup {[c EXCEPT !.open = FALSE]}
    /\ offered' = [offered EXCEPT ![c.wallet] = FALSE]
    /\ UNCHANGED <<service, requests, checks, view, signed, drafts, pending, written, rejected,
                   overtaken>>

ServiceRestart ==
    /\ failures < MaxFailures
    /\ failures' = failures + 1
    /\ Restart
    /\ UNCHANGED <<page, checks>>
-----------------------------------------------------------------------------
Init ==
    /\ StoreInit
    /\ requests = <<>> /\ calls = {}
    /\ view = [w \in Wallets |-> None]
    /\ signed = {}
    /\ offered = [w \in Wallets |-> FALSE]
    /\ drafts = [w \in Wallets |-> [t \in Threads |-> None]]
    /\ pending = [w \in Wallets |-> [t \in Threads |-> 0]]
    /\ written = 0 /\ failures = 0
    /\ checks = {} /\ rejected = {} /\ overtaken = {}

ServiceStep ==
    /\ \/ \E c \in calls : Admit(c) \/ AddPost(c)
       \/ \E w \in sessions : Expire(w)
       \/ Moderate
       \/ SyncAny
       \/ Tick
    /\ UNCHANGED <<page, checks, failures>>

Next ==
    \/ ServiceStep
    \/ ServiceRestart
    \/ \E c \in calls : Receive(c) \/ GiveUp(c)
    \/ \E k \in checks : AnswerCheck(k) \/ ReceiveCheck(k)
    \/ \E w \in Wallets :
        \/ \E t \in Threads : Open(w, t)
        \/ Connect(w)
        \/ SignOff(w)
        \/ \E reply \in {0} \cup PostIds : Write(w, reply)
        \/ Send(w)
        \/ SendSaved(w)
        \/ StartCheck(w)

Spec == Init /\ [][Next]_vars

-----------------------------------------------------------------------------
TypeOK ==
    /\ threads \in [Threads -> ThreadRow \cup {None}]
    /\ posts \in Seq(Post)
    /\ blocked \subseteq Wallets /\ sessions \subseteq Wallets /\ ready \subseteq Indexed
    /\ requests \in Seq(Request) /\ calls \subseteq Call /\ checks \subseteq StatusCheck
    /\ view \in [Wallets -> View \cup {None}]
    /\ signed \subseteq Wallets
    /\ offered \in [Wallets -> BOOLEAN]
    /\ drafts \in [Wallets -> [Threads -> Draft \cup {None}]]
    /\ pending \in [Wallets -> [Threads -> 0..MaxRequests]]
    /\ written \in 0..MaxDrafts /\ failures \in 0..MaxFailures
    /\ rejected \cup overtaken \subseteq RequestIds
    /\ \A t \in Indexed : threads[Thread(t)].redirect = None

(* A reply stays in one discussion with the post it answers or quotes:     *)
(* while it was on its way the native proposal's discussion may have moved *)
(* into the review's, whose id is another one.                             *)
RepliesStayTogether ==
    \A p \in PostIds :
        /\ threads[posts[p].thread].redirect = None
        /\ posts[p].reply # 0 => posts[posts[p].reply].thread = posts[p].thread

(* A locked discussion stays closed, under all its ids and through a join  *)
(* with another one, until a moderator unlocks it: no reply is added to    *)
(* it, one that was admitted before the lock included.                     *)
LockHolds ==
    [][\A t \in Indexed : Locked(t) =>
        /\ Locked(t)' \/ \E s \in Indexed : SetLocked(s, FALSE)
        /\ \A p \in PostIds' \ PostIds : posts'[p].request # 0 => posts'[p].thread # Thread(t)]_vars

(* An author who lost an answer checks and sends the saved request again,  *)
(* so that one text makes one reply, whatever else the page waits for.     *)
(* Excepted are requests whose receipt was removed because a session was   *)
(* rejected (see RejectedUnwritten) or with an answer that was not their   *)
(* last one: receipts are removed by key (discussions.mjs:646, 664, 696).  *)
PostedOnce ==
    \A p, q \in PostIds :
        /\ p # q
        /\ posts[p].request # 0 /\ posts[q].request # 0
        /\ requests[posts[p].request].text = requests[posts[q].request].text
        => {posts[p].request, posts[q].request} \cap (rejected \cup overtaken) # {}

(* "An explicit authentication rejection means this request was not        *)
(* written": the receipt of a stored reply is removed only after the page  *)
(* learned that it was received.                                           *)
RejectedUnwritten == \A i \in rejected : ~Saved(i)
=============================================================================
