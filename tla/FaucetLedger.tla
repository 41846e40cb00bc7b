---------------------------- MODULE FaucetLedger ----------------------------
(***************************************************************************)
(* The JUNOX faucet's payout ledger, faucet/service/ledger.mjs, under      *)
(* concurrent HTTP requests, process crashes and a chain whose answers may *)
(* be lost.  A request runs to its next await in one action; pc names the  *)
(* await it is suspended at:                                               *)
(*                                                                         *)
(*   "verify"     the wallet signature check of claim                      *)
(*   "reconcile"  a lookup of the reconcile that precedes the reservation  *)
(*   "prepare"    simulate and sign                                        *)
(*   "broadcast"  the only broadcast attempt                               *)
(*   "settle"     a lookup of the reconcile that follows it                *)
(*   "status"     a lookup of the reconcile of GET /status                 *)
(*                                                                         *)
(* The database is durable; a crash forgets the requests.  The request     *)
(* quota (admitRequest) is abstracted to a refusal that may always happen. *)
(***************************************************************************)
EXTENDS Integers, FiniteSets

CONSTANTS
    Requests,       \* concurrent HTTP requests
    Addresses,      \* wallets
    Ids,            \* challenge ids, which become claim ids
    None,           \* an absent row or field
    DAY,            \* the payout interval of one wallet
    CHALLENGE_TTL,  \* life of a challenge
    CHALLENGE_GAP,  \* spacing of one wallet's challenges
    MaxChallenges,  \* limit on stored challenges
    Windows,        \* the calendar periods with a payout limit: day and month
    WindowStart,    \* by window and time: when the period of that time began
    PayoutLimit,    \* by window: how many payouts one period may see
    MaxTime         \* bound on the clock

Times == 0..MaxTime

ASSUME FaucetAssumption ==
    /\ DAY \in Nat \ {0}
    /\ CHALLENGE_TTL \in Nat
    /\ CHALLENGE_GAP \in 0..CHALLENGE_TTL
    /\ MaxChallenges \in Nat
    /\ MaxTime \in Nat
    /\ IsFiniteSet(Ids)
    /\ PayoutLimit \in [Windows -> Nat]
    /\ WindowStart \in [Windows -> [Times -> Times]]
    /\ \A w \in Windows, s, t \in Times :
           s <= t => WindowStart[w][s] <= WindowStart[w][t]

Statuses == {"signing", "pending", "confirmed", "failed"}

Challenge == [address : Addresses, expires : Nat, used : BOOLEAN]
Claim     == [address : Addresses, status : Statuses, slot : BOOLEAN,
              created : Times, confirmed : Times \cup {None}]
(* A payout transaction as the chain sees it. *)
Payout    == [state : {"unsent", "sent", "paid", "rejected"}, at : Times]

ASSUME NoneAssumption == None \notin Challenge \cup Claim \cup Times \cup Ids

VARIABLES
    challenges,  \* table challenges, by id
    claims,      \* table claims, by id
    pc,          \* where each request is suspended
    asked,       \* the id each request claims
    seen,        \* the challenge row each claim read on entry
    rows,        \* the pending rows each reconcile still has to look up
    chain,       \* the fate of each claim's transaction, unknown to the service
    now

vars == <<challenges, claims, pc, asked, seen, rows, chain, now>>

TypeOK ==
    /\ challenges \in [Ids -> Challenge \cup {None}]
    /\ claims \in [Ids -> Claim \cup {None}]
    /\ pc \in [Requests -> {"idle", "verify", "reconcile", "prepare",
                            "broadcast", "settle", "status"}]
    /\ asked \in [Requests -> Ids \cup {None}]
    /\ seen \in [Requests -> Challenge \cup {None}]
    /\ rows \in [Requests -> SUBSET Ids]
    /\ chain \in [Ids -> Payout]
    /\ now \in Times

-----------------------------------------------------------------------------
Open(i) == claims[i] # None /\ claims[i].status \in {"signing", "pending"}

(* Faulty reconcile: asks for the payouts that are still being signed. *)
SigningRows == {i \in Ids : claims[i] # None /\ claims[i].status = "signing"}

(* The rows SELECTed WHERE status='pending'. *)
PendingRows == {i \in Ids : claims[i] # None /\ claims[i].status = "pending"}

(* Faulty eligibility: counts from the request and not from the payment. *)
ConfirmationsByRequest(a) ==
    {claims[i].created : i \in
        {j \in Ids : claims[j] # None /\ claims[j].status = "confirmed"
                                      /\ claims[j].address = a}}

(* eligibility: the payout times that count against an address. *)
Confirmations(a) ==
    {claims[i].confirmed : i \in
        {j \in Ids : claims[j] # None /\ claims[j].status = "confirmed"
                                      /\ claims[j].address = a}}

(* assertEligible passes. *)
Eligible(a) ==
    /\ \A i \in Ids : Open(i) => claims[i].address # a
    /\ \A t \in Confirmations(a) : t + DAY <= now

(* The claims created in the present period of the window. *)
CreatedInWindow(w) ==
    {i \in Ids : claims[i] # None /\ claims[i].created >= WindowStart[w][now]}

(* Faulty limit: a full period takes one more claim. *)
PayoutAllowedOneMore ==
    \A w \in Windows : Cardinality(CreatedInWindow(w)) <= PayoutLimit[w]

(* assertPayoutAllowed passes: payoutPause counts every claim of a period. *)
PayoutAllowed ==
    \A w \in Windows : Cardinality(CreatedInWindow(w)) < PayoutLimit[w]

-----------------------------------------------------------------------------
Init ==
    /\ challenges = [i \in Ids |-> None]
    /\ claims = [i \in Ids |-> None]
    /\ pc = [r \in Requests |-> "idle"]
    /\ asked = [r \in Requests |-> None]
    /\ seen = [r \in Requests |-> None]
    /\ rows = [r \in Requests |-> {}]
    /\ chain = [i \in Ids |-> [state |-> "unsent", at |-> 0]]
    /\ now = 0

(* The request r goes on to another await, or ends at "idle". *)
Goto(r, label, todo) ==
    /\ pc' = [pc EXCEPT ![r] = label]
    /\ rows' = [rows EXCEPT ![r] = todo]

Return(r) ==
    /\ Goto(r, "idle", {})
    /\ asked' = [asked EXCEPT ![r] = None]
    /\ seen' = [seen EXCEPT ![r] = None]

(* The challenge table after the DELETE of expired rows. *)
Unexpired ==
    [i \in Ids |-> IF challenges[i] # None /\ challenges[i].expires < now
                   THEN None ELSE challenges[i]]

(* challenge(address): POST /challenge, one synchronous handler.  A fresh  *)
(* random id never named a challenge or a claim before.                    *)
IssueChallenge(a, id) ==
    /\ PayoutAllowed
    /\ Eligible(a)
    /\ Cardinality({i \in Ids : Unexpired[i] # None}) < MaxChallenges
    /\ challenges[id] = None /\ claims[id] = None
    /\ \A r \in Requests : asked[r] # id
    /\ \A i \in Ids : Unexpired[i] # None /\ Unexpired[i].address = a =>
           Unexpired[i].expires <= now + (CHALLENGE_TTL - CHALLENGE_GAP)
    /\ challenges' = [Unexpired EXCEPT ![id] =
           [address |-> a, expires |-> now + CHALLENGE_TTL, used |-> FALSE]]
    /\ UNCHANGED <<claims, pc, asked, seen, rows, chain, now>>

(* claim: the challenge row is read, then the signature is verified. *)
StartClaim(r, id) ==
    /\ pc[r] = "idle"
    /\ challenges[id] # None
    /\ Goto(r, "verify", {})
    /\ asked' = [asked EXCEPT ![r] = id]
    /\ seen' = [seen EXCEPT ![r] = challenges[id]]
    /\ UNCHANGED <<challenges, claims, chain, now>>

(* A bad signature, an outcome that is already there, an expired or used   *)
(* challenge, or the request quota ends the claim.                         *)
RefuseClaim(r) ==
    /\ pc[r] = "verify"
    /\ Return(r)
    /\ UNCHANGED <<challenges, claims, chain, now>>

(* The claim is admitted on the row it read before the await, and starts   *)
(* reconciling.                                                            *)
AdmitClaim(r) ==
    /\ pc[r] = "verify"
    /\ claims[asked[r]] = None
    /\ seen[r].expires >= now
    /\ ~seen[r].used
    /\ Goto(r, "reconcile", PendingRows)
    /\ UNCHANGED <<challenges, claims, asked, seen, chain, now>>

-----------------------------------------------------------------------------
Reconciling(r) == pc[r] \in {"reconcile", "settle", "status"}

(* Faulty settlement: the slot is not released. *)
SettledKeepsSlot(i) ==
    IF chain[i].state = "paid"
    THEN [claims[i] EXCEPT !.status = "confirmed", !.confirmed = now]
    ELSE [claims[i] EXCEPT !.status = "failed"]

(* Faulty settlement: the chain's word is stored as a status. *)
SettledVerbatim(i) ==
    [claims[i] EXCEPT !.status = chain[i].state, !.slot = FALSE]

(* The row after the guarded UPDATE of reconcile with the chain's answer. *)
Settled(i) ==
    IF chain[i].state = "paid"
    THEN [claims[i] EXCEPT !.status = "confirmed", !.confirmed = now, !.slot = FALSE]
    ELSE [claims[i] EXCEPT !.status = "failed", !.slot = FALSE]

(* One lookup answers with a receipt.  The row may have been settled by    *)
(* another request meanwhile: the UPDATE applies to a pending row only.    *)
LookupFound(r, i) ==
    /\ Reconciling(r)
    /\ i \in rows[r]
    /\ chain[i].state \in {"paid", "rejected"}
    /\ claims' = IF claims[i].status = "pending"
                 THEN [claims EXCEPT ![i] = Settled(i)] ELSE claims
    /\ rows' = [rows EXCEPT ![r] = @ \ {i}]
    /\ UNCHANGED <<challenges, pc, asked, seen, chain, now>>

(* One lookup fails or knows of nothing: the row stays as it is. *)
LookupUnknown(r, i) ==
    /\ Reconciling(r)
    /\ i \in rows[r]
    /\ rows' = [rows EXCEPT ![r] = @ \ {i}]
    /\ UNCHANGED <<challenges, claims, pc, asked, seen, chain, now>>

(* The checks of the reserving transaction. *)
MayReserve(id, a) ==
    /\ PayoutAllowed
    /\ Eligible(a)
    /\ \A i \in Ids : claims[i] # None => ~claims[i].slot
    /\ claims[id] = None
    /\ challenges[id] # None => ~challenges[id].used

(* Reconciled: the transaction marks the challenge used, if its row is     *)
(* still there, and takes the slot; then the payout is prepared.           *)
Reserve(r) ==
    LET id == asked[r]
        a  == seen[r].address
    IN  /\ pc[r] = "reconcile" /\ rows[r] = {}
        /\ MayReserve(id, a)
        /\ challenges' = IF challenges[id] = None THEN challenges
                         ELSE [challenges EXCEPT ![id].used = TRUE]
        /\ claims' = [claims EXCEPT ![id] =
               [address |-> a, status |-> "signing", slot |-> TRUE,
                created |-> now, confirmed |-> None]]
        /\ Goto(r, "prepare", {})
        /\ UNCHANGED <<asked, seen, chain, now>>

(* The transaction throws and is rolled back. *)
ReserveFails(r) ==
    /\ pc[r] = "reconcile" /\ rows[r] = {}
    /\ ~MayReserve(asked[r], seen[r].address)
    /\ Return(r)
    /\ UNCHANGED <<challenges, claims, chain, now>>

(* prepare throws: nothing was broadcast, the reservation is released. *)
PrepareFails(r) ==
    /\ pc[r] = "prepare"
    /\ claims' = [claims EXCEPT ![asked[r]].status = "failed", ![asked[r]].slot = FALSE]
    /\ Return(r)
    /\ UNCHANGED <<challenges, chain, now>>

(* The signed payout has no usable hash or bytes: locked for inspection. *)
PrepareInvalid(r) ==
    /\ pc[r] = "prepare"
    /\ Return(r)
    /\ UNCHANGED <<challenges, claims, chain, now>>

(* The signed bytes and their hash are stored, then broadcast. *)
Prepared(r) ==
    /\ pc[r] = "prepare"
    /\ claims' = [claims EXCEPT ![asked[r]].status = "pending"]
    /\ Goto(r, "broadcast", {})
    /\ UNCHANGED <<challenges, asked, seen, chain, now>>

(* The bytes leave the process.  They may arrive late or never, whatever   *)
(* the caller is told: a transaction that is sent need not be included.    *)
Broadcast(r) ==
    /\ pc[r] = "broadcast"
    /\ chain[asked[r]].state = "unsent"
    /\ chain' = [chain EXCEPT ![asked[r]].state = "sent"]
    /\ UNCHANGED <<challenges, claims, pc, asked, seen, rows, now>>

(* Faulty answer: an unknown broadcast outcome is taken for a failure. *)
BroadcastAnswerFails(r) ==
    /\ pc[r] = "broadcast"
    /\ claims' = [claims EXCEPT ![asked[r]].status = "failed", ![asked[r]].slot = FALSE]
    /\ Return(r)
    /\ UNCHANGED <<challenges, chain, now>>

(* broadcast answers or throws; either way the outcome is looked up. *)
BroadcastAnswer(r) ==
    /\ pc[r] = "broadcast"
    /\ Goto(r, "settle", PendingRows)
    /\ UNCHANGED <<challenges, claims, asked, seen, chain, now>>

(* GET /status starts a reconcile. *)
StartStatus(r) ==
    /\ pc[r] = "idle"
    /\ Goto(r, "status", PendingRows)
    /\ UNCHANGED <<challenges, claims, asked, seen, chain, now>>

(* The last lookup of a claim or of a status request is done. *)
Finish(r) ==
    /\ pc[r] \in {"settle", "status"} /\ rows[r] = {}
    /\ Return(r)
    /\ UNCHANGED <<challenges, claims, chain, now>>

-----------------------------------------------------------------------------
(* The chain executes a transaction it was sent. *)
Include(i) ==
    /\ chain[i].state = "sent"
    /\ \E s \in {"paid", "rejected"} : chain' = [chain EXCEPT ![i] = [state |-> s, at |-> now]]
    /\ UNCHANGED <<challenges, claims, pc, asked, seen, rows, now>>

(* The process dies and restarts: every request in flight is forgotten. *)
Crash ==
    /\ pc' = [r \in Requests |-> "idle"]
    /\ asked' = [r \in Requests |-> None]
    /\ seen' = [r \in Requests |-> None]
    /\ rows' = [r \in Requests |-> {}]
    /\ UNCHANGED <<challenges, claims, chain, now>>

Tick ==
    /\ now < MaxTime
    /\ now' = now + 1
    /\ UNCHANGED <<challenges, claims, pc, asked, seen, rows, chain>>

Lookup(r) == \E i \in Ids : LookupFound(r, i) \/ LookupUnknown(r, i)

Step(r) ==
    \/ RefuseClaim(r) \/ AdmitClaim(r) \/ Lookup(r)
    \/ Reserve(r) \/ ReserveFails(r)
    \/ PrepareFails(r) \/ PrepareInvalid(r) \/ Prepared(r)
    \/ Broadcast(r) \/ BroadcastAnswer(r) \/ Finish(r)

Next ==
    \/ \E a \in Addresses, id \in Ids : IssueChallenge(a, id)
    \/ \E r \in Requests, id \in Ids : StartClaim(r, id)
    \/ \E r \in Requests : StartStatus(r) \/ Step(r)
    \/ \E i \in Ids : Include(i)
    \/ Crash
    \/ Tick

Spec == Init /\ [][Next]_vars

-----------------------------------------------------------------------------
(* The slot column and the status column, written by five different        *)
(* statements, agree, and at most one payout is open at any time: through  *)
(* crashes, concurrent claims and lookups the faucet account never signs a *)
(* second transaction while the fate of the first is unknown.              *)
OnePayoutOpen ==
    /\ \A i \in Ids : claims[i] # None => (claims[i].slot <=> Open(i))
    /\ \A i, j \in Ids : Open(i) /\ Open(j) => i = j

(* What the ledger believes is what the chain did or may still do: a claim *)
(* recorded as failed is never paid, not even later, one recorded as       *)
(* confirmed was paid no later than its recorded time, and nothing is sent *)
(* whose signed bytes were not stored first.                               *)
LedgerMatchesChain ==
    \A i \in Ids :
        /\ chain[i].state # "unsent" => claims[i] # None /\ claims[i].status # "signing"
        /\ claims[i] # None /\ claims[i].status = "failed" =>
               chain[i].state \in {"unsent", "rejected"}
        /\ claims[i] # None /\ claims[i].status = "confirmed" =>
               chain[i].state = "paid" /\ chain[i].at <= claims[i].confirmed

(* A wallet is paid once per DAY of chain time, however its claims         *)
(* interleave with crashes, slow lookups and late inclusions.              *)
PaidOncePerDay ==
    \A i, j \in Ids :
        /\ i # j
        /\ chain[i].state = "paid" /\ chain[j].state = "paid"
        /\ claims[i].address = claims[j].address
        => chain[i].at >= chain[j].at + DAY \/ chain[j].at >= chain[i].at + DAY

(* No day and no month ever holds more claims than its payout limit,       *)
(* although many requests pass the early check of challenge at the same    *)
(* time and the reservation comes several awaits later.                    *)
WithinPayoutLimit ==
    \A w \in Windows : Cardinality(CreatedInWindow(w)) <= PayoutLimit[w]

-----------------------------------------------------------------------------
(* Fairness: the event loop runs the continuations of the requests it has, *)
(* the pages keep asking for the status, and a receipt that exists is      *)
(* found in the end (lookups that fail for ever settle nothing).  Neither  *)
(* wallets nor the chain nor crashes are fair.                             *)
FairSpec ==
    /\ Spec
    /\ \A r \in Requests :
        /\ WF_vars(Step(r))
        /\ SF_vars(StartStatus(r))
        /\ \A i \in Ids : SF_vars(LookupFound(r, i))

(* A payout the chain has executed is eventually settled and the faucet is *)
(* free for the next wallet, whatever crashed on the way.                  *)
ExecutedIsSettled ==
    \A i \in Ids : (chain[i].state \in {"paid", "rejected"}) ~> ~Open(i)

=============================================================================
