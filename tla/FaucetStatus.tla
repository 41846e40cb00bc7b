---------------------------- MODULE FaucetStatus ----------------------------
(***************************************************************************)
(* The balance the faucet's status reports (faucet/service/http.mjs): one  *)
(* refresh at a time serves every request that waits for it, its outcome   *)
(* is cached for a while, and a returned claim invalidates the cache.  A   *)
(* balance is abstracted to the number of payouts it reflects; one payout  *)
(* is open at a time (FaucetLedger).  Requests run between awaits.  The    *)
(* names are apart from those of FaucetLedger: FaucetProofs extends both.  *)
(***************************************************************************)
EXTENDS Integers

CONSTANTS
    Readers,
    Unknown,    \* null: no balance was read
    Failure,    \* what a status request gets when the node is unavailable
    CacheTime,  \* 30 seconds
    MaxPayouts, \* bound on the payouts
    LastTick    \* bound on the clock

Counts  == 0..MaxPayouts
Answers == Counts \cup {Unknown, Failure}

ASSUME StatusAssumption ==
    /\ CacheTime \in Nat /\ MaxPayouts \in Nat /\ LastTick \in Nat
    /\ Unknown # Failure
    /\ Unknown \notin Counts /\ Failure \notin Counts

VARIABLES
    sent,          \* payouts broadcast
    paid,          \* payouts executed on the chain
    claiming,      \* a claim is being handled
    snapshot,      \* the cached balance
    snapshotError, \* the last refresh failed
    nextRefresh,   \* until when the cache is used
    refresh,       \* the refresh in flight: where it is, what it has read
    waiting,       \* the requests that wait for it
    answer,        \* the last answer of each reader
    quiet,         \* payouts executed when a claim last returned and met no refresh
    due,           \* quiet when each request began
    clock

payouts    == <<sent, paid, claiming, quiet>>
cache      == <<snapshot, snapshotError, nextRefresh, refresh>>
readers    == <<waiting, answer, due>>
statusVars == <<payouts, cache, readers, clock>>

StatusTypeOK ==
    /\ sent \in Counts /\ paid \in Counts /\ paid <= sent
    /\ claiming \in BOOLEAN
    /\ snapshot \in Counts \cup {Unknown}
    /\ snapshotError \in BOOLEAN
    /\ nextRefresh \in Nat
    /\ nextRefresh > 0 /\ ~snapshotError => snapshot # Unknown
    /\ refresh \in [phase : {"none", "reconcile", "balance"}, seen : {Unknown}]
                   \cup [phase : {"read"}, seen : Counts]
    /\ waiting \subseteq Readers
    /\ answer \in [Readers -> Answers]
    /\ quiet \in Counts
    /\ due \in [Readers -> Counts]
    /\ clock \in Nat

Idle      == [phase |-> "none", seen |-> Unknown]
At(phase) == [phase |-> phase, seen |-> Unknown]

StatusInit ==
    /\ sent = 0 /\ paid = 0 /\ claiming = FALSE
    /\ snapshot = Unknown /\ snapshotError = FALSE /\ nextRefresh = 0
    /\ refresh = Idle
    /\ waiting = {}
    /\ answer = [r \in Readers |-> Unknown]
    /\ quiet = 0
    /\ due = [r \in Readers |-> 0]
    /\ clock = 0

-----------------------------------------------------------------------------
(* A status request begins; due remembers the claims it should reflect. *)
Begin(r) ==
    /\ r \notin waiting
    /\ due' = [due EXCEPT ![r] = quiet]

Join(r) ==
    /\ Begin(r)
    /\ refresh # Idle
    /\ waiting' = waiting \cup {r}
    /\ UNCHANGED <<payouts, cache, answer, clock>>

ReadCached(r) ==
    /\ Begin(r)
    /\ refresh = Idle
    /\ clock < nextRefresh
    /\ answer' = [answer EXCEPT ![r] = IF snapshotError THEN Failure ELSE snapshot]
    /\ UNCHANGED <<payouts, cache, waiting, clock>>

StartRefresh(r) ==
    /\ Begin(r)
    /\ refresh = Idle
    /\ clock >= nextRefresh
    /\ refresh' = At("reconcile")
    /\ waiting' = waiting \cup {r}
    /\ UNCHANGED <<payouts, snapshot, snapshotError, nextRefresh, answer, clock>>

(* ledger.reconcile returned; the balance is requested. *)
Reconciled ==
    /\ refresh.phase = "reconcile"
    /\ refresh' = At("balance")
    /\ UNCHANGED <<payouts, snapshot, snapshotError, nextRefresh, readers, clock>>

(* The node reads the balance it will answer with. *)
NodeReads ==
    /\ refresh.phase = "balance"
    /\ refresh' = [phase |-> "read", seen |-> paid]
    /\ UNCHANGED <<payouts, snapshot, snapshotError, nextRefresh, readers, clock>>

(* The refresh ends with an outcome that all who wait get. *)
EndRefresh(outcome) ==
    /\ nextRefresh' = clock + CacheTime
    /\ refresh' = Idle
    /\ answer' = [r \in Readers |-> IF r \in waiting THEN outcome ELSE answer[r]]
    /\ waiting' = {}
    /\ UNCHANGED <<payouts, due, clock>>

RefreshSucceeds ==
    /\ refresh.phase = "read"
    /\ snapshot' = refresh.seen
    /\ snapshotError' = FALSE
    /\ EndRefresh(refresh.seen)

(* Faulty end of a refresh: a failure is not told to those who joined it. *)
RefreshFailsUnheard ==
    /\ refresh # Idle
    /\ snapshotError' = TRUE
    /\ nextRefresh' = clock + CacheTime
    /\ refresh' = Idle
    /\ UNCHANGED <<payouts, snapshot, readers, clock>>

RefreshFails ==
    /\ refresh # Idle
    /\ snapshotError' = TRUE
    /\ EndRefresh(Failure)
    /\ UNCHANGED snapshot

-----------------------------------------------------------------------------
(* A claim broadcasts the one open payout, ... *)
BeginClaim ==
    /\ ~claiming
    /\ sent = paid /\ sent < MaxPayouts
    /\ claiming' = TRUE
    /\ sent' = sent + 1
    /\ UNCHANGED <<paid, quiet, cache, readers, clock>>

(* ... which the chain executes before or after it returns. *)
Pay ==
    /\ paid < sent
    /\ paid' = paid + 1
    /\ UNCHANGED <<sent, claiming, quiet, cache, readers, clock>>

(* Faulty return: the cached balance stays. *)
ClaimReturnsCached ==
    /\ claiming
    /\ claiming' = FALSE
    /\ quiet' = IF refresh = Idle THEN paid ELSE quiet
    /\ UNCHANGED <<sent, paid, cache, readers, clock>>

(* The claim returns: the next read is to refresh the balance. *)
ClaimReturns ==
    /\ claiming
    /\ claiming' = FALSE
    /\ nextRefresh' = 0
    /\ quiet' = IF refresh = Idle THEN paid ELSE quiet
    /\ UNCHANGED <<sent, paid, snapshot, snapshotError, refresh, readers, clock>>

ClaimThrows ==
    /\ claiming
    /\ claiming' = FALSE
    /\ UNCHANGED <<sent, paid, quiet, cache, readers, clock>>

ClockTicks ==
    /\ clock < LastTick
    /\ clock' = clock + 1
    /\ UNCHANGED <<payouts, cache, readers>>

RefreshStep == Reconciled \/ NodeReads \/ RefreshSucceeds \/ RefreshFails

StatusNext ==
    \/ \E r \in Readers : Join(r) \/ ReadCached(r) \/ StartRefresh(r)
    \/ RefreshStep
    \/ BeginClaim \/ Pay \/ ClaimReturns \/ ClaimThrows
    \/ ClockTicks

StatusSpec == StatusInit /\ [][StatusNext]_statusVars

(* The promises the refresh awaits are bounded by timeouts. *)
FairStatus == StatusSpec /\ WF_statusVars(RefreshStep)

-----------------------------------------------------------------------------
Reflects(r, n) == r \notin waiting /\ answer[r] \in Counts => answer[r] >= n

(* "Cached balances can overstate readiness after a payout. Refresh next   *)
(* read.": a status request that began after a claim returned does not     *)
(* report a balance from before the payout of the claim, if no refresh was *)
(* in flight when it returned, whatever claims, refreshes and failures     *)
(* happen after it.  (A refresh in flight may have read the balance        *)
(* before, and is cached when it ends.)                                    *)
FreshAfterQuietClaim == \A r \in Readers : Reflects(r, due[r])

(* A status request is answered, also when the refresh it waits for fails  *)
(* or was begun by another request.                                        *)
ReadersAnswered == \A r \in Readers : r \in waiting ~> r \notin waiting

=============================================================================
