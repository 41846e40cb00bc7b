---------------------------- MODULE FaucetProofs ----------------------------
(***************************************************************************)
(* Proofs about the faucet: its payout ledger, for any number of requests, *)
(* wallets and ids and any payout interval, and its cached status.  The    *)
(* five invariants of the ledger are inductive only together with what     *)
(* each suspended request still knows (Suspended), with what the row times *)
(* say (Dated) and with the order in which the claims of one wallet were   *)
(* created and confirmed (Separated).                                      *)
(***************************************************************************)
EXTENDS FaucetLedger, FaucetStatus, FiniteSetTheorems, TLAPS

Holds(i, s) == claims[i] # None /\ claims[i].status = s

(* What a request suspended at an await still relies on. *)
Suspended ==
    /\ \A r \in Requests :
        /\ pc[r] \in {"verify", "reconcile", "prepare", "broadcast"} =>
               asked[r] \in Ids /\ seen[r] \in Challenge
        /\ pc[r] = "prepare" => Holds(asked[r], "signing")
        /\ pc[r] = "broadcast" =>
               /\ claims[asked[r]] # None
               /\ claims[asked[r]].status # "signing"
               /\ chain[asked[r]].state = "unsent" => claims[asked[r]].status = "pending"
        /\ \A i \in rows[r] : claims[i] # None /\ claims[i].status # "signing"
    /\ \A r, q \in Requests :
           pc[r] = "prepare" /\ pc[q] = "prepare" /\ asked[r] = asked[q] => r = q

(* Row times are past times, in the order of the events they record. *)
Dated ==
    \A i \in Ids :
        /\ claims[i] # None => claims[i].created <= now
        /\ Holds(i, "confirmed") => claims[i].confirmed \in Times /\ claims[i].confirmed <= now
        /\ chain[i].state = "paid" => claims[i].created <= chain[i].at /\ chain[i].at <= now

(* Of two claims of one wallet that did not fail, one was confirmed a DAY  *)
(* before the other was created.                                           *)
Before(i, j) == Holds(i, "confirmed") /\ claims[i].confirmed + DAY <= claims[j].created
Separated ==
    \A i, j \in Ids :
        /\ i # j
        /\ claims[i] # None /\ claims[j] # None
        /\ claims[i].status # "failed" /\ claims[j].status # "failed"
        /\ claims[i].address = claims[j].address
        => Before(i, j) \/ Before(j, i)

IInv ==
    /\ TypeOK
    /\ Suspended
    /\ OnePayoutOpen
    /\ LedgerMatchesChain
    /\ Dated
    /\ Separated

LEMMA Durations == DAY \in Nat /\ CHALLENGE_TTL \in Nat /\ MaxTime \in Nat
  BY FaucetAssumption

LEMMA InitIInv == Init => IInv
  BY Durations, NoneAssumption
  DEF Init, IInv, TypeOK, Suspended, OnePayoutOpen, LedgerMatchesChain, Dated, Separated,
      Before, Holds, Open, Payout, Times, Challenge, Claim

(* A step that leaves the claims, the chain and the clock alone disturbs   *)
(* only what the requests know.                                            *)
LEMMA Quiet ==
    ASSUME IInv, UNCHANGED <<claims, chain, now>>, TypeOK', Suspended'
    PROVE  IInv'
  BY DEF IInv, OnePayoutOpen, LedgerMatchesChain, Dated, Separated, Before, Holds, Open

LEMMA IssueChallengeKeeps ==
    ASSUME IInv, NEW a \in Addresses, NEW id \in Ids, IssueChallenge(a, id)
    PROVE  IInv'
<1>1. TypeOK'
  <2>1. Unexpired \in [Ids -> Challenge \cup {None}]
    BY DEF IInv, TypeOK, Unexpired
  <2>2. [address |-> a, expires |-> now + CHALLENGE_TTL, used |-> FALSE] \in Challenge
    BY Durations DEF IInv, TypeOK, Challenge, Times
  <2>3. challenges' \in [Ids -> Challenge \cup {None}]
    BY <2>1, <2>2 DEF IssueChallenge
  <2> QED
    BY <2>3 DEF IInv, TypeOK, IssueChallenge
<1>2. Suspended'
  BY DEF IInv, TypeOK, Suspended, Holds, IssueChallenge, Unexpired
<1>3. UNCHANGED <<claims, chain, now>>
  BY DEF IssueChallenge
<1> QED
  BY <1>1, <1>2, <1>3, Quiet

LEMMA StartClaimKeeps ==
    ASSUME IInv, NEW r \in Requests, NEW id \in Ids, StartClaim(r, id)
    PROVE  IInv'
<1>1. TypeOK'
  BY Durations DEF IInv, TypeOK, StartClaim, Goto, Challenge
<1>2. Suspended'
  BY DEF IInv, TypeOK, Suspended, Holds, StartClaim, Goto
<1>3. UNCHANGED <<claims, chain, now>>
  BY DEF StartClaim
<1> QED
  BY <1>1, <1>2, <1>3, Quiet

LEMMA RefuseClaimKeeps ==
    ASSUME IInv, NEW r \in Requests, RefuseClaim(r)
    PROVE  IInv'
<1>1. TypeOK'
  BY Durations DEF IInv, TypeOK, RefuseClaim, Return, Goto, Challenge
<1>2. Suspended'
  BY DEF IInv, TypeOK, Suspended, Holds, RefuseClaim, Return, Goto
<1>3. UNCHANGED <<claims, chain, now>>
  BY DEF RefuseClaim
<1> QED
  BY <1>1, <1>2, <1>3, Quiet

LEMMA AdmitClaimKeeps ==
    ASSUME IInv, NEW r \in Requests, AdmitClaim(r)
    PROVE  IInv'
<1>1. TypeOK'
  BY Durations DEF IInv, TypeOK, AdmitClaim, Goto, PendingRows, Challenge
<1>2. Suspended'
  BY DEF IInv, TypeOK, Suspended, Holds, AdmitClaim, Goto, PendingRows
<1>3. UNCHANGED <<claims, chain, now>>
  BY DEF AdmitClaim
<1> QED
  BY <1>1, <1>2, <1>3, Quiet

LEMMA LookupUnknownKeeps ==
    ASSUME IInv, NEW r \in Requests, NEW i \in Ids, LookupUnknown(r, i)
    PROVE  IInv'
<1>1. TypeOK'
  BY Durations DEF IInv, TypeOK, LookupUnknown, Reconciling, Challenge
<1>2. Suspended'
  BY DEF IInv, TypeOK, Suspended, Holds, LookupUnknown, Reconciling
<1>3. UNCHANGED <<claims, chain, now>>
  BY DEF LookupUnknown
<1> QED
  BY <1>1, <1>2, <1>3, Quiet

LEMMA ReserveFailsKeeps ==
    ASSUME IInv, NEW r \in Requests, ReserveFails(r)
    PROVE  IInv'
<1>1. TypeOK'
  BY Durations DEF IInv, TypeOK, ReserveFails, Return, Goto, Challenge
<1>2. Suspended'
  BY DEF IInv, TypeOK, Suspended, Holds, ReserveFails, Return, Goto
<1>3. UNCHANGED <<claims, chain, now>>
  BY DEF ReserveFails
<1> QED
  BY <1>1, <1>2, <1>3, Quiet

LEMMA PrepareInvalidKeeps ==
    ASSUME IInv, NEW r \in Requests, PrepareInvalid(r)
    PROVE  IInv'
<1>1. TypeOK'
  BY Durations DEF IInv, TypeOK, PrepareInvalid, Return, Goto, Challenge
<1>2. Suspended'
  BY DEF IInv, TypeOK, Suspended, Holds, PrepareInvalid, Return, Goto
<1>3. UNCHANGED <<claims, chain, now>>
  BY DEF PrepareInvalid
<1> QED
  BY <1>1, <1>2, <1>3, Quiet

LEMMA BroadcastAnswerKeeps ==
    ASSUME IInv, NEW r \in Requests, BroadcastAnswer(r)
    PROVE  IInv'
<1>1. TypeOK'
  BY Durations DEF IInv, TypeOK, BroadcastAnswer, Goto, PendingRows, Challenge
<1>2. Suspended'
  BY DEF IInv, TypeOK, Suspended, Holds, BroadcastAnswer, Goto, PendingRows
<1>3. UNCHANGED <<claims, chain, now>>
  BY DEF BroadcastAnswer
<1> QED
  BY <1>1, <1>2, <1>3, Quiet

LEMMA StartStatusKeeps ==
    ASSUME IInv, NEW r \in Requests, StartStatus(r)
    PROVE  IInv'
<1>1. TypeOK'
  BY Durations DEF IInv, TypeOK, StartStatus, Goto, PendingRows, Challenge
<1>2. Suspended'
  BY DEF IInv, TypeOK, Suspended, Holds, StartStatus, Goto, PendingRows
<1>3. UNCHANGED <<claims, chain, now>>
  BY DEF StartStatus
<1> QED
  BY <1>1, <1>2, <1>3, Quiet

LEMMA FinishKeeps ==
    ASSUME IInv, NEW r \in Requests, Finish(r)
    PROVE  IInv'
<1>1. TypeOK'
  BY Durations DEF IInv, TypeOK, Finish, Return, Goto, Challenge
<1>2. Suspended'
  BY DEF IInv, TypeOK, Suspended, Holds, Finish, Return, Goto
<1>3. UNCHANGED <<claims, chain, now>>
  BY DEF Finish
<1> QED
  BY <1>1, <1>2, <1>3, Quiet

LEMMA CrashKeeps ==
    ASSUME IInv, Crash
    PROVE  IInv'
<1>1. TypeOK'
  BY Durations DEF IInv, TypeOK, Crash, Challenge
<1>2. Suspended'
  BY DEF IInv, TypeOK, Suspended, Holds, Crash
<1>3. UNCHANGED <<claims, chain, now>>
  BY DEF Crash
<1> QED
  BY <1>1, <1>2, <1>3, Quiet

LEMMA LookupFoundKeeps ==
    ASSUME IInv, NEW r \in Requests, NEW i \in Ids, LookupFound(r, i)
    PROVE  IInv'
<1>1. TypeOK'
  <2>1. claims[i] \in Claim /\ now \in Times
    BY DEF IInv, TypeOK, Suspended, LookupFound
  <2>2. /\ [claims[i] EXCEPT !.status = "confirmed", !.confirmed = now, !.slot = FALSE] \in Claim
        /\ [claims[i] EXCEPT !.status = "failed", !.slot = FALSE] \in Claim
    BY <2>1 DEF Claim, Statuses
  <2>3. Settled(i) \in Claim
    BY <2>2 DEF Settled
  <2>4. claims' \in [Ids -> Claim \cup {None}]
    BY <2>3 DEF IInv, TypeOK, LookupFound
  <2>5. rows' \in [Requests -> SUBSET Ids]
    BY DEF IInv, TypeOK, LookupFound
  <2> QED
    BY <2>4, <2>5 DEF IInv, TypeOK, LookupFound
<1>2. Suspended'
  <2>1. claims[i] \in Claim /\ claims[i] # None /\ claims[i].status # "signing"
    BY DEF IInv, TypeOK, Suspended, LookupFound
  <2>2. Settled(i).status \in {"confirmed", "failed"} /\ Settled(i) # None
    <3>1. Settled(i) \in Claim
      BY <2>1 DEF Settled, Claim, IInv, TypeOK, Statuses
    <3>2. Settled(i).status \in {"confirmed", "failed"}
      BY <2>1 DEF Settled, Claim
    <3> QED
      BY <3>1, <3>2, NoneAssumption
  <2>3. \A k \in Ids : \/ claims'[k] = claims[k]
                       \/ /\ k = i
                          /\ claims'[i] = Settled(i)
                          /\ claims[i].status = "pending"
                          /\ chain[i].state # "unsent"
    BY DEF IInv, TypeOK, LookupFound
  <2>4. \A k \in Ids : claims[k] # None => claims'[k] # None
    BY <2>2, <2>3
  <2>5. \A k \in Ids : /\ claims[k].status # "signing" => claims'[k].status # "signing"
                       /\ Holds(k, "signing") => claims'[k] = claims[k]
                       /\ chain[k].state = "unsent" => claims'[k] = claims[k]
    BY <2>2, <2>3 DEF Holds
  <2>6. /\ \A q \in Requests : rows'[q] \subseteq rows[q] /\ rows[q] \subseteq Ids
        /\ UNCHANGED <<pc, asked, seen, chain>>
    BY DEF IInv, TypeOK, LookupFound
  <2> QED
    BY <2>4, <2>5, <2>6 DEF IInv, TypeOK, Suspended, Holds
<1>3. OnePayoutOpen'
  BY NoneAssumption, Durations
     DEF IInv, TypeOK, Claim, Challenge, Payout, Statuses, Times, LookupFound,
         Reconciling, Settled, OnePayoutOpen, Open, Suspended, Holds
<1>4. LedgerMatchesChain'
  <2>1. claims[i] \in Claim /\ now \in Times
    BY DEF IInv, TypeOK, Suspended, LookupFound
  <2>2. /\ chain[i].state = "paid" => Settled(i).status = "confirmed" /\ Settled(i).confirmed = now
        /\ chain[i].state = "rejected" => Settled(i).status = "failed"
    BY <2>1 DEF Settled, Claim
  <2>3. chain[i].state = "paid" => chain[i].at <= now
    BY DEF IInv, Dated
  <2>4. \A k \in Ids : \/ claims'[k] = claims[k]
                       \/ k = i /\ claims'[i] = Settled(i)
    BY DEF IInv, TypeOK, LookupFound
  <2>5. Settled(i) # None
    BY <2>1, NoneAssumption DEF Settled, Claim, Times, Statuses
  <2>6. chain' = chain /\ chain[i].state \in {"paid", "rejected"}
    BY DEF LookupFound
  <2> QED
    BY <2>2, <2>3, <2>4, <2>5, <2>6 DEF IInv, LedgerMatchesChain
<1>5. Dated'
  BY NoneAssumption, Durations
     DEF IInv, TypeOK, Claim, Challenge, Payout, Statuses, Times, LookupFound,
         Reconciling, Settled, Dated, Holds, LedgerMatchesChain, Suspended
<1>6. Separated'
  BY NoneAssumption, Durations
     DEF IInv, TypeOK, Claim, Challenge, Payout, Statuses, Times, LookupFound,
         Reconciling, Settled, Separated, Before, Holds, Dated, Suspended
<1> QED
  BY <1>1, <1>2, <1>3, <1>4, <1>5, <1>6 DEF IInv

LEMMA ReserveKeeps ==
    ASSUME IInv, NEW r \in Requests, Reserve(r)
    PROVE  IInv'
<1>1. TypeOK'
  <2>1. asked[r] \in Ids /\ seen[r] \in Challenge
    BY DEF IInv, Suspended, Reserve
  <2>2. [address |-> seen[r].address, status |-> "signing", slot |-> TRUE,
         created |-> now, confirmed |-> None] \in Claim
    BY <2>1 DEF IInv, TypeOK, Claim, Challenge, Statuses
  <2>3. claims' \in [Ids -> Claim \cup {None}]
    BY <2>2 DEF IInv, TypeOK, Reserve
  <2>4. challenges' \in [Ids -> Challenge \cup {None}]
    BY <2>1 DEF IInv, TypeOK, Reserve, Challenge
  <2>5. pc' \in [Requests -> {"idle", "verify", "reconcile", "prepare",
                            "broadcast", "settle", "status"}]
        /\ rows' \in [Requests -> SUBSET Ids]
    BY DEF IInv, TypeOK, Reserve, Goto
  <2> QED
    BY <2>3, <2>4, <2>5 DEF IInv, TypeOK, Reserve
<1>2. Suspended'
  <2>1. asked[r] \in Ids /\ seen[r] \in Challenge /\ claims[asked[r]] = None
    BY DEF IInv, Suspended, Reserve, MayReserve
  <2>2. /\ claims'[asked[r]] # None
        /\ claims'[asked[r]].status = "signing"
        /\ \A k \in Ids : k # asked[r] => claims'[k] = claims[k]
    <3> DEFINE row == [address |-> seen[r].address, status |-> "signing", slot |-> TRUE,
                       created |-> now, confirmed |-> None]
    <3>1. row \in Claim
      BY <2>1 DEF IInv, TypeOK, Claim, Challenge, Statuses
    <3>2. claims' = [claims EXCEPT ![asked[r]] = row]
      BY DEF Reserve
    <3>3. row.status = "signing" /\ row # None
      BY <3>1, NoneAssumption
    <3> HIDE DEF row
    <3> QED
      BY <2>1, <3>2, <3>3 DEF IInv, TypeOK
  <2>3. /\ pc'[r] = "prepare" /\ rows'[r] = {}
        /\ \A q \in Requests : q # r => pc'[q] = pc[q] /\ rows'[q] = rows[q]
        /\ UNCHANGED <<asked, seen, chain>>
    BY DEF IInv, TypeOK, Reserve, Goto
  <2>4. \A q \in Requests : /\ asked[q] = asked[r] => pc[q] \notin {"prepare", "broadcast"}
                            /\ asked[r] \notin rows[q]
                            /\ rows[q] \subseteq Ids
    BY <2>1 DEF IInv, TypeOK, Suspended, Holds
  <2> QED
    BY <2>1, <2>2, <2>3, <2>4 DEF IInv, TypeOK, Suspended, Holds
<1>3. OnePayoutOpen'
  BY NoneAssumption, Durations
     DEF IInv, TypeOK, Claim, Challenge, Payout, Statuses, Times, Reserve,
         MayReserve, Eligible, Confirmations, Goto, Open, OnePayoutOpen, Open,
         Suspended, Holds
<1>4. LedgerMatchesChain'
  BY NoneAssumption, Durations
     DEF IInv, TypeOK, Claim, Challenge, Payout, Statuses, Times, Reserve,
         MayReserve, Eligible, Confirmations, Goto, Open, LedgerMatchesChain,
         Suspended, Holds, Dated
<1>5. Dated'
  BY NoneAssumption, Durations
     DEF IInv, TypeOK, Claim, Challenge, Payout, Statuses, Times, Reserve,
         MayReserve, Eligible, Confirmations, Goto, Open, Dated, Holds,
         LedgerMatchesChain, Suspended
<1>6. Separated'
  BY NoneAssumption, Durations
     DEF IInv, TypeOK, Claim, Challenge, Payout, Statuses, Times, Reserve,
         MayReserve, Eligible, Confirmations, Goto, Open, Separated, Before, Holds,
         Dated, Suspended
<1> QED
  BY <1>1, <1>2, <1>3, <1>4, <1>5, <1>6 DEF IInv

LEMMA PrepareFailsKeeps ==
    ASSUME IInv, NEW r \in Requests, PrepareFails(r)
    PROVE  IInv'
<1>1. TypeOK'
  <2>1. asked[r] \in Ids /\ claims[asked[r]] \in Claim
    BY DEF IInv, TypeOK, Suspended, Holds, PrepareFails
  <2>2. [claims[asked[r]] EXCEPT !.status = "failed", !.slot = FALSE] \in Claim
    BY <2>1 DEF Claim, Statuses
  <2>3. claims' = [claims EXCEPT ![asked[r]] =
                      [claims[asked[r]] EXCEPT !.status = "failed", !.slot = FALSE]]
    BY <2>1 DEF IInv, TypeOK, PrepareFails
  <2>4. claims' \in [Ids -> Claim \cup {None}]
    BY <2>2, <2>3 DEF IInv, TypeOK
  <2> QED
    BY <2>4 DEF IInv, TypeOK, PrepareFails, Return, Goto
<1>2. Suspended'
  BY NoneAssumption, Durations
     DEF IInv, TypeOK, Claim, Challenge, Payout, Statuses, Times, PrepareFails,
         Return, Goto, Suspended, Holds, LedgerMatchesChain
<1>3. OnePayoutOpen'
  BY NoneAssumption, Durations
     DEF IInv, TypeOK, Claim, Challenge, Payout, Statuses, Times, PrepareFails,
         Return, Goto, OnePayoutOpen, Open, Suspended, Holds
<1>4. LedgerMatchesChain'
  BY NoneAssumption, Durations
     DEF IInv, TypeOK, Claim, Challenge, Payout, Statuses, Times, PrepareFails,
         Return, Goto, LedgerMatchesChain, Suspended, Holds, Dated
<1>5. Dated'
  BY NoneAssumption, Durations
     DEF IInv, TypeOK, Claim, Challenge, Payout, Statuses, Times, PrepareFails,
         Return, Goto, Dated, Holds, LedgerMatchesChain, Suspended
<1>6. Separated'
  <2>1. asked[r] \in Ids /\ claims[asked[r]] \in Claim
    BY DEF IInv, TypeOK, Suspended, Holds, PrepareFails
  <2>2. /\ claims'[asked[r]].status = "failed"
        /\ \A k \in Ids : k # asked[r] => claims'[k] = claims[k]
    BY <2>1 DEF IInv, TypeOK, PrepareFails, Claim
  <2> QED
    BY <2>2 DEF IInv, Separated, Before, Holds
<1> QED
  BY <1>1, <1>2, <1>3, <1>4, <1>5, <1>6 DEF IInv

LEMMA PreparedKeeps ==
    ASSUME IInv, NEW r \in Requests, Prepared(r)
    PROVE  IInv'
<1>1. TypeOK'
  <2>1. asked[r] \in Ids /\ claims[asked[r]] \in Claim
    BY DEF IInv, TypeOK, Suspended, Holds, Prepared
  <2>2. [claims[asked[r]] EXCEPT !.status = "pending"] \in Claim
    BY <2>1 DEF Claim, Statuses
  <2>3. claims' \in [Ids -> Claim \cup {None}]
    BY <2>1, <2>2 DEF IInv, TypeOK, Prepared
  <2> QED
    BY <2>3 DEF IInv, TypeOK, Prepared, Goto
<1>2. Suspended'
  <2>1. /\ asked[r] \in Ids /\ claims[asked[r]] \in Claim
        /\ Holds(asked[r], "signing") /\ chain[asked[r]].state = "unsent"
    BY DEF IInv, TypeOK, Suspended, Holds, LedgerMatchesChain, Prepared
  <2>2. /\ claims'[asked[r]] # None
        /\ claims'[asked[r]].status = "pending"
        /\ \A k \in Ids : k # asked[r] => claims'[k] = claims[k]
    <3>1. /\ claims'[asked[r]] = [claims[asked[r]] EXCEPT !.status = "pending"]
          /\ \A k \in Ids : k # asked[r] => claims'[k] = claims[k]
      BY <2>1 DEF IInv, TypeOK, Prepared
    <3>2. claims'[asked[r]] \in Claim /\ claims'[asked[r]].status = "pending"
      BY <2>1, <3>1 DEF Claim, Statuses
    <3> QED
      BY <3>1, <3>2, NoneAssumption
  <2>3. /\ pc'[r] = "broadcast" /\ rows'[r] = {}
        /\ \A q \in Requests : q # r => pc'[q] = pc[q] /\ rows'[q] = rows[q]
        /\ UNCHANGED <<asked, seen, chain>> /\ pc[r] = "prepare"
    BY DEF IInv, TypeOK, Prepared, Goto
  <2>4. \A q \in Requests : /\ pc[q] = "prepare" /\ q # r => asked[q] # asked[r]
                            /\ pc[q] = "broadcast" => asked[q] # asked[r]
                            /\ rows[q] \subseteq Ids
    BY <2>1, <2>3 DEF IInv, TypeOK, Suspended, Holds
  <2> QED
    BY <2>1, <2>2, <2>3, <2>4 DEF IInv, TypeOK, Suspended, Holds
<1>3. OnePayoutOpen'
  BY NoneAssumption, Durations
     DEF IInv, TypeOK, Claim, Challenge, Payout, Statuses, Times, Prepared, Goto,
         OnePayoutOpen, Open, Suspended, Holds
<1>4. LedgerMatchesChain'
  BY NoneAssumption, Durations
     DEF IInv, TypeOK, Claim, Challenge, Payout, Statuses, Times, Prepared, Goto,
         LedgerMatchesChain, Suspended, Holds, Dated
<1>5. Dated'
  BY NoneAssumption, Durations
     DEF IInv, TypeOK, Claim, Challenge, Payout, Statuses, Times, Prepared, Goto,
         Dated, Holds, LedgerMatchesChain, Suspended
<1>6. Separated'
  BY NoneAssumption, Durations
     DEF IInv, TypeOK, Claim, Challenge, Payout, Statuses, Times, Prepared, Goto,
         Separated, Before, Holds, Dated, Suspended
<1> QED
  BY <1>1, <1>2, <1>3, <1>4, <1>5, <1>6 DEF IInv

LEMMA BroadcastKeeps ==
    ASSUME IInv, NEW r \in Requests, Broadcast(r)
    PROVE  IInv'
<1>1. TypeOK'
  BY NoneAssumption, Durations
     DEF IInv, TypeOK, Claim, Challenge, Payout, Statuses, Times, Broadcast
<1>2. Suspended'
  BY NoneAssumption, Durations
     DEF IInv, TypeOK, Claim, Challenge, Payout, Statuses, Times, Broadcast,
         Suspended, Holds, LedgerMatchesChain
<1>3. OnePayoutOpen'
  BY NoneAssumption, Durations
     DEF IInv, TypeOK, Claim, Challenge, Payout, Statuses, Times, Broadcast,
         OnePayoutOpen, Open, Suspended, Holds
<1>4. LedgerMatchesChain'
  BY NoneAssumption, Durations
     DEF IInv, TypeOK, Claim, Challenge, Payout, Statuses, Times, Broadcast,
         LedgerMatchesChain, Suspended, Holds, Dated
<1>5. Dated'
  BY NoneAssumption, Durations
     DEF IInv, TypeOK, Claim, Challenge, Payout, Statuses, Times, Broadcast, Dated,
         Holds, LedgerMatchesChain, Suspended
<1>6. Separated'
  BY NoneAssumption, Durations
     DEF IInv, TypeOK, Claim, Challenge, Payout, Statuses, Times, Broadcast,
         Separated, Before, Holds, Dated, Suspended
<1> QED
  BY <1>1, <1>2, <1>3, <1>4, <1>5, <1>6 DEF IInv

LEMMA IncludeKeeps ==
    ASSUME IInv, NEW i \in Ids, Include(i)
    PROVE  IInv'
<1>1. TypeOK'
  BY NoneAssumption, Durations
     DEF IInv, TypeOK, Claim, Challenge, Payout, Statuses, Times, Include
<1>2. Suspended'
  BY NoneAssumption, Durations
     DEF IInv, TypeOK, Claim, Challenge, Payout, Statuses, Times, Include, Suspended,
         Holds, LedgerMatchesChain
<1>3. OnePayoutOpen'
  BY NoneAssumption, Durations
     DEF IInv, TypeOK, Claim, Challenge, Payout, Statuses, Times, Include,
         OnePayoutOpen, Open, Suspended, Holds
<1>4. LedgerMatchesChain'
  BY NoneAssumption, Durations
     DEF IInv, TypeOK, Claim, Challenge, Payout, Statuses, Times, Include,
         LedgerMatchesChain, Suspended, Holds, Dated
<1>5. Dated'
  BY NoneAssumption, Durations
     DEF IInv, TypeOK, Claim, Challenge, Payout, Statuses, Times, Include, Dated,
         Holds, LedgerMatchesChain, Suspended
<1>6. Separated'
  BY NoneAssumption, Durations
     DEF IInv, TypeOK, Claim, Challenge, Payout, Statuses, Times, Include, Separated,
         Before, Holds, Dated, Suspended
<1> QED
  BY <1>1, <1>2, <1>3, <1>4, <1>5, <1>6 DEF IInv

LEMMA TickKeeps ==
    ASSUME IInv, Tick
    PROVE  IInv'
<1>1. TypeOK'
  BY NoneAssumption, Durations
     DEF IInv, TypeOK, Claim, Challenge, Payout, Statuses, Times, Tick
<1>2. Suspended'
  BY NoneAssumption, Durations
     DEF IInv, TypeOK, Claim, Challenge, Payout, Statuses, Times, Tick, Suspended,
         Holds, LedgerMatchesChain
<1>3. OnePayoutOpen'
  BY NoneAssumption, Durations
     DEF IInv, TypeOK, Claim, Challenge, Payout, Statuses, Times, Tick,
         OnePayoutOpen, Open, Suspended, Holds
<1>4. LedgerMatchesChain'
  BY NoneAssumption, Durations
     DEF IInv, TypeOK, Claim, Challenge, Payout, Statuses, Times, Tick,
         LedgerMatchesChain, Suspended, Holds, Dated
<1>5. Dated'
  BY NoneAssumption, Durations
     DEF IInv, TypeOK, Claim, Challenge, Payout, Statuses, Times, Tick, Dated, Holds,
         LedgerMatchesChain, Suspended
<1>6. Separated'
  BY NoneAssumption, Durations
     DEF IInv, TypeOK, Claim, Challenge, Payout, Statuses, Times, Tick, Separated,
         Before, Holds, Dated, Suspended
<1> QED
  BY <1>1, <1>2, <1>3, <1>4, <1>5, <1>6 DEF IInv

LEMMA StutterKeeps ==
    ASSUME IInv, UNCHANGED vars
    PROVE  IInv'
  BY DEF IInv, vars, TypeOK, Suspended, Holds, OnePayoutOpen, Open, LedgerMatchesChain,
         Dated, Separated, Before

LEMMA NextIInv == IInv /\ [Next]_vars => IInv'
<1> SUFFICES ASSUME IInv, [Next]_vars PROVE IInv'
  OBVIOUS
<1>1. CASE \E a \in Addresses, id \in Ids : IssueChallenge(a, id)
  BY <1>1, IssueChallengeKeeps
<1>2. CASE \E r \in Requests, id \in Ids : StartClaim(r, id)
  BY <1>2, StartClaimKeeps
<1>3. CASE \E r \in Requests : StartStatus(r)
  BY <1>3, StartStatusKeeps
<1>4. CASE \E r \in Requests : Step(r)
  <2>1. PICK r \in Requests : Step(r)
    BY <1>4
  <2>2. CASE RefuseClaim(r) \/ AdmitClaim(r)
    BY <2>2, RefuseClaimKeeps, AdmitClaimKeeps
  <2>3. CASE Lookup(r)
    BY <2>3, LookupFoundKeeps, LookupUnknownKeeps DEF Lookup
  <2>4. CASE Reserve(r) \/ ReserveFails(r)
    BY <2>4, ReserveKeeps, ReserveFailsKeeps
  <2>5. CASE PrepareFails(r) \/ PrepareInvalid(r) \/ Prepared(r)
    BY <2>5, PrepareFailsKeeps, PrepareInvalidKeeps, PreparedKeeps
  <2>6. CASE Broadcast(r) \/ BroadcastAnswer(r) \/ Finish(r)
    BY <2>6, BroadcastKeeps, BroadcastAnswerKeeps, FinishKeeps
  <2> QED
    BY <2>1, <2>2, <2>3, <2>4, <2>5, <2>6 DEF Step
<1>5. CASE \E i \in Ids : Include(i)
  BY <1>5, IncludeKeeps
<1>6. CASE Crash
  BY <1>6, CrashKeeps
<1>7. CASE Tick
  BY <1>7, TickKeeps
<1>8. CASE UNCHANGED vars
  BY <1>8, StutterKeeps
<1> QED
  BY <1>1, <1>2, <1>3, <1>4, <1>5, <1>6, <1>7, <1>8 DEF Next

THEOREM Inductive == Spec => []IInv
  BY InitIInv, NextIInv, PTL DEF Spec

-----------------------------------------------------------------------------
(* Every row the handlers write has its declared form, whatever crashes.   *)
THEOREM TypeCorrect == Spec => []TypeOK
  BY Inductive, PTL DEF IInv

(* At most one payout is open, for any number of concurrent requests: the  *)
(* slot and the status of a row never come apart.                          *)
THEOREM OneOpenPayout == Spec => []OnePayoutOpen
  BY Inductive, PTL DEF IInv

(* A failed claim is never paid and a confirmed one always was, for every  *)
(* order of lost answers, late inclusions and crashes.                     *)
THEOREM LedgerFaithful == Spec => []LedgerMatchesChain
  BY Inductive, PTL DEF IInv

(* One wallet is paid at most once per DAY: of two paid claims one was     *)
(* confirmed a DAY before the other was even reserved (Separated), and     *)
(* both the chain and the ledger date it within that order.                *)
THEOREM OncePerDay == Spec => []PaidOncePerDay
<1>1. IInv => PaidOncePerDay
  <2> SUFFICES ASSUME IInv, NEW i \in Ids, NEW j \in Ids, i # j,
                      chain[i].state = "paid", chain[j].state = "paid",
                      claims[i].address = claims[j].address
               PROVE  \/ chain[i].at >= chain[j].at + DAY
                      \/ chain[j].at >= chain[i].at + DAY
    BY DEF PaidOncePerDay
  <2>1. /\ claims[i] # None /\ claims[i].status # "failed"
        /\ claims[j] # None /\ claims[j].status # "failed"
    BY DEF IInv, LedgerMatchesChain
  <2>2. Before(i, j) \/ Before(j, i)
    BY <2>1 DEF IInv, Separated
  <2>3. /\ claims[i] \in Claim /\ claims[j] \in Claim
        /\ chain[i] \in Payout /\ chain[j] \in Payout
    BY <2>1 DEF IInv, TypeOK
  <2>4. /\ claims[i].created <= chain[i].at
        /\ claims[j].created <= chain[j].at
    BY <2>1 DEF IInv, Dated
  <2>5. /\ Holds(i, "confirmed") =>
             /\ claims[i].confirmed \in Times
             /\ chain[i].at <= claims[i].confirmed
        /\ Holds(j, "confirmed") =>
             /\ claims[j].confirmed \in Times
             /\ chain[j].at <= claims[j].confirmed
    BY DEF IInv, Dated, LedgerMatchesChain, Holds
  <2> QED
    BY <2>2, <2>3, <2>4, <2>5, Durations DEF Before, Claim, Payout, Times
<1> QED
  BY <1>1, Inductive, PTL

-----------------------------------------------------------------------------
(* No step but the reserving transaction adds a row or redates one. *)
LEMMA OnlyReserveCreates ==
    ASSUME IInv, [Next]_vars, ~\E r \in Requests : Reserve(r), NEW i \in Ids, claims'[i] # None
    PROVE  claims[i] # None /\ claims'[i].created = claims[i].created
<1>1. CASE UNCHANGED claims
  BY <1>1
<1>2. ASSUME NEW r \in Requests, NEW k \in Ids, LookupFound(r, k)
      PROVE  claims[i] # None /\ claims'[i].created = claims[i].created
  <2>1. claims[k] \in Claim /\ claims[k] # None
    BY <1>2 DEF IInv, TypeOK, Suspended, LookupFound
  <2>2. Settled(k).created = claims[k].created
    BY <2>1 DEF Settled, Claim
  <2> QED
    BY <1>2, <2>1, <2>2 DEF IInv, TypeOK, LookupFound
<1>3. ASSUME NEW r \in Requests, PrepareFails(r) \/ Prepared(r)
      PROVE  claims[i] # None /\ claims'[i].created = claims[i].created
  <2>1. asked[r] \in Ids /\ claims[asked[r]] \in Claim /\ claims[asked[r]] # None
    BY <1>3 DEF IInv, TypeOK, Suspended, Holds, PrepareFails, Prepared
  <2> QED
    BY <1>3, <2>1 DEF IInv, TypeOK, PrepareFails, Prepared, Claim
<1>4. \/ UNCHANGED claims
      \/ \E r \in Requests, k \in Ids : LookupFound(r, k)
      \/ \E r \in Requests : PrepareFails(r) \/ Prepared(r)
  BY DEF Next, vars, Step, Lookup, IssueChallenge, StartClaim, StartStatus, RefuseClaim,
         AdmitClaim, LookupUnknown, ReserveFails, PrepareInvalid, Broadcast,
         BroadcastAnswer, Finish, Include, Crash, Tick
<1> QED
  BY <1>1, <1>2, <1>3, <1>4

LEMMA ClockSteps == IInv /\ [Next]_vars => now' \in {now, now + 1}
  BY DEF Next, vars, Step, Lookup, IssueChallenge, StartClaim, StartStatus, RefuseClaim,
         AdmitClaim, LookupFound, LookupUnknown, Reserve, ReserveFails, PrepareFails,
         PrepareInvalid, Prepared, Broadcast, BroadcastAnswer, Finish, Include, Crash, Tick

LEMMA WindowKept ==
    ASSUME IInv, [Next]_vars, WithinPayoutLimit, NEW w \in Windows
    PROVE  Cardinality(CreatedInWindow(w)') <= PayoutLimit[w]
<1> DEFINE window == CreatedInWindow(w)
           after  == CreatedInWindow(w)'
<1>1. IsFiniteSet(window) /\ Cardinality(window) \in Nat
  <2>1. window \subseteq Ids
    BY DEF CreatedInWindow
  <2> QED
    BY <2>1, FaucetAssumption, FS_Subset, FS_CardinalityType
<1>2. PayoutLimit[w] \in Nat
  BY FaucetAssumption
<1>3. CASE \E r \in Requests : Reserve(r)
  <2>1. PICK r \in Requests : Reserve(r)
    BY <1>3
  <2>2. /\ PayoutAllowed
        /\ asked[r] \in Ids
        /\ now' = now
        /\ \A k \in Ids : k # asked[r] => claims'[k] = claims[k]
    BY <2>1 DEF IInv, TypeOK, Suspended, Reserve, MayReserve
  <2>3. after \subseteq window \cup {asked[r]}
    BY <2>2 DEF CreatedInWindow
  <2>4. Cardinality(window) < PayoutLimit[w]
    BY <2>2 DEF PayoutAllowed
  <2> HIDE DEF after, window
  <2>5. /\ IsFiniteSet(window \cup {asked[r]})
        /\ Cardinality(window \cup {asked[r]}) <= Cardinality(window) + 1
    BY <1>1, FS_AddElement
  <2>6. Cardinality(after) \in Nat /\ Cardinality(after) <= Cardinality(window) + 1
    BY <1>1, <2>3, <2>5, FS_Subset, FS_CardinalityType
  <2>7. Cardinality(after) <= PayoutLimit[w]
    BY <1>1, <1>2, <2>4, <2>6
  <2> QED
    BY <2>7 DEF after
<1>4. CASE ~\E r \in Requests : Reserve(r)
  <2>1. after \subseteq window
    <3>1. /\ now \in Times /\ now' \in Times /\ now <= now'
          /\ WindowStart[w][now] \in Nat /\ WindowStart[w][now'] \in Nat
      <4>1. now \in Times /\ now' \in Times
        BY NextIInv DEF IInv, TypeOK
      <4>2. WindowStart[w][now] \in Times /\ WindowStart[w][now'] \in Times
        BY <4>1, FaucetAssumption
      <4> QED
        BY <4>1, <4>2, ClockSteps DEF Times
    <3>2. WindowStart[w][now] <= WindowStart[w][now']
      BY <3>1, FaucetAssumption
    <3>3. ASSUME NEW i \in Ids, claims'[i] # None, claims'[i].created >= WindowStart[w][now']
          PROVE  claims[i] # None /\ claims[i].created >= WindowStart[w][now]
      <4>1. claims[i] # None /\ claims'[i].created = claims[i].created
        BY <1>4, <3>3, OnlyReserveCreates
      <4>2. claims[i].created \in Nat
        BY <4>1 DEF IInv, TypeOK, Claim, Times
      <4> QED
        BY <3>1, <3>2, <3>3, <4>1, <4>2
    <3> QED
      BY <3>3 DEF CreatedInWindow
  <2>2. Cardinality(window) <= PayoutLimit[w]
    BY DEF WithinPayoutLimit
  <2> HIDE DEF after, window
  <2>3. Cardinality(after) \in Nat /\ Cardinality(after) <= Cardinality(window)
    BY <1>1, <2>1, FS_Subset, FS_CardinalityType
  <2>4. Cardinality(after) <= PayoutLimit[w]
    BY <1>1, <1>2, <2>2, <2>3
  <2> QED
    BY <2>4 DEF after
<1> QED
  BY <1>3, <1>4

(* The payout limit holds in every window although challenge and claim     *)
(* check it at different times: only the reserving transaction adds a row, *)
(* it checks the limit in the same transaction, and a period only loses    *)
(* rows when the clock moves on.                                           *)
THEOREM PayoutsLimited == Spec => []WithinPayoutLimit
<1>1. Init => WithinPayoutLimit
  <2>1. Init => \A w \in Windows : CreatedInWindow(w) = {}
    BY DEF Init, CreatedInWindow
  <2>2. \A w \in Windows : PayoutLimit[w] \in Nat
    BY FaucetAssumption
  <2>3. Cardinality({}) = 0
    BY FS_EmptySet
  <2> QED
    BY <2>1, <2>2, <2>3 DEF WithinPayoutLimit
<1>2. IInv /\ [Next]_vars /\ WithinPayoutLimit => WithinPayoutLimit'
  BY WindowKept DEF WithinPayoutLimit
<1> QED
  BY <1>1, <1>2, Inductive, PTL DEF Spec

-----------------------------------------------------------------------------
(* The cached status, which another part of the same process keeps. *)

(* The balance of a refresh reflects every quiet claim, because such claims *)
(* return while no refresh is in flight; so does the cache while it is      *)
(* used, because a claim that returns invalidates it.                       *)
Reflecting ==
    /\ quiet <= paid
    /\ refresh.phase = "read" => refresh.seen >= quiet
    /\ nextRefresh > 0 => snapshotError = TRUE \/ snapshot >= quiet
    /\ \A r \in Readers : due[r] <= quiet

StatusInv == StatusTypeOK /\ Reflecting /\ FreshAfterQuietClaim

LEMMA StatusTypes == StatusTypeOK /\ [StatusNext]_statusVars => StatusTypeOK'
<1> USE StatusAssumption DEF Counts, Answers
<1> SUFFICES ASSUME StatusTypeOK, [StatusNext]_statusVars PROVE StatusTypeOK'
  OBVIOUS
<1>1. ASSUME NEW r \in Readers, Join(r) \/ StartRefresh(r) PROVE StatusTypeOK'
  BY <1>1 DEF StatusTypeOK, Join, StartRefresh, Begin, At, Idle, payouts, cache
<1>2. ASSUME NEW r \in Readers, ReadCached(r) PROVE StatusTypeOK'
  BY <1>2 DEF StatusTypeOK, ReadCached, Begin, payouts, cache
<1>3. CASE Reconciled
  BY <1>3 DEF StatusTypeOK, Reconciled, At, payouts, readers
<1>4. CASE NodeReads
  <2>1. refresh' \in [phase : {"read"}, seen : Counts]
    BY <1>4 DEF StatusTypeOK, NodeReads
  <2> QED BY <1>4, <2>1 DEF StatusTypeOK, NodeReads, payouts, readers
<1>5. CASE RefreshSucceeds
  <2>1. refresh.seen \in Counts
    BY <1>5 DEF StatusTypeOK, RefreshSucceeds
  <2>2. snapshotError' \in BOOLEAN /\ claiming' \in BOOLEAN
    BY <1>5 DEF StatusTypeOK, RefreshSucceeds, EndRefresh, payouts
  <2>3. /\ snapshot' \in Counts /\ snapshot' # Unknown
        /\ nextRefresh' \in Nat
        /\ answer' \in [Readers -> Answers]
    BY <1>5, <2>1 DEF StatusTypeOK, RefreshSucceeds, EndRefresh
  <2> QED BY <1>5, <2>2, <2>3 DEF StatusTypeOK, RefreshSucceeds, EndRefresh, Idle, payouts
<1>6. CASE RefreshFails
  <2>1. /\ snapshotError' = TRUE /\ snapshot' = snapshot
        /\ nextRefresh' \in Nat
        /\ refresh' = Idle /\ waiting' = {}
        /\ answer' \in [Readers -> Answers]
    BY <1>6 DEF StatusTypeOK, RefreshFails, EndRefresh
  <2> QED BY <1>6, <2>1 DEF StatusTypeOK, RefreshFails, EndRefresh, Idle, payouts
<1>7. CASE BeginClaim
  BY <1>7 DEF StatusTypeOK, BeginClaim, cache, readers
<1>8. CASE Pay
  BY <1>8 DEF StatusTypeOK, Pay, cache, readers
<1>9. CASE ClaimReturns
  <2>1. claiming' \in BOOLEAN
    BY <1>9 DEF ClaimReturns
  <2> QED BY <1>9, <2>1 DEF StatusTypeOK, ClaimReturns, readers
<1>10. CASE ClaimThrows
  BY <1>10 DEF StatusTypeOK, ClaimThrows, cache, readers
<1>11. CASE ClockTicks
  BY <1>11 DEF StatusTypeOK, ClockTicks, payouts, cache, readers
<1>12. CASE UNCHANGED statusVars
  BY <1>12 DEF StatusTypeOK, statusVars, payouts, cache, readers
<1> QED
  BY <1>1, <1>2, <1>3, <1>4, <1>5, <1>6, <1>7, <1>8, <1>9, <1>10, <1>11, <1>12
  DEF StatusNext, RefreshStep

LEMMA InitStatusInv == StatusInit => StatusInv
<1> USE StatusAssumption DEF Counts, Answers
<1> SUFFICES ASSUME StatusInit PROVE StatusInv
  OBVIOUS
<1>1. claiming \in BOOLEAN /\ snapshotError \in BOOLEAN
  BY DEF StatusInit
<1>2. StatusTypeOK
  BY <1>1 DEF StatusInit, StatusTypeOK, Idle
<1>3. Reflecting /\ FreshAfterQuietClaim
  BY DEF StatusInit, Reflecting, FreshAfterQuietClaim, Reflects, Idle
<1> QED BY <1>2, <1>3 DEF StatusInv

LEMMA NextStatusInv == StatusInv /\ [StatusNext]_statusVars => StatusInv'
<1> USE StatusAssumption DEF Counts, Answers, Reflects
<1> SUFFICES ASSUME StatusInv, [StatusNext]_statusVars PROVE StatusInv'
  OBVIOUS
<1>1. StatusTypeOK /\ StatusTypeOK'
  BY StatusTypes DEF StatusInv
<1>2. Reflecting /\ FreshAfterQuietClaim
  BY DEF StatusInv
<1> DEFINE Typed ==
      /\ quiet \in Counts /\ paid \in Counts /\ nextRefresh \in Nat
      /\ waiting \subseteq Readers
      /\ answer \in [Readers -> Answers]
      /\ due \in [Readers -> Counts] /\ clock \in Nat
<1>t. Typed /\ Typed'
  BY <1>1 DEF StatusTypeOK
<1> SUFFICES Reflecting' /\ FreshAfterQuietClaim'
  BY <1>1 DEF StatusInv
<1>3. ASSUME NEW r \in Readers, Join(r) \/ StartRefresh(r)
      PROVE Reflecting' /\ FreshAfterQuietClaim'
  <2>1. /\ quiet' = quiet /\ paid' = paid /\ answer' = answer
        /\ due' = [due EXCEPT ![r] = quiet] /\ waiting' = waiting \cup {r}
        /\ snapshot' = snapshot /\ snapshotError' = snapshotError /\ nextRefresh' = nextRefresh
        /\ refresh'.phase = "read" => refresh' = refresh
    BY <1>3 DEF Join, StartRefresh, Begin, payouts, cache, At
  <2> QED BY <1>t, <1>2, <2>1 DEF Typed, Reflecting, FreshAfterQuietClaim
<1>4. ASSUME NEW r \in Readers, ReadCached(r)
      PROVE Reflecting' /\ FreshAfterQuietClaim'
  <2>0. nextRefresh > 0
    BY <1>t, <1>4 DEF Typed, ReadCached
  <2>1. snapshotError = TRUE \/ snapshot >= quiet
    BY <1>2, <2>0 DEF Reflecting
  <2>2. /\ quiet' = quiet /\ paid' = paid /\ waiting' = waiting
        /\ due' = [due EXCEPT ![r] = quiet]
        /\ UNCHANGED cache
    BY <1>4 DEF ReadCached, Begin, payouts
  <2>3. PICK a : /\ answer' = [answer EXCEPT ![r] = a]
                 /\ a = Failure \/ a >= quiet
    BY <1>4, <2>1 DEF ReadCached
  <2> QED BY <1>t, <1>2, <2>2, <2>3 DEF Typed, Reflecting, FreshAfterQuietClaim, cache
<1>5. CASE Reconciled \/ NodeReads
  <2>1. UNCHANGED <<quiet, paid, due, waiting, answer, snapshot, snapshotError, nextRefresh>>
    BY <1>5 DEF Reconciled, NodeReads, payouts, readers
  <2>2. refresh'.phase = "read" => refresh'.seen = paid
    BY <1>5 DEF Reconciled, NodeReads, At
  <2> QED BY <1>t, <1>2, <2>1, <2>2 DEF Typed, Reflecting, FreshAfterQuietClaim
<1>6. CASE RefreshSucceeds
  <2>1. refresh.seen \in Counts /\ refresh.seen >= quiet
    BY <1>1, <1>2, <1>6 DEF StatusTypeOK, Reflecting, RefreshSucceeds
  <2>2. /\ UNCHANGED <<quiet, paid, due>>
        /\ snapshot' = refresh.seen /\ refresh'.phase = "none" /\ waiting' = {}
        /\ answer' = [r \in Readers |-> IF r \in waiting THEN refresh.seen ELSE answer[r]]
    BY <1>6 DEF RefreshSucceeds, EndRefresh, Idle, payouts
  <2> QED BY <1>t, <1>2, <2>1, <2>2 DEF Typed, Reflecting, FreshAfterQuietClaim
<1>7. CASE RefreshFails
  <2>1. /\ UNCHANGED <<quiet, paid, due>>
        /\ snapshotError' = TRUE /\ refresh'.phase = "none" /\ waiting' = {}
        /\ answer' = [r \in Readers |-> IF r \in waiting THEN Failure ELSE answer[r]]
    BY <1>7 DEF RefreshFails, EndRefresh, Idle, payouts
  <2> QED BY <1>t, <1>2, <2>1 DEF Typed, Reflecting, FreshAfterQuietClaim
<1>8. CASE BeginClaim \/ Pay \/ ClaimThrows \/ ClockTicks \/ UNCHANGED statusVars
  <2>1. /\ UNCHANGED <<quiet, due, waiting, answer, refresh, snapshot, snapshotError, nextRefresh>>
        /\ paid' \in {paid, paid + 1}
    BY <1>8 DEF BeginClaim, Pay, ClaimThrows, ClockTicks, statusVars, payouts, cache, readers
  <2> QED BY <1>t, <1>2, <2>1 DEF Typed, Reflecting, FreshAfterQuietClaim
<1>9. CASE ClaimReturns
  <2>1. /\ UNCHANGED <<due, waiting, answer, refresh, paid>>
        /\ nextRefresh' = 0
        /\ quiet' = IF refresh.phase = "none" THEN paid ELSE quiet
    BY <1>1, <1>9 DEF StatusTypeOK, ClaimReturns, readers, Idle
  <2> QED BY <1>t, <1>2, <2>1 DEF Typed, Reflecting, FreshAfterQuietClaim
<1> QED
  BY <1>3, <1>4, <1>5, <1>6, <1>7, <1>8, <1>9 DEF StatusNext, RefreshStep

(* The cache, the refresh in flight and the answers have the types that    *)
(* chainStatus gives them; a cache that is used and no error holds a       *)
(* balance.                                                                *)
THEOREM StatusTypeCorrect == StatusSpec => []StatusTypeOK
<1>1. StatusInv => StatusTypeOK
  BY DEF StatusInv
<1> QED BY InitStatusInv, NextStatusInv, <1>1, PTL DEF StatusSpec

(* Whatever readers, claims, refreshes and failures do, a status request   *)
(* that began after a claim returned and met no refresh reports a balance  *)
(* that reflects it.                                                       *)
THEOREM QuietClaimsReflected == StatusSpec => []FreshAfterQuietClaim
<1>1. StatusInv => FreshAfterQuietClaim
  BY DEF StatusInv
<1> QED BY InitStatusInv, NextStatusInv, <1>1, PTL DEF StatusSpec
=============================================================================
