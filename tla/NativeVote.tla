----------------------------- MODULE NativeVote -----------------------------
(***************************************************************************)
(* Signing transactions in the browser: the journal every signing bundle   *)
(* shares per account (faucet/src/broadcast-journal.mjs), the reviewed     *)
(* signatures of Juno governance (juno-governance-signing.mjs), resending  *)
(* a saved vote or replacing it with more gas (native-vote-resume.mjs) and *)
(* the vote page that drives them (native-voting-ui.mjs,                   *)
(* native-vote-receipts.mjs), for one account and one proposal in several  *)
(* tabs.                                                                   *)
(*                                                                         *)
(* The journal and the receipt are entries of localStorage: all tabs share *)
(* them and they survive a crash.  The lock is a Web Lock, which a closed  *)
(* page releases.  A tab runs to its next await in one action.  Reviews,   *)
(* wallet checks and deadlines are abstracted to refusals that may happen  *)
(* wherever the code makes them.                                           *)
(***************************************************************************)
EXTENDS Integers, FiniteSets

CONSTANTS
    Tabs,
    None,
    MaxTxs,        \* bound on the transactions signed
    MaxSequence,   \* bound on the account's sequence
    AnteFailures   \* blocks may hold transactions that fail in the ante
                   \* handler, which uses no sequence

ASSUME VoteAssumption ==
    MaxTxs \in Nat /\ MaxSequence \in Nat /\ AnteFailures \in BOOLEAN

Txs   == 1..MaxTxs
Fates == {"signed", "sent", "ok", "failed", "void"}
(* prev is the attempt that a transaction replaces, root the first attempt *)
(* of the same vote.                                                       *)
Tx    == [kind : {"vote", "other"}, seq : Nat, prev : Txs \cup {0}, root : Txs, fate : Fates]

Journal == [status : {"none", "signing"}, tx : {0}] \cup [status : {"pending"}, tx : Txs]
Receipt == [state : {"broadcast", "included", "failed"}, tx : Txs,
            previous : SUBSET Txs, gas : BOOLEAN]

ASSUME VoteNoneAssumption == None \notin Tx \cup Receipt \cup Tabs

VARIABLES
    journal,  \* neta-pending-tx-v1: the account's unfinished transaction
    lock,     \* the tab that holds the account's Web Lock
    receipt,  \* cosmoot:juno:vote: what the page knows of the vote
    txs,      \* the signed transactions and their fate on the chain
    sequence, \* the account's sequence on the chain
    pc,       \* where each tab is suspended
    task,     \* what each tab is doing
    mine,     \* the transaction each tab handles
    base,     \* the receipt each tab read when it started
    raced     \* history: since the last intent to sign, a receipt was written
              \* without the lock while a vote was being replaced

vars == <<journal, lock, receipt, txs, sequence, pc, task, mine, base, raced>>
tabs == <<pc, task, mine, base, lock>>

TypeOK ==
    /\ journal \in Journal
    /\ lock \in Tabs \cup {None}
    /\ receipt \in Receipt \cup {None}
    /\ txs \in [Txs -> Tx \cup {None}]
    /\ sequence \in Nat
    /\ pc \in [Tabs -> {"idle", "lock", "reconcile", "sign", "record", "send", "confirm", "check",
                        "review", "inspect", "saved", "again", "account", "resign", "rerecord",
                        "ready"}]
    /\ task \in [Tabs -> {"none", "vote", "other", "resume", "replace", "check"}]
    /\ mine \in [Tabs -> Txs \cup {0}]
    /\ base \in [Tabs -> Receipt \cup {None}]
    /\ raced \in BOOLEAN

-----------------------------------------------------------------------------
NoJournal  == [status |-> "none", tx |-> 0]
Pending(k) == [status |-> "pending", tx |-> k]

(* The chain has the transaction in a block: it has a receipt. *)
Included(k) == txs[k] # None /\ txs[k].fate \in {"ok", "failed", "void"}

(* The transaction may still be executed. *)
Live(k) ==
    txs[k] # None /\ txs[k].fate \in {"signed", "sent"} /\ txs[k].seq >= sequence

(* The state of a settled receipt (submissionReceipt). *)
StateOf(k) == IF txs[k].fate = "ok" THEN "included" ELSE "failed"

(* Adds a signed transaction under the next id. *)
SignedAs(k, kind, seq, prev) ==
    /\ txs[k] = None
    /\ \A l \in Txs : l < k => txs[l] # None
    /\ txs' = [txs EXCEPT ![k] =
           [kind |-> kind, seq |-> seq, prev |-> prev,
            root |-> IF prev = 0 THEN k ELSE txs[prev].root, fate |-> "signed"]]

(* replacementReceipt: the record r after its transaction was replaced. *)
Replaced(r, k) ==
    [r EXCEPT !.tx = k, !.previous = @ \cup {r.tx}, !.gas = FALSE]

(* receipt() repairs a record whose replacement was journalled only. *)
NeedsRepair ==
    /\ receipt # None
    /\ receipt.state = "broadcast"
    /\ journal.status = "pending"
    /\ txs[journal.tx].prev = receipt.tx

Broadcast == receipt # None /\ receipt.state = "broadcast"

(* A replacement is in the journal, or will be when its tab has compared   *)
(* sequence and journal once more.                                         *)
Replacing ==
    \/ journal.status = "pending" /\ txs[journal.tx].prev # 0
    \/ \E t \in Tabs : pc[t] \in {"account", "resign"}

Go(t, label) == pc' = [pc EXCEPT ![t] = label]

(* The tab t begins a task. *)
Begin(t, what, label, k, r) ==
    /\ Go(t, label)
    /\ task' = [task EXCEPT ![t] = what]
    /\ mine' = [mine EXCEPT ![t] = k]
    /\ base' = [base EXCEPT ![t] = r]

Release(t) == lock' = IF lock = t THEN None ELSE lock

(* The tab t ends its task; the lock goes with it. *)
End(t) ==
    /\ Go(t, "idle")
    /\ task' = [task EXCEPT ![t] = "none"]
    /\ mine' = [mine EXCEPT ![t] = 0]
    /\ base' = [base EXCEPT ![t] = None]
    /\ Release(t)

Init ==
    /\ journal = NoJournal
    /\ lock = None
    /\ receipt = None
    /\ txs = [k \in Txs |-> None]
    /\ sequence = 0
    /\ pc = [t \in Tabs |-> "idle"]
    /\ task = [t \in Tabs |-> "none"]
    /\ mine = [t \in Tabs |-> 0]
    /\ base = [t \in Tabs |-> None]
    /\ raced = FALSE

-----------------------------------------------------------------------------
(* run: what a click starts depends on the receipt it reads. *)
StartVote(t) ==
    /\ pc[t] = "idle"
    /\ ~Broadcast
    /\ Begin(t, "vote", "lock", 0, None)
    /\ UNCHANGED <<journal, lock, receipt, txs, sequence, raced>>

(* Any other signing bundle of the account: a transfer, a swap, a name. *)
StartOther(t) ==
    /\ pc[t] = "idle"
    /\ Begin(t, "other", "lock", 0, None)
    /\ UNCHANGED <<journal, lock, receipt, txs, sequence, raced>>

(* run(true): a vote the chain refused for its gas is replaced, any other  *)
(* saved vote is sent again.                                               *)
StartResume(t) ==
    /\ pc[t] = "idle"
    /\ Broadcast /\ ~NeedsRepair
    /\ Begin(t, IF receipt.gas THEN "replace" ELSE "resume", "lock", receipt.tx, receipt)
    /\ UNCHANGED <<journal, lock, receipt, txs, sequence, raced>>

(* run(false) with a vote in flight: its status is checked. *)
StartCheck(t) ==
    /\ pc[t] = "idle"
    /\ Broadcast /\ ~NeedsRepair
    /\ Begin(t, "check", "check", 0, receipt)
    /\ UNCHANGED <<journal, lock, receipt, txs, sequence, raced>>

(* receipt() runs whenever a page renders. *)
Repair ==
    /\ NeedsRepair
    /\ receipt' = Replaced(receipt, journal.tx)
    /\ UNCHANGED <<journal, txs, sequence, tabs, raced>>

-----------------------------------------------------------------------------
(* locks.request with ifAvailable. *)
Lock(t) ==
    /\ pc[t] = "lock"
    /\ lock = None
    /\ lock' = t
    /\ Go(t, CASE task[t] \in {"vote", "other"} -> "reconcile"
               [] task[t] = "replace"           -> "review"
               [] OTHER                         -> "inspect")
    /\ UNCHANGED <<journal, receipt, txs, sequence, task, mine, base, raced>>

LockTaken(t) ==
    /\ pc[t] = "lock"
    /\ lock # None
    /\ End(t)
    /\ UNCHANGED <<journal, receipt, txs, sequence, raced>>

(* Faulty reconcile: a transaction that is not found was rejected. *)
ReconcileMissClears(t) ==
    /\ pc[t] = "reconcile"
    /\ journal.status # "none"
    /\ journal' = IF journal.status = "pending" THEN NoJournal ELSE journal
    /\ End(t)
    /\ UNCHANGED <<receipt, txs, sequence, raced>>

(* reconcile finds a record.  Only a receipt of a pending transaction      *)
(* clears it; in any case this attempt ends here.                          *)
ReconcileStops(t) ==
    /\ pc[t] = "reconcile"
    /\ journal.status # "none"
    /\ \/ journal' = journal
       \/ journal.status = "pending" /\ Included(journal.tx) /\ journal' = NoJournal
    /\ End(t)
    /\ UNCHANGED <<receipt, txs, sequence, raced>>

(* Faulty intent: saved as pending before there is a hash. *)
SaveSigningPending(t) ==
    /\ pc[t] = "reconcile"
    /\ journal.status = "none"
    /\ journal' = Pending(0)
    /\ Go(t, "sign")
    /\ UNCHANGED <<lock, receipt, txs, sequence, task, mine, base, raced>>

(* Nothing is unfinished: the intent to sign is saved. *)
SaveSigning(t) ==
    /\ pc[t] = "reconcile"
    /\ journal.status = "none"
    /\ journal' = [status |-> "signing", tx |-> 0]
    /\ Go(t, "sign")
    /\ raced' = FALSE
    /\ UNCHANGED <<lock, receipt, txs, sequence, task, mine, base>>

(* sign throws before anything was broadcast: a guard, the wallet, or the  *)
(* comparison of what was signed with what was reviewed.                   *)
SignRefused(t) ==
    /\ pc[t] = "sign"
    /\ journal' = NoJournal
    /\ End(t)
    /\ UNCHANGED <<receipt, txs, sequence, raced>>

(* An unexpected signature: the record stays, and the account locked. *)
SignUnusable(t) ==
    /\ pc[t] = "sign"
    /\ End(t)
    /\ UNCHANGED <<journal, receipt, txs, sequence, raced>>

(* The signed bytes are saved before they are sent. *)
Signed(t) ==
    /\ pc[t] = "sign"
    /\ \E k \in Txs :
        /\ SignedAs(k, task[t], sequence, 0)
        /\ journal' = Pending(k)
        /\ mine' = [mine EXCEPT ![t] = k]
    /\ Go(t, IF task[t] = "vote" THEN "record" ELSE "send")
    /\ UNCHANGED <<lock, receipt, sequence, task, base, raced>>

(* beforeBroadcast of a vote: the guard refuses it, ... *)
VoteRefused(t) ==
    /\ pc[t] = "record"
    /\ End(t)
    /\ UNCHANGED <<journal, receipt, txs, sequence, raced>>

(* ... or the page's record of it is saved. *)
RecordVote(t) ==
    /\ pc[t] = "record"
    /\ receipt' = [state |-> "broadcast", tx |-> mine[t], previous |-> {}, gas |-> FALSE]
    /\ Go(t, "send")
    /\ UNCHANGED <<journal, lock, txs, sequence, task, mine, base, raced>>

(* broadcastTx: the bytes reach the network, whatever is answered. *)
Send(t) ==
    /\ pc[t] = "send"
    /\ txs[mine[t]].fate = "signed"
    /\ txs' = [txs EXCEPT ![mine[t]].fate = "sent"]
    /\ UNCHANGED <<journal, receipt, sequence, tabs, raced>>

(* Faulty answer: a vote without an answer is recorded as failed. *)
SendUnknownFails(t) ==
    /\ pc[t] = "send"
    /\ receipt' = IF task[t] # "other" /\ Broadcast
                  THEN [receipt EXCEPT !.state = "failed"] ELSE receipt
    /\ End(t)
    /\ UNCHANGED <<journal, txs, sequence, raced>>

(* The answer is an error or cannot be verified: the outcome is unknown.   *)
(* The page keeps the reason, which may be that the gas was too low.       *)
SendUnknown(t) ==
    /\ pc[t] = "send"
    /\ \/ receipt' = receipt
       \/ /\ task[t] # "other" /\ Broadcast
          /\ receipt' = [receipt EXCEPT !.gas = TRUE]
    /\ End(t)
    /\ UNCHANGED <<journal, txs, sequence, raced>>

(* The answer is a receipt of the transaction: a new transaction is        *)
(* settled, a resent one is looked up like any other.                      *)
SendAnswered(t) ==
    /\ pc[t] = "send"
    /\ Included(mine[t])
    /\ IF task[t] \in {"vote", "other"} THEN journal' = NoJournal ELSE journal' = journal
    /\ IF task[t] = "other" \/ (task[t] = "vote" /\ txs[mine[t]].fate # "ok")
       THEN End(t)
       ELSE /\ Go(t, IF task[t] = "vote" THEN "confirm" ELSE "check")
            /\ base' = [base EXCEPT ![t] = receipt]
            /\ Release(t)
            /\ UNCHANGED <<task, mine>>
    /\ UNCHANGED <<receipt, txs, sequence, raced>>

(* submissionReceipt after a first broadcast. *)
Confirm(t) ==
    /\ pc[t] = "confirm"
    /\ \/ UNCHANGED <<receipt, raced>>
       \/ /\ Included(base[t].tx)
          /\ receipt' = [base[t] EXCEPT !.state = StateOf(base[t].tx)]
          /\ raced' = (raced \/ Replacing)
    /\ End(t)
    /\ UNCHANGED <<journal, txs, sequence>>

-----------------------------------------------------------------------------
(* Faulty guard: trusts the record that was compared before the review. *)
ReviewUnchecked(t) ==
    /\ pc[t] \in {"review", "again"}
    /\ ~NeedsRepair
    /\ Go(t, IF pc[t] = "review" THEN "inspect"
             ELSE IF task[t] = "replace" THEN "account" ELSE "ready")
    /\ UNCHANGED <<journal, lock, receipt, txs, sequence, task, mine, base, raced>>

(* guard: the page's record still is the reviewed vote, in flight.  It     *)
(* opens a replacement (beforeSign), is repeated after the signature, and  *)
(* comes between inspection and broadcast of a vote that is sent again     *)
(* (beforeBroadcast).  Further awaits follow it.                           *)
Review(t) ==
    /\ pc[t] \in {"review", "again"}
    /\ Broadcast /\ ~NeedsRepair /\ receipt.tx = mine[t]
    /\ Go(t, IF pc[t] = "review" THEN "inspect"
             ELSE IF task[t] = "replace" THEN "account" ELSE "ready")
    /\ UNCHANGED <<journal, lock, receipt, txs, sequence, task, mine, base, raced>>

(* inspect asks the chain: the vote is in no block, and the account still  *)
(* has the sequence it was signed for.                                     *)
Inspect(t) ==
    /\ pc[t] = "inspect"
    /\ ~Included(mine[t]) /\ txs[mine[t]].seq = sequence
    /\ Go(t, "saved")
    /\ UNCHANGED <<journal, lock, receipt, txs, sequence, task, mine, base, raced>>

(* The end of inspect: the journal holds the reviewed vote. *)
InspectSaved(t) ==
    /\ pc[t] = "saved"
    /\ journal = Pending(mine[t]) /\ txs[mine[t]].kind = "vote"
    /\ Go(t, "again")
    /\ UNCHANGED <<journal, lock, receipt, txs, sequence, task, mine, base, raced>>

(* replaceVoteGas asks for the account's sequence once more. *)
AskAccount(t) ==
    /\ pc[t] = "account"
    /\ txs[mine[t]].seq = sequence
    /\ Go(t, "resign")
    /\ UNCHANGED <<journal, lock, receipt, txs, sequence, task, mine, base, raced>>

(* Faulty replacement: signed for whatever sequence the account has now. *)
ResignFresh(t) ==
    /\ pc[t] = "resign"
    /\ journal = Pending(mine[t])
    /\ \E k \in Txs :
        /\ SignedAs(k, "vote", sequence, mine[t])
        /\ journal' = Pending(k)
        /\ mine' = [mine EXCEPT ![t] = k]
    /\ Go(t, "rerecord")
    /\ UNCHANGED <<lock, receipt, sequence, task, base, raced>>

(* The journal is compared again and holds the replacement from then on:   *)
(* the same vote, signed again for the same sequence.  What the record and *)
(* the account's sequence are by now is not asked.                         *)
Resign(t) ==
    /\ pc[t] = "resign"
    /\ journal = Pending(mine[t])
    /\ \E k \in Txs :
        /\ SignedAs(k, "vote", txs[mine[t]].seq, mine[t])
        /\ journal' = Pending(k)
        /\ mine' = [mine EXCEPT ![t] = k]
    /\ Go(t, "rerecord")
    /\ UNCHANGED <<lock, receipt, sequence, task, base, raced>>

(* beforeBroadcast of a replacement saves the record it read on entry. *)
RecordReplacement(t) ==
    /\ pc[t] = "rerecord"
    /\ receipt' = Replaced(base[t], mine[t])
    /\ Go(t, "ready")
    /\ UNCHANGED <<journal, lock, txs, sequence, task, mine, base, raced>>

(* The last look at the journal before the broadcast. *)
Ready(t) ==
    /\ pc[t] = "ready"
    /\ journal = Pending(mine[t])
    /\ Go(t, "send")
    /\ UNCHANGED <<journal, lock, receipt, txs, sequence, task, mine, base, raced>>

(* A comparison or a guard of the resumption fails, or the wallet refuses. *)
ResumeFails(t) ==
    /\ pc[t] \in {"review", "inspect", "saved", "again", "account", "resign", "rerecord", "ready"}
    /\ End(t)
    /\ UNCHANGED <<journal, receipt, txs, sequence, raced>>

-----------------------------------------------------------------------------
(* The evidence confirmedVoteReceipt accepts for the record r: any receipt *)
(* of its last attempt, a success of an earlier one.                       *)
Evidence(r) ==
    {k \in {r.tx} \cup r.previous : Included(k) /\ (k # r.tx => txs[k].fate = "ok")}

(* Check vote status: the record is settled and a journal entry of its     *)
(* last attempt is cleared, without the lock.                              *)
CheckFound(t) ==
    /\ pc[t] = "check"
    /\ base[t] # None
    /\ \E k \in Evidence(base[t]) :
           receipt' = [base[t] EXCEPT !.state = StateOf(k), !.tx = k, !.previous = @ \ {k}]
    /\ raced' = (raced \/ Replacing)
    /\ journal' = IF journal = Pending(base[t].tx) THEN NoJournal ELSE journal
    /\ End(t)
    /\ UNCHANGED <<txs, sequence>>

CheckUnknown(t) ==
    /\ pc[t] = "check"
    /\ End(t)
    /\ UNCHANGED <<journal, receipt, txs, sequence, raced>>

(* The page is closed or reloaded. *)
Crash(t) ==
    /\ pc[t] # "idle"
    /\ End(t)
    /\ UNCHANGED <<journal, receipt, txs, sequence, raced>>

-----------------------------------------------------------------------------
(* The chain executes a transaction that carries the account's sequence. *)
Execute(k) ==
    /\ txs[k] # None /\ txs[k].fate = "sent"
    /\ txs[k].seq = sequence
    /\ sequence < MaxSequence
    /\ \E fate \in {"ok", "failed"} : txs' = [txs EXCEPT ![k].fate = fate]
    /\ sequence' = sequence + 1
    /\ UNCHANGED <<journal, receipt, tabs, raced>>

(* A block holds a transaction that fails in the ante handler, for its     *)
(* sequence or for another reason.                                         *)
FailAnte(k) ==
    /\ AnteFailures
    /\ txs[k] # None /\ txs[k].fate = "sent"
    /\ txs' = [txs EXCEPT ![k].fate = "void"]
    /\ UNCHANGED <<journal, receipt, sequence, tabs, raced>>

(* The account signs a transaction on another device. *)
SpendElsewhere ==
    /\ sequence < MaxSequence
    /\ sequence' = sequence + 1
    /\ UNCHANGED <<journal, receipt, txs, tabs, raced>>

Next ==
    \/ \E t \in Tabs :
        \/ StartVote(t) \/ StartOther(t) \/ StartResume(t) \/ StartCheck(t)
        \/ Lock(t) \/ LockTaken(t)
        \/ ReconcileStops(t) \/ SaveSigning(t)
        \/ SignRefused(t) \/ SignUnusable(t) \/ Signed(t)
        \/ VoteRefused(t) \/ RecordVote(t)
        \/ Send(t) \/ SendUnknown(t) \/ SendAnswered(t) \/ Confirm(t)
        \/ Review(t) \/ Inspect(t) \/ InspectSaved(t) \/ AskAccount(t)
        \/ Resign(t) \/ RecordReplacement(t) \/ Ready(t) \/ ResumeFails(t)
        \/ CheckFound(t) \/ CheckUnknown(t)
        \/ Crash(t)
    \/ Repair
    \/ \E k \in Txs : Execute(k) \/ FailAnte(k)
    \/ SpendElsewhere

Spec == Init /\ [][Next]_vars

-----------------------------------------------------------------------------
(* A vote is executed at most once, however often it was sent again or     *)
(* replaced with more gas (replaceVoteGas: either signed variant may win,  *)
(* both cannot execute).                                                   *)
OneAttemptExecutes ==
    \A k, l \in Txs :
        /\ txs[k] # None /\ txs[l] # None
        /\ txs[k].fate = "ok" /\ txs[l].fate = "ok"
        /\ txs[k].root = txs[l].root
        => k = l

(* An attempt of the vote that k attempts failed in the ante handler. *)
AnteFailed(k) ==
    \E m \in Txs : txs[m] # None /\ txs[m].fate = "void" /\ txs[m].root = txs[k].root

(* An unknown outcome is never treated as a rejection, not by another tab, *)
(* another bundle or after a crash: as long as a signed transaction may    *)
(* still be executed, nothing else is signed than its own replacement, as  *)
(* long as no attempt failed in the ante handler (see ReportIsFinal).      *)
NoRivalAttempts ==
    \A k, l \in Txs :
        k < l /\ txs[l] # None /\ Live(k) /\ ~AnteFailed(k) => txs[k].root = txs[l].root

(* What the page reports of a vote is final: an included one was executed, *)
(* and of a failed one no attempt was executed or may still be.            *)
ReportIsFinal ==
    receipt # None =>
        /\ receipt.state = "included" => txs[receipt.tx].fate = "ok"
        /\ receipt.state = "failed" =>
               \A k \in {receipt.tx} \cup receipt.previous :
                   txs[k].fate # "ok" /\ ~Live(k)

(* The report is final unless it rests on a failure in the ante handler,   *)
(* which leaves the sequence to the other attempts.                        *)
ExecutedReportIsFinal ==
    receipt # None /\ txs[receipt.tx].fate # "void" => ReportIsFinal

(* The journalled replacement is followed: the page's record still is, or  *)
(* will be repaired to, a vote in flight under the replacement's hash,     *)
(* which is what a later status check clears.                              *)
Followed ==
    journal.status = "pending" /\ txs[journal.tx].prev # 0 =>
        Broadcast /\ receipt.tx \in {journal.tx, txs[journal.tx].prev}

(* No crash between the two writes of a replacement, no step of another    *)
(* bundle or tab and no lost answer loses sight of a replacement that      *)
(* reached the journal.  A status check or a confirmation may, which write *)
(* back the record they read without the lock: when it falls between the   *)
(* last look at the record and the end of the replacement.                 *)
ReplacementFollowed == ~raced => Followed

=============================================================================
