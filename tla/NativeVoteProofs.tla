-------------------------- MODULE NativeVoteProofs --------------------------
(***************************************************************************)
(* Proofs about the signing journal and the vote page, for any number of   *)
(* tabs, transactions and sequences, and with blocks that hold failures of *)
(* the ante handler.  What the properties need besides the types is what   *)
(* the chain and the attempts of a vote have in common (History), that the *)
(* journal names whatever may still be executed (Guarded), that records    *)
(* hold attempts of one vote only (Recorded), and what a tab may rely on   *)
(* between two awaits (Suspended).                                         *)
(***************************************************************************)
EXTENDS NativeVote, TLAPS

Made(k)     == k \in Txs /\ txs[k] # None
Executed(k) == Made(k) /\ txs[k].fate \in {"ok", "failed"}

(* The attempts of one vote are signed for one sequence, and the chain     *)
(* executes at most one transaction for each.                              *)
History ==
    /\ \A k, l \in Txs : k < l /\ Made(l) => Made(k)
    /\ \A k \in Txs : Made(k) =>
           /\ txs[k].root <= k
           /\ txs[k].prev < k
           /\ txs[k].prev # 0 => Made(txs[k].prev) /\ txs[txs[k].prev].root = txs[k].root
    /\ \A k, l \in Txs : Made(k) /\ Made(l) /\ txs[k].root = txs[l].root => txs[k].seq = txs[l].seq
    /\ \A k \in Txs : Executed(k) => txs[k].seq < sequence
    /\ \A k, l \in Txs : Executed(k) /\ Executed(l) /\ txs[k].seq = txs[l].seq => k = l

(* What may still be executed is an attempt of the vote in the journal. *)
Guarded ==
    /\ journal.status = "pending" => Made(journal.tx)
    /\ \A k \in Txs : Live(k) /\ ~AnteFailed(k) =>
           journal.status = "pending" /\ txs[journal.tx].root = txs[k].root

Attempts(r) == Made(r.tx) /\ \A p \in r.previous : Made(p) /\ txs[p].root = txs[r.tx].root

Noted(r) ==
    /\ Attempts(r)
    /\ r.state = "included" => txs[r.tx].fate = "ok"
    /\ r.state = "failed" => txs[r.tx].fate \in {"failed", "void"}

Recorded ==
    /\ receipt # None => Noted(receipt)
    /\ \A t \in Tabs : base[t] # None => Attempts(base[t])

Held(t) ==
    /\ pc[t] \notin {"idle", "lock", "confirm", "check"} => lock = t
    /\ pc[t] = "lock" => task[t] \in {"vote", "other", "resume", "replace"}
    /\ pc[t] \in {"reconcile", "sign"} => task[t] \in {"vote", "other"}
    /\ pc[t] \in {"review", "inspect", "saved", "again", "account", "resign", "rerecord", "ready"}
           => task[t] \in {"resume", "replace"}
    /\ pc[t] = "sign" => journal.status = "signing"
    /\ pc[t] \in {"again", "account", "resign", "record", "rerecord", "ready", "send"} =>
           Made(mine[t]) /\ journal \in {NoJournal, Pending(mine[t])}
    /\ pc[t] = "record" => task[t] = "vote"
    /\ /\ task[t] \in {"resume", "replace"}
       /\ pc[t] \in {"lock", "review", "inspect", "saved", "again", "account", "resign"}
       => base[t] # None /\ base[t].state = "broadcast" /\ mine[t] = base[t].tx
    /\ pc[t] = "rerecord" =>
           /\ base[t] # None /\ base[t].state = "broadcast"
           /\ txs[mine[t]].root = txs[base[t].tx].root
    /\ pc[t] = "send" /\ task[t] = "vote" => receipt # None
    /\ pc[t] = "confirm" => base[t] # None

Suspended == \A t \in Tabs : Held(t)

(* The steps of a resumption that only compare. *)
Looks(t) == Review(t) \/ Inspect(t) \/ InspectSaved(t) \/ AskAccount(t) \/ Ready(t)

IInv == TypeOK /\ History /\ Guarded /\ Recorded /\ Suspended /\ NoRivalAttempts

-----------------------------------------------------------------------------
(* A record is written from its fields. *)
LEMMA RecordTyped ==
  ASSUME NEW r \in Receipt, NEW k \in Txs, NEW s \in {"broadcast", "included", "failed"},
         NEW Q \in SUBSET Txs, NEW g \in BOOLEAN
  PROVE  /\ [r EXCEPT !.state = s] \in Receipt
         /\ [r EXCEPT !.state = s, !.tx = k, !.previous = @ \ {k}] \in Receipt
         /\ Replaced(r, k) \in Receipt
         /\ [r EXCEPT !.gas = TRUE] \in Receipt
         /\ [state |-> s, tx |-> k, previous |-> Q, gas |-> g] \in Receipt
  BY DEF Receipt, Replaced

LEMMA SignedTyped ==
  ASSUME TypeOK, NEW k \in Txs, NEW kind \in {"vote", "other"}, NEW seq \in Nat,
         NEW prev \in Txs \cup {0}, SignedAs(k, kind, seq, prev),
         prev # 0 => Made(prev)
  PROVE  txs' \in [Txs -> Tx \cup {None}] /\ txs'[k] \in Tx
<1>1. (IF prev = 0 THEN k ELSE txs[prev].root) \in Txs
  BY VoteNoneAssumption DEF TypeOK, Tx, Made
<1> QED
  BY <1>1 DEF TypeOK, SignedAs, Tx, Fates

LEMMA FateTyped ==
  ASSUME TypeOK, NEW k \in Txs, txs[k] # None, NEW f \in Fates
  PROVE  [txs EXCEPT ![k].fate = f] \in [Txs -> Tx \cup {None}]
  BY DEF TypeOK, Tx

LEMMA EndTyped ==
  ASSUME TypeOK, NEW t \in Tabs, End(t)
  PROVE  /\ lock' \in Tabs \cup {None}
         /\ pc' \in [Tabs -> {"idle", "lock", "reconcile", "sign", "record", "send", "confirm",
                        "check", "review", "inspect", "saved", "again", "account", "resign",
                        "rerecord", "ready"}]
         /\ task' \in [Tabs -> {"none", "vote", "other", "resume", "replace", "check"}]
         /\ mine' \in [Tabs -> Txs \cup {0}]
         /\ base' \in [Tabs -> Receipt \cup {None}]
  BY DEF TypeOK, End, Go, Release

LEMMA JournalTyped ==
  /\ NoJournal \in Journal
  /\ [status |-> "signing", tx |-> 0] \in Journal
  /\ \A k \in Txs : Pending(k) \in Journal
  BY DEF Journal, NoJournal, Pending

LEMMA Types == IInv /\ [Next]_vars => TypeOK'
<1> USE VoteAssumption, VoteNoneAssumption
<1> SUFFICES ASSUME IInv, [Next]_vars PROVE TypeOK'
  OBVIOUS
<1>0. TypeOK /\ History /\ Guarded /\ Recorded /\ Suspended
  BY DEF IInv
<1>n. 0 \notin Txs
  BY DEF Txs
<1>1. ASSUME NEW t \in Tabs, StartVote(t) \/ StartOther(t) \/ StartResume(t) \/ StartCheck(t)
      PROVE TypeOK'
  BY <1>0, <1>1 DEF TypeOK, StartVote, StartOther, StartResume, StartCheck, Begin, Go, Broadcast, Receipt
<1>2. ASSUME NEW t \in Tabs, Lock(t) PROVE TypeOK'
  BY <1>0, <1>2 DEF TypeOK, Lock, Go
<1>3. ASSUME NEW t \in Tabs,
             LockTaken(t) \/ SignUnusable(t) \/ VoteRefused(t) \/ ResumeFails(t)
             \/ CheckUnknown(t) \/ Crash(t)
      PROVE TypeOK'
  BY <1>0, <1>3, EndTyped
  DEF TypeOK, LockTaken, SignUnusable, VoteRefused, ResumeFails, CheckUnknown, Crash
<1>4. ASSUME NEW t \in Tabs, ReconcileStops(t) \/ SignRefused(t) PROVE TypeOK'
  BY <1>0, <1>4, EndTyped, JournalTyped DEF TypeOK, ReconcileStops, SignRefused
<1>5. ASSUME NEW t \in Tabs, SaveSigning(t) PROVE TypeOK'
  BY <1>0, <1>5, JournalTyped DEF TypeOK, SaveSigning, Go
<1>6. ASSUME NEW t \in Tabs, Signed(t) PROVE TypeOK'
  <2>1. PICK k \in Txs : SignedAs(k, task[t], sequence, 0) /\ journal' = Pending(k)
                         /\ mine' = [mine EXCEPT ![t] = k]
    BY <1>6 DEF Signed
  <2>2. task[t] \in {"vote", "other"} /\ sequence \in Nat
    BY <1>0, <1>6 DEF Suspended, Held, Signed, TypeOK
  <2>3. txs' \in [Txs -> Tx \cup {None}]
    BY <1>0, <2>1, <2>2, SignedTyped
  <2> QED BY <1>0, <1>6, <2>1, <2>3, JournalTyped DEF TypeOK, Signed, Go
<1>7. ASSUME NEW t \in Tabs, RecordVote(t) PROVE TypeOK'
  <2>1. mine[t] \in Txs
    BY <1>0, <1>7 DEF Suspended, Held, RecordVote, Made
  <2>2. receipt' \in Receipt
    BY <1>7, <2>1 DEF RecordVote, Receipt
  <2> QED BY <1>0, <1>7, <2>2 DEF TypeOK, RecordVote, Go
<1>8. ASSUME NEW t \in Tabs, Send(t) PROVE TypeOK'
  <2>1. Made(mine[t])
    BY <1>0, <1>8 DEF Suspended, Held, Send
  <2>2. txs' \in [Txs -> Tx \cup {None}]
    BY <1>0, <1>8, <2>1, FateTyped DEF Send, Made, Fates
  <2> QED BY <1>0, <1>8, <2>2 DEF TypeOK, Send, tabs
<1>9. ASSUME NEW t \in Tabs, SendUnknown(t) PROVE TypeOK'
  <2>a. receipt' = receipt => receipt' \in Receipt \cup {None}
    BY <1>0 DEF TypeOK
  <2>b. receipt \in Receipt /\ receipt' = [receipt EXCEPT !.gas = TRUE] => receipt' \in Receipt
    BY DEF Receipt
  <2>1. receipt' \in Receipt \cup {None}
    BY <1>0, <1>9, <2>a, <2>b DEF SendUnknown, Broadcast, TypeOK
  <2> QED BY <1>0, <1>9, <2>1, EndTyped DEF TypeOK, SendUnknown
<1>10. ASSUME NEW t \in Tabs, SendAnswered(t) PROVE TypeOK'
  <2>1. journal' \in Journal
    BY <1>0, <1>10, JournalTyped DEF SendAnswered, TypeOK
  <2>2. CASE End(t)
    BY <1>0, <1>10, <2>1, <2>2, EndTyped DEF TypeOK, SendAnswered
  <2>3. CASE ~End(t)
    BY <1>0, <1>10, <2>1, <2>3 DEF TypeOK, SendAnswered, Go, Release
  <2> QED BY <2>2, <2>3
<1>11. ASSUME NEW t \in Tabs, Confirm(t) PROVE TypeOK'
  <2>1. base[t] \in Receipt
    BY <1>0, <1>11 DEF Suspended, Held, Confirm, TypeOK
  <2>a. receipt \in Receipt \cup {None}
    BY <1>0 DEF TypeOK
  <2>b. receipt' = [base[t] EXCEPT !.state = StateOf(base[t].tx)] => receipt' \in Receipt
    BY <2>1 DEF Receipt, StateOf
  <2>2. receipt' \in Receipt \cup {None}
    BY <1>11, <2>a, <2>b DEF Confirm
  <2> QED BY <1>0, <1>11, <2>2, EndTyped DEF TypeOK, Confirm
<1>12. ASSUME NEW t \in Tabs, Looks(t) PROVE TypeOK'
  BY <1>0, <1>12 DEF TypeOK, Looks, Review, Inspect, InspectSaved, AskAccount, Ready, Go
<1>13. ASSUME NEW t \in Tabs, Resign(t) PROVE TypeOK'
  <2>1. PICK k \in Txs : SignedAs(k, "vote", txs[mine[t]].seq, mine[t]) /\ journal' = Pending(k)
                         /\ mine' = [mine EXCEPT ![t] = k]
    BY <1>13 DEF Resign
  <2>2. Made(mine[t]) /\ txs[mine[t]].seq \in Nat
    BY <1>0, <1>13 DEF Resign, Pending, Guarded, TypeOK, Tx, Made
  <2>3. txs' \in [Txs -> Tx \cup {None}]
    BY <1>0, <2>1, <2>2, SignedTyped DEF Made
  <2> QED BY <1>0, <1>13, <2>1, <2>3, JournalTyped DEF TypeOK, Resign, Go
<1>14. ASSUME NEW t \in Tabs, RecordReplacement(t) PROVE TypeOK'
  <2>1. base[t] \in Receipt /\ mine[t] \in Txs
    BY <1>0, <1>14 DEF Suspended, Held, RecordReplacement, TypeOK, Made
  <2>2. receipt' \in Receipt
    BY <1>14, <2>1 DEF RecordReplacement, Receipt, Replaced
  <2> QED BY <1>0, <1>14, <2>2 DEF TypeOK, RecordReplacement, Go
<1>15. ASSUME NEW t \in Tabs, CheckFound(t) PROVE TypeOK'
  <2>1. base[t] \in Receipt
    BY <1>0, <1>15 DEF CheckFound, TypeOK
  <2>2. PICK k \in Evidence(base[t]) :
          receipt' = [base[t] EXCEPT !.state = StateOf(k), !.tx = k, !.previous = @ \ {k}]
    BY <1>15 DEF CheckFound
  <2>3. k \in Txs /\ StateOf(k) \in {"included", "failed"}
    BY <2>1, <2>2 DEF Evidence, Receipt, StateOf
  <2>4. receipt' \in Receipt
    BY <2>1, <2>2, <2>3 DEF Receipt
  <2> QED BY <1>0, <1>15, <2>4, EndTyped, JournalTyped DEF TypeOK, CheckFound
<1>16. CASE Repair
  <2>1. receipt \in Receipt /\ journal.tx \in Txs
    BY <1>0, <1>16 DEF Repair, NeedsRepair, TypeOK, Guarded, Made
  <2>2. receipt' \in Receipt
    BY <1>16, <2>1 DEF Repair, Receipt, Replaced
  <2> QED BY <1>0, <1>16, <2>2 DEF TypeOK, Repair, tabs
<1>17. ASSUME NEW k \in Txs, Execute(k) PROVE TypeOK'
  <2>1. PICK f \in {"ok", "failed"} : txs' = [txs EXCEPT ![k].fate = f]
    BY <1>17 DEF Execute
  <2>2. txs' \in [Txs -> Tx \cup {None}]
    BY <1>0, <1>17, <2>1, FateTyped DEF Execute, Fates
  <2> QED BY <1>0, <1>17, <2>2 DEF TypeOK, Execute, tabs
<1>18. ASSUME NEW k \in Txs, FailAnte(k) PROVE TypeOK'
  <2>1. txs' \in [Txs -> Tx \cup {None}]
    BY <1>0, <1>18, FateTyped DEF FailAnte, Fates
  <2> QED BY <1>0, <1>18, <2>1 DEF TypeOK, FailAnte, tabs
<1>19. CASE SpendElsewhere
  BY <1>0, <1>19 DEF TypeOK, SpendElsewhere, tabs
<1>20. CASE UNCHANGED vars
  BY <1>0, <1>20 DEF TypeOK, vars
<1> QED
  BY <1>1, <1>2, <1>3, <1>4, <1>5, <1>6, <1>7, <1>8, <1>9, <1>10, <1>11, <1>12, <1>13,
     <1>14, <1>15, <1>16, <1>17, <1>18, <1>19, <1>20 DEF Next, Looks

-----------------------------------------------------------------------------
(* What a step does to the signed transactions: those there are keep their *)
(* attempt and their sequence, and what the chain did to them.             *)
Grows ==
    \A l \in Txs : Made(l) =>
        /\ Made(l)'
        /\ txs'[l].root = txs[l].root
        /\ txs'[l].prev = txs[l].prev
        /\ txs'[l].seq = txs[l].seq
        /\ txs[l].fate \in {"ok", "failed", "void"} => txs'[l].fate = txs[l].fate

Executes(l) == Executed(l)' /\ ~Executed(l)

(* A step that signs nothing. *)
Ripens ==
    /\ Grows
    /\ sequence' \in {sequence, sequence + 1}
    /\ \A l \in Txs : Made(l)' => Made(l)
    /\ \A l \in Txs : Made(l) /\ txs'[l].fate \in {"signed", "sent"} =>
                          txs[l].fate \in {"signed", "sent"}
    /\ \A l \in Txs : Executes(l) => txs[l].seq = sequence /\ sequence' = sequence + 1
    /\ \A k, l \in Txs : Executes(k) /\ Executes(l) => k = l

(* The journal lets go only of a vote with an attempt in a block. *)
Settled == \E e \in Txs : Included(e) /\ txs[e].root = txs[journal.tx].root

JournalStep ==
    \/ journal' = journal
    \/ journal'.status # "pending" /\ (journal.status = "pending" => Settled)

(* A step that signs the transaction k. *)
Opens(k) ==
    /\ SignedAs(k, "vote", sequence, 0) \/ SignedAs(k, "other", sequence, 0)
    /\ journal.status # "pending" /\ journal' = Pending(k) /\ sequence' = sequence

Renews(k) ==
    /\ journal.status = "pending" /\ Made(journal.tx)
    /\ SignedAs(k, "vote", txs[journal.tx].seq, journal.tx)
    /\ journal' = Pending(k) /\ sequence' = sequence

LEMMA QuietRipens ==
  ASSUME TypeOK, txs' = txs, sequence' \in {sequence, sequence + 1}
  PROVE  Ripens
  BY DEF Ripens, Grows, Made, Executes, Executed

LEMMA FateRipens ==
  ASSUME TypeOK, NEW k \in Txs, Made(k), NEW f \in Fates,
         txs' = [txs EXCEPT ![k].fate = f],
         \/ txs[k].fate = "signed" /\ f = "sent" /\ sequence' = sequence
         \/ txs[k].fate = "sent" /\ f = "void" /\ sequence' = sequence
         \/ /\ txs[k].fate = "sent" /\ f \in {"ok", "failed"}
            /\ txs[k].seq = sequence /\ sequence' = sequence + 1
  PROVE  Ripens
<1>1. txs[k] \in Tx
  BY DEF TypeOK, Made
<1>2. txs'[k] = [txs[k] EXCEPT !.fate = f] /\ txs'[k] \in Tx
  BY <1>1 DEF TypeOK, Tx
<1>3. \A l \in Txs : l # k => txs'[l] = txs[l]
  BY DEF TypeOK
<1>4. Made(k)' /\ \A l \in Txs : Made(l)' <=> Made(l)
  BY <1>1, <1>2, <1>3, VoteNoneAssumption DEF Made
<1>5. /\ txs'[k].root = txs[k].root /\ txs'[k].prev = txs[k].prev /\ txs'[k].seq = txs[k].seq
      /\ txs'[k].fate = f
  BY <1>1, <1>2 DEF Tx
<1>6. Grows
  BY <1>3, <1>4, <1>5 DEF Grows
<1>7. \A l \in Txs : Executes(l) => l = k
  BY <1>3, <1>4 DEF Executes, Executed, Made
<1>8. Executes(k) => txs[k].seq = sequence /\ sequence' = sequence + 1
  BY <1>4, <1>5 DEF Executes, Executed
<1>9. \A l \in Txs : Made(l) /\ txs'[l].fate \in {"signed", "sent"} =>
                          txs[l].fate \in {"signed", "sent"}
  BY <1>3, <1>5
<1> QED
  BY <1>4, <1>6, <1>7, <1>8, <1>9 DEF Ripens

LEMMA SignedGrows ==
  ASSUME TypeOK, NEW k \in Txs, NEW kind, NEW seq, NEW prev, SignedAs(k, kind, seq, prev)
  PROVE  /\ Grows
         /\ \A l \in Txs : l # k => txs'[l] = txs[l]
         /\ ~Made(k)
         /\ txs'[k] = [kind |-> kind, seq |-> seq, prev |-> prev,
                root |-> IF prev = 0 THEN k ELSE txs[prev].root, fate |-> "signed"]
<1>1. /\ \A l \in Txs : l # k => txs'[l] = txs[l]
      /\ ~Made(k)
      /\ txs'[k] = [kind |-> kind, seq |-> seq, prev |-> prev,
                root |-> IF prev = 0 THEN k ELSE txs[prev].root, fate |-> "signed"]
  BY DEF SignedAs, TypeOK, Made
<1>2. Grows
  BY <1>1 DEF Grows, Made
<1> QED
  BY <1>1, <1>2

LEMMA Effects ==
  ASSUME IInv, [Next]_vars
  PROVE  \/ Ripens /\ JournalStep
         \/ \E k \in Txs : Opens(k) \/ Renews(k)
<1>0. TypeOK /\ History /\ Guarded /\ Recorded /\ Suspended /\ sequence \in Nat
  BY DEF IInv, TypeOK
<1>1. ASSUME NEW t \in Tabs,
             StartVote(t) \/ StartOther(t) \/ StartResume(t) \/ StartCheck(t) \/ Lock(t)
             \/ LockTaken(t) \/ SignUnusable(t) \/ VoteRefused(t) \/ ResumeFails(t)
             \/ CheckUnknown(t) \/ Crash(t) \/ RecordVote(t) \/ SendUnknown(t)
             \/ Confirm(t) \/ Looks(t) \/ RecordReplacement(t)
      PROVE txs' = txs /\ sequence' = sequence /\ journal' = journal
  BY <1>1 DEF StartVote, StartOther, StartResume, StartCheck, Lock, LockTaken, SignUnusable,
     VoteRefused, ResumeFails, CheckUnknown, Crash, RecordVote, SendUnknown, Confirm, Looks,
     Review, Inspect, InspectSaved, AskAccount, Ready, RecordReplacement
<1>2. ASSUME NEW t \in Tabs, ReconcileStops(t)
      PROVE txs' = txs /\ sequence' = sequence /\ JournalStep
  BY <1>0, <1>2 DEF ReconcileStops, JournalStep, Settled, NoJournal, Guarded, Made
<1>3. ASSUME NEW t \in Tabs, SaveSigning(t) \/ SignRefused(t)
      PROVE txs' = txs /\ sequence' = sequence /\ JournalStep
  BY <1>0, <1>3 DEF SaveSigning, SignRefused, JournalStep, NoJournal, Suspended, Held
<1>4. ASSUME NEW t \in Tabs, Signed(t) PROVE \E k \in Txs : Opens(k)
  BY <1>0, <1>4 DEF Signed, Opens, Suspended, Held
<1>5. ASSUME NEW t \in Tabs, Send(t) PROVE Ripens /\ journal' = journal
  <2>1. Made(mine[t])
    BY <1>0, <1>5 DEF Suspended, Held, Send
  <2> QED BY <1>0, <1>5, <2>1, FateRipens DEF Send, Made, Fates
<1>6. ASSUME NEW t \in Tabs, SendAnswered(t)
      PROVE txs' = txs /\ sequence' = sequence /\ JournalStep
  <2>1. Made(mine[t]) /\ journal \in {NoJournal, Pending(mine[t])}
    BY <1>0, <1>6 DEF Suspended, Held, SendAnswered
  <2>2. txs' = txs /\ sequence' = sequence /\ Included(mine[t]) /\ journal' \in {NoJournal, journal}
    BY <1>6 DEF SendAnswered
  <2> QED BY <2>1, <2>2 DEF JournalStep, Settled, NoJournal, Pending, Made
<1>7. ASSUME NEW t \in Tabs, CheckFound(t)
      PROVE txs' = txs /\ sequence' = sequence /\ JournalStep
  <2>1. Attempts(base[t])
    BY <1>0, <1>7 DEF Recorded, CheckFound
  <2>2. PICK e \in Evidence(base[t]) : TRUE
    BY <1>7 DEF CheckFound
  <2>3. e \in Txs /\ Included(e) /\ txs[e].root = txs[base[t].tx].root
    BY <2>1, <2>2 DEF Evidence, Attempts, Made
  <2> QED BY <1>7, <2>3 DEF CheckFound, JournalStep, Settled, NoJournal, Pending
<1>8. ASSUME NEW t \in Tabs, Resign(t) PROVE \E k \in Txs : Renews(k)
  <2>1. journal.status = "pending" /\ journal.tx = mine[t]
    BY <1>8 DEF Resign, Pending
  <2> QED BY <1>0, <1>8, <2>1 DEF Resign, Renews, Guarded
<1>9. CASE Repair
  BY <1>0, <1>9, QuietRipens DEF Repair, JournalStep
<1>10. ASSUME NEW k \in Txs, Execute(k) PROVE Ripens /\ journal' = journal
  <2>1. PICK f \in {"ok", "failed"} : txs' = [txs EXCEPT ![k].fate = f]
    BY <1>10 DEF Execute
  <2> QED BY <1>0, <1>10, <2>1, FateRipens DEF Execute, Fates, Made
<1>11. ASSUME NEW k \in Txs, FailAnte(k) PROVE Ripens /\ journal' = journal
  BY <1>0, <1>11, FateRipens DEF FailAnte, Fates, Made
<1>12. CASE SpendElsewhere
  BY <1>0, <1>12, QuietRipens DEF SpendElsewhere, JournalStep
<1>13. CASE UNCHANGED vars
  BY <1>0, <1>13, QuietRipens DEF vars, JournalStep
<1>14. txs' = txs /\ sequence' = sequence => Ripens
  BY <1>0, QuietRipens
<1>15. journal' = journal => JournalStep
  BY DEF JournalStep
<1> QED
  BY <1>1, <1>2, <1>3, <1>4, <1>5, <1>6, <1>7, <1>8, <1>9, <1>10, <1>11, <1>12, <1>13,
     <1>14, <1>15 DEF Next, Looks

-----------------------------------------------------------------------------
(* An attempt in a block leaves no other attempt of the vote that may      *)
(* still be executed, or it failed in the ante handler.                    *)
LEMMA Spent ==
  ASSUME TypeOK, History, NEW e \in Txs, NEW k \in Txs,
         Included(e), Live(k), txs[e].root = txs[k].root
  PROVE  AnteFailed(k)
<1>1. Made(e) /\ Made(k) /\ txs[e].seq \in Nat /\ txs[k].seq \in Nat /\ sequence \in Nat
  BY DEF TypeOK, Included, Live, Made, Tx
<1>2. txs[e].seq = txs[k].seq
  BY <1>1 DEF History
<1>3. txs[k].seq >= sequence
  BY DEF Live
<1>4. ~Executed(e)
  BY <1>1, <1>2, <1>3 DEF History
<1> QED
  BY <1>1, <1>4 DEF Executed, Included, AnteFailed, Made

(* What ripening keeps of the attempts that may still be executed. *)
LEMMA RipensFalls ==
  ASSUME TypeOK, TypeOK', Ripens, NEW k \in Txs
  PROVE  /\ Live(k)' => Live(k)
         /\ Live(k)' /\ AnteFailed(k) => AnteFailed(k)'
<1>1. sequence \in Nat /\ sequence' \in Nat /\ sequence' >= sequence
  BY DEF TypeOK, Ripens
<1>2. Live(k)' => Made(k) /\ Made(k)'
  BY DEF Live, Made, Ripens
<1>3. Made(k) => txs[k].seq \in Nat /\ txs'[k].seq = txs[k].seq
  BY DEF TypeOK, Made, Tx, Ripens, Grows
<1>4. Live(k)' => txs[k].fate \in {"signed", "sent"}
  BY <1>2 DEF Live, Ripens
<1>5. Live(k)' => txs[k].seq >= sequence
  BY <1>1, <1>2, <1>3 DEF Live
<1>6. Live(k)' => Live(k)
  BY <1>2, <1>4, <1>5 DEF Live, Made
<1>7. Live(k)' /\ AnteFailed(k) => AnteFailed(k)'
  BY <1>2 DEF AnteFailed, Ripens, Grows, Made
<1> QED
  BY <1>6, <1>7

LEMMA RipensHistory ==
  ASSUME TypeOK, TypeOK', History, Ripens
  PROVE  History'
<1>1. sequence \in Nat /\ sequence' \in Nat /\ sequence' >= sequence
  BY DEF TypeOK, Ripens
<1>2. \A l \in Txs : Made(l)' <=> Made(l)
  BY DEF Ripens, Grows
<1>3. \A l \in Txs : Made(l) => /\ txs[l] \in Tx /\ txs'[l].root = txs[l].root
                                /\ txs'[l].prev = txs[l].prev /\ txs'[l].seq = txs[l].seq
  BY DEF Ripens, Grows, TypeOK, Made
<1>4. \A l \in Txs : Executed(l)' => Executed(l) \/ (Executes(l) /\ txs[l].seq = sequence
                                                     /\ sequence' = sequence + 1)
  BY DEF Ripens, Executes
<1>5. \A l \in Txs : Made(l) => txs[l].seq \in Nat /\ txs[l].prev \in Txs \cup {0}
  BY <1>3 DEF Tx
<1>6. (\A k, l \in Txs : k < l /\ Made(l) => Made(k))'
  BY <1>2 DEF History
<1>7. (\A k \in Txs : Made(k) =>
           /\ txs[k].root <= k
           /\ txs[k].prev < k
           /\ txs[k].prev # 0 => Made(txs[k].prev) /\ txs[txs[k].prev].root = txs[k].root)'
  <2> SUFFICES ASSUME NEW k \in Txs, Made(k)
               PROVE  /\ txs'[k].root <= k /\ txs'[k].prev < k
                      /\ txs'[k].prev # 0 => /\ txs'[k].prev \in Txs
                                             /\ txs'[txs'[k].prev] # None
                                             /\ txs'[txs'[k].prev].root = txs'[k].root
    BY <1>2 DEF Made
  <2>1. txs'[k].root <= k /\ txs'[k].prev < k
    BY <1>3 DEF History
  <2>2. ASSUME txs[k].prev # 0
        PROVE txs[k].prev \in Txs /\ Made(txs[k].prev) /\ txs[txs[k].prev].root = txs[k].root
    BY <2>2 DEF History, Made
  <2> QED BY <1>2, <1>3, <2>1, <2>2 DEF Made
<1>8. (\A k, l \in Txs : Made(k) /\ Made(l) /\ txs[k].root = txs[l].root
                          => txs[k].seq = txs[l].seq)'
  BY <1>2, <1>3 DEF History
<1>9. (\A k \in Txs : Executed(k) => txs[k].seq < sequence)'
  <2> SUFFICES ASSUME NEW k \in Txs, Executed(k)' PROVE txs'[k].seq < sequence'
    OBVIOUS
  <2>1. Made(k)
    BY <1>2 DEF Executed
  <2>2. CASE Executed(k)
    BY <1>1, <1>3, <1>5, <2>1, <2>2 DEF History
  <2>3. CASE ~Executed(k)
    BY <1>1, <1>3, <1>4, <1>5, <2>1, <2>3
  <2> QED BY <2>2, <2>3
<1>10. (\A k, l \in Txs : Executed(k) /\ Executed(l) /\ txs[k].seq = txs[l].seq => k = l)'
  <2> SUFFICES ASSUME NEW k \in Txs, NEW l \in Txs, Executed(k)', Executed(l)',
                      txs'[k].seq = txs'[l].seq
               PROVE  k = l
    OBVIOUS
  <2>1. Made(k) /\ Made(l) /\ txs[k].seq = txs[l].seq
    BY <1>2, <1>3 DEF Executed
  <2>2. CASE Executed(k) /\ Executed(l)
    BY <2>1, <2>2 DEF History
  <2>3. CASE Executed(k) /\ ~Executed(l)
    <3>1. txs[k].seq < sequence
      BY <2>3 DEF History
    <3>2. txs[l].seq = sequence
      BY <1>4, <2>3
    <3> QED BY <1>1, <2>1, <3>1, <3>2
  <2>4. CASE ~Executed(k) /\ Executed(l)
    <3>1. txs[l].seq < sequence
      BY <2>4 DEF History
    <3>2. txs[k].seq = sequence
      BY <1>4, <2>4
    <3> QED BY <1>1, <2>1, <3>1, <3>2
  <2>5. CASE ~Executed(k) /\ ~Executed(l)
    BY <2>5 DEF Executes, Ripens
  <2> QED BY <2>2, <2>3, <2>4, <2>5
<1> QED
  BY <1>6, <1>7, <1>8, <1>9, <1>10 DEF History

LEMMA RipensGuarded ==
  ASSUME TypeOK, TypeOK', History, Guarded, Ripens, JournalStep
  PROVE  Guarded'
<1>1. ASSUME NEW k \in Txs, Live(k)', ~AnteFailed(k)'
      PROVE  /\ Live(k) /\ ~AnteFailed(k)
             /\ journal.status = "pending" /\ txs[journal.tx].root = txs[k].root /\ Made(k)
  BY <1>1, RipensFalls DEF Guarded, Live, Made
<1>2. CASE journal' = journal
  <2>1. journal'.status = "pending" => journal'.tx \in Txs /\ txs'[journal'.tx] # None
    BY <1>2 DEF Guarded, Ripens, Grows, Made
  <2>2. ASSUME NEW k \in Txs, Live(k)', ~AnteFailed(k)'
        PROVE  journal'.status = "pending" /\ txs'[journal'.tx].root = txs'[k].root
    BY <1>1, <1>2, <2>2 DEF Guarded, Ripens, Grows, Made
  <2> QED BY <2>1, <2>2 DEF Guarded, Made
<1>3. CASE journal'.status # "pending" /\ (journal.status = "pending" => Settled)
  <2>1. ASSUME NEW k \in Txs, Live(k)', ~AnteFailed(k)' PROVE FALSE
    BY <1>1, <1>3, <2>1, Spent DEF Settled
  <2> QED BY <1>3, <2>1 DEF Guarded
<1> QED
  BY <1>2, <1>3 DEF JournalStep

LEMMA RipensNoRivals ==
  ASSUME TypeOK, TypeOK', NoRivalAttempts, Ripens
  PROVE  NoRivalAttempts'
<1> SUFFICES ASSUME NEW k \in Txs, NEW l \in Txs, k < l, txs'[l] # None, Live(k)', ~AnteFailed(k)'
             PROVE  txs'[k].root = txs'[l].root
  BY DEF NoRivalAttempts
<1>1. Made(k) /\ Made(l)
  BY DEF Ripens, Live, Made
<1>2. txs[k].root = txs[l].root
  BY <1>1, RipensFalls DEF NoRivalAttempts, Made
<1> QED
  BY <1>1, <1>2 DEF Ripens, Grows

-----------------------------------------------------------------------------
(* A new transaction is the last one. *)
LEMMA LastSigned ==
  ASSUME TypeOK, History, NEW k \in Txs, NEW kind \in {"vote", "other"}, NEW seq \in Nat,
         NEW prev \in Txs \cup {0}, SignedAs(k, kind, seq, prev), prev # 0 => Made(prev)
  PROVE  /\ \A l \in Txs : Made(l) => l < k
         /\ \A l \in Txs : l < k => Made(l)
         /\ Made(k)'
         /\ \A l \in Txs : l # k => (Made(l)' <=> Made(l)) /\ txs'[l] = txs[l]
<1>1. ~Made(k) /\ \A l \in Txs : l < k => Made(l)
  BY DEF SignedAs, Made
<1>2. ASSUME NEW l \in Txs, Made(l) PROVE l < k
  <2>1. l # k /\ ~(k < l)
    BY <1>1, <1>2 DEF History
  <2> QED BY <2>1, VoteAssumption DEF Txs
<1>3. \A l \in Txs : l # k => txs'[l] = txs[l]
  BY SignedGrows
<1>4. txs'[k] # None
  BY SignedTyped, VoteNoneAssumption
<1> QED
  BY <1>1, <1>2, <1>3, <1>4 DEF Made

LEMMA SignedHistory ==
  ASSUME TypeOK, TypeOK', History, sequence' = sequence,
         NEW k \in Txs, NEW kind \in {"vote", "other"}, NEW seq \in Nat, NEW prev \in Txs \cup {0},
         SignedAs(k, kind, seq, prev),
         prev # 0 => Made(prev) /\ txs[prev].seq = seq
  PROVE  History'
<1>1. /\ \A l \in Txs : Made(l) => l < k
      /\ \A l \in Txs : l < k => Made(l)
      /\ Made(k)'
      /\ \A l \in Txs : l # k => (Made(l)' <=> Made(l)) /\ txs'[l] = txs[l]
  BY LastSigned
<1>2. txs'[k].seq = seq /\ txs'[k].prev = prev /\ txs'[k].fate = "signed"
      /\ txs'[k].root = (IF prev = 0 THEN k ELSE txs[prev].root)
  <2>1. txs'[k] = [kind |-> kind, seq |-> seq, prev |-> prev,
               root |-> IF prev = 0 THEN k ELSE txs[prev].root, fate |-> "signed"]
    BY DEF SignedAs, TypeOK
  <2> QED BY <2>1
<1>n. k \in Nat /\ 0 \notin Txs
  BY VoteAssumption DEF Txs
<1>m. \A l \in Txs : Made(l) => txs[l].root \in Txs /\ txs[l].root <= l
  BY DEF History, TypeOK, Made, Tx
<1>3. txs'[k].root <= k
  <2>1. prev # 0 => txs[prev].root <= prev /\ prev < k /\ txs[prev].root \in Nat /\ prev \in Nat
    BY <1>1, <1>m DEF Made, Txs
  <2> QED BY <1>2, <1>n, <2>1
<1>4. ASSUME NEW l \in Txs, Made(l), txs[l].root = txs'[k].root PROVE txs[l].seq = seq
  <2>1. CASE prev = 0
    <3>1. txs[l].root <= l /\ l < k /\ txs[l].root = k /\ l \in Nat
      BY <1>1, <1>2, <1>4, <1>m, <2>1 DEF Txs
    <3> QED BY <3>1, <1>n
  <2>2. CASE prev # 0
    BY <1>2, <1>4, <2>2 DEF History, Made
  <2> QED BY <2>1, <2>2
<1>5. \A l \in Txs : Executed(l)' => l # k /\ Executed(l)
  BY <1>1, <1>2 DEF Executed
<1>6. (\A i, l \in Txs : i < l /\ Made(l) => Made(i))'
  BY <1>1 DEF History
<1>7. (\A i \in Txs : Made(i) =>
           /\ txs[i].root <= i
           /\ txs[i].prev < i
           /\ txs[i].prev # 0 => Made(txs[i].prev) /\ txs[txs[i].prev].root = txs[i].root)'
  <2> SUFFICES ASSUME NEW i \in Txs, Made(i)'
               PROVE  /\ txs'[i].root <= i /\ txs'[i].prev < i
                      /\ txs'[i].prev # 0 => /\ txs'[i].prev \in Txs
                                             /\ txs'[txs'[i].prev] # None
                                             /\ txs'[txs'[i].prev].root = txs'[i].root
    BY DEF Made
  <2>1. CASE i = k
    <3>1. prev < k /\ (prev # 0 => prev \in Txs /\ prev # k /\ Made(prev))
      BY <1>1, <1>n, VoteAssumption DEF Made, Txs
    <3> QED BY <1>1, <1>2, <1>3, <2>1, <3>1 DEF Made
  <2>2. CASE i # k
    <3>1. txs[i].root <= i /\ txs[i].prev < i /\ Made(i)
      BY <1>1, <2>2 DEF History
    <3>2. ASSUME txs[i].prev # 0
          PROVE Made(txs[i].prev) /\ txs[txs[i].prev].root = txs[i].root /\ txs[i].prev # k
      BY <1>1, <3>1, <3>2, <1>n DEF History, Made
    <3> QED BY <1>1, <2>2, <3>1, <3>2 DEF Made
  <2> QED BY <2>1, <2>2
<1>8. (\A i, l \in Txs : Made(i) /\ Made(l) /\ txs[i].root = txs[l].root
                          => txs[i].seq = txs[l].seq)'
  <2> SUFFICES ASSUME NEW i \in Txs, NEW l \in Txs, Made(i)', Made(l)',
                      txs'[i].root = txs'[l].root
               PROVE  txs'[i].seq = txs'[l].seq
    OBVIOUS
  <2>1. CASE i # k /\ l # k
    BY <1>1, <2>1 DEF History
  <2>2. CASE i = k /\ l # k
    BY <1>1, <1>2, <1>4, <2>2
  <2>3. CASE i # k /\ l = k
    BY <1>1, <1>2, <1>4, <2>3
  <2>4. CASE i = k /\ l = k
    BY <2>4
  <2> QED BY <2>1, <2>2, <2>3, <2>4
<1>9. (\A i \in Txs : Executed(i) => txs[i].seq < sequence)'
  BY <1>1, <1>5 DEF History
<1>10. (\A i, l \in Txs : Executed(i) /\ Executed(l) /\ txs[i].seq = txs[l].seq => i = l)'
  BY <1>1, <1>5 DEF History
<1> QED
  BY <1>6, <1>7, <1>8, <1>9, <1>10 DEF History

(* A new transaction changes nothing for the others. *)
LEMMA SignedFalls ==
  ASSUME TypeOK, History, sequence' = sequence,
         NEW k \in Txs, NEW kind \in {"vote", "other"}, NEW seq \in Nat,
         NEW prev \in Txs \cup {0}, SignedAs(k, kind, seq, prev), prev # 0 => Made(prev),
         NEW l \in Txs, l # k, Live(l)', ~AnteFailed(l)'
  PROVE  Live(l) /\ ~AnteFailed(l) /\ Made(l)
<1>1. /\ ~Made(k)
      /\ \A i \in Txs : i # k => (Made(i)' <=> Made(i)) /\ txs'[i] = txs[i]
  BY LastSigned, SignedGrows
<1>2. Live(l) /\ Made(l)
  BY <1>1 DEF Live, Made
<1>3. ~AnteFailed(l)
  BY <1>1 DEF AnteFailed, Made
<1> QED
  BY <1>2, <1>3

LEMMA OpensKeeps ==
  ASSUME TypeOK, TypeOK', History, Guarded, NoRivalAttempts, NEW k \in Txs, Opens(k)
  PROVE  History' /\ Guarded' /\ NoRivalAttempts'
<1>1. PICK kind \in {"vote", "other"} : SignedAs(k, kind, sequence, 0)
  BY DEF Opens
<1>2. sequence \in Nat /\ sequence' = sequence /\ journal' = Pending(k) /\ journal.status # "pending"
  BY DEF Opens, TypeOK
<1>3. /\ \A l \in Txs : Made(l) => l < k
      /\ Made(k)'
      /\ \A l \in Txs : l # k => (Made(l)' <=> Made(l)) /\ txs'[l] = txs[l]
  BY <1>1, <1>2, LastSigned
<1>4. ASSUME NEW l \in Txs, Live(l)', ~AnteFailed(l)' PROVE l = k
  BY <1>1, <1>2, <1>4, SignedFalls DEF Guarded
<1>5. History'
  BY <1>1, <1>2, SignedHistory
<1>6. Guarded'
  BY <1>2, <1>3, <1>4 DEF Guarded, Pending, Made
<1>7. NoRivalAttempts'
  <2> SUFFICES ASSUME NEW i \in Txs, NEW l \in Txs, i < l, txs'[l] # None,
                      Live(i)', ~AnteFailed(i)'
               PROVE  FALSE
    BY DEF NoRivalAttempts
  <2>1. i = k /\ l # k
    BY <1>4 DEF Txs
  <2>2. l < k
    BY <1>3, <2>1 DEF Made
  <2> QED BY <2>1, <2>2, VoteAssumption DEF Txs
<1> QED
  BY <1>5, <1>6, <1>7

LEMMA RenewsKeeps ==
  ASSUME TypeOK, TypeOK', History, Guarded, NoRivalAttempts, NEW k \in Txs, Renews(k)
  PROVE  History' /\ Guarded' /\ NoRivalAttempts'
<1> DEFINE prev == journal.tx
<1>1. /\ Made(prev) /\ prev \in Txs /\ txs[prev].seq \in Nat
      /\ SignedAs(k, "vote", txs[prev].seq, prev)
      /\ sequence' = sequence /\ journal' = Pending(k)
  BY DEF Renews, TypeOK, Made, Tx
<1>2. prev # 0
  BY <1>1 DEF Txs
<1> HIDE DEF prev
<1>3. /\ \A l \in Txs : Made(l) => l < k
      /\ Made(k)'
      /\ \A l \in Txs : l # k => (Made(l)' <=> Made(l)) /\ txs'[l] = txs[l]
  BY <1>1, LastSigned
<1>4. txs'[k].root = txs[prev].root
  BY <1>1, <1>2 DEF SignedAs, TypeOK
<1>5. ASSUME NEW l \in Txs, Live(l)', ~AnteFailed(l)'
      PROVE  txs'[l].root = txs[prev].root /\ (l # k => Live(l) /\ ~AnteFailed(l) /\ Made(l))
  <2>1. CASE l = k
    BY <1>4, <2>1
  <2>2. CASE l # k
    <3>1. Live(l) /\ ~AnteFailed(l) /\ Made(l)
      BY <1>1, <1>5, <2>2, SignedFalls
    <3> QED BY <1>3, <2>2, <3>1 DEF Guarded, prev
  <2> QED BY <2>1, <2>2
<1>6. History'
  BY <1>1, SignedHistory
<1>7. Guarded'
  BY <1>1, <1>3, <1>4, <1>5 DEF Guarded, Pending, Made
<1>8. NoRivalAttempts'
  <2> SUFFICES ASSUME NEW i \in Txs, NEW l \in Txs, i < l, txs'[l] # None,
                      Live(i)', ~AnteFailed(i)'
               PROVE  txs'[i].root = txs'[l].root
    BY DEF NoRivalAttempts
  <2>1. CASE l = k
    BY <1>4, <1>5, <2>1
  <2>2. CASE l # k
    <3>1. Made(l) /\ l < k
      BY <1>3, <2>2 DEF Made
    <3>2. i # k
      BY <3>1, VoteAssumption DEF Txs
    <3>3. Live(i) /\ ~AnteFailed(i)
      BY <1>5, <3>2
    <3> QED BY <1>3, <2>2, <3>1, <3>2, <3>3 DEF NoRivalAttempts, Made
  <2> QED BY <2>1, <2>2
<1> QED
  BY <1>6, <1>7, <1>8

-----------------------------------------------------------------------------
LEMMA StepGrows ==
  ASSUME IInv, [Next]_vars
  PROVE  Grows
<1>1. ASSUME NEW k \in Txs, Opens(k) \/ Renews(k) PROVE Grows
  BY <1>1, SignedGrows DEF Opens, Renews, IInv
<1> QED
  BY <1>1, Effects DEF Ripens

LEMMA AttemptsKept ==
  ASSUME Grows, NEW r \in Receipt
  PROVE  /\ Attempts(r) => Attempts(r)'
         /\ Noted(r) => Noted(r)'
<1>1. Attempts(r) => Attempts(r)'
  BY DEF Attempts, Grows, Made, Receipt
<1>2. Noted(r) => Noted(r)'
  BY <1>1 DEF Noted, Attempts, Grows, Made, Receipt
<1> QED
  BY <1>1, <1>2

(* A tab keeps what it relies on while another one, or the chain, moves. *)
LEMMA HeldKept ==
  ASSUME TypeOK, Recorded, Grows, NEW u \in Tabs, Held(u),
         pc'[u] = pc[u], task'[u] = task[u], mine'[u] = mine[u], base'[u] = base[u],
         lock = u => lock' = u,
         receipt # None => receipt' # None,
         \/ journal' = journal
         \/ journal.status = "pending" /\ journal' = NoJournal
         \/ lock # u
  PROVE  Held(u)'
<1>1. pc[u] \in {"again", "account", "resign", "record", "rerecord", "ready", "send"} =>
          /\ mine[u] \in Txs /\ txs'[mine[u]] # None
          /\ journal' \in {NoJournal, Pending(mine[u])}
  BY DEF Held, Grows, Made
<1>2. pc[u] = "rerecord" => txs'[mine[u]].root = txs'[base[u].tx].root
  <2> SUFFICES ASSUME pc[u] = "rerecord" PROVE txs'[mine[u]].root = txs'[base[u].tx].root
    OBVIOUS
  <2>1. Made(mine[u]) /\ base[u] # None /\ txs[mine[u]].root = txs[base[u].tx].root
    BY DEF Held
  <2>2. Made(base[u].tx)
    BY <2>1 DEF Recorded, Attempts
  <2> QED BY <2>1, <2>2 DEF Grows, Made
<1>3. pc[u] = "sign" => journal'.status = "signing"
  BY DEF Held
<1> QED
  BY <1>1, <1>2, <1>3 DEF Held, Made, NoJournal, Pending

LEMMA EndHeld ==
  ASSUME TypeOK, NEW t \in Tabs, End(t)
  PROVE  Held(t)'
  BY DEF End, Go, Held, TypeOK

(* The tabs other than t, during a step of t. *)
LEMMA Bystanders ==
  ASSUME TypeOK, Recorded, Suspended, Grows, NEW t \in Tabs, NEW u \in Tabs, u # t,
         pc'[u] = pc[u], task'[u] = task[u], mine'[u] = mine[u], base'[u] = base[u],
         lock' = lock \/ (lock \in {t, None} /\ lock' \in {t, None}),
         receipt # None => receipt' # None,
         \/ journal' = journal
         \/ journal.status = "pending" /\ journal' = NoJournal
         \/ lock = t
  PROVE  Held(u)'
  BY HeldKept, VoteNoneAssumption DEF Suspended

LEMMA EndBystanders ==
  ASSUME TypeOK, TypeOK', Recorded, Suspended, Grows, NEW t \in Tabs, End(t),
         receipt # None => receipt' # None,
         \/ journal' = journal
         \/ journal.status = "pending" /\ journal' = NoJournal
         \/ lock = t
  PROVE  Suspended'
<1>1. ASSUME NEW u \in Tabs, u # t PROVE Held(u)'
  <2>1. pc'[u] = pc[u] /\ task'[u] = task[u] /\ mine'[u] = mine[u] /\ base'[u] = base[u]
    BY <1>1 DEF End, Go, TypeOK
  <2>2. lock' = lock \/ (lock \in {t, None} /\ lock' \in {t, None})
    BY DEF End, Release
  <2> QED BY <1>1, <2>1, <2>2, Bystanders
<1> QED
  BY <1>1, EndHeld DEF Suspended

LEMMA SuspendedKept ==
  ASSUME IInv, [Next]_vars, TypeOK'
  PROVE  Suspended'
<1> USE VoteAssumption, VoteNoneAssumption
<1>0. TypeOK /\ History /\ Guarded /\ Recorded /\ Suspended
  BY DEF IInv
<1>g. Grows
  BY StepGrows
<1>b. ASSUME NEW t \in Tabs, Held(t)',
             \A u \in Tabs : u # t => /\ pc'[u] = pc[u] /\ task'[u] = task[u]
                                      /\ mine'[u] = mine[u] /\ base'[u] = base[u],
             lock' = lock \/ (lock \in {t, None} /\ lock' \in {t, None}),
             receipt # None => receipt' # None,
             \/ journal' = journal
             \/ journal.status = "pending" /\ journal' = NoJournal
             \/ lock = t
      PROVE Suspended'
  <2>1. ASSUME NEW u \in Tabs, u # t PROVE Held(u)'
    BY <1>0, <1>g, <1>b, <2>1, Bystanders
  <2> QED BY <1>b, <2>1 DEF Suspended
<1>c. ASSUME pc' = pc, task' = task, mine' = mine, base' = base, lock' = lock,
             journal' = journal, receipt # None => receipt' # None
      PROVE Suspended'
  BY <1>0, <1>g, <1>c, HeldKept DEF Suspended
<1>h. ASSUME NEW t \in Tabs, pc[t] \notin {"idle", "lock", "confirm", "check"} PROVE lock = t
  BY <1>0, <1>h DEF Suspended, Held
<1>1. ASSUME NEW t \in Tabs, StartVote(t) \/ StartOther(t) \/ StartResume(t) \/ StartCheck(t)
      PROVE Suspended'
  <2>1. /\ pc'[t] \in {"lock", "check"} /\ task'[t] \in {"vote", "other", "resume", "replace", "check"}
        /\ pc'[t] = "lock" => task'[t] # "check"
        /\ task'[t] \in {"resume", "replace"} =>
               base'[t] # None /\ base'[t].state = "broadcast" /\ mine'[t] = base'[t].tx
    BY <1>0, <1>1 DEF StartVote, StartOther, StartResume, StartCheck, Begin, Go, TypeOK, Broadcast
  <2>2. Held(t)'
    BY <2>1 DEF Held
  <2>3. \A u \in Tabs : u # t => /\ pc'[u] = pc[u] /\ task'[u] = task[u]
                                 /\ mine'[u] = mine[u] /\ base'[u] = base[u]
    BY <1>0, <1>1 DEF StartVote, StartOther, StartResume, StartCheck, Begin, Go, TypeOK
  <2>4. lock' = lock /\ journal' = journal /\ receipt' = receipt
    BY <1>1 DEF StartVote, StartOther, StartResume, StartCheck
  <2> QED BY <1>b, <2>2, <2>3, <2>4
<1>2. ASSUME NEW t \in Tabs, Lock(t) PROVE Suspended'
  <2>1. /\ lock' = t /\ pc[t] = "lock" /\ task' = task /\ mine' = mine /\ base' = base
        /\ pc'[t] \in IF task[t] \in {"vote", "other"} THEN {"reconcile"} ELSE {"review", "inspect"}
        /\ task[t] \in {"vote", "other", "resume", "replace"}
    BY <1>0, <1>2 DEF Lock, Go, TypeOK, Suspended, Held
  <2>2. task[t] \in {"resume", "replace"} =>
            base[t] # None /\ base[t].state = "broadcast" /\ mine[t] = base[t].tx
    BY <1>0, <2>1 DEF Suspended, Held
  <2>3. Held(t)'
    BY <2>1, <2>2 DEF Held
  <2>4. \A u \in Tabs : u # t => pc'[u] = pc[u]
    BY <1>0, <1>2 DEF Lock, Go, TypeOK
  <2>5. lock = None /\ receipt' = receipt /\ journal' = journal
    BY <1>2 DEF Lock
  <2> QED BY <1>b, <2>1, <2>3, <2>4, <2>5
<1>3. ASSUME NEW t \in Tabs,
             LockTaken(t) \/ SignUnusable(t) \/ VoteRefused(t) \/ ResumeFails(t)
             \/ CheckUnknown(t) \/ Crash(t)
      PROVE Suspended'
  <2>1. End(t) /\ journal' = journal /\ receipt' = receipt
    BY <1>3 DEF LockTaken, SignUnusable, VoteRefused, ResumeFails, CheckUnknown, Crash
  <2> QED BY <1>0, <1>g, <2>1, EndBystanders
<1>4. ASSUME NEW t \in Tabs, ReconcileStops(t) \/ SignRefused(t) PROVE Suspended'
  <2>1. End(t) /\ receipt' = receipt /\ lock = t
    BY <1>4, <1>h DEF ReconcileStops, SignRefused
  <2> QED BY <1>0, <1>g, <2>1, EndBystanders
<1>5. ASSUME NEW t \in Tabs, SaveSigning(t) PROVE Suspended'
  <2>1. /\ lock = t /\ lock' = lock /\ task' = task /\ mine' = mine /\ base' = base
        /\ pc'[t] = "sign" /\ journal'.status = "signing" /\ receipt' = receipt
    BY <1>0, <1>5, <1>h DEF SaveSigning, Go, TypeOK
  <2>2. task[t] \in {"vote", "other"}
    BY <1>0, <1>5 DEF SaveSigning, Suspended, Held
  <2>3. Held(t)'
    BY <2>1, <2>2 DEF Held
  <2>4. \A u \in Tabs : u # t => pc'[u] = pc[u]
    BY <1>0, <1>5 DEF SaveSigning, Go, TypeOK
  <2> QED BY <1>b, <2>1, <2>3, <2>4
<1>6. ASSUME NEW t \in Tabs, Signed(t) PROVE Suspended'
  <2>1. PICK k \in Txs : /\ SignedAs(k, task[t], sequence, 0) /\ journal' = Pending(k)
                         /\ mine' = [mine EXCEPT ![t] = k]
    BY <1>6 DEF Signed
  <2>2. /\ lock = t /\ lock' = lock /\ task' = task /\ base' = base /\ receipt' = receipt
        /\ pc'[t] = IF task[t] = "vote" THEN "record" ELSE "send"
    BY <1>0, <1>6, <1>h DEF Signed, Go, TypeOK
  <2>3. task[t] \in {"vote", "other"} /\ sequence \in Nat
    BY <1>0, <1>6 DEF Signed, Suspended, Held, TypeOK
  <2>4. Made(k)' /\ mine'[t] = k
    BY <1>0, <2>1, <2>3, LastSigned DEF TypeOK
  <2>5. Held(t)'
    BY <2>1, <2>2, <2>3, <2>4 DEF Held, Made
  <2>6. \A u \in Tabs : u # t => pc'[u] = pc[u] /\ mine'[u] = mine[u]
    BY <1>0, <1>6, <2>1 DEF Signed, Go, TypeOK
  <2> QED BY <1>b, <2>2, <2>5, <2>6
<1>7. ASSUME NEW t \in Tabs, RecordVote(t) \/ RecordReplacement(t) \/ Ready(t) PROVE Suspended'
  <2>1. /\ lock = t /\ lock' = lock /\ task' = task /\ mine' = mine /\ base' = base
        /\ journal' = journal /\ pc'[t] \in {"send", "ready"}
    BY <1>0, <1>7, <1>h DEF RecordVote, RecordReplacement, Ready, Go, TypeOK
  <2>2. Made(mine[t]) /\ journal \in {NoJournal, Pending(mine[t])}
    BY <1>0, <1>7 DEF RecordVote, RecordReplacement, Ready, Suspended, Held
  <2>3. ASSUME RecordVote(t) \/ RecordReplacement(t) PROVE receipt' # None
    <3>1. mine[t] \in Txs
      BY <2>2 DEF Made
    <3>2. CASE RecordVote(t)
      <4>1. receipt' \in Receipt
        BY <3>1, <3>2, RecordTyped DEF RecordVote, Receipt
      <4> QED BY <4>1
    <3>3. CASE RecordReplacement(t)
      <4>1. base[t] \in Receipt
        BY <1>0, <3>3 DEF RecordReplacement, Suspended, Held, TypeOK
      <4>2. receipt' \in Receipt
        BY <3>1, <3>3, <4>1 DEF RecordReplacement, Receipt, Replaced
      <4> QED BY <4>2
    <3> QED BY <2>3, <3>2, <3>3
  <2>4. Ready(t) => receipt' = receipt /\ task[t] \in {"resume", "replace"}
    BY <1>0 DEF Ready, Suspended, Held
  <2>5. (RecordReplacement(t) => task[t] \in {"resume", "replace"} /\ pc'[t] = "ready")
        /\ (pc'[t] = "ready" => RecordReplacement(t))
    BY <1>0, <1>7 DEF RecordVote, RecordReplacement, Ready, Go, Suspended, Held, TypeOK
  <2>6. mine[t] \in Txs /\ txs'[mine[t]] # None
    BY <1>g, <2>2 DEF Grows, Made
  <2>7. Held(t)'
    BY <1>7, <2>1, <2>2, <2>3, <2>4, <2>5, <2>6 DEF Held, Made
  <2>8. \A u \in Tabs : u # t => pc'[u] = pc[u]
    BY <1>0, <1>7 DEF RecordVote, RecordReplacement, Ready, Go, TypeOK
  <2>9. receipt # None => receipt' # None
    BY <1>7, <2>3, <2>4
  <2> QED BY <1>b, <2>1, <2>7, <2>8, <2>9
<1>8. ASSUME NEW t \in Tabs, Send(t) PROVE Suspended'
  BY <1>8, <1>c DEF Send, tabs
<1>9. ASSUME NEW t \in Tabs, SendUnknown(t) \/ Confirm(t) PROVE Suspended'
  <2>1. End(t) /\ journal' = journal
    BY <1>9 DEF SendUnknown, Confirm
  <2>2. receipt # None => receipt' # None
    <3>1. CASE SendUnknown(t)
      <4>1. receipt \in Receipt /\ receipt' = [receipt EXCEPT !.gas = TRUE] => receipt' \in Receipt
        BY DEF Receipt
      <4> QED BY <1>0, <3>1, <4>1 DEF SendUnknown, TypeOK
    <3>2. CASE Confirm(t)
      <4>1. base[t] \in Receipt
        BY <1>0, <3>2 DEF Suspended, Held, Confirm, TypeOK
      <4>2. receipt' = [base[t] EXCEPT !.state = StateOf(base[t].tx)] => receipt' \in Receipt
        BY <4>1 DEF Receipt, StateOf
      <4> QED BY <3>2, <4>2 DEF Confirm
    <3> QED BY <1>9, <3>1, <3>2
  <2> QED BY <1>0, <1>g, <2>1, <2>2, EndBystanders
<1>10. ASSUME NEW t \in Tabs, SendAnswered(t) PROVE Suspended'
  <2>1. lock = t /\ receipt' = receipt
    BY <1>10, <1>h DEF SendAnswered
  <2>2. CASE End(t)
    BY <1>0, <1>g, <2>1, <2>2, EndBystanders
  <2>3. CASE ~End(t)
    <3>1. /\ pc'[t] \in {"confirm", "check"} /\ task' = task /\ mine' = mine /\ base'[t] = receipt
          /\ pc'[t] = "confirm" => task[t] = "vote"
          /\ task[t] # "other" /\ pc[t] = "send"
      BY <1>0, <1>10, <2>3 DEF SendAnswered, Go, TypeOK
    <3>2. pc'[t] = "confirm" => base'[t] # None
      BY <1>0, <3>1 DEF Suspended, Held
    <3>3. Held(t)'
      BY <3>1, <3>2 DEF Held
    <3>4. \A u \in Tabs : u # t => pc'[u] = pc[u] /\ base'[u] = base[u]
      BY <1>0, <1>10, <2>3 DEF SendAnswered, Go, TypeOK
    <3>5. lock' \in {t, None}
      BY <1>10, <2>1, <2>3 DEF SendAnswered, Release
    <3> QED BY <1>b, <2>1, <3>1, <3>3, <3>4, <3>5
  <2> QED BY <2>2, <2>3
<1>11. ASSUME NEW t \in Tabs, Looks(t), ~Ready(t) PROVE Suspended'
  <2>1. /\ lock = t /\ lock' = lock /\ task' = task /\ mine' = mine /\ base' = base
        /\ journal' = journal /\ receipt' = receipt /\ txs' = txs
        /\ pc'[t] \in {"inspect", "saved", "again", "account", "resign", "ready"}
        /\ pc'[t] = "again" => journal = Pending(mine[t])
        /\ pc'[t] \in {"account", "resign", "ready"} => pc[t] \in {"again", "account"}
    BY <1>0, <1>11, <1>h DEF Looks, Review, Inspect, InspectSaved, AskAccount, Go, TypeOK
  <2>2. /\ task[t] \in {"resume", "replace"}
        /\ base[t] # None /\ base[t].state = "broadcast" /\ mine[t] = base[t].tx
        /\ pc[t] \in {"again", "account"} =>
               Made(mine[t]) /\ journal \in {NoJournal, Pending(mine[t])}
    BY <1>0, <1>11, <2>1 DEF Looks, Review, Inspect, InspectSaved, AskAccount, Suspended, Held
  <2>3. journal = Pending(mine[t]) => Made(mine[t])
    BY <1>0 DEF Guarded, Pending
  <2>4. Held(t)'
    BY <2>1, <2>2, <2>3 DEF Held, Made
  <2>5. \A u \in Tabs : u # t => pc'[u] = pc[u]
    BY <1>0, <1>11 DEF Looks, Review, Inspect, InspectSaved, AskAccount, Go, TypeOK
  <2> QED BY <1>b, <2>1, <2>4, <2>5
<1>12. ASSUME NEW t \in Tabs, Resign(t) PROVE Suspended'
  <2>1. PICK k \in Txs : /\ SignedAs(k, "vote", txs[mine[t]].seq, mine[t])
                         /\ journal' = Pending(k) /\ mine' = [mine EXCEPT ![t] = k]
    BY <1>12 DEF Resign
  <2>2. /\ lock = t /\ lock' = lock /\ task' = task /\ base' = base /\ receipt' = receipt
        /\ pc'[t] = "rerecord" /\ journal = Pending(mine[t])
    BY <1>0, <1>12, <1>h DEF Resign, Go, TypeOK
  <2>3. /\ Made(mine[t]) /\ task[t] \in {"resume", "replace"}
        /\ base[t] # None /\ base[t].state = "broadcast" /\ mine[t] = base[t].tx
    BY <1>0, <1>12, <2>2 DEF Resign, Suspended, Held, Guarded, Pending
  <2>4. mine[t] \in Txs /\ mine[t] # 0 /\ txs[mine[t]].seq \in Nat
    BY <1>0, <2>3 DEF Made, TypeOK, Tx, Txs
  <2>5. Made(k)' /\ mine'[t] = k /\ mine[t] # k
    BY <1>0, <2>1, <2>3, <2>4, LastSigned, SignedGrows DEF TypeOK
  <2>6. txs'[k].root = txs[mine[t]].root /\ txs'[mine[t]] = txs[mine[t]]
    BY <1>0, <2>1, <2>4, <2>5 DEF SignedAs, TypeOK
  <2>7. Held(t)'
    BY <2>1, <2>2, <2>3, <2>5, <2>6 DEF Held, Made
  <2>8. \A u \in Tabs : u # t => pc'[u] = pc[u] /\ mine'[u] = mine[u]
    BY <1>0, <1>12, <2>1 DEF Resign, Go, TypeOK
  <2> QED BY <1>b, <2>2, <2>7, <2>8
<1>13. ASSUME NEW t \in Tabs, CheckFound(t) PROVE Suspended'
  <2>1. End(t) /\ (journal' = journal \/ (journal.status = "pending" /\ journal' = NoJournal))
    BY <1>13 DEF CheckFound, Pending
  <2>2. base[t] \in Receipt
    BY <1>0, <1>13 DEF CheckFound, TypeOK
  <2>3. PICK k \in Evidence(base[t]) :
          receipt' = [base[t] EXCEPT !.state = StateOf(k), !.tx = k, !.previous = @ \ {k}]
    BY <1>13 DEF CheckFound
  <2>4. k \in Txs /\ StateOf(k) \in {"included", "failed"}
    BY <2>2, <2>3 DEF Evidence, Receipt, StateOf
  <2>5. receipt' \in Receipt
    BY <2>2, <2>3, <2>4 DEF Receipt
  <2> QED BY <1>0, <1>g, <2>1, <2>5, EndBystanders
<1>14. CASE Repair
  <2>1. receipt \in Receipt /\ journal.tx \in Txs
    BY <1>0, <1>14 DEF Repair, NeedsRepair, TypeOK, Guarded, Made
  <2>2. receipt' \in Receipt
    BY <1>14, <2>1 DEF Repair, Receipt, Replaced
  <2> QED BY <1>14, <2>2, <1>c DEF Repair, tabs
<1>15. ASSUME NEW k \in Txs, Execute(k) \/ FailAnte(k) PROVE Suspended'
  BY <1>15, <1>c DEF Execute, FailAnte, tabs
<1>16. CASE SpendElsewhere \/ UNCHANGED vars
  BY <1>16, <1>c DEF SpendElsewhere, vars, tabs
<1> QED
  BY <1>1, <1>2, <1>3, <1>4, <1>5, <1>6, <1>7, <1>8, <1>9, <1>10, <1>11, <1>12, <1>13,
     <1>14, <1>15, <1>16 DEF Next, Looks

LEMMA RecordedKept ==
  ASSUME IInv, [Next]_vars, TypeOK'
  PROVE  Recorded'
<1> USE VoteAssumption, VoteNoneAssumption
<1>0. TypeOK /\ History /\ Guarded /\ Recorded /\ Suspended
  BY DEF IInv
<1>g. Grows
  BY StepGrows
<1>t. receipt' # None => receipt' \in Receipt
  BY DEF TypeOK
<1>b. ASSUME receipt' = receipt \/ (txs' = txs /\ receipt' # None /\ Noted(receipt')),
             \A u \in Tabs : base'[u] \in {base[u], receipt, None}
      PROVE Recorded'
  <2>1. ASSUME receipt' # None PROVE Noted(receipt)'
    <3>1. CASE receipt' = receipt
      <4>1. receipt \in Receipt /\ Noted(receipt)
        BY <1>0, <2>1, <3>1 DEF TypeOK, Recorded
      <4> QED BY <1>g, <3>1, <4>1, AttemptsKept DEF Noted, Attempts, Made
    <3>2. CASE txs' = txs /\ Noted(receipt')
      BY <3>2 DEF Noted, Attempts, Made
    <3> QED BY <1>b, <3>1, <3>2
  <2>2. ASSUME NEW u \in Tabs, base'[u] # None PROVE Attempts(base[u])'
    <3>1. base'[u] \in Receipt /\ Attempts(base'[u])
      BY <1>0, <1>b, <2>2 DEF TypeOK, Recorded, Noted
    <3> QED BY <1>g, <3>1, AttemptsKept DEF Attempts, Made
  <2> QED BY <2>1, <2>2 DEF Recorded
<1>e. ASSUME NEW t \in Tabs, End(t) PROVE \A u \in Tabs : base'[u] \in {base[u], receipt, None}
  BY <1>0, <1>e DEF End, TypeOK
<1>1. ASSUME NEW t \in Tabs, StartVote(t) \/ StartOther(t) \/ StartResume(t) \/ StartCheck(t)
      PROVE Recorded'
  BY <1>0, <1>1, <1>b DEF StartVote, StartOther, StartResume, StartCheck, Begin, TypeOK
<1>2. ASSUME NEW t \in Tabs,
             LockTaken(t) \/ SignUnusable(t) \/ VoteRefused(t) \/ ResumeFails(t)
             \/ CheckUnknown(t) \/ Crash(t) \/ ReconcileStops(t) \/ SignRefused(t)
      PROVE Recorded'
  BY <1>2, <1>b, <1>e DEF LockTaken, SignUnusable, VoteRefused, ResumeFails, CheckUnknown, Crash,
     ReconcileStops, SignRefused
<1>3. ASSUME NEW t \in Tabs,
             Lock(t) \/ SaveSigning(t) \/ Signed(t) \/ Looks(t) \/ Resign(t) \/ Send(t)
      PROVE Recorded'
  BY <1>3, <1>b DEF Lock, SaveSigning, Signed, Looks, Review, Inspect, InspectSaved, AskAccount,
     Resign, Ready, Send, tabs
<1>4. ASSUME NEW t \in Tabs, RecordVote(t) PROVE Recorded'
  <2>1. Made(mine[t])
    BY <1>0, <1>4 DEF RecordVote, Suspended, Held
  <2>2. receipt' \in Receipt
    BY <1>4, <2>1 DEF RecordVote, Receipt, Made
  <2>3. Noted(receipt')
    BY <1>4, <2>1 DEF RecordVote, Noted, Attempts
  <2> QED BY <1>4, <1>b, <2>2, <2>3 DEF RecordVote
<1>5. ASSUME NEW t \in Tabs, SendUnknown(t) PROVE Recorded'
  <2>1. ASSUME receipt \in Receipt, receipt' = [receipt EXCEPT !.gas = TRUE]
        PROVE receipt' # None /\ Noted(receipt')
    <3>1. /\ receipt' \in Receipt /\ receipt'.tx = receipt.tx /\ receipt'.state = receipt.state
          /\ receipt'.previous = receipt.previous
      BY <2>1 DEF Receipt
    <3>2. Noted(receipt)
      BY <1>0, <2>1 DEF Recorded
    <3> QED BY <3>1, <3>2 DEF Noted, Attempts
  <2>2. receipt' = receipt \/ (receipt \in Receipt /\ receipt' = [receipt EXCEPT !.gas = TRUE])
    BY <1>0, <1>5 DEF SendUnknown, Broadcast, TypeOK
  <2>3. txs' = txs /\ End(t)
    BY <1>5 DEF SendUnknown
  <2> QED BY <1>b, <1>e, <2>1, <2>2, <2>3
<1>6. ASSUME NEW t \in Tabs, SendAnswered(t) PROVE Recorded'
  <2>1. receipt' = receipt
    BY <1>6 DEF SendAnswered
  <2>2. CASE End(t)
    BY <1>b, <1>e, <2>1, <2>2
  <2>3. CASE ~End(t)
    BY <1>0, <1>6, <1>b, <2>1, <2>3 DEF SendAnswered, TypeOK
  <2> QED BY <2>2, <2>3
<1>7. ASSUME NEW t \in Tabs, Confirm(t) PROVE Recorded'
  <2>1. base[t] \in Receipt /\ Attempts(base[t])
    BY <1>0, <1>7 DEF Suspended, Held, Confirm, TypeOK, Recorded
  <2>2. ASSUME Included(base[t].tx), receipt' = [base[t] EXCEPT !.state = StateOf(base[t].tx)]
        PROVE receipt' # None /\ Noted(receipt')
    <3>1. /\ receipt' \in Receipt /\ receipt'.tx = base[t].tx /\ receipt'.previous = base[t].previous
          /\ receipt'.state = StateOf(base[t].tx)
      BY <2>1, <2>2 DEF Receipt, StateOf
    <3> QED BY <2>1, <2>2, <3>1 DEF Noted, Attempts, StateOf, Included
  <2>3. /\ txs' = txs /\ End(t)
        /\ \/ receipt' = receipt
           \/ Included(base[t].tx) /\ receipt' = [base[t] EXCEPT !.state = StateOf(base[t].tx)]
    BY <1>7 DEF Confirm
  <2> QED BY <1>b, <1>e, <2>2, <2>3
<1>8. ASSUME NEW t \in Tabs, RecordReplacement(t) PROVE Recorded'
  <2>1. /\ base[t] \in Receipt /\ base[t].state = "broadcast" /\ Attempts(base[t])
        /\ Made(mine[t]) /\ mine[t] \in Txs /\ txs[mine[t]].root = txs[base[t].tx].root
    BY <1>0, <1>8 DEF Suspended, Held, RecordReplacement, TypeOK, Recorded, Made
  <2>2. /\ receipt' \in Receipt /\ receipt'.tx = mine[t] /\ receipt'.state = "broadcast"
        /\ receipt'.previous = base[t].previous \cup {base[t].tx}
    BY <1>8, <2>1 DEF RecordReplacement, Receipt, Replaced
  <2>3. Noted(receipt')
    BY <2>1, <2>2 DEF Noted, Attempts
  <2> QED BY <1>8, <1>b, <2>2, <2>3 DEF RecordReplacement
<1>9. ASSUME NEW t \in Tabs, CheckFound(t) PROVE Recorded'
  <2>1. base[t] \in Receipt /\ Attempts(base[t]) /\ txs' = txs /\ End(t)
    BY <1>0, <1>9 DEF CheckFound, TypeOK, Recorded
  <2>2. PICK k \in Evidence(base[t]) :
          receipt' = [base[t] EXCEPT !.state = StateOf(k), !.tx = k, !.previous = @ \ {k}]
    BY <1>9 DEF CheckFound
  <2>3. Made(k) /\ Included(k) /\ k \in Txs /\ txs[k].root = txs[base[t].tx].root
    BY <2>1, <2>2 DEF Evidence, Attempts, Made
  <2>4. StateOf(k) \in {"included", "failed"}
    BY DEF StateOf
  <2>5. /\ receipt' \in Receipt /\ receipt'.tx = k /\ receipt'.state = StateOf(k)
        /\ receipt'.previous = base[t].previous \ {k}
    BY <2>1, <2>2, <2>3, <2>4 DEF Receipt
  <2>6. Noted(receipt')
    BY <2>1, <2>3, <2>5 DEF Noted, Attempts, StateOf, Included
  <2> QED BY <1>b, <1>e, <2>1, <2>5, <2>6
<1>10. CASE Repair
  <2>1. receipt \in Receipt /\ Noted(receipt) /\ Made(journal.tx) /\ txs[journal.tx].prev = receipt.tx
        /\ receipt.state = "broadcast"
    BY <1>0, <1>10 DEF Repair, NeedsRepair, TypeOK, Guarded, Recorded
  <2>2. receipt.tx # 0 /\ journal.tx \in Txs
    BY <2>1 DEF Noted, Attempts, Made, Txs
  <2>3. txs[journal.tx].root = txs[receipt.tx].root
    BY <1>0, <2>1, <2>2 DEF History
  <2>4. /\ receipt' \in Receipt /\ receipt'.tx = journal.tx /\ receipt'.state = "broadcast"
        /\ receipt'.previous = receipt.previous \cup {receipt.tx}
    BY <1>10, <2>1, <2>2 DEF Repair, Receipt, Replaced
  <2>5. Noted(receipt')
    BY <2>1, <2>3, <2>4 DEF Noted, Attempts
  <2> QED BY <1>10, <1>b, <2>4, <2>5 DEF Repair, tabs
<1>11. ASSUME NEW k \in Txs, Execute(k) \/ FailAnte(k) PROVE Recorded'
  BY <1>11, <1>b DEF Execute, FailAnte, tabs
<1>12. CASE SpendElsewhere \/ UNCHANGED vars
  BY <1>12, <1>b DEF SpendElsewhere, vars, tabs
<1> QED
  BY <1>1, <1>2, <1>3, <1>4, <1>5, <1>6, <1>7, <1>8, <1>9, <1>10, <1>11, <1>12 DEF Next, Looks

LEMMA InitOK == Init => IInv
<1> SUFFICES ASSUME Init PROVE IInv
  OBVIOUS
<1>1. TypeOK
  BY VoteAssumption, VoteNoneAssumption, JournalTyped DEF Init, TypeOK
<1>2. \A k \in Txs : txs[k] = None
  BY DEF Init
<1>3. History /\ Guarded /\ NoRivalAttempts
  BY <1>2 DEF Init, History, Guarded, NoRivalAttempts, Made, Executed, Live, NoJournal
<1>4. Recorded /\ Suspended
  BY DEF Init, Recorded, Suspended, Held
<1> QED
  BY <1>1, <1>3, <1>4 DEF IInv

LEMMA StepOK == IInv /\ [Next]_vars => IInv'
<1> SUFFICES ASSUME IInv, [Next]_vars PROVE IInv'
  OBVIOUS
<1>1. TypeOK'
  BY Types
<1>2. History' /\ Guarded' /\ NoRivalAttempts'
  <2>1. CASE Ripens /\ JournalStep
    BY <1>1, <2>1, RipensHistory, RipensGuarded, RipensNoRivals DEF IInv
  <2>2. ASSUME NEW k \in Txs, Opens(k) PROVE History' /\ Guarded' /\ NoRivalAttempts'
    BY <1>1, <2>2, OpensKeeps DEF IInv
  <2>3. ASSUME NEW k \in Txs, Renews(k) PROVE History' /\ Guarded' /\ NoRivalAttempts'
    BY <1>1, <2>3, RenewsKeeps DEF IInv
  <2> QED BY <2>1, <2>2, <2>3, Effects
<1> QED
  BY <1>1, <1>2, SuspendedKept, RecordedKept DEF IInv

LEMMA Inductive == Spec => []IInv
  BY InitOK, StepOK, PTL DEF Spec

-----------------------------------------------------------------------------
(* Every variable keeps its type. *)
THEOREM TypeCorrect == Spec => []TypeOK
<1>1. IInv => TypeOK
  BY DEF IInv
<1> QED
  BY <1>1, Inductive, PTL

(* Of all attempts of a vote, resent or replaced, at most one is executed. *)
THEOREM OneAttempt == Spec => []OneAttemptExecutes
<1>1. IInv => OneAttemptExecutes
  <2> SUFFICES ASSUME IInv, NEW k \in Txs, NEW l \in Txs, txs[k] # None, txs[l] # None,
                      txs[k].fate = "ok", txs[l].fate = "ok", txs[k].root = txs[l].root
               PROVE  k = l
    BY DEF OneAttemptExecutes
  <2>1. Executed(k) /\ Executed(l)
    BY DEF Executed, Made
  <2> QED BY <2>1 DEF IInv, History, Executed
<1> QED
  BY <1>1, Inductive, PTL

(* While an attempt may still be executed, only its own replacements are   *)
(* signed, unless an attempt failed in the ante handler.                   *)
THEOREM NoRivals == Spec => []NoRivalAttempts
<1>1. IInv => NoRivalAttempts
  BY DEF IInv
<1> QED
  BY <1>1, Inductive, PTL

(* What the page reports of a vote that was executed is final. *)
THEOREM ReportsFinal == Spec => []ExecutedReportIsFinal
<1>1. IInv => ExecutedReportIsFinal
  <2> SUFFICES ASSUME IInv, receipt # None, txs[receipt.tx].fate # "void" PROVE ReportIsFinal
    BY DEF ExecutedReportIsFinal
  <2>1. Noted(receipt) /\ TypeOK /\ History
    BY DEF IInv, Recorded
  <2>2. ASSUME receipt.state = "failed", NEW k \in {receipt.tx} \cup receipt.previous
        PROVE  txs[k].fate # "ok" /\ ~Live(k)
    <3>1. Executed(receipt.tx) /\ receipt.tx \in Txs /\ txs[receipt.tx].fate = "failed"
      BY <2>1, <2>2 DEF Noted, Attempts, Executed, Made
    <3>2. Made(k) /\ k \in Txs /\ txs[k].root = txs[receipt.tx].root
      BY <2>1, <2>2, <3>1 DEF Noted, Attempts, Executed, Made
    <3>3. txs[k].seq = txs[receipt.tx].seq
      BY <2>1, <3>1, <3>2 DEF History, Executed
    <3>4. txs[receipt.tx].seq < sequence
      BY <2>1, <3>1 DEF History
    <3>5. txs[k].seq \in Nat /\ sequence \in Nat
      BY <2>1, <3>2 DEF TypeOK, Tx, Made
    <3>6. ~Live(k)
      BY <3>3, <3>4, <3>5 DEF Live
    <3>7. txs[k].fate # "ok"
      BY <2>1, <3>1, <3>2, <3>3 DEF History, Executed
    <3> QED BY <3>6, <3>7
  <2> QED BY <2>1, <2>2 DEF ReportIsFinal, Noted
<1> QED
  BY <1>1, Inductive, PTL

(* What a replacement found at its last look at the record is still there  *)
(* as long as nobody wrote the record without the lock.                    *)
Watched == \A t \in Tabs : pc[t] \in {"account", "resign"} => Broadcast /\ receipt.tx = mine[t]

Followable == ~raced => Followed /\ Watched

(* A tab past its last look at the record holds the lock. *)
LEMMA OnlyHolder ==
  ASSUME IInv, NEW t \in Tabs, NEW u \in Tabs, lock = t,
         pc[u] \in {"account", "resign"}
  PROVE  u = t
  BY DEF IInv, Suspended, Held

LEMMA FollowableKept ==
  ASSUME IInv, IInv', [Next]_vars, Followable
  PROVE  Followable'
<1> USE VoteAssumption, VoteNoneAssumption
<1>0. TypeOK /\ Guarded /\ Suspended /\ Recorded /\ TypeOK' /\ Grows
  BY StepGrows DEF IInv
<1>h. ASSUME NEW t \in Tabs, pc[t] \notin {"idle", "lock", "confirm", "check"} PROVE lock = t
  BY <1>0, <1>h DEF Suspended, Held
(* Steps that leave record and journal alone, and take no look. *)
<1>a. ASSUME receipt' = receipt, journal' = journal \/ journal' = NoJournal, raced' = raced,
             \A u \in Tabs : pc'[u] \in {"account", "resign"} =>
                 pc[u] \in {"account", "resign"} /\ mine'[u] = mine[u]
      PROVE Followable'
  <2>1. ASSUME Followed PROVE Followed'
    <3>1. SUFFICES ASSUME journal' = journal, journal.status = "pending",
                          txs'[journal.tx].prev # 0
                   PROVE  Broadcast /\ receipt.tx \in {journal.tx, txs'[journal.tx].prev}
      BY <1>a DEF Followed, Broadcast, NoJournal
    <3>2. txs'[journal.tx].prev = txs[journal.tx].prev
      BY <1>0, <3>1 DEF Guarded, Grows, Made
    <3> QED BY <2>1, <3>1, <3>2 DEF Followed
  <2>2. Watched => Watched'
    BY <1>a DEF Watched, Broadcast
  <2> QED BY <1>a, <2>1, <2>2 DEF Followable
(* Steps of the tab that holds the lock and is, or gets, past its look. *)
<1>b. ASSUME NEW t \in Tabs, lock = t, Followed', pc'[t] \notin {"account", "resign"},
             \A u \in Tabs : u # t => pc'[u] = pc[u]
      PROVE Followable'
  <2>1. Watched'
    BY <1>b, OnlyHolder DEF Watched
  <2> QED BY <1>b, <2>1 DEF Followable
<1>c. ASSUME receipt' \in Receipt, receipt'.state = "broadcast", journal'.tx = receipt'.tx
      PROVE Followed'
  BY <1>c DEF Followed, Broadcast
<1>d. ASSUME journal'.status # "pending" PROVE Followed'
  BY <1>d DEF Followed
<1>e. NoJournal.status # "pending"
  BY DEF NoJournal
<1>f. ASSUME NEW t \in Tabs, End(t)
      PROVE \A u \in Tabs : pc'[u] \in {"account", "resign"} =>
                pc[u] \in {"account", "resign"} /\ mine'[u] = mine[u]
  BY <1>0, <1>f DEF End, Go, TypeOK
<1>1. ASSUME NEW t \in Tabs,
             StartVote(t) \/ StartOther(t) \/ StartResume(t) \/ StartCheck(t) \/ Lock(t)
      PROVE Followable'
  <2>1. \A u \in Tabs : pc'[u] \in {"account", "resign"} =>
            pc[u] \in {"account", "resign"} /\ mine'[u] = mine[u]
    BY <1>0, <1>1 DEF StartVote, StartOther, StartResume, StartCheck, Begin, Lock, Go, TypeOK
  <2> QED BY <1>1, <1>a, <2>1 DEF StartVote, StartOther, StartResume, StartCheck, Lock
<1>2. ASSUME NEW t \in Tabs,
             LockTaken(t) \/ SignUnusable(t) \/ VoteRefused(t) \/ ResumeFails(t)
             \/ CheckUnknown(t) \/ Crash(t) \/ ReconcileStops(t) \/ SignRefused(t)
      PROVE Followable'
  BY <1>2, <1>a, <1>f DEF LockTaken, SignUnusable, VoteRefused, ResumeFails, CheckUnknown, Crash,
     ReconcileStops, SignRefused
<1>3. ASSUME NEW t \in Tabs, Send(t) \/ Inspect(t) \/ InspectSaved(t) \/ AskAccount(t) \/ Ready(t)
      PROVE Followable'
  <2>1. \A u \in Tabs : pc'[u] \in {"account", "resign"} =>
            pc[u] \in {"account", "resign"} /\ mine'[u] = mine[u]
    BY <1>0, <1>3 DEF Send, Inspect, InspectSaved, AskAccount, Ready, Go, tabs, TypeOK
  <2> QED BY <1>3, <1>a, <2>1 DEF Send, Inspect, InspectSaved, AskAccount, Ready, tabs
<1>4. ASSUME NEW t \in Tabs, SaveSigning(t) PROVE Followable'
  <2>1. lock = t /\ journal'.status = "signing" /\ pc'[t] = "sign"
    BY <1>0, <1>4, <1>h DEF SaveSigning, Go, TypeOK
  <2>2. \A u \in Tabs : u # t => pc'[u] = pc[u]
    BY <1>0, <1>4 DEF SaveSigning, Go, TypeOK
  <2> QED BY <1>b, <1>d, <2>1, <2>2
<1>5. ASSUME NEW t \in Tabs, SendAnswered(t) PROVE Followable'
  <2>1. \A u \in Tabs : pc'[u] \in {"account", "resign"} =>
            pc[u] \in {"account", "resign"} /\ mine'[u] = mine[u]
    BY <1>0, <1>5, <1>f DEF SendAnswered, Go, TypeOK
  <2> QED BY <1>5, <1>a, <2>1 DEF SendAnswered
<1>6. ASSUME NEW t \in Tabs, Signed(t) PROVE Followable'
  <2>1. PICK k \in Txs : SignedAs(k, task[t], sequence, 0) /\ journal' = Pending(k)
    BY <1>6 DEF Signed
  <2>2. txs'[k].prev = 0
    BY <1>0, <2>1 DEF SignedAs, TypeOK
  <2>3. Followed'
    BY <2>1, <2>2 DEF Followed, Pending
  <2>4. lock = t /\ pc'[t] \in {"record", "send"} /\ \A u \in Tabs : u # t => pc'[u] = pc[u]
    BY <1>0, <1>6, <1>h DEF Signed, Go, TypeOK
  <2> QED BY <1>b, <2>3, <2>4
<1>7. ASSUME NEW t \in Tabs, Review(t) PROVE Followable'
  <2>1. /\ receipt' = receipt /\ journal' = journal /\ mine' = mine /\ txs' = txs /\ raced' = raced
        /\ Broadcast /\ receipt.tx = mine[t] /\ \A u \in Tabs : u # t => pc'[u] = pc[u]
    BY <1>0, <1>7 DEF Review, Go, TypeOK
  <2>2. Followed => Followed'
    BY <2>1 DEF Followed, Broadcast
  <2>3. Watched => Watched'
    BY <2>1 DEF Watched, Broadcast
  <2> QED BY <2>1, <2>2, <2>3 DEF Followable
<1>8. ASSUME NEW t \in Tabs, Resign(t) PROVE Followable'
  <2>1. PICK k \in Txs : /\ SignedAs(k, "vote", txs[mine[t]].seq, mine[t])
                         /\ journal' = Pending(k)
    BY <1>8 DEF Resign
  <2>2. txs'[k].prev = mine[t]
    BY <1>0, <2>1 DEF SignedAs, TypeOK
  <2>3. /\ receipt' = receipt /\ raced' = raced /\ pc[t] = "resign" /\ pc'[t] = "rerecord"
        /\ lock = t /\ \A u \in Tabs : u # t => pc'[u] = pc[u]
    BY <1>0, <1>8, <1>h DEF Resign, Go, TypeOK
  <2>4. CASE raced
    BY <2>3, <2>4 DEF Followable
  <2>5. CASE ~raced
    <3>1. Broadcast /\ receipt.tx = mine[t]
      BY <2>3, <2>5 DEF Followable, Watched
    <3>2. Followed'
      BY <2>1, <2>2, <2>3, <3>1 DEF Followed, Pending, Broadcast
    <3> QED BY <1>b, <2>3, <3>2
  <2> QED BY <2>4, <2>5
<1>9. ASSUME NEW t \in Tabs, RecordVote(t) \/ RecordReplacement(t) PROVE Followable'
  <2>1. Made(mine[t]) /\ mine[t] \in Txs /\ journal \in {NoJournal, Pending(mine[t])} /\ journal' = journal
    BY <1>0, <1>9 DEF RecordVote, RecordReplacement, Suspended, Held, Made
  <2>2. receipt' \in Receipt /\ receipt'.state = "broadcast" /\ receipt'.tx = mine[t]
    <3>1. CASE RecordVote(t)
      BY <2>1, <3>1 DEF RecordVote, Receipt
    <3>2. CASE RecordReplacement(t)
      <4>1. base[t] \in Receipt /\ base[t].state = "broadcast"
        BY <1>0, <3>2 DEF Suspended, Held, RecordReplacement, TypeOK
      <4> QED BY <2>1, <3>2, <4>1 DEF RecordReplacement, Receipt, Replaced
    <3> QED BY <1>9, <3>1, <3>2
  <2>3. Followed'
    BY <1>c, <1>d, <1>e, <2>1, <2>2 DEF Pending
  <2>4. lock = t /\ pc'[t] \in {"send", "ready"} /\ \A u \in Tabs : u # t => pc'[u] = pc[u]
    BY <1>0, <1>9, <1>h DEF RecordVote, RecordReplacement, Go, TypeOK
  <2> QED BY <1>b, <2>3, <2>4
<1>10. ASSUME NEW t \in Tabs, SendUnknown(t) PROVE Followable'
  <2>1. CASE receipt' = receipt
    BY <1>10, <1>a, <1>f, <2>1 DEF SendUnknown
  <2>2. CASE receipt \in Receipt /\ receipt' = [receipt EXCEPT !.gas = TRUE]
    <3>1. /\ receipt' \in Receipt /\ receipt' # None /\ receipt'.tx = receipt.tx
          /\ receipt'.state = receipt.state
      BY <2>2 DEF Receipt
    <3>2. journal' = journal /\ txs' = txs /\ raced' = raced
      BY <1>10 DEF SendUnknown
    <3>3. Followed => Followed'
      BY <3>1, <3>2 DEF Followed, Broadcast
    <3>4. Watched => Watched'
      BY <1>10, <1>f, <3>1 DEF SendUnknown, Watched, Broadcast
    <3> QED BY <3>2, <3>3, <3>4 DEF Followable
  <2> QED BY <1>0, <1>10, <2>1, <2>2 DEF SendUnknown, Broadcast, TypeOK
<1>11. ASSUME NEW t \in Tabs, Confirm(t) \/ CheckFound(t) PROVE Followable'
  <2>1. /\ End(t) /\ txs' = txs /\ journal' \in {NoJournal, journal}
        /\ \/ receipt' = receipt /\ raced' = raced
           \/ raced' = (raced \/ Replacing)
    BY <1>11 DEF Confirm, CheckFound
  <2>2. CASE receipt' = receipt /\ raced' = raced
    BY <1>a, <1>f, <2>1, <2>2
  <2>3. CASE raced' = (raced \/ Replacing)
    <3>1. ASSUME ~Replacing PROVE Followed' /\ Watched'
      <4>1. Followed'
        BY <1>e, <2>1, <3>1 DEF Replacing, Followed
      <4>2. Watched'
        BY <1>f, <2>1, <3>1 DEF Replacing, Watched
      <4> QED BY <4>1, <4>2
    <3> QED BY <2>3, <3>1 DEF Followable
  <2> QED BY <2>1, <2>2, <2>3
<1>12. CASE Repair
  <2>1. /\ receipt \in Receipt /\ journal.tx \in Txs /\ receipt.state = "broadcast"
        /\ journal' = journal /\ journal.status = "pending" /\ txs[journal.tx].prev = receipt.tx
        /\ Made(journal.tx)
    BY <1>0, <1>12 DEF Repair, NeedsRepair, TypeOK, Guarded, Made
  <2>2. receipt' \in Receipt /\ receipt'.tx = journal'.tx /\ receipt'.state = "broadcast"
    BY <1>12, <2>1 DEF Repair, Receipt, Replaced
  <2>3. Followed'
    BY <1>c, <2>2
  (* A tab past its look holds the journalled vote, which replaces an      *)
  (* earlier one, and not the vote in the record.                          *)
  <2>4. ASSUME NEW u \in Tabs, pc[u] \in {"account", "resign"}, Watched PROVE FALSE
    <3>1. journal = Pending(mine[u]) /\ receipt.tx = mine[u]
      BY <1>0, <2>1, <2>4 DEF Suspended, Held, Watched, NoJournal
    <3>2. txs[journal.tx].prev < journal.tx /\ journal.tx \in Nat
      BY <2>1 DEF IInv, History, Txs
    <3> QED BY <2>1, <3>1, <3>2 DEF Pending
  <2>5. Watched => Watched'
    BY <1>12, <2>4 DEF Watched, Repair, tabs
  <2> QED BY <1>12, <2>3, <2>5 DEF Followable, Repair
<1>13. ASSUME NEW k \in Txs, Execute(k) \/ FailAnte(k) PROVE Followable'
  BY <1>13, <1>a DEF Execute, FailAnte, tabs
<1>14. CASE SpendElsewhere \/ UNCHANGED vars
  BY <1>14, <1>a DEF SpendElsewhere, vars, tabs
<1> QED
  BY <1>1, <1>2, <1>3, <1>4, <1>5, <1>6, <1>7, <1>8, <1>9, <1>10, <1>11, <1>12, <1>13, <1>14
  DEF Next

(* No step of a bundle or of the chain, no lost answer and no crash, in    *)
(* whatever order, loses sight of a replacement that reached the journal,  *)
(* unless a status check or a confirmation wrote the record while a vote   *)
(* was being replaced.                                                     *)
THEOREM ReplacementKept == Spec => []ReplacementFollowed
<1>1. Init => Followable
  BY DEF Init, Followable, Followed, Watched, NoJournal
<1>2. IInv /\ IInv' /\ [Next]_vars /\ Followable => Followable'
  BY FollowableKept
<1>3. Followable => ReplacementFollowed
  BY DEF Followable, ReplacementFollowed
<1> QED
  BY <1>1, <1>2, <1>3, Inductive, PTL DEF Spec
=============================================================================
