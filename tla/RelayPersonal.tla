---------------------------- MODULE RelayPersonal ----------------------------
(***************************************************************************)
(* The personal relay inbox (src/relay-personal-browser.mjs with its       *)
(* journal, transport and lifecycle) in several browser profiles of one    *)
(* wallet, the encrypted backup they share (src/relay-backup/store.mjs)    *)
(* and the chain that accepts their transactions.                          *)
(*                                                                         *)
(* A profile keeps one snapshot: the device keys with their ratchets, the  *)
(* outbound journal, the archive and cursor of the inbox and the evidence  *)
(* about its transactions.  persist() seals it, writes it to IndexedDB and *)
(* uploads it; nothing is broadcast before the upload of its signed bytes  *)
(* was acknowledged.  A profile may be closed at every await, an upload    *)
(* may be stored late or its answer lost, and a second profile may restore *)
(* the backup at any time, read with it, and take over by rotating the     *)
(* device.                                                                 *)
(*                                                                         *)
(* Left out: refills and contact actions (lifecycle actions that prepare   *)
(* no keys), prekeys, the shared journal of the signing bundle             *)
(* (NativeVote), and every check that only makes an operation throw before *)
(* it changed anything: such a call is one that never happens.             *)
(***************************************************************************)
EXTENDS Integers, Sequences

CONSTANTS
    Browsers,      \* the profiles of one wallet
    Messages,      \* outbound messages, numbered in the order of their making
    None,
    MaxGeneration, \* bound on device generations
    MaxTries,      \* bound on the attempts at one transaction in one profile
    MaxInbox,      \* bound on messages from other accounts
    MaxRevision,   \* bound on backup revisions
    MaxFailures    \* bound on failed operations and closed profiles

ASSUME RelayPersonalAssumption ==
    /\ Messages \subseteq Nat \ {0}
    /\ {MaxGeneration, MaxTries, MaxInbox, MaxRevision, MaxFailures} \subseteq Nat
    /\ MaxGeneration # 0 \* the first device is of generation 1

(* A device is named by its generation and by the profile that made its    *)
(* keys; a ratchet counts the messages it encrypted and holds those it     *)
(* decrypted; a ciphertext is the ratchet key it used up.                  *)
Devices  == [gen : 1..MaxGeneration, by : Browsers]
Ratchet  == [sent : Nat, got : SUBSET Nat]
Cipher   == [dev : Devices, pos : Nat]
(* A transaction sends a message (msg # 0) or registers a device. *)
Txs      == [msg : Messages \cup {0}, dev : Devices, by : Browsers, n : 1..MaxTries]
Outcomes == {"none", "pending", "not_broadcast", "failed", "confirmed"}
Intent   == [tx : Txs \cup {None}, st : Outcomes]
NoIntent == [tx |-> None, st |-> "none"]
(* What names-signing.mjs and the lifecycle keep in localStorage. *)
Entry    == [tx : Txs, st : {"signing", "signed", "pending", "included", "not_broadcast"}]
Storage  == [rows : SUBSET Entry, life : Intent]
Row      == [st : {"none", "preparing", "ready", "confirmed", "rolled_back"},
             cipher : Cipher \cup {None}, blocks : Ratchet \cup {None}, attempt : Intent]
Inbound  == [dev : Devices, blocks : Ratchet]
Snapshot == [dev : Devices, db : [Devices -> Ratchet \cup {None}], prep : Devices \cup {None},
             sends : [Messages -> Row], out : SUBSET Messages,
             cursor : Nat, read : SUBSET Nat, quarantine : SUBSET Nat,
             inbound : Inbound \cup {None}, readOnly : BOOLEAN, rotationRecovery : BOOLEAN,
             registered : BOOLEAN, registration : Intent, store : Storage]
Envelope == [rev : 1..MaxRevision, by : Browsers, snap : Snapshot]
Record   == [env : Envelope, base : Envelope \cup {None}, pend : BOOLEAN]

(* None stands for null: it is no record. *)
ASSUME NoneAssumption ==
    /\ None \notin Devices /\ None \notin Ratchet /\ None \notin Cipher /\ None \notin Txs
    /\ None \notin Inbound /\ None \notin Snapshot /\ None \notin Envelope /\ None \notin Record

Control  == [at : {"closed", "idle", "recover", "encrypt", "seal", "execute", "signing", "backup",
                   "receipt", "tail", "failed", "decrypt", "keep", "reject"},
             stage : 0..6, tx : Txs \cup {None}, io : {"none", "check", "wait"}]

VARIABLES
    remote,   \* the backup the service stores, or None
    wire,     \* uploads that left a profile and were not stored yet
    disk,     \* the IndexedDB record of each profile, or None
    work,     \* the working ratchet databases of each profile
    ls,       \* the localStorage of each profile
    mem,      \* the snapshot an open controller holds, or None
    pc,       \* where each controller is: the step it awaits, how far its
              \* recovery is, the transaction it submits and its upload
    device,   \* the device the mailbox contract has for the wallet, or None
    ledger,   \* the transactions broadcast, with their ciphertext and code
    inbox,    \* the messages the contract holds for the wallet
    failures  \* operations that failed and profiles that were closed

chain == <<device, ledger, inbox>>
vars  == <<remote, wire, disk, work, ls, mem, pc, chain, failures>>

TypeOK ==
    /\ remote \in Envelope \cup {None}
    /\ wire \subseteq Envelope
    /\ disk \in [Browsers -> Record \cup {None}]
    /\ work \in [Browsers -> [Devices -> Ratchet \cup {None}]]
    /\ ls \in [Browsers -> Storage]
    /\ mem \in [Browsers -> Snapshot \cup {None}]
    /\ pc \in [Browsers -> Control]
    /\ device \in Devices \cup {None}
    /\ ledger \subseteq [tx : Txs, cipher : Cipher \cup {None}, code : {"none", "ok", "failed"}]
    /\ inbox \in Seq([dev : Devices, genuine : BOOLEAN])
    /\ failures \in 0..MaxFailures

Fresh      == [sent |-> 0, got |-> {}]
NoStorage  == [rows |-> {}, life |-> NoIntent]
NoRow      == [st |-> "none", cipher |-> None, blocks |-> None, attempt |-> NoIntent]
NewSnapshot(d) ==
    [dev |-> d, db |-> [e \in Devices |-> IF e = d THEN Fresh ELSE None], prep |-> None,
     sends |-> [m \in Messages |-> NoRow], out |-> {},
     cursor |-> 0, read |-> {}, quarantine |-> {}, inbound |-> None,
     readOnly |-> FALSE, rotationRecovery |-> FALSE,
     registered |-> FALSE, registration |-> NoIntent, store |-> NoStorage]

Init ==
    /\ remote = None /\ wire = {}
    /\ disk = [b \in Browsers |-> None]
    /\ work = [b \in Browsers |-> [d \in Devices |-> None]]
    /\ ls = [b \in Browsers |-> NoStorage]
    /\ mem = [b \in Browsers |-> None]
    /\ pc = [b \in Browsers |-> [at |-> "closed", stage |-> 0, tx |-> None, io |-> "none"]]
    /\ device = None /\ ledger = {} /\ inbox = <<>>
    /\ failures = 0

-----------------------------------------------------------------------------
(* Persisting and the backup service. *)

Status(store, t) ==
    IF \E r \in store.rows : r.tx = t THEN (CHOOSE r \in store.rows : r.tx = t).st ELSE "none"
Put(store, t, st) ==
    [store EXCEPT !.rows = {r \in @ : r.tx # t} \cup {[tx |-> t, st |-> st]}]

(* A writer reads its localStorage before the evidence it restored, a      *)
(* reader only the latter.                                                 *)
Merged(l, s) ==
    [rows |-> l.rows \cup {r \in s.rows : \A q \in l.rows : q.tx # r.tx},
     life |-> IF l.life = NoIntent THEN s.life ELSE l.life]
View(b) == IF mem[b].readOnly THEN mem[b].store ELSE Merged(ls[b], mem[b].store)

(* Mutant: the ratchet of the current device is not captured. *)
CapturedWithoutRatchet(s, w, l) ==
    [s EXCEPT !.store = IF s.readOnly THEN @ ELSE Merged(l, @)]
(* captureRatchet and captureTransactions *)
Captured(s, w, l) ==
    [s EXCEPT !.db[s.dev] = w[s.dev],
              !.store = IF s.readOnly THEN @ ELSE Merged(l, @)]

BaseOf(b)  == IF disk[b] = None THEN None ELSE disk[b].base
Revision(e) == IF e = None THEN 0 ELSE e.rev

(* Mutant: the revision of the watermark is used again. *)
PersistSameRevision(b, s, w, l) ==
    LET snap == Captured(s, w, l) IN
    /\ mem' = [mem EXCEPT ![b] = snap]
    /\ disk' = [disk EXCEPT ![b] =
           [env |-> [rev |-> Revision(BaseOf(b)), by |-> b, snap |-> snap],
            base |-> BaseOf(b), pend |-> FALSE]]
(* persist(): the snapshot with what it captures from the next ratchets    *)
(* and the next localStorage goes to IndexedDB under the revision after    *)
(* the watermark, and a writer uploads it before the operation continues.  *)
Persist(b, s, w, l) ==
    LET snap == Captured(s, w, l) IN
    /\ Revision(BaseOf(b)) < MaxRevision
    /\ mem' = [mem EXCEPT ![b] = snap]
    /\ disk' = [disk EXCEPT ![b] =
           [env |-> [rev |-> Revision(BaseOf(b)) + 1, by |-> b, snap |-> snap],
            base |-> BaseOf(b), pend |-> FALSE]]

Uploading(s) == IF s.readOnly THEN "none" ELSE "check"
At(b, where)   == pc[b].at = where /\ pc[b].io = "none"
Go(b, where, upload) == pc' = [pc EXCEPT ![b].at = where, ![b].io = upload]

(* The common step: change the snapshot alone and persist it. *)
Save(b, s, where) ==
    /\ Persist(b, s, work[b], ls[b])
    /\ Go(b, where, Uploading(s))
    /\ UNCHANGED <<remote, wire, work, ls, chain, failures>>

(* sync(): the stored backup is this envelope, or it is still the one of   *)
(* the watermark and the envelope is uploaded; otherwise sync() throws.    *)
SyncDone(b) ==
    /\ pc[b].io = "check"
    /\ remote = disk[b].env
    /\ disk' = [disk EXCEPT ![b].base = remote, ![b].pend = FALSE]
    /\ pc' = [pc EXCEPT ![b].io = "none"]
    /\ UNCHANGED <<remote, wire, work, ls, mem, chain, failures>>
Upload(b) ==
    /\ pc[b].io = "check"
    /\ remote # disk[b].env
    /\ remote = disk[b].base
    /\ disk' = [disk EXCEPT ![b].pend = TRUE]
    /\ wire' = wire \cup {disk[b].env}
    /\ pc' = [pc EXCEPT ![b].io = "wait"]
    /\ UNCHANGED <<remote, work, ls, mem, chain, failures>>

(* BackupStore.put(): compare and swap on the revision; the same envelope  *)
(* is acknowledged again.  A profile that still waits gets the receipt; a  *)
(* lost receipt is an upload stored after its profile gave up.  An upload  *)
(* that comes too late is refused, and waited for in vain.                 *)
AcceptableSameRevision(r, e) == e.rev >= Revision(r) \* mutant: not only the next revision
Acceptable(r, e) == r = e \/ Revision(r) + 1 = e.rev
Awaits(b, e) == pc[b].io = "wait" /\ disk[b].env = e
Store(e) ==
    /\ e \in wire
    /\ Acceptable(remote, e)
    /\ remote' = e
    /\ wire' = {f \in wire \ {e} : Acceptable(e, f)}
    /\ disk' = [b \in Browsers |->
           IF Awaits(b, e) THEN [env |-> e, base |-> e, pend |-> FALSE] ELSE disk[b]]
    /\ pc' = [b \in Browsers |-> IF Awaits(b, e) THEN [pc[b] EXCEPT !.io = "none"] ELSE pc[b]]
    /\ UNCHANGED <<work, ls, mem, chain, failures>>

Note(b, t, st) == ls' = [ls EXCEPT ![b] = Put(@, t, st)]

Fails == failures < MaxFailures /\ failures' = failures + 1

(* The controller is gone: closed, reloaded, or locked. *)
Closed(b) ==
    /\ mem' = [mem EXCEPT ![b] = None]
    /\ pc' = [pc EXCEPT ![b] = [at |-> "closed", stage |-> 0, tx |-> None, io |-> "none"]]
Crash(b) ==
    /\ pc[b].at # "closed"
    /\ Fails /\ Closed(b)
    /\ UNCHANGED <<remote, wire, disk, work, ls, chain>>
(* persist() threw: the controller refuses to work until it recovered from *)
(* IndexedDB.  Thrown from onSigned, it proves the signed bytes unsent.    *)
UploadFails(b) ==
    /\ pc[b].io # "none"
    /\ Fails /\ Closed(b)
    /\ IF pc[b].at = "backup" THEN Note(b, pc[b].tx, "not_broadcast") ELSE UNCHANGED ls
    /\ UNCHANGED <<remote, wire, disk, work, chain>>

-----------------------------------------------------------------------------
(* What the controller asks before it acts. *)
OwnDevice(b) == device = IF mem[b].registered THEN mem[b].dev ELSE None
(* assertWritable; a rotation may start on a restored profile. *)
Writable(b, rotation) ==
    /\ rotation \/ (~mem[b].readOnly /\ ~mem[b].rotationRecovery)
    /\ OwnDevice(b)
    /\ ~disk[b].pend
Terminal(m, s) == s.sends[m].st \in {"none", "confirmed", "rolled_back"}
(* ensureIdle *)
Resolved(b) ==
    /\ \A m \in Messages : Terminal(m, mem[b])
    /\ mem[b].inbound = None
    /\ mem[b].registration.st # "pending"
    /\ View(b).life.st # "pending"
InSync(b) == mem[b].readOnly \/ remote = disk[b].base

(* What the chain says of a transaction or a message. *)
Code(t) == IF \E e \in ledger : e.tx = t THEN (CHOOSE e \in ledger : e.tx = t).code ELSE "none"
Sent(m) == \E e \in ledger : e.tx.msg = m /\ e.code = "ok"
(* bridge.recover(): an attempt is proven unsent by its record, or decided *)
(* by the transaction that was included; without a hash it stays unknown.  *)
Evidence(b, t) ==
    LET st == Status(View(b), t) IN
    CASE st = "not_broadcast"                     -> "not_broadcast"
      [] st \in {"signed", "pending", "included"} -> Code(t)
      [] OTHER                                    -> "none"
(* It also records the inclusion it found. *)
Found(b, t) == Status(View(b), t) # "not_broadcast" /\ Code(t) # "none"
Noted(b, s, t) ==
    IF s.readOnly /\ Found(b, t) THEN [s EXCEPT !.store = Put(@, t, "included")] ELSE s
NotedLocally(b, t) ==
    IF ~mem[b].readOnly /\ Found(b, t) THEN Put(ls[b], t, "included") ELSE ls[b]

(* A fresh intent id: an attempt this profile has no record of. *)
NewTry(b, t) ==
    /\ t.by = b
    /\ Status(View(b), t) = "none"
    /\ \A k \in 1..(t.n - 1) : Status(View(b), [t EXCEPT !.n = k]) # "none"

-----------------------------------------------------------------------------
(* Opening a profile. *)

Create(b) ==
    LET d == [gen |-> 1, by |-> b] IN
    /\ At(b, "closed")
    /\ disk[b] = None /\ remote = None /\ device = None
    /\ work' = [work EXCEPT ![b][d] = Fresh]
    /\ Persist(b, NewSnapshot(d), work'[b], ls[b])
    /\ Go(b, "idle", "check")
    /\ UNCHANGED <<remote, wire, ls, chain, failures>>

(* unlock() and recover(): the snapshot on disk is restored into the       *)
(* working database and recovery starts with sync(), so that no uncertain  *)
(* upload is overwritten.                                                  *)
Unlock(b) ==
    /\ At(b, "closed")
    /\ disk[b] # None
    /\ LET s == disk[b].env.snap IN
       /\ mem' = [mem EXCEPT ![b] = s]
       /\ work' = [work EXCEPT ![b][s.dev] = s.db[s.dev]]
       /\ Go(b, "recover", Uploading(s))
    /\ UNCHANGED <<remote, wire, disk, ls, chain, failures>>

(* lockInbox(), or recover() on an open inbox, when the chain decided what *)
(* the inbox still holds for open; otherwise it would only spend revisions.*)
OverdueMessage(b) == \E m \in Messages :
    /\ mem[b].sends[m].st = "ready"
    /\ \/ Sent(m)
       \/ /\ mem[b].sends[m].attempt.st = "pending"
          /\ Evidence(b, mem[b].sends[m].attempt.tx) # "none"
OverdueAction(b) == View(b).life.st = "pending" /\ Evidence(b, View(b).life.tx) # "none"
Reopen(b) ==
    /\ At(b, "idle")
    /\ OverdueMessage(b) \/ OverdueAction(b)
    /\ Closed(b)
    /\ UNCHANGED <<remote, wire, disk, work, ls, chain, failures>>

(* restore(): the backup is staged as a read-only profile. *)
Restore(b) ==
    /\ At(b, "closed")
    /\ disk[b] = None /\ remote # None
    /\ remote.rev < MaxRevision
    /\ LET s == [remote.snap EXCEPT !.readOnly = TRUE] IN
       /\ mem' = [mem EXCEPT ![b] = s]
       /\ disk' = [disk EXCEPT ![b] =
              [env |-> [rev |-> remote.rev + 1, by |-> b, snap |-> s],
               base |-> remote, pend |-> FALSE]]
       /\ work' = [work EXCEPT ![b][s.dev] = s.db[s.dev]]
    /\ Go(b, "recover", "none")
    /\ UNCHANGED <<remote, wire, ls, chain, failures>>

-----------------------------------------------------------------------------
(* Sending a message. *)

PrepareMessage(b, m) ==
    /\ At(b, "idle")
    /\ mem[b].registered
    /\ Resolved(b) /\ Writable(b, FALSE) /\ InSync(b)
    /\ mem[b].sends[m].st = "none"
    /\ \A k \in Messages : k < m => mem[b].sends[k].st # "none"
    /\ Save(b, [mem[b] EXCEPT !.sends[m] =
                   [NoRow EXCEPT !.st = "preparing", !.blocks = work[b][mem[b].dev]]], "encrypt")

Encrypt(b) ==
    /\ At(b, "encrypt")
    /\ work' = [work EXCEPT ![b][mem[b].dev].sent = @ + 1]
    /\ Go(b, "seal", "none")
    /\ UNCHANGED <<remote, wire, disk, ls, mem, chain, failures>>

Sealed(b) ==
    [NoRow EXCEPT !.st = "ready",
                  !.cipher = [dev |-> mem[b].dev, pos |-> work[b][mem[b].dev].sent]]
Ready(b) ==
    /\ At(b, "seal")
    /\ \E m \in Messages :
        /\ mem[b].sends[m].st = "preparing"
        /\ Save(b, [mem[b] EXCEPT !.sends[m] = Sealed(b)], "idle")

(* The transaction an operation hands to the bridge is recorded with its   *)
(* row before the bridge can sign.                                         *)
SubmitMessage(b, t) ==
    /\ At(b, "idle")
    /\ t.msg # 0 /\ NewTry(b, t)
    /\ Writable(b, FALSE) /\ InSync(b)
    /\ LET row == mem[b].sends[t.msg] IN
       /\ row.st = "ready"
       /\ row.attempt.st \in {"none", "not_broadcast", "failed"}
       /\ ~Sent(t.msg)
       /\ t.dev = row.cipher.dev /\ device = t.dev
       /\ Persist(b, [mem[b] EXCEPT !.sends[t.msg].attempt = [tx |-> t, st |-> "pending"]],
                  work[b], ls[b])
    /\ pc' = [pc EXCEPT ![b].at = "execute", ![b].io = "check", ![b].tx = t]
    /\ UNCHANGED <<remote, wire, work, ls, chain, failures>>

SubmitRegistration(b, t) ==
    /\ At(b, "idle")
    /\ t.msg = 0 /\ t.dev = mem[b].dev /\ NewTry(b, t)
    /\ ~mem[b].registered
    /\ Resolved(b) /\ Writable(b, FALSE)
    /\ Persist(b, [mem[b] EXCEPT !.registration = [tx |-> t, st |-> "pending"]], work[b], ls[b])
    /\ pc' = [pc EXCEPT ![b].at = "execute", ![b].io = "check", ![b].tx = t]
    /\ UNCHANGED <<remote, wire, work, ls, chain, failures>>

(* prepareRotation(): the keys of the next generation, not yet used. *)
PrepareRotation(b) ==
    /\ At(b, "idle")
    /\ Resolved(b) /\ Writable(b, TRUE)
    /\ mem[b].registered /\ mem[b].prep = None
    /\ device.gen < MaxGeneration
    /\ LET d == [gen |-> device.gen + 1, by |-> b] IN
       /\ mem[b].db[d] = None
       /\ work' = [work EXCEPT ![b][d] = Fresh]
       /\ Persist(b, [mem[b] EXCEPT !.prep = d, !.db[d] = Fresh], work'[b], ls[b])
    /\ Go(b, "idle", Uploading(mem[b]))
    /\ UNCHANGED <<remote, wire, ls, chain, failures>>

(* submitLifecycle() of a rotation: a restored profile takes over the      *)
(* backup only if it did not advance.                                      *)
SubmitRotation(b, t) ==
    /\ At(b, "idle")
    /\ t.msg = 0 /\ NewTry(b, t)
    /\ mem[b].prep = t.dev
    /\ Resolved(b) /\ Writable(b, TRUE)
    /\ mem[b].registered
    /\ mem[b].readOnly => remote = disk[b].base
    /\ Persist(b, [mem[b] EXCEPT !.readOnly = FALSE, !.rotationRecovery = @ \/ mem[b].readOnly],
               work[b], ls[b])
    /\ pc' = [pc EXCEPT ![b].at = "execute", ![b].io = "check", ![b].tx = t]
    /\ UNCHANGED <<remote, wire, work, ls, chain, failures>>

Rotates(b, t) == t.msg = 0 /\ mem[b].prep = t.dev

-----------------------------------------------------------------------------
(* The signing bridge, for whatever transaction was submitted.             *)

(* The lifecycle action is recorded before the bridge is called. *)
Intended(b) ==
    IF Rotates(b, pc[b].tx) THEN [ls[b] EXCEPT !.life = [tx |-> pc[b].tx, st |-> "pending"]]
    ELSE ls[b]
BeginSigning(b) ==
    /\ At(b, "execute")
    /\ Writable(b, Rotates(b, pc[b].tx))
    /\ ls' = [ls EXCEPT ![b] = Put(Intended(b), pc[b].tx, "signing")]
    /\ Go(b, "signing", "none")
    /\ UNCHANGED <<remote, wire, disk, work, mem, chain, failures>>

(* Simulation, the wallet or a last check refuses: nothing was broadcast. *)
Refuse(b) ==
    /\ At(b, "execute") \/ At(b, "signing") \/ At(b, "backup")
    /\ ls' = [ls EXCEPT ![b] =
           Put(IF pc[b].at = "execute" THEN Intended(b) ELSE @, pc[b].tx, "not_broadcast")]
    /\ Fails
    /\ Go(b, "failed", "none")
    /\ UNCHANGED <<remote, wire, disk, work, mem, chain>>

(* Mutant: the broadcast does not wait for the backup. *)
SignedUnsaved(b) ==
    /\ At(b, "signing")
    /\ Writable(b, Rotates(b, pc[b].tx))
    /\ Note(b, pc[b].tx, "signed")
    /\ Persist(b, mem[b], work[b], ls'[b])
    /\ Go(b, "backup", "none")
    /\ UNCHANGED <<remote, wire, work, chain, failures>>
(* onSigned: the signed bytes are backed up. *)
Signed(b) ==
    /\ At(b, "signing")
    /\ Writable(b, Rotates(b, pc[b].tx))
    /\ Note(b, pc[b].tx, "signed")
    /\ Persist(b, mem[b], work[b], ls'[b])
    /\ Go(b, "backup", "check")
    /\ UNCHANGED <<remote, wire, work, chain, failures>>

Broadcast(b) ==
    /\ At(b, "backup")
    /\ OwnDevice(b)
    /\ Note(b, pc[b].tx, "pending")
    /\ ledger' = ledger \cup
           {[tx |-> pc[b].tx, code |-> "none",
             cipher |-> IF pc[b].tx.msg = 0 THEN None ELSE mem[b].sends[pc[b].tx.msg].cipher]}
    /\ Go(b, "receipt", "none")
    /\ UNCHANGED <<remote, wire, disk, work, mem, device, inbox, failures>>

Receipt(b) ==
    /\ At(b, "receipt")
    /\ Code(pc[b].tx) # "none"
    /\ Note(b, pc[b].tx, "included")
    /\ Go(b, "tail", "none")
    /\ UNCHANGED <<remote, wire, disk, work, mem, chain, failures>>

(* Mutant: a transaction without a receipt is taken for unsent. *)
GiveUpUnsent(b) ==
    /\ At(b, "receipt") \/ At(b, "tail")
    /\ Fails
    /\ Note(b, pc[b].tx, "not_broadcast")
    /\ Go(b, "failed", "none")
    /\ UNCHANGED <<remote, wire, disk, work, mem, chain>>
(* No receipt within six lookups, or no evidence for the journal: the      *)
(* operation throws.                                                       *)
GiveUp(b) ==
    /\ At(b, "receipt") \/ At(b, "tail")
    /\ Fails
    /\ Go(b, "failed", "none")
    /\ UNCHANGED <<remote, wire, disk, work, ls, mem, chain>>

-----------------------------------------------------------------------------
(* Reconciling, in the order of _recover(); the end of an operation runs   *)
(* the same steps.                                                         *)

InStage(b, k) == At(b, "recover") /\ pc[b].stage <= k
Closing(b, k) == InStage(b, k) \/ At(b, "tail")
Reconciled(b, s, w, l, k) ==
    /\ Persist(b, s, w, l)
    /\ ls' = [ls EXCEPT ![b] = l]
    /\ pc' = [pc EXCEPT ![b].stage = k, ![b].io = Uploading(s)]
    /\ UNCHANGED <<remote, wire, chain, failures>>

(* Mutant: what was being decrypted is taken for undecryptable. *)
UndoInboundQuarantines(b) ==
    LET next == mem[b].cursor + 1
        in   == mem[b].inbound
    IN  /\ InStage(b, 1)
        /\ in # None
        /\ work' = [work EXCEPT ![b][in.dev] = in.blocks]
        /\ Reconciled(b, [mem[b] EXCEPT !.inbound = None, !.db[in.dev] = in.blocks,
                                        !.quarantine = @ \cup {next}, !.cursor = next],
                      work'[b], ls[b], 1)
(* An interrupted decryption is undone. *)
UndoInbound(b) ==
    /\ InStage(b, 1)
    /\ mem[b].inbound # None
    /\ LET in == mem[b].inbound IN
       /\ work' = [work EXCEPT ![b][in.dev] = in.blocks]
       /\ Reconciled(b, [mem[b] EXCEPT !.inbound = None, !.db[in.dev] = in.blocks],
                     work'[b], ls[b], 1)

(* A message that never got a ciphertext is rolled back. *)
RollBack(b, m) ==
    /\ InStage(b, 2)
    /\ mem[b].inbound = None
    /\ mem[b].sends[m].st = "preparing"
    /\ work' = [work EXCEPT ![b][mem[b].dev] = mem[b].sends[m].blocks]
    /\ Reconciled(b, [mem[b] EXCEPT !.sends[m] = [NoRow EXCEPT !.st = "rolled_back"]],
                  work'[b], ls[b], 2)

Confirm(b, m) ==
    /\ Closing(b, 3)
    /\ mem[b].inbound = None
    /\ mem[b].sends[m].st = "ready"
    /\ Sent(m)
    /\ Reconciled(b, [mem[b] EXCEPT !.sends[m].st = "confirmed"], work[b], ls[b],
                  IF pc[b].stage = 3 THEN 3 ELSE 2)
    /\ UNCHANGED work

(* Mutant: recovery does not archive what an earlier recovery confirmed. *)
ArchiveOnce(b, m) ==
    /\ At(b, "tail")
    /\ mem[b].sends[m].st = "confirmed"
    /\ m \notin mem[b].out
    /\ Reconciled(b, [mem[b] EXCEPT !.out = @ \cup {m}], work[b], ls[b], 3)
    /\ UNCHANGED work
(* confirmSent *)
Archive(b, m) ==
    /\ Closing(b, 3)
    /\ mem[b].inbound = None
    /\ mem[b].sends[m].st = "confirmed"
    /\ m \notin mem[b].out
    /\ Reconciled(b, [mem[b] EXCEPT !.out = @ \cup {m}], work[b], ls[b],
                  IF pc[b].stage = 3 THEN 3 ELSE 2)
    /\ UNCHANGED work

Clear(b) ==
    /\ mem[b].inbound = None
    /\ \A m \in Messages :
        /\ mem[b].sends[m].st # "preparing"
        /\ mem[b].sends[m].st = "confirmed" => m \in mem[b].out

(* transport.recover(): what became of an attempt without a receipt. *)
LearnAttempt(b, m) ==
    LET row == mem[b].sends[m]
        t   == row.attempt.tx
    IN  /\ Closing(b, 3) /\ Clear(b)
        /\ row.st = "ready" /\ row.attempt.st = "pending"
        /\ Evidence(b, t) \in {"not_broadcast", "failed"}
        /\ ~Sent(m)
        /\ Reconciled(b, Noted(b, [mem[b] EXCEPT !.sends[m].attempt.st = Evidence(b, t)], t),
                      work[b], NotedLocally(b, t), 3)
        /\ UNCHANGED work

(* reconcileRegistration *)
LearnRegistration(b) ==
    LET t    == mem[b].registration.tx
        code == Evidence(b, t)
    IN  /\ Closing(b, 4) /\ Clear(b)
        /\ mem[b].registration.st = "pending"
        /\ code # "none"
        /\ code = "ok" => device = mem[b].dev
        /\ Reconciled(b, Noted(b, [mem[b] EXCEPT
                             !.registered = @ \/ code = "ok",
                             !.registration.st = IF code = "ok" THEN "confirmed" ELSE code], t),
                      work[b], NotedLocally(b, t), 4)
        /\ UNCHANGED work

(* lifecycle._recover(): recorded in the storage, persisted with the next  *)
(* snapshot.                                                               *)
LearnLifecycle(b) ==
    LET life    == View(b).life
        code    == Evidence(b, life.tx)
        learned == [tx |-> life.tx, st |-> IF code = "ok" THEN "confirmed" ELSE code]
    IN  /\ Closing(b, 5) /\ Clear(b)
        /\ mem[b].registration.st # "pending"
        /\ life.st = "pending"
        /\ code # "none"
        /\ IF mem[b].readOnly
           THEN /\ mem' = [mem EXCEPT ![b] = [Noted(b, @, life.tx) EXCEPT !.store.life = learned]]
                /\ UNCHANGED ls
           ELSE /\ ls' = [ls EXCEPT ![b] = [NotedLocally(b, life.tx) EXCEPT !.life = learned]]
                /\ UNCHANGED mem
        /\ pc' = [pc EXCEPT ![b].stage = 5]
        /\ UNCHANGED <<remote, wire, disk, work, chain, failures>>

(* activatePrepared *)
Rotated(b) ==
    /\ mem[b].prep # None
    /\ View(b).life.st = "confirmed" /\ View(b).life.tx.dev = mem[b].prep
Activate(b) ==
    LET d == mem[b].prep IN
    /\ Closing(b, 6) /\ Clear(b)
    /\ mem[b].registration.st # "pending"
    /\ Rotated(b)
    /\ device = d
    /\ work' = [work EXCEPT ![b][d] = mem[b].db[d]]
    /\ Reconciled(b, [mem[b] EXCEPT !.dev = d, !.prep = None, !.rotationRecovery = FALSE,
                             !.readOnly = @ /\ ~mem[b].rotationRecovery],
                  work'[b], ls[b], 6)

(* The last persist() of a recovery or of an operation; one that failed    *)
(* leaves the controller waiting for a recovery.                           *)
SettleAs(b, where) ==
    /\ Persist(b, mem[b], work[b], ls[b])
    /\ pc' = [pc EXCEPT ![b] = [at |-> where, stage |-> 0, tx |-> None, io |-> Uploading(mem[b])]]
    /\ UNCHANGED <<remote, wire, work, ls, chain>>
(* What a lookup does not answer stays unknown and is kept.                *)
Unanswered(b) ==
    \/ pc[b].stage <= 3 /\ OverdueMessage(b)
    \/ pc[b].stage <= 5 /\ OverdueAction(b)
Recovered(b) ==
    /\ At(b, "recover")
    /\ Clear(b) /\ mem[b].registration.st # "pending" /\ ~Rotated(b)
    /\ ~Unanswered(b)
    /\ SettleAs(b, "idle")
    /\ UNCHANGED failures
RecoveredBlind(b) ==
    /\ At(b, "recover")
    /\ Clear(b) /\ mem[b].registration.st # "pending" /\ ~Rotated(b)
    /\ Unanswered(b)
    /\ SettleAs(b, "idle")
    /\ Fails
Complete(b) ==
    /\ At(b, "tail")
    /\ Clear(b) /\ ~Rotated(b)
    /\ IF pc[b].tx.msg # 0 THEN pc[b].tx.msg \in mem[b].out
       ELSE mem[b].registration.st # "pending" /\ View(b).life.st # "pending"
    /\ SettleAs(b, "idle")
    /\ UNCHANGED failures
(* Its upload is left to the sync() of the next recovery. *)
Abandon(b) ==
    /\ At(b, "failed")
    /\ disk[b].base.rev < MaxRevision
    /\ disk' = [disk EXCEPT ![b].env =
           [rev |-> disk[b].base.rev + 1, by |-> b, snap |-> Captured(mem[b], work[b], ls[b])]]
    /\ Closed(b)
    /\ UNCHANGED <<remote, wire, work, ls, chain, failures>>

-----------------------------------------------------------------------------
(* Receiving the next message of the inbox, with the current device or a   *)
(* retired one.                                                            *)

StartReceive(b) ==
    LET next == mem[b].cursor + 1 IN
    /\ At(b, "idle")
    /\ mem[b].registered
    /\ Resolved(b) /\ InSync(b)
    /\ next <= Len(inbox)
    /\ LET d == inbox[next].dev IN
       /\ mem[b].db[d] # None /\ d # mem[b].prep
       /\ work' = [work EXCEPT ![b][d] = mem[b].db[d]]
       /\ Persist(b, [mem[b] EXCEPT !.inbound = [dev |-> d, blocks |-> mem[b].db[d]]],
                  work'[b], ls[b])
    /\ Go(b, "decrypt", Uploading(mem[b]))
    /\ UNCHANGED <<remote, wire, ls, chain, failures>>

(* A ratchet decrypts a genuine message once. *)
Decrypt(b) ==
    LET next == mem[b].cursor + 1
        d    == mem[b].inbound.dev
    IN  /\ At(b, "decrypt")
        /\ IF inbox[next].genuine /\ next \notin work[b][d].got
           THEN /\ work' = [work EXCEPT ![b][d].got = @ \cup {next}]
                /\ Go(b, "keep", "none")
           ELSE /\ Go(b, "reject", "none")
                /\ UNCHANGED work
        /\ UNCHANGED <<remote, wire, disk, ls, mem, chain, failures>>

Keep(b) ==
    LET next == mem[b].cursor + 1
        d    == mem[b].inbound.dev
    IN  /\ At(b, "keep")
        /\ Save(b, [mem[b] EXCEPT !.db[d] = work[b][d], !.read = @ \cup {next},
                                  !.cursor = next, !.inbound = None], "idle")

(* An undecryptable message is quarantined and the ratchet put back. *)
Reject(b) ==
    LET next == mem[b].cursor + 1
        in   == mem[b].inbound
    IN  /\ At(b, "reject")
        /\ work' = [work EXCEPT ![b][in.dev] = in.blocks]
        /\ Persist(b, [mem[b] EXCEPT !.db[in.dev] = in.blocks, !.quarantine = @ \cup {next},
                                     !.cursor = next, !.inbound = None], work'[b], ls[b])
        /\ Go(b, "idle", Uploading(mem[b]))
        /\ UNCHANGED <<remote, wire, ls, chain, failures>>

-----------------------------------------------------------------------------
(* The chain: a transaction may be included late, fail for reasons of its  *)
(* own, or never be included.                                              *)
Accepts(t) ==
    IF t.msg = 0
    THEN t.dev.gen = 1 + (IF device = None THEN 0 ELSE device.gen)
    ELSE device = t.dev /\ ~Sent(t.msg)
Include(e, code) ==
    /\ e \in ledger /\ e.code = "none"
    /\ code = "ok" => Accepts(e.tx)
    /\ ledger' = (ledger \ {e}) \cup {[e EXCEPT !.code = code]}
    /\ device' = IF code = "ok" /\ e.tx.msg = 0 THEN e.tx.dev ELSE device
    /\ UNCHANGED <<remote, wire, disk, work, ls, mem, pc, inbox, failures>>
Deliver(genuine) ==
    /\ device # None
    /\ Len(inbox) < MaxInbox
    /\ inbox' = Append(inbox, [dev |-> device, genuine |-> genuine])
    /\ UNCHANGED <<remote, wire, disk, work, ls, mem, pc, device, ledger, failures>>

Operate(b) ==
    \/ \E m \in Messages : PrepareMessage(b, m)
    \/ \E t \in Txs : SubmitMessage(b, t) \/ SubmitRegistration(b, t) \/ SubmitRotation(b, t)
    \/ PrepareRotation(b) \/ StartReceive(b)
Proceed(b) ==
    \/ SyncDone(b) \/ Upload(b)
    \/ Encrypt(b) \/ Ready(b)
    \/ BeginSigning(b) \/ Signed(b) \/ Broadcast(b) \/ Receipt(b)
    \/ \E m \in Messages : RollBack(b, m) \/ Confirm(b, m) \/ Archive(b, m) \/ LearnAttempt(b, m)
    \/ UndoInbound(b) \/ LearnRegistration(b) \/ LearnLifecycle(b) \/ Activate(b)
    \/ Recovered(b) \/ Complete(b)
    \/ Decrypt(b) \/ Keep(b) \/ Reject(b)
Break(b) == Crash(b) \/ UploadFails(b) \/ Refuse(b) \/ GiveUp(b) \/ RecoveredBlind(b) \/ Abandon(b)

Next ==
    \/ \E b \in Browsers :
        Create(b) \/ Unlock(b) \/ Reopen(b) \/ Restore(b) \/ Operate(b) \/ Proceed(b) \/ Break(b)
    \/ \E e \in wire : Store(e)
    \/ \E e \in ledger : Include(e, "ok") \/ Include(e, "failed")
    \/ \E genuine \in BOOLEAN : Deliver(genuine)

Spec == Init /\ [][Next]_vars

(* What the code and its user keep doing: an open controller continues, an *)
(* upload in flight is stored or refused, and the inbox is opened again.   *)
Fairness ==
    /\ \A b \in Browsers : 
        WF_vars(Proceed(b)) /\ WF_vars(Unlock(b)) /\ WF_vars(Reopen(b)) /\ WF_vars(Abandon(b))
    /\ WF_vars(\E e \in wire : Store(e))
FairSpec == Spec /\ Fairness

-----------------------------------------------------------------------------
Profiles == {disk[b].env.snap : b \in {c \in Browsers : disk[c] # None}}
Backups  == Profiles \cup (IF remote = None THEN {} ELSE {remote.snap})

(* No ratchet key encrypts twice: two ciphertexts that left a profile      *)
(* belong to different keys, and attempts at one message carry one         *)
(* ciphertext, whichever profile rolled back, was restored or took over.   *)
NoKeyReuse ==
    \A e, f \in {g \in ledger : g.cipher # None} :
        e.tx.msg = f.tx.msg <=> e.cipher = f.cipher

(* What was broadcast is in the backup: its evidence, the packet it        *)
(* carries, and the keys it registers, so that any profile can recover it  *)
(* (docs: the bridge requires a backup of the exact bytes).                *)
BackedUp ==
    \A e \in ledger :
        /\ remote # None
        /\ Status(remote.snap.store, e.tx) \notin {"none", "signing"}
        /\ e.tx.msg # 0 =>
            /\ remote.snap.sends[e.tx.msg].st \in {"ready", "confirmed"}
            /\ remote.snap.sends[e.tx.msg].cipher = e.cipher
        /\ e.tx.msg = 0 => remote.snap.db[e.tx.dev] # None

(* A record of an outcome is true in every profile and in the backup.      *)
EvidenceTrue ==
    \A s \in Backups :
        /\ \A r \in s.store.rows :
            /\ r.st = "not_broadcast" => \A e \in ledger : e.tx # r.tx
            /\ r.st = "included" => Code(r.tx) # "none"
        /\ \A m \in Messages :
            s.sends[m].st = "confirmed" \/ m \in s.out => Sent(m)
        /\ s.registered => device # None /\ device.gen >= s.dev.gen

(* Archive, cursor and ratchets move together: what the cursor passed was  *)
(* read or quarantined, what was read is exactly what the ratchets         *)
(* decrypted, and no genuine message is given up.                          *)
InboxExact ==
    \A s \in Backups :
        /\ s.read \cup s.quarantine = 1..s.cursor
        /\ s.read = UNION {s.db[d].got : d \in {e \in Devices : s.db[e] # None}}
        /\ \A i \in s.quarantine : ~inbox[i].genuine

(* The backup never loses what it held: no stale profile overwrites it.    *)
BackupNeverForgets ==
    [][remote # None =>
        /\ remote.snap.out \subseteq remote'.snap.out
        /\ remote.snap.read \subseteq remote'.snap.read
        /\ \A d \in Devices : remote.snap.db[d] # None =>
            /\ remote'.snap.db[d] # None
            /\ remote'.snap.db[d].sent >= remote.snap.db[d].sent
        /\ \A r \in remote.snap.store.rows : Status(remote'.snap.store, r.tx) # "none"
      ]_remote

(* A message the contract accepted ends up in the archive of the backup,   *)
(* whatever its profile was doing when it was closed.                      *)
SentIsArchived ==
    \A m \in Messages : Sent(m) ~> (remote # None /\ m \in remote.snap.out)
=============================================================================
