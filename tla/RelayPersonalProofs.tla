------------------------ MODULE RelayPersonalProofs ------------------------
(***************************************************************************)
(* Proofs about the personal relay client, for any number of browsers,     *)
(* messages, devices and deliveries.  The properties are about the backup  *)
(* and the ledger; they are inductive only together with what every copy   *)
(* of the profile satisfies, on disk, in memory, on its way to the service *)
(* and there:                                                              *)
(*                                                                         *)
(*   Sound     each by itself, and what it says of the world               *)
(*   Extends   each later copy keeps what the earlier one held             *)
(*   OnDisk, Stored   revisions order the copies                           *)
(*   Turns, Submitting   what an open controller did since it last wrote   *)
(*                                                                         *)
(* A step is one of a profile (ProfileStep), or of the service and the     *)
(* chain (WorldStep).                                                      *)
(***************************************************************************)
EXTENDS RelayPersonal, TLAPS

Known    == {"signed", "pending", "included", "not_broadcast"}
Marks    == {"signing", "signed", "pending", "included", "not_broadcast"}
Statuses == {"none", "signing"} \cup Known
Packed   == {"ready", "confirmed"}
Ratchets == [Devices -> Ratchet \cup {None}]

-----------------------------------------------------------------------------
(* What a snapshot keeps of an earlier one of the same wallet: a row may    *)
(* advance and never disappear, and signed bytes stay signed.               *)
StoreKeeps(old, new) ==
    \A t \in Txs :
        /\ Status(old, t) # "none" => Status(new, t) # "none"
        /\ Status(old, t) \in Known => Status(new, t) \in Known
DataKeeps(s, t) ==
    /\ s.out \subseteq t.out
    /\ s.read \subseteq t.read
    /\ \A d \in Devices : s.db[d] # None => t.db[d] # None /\ s.db[d].sent <= t.db[d].sent
    /\ \A m \in Messages : s.sends[m].st \in Packed =>
           t.sends[m].st \in Packed /\ t.sends[m].cipher = s.sends[m].cipher
Extends(s, t) == DataKeeps(s, t) /\ StoreKeeps(s.store, t.store)

(* What every snapshot satisfies by itself: a packet used a ratchet key of  *)
(* its own, an interrupted operation can be undone, the inbox is exact.     *)
OnceEach(store) == \A q, r \in store.rows : q.tx = r.tx => q = r
Keyed(s) ==
    /\ s.db[s.dev] # None
    /\ s.prep # None => s.db[s.prep] # None
    /\ \A m \in Messages : s.sends[m].st \in Packed =>
           /\ s.sends[m].cipher # None
           /\ s.db[s.sends[m].cipher.dev] # None
           /\ s.sends[m].cipher.pos <= s.db[s.sends[m].cipher.dev].sent
    /\ \A m, n \in Messages :
           s.sends[m].st \in Packed /\ s.sends[n].st \in Packed
             /\ s.sends[m].cipher = s.sends[n].cipher => m = n
Undoable(s) ==
    /\ s.inbound # None => s.db[s.inbound.dev] = s.inbound.blocks
    /\ \A m \in Messages : s.sends[m].st = "preparing" =>
           /\ s.inbound = None
           /\ s.sends[m].blocks = s.db[s.dev]
           /\ \A n \in Messages : s.sends[n].st = "preparing" => n = m
Exact(s) ==
    /\ s.read \cup s.quarantine = 1..s.cursor
    /\ s.read = UNION {s.db[d].got : d \in {e \in Devices : s.db[e] # None}}
Coherent(s) == Keyed(s) /\ Undoable(s) /\ Exact(s)

(* What it says of the world.  A transaction is known first to the profile  *)
(* that made it, whose localStorage L[t.by] is ahead of every snapshot.     *)
Origin(L, t) == Status(L[t.by], t)
Traced(L, store) ==
    \A t \in Txs :
        /\ Status(store, t) # "none" => Origin(L, t) # "none"
        /\ Status(store, t) \in Known => Origin(L, t) \in Known
        /\ Status(store, t) = "not_broadcast" => Origin(L, t) = "not_broadcast"
        /\ Status(store, t) = "included" => Code(t) # "none"
Claims(s) ==
    /\ \A m \in Messages : s.sends[m].st = "confirmed" \/ m \in s.out => Sent(m)
    /\ s.registered => device # None /\ device.gen >= s.dev.gen
    /\ s.cursor <= Len(inbox)
    /\ \A i \in s.quarantine : ~inbox[i].genuine
Sound(L, s) ==
    /\ Coherent(s)
    /\ Claims(s)
    /\ OnceEach(s.store) /\ Traced(L, s.store)

(* The service, with what is on its way to it. *)
Stored(L) ==
    /\ remote # None => Sound(L, remote.snap)
    /\ \A e \in wire :
        /\ Sound(L, e.snap)
        /\ e.rev = Revision(remote) + 1
        /\ remote # None => Extends(remote.snap, e.snap)

(* The chain knows what was broadcast, and so do its profile and the backup. *)
Books(L) ==
    /\ \A e, f \in ledger : e.tx = f.tx => e = f
    /\ \A e \in ledger :
        /\ Origin(L, e.tx) \in {"pending", "included"}
        /\ e.tx.msg = 0 <=> e.cipher = None
    /\ BackedUp

(* The localStorage of a profile: of transactions it did not make it only   *)
(* records inclusions, and one that cannot write has none.                  *)
Recorded(L, b) ==
    /\ OnceEach(L[b])
    /\ Traced(L, L[b])
    /\ \A r \in L[b].rows : r.tx.by # b => r.st = "included"

(* A record on disk: its envelope is the watermark or the next revision     *)
(* after it, and extends it; the backup extends the watermark.              *)
OnDisk(L, b, k) ==
    /\ k = None => L[b].rows = {}
    /\ k # None =>
        /\ Sound(L, k.env.snap)
        /\ k.env.snap.readOnly => L[b].rows = {} /\ k.base # None
        /\ k.env = k.base
           \/ /\ k.env.rev = Revision(k.base) + 1
              /\ k.base # None => Extends(k.base.snap, k.env.snap)
        /\ k.base # None => remote # None /\ Extends(k.base.snap, remote.snap)

(* How the working ratchet relates to the snapshot, step by step. *)
Turns(c, s, w) ==
    /\ c.at \notin {"seal", "keep"} => w[s.dev] = s.db[s.dev]
    /\ c.at = "seal" => w[s.dev] = [s.db[s.dev] EXCEPT !.sent = @ + 1]
    /\ c.at \in {"decrypt", "keep", "reject"} => s.inbound # None /\ s.cursor < Len(inbox)
    /\ c.at = "decrypt" => w[s.inbound.dev] = s.db[s.inbound.dev]
    /\ c.at = "keep" =>
          /\ w[s.inbound.dev] = [s.db[s.inbound.dev] EXCEPT !.got = @ \cup {s.cursor + 1}]
          /\ s.inbound.dev # s.dev => w[s.dev] = s.db[s.dev]
    /\ c.at = "reject" => ~inbox[s.cursor + 1].genuine

(* How far the record of the transaction being submitted is. *)
Recording(at) ==
    CASE at = "execute" -> "none"
      [] at = "signing" -> "signing"
      [] at = "backup"  -> "signed"
      [] at = "receipt" -> "pending"
Submitting(L, b, c, s) ==
    c.at \in {"execute", "signing", "backup", "receipt"} =>
        /\ c.tx \in Txs /\ c.tx.by = b
        /\ ~s.readOnly
        /\ Status(L[b], c.tx) = Recording(c.at)
        /\ c.tx.msg # 0 => s.sends[c.tx.msg].st = "ready"
        /\ c.tx.msg = 0 => s.db[c.tx.dev] # None

(* An open controller: what it awaits was written, and only signed bytes    *)
(* that were acknowledged are broadcast.                                    *)
InMemory(L, b, k, s, w, c) ==
    /\ c.at = "closed" => c.io = "none"
    /\ c.at # "closed" <=> s # None
    /\ s # None =>
        /\ k # None
        /\ Sound(L, s)
        /\ s.readOnly <=> k.env.snap.readOnly
        /\ k.base # None => Extends(k.base.snap, s)
        /\ c.io # "none" \/ c.at = "backup" => k.env.snap = s
        /\ c.io = "none" => k.base # None
        /\ c.at = "backup" => Status(s.store, c.tx) \in Known
        /\ c.at = "backup" /\ c.io = "none" => k.env = k.base
        /\ Turns(c, s, w)
        /\ Submitting(L, b, c, s)

Profile(L, b, k, s, w, c) ==
    Recorded(L, b) /\ OnDisk(L, b, k) /\ InMemory(L, b, k, s, w, c)

IInv ==
    /\ TypeOK
    /\ Stored(ls)
    /\ Books(ls)
    /\ \A b \in Browsers : Profile(ls, b, disk[b], mem[b], work[b], pc[b])

-----------------------------------------------------------------------------
(* Rows of transactions.                                                    *)

(* A store that keeps one row of a transaction answers with that row. *)
LEMMA StatusOfRow ==
  ASSUME NEW store, OnceEach(store), NEW r \in store.rows
  PROVE  Status(store, r.tx) = r.st
<1> DEFINE q == CHOOSE q \in store.rows : q.tx = r.tx
<1>1. q \in store.rows /\ q.tx = r.tx
  OBVIOUS
<1>2. q = r
  BY <1>1 DEF OnceEach
<1> QED BY <1>2 DEF Status

LEMMA StatusNone ==
  ASSUME NEW store \in Storage, OnceEach(store), NEW t
  PROVE  /\ Status(store, t) \in Statuses
         /\ Status(store, t) = "none" <=> \A r \in store.rows : r.tx # t
<1>1. CASE \A r \in store.rows : r.tx # t
  BY <1>1 DEF Status, Statuses
<1>2. ASSUME NEW r \in store.rows, r.tx = t
      PROVE  Status(store, t) \in Statuses /\ Status(store, t) # "none"
  <2>1. Status(store, t) = r.st
    BY <1>2, StatusOfRow
  <2>2. r \in Entry
    BY DEF Storage
  <2> QED BY <2>1, <2>2 DEF Entry, Statuses, Known
<1> QED BY <1>1, <1>2

LEMMA PutStatus ==
  ASSUME NEW store \in Storage, OnceEach(store), NEW t \in Txs,
         NEW st \in Marks
  PROVE  /\ Put(store, t, st) \in Storage
         /\ OnceEach(Put(store, t, st))
         /\ Put(store, t, st).life = store.life
         /\ \A u : Status(Put(store, t, st), u) = IF u = t THEN st ELSE Status(store, u)
<1> DEFINE new == [tx |-> t, st |-> st]
           put == Put(store, t, st)
<1>1. /\ store.rows \subseteq Entry /\ store.life \in Intent
      /\ store = [rows |-> store.rows, life |-> store.life]
  BY DEF Storage
<1>2. new \in Entry /\ new.tx = t /\ new.st = st
  BY DEF Entry, Marks
<1>3. /\ put.rows = {r \in store.rows : r.tx # t} \cup {new}
      /\ put.life = store.life
      /\ put = [rows |-> put.rows, life |-> put.life]
  <2> DEFINE rows == {r \in store.rows : r.tx # t} \cup {new}
  <2>1. put = [store EXCEPT !.rows = rows]
    BY DEF Put
  <2> HIDE DEF rows, put
  <2>2. put = [rows |-> rows, life |-> store.life]
    BY <2>1 DEF Storage
  <2> QED BY <2>2 DEF rows
<1> HIDE DEF new, put
<1>4. put \in Storage
  BY <1>1, <1>2, <1>3 DEF Storage
<1>5. OnceEach(put)
  BY <1>2, <1>3 DEF OnceEach
<1>6. ASSUME NEW u PROVE Status(put, u) = IF u = t THEN st ELSE Status(store, u)
  <2>1. CASE u = t
    BY <2>1, <1>2, <1>3, <1>5, StatusOfRow
  <2>2. ASSUME u # t, NEW r \in store.rows, r.tx = u PROVE Status(put, u) = Status(store, u)
    BY <2>2, <1>3, <1>5, StatusOfRow
  <2>3. ASSUME u # t, \A r \in store.rows : r.tx # u PROVE Status(put, u) = Status(store, u)
    <3>1. \A r \in put.rows : r.tx # u
      BY <2>3, <1>2, <1>3
    <3> QED BY <3>1, <2>3 DEF Status
  <2> QED BY <2>1, <2>2, <2>3
<1> QED BY <1>3, <1>4, <1>5, <1>6 DEF put

LEMMA MergedStatus ==
  ASSUME NEW l \in Storage, NEW s \in Storage, OnceEach(l), OnceEach(s)
  PROVE  /\ Merged(l, s) \in Storage
         /\ OnceEach(Merged(l, s))
         /\ \A u : Status(Merged(l, s), u) =
                   IF Status(l, u) # "none" THEN Status(l, u) ELSE Status(s, u)
<1> DEFINE merged == Merged(l, s)
<1>1. /\ l.rows \subseteq Entry /\ l.life \in Intent
      /\ s.rows \subseteq Entry /\ s.life \in Intent
  BY DEF Storage
<1>2. /\ merged.rows = l.rows \cup {r \in s.rows : \A q \in l.rows : q.tx # r.tx}
      /\ merged.life \in Intent
      /\ merged = [rows |-> merged.rows, life |-> merged.life]
  BY <1>1 DEF Merged
<1> HIDE DEF merged
<1>3. merged \in Storage
  BY <1>1, <1>2 DEF Storage
<1>4. OnceEach(merged)
  BY <1>2 DEF OnceEach
<1>5. ASSUME NEW u
      PROVE  Status(merged, u) = IF Status(l, u) # "none" THEN Status(l, u) ELSE Status(s, u)
  <2>1. ASSUME NEW r \in l.rows, r.tx = u PROVE Status(merged, u) = Status(l, u) /\ Status(l, u) # "none"
    BY <2>1, <1>2, <1>4, StatusOfRow, StatusNone
  <2>2. ASSUME \A q \in l.rows : q.tx # u, NEW r \in s.rows, r.tx = u
        PROVE Status(merged, u) = Status(s, u) /\ Status(l, u) = "none"
    BY <2>2, <1>2, <1>4, StatusOfRow, StatusNone
  <2>3. ASSUME \A q \in l.rows : q.tx # u, \A r \in s.rows : r.tx # u
        PROVE Status(merged, u) = Status(s, u) /\ Status(l, u) = "none"
    <3>1. \A r \in merged.rows : r.tx # u
      BY <2>3, <1>2
    <3> QED BY <3>1, <2>3 DEF Status
  <2> QED BY <2>1, <2>2, <2>3
<1> QED BY <1>2, <1>3, <1>4, <1>5 DEF merged

LEMMA CapturedFields ==
  ASSUME NEW s \in Snapshot, NEW w \in Ratchets, NEW l \in Storage,
         OnceEach(l), OnceEach(s.store)
  PROVE  LET n == Captured(s, w, l) IN
         /\ n \in Snapshot
         /\ n.dev = s.dev /\ n.prep = s.prep
         /\ n.db = [s.db EXCEPT ![s.dev] = w[s.dev]]
         /\ n.sends = s.sends /\ n.out = s.out
         /\ n.cursor = s.cursor /\ n.read = s.read /\ n.quarantine = s.quarantine
         /\ n.inbound = s.inbound
         /\ n.readOnly = s.readOnly /\ n.rotationRecovery = s.rotationRecovery
         /\ n.registered = s.registered /\ n.registration = s.registration
         /\ n.store = IF s.readOnly THEN s.store ELSE Merged(l, s.store)
<1> DEFINE D == [s.db EXCEPT ![s.dev] = w[s.dev]]
           S == IF s.readOnly THEN s.store ELSE Merged(l, s.store)
<1>1. D \in Ratchets
  BY DEF Ratchets, Snapshot
<1>2. S \in Storage
  BY MergedStatus DEF Snapshot
<1>3. Captured(s, w, l) = [s EXCEPT !.db = D, !.store = S]
  BY DEF Captured
<1> HIDE DEF D, S
<1> DEFINE n == [s EXCEPT !.db = D, !.store = S]
<1>4. n \in Snapshot
  BY <1>1, <1>2 DEF Snapshot, Ratchets
<1>5. /\ n.dev = s.dev /\ n.prep = s.prep
         /\ n.db = D
         /\ n.sends = s.sends /\ n.out = s.out
         /\ n.cursor = s.cursor /\ n.read = s.read /\ n.quarantine = s.quarantine
         /\ n.inbound = s.inbound
         /\ n.readOnly = s.readOnly /\ n.rotationRecovery = s.rotationRecovery
         /\ n.registered = s.registered /\ n.registration = s.registration
         /\ n.store = S
  BY DEF Snapshot
<1> HIDE DEF n
<1> QED BY <1>3, <1>4, <1>5 DEF n, D, S

-----------------------------------------------------------------------------
(* A row of a localStorage only advances. *)
Later(old, new) ==
    /\ old # "none" => new # "none"
    /\ old \in Known => new \in Known
    /\ old = "not_broadcast" => new = "not_broadcast"
    /\ old \in {"pending", "included"} => new \in {"pending", "included"}
Follows(old, new) == \A t \in Txs : Later(Status(old, t), Status(new, t))

LEMMA SoundStays ==
  ASSUME NEW L \in [Browsers -> Storage], NEW M \in [Browsers -> Storage],
         \A b \in Browsers : Follows(L[b], M[b])
  PROVE  /\ \A store : Traced(L, store) => Traced(M, store)
         /\ \A s : Sound(L, s) => Sound(M, s)
<1>1. ASSUME NEW store, Traced(L, store) PROVE Traced(M, store)
  <2>1. ASSUME NEW t \in Txs PROVE Later(Origin(L, t), Origin(M, t))
    BY DEF Follows, Origin, Txs
  <2> QED BY <1>1, <2>1 DEF Traced, Later
<1> QED BY <1>1 DEF Sound

Moves(b, k, s, w, l, c) ==
    /\ disk' = [disk EXCEPT ![b] = k]
    /\ mem' = [mem EXCEPT ![b] = s]
    /\ work' = [work EXCEPT ![b] = w]
    /\ ls' = [ls EXCEPT ![b] = l]
    /\ pc' = [pc EXCEPT ![b] = c]
    /\ UNCHANGED <<remote, wire, device, ledger, inbox>>
    /\ failures' \in 0..MaxFailures
Typed(k, s, w, l, c) ==
    /\ k \in Record \cup {None} /\ s \in Snapshot \cup {None}
    /\ w \in Ratchets /\ l \in Storage /\ c \in Control

(* A step of one profile keeps the invariant if it keeps its own part.      *)
LEMMA ProfileStep ==
  ASSUME IInv, NEW b \in Browsers, NEW k, NEW s, NEW w, NEW l, NEW c,
         Typed(k, s, w, l, c), Moves(b, k, s, w, l, c),
         Follows(ls[b], l),
         Profile([ls EXCEPT ![b] = l], b, k, s, w, c)
  PROVE  IInv'
<1> DEFINE L == [ls EXCEPT ![b] = l]
<1>0. /\ TypeOK /\ Stored(ls) /\ Books(ls)
      /\ \A x \in Browsers : Profile(ls, x, disk[x], mem[x], work[x], pc[x])
  BY DEF IInv
<1>1. /\ ls \in [Browsers -> Storage] /\ L \in [Browsers -> Storage]
      /\ ls' = L
  BY <1>0 DEF TypeOK, Typed, Moves
<1>2. ASSUME NEW x \in Browsers PROVE Follows(ls[x], L[x])
  <2>1. CASE x = b
    BY <2>1, <1>1
  <2>2. CASE x # b
    BY <2>2, <1>1 DEF Follows, Later
  <2> QED BY <2>1, <2>2
<1>3. /\ \A store : Traced(ls, store) => Traced(L, store)
      /\ \A x : Sound(ls, x) => Sound(L, x)
  BY <1>1, <1>2, SoundStays
<1>4. TypeOK'
  BY <1>0 DEF TypeOK, Typed, Moves, Ratchets
<1>5. Stored(ls)'
  <2>1. remote' = remote /\ wire' = wire /\ ledger' = ledger /\ device' = device /\ inbox' = inbox
    BY DEF Moves
  <2>2. Stored(L)
    BY <1>0, <1>3 DEF Stored
  <2>3. Stored(ls)' = Stored(L)
    BY <2>1, <1>1 DEF Stored, Sound, Claims, Traced, Origin, Code, Sent
  <2> QED BY <2>2, <2>3
<1> HIDE DEF L
<1>6. Books(ls)'
  <2>1. remote' = remote /\ ledger' = ledger
    BY DEF Moves
  <2>2. Books(L)
    <3>1. ASSUME NEW e \in ledger PROVE Origin(L, e.tx) \in {"pending", "included"}
      <4>1. Origin(ls, e.tx) \in {"pending", "included"} /\ e.tx \in Txs
        BY <1>0 DEF Books, TypeOK
      <4>2. Later(Origin(ls, e.tx), Origin(L, e.tx))
        BY <4>1, <1>2 DEF Follows, Origin, Txs
      <4> QED BY <4>1, <4>2 DEF Later
    <3> QED BY <1>0, <3>1 DEF Books
  <2>3. BackedUp' = BackedUp
    BY <2>1 DEF BackedUp
  <2> QED BY <1>1, <2>1, <2>2, <2>3 DEF Books
<1>7. ASSUME NEW x \in Browsers
      PROVE  Profile(ls, x, disk[x], mem[x], work[x], pc[x])'
  <2> DEFINE k1 == disk'[x]
             s1 == mem'[x]
             w1 == work'[x]
             c1 == pc'[x]
  <2>1. Profile(L, x, k1, s1, w1, c1)
    <3>1. CASE x = b
      BY <3>1, <1>0 DEF Moves, TypeOK, L
    <3>2. CASE x # b
      <4>1. k1 = disk[x] /\ s1 = mem[x] /\ w1 = work[x] /\ c1 = pc[x] /\ L[x] = ls[x]
        BY <3>2, <1>0 DEF Moves, TypeOK, L
      <4>2. Recorded(L, x)
        BY <4>1, <1>0, <1>3 DEF Profile, Recorded
      <4>3. OnDisk(L, x, k1)
        BY <4>1, <1>0, <1>3 DEF Profile, OnDisk
      <4>4. InMemory(L, x, k1, s1, w1, c1)
        <5>1. InMemory(ls, x, k1, s1, w1, c1)
          BY <4>1, <1>0 DEF Profile
        <5>2. Submitting(ls, x, c1, s1) => Submitting(L, x, c1, s1)
          BY <4>1 DEF Submitting
        <5> HIDE DEF k1, s1, w1, c1
        <5> QED BY <5>1, <5>2, <1>3 DEF InMemory
      <4> QED BY <4>2, <4>3, <4>4 DEF Profile
    <3> QED BY <3>1, <3>2
  <2>2. remote' = remote /\ ledger' = ledger /\ device' = device /\ inbox' = inbox
    BY DEF Moves
  <2>3. Profile(ls, x, disk[x], mem[x], work[x], pc[x])' = Profile(L, x, k1, s1, w1, c1)
    BY <2>2, <1>1 DEF Profile, Recorded, OnDisk, InMemory, Turns, Submitting,
       Sound, Claims, Traced, Origin, Code, Sent
  <2> QED BY <2>1, <2>3
<1> QED BY <1>4, <1>5, <1>6, <1>7 DEF IInv

-----------------------------------------------------------------------------
(* persist(). *)

LEMMA ExtendsTransitive ==
  ASSUME NEW s \in Snapshot, NEW t \in Snapshot, NEW u \in Snapshot,
         Extends(s, t), Extends(t, u)
  PROVE  Extends(s, u)
<1>1. DataKeeps(s, u)
  <2>1. ASSUME NEW d \in Devices, s.db[d] # None
        PROVE  u.db[d] # None /\ s.db[d].sent <= u.db[d].sent
    <3>1. t.db[d] # None /\ s.db[d].sent <= t.db[d].sent
      BY <2>1 DEF Extends, DataKeeps
    <3>2. u.db[d] # None /\ t.db[d].sent <= u.db[d].sent
      BY <3>1 DEF Extends, DataKeeps
    <3>3. s.db[d] \in Ratchet /\ t.db[d] \in Ratchet /\ u.db[d] \in Ratchet
      BY <2>1, <3>1, <3>2 DEF Snapshot
    <3> QED BY <3>1, <3>2, <3>3 DEF Ratchet
  <2> QED BY <2>1 DEF Extends, DataKeeps
<1>2. StoreKeeps(s.store, u.store)
  BY DEF Extends, StoreKeeps
<1> QED BY <1>1, <1>2 DEF Extends

LEMMA MergedKeeps ==
  ASSUME NEW L \in [Browsers -> Storage], NEW b \in Browsers, Recorded(L, b),
         NEW store \in Storage, OnceEach(store), Traced(L, store)
  PROVE  LET m == Merged(L[b], store) IN
         m \in Storage /\ OnceEach(m) /\ Traced(L, m) /\ StoreKeeps(store, m)
<1> DEFINE m == Merged(L[b], store)
<1>1. L[b] \in Storage /\ OnceEach(L[b])
  BY DEF Recorded
<1>2. /\ m \in Storage /\ OnceEach(m)
      /\ \A u : Status(m, u) = IF Status(L[b], u) # "none" THEN Status(L[b], u) ELSE Status(store, u)
  BY <1>1, MergedStatus
<1> HIDE DEF m
<1>3. Traced(L, m)
  BY <1>2 DEF Recorded, Traced
<1>4. ASSUME NEW t \in Txs, Status(store, t) \in Known, Status(L[b], t) # "none"
      PROVE  Status(L[b], t) \in Known
  <2>1. CASE t.by = b
    BY <2>1, <1>4 DEF Traced, Origin
  <2>2. CASE t.by # b
    <3>1. PICK r \in L[b].rows : r.tx = t
      BY <1>1, <1>4, StatusNone
    <3>2. Status(L[b], t) = "included"
      BY <3>1, <2>2, <1>1, StatusOfRow DEF Recorded
    <3> QED BY <3>2 DEF Known
  <2> QED BY <2>1, <2>2
<1>5. StoreKeeps(store, m)
  BY <1>2, <1>4 DEF StoreKeeps
<1> QED BY <1>2, <1>3, <1>5 DEF m

LEMMA CapturedKeeps ==
  ASSUME NEW L \in [Browsers -> Storage], NEW b \in Browsers, Recorded(L, b),
         NEW s \in Snapshot, NEW w \in Ratchets, OnceEach(s.store), Traced(L, s.store)
  PROVE  LET n == Captured(s, w, L[b]) IN
         /\ OnceEach(n.store) /\ Traced(L, n.store) /\ StoreKeeps(s.store, n.store)
         /\ Claims(s) => Claims(n)
<1> DEFINE n == Captured(s, w, L[b])
<1>1. s.store \in Storage /\ L[b] \in Storage /\ OnceEach(L[b])
  BY DEF Snapshot, Recorded
<1>2. /\ n.store = IF s.readOnly THEN s.store ELSE Merged(L[b], s.store)
      /\ n.dev = s.dev /\ n.sends = s.sends /\ n.out = s.out
      /\ n.cursor = s.cursor /\ n.quarantine = s.quarantine /\ n.registered = s.registered
  BY <1>1, CapturedFields, Zenon
<1> HIDE DEF n
<1>3. OnceEach(n.store) /\ Traced(L, n.store) /\ StoreKeeps(s.store, n.store)
  <2>1. CASE s.readOnly
    BY <2>1, <1>2 DEF StoreKeeps
  <2>2. CASE ~s.readOnly
    BY <2>2, <1>1, <1>2, MergedKeeps
  <2> QED BY <2>1, <2>2
<1>4. Claims(s) => Claims(n)
  BY <1>2 DEF Claims
<1> QED BY <1>3, <1>4 DEF n

(* What an action that persists the snapshot s has to establish. *)
Persists(b, s, w, l, c) ==
    /\ Persist(b, s, w, l)
    /\ work' = [work EXCEPT ![b] = w]
    /\ ls' = [ls EXCEPT ![b] = l]
    /\ pc' = [pc EXCEPT ![b] = c]
    /\ UNCHANGED <<remote, wire, device, ledger, inbox>>
    /\ failures' \in 0..MaxFailures
Continues(b, s, l, c) ==
    /\ s.readOnly => mem[b].readOnly
    /\ l = ls[b] \/ ~s.readOnly
    /\ c.at # "closed" /\ c.io \in {"check", Uploading(s)}
    /\ c.at = "backup" => c.io = "check"

LEMMA PersistStep ==
  ASSUME IInv, NEW b \in Browsers, mem[b] # None,
         NEW s \in Snapshot, NEW w \in Ratchets, NEW l \in Storage, NEW c \in Control,
         Persists(b, s, w, l, c), Continues(b, s, l, c),
         Follows(ls[b], l), Recorded([ls EXCEPT ![b] = l], b),
         OnceEach(s.store), Traced([ls EXCEPT ![b] = l], s.store),
         Claims(s), StoreKeeps(mem[b].store, s.store),
         Coherent(Captured(s, w, l)), DataKeeps(mem[b], Captured(s, w, l)),
         Turns(c, Captured(s, w, l), w),
         Submitting([ls EXCEPT ![b] = l], b, c, Captured(s, w, l))
  PROVE  IInv'
<1> DEFINE L == [ls EXCEPT ![b] = l]
           n == Captured(s, w, l)
           k == [env |-> [rev |-> Revision(BaseOf(b)) + 1, by |-> b, snap |-> n],
                 base |-> BaseOf(b), pend |-> FALSE]
<1>0. /\ TypeOK
      /\ Profile(ls, b, disk[b], mem[b], work[b], pc[b])
  BY DEF IInv
<1>1. L \in [Browsers -> Storage] /\ L[b] = l
  BY <1>0 DEF TypeOK
<1>2. /\ n \in Snapshot /\ n.readOnly = s.readOnly
      /\ n.store = IF s.readOnly THEN s.store ELSE Merged(l, s.store)
  <2>1. OnceEach(l)
    BY <1>1 DEF Recorded
  <2> QED BY <2>1, CapturedFields
<1>3. OnceEach(n.store) /\ Traced(L, n.store) /\ StoreKeeps(s.store, n.store) /\ Claims(n)
  BY <1>1, CapturedKeeps
<1>b. /\ disk[b] # None /\ disk[b] \in Record /\ mem[b] \in Snapshot
      /\ BaseOf(b) = disk[b].base
      /\ BaseOf(b) \in Envelope \cup {None}
      /\ remote \in Envelope \cup {None}
  BY <1>0 DEF Profile, InMemory, TypeOK, BaseOf, Record
<1>4. Sound(L, n)
  BY <1>3 DEF Sound
<1>5. Extends(mem[b], n)
  BY <1>3 DEF Extends, StoreKeeps
<1>6. ASSUME BaseOf(b) # None
      PROVE /\ Extends(BaseOf(b).snap, n)
            /\ remote # None /\ Extends(BaseOf(b).snap, remote.snap)
  <2>1. BaseOf(b).snap \in Snapshot
    BY <1>6, <1>b DEF Envelope
  <2>2. /\ Extends(BaseOf(b).snap, mem[b])
        /\ remote # None /\ Extends(BaseOf(b).snap, remote.snap)
    BY <1>6, <1>b, <1>0 DEF Profile, InMemory, OnDisk
  <2> QED BY <2>1, <2>2, <1>2, <1>5, <1>b, ExtendsTransitive
<1>7. /\ k \in Record
      /\ k.env.rev = Revision(BaseOf(b)) + 1 /\ k.env.snap = n /\ k.base = BaseOf(b)
  <2>1. Revision(BaseOf(b)) \in Nat /\ Revision(BaseOf(b)) < MaxRevision /\ MaxRevision \in Nat
    BY <1>b, RelayPersonalAssumption DEF Persists, Persist, Revision, Envelope
  <2> HIDE DEF n
  <2>2. [rev |-> Revision(BaseOf(b)) + 1, by |-> b, snap |-> n] \in Envelope
    BY <2>1, <1>2 DEF Envelope
  <2> QED BY <2>2, <1>b DEF Record
<1>8. s.readOnly => mem[b].readOnly /\ BaseOf(b) # None /\ l.rows = {}
  <2>1. ASSUME s.readOnly PROVE mem[b].readOnly /\ BaseOf(b) # None /\ l.rows = {}
    <3>1. mem[b].readOnly /\ l = ls[b]
      BY <2>1 DEF Continues
    <3>2. disk[b].env.snap.readOnly
      BY <3>1, <1>0, <1>b DEF Profile, InMemory
    <3> QED BY <3>1, <3>2, <1>0, <1>b DEF Profile, OnDisk
  <2> QED BY <2>1
<1>9. k # None /\ n # None
  BY <1>7, <1>2, NoneAssumption
<1>m. Moves(b, k, n, w, l, c)
  BY DEF Persists, Persist, Moves
<1> HIDE DEF k, n
<1>10. OnDisk(L, b, k)
  BY <1>1, <1>2, <1>4, <1>6, <1>7, <1>8, <1>9 DEF OnDisk
<1>11. InMemory(L, b, k, n, w, c)
  <2>1. c.at # "closed" /\ (c.io = "none" => BaseOf(b) # None) /\ (c.at = "backup" => c.io # "none")
    BY <1>8 DEF Continues, Uploading
  <2>2. Turns(c, n, w) /\ Submitting(L, b, c, n)
    BY DEF n
  <2>3. c.at = "backup" => Status(n.store, c.tx) \in Known
    <3>1. ASSUME c.at = "backup" PROVE ~n.readOnly /\ Status(l, c.tx) = "signed"
      BY <3>1, <1>1, <2>2 DEF Submitting, Recording
    <3>2. OnceEach(l) /\ s.store \in Storage
      BY <1>1 DEF Recorded, Snapshot
    <3> QED BY <3>1, <3>2, <1>2, MergedStatus DEF Known
  <2> QED BY <1>2, <1>4, <1>6, <1>7, <1>8, <1>9, <2>1, <2>2, <2>3 DEF InMemory
<1>12. Profile(L, b, k, n, w, c)
  BY <1>10, <1>11 DEF Profile
<1>13. Typed(k, n, w, l, c)
  BY <1>2, <1>7 DEF Typed
<1> HIDE DEF L
<1> QED BY <1>12, <1>13, <1>m, <1>0, ProfileStep DEF L

(* The common case: the working ratchet is the one of the snapshot. *)
LEMMA CapturedSame ==
  ASSUME NEW s \in Snapshot, NEW w \in Ratchets, NEW l \in Storage,
         OnceEach(l), OnceEach(s.store), w[s.dev] = s.db[s.dev]
  PROVE  LET n == Captured(s, w, l) IN
         /\ Coherent(s) => Coherent(n)
         /\ \A m : DataKeeps(m, s) => DataKeeps(m, n)
         /\ \A c : Turns(c, s, w) => Turns(c, n, w)
         /\ \A L, b, c : Submitting(L, b, c, s) => Submitting(L, b, c, n)
<1> DEFINE n == Captured(s, w, l)
<1>1. /\ n.dev = s.dev /\ n.prep = s.prep
      /\ n.db = [s.db EXCEPT ![s.dev] = w[s.dev]]
      /\ n.sends = s.sends /\ n.out = s.out
      /\ n.cursor = s.cursor /\ n.read = s.read /\ n.quarantine = s.quarantine
      /\ n.inbound = s.inbound /\ n.readOnly = s.readOnly
  BY CapturedFields
<1> HIDE DEF n
<1>2. n.db = s.db
  BY <1>1 DEF Snapshot
<1>3. Coherent(s) => Coherent(n)
  <2>1. Keyed(s) => Keyed(n)
    BY <1>1, <1>2 DEF Keyed
  <2>2. Undoable(s) => Undoable(n)
    BY <1>1, <1>2 DEF Undoable
  <2>3. Exact(s) => Exact(n)
    BY <1>1, <1>2 DEF Exact
  <2> QED BY <2>1, <2>2, <2>3 DEF Coherent
<1>4. \A m : DataKeeps(m, s) => DataKeeps(m, n)
  BY <1>1, <1>2 DEF DataKeeps
<1>5. \A c : Turns(c, s, w) => Turns(c, n, w)
  BY <1>1, <1>2 DEF Turns
<1>6. \A L, b, c : Submitting(L, b, c, s) => Submitting(L, b, c, n)
  BY <1>1, <1>2 DEF Submitting
<1> QED BY <1>3, <1>4, <1>5, <1>6 DEF n

LEMMA PersistSame ==
  ASSUME IInv, NEW b \in Browsers, mem[b] # None,
         NEW s \in Snapshot, NEW w \in Ratchets, NEW l \in Storage, NEW c \in Control,
         Persists(b, s, w, l, c), Continues(b, s, l, c),
         Follows(ls[b], l), Recorded([ls EXCEPT ![b] = l], b),
         OnceEach(s.store), Traced([ls EXCEPT ![b] = l], s.store),
         Claims(s), StoreKeeps(mem[b].store, s.store),
         w[s.dev] = s.db[s.dev],
         Coherent(s), DataKeeps(mem[b], s), Turns(c, s, w),
         Submitting([ls EXCEPT ![b] = l], b, c, s)
  PROVE  IInv'
<1> DEFINE L == [ls EXCEPT ![b] = l]
           n == Captured(s, w, l)
<1>1. OnceEach(l)
  BY DEF IInv, TypeOK, Recorded
<1>2. Coherent(n) /\ DataKeeps(mem[b], n) /\ Turns(c, n, w) /\ Submitting(L, b, c, n)
  BY <1>1, CapturedSame
<1> QED BY <1>2, PersistStep

LEMMA SameStorage ==
  ASSUME IInv, NEW b \in Browsers
  PROVE  /\ [ls EXCEPT ![b] = ls[b]] = ls
         /\ ls \in [Browsers -> Storage] /\ ls[b] \in Storage
         /\ Recorded(ls, b) /\ OnceEach(ls[b])
         /\ \A store : Follows(store, store) /\ StoreKeeps(store, store)
BY DEF IInv, TypeOK, Profile, Recorded, Follows, Later, StoreKeeps

(* What an open controller may rely on. *)
LEMMA Open ==
  ASSUME IInv, NEW b \in Browsers, pc[b].at # "closed" \/ mem[b] # None
  PROVE  /\ mem[b] # None /\ mem[b] \in Snapshot
         /\ pc[b].at # "closed" /\ pc[b] \in Control
         /\ work[b] \in Ratchets
         /\ disk[b] # None /\ disk[b] \in Record
         /\ Coherent(mem[b]) /\ Claims(mem[b])
         /\ OnceEach(mem[b].store) /\ Traced(ls, mem[b].store)
         /\ mem[b].store \in Storage
         /\ pc[b].io = "none" => disk[b].base # None
         /\ Turns(pc[b], mem[b], work[b])
         /\ Submitting(ls, b, pc[b], mem[b])
<1>1. Profile(ls, b, disk[b], mem[b], work[b], pc[b]) /\ TypeOK
  BY DEF IInv
<1>2. mem[b] # None /\ pc[b].at # "closed"
  BY <1>1 DEF Profile, InMemory
<1>3. mem[b] \in Snapshot
  BY <1>1, <1>2 DEF TypeOK
<1> QED BY <1>1, <1>2, <1>3 DEF Profile, InMemory, TypeOK, Sound, Ratchets, Snapshot

LEMMA PlainStep ==
  ASSUME IInv, NEW b \in Browsers, mem[b] # None,
         NEW s \in Snapshot, NEW w \in Ratchets, NEW c \in Control,
         Persists(b, s, w, ls[b], c), Continues(b, s, ls[b], c),
         s.store = mem[b].store, Claims(s), w[s.dev] = s.db[s.dev],
         Coherent(s), DataKeeps(mem[b], s), Turns(c, s, w), Submitting(ls, b, c, s)
  PROVE  IInv'
<1> DEFINE l == ls[b]
<1>1. /\ OnceEach(s.store) /\ Traced(ls, s.store)
      /\ Follows(ls[b], l) /\ StoreKeeps(mem[b].store, s.store)
      /\ [ls EXCEPT ![b] = l] = ls /\ l \in Storage /\ Recorded(ls, b)
  BY SameStorage, Open
<1>2. Persists(b, s, w, l, c) /\ Continues(b, s, l, c)
  OBVIOUS
<1> HIDE DEF l
<1> QED BY <1>1, <1>2, PersistSame

Wheres  == {"closed", "idle", "recover", "encrypt", "seal", "execute", "signing", "backup",
            "receipt", "tail", "failed", "decrypt", "keep", "reject"}
Uploads == {"none", "check", "wait"}

Moved(b, where, upload) == [pc[b] EXCEPT !.at = where, !.io = upload]

LEMMA Goes ==
  ASSUME TypeOK, NEW b \in Browsers, NEW where \in Wheres, NEW upload \in Uploads
  PROVE  /\ Moved(b, where, upload) \in Control
         /\ Moved(b, where, upload).at = where /\ Moved(b, where, upload).io = upload
         /\ Moved(b, where, upload).tx = pc[b].tx
         /\ Go(b, where, upload) => pc' = [pc EXCEPT ![b] = Moved(b, where, upload)]
<1>1. pc \in [Browsers -> Control] /\ pc[b] \in Control
  BY DEF TypeOK
<1> DEFINE c == [pc[b] EXCEPT !.at = where, !.io = upload]
<1>2. c \in Control /\ c.at = where /\ c.io = upload /\ c.tx = pc[b].tx
  BY <1>1 DEF Control, Wheres, Uploads
<1>3. [pc EXCEPT ![b].at = where, ![b].io = upload] = [pc EXCEPT ![b] = c]
  BY <1>1
<1> QED BY <1>2, <1>3 DEF Go, Moved

LEMMA UploadingType == \A s : Uploading(s) \in Uploads
BY DEF Uploading, Uploads

(* The steps that only persist a snapshot and continue elsewhere. *)
LEMMA Saves ==
  ASSUME IInv, NEW b \in Browsers, NEW s, NEW where \in Wheres, Save(b, s, where)
  PROVE  \E c \in Control :
            /\ Persists(b, s, work[b], ls[b], c)
            /\ c.at = where /\ c.io = Uploading(s)
<1> DEFINE c == Moved(b, where, Uploading(s))
<1>1. TypeOK
  BY DEF IInv
<1>2. c \in Control /\ c.at = where /\ c.io = Uploading(s) /\ pc' = [pc EXCEPT ![b] = c]
  BY <1>1, Goes, UploadingType DEF Save
<1>3. /\ work' = [work EXCEPT ![b] = work[b]]
      /\ ls' = [ls EXCEPT ![b] = ls[b]]
      /\ failures' \in 0..MaxFailures
  BY <1>1 DEF TypeOK, Save
<1> HIDE DEF c
<1>4. Persists(b, s, work[b], ls[b], c)
  BY <1>2, <1>3 DEF Persists, Save, chain
<1> QED BY <1>2, <1>4

-----------------------------------------------------------------------------
(* The actions that persist. *)

SameKeys(s, t)  == t.dev = s.dev /\ t.prep = s.prep /\ t.db = s.db
SameInbox(s, t) ==
    t.cursor = s.cursor /\ t.read = s.read /\ t.quarantine = s.quarantine /\ t.inbound = s.inbound
SameRoles(s, t) ==
    /\ t.readOnly = s.readOnly /\ t.rotationRecovery = s.rotationRecovery
    /\ t.registered = s.registered /\ t.registration = s.registration /\ t.store = s.store

LEMMA WithRow ==
  ASSUME NEW s \in Snapshot, NEW m \in Messages, NEW row \in Row
  PROVE  LET t == [s EXCEPT !.sends[m] = row] IN
         /\ t \in Snapshot
         /\ t.sends = [s.sends EXCEPT ![m] = row]
         /\ t.out = s.out
         /\ SameKeys(s, t) /\ SameInbox(s, t) /\ SameRoles(s, t)
<1> DEFINE sends == [s.sends EXCEPT ![m] = row]
           t == [s EXCEPT !.sends = sends]
<1>1. sends \in [Messages -> Row]
  BY DEF Snapshot
<1>2. [s EXCEPT !.sends[m] = row] = t
  BY DEF Snapshot
<1> HIDE DEF sends
<1>3. t \in Snapshot
  BY <1>1 DEF Snapshot
<1>4. /\ t.sends = sends /\ t.out = s.out
      /\ SameKeys(s, t) /\ SameInbox(s, t) /\ SameRoles(s, t)
  BY DEF Snapshot, SameKeys, SameInbox, SameRoles
<1> HIDE DEF t
<1> QED BY <1>2, <1>3, <1>4 DEF sends

LEMMA KeyedStays ==
  ASSUME NEW s, NEW t, SameKeys(s, t), Keyed(s),
         \A m \in Messages : t.sends[m].st \in Packed =>
             s.sends[m].st \in Packed /\ t.sends[m].cipher = s.sends[m].cipher
  PROVE  Keyed(t)
<1>1. /\ t.db[t.dev] # None
      /\ t.prep # None => t.db[t.prep] # None
  BY DEF Keyed, SameKeys
<1>2. ASSUME NEW m \in Messages, t.sends[m].st \in Packed
      PROVE  /\ t.sends[m].cipher # None
             /\ t.db[t.sends[m].cipher.dev] # None
             /\ t.sends[m].cipher.pos <= t.db[t.sends[m].cipher.dev].sent
  <2>1. s.sends[m].st \in Packed /\ t.sends[m].cipher = s.sends[m].cipher
    BY <1>2
  <2> QED BY <2>1 DEF Keyed, SameKeys
<1>3. ASSUME NEW m \in Messages, NEW n \in Messages,
             t.sends[m].st \in Packed, t.sends[n].st \in Packed,
             t.sends[m].cipher = t.sends[n].cipher
      PROVE  m = n
  BY <1>3 DEF Keyed
<1> QED BY <1>1, <1>2, <1>3 DEF Keyed

(* A row may take another step of its life. *)
RowStep(s, m, row) ==
    /\ row.st \in Packed <=> s.sends[m].st \in Packed
    /\ row.st \in Packed => row.cipher = s.sends[m].cipher
    /\ row.st = "preparing" =>
          /\ s.inbound = None /\ row.blocks = s.db[s.dev]
          /\ \A n \in Messages : s.sends[n].st # "preparing"
    /\ row.st = "confirmed" => Sent(m)

LEMMA RowKeeps ==
  ASSUME NEW s \in Snapshot, Coherent(s), Claims(s),
         NEW m \in Messages, NEW row \in Row, RowStep(s, m, row)
  PROVE  LET t == [s EXCEPT !.sends[m] = row] IN
         Coherent(t) /\ Claims(t) /\ DataKeeps(s, t)
<1> DEFINE t == [s EXCEPT !.sends[m] = row]
<1>1. /\ t.sends = [s.sends EXCEPT ![m] = row]
      /\ t.out = s.out
      /\ SameKeys(s, t) /\ SameInbox(s, t) /\ SameRoles(s, t)
  BY WithRow
<1> HIDE DEF t
<1>2. s.sends \in [Messages -> Row]
  BY DEF Snapshot
<1>3. \A n \in Messages : t.sends[n] = IF n = m THEN row ELSE s.sends[n]
  BY <1>1, <1>2
<1>4. \A n \in Messages :
        /\ t.sends[n].st \in Packed <=> s.sends[n].st \in Packed
        /\ t.sends[n].st \in Packed => t.sends[n].cipher = s.sends[n].cipher
  BY <1>3 DEF RowStep
<1>5. Keyed(t)
  BY <1>1, <1>4, KeyedStays DEF Coherent
<1>6. Undoable(t)
  <2>1. t.inbound # None => t.db[t.inbound.dev] = t.inbound.blocks
    BY <1>1 DEF Coherent, Undoable, SameKeys, SameInbox
  <2>2. ASSUME NEW n \in Messages, t.sends[n].st = "preparing"
        PROVE  /\ t.inbound = None
               /\ t.sends[n].blocks = t.db[t.dev]
               /\ \A o \in Messages : t.sends[o].st = "preparing" => o = n
    BY <2>2, <1>1, <1>3 DEF Coherent, Undoable, SameKeys, SameInbox, RowStep
  <2> QED BY <2>1, <2>2 DEF Undoable
<1>7. Exact(t)
  BY <1>1 DEF Coherent, Exact, SameKeys, SameInbox
<1>8. Claims(t)
  BY <1>1, <1>3 DEF Claims, SameKeys, SameInbox, SameRoles, RowStep
<1>9. DataKeeps(s, t)
  <2>1. \A d \in Devices : s.db[d] # None => s.db[d].sent <= s.db[d].sent
    BY DEF Snapshot, Ratchet
  <2> QED BY <1>1, <1>4, <2>1 DEF DataKeeps, SameKeys, SameInbox
<1> QED BY <1>5, <1>6, <1>7, <1>8, <1>9 DEF Coherent, t

(* Every step that only changes a row. *)
LEMMA RowPersists ==
  ASSUME IInv, NEW b \in Browsers, mem[b] # None,
         NEW m \in Messages, NEW row \in Row, RowStep(mem[b], m, row),
         NEW w \in Ratchets, NEW c \in Control,
         Persists(b, [mem[b] EXCEPT !.sends[m] = row], w, ls[b], c),
         w[mem[b].dev] = mem[b].db[mem[b].dev],
         c.at \in {"idle", "recover", "encrypt", "execute", "tail"},
         c.io \in {"check", Uploading(mem[b])},
         c.at = "execute" =>
             /\ c.tx \in Txs /\ c.tx.by = b /\ c.tx.msg = m
             /\ ~mem[b].readOnly
             /\ Status(ls[b], c.tx) = "none"
             /\ row.st = "ready"
  PROVE  IInv'
<1> DEFINE s == [mem[b] EXCEPT !.sends[m] = row]
<1>1. mem[b] \in Snapshot /\ Coherent(mem[b]) /\ Claims(mem[b])
  BY Open
<1>2. /\ s \in Snapshot
      /\ s.sends = [mem[b].sends EXCEPT ![m] = row]
      /\ SameKeys(mem[b], s) /\ SameRoles(mem[b], s)
      /\ Coherent(s) /\ Claims(s) /\ DataKeeps(mem[b], s)
  BY <1>1, WithRow, RowKeeps
<1>3. Persists(b, s, w, ls[b], c)
  OBVIOUS
<1> HIDE DEF s
<1>4. Turns(c, s, w) /\ w[s.dev] = s.db[s.dev]
  BY <1>2 DEF Turns, SameKeys
<1>5. Submitting(ls, b, c, s)
  <2>1. c.at = "execute" => s.sends[m] = row /\ c.tx.msg # 0 /\ ~s.readOnly
    BY <1>1, <1>2, RelayPersonalAssumption DEF Snapshot, SameRoles
  <2> QED BY <2>1 DEF Submitting, Recording
<1>6. Continues(b, s, ls[b], c) /\ s.store = mem[b].store
  BY <1>2 DEF Continues, SameRoles, Uploading
<1> QED BY <1>2, <1>3, <1>4, <1>5, <1>6, PlainStep

LEMMA NoRowType == NoRow \in Row /\ NoIntent \in Intent
<1>1. NoIntent \in Intent
  BY DEF NoIntent, Intent, Outcomes
<1> QED BY <1>1 DEF NoRow, Row

LEMMA PrepareMessageStep ==
  ASSUME IInv, NEW b \in Browsers, NEW m \in Messages, PrepareMessage(b, m)
  PROVE  IInv'
<1> DEFINE blocks == work[b][mem[b].dev]
           row == [NoRow EXCEPT !.st = "preparing", !.blocks = blocks]
           s == [mem[b] EXCEPT !.sends[m] = row]
<1>1. pc[b].at = "idle"
  BY DEF PrepareMessage, At
<1>2. /\ mem[b] # None /\ mem[b] \in Snapshot /\ work[b] \in Ratchets
      /\ Turns(pc[b], mem[b], work[b])
  BY <1>1, Open
<1>3. blocks = mem[b].db[mem[b].dev] /\ blocks \in Ratchet \cup {None}
  BY <1>1, <1>2 DEF Turns, Ratchets, Snapshot
<1>4. Save(b, s, "encrypt")
  BY DEF PrepareMessage
<1> HIDE DEF blocks
<1>5. row \in Row /\ row.st = "preparing" /\ row.blocks = blocks
  BY <1>3, NoRowType DEF Row
<1> HIDE DEF row
<1>6. PICK c \in Control : /\ Persists(b, s, work[b], ls[b], c)
                           /\ c.at = "encrypt" /\ c.io = Uploading(s)
  BY <1>4, Saves DEF Wheres
<1>7. Uploading(s) = Uploading(mem[b])
  BY <1>2, <1>5, WithRow DEF Uploading, SameRoles
<1>8. RowStep(mem[b], m, row)
  BY <1>3, <1>5 DEF PrepareMessage, Resolved, Terminal, RowStep, Packed
<1> QED BY <1>2, <1>3, <1>5, <1>6, <1>7, <1>8, RowPersists DEF blocks

(* execute() begins: the controller writes, and checks its backup. *)
Executing(b, t) == [pc[b] EXCEPT !.at = "execute", !.io = "check", !.tx = t]

Executes(b, t) == pc' = [pc EXCEPT ![b].at = "execute", ![b].io = "check", ![b].tx = t]

LEMMA Execute ==
  ASSUME TypeOK, NEW b \in Browsers, NEW t \in Txs
  PROVE  /\ Executing(b, t) \in Control
         /\ Executing(b, t).at = "execute" /\ Executing(b, t).io = "check" /\ Executing(b, t).tx = t
         /\ Executes(b, t) => pc' = [pc EXCEPT ![b] = Executing(b, t)]
<1>1. pc \in [Browsers -> Control] /\ pc[b] \in Control
  BY DEF TypeOK
<1>2. /\ Executing(b, t) \in Control
      /\ Executing(b, t).at = "execute" /\ Executing(b, t).io = "check" /\ Executing(b, t).tx = t
  BY <1>1 DEF Executing, Control
<1>3. Executes(b, t) => pc' = [pc EXCEPT ![b] = Executing(b, t)]
  BY <1>1 DEF Executing, Executes
<1> QED BY <1>2, <1>3

LEMMA SubmitMessageStep ==
  ASSUME IInv, NEW b \in Browsers, NEW t \in Txs, SubmitMessage(b, t)
  PROVE  IInv'
<1> DEFINE m == t.msg
           attempt == [tx |-> t, st |-> "pending"]
           row == [mem[b].sends[m] EXCEPT !.attempt = attempt]
           s == [mem[b] EXCEPT !.sends[m] = row]
           c == Executing(b, t)
<1>1. pc[b].at = "idle"
  BY DEF SubmitMessage, At
<1>2. /\ mem[b] # None /\ mem[b] \in Snapshot /\ work[b] \in Ratchets
      /\ Turns(pc[b], mem[b], work[b])
      /\ pc[b] \in Control
  BY <1>1, Open
<1>3. m \in Messages
  BY DEF SubmitMessage, Txs
<1>4. mem[b].sends[m] \in Row /\ mem[b].sends[m].st = "ready"
  BY <1>2, <1>3 DEF Snapshot, SubmitMessage
<1>5. attempt \in Intent
  BY DEF Intent, Outcomes
<1>6. row \in Row /\ row.st = "ready" /\ row.cipher = mem[b].sends[m].cipher
  BY <1>4, <1>5 DEF Row
<1>7. [mem[b] EXCEPT !.sends[m].attempt = attempt] = s
  BY <1>2, <1>3 DEF Snapshot
<1>8. c \in Control /\ c.at = "execute" /\ c.io = "check" /\ c.tx = t
  BY Execute DEF IInv
<1>9. Persists(b, s, work[b], ls[b], c)
  <2>1. Persist(b, s, work[b], ls[b])
    BY <1>7 DEF SubmitMessage
  <2>2. TypeOK
    BY DEF IInv
  <2>3. pc' = [pc EXCEPT ![b] = c]
    <3>1. Executes(b, t)
      BY Zenon DEF SubmitMessage, Executes
    <3> QED BY <2>2, <3>1, Execute
  <2> HIDE DEF s, c
  <2>4. /\ work' = [work EXCEPT ![b] = work[b]]
        /\ ls' = [ls EXCEPT ![b] = ls[b]]
        /\ failures' \in 0..MaxFailures
    BY <2>2 DEF SubmitMessage, TypeOK
  <2>5. UNCHANGED <<remote, wire, device, ledger, inbox>>
    BY DEF SubmitMessage, chain
  <2> QED BY <2>1, <2>3, <2>4, <2>5 DEF Persists
<1>10. /\ ~mem[b].readOnly /\ t.by = b
       /\ Status(ls[b], t) = "none"
  <2>1. ~mem[b].readOnly /\ t.by = b /\ Status(View(b), t) = "none"
    BY DEF SubmitMessage, Writable, NewTry
  <2>2. View(b) = Merged(ls[b], mem[b].store)
    BY <2>1 DEF View
  <2>3. OnceEach(mem[b].store) /\ mem[b].store \in Storage
    BY <1>2, Open
  <2>4. OnceEach(ls[b]) /\ ls[b] \in Storage
    BY SameStorage
  <2> HIDE DEF m, attempt, row, s, c
  <2>5. Status(Merged(ls[b], mem[b].store), t) =
            IF Status(ls[b], t) # "none" THEN Status(ls[b], t) ELSE Status(mem[b].store, t)
    BY <2>3, <2>4, MergedStatus
  <2> QED BY <2>1, <2>2, <2>5
<1> HIDE DEF row, c
<1>11. RowStep(mem[b], m, row)
  BY <1>4, <1>6 DEF RowStep, Packed
<1>12. work[b][mem[b].dev] = mem[b].db[mem[b].dev]
  BY <1>1, <1>2 DEF Turns
<1> QED BY <1>2, <1>3, <1>6, <1>8, <1>9, <1>10, <1>11, <1>12, RowPersists

(* The controller stays where it is and uploads what it wrote. *)
StaysAndUploads(b, s, w, l) ==
    \E c \in Control :
        /\ Persists(b, s, w, l, c)
        /\ c.at = pc[b].at /\ c.io = Uploading(s) /\ c.tx = pc[b].tx

LEMMA Reconciles ==
  ASSUME IInv, NEW b \in Browsers, NEW s, NEW w, NEW l, NEW k \in 0..6,
         Reconciled(b, s, w, l, k), work' = [work EXCEPT ![b] = w]
  PROVE  StaysAndUploads(b, s, w, l)
<1> DEFINE up == Uploading(s)
           c == [pc[b] EXCEPT !.stage = k, !.io = up]
<1>1. pc \in [Browsers -> Control] /\ failures \in 0..MaxFailures
  BY DEF IInv, TypeOK
<1>2. up \in Uploads
  BY UploadingType
<1>3. /\ pc' = [pc EXCEPT ![b].stage = k, ![b].io = up]
      /\ failures' \in 0..MaxFailures
  BY <1>1 DEF Reconciled
<1> HIDE DEF up
<1>4. c \in Control /\ c.at = pc[b].at /\ c.io = up /\ c.tx = pc[b].tx
  BY <1>1, <1>2 DEF Control, Uploads
<1>5. pc' = [pc EXCEPT ![b] = c]
  BY <1>1, <1>3
<1> HIDE DEF c
<1>6. Persists(b, s, w, l, c)
  BY <1>3, <1>5 DEF Persists, Reconciled, chain
<1> QED BY <1>4, <1>6 DEF up, StaysAndUploads

LEMMA RollBackStep ==
  ASSUME IInv, NEW b \in Browsers, NEW m \in Messages, RollBack(b, m)
  PROVE  IInv'
<1> DEFINE blocks == mem[b].sends[m].blocks
           row == [NoRow EXCEPT !.st = "rolled_back"]
           s == [mem[b] EXCEPT !.sends[m] = row]
           w == [work[b] EXCEPT ![mem[b].dev] = blocks]
<1>1. pc[b].at = "recover"
  BY DEF RollBack, InStage, At
<1>2. /\ mem[b] # None /\ mem[b] \in Snapshot /\ work[b] \in Ratchets
      /\ Coherent(mem[b])
  BY <1>1, Open
<1>3. mem[b].sends[m].st = "preparing"
  BY DEF RollBack
<1>4. blocks = mem[b].db[mem[b].dev] /\ blocks \in Ratchet \cup {None}
  BY <1>2, <1>3 DEF Coherent, Undoable, Snapshot
<1>5. row \in Row /\ row.st = "rolled_back"
  BY NoRowType DEF Row
<1>6. work' = [work EXCEPT ![b] = w] /\ work'[b] = w
  BY DEF RollBack, IInv, TypeOK
<1>7. Reconciled(b, s, w, ls[b], 2) /\ 2 \in 0..6
  BY <1>6 DEF RollBack
<1>8. w \in Ratchets /\ w[mem[b].dev] = mem[b].db[mem[b].dev]
  BY <1>2, <1>4 DEF Ratchets, Snapshot
<1>9. Uploading(s) = Uploading(mem[b])
  BY <1>2, <1>5, WithRow DEF Uploading, SameRoles
<1> HIDE DEF row, w, blocks, s
<1>10p. StaysAndUploads(b, s, w, ls[b])
  BY <1>6, <1>7, Reconciles
<1>10. PICK c \in Control : /\ Persists(b, s, w, ls[b], c)
                            /\ c.at = pc[b].at /\ c.io = Uploading(s)
  BY <1>10p DEF StaysAndUploads
<1>11. RowStep(mem[b], m, row)
  BY <1>3, <1>5 DEF RowStep, Packed
<1> QED BY <1>1, <1>2, <1>5, <1>8, <1>9, <1>10, <1>11, RowPersists DEF s

LEMMA ConfirmStep ==
  ASSUME IInv, NEW b \in Browsers, NEW m \in Messages, Confirm(b, m)
  PROVE  IInv'
<1> DEFINE row == [mem[b].sends[m] EXCEPT !.st = "confirmed"]
           s == [mem[b] EXCEPT !.sends[m] = row]
           w == work[b]
           k == IF pc[b].stage = 3 THEN 3 ELSE 2
<1>1. pc[b].at \in {"recover", "tail"}
  BY DEF Confirm, Closing, InStage, At
<1>2. /\ mem[b] # None /\ mem[b] \in Snapshot /\ work[b] \in Ratchets
      /\ Turns(pc[b], mem[b], work[b])
  BY <1>1, Open
<1>3. mem[b].sends[m] \in Row /\ mem[b].sends[m].st = "ready" /\ Sent(m)
  BY <1>2 DEF Confirm, Snapshot
<1>4. row \in Row /\ row.st = "confirmed" /\ row.cipher = mem[b].sends[m].cipher
  BY <1>3 DEF Row
<1>5. [mem[b] EXCEPT !.sends[m].st = "confirmed"] = s
  BY <1>2 DEF Snapshot
<1>6. work' = [work EXCEPT ![b] = w]
  BY DEF Confirm, IInv, TypeOK
<1>7. Reconciled(b, s, w, ls[b], k) /\ k \in 0..6
  BY <1>5 DEF Confirm
<1>9. Uploading(s) = Uploading(mem[b])
  BY <1>2, <1>4, WithRow DEF Uploading, SameRoles
<1> HIDE DEF row, k, s, w
<1>10p. StaysAndUploads(b, s, w, ls[b])
  BY <1>6, <1>7, Reconciles
<1>10. PICK c \in Control : /\ Persists(b, s, w, ls[b], c)
                            /\ c.at = pc[b].at /\ c.io = Uploading(s)
  BY <1>10p DEF StaysAndUploads
<1>11. RowStep(mem[b], m, row)
  BY <1>3, <1>4 DEF RowStep, Packed
<1>12. w[mem[b].dev] = mem[b].db[mem[b].dev]
  BY <1>1, <1>2 DEF Turns, w
<1> QED BY <1>1, <1>2, <1>4, <1>9, <1>10, <1>11, <1>12, RowPersists DEF s, w

LEMMA SentSame ==
  ASSUME NEW s \in Snapshot, NEW t, t.db = s.db, t.sends = s.sends,
         s.out \subseteq t.out, s.read \subseteq t.read
  PROVE  DataKeeps(s, t)
<1>1. \A d \in Devices : s.db[d] # None => s.db[d].sent <= s.db[d].sent
  BY DEF Snapshot, Ratchet
<1> QED BY <1>1 DEF DataKeeps

LEMMA ArchiveStep ==
  ASSUME IInv, NEW b \in Browsers, NEW m \in Messages, Archive(b, m)
  PROVE  IInv'
<1> DEFINE s == [mem[b] EXCEPT !.out = @ \cup {m}]
           w == work[b]
           k == IF pc[b].stage = 3 THEN 3 ELSE 2
<1>1. pc[b].at \in {"recover", "tail"}
  BY DEF Archive, Closing, InStage, At
<1>2. /\ mem[b] # None /\ mem[b] \in Snapshot /\ work[b] \in Ratchets
      /\ Coherent(mem[b]) /\ Claims(mem[b])
      /\ Turns(pc[b], mem[b], work[b])
  BY <1>1, Open
<1>3. /\ s \in Snapshot
      /\ s.sends = mem[b].sends /\ s.out = mem[b].out \cup {m}
      /\ SameKeys(mem[b], s) /\ SameInbox(mem[b], s) /\ SameRoles(mem[b], s)
  BY <1>2 DEF Snapshot, SameKeys, SameInbox, SameRoles
<1>4. work' = [work EXCEPT ![b] = w]
  BY DEF Archive, IInv, TypeOK
<1>5. Reconciled(b, s, w, ls[b], k) /\ k \in 0..6
  BY DEF Archive
<1>6. Sent(m)
  BY <1>2 DEF Archive, Claims
<1> HIDE DEF s, w, k
<1>7p. StaysAndUploads(b, s, w, ls[b])
  BY <1>4, <1>5, Reconciles
<1>7. PICK c \in Control : /\ Persists(b, s, w, ls[b], c)
                           /\ c.at = pc[b].at /\ c.io = Uploading(s)
  BY <1>7p DEF StaysAndUploads
<1>8. Coherent(s) /\ Claims(s)
  <2>1. Keyed(s)
    BY <1>2, <1>3, KeyedStays DEF Coherent
  <2>2. Undoable(s) /\ Exact(s)
    BY <1>2, <1>3 DEF Coherent, Undoable, Exact, SameKeys, SameInbox
  <2>3. Claims(s)
    BY <1>2, <1>3, <1>6 DEF Claims, SameKeys, SameInbox, SameRoles
  <2> QED BY <2>1, <2>2, <2>3 DEF Coherent
<1>9. DataKeeps(mem[b], s)
  BY <1>2, <1>3, SentSame DEF SameKeys, SameInbox
<1>10. /\ w[s.dev] = s.db[s.dev]
       /\ Turns(c, s, w) /\ Submitting(ls, b, c, s) /\ Continues(b, s, ls[b], c)
       /\ s.store = mem[b].store
  BY <1>1, <1>2, <1>3, <1>7
  DEF Turns, Submitting, Continues, SameKeys, SameRoles, w
<1> QED BY <1>2, <1>3, <1>7, <1>8, <1>9, <1>10, PlainStep DEF w

(* The keys, rows and outcomes stay: what is left to show of such a step.   *)
LEMMA SameData ==
  ASSUME NEW s \in Snapshot, NEW t, t.sends = s.sends, t.out = s.out, t.read = s.read,
         t.dev = s.dev, t.prep = s.prep, t.db = s.db, Coherent(s)
  PROVE  Keyed(t) /\ DataKeeps(s, t)
BY KeyedStays, SentSame DEF Coherent, SameKeys

LEMMA NewTryUnknown ==
  ASSUME IInv, NEW b \in Browsers, NEW t, mem[b] # None, NewTry(b, t)
  PROVE  t.by = b /\ Status(ls[b], t) = "none"
<1>1. t.by = b /\ Status(View(b), t) = "none"
  BY DEF NewTry
<1>2. CASE mem[b].readOnly
  <2>1. ls[b].rows = {}
    BY <1>2 DEF IInv, Profile, InMemory, OnDisk
  <2> QED BY <1>1, <2>1 DEF Status
<1>3. CASE ~mem[b].readOnly
  <2>1. View(b) = Merged(ls[b], mem[b].store)
    BY <1>3 DEF View
  <2>2. OnceEach(mem[b].store) /\ mem[b].store \in Storage
    BY Open
  <2> QED BY <1>1, <2>1, <2>2, MergedStatus, SameStorage
<1> QED BY <1>2, <1>3, <1>1

LEMMA SubmitRegistrationStep ==
  ASSUME IInv, NEW b \in Browsers, NEW t \in Txs, SubmitRegistration(b, t)
  PROVE  IInv'
<1> DEFINE intent == [tx |-> t, st |-> "pending"]
           s == [mem[b] EXCEPT !.registration = intent]
           c == Executing(b, t)
<1>1. pc[b].at = "idle" /\ TypeOK
  BY DEF SubmitRegistration, At, IInv
<1>2. /\ mem[b] # None /\ mem[b] \in Snapshot /\ work[b] \in Ratchets
      /\ Coherent(mem[b]) /\ Claims(mem[b])
      /\ Turns(pc[b], mem[b], work[b])
  BY <1>1, Open
<1>3. intent \in Intent
  BY DEF Intent, Outcomes
<1>4. Persist(b, s, work[b], ls[b])
  BY DEF SubmitRegistration
<1>5. /\ s \in Snapshot
      /\ s.sends = mem[b].sends /\ s.out = mem[b].out
      /\ SameKeys(mem[b], s) /\ SameInbox(mem[b], s)
      /\ s.readOnly = mem[b].readOnly /\ s.registered = mem[b].registered
      /\ s.store = mem[b].store
  BY <1>2, <1>3 DEF Snapshot, SameKeys, SameInbox
<1>6. c \in Control /\ c.at = "execute" /\ c.io = "check" /\ c.tx = t
  BY <1>1, Execute
<1>7. pc' = [pc EXCEPT ![b] = c]
  <2>1. Executes(b, t)
    BY Zenon DEF SubmitRegistration, Executes
  <2> QED BY <1>1, <2>1, Execute
<1> HIDE DEF s, c
<1>8. Persists(b, s, work[b], ls[b], c)
  BY <1>1, <1>4, <1>7 DEF SubmitRegistration, Persists, chain, TypeOK
<1>9. Coherent(s) /\ Claims(s) /\ DataKeeps(mem[b], s)
  <2>1. Keyed(s) /\ DataKeeps(mem[b], s)
    BY <1>2, <1>5, SameData DEF SameKeys, SameInbox
  <2>2. Undoable(s) /\ Exact(s)
    BY <1>2, <1>5 DEF Coherent, Undoable, Exact, SameKeys, SameInbox
  <2>3. Claims(s)
    BY <1>2, <1>5 DEF Claims, SameKeys, SameInbox
  <2> QED BY <2>1, <2>2, <2>3 DEF Coherent
<1>10. ~mem[b].readOnly /\ t.by = b /\ Status(ls[b], t) = "none"
  BY <1>2, NewTryUnknown DEF SubmitRegistration, Writable
<1>11. Submitting(ls, b, c, s)
  <2>1. t.msg = 0 /\ s.db[t.dev] # None
    BY <1>2, <1>5 DEF SubmitRegistration, Coherent, Keyed, SameKeys
  <2> QED BY <1>5, <1>6, <1>10, <2>1 DEF Submitting, Recording
<1>12. /\ Turns(c, s, work[b]) /\ Continues(b, s, ls[b], c)
       /\ work[b][s.dev] = s.db[s.dev]
  BY <1>1, <1>2, <1>5, <1>6 DEF Turns, Continues, SameKeys
<1> QED BY <1>2, <1>5, <1>6, <1>8, <1>9, <1>11, <1>12, PlainStep

LEMMA SubmitRotationStep ==
  ASSUME IInv, NEW b \in Browsers, NEW t \in Txs, SubmitRotation(b, t)
  PROVE  IInv'
<1> DEFINE recovery == mem[b].rotationRecovery \/ mem[b].readOnly
           s == [mem[b] EXCEPT !.readOnly = FALSE, !.rotationRecovery = recovery]
           c == Executing(b, t)
<1>1. pc[b].at = "idle" /\ TypeOK
  BY DEF SubmitRotation, At, IInv
<1>2. /\ mem[b] # None /\ mem[b] \in Snapshot /\ work[b] \in Ratchets
      /\ Coherent(mem[b]) /\ Claims(mem[b])
      /\ Turns(pc[b], mem[b], work[b])
  BY <1>1, Open
<1>3. recovery \in BOOLEAN
  OBVIOUS
<1>4. Persist(b, s, work[b], ls[b])
  BY DEF SubmitRotation
<1> HIDE DEF recovery
<1>5. /\ s \in Snapshot
      /\ s.sends = mem[b].sends /\ s.out = mem[b].out
      /\ SameKeys(mem[b], s) /\ SameInbox(mem[b], s)
      /\ s.readOnly = FALSE /\ s.registered = mem[b].registered
      /\ s.store = mem[b].store
  BY <1>2, <1>3 DEF Snapshot, SameKeys, SameInbox
<1>6. c \in Control /\ c.at = "execute" /\ c.io = "check" /\ c.tx = t
  BY <1>1, Execute
<1>7. pc' = [pc EXCEPT ![b] = c]
  <2>1. Executes(b, t)
    BY Zenon DEF SubmitRotation, Executes
  <2> QED BY <1>1, <2>1, Execute
<1> HIDE DEF s, c
<1>8. Persists(b, s, work[b], ls[b], c)
  BY <1>1, <1>4, <1>7 DEF SubmitRotation, Persists, chain, TypeOK
<1>9. Coherent(s) /\ Claims(s) /\ DataKeeps(mem[b], s)
  <2>1. Keyed(s) /\ DataKeeps(mem[b], s)
    BY <1>2, <1>5, SameData DEF SameKeys, SameInbox
  <2>2. Undoable(s) /\ Exact(s)
    BY <1>2, <1>5 DEF Coherent, Undoable, Exact, SameKeys, SameInbox
  <2>3. Claims(s)
    BY <1>2, <1>5 DEF Claims, SameKeys, SameInbox
  <2> QED BY <2>1, <2>2, <2>3 DEF Coherent
<1>10. t.by = b /\ Status(ls[b], t) = "none"
  BY <1>2, NewTryUnknown DEF SubmitRotation
<1>11. Submitting(ls, b, c, s)
  <2>1. t.msg = 0 /\ mem[b].prep = t.dev /\ t.dev \in Devices
    BY DEF SubmitRotation, Txs
  <2>2. s.db[t.dev] # None
    BY <1>2, <1>5, <2>1, NoneAssumption DEF Coherent, Keyed, SameKeys
  <2> QED BY <1>5, <1>6, <1>10, <2>1, <2>2 DEF Submitting, Recording
<1>12. /\ Turns(c, s, work[b]) /\ Continues(b, s, ls[b], c)
       /\ work[b][s.dev] = s.db[s.dev]
  BY <1>1, <1>2, <1>5, <1>6 DEF Turns, Continues, SameKeys
<1> QED BY <1>2, <1>5, <1>6, <1>8, <1>9, <1>11, <1>12, PlainStep

LEMMA ActivateStep ==
  ASSUME IInv, NEW b \in Browsers, Activate(b)
  PROVE  IInv'
<1> DEFINE d == mem[b].prep
           readOnly == mem[b].readOnly /\ ~mem[b].rotationRecovery
           s == [mem[b] EXCEPT !.dev = d, !.prep = None, !.rotationRecovery = FALSE,
                               !.readOnly = readOnly]
           w == [work[b] EXCEPT ![d] = mem[b].db[d]]
<1>1. pc[b].at \in {"recover", "tail"} /\ TypeOK
  BY DEF Activate, Closing, InStage, At, IInv
<1>2. /\ mem[b] # None /\ mem[b] \in Snapshot /\ work[b] \in Ratchets
      /\ Coherent(mem[b]) /\ Claims(mem[b])
  BY <1>1, Open
<1>3. d \in Devices /\ d # None /\ mem[b].db[d] \in Ratchet /\ device = d
  <2>1. d # None /\ device = d
    BY DEF Activate, Rotated
  <2>2. d \in Devices
    BY <1>2, <2>1 DEF Snapshot
  <2> QED BY <1>2, <2>1, <2>2 DEF Coherent, Keyed, Snapshot
<1>4. readOnly \in BOOLEAN /\ (readOnly => mem[b].readOnly)
  OBVIOUS
<1>5. work' = [work EXCEPT ![b] = w] /\ work'[b] = w
  BY <1>1 DEF Activate, TypeOK
<1>6. Reconciled(b, s, w, ls[b], 6) /\ 6 \in 0..6
  BY <1>5 DEF Activate
<1>7. w \in Ratchets /\ w[d] = mem[b].db[d]
  BY <1>2, <1>3 DEF Ratchets
<1> HIDE DEF readOnly, d
<1>8. /\ s \in Snapshot
      /\ s.sends = mem[b].sends /\ s.out = mem[b].out
      /\ s.dev = d /\ s.prep = None /\ s.db = mem[b].db
      /\ SameInbox(mem[b], s)
      /\ s.readOnly = readOnly /\ s.registered = mem[b].registered
      /\ s.store = mem[b].store
  BY <1>2, <1>3, <1>4 DEF Snapshot, SameInbox
<1> HIDE DEF s, w
<1>9p. StaysAndUploads(b, s, w, ls[b])
  BY <1>5, <1>6, Reconciles
<1>9. PICK c \in Control : /\ Persists(b, s, w, ls[b], c)
                           /\ c.at = pc[b].at /\ c.io = Uploading(s)
  BY <1>9p DEF StaysAndUploads
<1>10. /\ mem[b].inbound = None
       /\ \A m \in Messages : mem[b].sends[m].st # "preparing"
  BY DEF Activate, Clear
<1>11. Coherent(s) /\ Claims(s)
  <2>1. Keyed(s)
    BY <1>2, <1>3, <1>8, NoneAssumption DEF Coherent, Keyed, Ratchet
  <2>2. Undoable(s)
    BY <1>8, <1>10 DEF Undoable, SameInbox
  <2>3. Exact(s)
    BY <1>2, <1>8 DEF Coherent, Exact, SameInbox
  <2>4. Claims(s)
    BY <1>2, <1>3, <1>8 DEF Claims, SameInbox, Devices
  <2> QED BY <2>1, <2>2, <2>3, <2>4 DEF Coherent
<1>12. DataKeeps(mem[b], s)
  BY <1>2, <1>8, SentSame DEF SameInbox
<1>13. /\ w[s.dev] = s.db[s.dev]
       /\ Turns(c, s, w) /\ Submitting(ls, b, c, s) /\ Continues(b, s, ls[b], c)
  BY <1>1, <1>4, <1>7, <1>8, <1>9 DEF Turns, Submitting, Continues
<1> QED BY <1>2, <1>7, <1>8, <1>9, <1>11, <1>12, <1>13, PlainStep

LEMMA SettleStep ==
  ASSUME IInv, NEW b \in Browsers, pc[b].at \in {"recover", "tail"},
         SettleAs(b, "idle"), failures' \in 0..MaxFailures
  PROVE  IInv'
<1> DEFINE s == mem[b]
           up == Uploading(s)
           c == [at |-> "idle", stage |-> 0, tx |-> None, io |-> up]
<1>1. /\ s # None /\ s \in Snapshot /\ work[b] \in Ratchets
      /\ Coherent(s) /\ Claims(s)
      /\ Turns(pc[b], s, work[b])
  BY Open
<1>2. up \in Uploads
  BY UploadingType
<1>3. Persists(b, s, work[b], ls[b], c)
  BY DEF SettleAs, Persists, chain, IInv, TypeOK
<1> HIDE DEF up
<1>4. c \in Control /\ c.at = "idle" /\ c.io = up
  BY <1>2 DEF Control, Uploads
<1> HIDE DEF c
<1>5. DataKeeps(mem[b], s)
  BY <1>1, SentSame
<1>6. /\ work[b][s.dev] = s.db[s.dev]
      /\ Turns(c, s, work[b]) /\ Submitting(ls, b, c, s) /\ Continues(b, s, ls[b], c)
  BY <1>1, <1>4 DEF Turns, Submitting, Continues, up
<1> HIDE DEF s
<1> QED BY <1>1, <1>3, <1>4, <1>5, <1>6, PlainStep DEF s

LEMMA SettlesStep ==
  ASSUME IInv, NEW b \in Browsers, Recovered(b) \/ RecoveredBlind(b) \/ Complete(b)
  PROVE  IInv'
<1>1. pc[b].at \in {"recover", "tail"} /\ SettleAs(b, "idle")
  BY DEF Recovered, RecoveredBlind, Complete, At
<1>2. failures' \in 0..MaxFailures
  BY RelayPersonalAssumption DEF Recovered, RecoveredBlind, Complete, Fails, IInv, TypeOK
<1> QED BY <1>1, <1>2, SettleStep

LEMMA InboxType ==
  ASSUME TypeOK, NEW i \in 1..Len(inbox)
  PROVE  inbox[i].dev \in Devices /\ inbox[i].genuine \in BOOLEAN
<1> DEFINE T == [dev : Devices, genuine : BOOLEAN]
<1>1. inbox \in Seq(T)
  BY DEF TypeOK
<1> HIDE DEF T
<1>2. inbox[i] \in T
  BY <1>1
<1> QED BY <1>2 DEF T

LEMMA StartReceiveStep ==
  ASSUME IInv, NEW b \in Browsers, StartReceive(b)
  PROVE  IInv'
<1> DEFINE next == mem[b].cursor + 1
           d == inbox[next].dev
           blocks == mem[b].db[d]
           in == [dev |-> d, blocks |-> blocks]
           s == [mem[b] EXCEPT !.inbound = in]
           w == [work[b] EXCEPT ![d] = blocks]
           up == Uploading(mem[b])
           c == Moved(b, "decrypt", up)
<1>1. pc[b].at = "idle" /\ TypeOK
  BY DEF StartReceive, At, IInv
<1>2. /\ mem[b] # None /\ mem[b] \in Snapshot /\ work[b] \in Ratchets
      /\ Coherent(mem[b]) /\ Claims(mem[b])
      /\ Turns(pc[b], mem[b], work[b])
  BY <1>1, Open
<1>3. next \in 1..Len(inbox) /\ mem[b].cursor < Len(inbox)
  <2>1. mem[b].cursor \in Nat /\ Len(inbox) \in Nat
    BY <1>1, <1>2 DEF Snapshot, TypeOK
  <2>2. next <= Len(inbox)
    BY Zenon DEF StartReceive
  <2> HIDE DEF d, blocks, in, s, w, up, c
  <2> QED BY <2>1, <2>2
<1>4. d \in Devices
  BY <1>1, <1>3, InboxType
<1>5. blocks \in Ratchet
  BY <1>2, <1>4 DEF StartReceive, Snapshot
<1>6. work' = [work EXCEPT ![b] = w] /\ work'[b] = w
  BY <1>1 DEF StartReceive, TypeOK
<1>7. Persist(b, s, w, ls[b])
  BY <1>6 DEF StartReceive
<1>8. up \in Uploads
  BY UploadingType
<1>9. Go(b, "decrypt", up)
  BY DEF StartReceive
<1> HIDE DEF up
<1>10. c \in Control /\ c.at = "decrypt" /\ c.io = up /\ pc' = [pc EXCEPT ![b] = c]
  BY <1>1, <1>8, <1>9, Goes DEF Wheres
<1> HIDE DEF next, d, blocks
<1>11. in \in Inbound /\ in # None /\ in.dev = d /\ in.blocks = blocks
  BY <1>4, <1>5, NoneAssumption DEF Inbound
<1> HIDE DEF in
<1>12. w \in Ratchets /\ w[d] = blocks /\ blocks = mem[b].db[d]
       /\ \A e \in Devices \ {d} : w[e] = work[b][e]
  BY <1>2, <1>4, <1>5 DEF Ratchets, blocks
<1>13. /\ s \in Snapshot
       /\ s.sends = mem[b].sends /\ s.out = mem[b].out
       /\ SameKeys(mem[b], s) /\ SameRoles(mem[b], s)
       /\ s.cursor = mem[b].cursor /\ s.read = mem[b].read /\ s.quarantine = mem[b].quarantine
       /\ s.inbound = in
  BY <1>2, <1>11 DEF Snapshot, SameKeys, SameRoles
<1> HIDE DEF s, w, c
<1>14. Persists(b, s, w, ls[b], c)
  <2>1. /\ ls' = [ls EXCEPT ![b] = ls[b]]
        /\ failures' \in 0..MaxFailures
        /\ UNCHANGED <<remote, wire, device, ledger, inbox>>
    BY <1>1 DEF StartReceive, chain, TypeOK
  <2> QED BY <1>6, <1>7, <1>10, <2>1 DEF Persists
<1>15. Coherent(s) /\ Claims(s) /\ DataKeeps(mem[b], s)
  <2>1. Keyed(s) /\ DataKeeps(mem[b], s)
    BY <1>2, <1>13, SameData DEF SameKeys
  <2>2. \A m \in Messages : s.sends[m].st # "preparing"
    BY <1>13 DEF StartReceive, Resolved, Terminal
  <2>3. Undoable(s)
    BY <1>11, <1>12, <1>13, <2>2 DEF Undoable, SameKeys
  <2>4. Exact(s)
    BY <1>2, <1>13 DEF Coherent, Exact, SameKeys
  <2>5. Claims(s)
    BY <1>2, <1>13 DEF Claims, SameKeys, SameRoles
  <2> QED BY <2>1, <2>3, <2>4, <2>5 DEF Coherent
<1>16. w[s.dev] = s.db[s.dev]
  <2>1. s.dev \in Devices /\ work[b][s.dev] = s.db[s.dev]
    BY <1>1, <1>2, <1>13 DEF Snapshot, Turns, SameKeys
  <2> QED BY <2>1, <1>12, <1>13 DEF SameKeys
<1>17. Turns(c, s, w) /\ Submitting(ls, b, c, s) /\ Continues(b, s, ls[b], c)
  <2>1. Turns(c, s, w)
    BY <1>3, <1>10, <1>11, <1>12, <1>13, <1>16 DEF Turns, SameKeys
  <2>2. Submitting(ls, b, c, s)
    BY <1>10 DEF Submitting
  <2>3. Continues(b, s, ls[b], c)
    BY <1>10, <1>13 DEF Continues, SameRoles, up, Uploading
  <2> QED BY <2>1, <2>2, <2>3
<1> QED BY <1>2, <1>10, <1>12, <1>13, <1>14, <1>15, <1>16, <1>17, PlainStep DEF SameRoles

LEMMA UndoInboundStep ==
  ASSUME IInv, NEW b \in Browsers, UndoInbound(b)
  PROVE  IInv'
<1> DEFINE in == mem[b].inbound
           db == [mem[b].db EXCEPT ![in.dev] = in.blocks]
           s == [mem[b] EXCEPT !.inbound = None, !.db = db]
           w == [work[b] EXCEPT ![in.dev] = in.blocks]
<1>1. pc[b].at = "recover" /\ TypeOK
  BY DEF UndoInbound, InStage, At, IInv
<1>2. /\ mem[b] # None /\ mem[b] \in Snapshot /\ work[b] \in Ratchets
      /\ Coherent(mem[b]) /\ Claims(mem[b])
      /\ Turns(pc[b], mem[b], work[b])
  BY <1>1, Open
<1>3. in \in Inbound /\ in # None
  BY <1>2 DEF UndoInbound, Snapshot
<1>4. /\ in.dev \in Devices /\ in.blocks \in Ratchet
      /\ mem[b].db[in.dev] = in.blocks
  BY <1>2, <1>3 DEF Coherent, Undoable, Inbound
<1>5. db = mem[b].db
  BY <1>2, <1>4 DEF Snapshot
<1>6. work' = [work EXCEPT ![b] = w] /\ work'[b] = w
  BY <1>1 DEF UndoInbound, TypeOK
<1>7. Reconciled(b, s, w, ls[b], 1) /\ 1 \in 0..6
  BY <1>2, <1>6 DEF UndoInbound, Snapshot
<1>8. w \in Ratchets /\ w[mem[b].dev] = mem[b].db[mem[b].dev]
  BY <1>1, <1>2, <1>4 DEF Ratchets, Turns, Snapshot
<1> HIDE DEF db, in
<1>9. /\ s \in Snapshot
      /\ s.sends = mem[b].sends /\ s.out = mem[b].out
      /\ SameKeys(mem[b], s) /\ SameRoles(mem[b], s)
      /\ s.cursor = mem[b].cursor /\ s.read = mem[b].read /\ s.quarantine = mem[b].quarantine
      /\ s.inbound = None
  BY <1>2, <1>5 DEF Snapshot, SameKeys, SameRoles
<1> HIDE DEF s, w
<1>10p. StaysAndUploads(b, s, w, ls[b])
  BY <1>6, <1>7, Reconciles
<1>10. PICK c \in Control : /\ Persists(b, s, w, ls[b], c)
                            /\ c.at = pc[b].at /\ c.io = Uploading(s)
  BY <1>10p DEF StaysAndUploads
<1>11. Coherent(s) /\ Claims(s) /\ DataKeeps(mem[b], s)
  <2>1. Keyed(s) /\ DataKeeps(mem[b], s)
    BY <1>2, <1>9, SameData DEF SameKeys
  <2>3. Undoable(s)
    BY <1>2, <1>9 DEF Coherent, Undoable, SameKeys
  <2>4. Exact(s)
    BY <1>2, <1>9 DEF Coherent, Exact, SameKeys
  <2>5. Claims(s)
    BY <1>2, <1>9 DEF Claims, SameKeys, SameRoles
  <2> QED BY <2>1, <2>3, <2>4, <2>5 DEF Coherent
<1>12. /\ w[s.dev] = s.db[s.dev]
       /\ Turns(c, s, w) /\ Submitting(ls, b, c, s) /\ Continues(b, s, ls[b], c)
  BY <1>1, <1>8, <1>9, <1>10 DEF Turns, Submitting, Continues, SameKeys, SameRoles
<1> QED BY <1>2, <1>8, <1>9, <1>10, <1>11, <1>12, PlainStep DEF SameRoles

LEMMA RejectStep ==
  ASSUME IInv, NEW b \in Browsers, Reject(b)
  PROVE  IInv'
<1> DEFINE next == mem[b].cursor + 1
           in == mem[b].inbound
           db == [mem[b].db EXCEPT ![in.dev] = in.blocks]
           quarantine == mem[b].quarantine \cup {next}
           s == [mem[b] EXCEPT !.db = db, !.quarantine = quarantine,
                               !.cursor = next, !.inbound = None]
           w == [work[b] EXCEPT ![in.dev] = in.blocks]
           up == Uploading(mem[b])
           c == Moved(b, "idle", up)
<1>1. pc[b].at = "reject" /\ TypeOK
  BY DEF Reject, At, IInv
<1>2. /\ mem[b] # None /\ mem[b] \in Snapshot /\ work[b] \in Ratchets
      /\ Coherent(mem[b]) /\ Claims(mem[b])
      /\ Turns(pc[b], mem[b], work[b])
  BY <1>1, Open
<1>3. /\ in # None /\ mem[b].cursor < Len(inbox) /\ ~inbox[next].genuine
      /\ work[b][mem[b].dev] = mem[b].db[mem[b].dev]
  BY <1>1, <1>2 DEF Turns
<1>t. in \in Inbound /\ mem[b].cursor \in Nat /\ next \in Nat /\ Len(inbox) \in Nat
  BY <1>1, <1>2, <1>3 DEF Snapshot, TypeOK
<1>4. /\ in.dev \in Devices /\ in.blocks \in Ratchet
      /\ mem[b].db[in.dev] = in.blocks
  BY <1>2, <1>3, <1>t DEF Coherent, Undoable, Inbound
<1>5. db = mem[b].db
  BY <1>2, <1>4 DEF Snapshot
<1>6. work' = [work EXCEPT ![b] = w] /\ work'[b] = w
  BY <1>1 DEF Reject, TypeOK
<1>7. Persist(b, s, w, ls[b])
  <2>1. [mem[b] EXCEPT !.db[in.dev] = in.blocks, !.quarantine = @ \cup {next},
                       !.cursor = next, !.inbound = None] = s
    BY <1>2 DEF Snapshot
  <2> HIDE DEF s, w
  <2> QED BY <1>6, <2>1 DEF Reject
<1>8. w \in Ratchets /\ w[mem[b].dev] = mem[b].db[mem[b].dev]
  BY <1>2, <1>3, <1>4 DEF Ratchets, Snapshot
<1>u. up \in Uploads
  BY UploadingType
<1>g. Go(b, "idle", up)
  BY DEF Reject
<1> HIDE DEF up
<1>9. c \in Control /\ c.at = "idle" /\ c.io = up /\ pc' = [pc EXCEPT ![b] = c]
  BY <1>1, <1>u, <1>g, Goes DEF Wheres
<1> HIDE DEF c
<1>q. quarantine \in SUBSET Nat
  BY <1>2, <1>t DEF Snapshot
<1> HIDE DEF db, in, quarantine
<1>10. /\ s \in Snapshot
      /\ s.sends = mem[b].sends /\ s.out = mem[b].out
      /\ SameKeys(mem[b], s) /\ SameRoles(mem[b], s)
      /\ s.cursor = next /\ s.read = mem[b].read /\ s.quarantine = quarantine
      /\ s.inbound = None
  BY <1>2, <1>5, <1>q, <1>t DEF Snapshot, SameKeys, SameRoles
<1> HIDE DEF s, w
<1>11. Persists(b, s, w, ls[b], c)
  <2>1. /\ ls' = [ls EXCEPT ![b] = ls[b]]
        /\ failures' \in 0..MaxFailures
        /\ UNCHANGED <<remote, wire, device, ledger, inbox>>
    BY <1>1 DEF Reject, chain, TypeOK
  <2> QED BY <1>6, <1>7, <1>9, <2>1 DEF Persists
<1>12. Coherent(s) /\ Claims(s) /\ DataKeeps(mem[b], s)
  <2>1. Keyed(s) /\ DataKeeps(mem[b], s)
    BY <1>2, <1>10, SameData DEF SameKeys
  <2>2. Undoable(s)
    <3>1. \A m \in Messages : mem[b].sends[m].st # "preparing"
      BY <1>2, <1>3 DEF Coherent, Undoable, in
    <3> QED BY <1>10, <3>1 DEF Undoable
  <2>3. Exact(s)
    <3>1. mem[b].read \cup mem[b].quarantine = 1..mem[b].cursor
      BY <1>2 DEF Coherent, Exact
    <3>2. 1..next = (1..mem[b].cursor) \cup {next}
      BY <1>t
    <3>3. s.read \cup s.quarantine = 1..s.cursor
      BY <1>10, <3>1, <3>2 DEF quarantine
    <3> QED BY <1>2, <1>10, <3>3 DEF Coherent, Exact, SameKeys
  <2>4. Claims(s)
    BY <1>2, <1>3, <1>10, <1>t DEF Claims, SameKeys, SameRoles, quarantine
  <2> QED BY <2>1, <2>2, <2>3, <2>4 DEF Coherent
<1>13. /\ w[s.dev] = s.db[s.dev]
       /\ Turns(c, s, w) /\ Submitting(ls, b, c, s) /\ Continues(b, s, ls[b], c)
  BY <1>8, <1>9, <1>10 DEF Turns, Submitting, Continues, SameKeys, SameRoles, up, Uploading
<1> QED BY <1>2, <1>8, <1>9, <1>10, <1>11, <1>12, <1>13, PlainStep DEF SameRoles

(* What the ratchets decrypted, key by key. *)
LEMMA Decrypted ==
  ASSUME NEW s, NEW i
  PROVE  i \in UNION {s.db[d].got : d \in {e \in Devices : s.db[e] # None}}
            <=> \E d \in Devices : s.db[d] # None /\ i \in s.db[d].got
  OBVIOUS

LEMMA DecryptedOne ==
  ASSUME NEW q \in Ratchet, NEW i \in Nat
  PROVE  LET r == [q EXCEPT !.got = @ \cup {i}] IN
         r \in Ratchet /\ r.sent = q.sent /\ r.got = q.got \cup {i}
BY DEF Ratchet

LEMMA KeepStep ==
  ASSUME IInv, NEW b \in Browsers, Keep(b)
  PROVE  IInv'
<1> DEFINE next == mem[b].cursor + 1
           d == mem[b].inbound.dev
           w == work[b]
           r == w[d]
           db == [mem[b].db EXCEPT ![d] = r]
           read == mem[b].read \cup {next}
           s == [mem[b] EXCEPT !.db = db, !.read = read, !.cursor = next, !.inbound = None]
<1>1. pc[b].at = "keep" /\ TypeOK
  BY DEF Keep, At, IInv
<1>2. /\ mem[b] # None /\ mem[b] \in Snapshot /\ w \in Ratchets
      /\ Coherent(mem[b]) /\ Claims(mem[b])
      /\ Turns(pc[b], mem[b], w)
  BY <1>1, Open
<1>3. /\ mem[b].inbound # None /\ mem[b].cursor < Len(inbox)
      /\ r = [mem[b].db[d] EXCEPT !.got = @ \cup {next}]
      /\ d # mem[b].dev => w[mem[b].dev] = mem[b].db[mem[b].dev]
  BY <1>1, <1>2 DEF Turns
<1>t. mem[b].inbound \in Inbound /\ mem[b].cursor \in Nat /\ next \in Nat /\ Len(inbox) \in Nat
  BY <1>1, <1>2, <1>3 DEF Snapshot, TypeOK
<1>4. /\ d \in Devices /\ mem[b].db[d] \in Ratchet
  BY <1>2, <1>3, <1>t DEF Coherent, Undoable, Inbound
<1>5. /\ r \in Ratchet /\ r # None
      /\ r.sent = mem[b].db[d].sent /\ r.got = mem[b].db[d].got \cup {next}
  <2> HIDE DEF r, next
  <2> QED BY <1>3, <1>4, <1>t, DecryptedOne, NoneAssumption
<1>6. db \in Ratchets /\ db[d] = r /\ \A e \in Devices \ {d} : db[e] = mem[b].db[e]
  BY <1>2, <1>4, <1>5 DEF Ratchets, Snapshot
<1>7. Save(b, s, "idle")
  <2>1. [mem[b] EXCEPT !.db[d] = work[b][d], !.read = @ \cup {next},
                       !.cursor = next, !.inbound = None] = s
    BY <1>2 DEF Snapshot
  <2> HIDE DEF s
  <2> QED BY <2>1 DEF Keep
<1>r. read \in SUBSET Nat
  BY <1>2, <1>t DEF Snapshot
<1> HIDE DEF r, db, d, read
<1>8. /\ s \in Snapshot
      /\ s.dev = mem[b].dev /\ s.prep = mem[b].prep /\ s.db = db
      /\ s.sends = mem[b].sends /\ s.out = mem[b].out
      /\ SameRoles(mem[b], s)
      /\ s.cursor = next /\ s.read = read /\ s.quarantine = mem[b].quarantine
      /\ s.inbound = None
  BY <1>2, <1>6, <1>r, <1>t DEF Snapshot, SameRoles, Ratchets
<1> HIDE DEF s
<1>9. PICK c \in Control : /\ Persists(b, s, w, ls[b], c)
                           /\ c.at = "idle" /\ c.io = Uploading(s)
  BY <1>7, Saves DEF Wheres
<1> HIDE DEF w
<1>10. Coherent(s)
  <2>0. \A e \in Devices : mem[b].db[e] # None => db[e] # None /\ db[e].sent = mem[b].db[e].sent
    BY <1>5, <1>6
  <2>1. Keyed(s)
    <3>1. s.db[s.dev] # None /\ (s.prep # None => s.db[s.prep] # None)
      <4>1. /\ mem[b].dev \in Devices /\ mem[b].db[mem[b].dev] # None
            /\ mem[b].prep # None => mem[b].prep \in Devices /\ mem[b].db[mem[b].prep] # None
        BY <1>2 DEF Coherent, Keyed, Snapshot
      <4> QED BY <4>1, <2>0, <1>8
    <3>2. ASSUME NEW m \in Messages, s.sends[m].st \in Packed
          PROVE  /\ s.sends[m].cipher # None
                 /\ s.db[s.sends[m].cipher.dev] # None
                 /\ s.sends[m].cipher.pos <= s.db[s.sends[m].cipher.dev].sent
      <4>1. /\ mem[b].sends[m].cipher # None
            /\ mem[b].db[mem[b].sends[m].cipher.dev] # None
            /\ mem[b].sends[m].cipher.pos <= mem[b].db[mem[b].sends[m].cipher.dev].sent
        BY <3>2, <1>2, <1>8 DEF Coherent, Keyed
      <4>2. mem[b].sends[m].cipher.dev \in Devices
        BY <4>1, <1>2 DEF Snapshot, Row, Cipher
      <4> QED BY <4>1, <4>2, <2>0, <1>8
    <3> QED BY <3>1, <3>2, <1>2, <1>8 DEF Coherent, Keyed
  <2>2. Undoable(s)
    <3>1. \A m \in Messages : mem[b].sends[m].st # "preparing"
      BY <1>2, <1>3 DEF Coherent, Undoable
    <3> QED BY <1>8, <3>1 DEF Undoable
  <2>3. Exact(s)
    <3>1. mem[b].read \cup mem[b].quarantine = 1..mem[b].cursor
      BY <1>2 DEF Coherent, Exact
    <3>2. 1..next = (1..mem[b].cursor) \cup {next}
      BY <1>t
    <3>3. s.read \cup s.quarantine = 1..s.cursor
      BY <1>8, <3>1, <3>2 DEF read
    <3>4. ASSUME NEW i
          PROVE i \in read <=> \E e \in Devices : s.db[e] # None /\ i \in s.db[e].got
      <4>1. i \in mem[b].read <=> \E e \in Devices : mem[b].db[e] # None /\ i \in mem[b].db[e].got
        BY <1>2, Decrypted DEF Coherent, Exact
      <4> QED BY <4>1, <1>4, <1>5, <1>6, <1>8, NoneAssumption DEF read
    <3>5. s.read = UNION {s.db[e].got : e \in {f \in Devices : s.db[f] # None}}
      BY <3>4, <1>8, Decrypted
    <3> QED BY <3>3, <3>5 DEF Exact
  <2> QED BY <2>1, <2>2, <2>3 DEF Coherent
<1>11. Claims(s)
  BY <1>2, <1>3, <1>8, <1>t DEF Claims, SameRoles
<1>12. DataKeeps(mem[b], s)
  <2>1. ASSUME NEW e \in Devices, mem[b].db[e] # None
        PROVE  s.db[e] # None /\ mem[b].db[e].sent <= s.db[e].sent
    <3>1. mem[b].db[e] \in Ratchet
      BY <2>1, <1>2 DEF Snapshot
    <3> QED BY <2>1, <3>1, <1>5, <1>6, <1>8 DEF Ratchet
  <2> QED BY <2>1, <1>8 DEF DataKeeps, read
<1>13. w[s.dev] = s.db[s.dev]
  <2>1. s.dev \in Devices
    BY <1>2, <1>8 DEF Snapshot
  <2>2. r = w[d]
    BY DEF r, w
  <2>3. CASE d = s.dev
    BY <2>2, <2>3, <1>6, <1>8
  <2>4. CASE d # s.dev
    BY <2>1, <2>4, <1>3, <1>6, <1>8
  <2> QED BY <2>3, <2>4
<1>14. Turns(c, s, w) /\ Submitting(ls, b, c, s) /\ Continues(b, s, ls[b], c)
  BY <1>8, <1>9, <1>13 DEF Turns, Submitting, Continues, SameRoles
<1> QED BY <1>2, <1>8, <1>9, <1>10, <1>11, <1>12, <1>13, <1>14, PlainStep DEF SameRoles, w

LEMMA PrepareRotationStep ==
  ASSUME IInv, NEW b \in Browsers, PrepareRotation(b)
  PROVE  IInv'
<1> DEFINE d == [gen |-> device.gen + 1, by |-> b]
           db == [mem[b].db EXCEPT ![d] = Fresh]
           s == [mem[b] EXCEPT !.prep = d, !.db = db]
           w == [work[b] EXCEPT ![d] = Fresh]
           up == Uploading(mem[b])
           c == Moved(b, "idle", up)
<1>1. pc[b].at = "idle" /\ TypeOK
  BY DEF PrepareRotation, At, IInv
<1>2. /\ mem[b] # None /\ mem[b] \in Snapshot /\ work[b] \in Ratchets
      /\ Coherent(mem[b]) /\ Claims(mem[b])
      /\ Turns(pc[b], mem[b], work[b])
  BY <1>1, Open
<1>3. device = mem[b].dev /\ device \in Devices
  BY <1>2 DEF PrepareRotation, Writable, OwnDevice, Snapshot
<1>4. d \in Devices /\ d # None
  <2>1. device.gen \in Nat /\ device.gen + 1 \in 1..MaxGeneration
    BY <1>3, RelayPersonalAssumption DEF PrepareRotation, Devices
  <2> QED BY <2>1, NoneAssumption DEF Devices
<1>5. mem[b].db[d] = None
  BY DEF PrepareRotation
<1>6. Fresh \in Ratchet /\ Fresh # None /\ Fresh.got = {} /\ Fresh.sent = 0
  BY NoneAssumption DEF Fresh, Ratchet
<1>7. work' = [work EXCEPT ![b] = w] /\ work'[b] = w
  BY <1>1 DEF PrepareRotation, TypeOK
<1>8. Persist(b, s, w, ls[b])
  <2>1. [mem[b] EXCEPT !.prep = d, !.db[d] = Fresh] = s
    BY <1>2 DEF Snapshot
  <2> HIDE DEF s, w
  <2> QED BY <1>7, <2>1 DEF PrepareRotation
<1>u. up \in Uploads
  BY UploadingType
<1>g. Go(b, "idle", up)
  BY DEF PrepareRotation
<1> HIDE DEF up
<1>9. c \in Control /\ c.at = "idle" /\ c.io = up /\ pc' = [pc EXCEPT ![b] = c]
  BY <1>1, <1>u, <1>g, Goes DEF Wheres
<1> HIDE DEF c, d
<1>10. /\ db \in Ratchets /\ db[d] = Fresh
       /\ \A e \in Devices \ {d} : db[e] = mem[b].db[e]
       /\ w \in Ratchets /\ w[d] = Fresh
       /\ \A e \in Devices \ {d} : w[e] = work[b][e]
  BY <1>2, <1>4, <1>6 DEF Ratchets, Snapshot
<1> HIDE DEF db
<1>11. /\ s \in Snapshot
       /\ s.dev = mem[b].dev /\ s.prep = d /\ s.db = db
       /\ s.sends = mem[b].sends /\ s.out = mem[b].out
       /\ SameInbox(mem[b], s) /\ SameRoles(mem[b], s)
  BY <1>2, <1>4, <1>10 DEF Snapshot, SameInbox, SameRoles, Ratchets
<1> HIDE DEF s, w
<1>12. Persists(b, s, w, ls[b], c)
  <2>1. /\ ls' = [ls EXCEPT ![b] = ls[b]]
        /\ failures' \in 0..MaxFailures
        /\ UNCHANGED <<remote, wire, device, ledger, inbox>>
    BY <1>1 DEF PrepareRotation, chain, TypeOK
  <2> QED BY <1>7, <1>8, <1>9, <2>1 DEF Persists
<1>13. /\ mem[b].inbound = None
       /\ \A m \in Messages : mem[b].sends[m].st # "preparing"
  BY DEF PrepareRotation, Resolved, Terminal
<1>14. \A e \in Devices : mem[b].db[e] # None => e # d /\ db[e] = mem[b].db[e]
  BY <1>5, <1>10
<1>15. Coherent(s)
  <2>1. Keyed(s)
    <3>1. s.db[s.dev] # None /\ s.db[s.prep] # None
      <4>1. mem[b].dev \in Devices /\ mem[b].db[mem[b].dev] # None
        BY <1>2 DEF Coherent, Keyed, Snapshot
      <4> QED BY <4>1, <1>6, <1>10, <1>11, <1>14
    <3>2. ASSUME NEW m \in Messages, s.sends[m].st \in Packed
          PROVE  /\ s.sends[m].cipher # None
                 /\ s.db[s.sends[m].cipher.dev] # None
                 /\ s.sends[m].cipher.pos <= s.db[s.sends[m].cipher.dev].sent
      <4>1. /\ mem[b].sends[m].cipher # None
            /\ mem[b].db[mem[b].sends[m].cipher.dev] # None
            /\ mem[b].sends[m].cipher.pos <= mem[b].db[mem[b].sends[m].cipher.dev].sent
        BY <3>2, <1>2, <1>11 DEF Coherent, Keyed
      <4>2. mem[b].sends[m].cipher.dev \in Devices
        BY <4>1, <1>2 DEF Snapshot, Row, Cipher
      <4> QED BY <4>1, <4>2, <1>14, <1>11
    <3> QED BY <3>1, <3>2, <1>2, <1>11 DEF Coherent, Keyed
  <2>2. Undoable(s)
    BY <1>11, <1>13 DEF Undoable, SameInbox
  <2>3. Exact(s)
    <3>1. ASSUME NEW i
          PROVE i \in s.read <=> \E e \in Devices : s.db[e] # None /\ i \in s.db[e].got
      <4>1. i \in mem[b].read <=> \E e \in Devices : mem[b].db[e] # None /\ i \in mem[b].db[e].got
        BY <1>2, Decrypted DEF Coherent, Exact
      <4>2. \A e \in Devices : s.db[e] # None /\ i \in s.db[e].got
                               <=> mem[b].db[e] # None /\ i \in mem[b].db[e].got
        BY <1>5, <1>6, <1>10, <1>11
      <4> QED BY <4>1, <4>2, <1>11 DEF SameInbox
    <3>2. s.read = UNION {s.db[e].got : e \in {f \in Devices : s.db[f] # None}}
      BY <3>1, Decrypted
    <3> QED BY <1>2, <1>11, <3>2 DEF Coherent, Exact, SameInbox
  <2> QED BY <2>1, <2>2, <2>3 DEF Coherent
<1>16. Claims(s)
  BY <1>2, <1>11 DEF Claims, SameInbox, SameRoles
<1>17. DataKeeps(mem[b], s)
  <2>1. ASSUME NEW e \in Devices, mem[b].db[e] # None
        PROVE  s.db[e] # None /\ mem[b].db[e].sent <= s.db[e].sent
    <3>1. mem[b].db[e] \in Ratchet
      BY <2>1, <1>2 DEF Snapshot
    <3> QED BY <2>1, <3>1, <1>11, <1>14 DEF Ratchet
  <2> QED BY <2>1, <1>11 DEF DataKeeps, SameInbox
<1>18. w[s.dev] = s.db[s.dev]
  <2>1. s.dev \in Devices /\ mem[b].db[s.dev] # None /\ work[b][s.dev] = mem[b].db[s.dev]
    BY <1>1, <1>2, <1>11 DEF Snapshot, Coherent, Keyed, Turns
  <2> QED BY <2>1, <1>10, <1>11, <1>14
<1>19. Turns(c, s, w) /\ Submitting(ls, b, c, s) /\ Continues(b, s, ls[b], c)
  BY <1>9, <1>11, <1>18 DEF Turns, Submitting, Continues, SameRoles, up, Uploading
<1> QED BY <1>2, <1>9, <1>10, <1>11, <1>12, <1>15, <1>16, <1>17, <1>18, <1>19, PlainStep
        DEF SameRoles

LEMMA EncryptedOne ==
  ASSUME NEW q \in Ratchet
  PROVE  LET r == [q EXCEPT !.sent = @ + 1] IN
         r \in Ratchet /\ r.sent = q.sent + 1 /\ r.got = q.got
BY DEF Ratchet

LEMMA ReadyStep ==
  ASSUME IInv, NEW b \in Browsers, Ready(b)
  PROVE  IInv'
<1> DEFINE d == mem[b].dev
           w == work[b]
           r == w[d]
           l == ls[b]
<1>1. pc[b].at = "seal" /\ TypeOK
  BY DEF Ready, At, IInv
<1>2. /\ mem[b] # None /\ mem[b] \in Snapshot /\ w \in Ratchets
      /\ Coherent(mem[b]) /\ Claims(mem[b])
      /\ Turns(pc[b], mem[b], w)
  BY <1>1, Open
<1>3. PICK m \in Messages : /\ mem[b].sends[m].st = "preparing"
                            /\ Save(b, [mem[b] EXCEPT !.sends[m] = Sealed(b)], "idle")
  BY DEF Ready
<1> DEFINE row == Sealed(b)
           s == [mem[b] EXCEPT !.sends[m] = row]
           n == Captured(s, w, l)
<1>4. d \in Devices /\ mem[b].db[d] \in Ratchet /\ mem[b].db[d].sent \in Nat
  BY <1>1, <1>2 DEF Coherent, Keyed, Snapshot, Ratchet
<1>r. r = [mem[b].db[d] EXCEPT !.sent = @ + 1]
  BY <1>1, <1>2 DEF Turns
<1>5. /\ r \in Ratchet /\ r # None
      /\ r.sent = mem[b].db[d].sent + 1 /\ r.got = mem[b].db[d].got
  <2> HIDE DEF r
  <2> QED BY <1>4, <1>r, EncryptedOne, NoneAssumption
<1>6. /\ row \in Row /\ row.st = "ready"
      /\ row.cipher # None /\ row.cipher.dev = d /\ row.cipher.pos = r.sent
  <2> DEFINE cipher == [dev |-> d, pos |-> r.sent]
  <2>1. cipher \in Cipher /\ cipher # None
    BY <1>4, <1>5, NoneAssumption DEF Cipher, Ratchet
  <2>2. row = [NoRow EXCEPT !.st = "ready", !.cipher = cipher]
    BY DEF Sealed
  <2>3. cipher.dev = d /\ cipher.pos = r.sent
    OBVIOUS
  <2> HIDE DEF cipher, row
  <2> QED BY <2>1, <2>2, <2>3, NoRowType DEF Row
<1> HIDE DEF row
<1>7. /\ s \in Snapshot
      /\ s.sends = [mem[b].sends EXCEPT ![m] = row]
      /\ s.out = mem[b].out
      /\ SameKeys(mem[b], s) /\ SameInbox(mem[b], s) /\ SameRoles(mem[b], s)
  BY <1>2, <1>6, WithRow
<1>8. Save(b, s, "idle")
  BY <1>3 DEF row
<1> HIDE DEF s
<1>9. PICK c \in Control : /\ Persists(b, s, w, l, c)
                           /\ c.at = "idle" /\ c.io = Uploading(s)
  BY <1>8, Saves DEF Wheres
<1>l. /\ [ls EXCEPT ![b] = l] = ls /\ l \in Storage /\ Recorded(ls, b) /\ OnceEach(l)
      /\ Follows(l, l)
      /\ OnceEach(s.store) /\ Traced(ls, s.store) /\ StoreKeeps(mem[b].store, s.store)
  BY <1>2, <1>7, SameStorage, Open DEF SameRoles
<1> HIDE DEF l, w, r, d
<1>10. /\ n.dev = d /\ n.prep = mem[b].prep
       /\ n.db = [mem[b].db EXCEPT ![d] = r]
       /\ n.sends = s.sends /\ n.out = mem[b].out
       /\ SameInbox(mem[b], n)
  BY <1>2, <1>7, <1>l, CapturedFields DEF SameKeys, SameInbox, d, r
<1> HIDE DEF n
<1>11. /\ n.db[d] = r
       /\ \A e \in Devices \ {d} : n.db[e] = mem[b].db[e]
       /\ \A o \in Messages : n.sends[o] = IF o = m THEN row ELSE mem[b].sends[o]
  BY <1>2, <1>4, <1>7, <1>10 DEF Snapshot
<1>12. /\ mem[b].inbound = None
       /\ \A o \in Messages : mem[b].sends[o].st = "preparing" => o = m
  BY <1>2, <1>3 DEF Coherent, Undoable
<1>13. \A e \in Devices : mem[b].db[e] # None =>
          /\ n.db[e] # None /\ n.db[e].got = mem[b].db[e].got
          /\ mem[b].db[e].sent <= n.db[e].sent
  <2>1. ASSUME NEW e \in Devices, mem[b].db[e] # None
        PROVE  /\ n.db[e] # None /\ n.db[e].got = mem[b].db[e].got
               /\ mem[b].db[e].sent <= n.db[e].sent
    <3>1. mem[b].db[e].sent \in Nat
      BY <2>1, <1>2 DEF Snapshot, Ratchet
    <3>2. CASE e = d
      BY <3>2, <1>4, <1>5, <1>11
    <3>3. CASE e # d
      BY <2>1, <3>1, <3>3, <1>11
    <3> QED BY <3>2, <3>3
  <2> QED BY <2>1
<1>14. ASSUME NEW o \in Messages, o # m, n.sends[o].st \in Packed
       PROVE  /\ n.sends[o].cipher # None
              /\ mem[b].sends[o].cipher = n.sends[o].cipher
              /\ n.sends[o].cipher.dev \in Devices
              /\ mem[b].db[n.sends[o].cipher.dev] # None
              /\ n.sends[o].cipher.pos <= mem[b].db[n.sends[o].cipher.dev].sent
              /\ n.sends[o].cipher.pos \in Nat
  <2>1. /\ mem[b].sends[o].cipher # None
        /\ mem[b].db[mem[b].sends[o].cipher.dev] # None
        /\ mem[b].sends[o].cipher.pos <= mem[b].db[mem[b].sends[o].cipher.dev].sent
    BY <1>14, <1>2, <1>11 DEF Coherent, Keyed
  <2>2. mem[b].sends[o].cipher \in Cipher
    BY <2>1, <1>2 DEF Snapshot, Row
  <2> QED BY <2>1, <2>2, <1>14, <1>11 DEF Cipher
<1>15. Coherent(n)
  <2>1. n.db[n.dev] # None /\ (n.prep # None => n.db[n.prep] # None)
    BY <1>2, <1>10, <1>13 DEF Coherent, Keyed, Snapshot, d
  <2>2. ASSUME NEW o \in Messages, n.sends[o].st \in Packed
        PROVE  /\ n.sends[o].cipher # None
               /\ n.db[n.sends[o].cipher.dev] # None
               /\ n.sends[o].cipher.pos <= n.db[n.sends[o].cipher.dev].sent
    <3>1. CASE o = m
      <4>1. n.sends[o].cipher = row.cipher /\ n.db[d] = r
        BY <3>1, <1>11
      <4> QED BY <4>1, <1>5, <1>6 DEF Ratchet
    <3>2. CASE o # m
      <4>1. mem[b].db[n.sends[o].cipher.dev].sent \in Nat
        BY <3>2, <2>2, <1>2, <1>14 DEF Snapshot, Ratchet
      <4>2. n.db[n.sends[o].cipher.dev] \in Ratchet
        BY <3>2, <2>2, <1>2, <1>4, <1>5, <1>11, <1>14 DEF Snapshot
      <4>3. /\ n.sends[o].cipher # None /\ n.sends[o].cipher.pos \in Nat
            /\ n.sends[o].cipher.dev \in Devices
            /\ mem[b].db[n.sends[o].cipher.dev] # None
            /\ n.sends[o].cipher.pos <= mem[b].db[n.sends[o].cipher.dev].sent
        BY <3>2, <2>2, <1>14
      <4>4. /\ n.db[n.sends[o].cipher.dev] # None
            /\ mem[b].db[n.sends[o].cipher.dev].sent <= n.db[n.sends[o].cipher.dev].sent
        BY <4>3, <1>13
      <4>5. n.db[n.sends[o].cipher.dev].sent \in Nat
        BY <4>2 DEF Ratchet
      <4>6. ASSUME NEW x \in Nat, NEW y \in Nat, NEW z \in Nat, x <= y, y <= z
            PROVE  x <= z
        BY <4>6
      <4>7. n.sends[o].cipher.pos <= n.db[n.sends[o].cipher.dev].sent
        BY <4>1, <4>3, <4>4, <4>5, <4>6
      <4> QED BY <4>3, <4>4, <4>7
    <3> QED BY <3>1, <3>2
  <2>3. ASSUME NEW o \in Messages, o # m, n.sends[o].st \in Packed
        PROVE  n.sends[o].cipher # row.cipher
    <3>1. ASSUME n.sends[o].cipher = row.cipher PROVE FALSE
      <4>1. n.sends[o].cipher.dev = d /\ n.sends[o].cipher.pos = mem[b].db[d].sent + 1
        BY <3>1, <1>5, <1>6
      <4>2. n.sends[o].cipher.pos <= mem[b].db[d].sent
        BY <2>3, <4>1, <1>14
      <4> QED BY <4>1, <4>2, <1>4
    <3> QED BY <3>1
  <2>4. ASSUME NEW o \in Messages, NEW q \in Messages,
               n.sends[o].st \in Packed, n.sends[q].st \in Packed,
               n.sends[o].cipher = n.sends[q].cipher
        PROVE  o = q
    <3>1. CASE o # m /\ q # m
      BY <3>1, <2>4, <1>2, <1>11 DEF Coherent, Keyed
    <3>2. CASE o = m \/ q = m
      BY <3>2, <2>3, <2>4, <1>11
    <3> QED BY <3>1, <3>2
  <2>5. Keyed(n)
    BY <2>1, <2>2, <2>4 DEF Keyed
  <2>6. Undoable(n)
    BY <1>6, <1>10, <1>11, <1>12 DEF Undoable, SameInbox
  <2>7. Exact(n)
    <3>1. ASSUME NEW i
          PROVE i \in n.read <=> \E e \in Devices : n.db[e] # None /\ i \in n.db[e].got
      <4>1. i \in mem[b].read <=> \E e \in Devices : mem[b].db[e] # None /\ i \in mem[b].db[e].got
        BY <1>2, Decrypted DEF Coherent, Exact
      <4>2. \A e \in Devices : n.db[e] # None <=> mem[b].db[e] # None
        BY <1>4, <1>5, <1>11, NoneAssumption
      <4> QED BY <4>1, <4>2, <1>10, <1>13 DEF SameInbox
    <3>2. n.read = UNION {n.db[e].got : e \in {f \in Devices : n.db[f] # None}}
      BY <3>1, Decrypted
    <3> QED BY <1>2, <1>10, <3>2 DEF Coherent, Exact, SameInbox
  <2> QED BY <2>5, <2>6, <2>7 DEF Coherent
<1>16. Claims(s)
  BY <1>2, <1>6, <1>7, <1>10, <1>11 DEF Claims, SameKeys, SameInbox, SameRoles
<1>17. DataKeeps(mem[b], n)
  <2>1. ASSUME NEW o \in Messages, mem[b].sends[o].st \in Packed
        PROVE  n.sends[o].st \in Packed /\ n.sends[o].cipher = mem[b].sends[o].cipher
    BY <2>1, <1>3, <1>11 DEF Packed
  <2> QED BY <2>1, <1>10, <1>13 DEF DataKeeps, SameInbox
<1>18. Turns(c, n, w) /\ Submitting(ls, b, c, n) /\ Continues(b, s, l, c)
  <2>1. Turns(c, n, w)
    BY <1>9, <1>10, <1>11 DEF Turns, r
  <2>2. Submitting(ls, b, c, n)
    BY <1>9 DEF Submitting
  <2>3. Continues(b, s, l, c)
    BY <1>7, <1>9 DEF Continues, SameRoles, l
  <2> QED BY <2>1, <2>2, <2>3
<1> HIDE DEF s
<1> QED BY <1>2, <1>7, <1>9, <1>l, <1>15, <1>16, <1>17, <1>18, PersistStep DEF l, n

-----------------------------------------------------------------------------
(* The actions that record what became of a transaction. *)

LEMMA CodeOf ==
  ASSUME IInv, NEW t
  PROVE  /\ Code(t) # "none" => t \in Txs /\ Origin(ls, t) \in {"pending", "included"}
         /\ Code(t) \in {"none", "ok", "failed"}
<1>1. CASE \A e \in ledger : e.tx # t
  BY <1>1 DEF Code
<1>2. ASSUME NEW f \in ledger, f.tx = t
      PROVE  /\ t \in Txs /\ Origin(ls, t) \in {"pending", "included"}
             /\ Code(t) \in {"none", "ok", "failed"}
  <2>1. t \in Txs /\ Origin(ls, t) \in {"pending", "included"}
    BY <1>2 DEF IInv, Books, TypeOK
  <2> DEFINE e == CHOOSE e \in ledger : e.tx = t
  <2>2. e \in ledger
    BY <1>2
  <2>3. e.code \in {"none", "ok", "failed"}
    BY <2>2 DEF IInv, TypeOK
  <2> QED BY <1>2, <2>1, <2>3 DEF Code
<1> QED BY <1>1, <1>2

Follow(b, l) ==
    /\ l \in Storage
    /\ Follows(ls[b], l)
    /\ Recorded([ls EXCEPT ![b] = l], b)
    /\ \A store : Traced(ls, store) => Traced([ls EXCEPT ![b] = l], store)

LEMMA FollowsSame ==
  ASSUME IInv, NEW b \in Browsers PROVE Follow(b, ls[b])
BY SameStorage DEF Follow

LEMMA FollowsTraced ==
  ASSUME IInv, NEW b \in Browsers, NEW l \in Storage, Follows(ls[b], l)
  PROVE  \A store : Traced(ls, store) => Traced([ls EXCEPT ![b] = l], store)
<1> DEFINE L == [ls EXCEPT ![b] = l]
<1>1. ls \in [Browsers -> Storage] /\ L \in [Browsers -> Storage]
  BY SameStorage
<1>2. ASSUME NEW x \in Browsers PROVE Follows(ls[x], L[x])
  <2>1. CASE x = b
    BY <1>1, <2>1
  <2>2. CASE x # b
    BY <1>1, <2>2 DEF Follows, Later
  <2> QED BY <2>1, <2>2
<1> HIDE DEF L
<1> QED BY <1>1, <1>2, SoundStays DEF L

LEMMA PutFollows ==
  ASSUME IInv, NEW b \in Browsers, NEW old \in Storage, old.rows = ls[b].rows,
         NEW t \in Txs, NEW st \in Marks,
         Later(Status(ls[b], t), st),
         t.by # b => st = "included",
         st = "included" => Code(t) # "none"
  PROVE  /\ Follow(b, Put(old, t, st))
         /\ Status(Put(old, t, st), t) = st
<1> DEFINE l == Put(old, t, st)
           L == [ls EXCEPT ![b] = l]
<1>1. Recorded(ls, b) /\ OnceEach(ls[b]) /\ ls \in [Browsers -> Storage] /\ ls[b] \in Storage
  BY SameStorage
<1>o. OnceEach(old)
  BY <1>1 DEF OnceEach
<1>2. \A u : Status(old, u) = Status(ls[b], u)
  BY DEF Status
<1>3. /\ l \in Storage /\ OnceEach(l)
      /\ \A u : Status(l, u) = IF u = t THEN st ELSE Status(ls[b], u)
  <2>1. /\ l \in Storage /\ OnceEach(l)
        /\ \A u : Status(l, u) = IF u = t THEN st ELSE Status(old, u)
    BY <1>o, PutStatus
  <2> HIDE DEF l, L
  <2> QED BY <1>2, <2>1
<1> HIDE DEF l
<1>4. Follows(ls[b], l)
  BY <1>3 DEF Follows, Later
<1>5. \A store : Traced(ls, store) => Traced(L, store)
  BY <1>3, <1>4, FollowsTraced
<1>6. L[b] = l /\ \A x \in Browsers \ {b} : L[x] = ls[x]
  BY <1>1
<1> HIDE DEF L
<1>7. Traced(L, l)
  <2>1. ASSUME NEW u \in Txs
        PROVE  /\ Status(l, u) # "none" => Origin(L, u) # "none"
               /\ Status(l, u) \in Known => Origin(L, u) \in Known
               /\ Status(l, u) = "not_broadcast" => Origin(L, u) = "not_broadcast"
               /\ Status(l, u) = "included" => Code(u) # "none"
    <3>1. Status(l, u) = "included" => Code(u) # "none"
      BY <1>1, <1>3 DEF Recorded, Traced
    <3>2. CASE u.by = b
      BY <3>1, <3>2, <1>6 DEF Origin
    <3>3. CASE u.by # b
      <4>1. Origin(L, u) = Origin(ls, u)
        BY <3>3, <1>6 DEF Origin, Txs
      <4>2. CASE u = t
        BY <4>1, <4>2, <3>1, <3>3, <1>3, CodeOf DEF Known
      <4>3. CASE u # t
        BY <4>1, <4>3, <3>1, <1>1, <1>3 DEF Recorded, Traced
      <4> QED BY <4>2, <4>3
    <3> QED BY <3>2, <3>3
  <2> QED BY <2>1 DEF Traced
<1>8. ASSUME NEW r \in l.rows, r.tx.by # b PROVE r.st = "included"
  <2>1. r \in Entry /\ Status(l, r.tx) = r.st
    BY <1>3, <1>8, StatusOfRow DEF Storage
  <2>2. CASE r.tx = t
    BY <2>1, <2>2, <1>3, <1>8
  <2>3. CASE r.tx # t
    <3>1. r.st = Status(ls[b], r.tx) /\ r.st # "none"
      BY <2>1, <2>3, <1>3 DEF Entry
    <3>2. PICK q \in ls[b].rows : q.tx = r.tx
      BY <3>1, <1>1, StatusNone
    <3> QED BY <3>1, <3>2, <1>1, <1>8, StatusOfRow DEF Recorded
  <2> QED BY <2>2, <2>3
<1>9. Recorded(L, b)
  BY <1>3, <1>6, <1>7, <1>8 DEF Recorded
<1>10. Follow(b, l)
  BY <1>3, <1>4, <1>5, <1>9 DEF Follow, L
<1> QED BY <1>3, <1>10 DEF l

LEMMA NotedLocallyFollows ==
  ASSUME IInv, NEW b \in Browsers, NEW t, mem[b] # None
  PROVE  /\ Follow(b, NotedLocally(b, t))
         /\ NotedLocally(b, t) = ls[b] \/ ~mem[b].readOnly
         /\ NotedLocally(b, t).life = ls[b].life
<1>1. CASE mem[b].readOnly \/ ~Found(b, t)
  BY <1>1, FollowsSame DEF NotedLocally
<1>2. CASE ~mem[b].readOnly /\ Found(b, t)
  <2>1. /\ NotedLocally(b, t) = Put(ls[b], t, "included")
        /\ Code(t) # "none" /\ t \in Txs
        /\ Status(Merged(ls[b], mem[b].store), t) # "not_broadcast"
    BY <1>2, CodeOf DEF NotedLocally, Found, View
  <2>2. OnceEach(mem[b].store) /\ mem[b].store \in Storage /\ OnceEach(ls[b]) /\ ls[b] \in Storage
    BY SameStorage, Open
  <2>3. Status(ls[b], t) # "not_broadcast"
    BY <2>1, <2>2, MergedStatus
  <2>4. Later(Status(ls[b], t), "included")
    BY <2>3 DEF Later, Known
  <2>5. "included" \in Marks
    BY DEF Marks
  <2>6. Put(ls[b], t, "included").life = ls[b].life
    BY <2>1, <2>2, <2>5, PutStatus
  <2> QED BY <1>2, <2>1, <2>2, <2>4, <2>5, <2>6, PutFollows
<1> QED BY <1>1, <1>2

(* A store that notes an inclusion keeps what it held. *)
LEMMA NotedStore ==
  ASSUME IInv, NEW b \in Browsers, NEW t, mem[b] # None, mem[b].readOnly, Found(b, t)
  PROVE  LET new == Put(mem[b].store, t, "included") IN
         /\ new \in Storage /\ OnceEach(new) /\ Traced(ls, new) /\ StoreKeeps(mem[b].store, new)
<1> DEFINE old == mem[b].store
           new == Put(old, t, "included")
<1>1. old \in Storage /\ OnceEach(old) /\ Traced(ls, old)
  BY Open
<1>2. t \in Txs /\ Code(t) # "none" /\ Origin(ls, t) \in Known
  BY CodeOf DEF Found, Known
<1>3. "included" \in Marks
  BY DEF Marks
<1> HIDE DEF old
<1>4. /\ new \in Storage /\ OnceEach(new)
      /\ \A u : Status(new, u) = IF u = t THEN "included" ELSE Status(old, u)
  BY <1>1, <1>2, <1>3, PutStatus
<1> HIDE DEF new
<1>5. Traced(ls, new)
  BY <1>1, <1>2, <1>4 DEF Traced, Known
<1>6. StoreKeeps(old, new)
  BY <1>4 DEF StoreKeeps, Known
<1> QED BY <1>4, <1>5, <1>6 DEF new, old

LEMMA NotedKeeps ==
  ASSUME IInv, NEW b \in Browsers, mem[b] # None, NEW t,
         NEW s \in Snapshot, s.store = mem[b].store, s.readOnly = mem[b].readOnly
  PROVE  LET n == Noted(b, s, t) IN
         /\ n \in Snapshot
         /\ n.sends = s.sends /\ n.out = s.out
         /\ SameKeys(s, n) /\ SameInbox(s, n)
         /\ n.readOnly = s.readOnly /\ n.registered = s.registered
         /\ OnceEach(n.store) /\ Traced(ls, n.store) /\ StoreKeeps(mem[b].store, n.store)
<1>0. OnceEach(mem[b].store) /\ Traced(ls, mem[b].store) /\ StoreKeeps(mem[b].store, mem[b].store)
  BY Open, SameStorage
<1>1. CASE ~(s.readOnly /\ Found(b, t))
  <2>1. Noted(b, s, t) = s
    BY <1>1 DEF Noted
  <2> QED BY <1>0, <2>1 DEF SameKeys, SameInbox
<1>2. CASE s.readOnly /\ Found(b, t)
  <2> DEFINE new == Put(mem[b].store, t, "included")
             n == [s EXCEPT !.store = new]
  <2>1. new \in Storage /\ OnceEach(new) /\ Traced(ls, new) /\ StoreKeeps(mem[b].store, new)
    BY <1>2, NotedStore
  <2>2. Noted(b, s, t) = n
    BY <1>2 DEF Noted
  <2> HIDE DEF new
  <2>3. /\ n \in Snapshot
        /\ n.sends = s.sends /\ n.out = s.out
        /\ SameKeys(s, n) /\ SameInbox(s, n)
        /\ n.readOnly = s.readOnly /\ n.registered = s.registered
        /\ n.store = new
    BY <2>1 DEF Snapshot, SameKeys, SameInbox
  <2> HIDE DEF n
  <2> QED BY <2>1, <2>2, <2>3
<1> QED BY <1>1, <1>2

(* The working ratchets stay. *)
WorkStays(b) == work' = [work EXCEPT ![b] = work[b]]

(* What is learned changes an attempt or the registration, nothing else. *)
Learns(b, s) ==
    /\ s.store = mem[b].store /\ s.readOnly = mem[b].readOnly
    /\ s.dev = mem[b].dev /\ s.db = mem[b].db
    /\ Coherent(s) /\ Claims(s) /\ DataKeeps(mem[b], s)

LEMMA LearnPersists ==
  ASSUME IInv, NEW b \in Browsers, pc[b].at \in {"recover", "tail"},
         NEW s \in Snapshot, Learns(b, s),
         NEW t, NEW k \in 0..6,
         Reconciled(b, Noted(b, s, t), work[b], NotedLocally(b, t), k),
         WorkStays(b)
  PROVE  IInv'
<1> DEFINE n == Noted(b, s, t)
           w == work[b]
           l == NotedLocally(b, t)
<1>1. /\ mem[b] # None /\ w \in Ratchets
      /\ Turns(pc[b], mem[b], w)
  BY Open
<1>2. /\ n \in Snapshot
      /\ n.sends = s.sends /\ n.out = s.out
      /\ SameKeys(s, n) /\ SameInbox(s, n)
      /\ n.readOnly = s.readOnly /\ n.registered = s.registered
      /\ OnceEach(n.store) /\ Traced(ls, n.store) /\ StoreKeeps(mem[b].store, n.store)
  BY <1>1, NotedKeeps DEF Learns
<1>3. Follow(b, l) /\ (l = ls[b] \/ ~mem[b].readOnly)
  BY <1>1, NotedLocallyFollows
<1>4. work' = [work EXCEPT ![b] = w] /\ Reconciled(b, n, w, l, k) /\ k \in 0..6
  BY DEF WorkStays
<1> HIDE DEF n, w, l
<1>5p. StaysAndUploads(b, n, w, l)
  BY <1>4, Reconciles
<1>5. PICK c \in Control : /\ Persists(b, n, w, l, c)
                           /\ c.at = pc[b].at /\ c.io = Uploading(n)
  BY <1>5p DEF StaysAndUploads
<1>6. Coherent(n) /\ Claims(n) /\ DataKeeps(mem[b], n)
  <2>1. Keyed(n)
    BY <1>2, KeyedStays DEF Learns, Coherent
  <2>2. Undoable(n) /\ Exact(n)
    BY <1>2 DEF Learns, Coherent, Undoable, Exact, SameKeys, SameInbox
  <2>3. Claims(n)
    BY <1>2 DEF Learns, Claims, SameKeys, SameInbox
  <2>4. DataKeeps(mem[b], n)
    BY <1>2 DEF Learns, DataKeeps, SameKeys, SameInbox
  <2> QED BY <2>1, <2>2, <2>3, <2>4 DEF Coherent
<1>7. /\ w[n.dev] = n.db[n.dev]
      /\ Turns(c, n, w) /\ Continues(b, n, l, c)
      /\ \A L : Submitting(L, b, c, n)
  <2>1. n.dev = mem[b].dev /\ n.db = mem[b].db /\ n.readOnly = mem[b].readOnly
    BY <1>2 DEF Learns, SameKeys
  <2>2. w[n.dev] = n.db[n.dev]
    BY <1>1, <2>1 DEF Turns
  <2>3. Turns(c, n, w) /\ \A L : Submitting(L, b, c, n)
    BY <1>5, <2>1, <2>2 DEF Turns, Submitting
  <2>4. Continues(b, n, l, c)
    BY <1>1, <1>2, <1>3, <1>5, <2>1 DEF Continues
  <2> QED BY <2>2, <2>3, <2>4
<1> QED BY <1>1, <1>2, <1>3, <1>5, <1>6, <1>7, PersistSame DEF Follow

LEMMA LearnAttemptStep ==
  ASSUME IInv, NEW b \in Browsers, NEW m \in Messages, LearnAttempt(b, m)
  PROVE  IInv'
<1> DEFINE old == mem[b].sends[m]
           t == old.attempt.tx
           st == Evidence(b, t)
           attempt == [old.attempt EXCEPT !.st = st]
           row == [old EXCEPT !.attempt = attempt]
           s == [mem[b] EXCEPT !.sends[m] = row]
<1>1. pc[b].at \in {"recover", "tail"}
  BY DEF LearnAttempt, Closing, InStage, At
<1>2. /\ mem[b] # None /\ mem[b] \in Snapshot /\ Coherent(mem[b]) /\ Claims(mem[b])
  BY <1>1, Open
<1>3. old \in Row /\ old.st = "ready" /\ st \in {"not_broadcast", "failed"}
  BY <1>2 DEF LearnAttempt, Snapshot
<1>4. [mem[b] EXCEPT !.sends[m].attempt.st = st] = s
  BY <1>2 DEF Snapshot
<1>5. /\ Reconciled(b, Noted(b, s, t), work[b], NotedLocally(b, t), 3)
      /\ WorkStays(b)
      /\ 3 \in 0..6
  BY <1>4 DEF LearnAttempt, WorkStays, IInv, TypeOK
<1> HIDE DEF st
<1>6. attempt \in Intent
  BY <1>3 DEF Row, Intent, Outcomes
<1> HIDE DEF attempt
<1>7. row \in Row /\ row.st = "ready" /\ row.cipher = old.cipher
  BY <1>3, <1>6 DEF Row
<1> HIDE DEF row
<1>8. RowStep(mem[b], m, row)
  BY <1>3, <1>7 DEF RowStep, Packed
<1>9. /\ s \in Snapshot /\ SameKeys(mem[b], s) /\ SameRoles(mem[b], s)
      /\ Coherent(s) /\ Claims(s) /\ DataKeeps(mem[b], s)
  BY <1>2, <1>7, <1>8, WithRow, RowKeeps
<1> HIDE DEF s, t
<1> QED BY <1>1, <1>5, <1>9, LearnPersists DEF Learns, SameKeys, SameRoles

LEMMA LearnRegistrationStep ==
  ASSUME IInv, NEW b \in Browsers, LearnRegistration(b)
  PROVE  IInv'
<1> DEFINE t == mem[b].registration.tx
           code == Evidence(b, t)
           registered == mem[b].registered \/ code = "ok"
           st == IF code = "ok" THEN "confirmed" ELSE code
           registration == [mem[b].registration EXCEPT !.st = st]
           s == [mem[b] EXCEPT !.registered = registered, !.registration = registration]
<1>1. pc[b].at \in {"recover", "tail"}
  BY DEF LearnRegistration, Closing, InStage, At
<1>2. /\ mem[b] # None /\ mem[b] \in Snapshot /\ Coherent(mem[b]) /\ Claims(mem[b])
  BY <1>1, Open
<1>3. code \in {"not_broadcast", "ok", "failed"} /\ (code = "ok" => device = mem[b].dev)
  <2>1. code # "none" /\ (code = "ok" => device = mem[b].dev)
    BY DEF LearnRegistration
  <2>2. Code(t) \in {"none", "ok", "failed"}
    BY CodeOf
  <2>3. code \in {"not_broadcast", "none", Code(t)}
    BY DEF Evidence
  <2> QED BY <2>1, <2>2, <2>3
<1>4. [mem[b] EXCEPT !.registered = @ \/ code = "ok", !.registration.st = st] = s
  BY <1>2 DEF Snapshot
<1>5. /\ Reconciled(b, Noted(b, s, t), work[b], NotedLocally(b, t), 4)
      /\ WorkStays(b)
      /\ 4 \in 0..6
  BY <1>4 DEF LearnRegistration, WorkStays, IInv, TypeOK
<1>6. st \in Outcomes /\ registered \in BOOLEAN
      /\ (registered => mem[b].registered \/ device = mem[b].dev)
  BY <1>2, <1>3 DEF Outcomes, Snapshot
<1> HIDE DEF st, registered, code
<1>7. registration \in Intent
  BY <1>2, <1>6 DEF Snapshot, Intent
<1> HIDE DEF registration
<1>8. /\ s \in Snapshot
      /\ s.sends = mem[b].sends /\ s.out = mem[b].out
      /\ SameKeys(mem[b], s) /\ SameInbox(mem[b], s)
      /\ s.readOnly = mem[b].readOnly /\ s.registered = registered
      /\ s.store = mem[b].store
  BY <1>2, <1>6, <1>7 DEF Snapshot, SameKeys, SameInbox
<1> HIDE DEF s, t
<1>9. Coherent(s) /\ Claims(s) /\ DataKeeps(mem[b], s)
  <2>1. Keyed(s) /\ DataKeeps(mem[b], s)
    <3>1. /\ s.dev = mem[b].dev /\ s.prep = mem[b].prep /\ s.db = mem[b].db
          /\ s.sends = mem[b].sends /\ s.out = mem[b].out /\ s.read = mem[b].read
      BY <1>8 DEF SameKeys, SameInbox
    <3> QED BY <1>2, <3>1, SameData
  <2>2. Undoable(s) /\ Exact(s)
    BY <1>2, <1>8 DEF Coherent, Undoable, Exact, SameKeys, SameInbox
  <2>3. s.registered => device # None /\ device.gen >= s.dev.gen
    <3>1. ASSUME device = mem[b].dev PROVE device # None /\ device.gen >= mem[b].dev.gen
      BY <3>1, <1>2, NoneAssumption DEF Snapshot, Devices
    <3> QED BY <3>1, <1>2, <1>6, <1>8 DEF Claims, SameKeys
  <2>4. Claims(s)
    BY <1>2, <1>8, <2>3 DEF Claims, SameInbox
  <2> QED BY <2>1, <2>2, <2>4 DEF Coherent
<1> QED BY <1>1, <1>5, <1>8, <1>9, LearnPersists DEF Learns, SameKeys

-----------------------------------------------------------------------------
(* The actions that only move on, and those that close the profile.         *)

LEMMA FailsType == ASSUME TypeOK PROVE failures \in 0..MaxFailures /\ (Fails => failures' \in 0..MaxFailures)
BY RelayPersonalAssumption DEF TypeOK, Fails

(* A step that leaves the record on disk alone. *)
LEMMA DiskStays ==
  ASSUME IInv, NEW b \in Browsers, disk[b] # None, NEW l, Follow(b, l),
         l = ls[b] \/ ~disk[b].env.snap.readOnly
  PROVE  /\ OnDisk([ls EXCEPT ![b] = l], b, disk[b])
         /\ \A s : Sound(ls, s) => Sound([ls EXCEPT ![b] = l], s)
<1> DEFINE L == [ls EXCEPT ![b] = l]
<1>1. L[b] = l
  BY SameStorage
<1>2. \A s : Sound(ls, s) => Sound(L, s)
  BY DEF Follow, Sound
<1>3. OnDisk(ls, b, disk[b])
  BY DEF IInv, Profile
<1> HIDE DEF L
<1>4. OnDisk(L, b, disk[b])
  BY <1>1, <1>2, <1>3 DEF OnDisk
<1> QED BY <1>2, <1>4 DEF L

LEMMA MoveStep ==
  ASSUME IInv, NEW b \in Browsers, mem[b] # None, pc[b].io = "none",
         NEW w \in Ratchets, NEW l, NEW c \in Control,
         Moves(b, disk[b], mem[b], w, l, c), Follow(b, l), l = ls[b] \/ ~mem[b].readOnly,
         c.at \notin {"closed", "backup"}, c.io = "none",
         Turns(c, mem[b], w), Submitting([ls EXCEPT ![b] = l], b, c, mem[b])
  PROVE  IInv'
<1> DEFINE L == [ls EXCEPT ![b] = l]
           k == disk[b]
           s == mem[b]
<1>1. /\ TypeOK /\ k # None /\ k \in Record /\ s \in Snapshot
      /\ InMemory(ls, b, k, s, work[b], pc[b])
  BY Open DEF IInv, Profile
<1>2. /\ OnDisk(L, b, k)
      /\ \A x : Sound(ls, x) => Sound(L, x)
      /\ Recorded(L, b) /\ Follows(ls[b], l) /\ l \in Storage
  BY <1>1, DiskStays DEF InMemory, Follow
<1>m. Moves(b, k, s, w, l, c) /\ Turns(c, s, w) /\ Submitting(L, b, c, s)
  OBVIOUS
<1> HIDE DEF L, k, s
<1>3. InMemory(L, b, k, s, w, c)
  BY <1>1, <1>2, <1>m DEF InMemory, s
<1>4. Profile(L, b, k, s, w, c)
  BY <1>2, <1>3 DEF Profile
<1>5. Typed(k, s, w, l, c)
  BY <1>1, <1>2 DEF Typed
<1> QED BY <1>2, <1>4, <1>5, <1>m, ProfileStep DEF L

LEMMA CloseStep ==
  ASSUME IInv, NEW b \in Browsers, Closed(b),
         NEW k \in Record, k # None, NEW l, Follow(b, l), OnDisk([ls EXCEPT ![b] = l], b, k),
         disk' = [disk EXCEPT ![b] = k], ls' = [ls EXCEPT ![b] = l],
         UNCHANGED <<remote, wire, work, chain>>, failures' \in 0..MaxFailures
  PROVE  IInv'
<1> DEFINE L == [ls EXCEPT ![b] = l]
           c == [at |-> "closed", stage |-> 0, tx |-> None, io |-> "none"]
           w == work[b]
           s == None
<1>1. w \in Ratchets /\ TypeOK
  BY DEF IInv, TypeOK, Ratchets
<1>2. c \in Control /\ c.at = "closed" /\ c.io = "none"
  BY DEF Control
<1>3. Moves(b, k, s, w, l, c)
  BY <1>1 DEF Moves, Closed, TypeOK, chain
<1>4. Recorded(L, b) /\ OnDisk(L, b, k) /\ Follows(ls[b], l) /\ l \in Storage
  BY DEF Follow
<1> HIDE DEF L, c, w
<1>5. InMemory(L, b, k, s, w, c)
  BY <1>2 DEF InMemory
<1>6. Profile(L, b, k, s, w, c)
  BY <1>4, <1>5 DEF Profile
<1>7. Typed(k, s, w, l, c)
  BY <1>1, <1>2, <1>4 DEF Typed
<1> HIDE DEF s
<1> QED BY <1>3, <1>4, <1>6, <1>7, ProfileStep DEF L

LEMMA CrashStep ==
  ASSUME IInv, NEW b \in Browsers, Crash(b) \/ Reopen(b)
  PROVE  IInv'
<1> DEFINE k == disk[b]
           l == ls[b]
<1>1. /\ pc[b].at # "closed" /\ Closed(b)
      /\ UNCHANGED <<remote, wire, disk, work, ls, chain>>
      /\ failures' \in 0..MaxFailures
  BY FailsType DEF Crash, Reopen, At, IInv
<1>2. k \in Record /\ k # None /\ TypeOK
  BY <1>1, Open DEF IInv
<1>3. Follow(b, l) /\ OnDisk([ls EXCEPT ![b] = l], b, k)
  BY <1>2, FollowsSame, DiskStays
<1>4. disk' = [disk EXCEPT ![b] = k] /\ ls' = [ls EXCEPT ![b] = l]
  BY <1>1, <1>2 DEF TypeOK
<1> HIDE DEF k, l
<1> QED BY <1>1, <1>2, <1>3, <1>4, CloseStep

LEMMA UploadFailsStep ==
  ASSUME IInv, NEW b \in Browsers, UploadFails(b)
  PROVE  IInv'
<1> DEFINE k == disk[b]
           l == IF pc[b].at = "backup" THEN Put(ls[b], pc[b].tx, "not_broadcast") ELSE ls[b]
<1>1. /\ pc[b].io # "none" /\ Closed(b)
      /\ UNCHANGED <<remote, wire, disk, work, chain>>
      /\ failures' \in 0..MaxFailures
  BY FailsType DEF UploadFails, IInv
<1>2. pc[b].at # "closed"
  BY <1>1 DEF IInv, Profile, InMemory
<1>3. /\ k \in Record /\ k # None /\ TypeOK /\ mem[b] # None
      /\ Submitting(ls, b, pc[b], mem[b])
  BY <1>2, Open DEF IInv
<1>4. ls' = [ls EXCEPT ![b] = l]
  BY <1>3 DEF UploadFails, Note, TypeOK
<1>5. Follow(b, l) /\ (l = ls[b] \/ ~mem[b].readOnly)
  <2>1. CASE pc[b].at = "backup"
    <3>1. /\ pc[b].tx \in Txs /\ pc[b].tx.by = b /\ ~mem[b].readOnly
          /\ Status(ls[b], pc[b].tx) = "signed"
      BY <2>1, <1>3 DEF Submitting, Recording
    <3>2. "not_broadcast" \in Marks /\ Later("signed", "not_broadcast")
      BY DEF Marks, Later, Known
    <3>3. ls[b] \in Storage
      BY SameStorage
    <3> QED BY <2>1, <3>1, <3>2, <3>3, PutFollows
  <2>2. CASE pc[b].at # "backup"
    BY <2>2, FollowsSame
  <2> QED BY <2>1, <2>2
<1> HIDE DEF l
<1>6. mem[b].readOnly <=> k.env.snap.readOnly
  BY <1>3 DEF IInv, Profile, InMemory
<1>7. OnDisk([ls EXCEPT ![b] = l], b, k)
  BY <1>3, <1>5, <1>6, DiskStays
<1>8. disk' = [disk EXCEPT ![b] = k]
  BY <1>1, <1>3 DEF TypeOK
<1> HIDE DEF k
<1> QED BY <1>1, <1>3, <1>4, <1>5, <1>7, <1>8, CloseStep

(* What an action that only moves on has in common. *)
LEMMA MovesOn ==
  ASSUME TypeOK, NEW b \in Browsers, NEW w, NEW l, NEW where \in Wheres, Go(b, where, "none"),
         work' = [work EXCEPT ![b] = w], ls' = [ls EXCEPT ![b] = l],
         UNCHANGED <<remote, wire, disk, mem, chain>>, failures' \in 0..MaxFailures
  PROVE  LET c == Moved(b, where, "none") IN
         /\ c \in Control /\ c.at = where /\ c.io = "none" /\ c.tx = pc[b].tx
         /\ Moves(b, disk[b], mem[b], w, l, c)
<1> DEFINE c == Moved(b, where, "none")
<1>1. /\ c \in Control /\ c.at = where /\ c.io = "none" /\ c.tx = pc[b].tx
      /\ pc' = [pc EXCEPT ![b] = c]
  <2>1. "none" \in Uploads
    BY DEF Uploads
  <2> QED BY <2>1, Goes
<1>2. disk' = [disk EXCEPT ![b] = disk[b]] /\ mem' = [mem EXCEPT ![b] = mem[b]]
  BY DEF TypeOK
<1> HIDE DEF c
<1>3. Moves(b, disk[b], mem[b], w, l, c)
  BY <1>1, <1>2 DEF Moves, chain
<1> QED BY <1>1, <1>3 DEF c

LEMMA EncryptStep ==
  ASSUME IInv, NEW b \in Browsers, Encrypt(b)
  PROVE  IInv'
<1> DEFINE d == mem[b].dev
           q == work[b][d]
           r == [q EXCEPT !.sent = @ + 1]
           w == [work[b] EXCEPT ![d] = r]
           l == ls[b]
           c == Moved(b, "seal", "none")
<1>1. pc[b].at = "encrypt" /\ pc[b].io = "none" /\ TypeOK
  BY DEF Encrypt, At, IInv
<1>2. /\ mem[b] # None /\ mem[b] \in Snapshot /\ work[b] \in Ratchets
      /\ Coherent(mem[b]) /\ Turns(pc[b], mem[b], work[b])
  BY <1>1, Open
<1>3. d \in Devices /\ q = mem[b].db[d] /\ q \in Ratchet
  BY <1>1, <1>2 DEF Snapshot, Turns, Coherent, Keyed
<1>4. r \in Ratchet
  BY <1>3, EncryptedOne
<1>5. w \in Ratchets
  BY <1>2, <1>4 DEF Ratchets
<1>6. /\ work' = [work EXCEPT ![b] = w] /\ ls' = [ls EXCEPT ![b] = l]
      /\ Go(b, "seal", "none")
      /\ UNCHANGED <<remote, wire, disk, mem, chain>> /\ failures' \in 0..MaxFailures
  BY <1>1 DEF Encrypt, TypeOK
<1>7. "seal" \in Wheres
  BY DEF Wheres
<1>8. w[d] = [mem[b].db[d] EXCEPT !.sent = @ + 1]
  BY <1>2, <1>3 DEF Ratchets
<1> HIDE DEF w
<1>9. /\ c \in Control /\ c.at = "seal" /\ c.io = "none"
      /\ Moves(b, disk[b], mem[b], w, l, c)
  BY <1>1, <1>6, <1>7, MovesOn
<1> HIDE DEF c
<1>10. Turns(c, mem[b], w) /\ Submitting([ls EXCEPT ![b] = l], b, c, mem[b])
  BY <1>8, <1>9 DEF Turns, Submitting
<1>11. Follow(b, l)
  BY FollowsSame
<1> HIDE DEF d, l
<1> QED BY <1>1, <1>2, <1>5, <1>9, <1>10, <1>11, MoveStep DEF l

LEMMA DecryptStep ==
  ASSUME IInv, NEW b \in Browsers, Decrypt(b)
  PROVE  IInv'
<1> DEFINE s == mem[b]
           next == s.cursor + 1
           d == s.inbound.dev
           fine == inbox[next].genuine /\ next \notin work[b][d].got
           q == work[b][d]
           r == [q EXCEPT !.got = @ \cup {next}]
           w == IF fine THEN [work[b] EXCEPT ![d] = r] ELSE work[b]
           where == IF fine THEN "keep" ELSE "reject"
           l == ls[b]
           c == Moved(b, where, "none")
<1>1. pc[b].at = "decrypt" /\ pc[b].io = "none" /\ TypeOK
  BY DEF Decrypt, At, IInv
<1>2. /\ s # None /\ s \in Snapshot /\ work[b] \in Ratchets
      /\ Coherent(s) /\ Turns(pc[b], s, work[b])
  BY <1>1, Open
<1>3. /\ s.inbound # None /\ s.cursor < Len(inbox) /\ s.inbound \in Inbound
      /\ s.cursor \in Nat
      /\ d \in Devices /\ q = s.db[d] /\ q = s.inbound.blocks /\ q \in Ratchet
      /\ work[b][s.dev] = s.db[s.dev] /\ s.dev \in Devices
  BY <1>1, <1>2 DEF Snapshot, Turns, Coherent, Undoable, Inbound
<1>4. next \notin q.got
  <2>1. q.got \subseteq s.read
    BY <1>2, <1>3, NoneAssumption DEF Coherent, Exact
  <2>2. s.read \subseteq 1..s.cursor
    BY <1>2 DEF Coherent, Exact
  <2>3. next \notin 1..s.cursor
    BY <1>3
  <2> QED BY <2>1, <2>2, <2>3
<1>5. r \in Ratchet
  <2>1. q \in Ratchet /\ next \in Nat
    BY <1>3
  <2> HIDE DEF q, next
  <2> QED BY <2>1, DecryptedOne
<1>6. w \in Ratchets
  BY <1>2, <1>5 DEF Ratchets
<1>7. /\ work' = [work EXCEPT ![b] = w] /\ ls' = [ls EXCEPT ![b] = l]
      /\ Go(b, where, "none")
      /\ UNCHANGED <<remote, wire, disk, mem, chain>> /\ failures' \in 0..MaxFailures
  BY <1>1 DEF Decrypt, TypeOK
<1>8. where \in Wheres /\ where \in {"keep", "reject"}
  BY DEF Wheres
<1>9. /\ where = "keep" => /\ w[d] = [s.db[d] EXCEPT !.got = @ \cup {next}]
                           /\ d # s.dev => w[s.dev] = s.db[s.dev]
      /\ where = "reject" => w = work[b] /\ ~inbox[next].genuine
  <2>1. CASE fine
    BY <2>1, <1>2, <1>3 DEF Ratchets
  <2>2. CASE ~fine
    BY <2>2, <1>3, <1>4
  <2> QED BY <2>1, <2>2
<1> HIDE DEF w, where
<1>10. /\ c \in Control /\ c.at = where /\ c.io = "none"
       /\ Moves(b, disk[b], s, w, l, c)
  BY <1>1, <1>7, <1>8, MovesOn
<1> HIDE DEF c, s
<1>11. Turns(c, s, w) /\ Submitting([ls EXCEPT ![b] = l], b, c, s)
  BY <1>3, <1>8, <1>9, <1>10 DEF Turns, Submitting
<1>12. Follow(b, l)
  BY FollowsSame
<1> HIDE DEF l
<1> QED BY <1>1, <1>2, <1>6, <1>8, <1>10, <1>11, <1>12, MoveStep DEF l, s

(* What the bridge records of the transaction it was given.                 *)
LEMMA RecordStep ==
  ASSUME IInv, NEW b \in Browsers, pc[b].io = "none",
         pc[b].at \in {"execute", "signing", "backup", "receipt"},
         NEW old \in Storage, old.rows = ls[b].rows, NEW st \in Marks,
         Later(Recording(pc[b].at), st), st = "included" => Code(pc[b].tx) # "none",
         NEW where \in Wheres, Go(b, where, "none"),
         (where \in {"signing", "receipt"} /\ st = Recording(where)) \/ where \in {"failed", "tail"},
         ls' = [ls EXCEPT ![b] = Put(old, pc[b].tx, st)],
         UNCHANGED <<remote, wire, disk, work, mem, chain>>, failures' \in 0..MaxFailures
  PROVE  IInv'
<1> DEFINE l == Put(old, pc[b].tx, st)
           w == work[b]
           c == Moved(b, where, "none")
<1>1. /\ TypeOK /\ mem[b] # None /\ work[b] \in Ratchets
      /\ Turns(pc[b], mem[b], work[b]) /\ Submitting(ls, b, pc[b], mem[b])
  BY Open DEF IInv
<1>2. /\ pc[b].tx \in Txs /\ pc[b].tx.by = b /\ ~mem[b].readOnly
      /\ Status(ls[b], pc[b].tx) = Recording(pc[b].at)
  BY <1>1 DEF Submitting
<1>3. Follow(b, l) /\ Status(l, pc[b].tx) = st
  BY <1>2, PutFollows
<1>4. work' = [work EXCEPT ![b] = w]
  BY <1>1 DEF TypeOK
<1>5. ls' = [ls EXCEPT ![b] = l] /\ ls \in [Browsers -> Storage]
  BY SameStorage
<1> HIDE DEF l, w
<1>6. /\ c \in Control /\ c.at = where /\ c.io = "none" /\ c.tx = pc[b].tx
      /\ Moves(b, disk[b], mem[b], w, l, c)
  BY <1>1, <1>4, <1>5, MovesOn
<1> HIDE DEF c
<1>7. w \in Ratchets /\ Turns(c, mem[b], w)
  BY <1>1, <1>6 DEF Turns, w
<1>8. Submitting([ls EXCEPT ![b] = l], b, c, mem[b])
  BY <1>1, <1>2, <1>3, <1>5, <1>6 DEF Submitting
<1>9. c.at \notin {"closed", "backup"}
  BY <1>6
<1> QED BY <1>1, <1>2, <1>3, <1>6, <1>7, <1>8, <1>9, MoveStep

LEMMA IntendedRows ==
  ASSUME IInv, NEW b \in Browsers, pc[b].tx \in Txs
  PROVE  Intended(b) \in Storage /\ Intended(b).rows = ls[b].rows
<1> DEFINE life == [tx |-> pc[b].tx, st |-> "pending"]
<1>1. ls[b] \in Storage
  BY SameStorage
<1>2. life \in Intent
  BY DEF Intent, Outcomes
<1> HIDE DEF life
<1>3. [ls[b] EXCEPT !.life = life] \in Storage /\ [ls[b] EXCEPT !.life = life].rows = ls[b].rows
  BY <1>1, <1>2 DEF Storage
<1> QED BY <1>1, <1>3 DEF Intended, life

LEMMA BeginSigningStep ==
  ASSUME IInv, NEW b \in Browsers, BeginSigning(b)
  PROVE  IInv'
<1>1. /\ pc[b].at = "execute" /\ pc[b].io = "none" /\ Go(b, "signing", "none")
      /\ ls' = [ls EXCEPT ![b] = Put(Intended(b), pc[b].tx, "signing")]
      /\ UNCHANGED <<remote, wire, disk, work, mem, chain>> /\ failures' \in 0..MaxFailures
  BY DEF BeginSigning, At, IInv, TypeOK
<1>2. pc[b].tx \in Txs
  BY <1>1, Open DEF Submitting
<1>3. Intended(b) \in Storage /\ Intended(b).rows = ls[b].rows
  BY <1>2, IntendedRows
<1>4. /\ "signing" \in Marks /\ "signing" \in Wheres
      /\ Recording("execute") = "none" /\ Recording("signing") = "signing"
      /\ Later("none", "signing")
  BY DEF Marks, Wheres, Recording, Later, Known
<1> QED BY <1>1, <1>3, <1>4, RecordStep

LEMMA RefuseStep ==
  ASSUME IInv, NEW b \in Browsers, Refuse(b)
  PROVE  IInv'
<1> DEFINE old == IF pc[b].at = "execute" THEN Intended(b) ELSE ls[b]
<1>1. /\ pc[b].at \in {"execute", "signing", "backup"} /\ pc[b].io = "none" /\ Go(b, "failed", "none")
      /\ UNCHANGED <<remote, wire, disk, work, mem, chain>> /\ failures' \in 0..MaxFailures
  BY FailsType DEF Refuse, At, IInv
<1>2. pc[b].tx \in Txs /\ ls[b] \in Storage
  BY <1>1, Open, SameStorage DEF Submitting
<1>3. ls' = [ls EXCEPT ![b] = Put(old, pc[b].tx, "not_broadcast")]
  BY SameStorage DEF Refuse
<1>4. old \in Storage /\ old.rows = ls[b].rows
  BY <1>2, IntendedRows
<1> HIDE DEF old
<1>5. "not_broadcast" \in Marks /\ "failed" \in Wheres
  BY DEF Marks, Wheres
<1>6. Later(Recording(pc[b].at), "not_broadcast")
  BY <1>1 DEF Recording, Later, Known
<1> QED BY <1>1, <1>3, <1>4, <1>5, <1>6, RecordStep

LEMMA ReceiptStep ==
  ASSUME IInv, NEW b \in Browsers, Receipt(b)
  PROVE  IInv'
<1>1. /\ pc[b].at = "receipt" /\ pc[b].io = "none" /\ Go(b, "tail", "none")
      /\ Code(pc[b].tx) # "none"
      /\ UNCHANGED <<remote, wire, disk, work, mem, chain>> /\ failures' \in 0..MaxFailures
  BY DEF Receipt, At, IInv, TypeOK
<1>2. ls' = [ls EXCEPT ![b] = Put(ls[b], pc[b].tx, "included")] /\ ls[b] \in Storage
  BY SameStorage DEF Receipt, Note
<1>3. "included" \in Marks /\ "tail" \in Wheres
  BY DEF Marks, Wheres
<1>4. Later(Recording(pc[b].at), "included")
  BY <1>1 DEF Recording, Later, Known
<1> QED BY <1>1, <1>2, <1>3, <1>4, RecordStep

LEMMA GiveUpStep ==
  ASSUME IInv, NEW b \in Browsers, GiveUp(b)
  PROVE  IInv'
<1> DEFINE l == ls[b]
           w == work[b]
           c == Moved(b, "failed", "none")
<1>1. /\ pc[b].at \in {"receipt", "tail"} /\ pc[b].io = "none" /\ Go(b, "failed", "none")
      /\ UNCHANGED <<remote, wire, disk, work, ls, mem, chain>> /\ failures' \in 0..MaxFailures
  BY FailsType DEF GiveUp, At, IInv
<1>2. /\ TypeOK /\ mem[b] # None /\ w \in Ratchets /\ Turns(pc[b], mem[b], w)
  BY <1>1, Open DEF IInv
<1>3. "failed" \in Wheres
  BY DEF Wheres
<1>4. work' = [work EXCEPT ![b] = w] /\ ls' = [ls EXCEPT ![b] = l]
  BY <1>1, <1>2 DEF TypeOK
<1>5. Follow(b, l)
  BY FollowsSame
<1>u. /\ UNCHANGED <<remote, wire, disk, mem, chain>> /\ failures' \in 0..MaxFailures
      /\ Go(b, "failed", "none")
  BY <1>1
<1> HIDE DEF l, w
<1>6. /\ c \in Control /\ c.at = "failed" /\ c.io = "none"
      /\ Moves(b, disk[b], mem[b], w, l, c)
  BY <1>2, <1>3, <1>4, <1>u, MovesOn
<1> HIDE DEF c
<1>7. Turns(c, mem[b], w) /\ Submitting([ls EXCEPT ![b] = l], b, c, mem[b])
  BY <1>1, <1>2, <1>6 DEF Turns, Submitting
<1> QED BY <1>1, <1>2, <1>5, <1>6, <1>7, MoveStep DEF l

LEMMA SignedStep ==
  ASSUME IInv, NEW b \in Browsers, Signed(b)
  PROVE  IInv'
<1> DEFINE s == mem[b]
           t == pc[b].tx
           l == Put(ls[b], t, "signed")
           w == work[b]
           c == Moved(b, "backup", "check")
<1>1. /\ pc[b].at = "signing" /\ pc[b].io = "none" /\ Go(b, "backup", "check")
      /\ ls' = [ls EXCEPT ![b] = l] /\ Persist(b, s, w, ls'[b])
      /\ UNCHANGED <<remote, wire, chain>> /\ failures' \in 0..MaxFailures
  BY DEF Signed, Note, At, IInv, TypeOK
<1>2. /\ TypeOK /\ s # None /\ s \in Snapshot /\ w \in Ratchets
      /\ OnceEach(s.store) /\ Traced(ls, s.store) /\ Claims(s) /\ Coherent(s)
      /\ Turns(pc[b], s, w) /\ Submitting(ls, b, pc[b], s)
  BY <1>1, Open DEF IInv
<1>3. /\ t \in Txs /\ t.by = b /\ ~s.readOnly /\ Status(ls[b], t) = "signing"
  BY <1>1, <1>2 DEF Submitting, Recording
<1>4. Follow(b, l) /\ Status(l, t) = "signed"
  <2>1. "signed" \in Marks /\ Later("signing", "signed") /\ ls[b] \in Storage
    BY SameStorage DEF Marks, Later, Known
  <2> QED BY <1>3, <2>1, PutFollows
<1>5. work' = [work EXCEPT ![b] = w]
  BY <1>2 DEF Signed, TypeOK
<1>6. ls \in [Browsers -> Storage] /\ ls'[b] = l
  BY <1>1, SameStorage
<1> HIDE DEF l, w
<1>7. /\ c \in Control /\ c.at = "backup" /\ c.io = "check" /\ c.tx = t
      /\ pc' = [pc EXCEPT ![b] = c]
  <2>1. "backup" \in Wheres /\ "check" \in Uploads
    BY DEF Wheres, Uploads
  <2> QED BY <1>1, <1>2, <2>1, Goes
<1> HIDE DEF c
<1>8. Persists(b, s, w, l, c) /\ Continues(b, s, l, c)
  BY <1>1, <1>3, <1>5, <1>6, <1>7 DEF Persists, Continues, chain
<1>9. DataKeeps(mem[b], s) /\ StoreKeeps(mem[b].store, s.store)
  BY <1>2, SentSame, SameStorage
<1>10. w[s.dev] = s.db[s.dev] /\ Turns(c, s, w)
  BY <1>1, <1>2, <1>7 DEF Turns
<1>11. Submitting([ls EXCEPT ![b] = l], b, c, s)
  <2>1. Recording("backup") = "signed"
    BY DEF Recording
  <2>2. [ls EXCEPT ![b] = l][b] = l
    BY <1>6
  <2> QED BY <1>1, <1>2, <1>3, <1>4, <1>7, <2>1, <2>2 DEF Submitting
<1>12. Follows(ls[b], l) /\ Recorded([ls EXCEPT ![b] = l], b) /\ l \in Storage
       /\ Traced([ls EXCEPT ![b] = l], s.store) /\ OnceEach(s.store)
  BY <1>2, <1>4 DEF Follow
<1>13. /\ mem[b] # None /\ s \in Snapshot /\ w \in Ratchets /\ c \in Control
       /\ Claims(s) /\ Coherent(s)
  BY <1>2, <1>7
<1> HIDE DEF s
<1> QED BY <1>8, <1>9, <1>10, <1>11, <1>12, <1>13, PersistSame

(* The lifecycle record is no row of a transaction. *)
LEMMA FollowRows ==
  ASSUME IInv, NEW b \in Browsers, NEW old, Follow(b, old),
         NEW new \in Storage, new.rows = old.rows
  PROVE  Follow(b, new)
<1> DEFINE L == [ls EXCEPT ![b] = old]
           M == [ls EXCEPT ![b] = new]
<1>1. \A t : Status(new, t) = Status(old, t)
  BY DEF Status
<1>2. L[b] = old /\ M[b] = new /\ \A x \in Browsers \ {b} : L[x] = ls[x] /\ M[x] = ls[x]
  BY SameStorage
<1> HIDE DEF L, M
<1>3. \A t \in Txs : Origin(M, t) = Origin(L, t)
  BY <1>1, <1>2 DEF Origin, Txs
<1>4. \A store : Traced(L, store) => Traced(M, store)
  BY <1>3 DEF Traced
<1>5. Follows(ls[b], old) /\ Recorded(L, b) /\ \A store : Traced(ls, store) => Traced(L, store)
  BY DEF Follow, L
<1>6. Follows(ls[b], new)
  BY <1>1, <1>5 DEF Follows
<1>7. Traced(M, new)
  <2>1. Traced(M, old)
    BY <1>2, <1>4, <1>5 DEF Recorded
  <2> QED BY <1>1, <2>1 DEF Traced
<1>8. Recorded(M, b)
  BY <1>2, <1>5, <1>7 DEF Recorded, OnceEach
<1> QED BY <1>4, <1>5, <1>6, <1>8 DEF Follow, M

LEMMA LearnLifecycleStep ==
  ASSUME IInv, NEW b \in Browsers, LearnLifecycle(b)
  PROVE  IInv'
<1> DEFINE life == View(b).life
           code == Evidence(b, life.tx)
           learned == [tx |-> life.tx, st |-> IF code = "ok" THEN "confirmed" ELSE code]
           c == [pc[b] EXCEPT !.stage = 5]
           w == work[b]
<1>1. /\ pc[b].at \in {"recover", "tail"} /\ pc[b].io = "none" /\ code # "none"
      /\ pc' = [pc EXCEPT ![b].stage = 5]
      /\ UNCHANGED <<remote, wire, chain>>
      /\ failures' \in 0..MaxFailures
  BY DEF LearnLifecycle, Closing, InStage, At, IInv, TypeOK
<1>2. /\ TypeOK /\ mem[b] # None /\ mem[b] \in Snapshot /\ w \in Ratchets
      /\ disk[b] # None /\ disk[b] \in Record
      /\ Coherent(mem[b]) /\ Claims(mem[b]) /\ pc[b] \in Control
      /\ Turns(pc[b], mem[b], w) /\ disk[b].base # None
      /\ OnceEach(mem[b].store) /\ Traced(ls, mem[b].store) /\ mem[b].store \in Storage
  BY <1>1, Open DEF IInv
<1>3. learned \in Intent
  <2>1. life \in Intent
    <3>1. View(b) \in Storage
      BY <1>2, SameStorage, MergedStatus DEF View
    <3> QED BY <3>1 DEF Storage
  <2>2. code \in {"not_broadcast", "ok", "failed", "none"}
    <3>1. Code(life.tx) \in {"none", "ok", "failed"}
      BY CodeOf
    <3> QED BY <3>1 DEF Evidence
  <2>3. code # "none"
    BY <1>1
  <2> HIDE DEF life, code
  <2> QED BY <2>1, <2>2, <2>3 DEF Intent, Outcomes
<1>4. /\ c \in Control /\ c.at = pc[b].at /\ c.io = "none" /\ pc' = [pc EXCEPT ![b] = c]
  <2>1. /\ pc \in [Browsers -> Control] /\ pc[b] \in Control /\ pc[b].io = "none"
        /\ pc' = [pc EXCEPT ![b].stage = 5]
    BY <1>1, <1>2 DEF TypeOK
  <2>2. c \in Control /\ c.at = pc[b].at /\ c.io = "none"
    BY <2>1 DEF Control
  <2>3. pc' = [pc EXCEPT ![b] = c]
    BY <2>1
  <2> QED BY <2>2, <2>3
<1>5. disk' = [disk EXCEPT ![b] = disk[b]] /\ work' = [work EXCEPT ![b] = w]
  BY <1>2 DEF LearnLifecycle, TypeOK
<1> HIDE DEF c, w, code, learned
<1>6. CASE mem[b].readOnly
  <2> DEFINE n == Noted(b, mem[b], life.tx)
             store == [n.store EXCEPT !.life = learned]
             s == [n EXCEPT !.store = store]
             l == ls[b]
             k == disk[b]
  <2>1. /\ n \in Snapshot
        /\ n.sends = mem[b].sends /\ n.out = mem[b].out
        /\ SameKeys(mem[b], n) /\ SameInbox(mem[b], n)
        /\ n.readOnly = mem[b].readOnly /\ n.registered = mem[b].registered
        /\ OnceEach(n.store) /\ Traced(ls, n.store) /\ StoreKeeps(mem[b].store, n.store)
    BY <1>2, NotedKeeps
  <2>2. [n EXCEPT !.store.life = learned] = s
    BY <2>1 DEF Snapshot
  <2>3. mem' = [mem EXCEPT ![b] = s] /\ ls' = [ls EXCEPT ![b] = l]
    <3>1. mem' = [mem EXCEPT ![b] = [n EXCEPT !.store.life = learned]] /\ UNCHANGED ls
      BY <1>6, <1>2 DEF LearnLifecycle, TypeOK, learned, code
    <3> QED BY <3>1, <2>2, <1>2 DEF TypeOK
  <2> HIDE DEF n
  <2>4. store \in Storage /\ store.rows = n.store.rows
    BY <2>1, <1>3 DEF Snapshot, Storage
  <2>5. \A t : Status(store, t) = Status(n.store, t)
    BY <2>4 DEF Status
  <2>6. OnceEach(store) /\ Traced(ls, store) /\ StoreKeeps(mem[b].store, store)
    BY <2>1, <2>4, <2>5 DEF OnceEach, Traced, StoreKeeps
  <2> HIDE DEF store
  <2>7. /\ s \in Snapshot
        /\ s.sends = mem[b].sends /\ s.out = mem[b].out
        /\ SameKeys(mem[b], s) /\ SameInbox(mem[b], s)
        /\ s.readOnly = mem[b].readOnly /\ s.registered = mem[b].registered
        /\ s.store = store
    BY <2>1, <2>4 DEF Snapshot, SameKeys, SameInbox
  <2> HIDE DEF s
  <2>8. Keyed(s) /\ DataKeeps(mem[b], s) /\ Undoable(s) /\ Exact(s) /\ Claims(s)
    <3>1. Keyed(s) /\ DataKeeps(mem[b], s)
      BY <1>2, <2>7, SameData DEF SameKeys, SameInbox
    <3>2. Undoable(s) /\ Exact(s)
      BY <1>2, <2>7 DEF Coherent, Undoable, Exact, SameKeys, SameInbox
    <3>3. Claims(s)
      BY <1>2, <2>7 DEF Claims, SameKeys, SameInbox
    <3> QED BY <3>1, <3>2, <3>3
  <2>9. Sound(ls, s) /\ Extends(mem[b], s)
    BY <2>6, <2>7, <2>8 DEF Sound, Coherent, Extends
  <2>10. /\ InMemory(ls, b, k, mem[b], w, pc[b]) /\ OnDisk(ls, b, k) /\ Recorded(ls, b)
    BY DEF IInv, Profile, w
  <2>11. Extends(k.base.snap, s)
    <3>1. Extends(k.base.snap, mem[b])
      BY <1>2, <2>10 DEF InMemory
    <3>2. k.base.snap \in Snapshot
      BY <1>2 DEF Record, Envelope
    <3> QED BY <1>2, <2>7, <2>9, <3>1, <3>2, ExtendsTransitive
  <2>12. s # None /\ Turns(c, s, w) /\ Submitting(ls, b, c, s)
    BY <1>1, <1>2, <1>4, <2>7, NoneAssumption DEF Turns, Submitting, SameKeys, SameInbox
  <2>13. k # None /\ k.base # None /\ (s.readOnly <=> k.env.snap.readOnly)
    BY <1>2, <2>7, <2>10 DEF InMemory
  <2>14. c.at # "closed" /\ c.at # "backup"
    BY <1>1, <1>4
  <2>15. InMemory(ls, b, k, s, w, c)
    BY <1>4, <2>9, <2>11, <2>12, <2>13, <2>14 DEF InMemory
  <2>16. Profile(ls, b, k, s, w, c)
    BY <2>10, <2>15 DEF Profile
  <2>17. Typed(k, s, w, l, c) /\ Follows(ls[b], l) /\ [ls EXCEPT ![b] = l] = ls
    BY <1>2, <1>4, <2>7, SameStorage DEF Typed
  <2>18. Moves(b, k, s, w, l, c)
    BY <1>1, <1>4, <1>5, <2>3 DEF Moves, chain
  <2> HIDE DEF k, l
  <2> QED BY <2>16, <2>17, <2>18, ProfileStep DEF l
<1>7. CASE ~mem[b].readOnly
  <2> DEFINE n == NotedLocally(b, life.tx)
             l == [n EXCEPT !.life = learned]
  <2>1. Follow(b, n)
    BY <1>2, NotedLocallyFollows
  <2>2. l \in Storage /\ l.rows = n.rows
    BY <2>1, <1>3 DEF Follow, Storage
  <2>3. ls' = [ls EXCEPT ![b] = l] /\ UNCHANGED mem
    BY <1>7 DEF LearnLifecycle, learned, code
  <2> HIDE DEF n
  <2>4. Follow(b, l)
    BY <2>1, <2>2, FollowRows
  <2> HIDE DEF l
  <2>5. Moves(b, disk[b], mem[b], w, l, c)
    BY <1>1, <1>2, <1>4, <1>5, <2>3 DEF Moves, chain, TypeOK
  <2>6. c.at \notin {"closed", "backup"} /\ Turns(c, mem[b], w)
        /\ Submitting([ls EXCEPT ![b] = l], b, c, mem[b])
    BY <1>1, <1>2, <1>4 DEF Turns, Submitting
  <2> QED BY <1>1, <1>2, <1>4, <1>7, <2>4, <2>5, <2>6, MoveStep
<1> QED BY <1>6, <1>7

(* What persist() would write now. *)
LEMMA CapturedNow ==
  ASSUME IInv, NEW b \in Browsers, mem[b] # None, pc[b].at \notin {"seal", "keep"}
  PROVE  LET n == Captured(mem[b], work[b], ls[b]) IN
         /\ n \in Snapshot /\ n.readOnly = mem[b].readOnly
         /\ Sound(ls, n) /\ Extends(mem[b], n)
<1> DEFINE s == mem[b]
           w == work[b]
           l == ls[b]
           n == Captured(s, w, l)
<1>1. /\ s \in Snapshot /\ w \in Ratchets /\ l \in Storage /\ OnceEach(l)
      /\ Recorded(ls, b) /\ ls \in [Browsers -> Storage]
      /\ OnceEach(s.store) /\ Traced(ls, s.store) /\ Claims(s) /\ Coherent(s)
      /\ w[s.dev] = s.db[s.dev]
  BY Open, SameStorage DEF Turns
<1>2. OnceEach(n.store) /\ Traced(ls, n.store) /\ StoreKeeps(s.store, n.store) /\ Claims(n)
  BY <1>1, CapturedKeeps
<1> HIDE DEF s, w, l
<1>3. n \in Snapshot /\ n.readOnly = s.readOnly
  BY <1>1, CapturedFields
<1>4. DataKeeps(s, s)
  BY <1>1, SentSame
<1>5. Coherent(n) /\ DataKeeps(s, n)
  BY <1>1, <1>4, CapturedSame
<1>6. Sound(ls, n) /\ Extends(s, n)
  BY <1>2, <1>5 DEF Sound, Extends
<1> QED BY <1>3, <1>6 DEF s, w, l

LEMMA AbandonStep ==
  ASSUME IInv, NEW b \in Browsers, Abandon(b)
  PROVE  IInv'
<1> DEFINE n == Captured(mem[b], work[b], ls[b])
           env == [rev |-> disk[b].base.rev + 1, by |-> b, snap |-> n]
           k == [disk[b] EXCEPT !.env = env]
           l == ls[b]
<1>1. /\ pc[b].at = "failed" /\ pc[b].io = "none" /\ Closed(b)
      /\ disk[b].base.rev < MaxRevision
      /\ UNCHANGED <<remote, wire, work, ls, chain>> /\ failures' \in 0..MaxFailures
  BY DEF Abandon, At, IInv, TypeOK
<1>2. /\ TypeOK /\ mem[b] # None /\ mem[b] \in Snapshot
      /\ disk[b] # None /\ disk[b] \in Record /\ disk[b].base # None
      /\ InMemory(ls, b, disk[b], mem[b], work[b], pc[b]) /\ OnDisk(ls, b, disk[b])
  BY <1>1, Open DEF IInv, Profile
<1>3. /\ n \in Snapshot /\ n.readOnly = mem[b].readOnly
      /\ Sound(ls, n) /\ Extends(mem[b], n)
  BY <1>1, <1>2, CapturedNow
<1>4. disk' = [disk EXCEPT ![b] = k]
  BY <1>2 DEF Abandon, TypeOK
<1> HIDE DEF n
<1>5. disk[b].base \in Envelope /\ disk[b].base.rev \in 1..MaxRevision /\ MaxRevision \in Nat
  BY <1>2, RelayPersonalAssumption DEF Record, Envelope
<1>6. env \in Envelope /\ env.rev = disk[b].base.rev + 1 /\ env.snap = n
  BY <1>1, <1>3, <1>5 DEF Envelope
<1> HIDE DEF env
<1>7. k \in Record /\ k.env = env /\ k.base = disk[b].base
  BY <1>2, <1>6 DEF Record
<1> HIDE DEF k
<1>8. Extends(k.base.snap, n)
  <2>1. k.base.snap \in Snapshot /\ Extends(k.base.snap, mem[b])
    BY <1>2, <1>5, <1>7 DEF InMemory, Envelope
  <2> QED BY <1>2, <1>3, <2>1, ExtendsTransitive
<1>9. k.env.snap.readOnly => ls[b].rows = {}
  BY <1>2, <1>3, <1>6, <1>7 DEF InMemory, OnDisk
<1>10. k.env.rev = Revision(k.base) + 1
  BY <1>2, <1>6, <1>7 DEF Revision
<1>11. k # None
  BY <1>7, NoneAssumption
<1>12. OnDisk(ls, b, k)
  BY <1>2, <1>3, <1>6, <1>7, <1>8, <1>9, <1>10, <1>11 DEF OnDisk
<1>13. Follow(b, l) /\ OnDisk([ls EXCEPT ![b] = l], b, k) /\ ls' = [ls EXCEPT ![b] = l]
  BY <1>1, <1>12, FollowsSame, SameStorage
<1> HIDE DEF l
<1> QED BY <1>1, <1>4, <1>7, <1>11, <1>13, CloseStep

(* A profile that opens. *)
LEMMA ExtendsItself ==
  ASSUME NEW s \in Snapshot PROVE Extends(s, s)
BY SentSame DEF Extends, StoreKeeps

LEMMA UnlockStep ==
  ASSUME IInv, NEW b \in Browsers, Unlock(b)
  PROVE  IInv'
<1> DEFINE k == disk[b]
           s == k.env.snap
           w == [work[b] EXCEPT ![s.dev] = s.db[s.dev]]
           l == ls[b]
           up == Uploading(s)
           c == Moved(b, "recover", up)
<1>1. /\ TypeOK /\ k # None /\ Go(b, "recover", up) /\ pc[b].at = "closed"
      /\ mem' = [mem EXCEPT ![b] = s] /\ work' = [work EXCEPT ![b][s.dev] = s.db[s.dev]]
      /\ UNCHANGED <<remote, wire, disk, ls, chain>> /\ failures' \in 0..MaxFailures
  BY DEF Unlock, At, IInv, TypeOK
<1>2. k \in Record /\ OnDisk(ls, b, k) /\ Recorded(ls, b)
  BY <1>1 DEF IInv, TypeOK, Profile
<1>3. /\ s \in Snapshot /\ Sound(ls, s) /\ work[b] \in Ratchets
      /\ s.dev \in Devices /\ s.db[s.dev] \in Ratchet \cup {None}
  BY <1>1, <1>2 DEF OnDisk, Record, Envelope, Snapshot, TypeOK, Ratchets
<1>4. k.base # None => Extends(k.base.snap, s)
  <2>1. Extends(s, s)
    BY <1>3, ExtendsItself
  <2> QED BY <1>1, <1>2, <2>1 DEF OnDisk
<1>5. disk' = [disk EXCEPT ![b] = k] /\ ls' = [ls EXCEPT ![b] = l]
  BY <1>1 DEF TypeOK
<1> HIDE DEF k
<1>6. work' = [work EXCEPT ![b] = w]
  BY <1>1, <1>3 DEF TypeOK
<1>7. w \in Ratchets /\ w[s.dev] = s.db[s.dev]
  BY <1>3 DEF Ratchets
<1> HIDE DEF s, w
<1>8. up \in Uploads /\ "recover" \in Wheres
  BY UploadingType DEF Wheres
<1>9. up = "none" => k.base # None
  BY <1>1, <1>2 DEF OnDisk, Uploading, s
<1> HIDE DEF up
<1>10. c \in Control /\ c.at = "recover" /\ c.io = up /\ pc' = [pc EXCEPT ![b] = c]
  BY <1>1, <1>8, Goes
<1> HIDE DEF c
<1>11. s # None
  BY <1>3, NoneAssumption
<1>12. Turns(c, s, w) /\ Submitting(ls, b, c, s)
  BY <1>7, <1>10 DEF Turns, Submitting
<1>13. InMemory(ls, b, k, s, w, c)
  BY <1>1, <1>3, <1>4, <1>9, <1>10, <1>11, <1>12 DEF InMemory, s
<1>14. Profile(ls, b, k, s, w, c)
  BY <1>2, <1>13 DEF Profile
<1>15. Typed(k, s, w, l, c) /\ Follows(ls[b], l) /\ [ls EXCEPT ![b] = l] = ls
  BY <1>2, <1>3, <1>7, <1>10, SameStorage DEF Typed
<1>16. Moves(b, k, s, w, l, c)
  BY <1>1, <1>5, <1>6, <1>10 DEF Moves, chain
<1> HIDE DEF l
<1> QED BY <1>14, <1>15, <1>16, ProfileStep

LEMMA RestoreStep ==
  ASSUME IInv, NEW b \in Browsers, Restore(b)
  PROVE  IInv'
<1> DEFINE o == remote.snap
           s == [o EXCEPT !.readOnly = TRUE]
           env == [rev |-> remote.rev + 1, by |-> b, snap |-> s]
           k == [env |-> env, base |-> remote, pend |-> FALSE]
           w == [work[b] EXCEPT ![s.dev] = s.db[s.dev]]
           l == ls[b]
           c == Moved(b, "recover", "none")
<1>1. /\ TypeOK /\ Go(b, "recover", "none") /\ pc[b].at = "closed"
      /\ disk[b] = None /\ remote # None /\ remote.rev < MaxRevision
      /\ mem' = [mem EXCEPT ![b] = s] /\ disk' = [disk EXCEPT ![b] = k]
      /\ work' = [work EXCEPT ![b][s.dev] = s.db[s.dev]]
      /\ UNCHANGED <<remote, wire, ls, chain>> /\ failures' \in 0..MaxFailures
  BY DEF Restore, At, IInv, TypeOK
<1>2. /\ remote \in Envelope /\ o \in Snapshot /\ Sound(ls, o)
      /\ work[b] \in Ratchets /\ Recorded(ls, b) /\ ls[b].rows = {}
  BY <1>1 DEF IInv, Stored, TypeOK, Envelope, Ratchets, Profile, OnDisk
<1> HIDE DEF o
<1>3. /\ s \in Snapshot /\ s.readOnly = TRUE
      /\ s.sends = o.sends /\ s.out = o.out /\ s.registered = o.registered /\ s.store = o.store
      /\ SameKeys(o, s) /\ SameInbox(o, s)
  BY <1>2 DEF Snapshot, SameKeys, SameInbox
<1>4. work' = [work EXCEPT ![b] = w]
  BY <1>1, <1>3 DEF TypeOK
<1> HIDE DEF s
<1>5. Sound(ls, s) /\ Extends(o, s)
  <2>1. Keyed(s) /\ DataKeeps(o, s)
    BY <1>2, <1>3, SameData DEF Sound, SameKeys, SameInbox
  <2>2. Undoable(s) /\ Exact(s)
    BY <1>2, <1>3 DEF Sound, Coherent, Undoable, Exact, SameKeys, SameInbox
  <2>3. Claims(s)
    BY <1>2, <1>3 DEF Sound, Claims, SameKeys, SameInbox
  <2>4. OnceEach(s.store) /\ Traced(ls, s.store) /\ StoreKeeps(o.store, s.store)
    BY <1>2, <1>3 DEF Sound, StoreKeeps
  <2> QED BY <2>1, <2>2, <2>3, <2>4 DEF Sound, Coherent, Extends
<1>6. env \in Envelope /\ env.rev = remote.rev + 1 /\ env.snap = s
  <2>1. remote.rev \in 1..MaxRevision /\ MaxRevision \in Nat
    BY <1>2, RelayPersonalAssumption DEF Envelope
  <2> QED BY <1>1, <1>3, <2>1 DEF Envelope
<1> HIDE DEF env
<1>7. k \in Record /\ k.env = env /\ k.base = remote
  BY <1>2, <1>6 DEF Record
<1> HIDE DEF k
<1>8. w \in Ratchets /\ w[s.dev] = s.db[s.dev]
  BY <1>2, <1>3 DEF Ratchets, Snapshot
<1> HIDE DEF w
<1>9. c \in Control /\ c.at = "recover" /\ c.io = "none" /\ pc' = [pc EXCEPT ![b] = c]
  <2>1. "recover" \in Wheres /\ "none" \in Uploads
    BY DEF Wheres, Uploads
  <2> QED BY <1>1, <2>1, Goes
<1> HIDE DEF c
<1>10. s # None /\ k # None
  BY <1>3, <1>7, NoneAssumption
<1>11. Extends(k.base.snap, s) /\ Extends(k.base.snap, remote.snap)
  BY <1>2, <1>5, <1>7, ExtendsItself DEF o
<1>12. OnDisk(ls, b, k)
  BY <1>1, <1>2, <1>5, <1>6, <1>7, <1>10, <1>11 DEF OnDisk, Revision
<1>13. InMemory(ls, b, k, s, w, c)
  <2>1. Turns(c, s, w) /\ Submitting(ls, b, c, s)
    BY <1>8, <1>9 DEF Turns, Submitting
  <2> QED BY <1>1, <1>3, <1>5, <1>6, <1>7, <1>9, <1>10, <1>11, <2>1 DEF InMemory
<1>14. Profile(ls, b, k, s, w, c)
  BY <1>2, <1>12, <1>13 DEF Profile
<1>15. Typed(k, s, w, l, c) /\ Follows(ls[b], l) /\ [ls EXCEPT ![b] = l] = ls
       /\ ls' = [ls EXCEPT ![b] = l]
  BY <1>1, <1>3, <1>7, <1>8, <1>9, SameStorage DEF Typed
<1>16. Moves(b, k, s, w, l, c)
  BY <1>1, <1>4, <1>9, <1>15 DEF Moves, chain
<1> HIDE DEF l
<1> QED BY <1>14, <1>15, <1>16, ProfileStep

LEMMA SyncDoneStep ==
  ASSUME IInv, NEW b \in Browsers, SyncDone(b)
  PROVE  IInv'
<1> DEFINE k == [disk[b] EXCEPT !.base = remote, !.pend = FALSE]
           s == mem[b]
           w == work[b]
           l == ls[b]
           c == [pc[b] EXCEPT !.io = "none"]
<1>1. /\ TypeOK /\ pc[b].io = "check" /\ remote = disk[b].env
      /\ InMemory(ls, b, disk[b], s, w, pc[b]) /\ OnDisk(ls, b, disk[b]) /\ Recorded(ls, b)
      /\ UNCHANGED <<remote, wire, work, ls, mem, chain>> /\ failures' \in 0..MaxFailures
  BY DEF SyncDone, IInv, Profile, TypeOK
<1>2. /\ s # None /\ s \in Snapshot /\ disk[b] \in Record /\ disk[b] # None /\ w \in Ratchets
      /\ pc[b] \in Control /\ Turns(pc[b], s, w) /\ Submitting(ls, b, pc[b], s)
      /\ Sound(ls, s)
  BY <1>1, Open DEF InMemory
<1>3. /\ c \in Control /\ c.at = pc[b].at /\ c.io = "none" /\ c.tx = pc[b].tx
      /\ pc' = [pc EXCEPT ![b] = c]
  BY <1>1, <1>2 DEF SyncDone, Control, TypeOK
<1>4. remote \in Envelope /\ remote # None /\ remote.snap = s
  BY <1>1, <1>2, NoneAssumption DEF Record, InMemory
<1>5. k \in Record /\ k.env = remote /\ k.base = remote
  BY <1>1, <1>2, <1>4 DEF Record
<1>6. disk' = [disk EXCEPT ![b] = k]
  BY <1>2 DEF SyncDone, TypeOK
<1>7. work' = [work EXCEPT ![b] = w] /\ ls' = [ls EXCEPT ![b] = l] /\ mem' = [mem EXCEPT ![b] = s]
  BY <1>1 DEF TypeOK
<1>u. UNCHANGED <<remote, wire, chain>> /\ failures' \in 0..MaxFailures
  BY <1>1
<1>8. Extends(s, s)
  BY <1>2, ExtendsItself
<1> HIDE DEF k, c
<1>9. k # None
  BY <1>5, NoneAssumption
<1>10. OnDisk(ls, b, k)
  BY <1>1, <1>2, <1>4, <1>5, <1>8, <1>9 DEF OnDisk
<1>11. InMemory(ls, b, k, s, w, c)
  <2>1. Turns(c, s, w) /\ Submitting(ls, b, c, s)
    BY <1>2, <1>3 DEF Turns, Submitting
  <2>2. c.at # "closed" /\ (c.at = "backup" => Status(s.store, c.tx) \in Known)
        /\ (s.readOnly <=> remote.snap.readOnly)
    BY <1>1, <1>2, <1>3 DEF InMemory
  <2> HIDE DEF s
  <2> QED BY <1>2, <1>3, <1>4, <1>5, <1>8, <1>9, <2>1, <2>2 DEF InMemory
<1>12. Profile(ls, b, k, s, w, c)
  BY <1>1, <1>10, <1>11 DEF Profile
<1>13. Typed(k, s, w, l, c) /\ Follows(ls[b], l) /\ [ls EXCEPT ![b] = l] = ls
  BY <1>2, <1>3, <1>5, SameStorage DEF Typed
<1>14. Moves(b, k, s, w, l, c)
  BY <1>3, <1>6, <1>7, <1>u DEF Moves, chain
<1> HIDE DEF l, s, w
<1> QED BY <1>12, <1>13, <1>14, ProfileStep

LEMMA NewSnapshotType ==
  ASSUME TypeOK, NEW d \in Devices
  PROVE  LET s == NewSnapshot(d) IN
         /\ s \in Snapshot /\ Coherent(s) /\ Claims(s)
         /\ s.dev = d /\ s.db[d] = Fresh /\ ~s.readOnly
         /\ s.store \in Storage /\ s.store.rows = {}
<1> DEFINE db == [e \in Devices |-> IF e = d THEN Fresh ELSE None]
           sends == [m \in Messages |-> NoRow]
           s == NewSnapshot(d)
<1>1. Fresh \in Ratchet /\ Fresh.got = {} /\ Fresh # None
  BY NoneAssumption DEF Fresh, Ratchet
<1>2. db \in Ratchets /\ db[d] = Fresh
  BY <1>1 DEF Ratchets
<1>3. NoRow \in Row /\ NoRow.st = "none" /\ NoIntent \in Intent
  BY NoRowType DEF NoRow
<1>4. sends \in [Messages -> Row] /\ \A m \in Messages : sends[m].st = "none"
  BY <1>3
<1>5. NoStorage \in Storage /\ NoStorage.rows = {}
  BY <1>3 DEF NoStorage, Storage
<1>6. \A e \in Devices : db[e] # None => db[e].got = {}
  BY <1>1
<1>s. s = [dev |-> d, db |-> db, prep |-> None, sends |-> sends, out |-> {},
           cursor |-> 0, read |-> {}, quarantine |-> {}, inbound |-> None,
           readOnly |-> FALSE, rotationRecovery |-> FALSE,
           registered |-> FALSE, registration |-> NoIntent, store |-> NoStorage]
  BY DEF NewSnapshot
<1> HIDE DEF db, sends, s
<1>7. /\ s.dev = d /\ s.db = db /\ s.prep = None /\ s.sends = sends /\ s.out = {}
      /\ s.cursor = 0 /\ s.read = {} /\ s.quarantine = {} /\ s.inbound = None
      /\ ~s.readOnly /\ ~s.registered /\ s.store = NoStorage
  BY <1>s
<1>8. s \in Snapshot
  BY <1>s, <1>2, <1>3, <1>4, <1>5 DEF Snapshot, Ratchets
<1>9. Keyed(s)
  BY <1>1, <1>2, <1>4, <1>7 DEF Keyed, Packed
<1>10. Undoable(s)
  BY <1>4, <1>7 DEF Undoable
<1>11. Exact(s)
  BY <1>6, <1>7 DEF Exact
<1>12. Claims(s)
  <2>1. Len(inbox) \in Nat
    BY DEF TypeOK
  <2> QED BY <1>4, <1>7, <2>1 DEF Claims
<1> QED BY <1>2, <1>5, <1>7, <1>8, <1>9, <1>10, <1>11, <1>12 DEF Coherent, s

LEMMA CreateStep ==
  ASSUME IInv, NEW b \in Browsers, Create(b)
  PROVE  IInv'
<1> DEFINE d == [gen |-> 1, by |-> b]
           s == NewSnapshot(d)
           w == [work[b] EXCEPT ![d] = Fresh]
           l == ls[b]
           n == Captured(s, w, l)
           env == [rev |-> 1, by |-> b, snap |-> n]
           k == [env |-> env, base |-> None, pend |-> FALSE]
           c == Moved(b, "idle", "check")
<1>1. /\ TypeOK /\ pc[b].at = "closed" /\ disk[b] = None /\ remote = None
      /\ Go(b, "idle", "check")
      /\ work' = [work EXCEPT ![b][d] = Fresh] /\ Persist(b, s, work'[b], l)
      /\ UNCHANGED <<remote, wire, ls, chain>> /\ failures' \in 0..MaxFailures
  BY DEF Create, At, IInv, TypeOK
<1>2. d \in Devices
  BY RelayPersonalAssumption DEF Devices
<1>3. work' = [work EXCEPT ![b] = w] /\ work'[b] = w /\ w \in Ratchets /\ w[d] = Fresh
  <2>1. work[b] \in Ratchets /\ Fresh \in Ratchet
    BY <1>1 DEF TypeOK, Ratchets, Fresh, Ratchet
  <2> QED BY <1>1, <1>2, <2>1 DEF TypeOK, Ratchets
<1>4. /\ s \in Snapshot /\ Coherent(s) /\ Claims(s)
      /\ s.dev = d /\ s.db[d] = Fresh /\ ~s.readOnly
      /\ s.store \in Storage /\ s.store.rows = {}
  BY <1>1, <1>2, NewSnapshotType
<1>5. mem' = [mem EXCEPT ![b] = n] /\ disk' = [disk EXCEPT ![b] = k] /\ 0 < MaxRevision
  <2>1. BaseOf(b) = None /\ Revision(BaseOf(b)) = 0
    BY <1>1 DEF BaseOf, Revision
  <2>2. Persist(b, s, w, l)
    BY <1>1, <1>3
  <2> HIDE DEF s, w, l
  <2> QED BY <2>1, <2>2 DEF Persist
<1>6. /\ ls \in [Browsers -> Storage] /\ l \in Storage /\ OnceEach(l) /\ Recorded(ls, b)
      /\ l.rows = {}
  BY <1>1, SameStorage DEF IInv, Profile, OnDisk
<1> HIDE DEF d, s, w, l
<1>7. OnceEach(s.store) /\ Traced(ls, s.store)
  BY <1>4 DEF OnceEach, Traced, Status, Known
<1>8. n \in Snapshot /\ n.readOnly = s.readOnly /\ n.dev = s.dev
      /\ n.db = [s.db EXCEPT ![s.dev] = w[s.dev]]
  BY <1>3, <1>4, <1>6, <1>7, CapturedFields
<1>9. OnceEach(n.store) /\ Traced(ls, n.store) /\ Claims(n)
  <2>1. n = Captured(s, w, ls[b])
    BY DEF l
  <2> HIDE DEF n
  <2> QED BY <1>3, <1>4, <1>6, <1>7, <2>1, CapturedKeeps
<1>10. Coherent(n)
  BY <1>3, <1>4, <1>6, <1>7, CapturedSame
<1> HIDE DEF n
<1>11. Sound(ls, n)
  BY <1>9, <1>10 DEF Sound
<1>12. env \in Envelope /\ env.rev = 1 /\ env.snap = n
  BY <1>5, <1>8, RelayPersonalAssumption DEF Envelope
<1> HIDE DEF env
<1>13. k \in Record /\ k.env = env /\ k.base = None
  BY <1>12 DEF Record
<1> HIDE DEF k
<1>14. c \in Control /\ c.at = "idle" /\ c.io = "check" /\ pc' = [pc EXCEPT ![b] = c]
  <2>1. "idle" \in Wheres /\ "check" \in Uploads
    BY DEF Wheres, Uploads
  <2> QED BY <1>1, <2>1, Goes
<1> HIDE DEF c
<1>15. n # None /\ k # None
  BY <1>8, <1>13, NoneAssumption
<1>16. OnDisk(ls, b, k)
  BY <1>4, <1>8, <1>11, <1>12, <1>13, <1>15 DEF OnDisk, Revision
<1>17. InMemory(ls, b, k, n, w, c)
  <2>1. w[n.dev] = n.db[n.dev]
    BY <1>2, <1>4, <1>8 DEF Snapshot
  <2>2. Turns(c, n, w) /\ Submitting(ls, b, c, n)
    BY <1>14, <2>1 DEF Turns, Submitting
  <2> QED BY <1>11, <1>12, <1>13, <1>14, <1>15, <2>2 DEF InMemory
<1>18. Profile(ls, b, k, n, w, c)
  BY <1>6, <1>16, <1>17 DEF Profile
<1>19. Typed(k, n, w, l, c) /\ Follows(ls[b], l) /\ [ls EXCEPT ![b] = l] = ls
       /\ ls' = [ls EXCEPT ![b] = l]
  BY <1>1, <1>3, <1>6, <1>8, <1>13, <1>14, SameStorage DEF Typed, l
<1>20. Moves(b, k, n, w, l, c)
  BY <1>1, <1>3, <1>5, <1>14, <1>19 DEF Moves, chain
<1> QED BY <1>18, <1>19, <1>20, ProfileStep

-----------------------------------------------------------------------------
(* The steps of the service.                                                *)

(* The service moves, the chain and what the profiles recorded do not.      *)
Still == UNCHANGED <<work, ls, mem, chain, failures>>

LEMMA SameWorld ==
  ASSUME Still
  PROVE  /\ \A L, s : Sound(L, s)' <=> Sound(L, s)
         /\ \A L, b : Recorded(L, b)' <=> Recorded(L, b)
         /\ \A c, s, w : Turns(c, s, w)' <=> Turns(c, s, w)
         /\ \A L, b, c, s : Submitting(L, b, c, s)' <=> Submitting(L, b, c, s)
         /\ \A L, t : Origin(L, t)' = Origin(L, t)
         /\ ls' = ls /\ mem' = mem /\ work' = work
BY DEF Still, chain, Sound, Claims, Traced, Origin, Code, Sent, Recorded, Turns, Submitting

LEMMA UploadStep ==
  ASSUME IInv, NEW b \in Browsers, Upload(b)
  PROVE  IInv'
<1> DEFINE env == disk[b].env
           k == [disk[b] EXCEPT !.pend = TRUE]
           c == [pc[b] EXCEPT !.io = "wait"]
<1>1. /\ TypeOK /\ pc[b].io = "check" /\ remote # env /\ remote = disk[b].base
      /\ InMemory(ls, b, disk[b], mem[b], work[b], pc[b]) /\ OnDisk(ls, b, disk[b])
      /\ wire' = wire \cup {env} /\ remote' = remote /\ Still
      /\ Stored(ls) /\ Books(ls)
  BY DEF Upload, IInv, Profile, Still
<1>2. disk[b] \in Record /\ disk[b] # None /\ pc[b] \in Control
  BY <1>1, Open DEF InMemory
<1>3. /\ c \in Control /\ c.at = pc[b].at /\ c.io = "wait" /\ c.tx = pc[b].tx
      /\ pc' = [pc EXCEPT ![b] = c]
  BY <1>1, <1>2 DEF Upload, Control, TypeOK
<1>4. k \in Record /\ k.env = env /\ k.base = disk[b].base /\ disk' = [disk EXCEPT ![b] = k]
  BY <1>1, <1>2 DEF Upload, Record, TypeOK
<1>5. env \in Envelope
  BY <1>2 DEF Record
<1> HIDE DEF c, k, env
<1>6. TypeOK'
  BY <1>1, <1>3, <1>4, <1>5 DEF TypeOK, Still, chain
<1>7. Stored(ls)'
  <2>1. /\ Sound(ls, env.snap) /\ env.rev = Revision(remote) + 1
        /\ remote # None => Extends(remote.snap, env.snap)
    BY <1>1, <1>2 DEF OnDisk, env
  <2>2. Stored(ls)' <=>
        /\ remote # None => Sound(ls, remote.snap)
        /\ \A e \in wire' : /\ Sound(ls, e.snap)
                            /\ e.rev = Revision(remote) + 1
                            /\ remote # None => Extends(remote.snap, e.snap)
    BY <1>1, SameWorld DEF Stored
  <2> QED BY <1>1, <2>1, <2>2 DEF Stored
<1>8. Books(ls)'
  BY <1>1 DEF Books, BackedUp, Still, chain, Origin
<1>9. ASSUME NEW x \in Browsers PROVE Profile(ls, x, disk[x], mem[x], work[x], pc[x])'
  <2>1. Profile(ls, x, disk[x], mem[x], work[x], pc[x])
    BY DEF IInv
  <2>2. Profile(ls, x, disk[x], mem[x], work[x], pc[x])'
          = Profile(ls, x, disk'[x], mem[x], work[x], pc'[x])
    <3>1. /\ ls' = ls /\ mem' = mem /\ work' = work /\ remote' = remote
          /\ ledger' = ledger /\ device' = device /\ inbox' = inbox
      BY <1>1 DEF Still, chain
    <3> QED BY <3>1 DEF Profile, Recorded, OnDisk, InMemory, Turns, Submitting,
       Sound, Claims, Traced, Origin, Code, Sent
  <2>3. CASE x # b
    <3>1. disk'[x] = disk[x] /\ pc'[x] = pc[x]
      BY <1>1, <1>3, <1>4, <2>3 DEF TypeOK
    <3> QED BY <2>1, <2>2, <3>1
  <2>4. CASE x = b
    <3>1. disk'[b] = k /\ pc'[b] = c
      BY <1>1, <1>3, <1>4 DEF TypeOK
    <3>2. k # None
      BY <1>4, NoneAssumption
    <3>3. OnDisk(ls, b, k)
      BY <1>1, <1>2, <1>4, <3>2 DEF OnDisk, env
    <3>4. InMemory(ls, b, k, mem[b], work[b], c)
      <4>1. mem[b] # None /\ pc[b].at # "closed"
        BY <1>1, Open DEF InMemory
      <4>2. Turns(c, mem[b], work[b]) /\ Submitting(ls, b, c, mem[b])
        BY <1>1, <1>3, <4>1 DEF InMemory, Turns, Submitting
      <4> QED BY <1>1, <1>2, <1>3, <1>4, <3>2, <4>1, <4>2 DEF InMemory, env
    <3>5. Profile(ls, b, k, mem[b], work[b], c)
      BY <2>1, <2>4, <3>3, <3>4 DEF Profile
    <3> QED BY <2>2, <2>4, <3>1, <3>5
  <2> QED BY <2>3, <2>4
<1> QED BY <1>6, <1>7, <1>8, <1>9 DEF IInv

(* What is on its way to the service comes next, and before anything else.  *)
LEMMA WireNext ==
  ASSUME IInv, NEW e \in wire, Store(e)
  PROVE  wire' = {} /\ e \in Envelope /\ (remote # None => Extends(remote.snap, e.snap))
<1>1. \A f \in wire : f \in Envelope /\ f.rev = Revision(remote) + 1
  BY DEF IInv, Stored, TypeOK
<1>2. Revision(remote) \in Nat
  BY DEF IInv, TypeOK, Revision, Envelope
<1>3. wire' = {f \in wire \ {e} : Acceptable(e, f)}
  BY DEF Store
<1>4. ASSUME NEW f \in wire \ {e} PROVE ~Acceptable(e, f)
  <2>1. Revision(e) = e.rev
    BY <1>1, NoneAssumption DEF Revision
  <2> QED BY <1>1, <1>2, <2>1 DEF Acceptable
<1> QED BY <1>1, <1>3, <1>4 DEF IInv, Stored

LEMMA BackedUpStays ==
  ASSUME IInv, NEW e \in Envelope, remote # None => Extends(remote.snap, e.snap),
         remote' = e, ledger' = ledger
  PROVE  BackedUp'
<1> DEFINE old == remote.snap
           new == e.snap
<1>1. SUFFICES ASSUME NEW f \in ledger
               PROVE  /\ Status(new.store, f.tx) \notin {"none", "signing"}
                      /\ f.tx.msg # 0 =>
                         /\ new.sends[f.tx.msg].st \in {"ready", "confirmed"}
                         /\ new.sends[f.tx.msg].cipher = f.cipher
                      /\ f.tx.msg = 0 => new.db[f.tx.dev] # None
  BY NoneAssumption DEF BackedUp
<1>2. /\ remote # None /\ Sound(ls, old)
      /\ Status(old.store, f.tx) \notin {"none", "signing"}
      /\ f.tx.msg # 0 => /\ old.sends[f.tx.msg].st \in {"ready", "confirmed"}
                         /\ old.sends[f.tx.msg].cipher = f.cipher
      /\ f.tx.msg = 0 => old.db[f.tx.dev] # None
  BY DEF IInv, Books, BackedUp, Stored
<1>3. f.tx \in Txs /\ f.tx.dev \in Devices /\ f.tx.msg \in Messages \cup {0} /\ old \in Snapshot
  BY <1>2 DEF IInv, TypeOK, Txs, Envelope
<1>4. Extends(old, new)
  BY <1>2
<1> HIDE DEF old, new
<1>5. Status(old.store, f.tx) \in Known
  <2>1. old.store \in Storage /\ OnceEach(old.store)
    BY <1>2, <1>3 DEF Sound, Snapshot
  <2> QED BY <1>2, <2>1, StatusNone DEF Statuses
<1>6. Status(new.store, f.tx) \in Known
  BY <1>3, <1>4, <1>5 DEF Extends, StoreKeeps
<1> QED BY <1>2, <1>3, <1>4, <1>6 DEF Extends, DataKeeps, Known, Packed

LEMMA StoreStep ==
  ASSUME IInv, NEW e \in wire, Store(e)
  PROVE  IInv'
<1>1. /\ TypeOK /\ Stored(ls) /\ Books(ls)
      /\ remote' = e /\ Still
      /\ disk' = [b \in Browsers |->
             IF Awaits(b, e) THEN [env |-> e, base |-> e, pend |-> FALSE] ELSE disk[b]]
      /\ pc' = [b \in Browsers |-> IF Awaits(b, e) THEN [pc[b] EXCEPT !.io = "none"] ELSE pc[b]]
  BY DEF Store, Still, IInv
<1>2. wire' = {} /\ e \in Envelope /\ (remote # None => Extends(remote.snap, e.snap))
  BY WireNext
<1>3. e # None /\ e.snap \in Snapshot /\ Sound(ls, e.snap) /\ Extends(e.snap, e.snap)
  BY <1>1, <1>2, NoneAssumption, ExtendsItself DEF Envelope, Stored
<1>4. ASSUME NEW b \in Browsers
      PROVE  disk'[b] \in Record \cup {None} /\ pc'[b] \in Control
  <2>1. [env |-> e, base |-> e, pend |-> FALSE] \in Record
    BY <1>2 DEF Record
  <2>2. [pc[b] EXCEPT !.io = "none"] \in Control
    <3>1. pc[b] \in Control
      BY <1>1 DEF TypeOK
    <3> QED BY <3>1 DEF Control
  <2>3. disk[b] \in Record \cup {None} /\ pc[b] \in Control
    BY <1>1 DEF TypeOK
  <2>4. CASE Awaits(b, e)
    BY <2>4, <1>1, <2>1, <2>2
  <2>5. CASE ~Awaits(b, e)
    BY <2>5, <1>1, <2>3
  <2> QED BY <2>4, <2>5
<1>5. TypeOK'
  <2>1. disk' \in [Browsers -> Record \cup {None}] /\ pc' \in [Browsers -> Control]
    BY <1>1, <1>4
  <2> QED BY <1>1, <1>2, <2>1 DEF TypeOK, Still, chain
<1>6. Stored(ls)'
  <2>1. Sound(ls, e.snap)'
    BY <1>1, <1>3 DEF Still, chain, Sound, Claims, Traced, Origin, Code, Sent
  <2> QED BY <1>1, <1>2, <2>1 DEF Stored, Still
<1>7. Books(ls)'
  <2>1. BackedUp'
    BY <1>1, <1>2, BackedUpStays DEF Still, chain
  <2> QED BY <1>1, <2>1 DEF Books, Still, chain, Origin
<1>8. ASSUME NEW b \in Browsers PROVE Profile(ls, b, disk[b], mem[b], work[b], pc[b])'
  <2> DEFINE k == disk'[b]
             s == mem[b]
             w == work[b]
             c == pc'[b]
  <2>1. /\ Recorded(ls, b) /\ OnDisk(ls, b, disk[b])
        /\ InMemory(ls, b, disk[b], s, w, pc[b])
        /\ disk[b] \in Record \cup {None} /\ s \in Snapshot \cup {None}
    BY DEF IInv, Profile, TypeOK
  <2>2. /\ ls' = ls /\ mem' = mem /\ work' = work /\ remote' = e
        /\ ledger' = ledger /\ device' = device /\ inbox' = inbox
    BY <1>1 DEF Still, chain
  <2>3. /\ Recorded(ls, b)' = Recorded(ls, b)
        /\ OnDisk(ls, b, disk[b])' =
              /\ k = None => ls[b].rows = {}
              /\ k # None =>
                  /\ Sound(ls, k.env.snap)
                  /\ k.env.snap.readOnly => ls[b].rows = {} /\ k.base # None
                  /\ k.env = k.base
                     \/ /\ k.env.rev = Revision(k.base) + 1
                        /\ k.base # None => Extends(k.base.snap, k.env.snap)
                  /\ k.base # None => e # None /\ Extends(k.base.snap, e.snap)
        /\ InMemory(ls, b, disk[b], mem[b], work[b], pc[b])' = InMemory(ls, b, k, s, w, c)
    <3>1. Recorded(ls, b)' = Recorded(ls, b)
      BY <2>2 DEF Recorded, Traced, Origin, Code
    <3>2. OnDisk(ls, b, disk[b])' =
              /\ k = None => ls[b].rows = {}
              /\ k # None =>
                  /\ Sound(ls, k.env.snap)
                  /\ k.env.snap.readOnly => ls[b].rows = {} /\ k.base # None
                  /\ k.env = k.base
                     \/ /\ k.env.rev = Revision(k.base) + 1
                        /\ k.base # None => Extends(k.base.snap, k.env.snap)
                  /\ k.base # None => e # None /\ Extends(k.base.snap, e.snap)
      BY <2>2 DEF OnDisk, Sound, Claims, Traced, Origin, Code, Sent
    <3>3. InMemory(ls, b, disk[b], mem[b], work[b], pc[b])' = InMemory(ls, b, k, s, w, c)
      BY <2>2 DEF InMemory, Turns, Submitting, Sound, Claims, Traced, Origin, Code, Sent
    <3> QED BY <3>1, <3>2, <3>3
  <2>4. CASE Awaits(b, e)
    <3>1. k = [env |-> e, base |-> e, pend |-> FALSE] /\ c = [pc[b] EXCEPT !.io = "none"]
      BY <1>1, <2>4
    <3> HIDE DEF k, c
    <3>2. pc[b].io = "wait" /\ disk[b].env = e /\ pc[b] \in Control
      BY <1>1, <2>4 DEF Awaits, TypeOK
    <3>3. c.io = "none" /\ c.at = pc[b].at /\ c.tx = pc[b].tx
      BY <3>1, <3>2 DEF Control
    <3>4. s # None /\ disk[b] # None /\ c.at # "closed"
      BY <2>1, <3>2, <3>3 DEF InMemory
    <3>5. /\ Sound(ls, s) /\ e.snap = s
          /\ s.readOnly => ls[b].rows = {}
          /\ c.at = "backup" => Status(s.store, c.tx) \in Known
      BY <2>1, <3>2, <3>3, <3>4 DEF InMemory, OnDisk
    <3>6. k.env = e /\ k.base = e /\ k \in Record /\ k # None
      <4>1. k = [env |-> e, base |-> e, pend |-> FALSE]
        BY <3>1
      <4>2. k.env = e /\ k.base = e /\ k \in Record
        BY <1>2, <4>1 DEF Record
      <4> QED BY <4>2, NoneAssumption
    <3>7. Turns(c, s, w) /\ Submitting(ls, b, c, s)
      BY <2>1, <3>3, <3>4 DEF InMemory, Turns, Submitting
    <3> HIDE DEF s, w
    <3>8. InMemory(ls, b, k, s, w, c)
      BY <1>3, <3>3, <3>4, <3>5, <3>6, <3>7 DEF InMemory
    <3>9. OnDisk(ls, b, disk[b])'
      BY <1>3, <2>3, <3>5, <3>6
    <3> QED BY <2>1, <2>3, <3>8, <3>9 DEF Profile
  <2>5. CASE ~Awaits(b, e)
    <3>1. k = disk[b] /\ c = pc[b]
      BY <1>1, <2>5
    <3>2. ASSUME k # None, k.base # None PROVE Extends(k.base.snap, e.snap)
      <4>1. remote # None /\ Extends(k.base.snap, remote.snap)
        BY <2>1, <3>1, <3>2 DEF OnDisk
      <4>2. k.base.snap \in Snapshot /\ remote.snap \in Snapshot
        BY <1>1, <2>1, <3>1, <3>2, <4>1 DEF Record, Envelope, TypeOK
      <4> QED BY <1>2, <1>3, <4>1, <4>2, ExtendsTransitive
    <3> HIDE DEF k, s, w, c
    <3>3. OnDisk(ls, b, disk[b])' /\ InMemory(ls, b, disk[b], mem[b], work[b], pc[b])'
      BY <1>3, <2>1, <2>3, <3>1, <3>2 DEF OnDisk
    <3> QED BY <2>1, <2>3, <3>3 DEF Profile
  <2> QED BY <2>4, <2>5
<1> QED BY <1>5, <1>6, <1>7, <1>8 DEF IInv

-----------------------------------------------------------------------------
(* The steps of the chain.                                                  *)

LEMMA CodeChoice ==
  ASSUME NEW S, \A e, f \in S : e.tx = f.tx => e = f, NEW e \in S
  PROVE  (IF \E f \in S : f.tx = e.tx THEN (CHOOSE f \in S : f.tx = e.tx).code ELSE "none") = e.code
<1> DEFINE f == CHOOSE f \in S : f.tx = e.tx
<1>1. f \in S /\ f.tx = e.tx
  OBVIOUS
<1>2. f = e
  BY <1>1
<1> QED BY <1>2

(* What the chain decided stays decided. *)
Grows ==
    /\ \A t : Code(t) # "none" => Code(t)' # "none"
    /\ \A m \in Messages : Sent(m) => Sent(m)'
    /\ device # None => device' # None /\ device'.gen >= device.gen
    /\ Len(inbox) <= Len(inbox')
    /\ \A i \in 1..Len(inbox) : inbox'[i] = inbox[i]

LEMMA GrowsSound ==
  ASSUME TypeOK, TypeOK', Grows
  PROVE  /\ \A L, store : Traced(L, store) => Traced(L, store)'
         /\ \A L : \A s \in Snapshot : Sound(L, s) => Sound(L, s)'
         /\ \A c, w : \A s \in Snapshot : Coherent(s) /\ Turns(c, s, w) => Turns(c, s, w)'
<1>1. ASSUME NEW L, NEW store, Traced(L, store) PROVE Traced(L, store)'
  BY <1>1 DEF Traced, Origin, Grows
<1>t. Len(inbox) \in Nat /\ Len(inbox') \in Nat
  BY DEF TypeOK
<1>2. ASSUME NEW s \in Snapshot, Coherent(s), Claims(s) PROVE Claims(s)'
  <2>1. \A m \in Messages : s.sends[m].st = "confirmed" \/ m \in s.out => Sent(m)'
    BY <1>2 DEF Claims, Grows
  <2>2. s.registered => device' # None /\ device'.gen >= s.dev.gen
    <3>1. ASSUME s.registered PROVE device' # None /\ device'.gen >= s.dev.gen
      <4>1. device # None /\ device.gen >= s.dev.gen /\ device' # None /\ device'.gen >= device.gen
        BY <1>2, <3>1 DEF Claims, Grows
      <4>2. device \in Devices /\ device' \in Devices /\ s.dev \in Devices
        BY <4>1 DEF TypeOK, Snapshot
      <4>3. device.gen \in Int /\ device'.gen \in Int /\ s.dev.gen \in Int
        BY <4>2 DEF Devices
      <4> QED BY <4>1, <4>3
    <3> QED BY <3>1
  <2>3. s.cursor \in Nat /\ s.cursor <= Len(inbox) /\ s.quarantine \subseteq 1..s.cursor
        /\ \A i \in s.quarantine : ~inbox[i].genuine
    BY <1>2 DEF Claims, Coherent, Exact, Snapshot
  <2>4. \A i \in s.quarantine : inbox'[i] = inbox[i]
    BY <2>3, <1>t DEF Grows
  <2>5. s.cursor <= Len(inbox')
    BY <2>3, <1>t DEF Grows
  <2> QED BY <2>1, <2>2, <2>3, <2>4, <2>5 DEF Claims
<1>3. ASSUME NEW c, NEW w, NEW s \in Snapshot, Coherent(s), Turns(c, s, w) PROVE Turns(c, s, w)'
  <2>1. s.cursor \in Nat
    BY DEF Snapshot
  <2>2. s.cursor < Len(inbox) => s.cursor < Len(inbox') /\ inbox'[s.cursor + 1] = inbox[s.cursor + 1]
    BY <2>1, <1>t DEF Grows
  <2> QED BY <1>3, <2>2 DEF Turns
<1>4. ASSUME NEW L, NEW s \in Snapshot, Sound(L, s) PROVE Sound(L, s)'
  <2>1. Claims(s)' /\ Traced(L, s.store)'
    BY <1>1, <1>2, <1>4 DEF Sound
  <2> QED BY <1>4, <2>1 DEF Sound
<1> QED BY <1>1, <1>3, <1>4

(* A step of the chain, with what the profiles recorded of it: the parts    *)
(* of the invariant for the new records, in the world before the step.      *)
LEMMA WorldStep ==
  ASSUME IInv, TypeOK', Grows, UNCHANGED <<remote, wire, disk, work, mem>>,
         NEW L, ls' = L, NEW C, pc' = C,
         Stored(L), Books(ls)',
         \A x \in Browsers : Profile(L, x, disk[x], mem[x], work[x], C[x])
  PROVE  IInv'
<1>1. /\ TypeOK /\ remote' = remote /\ wire' = wire /\ disk' = disk
      /\ work' = work /\ mem' = mem /\ ls' = L /\ pc' = C
  BY DEF IInv
<1>2. /\ \A s \in Snapshot : Sound(L, s) => Sound(L, s)'
      /\ \A store : Traced(L, store) => Traced(L, store)'
      /\ \A c, w : \A s \in Snapshot : Coherent(s) /\ Turns(c, s, w) => Turns(c, s, w)'
  BY <1>1, GrowsSound
<1>3. Stored(ls)'
  <2>1. /\ remote # None => Sound(L, remote.snap)'
        /\ \A e \in wire : Sound(L, e.snap)'
    BY <1>1, <1>2 DEF Stored, TypeOK, Envelope
  <2>2. Stored(ls)' = /\ remote # None => Sound(L, remote.snap)'
                      /\ \A e \in wire : /\ Sound(L, e.snap)'
                                         /\ e.rev = Revision(remote) + 1
                                         /\ remote # None => Extends(remote.snap, e.snap)
    BY <1>1 DEF Stored, Sound, Traced, Origin
  <2> QED BY <2>1, <2>2 DEF Stored
<1>4. ASSUME NEW x \in Browsers PROVE Profile(ls, x, disk[x], mem[x], work[x], pc[x])'
  <2> DEFINE k == disk[x]
             s == mem[x]
             w == work[x]
             c == C[x]
  <2>1. /\ Recorded(L, x) /\ OnDisk(L, x, k) /\ InMemory(L, x, k, s, w, c)
        /\ k \in Record \cup {None} /\ s \in Snapshot \cup {None}
    BY <1>1 DEF Profile, TypeOK
  <2>2. Recorded(ls, x)'
    <3>1. Traced(L, L[x])'
      BY <1>2, <2>1 DEF Recorded
    <3>2. Recorded(ls, x)' = /\ OnceEach(L[x]) /\ Traced(L, L[x])'
                             /\ \A r \in L[x].rows : r.tx.by # x => r.st = "included"
      BY <1>1 DEF Recorded, Traced, Origin
    <3> QED BY <2>1, <3>1, <3>2 DEF Recorded
  <2>3. OnDisk(ls, x, disk[x])'
    <3>1. k # None => Sound(L, k.env.snap)'
      BY <1>2, <2>1 DEF OnDisk, Record, Envelope
    <3>2. OnDisk(ls, x, disk[x])' =
              /\ k = None => L[x].rows = {}
              /\ k # None =>
                  /\ Sound(L, k.env.snap)'
                  /\ k.env.snap.readOnly => L[x].rows = {} /\ k.base # None
                  /\ k.env = k.base
                     \/ /\ k.env.rev = Revision(k.base) + 1
                        /\ k.base # None => Extends(k.base.snap, k.env.snap)
                  /\ k.base # None => remote # None /\ Extends(k.base.snap, remote.snap)
      BY <1>1 DEF OnDisk, Sound, Traced, Origin
    <3> HIDE DEF k
    <3> QED BY <2>1, <3>1, <3>2 DEF OnDisk
  <2>4. InMemory(ls, x, disk[x], mem[x], work[x], pc[x])'
    <3>1. s # None => Sound(L, s)' /\ Turns(c, s, w)'
      BY <1>2, <2>1 DEF InMemory, Sound
    <3>2. InMemory(ls, x, disk[x], mem[x], work[x], pc[x])' =
              /\ c.at = "closed" => c.io = "none"
              /\ c.at # "closed" <=> s # None
              /\ s # None =>
                  /\ k # None
                  /\ Sound(L, s)'
                  /\ s.readOnly <=> k.env.snap.readOnly
                  /\ k.base # None => Extends(k.base.snap, s)
                  /\ c.io # "none" \/ c.at = "backup" => k.env.snap = s
                  /\ c.io = "none" => k.base # None
                  /\ c.at = "backup" => Status(s.store, c.tx) \in Known
                  /\ c.at = "backup" /\ c.io = "none" => k.env = k.base
                  /\ Turns(c, s, w)'
                  /\ Submitting(L, x, c, s)
      BY <1>1 DEF InMemory, Sound, Traced, Origin, Turns, Submitting
    <3> HIDE DEF k, s, w, c
    <3> QED BY <2>1, <3>1, <3>2 DEF InMemory
  <2> QED BY <2>2, <2>3, <2>4 DEF Profile
<1> QED BY <1>3, <1>4 DEF IInv

LEMMA Entries ==
  ASSUME IInv, NEW e \in ledger
  PROVE  /\ e.tx \in Txs /\ e.cipher \in Cipher \cup {None} /\ e.code \in {"none", "ok", "failed"}
         /\ e = [tx |-> e.tx, cipher |-> e.cipher, code |-> e.code]
         /\ Code(e.tx) = e.code
<1>1. \A f, g \in ledger : f.tx = g.tx => f = g
  BY DEF IInv, Books
<1>2. Code(e.tx) = e.code
  BY <1>1, CodeChoice DEF Code
<1> QED BY <1>2 DEF IInv, TypeOK

LEMMA DeliverStep ==
  ASSUME IInv, NEW genuine \in BOOLEAN, Deliver(genuine)
  PROVE  IInv'
<1> DEFINE T == [dev : Devices, genuine : BOOLEAN]
           new == [dev |-> device, genuine |-> genuine]
<1>1. /\ TypeOK /\ device # None /\ inbox' = Append(inbox, new)
      /\ UNCHANGED <<remote, wire, disk, work, ls, mem, pc, device, ledger, failures>>
  BY DEF Deliver, IInv
<1>2. inbox \in Seq(T) /\ new \in T
  BY <1>1 DEF TypeOK
<1> HIDE DEF T, new
<1>3. /\ inbox' \in Seq(T) /\ Len(inbox) <= Len(inbox')
      /\ \A i \in 1..Len(inbox) : inbox'[i] = inbox[i]
  BY <1>1, <1>2
<1>4. TypeOK'
  BY <1>1, <1>3 DEF TypeOK, T
<1>5. Grows
  <2>1. ledger' = ledger /\ device' = device
    BY <1>1
  <2>2. device # None => device.gen >= device.gen
    BY <1>1 DEF TypeOK, Devices
  <2> QED BY <1>3, <2>1, <2>2 DEF Grows, Code, Sent
<1>6. Books(ls)'
  BY <1>1 DEF IInv, Books, BackedUp, Origin
<1>7. Stored(ls) /\ \A x \in Browsers : Profile(ls, x, disk[x], mem[x], work[x], pc[x])
  BY DEF IInv
<1> QED BY <1>1, <1>4, <1>5, <1>6, <1>7, WorldStep

LEMMA IncludeStep ==
  ASSUME IInv, NEW e \in ledger, NEW code \in {"ok", "failed"}, Include(e, code)
  PROVE  IInv'
<1> DEFINE f == [e EXCEPT !.code = code]
<1>1. /\ TypeOK /\ Books(ls) /\ e.code = "none" /\ (code = "ok" => Accepts(e.tx))
      /\ ledger' = (ledger \ {e}) \cup {f}
      /\ device' = IF code = "ok" /\ e.tx.msg = 0 THEN e.tx.dev ELSE device
      /\ UNCHANGED <<remote, wire, disk, work, ls, mem, pc, inbox, failures>>
  BY DEF Include, IInv
<1>2. /\ e.tx \in Txs /\ e.cipher \in Cipher \cup {None}
      /\ e = [tx |-> e.tx, cipher |-> e.cipher, code |-> e.code]
  BY Entries
<1>3. f = [tx |-> e.tx, cipher |-> e.cipher, code |-> code]
  BY <1>2
<1>4. f.tx = e.tx /\ f.cipher = e.cipher /\ f.code = code
  BY <1>3
<1>5. f \in [tx : Txs, cipher : Cipher \cup {None}, code : {"none", "ok", "failed"}]
  BY <1>2, <1>3
<1> HIDE DEF f
<1>6. e.tx.dev \in Devices /\ e.tx.dev.gen \in Nat
  BY <1>2 DEF Txs, Devices
<1>7. TypeOK'
  BY <1>1, <1>5, <1>6 DEF TypeOK
<1>8. /\ \A g, h \in ledger : g.tx = h.tx => g = h
      /\ \A g, h \in ledger' : g.tx = h.tx => g = h
  BY <1>1, <1>4 DEF Books
<1>9. ASSUME NEW g \in ledger' PROVE Code(g.tx)' = g.code
  BY <1>8, CodeChoice DEF Code
<1>10. ASSUME NEW t, Code(t) # "none" PROVE Code(t)' # "none"
  <2>1. PICK g \in ledger : g.tx = t
    BY <1>10 DEF Code
  <2>2. g.code # "none"
    BY <1>10, <2>1, Entries
  <2>3. g \in ledger'
    BY <1>1, <2>2
  <2> QED BY <1>9, <2>1, <2>2, <2>3
<1>11. ASSUME NEW m, Sent(m) PROVE Sent(m)'
  BY <1>1, <1>11 DEF Sent
<1>12. device # None => device' # None /\ device'.gen >= device.gen
  <2>1. ASSUME device # None PROVE device \in Devices /\ device.gen \in Nat
    BY <2>1, <1>1 DEF TypeOK, Devices
  <2>2. e.tx.dev # None
    BY <1>6, NoneAssumption
  <2>3. ASSUME device # None, code = "ok", e.tx.msg = 0 PROVE e.tx.dev.gen = 1 + device.gen
    BY <2>3, <1>1 DEF Accepts
  <2> QED BY <1>1, <1>6, <2>1, <2>2, <2>3
<1>13. Grows
  <2>1. Len(inbox) \in Nat
    BY <1>1 DEF TypeOK
  <2> QED BY <1>1, <1>10, <1>11, <1>12, <2>1 DEF Grows
<1>14. Books(ls)'
  <2>1. \A g \in ledger' : \E h \in ledger : h.tx = g.tx /\ h.cipher = g.cipher
    BY <1>1, <1>4
  <2>2. ls' = ls /\ remote' = remote
    BY <1>1
  <2>3. BackedUp'
    BY <1>1, <2>1, <2>2 DEF Books, BackedUp
  <2>4. \A g \in ledger' : /\ Origin(ls, g.tx) \in {"pending", "included"}
                           /\ g.tx.msg = 0 <=> g.cipher = None
    BY <1>1, <2>1 DEF Books
  <2> QED BY <1>8, <2>2, <2>3, <2>4 DEF Books, Origin
<1>15. Stored(ls) /\ \A x \in Browsers : Profile(ls, x, disk[x], mem[x], work[x], pc[x])
  BY DEF IInv
<1>16. UNCHANGED <<remote, wire, disk, work, mem>> /\ ls' = ls /\ pc' = pc
  BY <1>1
<1> QED BY <1>7, <1>13, <1>14, <1>15, <1>16, WorldStep

LEMMA BroadcastStep ==
  ASSUME IInv, NEW b \in Browsers, Broadcast(b)
  PROVE  IInv'
<1> DEFINE t == pc[b].tx
           s == mem[b]
           k == disk[b]
           l == Put(ls[b], t, "pending")
           cipher == IF t.msg = 0 THEN None ELSE s.sends[t.msg].cipher
           new == [tx |-> t, code |-> "none", cipher |-> cipher]
           c == Moved(b, "receipt", "none")
           L == [ls EXCEPT ![b] = l]
           C == [pc EXCEPT ![b] = c]
<1>1. /\ TypeOK /\ Books(ls) /\ pc[b].at = "backup" /\ pc[b].io = "none"
      /\ ls' = L /\ ledger' = ledger \cup {new} /\ Go(b, "receipt", "none")
      /\ UNCHANGED <<remote, wire, disk, work, mem, device, inbox, failures>>
  BY DEF Broadcast, Note, At, IInv
<1>2. /\ s # None /\ s \in Snapshot /\ k # None /\ k \in Record /\ k.base # None
      /\ Turns(pc[b], s, work[b]) /\ Submitting(ls, b, pc[b], s) /\ Coherent(s)
      /\ InMemory(ls, b, k, s, work[b], pc[b]) /\ OnDisk(ls, b, k)
  BY <1>1, Open DEF IInv, Profile
<1>3. /\ t \in Txs /\ t.by = b /\ ~s.readOnly /\ Status(ls[b], t) = "signed"
      /\ t.msg # 0 => s.sends[t.msg].st = "ready"
      /\ t.msg = 0 => s.db[t.dev] # None
  BY <1>1, <1>2 DEF Submitting, Recording
<1>4. /\ Status(s.store, t) \in Known /\ k.env = k.base /\ k.env.snap = s
      /\ ~k.env.snap.readOnly
      /\ remote # None /\ Extends(s, remote.snap)
  BY <1>1, <1>2, <1>3 DEF InMemory, OnDisk
<1>5. t.dev \in Devices /\ (t.msg # 0 => t.msg \in Messages)
  BY <1>3 DEF Txs
<1>6. cipher \in Cipher \cup {None} /\ (t.msg = 0 <=> cipher = None)
  <2>1. CASE t.msg = 0
    BY <2>1
  <2>2. CASE t.msg # 0
    <3>1. t.msg \in Messages /\ s.sends[t.msg].st \in Packed
      BY <1>3, <1>5, <2>2 DEF Packed
    <3>2. s.sends[t.msg].cipher # None
      BY <1>2, <3>1 DEF Coherent, Keyed
    <3>3. s.sends[t.msg] \in Row
      BY <1>2, <3>1 DEF Snapshot
    <3> QED BY <2>2, <3>2, <3>3 DEF Row
  <2> QED BY <2>1, <2>2
<1>7. /\ Follow(b, l) /\ Status(l, t) = "pending"
  <2>1. "pending" \in Marks /\ Later("signed", "pending") /\ ls[b] \in Storage
    BY SameStorage DEF Marks, Later, Known
  <2> QED BY <1>3, <2>1, PutFollows
<1>8. new.tx = t /\ new.code = "none" /\ new.cipher = cipher
      /\ new \in [tx : Txs, cipher : Cipher \cup {None}, code : {"none", "ok", "failed"}]
  BY <1>3, <1>6
<1>9. /\ c \in Control /\ c.at = "receipt" /\ c.io = "none" /\ c.tx = t
      /\ pc' = C
  <2>1. "receipt" \in Wheres /\ "none" \in Uploads
    BY DEF Wheres, Uploads
  <2> QED BY <1>1, <2>1, Goes
<1>10. /\ ls \in [Browsers -> Storage] /\ L \in [Browsers -> Storage] /\ L[b] = l
       /\ \A x \in Browsers \ {b} : L[x] = ls[x] /\ C[x] = pc[x]
       /\ C[b] = c /\ C \in [Browsers -> Control]
  BY <1>1, <1>7, <1>9, SameStorage DEF Follow, TypeOK
<1>11. /\ OnDisk(L, b, k) /\ \A x : Sound(ls, x) => Sound(L, x)
  BY <1>2, <1>4, <1>7, DiskStays
<1> HIDE DEF new, c, l, L, C
<1>12. TypeOK'
  BY <1>1, <1>8, <1>9, <1>10 DEF TypeOK
<1>13. ASSUME NEW e \in ledger PROVE e.tx # t
  <2>1. Origin(ls, e.tx) \in {"pending", "included"}
    BY <1>1 DEF Books
  <2> QED BY <1>3, <2>1 DEF Origin
<1>14. \A e, f \in ledger' : e.tx = f.tx => e = f
  BY <1>1, <1>8, <1>13 DEF Books
<1>15. Grows
  <2>1. ASSUME NEW u, Code(u) # "none" PROVE Code(u)' # "none"
    <3>1. PICK g \in ledger : g.tx = u
      BY <2>1 DEF Code
    <3>2. g.code # "none" /\ g \in ledger'
      BY <1>1, <2>1, <3>1, Entries
    <3> QED BY <1>14, <3>1, <3>2, CodeChoice DEF Code
  <2>2. \A m : Sent(m) => Sent(m)'
    BY <1>1 DEF Sent
  <2>3. device' = device /\ inbox' = inbox /\ (device # None => device.gen >= device.gen)
        /\ Len(inbox) <= Len(inbox)
    BY <1>1 DEF TypeOK, Devices
  <2> QED BY <2>1, <2>2, <2>3 DEF Grows
<1>16. Books(ls)'
  <2>1. ASSUME NEW e \in ledger'
        PROVE  /\ Origin(L, e.tx) \in {"pending", "included"}
               /\ e.tx.msg = 0 <=> e.cipher = None
    <3>1. CASE e = new
      BY <3>1, <1>3, <1>6, <1>7, <1>8, <1>10 DEF Origin
    <3>2. CASE e # new
      <4>1. e \in ledger
        BY <1>1, <3>2
      <4>2. /\ Origin(ls, e.tx) \in {"pending", "included"} /\ e.tx \in Txs
            /\ e.tx.msg = 0 <=> e.cipher = None
        BY <1>1, <4>1, Entries DEF Books
      <4>3. Later(Origin(ls, e.tx), Origin(L, e.tx))
        <5>1. CASE e.tx.by = b
          BY <5>1, <4>2, <1>7, <1>10 DEF Follow, Follows, Origin
        <5>2. CASE e.tx.by # b
          BY <5>2, <4>2, <1>10 DEF Later, Origin, Txs
        <5> QED BY <5>1, <5>2
      <4> QED BY <4>2, <4>3 DEF Later
    <3> QED BY <3>1, <3>2
  <2>2. BackedUp'
    <3> DEFINE r == remote.snap
    <3>1. /\ Status(r.store, t) \notin {"none", "signing"}
          /\ t.msg # 0 => /\ r.sends[t.msg].st \in {"ready", "confirmed"}
                          /\ r.sends[t.msg].cipher = cipher
          /\ t.msg = 0 => r.db[t.dev] # None
      <4>1. Status(r.store, t) \in Known
        BY <1>3, <1>4 DEF Extends, StoreKeeps
      <4>2. t.msg # 0 => /\ r.sends[t.msg].st \in Packed
                         /\ r.sends[t.msg].cipher = s.sends[t.msg].cipher
        BY <1>3, <1>4, <1>5 DEF Extends, DataKeeps, Packed
      <4>3. t.msg = 0 => r.db[t.dev] # None
        BY <1>3, <1>4, <1>5 DEF Extends, DataKeeps
      <4> QED BY <4>1, <4>2, <4>3 DEF Known, Packed
    <3>2. BackedUp /\ remote' = remote /\ remote # None
      BY <1>1, <1>4 DEF Books
    <3> HIDE DEF r, t, cipher
    <3>3. ASSUME NEW e \in ledger'
          PROVE  /\ Status(r.store, e.tx) \notin {"none", "signing"}
                 /\ e.tx.msg # 0 =>
                     /\ r.sends[e.tx.msg].st \in {"ready", "confirmed"}
                     /\ r.sends[e.tx.msg].cipher = e.cipher
                 /\ e.tx.msg = 0 => r.db[e.tx.dev] # None
      <4>1. CASE e = new
        BY <4>1, <3>1, <1>8
      <4>2. CASE e # new
        BY <4>2, <3>2, <1>1 DEF BackedUp, r
      <4> QED BY <4>1, <4>2
    <3> QED BY <3>2, <3>3 DEF BackedUp, r
  <2>3. ls' = L
    BY <1>1
  <2> QED BY <1>14, <2>1, <2>2, <2>3 DEF Books, Origin
<1>17. Stored(L)
  BY <1>11 DEF IInv, Stored
<1>18. ASSUME NEW x \in Browsers PROVE Profile(L, x, disk[x], mem[x], work[x], C[x])
  <2>1. CASE x = b
    <3>1. Turns(c, s, work[b]) /\ Submitting(L, b, c, s)
      <4>1. Recording("receipt") = "pending"
        BY DEF Recording
      <4>2. Turns(c, s, work[b])
        BY <1>1, <1>2, <1>3, <1>7, <1>9 DEF Turns
      <4> QED BY <1>1, <1>2, <1>3, <1>7, <1>9, <1>10, <4>1, <4>2 DEF Submitting
    <3>2. Recorded(L, b) /\ Sound(L, s)
      BY <1>2, <1>7, <1>11 DEF Follow, L, InMemory
    <3>3. InMemory(L, b, k, s, work[b], c)
      BY <1>2, <1>9, <3>1, <3>2 DEF InMemory
    <3> QED BY <2>1, <1>10, <1>11, <3>2, <3>3 DEF Profile
  <2>2. CASE x # b
    <3>1. C[x] = pc[x] /\ L[x] = ls[x]
      BY <1>10, <2>2
    <3>2. Profile(ls, x, disk[x], mem[x], work[x], pc[x])
      BY DEF IInv
    <3>3. Recorded(L, x)
      BY <1>7, <3>1, <3>2 DEF Profile, Recorded, Follow, L
    <3>4. OnDisk(L, x, disk[x])
      BY <1>11, <3>1, <3>2 DEF Profile, OnDisk
    <3>5. InMemory(L, x, disk[x], mem[x], work[x], C[x])
      BY <1>11, <3>1, <3>2 DEF Profile, InMemory, Submitting
    <3> QED BY <3>3, <3>4, <3>5 DEF Profile
  <2> QED BY <2>1, <2>2
<1>19. UNCHANGED <<remote, wire, disk, work, mem>> /\ ls' = L /\ pc' = C
  BY <1>1, <1>9
<1> QED BY <1>12, <1>15, <1>16, <1>17, <1>18, <1>19, WorldStep

-----------------------------------------------------------------------------
(* The invariant holds at the start and every step keeps it.                *)

LEMMA InitIInv == Init => IInv
<1> SUFFICES ASSUME Init PROVE IInv
  OBVIOUS
<1> DEFINE c == [at |-> "closed", stage |-> 0, tx |-> None, io |-> "none"]
<1>1. /\ NoStorage \in Storage /\ NoStorage.rows = {}
  BY NoRowType DEF NoStorage, Storage
<1>2. c \in Control /\ c.at = "closed" /\ c.io = "none"
  BY DEF Control
<1>3. /\ remote = None /\ wire = {} /\ device = None /\ ledger = {} /\ inbox = <<>> /\ failures = 0
      /\ \A b \in Browsers : /\ disk[b] = None /\ mem[b] = None /\ ls[b] = NoStorage
                             /\ pc[b] = c
  BY DEF Init
<1>4. TypeOK
  <2>1. /\ disk \in [Browsers -> Record \cup {None}]
        /\ work \in [Browsers -> [Devices -> Ratchet \cup {None}]]
        /\ ls \in [Browsers -> Storage]
        /\ mem \in [Browsers -> Snapshot \cup {None}]
        /\ pc \in [Browsers -> Control]
    BY <1>1, <1>2 DEF Init
  <2>2. failures \in 0..MaxFailures
    BY <1>3, RelayPersonalAssumption
  <2>3. inbox \in Seq([dev : Devices, genuine : BOOLEAN])
    BY <1>3
  <2> QED BY <1>3, <2>1, <2>2, <2>3 DEF TypeOK
<1> HIDE DEF c
<1>5. Stored(ls) /\ Books(ls)
  BY <1>3 DEF Stored, Books, BackedUp
<1>6. ASSUME NEW b \in Browsers PROVE Profile(ls, b, disk[b], mem[b], work[b], pc[b])
  <2>1. \A t : Status(ls[b], t) = "none"
    BY <1>1, <1>3 DEF Status
  <2>2. Recorded(ls, b)
    BY <1>1, <1>3, <2>1 DEF Recorded, OnceEach, Traced, Known
  <2>3. OnDisk(ls, b, disk[b])
    BY <1>1, <1>3 DEF OnDisk
  <2>4. InMemory(ls, b, disk[b], mem[b], work[b], pc[b])
    BY <1>2, <1>3 DEF InMemory
  <2> QED BY <2>2, <2>3, <2>4 DEF Profile
<1> QED BY <1>4, <1>5, <1>6 DEF IInv

LEMMA NextIInv == IInv /\ [Next]_vars => IInv'
<1> SUFFICES ASSUME IInv, [Next]_vars PROVE IInv'
  OBVIOUS
<1>1. CASE UNCHANGED vars
  <2>1. UNCHANGED <<remote, wire, disk, work, ls, mem, pc, device, ledger, inbox, failures>>
    BY <1>1 DEF vars, chain
  <2>2. /\ TypeOK /\ Stored(ls) /\ Books(ls)
        /\ \A x \in Browsers : Profile(ls, x, disk[x], mem[x], work[x], pc[x])
    BY DEF IInv
  <2>3. TypeOK'
    BY <2>1, <2>2 DEF TypeOK
  <2>4. Books(ls)'
    BY <2>1, <2>2 DEF Books, BackedUp, Origin
  <2>5. Grows
    <3>1. device # None => device.gen >= device.gen
      BY <2>2 DEF TypeOK, Devices
    <3>2. Len(inbox) <= Len(inbox)
      BY <2>2 DEF TypeOK
    <3> QED BY <2>1, <3>1, <3>2 DEF Grows, Code, Sent
  <2> QED BY <2>1, <2>2, <2>3, <2>4, <2>5, WorldStep
<1>2. ASSUME NEW b \in Browsers, Create(b) \/ Unlock(b) \/ Reopen(b) \/ Restore(b)
      PROVE  IInv'
  BY <1>2, CreateStep, UnlockStep, CrashStep, RestoreStep
<1>3. ASSUME NEW b \in Browsers, Operate(b) PROVE IInv'
  <2>1. ASSUME NEW m \in Messages, PrepareMessage(b, m) PROVE IInv'
    BY <2>1, PrepareMessageStep
  <2>2. ASSUME NEW t \in Txs, SubmitMessage(b, t) \/ SubmitRegistration(b, t) \/ SubmitRotation(b, t)
        PROVE  IInv'
    BY <2>2, SubmitMessageStep, SubmitRegistrationStep, SubmitRotationStep
  <2>3. CASE PrepareRotation(b) \/ StartReceive(b)
    BY <2>3, PrepareRotationStep, StartReceiveStep
  <2> QED BY <1>3, <2>1, <2>2, <2>3 DEF Operate
<1>4. ASSUME NEW b \in Browsers, Proceed(b) PROVE IInv'
  <2>1. CASE SyncDone(b) \/ Upload(b) \/ Encrypt(b) \/ Ready(b)
    BY <2>1, SyncDoneStep, UploadStep, EncryptStep, ReadyStep
  <2>2. CASE BeginSigning(b) \/ Signed(b) \/ Broadcast(b) \/ Receipt(b)
    BY <2>2, BeginSigningStep, SignedStep, BroadcastStep, ReceiptStep
  <2>3. ASSUME NEW m \in Messages,
               RollBack(b, m) \/ Confirm(b, m) \/ Archive(b, m) \/ LearnAttempt(b, m)
        PROVE  IInv'
    BY <2>3, RollBackStep, ConfirmStep, ArchiveStep, LearnAttemptStep
  <2>4. CASE UndoInbound(b) \/ LearnRegistration(b) \/ LearnLifecycle(b) \/ Activate(b)
    BY <2>4, UndoInboundStep, LearnRegistrationStep, LearnLifecycleStep, ActivateStep
  <2>5. CASE Recovered(b) \/ Complete(b)
    BY <2>5, SettlesStep
  <2>6. CASE Decrypt(b) \/ Keep(b) \/ Reject(b)
    BY <2>6, DecryptStep, KeepStep, RejectStep
  <2> QED BY <1>4, <2>1, <2>2, <2>3, <2>4, <2>5, <2>6 DEF Proceed
<1>5. ASSUME NEW b \in Browsers, Break(b) PROVE IInv'
  <2>1. CASE Crash(b) \/ UploadFails(b) \/ Refuse(b)
    BY <2>1, CrashStep, UploadFailsStep, RefuseStep
  <2>2. CASE GiveUp(b) \/ RecoveredBlind(b) \/ Abandon(b)
    BY <2>2, GiveUpStep, SettlesStep, AbandonStep
  <2> QED BY <1>5, <2>1, <2>2 DEF Break
<1>6. ASSUME NEW e \in wire, Store(e) PROVE IInv'
  BY <1>6, StoreStep
<1>7. ASSUME NEW e \in ledger, Include(e, "ok") \/ Include(e, "failed") PROVE IInv'
  BY <1>7, IncludeStep
<1>8. ASSUME NEW genuine \in BOOLEAN, Deliver(genuine) PROVE IInv'
  BY <1>8, DeliverStep
<1> QED BY <1>1, <1>2, <1>3, <1>4, <1>5, <1>6, <1>7, <1>8 DEF Next

LEMMA Invariant == Spec => []IInv
<1> QED BY InitIInv, NextIInv, PTL DEF Spec

(* The snapshots a profile could still be restored from. *)
LEMMA BackupsSound ==
  ASSUME IInv, NEW s \in Backups
  PROVE  s \in Snapshot /\ Sound(ls, s)
<1>1. CASE s \in Profiles
  <2>1. PICK b \in Browsers : disk[b] # None /\ s = disk[b].env.snap
    BY <1>1 DEF Profiles
  <2>2. disk[b] \in Record /\ OnDisk(ls, b, disk[b])
    BY <2>1 DEF IInv, TypeOK, Profile
  <2> QED BY <2>1, <2>2 DEF OnDisk, Record, Envelope
<1>2. CASE s \notin Profiles
  <2>1. remote # None /\ s = remote.snap
    BY <1>2 DEF Backups
  <2> QED BY <2>1 DEF IInv, TypeOK, Stored, Envelope
<1> QED BY <1>1, <1>2

-----------------------------------------------------------------------------
(* Records, snapshots, envelopes, the ledger and the controllers' await     *)
(* points have the types the client gives them.                             *)
THEOREM TypeCorrect == Spec => []TypeOK
<1>1. IInv => TypeOK
  BY DEF IInv
<1> QED BY <1>1, Invariant, PTL

(* Whatever profiles, crashes, lost uploads and the service do, every       *)
(* transaction on the ledger is in the backup, with the packet it carries   *)
(* and the keys of its device, before it is broadcast and ever after.       *)
THEOREM BroadcastBackedUp == Spec => []BackedUp
<1>1. IInv => BackedUp
  BY DEF IInv, Books
<1> QED BY <1>1, Invariant, PTL

(* No two messages on the ledger were sealed with one ratchet key, and one  *)
(* message was sealed once: also after a restore, a rollback or a rotation. *)
THEOREM KeysUsedOnce == Spec => []NoKeyReuse
<1>1. ASSUME IInv, NEW e \in {g \in ledger : g.cipher # None}, NEW f \in {g \in ledger : g.cipher # None}
      PROVE  e.tx.msg = f.tx.msg <=> e.cipher = f.cipher
  <2>1. /\ e.tx.msg # 0 /\ f.tx.msg # 0
        /\ e.tx.msg \in Messages /\ f.tx.msg \in Messages
    BY <1>1, Entries DEF IInv, Books, Txs
  <2>2. /\ remote # None
        /\ remote.snap.sends[e.tx.msg].st \in Packed /\ remote.snap.sends[e.tx.msg].cipher = e.cipher
        /\ remote.snap.sends[f.tx.msg].st \in Packed /\ remote.snap.sends[f.tx.msg].cipher = f.cipher
    BY <1>1, <2>1 DEF IInv, Books, BackedUp, Packed
  <2>3. Keyed(remote.snap)
    BY <1>1, <2>2 DEF IInv, Stored, Sound, Coherent
  <2> QED BY <2>1, <2>2, <2>3 DEF Keyed
<1>2. IInv => NoKeyReuse
  BY <1>1 DEF NoKeyReuse
<1> QED BY <1>2, Invariant, PTL

(* What any profile or the backup records of an outcome is so: an attempt   *)
(* "not broadcast" is not on the ledger, one "included" is, a message       *)
(* confirmed or archived was sent, a registered device is the contract's.   *)
THEOREM OutcomesTrue == Spec => []EvidenceTrue
<1>1. ASSUME IInv, NEW s \in Backups
      PROVE  /\ \A r \in s.store.rows :
                 /\ r.st = "not_broadcast" => \A e \in ledger : e.tx # r.tx
                 /\ r.st = "included" => Code(r.tx) # "none"
             /\ \A m \in Messages : s.sends[m].st = "confirmed" \/ m \in s.out => Sent(m)
             /\ s.registered => device # None /\ device.gen >= s.dev.gen
  <2>1. s \in Snapshot /\ Claims(s) /\ OnceEach(s.store) /\ Traced(ls, s.store)
    BY <1>1, BackupsSound DEF Sound
  <2>2. ASSUME NEW r \in s.store.rows
        PROVE  /\ r.st = "not_broadcast" => \A e \in ledger : e.tx # r.tx
               /\ r.st = "included" => Code(r.tx) # "none"
    <3>1. Status(s.store, r.tx) = r.st /\ r.tx \in Txs
      BY <2>1, StatusOfRow DEF Snapshot, Storage, Entry
    <3>2. ASSUME r.st = "not_broadcast", NEW e \in ledger, e.tx = r.tx PROVE FALSE
      <4>1. Origin(ls, r.tx) = "not_broadcast"
        BY <2>1, <3>1, <3>2 DEF Traced
      <4>2. Origin(ls, e.tx) \in {"pending", "included"}
        BY <1>1 DEF IInv, Books
      <4> QED BY <3>2, <4>1, <4>2
    <3>3. r.st = "included" => Code(r.tx) # "none"
      BY <2>1, <3>1 DEF Traced
    <3> QED BY <3>2, <3>3
  <2> QED BY <2>1, <2>2 DEF Claims
<1>2. IInv => EvidenceTrue
  BY <1>1 DEF EvidenceTrue
<1> QED BY <1>2, Invariant, PTL

(* In every profile and in the backup the cursor, the archive and the       *)
(* ratchets agree, wherever an inbound operation was interrupted, and no    *)
(* genuine message is in quarantine.                                        *)
THEOREM InboxCorrect == Spec => []InboxExact
<1>1. IInv => InboxExact
  BY BackupsSound DEF InboxExact, Sound, Coherent, Exact, Claims
<1> QED BY <1>1, Invariant, PTL

(* Only the service stores, and what it stores next extends what it holds.  *)
LEMMA RemoteExtends ==
  ASSUME IInv, [Next]_vars, remote # None
  PROVE  remote' = remote \/ (Extends(remote.snap, remote'.snap) /\ remote' \in wire)
<1>1. ASSUME NEW e \in wire, Store(e) PROVE Extends(remote.snap, remote'.snap) /\ remote' \in wire
  BY <1>1, WireNext DEF Store
<1>2. ASSUME NEW b \in Browsers,
             Create(b) \/ Unlock(b) \/ Reopen(b) \/ Restore(b) \/ Operate(b) \/ Proceed(b) \/ Break(b)
      PROVE  remote' = remote
  <2>1. CASE Create(b) \/ Unlock(b) \/ Reopen(b) \/ Restore(b)
    BY <2>1 DEF Create, Unlock, Reopen, Restore
  <2>2. CASE Operate(b)
    BY <2>2 DEF Operate, PrepareMessage, SubmitMessage, SubmitRegistration, SubmitRotation,
       PrepareRotation, StartReceive, Save
  <2>3. CASE Proceed(b)
    BY <2>3 DEF Proceed, SyncDone, Upload, Encrypt, Ready, BeginSigning, Signed, Broadcast, Receipt,
       RollBack, Confirm, Archive, LearnAttempt, UndoInbound, LearnRegistration, LearnLifecycle,
       Activate, Recovered, Complete, SettleAs, Decrypt, Keep, Reject, Save, Reconciled
  <2>4. CASE Break(b)
    BY <2>4 DEF Break, Crash, UploadFails, Refuse, GiveUp, RecoveredBlind, SettleAs, Abandon
  <2> QED BY <1>2, <2>1, <2>2, <2>3, <2>4
<1>3. ASSUME NEW e, Include(e, "ok") \/ Include(e, "failed") PROVE remote' = remote
  BY <1>3 DEF Include
<1>4. ASSUME NEW genuine, Deliver(genuine) PROVE remote' = remote
  BY <1>4 DEF Deliver
<1>5. CASE UNCHANGED vars
  BY <1>5 DEF vars
<1> QED BY <1>1, <1>2, <1>3, <1>4, <1>5 DEF Next

(* An upload replaces the backup only by one that holds all it held: the    *)
(* archive, what was read, the place of every ratchet, every attempt.       *)
THEOREM BackupRemembers == Spec => BackupNeverForgets
<1>1. IInv /\ [Next]_vars =>
        [remote # None =>
            /\ remote.snap.out \subseteq remote'.snap.out
            /\ remote.snap.read \subseteq remote'.snap.read
            /\ \A d \in Devices : remote.snap.db[d] # None =>
                /\ remote'.snap.db[d] # None
                /\ remote'.snap.db[d].sent >= remote.snap.db[d].sent
            /\ \A r \in remote.snap.store.rows : Status(remote'.snap.store, r.tx) # "none"
         ]_remote
  <2>1. SUFFICES ASSUME IInv, [Next]_vars, remote # None, remote' # remote
               PROVE  /\ remote.snap.out \subseteq remote'.snap.out
                      /\ remote.snap.read \subseteq remote'.snap.read
                      /\ \A d \in Devices : remote.snap.db[d] # None =>
                          /\ remote'.snap.db[d] # None
                          /\ remote'.snap.db[d].sent >= remote.snap.db[d].sent
                      /\ \A r \in remote.snap.store.rows : Status(remote'.snap.store, r.tx) # "none"
    OBVIOUS
  <2>2. Extends(remote.snap, remote'.snap) /\ remote' \in wire
    BY <2>1, RemoteExtends
  <2>3. remote.snap \in Snapshot /\ remote'.snap \in Snapshot /\ Sound(ls, remote.snap)
    BY <2>1, <2>2 DEF IInv, TypeOK, Envelope, Stored
  <2>4. ASSUME NEW d \in Devices, remote.snap.db[d] # None
        PROVE  /\ remote'.snap.db[d] # None
               /\ remote'.snap.db[d].sent >= remote.snap.db[d].sent
    <3>1. remote'.snap.db[d] # None /\ remote.snap.db[d].sent <= remote'.snap.db[d].sent
      BY <2>2, <2>4 DEF Extends, DataKeeps
    <3>2. remote.snap.db[d] \in Ratchet /\ remote'.snap.db[d] \in Ratchet
      BY <2>3, <2>4, <3>1 DEF Snapshot
    <3> QED BY <3>1, <3>2 DEF Ratchet
  <2>5. ASSUME NEW r \in remote.snap.store.rows
        PROVE  Status(remote'.snap.store, r.tx) # "none"
    <3>1. r \in Entry /\ OnceEach(remote.snap.store)
      BY <2>3 DEF Snapshot, Storage, Sound
    <3>2. Status(remote.snap.store, r.tx) # "none"
      BY <3>1, StatusOfRow DEF Entry
    <3> QED BY <2>2, <3>1, <3>2 DEF Extends, StoreKeeps, Entry
  <2>6. remote.snap.out \subseteq remote'.snap.out /\ remote.snap.read \subseteq remote'.snap.read
    BY <2>2 DEF Extends, DataKeeps
  <2> QED BY <2>4, <2>5, <2>6
<1> QED BY <1>1, Invariant, PTL DEF Spec, BackupNeverForgets
=============================================================================
