--------------------------- MODULE RelayDaoProofs ---------------------------
(***************************************************************************)
(* What holds of the mailbox contract for every number of accounts,        *)
(* readers, prekeys and messages, both releases and every policy.  What a  *)
(* step does is said once per kind of step (Posts, DeviceStep), and the    *)
(* invariants are checked against that.                                    *)
(***************************************************************************)
EXTENDS RelayDao, FiniteSetTheorems, TLAPS

LEMMA Numbers ==
    /\ Cooldown \in Nat /\ MaxPrekeys \in Nat /\ TopPrekey \in Nat
    /\ MaxGeneration \in Nat /\ MaxSequence \in Nat /\ MaxTime \in Nat
    /\ MaxReaders \in Nat /\ MaxRevision \in Nat /\ MaxThread \in Nat
  BY MailboxAssumption, DaoAssumption

-----------------------------------------------------------------------------
(* Types.                                                                  *)

LEMMA InitTyped == Init => TypeOK
  BY MailboxAssumption DEF Init, MailboxInit, TypeOK, MailboxTypeOK

LEMMA GenerationTyped ==
  ASSUME MailboxTypeOK, NEW a \in Accounts
  PROVE  /\ Generation(a) \in Nat
         /\ devices[a] # None => devices[a] \in Device /\ Generation(a) = devices[a].generation
  BY DEF MailboxTypeOK, Generation, Device

LEMMA DeviceTyped ==
  ASSUME TypeOK, NEW a \in Accounts, Register(a) \/ Revoke(a) \/ AddPrekeys(a),
         UNCHANGED daoAll
  PROVE  TypeOK'
  <1> USE Numbers
  <1>0. /\ Generation(a) \in Nat
        /\ devices[a] # None => devices[a] \in Device /\ Generation(a) = devices[a].generation
    BY GenerationTyped DEF TypeOK
  <1>1. ASSUME Register(a) PROVE devices' \in [Accounts -> Device \cup {None}]
    <2>1. PICK bundle \in Bundles, last \in PrekeyIds :
             devices' = [devices EXCEPT ![a] =
               [generation |-> Generation(a) + 1, active |-> TRUE,
                prekeys |-> bundle, top |-> last]]
      BY <1>1 DEF Register
    <2>2. [generation |-> Generation(a) + 1, active |-> TRUE,
           prekeys |-> bundle, top |-> last] \in Device
      BY <1>0 DEF Device, Bundles, PrekeyIds
    <2> QED BY <2>1, <2>2 DEF TypeOK, MailboxTypeOK
  <1>2. ASSUME Revoke(a) PROVE devices' \in [Accounts -> Device \cup {None}]
    <2>1. devices[a] \in Device
      BY <1>0, <1>2 DEF Revoke
    <2>2. Revoked(devices[a]) \in Device
      BY <2>1 DEF Device, Revoked
    <2>3. devices' = [devices EXCEPT ![a] = Revoked(devices[a])]
      BY <1>2 DEF Revoke
    <2> QED BY <2>2, <2>3 DEF TypeOK, MailboxTypeOK
  <1>3. ASSUME AddPrekeys(a) PROVE devices' \in [Accounts -> Device \cup {None}]
    <2>1. devices[a] \in Device
      BY <1>0, <1>3 DEF AddPrekeys, Active
    <2>2. PICK bundle \in Bundles, last \in PrekeyIds :
             devices' = [devices EXCEPT ![a] = Restocked(devices[a], bundle, last)]
      BY <1>3 DEF AddPrekeys
    <2>3. bundle \subseteq PrekeyIds /\ last \in Nat
      BY DEF Bundles, PrekeyIds
    <2>4. Restocked(devices[a], bundle, last) \in Device
      BY <2>1, <2>3 DEF Device, Restocked
    <2> QED BY <2>2, <2>4 DEF TypeOK, MailboxTypeOK
  <1>4. devices' \in [Accounts -> Device \cup {None}]
    BY <1>1, <1>2, <1>3
  <1>5. UNCHANGED <<rights, inbox, postage, world>>
    BY DEF Register, Revoke, AddPrekeys
  <1> QED BY <1>4, <1>5 DEF TypeOK, MailboxTypeOK, rights, postage, world, daoAll

(* Consent, blocks, names and time. *)
RightsSteps ==
    /\ UNCHANGED daoAll
    /\ \/ \E r \in Accounts, s \in Accounts : AllowSender(r, s)
       \/ \E r \in Accounts, s \in Addresses : SetBlock(r, s)
       \/ Rename \/ Tick

LEMMA RightsTyped ==
  ASSUME TypeOK, RightsSteps
  PROVE  TypeOK' /\ UNCHANGED <<devices, initialUsed, inbox, postage, daoAll>> /\ now <= now'
  <1> USE Numbers
  <1>1. ASSUME NEW r \in Accounts, NEW s \in Accounts, AllowSender(r, s)
        PROVE  /\ consent' \in [Accounts \X Accounts -> Generations \cup {None}]
               /\ UNCHANGED <<devices, initialUsed, blocked, inbox, postage, world>>
    <2>1. Pair(r, s) \in Generations
      BY GenerationTyped DEF Pair, Generations, TypeOK
    <2> QED BY <1>1, <2>1 DEF AllowSender, TypeOK, MailboxTypeOK
  <1>2. ASSUME NEW r \in Accounts, NEW s \in Addresses, SetBlock(r, s)
        PROVE  /\ blocked' \subseteq Accounts \X Addresses
               /\ UNCHANGED <<devices, consent, initialUsed, inbox, postage, world>>
    BY <1>2 DEF SetBlock, TypeOK, MailboxTypeOK
  <1>3. ASSUME Rename
        PROVE  /\ named' \subseteq Accounts
               /\ UNCHANGED <<devices, rights, inbox, postage, registry, now>>
    BY <1>3 DEF Rename, TypeOK, MailboxTypeOK
  <1>4. ASSUME Tick
        PROVE  /\ now' \in Nat /\ now <= now'
               /\ UNCHANGED <<devices, rights, inbox, postage, registry, named>>
    BY <1>4 DEF Tick, TypeOK, MailboxTypeOK
  <1> USE DEF TypeOK, MailboxTypeOK, rights, postage, world, daoAll, RightsSteps
  <1> QED BY <1>1, <1>2, <1>3, <1>4

(* The policy, the registry and the group. *)
PolicySteps ==
    \/ BindRegistry \/ RegisterDao \/ Regroup
    \/ \E p \in Policies, enabled \in BOOLEAN : Configure(p, enabled)
    \/ \E x \in Addresses, c \in Accounts : SetDaoBlock(x, c)

LEMMA PolicyTyped ==
  ASSUME TypeOK, PolicySteps
  PROVE  TypeOK' /\ UNCHANGED <<devices, initialUsed, inbox, postage, records, threads, sessions, now>>
  <1> USE Numbers, DaoAssumption
  <1>1. ASSUME BindRegistry \/ Regroup
        PROVE  /\ registry' \in BOOLEAN /\ members' \subseteq Accounts
               /\ UNCHANGED <<devices, rights, inbox, postage, named, now, dao, records,
                              threads, daoBlocks, sessions>>
    BY <1>1 DEF BindRegistry, Regroup, TypeOK, MailboxTypeOK, daoAll, personal, world
  <1>2. ASSUME RegisterDao
        PROVE  /\ dao' \in Dao
               /\ UNCHANGED <<personal, records, threads, daoBlocks, sessions, members>>
    BY <1>2 DEF RegisterDao, Dao
  <1>3. ASSUME NEW p \in Policies, NEW enabled \in BOOLEAN, Configure(p, enabled)
        PROVE  /\ dao' \in Dao
               /\ UNCHANGED <<personal, records, threads, daoBlocks, sessions, members>>
    BY <1>3 DEF Configure, Dao, TypeOK
  <1>4. ASSUME NEW x \in Addresses, NEW c \in Accounts, SetDaoBlock(x, c)
        PROVE  /\ dao' \in Dao /\ daoBlocks' \subseteq Accounts
               /\ UNCHANGED <<personal, records, threads, sessions, members>>
    BY <1>4 DEF SetDaoBlock, Dao, TypeOK
  <1> USE DEF TypeOK, MailboxTypeOK, rights, postage, world, daoAll, personal, PolicySteps
  <1> QED BY <1>1, <1>2, <1>3, <1>4

LEMMA AssignTyped ==
  ASSUME TypeOK, NEW x \in Accounts, NEW c \in Accounts, Assign(x, c)
  PROVE  /\ TypeOK'
         /\ UNCHANGED <<personal, dao, records, daoBlocks, sessions, members>>
         /\ threads[c] \in Thread
         /\ \E t \in Thread : /\ threads' = [threads EXCEPT ![c] = t]
                              /\ t.last = threads[c].last
                              /\ t.status # "answered"
                              /\ (t.status = "open") <=> (t.assignee = None)
  <1>1. threads[c] \in Thread
    BY DEF Assign, MayTake, TypeOK
  <1>2. PICK take \in BOOLEAN : threads' = [threads EXCEPT ![c] = Taken(threads[c], x, take)]
    BY DEF Assign
  <1>3. Taken(threads[c], x, take) \in Thread
    BY <1>1 DEF Taken, Thread
  <1>4. /\ Taken(threads[c], x, take).last = threads[c].last
        /\ Taken(threads[c], x, take).status # "answered"
        /\ (Taken(threads[c], x, take).status = "open")
             <=> (Taken(threads[c], x, take).assignee = None)
    BY DaoNoneAssumption DEF Taken
  <1>5. threads' \in [Accounts -> Thread \cup {None}]
    BY <1>2, <1>3 DEF TypeOK
  <1>6. UNCHANGED <<personal, dao, records, daoBlocks, sessions, members>>
    BY DEF Assign
  <1>7. TypeOK'
    BY <1>5, <1>6 DEF TypeOK, MailboxTypeOK, personal, rights, postage, world
  <1> QED BY <1>1, <1>2, <1>3, <1>4, <1>6, <1>7

LEMMA WithoutTyped ==
  ASSUME NEW d \in Device, NEW key
  PROVE  /\ Without(d, key) \in Device
         /\ Without(d, key).generation = d.generation
         /\ Without(d, key).active = d.active
         /\ Without(d, key).top = d.top
         /\ Without(d, key).prekeys = d.prekeys \ {key}
  BY DEF Without, Device

(* What a personal message is, and what the devices become. *)
Mail(s, r, id, key) ==
    [sequence |-> nextSequence + 1, id |-> id, sender |-> s,
     senderGen |-> Generation(s), recipient |-> r,
     recipientGen |-> Generation(r), prekey |-> key, time |-> now]

LEMMA SendTyped ==
  ASSUME TypeOK, UNCHANGED daoAll,
         NEW s \in Accounts, NEW r \in Accounts, NEW id \in MessageIds,
         NEW key \in PrekeyIds \cup {0}, Send(s, r, id, key)
  PROVE  TypeOK' /\ Mail(s, r, id, key) \in Message
  <1> USE Numbers
  <1>0. /\ Generation(s) \in Nat /\ Generation(r) \in Nat
        /\ devices[r] \in Device
    BY GenerationTyped DEF Send, Active, TypeOK
  <1>1. Mail(s, r, id, key) \in Message
    BY <1>0 DEF Mail, Message, TypeOK, MailboxTypeOK
  <1>2. inbox' \subseteq Message
    <2>1. inbox' = inbox \cup {Mail(s, r, id, key)}
      BY DEF Send, Mail
    <2> QED BY <1>1, <2>1 DEF TypeOK, MailboxTypeOK
  <1>3. devices' \in [Accounts -> Device \cup {None}]
    <2>1. Without(devices[r], key) \in Device
      BY <1>0, WithoutTyped
    <2> QED BY <2>1 DEF Send, DevicesWithout, TypeOK, MailboxTypeOK
  <1>4. initialUsed' \in [Accounts \X Accounts -> Generations \cup {None}]
    <2>1. Pair(r, s) \in Generations
      BY <1>0 DEF Pair, Generations
    <2> QED BY <2>1 DEF Send, TypeOK, MailboxTypeOK
  <1>5. /\ sentIds' \in [Accounts \X MessageIds -> Nat]
        /\ nextSequence' \in Nat
        /\ lastSend' \in [Accounts -> Nat \cup {None}]
    BY DEF Send, Stamp, TypeOK, MailboxTypeOK
  <1>6. UNCHANGED <<consent, blocked, world, daoAll>>
    BY DEF Send
  <1> QED BY <1>1, <1>2, <1>3, <1>4, <1>5, <1>6 DEF TypeOK, MailboxTypeOK, world, daoAll

(* The recipients of a DAO message, and the message. *)
Recipients(x, c, reply) == (Readers(dao) \cup (IF reply THEN {c} ELSE {})) \ {x}

Keys(to, x) ==
    {keys \in [to -> PrekeyIds \cup {0}] :
        \A r \in to : IF Established(r, x) THEN keys[r] = 0
                                           ELSE keys[r] \in devices[r].prekeys}

Circular(x, c, reply, id, to, keys) ==
    [sequence |-> nextSequence + 1, id |-> id, sender |-> x,
     senderGen |-> Generation(x), correspondent |-> c, reply |-> reply,
     deliveries |-> [r \in to |-> [generation |-> Generation(r), prekey |-> keys[r]]],
     time |-> now]

(* DaoSend, in the terms of these. *)
DaoSends(x, c, reply, id, to, keys) ==
    /\ to = Recipients(x, c, reply)
    /\ to \subseteq Accounts
    /\ x \notin to
    /\ \A r \in to : devices[r] \in Device
    /\ Active(x)
    /\ Rested(x)
    /\ sentIds[<<x, id>>] = 0
    /\ keys \in Keys(to, x)
    /\ devices' = [r \in Accounts |->
           IF r \in to THEN Without(devices[r], keys[r]) ELSE devices[r]]
    /\ records' = records \cup {Circular(x, c, reply, id, to, keys)}
    /\ sessions' = [p \in Accounts \X Accounts |->
           IF (p[1] \in to /\ p[2] = x) \/ (p[1] = x /\ p[2] \in to)
           THEN Pair(p[1], p[2]) ELSE sessions[p]]
    /\ threads' = [threads EXCEPT ![c] = ThreadAfter(x, c, reply)]
    /\ Stamp(x, id)
    /\ UNCHANGED <<rights, inbox, world, dao, daoBlocks, members>>

LEMMA DaoSendExpanded ==
  ASSUME TypeOK, NEW x \in Accounts, NEW c \in Accounts, NEW reply \in BOOLEAN,
         NEW id \in MessageIds, DaoSend(x, c, reply, id)
  PROVE  \E to, keys : DaoSends(x, c, reply, id, to, keys)
  <1> DEFINE to == Recipients(x, c, reply)
  <1>1. to \subseteq Accounts /\ x \notin to
    BY DEF Recipients, Readers, TypeOK, DaoSend, Enabled, Dao
  <1>2. \A r \in to : devices[r] \in Device
    BY <1>1 DEF DaoSend, Recipients, Active, TypeOK, MailboxTypeOK
  <1>3. PICK keys \in [to -> PrekeyIds \cup {0}] :
        /\ \A r \in to : IF Established(r, x) THEN keys[r] = 0
                                             ELSE keys[r] \in devices[r].prekeys
        /\ devices' = [r \in Accounts |->
               IF r \in to THEN Without(devices[r], keys[r]) ELSE devices[r]]
        /\ records' = records \cup {Circular(x, c, reply, id, to, keys)}
    BY DEF DaoSend, Recipients, Circular
  <1>4. sessions' = [p \in Accounts \X Accounts |->
           IF (p[1] \in to /\ p[2] = x) \/ (p[1] = x /\ p[2] \in to)
           THEN Pair(p[1], p[2]) ELSE sessions[p]]
    BY DEF DaoSend, Recipients
  <1>5. /\ threads' = [threads EXCEPT ![c] = ThreadAfter(x, c, reply)]
        /\ Stamp(x, id) /\ Active(x) /\ Rested(x) /\ sentIds[<<x, id>>] = 0
        /\ UNCHANGED <<rights, inbox, world, dao, daoBlocks, members>>
    BY DEF DaoSend
  <1>6. keys \in Keys(to, x)
    BY <1>3 DEF Keys
  <1> HIDE DEF to
  <1>7. to = Recipients(x, c, reply)
    BY DEF to
  <1>8. DaoSends(x, c, reply, id, to, keys)
    BY <1>1, <1>2, <1>3, <1>4, <1>5, <1>6, <1>7 DEF DaoSends
  <1> QED BY <1>8

LEMMA CircularTyped ==
  ASSUME TypeOK, NEW x \in Accounts, NEW c \in Accounts, NEW reply \in BOOLEAN,
         NEW id \in MessageIds, NEW to, NEW keys, DaoSends(x, c, reply, id, to, keys)
  PROVE  LET d == Circular(x, c, reply, id, to, keys)
         IN  /\ DOMAIN d.deliveries = to
             /\ \A r \in to : d.deliveries[r] = [generation |-> Generation(r),
                                                 prekey |-> keys[r]]
             /\ d \in [sequence : Nat, id : MessageIds, sender : Accounts, senderGen : Nat,
                       correspondent : Accounts, reply : BOOLEAN, time : Nat,
                       deliveries : [to -> Delivery]]
             /\ d.sequence = nextSequence + 1 /\ d.id = id /\ d.sender = x
             /\ d.senderGen = Generation(x) /\ d.correspondent = c
             /\ d.reply = reply /\ d.time = now
  <1> DEFINE dels == [r \in to |-> [generation |-> Generation(r), prekey |-> keys[r]]]
  <1>1. Generation(x) \in Nat /\ nextSequence + 1 \in Nat /\ now \in Nat
    BY GenerationTyped DEF TypeOK, MailboxTypeOK
  <1>2. \A r \in to : Generation(r) \in Nat /\ keys[r] \in PrekeyIds \cup {0}
    BY GenerationTyped DEF TypeOK, DaoSends, Keys
  <1>3. dels \in [to -> Delivery]
    BY <1>2 DEF Delivery
  <1>4. DOMAIN dels = to /\ \A r \in to : dels[r] = [generation |-> Generation(r),
                                                     prekey |-> keys[r]]
    OBVIOUS
  <1>5. Circular(x, c, reply, id, to, keys) =
          [sequence |-> nextSequence + 1, id |-> id, sender |-> x,
           senderGen |-> Generation(x), correspondent |-> c, reply |-> reply,
           deliveries |-> dels, time |-> now]
    BY DEF Circular
  <1> HIDE DEF dels
  <1> QED BY <1>1, <1>3, <1>4, <1>5

LEMMA DaoSendTyped ==
  ASSUME TypeOK, NEW x \in Accounts, NEW c \in Accounts, NEW reply \in BOOLEAN,
         NEW id \in MessageIds, NEW to, NEW keys, DaoSends(x, c, reply, id, to, keys)
  PROVE  TypeOK'
  <1> USE Numbers
  <1>1. devices' \in [Accounts -> Device \cup {None}]
    <2>1. \A r \in to : Without(devices[r], keys[r]) \in Device
      BY WithoutTyped DEF DaoSends
    <2> QED BY <2>1 DEF DaoSends, TypeOK, MailboxTypeOK
  <1>2. sessions' \in [Accounts \X Accounts -> Generations \cup {None}]
    <2>1. \A p \in Accounts \X Accounts : Pair(p[1], p[2]) \in Generations
      BY GenerationTyped DEF Pair, Generations, TypeOK
    <2> QED BY <2>1 DEF DaoSends, TypeOK
  <1>3. threads' \in [Accounts -> Thread \cup {None}]
    <2>1. ThreadAfter(x, c, reply) \in Thread
      BY DEF ThreadAfter, Thread, TypeOK, MailboxTypeOK
    <2> QED BY <2>1 DEF DaoSends, TypeOK
  <1>4. \A d \in records' :
        /\ DOMAIN d.deliveries \subseteq Accounts
        /\ d \in [sequence : Nat, id : MessageIds, sender : Accounts, senderGen : Nat,
                  correspondent : Accounts, reply : BOOLEAN, time : Nat,
                  deliveries : [DOMAIN d.deliveries -> Delivery]]
    <2>1. records' = records \cup {Circular(x, c, reply, id, to, keys)} /\ to \subseteq Accounts
      BY DEF DaoSends
    <2> QED BY <2>1, CircularTyped DEF TypeOK
  <1>5. /\ sentIds' \in [Accounts \X MessageIds -> Nat]
        /\ nextSequence' \in Nat
        /\ lastSend' \in [Accounts -> Nat \cup {None}]
    BY DEF DaoSends, Stamp, TypeOK, MailboxTypeOK
  <1>6. UNCHANGED <<rights, inbox, world, dao, daoBlocks, members>>
    BY DEF DaoSends
  <1> QED BY <1>1, <1>2, <1>3, <1>4, <1>5, <1>6 DEF TypeOK, MailboxTypeOK, world, rights

DeviceSteps ==
    /\ UNCHANGED daoAll
    /\ \E a \in Accounts : Register(a) \/ Revoke(a) \/ AddPrekeys(a)

LEMMA Kinds ==
  ASSUME TypeOK, Next
  PROVE  \/ DeviceSteps \/ RightsSteps \/ PolicySteps
         \/ \E x \in Accounts, c \in Accounts : Assign(x, c)
         \/ /\ UNCHANGED daoAll
            /\ \E s \in Accounts, r \in Accounts, id \in MessageIds,
                  key \in PrekeyIds \cup {0} : Send(s, r, id, key)
         \/ \E x \in Accounts, c \in Accounts, reply \in BOOLEAN, id \in MessageIds :
                \E to, keys : DaoSends(x, c, reply, id, to, keys)
  <1>1. CASE PersonalNext /\ UNCHANGED daoAll
    BY <1>1 DEF PersonalNext, DeviceSteps, RightsSteps
  <1>2. CASE PolicySteps
    BY <1>2
  <1>3. CASE \E x \in Accounts, c \in Accounts : Assign(x, c)
    BY <1>3
  <1>4. ASSUME NEW x \in Accounts, NEW c \in Accounts, NEW reply \in BOOLEAN,
               NEW id \in MessageIds, DaoSend(x, c, reply, id)
        PROVE  \E to, keys : DaoSends(x, c, reply, id, to, keys)
    BY <1>4, DaoSendExpanded
  <1> QED BY <1>1, <1>2, <1>3, <1>4 DEF Next, PolicySteps

LEMMA TypeStep == TypeOK /\ [Next]_vars => TypeOK'
  <1> SUFFICES ASSUME TypeOK, [Next]_vars PROVE TypeOK'
    OBVIOUS
  <1>1. CASE UNCHANGED vars
    BY <1>1 DEF TypeOK, MailboxTypeOK, vars, personal, rights, postage, world
  <1>2. CASE Next
    BY <1>2, Kinds, DeviceTyped, RightsTyped, PolicyTyped, AssignTyped, SendTyped,
       DaoSendTyped DEF DeviceSteps
  <1> QED BY <1>1, <1>2

(* Every step keeps every variable in its type. *)
THEOREM TypeCorrect == Spec => []TypeOK
  BY InitTyped, TypeStep, PTL DEF Spec

-----------------------------------------------------------------------------
(* Messages of both kinds, and what a step does to them.                   *)

Post == inbox \cup records

Posts(m) ==
    /\ m.sequence = nextSequence + 1
    /\ m.time = now
    /\ m.sender \in Accounts /\ m.id \in MessageIds
    /\ sentIds[<<m.sender, m.id>>] = 0
    /\ Rested(m.sender)
    /\ Stamp(m.sender, m.id)
    /\ Post' = Post \cup {m}

LEMMA PostTyped ==
  ASSUME TypeOK, NEW m \in Post
  PROVE  /\ m.sequence \in Nat /\ m.time \in Nat
         /\ m.sender \in Accounts /\ m.id \in MessageIds
  BY DEF TypeOK, MailboxTypeOK, Post, Message

LEMMA StepPosts ==
  ASSUME TypeOK, [Next]_vars
  PROVE  \/ UNCHANGED <<inbox, records, postage>>
         \/ \E m : Posts(m)
  <1>1. CASE UNCHANGED vars
    BY <1>1 DEF vars, personal
  <1>2. CASE DeviceSteps \/ RightsSteps \/ PolicySteps
    BY <1>2, RightsTyped, PolicyTyped
       DEF DeviceSteps, Register, Revoke, AddPrekeys, daoAll
  <1>3. CASE \E x \in Accounts, c \in Accounts : Assign(x, c)
    BY <1>3 DEF Assign, personal
  <1>4. ASSUME NEW s \in Accounts, NEW r \in Accounts, NEW id \in MessageIds,
               NEW key \in PrekeyIds \cup {0}, Send(s, r, id, key), UNCHANGED daoAll
        PROVE  \E m : Posts(m)
    <2> DEFINE m == Mail(s, r, id, key)
    <2>1. /\ m.sequence = nextSequence + 1 /\ m.time = now
          /\ m.sender = s /\ m.id = id
      BY DEF Mail
    <2>2. Post' = Post \cup {m}
      BY <1>4 DEF Send, Mail, Post, daoAll
    <2>3. sentIds[<<s, id>>] = 0 /\ Rested(s) /\ Stamp(s, id)
      BY <1>4 DEF Send
    <2> HIDE DEF m
    <2>4. Posts(m)
      BY <2>1, <2>2, <2>3 DEF Posts
    <2> QED BY <2>4
  <1>5. ASSUME NEW x \in Accounts, NEW c \in Accounts, NEW reply \in BOOLEAN,
               NEW id \in MessageIds, NEW to, NEW keys,
               DaoSends(x, c, reply, id, to, keys)
        PROVE  \E m : Posts(m)
    <2> DEFINE m == Circular(x, c, reply, id, to, keys)
    <2>1. /\ m.sequence = nextSequence + 1 /\ m.time = now
          /\ m.sender = x /\ m.id = id
      BY <1>5, CircularTyped
    <2>2. Post' = Post \cup {m}
      BY <1>5 DEF DaoSends, Post
    <2>3. sentIds[<<x, id>>] = 0 /\ Rested(x) /\ Stamp(x, id)
      BY <1>5 DEF DaoSends
    <2> HIDE DEF m
    <2>4. Posts(m)
      BY <2>1, <2>2, <2>3 DEF Posts
    <2> QED BY <2>4
  <1> QED BY <1>1, <1>2, <1>3, <1>4, <1>5, Kinds

(* The messages are numbered without gaps. *)
Numbered ==
    /\ nextSequence <= MaxSequence
    /\ \A m \in Post : m.sequence \in 1..nextSequence
    /\ \A n \in 1..nextSequence : \E m \in Post : m.sequence = n
    /\ \A m, n \in Post : m.sequence = n.sequence => m = n

(* A message id that was sent leads to its message, and only such a one. *)
Received ==
    \A s \in Accounts, id \in MessageIds : \A n \in 1..MaxSequence :
        sentIds[<<s, id>>] = n <=>
            \E m \in Post : m.sender = s /\ m.id = id /\ m.sequence = n

(* Nobody sent after his last send. *)
Stamped ==
    \A m \in Post : lastSend[m.sender] # None /\ m.time <= lastSend[m.sender]

PostInv == Numbered /\ Received /\ Stamped /\ SendsSpaced

LEMMA PostInit == Init => PostInv
  BY Numbers DEF Init, MailboxInit, Post, PostInv, Numbered, Received, Stamped, SendsSpaced

LEMMA PostStep ==
  ASSUME TypeOK, PostInv, [Next]_vars
  PROVE  PostInv'
  <1> USE Numbers
  <1>1. CASE UNCHANGED <<inbox, records, postage>>
    BY <1>1 DEF PostInv, Numbered, Received, Stamped, SendsSpaced, Post, postage
  <1>2. ASSUME NEW m, Posts(m) PROVE PostInv'
    <2>1. /\ m.sequence = nextSequence + 1 /\ m.time = now
          /\ m.sender \in Accounts /\ m.id \in MessageIds
          /\ sentIds[<<m.sender, m.id>>] = 0
          /\ Rested(m.sender)
          /\ Post' = Post \cup {m}
          /\ nextSequence < MaxSequence
          /\ nextSequence' = nextSequence + 1
          /\ sentIds' = [sentIds EXCEPT ![<<m.sender, m.id>>] = nextSequence + 1]
          /\ lastSend' = [lastSend EXCEPT ![m.sender] = now]
      BY <1>2 DEF Posts, Stamp
    <2>2. /\ nextSequence \in Nat /\ now \in Nat
          /\ sentIds \in [Accounts \X MessageIds -> Nat]
          /\ lastSend \in [Accounts -> Nat \cup {None}]
      BY DEF TypeOK, MailboxTypeOK
    <2>3. \A n \in Post : /\ n.sequence \in 1..nextSequence /\ n.time \in Nat
                          /\ n.sender \in Accounts /\ n.id \in MessageIds
      BY PostTyped DEF PostInv, Numbered
    <2>4. Numbered'
      BY <2>1, <2>2, <2>3 DEF PostInv, Numbered
    <2>5. Received'
      <3> SUFFICES ASSUME NEW s \in Accounts, NEW id \in MessageIds, NEW n \in 1..MaxSequence
                   PROVE  sentIds'[<<s, id>>] = n <=>
                            \E k \in Post' : k.sender = s /\ k.id = id /\ k.sequence = n
        BY DEF Received
      <3>1. CASE s = m.sender /\ id = m.id
        <4>1. sentIds'[<<s, id>>] = nextSequence + 1
          BY <2>1, <2>2, <3>1
        <4>2. \A k \in Post : ~(k.sender = s /\ k.id = id)
          <5> SUFFICES ASSUME NEW k \in Post, k.sender = s, k.id = id PROVE FALSE
            OBVIOUS
          <5>1. k.sequence \in 1..MaxSequence
            BY <2>1, <2>2, <2>3
          <5>2. sentIds[<<s, id>>] = k.sequence
            BY <5>1 DEF PostInv, Received
          <5> QED BY <2>1, <3>1, <5>1, <5>2
        <4> QED BY <2>1, <2>2, <3>1, <4>1, <4>2
      <3>2. CASE ~(s = m.sender /\ id = m.id)
        <4>1. sentIds'[<<s, id>>] = sentIds[<<s, id>>]
          BY <2>1, <2>2, <3>2
        <4>2. sentIds[<<s, id>>] = n <=>
                 \E k \in Post : k.sender = s /\ k.id = id /\ k.sequence = n
          BY DEF PostInv, Received
        <4> QED BY <2>1, <3>2, <4>1, <4>2
      <3> QED BY <3>1, <3>2
    <2>6. now \in Nat /\ None \notin Nat /\ (lastSend[m.sender] # None =>
                 now >= lastSend[m.sender] + Cooldown /\ lastSend[m.sender] \in Nat)
      BY <2>1, <2>2, MailboxNoneAssumption DEF Rested
    <2>7. Stamped'
      <3> SUFFICES ASSUME NEW k \in Post'
                   PROVE  lastSend'[k.sender] # None /\ k.time <= lastSend'[k.sender]
        BY DEF Stamped
      <3>1. CASE k = m
        BY <2>1, <2>2, <2>6, <3>1
      <3>2. CASE k \in Post
        <4>1. lastSend[k.sender] # None /\ k.time <= lastSend[k.sender]
          BY <3>2 DEF PostInv, Stamped
        <4> QED BY <2>1, <2>2, <2>3, <2>6, <3>2, <4>1
      <3> QED BY <2>1, <3>1, <3>2
    <2>8. SendsSpaced'
      <3> SUFFICES ASSUME NEW k \in Post', NEW l \in Post', k.sender = l.sender,
                          k.sequence < l.sequence
                   PROVE  l.time >= k.time + Cooldown
        BY DEF SendsSpaced, Post
      <3>1. CASE k \in Post /\ l \in Post
        BY <3>1 DEF PostInv, SendsSpaced, Post
      <3>2. CASE k \in Post /\ l = m
        <4>1. lastSend[k.sender] # None /\ k.time <= lastSend[k.sender]
          BY <3>2 DEF PostInv, Stamped
        <4> QED BY <2>1, <2>2, <2>3, <2>6, <3>2, <4>1
      <3>3. CASE k = m
        BY <2>1, <2>2, <2>3, <3>3
      <3> QED BY <2>1, <3>1, <3>2, <3>3
    <2> QED BY <2>4, <2>5, <2>7, <2>8 DEF PostInv
  <1> QED BY <1>1, <1>2, StepPosts

LEMMA PostAlways == Spec => [](TypeOK /\ PostInv)
  <1>1. TypeOK /\ PostInv /\ [Next]_vars => PostInv'
    BY PostStep
  <1> QED BY <1>1, InitTyped, TypeStep, PostInit, PTL DEF Spec

(* Personal and DAO messages of one sender keep one cooldown. *)
THEOREM Spaced == Spec => []SendsSpaced
  <1>1. PostInv => SendsSpaced
    BY DEF PostInv
  <1> QED BY <1>1, PostAlways, PTL

(* The receipt of a send, which settles it when its answer was lost, is    *)
(* right for every number of messages of either kind.                      *)
THEOREM Receipts == Spec => []ReceiptsTrue
  <1>1. TypeOK /\ PostInv => ReceiptsTrue
    <2> SUFFICES ASSUME TypeOK, PostInv PROVE ReceiptsTrue
      OBVIOUS
    <2>1. ASSUME NEW n \in 1..MaxSequence
          PROVE  Cardinality({m \in Post : m.sequence = n})
                     = IF n <= nextSequence THEN 1 ELSE 0
      <3> DEFINE P == {m \in Post : m.sequence = n}
      <3>0. nextSequence \in Nat
        BY DEF TypeOK, MailboxTypeOK
      <3>1. CASE n <= nextSequence
        <4>1. PICK m \in Post : m.sequence = n
          BY <3>0, <3>1, Numbers DEF PostInv, Numbered
        <4>2. P = {m}
          BY <4>1 DEF PostInv, Numbered
        <4> QED BY <3>1, <4>2, FS_Singleton
      <3>2. CASE ~(n <= nextSequence)
        <4>1. P = {}
          BY <3>0, <3>2 DEF PostInv, Numbered
        <4> QED BY <3>2, <4>1, FS_EmptySet
      <3> QED BY <3>1, <3>2
    <2> QED BY <2>1 DEF ReceiptsTrue, PostInv, Received, Post
  <1> QED BY <1>1, PostAlways, PTL

-----------------------------------------------------------------------------
(* Devices and the prekeys they still offer.                               *)

DeviceStep(a) ==
    devices[a] # None =>
        /\ devices'[a] \in Device
        /\ devices'[a].generation >= devices[a].generation
        /\ devices'[a].generation = devices[a].generation =>
            /\ devices'[a].active = devices[a].active
            /\ devices'[a].top >= devices[a].top
            /\ \A k \in devices'[a].prekeys \ devices[a].prekeys : k > devices[a].top

(* Top is a bound of the prekeys a device offers. *)
DeviceTops ==
    \A a \in Accounts : devices[a] # None =>
        \A k \in devices[a].prekeys : k <= devices[a].top

LEMMA StepDevices ==
  ASSUME TypeOK, DeviceTops, [Next]_vars
  PROVE  DeviceTops' /\ \A a \in Accounts : DeviceStep(a)
  <1> USE Numbers
  <1>0. \A a \in Accounts : /\ Generation(a) \in Nat
                            /\ devices[a] # None =>
                                 devices[a] \in Device /\ Generation(a) = devices[a].generation
    BY GenerationTyped DEF TypeOK
  <1>d. /\ devices \in [Accounts -> Device \cup {None}] /\ None \notin Device
        /\ \A d \in Device : /\ d.generation \in Nat /\ d.top \in Nat
                             /\ d.prekeys \subseteq Nat
    BY MailboxNoneAssumption DEF TypeOK, MailboxTypeOK, Device, PrekeyIds
  (* One device changes, into d. *)
  <1>1. ASSUME NEW a \in Accounts, NEW d \in Device,
               devices' = [devices EXCEPT ![a] = d],
               \A k \in d.prekeys : k <= d.top,
               devices[a] # None =>
                 \/ d.generation = devices[a].generation + 1
                 \/ /\ d.generation = devices[a].generation
                    /\ d.active = devices[a].active /\ d.top >= devices[a].top
                    /\ \A k \in d.prekeys \ devices[a].prekeys : k > devices[a].top
        PROVE  DeviceTops' /\ \A b \in Accounts : DeviceStep(b)
    <2>1. \A b \in Accounts : devices'[b] = IF b = a THEN d ELSE devices[b]
      BY <1>1, <1>d
    <2>2. DeviceTops'
      BY <1>1, <1>d, <2>1 DEF DeviceTops
    <2>3. ASSUME NEW b \in Accounts PROVE DeviceStep(b)
      <3>1. CASE b = a
        BY <1>1, <1>d, <2>1, <3>1 DEF DeviceStep
      <3>2. CASE b # a
        BY <1>d, <2>1, <3>2 DEF DeviceStep
      <3> QED BY <3>1, <3>2
    <2> QED BY <2>2, <2>3
  <1>2. CASE UNCHANGED devices
    BY <1>2, <1>d DEF DeviceTops, DeviceStep
  <1>3. ASSUME NEW a \in Accounts, Register(a)
        PROVE  DeviceTops' /\ \A b \in Accounts : DeviceStep(b)
    <2>1. PICK bundle \in Bundles, last \in PrekeyIds :
             /\ IsLargest(last, bundle)
             /\ devices' = [devices EXCEPT ![a] =
                 [generation |-> Generation(a) + 1, active |-> TRUE,
                  prekeys |-> bundle, top |-> last]]
      BY <1>3 DEF Register
    <2> DEFINE d == [generation |-> Generation(a) + 1, active |-> TRUE,
                     prekeys |-> bundle, top |-> last]
    <2>2. /\ d \in Device /\ d.generation = Generation(a) + 1
          /\ \A k \in d.prekeys : k <= d.top
      BY <1>0, <2>1 DEF Device, Bundles, PrekeyIds, IsLargest
    <2>3. devices' = [devices EXCEPT ![a] = d]
      BY <2>1
    <2> HIDE DEF d
    <2> QED BY <1>0, <1>1, <2>2, <2>3
  <1>4. ASSUME NEW a \in Accounts, Revoke(a)
        PROVE  DeviceTops' /\ \A b \in Accounts : DeviceStep(b)
    <2>1. devices[a] \in Device /\ devices' = [devices EXCEPT ![a] = Revoked(devices[a])]
      BY <1>0, <1>4 DEF Revoke
    <2>2. /\ Revoked(devices[a]) \in Device
          /\ Revoked(devices[a]).generation = devices[a].generation + 1
          /\ Revoked(devices[a]).prekeys = {}
      BY <2>1 DEF Revoked, Device
    <2> QED BY <1>1, <2>1, <2>2
  <1>5. ASSUME NEW a \in Accounts, AddPrekeys(a)
        PROVE  DeviceTops' /\ \A b \in Accounts : DeviceStep(b)
    <2>1. devices[a] \in Device
      BY <1>0, <1>5 DEF AddPrekeys, Active
    <2>2. PICK bundle \in Bundles, last \in PrekeyIds :
             /\ IsLargest(last, bundle)
             /\ \A k \in bundle : k > devices[a].top
             /\ devices' = [devices EXCEPT ![a] = Restocked(devices[a], bundle, last)]
      BY <1>5 DEF AddPrekeys
    <2> DEFINE d == Restocked(devices[a], bundle, last)
    <2>3. bundle \subseteq PrekeyIds /\ last \in Nat /\ last > devices[a].top
      BY <2>2 DEF Bundles, PrekeyIds, IsLargest
    <2>4. /\ d \in Device /\ d.generation = devices[a].generation
          /\ d.active = devices[a].active /\ d.top = last
          /\ d.prekeys = devices[a].prekeys \cup bundle
      BY <2>1, <2>3 DEF Restocked, Device
    <2>5. \A k \in devices[a].prekeys : k <= devices[a].top
      BY <1>d, <2>1 DEF DeviceTops
    <2>6. /\ \A k \in d.prekeys : k <= d.top
          /\ d.top >= devices[a].top
          /\ \A k \in d.prekeys \ devices[a].prekeys : k > devices[a].top
      BY <1>d, <2>1, <2>2, <2>3, <2>4, <2>5 DEF IsLargest
    <2>7. devices' = [devices EXCEPT ![a] = d]
      BY <2>2
    <2> HIDE DEF d
    <2> QED BY <1>1, <2>4, <2>6, <2>7
  (* A letter takes prekeys away. *)
  <1>6. ASSUME NEW to \in SUBSET Accounts, NEW keys,
               \A r \in to : devices[r] \in Device,
               devices' = [r \in Accounts |->
                 IF r \in to THEN Without(devices[r], keys[r]) ELSE devices[r]]
        PROVE  DeviceTops' /\ \A b \in Accounts : DeviceStep(b)
    <2>1. ASSUME NEW b \in to
          PROVE  /\ devices'[b] \in Device
                 /\ devices'[b].generation = devices[b].generation
                 /\ devices'[b].active = devices[b].active
                 /\ devices'[b].top = devices[b].top
                 /\ devices'[b].prekeys = devices[b].prekeys \ {keys[b]}
      BY <1>6, WithoutTyped
    <2>2. ASSUME NEW b \in Accounts \ to PROVE devices'[b] = devices[b]
      BY <1>6
    <2>3. DeviceTops'
      BY <1>6, <1>d, <2>1, <2>2 DEF DeviceTops
    <2>4. \A b \in Accounts : DeviceStep(b)
      BY <1>6, <1>d, <2>1, <2>2 DEF DeviceStep
    <2> QED BY <2>3, <2>4
  <1>7. ASSUME NEW s \in Accounts, NEW r \in Accounts, NEW id \in MessageIds,
               NEW key \in PrekeyIds \cup {0}, Send(s, r, id, key)
        PROVE  DeviceTops' /\ \A b \in Accounts : DeviceStep(b)
    <2>1. CASE key = 0
      BY <1>2, <1>7, <2>1 DEF Send
    <2>2. CASE key # 0
      <3>1. devices[r] \in Device
        BY <1>0, <1>7 DEF Send, Active
      <3>2. devices' = [devices EXCEPT ![r] = Without(devices[r], key)]
        BY <1>7, <2>2 DEF Send, DevicesWithout
      <3>3. \A k \in devices[r].prekeys : k <= devices[r].top
        BY <1>d, <3>1 DEF DeviceTops
      <3> DEFINE d == Without(devices[r], key)
      <3>4. /\ d \in Device /\ d.generation = devices[r].generation
            /\ d.active = devices[r].active /\ d.top = devices[r].top
            /\ d.prekeys = devices[r].prekeys \ {key}
        BY <3>1, WithoutTyped
      <3>5. devices' = [devices EXCEPT ![r] = d]
        BY <3>2
      <3> HIDE DEF d
      <3>6. d.top >= devices[r].top
        BY <1>d, <3>1, <3>4
      <3> QED BY <1>1, <3>3, <3>4, <3>5, <3>6
    <2> QED BY <2>1, <2>2
  <1>8. CASE Next
    <2>1. CASE RightsSteps \/ PolicySteps
      BY <1>2, <2>1, RightsTyped, PolicyTyped
    <2>2. CASE \E x \in Accounts, c \in Accounts : Assign(x, c)
      BY <1>2, <2>2 DEF Assign, personal
    <2>3. CASE DeviceSteps
      BY <1>3, <1>4, <1>5, <2>3 DEF DeviceSteps
    <2>4. ASSUME NEW x \in Accounts, NEW c \in Accounts, NEW reply \in BOOLEAN,
                 NEW id \in MessageIds, NEW to, NEW keys,
                 DaoSends(x, c, reply, id, to, keys)
          PROVE  DeviceTops' /\ \A b \in Accounts : DeviceStep(b)
      BY <1>6, <2>4 DEF DaoSends
    <2> QED BY <1>7, <1>8, <2>1, <2>2, <2>3, <2>4, Kinds
  <1>9. CASE UNCHANGED vars
    BY <1>2, <1>9 DEF vars, personal
  <1> QED BY <1>8, <1>9

LEMMA TopsAlways == Spec => [](TypeOK /\ DeviceTops)
  <1>1. Init => DeviceTops
    BY DEF Init, MailboxInit, DeviceTops
  <1>2. TypeOK /\ DeviceTops /\ [Next]_vars => DeviceTops'
    BY StepDevices
  <1> QED BY <1>1, <1>2, InitTyped, TypeStep, PTL DEF Spec

(* A generation of a device never goes back and never gets other keys.     *)
THEOREM Versioned == Spec => DevicesVersioned
  <1>1. ASSUME TypeOK, DeviceTops, [Next]_vars
        PROVE  [\A a \in Accounts : devices[a] # None =>
                 /\ devices'[a].generation >= devices[a].generation
                 /\ devices'[a].generation = devices[a].generation =>
                     /\ devices'[a].active = devices[a].active
                     /\ \A k \in devices'[a].prekeys \ devices[a].prekeys :
                            k > devices[a].top]_vars
    BY <1>1, StepDevices DEF DeviceStep
  <1> QED BY <1>1, TopsAlways, PTL DEF Spec, DevicesVersioned

(* Whenever the policy or the blocked correspondents change, so does the   *)
(* revision that senders have prepared their messages for.                 *)
THEOREM PolicyVersions == Spec => PolicyVersioned
  <1>1. ASSUME TypeOK, [Next]_vars
        PROVE  [dao # None /\ (dao' # dao \/ daoBlocks' # daoBlocks) =>
                   dao'.revision > dao.revision]_vars
    <2>0. dao # None => dao \in Dao /\ dao.revision \in Nat
      BY <1>1 DEF TypeOK, Dao
    <2>1. CASE DeviceSteps \/ RightsSteps
      BY <2>1 DEF DeviceSteps, RightsSteps, daoAll
    <2>2. CASE BindRegistry \/ RegisterDao \/ Regroup
      BY <2>2 DEF BindRegistry, RegisterDao, Regroup, daoAll
    <2>3. ASSUME NEW p \in Policies, NEW enabled \in BOOLEAN, Configure(p, enabled)
          PROVE  dao'.revision > dao.revision
      BY <2>0, <2>3 DEF Configure
    <2>4. ASSUME NEW x \in Addresses, NEW c \in Accounts, SetDaoBlock(x, c)
          PROVE  dao'.revision > dao.revision
      BY <2>0, <2>4 DEF SetDaoBlock, Dao
    <2>5. ASSUME NEW x \in Accounts, NEW c \in Accounts, Assign(x, c)
          PROVE  UNCHANGED <<dao, daoBlocks>>
      BY <2>5 DEF Assign
    <2>6. ASSUME NEW x \in Accounts, NEW c \in Accounts, NEW reply, NEW id, NEW to, NEW keys,
                 DaoSends(x, c, reply, id, to, keys)
          PROVE  UNCHANGED <<dao, daoBlocks>>
      BY <2>6 DEF DaoSends
    <2>7. CASE UNCHANGED daoAll
      BY <2>7 DEF daoAll
    <2> QED BY <1>1, <2>1, <2>2, <2>3, <2>4, <2>5, <2>6, <2>7, Kinds DEF PolicySteps
  <1> QED BY <1>1, TypeCorrect, PTL DEF Spec, PolicyVersioned

-----------------------------------------------------------------------------
(* Letters, and the prekeys they took.                                     *)

LetterOfMail(m) ==
    [sequence |-> m.sequence, from |-> <<m.sender, m.senderGen>>,
     to |-> <<m.recipient, m.recipientGen>>, prekey |-> m.prekey]

LetterOf(d, r) ==
    [sequence |-> d.sequence, from |-> <<d.sender, d.senderGen>>,
     to |-> <<r, d.deliveries[r].generation>>, prekey |-> d.deliveries[r].prekey]

(* Letters N were sent, each with a prekey that the device offered until   *)
(* then, and no two to one device.                                         *)
SendsLetters(N) ==
    /\ Letters' = Letters \cup N
    /\ \A k, l \in N : k.to = l.to => k = l
    /\ \A l \in N : l.prekey # 0 =>
        \E r \in Accounts :
            /\ l.to = <<r, devices[r].generation>>
            /\ devices[r] \in Device /\ devices'[r] \in Device
            /\ l.prekey \in devices[r].prekeys
            /\ devices'[r].generation = devices[r].generation
            /\ devices'[r].top = devices[r].top
            /\ l.prekey \notin devices'[r].prekeys

LEMMA StepLetters ==
  ASSUME TypeOK, [Next]_vars
  PROVE  \E N : SendsLetters(N)
  <1>0. \A a \in Accounts : devices[a] # None =>
            devices[a] \in Device /\ Generation(a) = devices[a].generation
    BY GenerationTyped DEF TypeOK
  <1>1. CASE UNCHANGED <<inbox, records>>
    <2>1. Letters' = Letters \cup {}
      BY <1>1 DEF Letters
    <2>2. SendsLetters({})
      BY <2>1 DEF SendsLetters
    <2> QED BY <2>2
  <1>2. ASSUME NEW s \in Accounts, NEW r \in Accounts, NEW id \in MessageIds,
               NEW key \in PrekeyIds \cup {0}, Send(s, r, id, key), UNCHANGED daoAll
        PROVE  \E N : SendsLetters(N)
    <2> DEFINE l == [sequence |-> nextSequence + 1, from |-> <<s, Generation(s)>>,
                     to |-> <<r, Generation(r)>>, prekey |-> key]
    <2>1. inbox' = inbox \cup {Mail(s, r, id, key)} /\ records' = records
      BY <1>2 DEF Send, Mail, daoAll
    <2>2. Letters' = Letters \cup {l}
      <3>1. l = LetterOfMail(Mail(s, r, id, key))
        BY DEF Mail, LetterOfMail
      <3> HIDE DEF l
      <3> QED BY <2>1, <3>1 DEF Letters, LetterOfMail
    <2>3. /\ devices[r] \in Device /\ Generation(r) = devices[r].generation
          /\ devices \in [Accounts -> Device \cup {None}]
      BY <1>0, <1>2 DEF Send, Active, TypeOK, MailboxTypeOK
    <2>4. ASSUME key # 0
          PROVE  /\ key \in devices[r].prekeys
                 /\ devices'[r] = Without(devices[r], key)
      BY <1>2, <2>3, <2>4 DEF Send, DevicesWithout
    <2>5. l.to = <<r, devices[r].generation>> /\ l.prekey = key
      BY <2>3
    <2>6. ASSUME key # 0
          PROVE  /\ devices'[r] \in Device
                 /\ devices'[r].generation = devices[r].generation
                 /\ devices'[r].top = devices[r].top
                 /\ key \notin devices'[r].prekeys
      BY <2>3, <2>4, <2>6, WithoutTyped
    <2> HIDE DEF l
    <2>7. SendsLetters({l})
      BY <2>2, <2>3, <2>4, <2>5, <2>6 DEF SendsLetters
    <2> QED BY <2>7
  <1>3. ASSUME NEW x \in Accounts, NEW c \in Accounts, NEW reply \in BOOLEAN,
               NEW id \in MessageIds, NEW to, NEW keys,
               DaoSends(x, c, reply, id, to, keys)
        PROVE  \E N : SendsLetters(N)
    <2> DEFINE d == Circular(x, c, reply, id, to, keys)
               N == {LetterOf(d, r) : r \in to}
    <2>1. inbox' = inbox /\ records' = records \cup {d}
      BY <1>3 DEF DaoSends
    <2>2. /\ DOMAIN d.deliveries = to
          /\ \A r \in to : d.deliveries[r] = [generation |-> Generation(r),
                                              prekey |-> keys[r]]
      BY <1>3, CircularTyped
    <2> HIDE DEF d
    <2>3. Letters' = Letters \cup N
      BY <2>1, <2>2 DEF Letters, LetterOf
    <2>4. /\ to \subseteq Accounts /\ \A r \in to : devices[r] \in Device
          /\ None \notin Device
      BY <1>3, MailboxNoneAssumption DEF DaoSends
    <2>5. ASSUME NEW r \in to
          PROVE  /\ LetterOf(d, r).to = <<r, devices[r].generation>>
                 /\ LetterOf(d, r).prekey = keys[r]
      <3>1. d.deliveries[r] = [generation |-> Generation(r), prekey |-> keys[r]]
        BY <2>2
      <3>2. devices[r] # None
        BY <2>4
      <3>3. Generation(r) = devices[r].generation
        BY <1>0, <2>4, <3>2
      <3> QED BY <3>1, <3>3 DEF LetterOf
    <2>6. ASSUME NEW r \in to, keys[r] # 0
          PROVE  /\ keys[r] \in devices[r].prekeys
                 /\ devices'[r] = Without(devices[r], keys[r])
      BY <1>3, <2>4, <2>6 DEF DaoSends, Keys
    <2>7. ASSUME NEW r \in to, keys[r] # 0
          PROVE  /\ devices'[r] \in Device
                 /\ devices'[r].generation = devices[r].generation
                 /\ devices'[r].top = devices[r].top
                 /\ keys[r] \notin devices'[r].prekeys
      BY <2>4, <2>6, <2>7, WithoutTyped
    <2>8. \A k, l \in N : k.to = l.to => k = l
      BY <2>5
    <2>9. ASSUME NEW l \in N, l.prekey # 0
          PROVE  \E r \in Accounts :
                    /\ l.to = <<r, devices[r].generation>>
                    /\ devices[r] \in Device /\ devices'[r] \in Device
                    /\ l.prekey \in devices[r].prekeys
                    /\ devices'[r].generation = devices[r].generation
                    /\ devices'[r].top = devices[r].top
                    /\ l.prekey \notin devices'[r].prekeys
      <3>1. PICK r \in to : l = LetterOf(d, r)
        OBVIOUS
      <3> QED BY <2>4, <2>5, <2>6, <2>7, <2>9, <3>1
    <2> HIDE DEF N
    <2>10. SendsLetters(N)
      BY <2>3, <2>8, <2>9 DEF SendsLetters
    <2> QED BY <2>10
  <1>4. CASE UNCHANGED vars
    BY <1>1, <1>4 DEF vars, personal
  <1>5. CASE DeviceSteps \/ RightsSteps \/ PolicySteps
    BY <1>1, <1>5, RightsTyped, PolicyTyped
       DEF DeviceSteps, Register, Revoke, AddPrekeys, daoAll
  <1>6. CASE \E x \in Accounts, c \in Accounts : Assign(x, c)
    BY <1>1, <1>6 DEF Assign, personal
  <1> QED BY <1>2, <1>3, <1>4, <1>5, <1>6, Kinds

(* A prekey that was taken is gone from its device for good. *)
Spent ==
    \A l \in Letters : l.prekey # 0 =>
        \E a \in Accounts, g \in Nat :
            /\ l.to = <<a, g>>
            /\ devices[a] # None
            /\ g <= devices[a].generation
            /\ g = devices[a].generation =>
                l.prekey <= devices[a].top /\ l.prekey \notin devices[a].prekeys

LEMMA SpentStep ==
  ASSUME TypeOK, DeviceTops, Spent, PrekeysSpentOnce, [Next]_vars
  PROVE  Spent' /\ PrekeysSpentOnce'
  <1>1. PICK N : SendsLetters(N)
    BY StepLetters
  <1>2. /\ Letters' = Letters \cup N
        /\ \A k, l \in N : k.to = l.to => k = l
        /\ \A l \in N : l.prekey # 0 =>
            \E r \in Accounts :
                /\ l.to = <<r, devices[r].generation>>
                /\ devices[r] \in Device /\ devices'[r] \in Device
                /\ l.prekey \in devices[r].prekeys
                /\ devices'[r].generation = devices[r].generation
                /\ devices'[r].top = devices[r].top
                /\ l.prekey \notin devices'[r].prekeys
    BY <1>1 DEF SendsLetters
  <1>3. /\ devices \in [Accounts -> Device \cup {None}] /\ None \notin Device
        /\ \A d \in Device : /\ d.generation \in Nat /\ d.top \in Nat
                             /\ d.prekeys \subseteq Nat
    BY Numbers, MailboxNoneAssumption DEF TypeOK, MailboxTypeOK, Device, PrekeyIds
  <1>4. ASSUME NEW l \in Letters, l.prekey # 0, NEW a \in Accounts, NEW g \in Nat,
               l.to = <<a, g>>, devices[a] # None, g <= devices[a].generation,
               g = devices[a].generation =>
                   l.prekey <= devices[a].top /\ l.prekey \notin devices[a].prekeys,
               l.prekey \in Nat
        PROVE  /\ devices'[a] # None /\ g <= devices'[a].generation
               /\ g = devices'[a].generation =>
                   l.prekey <= devices'[a].top /\ l.prekey \notin devices'[a].prekeys
    <2>1. DeviceStep(a) /\ devices[a] \in Device
      BY <1>3, <1>4, StepDevices
    <2>2. /\ devices'[a] \in Device
          /\ devices'[a].generation >= devices[a].generation
          /\ devices'[a].generation = devices[a].generation =>
              /\ devices'[a].top >= devices[a].top
              /\ \A k \in devices'[a].prekeys \ devices[a].prekeys : k > devices[a].top
      BY <1>4, <2>1 DEF DeviceStep
    <2>3. /\ devices'[a] # None
          /\ devices'[a].generation \in Nat /\ devices[a].generation \in Nat
          /\ devices'[a].top \in Nat /\ devices[a].top \in Nat
      BY <1>3, <2>1, <2>2
    <2>4. g <= devices'[a].generation
      BY <1>4, <2>2, <2>3
    <2>5. ASSUME g = devices'[a].generation
          PROVE  l.prekey <= devices'[a].top /\ l.prekey \notin devices'[a].prekeys
      <3>1. g = devices[a].generation
        BY <1>4, <2>2, <2>3, <2>5
      <3> QED BY <1>4, <2>2, <2>3, <2>5, <3>1
    <2> QED BY <2>3, <2>4, <2>5
  <1>5. \A l \in Letters : l.prekey \in Nat
    <2>1. \A m \in inbox : m.prekey \in Nat
      BY Numbers DEF TypeOK, MailboxTypeOK, Message, PrekeyIds
    <2>2. \A d \in records : \A r \in DOMAIN d.deliveries : d.deliveries[r].prekey \in Nat
      BY Numbers DEF TypeOK, Delivery, PrekeyIds
    <2> QED BY <2>1, <2>2 DEF Letters
  <1>6. Spent'
    <2> SUFFICES ASSUME NEW l \in Letters', l.prekey # 0
                 PROVE  \E a \in Accounts, g \in Nat :
                          /\ l.to = <<a, g>>
                          /\ devices'[a] # None
                          /\ g <= devices'[a].generation
                          /\ g = devices'[a].generation =>
                              l.prekey <= devices'[a].top /\ l.prekey \notin devices'[a].prekeys
      BY DEF Spent
    <2>1. CASE l \in Letters
      <3>1. PICK a \in Accounts, g \in Nat :
              /\ l.to = <<a, g>>
              /\ devices[a] # None
              /\ g <= devices[a].generation
              /\ g = devices[a].generation =>
                  l.prekey <= devices[a].top /\ l.prekey \notin devices[a].prekeys
        BY <2>1 DEF Spent
      <3> QED BY <1>4, <1>5, <2>1, <3>1
    <2>2. CASE l \in N
      <3>1. PICK r \in Accounts :
                /\ l.to = <<r, devices[r].generation>>
                /\ devices[r] \in Device /\ devices'[r] \in Device
                /\ l.prekey \in devices[r].prekeys
                /\ devices'[r].generation = devices[r].generation
                /\ devices'[r].top = devices[r].top
                /\ l.prekey \notin devices'[r].prekeys
        BY <1>2, <2>2
      <3>2. l.prekey <= devices[r].top
        BY <1>3, <3>1 DEF DeviceTops
      <3>3. devices[r].generation \in Nat /\ devices'[r] # None
        BY <1>3, <3>1
      <3> QED BY <3>1, <3>2, <3>3
    <2> QED BY <1>2, <2>1, <2>2
  <1>7. ASSUME NEW k \in Letters, NEW l \in N, k.prekey # 0, k.prekey = l.prekey, k.to = l.to
        PROVE  FALSE
    <2>1. PICK r \in Accounts :
              /\ l.to = <<r, devices[r].generation>>
              /\ l.prekey \in devices[r].prekeys
      BY <1>2, <1>7
    <2>2. PICK a \in Accounts, g \in Nat :
              /\ k.to = <<a, g>>
              /\ g = devices[a].generation => k.prekey \notin devices[a].prekeys
      BY <1>7 DEF Spent
    <2> QED BY <1>7, <2>1, <2>2
  <1>8. PrekeysSpentOnce'
    <2> SUFFICES ASSUME NEW k \in Letters', NEW l \in Letters',
                        k.prekey # 0, k.prekey = l.prekey, k.to = l.to
                 PROVE  k = l
      BY DEF PrekeysSpentOnce
    <2>1. CASE k \in Letters /\ l \in Letters
      BY <2>1 DEF PrekeysSpentOnce
    <2>2. CASE k \in N /\ l \in N
      BY <1>2, <2>2
    <2> QED BY <1>2, <1>7, <2>1, <2>2
  <1> QED BY <1>6, <1>8

LEMMA LettersInit == Init => Spent /\ PrekeysSpentOnce
  BY DEF Init, MailboxInit, Spent, PrekeysSpentOnce, Letters

(* A one-time prekey protects one letter, whatever its owner and the       *)
(* senders, of personal messages and of a DAO, do at the same time.        *)
THEOREM OneLetterPerPrekey == Spec => []PrekeysSpentOnce
  <1>1. TypeOK /\ DeviceTops /\ Spent /\ PrekeysSpentOnce /\ [Next]_vars
            => (Spent /\ PrekeysSpentOnce)'
    BY SpentStep
  <1> QED BY <1>1, TopsAlways, LettersInit, PTL DEF Spec

-----------------------------------------------------------------------------
(* Personal sessions.                                                      *)

SendsMail(m) ==
    /\ inbox' = inbox \cup {m}
    /\ m \in Message
    /\ m.prekey = 0 => initialUsed' = initialUsed
    /\ m.prekey # 0 =>
        /\ devices[m.recipient] \in Device /\ devices[m.sender] \in Device
        /\ m.recipientGen = devices[m.recipient].generation
        /\ m.senderGen = devices[m.sender].generation
        /\ initialUsed[<<m.recipient, m.sender>>] # <<m.recipientGen, m.senderGen>>
        /\ initialUsed' = [initialUsed EXCEPT ![<<m.recipient, m.sender>>] =
                               <<m.recipientGen, m.senderGen>>]

LEMMA StepMail ==
  ASSUME TypeOK, [Next]_vars
  PROVE  UNCHANGED <<inbox, initialUsed>> \/ \E m : SendsMail(m)
  <1>1. ASSUME NEW s \in Accounts, NEW r \in Accounts, NEW id \in MessageIds,
               NEW key \in PrekeyIds \cup {0}, Send(s, r, id, key), UNCHANGED daoAll
        PROVE  \E m : SendsMail(m)
    <2> DEFINE m == Mail(s, r, id, key)
    <2>1. inbox' = inbox \cup {m} /\ m \in Message
      BY <1>1, SendTyped DEF Send, Mail
    <2>2. /\ m.prekey = key /\ m.recipient = r /\ m.sender = s
          /\ m.recipientGen = Generation(r) /\ m.senderGen = Generation(s)
      BY DEF Mail
    <2>3. /\ devices[r] \in Device /\ devices[s] \in Device
          /\ Generation(r) = devices[r].generation /\ Generation(s) = devices[s].generation
      BY <1>1, GenerationTyped DEF Send, Active, TypeOK
    <2>4. /\ key = 0 => initialUsed' = initialUsed
          /\ key # 0 =>
              /\ initialUsed[<<r, s>>] # <<Generation(r), Generation(s)>>
              /\ initialUsed' = [initialUsed EXCEPT ![<<r, s>>] =
                                     <<Generation(r), Generation(s)>>]
      BY <1>1 DEF Send, SessionStarted, Pair
    <2> HIDE DEF m
    <2>5. SendsMail(m)
      BY <2>1, <2>2, <2>3, <2>4 DEF SendsMail
    <2> QED BY <2>5
  <1>2. CASE UNCHANGED vars
    BY <1>2 DEF vars, personal, rights
  <1>3. CASE DeviceSteps \/ RightsSteps \/ PolicySteps
    BY <1>3, RightsTyped, PolicyTyped DEF DeviceSteps, Register, Revoke, AddPrekeys, rights
  <1>4. CASE \E x \in Accounts, c \in Accounts : Assign(x, c)
    BY <1>4 DEF Assign, personal, rights
  <1>5. ASSUME NEW x \in Accounts, NEW c \in Accounts, NEW reply \in BOOLEAN,
               NEW id \in MessageIds, NEW to, NEW keys,
               DaoSends(x, c, reply, id, to, keys)
        PROVE  UNCHANGED <<inbox, initialUsed>>
    BY <1>5 DEF DaoSends, rights
  <1> QED BY <1>1, <1>2, <1>3, <1>4, <1>5, Kinds

(* A session that was started stays so as long as its devices do. *)
Started ==
    \A m \in inbox : m.prekey # 0 =>
        /\ devices[m.recipient] # None /\ devices[m.sender] # None
        /\ m.recipientGen <= devices[m.recipient].generation
        /\ m.senderGen <= devices[m.sender].generation
        /\ (m.recipientGen = devices[m.recipient].generation
            /\ m.senderGen = devices[m.sender].generation)
           => initialUsed[<<m.recipient, m.sender>>] = <<m.recipientGen, m.senderGen>>

LEMMA StartedStep ==
  ASSUME TypeOK, DeviceTops, Started, OneInitialEach, [Next]_vars
  PROVE  Started' /\ OneInitialEach'
  <1>1. /\ devices \in [Accounts -> Device \cup {None}] /\ None \notin Device
        /\ \A d \in Device : d.generation \in Nat
    BY MailboxNoneAssumption DEF TypeOK, MailboxTypeOK, Device
  <1>2. initialUsed \in [Accounts \X Accounts -> Generations \cup {None}]
    BY DEF TypeOK, MailboxTypeOK
  <1>3. \A m \in inbox : /\ m.recipient \in Accounts /\ m.sender \in Accounts
                         /\ m.recipientGen \in Nat /\ m.senderGen \in Nat
    BY DEF TypeOK, MailboxTypeOK, Message
  (* A device of generation at least g stays so, and had g if it has. *)
  <1>4. ASSUME NEW a \in Accounts, NEW g \in Nat, devices[a] # None,
               g <= devices[a].generation
        PROVE  /\ devices'[a] # None /\ g <= devices'[a].generation
               /\ g = devices'[a].generation => g = devices[a].generation
    <2>1. DeviceStep(a) /\ devices[a] \in Device
      BY <1>1, <1>4, StepDevices
    <2>2. devices'[a] \in Device /\ devices'[a].generation >= devices[a].generation
      BY <1>4, <2>1 DEF DeviceStep
    <2>3. devices'[a].generation \in Nat /\ devices[a].generation \in Nat
      BY <1>1, <2>1, <2>2
    <2> QED BY <1>1, <1>4, <2>2, <2>3
  (* What is said of an old message remains. *)
  <1>5. ASSUME NEW m \in inbox, m.prekey # 0,
               initialUsed'[<<m.recipient, m.sender>>] = initialUsed[<<m.recipient, m.sender>>]
               \/ (/\ devices[m.recipient] # None /\ devices[m.sender] # None
                   /\ initialUsed'[<<m.recipient, m.sender>>] =
                       <<devices[m.recipient].generation, devices[m.sender].generation>>)
        PROVE  /\ devices'[m.recipient] # None /\ devices'[m.sender] # None
               /\ m.recipientGen <= devices'[m.recipient].generation
               /\ m.senderGen <= devices'[m.sender].generation
               /\ (m.recipientGen = devices'[m.recipient].generation
                   /\ m.senderGen = devices'[m.sender].generation)
                  => initialUsed'[<<m.recipient, m.sender>>]
                         = <<m.recipientGen, m.senderGen>>
    <2>1. /\ devices[m.recipient] # None /\ devices[m.sender] # None
          /\ m.recipientGen <= devices[m.recipient].generation
          /\ m.senderGen <= devices[m.sender].generation
          /\ (m.recipientGen = devices[m.recipient].generation
              /\ m.senderGen = devices[m.sender].generation)
             => initialUsed[<<m.recipient, m.sender>>] = <<m.recipientGen, m.senderGen>>
      BY <1>5 DEF Started
    <2> QED BY <1>3, <1>4, <1>5, <2>1
  <1>6. CASE UNCHANGED <<inbox, initialUsed>>
    <2>1. Started'
      BY <1>5, <1>6 DEF Started
    <2>2. OneInitialEach'
      BY <1>6 DEF OneInitialEach
    <2> QED BY <2>1, <2>2
  <1>7. ASSUME NEW n, SendsMail(n)
        PROVE  Started' /\ OneInitialEach'
    <2>1. /\ inbox' = inbox \cup {n}
          /\ n.recipient \in Accounts /\ n.sender \in Accounts
          /\ n.recipientGen \in Nat /\ n.senderGen \in Nat
          /\ n.prekey = 0 => initialUsed' = initialUsed
          /\ n.prekey # 0 =>
              /\ devices[n.recipient] # None /\ devices[n.sender] # None
              /\ n.recipientGen = devices[n.recipient].generation
              /\ n.senderGen = devices[n.sender].generation
              /\ initialUsed[<<n.recipient, n.sender>>] # <<n.recipientGen, n.senderGen>>
              /\ initialUsed' = [initialUsed EXCEPT ![<<n.recipient, n.sender>>] =
                                     <<n.recipientGen, n.senderGen>>]
      BY <1>1, <1>7 DEF SendsMail, Message
    <2>2. ASSUME NEW m \in inbox, m.prekey # 0
          PROVE  \/ initialUsed'[<<m.recipient, m.sender>>]
                        = initialUsed[<<m.recipient, m.sender>>]
                 \/ /\ devices[m.recipient] # None /\ devices[m.sender] # None
                    /\ initialUsed'[<<m.recipient, m.sender>>] =
                        <<devices[m.recipient].generation, devices[m.sender].generation>>
      <3>1. CASE n.prekey = 0
        BY <2>1, <3>1
      <3>2. CASE n.prekey # 0 /\ <<m.recipient, m.sender>> = <<n.recipient, n.sender>>
        <4>1. initialUsed'[<<n.recipient, n.sender>>] = <<n.recipientGen, n.senderGen>>
          BY <1>2, <2>1, <3>2
        <4>2. m.recipient = n.recipient /\ m.sender = n.sender
          BY <3>2
        <4> QED BY <2>1, <3>2, <4>1, <4>2
      <3>3. CASE n.prekey # 0 /\ <<m.recipient, m.sender>> # <<n.recipient, n.sender>>
        BY <1>2, <1>3, <2>1, <3>3
      <3> QED BY <3>1, <3>2, <3>3
    <2>3. ASSUME n.prekey # 0
          PROVE  /\ devices'[n.recipient] # None /\ devices'[n.sender] # None
                 /\ n.recipientGen <= devices'[n.recipient].generation
                 /\ n.senderGen <= devices'[n.sender].generation
                 /\ initialUsed'[<<n.recipient, n.sender>>]
                         = <<n.recipientGen, n.senderGen>>
      <3>1. /\ n.recipientGen <= devices[n.recipient].generation
            /\ n.senderGen <= devices[n.sender].generation
        BY <2>1, <2>3
      <3>2. initialUsed'[<<n.recipient, n.sender>>] = <<n.recipientGen, n.senderGen>>
        BY <1>2, <2>1, <2>3
      <3> QED BY <1>4, <2>1, <2>3, <3>1, <3>2
    <2>4. Started'
      <3> SUFFICES ASSUME NEW m \in inbox', m.prekey # 0
          PROVE  /\ devices'[m.recipient] # None /\ devices'[m.sender] # None
                 /\ m.recipientGen <= devices'[m.recipient].generation
                 /\ m.senderGen <= devices'[m.sender].generation
                 /\ (m.recipientGen = devices'[m.recipient].generation
                     /\ m.senderGen = devices'[m.sender].generation)
                    => initialUsed'[<<m.recipient, m.sender>>]
                           = <<m.recipientGen, m.senderGen>>
        BY DEF Started
      <3>1. CASE m \in inbox
        BY <1>5, <2>2, <3>1
      <3>2. CASE m = n
        BY <2>3, <3>2
      <3> QED BY <2>1, <3>1, <3>2
    <2>5. OneInitialEach'
      <3>1. ASSUME NEW m \in inbox, m.prekey # 0, n.prekey # 0,
                   <<m.recipient, m.recipientGen>> = <<n.recipient, n.recipientGen>>,
                   <<m.sender, m.senderGen>> = <<n.sender, n.senderGen>>
            PROVE  FALSE
        BY <2>1, <3>1 DEF Started
      <3> QED BY <2>1, <3>1 DEF OneInitialEach
    <2> QED BY <2>4, <2>5
  <1> QED BY <1>6, <1>7, StepMail

(* Two devices start one personal session, whatever happens to consent.    *)
THEOREM OneInitial == Spec => []OneInitialEach
  <1>1. Init => Started /\ OneInitialEach
    BY DEF Init, MailboxInit, Started, OneInitialEach
  <1>2. TypeOK /\ DeviceTops /\ Started /\ OneInitialEach /\ [Next]_vars
            => (Started /\ OneInitialEach)'
    BY StartedStep
  <1> QED BY <1>1, <1>2, TopsAlways, PTL DEF Spec

-----------------------------------------------------------------------------
(* The sessions and conversations of the DAO.                              *)

LEMMA StepRecords ==
  ASSUME TypeOK, [Next]_vars
  PROVE  \/ UNCHANGED <<records, sessions, threads>>
         \/ \E x \in Accounts, c \in Accounts : Assign(x, c)
         \/ \E x \in Accounts, c \in Accounts, reply \in BOOLEAN, id \in MessageIds :
                \E to, keys : DaoSends(x, c, reply, id, to, keys)
  <1>1. CASE UNCHANGED daoAll
    BY <1>1 DEF daoAll
  <1>2. CASE PolicySteps
    BY <1>2, PolicyTyped
  <1>3. CASE UNCHANGED vars
    BY <1>3 DEF vars
  <1> QED BY <1>1, <1>2, <1>3, Kinds DEF DeviceSteps, RightsSteps

(* Record e took a prekey between generation g of r and generation h of s. *)
Founds(e, r, g, s, h) ==
    \/ /\ <<e.sender, e.senderGen>> = <<s, h>>
       /\ r \in DOMAIN e.deliveries
       /\ e.deliveries[r].generation = g
       /\ e.deliveries[r].prekey # 0
    \/ /\ <<e.sender, e.senderGen>> = <<r, g>>
       /\ s \in DOMAIN e.deliveries
       /\ e.deliveries[s].generation = h
       /\ e.deliveries[s].prekey # 0

Founded ==
    \A r, s \in Accounts : \A g, h \in Nat :
        sessions[<<r, s>>] = <<g, h>> => \E e \in records : Founds(e, r, g, s, h)

LEMMA FoundedStep ==
  ASSUME TypeOK, PostInv, Founded, SessionsFounded, [Next]_vars
  PROVE  Founded' /\ SessionsFounded'
  <1>1. CASE UNCHANGED <<records, sessions>>
    BY <1>1 DEF Founded, SessionsFounded, Founds
  <1>2. ASSUME NEW x \in Accounts, NEW c \in Accounts, NEW reply \in BOOLEAN,
               NEW id \in MessageIds, NEW to, NEW keys,
               DaoSends(x, c, reply, id, to, keys)
        PROVE  Founded' /\ SessionsFounded'
    <2> DEFINE d == Circular(x, c, reply, id, to, keys)
    <2>1. /\ DOMAIN d.deliveries = to
          /\ \A r \in to : d.deliveries[r] = [generation |-> Generation(r),
                                              prekey |-> keys[r]]
          /\ d.sequence = nextSequence + 1 /\ d.sender = x /\ d.senderGen = Generation(x)
      BY <1>2, CircularTyped
    <2>2. /\ records' = records \cup {d}
          /\ to \subseteq Accounts
          /\ sessions' = [p \in Accounts \X Accounts |->
                 IF (p[1] \in to /\ p[2] = x) \/ (p[1] = x /\ p[2] \in to)
                 THEN Pair(p[1], p[2]) ELSE sessions[p]]
      BY <1>2 DEF DaoSends
    <2> HIDE DEF d
    <2>d. ASSUME NEW r \in to
          PROVE  /\ d.deliveries[r].generation = Generation(r)
                 /\ d.deliveries[r].prekey = keys[r]
      <3>1. d.deliveries[r] = [generation |-> Generation(r), prekey |-> keys[r]]
        BY <2>1
      <3> QED BY <3>1
    (* Every recipient has a founding record by now, and an earlier one if *)
    (* no prekey was taken.                                                *)
    <2>3. ASSUME NEW r \in to, keys[r] # 0
          PROVE  Founds(d, r, Generation(r), x, Generation(x))
      BY <2>1, <2>3, <2>d DEF Founds
    <2>4. ASSUME NEW r \in to, keys[r] = 0
          PROVE  \E e \in records : Founds(e, r, Generation(r), x, Generation(x))
      <3>1. 0 \notin devices[r].prekeys
        BY <1>2, Numbers DEF DaoSends, Device, PrekeyIds
      <3>2. Established(r, x)
        BY <1>2, <2>4, <3>1 DEF DaoSends, Keys
      <3>3. sessions[<<r, x>>] = <<Generation(r), Generation(x)>>
        BY <3>2 DEF Established, Pair
      <3>4. Generation(r) \in Nat /\ Generation(x) \in Nat /\ r \in Accounts
        BY <2>2, GenerationTyped DEF TypeOK
      <3> QED BY <3>3, <3>4 DEF Founded
    <2>5. Founded'
      <3> SUFFICES ASSUME NEW r \in Accounts, NEW s \in Accounts, NEW g \in Nat, NEW h \in Nat,
                          sessions'[<<r, s>>] = <<g, h>>
                   PROVE  \E e \in records' : Founds(e, r, g, s, h)
        BY DEF Founded, Founds
      <3>1. CASE r \in to /\ s = x
        <4>1. sessions'[<<r, s>>] = <<Generation(r), Generation(s)>>
          BY <2>2, <3>1 DEF Pair
        <4>2. g = Generation(r) /\ h = Generation(x)
          BY <3>1, <4>1
        <4> QED BY <2>2, <2>3, <2>4, <3>1, <4>2
      <3>2. CASE r = x /\ s \in to /\ ~(r \in to /\ s = x)
        <4>1. sessions'[<<r, s>>] = <<Generation(r), Generation(s)>>
          BY <2>2, <3>2 DEF Pair
        <4>2. g = Generation(x) /\ h = Generation(s)
          BY <3>2, <4>1
        <4>3. PICK e \in records' : Founds(e, s, Generation(s), x, Generation(x))
          BY <2>2, <2>3, <2>4, <3>2
        <4>4. Founds(e, x, Generation(x), s, Generation(s))
          BY <4>3 DEF Founds
        <4> QED BY <3>2, <4>2, <4>4
      <3>3. CASE ~(r \in to /\ s = x) /\ ~(r = x /\ s \in to)
        <4>1. sessions'[<<r, s>>] = sessions[<<r, s>>]
          BY <2>2, <3>3
        <4> QED BY <2>2, <4>1 DEF Founded
      <3> QED BY <3>1, <3>2, <3>3
    <2>6. SessionsFounded'
      <3> SUFFICES ASSUME NEW f \in records', NEW r \in DOMAIN f.deliveries,
                          f.deliveries[r].prekey = 0
                   PROVE  \E e \in records' :
                              /\ e.sequence < f.sequence
                              /\ Founds(e, r, f.deliveries[r].generation, f.sender, f.senderGen)
        BY DEF SessionsFounded, Founds
      <3>1. CASE f \in records
        BY <2>2, <3>1 DEF SessionsFounded, Founds
      <3>2. CASE f = d
        <4>1. r \in to /\ keys[r] = 0 /\ f.deliveries[r].generation = Generation(r)
          BY <2>1, <2>d, <3>2
        <4>2. PICK e \in records : Founds(e, r, Generation(r), x, Generation(x))
          BY <2>4, <4>1
        <4>3. e.sequence < f.sequence
          BY <2>1, <3>2 DEF PostInv, Numbered, Post, TypeOK, MailboxTypeOK
        <4> QED BY <2>1, <2>2, <3>2, <4>1, <4>2, <4>3
      <3> QED BY <2>2, <3>1, <3>2
    <2> QED BY <2>5, <2>6
  <1> QED BY <1>1, <1>2, StepRecords DEF Assign

(* A delivery of the DAO without a prekey continues a session that an      *)
(* earlier record founded, whoever read, replied or re-registered since.   *)
THEOREM SessionsHaveFounders == Spec => []SessionsFounded
  <1>1. Init => Founded /\ SessionsFounded
    BY MailboxNoneAssumption DEF Init, Founded, SessionsFounded, Generations
  <1>2. TypeOK /\ PostInv /\ Founded /\ SessionsFounded /\ [Next]_vars
            => (Founded /\ SessionsFounded)'
    BY FoundedStep
  <1> QED BY <1>1, <1>2, PostAlways, PTL DEF Spec

LEMMA ThreadsStep ==
  ASSUME TypeOK, PostInv, ThreadsFollow, [Next]_vars
  PROVE  ThreadsFollow'
  <1> DEFINE About(c) == {d \in records : d.correspondent = c}
             Follows(t, ds) ==
                /\ t = None <=> ds = {}
                /\ t # None =>
                    /\ \E d \in ds :
                        /\ d.sequence = t.last
                        /\ \A e \in ds : e.sequence <= d.sequence
                        /\ t.status = "answered" => d.reply /\ d.sender = t.assignee
                    /\ (t.status = "open") <=> (t.assignee = None)
  <1>0. None \notin Thread /\ None \notin Accounts
    BY DaoNoneAssumption
  <1>1. \A c \in Accounts : Follows(threads[c], About(c))
    BY DEF ThreadsFollow
  <1>2. SUFFICES ASSUME NEW c \in Accounts PROVE Follows(threads'[c], About(c)')
    BY DEF ThreadsFollow
  <1>3. CASE UNCHANGED <<records, threads>>
    BY <1>1, <1>3
  <1>4. ASSUME NEW x \in Accounts, NEW b \in Accounts, Assign(x, b)
        PROVE  Follows(threads'[c], About(c)')
    <2>1. PICK t \in Thread : /\ threads' = [threads EXCEPT ![b] = t]
                              /\ t.last = threads[b].last
                              /\ t.status # "answered"
                              /\ (t.status = "open") <=> (t.assignee = None)
      BY <1>4, AssignTyped
    <2>2. threads[b] \in Thread /\ records' = records
      BY <1>4, AssignTyped
    <2>3. CASE c = b
      <3>1. threads'[c] = t /\ t # None /\ threads[c] # None
        BY <1>0, <2>1, <2>2, <2>3 DEF TypeOK
      <3> QED BY <1>1, <2>1, <2>2, <2>3, <3>1
    <2>4. CASE c # b
      <3>1. threads'[c] = threads[c]
        BY <2>1, <2>4 DEF TypeOK
      <3> QED BY <1>1, <2>2, <3>1
    <2> QED BY <2>3, <2>4
  <1>5. ASSUME NEW x \in Accounts, NEW b \in Accounts, NEW reply \in BOOLEAN,
               NEW id \in MessageIds, NEW to, NEW keys,
               DaoSends(x, b, reply, id, to, keys)
        PROVE  Follows(threads'[c], About(c)')
    <2> DEFINE d == Circular(x, b, reply, id, to, keys)
               t == ThreadAfter(x, b, reply)
    <2>1. /\ d.sequence = nextSequence + 1 /\ d.sender = x
          /\ d.correspondent = b /\ d.reply = reply
      BY <1>5, CircularTyped
    <2>2. /\ t.last = nextSequence + 1
          /\ t.status = "answered" => reply /\ t.assignee = x
          /\ (t.status = "open") <=> (t.assignee = None)
          /\ t \in Thread
      BY <1>0 DEF ThreadAfter, Thread, TypeOK, MailboxTypeOK
    <2>3. records' = records \cup {d} /\ threads' = [threads EXCEPT ![b] = t]
      BY <1>5 DEF DaoSends
    <2>4. \A e \in records : e.sequence <= nextSequence + 1
      BY DEF PostInv, Numbered, Post, TypeOK, MailboxTypeOK
    <2>5. nextSequence \in Nat
      BY DEF TypeOK, MailboxTypeOK
    <2> HIDE DEF d, t
    <2>6. CASE c = b
      <3>1. threads'[c] = t /\ t # None
        BY <1>0, <2>2, <2>3, <2>6 DEF TypeOK
      <3>2. About(c)' = About(c) \cup {d}
        BY <2>1, <2>3, <2>6
      <3>3. /\ d \in About(c)' /\ \A e \in About(c)' : e.sequence <= d.sequence
        BY <2>1, <2>4, <2>5, <3>2
      <3> QED BY <2>1, <2>2, <3>1, <3>3
    <2>7. CASE c # b
      <3>1. threads'[c] = threads[c] /\ About(c)' = About(c)
        BY <2>1, <2>3, <2>7 DEF TypeOK
      <3> QED BY <1>1, <3>1
    <2> QED BY <2>6, <2>7
  <1> QED BY <1>3, <1>4, <1>5, StepRecords

(* A conversation follows its last record, and is answered only by a reply *)
(* of its assignee.                                                        *)
THEOREM Conversations == Spec => []ThreadsFollow
  <1>1. Init => ThreadsFollow
    BY DEF Init, ThreadsFollow
  <1>2. TypeOK /\ PostInv /\ ThreadsFollow /\ [Next]_vars => ThreadsFollow'
    BY ThreadsStep
  <1> QED BY <1>1, <1>2, PostAlways, PTL DEF Spec

=============================================================================
