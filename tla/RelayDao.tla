------------------------------ MODULE RelayDao ------------------------------
(***************************************************************************)
(* The whole mailbox contract: RelayMailbox and the mailboxes of a DAO     *)
(* (dao.rs), which deliver a message to every current reader at once.      *)
(* Several DAOs share nothing but devices, ids and the sequence, so one    *)
(* name is modelled.  Membership is the group contract's and may change    *)
(* between any two messages; names are the registry's.                     *)
(***************************************************************************)
EXTENDS RelayMailbox

CONSTANTS
    Policies,     \* the readers and managers the authority may configure
    MaxReaders,   \* MAX_READERS
    MaxRevision,  \* bound on the revisions of the policy
    MaxThread     \* bound on the revisions of a conversation

ASSUME DaoAssumption ==
    /\ {MaxReaders, MaxRevision, MaxThread} \subseteq Nat
    /\ Policies \subseteq [all : BOOLEAN, selected : SUBSET Accounts,
                            managers : SUBSET Accounts]
    /\ \A p \in Policies : p.all => p.selected = {}

VARIABLES
    dao,        \* DAOS: the policy of the DAO's inbox
    records,    \* RECORDS: its messages
    threads,    \* THREADS: its conversation with each correspondent
    daoBlocks,  \* BLOCKS: the correspondents it blocks
    sessions,   \* SESSIONS: <<recipient, sender>> to established generations
    members     \* the members of the group with a weight

vars   == <<personal, dao, records, threads, daoBlocks, sessions, members>>
daoAll == <<dao, records, threads, daoBlocks, sessions, members>>

Dao    == [enabled : BOOLEAN, revision : Nat, all : BOOLEAN,
           selected : SUBSET Accounts, managers : SUBSET Accounts]
Thread == [revision : Nat, status : {"open", "assigned", "answered"},
           assignee : Accounts \cup {None}, last : Nat]

Delivery == [generation : Nat, prekey : PrekeyIds \cup {0}]

ASSUME DaoNoneAssumption == None \notin Dao \cup Thread \cup Accounts

TypeOK ==
    /\ MailboxTypeOK
    /\ dao \in Dao \cup {None}
    /\ \A d \in records :
        /\ DOMAIN d.deliveries \subseteq Accounts
        /\ d \in [sequence : Nat, id : MessageIds, sender : Accounts, senderGen : Nat,
                  correspondent : Accounts, reply : BOOLEAN, time : Nat,
                  deliveries : [DOMAIN d.deliveries -> Delivery]]
    /\ threads \in [Accounts -> Thread \cup {None}]
    /\ daoBlocks \subseteq Accounts
    /\ sessions \in [Accounts \X Accounts -> Generations \cup {None}]
    /\ members \subseteq Accounts

Init ==
    /\ MailboxInit
    /\ dao = None
    /\ records = {}
    /\ threads = [c \in Accounts |-> None]
    /\ daoBlocks = {}
    /\ sessions = [p \in Accounts \X Accounts |-> None]
    /\ members = Accounts

-----------------------------------------------------------------------------
(* readers: the group is asked at every message, not at configuration. *)
Readers(d) == IF d.all THEN members ELSE d.selected \cap members

(* A group with too many members has no list of readers. *)
Listable(d) == d.all => Cardinality(members) <= MaxReaders

Manager(x) ==
    \/ x = Authority
    \/ dao.enabled /\ x \in dao.managers /\ Listable(dao) /\ x \in Readers(dao)

Enabled == dao # None /\ dao.enabled /\ Listable(dao)

(* The inbox is configured or sends are accepted on the test release only. *)
BindRegistry ==
    /\ ~Mainnet /\ ~registry
    /\ registry' = TRUE
    /\ UNCHANGED <<devices, rights, inbox, postage, named, now, daoAll>>

RegisterDao ==
    /\ ~Mainnet /\ dao = None
    /\ dao' = [enabled |-> FALSE, revision |-> 1, all |-> FALSE,
               selected |-> {}, managers |-> {}]
    /\ UNCHANGED <<personal, records, threads, daoBlocks, sessions, members>>

(* Configure, by the authority. *)
Configure(p, enabled) ==
    /\ dao # None /\ dao.revision < MaxRevision
    /\ Cardinality(p.selected) <= MaxReaders
    /\ Cardinality(p.managers) <= MaxReaders
    /\ enabled =>
        /\ registry
        /\ Listable(p)
        /\ Readers(p) # {}
        /\ p.managers \subseteq Readers(p)
        /\ p.selected \subseteq members
    /\ dao' = [enabled |-> enabled, revision |-> dao.revision + 1, all |-> p.all,
               selected |-> p.selected, managers |-> p.managers]
    /\ UNCHANGED <<personal, records, threads, daoBlocks, sessions, members>>

(* Faulty block: pending preparations stay valid. *)
SetDaoBlockSilently(x, c) ==
    /\ dao # None /\ dao.revision < MaxRevision
    /\ Manager(x)
    /\ daoBlocks' = daoBlocks \cup {c} \/ daoBlocks' = daoBlocks \ {c}
    /\ UNCHANGED <<personal, dao, records, threads, sessions, members>>

(* SetBlock of a DAO invalidates what senders have prepared. *)
SetDaoBlock(x, c) ==
    /\ dao # None /\ dao.revision < MaxRevision
    /\ Manager(x)
    /\ daoBlocks' = daoBlocks \cup {c} \/ daoBlocks' = daoBlocks \ {c}
    /\ dao' = [dao EXCEPT !.revision = @ + 1]
    /\ UNCHANGED <<personal, records, threads, sessions, members>>

(* Somebody else's conversation is a manager's. *)
MayTake(x, c) ==
    /\ x \in Readers(dao)
    /\ threads[c] # None
    /\ threads[c].assignee \notin {None, x} => Manager(x)

(* A conversation that x takes or gives back. *)
Taken(thread, x, take) ==
    [revision |-> thread.revision + 1,
     status   |-> IF take THEN "assigned" ELSE "open",
     assignee |-> IF take THEN x ELSE None,
     last     |-> thread.last]

(* Assign: a reader takes a conversation or gives it back. *)
Assign(x, c) ==
    /\ Enabled
    /\ MayTake(x, c)
    /\ threads[c].revision < MaxThread
    /\ \E take \in BOOLEAN :
           threads' = [threads EXCEPT ![c] = Taken(@, x, take)]
    /\ UNCHANGED <<personal, dao, records, daoBlocks, sessions, members>>

-----------------------------------------------------------------------------
(* Faulty session: any generations will do. *)
EstablishedOnce(r, s) == sessions[<<r, s>>] # None

(* The session between two devices in this DAO exists. *)
Established(r, s) == sessions[<<r, s>>] = Pair(r, s)

(* Faulty conversation: still names the message before. *)
ThreadAfterBehind(x, c, reply) ==
    LET old      == threads[c]
        assignee == IF reply THEN x
                    ELSE IF old # None /\ old.assignee \in Readers(dao)
                         THEN old.assignee ELSE None
    IN  [revision |-> IF old = None THEN 1 ELSE old.revision + 1,
         status   |-> IF reply THEN "answered"
                      ELSE IF assignee # None THEN "assigned" ELSE "open",
         assignee |-> assignee,
         last     |-> nextSequence]

(* The conversation after a message of x about c with the next sequence. *)
ThreadAfter(x, c, reply) ==
    LET old      == threads[c]
        assignee == IF reply THEN x
                    ELSE IF old # None /\ old.assignee \in Readers(dao)
                         THEN old.assignee ELSE None
    IN  [revision |-> IF old = None THEN 1 ELSE old.revision + 1,
         status   |-> IF reply THEN "answered"
                      ELSE IF assignee # None THEN "assigned" ELSE "open",
         assignee |-> assignee,
         last     |-> nextSequence + 1]

(* send of dao.rs: a correspondent x = c writes to the readers, or a       *)
(* reader x replies to the correspondent c and the other readers, with a   *)
(* prekey for each device x has no session with (keys).                    *)
DaoSend(x, c, reply, id) ==
    LET to == (Readers(dao) \cup (IF reply THEN {c} ELSE {})) \ {x}
    IN  /\ Enabled
        /\ registry /\ {x, c} \subseteq named
        /\ Active(x)
        /\ sentIds[<<x, id>>] = 0
        /\ IF reply THEN MayTake(x, c) /\ (c # x => <<c, Authority>> \notin blocked)
                    ELSE c = x
        /\ c \notin daoBlocks
        /\ to # {}
        /\ \A r \in to : Active(r)
        /\ Rested(x)
        /\ threads[c] # None => threads[c].revision < MaxThread
        /\ \E keys \in [to -> PrekeyIds \cup {0}] :
            /\ \A r \in to : IF Established(r, x) THEN keys[r] = 0
                                                 ELSE keys[r] \in devices[r].prekeys
            /\ devices' = [r \in Accounts |->
                   IF r \in to THEN Without(devices[r], keys[r]) ELSE devices[r]]
            /\ records' = records \cup
                   {[sequence |-> nextSequence + 1, id |-> id, sender |-> x,
                     senderGen |-> Generation(x), correspondent |-> c, reply |-> reply,
                     deliveries |-> [r \in to |-> [generation |-> Generation(r),
                                                   prekey |-> keys[r]]],
                     time |-> now]}
        /\ sessions' = [p \in Accounts \X Accounts |->
               IF (p[1] \in to /\ p[2] = x) \/ (p[1] = x /\ p[2] \in to)
               THEN Pair(p[1], p[2]) ELSE sessions[p]]
        /\ threads' = [threads EXCEPT ![c] = ThreadAfter(x, c, reply)]
        /\ Stamp(x, id)
        /\ UNCHANGED <<rights, inbox, world, dao, daoBlocks, members>>

(* The group changes. *)
Regroup ==
    /\ \E a \in Accounts :
           members' = IF a \in members THEN members \ {a} ELSE members \cup {a}
    /\ UNCHANGED <<personal, dao, records, threads, daoBlocks, sessions>>

Next ==
    \/ PersonalNext /\ UNCHANGED daoAll
    \/ BindRegistry \/ RegisterDao \/ Regroup
    \/ \E p \in Policies, enabled \in BOOLEAN : Configure(p, enabled)
    \/ \E x \in Addresses, c \in Accounts : SetDaoBlock(x, c)
    \/ \E x, c \in Accounts :
        \/ Assign(x, c)
        \/ \E reply \in BOOLEAN, id \in MessageIds : DaoSend(x, c, reply, id)

Spec == Init /\ [][Next]_vars

-----------------------------------------------------------------------------
(* What the deliveries of a record and a personal message have in common:  *)
(* a letter from one device to another, with the prekey it takes or 0.     *)
Letters ==
    {[sequence |-> m.sequence, from |-> <<m.sender, m.senderGen>>,
      to |-> <<m.recipient, m.recipientGen>>, prekey |-> m.prekey] : m \in inbox}
    \cup UNION {{[sequence |-> d.sequence, from |-> <<d.sender, d.senderGen>>,
                  to |-> <<r, d.deliveries[r].generation>>,
                  prekey |-> d.deliveries[r].prekey] : r \in DOMAIN d.deliveries}
                : d \in records}

(* A one-time prekey of a device is taken by one letter only, personal or  *)
(* of a DAO, however often its owner registers, revokes and adds prekeys.  *)
PrekeysSpentOnce ==
    \A l, m \in Letters :
        l.prekey # 0 /\ l.prekey = m.prekey /\ l.to = m.to => l = m

(* Two devices start one personal session only, however often consent is   *)
(* taken back and given again.                                             *)
OneInitialEach ==
    \A m, n \in inbox :
        /\ m.prekey # 0 /\ n.prekey # 0
        /\ <<m.recipient, m.recipientGen>> = <<n.recipient, n.recipientGen>>
        /\ <<m.sender, m.senderGen>> = <<n.sender, n.senderGen>>
        => m = n

(* A delivery of a DAO without a prekey continues a session: an earlier    *)
(* record between the same two devices, in either direction, took one.     *)
SessionsFounded ==
    \A d \in records : \A r \in DOMAIN d.deliveries :
        d.deliveries[r].prekey = 0 =>
            \E e \in records :
                /\ e.sequence < d.sequence
                /\ \/ /\ <<e.sender, e.senderGen>> = <<d.sender, d.senderGen>>
                      /\ r \in DOMAIN e.deliveries
                      /\ e.deliveries[r].generation = d.deliveries[r].generation
                      /\ e.deliveries[r].prekey # 0
                   \/ /\ <<e.sender, e.senderGen>> = <<r, d.deliveries[r].generation>>
                      /\ d.sender \in DOMAIN e.deliveries
                      /\ e.deliveries[d.sender].generation = d.senderGen
                      /\ e.deliveries[d.sender].prekey # 0

(* The Sent query, which settles a send whose answer was lost, is right:   *)
(* it knows the sequence of each accepted message, personal or of a DAO,   *)
(* and of nothing else, and every sequence up to the last is in use.       *)
ReceiptsTrue ==
    /\ \A s \in Accounts, id \in MessageIds, n \in 1..MaxSequence :
        sentIds[<<s, id>>] = n <=>
            \E m \in inbox \cup records : m.sender = s /\ m.id = id /\ m.sequence = n
    /\ \A n \in 1..MaxSequence :
        Cardinality({m \in inbox \cup records : m.sequence = n})
            = IF n <= nextSequence THEN 1 ELSE 0

(* One sender's messages, personal and of a DAO, keep the cooldown. *)
SendsSpaced ==
    \A m, n \in inbox \cup records :
        m.sender = n.sender /\ m.sequence < n.sequence => n.time >= m.time + Cooldown

(* A conversation names the last record about its correspondent, and is    *)
(* marked answered only if that record is a reply of its assignee.         *)
ThreadsFollow ==
    \A c \in Accounts :
        LET about == {d \in records : d.correspondent = c}
        IN  /\ threads[c] = None <=> about = {}
            /\ threads[c] # None =>
                /\ \E d \in about :
                    /\ d.sequence = threads[c].last
                    /\ \A e \in about : e.sequence <= d.sequence
                    /\ threads[c].status = "answered" =>
                           d.reply /\ d.sender = threads[c].assignee
                /\ (threads[c].status = "open") <=> (threads[c].assignee = None)

(* A sender prepares a message for a revision of the policy: whenever the  *)
(* policy or the blocked correspondents change, the revision grows.        *)
PolicyVersioned ==
    [][dao # None /\ (dao' # dao \/ daoBlocks' # daoBlocks) =>
           dao'.revision > dao.revision]_vars

(* A generation stands for one device: it never goes back, and as long as  *)
(* it stays the device stays active or revoked and no prekey returns.      *)
DevicesVersioned ==
    [][\A a \in Accounts : devices[a] # None =>
           /\ devices'[a].generation >= devices[a].generation
           /\ devices'[a].generation = devices[a].generation =>
               /\ devices'[a].active = devices[a].active
               /\ \A k \in devices'[a].prekeys \ devices[a].prekeys : k > devices[a].top]_vars

=============================================================================
