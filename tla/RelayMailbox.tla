---------------------------- MODULE RelayMailbox ----------------------------
(***************************************************************************)
(* The personal half of contracts/neta-relay-mailbox (lib.rs, policy.rs):  *)
(* devices with their generations and prekeys, the consent of a recipient  *)
(* to a sender, and encrypted messages under one sequence.                 *)
(*                                                                         *)
(* Each message of the contract is one action, because the chain rolls all *)
(* writes back when a handler fails.  What a caller expects (generations,  *)
(* revisions) equals what is stored or the call changes nothing, so it is  *)
(* not a parameter.  Bundles, fingerprints and ciphertexts are left out:   *)
(* the contract stores them and never looks inside.  RelayDao adds the     *)
(* mailboxes of DAOs, which share devices, message ids and the sequence.   *)
(***************************************************************************)
EXTENDS Integers, FiniteSets

CONSTANTS
    Accounts,
    Authority,      \* the address that administers the DAO
    Contacts,       \* the pairs <<recipient, sender>> that deal with each other
    MessageIds,
    None,
    Mainnet,        \* the release for juno-1, or the test release for uni-7
    Cooldown,       \* SEND_COOLDOWN_SECONDS
    MaxPrekeys,     \* MAX_PREKEYS
    TopPrekey,      \* bound on prekey ids
    MaxGeneration,  \* bound on device generations
    MaxSequence,    \* bound on messages
    MaxTime         \* bound on block time

Addresses == Accounts \cup {Authority}

ASSUME MailboxAssumption ==
    /\ Contacts \subseteq Accounts \X Addresses
    /\ Mainnet \in BOOLEAN
    /\ {Cooldown, MaxPrekeys, TopPrekey, MaxGeneration, MaxSequence, MaxTime} \subseteq Nat

PrekeyIds   == 1..TopPrekey
Generations == Nat \X Nat

Device  == [generation : Nat, active : BOOLEAN, prekeys : SUBSET PrekeyIds, top : Nat]
Message == [sequence : Nat, id : MessageIds, sender : Accounts, senderGen : Nat,
            recipient : Accounts, recipientGen : Nat, prekey : PrekeyIds \cup {0},
            time : Nat]

ASSUME MailboxNoneAssumption == None \notin Device \cup Generations \cup Nat

VARIABLES
    devices,      \* DEVICES
    consent,      \* CONSENT: <<recipient, sender>> to the generations agreed on
    initialUsed,  \* INITIAL_USED, with the same keys
    blocked,      \* BLOCKED: pairs <<recipient, sender>>
    inbox,        \* INBOX: the personal messages
    sentIds,      \* SENT_IDS: <<sender, id>> to its sequence, 0 for none
    nextSequence, \* NEXT_SEQUENCE
    lastSend,     \* LAST_SEND
    registry,     \* REGISTRY is bound
    named,        \* the accounts that own an active name in the registry
    now           \* block time

rights   == <<consent, initialUsed, blocked>>
postage  == <<sentIds, nextSequence, lastSend>>
world    == <<registry, named, now>>
personal == <<devices, rights, inbox, postage, world>>

MailboxTypeOK ==
    /\ devices \in [Accounts -> Device \cup {None}]
    /\ consent \in [Accounts \X Accounts -> Generations \cup {None}]
    /\ initialUsed \in [Accounts \X Accounts -> Generations \cup {None}]
    /\ blocked \subseteq Accounts \X Addresses
    /\ inbox \subseteq Message
    /\ sentIds \in [Accounts \X MessageIds -> Nat]
    /\ nextSequence \in Nat
    /\ lastSend \in [Accounts -> Nat \cup {None}]
    /\ registry \in BOOLEAN
    /\ named \subseteq Accounts
    /\ now \in Nat

MailboxInit ==
    /\ devices = [a \in Accounts |-> None]
    /\ consent = [p \in Accounts \X Accounts |-> None]
    /\ initialUsed = [p \in Accounts \X Accounts |-> None]
    /\ blocked = {}
    /\ inbox = {}
    /\ sentIds = [p \in Accounts \X MessageIds |-> 0]
    /\ nextSequence = 0
    /\ lastSend = [a \in Accounts |-> None]
    /\ registry = Mainnet
    /\ named = Accounts
    /\ now = 0

-----------------------------------------------------------------------------
Generation(a) == IF devices[a] = None THEN 0 ELSE devices[a].generation

Active(a) == devices[a] # None /\ devices[a].active

(* The device generations of a recipient and a sender. *)
Pair(r, s) == <<Generation(r), Generation(s)>>

IsLargest(k, S) == k \in S /\ \A l \in S : l <= k

(* Prekeys a client may upload at once. *)
Bundles == {S \in SUBSET PrekeyIds : S # {} /\ Cardinality(S) <= MaxPrekeys}

(* A device after its revocation, with more prekeys and without one. *)
Revoked(d) ==
    [generation |-> d.generation + 1, active |-> FALSE, prekeys |-> {}, top |-> d.top]
Restocked(d, bundle, last) ==
    [generation |-> d.generation, active |-> d.active,
     prekeys |-> d.prekeys \cup bundle, top |-> last]
Without(d, key) == [d EXCEPT !.prekeys = d.prekeys \ {key}]

(* active_name: without a registry nobody needs a name. *)
ActiveName(a) == registry => a \in named

(* The cooldown that personal and DAO messages of a sender share. *)
Rested(s) == lastSend[s] # None => now >= lastSend[s] + Cooldown

(* Faulty stamp: the message id is not remembered. *)
StampAnonymous(s, id) ==
    /\ nextSequence < MaxSequence
    /\ nextSequence' = nextSequence + 1
    /\ sentIds' = sentIds
    /\ lastSend' = [lastSend EXCEPT ![s] = now]

(* What every accepted message leaves behind. *)
Stamp(s, id) ==
    /\ nextSequence < MaxSequence
    /\ nextSequence' = nextSequence + 1
    /\ sentIds' = [sentIds EXCEPT ![<<s, id>>] = nextSequence + 1]
    /\ lastSend' = [lastSend EXCEPT ![s] = now]

-----------------------------------------------------------------------------
(* Register: a new device replaces the old one, under a new generation. *)
Register(a) ==
    /\ Generation(a) < MaxGeneration
    /\ \E bundle \in Bundles, last \in PrekeyIds :
        /\ IsLargest(last, bundle)
        /\ devices' = [devices EXCEPT ![a] =
               [generation |-> Generation(a) + 1, active |-> TRUE,
                prekeys |-> bundle, top |-> last]]
    /\ UNCHANGED <<rights, inbox, postage, world>>

(* Revoke: also of a device that is revoked already. *)
Revoke(a) ==
    /\ devices[a] # None
    /\ Generation(a) < MaxGeneration
    /\ devices' = [devices EXCEPT ![a] = Revoked(@)]
    /\ UNCHANGED <<rights, inbox, postage, world>>

(* AddPrekeys: the ids of a generation only grow. *)
AddPrekeys(a) ==
    /\ Active(a)
    /\ \E bundle \in Bundles, last \in PrekeyIds :
        /\ IsLargest(last, bundle)
        /\ Cardinality(devices[a].prekeys) + Cardinality(bundle) <= MaxPrekeys
        /\ \A k \in bundle : k > devices[a].top
        /\ devices' = [devices EXCEPT ![a] = Restocked(@, bundle, last)]
    /\ UNCHANGED <<rights, inbox, postage, world>>

(* AllowSender: consent is for the two devices as they are now. *)
AllowSender(r, s) ==
    /\ \/ /\ Active(r) /\ Active(s)
          /\ consent' = [consent EXCEPT ![<<r, s>>] = Pair(r, s)]
       \/ consent[<<r, s>>] # None /\ consent' = [consent EXCEPT ![<<r, s>>] = None]
    /\ UNCHANGED <<devices, initialUsed, blocked, inbox, postage, world>>

SetBlock(r, s) ==
    /\ \/ <<r, s>> \notin blocked /\ blocked' = blocked \cup {<<r, s>>}
       \/ <<r, s>> \in blocked /\ blocked' = blocked \ {<<r, s>>}
    /\ UNCHANGED <<devices, consent, initialUsed, inbox, postage, world>>

(* Faulty lookup: under the reversed key. *)
SessionStartedReversed(r, s) == initialUsed[<<s, r>>] = Pair(r, s)

(* An initial message between these generations was accepted. *)
SessionStarted(r, s) == initialUsed[<<r, s>>] = Pair(r, s)

(* Faulty prekey: still offered after its use. *)
DevicesKept(r, key) == devices

(* The devices after a letter to r took a prekey. *)
DevicesWithout(r, key) == [devices EXCEPT ![r] = Without(@, key)]

(* SendInitial takes a prekey of the recipient and establishes the session *)
(* of two generations; Send follows up without one.                        *)
Send(s, r, id, key) ==
    /\ ActiveName(s)
    /\ sentIds[<<s, id>>] = 0
    /\ <<r, s>> \notin blocked
    /\ Active(s) /\ Active(r)
    /\ consent[<<r, s>>] = Pair(r, s)
    /\ key # 0 =>
        /\ ~SessionStarted(r, s)
        /\ key \in devices[r].prekeys
    /\ Rested(s)
    /\ Stamp(s, id)
    /\ inbox' = inbox \cup
           {[sequence |-> nextSequence + 1, id |-> id, sender |-> s,
             senderGen |-> Generation(s), recipient |-> r,
             recipientGen |-> Generation(r), prekey |-> key, time |-> now]}
    /\ IF key = 0
       THEN UNCHANGED <<devices, initialUsed>>
       ELSE /\ devices' = DevicesWithout(r, key)
            /\ initialUsed' = [initialUsed EXCEPT ![<<r, s>>] = Pair(r, s)]
    /\ UNCHANGED <<consent, blocked, world>>

(* Names are bought, lapse and change hands in the registry. *)
Rename ==
    /\ \E a \in Accounts :
           named' = IF a \in named THEN named \ {a} ELSE named \cup {a}
    /\ UNCHANGED <<devices, rights, inbox, postage, registry, now>>

Tick ==
    /\ now < MaxTime
    /\ now' = now + 1
    /\ UNCHANGED <<devices, rights, inbox, postage, registry, named>>

PersonalNext ==
    \/ \E a \in Accounts : Register(a) \/ Revoke(a) \/ AddPrekeys(a)
    \/ \E r \in Accounts, s \in Addresses :
        /\ <<r, s>> \in Contacts
        /\ \/ SetBlock(r, s)
           \/ s \in Accounts /\ AllowSender(r, s)
           \/ /\ s \in Accounts
              /\ \E id \in MessageIds, key \in PrekeyIds \cup {0} : Send(s, r, id, key)
    \/ Rename \/ Tick

=============================================================================
