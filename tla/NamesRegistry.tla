--------------------------- MODULE NamesRegistry ---------------------------
(***************************************************************************)
(* The personal-name registry, contracts/neta-names-v2/src/lib.rs: paid    *)
(* commit/reveal registration, renewal with a grace period, and transfers  *)
(* that the recipient accepts.  One action is one accepted transaction; a  *)
(* rejected transaction changes nothing and is a stutter.                  *)
(*                                                                         *)
(* A quote is an arbitrary record chosen by the caller: on the price       *)
(* snapshot path only the price is signed, so every other field is the     *)
(* caller's.  Fees, prices and signatures are abstracted to the version    *)
(* numbers the contract compares; the quote's own five-minute window is    *)
(* satisfiable at any time and is abstracted with them.                    *)
(***************************************************************************)
EXTENDS Integers

CONSTANTS
    Names,        \* canonical labels
    Addresses,    \* accounts that own, pay for and receive names
    Admins,       \* accounts that may come to administer the registry
    Nonces,       \* quote nonces
    Salts,        \* commitment salts
    None,         \* an absent storage entry
    YEAR, GRACE, COMMIT_TTL, OFFER_TTL,  \* durations, policy.rs and lib.rs
    MaxYears,     \* the longest term and the longest remaining life, in years
    BlockSteps,   \* what the clock may advance by between two blocks
    MaxHeight,    \* bound on the block height
    MaxOffers,    \* bound on the offers made for one name
    MaxVersion    \* bound on signer and tariff versions

ASSUME DurationsAssumption ==
    /\ YEAR \in Nat \ {0}
    /\ GRACE \in Nat
    /\ COMMIT_TTL \in Nat
    /\ OFFER_TTL \in Nat
    /\ MaxYears \in Nat \ {0}
    /\ BlockSteps \subseteq Nat

ASSUME BoundsAssumption ==
    MaxHeight \in Nat /\ MaxOffers \in Nat /\ MaxVersion \in Nat

(* The operations of a quote, msg.rs. *)
Operations == {"register", "renew"}

Identity == [owner : Addresses, generation : Nat, ownership_revision : Nat,
             expires_at : Nat]
Hash == [owner : Addresses, name : Names, salt : Salts]
Commitment == [hash : Hash, height : Nat, expires_at : Nat]
TransferOffer == [id : Nat, owner : Addresses, recipient : Addresses,
                  generation : Nat, ownership_revision : Nat, expires_at : Nat]
Config == [admin : Admins, purchases_paused : BOOLEAN,
           signer_version : Nat, tariff_version : Nat]

(* How the lease of a name reads in NameLease. *)
Leasehold == [holder : Addresses, until : Nat, generation : Nat, revision : Nat]

ASSUME NoneAssumption ==
    None \notin Identity \cup Commitment \cup TransferOffer \cup Leasehold \cup Names

VARIABLES
    names,     \* NAMES
    reverse,   \* REVERSE: the primary name of an address
    commits,   \* COMMITS
    nonces,    \* NONCES: the <<payer, nonce>> pairs used
    offers,    \* OFFERS
    offerIds,  \* OFFER_IDS
    config,    \* CONFIG
    now,       \* env.block.time in seconds
    height     \* env.block.height

vars == <<names, reverse, commits, nonces, offers, offerIds, config, now, height>>

TypeOK ==
    /\ names \in [Names -> Identity \cup {None}]
    /\ reverse \in [Addresses -> Names \cup {None}]
    /\ commits \in [Addresses -> Commitment \cup {None}]
    /\ nonces \subseteq Addresses \X Nonces
    /\ offers \in [Names -> TransferOffer \cup {None}]
    /\ offerIds \in [Names -> Nat]
    /\ config \in Config
    /\ now \in Nat
    /\ height \in Nat

-----------------------------------------------------------------------------
(* The record of n is active: the clock has not reached its expiry. *)
Active(n) == names[n] # None /\ now < names[n].expires_at

(* Faulty availability: a lapsed name goes without a grace period. *)
AvailableAtExpiry(n) == names[n] # None => now >= names[n].expires_at

(* n was never registered, or its grace period is over (Resolve.available). *)
Available(n) == names[n] # None => now >= names[n].expires_at + GRACE

(* active_name: the name an address shows, None when it has none. *)
ActiveName(a) ==
    LET n == reverse[a]
    IN  IF n # None /\ Active(n) /\ names[n].owner = a THEN n ELSE None

(* Faulty owner_slot: forgotten. *)
OwnerSlotUnchecked(a, n) == TRUE

(* owner_slot: the address has no active name other than the wanted one. *)
OwnerSlot(a, n) == ActiveName(a) \in {None, n}

(* clear_reverse, as the map that remains. *)
ClearReverse(a, n) ==
    IF reverse[a] = n THEN [reverse EXCEPT ![a] = None] ELSE reverse

(* The offer of n was made by its present owner in its present revision. *)
OfferCurrent(n) ==
    /\ names[n] # None
    /\ offers[n] # None
    /\ offers[n].owner = names[n].owner
    /\ offers[n].generation = names[n].generation
    /\ offers[n].ownership_revision = names[n].ownership_revision

(* active_offer returns the stored offer. *)
OfferActive(n) == OfferCurrent(n) /\ Active(n) /\ now < offers[n].expires_at

(* The generation the next registration of n has to name. *)
NextGeneration(n) == IF names[n] = None THEN 1 ELSE names[n].generation + 1

-----------------------------------------------------------------------------
Init ==
    /\ names = [n \in Names |-> None]
    /\ reverse = [a \in Addresses |-> None]
    /\ commits = [a \in Addresses |-> None]
    /\ nonces = {}
    /\ offers = [n \in Names |-> None]
    /\ offerIds = [n \in Names |-> 0]
    /\ config \in [admin : Admins, purchases_paused : {TRUE},
                   signer_version : {1}, tariff_version : {1}]
    /\ now = 0
    /\ height = 0

(* The checks of verify_quote on a quote of this name, payer and nonce. *)
QuoteAccepted(q, payer, years, nonce) ==
    /\ ~config.purchases_paused
    /\ years \in 1..MaxYears
    /\ q.tariff = config.tariff_version
    /\ q.signer = config.signer_version
    /\ q.generation # 0
    /\ q.revision # 0
    /\ <<payer, nonce>> \notin nonces

(* Faulty save: the key and the value of REVERSE swapped. *)
SaveIdentitySwapped(n, record, rev, payer, nonce) ==
    /\ names' = [names EXCEPT ![n] = record]
    /\ reverse' = [rev EXCEPT ![record.owner] = record.owner]
    /\ nonces' = nonces \cup {<<payer, nonce>>}

(* pay saves the identity, makes it the owner's primary name and spends    *)
(* the nonce; rev is the reverse map after clear_reverse.                  *)
SaveIdentity(n, record, rev, payer, nonce) ==
    /\ names' = [names EXCEPT ![n] = record]
    /\ reverse' = [rev EXCEPT ![record.owner] = n]
    /\ nonces' = nonces \cup {<<payer, nonce>>}

(* pay with Operation::Register: the owner pays, reveals the commitment it *)
(* made in an earlier block and takes an available name.                   *)
Register(n, payer, q, years, nonce, salt) ==
    /\ QuoteAccepted(q, payer, years, nonce)
    /\ OwnerSlot(payer, n)
    /\ q.revision = 1
    /\ q.expected = 0
    /\ q.generation = NextGeneration(n)
    /\ Available(n)
    /\ commits[payer] # None
    /\ commits[payer].hash = [owner |-> payer, name |-> n, salt |-> salt]
    /\ height > commits[payer].height
    /\ now < commits[payer].expires_at
    /\ SaveIdentity(n,
           [owner |-> payer, generation |-> q.generation,
            ownership_revision |-> q.revision, expires_at |-> now + YEAR * years],
           IF names[n] = None THEN reverse ELSE ClearReverse(names[n].owner, n),
           payer, nonce)
    /\ commits' = [commits EXCEPT ![payer] = None]
    /\ offers' = [offers EXCEPT ![n] = None]
    /\ UNCHANGED <<offerIds, config, now, height>>

(* The later of two times. *)
Later(s, t) == IF s >= t THEN s ELSE t

(* pay with Operation::Renew: anyone pays to extend the identity the quote *)
(* was made for.  The quote names an owner, a generation, a revision and   *)
(* an expiry, and each must be the present one.                            *)
Renew(n, payer, owner, q, years, nonce) ==
    LET r == names[n]
        expires == Later(now, r.expires_at) + YEAR * years
    IN  /\ QuoteAccepted(q, payer, years, nonce)
        /\ OwnerSlot(owner, n)
        /\ r # None
        /\ owner = r.owner
        /\ q.generation = r.generation
        /\ q.revision = r.ownership_revision
        /\ q.expected = r.expires_at
        /\ now < r.expires_at + GRACE
        /\ expires <= now + MaxYears * YEAR
        /\ SaveIdentity(n,
               [owner |-> owner, generation |-> q.generation,
                ownership_revision |-> q.revision, expires_at |-> expires],
               reverse, payer, nonce)
        /\ UNCHANGED <<commits, offers, offerIds, config, now, height>>

(* ExecuteMsg::Commit: no unexpired commitment is overwritten. *)
Commit(a, hash) ==
    /\ commits[a] # None => now >= commits[a].expires_at
    /\ commits' = [commits EXCEPT ![a] =
           [hash |-> hash, height |-> height, expires_at |-> now + COMMIT_TTL]]
    /\ UNCHANGED <<names, reverse, nonces, offers, offerIds, config, now, height>>

(* ExecuteMsg::CancelCommit. *)
CancelCommit(a, hash) ==
    /\ commits[a] # None
    /\ commits[a].hash = hash
    /\ commits' = [commits EXCEPT ![a] = None]
    /\ UNCHANGED <<names, reverse, nonces, offers, offerIds, config, now, height>>

(* Faulty offer id: counted from the stored offer, which may be gone. *)
OfferIdFromOffer(n) == IF offers[n] = None THEN 1 ELSE offers[n].id + 1

(* increment(OFFER_IDS): the id of the next offer of n. *)
NextOfferId(n) == offerIds[n] + 1

(* ExecuteMsg::OfferTransfer: replaces whatever offer was there, under the *)
(* name's next offer id.                                                   *)
OfferTransfer(n, sender, recipient, expires, generation, revision) ==
    LET r  == names[n]
        id == NextOfferId(n)
    IN  /\ r # None
        /\ sender = r.owner
        /\ generation = r.generation
        /\ revision = r.ownership_revision
        /\ recipient # r.owner
        /\ now < r.expires_at
        /\ expires > now
        /\ expires <= r.expires_at
        /\ expires <= now + OFFER_TTL
        /\ id <= MaxOffers
        /\ offers' = [offers EXCEPT ![n] =
               [id |-> id, owner |-> r.owner, recipient |-> recipient,
                generation |-> r.generation,
                ownership_revision |-> r.ownership_revision,
                expires_at |-> expires]]
        /\ offerIds' = [offerIds EXCEPT ![n] = id]
        /\ UNCHANGED <<names, reverse, commits, nonces, config, now, height>>

(* ExecuteMsg::AcceptTransfer: the recipient takes over the remaining term. *)
AcceptTransfer(n, sender, id) ==
    LET r == names[n]
        o == offers[n]
    IN  /\ OfferActive(n)
        /\ id = o.id
        /\ sender = o.recipient
        /\ OwnerSlot(o.recipient, n)
        /\ names' = [names EXCEPT
               ![n].owner = o.recipient,
               ![n].ownership_revision = r.ownership_revision + 1]
        /\ reverse' = [ClearReverse(r.owner, n) EXCEPT ![o.recipient] = n]
        /\ offers' = [offers EXCEPT ![n] = None]
        /\ UNCHANGED <<commits, nonces, offerIds, config, now, height>>

(* ExecuteMsg::CancelTransfer: by the present owner, expired or not. *)
CancelTransfer(n, sender, id) ==
    /\ OfferCurrent(n)
    /\ sender = names[n].owner
    /\ id = offers[n].id
    /\ offers' = [offers EXCEPT ![n] = None]
    /\ UNCHANGED <<names, reverse, commits, nonces, offerIds, config, now, height>>

-----------------------------------------------------------------------------
(* The administrator's messages; each checks that the sender is the admin. *)
SetAdmin(sender, next) ==
    /\ sender = config.admin
    /\ config' = [config EXCEPT !.admin = next]
    /\ UNCHANGED <<names, reverse, commits, nonces, offers, offerIds, now, height>>

SetPurchasesPaused(sender, paused) ==
    /\ sender = config.admin
    /\ config' = [config EXCEPT !.purchases_paused = paused]
    /\ UNCHANGED <<names, reverse, commits, nonces, offers, offerIds, now, height>>

RotateQuoteKey(sender, expected) ==
    /\ sender = config.admin
    /\ expected = config.signer_version
    /\ expected < MaxVersion
    /\ config' = [config EXCEPT !.signer_version = expected + 1]
    /\ UNCHANGED <<names, reverse, commits, nonces, offers, offerIds, now, height>>

SetTariff(sender, expected) ==
    /\ sender = config.admin
    /\ expected = config.tariff_version
    /\ expected < MaxVersion
    /\ config' = [config EXCEPT !.tariff_version = expected + 1]
    /\ UNCHANGED <<names, reverse, commits, nonces, offers, offerIds, now, height>>

(* The chain makes a block: env.block of the transactions that follow. *)
NextBlock ==
    /\ height < MaxHeight
    /\ height' = height + 1
    /\ \E d \in BlockSteps : now' = now + d
    /\ UNCHANGED <<names, reverse, commits, nonces, offers, offerIds, config>>

-----------------------------------------------------------------------------
(* A quote names its subject by value.  The quotes a caller can hold are   *)
(* the one that fits the present state and those one field away from it,   *)
(* as they were made before or for something else.                         *)
Stale(q, field) == [q EXCEPT ![field] = @ - 1]

Quotes(q) == {q} \cup {Stale(q, field) : field \in DOMAIN q}

CurrentQuote(generation, revision, expected) ==
    [generation |-> generation, revision |-> revision, expected |-> expected,
     tariff |-> config.tariff_version, signer |-> config.signer_version]

RegisterAny ==
    \E n \in Names, payer \in Addresses, nonce \in Nonces, salt \in Salts,
       years \in 1..MaxYears :
        \E q \in Quotes(CurrentQuote(NextGeneration(n), 1, 0)) :
            Register(n, payer, q, years, nonce, salt)

RenewAny ==
    \E n \in Names :
        /\ names[n] # None
        /\ \E payer, owner \in Addresses, nonce \in Nonces, years \in 1..MaxYears,
              q \in Quotes(CurrentQuote(names[n].generation,
                       names[n].ownership_revision, names[n].expires_at)) :
               Renew(n, payer, owner, q, years, nonce)

OfferAny ==
    \E n \in Names :
        /\ names[n] # None
        /\ \E sender, recipient \in Addresses, d \in 0..OFFER_TTL + 1,
              generation \in {names[n].generation, names[n].generation - 1},
              revision \in {names[n].ownership_revision,
                            names[n].ownership_revision - 1} :
               OfferTransfer(n, sender, recipient, now + d, generation, revision)

AnswerOfferAny ==
    \E n \in Names, sender \in Addresses, id \in 1..MaxOffers :
        AcceptTransfer(n, sender, id) \/ CancelTransfer(n, sender, id)

CommitAny ==
    \E a \in Addresses, hash \in Hash : Commit(a, hash) \/ CancelCommit(a, hash)

AdminAny ==
    \E sender \in Admins :
        \/ \E next \in Admins : SetAdmin(sender, next)
        \/ \E paused \in BOOLEAN : SetPurchasesPaused(sender, paused)
        \/ \E expected \in 1..MaxVersion : RotateQuoteKey(sender, expected)
        \/ \E expected \in 1..MaxVersion : SetTariff(sender, expected)

Next == RegisterAny \/ RenewAny \/ OfferAny \/ AnswerOfferAny \/ CommitAny \/ AdminAny \/ NextBlock

Spec == Init /\ [][Next]_vars

-----------------------------------------------------------------------------
(* The primary-name index agrees with the registry: an address that has an *)
(* active name is shown under it (NameOf after Register, Renew and         *)
(* AcceptTransfer moved REVERSE and clear_reverse ran), and an index entry *)
(* never leads to a name of somebody else.                                 *)
ReverseAgrees ==
    /\ \A n \in Names : Active(n) => reverse[names[n].owner] = n
    /\ \A a \in Addresses :
        reverse[a] # None => names[reverse[a]] # None /\ names[reverse[a]].owner = a

(* No address ever holds two active names, although owner_slot looks only  *)
(* at the one name REVERSE remembers, and an expired name can be renewed   *)
(* after its owner acquired another.                                       *)
OneActiveName ==
    \A m, n \in Names :
        Active(m) /\ Active(n) /\ names[m].owner = names[n].owner => m = n

(* However renewals, lapses and re-registrations are combined, nobody      *)
(* holds more than MaxYears of remaining term.                             *)
ExpiryHorizon ==
    \A n \in Names : names[n] # None => names[n].expires_at <= now + MaxYears * YEAR

(* The stored offer of a name always belongs to its present identity, ends *)
(* within its term and goes to somebody else than the owner, whatever      *)
(* renewals, acceptances and re-registrations came after it.  So the       *)
(* comparison in active_offer and cancel_transfer is a second line of      *)
(* defence: no offer outlives the identity it was made for.                *)
OffersCurrent ==
    \A n \in Names : offers[n] # None =>
        /\ OfferCurrent(n)
        /\ offers[n].expires_at <= names[n].expires_at
        /\ offers[n].recipient # names[n].owner
        /\ offers[n].id <= offerIds[n]

(* <<generation, ownership_revision>> versions the owner: while it stays   *)
(* the same the owner does, it never goes back, and a paid expiry never    *)
(* moves earlier.  The validator profiles and the relay key what they      *)
(* store on this pair.                                                     *)
Newer(r, s) ==
    /\ s.expires_at >= r.expires_at
    /\ \/ s.generation = r.generation + 1 /\ s.ownership_revision = 1
       \/ s.generation = r.generation /\ s.ownership_revision = r.ownership_revision + 1
       \/ /\ s.generation = r.generation
          /\ s.ownership_revision = r.ownership_revision
          /\ s.owner = r.owner

VersionsAdvance ==
    [][\A n \in Names : names[n] # None =>
           names'[n] # None /\ Newer(names[n], names'[n])]_vars

(* A recipient accepts by id what it was shown under that id: an id of a   *)
(* name never comes back with other terms, not after a cancellation, an    *)
(* acceptance or a re-registration, each of which deletes the offer.       *)
OfferIdsNeverReturn ==
    [][\A n \in Names :
           /\ offerIds'[n] >= offerIds[n]
           /\ offers'[n] \notin {None, offers[n]} => offers'[n].id > offerIds[n]]_vars

(* The registry implements the leases it promises, NameLease. *)
LeaseOf(n) ==
    IF names[n] = None THEN None
    ELSE [holder |-> names[n].owner, until |-> names[n].expires_at,
          generation |-> names[n].generation, revision |-> names[n].ownership_revision]

ConsentOf(n) == IF OfferCurrent(n) THEN offers[n].recipient ELSE None

Lease == INSTANCE NameLease WITH
    Horizon <- MaxYears * YEAR,
    lease   <- [n \in Names |-> LeaseOf(n)],
    consent <- [n \in Names |-> ConsentOf(n)]

(* Every history of the registry is one of exclusive, consented leases:    *)
(* whatever offers, generations and revisions are left behind in storage,  *)
(* a name changes hands only to the address its present holder approved,   *)
(* or after its term and grace are over.                                   *)
ImplementsLease == Lease!Spec

=============================================================================
