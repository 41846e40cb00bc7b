------------------------ MODULE NamesRegistryProofs ------------------------
(***************************************************************************)
(* Proofs about the name registry, for any names, addresses and durations. *)
(***************************************************************************)
EXTENDS NamesRegistry, TLAPS

(* A term of some years is a positive duration of at most MaxYears years.  *)
LEMMA TermLemma ==
    ASSUME NEW years \in 1..MaxYears
    PROVE  /\ YEAR * years \in Nat
           /\ YEAR * years >= 1
           /\ YEAR * years <= MaxYears * YEAR
<1>1. YEAR \in Nat /\ YEAR >= 1 /\ MaxYears \in Nat
  BY DurationsAssumption
<1>2. years \in Nat /\ years >= 1 /\ years <= MaxYears
  BY <1>1
<1>3. \A x, y \in Nat : x >= 1 /\ y >= 1 => x * y \in Nat /\ x * y >= 1
  BY SMT
<1>4. \A x, y, z \in Nat : y <= z => x * y <= z * x
  BY SMT
<1>5. QED
  BY <1>1, <1>2, <1>3, <1>4

(* The record a payment saves is an identity. *)
LEMMA SaveIdentityType ==
    ASSUME TypeOK, NEW n \in Names, NEW record \in Identity,
           NEW rev \in [Addresses -> Names \cup {None}],
           NEW payer \in Addresses, NEW nonce \in Nonces,
           SaveIdentity(n, record, rev, payer, nonce)
    PROVE  /\ names' \in [Names -> Identity \cup {None}]
           /\ reverse' \in [Addresses -> Names \cup {None}]
           /\ nonces' \subseteq Addresses \X Nonces
<1>1. record.owner \in Addresses
  BY DEF Identity
<1>2. QED
  BY <1>1 DEF SaveIdentity, TypeOK

LEMMA ClearReverseType ==
    ASSUME TypeOK, NEW a, NEW n
    PROVE  ClearReverse(a, n) \in [Addresses -> Names \cup {None}]
BY DEF ClearReverse, TypeOK

(* What a registration writes for the name. *)
LEMMA RegisterRecord ==
    ASSUME TypeOK, NEW n \in Names, NEW payer \in Addresses, NEW q,
           NEW years \in 1..MaxYears, NEW nonce \in Nonces, NEW salt \in Salts,
           Register(n, payer, q, years, nonce, salt)
    PROVE  [owner |-> payer, generation |-> q.generation,
            ownership_revision |-> q.revision,
            expires_at |-> now + YEAR * years] \in Identity
<1>1. names[n] # None => names[n].generation \in Nat
  BY DEF TypeOK, Identity
<1>2. q.generation \in Nat /\ q.revision \in Nat
  BY <1>1 DEF Register, NextGeneration
<1>3. now + YEAR * years \in Nat
  BY TermLemma DEF TypeOK
<1>4. QED
  BY <1>2, <1>3 DEF Identity

LEMMA RegisterType ==
    ASSUME TypeOK, NEW n \in Names, NEW payer \in Addresses, NEW q,
           NEW years \in 1..MaxYears, NEW nonce \in Nonces, NEW salt \in Salts,
           Register(n, payer, q, years, nonce, salt)
    PROVE  TypeOK'
<1> DEFINE record == [owner |-> payer, generation |-> q.generation,
                      ownership_revision |-> q.revision,
                      expires_at |-> now + YEAR * years]
           rev == IF names[n] = None THEN reverse ELSE ClearReverse(names[n].owner, n)
<1>1. record \in Identity
  BY RegisterRecord
<1>2. rev \in [Addresses -> Names \cup {None}]
  BY ClearReverseType DEF TypeOK
<1>3. SaveIdentity(n, record, rev, payer, nonce)
  BY DEF Register
<1>4. /\ names' \in [Names -> Identity \cup {None}]
      /\ reverse' \in [Addresses -> Names \cup {None}]
      /\ nonces' \subseteq Addresses \X Nonces
  BY <1>1, <1>2, <1>3, SaveIdentityType
<1>5. QED
  BY <1>4 DEF Register, TypeOK

(* What a renewal writes for the name. *)
LEMMA RenewRecord ==
    ASSUME TypeOK, NEW n \in Names, NEW payer \in Addresses,
           NEW owner \in Addresses, NEW q, NEW years \in 1..MaxYears,
           NEW nonce \in Nonces,
           Renew(n, payer, owner, q, years, nonce)
    PROVE  [owner |-> owner, generation |-> q.generation,
            ownership_revision |-> q.revision,
            expires_at |-> Later(now, names[n].expires_at) + YEAR * years]
                \in Identity
<1>1. names[n] \in Identity
  BY DEF TypeOK, Renew
<1>2. /\ q.generation \in Nat
      /\ q.revision \in Nat
      /\ names[n].expires_at \in Nat
  BY <1>1 DEF Renew, Identity
<1>3. Later(now, names[n].expires_at) + YEAR * years \in Nat
  BY <1>2, TermLemma DEF TypeOK, Later
<1>4. QED
  BY <1>2, <1>3 DEF Identity

LEMMA RenewType ==
    ASSUME TypeOK, NEW n \in Names, NEW payer \in Addresses,
           NEW owner \in Addresses, NEW q, NEW years \in 1..MaxYears,
           NEW nonce \in Nonces,
           Renew(n, payer, owner, q, years, nonce)
    PROVE  TypeOK'
<1> DEFINE record == [owner |-> owner, generation |-> q.generation,
                      ownership_revision |-> q.revision,
                      expires_at |-> Later(now, names[n].expires_at) + YEAR * years]
<1>1. record \in Identity
  BY RenewRecord
<1>2. SaveIdentity(n, record, reverse, payer, nonce)
  BY DEF Renew
<1>3. /\ names' \in [Names -> Identity \cup {None}]
      /\ reverse' \in [Addresses -> Names \cup {None}]
      /\ nonces' \subseteq Addresses \X Nonces
  BY <1>1, <1>2, SaveIdentityType DEF TypeOK
<1>4. QED
  BY <1>3 DEF Renew, TypeOK

LEMMA OfferTransferType ==
    ASSUME TypeOK, NEW n \in Names, NEW sender \in Addresses,
           NEW recipient \in Addresses, NEW expires \in Nat,
           NEW generation, NEW revision,
           OfferTransfer(n, sender, recipient, expires, generation, revision)
    PROVE  TypeOK'
<1>1. names[n] \in Identity
  BY DEF TypeOK, OfferTransfer
<1>2. offerIds[n] + 1 \in Nat
  BY DEF TypeOK
<1> DEFINE offer == [id |-> offerIds[n] + 1, owner |-> names[n].owner,
                     recipient |-> recipient,
                     generation |-> names[n].generation,
                     ownership_revision |-> names[n].ownership_revision,
                     expires_at |-> expires]
<1>3. offer \in TransferOffer
  BY <1>1, <1>2 DEF TransferOffer, Identity
<1>4. /\ offers' = [offers EXCEPT ![n] = offer]
      /\ offerIds' = [offerIds EXCEPT ![n] = offerIds[n] + 1]
      /\ UNCHANGED <<names, reverse, commits, nonces, config, now, height>>
  BY DEF OfferTransfer, NextOfferId
<1> HIDE DEF offer
<1>5. QED
  BY <1>2, <1>3, <1>4 DEF TypeOK

LEMMA AcceptTransferType ==
    ASSUME TypeOK, NEW n \in Names, NEW sender \in Addresses, NEW id,
           AcceptTransfer(n, sender, id)
    PROVE  TypeOK'
<1>1. names[n] \in Identity /\ offers[n] \in TransferOffer
  BY DEF TypeOK, AcceptTransfer, OfferActive, OfferCurrent
<1>2. offers[n].recipient \in Addresses /\ names[n].ownership_revision + 1 \in Nat
  BY <1>1 DEF TransferOffer, Identity
<1>3. [names[n] EXCEPT !.owner = offers[n].recipient,
                       !.ownership_revision = names[n].ownership_revision + 1]
        \in Identity
  BY <1>1, <1>2 DEF Identity
<1>4. names' \in [Names -> Identity \cup {None}]
  BY <1>3 DEF AcceptTransfer, TypeOK
<1>5. reverse' \in [Addresses -> Names \cup {None}]
  BY <1>2, ClearReverseType DEF AcceptTransfer
<1>6. QED
  BY <1>4, <1>5 DEF AcceptTransfer, TypeOK

LEMMA CommitType ==
    ASSUME TypeOK, NEW a \in Addresses, NEW hash \in Hash,
           Commit(a, hash) \/ CancelCommit(a, hash)
    PROVE  TypeOK'
<1>1. now + COMMIT_TTL \in Nat
  BY DurationsAssumption DEF TypeOK
<1>2. [hash |-> hash, height |-> height, expires_at |-> now + COMMIT_TTL]
        \in Commitment
  BY <1>1 DEF Commitment, TypeOK
<1>3. commits' \in [Addresses -> Commitment \cup {None}]
  BY <1>2 DEF TypeOK, Commit, CancelCommit
<1>4. QED
  BY <1>3 DEF TypeOK, Commit, CancelCommit

(* An administrator's message touches the configuration only. *)
LEMMA AdminFrame ==
    ASSUME TypeOK, AdminAny
    PROVE  /\ config' \in Config
           /\ UNCHANGED <<names, reverse, commits, nonces, offers, offerIds, now, height>>
<1>1. \A v \in 1..MaxVersion : v + 1 \in Nat
  BY BoundsAssumption
<1>2. QED
  BY <1>1 DEF AdminAny, SetAdmin, SetPurchasesPaused, RotateQuoteKey, SetTariff,
              TypeOK, Config

LEMMA NextBlockType ==
    ASSUME TypeOK, NextBlock
    PROVE  TypeOK' /\ now' >= now
BY DurationsAssumption DEF NextBlock, TypeOK

-----------------------------------------------------------------------------
(* Every reachable state is well typed. *)
LEMMA TypeInit == Init => TypeOK
<1> SUFFICES ASSUME Init PROVE TypeOK
  OBVIOUS
<1>1. config \in Config
  <2>1. \A b \in {TRUE}, v, w \in {1} : b \in BOOLEAN /\ v \in Nat /\ w \in Nat
    OBVIOUS
  <2>2. QED
    BY <2>1 DEF Init, Config
<1>2. QED
  BY <1>1 DEF Init, TypeOK

LEMMA TypeStep == TypeOK /\ [Next]_vars => TypeOK'
<1> SUFFICES ASSUME TypeOK, [Next]_vars PROVE TypeOK'
  OBVIOUS
<1>1. CASE RegisterAny
  BY <1>1, RegisterType DEF RegisterAny
<1>2. CASE RenewAny
  BY <1>2, RenewType DEF RenewAny
<1>3. CASE OfferAny
  <2>1. \A d \in 0..OFFER_TTL + 1 : now + d \in Nat
    BY DurationsAssumption DEF TypeOK
  <2>2. QED
    BY <1>3, <2>1, OfferTransferType DEF OfferAny
<1>4. CASE AnswerOfferAny
  <2>1. ASSUME NEW n \in Names, NEW sender \in Addresses, NEW id \in 1..MaxOffers,
               CancelTransfer(n, sender, id)
        PROVE  TypeOK'
    BY <2>1 DEF CancelTransfer, TypeOK
  <2>2. QED
    BY <1>4, <2>1, AcceptTransferType DEF AnswerOfferAny
<1>5. CASE CommitAny
  BY <1>5, CommitType DEF CommitAny
<1>6. CASE AdminAny
  BY <1>6, AdminFrame DEF TypeOK
<1>7. CASE NextBlock
  BY <1>7, NextBlockType
<1>8. CASE UNCHANGED vars
  BY <1>8 DEF vars, TypeOK
<1>9. QED
  BY <1>1, <1>2, <1>3, <1>4, <1>5, <1>6, <1>7, <1>8 DEF Next

(* Every reachable state of the registry is well typed, whatever the names,  *)
(* accounts and bounds: identities, offers, commitments and configuration.   *)
THEOREM TypeCorrect == Spec => []TypeOK
<1>1. QED
  BY TypeInit, TypeStep, PTL DEF Spec

-----------------------------------------------------------------------------
(* The index invariant: inductive together with the types. *)

(* An address whose slot is free for n has no other active name: the index *)
(* remembers every active name. *)
LEMMA SlotLemma ==
    ASSUME TypeOK, ReverseAgrees, NEW a \in Addresses, NEW n \in Names,
           OwnerSlot(a, n), NEW m \in Names, Active(m), names[m].owner = a
    PROVE  m = n
<1>1. reverse[a] = m
  BY DEF ReverseAgrees
<1>2. ActiveName(a) = m
  BY <1>1, NoneAssumption DEF ActiveName
<1>3. QED
  BY <1>2, NoneAssumption DEF OwnerSlot

(* Why a registration, a renewal and an acceptance keep the index right:    *)
(* the record of one name goes to an address whose slot is free for it,    *)
(* the index points that address to the name, and no other address to it.  *)
LEMMA ReverseMoved ==
    ASSUME TypeOK, ReverseAgrees, NEW n \in Names, NEW a \in Addresses,
           OwnerSlot(a, n), NEW record \in Identity, record.owner = a,
           names' = [names EXCEPT ![n] = record], now' = now,
           NEW rev \in [Addresses -> Names \cup {None}],
           reverse' = [rev EXCEPT ![a] = n],
           \A b \in Addresses \ {a} :
               rev[b] = IF reverse[b] = n THEN None ELSE reverse[b]
    PROVE  ReverseAgrees'
<1>1. names'[n] = record /\ record # None
  BY NoneAssumption DEF TypeOK
<1>2. \A m \in Names \ {n} : names'[m] = names[m]
  BY DEF TypeOK
<1>3. reverse'[a] = n
  OBVIOUS
<1>4. \A b \in Addresses \ {a} :
         reverse'[b] = IF reverse[b] = n THEN None ELSE reverse[b]
  OBVIOUS
<1>5. ASSUME NEW m \in Names, Active(m)' PROVE reverse'[names'[m].owner] = m
  <2>1. CASE m = n
    BY <1>1, <1>3, <2>1
  <2>2. CASE m # n
    <3>1. Active(m) /\ names'[m].owner = names[m].owner
      BY <1>2, <1>5, <2>2 DEF Active
    <3>2. names[m].owner \in Addresses
      BY <3>1 DEF TypeOK, Active, Identity
    <3>3. names[m].owner # a
      BY <2>2, <3>1, SlotLemma
    <3>4. reverse[names[m].owner] = m
      BY <3>1 DEF ReverseAgrees
    <3>5. QED
      BY <1>4, <2>2, <3>1, <3>2, <3>3, <3>4
  <2>3. QED
    BY <2>1, <2>2
<1>6. ASSUME NEW b \in Addresses, reverse'[b] # None
      PROVE  names'[reverse'[b]] # None /\ names'[reverse'[b]].owner = b
  <2>1. CASE b = a
    BY <1>1, <1>3, <2>1
  <2>2. CASE b # a
    <3>1. reverse'[b] = reverse[b] /\ reverse[b] # n
      BY <1>4, <1>6, <2>2
    <3>2. reverse[b] \in Names
      BY <1>6, <3>1 DEF TypeOK
    <3>3. QED
      BY <1>2, <1>6, <3>1, <3>2 DEF ReverseAgrees
  <2>3. QED
    BY <2>1, <2>2
<1>7. QED
  BY <1>5, <1>6 DEF ReverseAgrees

(* clear_reverse for the stored owner of n leaves no entry leading to n.   *)
LEMMA ClearReverseLemma ==
    ASSUME TypeOK, ReverseAgrees, NEW n \in Names, names[n] # None,
           NEW b \in Addresses
    PROVE  ClearReverse(names[n].owner, n)[b] =
               IF reverse[b] = n THEN None ELSE reverse[b]
BY NoneAssumption DEF ReverseAgrees, ClearReverse, TypeOK

LEMMA ReverseRegister ==
    ASSUME TypeOK, ReverseAgrees, NEW n \in Names, NEW payer \in Addresses, NEW q,
           NEW years \in 1..MaxYears, NEW nonce \in Nonces, NEW salt \in Salts,
           Register(n, payer, q, years, nonce, salt)
    PROVE  ReverseAgrees'
<1> DEFINE record == [owner |-> payer, generation |-> q.generation,
                      ownership_revision |-> q.revision,
                      expires_at |-> now + YEAR * years]
           rev == IF names[n] = None THEN reverse ELSE ClearReverse(names[n].owner, n)
<1>1. /\ names' = [names EXCEPT ![n] = record]
      /\ reverse' = [rev EXCEPT ![payer] = n]
      /\ now' = now
      /\ OwnerSlot(payer, n)
  BY DEF Register, SaveIdentity
<1>2. rev \in [Addresses -> Names \cup {None}]
  BY ClearReverseType DEF TypeOK
<1>3. record \in Identity /\ record.owner = payer
  BY RegisterRecord
<1>4. \A b \in Addresses : rev[b] = IF reverse[b] = n THEN None ELSE reverse[b]
  <2>1. CASE names[n] = None
    BY <2>1, NoneAssumption DEF ReverseAgrees
  <2>2. CASE names[n] # None
    BY <2>2, ClearReverseLemma
  <2>3. QED
    BY <2>1, <2>2
<1>5. \A b \in Addresses \ {payer} :
         rev[b] = IF reverse[b] = n THEN None ELSE reverse[b]
  BY <1>4
<1> HIDE DEF record, rev
<1>6. QED
  BY <1>1, <1>2, <1>3, <1>5, ReverseMoved

LEMMA ReverseRenew ==
    ASSUME TypeOK, ReverseAgrees, NEW n \in Names, NEW payer \in Addresses,
           NEW owner \in Addresses, NEW q, NEW years \in 1..MaxYears,
           NEW nonce \in Nonces,
           Renew(n, payer, owner, q, years, nonce)
    PROVE  ReverseAgrees'
<1> DEFINE expires == Later(now, names[n].expires_at) + YEAR * years
           record == [owner |-> owner, generation |-> q.generation,
                      ownership_revision |-> q.revision, expires_at |-> expires]
<1>1. /\ names' = [names EXCEPT ![n] = record]
      /\ reverse' = [reverse EXCEPT ![owner] = n]
      /\ now' = now
      /\ OwnerSlot(owner, n)
      /\ names[n] # None
      /\ owner = names[n].owner
  BY DEF Renew, SaveIdentity
<1>2. record \in Identity /\ record.owner = owner
  BY RenewRecord
<1>3. reverse \in [Addresses -> Names \cup {None}]
  BY DEF TypeOK
<1>4. \A b \in Addresses \ {owner} :
         reverse[b] = IF reverse[b] = n THEN None ELSE reverse[b]
  BY <1>1, NoneAssumption DEF ReverseAgrees
<1> HIDE DEF record
<1>5. QED
  BY <1>1, <1>2, <1>3, <1>4, ReverseMoved

LEMMA ReverseAccept ==
    ASSUME TypeOK, ReverseAgrees, NEW n \in Names, NEW sender \in Addresses, NEW id,
           AcceptTransfer(n, sender, id)
    PROVE  ReverseAgrees'
<1> DEFINE record == [names[n] EXCEPT !.owner = offers[n].recipient,
                         !.ownership_revision = names[n].ownership_revision + 1]
           rev == ClearReverse(names[n].owner, n)
<1>1. names[n] \in Identity /\ offers[n] \in TransferOffer /\ names[n] # None
  BY DEF TypeOK, AcceptTransfer, OfferActive, OfferCurrent
<1>2. offers[n].recipient \in Addresses /\ names[n].ownership_revision + 1 \in Nat
  BY <1>1 DEF TransferOffer, Identity
<1>3. record \in Identity /\ record.owner = offers[n].recipient
  BY <1>1, <1>2 DEF Identity
<1>4. /\ names' = [names EXCEPT ![n] = record]
      /\ reverse' = [rev EXCEPT ![offers[n].recipient] = n]
      /\ now' = now
      /\ OwnerSlot(offers[n].recipient, n)
  BY <1>1 DEF AcceptTransfer, TypeOK
<1>5. rev \in [Addresses -> Names \cup {None}]
  BY ClearReverseType
<1>6. \A b \in Addresses : rev[b] = IF reverse[b] = n THEN None ELSE reverse[b]
  BY <1>1, ClearReverseLemma
<1>7. \A b \in Addresses \ {offers[n].recipient} :
         rev[b] = IF reverse[b] = n THEN None ELSE reverse[b]
  BY <1>6
<1> HIDE DEF record, rev
<1>8. QED
  BY <1>2, <1>3, <1>4, <1>5, <1>7, ReverseMoved

LEMMA ReverseStep == TypeOK /\ ReverseAgrees /\ [Next]_vars => ReverseAgrees'
<1> SUFFICES ASSUME TypeOK, ReverseAgrees, [Next]_vars PROVE ReverseAgrees'
  OBVIOUS
<1>1. CASE RegisterAny
  BY <1>1, ReverseRegister DEF RegisterAny
<1>2. CASE RenewAny
  BY <1>2, ReverseRenew DEF RenewAny
<1>3. ASSUME NEW n \in Names, NEW sender \in Addresses, NEW id \in 1..MaxOffers,
             AcceptTransfer(n, sender, id)
      PROVE  ReverseAgrees'
  BY <1>3, ReverseAccept
<1>4. ASSUME UNCHANGED <<names, reverse>>, now' >= now PROVE ReverseAgrees'
  <2>1. \A n \in Names : Active(n)' => Active(n)
    <3>1. \A n \in Names : names[n] # None => names[n].expires_at \in Nat
      BY DEF TypeOK, Identity
    <3>2. TypeOK'
      BY TypeStep
    <3>3. now \in Nat /\ now' \in Nat
      BY <3>2 DEF TypeOK
    <3>4. QED
      BY <1>4, <3>1, <3>3 DEF Active
  <2>2. QED
    BY <1>4, <2>1 DEF ReverseAgrees
<1>6. CASE OfferAny
  BY <1>4, <1>6 DEF OfferAny, OfferTransfer, TypeOK
<1>7. CASE AnswerOfferAny
  <2>1. ASSUME NEW n \in Names, NEW sender \in Addresses, NEW id \in 1..MaxOffers,
               CancelTransfer(n, sender, id)
        PROVE  ReverseAgrees'
    BY <1>4, <2>1 DEF CancelTransfer, TypeOK
  <2>2. QED
    BY <1>3, <1>7, <2>1 DEF AnswerOfferAny
<1>8. CASE CommitAny
  BY <1>4, <1>8 DEF CommitAny, Commit, CancelCommit, TypeOK
<1>9. CASE AdminAny
  BY <1>4, <1>9, AdminFrame DEF TypeOK
<1>10. CASE NextBlock
  BY <1>4, <1>10, NextBlockType DEF NextBlock
<1>11. CASE UNCHANGED vars
  BY <1>4, <1>11 DEF vars, TypeOK
<1>12. QED
  BY <1>1, <1>2, <1>6, <1>7, <1>8, <1>9, <1>10, <1>11 DEF Next

(* NameOf and the registry always agree. *)
THEOREM ReverseCorrect == Spec => []ReverseAgrees
<1>1. Init => ReverseAgrees
  BY DEF Init, ReverseAgrees, Active
<1>2. QED
  BY <1>1, TypeCorrect, ReverseStep, PTL DEF Spec

(* At any time every address has at most one active name. *)
THEOREM OneNameEach == Spec => []OneActiveName
<1>1. ReverseAgrees => OneActiveName
  BY DEF ReverseAgrees, OneActiveName
<1>2. QED
  BY <1>1, ReverseCorrect, PTL

-----------------------------------------------------------------------------
(* What each message may do to the record, the offer and the offer id of   *)
(* one name: the four ways a step changes a name, and nothing else.        *)
Untouched(m) ==
    names'[m] = names[m] /\ offers'[m] = offers[m] /\ offerIds'[m] = offerIds[m]

Registered(m) ==
    /\ Available(m)
    /\ names'[m] # None
    /\ names'[m].generation = NextGeneration(m)
    /\ names'[m].ownership_revision = 1
    /\ names'[m].expires_at > now
    /\ names'[m].expires_at <= now + MaxYears * YEAR
    /\ OwnerSlot(names'[m].owner, m)
    /\ offers'[m] = None
    /\ offerIds'[m] = offerIds[m]

Renewed(m) ==
    /\ names[m] # None
    /\ ~Available(m)
    /\ names'[m] # None
    /\ names'[m].owner = names[m].owner
    /\ names'[m].generation = names[m].generation
    /\ names'[m].ownership_revision = names[m].ownership_revision
    /\ names'[m].expires_at > names[m].expires_at
    /\ names'[m].expires_at <= now + MaxYears * YEAR
    /\ OwnerSlot(names[m].owner, m)
    /\ offers'[m] = offers[m]
    /\ offerIds'[m] = offerIds[m]

Accepted(m) ==
    /\ OfferActive(m)
    /\ names'[m] # None
    /\ names'[m].owner = offers[m].recipient
    /\ names'[m].generation = names[m].generation
    /\ names'[m].ownership_revision = names[m].ownership_revision + 1
    /\ names'[m].expires_at = names[m].expires_at
    /\ OwnerSlot(offers[m].recipient, m)
    /\ offers'[m] = None
    /\ offerIds'[m] = offerIds[m]

Offered(m) ==
    /\ Active(m)
    /\ names'[m] = names[m]
    /\ offers'[m] # None
    /\ offers'[m].owner = names[m].owner
    /\ offers'[m].generation = names[m].generation
    /\ offers'[m].ownership_revision = names[m].ownership_revision
    /\ offers'[m].recipient \in Addresses \ {names[m].owner}
    /\ offers'[m].expires_at <= names[m].expires_at
    /\ offers'[m].id = offerIds[m] + 1
    /\ offerIds'[m] = offerIds[m] + 1

Withdrawn(m) ==
    /\ OfferCurrent(m)
    /\ names'[m] = names[m]
    /\ offers'[m] = None
    /\ offerIds'[m] = offerIds[m]

Changed(m) ==
    Registered(m) \/ Renewed(m) \/ Accepted(m) \/ Offered(m) \/ Withdrawn(m)

LEMMA RegisterEffect ==
    ASSUME TypeOK, NEW n \in Names, NEW payer \in Addresses, NEW q,
           NEW years \in 1..MaxYears, NEW nonce \in Nonces, NEW salt \in Salts,
           Register(n, payer, q, years, nonce, salt)
    PROVE  /\ Registered(n)
           /\ \A m \in Names \ {n} : Untouched(m)
           /\ now' = now
<1> DEFINE record == [owner |-> payer, generation |-> q.generation,
                      ownership_revision |-> q.revision,
                      expires_at |-> now + YEAR * years]
<1>1. record \in Identity /\ record # None
  BY RegisterRecord, NoneAssumption
<1>2. /\ names' = [names EXCEPT ![n] = record]
      /\ offers' = [offers EXCEPT ![n] = None]
      /\ UNCHANGED <<offerIds, now>>
      /\ OwnerSlot(payer, n)
      /\ Available(n)
      /\ q.generation = NextGeneration(n)
      /\ q.revision = 1
  BY DEF Register, SaveIdentity
<1>3. \A m \in Names \ {n} : Untouched(m)
  BY <1>2 DEF Untouched, TypeOK
<1>4. names'[n] = record /\ offers'[n] = None
  BY <1>2 DEF TypeOK
<1>5. /\ record.owner = payer
      /\ record.generation = q.generation
      /\ record.ownership_revision = q.revision
      /\ record.expires_at = now + YEAR * years
  OBVIOUS
<1>6. record.expires_at > now /\ record.expires_at <= now + MaxYears * YEAR
  <2>1. MaxYears * YEAR \in Nat
    BY DurationsAssumption
  <2>2. now \in Nat
    BY DEF TypeOK
  <2>3. QED
    BY <1>5, <2>1, <2>2, TermLemma
<1> HIDE DEF record
<1>7. Registered(n)
  BY <1>1, <1>2, <1>4, <1>5, <1>6 DEF Registered
<1>8. QED
  BY <1>2, <1>3, <1>7

LEMMA RenewEffect ==
    ASSUME TypeOK, NEW n \in Names, NEW payer \in Addresses,
           NEW owner \in Addresses, NEW q, NEW years \in 1..MaxYears,
           NEW nonce \in Nonces,
           Renew(n, payer, owner, q, years, nonce)
    PROVE  /\ Renewed(n)
           /\ \A m \in Names \ {n} : Untouched(m)
           /\ now' = now
<1> DEFINE expires == Later(now, names[n].expires_at) + YEAR * years
           record == [owner |-> owner, generation |-> q.generation,
                      ownership_revision |-> q.revision, expires_at |-> expires]
<1>1. record \in Identity /\ record # None
  BY RenewRecord, NoneAssumption
<1>2. /\ names' = [names EXCEPT ![n] = record]
      /\ UNCHANGED <<offers, offerIds, now>>
      /\ OwnerSlot(owner, n)
      /\ names[n] # None
      /\ owner = names[n].owner
      /\ q.generation = names[n].generation
      /\ q.revision = names[n].ownership_revision
      /\ now < names[n].expires_at + GRACE
      /\ expires <= now + MaxYears * YEAR
  BY DEF Renew, SaveIdentity
<1>3. \A m \in Names \ {n} : Untouched(m)
  BY <1>2 DEF Untouched, TypeOK
<1>4. names'[n] = record
  BY <1>2 DEF TypeOK
<1>5. names[n].expires_at \in Nat /\ now \in Nat /\ GRACE \in Nat
  BY <1>2, DurationsAssumption DEF TypeOK, Identity
<1>6. expires > names[n].expires_at /\ ~Available(n)
  BY <1>2, <1>5, TermLemma DEF Later, Available
<1>7. /\ record.owner = owner
      /\ record.generation = q.generation
      /\ record.ownership_revision = q.revision
      /\ record.expires_at = expires
  OBVIOUS
<1> HIDE DEF record, expires
<1>8. Renewed(n)
  BY <1>1, <1>2, <1>4, <1>6, <1>7 DEF Renewed
<1>9. QED
  BY <1>2, <1>3, <1>8

LEMMA AcceptEffect ==
    ASSUME TypeOK, NEW n \in Names, NEW sender \in Addresses, NEW id,
           AcceptTransfer(n, sender, id)
    PROVE  /\ Accepted(n)
           /\ \A m \in Names \ {n} : Untouched(m)
           /\ now' = now
<1> DEFINE record == [names[n] EXCEPT !.owner = offers[n].recipient,
                         !.ownership_revision = names[n].ownership_revision + 1]
<1>1. names[n] \in Identity /\ offers[n] \in TransferOffer
  BY DEF TypeOK, AcceptTransfer, OfferActive, OfferCurrent
<1>2. offers[n].recipient \in Addresses /\ names[n].ownership_revision + 1 \in Nat
  BY <1>1 DEF TransferOffer, Identity
<1>3. /\ record \in Identity
      /\ record.owner = offers[n].recipient
      /\ record.generation = names[n].generation
      /\ record.ownership_revision = names[n].ownership_revision + 1
      /\ record.expires_at = names[n].expires_at
  BY <1>1, <1>2 DEF Identity
<1>4. /\ names' = [names EXCEPT ![n] = record]
      /\ offers' = [offers EXCEPT ![n] = None]
      /\ UNCHANGED <<offerIds, now>>
      /\ OfferActive(n)
      /\ OwnerSlot(offers[n].recipient, n)
  BY <1>1 DEF AcceptTransfer, TypeOK
<1> HIDE DEF record
<1>5. \A m \in Names \ {n} : Untouched(m)
  BY <1>4 DEF Untouched, TypeOK
<1>6. names'[n] = record /\ offers'[n] = None /\ record # None
  BY <1>3, <1>4, NoneAssumption DEF TypeOK
<1>7. QED
  BY <1>3, <1>4, <1>5, <1>6 DEF Accepted

LEMMA OfferEffect ==
    ASSUME TypeOK, NEW n \in Names, NEW sender \in Addresses,
           NEW recipient \in Addresses, NEW expires \in Nat,
           NEW generation, NEW revision,
           OfferTransfer(n, sender, recipient, expires, generation, revision)
    PROVE  /\ Offered(n)
           /\ \A m \in Names \ {n} : Untouched(m)
           /\ now' = now
<1> DEFINE offer == [id |-> offerIds[n] + 1, owner |-> names[n].owner,
                     recipient |-> recipient,
                     generation |-> names[n].generation,
                     ownership_revision |-> names[n].ownership_revision,
                     expires_at |-> expires]
<1>1. /\ offers' = [offers EXCEPT ![n] = offer]
      /\ offerIds' = [offerIds EXCEPT ![n] = offerIds[n] + 1]
      /\ UNCHANGED <<names, now>>
      /\ names[n] # None
      /\ now < names[n].expires_at
      /\ recipient # names[n].owner
      /\ expires <= names[n].expires_at
  BY DEF OfferTransfer, NextOfferId
<1>2. names[n] \in Identity
  BY <1>1 DEF TypeOK
<1>3. offer \in TransferOffer
  BY <1>2 DEF TransferOffer, Identity, TypeOK
<1>4. offer # None
  BY <1>3, NoneAssumption
<1>5. offers'[n] = offer /\ offerIds'[n] = offerIds[n] + 1
  BY <1>1 DEF TypeOK
<1>6. /\ offer.id = offerIds[n] + 1
      /\ offer.owner = names[n].owner
      /\ offer.recipient = recipient
      /\ offer.generation = names[n].generation
      /\ offer.ownership_revision = names[n].ownership_revision
      /\ offer.expires_at = expires
  OBVIOUS
<1> HIDE DEF offer
<1>7. \A m \in Names \ {n} : Untouched(m)
  BY <1>1 DEF Untouched, TypeOK
<1>8. QED
  BY <1>1, <1>4, <1>5, <1>6, <1>7 DEF Offered, Active

(* Every step leaves the names alone, or it changes a single one of them   *)
(* in one of the five ways, at an unmoved clock.                           *)
LEMMA StepEffect ==
    ASSUME TypeOK, [Next]_vars
    PROVE  \/ (\A m \in Names : Untouched(m)) /\ now' >= now
           \/ \E n \in Names :
                 Changed(n) /\ (\A m \in Names \ {n} : Untouched(m)) /\ now' = now
<1>1. CASE RegisterAny
  BY <1>1, RegisterEffect DEF RegisterAny, Changed
<1>2. CASE RenewAny
  BY <1>2, RenewEffect DEF RenewAny, Changed
<1>3. CASE OfferAny
  <2>1. \A d \in 0..OFFER_TTL + 1 : now + d \in Nat
    BY DurationsAssumption DEF TypeOK
  <2>2. QED
    BY <1>3, <2>1, OfferEffect DEF OfferAny, Changed
<1>4. CASE AnswerOfferAny
  <2>1. ASSUME NEW n \in Names, NEW sender \in Addresses, NEW id \in 1..MaxOffers,
               CancelTransfer(n, sender, id)
        PROVE  Withdrawn(n) /\ (\A m \in Names \ {n} : Untouched(m)) /\ now' = now
    BY <2>1 DEF CancelTransfer, Withdrawn, Untouched, TypeOK
  <2>2. QED
    BY <1>4, <2>1, AcceptEffect DEF AnswerOfferAny, Changed
<1>5. ASSUME UNCHANGED <<names, offers, offerIds>>
      PROVE  \A m \in Names : Untouched(m)
  BY <1>5 DEF Untouched
<1>6. now \in Nat /\ now >= now
  BY DEF TypeOK
<1>7. CASE CommitAny
  BY <1>5, <1>6, <1>7 DEF CommitAny, Commit, CancelCommit
<1>8. CASE AdminAny
  BY <1>5, <1>6, <1>8, AdminFrame
<1>9. CASE NextBlock
  BY <1>5, <1>9, NextBlockType DEF NextBlock
<1>10. CASE UNCHANGED vars
  BY <1>5, <1>6, <1>10 DEF vars
<1>11. QED
  BY <1>1, <1>2, <1>3, <1>4, <1>7, <1>8, <1>9, <1>10 DEF Next

-----------------------------------------------------------------------------
(* A stored offer always belongs to the present identity of its name.      *)
LEMMA OffersStep == TypeOK /\ OffersCurrent /\ [Next]_vars => OffersCurrent'
<1> SUFFICES ASSUME TypeOK, OffersCurrent, [Next]_vars PROVE OffersCurrent'
  OBVIOUS
<1> DEFINE Fits(n) ==
        offers[n] # None =>
            /\ OfferCurrent(n)
            /\ offers[n].expires_at <= names[n].expires_at
            /\ offers[n].recipient # names[n].owner
            /\ offers[n].id <= offerIds[n]
<1>1. \A n \in Names : Fits(n)
  BY DEF OffersCurrent
<1>2. ASSUME NEW n \in Names, Untouched(n) PROVE Fits(n)'
  BY <1>1, <1>2 DEF Untouched, OfferCurrent
<1>3. ASSUME NEW n \in Names, Changed(n) PROVE Fits(n)'
  <2>1. CASE Registered(n) \/ Accepted(n) \/ Withdrawn(n)
    BY <2>1 DEF Registered, Accepted, Withdrawn
  <2>2. CASE Renewed(n)
    <3>1. names[n] \in Identity /\ offers[n] \in TransferOffer \cup {None}
      BY <2>2 DEF Renewed, TypeOK
    <3>2. /\ names[n].expires_at \in Nat
          /\ offers[n] # None => offers[n].expires_at \in Nat
      BY <3>1 DEF Identity, TransferOffer
    <3>3. names'[n].expires_at \in Nat
      BY <2>2, TypeStep DEF Renewed, TypeOK, Identity
    <3>4. QED
      BY <1>1, <2>2, <3>2, <3>3 DEF Renewed, OfferCurrent
  <2>3. CASE Offered(n)
    <3>1. names[n] # None /\ offerIds[n] + 1 \in Nat
      BY <2>3 DEF Offered, Active, TypeOK
    <3>2. QED
      BY <2>3, <3>1 DEF Offered, OfferCurrent
  <2>4. QED
    BY <1>3, <2>1, <2>2, <2>3 DEF Changed
<1> HIDE DEF Fits
<1>4. \A n \in Names : Fits(n)'
  BY <1>2, <1>3, StepEffect
<1>5. QED
  BY <1>4 DEF OffersCurrent, Fits

(* A standing transfer offer names an active identity at the version it has  *)
(* now: renewing, moving or reissuing a name withdraws every older offer.    *)
THEOREM OffersCorrect == Spec => []OffersCurrent
<1>1. Init => OffersCurrent
  BY DEF Init, OffersCurrent
<1>2. QED
  BY <1>1, TypeCorrect, OffersStep, PTL DEF Spec

-----------------------------------------------------------------------------
(* Nobody ever holds more than MaxYears of remaining term. *)
LEMMA HorizonStep == TypeOK /\ ExpiryHorizon /\ [Next]_vars => ExpiryHorizon'
<1> SUFFICES ASSUME TypeOK, ExpiryHorizon, [Next]_vars PROVE ExpiryHorizon'
  OBVIOUS
<1> DEFINE Within(n) == names[n] # None => names[n].expires_at <= now + MaxYears * YEAR
<1>1. \A n \in Names : Within(n)
  BY DEF ExpiryHorizon
<1>2. MaxYears * YEAR \in Nat /\ now \in Nat /\ now' \in Nat
  BY DurationsAssumption, TypeStep DEF TypeOK
<1>3. \A n \in Names : names[n] # None => names[n].expires_at \in Nat
  BY DEF TypeOK, Identity
<1>4. ASSUME NEW n \in Names, Untouched(n), now' >= now PROVE Within(n)'
  BY <1>1, <1>2, <1>3, <1>4 DEF Untouched
<1>5. ASSUME NEW n \in Names, Changed(n), now' = now PROVE Within(n)'
  <2>1. CASE Registered(n) \/ Renewed(n)
    BY <1>5, <2>1 DEF Registered, Renewed
  <2>2. CASE Accepted(n)
    <3>1. names[n] # None /\ names'[n].expires_at = names[n].expires_at
      BY <2>2 DEF Accepted, OfferActive, OfferCurrent
    <3>2. QED
      BY <1>1, <1>5, <3>1
  <2>3. CASE Offered(n) \/ Withdrawn(n)
    BY <1>1, <1>5, <2>3 DEF Offered, Withdrawn
  <2>4. QED
    BY <1>5, <2>1, <2>2, <2>3 DEF Changed
<1>6. now' = now => now' >= now
  BY <1>2
<1> HIDE DEF Within
<1>7. \A n \in Names : Within(n)'
  BY <1>4, <1>5, <1>6, StepEffect
<1>8. QED
  BY <1>7 DEF ExpiryHorizon, Within

(* No identity is ever paid further ahead than the renewal horizon of the    *)
(* contract, whatever the order of registrations and renewals.               *)
THEOREM HorizonCorrect == Spec => []ExpiryHorizon
<1>1. Init => ExpiryHorizon
  BY DEF Init, ExpiryHorizon
<1>2. QED
  BY <1>1, TypeCorrect, HorizonStep, PTL DEF Spec

-----------------------------------------------------------------------------
(* <<generation, ownership_revision>> versions the owner of every name. *)
THEOREM VersionsCorrect == Spec => VersionsAdvance
<1>1. ASSUME TypeOK, [Next]_vars, NEW n \in Names, names[n] # None
      PROVE  names'[n] # None /\ Newer(names[n], names'[n])
  <2>1. names[n] \in Identity
    BY <1>1 DEF TypeOK
  <2>2. names[n].expires_at \in Nat /\ now \in Nat /\ GRACE \in Nat
    BY <1>1, <2>1, DurationsAssumption DEF Identity, TypeOK
  <2>3. CASE Untouched(n) \/ Offered(n) \/ Withdrawn(n)
    BY <1>1, <2>2, <2>3 DEF Untouched, Offered, Withdrawn, Newer
  <2>4. names'[n] # None => names'[n].expires_at \in Nat
    BY <1>1, TypeStep DEF TypeOK, Identity
  <2>5. CASE Registered(n)
    BY <1>1, <2>2, <2>4, <2>5 DEF Registered, Available, NextGeneration, Newer
  <2>6. CASE Renewed(n)
    BY <1>1, <2>2, <2>4, <2>6 DEF Renewed, Newer
  <2>7. CASE Accepted(n)
    BY <1>1, <2>2, <2>7 DEF Accepted, Newer
  <2>8. QED
    BY <1>1, <2>3, <2>5, <2>6, <2>7, StepEffect DEF Changed
<1>2. TypeOK /\ [Next]_vars =>
        [\A n \in Names : names[n] # None =>
             names'[n] # None /\ Newer(names[n], names'[n])]_vars
  BY <1>1
<1>3. QED
  BY <1>2, TypeCorrect, PTL DEF Spec, VersionsAdvance

(* An offer id of a name is never given to a second offer. *)
THEOREM OfferIdsCorrect == Spec => OfferIdsNeverReturn
<1>1. ASSUME TypeOK, [Next]_vars, NEW n \in Names
      PROVE  /\ offerIds'[n] >= offerIds[n]
             /\ offers'[n] \notin {None, offers[n]} => offers'[n].id > offerIds[n]
  <2>1. offerIds[n] \in Nat
    BY <1>1 DEF TypeOK
  <2>2. CASE Untouched(n) \/ Registered(n) \/ Renewed(n) \/ Accepted(n) \/ Withdrawn(n)
    BY <2>1, <2>2 DEF Untouched, Registered, Renewed, Accepted, Withdrawn
  <2>3. CASE Offered(n)
    BY <2>1, <2>3 DEF Offered
  <2>4. QED
    BY <1>1, <2>2, <2>3, StepEffect DEF Changed
<1>2. TypeOK /\ [Next]_vars =>
        [\A n \in Names :
           /\ offerIds'[n] >= offerIds[n]
           /\ offers'[n] \notin {None, offers[n]} => offers'[n].id > offerIds[n]]_vars
  BY <1>1
<1>3. QED
  BY <1>2, TypeCorrect, PTL DEF Spec, OfferIdsNeverReturn

-----------------------------------------------------------------------------
(* The registry implements exclusive, consented leases.                    *)
leases   == [n \in Names |-> LeaseOf(n)]
consents == [n \in Names |-> ConsentOf(n)]

(* The lease of one name, read through the mapping. *)
LEMMA LeaseLemma ==
    ASSUME TypeOK, NEW n \in Names
    PROVE  /\ leases[n] # None <=> names[n] # None
           /\ names[n] # None => /\ leases[n].holder = names[n].owner
                                 /\ leases[n].until = names[n].expires_at
                                 /\ leases[n].until \in Nat
                                 /\ leases[n].generation = names[n].generation
                                 /\ leases[n].revision = names[n].ownership_revision
           /\ Lease!Live(n) <=> Active(n)
           /\ Lease!Free(n) <=> Available(n)
           /\ Lease!NextGeneration(n) = NextGeneration(n)
<1>1. leases[n] = LeaseOf(n)
  BY DEF leases
<1>2. CASE names[n] = None
  BY <1>1, <1>2 DEF LeaseOf, Lease!Live, Lease!Free, Active, Available,
                    NextGeneration, Lease!NextGeneration
<1>3. CASE names[n] # None
  <2>1. /\ names[n].owner \in Addresses
        /\ names[n].expires_at \in Nat
        /\ names[n].generation \in Nat
        /\ names[n].ownership_revision \in Nat
    BY <1>3 DEF TypeOK, Identity
  <2>2. LeaseOf(n) = [holder |-> names[n].owner, until |-> names[n].expires_at,
                      generation |-> names[n].generation,
                      revision |-> names[n].ownership_revision]
    BY <1>3 DEF LeaseOf
  <2>3. LeaseOf(n) \in Leasehold
    BY <2>1, <2>2 DEF Leasehold
  <2>4. LeaseOf(n) # None
    BY <2>3, NoneAssumption
  <2>5. QED
    BY <1>1, <1>3, <2>1, <2>2, <2>4
       DEF Lease!Live, Lease!Free, Active, Available, NextGeneration, Lease!NextGeneration
<1>4. QED
  BY <1>2, <1>3

(* A free slot in the registry is a free hand in the abstract lease.       *)
LEMMA MayHoldLemma ==
    ASSUME TypeOK, ReverseAgrees, NEW a \in Addresses, NEW n \in Names,
           OwnerSlot(a, n)
    PROVE  Lease!MayHold(a, n)
<1>1. ASSUME NEW m \in Names \ {n}, Lease!Live(m), leases[m].holder = a PROVE FALSE
  <2>1. Active(m) /\ names[m].owner = a
    BY <1>1, LeaseLemma DEF Active
  <2>2. QED
    BY <1>1, <2>1, SlotLemma
<1>2. QED
  BY <1>1 DEF Lease!MayHold, leases

(* A step on one name changes the mapped state at that name only. *)
LEMMA MappedFrame ==
    ASSUME NEW n \in Names, \A m \in Names \ {n} : Untouched(m)
    PROVE  /\ leases' = [leases EXCEPT ![n] = LeaseOf(n)']
           /\ consents' = [consents EXCEPT ![n] = ConsentOf(n)']
<1>1. \A m \in Names \ {n} : LeaseOf(m)' = LeaseOf(m) /\ ConsentOf(m)' = ConsentOf(m)
  BY DEF Untouched, LeaseOf, ConsentOf, OfferCurrent
<1>2. QED
  BY <1>1 DEF leases, consents

LEMMA LeaseStep ==
    ASSUME TypeOK, ReverseAgrees, [Next]_vars
    PROVE  [Lease!Next]_(Lease!vars)
<1> USE DEF leases, consents
<1>1. CASE (\A m \in Names : Untouched(m)) /\ now' >= now
  <2>1. leases' = leases /\ consents' = consents
    BY <1>1 DEF Untouched, LeaseOf, ConsentOf, OfferCurrent
  <2>2. QED
    BY <1>1, <2>1 DEF Lease!Next, Lease!Pass
<1>2. ASSUME NEW n \in Names, Changed(n), \A m \in Names \ {n} : Untouched(m),
             now' = now
      PROVE  Lease!Next
  <2>1. /\ leases' = [leases EXCEPT ![n] = LeaseOf(n)']
        /\ consents' = [consents EXCEPT ![n] = ConsentOf(n)']
    BY <1>2, MappedFrame
  <2>2. /\ leases[n] = LeaseOf(n)
        /\ consents[n] = ConsentOf(n)
        /\ now \in Nat
        /\ TypeOK'
        /\ MaxYears * YEAR \in Nat
    BY DurationsAssumption, TypeStep DEF TypeOK
  <2>3. names'[n] # None => /\ names'[n].owner \in Addresses
                            /\ names'[n].expires_at \in Nat
                            /\ names'[n].generation \in Nat
                            /\ names'[n].ownership_revision \in Nat
                            /\ LeaseOf(n)' = [holder |-> names'[n].owner,
                                              until |-> names'[n].expires_at,
                                              generation |-> names'[n].generation,
                                              revision |-> names'[n].ownership_revision]
    BY <2>2 DEF TypeOK, Identity, LeaseOf
  <2>4. names[n] # None => /\ names[n].owner \in Addresses
                           /\ names[n].expires_at \in Nat
                           /\ names[n].generation \in Nat
                           /\ names[n].ownership_revision \in Nat
                           /\ LeaseOf(n) = [holder |-> names[n].owner,
                                            until |-> names[n].expires_at,
                                            generation |-> names[n].generation,
                                            revision |-> names[n].ownership_revision]
    BY DEF TypeOK, Identity, LeaseOf
  <2>5. offers'[n] = None => ConsentOf(n)' = None
    BY DEF ConsentOf, OfferCurrent
  <2> HIDE DEF leases, consents
  <2>6. CASE Registered(n)
    <3>1. Lease!Free(n) /\ names'[n] # None
      BY <2>6, LeaseLemma DEF Registered
    <3>2. Lease!MayHold(names'[n].owner, n)
      BY <2>3, <2>6, <3>1, MayHoldLemma DEF Registered
    <3>3. names'[n].expires_at \in now + 1 .. now + MaxYears * YEAR
      BY <2>2, <2>3, <2>6, <3>1 DEF Registered
    <3>7. /\ names'[n].generation = Lease!NextGeneration(n)
          /\ names'[n].ownership_revision = 1
      BY <2>6, LeaseLemma DEF Registered
    <3>4. Lease!Claim(n, names'[n].owner)
      BY <1>2, <2>1, <2>3, <2>5, <2>6, <3>1, <3>2, <3>3, <3>7
         DEF Lease!Claim, Registered, leases, consents
    <3>5. QED
      BY <2>3, <3>1, <3>4 DEF Lease!Next
  <2>7. CASE Renewed(n)
    <3>1. ~Lease!Free(n) /\ names'[n] # None /\ names[n] # None /\ leases[n] # None
      BY <2>7, LeaseLemma DEF Renewed
    <3>2. leases[n].holder = names[n].owner /\ leases[n].until = names[n].expires_at
      BY <3>1, LeaseLemma
    <3>3. Lease!MayHold(leases[n].holder, n)
      BY <2>4, <2>7, <3>1, <3>2, MayHoldLemma DEF Renewed
    <3>4. names'[n].expires_at \in leases[n].until + 1 .. now + MaxYears * YEAR
      BY <2>2, <2>3, <2>4, <2>7, <3>1, <3>2 DEF Renewed
    <3>5. LeaseOf(n)' = [leases[n] EXCEPT !.until = names'[n].expires_at]
      BY <2>2, <2>3, <2>4, <2>7, <3>1 DEF Renewed
    <3>6. ConsentOf(n)' = consents[n]
      BY <2>2, <2>7 DEF Renewed, ConsentOf, OfferCurrent
    <3>7. consents' = consents
      BY <2>1, <3>6 DEF consents
    <3>8. Lease!Extend(n)
      BY <1>2, <2>1, <3>1, <3>3, <3>4, <3>5, <3>7 DEF Lease!Extend, leases, consents
    <3>9. QED
      BY <3>8 DEF Lease!Next
  <2>8. CASE Accepted(n)
    <3>1. /\ Active(n)
          /\ OfferCurrent(n)
          /\ names[n] # None
          /\ offers[n] \in TransferOffer
      BY <2>8 DEF Accepted, OfferActive, OfferCurrent, TypeOK
    <3>2. offers[n].recipient \in Addresses /\ consents[n] = offers[n].recipient
      BY <2>2, <3>1 DEF TransferOffer, ConsentOf
    <3>3. Lease!Live(n) /\ Lease!MayHold(offers[n].recipient, n)
      BY <2>8, <3>1, <3>2, LeaseLemma, MayHoldLemma DEF Accepted
    <3>4. LeaseOf(n)' = [holder |-> offers[n].recipient, until |-> leases[n].until,
                         generation |-> leases[n].generation,
                         revision |-> leases[n].revision + 1]
      BY <2>3, <2>8, <3>1, LeaseLemma DEF Accepted
    <3>5. Lease!HandOver(n, offers[n].recipient)
      BY <1>2, <2>1, <2>5, <2>8, <3>2, <3>3, <3>4
         DEF Lease!HandOver, Accepted, leases, consents
    <3>6. QED
      BY <3>2, <3>5 DEF Lease!Next
  <2>9. CASE Offered(n)
    <3>1. Active(n) /\ names[n] # None /\ names'[n] = names[n]
      BY <2>9 DEF Offered, Active
    <3>2. LeaseOf(n)' = leases[n]
      BY <2>2, <3>1 DEF LeaseOf
    <3>3. leases' = leases
      BY <2>1, <3>2 DEF leases
    <3>4. ConsentOf(n)' = offers'[n].recipient
      BY <2>9, <3>1 DEF Offered, ConsentOf, OfferCurrent
    <3>5. Lease!Live(n) /\ offers'[n].recipient # leases[n].holder
      BY <2>9, <3>1, LeaseLemma DEF Offered
    <3>6. Lease!Approve(n, offers'[n].recipient)
      BY <1>2, <2>1, <3>3, <3>4, <3>5 DEF Lease!Approve, leases, consents
    <3>7. QED
      BY <2>9, <3>6 DEF Lease!Next, Offered
  <2>10. CASE Withdrawn(n)
    <3>1. LeaseOf(n)' = leases[n]
      BY <2>2, <2>10 DEF LeaseOf, Withdrawn
    <3>2. leases' = leases
      BY <2>1, <3>1 DEF leases
    <3>3. Lease!Withdraw(n)
      BY <1>2, <2>1, <2>5, <2>10, <3>2 DEF Lease!Withdraw, Withdrawn, leases, consents
    <3>4. QED
      BY <3>3 DEF Lease!Next
  <2>11. QED
    BY <1>2, <2>6, <2>7, <2>8, <2>9, <2>10 DEF Changed
<1>3. QED
  BY <1>1, <1>2, StepEffect

(* Every behaviour of the registry is one of leases that are exclusive,    *)
(* reserved through the grace period and handed over by consent only.      *)
THEOREM RegistryImplementsLease == Spec => ImplementsLease
<1>1. Init => Lease!Init
  BY DEF Init, Lease!Init, LeaseOf, ConsentOf, OfferCurrent
<1>2. TypeOK /\ ReverseAgrees /\ [Next]_vars => [Lease!Next]_(Lease!vars)
  BY LeaseStep
<1>3. QED
  BY <1>1, <1>2, TypeCorrect, ReverseCorrect, PTL DEF Spec, Lease!Spec, ImplementsLease

=============================================================================
