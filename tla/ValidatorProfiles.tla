-------------------------- MODULE ValidatorProfiles --------------------------
(***************************************************************************)
(* contracts/neta-validator-profiles/src/lib.rs: the public profile of a   *)
(* name and its link to a pair of validator operators, one on the main     *)
(* network and one on the test network, each of which proves its consent   *)
(* by signing a challenge.                                                 *)
(*                                                                         *)
(* The contract asks the name registry for the identity of a name at every *)
(* call and is never told that one lapsed, was handed over or was claimed  *)
(* by somebody else.  The registry is here what NamesRegistry is proved to *)
(* implement, the leases of NameLease.                                     *)
(*                                                                         *)
(* Contacts are stored and never read, so they are left out; so is the     *)
(* time of the last update.  A challenge is the record of what its text    *)
(* names; a signature over anything else is refused.                       *)
(***************************************************************************)
EXTENDS Integers, FiniteSets

CONSTANTS Names, Addresses, None,
          GRACE, Horizon,     \* of the registry
          Mainnet, Testnet,   \* operators of juno-1 and of uni-7
          MAX_PROOF_AGE,
          MaxTime,            \* bound on the time of the last block
          MaxVersion,         \* bound on claims, and on transfers of a claim
          MaxRevision,        \* bound on the revision of a profile
          MaxSigned           \* bound on the challenges signed so far

Operators == Mainnet \cup Testnet
Pairs     == [mainnet : Mainnet, testnet : Testnet]

Leasehold == [holder : Addresses, until : Nat, generation : Nat, revision : Nat]
Identity  == [owner : Addresses, generation : Nat, ownership_revision : Nat]
Profile   == [identity : Identity, revision : Nat, validators : Pairs \cup {None}]
Challenge == [revoke : BOOLEAN, name : Names, identity : Identity, revision : Nat,
              pair : Pairs, expires_at : Nat]
Signature == [operator : Operators, text : Challenge]

ASSUME ProfilesAssumption ==
    /\ GRACE \in Nat /\ Horizon \in Nat /\ MAX_PROOF_AGE \in Nat
    /\ MaxTime \in Nat /\ MaxVersion \in Nat /\ MaxRevision \in Nat /\ MaxSigned \in Nat

ASSUME ProfilesNoneAssumption ==
    None \notin Names \cup Addresses \cup Leasehold \cup Profile \cup Pairs \cup Challenge

ASSUME NetworksAssumption == Mainnet \cap Testnet = {}

VARIABLES
    lease, consent, now,   \* the registry
    profiles,   \* PROFILES
    bindings,   \* BINDINGS: the name an operator is bound to
    signed,     \* the signatures that operators gave
    accepted,   \* history: those the contract accepted
    latest      \* history: the challenge an operator last had accepted

registry == <<lease, consent, now>>
stored   == <<profiles, bindings>>
history  == <<signed, accepted, latest>>
vars     == <<lease, consent, now, profiles, bindings, signed, accepted, latest>>

Registry == INSTANCE NameLease

TypeOK ==
    /\ lease \in [Names -> Leasehold \cup {None}]
    /\ consent \in [Names -> Addresses \cup {None}]
    /\ now \in Nat
    /\ profiles \in [Names -> Profile \cup {None}]
    /\ bindings \in [Operators -> Names \cup {None}]
    /\ signed \subseteq Signature
    /\ accepted \subseteq signed
    /\ latest \in [Operators -> Challenge \cup {None}]

-----------------------------------------------------------------------------
(* What the registry answers for a name it knows. *)
IdentityOf(n) ==
    [owner |-> lease[n].holder, generation |-> lease[n].generation,
     ownership_revision |-> lease[n].revision]

Active(n) == lease[n] # None /\ now < lease[n].until

Ops(pair) == {pair.mainnet, pair.testnet}

(* The stored profile still belongs to the present identity. *)
Kept(n) == profiles[n] # None /\ profiles[n].identity = IdentityOf(n)

(* Faulty: a stored link is shown although it lost an operator.            *)
ShownLinkRevived(n) ==
    IF Kept(n) /\ profiles[n].validators # None THEN profiles[n].validators ELSE None

(* A stored link is shown as long as both operators are bound to the name. *)
ShownLink(n) ==
    IF /\ Kept(n)
       /\ profiles[n].validators # None
       /\ \A op \in Ops(profiles[n].validators) : bindings[op] = n
    THEN profiles[n].validators ELSE None

(* A profile of another identity is reset, under the next revision. *)
ShownRevision(n) ==
    IF profiles[n] = None THEN 0
    ELSE IF Kept(n) THEN profiles[n].revision ELSE profiles[n].revision + 1

(* The name an operator is shown to be linked to. *)
BoundTo(op) ==
    LET n == bindings[op]
    IN  IF n # None /\ Active(n) /\ ShownLink(n) # None /\ op \in Ops(ShownLink(n))
        THEN n ELSE None

(* The text an operator signs: it names the revision that is shown. *)
Text(revoke, n, pair, until) ==
    [revoke |-> revoke, name |-> n, identity |-> IdentityOf(n),
     revision |-> ShownRevision(n), pair |-> pair, expires_at |-> until]

InTime(n, until) ==
    /\ until > now
    /\ until <= now + MAX_PROOF_AGE
    /\ until <= lease[n].until

(* The bindings without those of a pair that still lead to the name.       *)
WithoutIndexes(n, pair) ==
    [op \in Operators |->
        IF pair # None /\ op \in Ops(pair) /\ bindings[op] = n THEN None ELSE bindings[op]]

StoredLink(n) == IF profiles[n] = None THEN None ELSE profiles[n].validators

(* Every accepted call saves the profile it was shown, one revision on. *)
Save(n, pair) ==
    /\ ShownRevision(n) < MaxRevision
    /\ profiles' = [profiles EXCEPT ![n] =
           [identity |-> IdentityOf(n), revision |-> ShownRevision(n) + 1, validators |-> pair]]

(* Faulty: the signature of one operator stands for both. *)
AcceptOne(ops, text) ==
    LET proofs == {[operator |-> op, text |-> text] : op \in ops}
    IN  /\ proofs \cap signed # {}
        /\ accepted' = accepted \cup proofs
        /\ latest' = [op \in Operators |-> IF op \in ops THEN text ELSE latest[op]]

(* The contract verified the signatures of these operators over the text. *)
Accept(ops, text) ==
    LET proofs == {[operator |-> op, text |-> text] : op \in ops}
    IN  /\ proofs \subseteq signed
        /\ accepted' = accepted \cup proofs
        /\ latest' = [op \in Operators |-> IF op \in ops THEN text ELSE latest[op]]

-----------------------------------------------------------------------------
Init ==
    /\ Registry!Init
    /\ profiles = [n \in Names |-> None]
    /\ bindings = [op \in Operators |-> None]
    /\ signed = {}
    /\ accepted = {}
    /\ latest = [op \in Operators |-> None]

(* An operator signs a challenge that the contract, asked for one, gives.  *)
Sign(op, revoke, n, pair, until) ==
    /\ Active(n)
    /\ op \in Ops(pair)
    /\ InTime(n, until)
    /\ revoke => ShownLink(n) = pair
    /\ Cardinality(signed) < MaxSigned
    /\ signed' = signed \cup {[operator |-> op, text |-> Text(revoke, n, pair, until)]}
    /\ UNCHANGED <<registry, stored, accepted, latest>>

(* The contacts change; what is shown besides is stored with them. *)
UpdateContacts(n, sender) ==
    /\ Active(n)
    /\ sender = lease[n].holder
    /\ Save(n, ShownLink(n))
    /\ UNCHANGED <<registry, bindings, history>>

(* Faulty: an operator of another active name is taken over. *)
LinkValidatorsTakingOver(n, sender, pair, until) ==
    /\ Active(n)
    /\ sender = lease[n].holder
    /\ InTime(n, until)
    /\ Accept(Ops(pair), Text(FALSE, n, pair, until))
    /\ bindings' = [op \in Operators |->
                       IF op \in Ops(pair) THEN n ELSE WithoutIndexes(n, StoredLink(n))[op]]
    /\ Save(n, pair)
    /\ UNCHANGED <<registry, signed>>

LinkValidators(n, sender, pair, until) ==
    /\ Active(n)
    /\ sender = lease[n].holder
    /\ InTime(n, until)
    /\ Accept(Ops(pair), Text(FALSE, n, pair, until))
    /\ \A op \in Ops(pair) : BoundTo(op) \in {None, n}
    /\ bindings' = [op \in Operators |->
                       IF op \in Ops(pair) THEN n ELSE WithoutIndexes(n, StoredLink(n))[op]]
    /\ Save(n, pair)
    /\ UNCHANGED <<registry, signed>>

UnlinkValidators(n, sender) ==
    /\ Active(n)
    /\ sender = lease[n].holder
    /\ bindings' = WithoutIndexes(n, ShownLink(n))
    /\ Save(n, None)
    /\ UNCHANGED <<registry, history>>

(* Faulty: only the owner's calls count as a revision. *)
RevokeByOperatorUnversioned(n, op, until) ==
    /\ Active(n)
    /\ ShownLink(n) # None
    /\ op \in Ops(ShownLink(n))
    /\ InTime(n, until)
    /\ Accept({op}, Text(TRUE, n, ShownLink(n), until))
    /\ bindings' = WithoutIndexes(n, ShownLink(n))
    /\ profiles' = [profiles EXCEPT ![n].validators = None]
    /\ UNCHANGED <<registry, signed>>

(* Whoever relays it: an operator takes its consent back.                  *)
RevokeByOperator(n, op, until) ==
    /\ Active(n)
    /\ ShownLink(n) # None
    /\ op \in Ops(ShownLink(n))
    /\ InTime(n, until)
    /\ Accept({op}, Text(TRUE, n, ShownLink(n), until))
    /\ bindings' = WithoutIndexes(n, ShownLink(n))
    /\ Save(n, None)
    /\ UNCHANGED <<registry, signed>>

-----------------------------------------------------------------------------
(* The registry goes on without telling. *)
ClaimName(n, a) ==
    /\ lease[n] # None => lease[n].generation < MaxVersion
    /\ Registry!Claim(n, a)

HandOverName(n, a) ==
    /\ lease[n] # None /\ lease[n].revision < MaxVersion
    /\ Registry!HandOver(n, a)

NextBlock ==
    /\ now < MaxTime
    /\ now' = now + 1
    /\ Registry!Pass

RegistryStep ==
    /\ \/ \E n \in Names, a \in Addresses :
              ClaimName(n, a) \/ Registry!Approve(n, a) \/ HandOverName(n, a)
       \/ \E n \in Names : Registry!Extend(n) \/ Registry!Withdraw(n)
       \/ NextBlock
    /\ UNCHANGED <<stored, history>>

OperatorStep ==
    \E n \in Names, pair \in Pairs, revoke \in BOOLEAN,
       until \in now + 1 .. now + MAX_PROOF_AGE :
        \E op \in Ops(pair) : Sign(op, revoke, n, pair, until)

OwnerStep(n) ==
    \E sender \in Addresses :
        \/ UpdateContacts(n, sender)
        \/ UnlinkValidators(n, sender)
        \/ \E pair \in Pairs, until \in now + 1 .. now + MAX_PROOF_AGE :
               LinkValidators(n, sender, pair, until)

Revocation(n) ==
    \E op \in Operators, until \in now + 1 .. now + MAX_PROOF_AGE :
        RevokeByOperator(n, op, until)

Next ==
    \/ RegistryStep
    \/ OperatorStep
    \/ \E n \in Names : OwnerStep(n) \/ Revocation(n)

Spec == Init /\ [][Next]_vars

-----------------------------------------------------------------------------
(* A link that is shown rests on the consent of both operators: the last   *)
(* challenge that each of them had accepted asks for this link of this     *)
(* name, under its present identity.  So no operator is shown under two    *)
(* names, and neither renewal, transfer nor another owner of a lapsed name *)
(* revives a link that ended (load_current's comparison of identities and  *)
(* of bindings).                                                           *)
LinksProven ==
    \A n \in Names :
        Active(n) /\ ShownLink(n) # None =>
            \A op \in Ops(ShownLink(n)) :
                /\ latest[op] # None
                /\ ~latest[op].revoke
                /\ latest[op].name = n
                /\ latest[op].identity = IdentityOf(n)
                /\ latest[op].pair = ShownLink(n)

(* While a name stays active under one identity, its link is changed by    *)
(* its own owner's call or by a revocation of one of its operators only:   *)
(* nothing that is done under another name removes or replaces it          *)
(* (the binding check of LinkValidators, and remove_indexes).              *)
LinksStand ==
    [][\A n \in Names :
           /\ Active(n)
           /\ Active(n)'
           /\ IdentityOf(n)' = IdentityOf(n)
           /\ ShownLink(n)' # ShownLink(n)
           => OwnerStep(n) \/ Revocation(n)]_vars

(* The contract would take the challenge for the name's present state. *)
Matches(text) ==
    /\ lease[text.name] # None
    /\ text.identity = IdentityOf(text.name)
    /\ text.revision = ShownRevision(text.name)

(* A signature is accepted once: whatever happens to the name and to its   *)
(* profile afterwards, the challenge never again matches what is shown,    *)
(* although it has not expired (docs/NNS_VALIDATOR_PROFILES_2026-10-04.md, *)
(* "old prepared proofs cannot be reused").                                *)
ProofsSpent == \A s \in accepted : ~Matches(s.text)
=============================================================================
