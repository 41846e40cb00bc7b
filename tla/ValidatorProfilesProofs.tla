----------------------- MODULE ValidatorProfilesProofs -----------------------
(***************************************************************************)
(* Proofs about ValidatorProfiles, for any numbers of names, owners and    *)
(* operators.  The registry is only assumed to be NameLease, which         *)
(* NamesRegistryProofs proves of the registry contract.                    *)
(***************************************************************************)
EXTENDS ValidatorProfiles, TLAPS

(* A bound operator of a stored link last had this very link accepted.     *)
Proven ==
    \A n \in Names :
        profiles[n] # None /\ profiles[n].validators # None =>
            \A op \in Ops(profiles[n].validators) : bindings[op] = n =>
                /\ latest[op] # None
                /\ ~latest[op].revoke
                /\ latest[op].name = n
                /\ latest[op].identity = profiles[n].identity
                /\ latest[op].pair = profiles[n].validators

(* The profile of a name has left behind every revision that was signed    *)
(* and accepted.                                                           *)
LeftBehind ==
    \A s \in accepted :
        /\ profiles[s.text.name] # None
        /\ profiles[s.text.name].revision > s.text.revision

IInv == TypeOK /\ Proven /\ LeftBehind

-----------------------------------------------------------------------------
(* What is shown is well formed.                                           *)
LEMMA Shown ==
    ASSUME TypeOK, NEW n \in Names
    PROVE  /\ ShownRevision(n) \in Nat
           /\ ShownLink(n) \in Pairs \cup {None}
           /\ StoredLink(n) \in Pairs \cup {None}
           /\ profiles[n] # None => profiles[n].revision <= ShownRevision(n)
           /\ ShownLink(n) # None =>
                  /\ profiles[n] # None
                  /\ profiles[n].validators = ShownLink(n)
                  /\ profiles[n].identity = IdentityOf(n)
                  /\ \A op \in Ops(ShownLink(n)) : bindings[op] = n
<1>1. profiles[n] \in Profile \cup {None}
  BY DEF TypeOK
<1>2. QED
  BY <1>1, ProfilesNoneAssumption
     DEF ShownRevision, ShownLink, StoredLink, Kept, Profile

LEMMA IdentityTyped ==
    ASSUME TypeOK, NEW n \in Names, lease[n] # None
    PROVE  IdentityOf(n) \in Identity
BY DEF TypeOK, Leasehold, IdentityOf, Identity

LEMMA OpsTyped ==
    ASSUME NEW pair \in Pairs
    PROVE  Ops(pair) \subseteq Operators
BY DEF Pairs, Ops, Operators

(* The saved profile of an active name. *)
LEMMA Saved ==
    ASSUME TypeOK, NEW n \in Names, Active(n), NEW pair \in Pairs \cup {None}, Save(n, pair)
    PROVE  /\ profiles' \in [Names -> Profile \cup {None}]
           /\ profiles'[n] # None
           /\ profiles'[n].identity = IdentityOf(n)
           /\ profiles'[n].revision = ShownRevision(n) + 1
           /\ profiles'[n].validators = pair
           /\ \A m \in Names \ {n} : profiles'[m] = profiles[m]
<1> DEFINE record == [identity |-> IdentityOf(n), revision |-> ShownRevision(n) + 1,
                      validators |-> pair]
<1>1. record \in Profile
  BY IdentityTyped, Shown DEF Active, Profile
<1>2. profiles' = [profiles EXCEPT ![n] = record]
  BY DEF Save
<1>3. QED
  BY <1>1, <1>2, ProfilesNoneAssumption DEF TypeOK

(* Indexes are removed of the name itself only. *)
LEMMA IndexesRemoved ==
    ASSUME TypeOK, NEW n \in Names, NEW pair
    PROVE  /\ WithoutIndexes(n, pair) \in [Operators -> Names \cup {None}]
           /\ \A op \in Operators :
                  /\ WithoutIndexes(n, pair)[op] \in {bindings[op], None}
                  /\ bindings[op] # n => WithoutIndexes(n, pair)[op] = bindings[op]
BY DEF TypeOK, WithoutIndexes

LEMMA Accepted ==
    ASSUME TypeOK, NEW ops \in SUBSET Operators, NEW text \in Challenge, Accept(ops, text)
    PROVE  /\ accepted' \subseteq signed
           /\ \A s \in accepted' : s \in accepted \/ s.text = text
           /\ latest' \in [Operators -> Challenge \cup {None}]
           /\ \A op \in Operators : latest'[op] = IF op \in ops THEN text ELSE latest[op]
BY DEF TypeOK, Accept

LEMMA TextTyped ==
    ASSUME TypeOK, NEW n \in Names, lease[n] # None, NEW pair \in Pairs,
           NEW revoke \in BOOLEAN, NEW until \in Nat
    PROVE  Text(revoke, n, pair, until) \in Challenge
BY IdentityTyped, Shown DEF Text, Challenge

LEMMA RevocationText ==
    ASSUME TypeOK, NEW n \in Names, lease[n] # None, NEW pair \in Pairs, NEW until \in Nat
    PROVE  /\ Text(TRUE, n, pair, until) \in Challenge
           /\ Text(TRUE, n, pair, until).name = n
           /\ Text(TRUE, n, pair, until).revision = ShownRevision(n)
BY IdentityTyped, Shown DEF Text, Challenge

LEMMA LinkText ==
    ASSUME TypeOK, NEW n \in Names, lease[n] # None, NEW pair \in Pairs, NEW until \in Nat
    PROVE  /\ Text(FALSE, n, pair, until) \in Challenge
           /\ ~Text(FALSE, n, pair, until).revoke
           /\ Text(FALSE, n, pair, until).name = n
           /\ Text(FALSE, n, pair, until).identity = IdentityOf(n)
           /\ Text(FALSE, n, pair, until).revision = ShownRevision(n)
           /\ Text(FALSE, n, pair, until).pair = pair
BY IdentityTyped, Shown DEF Text, Challenge

-----------------------------------------------------------------------------
(* What one step may do: nothing to what is stored, or one accepted call   *)
(* under one name.                                                         *)
Aside ==
    /\ UNCHANGED <<profiles, bindings, accepted, latest>>
    /\ lease' \in [Names -> Leasehold \cup {None}]
    /\ consent' \in [Names -> Addresses \cup {None}]
    /\ now' \in Nat
    /\ signed \subseteq signed' /\ signed' \subseteq Signature

LEMMA RegistryAside ==
    ASSUME TypeOK, RegistryStep
    PROVE  Aside
<1> USE ProfilesAssumption DEF TypeOK
<1>1. UNCHANGED <<profiles, bindings, signed, accepted, latest>>
  BY DEF RegistryStep, stored, history
<1>2. ASSUME NEW n \in Names, NEW a \in Addresses, ClaimName(n, a)
      PROVE  Aside
  <2>1. PICK until \in now + 1 .. now + Horizon :
            lease' = [lease EXCEPT ![n] = [holder |-> a, until |-> until,
                          generation |-> Registry!NextGeneration(n), revision |-> 1]]
    BY <1>2 DEF ClaimName, Registry!Claim
  <2>2. Registry!NextGeneration(n) \in Nat
    BY DEF Registry!NextGeneration, Leasehold
  <2>3. [holder |-> a, until |-> until, generation |-> Registry!NextGeneration(n),
         revision |-> 1] \in Leasehold
    BY <2>2 DEF Leasehold
  <2>4. QED
    BY <1>1, <1>2, <2>1, <2>3 DEF ClaimName, Registry!Claim, Aside
<1>3. ASSUME NEW n \in Names, NEW a \in Addresses, Registry!Approve(n, a)
      PROVE  Aside
  BY <1>1, <1>3 DEF Registry!Approve, Aside
<1>4. ASSUME NEW n \in Names, NEW a \in Addresses, HandOverName(n, a)
      PROVE  Aside
  <2>1. lease[n] \in Leasehold
    BY <1>4 DEF HandOverName
  <2>2. [holder |-> a, until |-> lease[n].until, generation |-> lease[n].generation,
         revision |-> lease[n].revision + 1] \in Leasehold
    BY <2>1 DEF Leasehold
  <2>3. QED
    BY <1>1, <1>4, <2>2 DEF HandOverName, Registry!HandOver, Aside
<1>5. ASSUME NEW n \in Names, Registry!Extend(n)
      PROVE  Aside
  <2>1. lease[n] \in Leasehold
    BY <1>5 DEF Registry!Extend
  <2>2. PICK until \in lease[n].until + 1 .. now + Horizon :
            lease' = [lease EXCEPT ![n].until = until]
    BY <1>5 DEF Registry!Extend
  <2>3. [lease[n] EXCEPT !.until = until] \in Leasehold
    BY <2>1, <2>2 DEF Leasehold
  <2>4. QED
    BY <1>1, <1>5, <2>2, <2>3 DEF Registry!Extend, Aside
<1>6. ASSUME NEW n \in Names, Registry!Withdraw(n)
      PROVE  Aside
  BY <1>1, <1>6 DEF Registry!Withdraw, Aside
<1>7. ASSUME NextBlock
      PROVE  Aside
  BY <1>1, <1>7 DEF NextBlock, Registry!Pass, Aside
<1>8. QED
  BY <1>2, <1>3, <1>4, <1>5, <1>6, <1>7 DEF RegistryStep

LEMMA SignAside ==
    ASSUME TypeOK, OperatorStep
    PROVE  Aside
<1>1. PICK n \in Names, pair \in Pairs, revoke \in BOOLEAN,
           until \in now + 1 .. now + MAX_PROOF_AGE :
          \E op \in Ops(pair) : Sign(op, revoke, n, pair, until)
  BY DEF OperatorStep
<1>2. PICK op \in Ops(pair) : Sign(op, revoke, n, pair, until)
  BY <1>1
<1>3. until \in Nat /\ op \in Operators /\ lease[n] # None
  BY <1>2, OpsTyped, ProfilesAssumption DEF TypeOK, Sign, Active
<1>4. [operator |-> op, text |-> Text(revoke, n, pair, until)] \in Signature
  BY <1>3, TextTyped DEF Signature
<1>5. QED
  BY <1>2, <1>4 DEF Sign, Aside, TypeOK, registry, stored

(* A call under name n that is not a link: it keeps or drops the shown     *)
(* link and has at most one revocation accepted.                           *)
Edited(n) ==
    /\ Active(n)
    /\ UNCHANGED <<lease, consent, now, signed>>
    /\ \E pair \in {ShownLink(n), None} : Save(n, pair)
    /\ bindings' \in {bindings, WithoutIndexes(n, ShownLink(n))}
    /\ \/ UNCHANGED <<accepted, latest>>
       \/ /\ profiles'[n].validators = None
          /\ ShownLink(n) # None
          /\ \E op \in Ops(ShownLink(n)), until \in Nat :
                 Accept({op}, Text(TRUE, n, ShownLink(n), until))

Linked(n, pair, until) ==
    /\ Active(n)
    /\ UNCHANGED <<lease, consent, now, signed>>
    /\ Save(n, pair)
    /\ Accept(Ops(pair), Text(FALSE, n, pair, until))
    /\ \A op \in Ops(pair) : BoundTo(op) \in {None, n}
    /\ bindings' = [op \in Operators |->
                       IF op \in Ops(pair) THEN n ELSE WithoutIndexes(n, StoredLink(n))[op]]

LEMMA CallForms ==
    ASSUME TypeOK, NEW n \in Names, OwnerStep(n) \/ Revocation(n)
    PROVE  Edited(n) \/ \E pair \in Pairs, until \in Nat : Linked(n, pair, until)
<1> USE ProfilesAssumption DEF TypeOK
<1>1. ASSUME NEW sender \in Addresses, UpdateContacts(n, sender)
      PROVE  Edited(n)
  BY <1>1 DEF UpdateContacts, Edited, registry, history
<1>2. ASSUME NEW sender \in Addresses, UnlinkValidators(n, sender)
      PROVE  Edited(n)
  BY <1>2 DEF UnlinkValidators, Edited, registry, history
<1>3. ASSUME NEW sender \in Addresses, NEW pair \in Pairs,
             NEW until \in now + 1 .. now + MAX_PROOF_AGE,
             LinkValidators(n, sender, pair, until)
      PROVE  \E p \in Pairs, u \in Nat : Linked(n, p, u)
  <2>1. until \in Nat
    OBVIOUS
  <2>2. Linked(n, pair, until)
    BY <1>3 DEF LinkValidators, Linked, registry
  <2>3. QED
    BY <2>1, <2>2
<1>4. ASSUME NEW op \in Operators, NEW until \in now + 1 .. now + MAX_PROOF_AGE,
             RevokeByOperator(n, op, until)
      PROVE  Edited(n)
  <2>1. until \in Nat
    OBVIOUS
  <2>2. profiles'[n].validators = None
    BY <1>4, Saved DEF RevokeByOperator
  <2>3. QED
    BY <1>4, <2>1, <2>2 DEF RevokeByOperator, Edited, registry
<1>5. QED
  BY <1>1, <1>2, <1>3, <1>4 DEF OwnerStep, Revocation

-----------------------------------------------------------------------------
(* Each form of a step keeps the invariant. *)
LEMMA AsideKeeps ==
    ASSUME IInv, Aside
    PROVE  IInv'
<1>1. TypeOK'
  BY DEF IInv, Aside, TypeOK
<1>2. Proven' /\ LeftBehind'
  BY DEF IInv, Aside, Proven, LeftBehind
<1>3. QED
  BY <1>1, <1>2 DEF IInv

LEMMA EditKeeps ==
    ASSUME IInv, NEW n \in Names, Edited(n)
    PROVE  IInv'
<1>0. TypeOK /\ Proven /\ LeftBehind /\ Active(n) /\ lease[n] # None
  BY DEF IInv, Edited, Active
<1>1. PICK pair \in {ShownLink(n), None} : Save(n, pair)
  BY DEF Edited
<1>2. pair \in Pairs \cup {None}
  BY <1>0, Shown
<1>3. /\ profiles' \in [Names -> Profile \cup {None}]
      /\ profiles'[n] # None
      /\ profiles'[n].identity = IdentityOf(n)
      /\ profiles'[n].revision = ShownRevision(n) + 1
      /\ profiles'[n].validators = pair
      /\ \A m \in Names \ {n} : profiles'[m] = profiles[m]
  BY <1>0, <1>1, <1>2, Saved
<1>4. /\ bindings' \in [Operators -> Names \cup {None}]
      /\ \A op \in Operators : bindings'[op] \in {bindings[op], None}
  BY <1>0, IndexesRemoved DEF Edited, TypeOK
<1>5. /\ accepted' \subseteq signed
      /\ latest' \in [Operators -> Challenge \cup {None}]
      /\ \A s \in accepted' :
             s \in accepted \/ (s.text.name = n /\ s.text.revision = ShownRevision(n))
      /\ \/ latest' = latest
         \/ /\ pair = None
            /\ \A op \in Operators : bindings[op] # n => latest'[op] = latest[op]
  <2>1. CASE UNCHANGED <<accepted, latest>>
    BY <1>0, <2>1 DEF TypeOK
  <2>2. CASE ~UNCHANGED <<accepted, latest>>
    <3>1. ShownLink(n) # None /\ pair = None
      BY <1>3, <2>2 DEF Edited
    <3>2. PICK op \in Ops(ShownLink(n)), until \in Nat :
              Accept({op}, Text(TRUE, n, ShownLink(n), until))
      BY <2>2 DEF Edited
    <3>3. ShownLink(n) \in Pairs /\ op \in Operators /\ bindings[op] = n
      BY <1>0, <3>1, Shown, OpsTyped
    <3>4. /\ Text(TRUE, n, ShownLink(n), until) \in Challenge
          /\ Text(TRUE, n, ShownLink(n), until).name = n
          /\ Text(TRUE, n, ShownLink(n), until).revision = ShownRevision(n)
      BY <1>0, <3>3, RevocationText
    <3>5. {op} \in SUBSET Operators
      BY <3>3
    <3>6. /\ accepted' \subseteq signed
          /\ \A s \in accepted' : s \in accepted \/ s.text = Text(TRUE, n, ShownLink(n), until)
          /\ latest' \in [Operators -> Challenge \cup {None}]
          /\ \A o \in Operators :
                 latest'[o] = IF o \in {op} THEN Text(TRUE, n, ShownLink(n), until)
                              ELSE latest[o]
      BY <1>0, <3>2, <3>4, <3>5, Accepted, Zenon
    <3>7. QED
      BY <3>1, <3>3, <3>4, <3>6
  <2>3. QED
    BY <2>1, <2>2
<1>6. TypeOK'
  BY <1>0, <1>3, <1>4, <1>5 DEF TypeOK, Edited
<1>7. LeftBehind'
  <2>1. \A s \in accepted' : s.text.name \in Names /\ s.text.revision \in Nat
    BY <1>6 DEF TypeOK, Signature, Challenge
  <2>2. ASSUME NEW s \in accepted'
        PROVE  /\ profiles'[s.text.name] # None
               /\ profiles'[s.text.name].revision > s.text.revision
    <3>1. CASE s.text.name # n
      BY <1>0, <1>3, <1>5, <2>1, <3>1 DEF LeftBehind
    <3>2. CASE s.text.name = n /\ s \in accepted
      <4>1. /\ profiles[n] # None
            /\ profiles[n].revision > s.text.revision
            /\ profiles[n].revision <= ShownRevision(n)
            /\ profiles[n].revision \in Nat
        BY <1>0, <3>2, Shown DEF LeftBehind, TypeOK, Profile
      <4>2. QED
        BY <1>0, <1>3, <2>1, <3>2, <4>1, Shown
    <3>3. CASE s.text.name = n /\ s \notin accepted
      BY <1>0, <1>3, <1>5, <2>1, <3>3, Shown
    <3>4. QED
      BY <3>1, <3>2, <3>3
  <2>3. QED
    BY <2>2 DEF LeftBehind
<1>8. Proven'
  <2>1. ASSUME NEW m \in Names, profiles'[m] # None, profiles'[m].validators # None,
               NEW op \in Ops(profiles'[m].validators), bindings'[op] = m
        PROVE  /\ latest'[op] # None
               /\ ~latest'[op].revoke
               /\ latest'[op].name = m
               /\ latest'[op].identity = profiles'[m].identity
               /\ latest'[op].pair = profiles'[m].validators
    <3>1. profiles'[m].validators \in Pairs /\ op \in Operators
      BY <1>3, <2>1, OpsTyped DEF Profile
    <3>2. bindings[op] = m
      BY <1>4, <2>1, <3>1, ProfilesNoneAssumption
    <3>3. /\ profiles[m] # None
          /\ profiles[m].validators = profiles'[m].validators
          /\ profiles[m].identity = profiles'[m].identity
      <4>1. CASE m # n
        BY <1>3, <2>1, <4>1
      <4>2. CASE m = n
        BY <1>0, <1>1, <1>3, <2>1, <4>2, Shown
      <4>3. QED
        BY <4>1, <4>2
    <3>4. latest'[op] = latest[op]
      BY <1>3, <1>5, <2>1, <3>1, <3>2
    <3>5. QED
      BY <1>0, <2>1, <3>2, <3>3, <3>4 DEF Proven
  <2>2. QED
    BY <2>1 DEF Proven
<1>9. QED
  BY <1>6, <1>7, <1>8 DEF IInv

LEMMA LinkKeeps ==
    ASSUME IInv, NEW n \in Names, NEW pair \in Pairs, NEW until \in Nat,
           Linked(n, pair, until)
    PROVE  IInv'
<1> DEFINE text == Text(FALSE, n, pair, until)
<1>0. /\ TypeOK /\ Proven /\ LeftBehind /\ Active(n) /\ lease[n] # None
      /\ Ops(pair) \subseteq Operators
  BY OpsTyped DEF IInv, Linked, Active
<1>1. /\ profiles' \in [Names -> Profile \cup {None}]
      /\ profiles'[n] # None
      /\ profiles'[n].identity = IdentityOf(n)
      /\ profiles'[n].revision = ShownRevision(n) + 1
      /\ profiles'[n].validators = pair
      /\ \A m \in Names \ {n} : profiles'[m] = profiles[m]
  BY <1>0, Saved DEF Linked
<1>2. /\ bindings' \in [Operators -> Names \cup {None}]
      /\ \A op \in Operators :
             IF op \in Ops(pair) THEN bindings'[op] = n
             ELSE bindings'[op] \in {bindings[op], None}
  BY <1>0, IndexesRemoved DEF Linked
<1>3. /\ text \in Challenge
      /\ text # None
      /\ ~text.revoke
      /\ text.name = n
      /\ text.identity = IdentityOf(n)
      /\ text.revision = ShownRevision(n)
      /\ text.pair = pair
  <2>1. text \in Challenge
    BY <1>0, LinkText, Zenon
  <2>2. text # None
    BY <2>1, ProfilesNoneAssumption
  <2>3. QED
    BY <1>0, <2>1, <2>2, LinkText, Zenon
<1> HIDE DEF text
<1>4. /\ accepted' \subseteq signed
      /\ \A s \in accepted' : s \in accepted \/ s.text = text
      /\ latest' \in [Operators -> Challenge \cup {None}]
      /\ \A op \in Operators : latest'[op] = IF op \in Ops(pair) THEN text ELSE latest[op]
  BY <1>0, <1>3, Accepted DEF Linked, text
<1>5. TypeOK'
  BY <1>0, <1>1, <1>2, <1>4 DEF TypeOK, Linked
<1>6. LeftBehind'
  <2>1. \A s \in accepted' : s.text.name \in Names /\ s.text.revision \in Nat
    BY <1>5 DEF TypeOK, Signature, Challenge
  <2>2. ASSUME NEW s \in accepted'
        PROVE  /\ profiles'[s.text.name] # None
               /\ profiles'[s.text.name].revision > s.text.revision
    <3>1. CASE s.text.name # n
      BY <1>0, <1>1, <1>3, <1>4, <2>1, <3>1 DEF LeftBehind
    <3>2. CASE s.text.name = n /\ s \in accepted
      <4>1. /\ profiles[n] # None
            /\ profiles[n].revision > s.text.revision
            /\ profiles[n].revision <= ShownRevision(n)
            /\ profiles[n].revision \in Nat
        BY <1>0, <3>2, Shown DEF LeftBehind, TypeOK, Profile
      <4>2. QED
        BY <1>0, <1>1, <2>1, <3>2, <4>1, Shown
    <3>3. CASE s.text.name = n /\ s \notin accepted
      BY <1>0, <1>1, <1>3, <1>4, <2>1, <3>3, Shown
    <3>4. QED
      BY <3>1, <3>2, <3>3
  <2>3. QED
    BY <2>2 DEF LeftBehind
<1>7. Proven'
  <2>1. ASSUME NEW m \in Names, profiles'[m] # None, profiles'[m].validators # None,
               NEW op \in Ops(profiles'[m].validators), bindings'[op] = m
        PROVE  /\ latest'[op] # None
               /\ ~latest'[op].revoke
               /\ latest'[op].name = m
               /\ latest'[op].identity = profiles'[m].identity
               /\ latest'[op].pair = profiles'[m].validators
    <3>1. op \in Operators
      BY <1>1, <2>1, OpsTyped DEF Profile
    <3>2. CASE m = n
      BY <1>1, <1>3, <1>4, <2>1, <3>1, <3>2
    <3>3. CASE m # n
      <4>1. op \notin Ops(pair) /\ bindings[op] = m
        BY <1>2, <2>1, <3>1, <3>3, ProfilesNoneAssumption
      <4>2. latest'[op] = latest[op] /\ profiles'[m] = profiles[m]
        BY <1>1, <1>4, <3>1, <3>3, <4>1
      <4>3. QED
        BY <1>0, <2>1, <4>1, <4>2 DEF Proven
    <3>4. QED
      BY <3>2, <3>3
  <2>2. QED
    BY <2>1 DEF Proven
<1>8. QED
  BY <1>5, <1>6, <1>7 DEF IInv

LEMMA InvariantHolds == Spec => []IInv
<1>1. Init => IInv
  <2>1. ASSUME Init PROVE IInv
    <3>1. TypeOK
      BY <2>1 DEF Init, Registry!Init, TypeOK
    <3>2. Proven /\ LeftBehind
      BY <2>1 DEF Init, Proven, LeftBehind
    <3>3. QED
      BY <3>1, <3>2 DEF IInv
  <2>2. QED
    BY <2>1
<1>2. IInv /\ [Next]_vars => IInv'
  <2>1. ASSUME IInv, RegistryStep \/ OperatorStep PROVE IInv'
    BY <2>1, RegistryAside, SignAside, AsideKeeps DEF IInv
  <2>2. ASSUME IInv, NEW n \in Names, OwnerStep(n) \/ Revocation(n) PROVE IInv'
    BY <2>2, CallForms, EditKeeps, LinkKeeps DEF IInv
  <2>3. ASSUME IInv, UNCHANGED vars PROVE IInv'
    <3>1. Aside
      BY <2>3 DEF IInv, TypeOK, vars, Aside
    <3>2. QED
      BY <2>3, <3>1, AsideKeeps
  <2>4. QED
    BY <2>1, <2>2, <2>3 DEF Next
<1>3. QED
  BY <1>1, <1>2, PTL DEF Spec

(* Everything the contract stores has its declared form. *)
THEOREM TypeCorrect == Spec => []TypeOK
<1>1. IInv => TypeOK
  BY DEF IInv
<1>2. QED
  BY <1>1, InvariantHolds, PTL

(* A link that is shown rests on the last word of both its operators. *)
THEOREM LinksAreProven == Spec => []LinksProven
<1>1. ASSUME IInv PROVE LinksProven
  <2>1. ASSUME NEW n \in Names, ShownLink(n) # None, NEW op \in Ops(ShownLink(n))
        PROVE  /\ latest[op] # None
               /\ ~latest[op].revoke
               /\ latest[op].name = n
               /\ latest[op].identity = IdentityOf(n)
               /\ latest[op].pair = ShownLink(n)
    <3>1. TypeOK /\ Proven
      BY <1>1 DEF IInv
    <3>2. /\ profiles[n] # None
          /\ profiles[n].validators = ShownLink(n)
          /\ profiles[n].identity = IdentityOf(n)
          /\ bindings[op] = n
      BY <2>1, <3>1, Shown
    <3>3. QED
      BY <2>1, <3>1, <3>2 DEF Proven
  <2>2. QED
    BY <2>1 DEF LinksProven
<1>2. QED
  BY <1>1, InvariantHolds, PTL

(* No challenge that was accepted ever matches its name again. *)
THEOREM AcceptedOnce == Spec => []ProofsSpent
<1>1. ASSUME IInv PROVE ProofsSpent
  <2>1. ASSUME NEW s \in accepted PROVE ~Matches(s.text)
    <3>1. TypeOK /\ LeftBehind
      BY <1>1 DEF IInv
    <3>2. s.text.name \in Names /\ s.text.revision \in Nat
      BY <3>1 DEF TypeOK, Signature, Challenge
    <3>3. /\ profiles[s.text.name] # None
          /\ profiles[s.text.name].revision > s.text.revision
          /\ profiles[s.text.name].revision \in Nat
      BY <3>1, <3>2 DEF LeftBehind, TypeOK, Profile
    <3>4. /\ profiles[s.text.name].revision <= ShownRevision(s.text.name)
          /\ ShownRevision(s.text.name) \in Nat
      BY <3>1, <3>2, <3>3, Shown
    <3>5. QED
      BY <3>2, <3>3, <3>4 DEF Matches
  <2>2. QED
    BY <2>1 DEF ProofsSpent
<1>2. QED
  BY <1>1, InvariantHolds, PTL

-----------------------------------------------------------------------------
(* What is done under another name leaves a shown link alone. *)
LEMMA OthersKeep ==
    ASSUME TypeOK, NEW n \in Names, Active(n), IdentityOf(n)' = IdentityOf(n),
           NEW m \in Names \ {n}, OwnerStep(m) \/ Revocation(m)
    PROVE  ShownLink(n)' = ShownLink(n)
<1>1. /\ profiles'[n] = profiles[n]
      /\ \A op \in Operators :
             /\ bindings[op] # n => bindings'[op] # n
             /\ BoundTo(op) = n => bindings'[op] = bindings[op]
  <2>0. \A op \in Operators : BoundTo(op) = n => bindings[op] = n
    BY ProfilesNoneAssumption DEF BoundTo
  <2>1. CASE Edited(m)
    <3>1. PICK pair \in {ShownLink(m), None} : Save(m, pair)
      BY <2>1 DEF Edited
    <3>2. QED
      BY <2>0, <2>1, <3>1, Shown, Saved, IndexesRemoved, ProfilesNoneAssumption DEF Edited
  <2>2. ASSUME NEW pair \in Pairs, NEW until \in Nat, Linked(m, pair, until)
        PROVE  /\ profiles'[n] = profiles[n]
               /\ \A op \in Operators :
                      /\ bindings[op] # n => bindings'[op] # n
                      /\ BoundTo(op) = n => bindings'[op] = bindings[op]
    <3>1. profiles'[n] = profiles[n]
      BY <2>2, Saved DEF Linked
    <3>2. \A op \in Ops(pair) : BoundTo(op) # n
      BY <2>2, ProfilesNoneAssumption DEF Linked
    <3>3. \A op \in Operators :
              bindings'[op] = IF op \in Ops(pair) THEN m
                              ELSE WithoutIndexes(m, StoredLink(m))[op]
      BY <2>2 DEF Linked
    <3>4. QED
      BY <2>0, <3>1, <3>2, <3>3, IndexesRemoved, ProfilesNoneAssumption
  <2>3. QED
    BY <2>1, <2>2, CallForms
<1>2. profiles[n] # None => profiles[n].validators \in Pairs \cup {None}
  BY DEF TypeOK, Profile
<1>3. CASE ShownLink(n) # None
  <2>1. /\ ShownLink(n) \in Pairs
        /\ Ops(ShownLink(n)) \subseteq Operators
        /\ profiles[n] # None
        /\ profiles[n].validators = ShownLink(n)
        /\ profiles[n].identity = IdentityOf(n)
        /\ \A op \in Ops(ShownLink(n)) : bindings[op] = n
    BY <1>3, Shown, OpsTyped
  <2>2. \A op \in Ops(ShownLink(n)) : BoundTo(op) = n
    BY <1>3, <2>1, ProfilesNoneAssumption DEF BoundTo
  <2>3. \A op \in Ops(ShownLink(n)) : bindings'[op] = n
    BY <1>1, <2>1, <2>2
  <2>4. QED
    BY <1>1, <1>3, <2>1, <2>3 DEF ShownLink, Kept
<1>4. CASE ShownLink(n) = None
  <2>1. CASE ~Kept(n)
    BY <1>1, <1>4, <2>1 DEF ShownLink, Kept
  <2>2. CASE Kept(n) /\ profiles[n].validators = None
    BY <1>1, <1>4, <2>2 DEF ShownLink, Kept
  <2>3. CASE Kept(n) /\ profiles[n].validators # None
    <3>1. profiles[n].validators \in Pairs /\ Ops(profiles[n].validators) \subseteq Operators
      BY <1>2, <2>3, OpsTyped DEF Kept
    <3>2. PICK op \in Ops(profiles[n].validators) : bindings[op] # n
      BY <1>4, <2>3 DEF ShownLink
    <3>3. bindings'[op] # n
      BY <1>1, <3>1, <3>2
    <3>4. QED
      BY <1>1, <1>4, <3>2, <3>3 DEF ShownLink
  <2>4. QED
    BY <2>1, <2>2, <2>3
<1>5. QED
  BY <1>3, <1>4

(* The link of an active name changes at its own owner's or operators'     *)
(* call only.                                                              *)
THEOREM LinksAreLeftAlone == Spec => LinksStand
<1>1. ASSUME TypeOK, [Next]_vars, NEW n \in Names, Active(n),
             IdentityOf(n)' = IdentityOf(n), ShownLink(n)' # ShownLink(n)
      PROVE  OwnerStep(n) \/ Revocation(n)
  <2>1. CASE RegistryStep \/ OperatorStep \/ UNCHANGED vars
    <3>1. UNCHANGED <<profiles, bindings>>
      BY <1>1, <2>1, RegistryAside, SignAside DEF Aside, vars
    <3>2. ShownLink(n)' = ShownLink(n)
      BY <1>1, <3>1 DEF ShownLink, Kept
    <3>3. QED
      BY <1>1, <3>2
  <2>2. CASE \E m \in Names : OwnerStep(m) \/ Revocation(m)
    BY <1>1, <2>2, OthersKeep
  <2>3. QED
    BY <1>1, <2>1, <2>2 DEF Next
<1>2. TypeOK /\ [Next]_vars =>
        [\A n \in Names :
           /\ Active(n)
           /\ Active(n)'
           /\ IdentityOf(n)' = IdentityOf(n)
           /\ ShownLink(n)' # ShownLink(n)
           => OwnerStep(n) \/ Revocation(n)]_vars
  BY <1>1
<1>3. QED
  BY <1>2, TypeCorrect, PTL DEF Spec, LinksStand
=============================================================================
