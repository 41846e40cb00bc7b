# A TLA+ verification of Cosmoot

Cosmoot is a set of tools by which the NETA DAO and other Juno communities
govern themselves: CosmWasm contracts that hold names, proposal reviews and
encrypted mail, small Node services beside them, and browser pages that sign
transactions.  This directory models the parts whose correctness depends on
order: who may do what after whom, what survives a crash, and what happens when
an answer is lost.  TLC checks every model on small instances; TLAPS proves the
theorems listed below for every value of the constants.

To check: `tlc -config X.cfg M` for each run of the table, `tlapm M.tla` for
each module of theorems (`NamesRegistryProofs`, `ValidatorProfilesProofs`,
`FaucetProofs`, `NativeVoteProofs`, `ReviewWorkshopProofs`, `RelayDaoProofs`,
`DiscussionsProofs`, `RelayPersonalProofs`).

## Inventory

`docs/SOURCE_MAP.md` names the responsibilities of the repository and
`docs/CURRENT_STATE.md` what is live.  The parts below keep state or order
steps; everything else (`PROJECT.json`, "components") is rendering, pure
arithmetic over published data, or tooling.

| Component | State | Operations | What makes it correct |
|---|---|---|---|
| Name registry v2, `contracts/neta-names-v2` | identities, primary-name index, commitments, spent nonces, offers, configuration | commit, pay to register or renew, offer, accept, cancel, pause, rotate key, set tariff, hand over administration | one active name per address; a name is an exclusive lease with a grace period; offers die with the identity they were made for; versions never return |
| Faucet ledger, `faucet/service/ledger.mjs` | challenges, claims with one open slot, signed bytes | challenge, claim, reconcile, status | one payout open; nothing paid twice in an interval; a failed claim is never paid; limits per day and month; the slot is freed |
| Faucet status, `faucet/service/http.mjs` | cached balance, refresh in flight | read, join, refresh, invalidate after a claim | a read after a claim reflects it; readers are answered |
| Signing journal and vote page, `faucet/src/broadcast-journal.mjs`, `juno-governance-signing.mjs`, `native-vote-resume.mjs`, `native-voting-ui.mjs`, `native-vote-receipts.mjs` | unfinished transaction and receipt in localStorage, Web Lock | sign, send, resend, replace with more gas, check, clear | a vote executes once; nothing is signed over an unknown fate; a reported end is the end; a replacement is never forgotten |
| Proposal workshop, `contracts/neta-proposal-workshop` | proposals, revisions, chunks, comments, moderators, blocks, owner | publish, revise, upload, comment, decide, finalize, withdraw, moderate, transfer | a finalized review is complete and latest; closed reviews stay closed; threads are well founded |
| Relay mailbox, `contracts/neta-relay-mailbox` | devices and prekeys, consent, sessions, personal and DAO messages, sequence, policy, conversations | register, revoke, add prekeys, allow, block, send, configure, assign, send for a DAO | a prekey protects one letter; sessions are founded; ids, sequence and cooldown are shared by both kinds; revisions and generations version what they stand for |
| Faucet quota, HTTP guards, `faucet/service/limits.mjs`, `service/http-guards.mjs` | counters per key and period | admit or refuse | counters agree with what was admitted |
| Quote service, `names/service` (a deferred alternative, not deployed) | observations, halts, signed quotes | poll, quote, publish | no quote from stale, halted or rolled-back data |
| Name signing, `faucet/src/names-signing.mjs` | attempts with salt and commitment | commit, wait, reveal, resume | a salt is not lost; nothing is paid twice |
| Discussions service, `discussions/` | threads with redirects, posts, restricted wallets, sessions | post (validate, look the author up, validate again and store), moderate, synchronize and join, restart | replies stay with what they answer; a lock holds under every id of a discussion; a request is stored once |
| Discussions page, `discussions.mjs` | drafts and saved requests in localStorage, the thread shown, calls under way | write, send, give up, check, send again, sign in and off | an uncertain reply keeps its receipt, whatever else the page waits for; one text makes one reply |
| Personal relay client, `relay-personal-*.mjs` | per browser profile: sealed snapshot (device keys, ratchets, outbound journal, archive, cursor), IndexedDB record, working ratchets, transaction evidence | create, unlock, recover, restore, prepare, submit, receive, register, rotate | no ratchet key encrypts twice; nothing is broadcast that the backup could not recover; records of outcomes are true; cursor, archive and ratchets agree |
| Relay backup service, `relay-backup/` | one revision per wallet | put (compare-and-set on the revision), latest | a stale profile never overwrites what the backup holds |
| Validator profiles, `contracts/neta-validator-profiles` | profiles keyed by identity and revision, operator bindings | update contacts, link, unlink, revoke | a shown link rests on both operators' last word; a signature is accepted once; one name's calls never end another name's link |

How they interact.  The pages sign through the shared bundle and its journal;
contracts see single transactions, in any order, which the chain rolls back
when a handler fails.  The mailbox asks the registry for a sender's active name
and a CW4 group for the members of a DAO at every message.  Validator
profiles are keyed by the registry's `<<generation, ownership_revision>>` and are
never told that a name lapsed or changed hands. The relay client's profiles of
one wallet share one backup and the device that the mailbox holds for the wallet.
A discussion page posts to the service, which may join the discussions of a
review and of the native proposal it led to while the reply is on its way.  The faucet's HTTP server
runs ledger requests concurrently in one event loop, over one SQLite file that
survives restarts, and asks a public node whose answers may be lost.  Status
requests share one refresh and are invalidated by claims.

What is hard.  Requests interleave at every `await`; browser tabs share
localStorage without a lock on some paths; a crash can fall between a saved
intent and a saved signature; a broadcast that timed out may execute later;
contract state is checked by one message and used by another after ownership,
stake, devices or membership changed.  `PROJECT.json` lists these hazards at
their lines, with the properties that watch them and, where none does, why.

## Modules

| Module | Models | Correspondence |
|---|---|---|
| `NameLease` | what the registry promises | an exclusive, versioned lease of each name: claim, extend, approve, withdraw, hand over, let time pass |
| `NamesRegistry` | `lib.rs` of the registry | one action per accepted message; a refused one changes nothing. `names`, `reverse`, `commits`, `offers` and `config` are the storage items, `height` and `now` the block |
| `ValidatorProfiles` | `lib.rs` of the profiles contract, composed with the registry | the registry is `INSTANCE NameLease`, whose steps leave the profiles alone; one action per accepted message; `profiles` and `bindings` are the storage maps, `ShownLink` and `ShownRevision` what `load_current` answers; `signed` are the signatures operators gave to challenges the contract showed them |
| `FaucetLedger` | `ledger.mjs`, its chain client and the payout limit | a request runs to its next `await` in one action and `pc` names that await; `challenges` and `claims` are the tables, `chain` the fate of each signed payout |
| `FaucetStatus` | the refresh of `http.mjs` | `refresh` is the shared promise, `snapshot`, `snapshotError` and `nextRefresh` the cache |
| `NativeVote` | journal, governance signing, resume, vote page | a tab runs to its next `await` in one action; `journal` and `receipt` are localStorage, `lock` the Web Lock, `txs` the fate of what was signed |
| `ReviewWorkshop` | the workshop contract | one action per message |
| `RelayMailbox` | `lib.rs`, `policy.rs` of the mailbox | one action per message; the storage maps by name |
| `RelayDao` | `dao.rs`, and with `RelayMailbox` the whole contract | extends `RelayMailbox`: the DAO's messages share its devices, ids, sequence and cooldown |
| `RelayPersonal` | `relay-personal-browser.mjs` with its journal, transport and lifecycle, the compare-and-set of `relay-backup/store.mjs`, the mailbox and the chain as far as they answer | a controller runs to its next `await` in one action; `pc` names the await, the stage of a recovery and the upload under way. `mem` is the open snapshot, `disk` the IndexedDB record with its watermark, `work` the ratchet database, `ls` localStorage, `remote` the stored backup, `wire` the uploads in flight |
| `Discussions` | `discussions/store.mjs`, the POST handler of `server.mjs`, `chain.mjs` | `threads` with `redirect` and `posts` are the tables; a call is admitted, waits for the author's identity and is validated again when it is stored |
| `DiscussionPage` | `discussions.mjs`, extends `Discussions` | drafts and saved requests are keyed as in localStorage, by the thread that was shown and its aliases; calls and status checks carry the keys they were made under and the sign-in they belong to; a page waits for several at once |
| `MC*` | instances for TLC | values of constants, symmetry, constraints |
| `*Proofs` | theorems | see below |

Definitions whose comment begins with "Faulty" are single plausible mistakes in
one operation; each is what the property it was written for finds when it
replaces the operation (`PROJECT.json`, "mutants"). No specification uses them.

What the models abstract:

- Names, prices and signatures (`NamesRegistry`): a quote is any record its
  caller may present; prices, fees and signatures are reduced to the signer and
  tariff versions the contract compares.
- Quota and balance checks of the faucet: a refusal that may happen any time.
  A status request is a lookup of any pending claim, which is more than the
  server's throttled polling does.
- Reviews, wallet checks and deadlines in the signing bundle: a refusal wherever
  the code makes them. One account and one proposal.
- Texts and digests in the workshop: contents with a number of chunks, `Sound`
  where the declared digest is the one of the chunks. Records from before chunked
  bodies, and limits on text sizes, are left out. Time is in seconds, as
  the contract truncates it.
- The name registry under the validator profiles is its abstract specification;
  a challenge is the record of what its text names, and a signature over
  anything else is refused. Contacts are never read by the contract.
- The relay client's ciphers: a ratchet counts what it encrypted and holds what
  it decrypted, a ciphertext is the key it used up. Left out: refills, contact
  actions, prekeys, the shared journal of the signing bundle, checks that only
  refuse an operation before anything changed.
- The discussions' configured scope, listing, revisions of texts, sign-in
  challenges and the name cache; one join of two discussions per
  synchronization. A sign-in of the page is one step.
- Bundles, fingerprints and ciphertexts in the mailbox: stored and never read.
  What a caller expects (generations, revisions) equals what is stored or the
  call changes nothing, so it is not a parameter. Calls that change nothing
  are stuttering steps.

## Runs

| Run | Instance | Shows |
|---|---|---|
| `names_registry` | two names, two addresses, four blocks, terms of two ticks and a grace of one, two offers | the registry implements the versioned leases of `NameLease`, nobody holds two active names, offer ids never return |
| `validator_profiles` | two names and owners, one operator of the main and two of the test network, three ticks, four signatures | a shown link rests on both operators' last word, a signature is accepted once, nobody else's call ends a link |
| `faucet_payouts` | two requests and two challenges of one wallet, ticks 0 to 2, a day of two ticks with one payout, one month | one open payout, ledger and chain agree, once per interval, limits hold, an executed payout is settled |
| `vote_journal` | two tabs, three transactions, two sequences, ante-handler failures | a vote executes at most once, nothing rivals an unresolved transaction, reports of executed attempts are final, a journalled replacement is followed by a record unless one was written without the lock meanwhile |
| `vote_ante_failure` | one tab | finding: a failed replacement that used no sequence settles the vote while the replaced attempt can still execute |
| `faucet_status` | two readers, two claims, failures | a claim that met no refresh is reflected from then on; readers are answered |
| `review_workshop` | two accounts, sound and broken chunked bodies, two revisions, two comments, holdings around the minimum | only a complete latest revision is finalized; closed reviews stay closed |
| `relay_mailbox` | two accounts with two prekeys each, one DAO with one reader, two messages | prekeys, sessions, ids, sequence, cooldown, conversations, generations and policy revisions stay consistent across both kinds of messages |
| `relay_profiles` | two profiles of one wallet, two messages, one rotation, one inbound message, one failure | no ratchet key encrypts twice, what was broadcast is in the backup, recorded outcomes are true, the backup never forgets |
| `relay_recovery` | one profile, one message, one inbound message, one rotation, two failures, two attempts, fairness | the inbox is read exactly, also when the profile is closed while it decrypts; a message the contract accepted reaches the archive of the backup |
| `discussions` | one author, a review and its native proposal, two posts, two copies of a call, one failure; the review alone with two calls or checks at once, or both with one | replies stay together through a join, locks hold, a text is posted once as long as its receipt is kept |
| `discussion_rejected` | the instance of `discussions` without constraints | finding: a rejected session removes the receipt of a reply that was stored |

### Findings

The violation runs are disagreements of the code with its own comments and documents.

1. `vote_ante_failure`: `native-vote-receipts.mjs:24` warns that an included
   failure alone is insufficient, because an ante-handler failure may leave the
   sequence unused; line 30 then accepts a failure of the latest attempt
   without asking whether the sequence was used.
2. `discussion_rejected`: `discussions.mjs:659` takes a 401 for proof that "this
   request was not written" and line 660 removes its receipt, also when an
   earlier call of the same request was stored after its answer was given up;
   the kept draft can then be posted a second time under a new request id.

Observations made while modelling, which no run reports. The first two are what
`raced` and `overtaken` except; TLC refutes `ReplacementFollowed` and `PostedOnce`
by these behaviours when the exception is dropped (for `PostedOnce` also from
`OverlapAlone`, which stops where a receipt is overtaken).

- `native-voting-ui.mjs:59` promises to recover a
  replacement that was journalled without its record. `run(false)` (line 532) reads
  the record, awaits the receipts and saves what it read, without the lock. When a
  replacement is journalled during that await and its tab stops before line 520
  saves the new record, the check saves the old one as included: `receipt()`
  repairs records in flight only, the journal entry names another hash than the
  one the check clears, and the account stays locked by a transaction that no
  record names. The loss takes a stop between the two writes of a replacement:
  they are in one turn of the event loop, so another tab, a process that dies, or
  `active()` throwing in between (the user left the proposal) has to come to it.
- `PROPOSAL_DISCUSSIONS.md:135-138` promises that a lost response retains the
  request and that a deliberate retry cannot create another post, but `send()`
  has no guard against a call under way. The first call is refused because the
  discussion is locked for a moment; before its answer arrives the author checks the
  reply, which is not recorded, and sends the saved reply again, which is stored.
  Then the first answer arrives and `discussions.mjs:664` removes the receipt, which
  now stands for the second call too, and the draft that is still there is posted
  under a new request id. Receipts are removed by key, so that a late answer can
  also remove the one of a newer request that was saved there meanwhile.
- A refresh of the faucet status that is in flight when a claim returns caches
  the balance from before the payout for another period (`http.mjs:40`, `:127`);
  hence the "quiet" in `FreshAfterQuietClaim`.
- In the relay client a ready message has no discard: an attempt recorded but
  never signed, or a packet whose recipient rotated, stops every further
  operation (`ensureIdle`). A profile that lost a takeover stays where it is: line
  1134 of `relay-personal-browser.mjs` asks for a restore that line 636 refuses
  while there is local state. A profile restored from a backup that was made in
  the middle of a takeover becomes a writer within `restore()` (line 1165),
  where `BACKUP_RECOVERY.md:33` speaks of a reader.
- A saved reply that is refused for good cannot be discarded by the page. Aliases
  reach one redirect only, so drafts of a thread joined twice are not found.
- A validator profile keeps its revision when a lapsed name is renewed although
  the link it showed may be gone meanwhile: the revision versions the stored
  profile, not what is shown. `LinksStand` therefore speaks of names that stay
  active.

### Bounds

Bounds are constants (`Max...`) that appear in the guards of the action
they bound.  They are chosen so that the hazards of each module occur:

- `NamesRegistry`: a term of two ticks and a grace of one, so that in four
  blocks a name is registered, lapses, is renewed in grace or taken by another.
  Two names let one address own one and register the other. `OwnCommitments`
  leaves out commitments to somebody else's registration, which only their owner
  could reveal; `ReconfiguredUnused` pauses purchases and rotates keys before the
  first block only: both only refuse. Two versions are one that is in force and
  one that was superseded.
- `ValidatorProfiles`: a lease of one tick, a grace of one and three ticks hold a lapse, a
  link under another name, and a renewal or a new owner. One operator of the main
  network is wanted by both names, with either operator of the test network, so that pairs
  overlap in one operator. Four signatures link both names, or link, revoke and
  link again partly; three revisions are a link, its end and one more write. `OneHandOver`
  transfers names that have a stored link, one at a time, and lets only a name with a
  profile be claimed again; `SignedInTurn` lets
  the operators sign one challenge after the other and only the main network's
  revoke. The theorems have none of these bounds.
- `FaucetLedger`: two requests are one that is suspended and one that overtakes
  it; the ledger compares pairs of claims only. Both are of one wallet, for what
  two wallets share is the slot and the limits, which do not look at the wallet.
  Ticks 0 to 2 hold the end of a payout interval, which is also the end of a day
  (`LongDays`). A day takes one payout; the month takes two and does not end, so
  that it never refuses: months are left to the theorem `PayoutsLimited`.
- `FaucetStatus`: two readers, one that starts and one that joins; two payouts
  give a stale and a fresh balance after the first invalidation.
- `RelayPersonal`: two profiles, one that has the backup and one that restores it
  and takes over; two messages, so that a second one is encrypted after a first
  was rolled back; one rotation. `InboxAlone` and `SecondAlone` keep an inbox, or
  a second message, from multiplying with everything else: with an inbox the two
  profiles do not fail. `relay_recovery` has no constraint: its one profile
  receives with its current and its retired device, and with two failures and two
  attempts a recovery is itself interrupted and repeated; the inbox is checked
  there. `MaxRevision` is never reached.
- `Discussions`: two threads, which one join redirects; two posts, of which the
  second answers the first; two copies of a call, the one that was given up and
  the one that is sent again. `IndexedTogether`, `OneMeasure` and `QuietPages` bring moderation,
  imports and expiry one at a time. With both discussions the page waits for one
  call or check at a time (`MaxOpen` is two, `OverlapAlone` makes it one there). Where the first
  synchronization finds the review alone (`FoundOnce`: no other proposal later), the page
  waits for two calls or checks, and the only measures are locks while a call is under
  way (`OnlyLocks`): a lock is what lets one call be refused and the next one be stored.
  `OverlapAlone` stops there once a receipt was removed by a rejected session or with an
  answer that was not the last one: with two requests, every pair of posts
  is excepted from then on. Two calls across a join, and a late answer that removes a
  newer receipt, which takes three requests to matter, are left to the theorem `OnePost`.
- `NativeVote`: three transactions are a vote, its replacement and a replacement
  of that, or a transaction from elsewhere; two sequences are one that is
  contested and one after it. Between the last look at the record and the journal
  a replacement has the awaits of the code ("account", "resign"), and another
  tab's check, confirmation or crash falls into each of them.
- `ReviewWorkshop`: two revisions, of which the earlier is not the latest; two
  comments, a root and a reply. One proposal: the cooldown across proposals is
  covered by the theorem `CooldownHolds` only.
- `RelayDao`: two accounts write to each other personally and through a DAO
  that one of them reads; two messages are a session's first and its follow-up, or
  one of each kind. `OneException` allows one consent, block, lapsed name or
  former member at a time, `OneRotation` one replaced or revoked device in a
  behaviour, and `SetUpFirst` configures the DAO before devices are registered.
  A record of this instance has one recipient; more recipients
  are in the model and in the theorems of `RelayDaoProofs`, not in the instance.

`CHECK_DEADLOCK FALSE` is given where every counter reaches its bound and
nothing is left to do. No run looks for deadlocks: in `FaucetLedger`, where TLC
does ask, a crash or a status request is always possible. That requests are
answered and slots freed is what the liveness properties say.

### Fairness

`FaucetLedger!FairSpec`: the event loop runs the continuation of every
suspended request (`WF` on `Step`), pages keep polling the status (`SF` on
`StartStatus`, for a request slot may be busy in between), and a receipt that exists
is found by a lookup that is tried again and again (`SF` on `LookupFound`).
Crashes, wallets and the chain are not fair.  Without the last two nothing could
settle a payout whose own request crashed.  `FaucetStatus!FairStatus`: the refresh
goes on (`WF` on `RefreshStep`), since every promise it awaits has a timeout.
`RelayPersonal!FairSpec`: an open controller goes on, for each of its awaits
ends; an upload in flight is stored or refused; the user opens the inbox again as
long as something is undecided. Failures are not fair and their number is bounded,
since a profile that is always closed at the same await recovers nothing.

## Proofs

| Theorem | Argument |
|---|---|
| `NamesRegistryProofs`: `TypeCorrect`, `ReverseCorrect`, `OneNameEach` | `ReverseAgrees` is inductive with the types: an active name is the primary name of its owner, so two active names of one owner are equal |
| `OffersCorrect`, `HorizonCorrect` | every action's effect on one name is one of five (`Changed`); each invariant is checked once against them |
| `VersionsCorrect`, `OfferIdsCorrect` | action properties from the same five effects |
| `RegistryImplementsLease` | refinement with `lease` and `consent` read from `names` and `offers`; `OneNameEach` gives `MayHold`, `OffersCorrect` the approved recipient |
| `ValidatorProfilesProofs`: `TypeCorrect`, `LinksAreProven`, `AcceptedOnce`, `LinksAreLeftAlone` | `IInv` adds that a bound operator of a stored link last had this very link accepted (`Proven`), shown or not, and that a profile's revision has passed every accepted one (`LeftBehind`). A step of the registry, which is any step of `NameLease`, changes neither; a call is an edit or a link of one name, and indexes are removed where they lead to that name only |
| `FaucetProofs`: `TypeCorrect`, `OneOpenPayout`, `LedgerFaithful`, `OncePerDay` | `IInv` adds to the properties what each suspended request knows of its claim (`Suspended`: who holds the slot at "prepare" and "broadcast"), that times lie in the past (`Dated`), and that claims of one wallet are a day apart unless one failed (`Separated`) |
| `PayoutsLimited` | the reserving transaction counts the period it writes to; later periods hold no claim yet because `WindowStart` is monotonic |
| `StatusTypeCorrect`, `QuietClaimsReflected` | of `FaucetStatus`, whose names are apart from the ledger's so that one module extends both: a refresh that starts after a quiet claim reads a balance that includes it, and the cache holds no older one |
| `NativeVoteProofs`: `TypeCorrect`, `OneAttempt`, `NoRivals`, `ReportsFinal` | every step either lets transactions ripen without signing, or signs one new last transaction, which opens a vote over a journal that is clear or renews the journalled one under its sequence. `IInv` adds the shape of that history (`History`), that the journal guards every live transaction (`Guarded`), what receipts may say (`Recorded`) and what each suspended tab knows (`Suspended`) |
| `ReplacementKept` | `Followable`: unless a record was written without the lock, a journalled replacement is followed, and what a tab saw of the record at its last look is still there when it journals the replacement (`Watched`), since only it holds the lock and a repair follows the journal, not the vote it replaces |
| `ReviewWorkshopProofs`: `TypeCorrect`, `FinalsComplete`, `CooldownHolds`, `ThreadsSound`, `ReviewsStayClosed` | `IInv` adds that ids are contiguous (`Contiguous`), every version up to the latest has a revision (`RevisionsThere`) and that a comment is no later than the account's last one (`Dated`) |
| `RelayDaoProofs`: `TypeCorrect`, `Receipts`, `Spaced` | a step posts nothing or one message with the next sequence (`StepPosts`); inductive: messages are numbered without gaps, an id leads to its message, nobody sent after his last send |
| `OneLetterPerPrekey`, `Versioned` | a generation never goes back and offers no id again (`DeviceStep`), so a prekey that was taken stays gone from its device (`Spent`); the letters of one step go to different devices |
| `OneInitial`, `SessionsHaveFounders` | an initial message stays recorded as long as both devices stand (`Started`); each stored session has the record that took a prekey for it (`Founded`) |
| `Conversations`, `PolicyVersions` | the new record has the greatest sequence; every write of policy or blocks goes through a new revision |
| `DiscussionsProofs`: `TypeCorrect`, `RepliesTogether` | the redirects of the threads table form a forest (`Forest`): each row has a root and a finite set of threads on its way there, which every hop leaves one of behind, so `Canonical` ends at the root; a join grafts one root onto another. `SInv` adds that posts are in roots (`Together`) and that pages show and send what the table holds (`Shown`) |
| `LocksHold` | an action property from `SInv`: only `addPost` stores a reply, under the lock it has just read, and a join hands the lock on |
| `OnePost` | for any number of calls and checks at once. `OInv`: a text is in one draft of one wallet (`Texts`); a receipt is under one key, seen wherever its draft is (`Receipts`); a call or check that is waited for clears what its answer accounts for (`Waiting`); a request is saved, or its receipt went for a reason the property excepts (`Forgone`), or nothing can store it any more (`Dead`), or its draft is out of reach (`Done`), and of two requests of a text the earlier is forgone or dead (`Settled`) |
| `RelayPersonalProofs`: `TypeCorrect`, `BroadcastBackedUp`, `KeysUsedOnce`, `OutcomesTrue`, `InboxCorrect` | one inductive invariant of every copy of the profile, see below |
| `BackupRemembers` | an action property from it: only `Store` writes the backup, and an upload on its way that is accepted extends what is stored |

They hold for all names, accounts, tabs, requests, periods and bounds that satisfy
the named assumptions (`DurationsAssumption`, `FaucetAssumption`,
`VoteAssumption`, `WorkshopAssumption`, `MailboxAssumption`, `DaoAssumption`,
`ProfilesAssumption`, `DiscussionsAssumption`, `PageAssumption`,
`RelayPersonalAssumption`, `StatusAssumption` and the `None...` assumptions, which
say that an absent entry is not a record; proposals are finitely many, as
`Canonical` counts them). TLC evaluates the same assumptions on every run.
`RegistryImplementsLease` and the theorems of `ValidatorProfilesProofs` compose:
the profiles are proved over every behaviour of `NameLease`, and the registry has
no other.

Proved but not among the properties of a run, since TLC would only repeat it:
`ReverseAgrees`, `OffersCurrent`, `ExpiryHorizon`, `VersionsAdvance` (names),
`CommentsSpaced`, `ThreadsWellFounded` (workshop), `SendsSpaced`, `DevicesVersioned`
(mailbox), and `TypeOK` of the workshop, the mailbox and the faucet status.

### The invariant of the relay client

The six properties of `RelayPersonal` speak of the backup and the ledger, and none
is inductive: a snapshot that is bad and still in memory, on disk or on its way
breaks them many steps later. `IInv` therefore says the same of every copy, and how
the copies of all profiles are ordered.

- `Sound`: a copy by itself. A ratchet key sealed one packet (`Keyed`), an interrupted
  operation can be undone (`Undoable`), cursor, archive and ratchets agree
  (`Exact`), what it says of mailbox and inbox is so (`Claims`), and what its rows
  say was first written in the localStorage of the profile that made the
  transaction (`Traced`). These records only advance (`Later`).
- `Extends`: a later copy keeps the archive, the ratchets' places, the packets and the
  attempts of an earlier one. Along `watermark`, `disk`, `mem` of one profile, and
  from each watermark to the backup (`OnDisk`, `InMemory`).
- `Stored`: an upload on its way that the service could still accept is of the next
  revision and extends the backup. This is why a stale profile cannot overwrite it,
  however late its upload arrives.
- `Turns`, `Submitting`: what an open controller did since it last wrote, by the
  await it is at: between encrypting and recording, the working ratchet is one
  step ahead; between signing and the receipt, the record of the attempt is one of
  four. At "backup" with nothing under way, disk and watermark are equal and hold
  the signed bytes, which is what `Broadcast` needs for `BackedUp`.

A step is one of a profile, which keeps the rest if it keeps that profile's own part
(`ProfileStep`; `PersistStep` where it writes, `MoveStep` and `CloseStep` where it
does not), or one of service and chain, under which everything said of them only
becomes more true (`WorldStep`, `Grows`). TLC found no violation of `IInv` in
half a million states of random behaviours before it was proved.

Only model-checked: liveness (`ExecutedIsSettled`, `ReadersAnswered`,
`SentIsArchived`), since the prover has no rules for fairness.

## Plan

Done: the registry with its abstract lease and the validator profiles over it, the
faucet ledger and status, the signing journal with the vote page, the workshop,
the mailbox, the relay client with its backup, the discussions with their page;
every safety property of the runs is a theorem. What is left, in the order of its
worth:

1. `RelayPersonal`: contact actions and refills, prekeys; composition with
   `RelayDao` as the chain.
2. `NamesSigning`: registration attempts of the bundle (commit, wait, reveal,
   resume), composed with `NamesRegistry`.
3. `FaucetLimits`: counters of `limits.mjs` as the refinement of the refusal in
   `FaucetLedger`, with a clock that may be set back.
4. Publication of reviews in chunks by the page over `ReviewWorkshop`, and
   submission and funding of proposals through the journal.
5. The discussions' listing and revisions; liveness of saved replies, which needs
   authors who keep checking.

## Not modelled

Rendering, navigation, charts and wording; pure arithmetic of treasury,
delegation and criteria views over published data; collectors and publication
scripts, which are scheduled I/O; the quote service of `names/service`, which
`names/README.md` retains as a deferred alternative; the HTTP servers around the
backup store and the discussions (routing, quotas, sessions of the backup);
deployment files; test contracts, the first
names contract and laboratory pages that are kept for reference. The cryptography
of messages and backups is taken for what its callers rely on.
