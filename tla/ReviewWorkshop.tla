--------------------------- MODULE ReviewWorkshop ---------------------------
(***************************************************************************)
(* The on-chain review of proposals before they are submitted              *)
(* (contracts/neta-proposal-workshop): drafts and their revisions, bodies  *)
(* uploaded in chunks, comments with a cooldown, decisions of the author,  *)
(* finalization, withdrawal, moderation and ownership.  A message is one   *)
(* atomic action; a refused one changes nothing.  Texts are abstracted to  *)
(* contents; of a content only the chunks of its body matter.              *)
(***************************************************************************)
EXTENDS Integers, FiniteSets

CONSTANTS
    Accounts,
    FirstOwner,  \* owner at instantiation
    None,
    Contents,    \* what a revision may hold
    ChunkCount,  \* chunks of the body of a content, 0 if it is stored inline
    Sound,       \* contents whose digest is the one of their chunks
    Community,   \* the access mode: community stake or DAO membership
    MinNeta,     \* community_gate.minimum_neta_stake
    MinNative,   \* community_gate.minimum_native_stake
    MinComment,  \* minimum_comment_stake
    Cooldown,    \* COMMENT_COOLDOWN_SECONDS
    Holdings,    \* what an account may hold: power, neta and native stake
    Nominees,    \* the accounts the owner names as moderator or owner
    Suspects,    \* the accounts the owner blocks
    MaxProposals, MaxVersions, MaxComments, MaxTime  \* bounds

ASSUME WorkshopAssumption ==
    /\ FirstOwner \in Accounts
    /\ None \notin Accounts \cup Nat
    /\ ChunkCount \in [Contents -> Nat]
    /\ Sound \subseteq Contents
    /\ None \notin Contents
    /\ Community \in BOOLEAN
    /\ {MinNeta, MinNative, MinComment, Cooldown} \subseteq Nat
    /\ Holdings \subseteq [power : Nat, neta : Nat, native : Nat]
    /\ Nominees \subseteq Accounts /\ Suspects \subseteq Accounts
    /\ {MaxProposals, MaxVersions, MaxComments, MaxTime} \subseteq Nat

ProposalIds == 1..MaxProposals
Versions    == 1..MaxVersions
CommentIds  == 1..MaxComments
Verdicts    == {"open", "incorporated", "not_incorporated"}
Chunks(c)   == 0..(ChunkCount[c] - 1)

Proposal == [author : Accounts, latest : Versions,
             finalized : Versions \cup {0}, withdrawn : BOOLEAN]
Comment  == [author : Accounts, version : Versions, parent : CommentIds \cup {0},
             status : Verdicts, hidden : BOOLEAN, time : Nat]

ASSUME WorkshopNoneAssumption == None \notin Proposal \cup Comment

VARIABLES
    owner, pendingOwner, paused, \* CONFIG
    moderators,  \* MODERATORS
    blocked,     \* BLOCKS
    proposals,   \* PROPOSALS; NEXT_PROPOSAL_ID is the first free id
    revisions,   \* REVISIONS: the content by proposal and version
    uploaded,    \* CHUNKS: the chunks stored by proposal and version
    comments,    \* COMMENTS; NEXT_COMMENT_ID is the first free id
    lastComment, \* LAST_COMMENT_TIME, None before the first comment
    holds,       \* voting power and stakes, in other contracts
    now          \* block time in seconds

admin   == <<owner, pendingOwner, paused, moderators, blocked>>
drafts  == <<proposals, revisions, uploaded>>
threads == <<comments, lastComment>>
world   == <<holds, now>>
vars    == <<admin, drafts, threads, world>>

TypeOK ==
    /\ owner \in Accounts
    /\ pendingOwner \in Accounts \cup {None}
    /\ paused \in BOOLEAN
    /\ moderators \subseteq Accounts
    /\ blocked \subseteq Accounts
    /\ proposals \in [ProposalIds -> Proposal \cup {None}]
    /\ revisions \in [ProposalIds \X Versions -> Contents \cup {None}]
    /\ uploaded \in [ProposalIds \X Versions -> SUBSET Nat]
    /\ comments \in [ProposalIds \X CommentIds -> Comment \cup {None}]
    /\ lastComment \in [Accounts -> Nat \cup {None}]
    /\ holds \in [Accounts -> Holdings]
    /\ now \in Nat

-----------------------------------------------------------------------------
(* community_eligible *)
CommunityEligible(a) == holds[a].neta >= MinNeta /\ holds[a].native >= MinNative

(* require_member: who may publish, revise, upload and finalize. *)
Member(a) ==
    /\ ~paused
    /\ a \notin blocked
    /\ IF Community THEN CommunityEligible(a) ELSE holds[a].power > 0

(* The cooldown of an account, whatever proposal it commented on. *)
CoolingDown(a) == lastComment[a] # None /\ now < lastComment[a] + Cooldown

(* require_commenter *)
Commenter(a) ==
    /\ ~paused
    /\ a \notin blocked
    /\ ~CoolingDown(a)
    /\ IF Community THEN CommunityEligible(a) ELSE holds[a].neta > MinComment

(* The first id that is free in a map of the contract. *)
FreeProposal(p) ==
    proposals[p] = None /\ \A q \in ProposalIds : q < p => proposals[q] # None
FreeComment(p, c) ==
    comments[<<p, c>>] = None /\ \A d \in CommentIds : d < c => comments[<<p, d>>] # None

(* Neither withdrawn nor finalized. *)
Open(p) ==
    /\ proposals[p] # None
    /\ ~proposals[p].withdrawn
    /\ proposals[p].finalized = 0

(* attachments::assert_complete *)
Complete(p, v) ==
    ChunkCount[revisions[<<p, v>>]] > 0 =>
        /\ Chunks(revisions[<<p, v>>]) \subseteq uploaded[<<p, v>>]
        /\ revisions[<<p, v>>] \in Sound

Init ==
    /\ owner = FirstOwner /\ pendingOwner = None /\ paused = TRUE
    /\ moderators = {} /\ blocked = {}
    /\ proposals = [p \in ProposalIds |-> None]
    /\ revisions = [pv \in ProposalIds \X Versions |-> None]
    /\ uploaded = [pv \in ProposalIds \X Versions |-> {}]
    /\ comments = [pc \in ProposalIds \X CommentIds |-> None]
    /\ lastComment = [a \in Accounts |-> None]
    /\ holds \in [Accounts -> Holdings]
    /\ now = 0

-----------------------------------------------------------------------------
PublishProposal(a, p, content) ==
    /\ Member(a)
    /\ FreeProposal(p)
    /\ 1 \in Versions
    /\ proposals' = [proposals EXCEPT ![p] =
           [author |-> a, latest |-> 1, finalized |-> 0, withdrawn |-> FALSE]]
    /\ revisions' = [revisions EXCEPT ![<<p, 1>>] = content]
    /\ UNCHANGED <<admin, uploaded, threads, world>>

AddRevision(a, p, content) ==
    /\ Member(a)
    /\ Open(p)
    /\ proposals[p].author = a
    /\ proposals[p].latest + 1 \in Versions
    /\ proposals' = [proposals EXCEPT ![p].latest = @ + 1]
    /\ revisions' = [revisions EXCEPT ![<<p, proposals[p].latest + 1>>] = content]
    /\ UNCHANGED <<admin, uploaded, threads, world>>

(* A chunk is accepted if its hash is the manifest's, so that a repeated   *)
(* upload stores what is there.                                            *)
UploadReviewChunk(a, p, v, i) ==
    /\ Member(a)
    /\ Open(p)
    /\ proposals[p].author = a
    /\ v = proposals[p].latest
    /\ i \in Chunks(revisions[<<p, v>>])
    /\ uploaded' = [uploaded EXCEPT ![<<p, v>>] = @ \cup {i}]
    /\ UNCHANGED <<admin, proposals, revisions, threads, world>>

(* Faulty finalization: of any revision. *)
FinalizeAnyVersion(a, p, v) ==
    /\ Member(a)
    /\ Open(p)
    /\ revisions[<<p, v>>] # None
    /\ Complete(p, v)
    /\ proposals[p].author = a
    /\ proposals' = [proposals EXCEPT ![p].finalized = v]
    /\ UNCHANGED <<admin, revisions, uploaded, threads, world>>

Finalize(a, p, v) ==
    /\ Member(a)
    /\ Open(p)
    /\ revisions[<<p, v>>] # None
    /\ Complete(p, v)
    /\ proposals[p].author = a
    /\ v = proposals[p].latest
    /\ proposals' = [proposals EXCEPT ![p].finalized = v]
    /\ UNCHANGED <<admin, revisions, uploaded, threads, world>>

(* Also of a finalized review: no submission is ever recorded. *)
Withdraw(a, p) ==
    /\ proposals[p] # None
    /\ proposals[p].author = a
    /\ ~proposals[p].withdrawn
    /\ proposals' = [proposals EXCEPT ![p].withdrawn = TRUE]
    /\ UNCHANGED <<admin, revisions, uploaded, threads, world>>

-----------------------------------------------------------------------------
AddComment(a, p, c, v, parent) ==
    /\ Commenter(a)
    /\ Open(p)
    /\ v <= proposals[p].latest
    /\ parent # 0 => comments[<<p, parent>>] # None
    /\ FreeComment(p, c)
    /\ comments' = [comments EXCEPT ![<<p, c>>] =
           [author |-> a, version |-> v, parent |-> parent, status |-> "open",
            hidden |-> FALSE, time |-> now]]
    /\ lastComment' = [lastComment EXCEPT ![a] = now]
    /\ UNCHANGED <<admin, drafts, world>>

(* Faulty decision: of a finalized review. *)
DecideLate(a, p, c, verdict) ==
    /\ proposals[p] # None /\ ~proposals[p].withdrawn
    /\ proposals[p].author = a
    /\ comments[<<p, c>>] # None
    /\ comments[<<p, c>>].parent = 0
    /\ comments' = [comments EXCEPT ![<<p, c>>].status = verdict]
    /\ UNCHANGED <<admin, drafts, lastComment, world>>

(* The author of the proposal decides about a thread.  Neither membership  *)
(* nor the block list nor the pause is looked at.                          *)
SetThreadDecision(a, p, c, verdict) ==
    /\ Open(p)
    /\ proposals[p].author = a
    /\ comments[<<p, c>>] # None
    /\ comments[<<p, c>>].parent = 0
    /\ comments' = [comments EXCEPT ![<<p, c>>].status = verdict]
    /\ UNCHANGED <<admin, drafts, lastComment, world>>

SetCommentHidden(a, p, c, hidden) ==
    /\ a = owner \/ a \in moderators
    /\ comments[<<p, c>>] # None
    /\ comments' = [comments EXCEPT ![<<p, c>>].hidden = hidden]
    /\ UNCHANGED <<admin, drafts, lastComment, world>>

-----------------------------------------------------------------------------
(* The messages of the owner. *)
SetModerator(a, b) ==
    /\ a = owner
    /\ \/ moderators' = moderators \cup {b}
       \/ moderators' = moderators \ {b}
    /\ UNCHANGED <<owner, pendingOwner, paused, blocked, drafts, threads, world>>

SetBlocked(a, b) ==
    /\ a = owner
    /\ \/ blocked' = blocked \cup {b}
       \/ blocked' = blocked \ {b}
    /\ UNCHANGED <<owner, pendingOwner, paused, moderators, drafts, threads, world>>

SetPaused(a) ==
    /\ a = owner
    /\ paused' \in BOOLEAN
    /\ UNCHANGED <<owner, pendingOwner, moderators, blocked, drafts, threads, world>>

ProposeOwner(a, b) ==
    /\ a = owner
    /\ pendingOwner' = b
    /\ UNCHANGED <<owner, paused, moderators, blocked, drafts, threads, world>>

AcceptOwner(a) ==
    /\ pendingOwner = a
    /\ owner' = a
    /\ pendingOwner' = None
    /\ UNCHANGED <<paused, moderators, blocked, drafts, threads, world>>

-----------------------------------------------------------------------------
(* Stakes move in other contracts. *)
Restake(a) ==
    /\ \E h \in Holdings : holds' = [holds EXCEPT ![a] = h]
    /\ UNCHANGED <<admin, drafts, threads, now>>

Tick ==
    /\ now < MaxTime
    /\ now' = now + 1
    /\ UNCHANGED <<admin, drafts, threads, holds>>

Draft(a, p) ==
    \/ \E content \in Contents : PublishProposal(a, p, content) \/ AddRevision(a, p, content)
    \/ \E v \in Versions :
        \/ \E i \in UNION {Chunks(content) : content \in Contents} : UploadReviewChunk(a, p, v, i)
        \/ Finalize(a, p, v)
    \/ Withdraw(a, p)

Discuss(a, p) ==
    \E c \in CommentIds :
        \/ \E v \in Versions, parent \in CommentIds \cup {0} : AddComment(a, p, c, v, parent)
        \/ \E verdict \in Verdicts : SetThreadDecision(a, p, c, verdict)
        \/ \E hidden \in BOOLEAN : SetCommentHidden(a, p, c, hidden)

Administer(a) ==
    \/ \E b \in Nominees : SetModerator(a, b) \/ ProposeOwner(a, b)
    \/ \E b \in Suspects : SetBlocked(a, b)
    \/ SetPaused(a)
    \/ AcceptOwner(a)

Next ==
    \/ \E a \in Accounts :
        \/ \E p \in ProposalIds : Draft(a, p) \/ Discuss(a, p)
        \/ Administer(a)
        \/ Restake(a)
    \/ Tick

Spec == Init /\ [][Next]_vars

-----------------------------------------------------------------------------
(* Only the latest revision can be finalized, and incomplete uploads never *)
(* become finalized reviews: the finalized revision is the latest one and  *)
(* all chunks of its body are stored and make up its digest.               *)
FinalizedComplete ==
    \A p \in ProposalIds :
        proposals[p] # None /\ proposals[p].finalized # 0 =>
            LET v == proposals[p].finalized IN
            /\ v = proposals[p].latest
            /\ revisions[<<p, v>>] # None
            /\ ChunkCount[revisions[<<p, v>>]] > 0 =>
                   /\ revisions[<<p, v>>] \in Sound
                   /\ Chunks(revisions[<<p, v>>]) \subseteq uploaded[<<p, v>>]

(* A global cooldown: no account writes two comments less than the         *)
(* cooldown apart, on whatever proposals.                                  *)
CommentsSpaced ==
    \A x, y \in ProposalIds \X CommentIds :
        /\ x # y
        /\ comments[x] # None /\ comments[y] # None
        /\ comments[x].author = comments[y].author
        /\ comments[x].time <= comments[y].time
        => comments[x].time + Cooldown <= comments[y].time

(* A thread is a tree over revisions that exist: every comment names a     *)
(* published version and answers an earlier comment, and only its root is  *)
(* ever decided.                                                           *)
ThreadsWellFounded ==
    \A p \in ProposalIds, c \in CommentIds :
        comments[<<p, c>>] # None =>
            /\ proposals[p] # None
            /\ comments[<<p, c>>].version <= proposals[p].latest
            /\ revisions[<<p, comments[<<p, c>>].version>>] # None
            /\ comments[<<p, c>>].parent # 0 =>
                   /\ comments[<<p, c>>].parent < c
                   /\ comments[<<p, comments[<<p, c>>].parent>>] # None
                   /\ comments[<<p, c>>].status = "open"

(* What the comment says and who said it, without the tombstone. *)
Said(pc) == IF comments[pc] = None THEN None ELSE [comments[pc] EXCEPT !.hidden = FALSE]

(* Finalization and withdrawal close a review for good: nothing is         *)
(* revised, uploaded, said or decided any more; it may only be withdrawn   *)
(* and its comments hidden.                                                *)
ClosedStaysClosed ==
    [][\A p \in ProposalIds :
        proposals[p] # None /\ ~Open(p) =>
            /\ proposals'[p] \in {proposals[p], [proposals[p] EXCEPT !.withdrawn = TRUE]}
            /\ \A v \in Versions :
                   /\ revisions'[<<p, v>>] = revisions[<<p, v>>]
                   /\ uploaded'[<<p, v>>] = uploaded[<<p, v>>]
            /\ \A c \in CommentIds : Said(<<p, c>>)' = Said(<<p, c>>)]_vars

=============================================================================
