------------------------ MODULE ReviewWorkshopProofs ------------------------
(***************************************************************************)
(* What holds of the review workshop for every number of accounts,         *)
(* proposals, versions and comments, every content and every minimum.      *)
(***************************************************************************)
EXTENDS ReviewWorkshop, TLAPS

-----------------------------------------------------------------------------
(* The strengthening: published versions hold a content, comment ids are   *)
(* given without gaps, and the time of the last comment bounds them all.   *)
RevisionsThere ==
    \A p \in ProposalIds : proposals[p] # None =>
        \A v \in Versions : v <= proposals[p].latest => revisions[<<p, v>>] # None

Contiguous ==
    \A p \in ProposalIds, c \in CommentIds :
        comments[<<p, c>>] # None => \A d \in CommentIds : d < c => comments[<<p, d>>] # None

Dated ==
    /\ \A a \in Accounts : lastComment[a] # None => lastComment[a] <= now
    /\ \A pc \in ProposalIds \X CommentIds : comments[pc] # None =>
           /\ lastComment[comments[pc].author] # None
           /\ comments[pc].time <= lastComment[comments[pc].author]

IInv ==
    /\ TypeOK
    /\ RevisionsThere
    /\ FinalizedComplete
    /\ Contiguous
    /\ ThreadsWellFounded
    /\ Dated
    /\ CommentsSpaced

-----------------------------------------------------------------------------
(* Types.                                                                  *)

LEMMA InitTyped == Init => TypeOK
  BY WorkshopAssumption DEF Init, TypeOK

LEMMA DraftTyped ==
  ASSUME TypeOK, NEW a \in Accounts, NEW p \in ProposalIds, Draft(a, p)
  PROVE  TypeOK'
  <1> USE WorkshopAssumption, WorkshopNoneAssumption
  <1>1. ASSUME NEW content \in Contents, PublishProposal(a, p, content) PROVE TypeOK'
    <2>1. proposals' \in [ProposalIds -> Proposal \cup {None}]
      BY <1>1 DEF TypeOK, PublishProposal, Proposal
    <2>2. revisions' \in [ProposalIds \X Versions -> Contents \cup {None}]
      BY <1>1 DEF TypeOK, PublishProposal
    <2> QED BY <1>1, <2>1, <2>2 DEF TypeOK, PublishProposal, admin, threads, world
  <1>2. ASSUME NEW content \in Contents, AddRevision(a, p, content) PROVE TypeOK'
    <2>0. proposals[p] \in Proposal
      BY <1>2 DEF TypeOK, AddRevision, Open
    <2>1. proposals' \in [ProposalIds -> Proposal \cup {None}]
      BY <1>2, <2>0 DEF TypeOK, AddRevision, Proposal
    <2>2. revisions' \in [ProposalIds \X Versions -> Contents \cup {None}]
      BY <1>2 DEF TypeOK, AddRevision
    <2> QED BY <1>2, <2>1, <2>2 DEF TypeOK, AddRevision, admin, threads, world
  <1>3. ASSUME NEW v \in Versions, NEW i, UploadReviewChunk(a, p, v, i) PROVE TypeOK'
    <2>1. i \in Nat
      BY <1>3 DEF UploadReviewChunk, Chunks
    <2>2. uploaded[<<p, v>>] \cup {i} \in SUBSET Nat
      BY <2>1 DEF TypeOK
    <2>3. uploaded' \in [ProposalIds \X Versions -> SUBSET Nat]
      BY <1>3, <2>2 DEF TypeOK, UploadReviewChunk
    <2> QED BY <1>3, <2>3 DEF TypeOK, UploadReviewChunk, admin, threads, world
  <1>4. ASSUME NEW v \in Versions, Finalize(a, p, v) PROVE TypeOK'
    <2>0. proposals[p] \in Proposal
      BY <1>4 DEF TypeOK, Finalize, Open
    <2>1. proposals' \in [ProposalIds -> Proposal \cup {None}]
      BY <1>4, <2>0 DEF TypeOK, Finalize, Proposal
    <2> QED BY <1>4, <2>1 DEF TypeOK, Finalize, admin, threads, world
  <1>5. ASSUME Withdraw(a, p) PROVE TypeOK'
    <2>0. proposals[p] \in Proposal
      BY <1>5 DEF TypeOK, Withdraw
    <2>1. proposals' \in [ProposalIds -> Proposal \cup {None}]
      BY <1>5, <2>0 DEF TypeOK, Withdraw, Proposal
    <2> QED BY <1>5, <2>1 DEF TypeOK, Withdraw, admin, threads, world
  <1> QED BY <1>1, <1>2, <1>3, <1>4, <1>5 DEF Draft

LEMMA DiscussTyped ==
  ASSUME TypeOK, NEW a \in Accounts, NEW p \in ProposalIds, Discuss(a, p)
  PROVE  TypeOK'
  <1> USE WorkshopAssumption, WorkshopNoneAssumption
  <1>1. ASSUME NEW c \in CommentIds, NEW v \in Versions, NEW parent \in CommentIds \cup {0},
               AddComment(a, p, c, v, parent)
        PROVE  TypeOK'
    <2>1. comments' \in [ProposalIds \X CommentIds -> Comment \cup {None}]
      BY <1>1 DEF TypeOK, AddComment, Comment, Verdicts
    <2>2. lastComment' \in [Accounts -> Nat \cup {None}]
      BY <1>1 DEF TypeOK, AddComment
    <2> QED BY <1>1, <2>1, <2>2 DEF TypeOK, AddComment, admin, drafts, world
  <1>2. ASSUME NEW c \in CommentIds, NEW verdict \in Verdicts, SetThreadDecision(a, p, c, verdict)
        PROVE  TypeOK'
    <2>0. comments[<<p, c>>] \in Comment
      BY <1>2 DEF TypeOK, SetThreadDecision
    <2>1. comments' \in [ProposalIds \X CommentIds -> Comment \cup {None}]
      BY <1>2, <2>0 DEF TypeOK, SetThreadDecision, Comment
    <2> QED BY <1>2, <2>1 DEF TypeOK, SetThreadDecision, admin, drafts, world
  <1>3. ASSUME NEW c \in CommentIds, NEW hidden \in BOOLEAN, SetCommentHidden(a, p, c, hidden)
        PROVE  TypeOK'
    <2>0. comments[<<p, c>>] \in Comment
      BY <1>3 DEF TypeOK, SetCommentHidden
    <2>1. comments' \in [ProposalIds \X CommentIds -> Comment \cup {None}]
      BY <1>3, <2>0 DEF TypeOK, SetCommentHidden, Comment
    <2> QED BY <1>3, <2>1 DEF TypeOK, SetCommentHidden, admin, drafts, world
  <1> QED BY <1>1, <1>2, <1>3 DEF Discuss

(* The owner's messages touch neither drafts nor threads. *)
LEMMA AdministerFrame ==
  ASSUME TypeOK, NEW a \in Accounts, Administer(a)
  PROVE  TypeOK' /\ UNCHANGED <<drafts, threads, world>>
  <1> USE WorkshopAssumption DEF TypeOK, drafts, threads, world
  <1>1. ASSUME NEW b \in Nominees, SetModerator(a, b) PROVE TypeOK' /\ UNCHANGED <<drafts, threads, world>>
    BY <1>1 DEF SetModerator
  <1>2. ASSUME NEW b \in Nominees, ProposeOwner(a, b) PROVE TypeOK' /\ UNCHANGED <<drafts, threads, world>>
    BY <1>2 DEF ProposeOwner
  <1>3. ASSUME NEW b \in Suspects, SetBlocked(a, b) PROVE TypeOK' /\ UNCHANGED <<drafts, threads, world>>
    BY <1>3 DEF SetBlocked
  <1>4. ASSUME SetPaused(a) PROVE TypeOK' /\ UNCHANGED <<drafts, threads, world>>
    BY <1>4 DEF SetPaused
  <1>5. ASSUME AcceptOwner(a) PROVE TypeOK' /\ UNCHANGED <<drafts, threads, world>>
    BY <1>5 DEF AcceptOwner
  <1> QED BY <1>1, <1>2, <1>3, <1>4, <1>5 DEF Administer

(* Nor do stakes and time, which never goes back. *)
LEMMA WorldFrame ==
  ASSUME TypeOK, (\E a \in Accounts : Restake(a)) \/ Tick
  PROVE  TypeOK' /\ UNCHANGED <<drafts, threads>> /\ now <= now'
  <1> USE WorkshopAssumption
  <1>1. ASSUME NEW a \in Accounts, Restake(a)
        PROVE  TypeOK' /\ UNCHANGED <<drafts, threads>> /\ now <= now'
    <2>1. holds' \in [Accounts -> Holdings] BY <1>1 DEF Restake, TypeOK
    <2> QED BY <1>1, <2>1 DEF Restake, TypeOK, admin, drafts, threads
  <1>2. ASSUME Tick PROVE TypeOK' /\ UNCHANGED <<drafts, threads>> /\ now <= now'
    BY <1>2 DEF Tick, TypeOK, admin, drafts, threads
  <1> QED BY <1>1, <1>2

LEMMA TypeStep == TypeOK /\ [Next]_vars => TypeOK'
  <1> SUFFICES ASSUME TypeOK, [Next]_vars PROVE TypeOK'
    OBVIOUS
  <1>1. CASE UNCHANGED vars
    BY <1>1 DEF vars, admin, drafts, threads, world, TypeOK
  <1> QED BY <1>1, DraftTyped, DiscussTyped, AdministerFrame, WorldFrame DEF Next

-----------------------------------------------------------------------------
(* Drafts: the discussion changes none, and each message of the author     *)
(* keeps what was published and finalized.                                 *)

LEMMA DiscussFrame ==
  ASSUME NEW a, NEW p, Discuss(a, p)
  PROVE  UNCHANGED <<drafts, now>>
  BY DEF Discuss, AddComment, SetThreadDecision, SetCommentHidden, drafts, world

LEMMA DraftFrame ==
  ASSUME NEW a, NEW p, Draft(a, p)
  PROVE  UNCHANGED <<threads, now>>
  BY DEF Draft, PublishProposal, AddRevision, UploadReviewChunk, Finalize, Withdraw, threads, world

(* What a message may do to the drafts. *)
DraftChange(p) ==
  \/ /\ proposals[p] = None
     /\ proposals'[p] # None /\ proposals'[p].latest = 1 /\ proposals'[p].finalized = 0
     /\ \A q \in ProposalIds \ {p} : proposals'[q] = proposals[q]
     /\ revisions'[<<p, 1>>] # None
     /\ \A pv \in ProposalIds \X Versions : pv # <<p, 1>> => revisions'[pv] = revisions[pv]
     /\ uploaded' = uploaded
  \/ /\ Open(p)
     /\ proposals[p].latest + 1 \in Versions
     /\ proposals' = [proposals EXCEPT ![p].latest = @ + 1]
     /\ revisions'[<<p, proposals[p].latest + 1>>] # None
     /\ \A pv \in ProposalIds \X Versions :
            pv # <<p, proposals[p].latest + 1>> => revisions'[pv] = revisions[pv]
     /\ uploaded' = uploaded
  \/ /\ Open(p)
     /\ UNCHANGED <<proposals, revisions>>
     /\ \A pv \in ProposalIds \X Versions :
            /\ uploaded[pv] \subseteq uploaded'[pv]
            /\ pv[1] # p => uploaded'[pv] = uploaded[pv]
  \/ /\ Open(p)
     /\ proposals' = [proposals EXCEPT ![p].finalized = proposals[p].latest]
     /\ Complete(p, proposals[p].latest)
     /\ UNCHANGED <<revisions, uploaded>>
  \/ /\ proposals[p] # None
     /\ proposals' = [proposals EXCEPT ![p].withdrawn = TRUE]
     /\ UNCHANGED <<revisions, uploaded>>

LEMMA DraftChanges ==
  ASSUME TypeOK, NEW a \in Accounts, NEW p \in ProposalIds, Draft(a, p)
  PROVE  DraftChange(p)
  <1> USE WorkshopAssumption, WorkshopNoneAssumption
  <1>1. ASSUME NEW content \in Contents, PublishProposal(a, p, content) PROVE DraftChange(p)
    <2>1. [author |-> a, latest |-> 1, finalized |-> 0, withdrawn |-> FALSE] \in Proposal
      BY <1>1 DEF PublishProposal, Proposal
    <2> QED BY <1>1, <2>1 DEF TypeOK, PublishProposal, FreeProposal, DraftChange
  <1>2. ASSUME NEW content \in Contents, AddRevision(a, p, content) PROVE DraftChange(p)
    <2>0. proposals[p] \in Proposal /\ proposals[p].latest + 1 \in Versions
      BY <1>2 DEF TypeOK, AddRevision, Open
    <2>1. revisions'[<<p, proposals[p].latest + 1>>] # None
      BY <1>2, <2>0 DEF TypeOK, AddRevision
    <2>2. \A pv \in ProposalIds \X Versions :
              pv # <<p, proposals[p].latest + 1>> => revisions'[pv] = revisions[pv]
      BY <1>2 DEF TypeOK, AddRevision
    <2>3. /\ Open(p)
          /\ proposals' = [proposals EXCEPT ![p].latest = @ + 1]
          /\ uploaded' = uploaded
      BY <1>2 DEF AddRevision
    <2> QED BY <2>0, <2>1, <2>2, <2>3 DEF DraftChange
  <1>3. ASSUME NEW v \in Versions, NEW i, UploadReviewChunk(a, p, v, i) PROVE DraftChange(p)
    <2>1. Open(p) /\ UNCHANGED <<proposals, revisions>>
      BY <1>3 DEF UploadReviewChunk
    <2>2. \A pv \in ProposalIds \X Versions :
              /\ uploaded[pv] \subseteq uploaded'[pv]
              /\ pv[1] # p => uploaded'[pv] = uploaded[pv]
      <3> SUFFICES ASSUME NEW pv \in ProposalIds \X Versions
                   PROVE  /\ uploaded[pv] \subseteq uploaded'[pv]
                          /\ pv[1] # p => uploaded'[pv] = uploaded[pv]
        OBVIOUS
      <3>1. uploaded' = [uploaded EXCEPT ![<<p, v>>] = uploaded[<<p, v>>] \cup {i}]
        BY <1>3 DEF UploadReviewChunk
      <3>2. CASE pv = <<p, v>>
        BY <3>1, <3>2 DEF TypeOK
      <3>3. CASE pv # <<p, v>>
        BY <3>1, <3>3 DEF TypeOK
      <3> QED BY <3>2, <3>3
    <2> QED BY <2>1, <2>2 DEF DraftChange
  <1>4. ASSUME NEW v \in Versions, Finalize(a, p, v) PROVE DraftChange(p)
    BY <1>4 DEF TypeOK, Finalize, DraftChange
  <1>5. ASSUME Withdraw(a, p) PROVE DraftChange(p)
    BY <1>5 DEF TypeOK, Withdraw, DraftChange
  <1> QED BY <1>1, <1>2, <1>3, <1>4, <1>5 DEF Draft

(* No record of a proposal is lost, and its versions only grow. *)
LEMMA Grows ==
  ASSUME TypeOK, TypeOK', NEW p \in ProposalIds, DraftChange(p)
  PROVE  \A q \in ProposalIds : proposals[q] # None =>
             /\ proposals'[q] # None
             /\ proposals'[q].latest >= proposals[q].latest
             /\ proposals'[q].author = proposals[q].author
  <1> SUFFICES ASSUME NEW q \in ProposalIds, proposals[q] # None
               PROVE  /\ proposals'[q] # None
                      /\ proposals'[q].latest >= proposals[q].latest
                      /\ proposals'[q].author = proposals[q].author
    OBVIOUS
  <1>0. proposals[q] \in Proposal
    BY DEF TypeOK
  <1>1. q # p => proposals'[q] = proposals[q]
    BY DEF DraftChange, TypeOK
  <1>2. q = p => \/ proposals'[q] = proposals[q]
                 \/ /\ proposals[q].latest + 1 \in Versions
                    /\ proposals'[q] = [proposals[q] EXCEPT !.latest = @ + 1]
                 \/ proposals'[q] = [proposals[q] EXCEPT !.finalized = proposals[q].latest]
                 \/ proposals'[q] = [proposals[q] EXCEPT !.withdrawn = TRUE]
    BY DEF DraftChange, TypeOK
  <1>3. \A r : r \in Proposal => r # None
    BY WorkshopNoneAssumption
  <1>4. [proposals[q] EXCEPT !.finalized = proposals[q].latest] \in Proposal
    BY <1>0 DEF Proposal
  <1>5. [proposals[q] EXCEPT !.withdrawn = TRUE] \in Proposal
    BY <1>0 DEF Proposal
  <1>7. proposals'[q] # None
    <2>1. proposals[q].latest + 1 \in Versions =>
              [proposals[q] EXCEPT !.latest = @ + 1] \in Proposal
      BY <1>0 DEF Proposal
    <2> QED BY <1>1, <1>2, <1>3, <1>4, <1>5, <2>1
  <1>8. proposals'[q].latest >= proposals[q].latest
    <2>1. proposals[q].latest \in Int
      BY <1>0 DEF Proposal, Versions
    <2> QED BY <1>0, <1>1, <1>2, <2>1 DEF Proposal
  <1>9. proposals'[q].author = proposals[q].author
    BY <1>0, <1>1, <1>2 DEF Proposal
  <1> QED BY <1>7, <1>8, <1>9

LEMMA RevisionsStep ==
  ASSUME TypeOK, TypeOK', RevisionsThere, NEW p \in ProposalIds, DraftChange(p)
  PROVE  RevisionsThere'
  <1> SUFFICES ASSUME NEW q \in ProposalIds, proposals'[q] # None,
                      NEW v \in Versions, v <= proposals'[q].latest
               PROVE  revisions'[<<q, v>>] # None
    BY DEF RevisionsThere
  <1>1. CASE proposals[q] # None /\ v <= proposals[q].latest
    <2>1. revisions[<<q, v>>] # None
      BY <1>1 DEF RevisionsThere
    <2> QED BY <2>1 DEF DraftChange
  <1>2. CASE proposals[q] = None
    <2>1. proposals'[q] # proposals[q]
      BY <1>2
    <2>2. q = p /\ proposals'[p].latest = 1 /\ revisions'[<<p, 1>>] # None
      BY <1>2, <2>1 DEF DraftChange, TypeOK, Open
    <2>3. v = 1
      BY <2>2 DEF Versions
    <2> QED BY <2>2, <2>3
  <1>3. CASE proposals[q] # None /\ ~(v <= proposals[q].latest)
    <2>0. proposals[q] \in Proposal /\ proposals[q].latest \in Int
      BY <1>3 DEF TypeOK, Proposal, Versions
    <2>1. proposals'[q].latest # proposals[q].latest
      BY <1>3
    <2>2. q = p /\ proposals' = [proposals EXCEPT ![p].latest = @ + 1]
          /\ revisions'[<<p, proposals[p].latest + 1>>] # None
      BY <1>3, <2>0, <2>1 DEF DraftChange, TypeOK, Proposal
    <2>3. proposals'[q].latest = proposals[q].latest + 1
      BY <2>0, <2>2 DEF TypeOK, Proposal
    <2>4. v = proposals[q].latest + 1
      BY <1>3, <2>0, <2>3 DEF Versions
    <2> QED BY <2>2, <2>4
  <1> QED BY <1>1, <1>2, <1>3

(* A version that is finalized after the step and was not before. *)
LEMMA FinalStep ==
  ASSUME TypeOK, TypeOK', FinalizedComplete, RevisionsThere, NEW p \in ProposalIds, DraftChange(p)
  PROVE  FinalizedComplete'
  <1> DEFINE Good(q) == proposals[q] # None /\ proposals[q].finalized # 0 =>
                LET v == proposals[q].finalized IN
                /\ v = proposals[q].latest
                /\ revisions[<<q, v>>] # None
                /\ ChunkCount[revisions[<<q, v>>]] > 0 =>
                       /\ revisions[<<q, v>>] \in Sound
                       /\ Chunks(revisions[<<q, v>>]) \subseteq uploaded[<<q, v>>]
  <1> SUFFICES ASSUME NEW q \in ProposalIds PROVE Good(q)'
    BY DEF FinalizedComplete
  <1>0. Good(q)
    BY DEF FinalizedComplete
  <1>1. CASE q # p
    <2>1. proposals'[q] = proposals[q]
      BY <1>1 DEF DraftChange, TypeOK
    <2>2. \A v \in Versions : /\ revisions'[<<q, v>>] = revisions[<<q, v>>]
                              /\ uploaded'[<<q, v>>] = uploaded[<<q, v>>]
      BY <1>1 DEF DraftChange
    <2>3. proposals[q] # None => proposals[q] \in Proposal
      BY DEF TypeOK
    <2> QED BY <1>0, <2>1, <2>2, <2>3 DEF Proposal, Chunks
  <1>2. CASE q = p
    <2>1. CASE proposals[p] = None \/ (Open(p) /\ proposals' = [proposals EXCEPT ![p].latest = @ + 1])
      <3>1. proposals'[p] # None => proposals'[p].finalized = 0
        BY <2>1 DEF DraftChange, Open, TypeOK, Proposal
      <3> QED BY <1>2, <3>1
    <2>2. CASE Open(p) /\ UNCHANGED <<proposals, revisions>>
      BY <1>2, <2>2 DEF Open
    <2>3. CASE /\ Open(p)
               /\ proposals' = [proposals EXCEPT ![p].finalized = proposals[p].latest]
               /\ Complete(p, proposals[p].latest)
               /\ UNCHANGED <<revisions, uploaded>>
      <3>1. proposals[p] \in Proposal
        BY <2>3 DEF Open, TypeOK
      <3>2. proposals'[p].finalized = proposals[p].latest /\ proposals'[p].latest = proposals[p].latest
        BY <2>3, <3>1 DEF TypeOK, Proposal
      <3>3. revisions[<<p, proposals[p].latest>>] # None
        BY <3>1, <2>3 DEF RevisionsThere, Proposal, Versions, Open
      <3> QED BY <1>2, <2>3, <3>2, <3>3 DEF Complete, Chunks
    <2>4. CASE /\ proposals[p] # None
               /\ proposals' = [proposals EXCEPT ![p].withdrawn = TRUE]
               /\ UNCHANGED <<revisions, uploaded>>
      <3>1. proposals[p] \in Proposal
        BY <2>4 DEF TypeOK
      <3>2. proposals'[p].finalized = proposals[p].finalized /\ proposals'[p].latest = proposals[p].latest
        BY <2>4, <3>1 DEF TypeOK, Proposal
      <3> QED BY <1>0, <1>2, <2>4, <3>2 DEF Chunks
    <2> QED BY <1>2, <2>1, <2>2, <2>3, <2>4 DEF DraftChange
  <1> QED BY <1>1, <1>2

-----------------------------------------------------------------------------
(* Threads.                                                                *)

(* What a message may do to the comments of the proposal p. *)
ThreadChange(a, p) ==
  \/ \E c \in CommentIds, v \in Versions, parent \in CommentIds \cup {0} :
         AddComment(a, p, c, v, parent)
  \/ \E c \in CommentIds :
         /\ comments[<<p, c>>] # None
         /\ \/ \E hidden \in BOOLEAN : comments' = [comments EXCEPT ![<<p, c>>].hidden = hidden]
            \/ /\ Open(p) /\ comments[<<p, c>>].parent = 0
               /\ \E verdict \in Verdicts :
                      comments' = [comments EXCEPT ![<<p, c>>].status = verdict]
         /\ UNCHANGED <<drafts, lastComment, now>>

LEMMA ThreadChanges ==
  ASSUME NEW a, NEW p, Discuss(a, p)
  PROVE  ThreadChange(a, p)
  BY DEF Discuss, ThreadChange, SetThreadDecision, SetCommentHidden, drafts, world

(* A comment that was there keeps everything but its verdict and tombstone, *)
(* and only a root of an open review gets a verdict.                        *)
Kept(x) ==
  /\ comments'[x] # None
  /\ comments'[x].author = comments[x].author
  /\ comments'[x].version = comments[x].version
  /\ comments'[x].parent = comments[x].parent
  /\ comments'[x].time = comments[x].time
  /\ comments'[x].status = comments[x].status \/ (comments[x].parent = 0 /\ Open(x[1]))

LEMMA CommentsKept ==
  ASSUME TypeOK, NEW a \in Accounts, NEW p \in ProposalIds, ThreadChange(a, p),
         NEW x \in ProposalIds \X CommentIds, comments[x] # None
  PROVE  Kept(x)
  <1>0. comments[x] \in Comment
    BY DEF TypeOK
  <1>1. ASSUME NEW c \in CommentIds, NEW v \in Versions, NEW parent \in CommentIds \cup {0},
               AddComment(a, p, c, v, parent)
        PROVE  comments'[x] = comments[x]
    BY <1>1 DEF AddComment, FreeComment, TypeOK
  <1>2. ASSUME NEW c \in CommentIds, NEW hidden \in BOOLEAN,
               comments' = [comments EXCEPT ![<<p, c>>].hidden = hidden]
        PROVE  Kept(x)
    <2>1. comments'[x] \in {comments[x], [comments[x] EXCEPT !.hidden = hidden]}
      BY <1>2 DEF TypeOK
    <2>2. [comments[x] EXCEPT !.hidden = hidden] \in Comment
      BY <1>0 DEF Comment
    <2> QED BY <1>0, <2>1, <2>2, WorkshopNoneAssumption DEF Comment, Kept
  <1>3. ASSUME NEW c \in CommentIds, NEW verdict \in Verdicts,
               Open(p), comments[<<p, c>>].parent = 0,
               comments' = [comments EXCEPT ![<<p, c>>].status = verdict]
        PROVE  Kept(x)
    <2>1. CASE x = <<p, c>>
      <3>1. comments'[x] = [comments[x] EXCEPT !.status = verdict]
        BY <1>3, <2>1 DEF TypeOK
      <3>2. [comments[x] EXCEPT !.status = verdict] \in Comment
        BY <1>0 DEF Comment
      <3>3. x[1] = p
        BY <2>1
      <3> QED BY <1>0, <1>3, <2>1, <3>1, <3>2, <3>3, WorkshopNoneAssumption DEF Comment, Kept
    <2>2. CASE x # <<p, c>>
      BY <1>3, <2>2 DEF TypeOK, Kept
    <2> QED BY <2>1, <2>2
  <1> QED BY <1>1, <1>2, <1>3 DEF ThreadChange, Kept

(* A comment that appears is the one the message adds. *)
LEMMA CommentAppears ==
  ASSUME TypeOK, NEW a \in Accounts, NEW p \in ProposalIds, ThreadChange(a, p),
         NEW x \in ProposalIds \X CommentIds, comments[x] = None, comments'[x] # None
  PROVE  \E c \in CommentIds, v \in Versions, parent \in CommentIds \cup {0} :
             /\ x = <<p, c>>
             /\ AddComment(a, p, c, v, parent)
             /\ comments'[x] = [author |-> a, version |-> v, parent |-> parent,
                                status |-> "open", hidden |-> FALSE, time |-> now]
  <1>1. ASSUME NEW c \in CommentIds, comments[<<p, c>>] # None,
               NEW r, comments' = [comments EXCEPT ![<<p, c>>] = r]
        PROVE  FALSE
    BY <1>1 DEF TypeOK
  <1>2. ASSUME NEW c \in CommentIds, NEW v \in Versions, NEW parent \in CommentIds \cup {0},
               AddComment(a, p, c, v, parent)
        PROVE  x = <<p, c>> /\ comments'[x] = [author |-> a, version |-> v, parent |-> parent,
                                status |-> "open", hidden |-> FALSE, time |-> now]
    BY <1>2 DEF AddComment, TypeOK
  <1> QED BY <1>1, <1>2 DEF ThreadChange

LEMMA ContiguousStep ==
  ASSUME TypeOK, Contiguous, NEW a \in Accounts, NEW p \in ProposalIds, ThreadChange(a, p)
  PROVE  Contiguous'
  <1> SUFFICES ASSUME NEW q \in ProposalIds, NEW c \in CommentIds, comments'[<<q, c>>] # None,
                      NEW d \in CommentIds, d < c
               PROVE  comments'[<<q, d>>] # None
    BY DEF Contiguous
  <1>1. comments[<<q, d>>] # None
    <2>1. CASE comments[<<q, c>>] # None
      BY <2>1 DEF Contiguous
    <2>2. CASE comments[<<q, c>>] = None
      <3>1. PICK e \in CommentIds, v \in Versions, parent \in CommentIds \cup {0} :
                <<q, c>> = <<p, e>> /\ AddComment(a, p, e, v, parent)
        BY <2>2, CommentAppears
      <3>2. q = p /\ c = e
        BY <3>1
      <3> QED BY <3>1, <3>2 DEF AddComment, FreeComment
    <2> QED BY <2>1, <2>2
  <1> QED BY <1>1, CommentsKept DEF Kept

LEMMA ThreadsStep ==
  ASSUME TypeOK, RevisionsThere, Contiguous, ThreadsWellFounded,
         NEW a \in Accounts, NEW p \in ProposalIds, ThreadChange(a, p)
  PROVE  ThreadsWellFounded'
  <1> SUFFICES ASSUME NEW q \in ProposalIds, NEW c \in CommentIds, comments'[<<q, c>>] # None
               PROVE  /\ proposals'[q] # None
                      /\ comments'[<<q, c>>].version <= proposals'[q].latest
                      /\ revisions'[<<q, comments'[<<q, c>>].version>>] # None
                      /\ comments'[<<q, c>>].parent # 0 =>
                             /\ comments'[<<q, c>>].parent < c
                             /\ comments'[<<q, comments'[<<q, c>>].parent>>] # None
                             /\ comments'[<<q, c>>].status = "open"
    BY DEF ThreadsWellFounded
  <1>0. UNCHANGED drafts
    BY DEF ThreadChange, AddComment, drafts
  <1>1. CASE comments[<<q, c>>] # None
    <2>1. Kept(<<q, c>>)
      BY <1>1, CommentsKept
    <2>2. comments[<<q, c>>] \in Comment
      BY <1>1 DEF TypeOK
    <2>3. comments[<<q, c>>].parent # 0 => comments'[<<q, comments[<<q, c>>].parent>>] # None
      BY <1>1, <2>2, CommentsKept DEF Kept, ThreadsWellFounded, Comment
    <2> QED BY <1>0, <1>1, <2>1, <2>3 DEF Kept, ThreadsWellFounded, drafts
  <1>2. CASE comments[<<q, c>>] = None
    <2>1. PICK e \in CommentIds, v \in Versions, parent \in CommentIds \cup {0} :
              /\ <<q, c>> = <<p, e>> /\ AddComment(a, p, e, v, parent)
              /\ comments'[<<q, c>>] = [author |-> a, version |-> v, parent |-> parent,
                                        status |-> "open", hidden |-> FALSE, time |-> now]
      <3> DEFINE x == <<q, c>>
      <3>1. x \in ProposalIds \X CommentIds /\ comments[x] = None /\ comments'[x] # None
        BY <1>2
      <3> HIDE DEF x
      <3>2. \E e \in CommentIds, v \in Versions, parent \in CommentIds \cup {0} :
                /\ x = <<p, e>> /\ AddComment(a, p, e, v, parent)
                /\ comments'[x] = [author |-> a, version |-> v, parent |-> parent,
                                   status |-> "open", hidden |-> FALSE, time |-> now]
        BY <3>1, CommentAppears
      <3> QED BY <3>2 DEF x
    <2>2. q = p /\ c = e
      <3>1. <<q, c>> = <<p, e>>
        BY <2>1
      <3> QED BY ONLY <3>1
    <2>3. proposals[q] # None /\ v <= proposals[q].latest /\ revisions[<<q, v>>] # None
      BY <2>1, <2>2 DEF AddComment, Open, RevisionsThere
    <2>4. parent # 0 => parent < c /\ comments[<<q, parent>>] # None
      <3>1. SUFFICES ASSUME parent # 0 PROVE parent < c /\ comments[<<q, parent>>] # None
        OBVIOUS
      <3>2. comments[<<q, parent>>] # None /\ comments[<<q, c>>] = None /\ parent \in CommentIds
        BY <2>1, <2>2, <3>1, <1>2 DEF AddComment
      <3> QED BY <3>2 DEF Contiguous, CommentIds
    <2>5. parent # 0 => comments'[<<q, parent>>] # None
      BY <2>4, CommentsKept DEF Kept
    <2> QED BY <1>0, <2>1, <2>3, <2>4, <2>5 DEF drafts
  <1> QED BY <1>1, <1>2

LEMMA DatedStep ==
  ASSUME TypeOK, Dated, NEW a \in Accounts, NEW p \in ProposalIds, ThreadChange(a, p)
  PROVE  Dated'
  <1>1. /\ now' = now
        /\ \/ lastComment' = lastComment
           \/ lastComment' = [lastComment EXCEPT ![a] = now]
    BY DEF ThreadChange, AddComment, world
  <1>2. \A b \in Accounts : lastComment'[b] # None => lastComment'[b] <= now'
    BY <1>1 DEF Dated, TypeOK
  <1>3. ASSUME NEW x \in ProposalIds \X CommentIds, comments'[x] # None
        PROVE  /\ lastComment'[comments'[x].author] # None
               /\ comments'[x].time <= lastComment'[comments'[x].author]
    <2>1. CASE comments[x] # None
      <3>1. comments[x] \in Comment
        BY <2>1 DEF TypeOK
      <3>2. /\ comments'[x].author = comments[x].author
            /\ comments'[x].time = comments[x].time
        BY <2>1, CommentsKept DEF Kept
      <3>3. /\ lastComment[comments[x].author] # None
            /\ comments[x].time <= lastComment[comments[x].author]
            /\ lastComment[comments[x].author] <= now
            /\ lastComment[comments[x].author] \in Nat /\ comments[x].time \in Nat
        BY <2>1, <3>1 DEF Dated, TypeOK, Comment
      <3>4. now # None
        BY WorkshopAssumption DEF TypeOK
      <3> QED BY <1>1, <3>1, <3>2, <3>3, <3>4 DEF TypeOK, Comment
    <2>2. CASE comments[x] = None
      <3>1. PICK c \in CommentIds, v \in Versions, parent \in CommentIds \cup {0} :
                /\ AddComment(a, p, c, v, parent)
                /\ comments'[x] = [author |-> a, version |-> v, parent |-> parent,
                                   status |-> "open", hidden |-> FALSE, time |-> now]
        BY <1>3, <2>2, CommentAppears
      <3>2. lastComment'[a] = now
        BY <3>1 DEF AddComment, TypeOK
      <3>3. now # None
        BY WorkshopAssumption DEF TypeOK
      <3> QED BY <3>1, <3>2, <3>3 DEF TypeOK
    <2> QED BY <2>1, <2>2
  <1> QED BY <1>2, <1>3 DEF Dated

(* A new comment comes a cooldown after every earlier one of its author,   *)
(* for none of them is later than the author's last comment.               *)
LEMMA SpacedStep ==
  ASSUME TypeOK, Dated, CommentsSpaced,
         NEW a \in Accounts, NEW p \in ProposalIds, ThreadChange(a, p)
  PROVE  CommentsSpaced'
  <1> SUFFICES ASSUME NEW x \in ProposalIds \X CommentIds, NEW y \in ProposalIds \X CommentIds,
                      x # y, comments'[x] # None, comments'[y] # None,
                      comments'[x].author = comments'[y].author,
                      comments'[x].time <= comments'[y].time
               PROVE  comments'[x].time + Cooldown <= comments'[y].time
    BY DEF CommentsSpaced
  <1> DEFINE New(z) == comments[z] = None
  <1>1. \A z \in ProposalIds \X CommentIds :
            comments'[z] # None /\ New(z) =>
                \E c \in CommentIds, v \in Versions, parent \in CommentIds \cup {0} :
                    z = <<p, c>> /\ AddComment(a, p, c, v, parent)
                    /\ comments'[z].author = a /\ comments'[z].time = now
    <2> SUFFICES ASSUME NEW z \in ProposalIds \X CommentIds, comments'[z] # None, comments[z] = None
                 PROVE  \E c \in CommentIds, v \in Versions, parent \in CommentIds \cup {0} :
                            z = <<p, c>> /\ AddComment(a, p, c, v, parent)
                            /\ comments'[z].author = a /\ comments'[z].time = now
      OBVIOUS
    <2>1. PICK c \in CommentIds, v \in Versions, parent \in CommentIds \cup {0} :
              /\ z = <<p, c>>
              /\ AddComment(a, p, c, v, parent)
              /\ comments'[z] = [author |-> a, version |-> v, parent |-> parent,
                                 status |-> "open", hidden |-> FALSE, time |-> now]
      BY CommentAppears
    <2>2. comments'[z].author = a /\ comments'[z].time = now
      BY <2>1
    <2> QED BY <2>1, <2>2
  <1>2. ASSUME NEW z \in ProposalIds \X CommentIds, New(z), comments'[z] # None,
               NEW w \in ProposalIds \X CommentIds, ~New(w),
               comments'[w].author = a
        PROVE  /\ comments'[z].author = a /\ comments'[z].time = now
               /\ comments'[w].time \in Nat
               /\ comments'[w].time + Cooldown <= now
    <2>1. comments[w] \in Comment /\ comments[w].author = a /\ comments'[w].time = comments[w].time
      BY <1>2, CommentsKept DEF TypeOK, Kept
    <2>2. ~CoolingDown(a)
      BY <1>1, <1>2 DEF AddComment, Commenter
    <2>3. lastComment[a] # None /\ comments[w].time <= lastComment[a] /\ lastComment[a] \in Nat
      BY <1>2, <2>1 DEF Dated, TypeOK
    <2>4. comments[w].time \in Nat /\ now \in Nat /\ Cooldown \in Nat
      BY <2>1, WorkshopAssumption DEF Comment, TypeOK
    <2> QED BY <1>1, <1>2, <2>1, <2>2, <2>3, <2>4 DEF CoolingDown
  <1>3. CASE ~New(x) /\ ~New(y)
    BY <1>3, CommentsKept DEF Kept, CommentsSpaced
  <1>4. CASE New(x) /\ New(y)
    <2>1. PICK c \in CommentIds, v \in Versions, parent \in CommentIds \cup {0} :
              x = <<p, c>> /\ AddComment(a, p, c, v, parent)
      BY <1>1, <1>4
    <2>2. comments'[y] = comments[y]
      BY <1>4, <2>1 DEF AddComment, TypeOK
    <2> QED BY <1>4, <2>2
  <1>5. CASE ~New(x) /\ New(y)
    BY <1>1, <1>2, <1>5
  <1>6. CASE New(x) /\ ~New(y)
    <2>1. comments'[x].time = now /\ comments'[y].time + Cooldown <= now /\ comments'[y].time \in Nat
      BY <1>1, <1>2, <1>6
    <2>2. now \in Nat /\ Cooldown \in Nat
      BY WorkshopAssumption DEF TypeOK
    <2> QED BY <2>1, <2>2
  <1> QED BY <1>3, <1>4, <1>5, <1>6

-----------------------------------------------------------------------------
(* The inductive invariant.                                                *)

LEMMA InitInv == Init => IInv
  <1> SUFFICES ASSUME Init PROVE IInv
    OBVIOUS
  <1>1. TypeOK
    BY InitTyped
  <1>2. /\ \A p \in ProposalIds : proposals[p] = None
        /\ \A pc \in ProposalIds \X CommentIds : comments[pc] = None
        /\ \A a \in Accounts : lastComment[a] = None
    BY DEF Init
  <1>3. \A p \in ProposalIds, c \in CommentIds : comments[<<p, c>>] = None
    BY <1>2
  <1> QED BY <1>1, <1>2, <1>3 DEF IInv, RevisionsThere, FinalizedComplete, Contiguous,
        ThreadsWellFounded, Dated, CommentsSpaced

LEMMA StepInv == IInv /\ [Next]_vars => IInv'
  <1> SUFFICES ASSUME IInv, [Next]_vars PROVE IInv'
    OBVIOUS
  <1> USE DEF IInv
  <1>0. TypeOK'
    BY TypeStep
  <1>1. ASSUME NEW a \in Accounts, NEW p \in ProposalIds, Draft(a, p) PROVE IInv'
    <2>1. DraftChange(p) /\ UNCHANGED <<threads, now>>
      BY <1>1, DraftChanges, DraftFrame
    <2>2. RevisionsThere' /\ FinalizedComplete'
      BY <1>0, <2>1, RevisionsStep, FinalStep
    <2>3. Contiguous' /\ Dated' /\ CommentsSpaced'
      BY <2>1 DEF Contiguous, Dated, CommentsSpaced, threads
    <2>4. ThreadsWellFounded'
      <3> SUFFICES ASSUME NEW q \in ProposalIds, NEW c \in CommentIds, comments[<<q, c>>] # None
                   PROVE  /\ proposals'[q] # None
                          /\ comments[<<q, c>>].version <= proposals'[q].latest
                          /\ revisions'[<<q, comments[<<q, c>>].version>>] # None
        BY <2>1 DEF ThreadsWellFounded, threads
      <3>1. proposals[q] # None /\ comments[<<q, c>>].version <= proposals[q].latest
        BY DEF ThreadsWellFounded
      <3>2. comments[<<q, c>>] \in Comment /\ proposals[q] \in Proposal
        BY <3>1 DEF TypeOK
      <3>3. proposals'[q] # None /\ proposals'[q].latest >= proposals[q].latest
        BY <1>0, <2>1, <3>1, Grows
      <3>4. proposals'[q] \in Proposal
        BY <1>0, <3>3 DEF TypeOK
      <3>5. comments[<<q, c>>].version <= proposals'[q].latest
        BY <3>1, <3>2, <3>3, <3>4 DEF Comment, Proposal, Versions
      <3> QED BY <2>2, <3>2, <3>3, <3>5 DEF RevisionsThere, Comment
    <2> QED BY <1>0, <2>2, <2>3, <2>4
  <1>2. ASSUME NEW a \in Accounts, NEW p \in ProposalIds, Discuss(a, p) PROVE IInv'
    <2>1. ThreadChange(a, p) /\ UNCHANGED <<drafts, now>>
      BY <1>2, ThreadChanges, DiscussFrame
    <2>2. RevisionsThere' /\ FinalizedComplete'
      BY <2>1 DEF RevisionsThere, FinalizedComplete, drafts, Chunks
    <2> QED BY <1>0, <2>1, <2>2, ContiguousStep, ThreadsStep, DatedStep, SpacedStep
  <1>3. ASSUME UNCHANGED <<drafts, threads>>, now <= now' PROVE IInv'
    <2>1. RevisionsThere' /\ FinalizedComplete' /\ Contiguous' /\ ThreadsWellFounded' /\ CommentsSpaced'
      BY <1>3 DEF RevisionsThere, FinalizedComplete, Contiguous, ThreadsWellFounded,
           CommentsSpaced, drafts, threads, Chunks
    <2>2. Dated'
      <3>1. now \in Nat /\ now' \in Nat
        BY <1>0 DEF TypeOK
      <3> QED BY <1>3, <3>1 DEF Dated, threads, TypeOK
    <2> QED BY <1>0, <2>1, <2>2
  <1>4. CASE UNCHANGED vars
    <2>1. UNCHANGED <<drafts, threads>> /\ now <= now'
      BY <1>4 DEF vars, world, TypeOK
    <2> QED BY <1>3, <2>1
  <1>5. ASSUME NEW a \in Accounts, Administer(a) PROVE IInv'
    <2>1. UNCHANGED <<drafts, threads>> /\ now <= now'
      BY <1>5, AdministerFrame DEF world, TypeOK
    <2> QED BY <1>3, <2>1
  <1>6. ASSUME (\E a \in Accounts : Restake(a)) \/ Tick PROVE IInv'
    BY <1>3, <1>6, WorldFrame
  <1> QED BY <1>1, <1>2, <1>4, <1>5, <1>6 DEF Next

(* The invariant and its parts hold of every behaviour. *)
THEOREM Inductive == Spec => []IInv
  BY InitInv, StepInv, PTL DEF Spec

(* Every record the contract stores has its declared form (state.rs). *)
THEOREM TypeCorrect == Spec => []TypeOK
  BY Inductive, PTL DEF IInv

(* finalize fixes the latest revision with its whole body only, and        *)
(* nothing that comes after takes a chunk or a version away.               *)
THEOREM FinalsComplete == Spec => []FinalizedComplete
  BY Inductive, PTL DEF IInv

(* require_commenter spaces the comments of an account on all proposals.   *)
THEOREM CooldownHolds == Spec => []CommentsSpaced
  BY Inductive, PTL DEF IInv

(* comment and decision keep threads trees over published versions.        *)
THEOREM ThreadsSound == Spec => []ThreadsWellFounded
  BY Inductive, PTL DEF IInv

-----------------------------------------------------------------------------
(* Closed reviews. *)

Closed(p) ==
  proposals[p] # None /\ ~Open(p) =>
      /\ proposals'[p] \in {proposals[p], [proposals[p] EXCEPT !.withdrawn = TRUE]}
      /\ \A v \in Versions :
             /\ revisions'[<<p, v>>] = revisions[<<p, v>>]
             /\ uploaded'[<<p, v>>] = uploaded[<<p, v>>]
      /\ \A c \in CommentIds : Said(<<p, c>>)' = Said(<<p, c>>)

(* A draft message to q leaves every closed review as it is, or withdraws q. *)
LEMMA DraftsClosed ==
  ASSUME TypeOK, NEW q \in ProposalIds, DraftChange(q), UNCHANGED threads,
         NEW p \in ProposalIds
  PROVE  Closed(p)
  <1> SUFFICES ASSUME proposals[p] # None, ~Open(p)
               PROVE  Closed(p)
    BY DEF Closed
  <1>1. \A c \in CommentIds : Said(<<p, c>>)' = Said(<<p, c>>)
    BY DEF Said, threads
  <1>2. CASE p # q
    <2>1. proposals'[p] = proposals[p]
      BY <1>2 DEF DraftChange, TypeOK
    <2>2. \A v \in Versions : /\ revisions'[<<p, v>>] = revisions[<<p, v>>]
                              /\ uploaded'[<<p, v>>] = uploaded[<<p, v>>]
      BY <1>2 DEF DraftChange
    <2> QED BY <1>1, <2>1, <2>2 DEF Closed
  <1>3. CASE p = q
    <2>1. /\ proposals' = [proposals EXCEPT ![p].withdrawn = TRUE]
          /\ UNCHANGED <<revisions, uploaded>>
      BY <1>3 DEF DraftChange
    <2>2. proposals'[p] = [proposals[p] EXCEPT !.withdrawn = TRUE]
      BY <2>1 DEF TypeOK
    <2> QED BY <1>1, <2>1, <2>2 DEF Closed
  <1> QED BY <1>2, <1>3

(* A message to the discussion of q only hides comments of closed reviews. *)
LEMMA ThreadsClosed ==
  ASSUME TypeOK, TypeOK', NEW a \in Accounts, NEW q \in ProposalIds, ThreadChange(a, q),
         UNCHANGED drafts, NEW p \in ProposalIds
  PROVE  Closed(p)
  <1> SUFFICES ASSUME proposals[p] # None, ~Open(p), NEW c \in CommentIds
               PROVE  Said(<<p, c>>)' = Said(<<p, c>>)
    BY DEF Closed, drafts
  <1> DEFINE x == <<p, c>>
  <1>0. x \in ProposalIds \X CommentIds /\ x[1] = p
    OBVIOUS
  <1> HIDE DEF x
  <1>1. CASE comments[x] = None
    <2>1. ASSUME comments'[x] # None PROVE FALSE
      <3>1. PICK d \in CommentIds, v \in Versions, parent \in CommentIds \cup {0} :
                x = <<q, d>> /\ AddComment(a, q, d, v, parent)
        BY <1>0, <1>1, <2>1, CommentAppears
      <3>2. Open(q)
        BY <3>1 DEF AddComment
      <3>3. q = p
        BY <1>0, <3>1
      <3> QED BY <3>2, <3>3
    <2> QED BY <1>1, <2>1 DEF Said, x
  <1>2. CASE comments[x] # None
    <2>1. Kept(x)
      BY <1>0, <1>2, CommentsKept
    <2>2. comments[x] \in Comment /\ comments'[x] \in Comment
      BY <1>0, <1>2, <2>1 DEF TypeOK, Kept
    <2>3. comments'[x].status = comments[x].status
      BY <1>0, <2>1 DEF Kept
    <2>4. [comments'[x] EXCEPT !.hidden = FALSE] = [comments[x] EXCEPT !.hidden = FALSE]
      BY <2>1, <2>2, <2>3 DEF Kept, Comment
    <2> QED BY <1>2, <2>1, <2>4 DEF Said, Kept, x
  <1> QED BY <1>1, <1>2

(* revise, upload, comment, decision and finalize all refuse a review that *)
(* was finalized or withdrawn: it stays as it is, whoever acts.            *)
THEOREM ReviewsStayClosed == Spec => ClosedStaysClosed
  <1>1. TypeOK /\ TypeOK' /\ [Next]_vars => [\A p \in ProposalIds : Closed(p)]_vars
    <2> SUFFICES ASSUME TypeOK, TypeOK', Next, NEW p \in ProposalIds PROVE Closed(p)
      OBVIOUS
    <2>1. ASSUME NEW a \in Accounts, NEW q \in ProposalIds, Draft(a, q) PROVE Closed(p)
      BY <2>1, DraftChanges, DraftFrame, DraftsClosed
    <2>2. ASSUME NEW a \in Accounts, NEW q \in ProposalIds, Discuss(a, q) PROVE Closed(p)
      BY <2>2, ThreadChanges, DiscussFrame, ThreadsClosed
    <2>3. ASSUME UNCHANGED <<drafts, threads>> PROVE Closed(p)
      BY <2>3 DEF Closed, Said, drafts, threads
    <2>4. ASSUME NEW a \in Accounts, Administer(a) PROVE Closed(p)
      BY <2>3, <2>4, AdministerFrame
    <2>5. ASSUME (\E a \in Accounts : Restake(a)) \/ Tick PROVE Closed(p)
      BY <2>3, <2>5, WorldFrame
    <2> QED BY <2>1, <2>2, <2>4, <2>5 DEF Next
  <1>2. Spec => [][\A p \in ProposalIds : Closed(p)]_vars
    BY <1>1, TypeCorrect, PTL DEF Spec
  <1> QED BY <1>2 DEF ClosedStaysClosed, Closed

=============================================================================
