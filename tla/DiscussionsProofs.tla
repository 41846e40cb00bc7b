-------------------------- MODULE DiscussionsProofs --------------------------
(***************************************************************************)
(* Proofs about the discussions and the page of their authors: their       *)
(* types, that replies stay with what they answer, that locks hold and     *)
(* that a page posts a text once as long as it keeps the receipt.          *)
(***************************************************************************)
EXTENDS DiscussionPage, FiniteSetTheorems, SequenceTheorems, TLAPS

-----------------------------------------------------------------------------
(* The redirects of a threads table form a forest: root[t] is where the     *)
(* redirects from t end, up[t] are the threads they pass after t.           *)
Well(table, root, up) ==
    \A t \in Threads : table[t] # None =>
        /\ t \notin up[t]
        /\ table[t].redirect = None => root[t] = t /\ up[t] = {}
        /\ table[t].redirect # None =>
            /\ table[table[t].redirect] # None
            /\ root[t] = root[table[t].redirect]
            /\ up[t] = up[table[t].redirect] \cup {table[t].redirect}

Forest(table) ==
    \E root \in [Threads -> Threads], up \in [Threads -> SUBSET Threads] : Well(table, root, up)

(* A root of the table. *)
Root(table, t) == t \in Threads /\ table[t] # None /\ table[t].redirect = None

-----------------------------------------------------------------------------
(* Every nonempty set of natural numbers has a least one.                   *)
LEMMA Least ==
  ASSUME NEW T, T \subseteq Nat, T # {}
  PROVE  \E n \in T : \A m \in T : n <= m
<1> DEFINE Below == {0..n : n \in T}
           R == StrictSubsetOrdering(Nat)
<1>1. \A n \in Nat : 0..n \in FiniteSubsetsOf(Nat)
  BY FS_Interval DEF FiniteSubsetsOf
<1>2. Below \subseteq FiniteSubsetsOf(Nat) /\ Below # {}
  BY <1>1
<1>3. \E x \in Below : \A y \in Below : ~ <<y, x>> \in R
  <2>1. IsWellFoundedOn(R, FiniteSubsetsOf(Nat))
    BY FS_StrictSubsetOrderingWellFounded
  <2> HIDE DEF Below, R
  <2> QED BY <1>2, <2>1, WFMin
<1>4. PICK n \in T : \A m \in T : ~ <<0..m, 0..n>> \in R
  BY <1>3
<1>5. ASSUME NEW m \in T, m < n PROVE <<0..m, 0..n>> \in R
  <2>1. 0..m \subseteq 0..n /\ 0..m # 0..n
    <3>1. n \in 0..n /\ n \notin 0..m
      BY <1>5
    <3> QED BY <3>1, <1>5
  <2>2. 0..m \in SUBSET Nat /\ 0..n \in SUBSET Nat
    OBVIOUS
  <2>3. R = {ss \in (SUBSET Nat) \X (SUBSET Nat) : ss[1] \subseteq ss[2] /\ ss[1] # ss[2]}
    BY Zenon DEF R, StrictSubsetOrdering
  <2> HIDE DEF R
  <2> QED BY <2>1, <2>2, <2>3
<1>6. \A m \in T : ~ m < n
  BY <1>4, <1>5
<1> QED BY <1>6

(* The path that Canonical follows from a thread.                           *)
Hop(table, t) == IF table[t].redirect = None THEN t ELSE table[t].redirect
Path(table, t, n, f) == f = [k \in 0..n |-> IF k = 0 THEN t ELSE Hop(table, f[k - 1])]

LEMMA PathExists ==
  ASSUME NEW table, NEW t, NEW n \in Nat
  PROVE  \E f : Path(table, t, n, f)
<1> DEFINE T == {m \in Nat : ~ \E f : Path(table, t, m, f)}
<1>1. SUFFICES ASSUME T # {} PROVE FALSE
  OBVIOUS
<1>2. PICK m \in T : \A k \in T : m <= k
  BY <1>1, Least
<1>3. m # 0
  <2>1. Path(table, t, 0, [k \in 0..0 |-> t])
    BY DEF Path
  <2> QED BY <2>1
<1>4. m - 1 \in Nat /\ m - 1 \notin T
  BY <1>2, <1>3
<1>5. PICK f : Path(table, t, m - 1, f)
  BY <1>4
<1> DEFINE g == [k \in 0..m |-> IF k = m THEN Hop(table, f[m - 1]) ELSE f[k]]
<1>6. ASSUME NEW k \in 0..m
      PROVE  g[k] = IF k = 0 THEN t ELSE Hop(table, g[k - 1])
  <2>1. CASE k = m
    BY <2>1, <1>3, <1>4
  <2>2. CASE k # m
    BY <2>2, <1>3, <1>4, <1>5 DEF Path
  <2> QED BY <2>1, <2>2
<1>7. Path(table, t, m, g)
  BY <1>6 DEF Path
<1> QED BY <1>7, <1>2

LEMMA CanonicalPath ==
  ASSUME NEW table, NEW t
  PROVE  \E f : /\ Path(table, t, Cardinality(Threads), f)
                /\ Canonical(table, t) = f[Cardinality(Threads)]
<1> DEFINE N == Cardinality(Threads)
           at == CHOOSE at : at = [k \in 0..N |->
                     IF k = 0 THEN t
                     ELSE IF table[at[k - 1]].redirect = None THEN at[k - 1]
                     ELSE table[at[k - 1]].redirect]
<1>1. N \in Nat
  BY DiscussionsAssumption, FS_CardinalityType DEF DiscussionsAssumption
<1>2. PICK f : Path(table, t, N, f)
  BY <1>1, PathExists
<1>3. f = [k \in 0..N |-> IF k = 0 THEN t
                          ELSE IF table[f[k - 1]].redirect = None THEN f[k - 1]
                          ELSE table[f[k - 1]].redirect]
  BY <1>2 DEF Path, Hop
<1>4. at = [k \in 0..N |-> IF k = 0 THEN t
                           ELSE IF table[at[k - 1]].redirect = None THEN at[k - 1]
                           ELSE table[at[k - 1]].redirect]
  BY <1>3
<1>5. Path(table, t, N, at)
  BY <1>4 DEF Path, Hop
<1>6. Canonical(table, t) = at[N]
  BY DEF Canonical
<1> QED BY <1>5, <1>6

Table == [Threads -> ThreadRow \cup {None}]

(* In a forest Canonical ends at a root, the one of the forest: the path    *)
(* leaves threads behind with every step, and there are finitely many.      *)
LEMMA CanonicalIsRoot ==
  ASSUME NEW table \in Table,
         NEW root \in [Threads -> Threads], NEW up \in [Threads -> SUBSET Threads],
         Well(table, root, up),
         NEW t \in Threads, table[t] # None
  PROVE  Canonical(table, t) = root[t] /\ Root(table, root[t])
<1> DEFINE N == Cardinality(Threads)
<1>1. PICK f : Path(table, t, N, f) /\ Canonical(table, t) = f[N]
  BY CanonicalPath
<1>2. /\ N \in Nat
      /\ \A s \in Threads : IsFiniteSet(up[s]) /\ Cardinality(up[s]) \in Nat
      /\ \A s \in Threads : table[s] # None => Cardinality(up[s]) <= N - 1
      /\ \A s, r \in Threads : table[s] # None /\ table[r] # None /\ up[s] = up[r] \cup {r} =>
             Cardinality(up[s]) = Cardinality(up[r]) + 1
  <2>1. N \in Nat /\ IsFiniteSet(Threads)
    BY DiscussionsAssumption, FS_CardinalityType DEF DiscussionsAssumption
  <2>2. \A s \in Threads : IsFiniteSet(up[s])
    BY <2>1, FS_Subset
  <2>3. \A s \in Threads : Cardinality(up[s]) \in Nat
    BY <2>2, FS_CardinalityType
  <2>4. ASSUME NEW s \in Threads, table[s] # None PROVE Cardinality(up[s]) <= N - 1
    <3>1. s \notin up[s]
      BY <2>4 DEF Well
    <3>2. IsFiniteSet(Threads \ {s}) /\ Cardinality(Threads \ {s}) = N - 1
      BY <2>1, FS_RemoveElement
    <3>3. up[s] \in SUBSET (Threads \ {s})
      BY <3>1
    <3> HIDE DEF N
    <3> QED BY <3>2, <3>3, FS_Subset
  <2>5. ASSUME NEW s \in Threads, NEW r \in Threads, table[r] # None, up[s] = up[r] \cup {r}
        PROVE  Cardinality(up[s]) = Cardinality(up[r]) + 1
    <3>1. r \notin up[r]
      BY <2>5 DEF Well
    <3> QED BY <3>1, <2>2, <2>5, FS_AddElement
  <2> QED BY <2>1, <2>2, <2>3, <2>4, <2>5
<1> DEFINE Left(k) ==
      /\ f[k] \in Threads /\ table[f[k]] # None /\ root[f[k]] = root[t]
      /\ table[f[k]].redirect # None => Cardinality(up[f[k]]) <= N - 1 - k
<1>3. Left(0)
  BY <1>1, <1>2 DEF Path
<1>4. ASSUME NEW k \in 0..(N - 1), Left(k) PROVE Left(k + 1)
  <2>1. f[k + 1] = Hop(table, f[k])
    BY <1>1, <1>2 DEF Path
  <2>2. CASE table[f[k]].redirect = None
    <3>1. f[k + 1] = f[k]
      BY <2>1, <2>2 DEF Hop
    <3> QED BY <3>1, <2>2, <1>4
  <2>3. CASE table[f[k]].redirect # None
    <3> DEFINE r == f[k + 1]
    <3>1. r = table[f[k]].redirect
      BY <2>1, <2>3 DEF Hop
    <3>2. r \in Threads
      BY <3>1, <2>3, <1>4 DEF Table, ThreadRow
    <3>3. table[r] # None /\ root[f[k]] = root[r] /\ up[f[k]] = up[r] \cup {r}
      BY <3>1, <2>3, <1>4 DEF Well
    <3>4. Cardinality(up[f[k]]) = Cardinality(up[r]) + 1
      BY <3>2, <3>3, <1>2, <1>4
    <3>5. Cardinality(up[r]) \in Nat /\ Cardinality(up[f[k]]) <= N - 1 - k
      BY <3>2, <2>3, <1>2, <1>4
    <3>6. Cardinality(up[r]) <= N - 1 - (k + 1)
      BY <3>4, <3>5, <1>2
    <3> QED BY <3>2, <3>3, <3>6, <1>4
  <2> QED BY <2>2, <2>3
<1>5. Left(N)
  <2> DEFINE T == {k \in 0..N : ~ Left(k)}
  <2> HIDE DEF Left
  <2>1. CASE T # {}
    <3>0. \E m \in T : \A k \in T : m <= k
      <4>1. T \subseteq Nat
        BY <1>2
      <4> HIDE DEF T
      <4> QED BY <2>1, <4>1, Least
    <3>1. PICK m \in T : \A k \in T : m <= k
      BY <3>0
    <3>2. m # 0
      BY <1>3
    <3>3. m - 1 \in 0..(N - 1) /\ Left(m - 1)
      BY <3>1, <3>2, <1>2
    <3>4. Left(m - 1 + 1) /\ m - 1 + 1 = m
      BY <3>3, <1>4
    <3> QED BY <3>4
  <2>2. CASE T = {}
    BY <2>2, <1>2
  <2> QED BY <2>1, <2>2
<1>6. table[f[N]].redirect = None
  <2>1. Cardinality(up[f[N]]) \in Nat
    BY <1>2, <1>5
  <2> QED BY <2>1, <1>2, <1>5
<1> QED BY <1>1, <1>5, <1>6 DEF Well, Root
LEMMA ForestRoots ==
  ASSUME NEW table \in Table, Forest(table), NEW t \in Threads, table[t] # None
  PROVE  Root(table, Canonical(table, t))
BY CanonicalIsRoot DEF Forest

LEMMA RootIsCanonical ==
  ASSUME NEW table \in Table, Forest(table), NEW t, Root(table, t)
  PROVE  Canonical(table, t) = t
<1>1. PICK root \in [Threads -> Threads], up \in [Threads -> SUBSET Threads] : Well(table, root, up)
  BY DEF Forest
<1>2. root[t] = t
  BY <1>1 DEF Well, Root
<1> QED BY <1>1, <1>2, CanonicalIsRoot DEF Root

(* Rows that keep their redirects keep their roots, whatever is added.      *)
LEMMA SameRedirects ==
  ASSUME NEW table \in Table, NEW after \in Table, Forest(table),
         \A t \in Threads : table[t] # None =>
             after[t] # None /\ after[t].redirect = table[t].redirect,
         \A t \in Threads : table[t] = None /\ after[t] # None => after[t].redirect = None
  PROVE  /\ Forest(after)
         /\ \A t \in Threads : table[t] # None => Canonical(after, t) = Canonical(table, t)
<1>1. PICK root \in [Threads -> Threads], up \in [Threads -> SUBSET Threads] : Well(table, root, up)
  BY DEF Forest
<1> DEFINE root2 == [t \in Threads |-> IF table[t] = None THEN t ELSE root[t]]
           up2 == [t \in Threads |-> IF table[t] = None THEN {} ELSE up[t]]
<1>2. root2 \in [Threads -> Threads] /\ up2 \in [Threads -> SUBSET Threads]
  BY <1>1
<1>3. Well(after, root2, up2)
  <2> SUFFICES ASSUME NEW t \in Threads, after[t] # None
               PROVE  /\ t \notin up2[t]
                      /\ after[t].redirect = None => root2[t] = t /\ up2[t] = {}
                      /\ after[t].redirect # None =>
                          /\ after[after[t].redirect] # None
                          /\ root2[t] = root2[after[t].redirect]
                          /\ up2[t] = up2[after[t].redirect] \cup {after[t].redirect}
    BY DEF Well
  <2>1. CASE table[t] = None
    BY <2>1
  <2>2. CASE table[t] # None
    <3>1. after[t].redirect = table[t].redirect
      BY <2>2
    <3>2. table[t].redirect \in Threads \cup {None}
      BY <2>2 DEF Table, ThreadRow
    <3> QED BY <3>1, <3>2, <2>2, <1>1 DEF Well
  <2> QED BY <2>1, <2>2
<1>4. ASSUME NEW t \in Threads, table[t] # None PROVE Canonical(after, t) = Canonical(table, t)
  <2>1. Canonical(table, t) = root[t]
    BY <1>1, <1>4, CanonicalIsRoot
  <2>2. after[t] # None /\ root2[t] = root[t]
    BY <1>4
  <2> HIDE DEF root2, up2
  <2>3. Canonical(after, t) = root2[t]
    BY <1>2, <1>3, <2>2, CanonicalIsRoot
  <2> QED BY <2>1, <2>2, <2>3
<1>5. Forest(after)
  <2> HIDE DEF root2, up2
  <2> QED BY <1>2, <1>3 DEF Forest
<1> QED BY <1>4, <1>5

(* A join of two roots moves what ended at one of them to the other.        *)
LEMMA LinkedForest ==
  ASSUME NEW table \in Table, Forest(table),
         NEW review, Root(table, review), NEW native, Root(table, native), review # native
  PROVE  LET after == LinkThreads(table, review, native)
         IN  /\ after \in Table
             /\ Forest(after)
             /\ \A t \in Threads : after[t] = None <=> table[t] = None
             /\ \A t \in Threads : table[t] # None => 
                    /\ t # native => after[t].redirect = table[t].redirect
                    /\ t # review => after[t].locked = table[t].locked
             /\ after[native].redirect = review
             /\ after[review].locked = (table[review].locked \/ table[native].locked)
             /\ \A t \in Threads : table[t] # None =>
                    Canonical(after, t) = IF Canonical(table, t) = native THEN review
                                          ELSE Canonical(table, t)
<1> DEFINE after == LinkThreads(table, review, native)
<1>1. /\ after = [t \in Threads |->
             IF t = native THEN [table[t] EXCEPT !.redirect = review]
             ELSE IF t = review THEN [table[t] EXCEPT !.locked = @ \/ table[native].locked]
             ELSE table[t]]
      /\ review \in Threads /\ native \in Threads
      /\ table[review] \in ThreadRow /\ table[native] \in ThreadRow
      /\ table[review].redirect = None /\ table[native].redirect = None
  BY DEF LinkThreads, Table, Root
<1>2. /\ after \in Table
      /\ \A t \in Threads : after[t] = None <=> table[t] = None
      /\ \A t \in Threads : table[t] # None => 
             /\ t # native => after[t].redirect = table[t].redirect
             /\ t # review => after[t].locked = table[t].locked
      /\ after[native].redirect = review
      /\ after[review].locked = (table[review].locked \/ table[native].locked)
  <2> HIDE DEF after
  <2>1. after[native] \in ThreadRow /\ after[review] \in ThreadRow
    BY <1>1 DEF ThreadRow
  <2> QED BY <1>1, <2>1, DiscussionsAssumption DEF DiscussionsAssumption, Table, ThreadRow
<1>3. PICK root \in [Threads -> Threads], up \in [Threads -> SUBSET Threads] : Well(table, root, up)
  BY DEF Forest
<1> DEFINE root2 == [t \in Threads |-> IF root[t] = native THEN review ELSE root[t]]
           up2 == [t \in Threads |-> IF root[t] = native THEN up[t] \cup {review} ELSE up[t]]
<1>4. root2 \in [Threads -> Threads] /\ up2 \in [Threads -> SUBSET Threads]
  BY <1>1, <1>3
<1>5. None \notin Threads /\ review # None /\ native # None
  BY <1>1, DiscussionsAssumption DEF DiscussionsAssumption
<1>6. Well(after, root2, up2)
  <2> HIDE DEF after
  <2>1. root[native] = native /\ up[native] = {} /\ root[review] = review /\ up[review] = {}
    BY <1>1, <1>3 DEF Well, Root
  <2> SUFFICES ASSUME NEW t \in Threads, after[t] # None
               PROVE  /\ t \notin up2[t]
                      /\ after[t].redirect = None => root2[t] = t /\ up2[t] = {}
                      /\ after[t].redirect # None =>
                          /\ after[after[t].redirect] # None
                          /\ root2[t] = root2[after[t].redirect]
                          /\ up2[t] = up2[after[t].redirect] \cup {after[t].redirect}
    BY DEF Well
  <2>2. table[t] # None
    BY <1>2
  <2>3. t \notin up2[t]
    BY <2>1, <2>2, <1>3 DEF Well
  <2>4. CASE t = native
    <3>1. after[t].redirect = review /\ root2[t] = review /\ up2[t] = {review}
      BY <1>1, <1>2, <2>1, <2>4
    <3>2. root2[review] = review /\ up2[review] = {} /\ after[review] # None
      BY <1>1, <1>2, <2>1 DEF Root
    <3> QED BY <3>1, <3>2, <2>3, <1>5
  <2>5. CASE t # native
    <3>1. after[t].redirect = table[t].redirect
      BY <1>2, <2>2, <2>5
    <3>2. CASE table[t].redirect = None
      <4>1. root[t] = t /\ up[t] = {}
        BY <2>2, <3>2, <1>3 DEF Well
      <4> QED BY <4>1, <2>5, <2>3, <3>1, <3>2
    <3>3. CASE table[t].redirect # None
      <4> DEFINE r == table[t].redirect
      <4>1. r \in Threads /\ table[r] # None /\ root[t] = root[r] /\ up[t] = up[r] \cup {r}
        BY <2>2, <3>3, <1>3 DEF Well, Table, ThreadRow
      <4>2. after[r] # None
        BY <1>2, <4>1
      <4> HIDE DEF r
      <4>3. root2[t] = root2[r] /\ up2[t] = up2[r] \cup {r}
        BY <4>1
      <4>4. r = table[t].redirect
        BY DEF r
      <4> QED BY <4>2, <4>3, <4>4, <3>1, <3>3, <2>3
    <3> QED BY <3>2, <3>3
  <2> QED BY <2>4, <2>5
<1>7. ASSUME NEW t \in Threads, table[t] # None
      PROVE  Canonical(after, t) = IF Canonical(table, t) = native THEN review
                                   ELSE Canonical(table, t)
  <2>1. Canonical(table, t) = root[t]
    BY <1>3, <1>7, CanonicalIsRoot
  <2>2. root2[t] = IF root[t] = native THEN review ELSE root[t]
    OBVIOUS
  <2> HIDE DEF root2, up2, after
  <2>3. Canonical(after, t) = root2[t]
    BY <1>2, <1>4, <1>6, <1>7, CanonicalIsRoot
  <2> QED BY <2>1, <2>2, <2>3
<1>8. Forest(after)
  <2> HIDE DEF root2, up2, after
  <2> QED BY <1>4, <1>6 DEF Forest
<1> HIDE DEF after
<1>9. after = LinkThreads(table, review, native)
  BY DEF after
<1> QED BY <1>2, <1>7, <1>8, <1>9

-----------------------------------------------------------------------------
(* Posts are in threads that lead no further, and answer posts of the same. *)
Together ==
    \A p \in PostIds :
        /\ Root(threads, posts[p].thread)
        /\ posts[p].reply # 0 =>
            /\ posts[p].reply \in PostIds
            /\ posts[posts[p].reply].thread = posts[p].thread

(* What pages show and send are threads of the table, whose redirects stay. *)
Shown ==
    /\ \A w \in Wallets : view[w] # None =>
        /\ view[w].at \in Indexed
        /\ \A s \in view[w].aliases : s \in Indexed /\ threads[s].redirect = view[w].at
    /\ \A c \in calls :
        /\ c.request \in RequestIds
        /\ c.thread \in Indexed
        /\ view[c.wallet] # None
    /\ \A k \in checks :
        /\ k.request \in RequestIds
        /\ view[k.wallet] # None
        /\ k.answer = "found" => Saved(k.request)
    /\ \A w \in Wallets, k \in Threads : pending[w][k] \in 0..Len(requests)

SInv == TypeOK /\ Forest(threads) /\ Together /\ Shown

-----------------------------------------------------------------------------
LEMMA SeqOf ==
  ASSUME NEW S, NEW n \in Nat, NEW f \in [1..n -> S]
  PROVE  f \in Seq(S) /\ Len(f) = n
<1>1. f \in Seq(S)
  BY SeqDef
<1>2. 1..Len(f) = 1..n /\ Len(f) \in Nat
  BY <1>1, LenProperties
<1>3. Len(f) = n
  <2>1. CASE n = 0
    BY <1>2, <2>1
  <2>2. CASE n # 0
    <3>1. n \in 1..Len(f) /\ n + 1 \notin 1..Len(f)
      BY <1>2, <2>2
    <3> QED BY <3>1, <1>2
  <2> QED BY <2>1, <2>2
<1> QED BY <1>1, <1>3

LEMMA Appended ==
  ASSUME NEW S, NEW s \in Seq(S), NEW e \in S
  PROVE  /\ Append(s, e) \in Seq(S)
         /\ Len(Append(s, e)) = Len(s) + 1 /\ Len(s) \in Nat
         /\ Append(s, e)[Len(s) + 1] = e
         /\ \A i \in 1..Len(s) : Append(s, e)[i] = s[i]
OBVIOUS

(* The threads table keeps its rows and the redirects they have.            *)
Grown ==
    /\ threads' \in Table
    /\ Forest(threads')
    /\ \A t \in Indexed :
        /\ threads'[t] # None
        /\ threads[t].redirect # None => threads'[t].redirect = threads[t].redirect

(* Posts keep what they say and follow the thread they are in.              *)
Followed ==
    /\ posts' \in Seq(Post)
    /\ Len(posts') \in {Len(posts), Len(posts) + 1}
    /\ \A p \in PostIds :
        /\ posts'[p].request = posts[p].request
        /\ posts'[p].reply = posts[p].reply
        /\ posts'[p].thread = Canonical(threads', posts[p].thread)

(* A new post is in a root, and what it answers is there too.               *)
Joined(post) ==
    /\ Root(threads', post.thread)
    /\ post.reply # 0 => post.reply \in PostIds /\ posts'[post.reply].thread = post.thread

(* Steps that leave the threads and what posts say alone.                   *)
LEMMA Unmoved ==
  ASSUME TypeOK, Forest(threads), Together, UNCHANGED threads, posts' \in Seq(Post),
         Len(posts') = Len(posts),
         \A p \in PostIds : /\ posts'[p].request = posts[p].request
                            /\ posts'[p].reply = posts[p].reply
                            /\ posts'[p].thread = posts[p].thread
  PROVE  Grown /\ Followed
<1>1. threads \in Table
  BY DEF TypeOK, Table
<1>2. Grown
  BY <1>1 DEF Grown, Indexed
<1>3. ASSUME NEW p \in PostIds PROVE posts'[p].thread = Canonical(threads', posts[p].thread)
  <2>1. Root(threads, posts[p].thread)
    BY DEF Together
  <2>2. Canonical(threads, posts[p].thread) = posts[p].thread
    BY <1>1, <2>1, RootIsCanonical
  <2>3. threads' = threads
    OBVIOUS
  <2> QED BY <2>2, <2>3
<1>4. Followed
  BY <1>3 DEF Followed
<1> QED BY <1>2, <1>4

LEMMA Admitted ==
  ASSUME TypeOK, Forest(threads), Together, Shown, NEW c \in calls, AddPost(c), posts' # posts
  PROVE  /\ Verdict(c) = "admitted" /\ UNCHANGED threads
         /\ posts' = Append(posts,
                [thread |-> Thread(c.thread), wallet |-> c.wallet, request |-> c.request,
                 reply |-> requests[c.request].reply, age |-> 0, hidden |-> FALSE,
                 origin |-> None, sourceHidden |-> FALSE])
         /\ posts' \in Seq(Post) /\ Len(posts') = Len(posts) + 1
         /\ \A p \in PostIds : posts'[p] = posts[p]
         /\ posts'[Len(posts) + 1].request = c.request
         /\ posts'[Len(posts) + 1].thread = Thread(c.thread)
         /\ ~Saved(c.request) /\ ~threads[Thread(c.thread)].locked
         /\ Joined(posts'[Len(posts) + 1])
<1>1. /\ Verdict(c) = "admitted" /\ UNCHANGED threads
      /\ posts' = Append(posts,
             [thread |-> Thread(c.thread), wallet |-> c.wallet, request |-> c.request,
              reply |-> requests[c.request].reply, age |-> 0, hidden |-> FALSE,
              origin |-> None, sourceHidden |-> FALSE])
  BY DEF AddPost
<1>2. /\ ~Saved(c.request) /\ ~threads[Thread(c.thread)].locked
      /\ Answerable(requests[c.request].reply, Thread(c.thread))
  BY <1>1 DEF Verdict
<1>3. Root(threads, Thread(c.thread))
  <2>1. threads \in Table /\ c.thread \in Threads /\ threads[c.thread] # None
    BY DEF TypeOK, Table, Shown, Indexed
  <2> QED BY <2>1, ForestRoots DEF Thread
<1>4. /\ c \in Call /\ requests[c.request] \in Request /\ posts \in Seq(Post)
  BY ElementOfSeq DEF TypeOK, Shown, RequestIds
<1> DEFINE post == [thread |-> Thread(c.thread), wallet |-> c.wallet, request |-> c.request,
                    reply |-> requests[c.request].reply, age |-> 0, hidden |-> FALSE,
                    origin |-> None, sourceHidden |-> FALSE]
<1>5. post \in Post
  <2>1. Thread(c.thread) \in Threads
    BY <1>3 DEF Root
  <2>2. c.wallet \in Wallets /\ c.request \in 0..MaxRequests
    BY <1>4, DiscussionsAssumption DEF Call, DiscussionsAssumption
  <2>3. requests[c.request].reply \in Nat
    BY <1>4 DEF Request
  <2>4. 0 \in 0..Hour
    BY DiscussionsAssumption DEF DiscussionsAssumption
  <2> QED BY <2>1, <2>2, <2>3, <2>4 DEF Post
<1>6. posts' = Append(posts, post)
  BY <1>1
<1>7. /\ post.request = c.request /\ post.thread = Thread(c.thread)
      /\ post.reply = requests[c.request].reply
  OBVIOUS
<1> HIDE DEF post
<1>8. /\ posts' \in Seq(Post) /\ Len(posts') = Len(posts) + 1
      /\ \A p \in PostIds : posts'[p] = posts[p]
      /\ posts'[Len(posts) + 1] = post
  BY <1>4, <1>5, <1>6, Appended DEF PostIds
<1>9. Joined(post)
  BY <1>1, <1>2, <1>3, <1>7, <1>8 DEF Joined, Answerable, Root
<1> QED BY <1>1, <1>2, <1>7, <1>8, <1>9

(* What a synchronization indexes and imports, before it joins anything.    *)
LEMMA Imported ==
  ASSUME TypeOK, Forest(threads), Together,
         NEW new \in SUBSET (Threads \ Indexed), NEW comment \in Reviews \cup {None}, NEW tombstones,
         comment # None => WithThreads(new)[comment] # None
  PROVE  LET table == WithThreads(new)
             entries == WithComments(table, comment, tombstones)
         IN  /\ table \in Table /\ Forest(table)
             /\ \A t \in Indexed : table[t] = threads[t] /\ Canonical(table, t) = Thread(t)
             /\ entries \in Seq(Post)
             /\ Len(entries) \in {Len(posts), Len(posts) + 1}
             /\ \A p \in PostIds : /\ entries[p].request = posts[p].request
                                   /\ entries[p].reply = posts[p].reply
                                   /\ entries[p].thread = posts[p].thread
             /\ \A p \in (1..Len(entries)) \ PostIds :
                    /\ p = Len(posts) + 1
                    /\ entries[p].request = 0 /\ entries[p].reply = 0
                    /\ Root(table, entries[p].thread)
<1> DEFINE table == WithThreads(new)
           entries == WithComments(table, comment, tombstones)
           seen == [p \in PostIds |-> [posts[p] EXCEPT !.sourceHidden = posts[p].origin \in tombstones]]
           post == [thread |-> Canonical(table, comment), wallet |-> None, request |-> 0,
                    reply |-> 0, age |-> Hour, hidden |-> FALSE,
                    origin |-> comment, sourceHidden |-> comment \in tombstones]
<1>1. threads \in Table /\ posts \in Seq(Post) /\ Len(posts) \in Nat
  BY DEF TypeOK, Table
<1>2. [locked |-> FALSE, redirect |-> None] \in ThreadRow
  BY DEF ThreadRow
<1>3. table \in Table
  BY <1>1, <1>2 DEF WithThreads, Table
<1>4. \A t \in Indexed : table[t] = threads[t]
  BY DEF WithThreads, Indexed
<1>5. Forest(table) /\ \A t \in Indexed : Canonical(table, t) = Thread(t)
  <2>1. \A t \in Threads : threads[t] # None => table[t] # None /\ table[t].redirect = threads[t].redirect
    BY <1>4 DEF Indexed
  <2>2. \A t \in Threads : threads[t] = None /\ table[t] # None => table[t].redirect = None
    BY DEF WithThreads
  <2> HIDE DEF table
  <2>3. Forest(table) /\ \A t \in Threads : threads[t] # None => Canonical(table, t) = Canonical(threads, t)
    BY <1>1, <1>3, <2>1, <2>2, SameRedirects
  <2> QED BY <2>3 DEF Thread, Indexed
<1>6. /\ seen \in Seq(Post) /\ Len(seen) = Len(posts)
      /\ \A p \in PostIds : /\ seen[p].request = posts[p].request
                            /\ seen[p].reply = posts[p].reply
                            /\ seen[p].thread = posts[p].thread
  <2>1. ASSUME NEW p \in PostIds PROVE /\ seen[p] \in Post
                                       /\ seen[p].request = posts[p].request
                                       /\ seen[p].reply = posts[p].reply
                                       /\ seen[p].thread = posts[p].thread
    <3>1. posts[p] \in Post
      BY <1>1, ElementOfSeq DEF PostIds
    <3>2. (posts[p].origin \in tombstones) \in BOOLEAN
      OBVIOUS
    <3> QED BY <3>1, <3>2 DEF Post
  <2>2. seen \in [1..Len(posts) -> Post]
    BY <2>1 DEF PostIds
  <2> HIDE DEF seen
  <2> QED BY <1>1, <2>1, <2>2, SeqOf
<1>7. CASE comment = None
  <2>1. entries = seen
    BY <1>7 DEF WithComments
  <2> HIDE DEF seen, entries, table
  <2>2. \A p \in (1..Len(entries)) \ PostIds : FALSE
    BY <1>6, <2>1 DEF PostIds
  <2> QED BY <1>3, <1>4, <1>5, <1>6, <2>1, <2>2 DEF table, entries
<1>8. CASE comment # None
  <2>1. entries = Append(seen, post)
    BY <1>8 DEF WithComments
  <2>2. Root(table, Canonical(table, comment))
    <3>1. comment \in Threads /\ table[comment] # None
      BY <1>8 DEF Threads
    <3> HIDE DEF table
    <3> QED BY <3>1, <1>3, <1>5, ForestRoots
  <2>3. post \in Post
    <3>1. Canonical(table, comment) \in Threads
      BY <2>2 DEF Root
    <3>2. 0 \in 0..MaxRequests /\ Hour \in 0..Hour
      BY DiscussionsAssumption DEF DiscussionsAssumption
    <3>3. (comment \in tombstones) \in BOOLEAN
      OBVIOUS
    <3> HIDE DEF table
    <3> QED BY <3>1, <3>2, <3>3 DEF Post
  <2>4. post.request = 0 /\ post.reply = 0 /\ post.thread = Canonical(table, comment)
    OBVIOUS
  <2> HIDE DEF seen, entries, table, post
  <2>5. /\ entries \in Seq(Post) /\ Len(entries) = Len(posts) + 1
        /\ entries[Len(posts) + 1] = post
        /\ \A p \in PostIds : entries[p] = seen[p]
    BY <1>6, <2>1, <2>3, Appended DEF PostIds
  <2>6. \A p \in (1..Len(entries)) \ PostIds : p = Len(posts) + 1
    BY <1>1, <2>5 DEF PostIds
  <2> QED BY <1>3, <1>4, <1>5, <1>6, <2>2, <2>4, <2>5, <2>6 DEF table, entries
<1> QED BY <1>7, <1>8

LEMMA Synced ==
  ASSUME TypeOK, Forest(threads), Together,
         NEW new \in SUBSET (Threads \ Indexed), NEW comment \in Reviews \cup {None}, NEW tombstones,
         NEW pair \in {<<>>} \cup (Reviews \X Natives), Sync(new, comment, tombstones, pair)
  PROVE  /\ Grown /\ Followed
         /\ \A p \in PostIds' \ PostIds : Joined(posts'[p]) /\ posts'[p].request = 0
         /\ \A t \in Indexed : Locked(t) => Locked(t)'
         /\ \A t \in Threads : WithThreads(new)[t] # None => threads'[t] # None
<1> DEFINE table == WithThreads(new)
           entries == WithComments(table, comment, tombstones)
<1>1. threads \in Table /\ posts \in Seq(Post) /\ Len(posts) \in Nat
  BY DEF TypeOK, Table
<1>2. comment # None => table[comment] # None
  BY DEF Sync
<1>3. /\ table \in Table /\ Forest(table)
      /\ \A t \in Indexed : table[t] = threads[t] /\ Canonical(table, t) = Thread(t)
      /\ entries \in Seq(Post)
      /\ Len(entries) \in {Len(posts), Len(posts) + 1}
      /\ \A p \in PostIds : /\ entries[p].request = posts[p].request
                            /\ entries[p].reply = posts[p].reply
                            /\ entries[p].thread = posts[p].thread
      /\ \A p \in (1..Len(entries)) \ PostIds :
             /\ p = Len(posts) + 1
             /\ entries[p].request = 0 /\ entries[p].reply = 0
             /\ Root(table, entries[p].thread)
  <2> HIDE DEF table
  <2>1. table = WithThreads(new)
    BY DEF table
  <2> QED BY <1>2, <2>1, Imported
<1>4. \A p \in PostIds : posts[p].thread \in Indexed /\ Root(table, posts[p].thread)
  BY <1>3 DEF Together, Root, Indexed
<1>5. CASE threads' = table /\ posts' = entries
  <2> HIDE DEF table, entries
  <2>1. Grown
    BY <1>3, <1>5 DEF Grown, Indexed
  <2>2. Followed
    <3>1. \A p \in PostIds : posts'[p].thread = Canonical(threads', posts[p].thread)
      BY <1>3, <1>4, <1>5, RootIsCanonical
    <3> QED BY <3>1, <1>3, <1>5 DEF Followed
  <2>3. ASSUME NEW p \in PostIds' \ PostIds PROVE Joined(posts'[p]) /\ posts'[p].request = 0
    BY <2>3, <1>3, <1>5 DEF PostIds, Joined
  <2>4. ASSUME NEW t \in Indexed, Locked(t) PROVE Locked(t)'
    <3>1. Thread(t) \in Indexed
      BY <1>1, ForestRoots DEF Thread, Root, Indexed
    <3> QED BY <2>4, <3>1, <1>3, <1>5 DEF Locked, Thread
  <2>5. \A t \in Threads : table[t] # None => threads'[t] # None
    BY <1>5
  <2> QED BY <2>1, <2>2, <2>3, <2>4, <2>5 DEF table
<1>6. ASSUME NEW review, NEW native, review # native,
             Root(table, review), Root(table, native),
             threads' = LinkThreads(table, review, native), posts' = LinkPosts(entries, review, native)
      PROVE  /\ Grown /\ Followed
             /\ \A p \in PostIds' \ PostIds : Joined(posts'[p]) /\ posts'[p].request = 0
             /\ \A t \in Indexed : Locked(t) => Locked(t)'
             /\ \A t \in Threads : table[t] # None => threads'[t] # None
  <2> HIDE DEF table, entries
  <2>1. /\ threads' \in Table /\ Forest(threads')
        /\ \A t \in Threads : threads'[t] = None <=> table[t] = None
        /\ \A t \in Threads : table[t] # None =>
               /\ t # native => threads'[t].redirect = table[t].redirect
               /\ t # review => threads'[t].locked = table[t].locked
        /\ threads'[native].redirect = review
        /\ threads'[review].locked = (table[review].locked \/ table[native].locked)
        /\ \A t \in Threads : table[t] # None =>
               Canonical(threads', t) = IF Canonical(table, t) = native THEN review
                                        ELSE Canonical(table, t)
    BY <1>3, <1>6, LinkedForest
  <2>2. Grown
    <3>1. \A t \in Indexed : threads[t].redirect # None => t # native
      BY <1>3, <1>6 DEF Root
    <3> QED BY <2>1, <3>1, <1>3 DEF Grown, Indexed
  <2>3. /\ posts' \in Seq(Post) /\ Len(posts') = Len(entries)
        /\ \A p \in 1..Len(entries) :
               /\ posts'[p].request = entries[p].request
               /\ posts'[p].reply = entries[p].reply
               /\ posts'[p].thread = IF entries[p].thread = native THEN review ELSE entries[p].thread
    <3>1. DOMAIN entries = 1..Len(entries) /\ Len(entries) \in Nat
      BY <1>3, LenProperties
    <3>2. ASSUME NEW p \in 1..Len(entries)
          PROVE  /\ posts'[p] \in Post
                 /\ posts'[p].request = entries[p].request
                 /\ posts'[p].reply = entries[p].reply
                 /\ posts'[p].thread = IF entries[p].thread = native THEN review ELSE entries[p].thread
      <4>1. entries[p] \in Post
        BY <1>3, ElementOfSeq
      <4>2. posts'[p] = IF entries[p].thread = native THEN [entries[p] EXCEPT !.thread = review]
                        ELSE entries[p]
        BY <1>6, <3>1 DEF LinkPosts
      <4>3. review \in Threads
        BY <1>6 DEF Root
      <4> QED BY <4>1, <4>2, <4>3 DEF Post
    <3>3. posts' \in [1..Len(entries) -> Post]
      BY <1>6, <3>1, <3>2 DEF LinkPosts
    <3> QED BY <3>1, <3>2, <3>3, SeqOf
  <2>4. \A p \in PostIds : p \in 1..Len(entries)
    BY <1>1, <1>3 DEF PostIds
  <2>5. Followed
    <3>1. ASSUME NEW p \in PostIds PROVE posts'[p].thread = Canonical(threads', posts[p].thread)
      <4>1. Canonical(table, posts[p].thread) = posts[p].thread
        BY <1>3, <1>4, RootIsCanonical
      <4>2. posts[p].thread \in Threads /\ table[posts[p].thread] # None
        BY <1>4 DEF Root
      <4>3. entries[p].thread = posts[p].thread
        BY <1>3
      <4> QED BY <2>1, <2>3, <2>4, <4>1, <4>2, <4>3
    <3> QED BY <3>1, <1>3, <2>3, <2>4 DEF Followed
  <2>6. ASSUME NEW p \in PostIds' \ PostIds PROVE Joined(posts'[p]) /\ posts'[p].request = 0
    <3>1. p \in (1..Len(entries)) \ PostIds
      BY <2>6, <2>3 DEF PostIds
    <3>2. posts'[p].request = 0 /\ posts'[p].reply = 0
      BY <3>1, <1>3, <2>3
    <3>3. posts'[p].thread = IF entries[p].thread = native THEN review ELSE entries[p].thread
      BY <3>1, <2>3
    <3>4. Root(table, entries[p].thread)
      BY <3>1, <1>3
    <3>5. Root(threads', posts'[p].thread)
      BY <3>3, <3>4, <2>1, <1>6 DEF Root
    <3> QED BY <3>2, <3>5 DEF Joined
  <2>7. ASSUME NEW t \in Indexed, Locked(t) PROVE Locked(t)'
    <3>1. t \in Threads /\ table[t] # None /\ Thread(t) \in Indexed
      BY <1>1, <1>3, ForestRoots DEF Thread, Root, Indexed
    <3>2. table[Thread(t)].locked
      BY <2>7, <3>1, <1>3 DEF Locked
    <3>3. Thread(t)' = IF Thread(t) = native THEN review ELSE Thread(t)
      BY <2>1, <3>1, <1>3 DEF Thread
    <3>4. threads'[Thread(t)'].locked
      <4>1. CASE Thread(t) \in {native, review}
        <5>1. threads'[review].locked = (table[review].locked \/ table[native].locked)
          BY <2>1
        <5> QED BY <4>1, <5>1, <3>2, <3>3
      <4>2. CASE Thread(t) \notin {native, review}
        <5>1. Thread(t) \in Threads /\ table[Thread(t)] # None /\ Thread(t)' = Thread(t)
          BY <4>2, <3>1, <3>3, <1>3 DEF Indexed
        <5>2. threads'[Thread(t)].locked = table[Thread(t)].locked
          BY <4>2, <5>1, <2>1
        <5> QED BY <5>1, <5>2, <3>2
      <4> QED BY <4>1, <4>2
    <3> QED BY <3>4 DEF Locked
  <2> QED BY <2>1, <2>2, <2>5, <2>6, <2>7
<1>7. CASE pair # <<>>
  <2> DEFINE review == Canonical(table, pair[1])
             native == Canonical(table, pair[2])
  <2>1. /\ pair[1] \in Threads /\ table[pair[1]] # None
        /\ pair[2] \in Threads /\ table[pair[2]] # None
        /\ threads' = LinkThreads(table, review, native)
        /\ posts' = LinkPosts(entries, review, native)
    BY <1>7 DEF Sync, Threads
  <2> HIDE DEF table, entries
  <2>2. Root(table, review) /\ Root(table, native)
    BY <1>3, <2>1, ForestRoots
  <2> HIDE DEF review, native
  <2>3. CASE review # native
    BY <2>1, <2>2, <2>3, <1>6 DEF table
  <2>4. CASE review = native
    <3>1. threads' = table
      BY <2>1, <2>4 DEF LinkThreads
    <3>2. posts' = entries
      <4>1. DOMAIN entries = 1..Len(entries) /\ entries = [p \in 1..Len(entries) |-> entries[p]]
        BY <1>3, LenProperties
      <4>2. \A p \in 1..Len(entries) : entries[p].thread = native =>
                [entries[p] EXCEPT !.thread = review] = entries[p]
        <5>1. \A p \in 1..Len(entries) : entries[p] \in Post
          BY <1>3, ElementOfSeq
        <5> QED BY <5>1, <2>4 DEF Post
      <4>3. posts' = [p \in 1..Len(entries) |->
                IF entries[p].thread = native THEN [entries[p] EXCEPT !.thread = review] ELSE entries[p]]
        BY <2>1, <4>1 DEF LinkPosts
      <4> QED BY <4>1, <4>2, <4>3
    <3> QED BY <3>1, <3>2, <1>5
  <2> QED BY <2>3, <2>4
<1>8. CASE pair = <<>>
  <2>1. threads' = table /\ posts' = entries
    BY <1>8 DEF Sync
  <2> QED BY <2>1, <1>5
<1> QED BY <1>7, <1>8

(* Only the service's steps write to its tables. *)
LEMMA PagesWriteNothing ==
  ASSUME [Next]_vars, ~ServiceStep
  PROVE  UNCHANGED <<threads, posts>>
<1> USE DEF service, store
<1>1. CASE ServiceRestart
  BY <1>1 DEF ServiceRestart, Restart
<1>2. ASSUME NEW c \in calls, Receive(c) \/ GiveUp(c) PROVE UNCHANGED <<threads, posts>>
  BY <1>2 DEF Receive, ReceiveAccepted, ReceiveRefused, ReceiveFailed, ReceiveUnauthorized, GiveUp
<1>3. ASSUME NEW k \in checks, AnswerCheck(k) \/ ReceiveCheck(k) PROVE UNCHANGED <<threads, posts>>
  BY <1>3
  DEF AnswerCheck, ReceiveCheck, CheckRejected, CheckReceived, CheckMissing, CheckFails, SignOff
<1>4. ASSUME NEW w \in Wallets, Connect(w) \/ SignOff(w) \/ Send(w) \/ SendSaved(w) \/ StartCheck(w)
      PROVE  UNCHANGED <<threads, posts>>
  BY <1>4 DEF Connect, SignOff, Send, SendSaved, StartCheck
<1>5. ASSUME NEW w \in Wallets, NEW t \in Threads, Open(w, t) PROVE UNCHANGED <<threads, posts>>
  BY <1>5 DEF Open
<1>6. ASSUME NEW w \in Wallets, NEW reply \in {0} \cup PostIds, Write(w, reply)
      PROVE  UNCHANGED <<threads, posts>>
  BY <1>6 DEF Write
<1>7. CASE UNCHANGED vars
  BY <1>7 DEF vars
<1> QED BY <1>1, <1>2, <1>3, <1>4, <1>5, <1>6, <1>7 DEF Next

(* What a step may do to the threads and the posts. *)
LEMMA StoreStep ==
  ASSUME SInv, [Next]_vars
  PROVE  /\ Grown /\ Followed
         /\ \A p \in PostIds' \ PostIds :
                /\ p = Len(posts) + 1
                /\ Joined(posts'[p])
                /\ posts'[p].request = 0 \/ \E c \in calls : AddPost(c) /\ posts' # posts
<1> DEFINE Goal == /\ Grown /\ Followed
                   /\ \A p \in PostIds' \ PostIds :
                          /\ Joined(posts'[p])
                          /\ posts'[p].request = 0 \/ \E c \in calls : AddPost(c) /\ posts' # posts
<1>1. TypeOK /\ Forest(threads) /\ Together /\ Shown
  BY DEF SInv
<1>2. posts \in Seq(Post) /\ Len(posts) \in Nat
  BY <1>1 DEF TypeOK
<1> SUFFICES Goal
  <2>1. Goal => \A p \in PostIds' \ PostIds : p = Len(posts) + 1
    BY <1>2 DEF PostIds, Followed
  <2> QED BY <2>1
<1>3. CASE UNCHANGED <<threads, posts>>
  BY <1>1, <1>2, <1>3, Unmoved DEF PostIds
<1>4. ASSUME NEW c \in calls, Admit(c) \/ AddPost(c) PROVE Goal
  <2>1. UNCHANGED threads
    BY <1>4 DEF Admit, AddPost, service, store
  <2>2. CASE posts' = posts
    BY <2>1, <2>2, <1>3
  <2>3. CASE posts' # posts
    <3>1. AddPost(c)
      BY <1>4, <2>3 DEF Admit, service, store
    <3>2. /\ posts' \in Seq(Post) /\ Len(posts') = Len(posts) + 1
          /\ \A p \in PostIds : posts'[p] = posts[p]
          /\ Joined(posts'[Len(posts) + 1])
      BY <1>1, <2>3, <3>1, Admitted
    <3>3. Grown
      BY <1>1, <2>1 DEF Grown, TypeOK, Table, Indexed
    <3>4. ASSUME NEW p \in PostIds PROVE posts'[p].thread = Canonical(threads', posts[p].thread)
      <4>1. threads \in Table /\ Root(threads, posts[p].thread)
        BY <1>1 DEF TypeOK, Table, Together
      <4>2. Canonical(threads, posts[p].thread) = posts[p].thread
        BY <1>1, <4>1, RootIsCanonical
      <4> QED BY <4>2, <3>2, <2>1
    <3>5. Followed
      BY <3>2, <3>4 DEF Followed
    <3>6. \A p \in PostIds' \ PostIds : p = Len(posts) + 1
      BY <3>2, <1>2 DEF PostIds
    <3> QED BY <2>3, <3>1, <3>2, <3>3, <3>5, <3>6
  <2> QED BY <2>2, <2>3
<1>5. ASSUME NEW w \in sessions, Expire(w) PROVE Goal
  BY <1>5, <1>3 DEF Expire, store
<1>6. ASSUME NEW p \in PostIds, NEW hidden \in BOOLEAN, SetHidden(p, hidden) PROVE Goal
  <2>1. UNCHANGED threads /\ posts' = [posts EXCEPT ![p].hidden = hidden]
    BY <1>6 DEF SetHidden
  <2>2. posts[p] \in Post
    BY <1>2, ElementOfSeq DEF PostIds
  <2> DEFINE post == [posts[p] EXCEPT !.hidden = hidden]
  <2>3. /\ post \in Post /\ post.request = posts[p].request /\ post.reply = posts[p].reply
        /\ post.thread = posts[p].thread
    BY <2>2 DEF Post
  <2>4. posts' = [posts EXCEPT ![p] = post]
    BY <2>1
  <2> HIDE DEF post
  <2>5. /\ posts' \in Seq(Post) /\ Len(posts') = Len(posts)
        /\ \A q \in PostIds : posts'[q] = IF q = p THEN post ELSE posts[q]
    BY <1>2, <2>3, <2>4, ExceptSeq DEF PostIds
  <2> QED BY <1>1, <2>1, <2>3, <2>5, Unmoved DEF PostIds
<1>7. ASSUME NEW t \in Indexed, NEW locked \in BOOLEAN, SetLocked(t, locked) PROVE Goal
  <2>1. UNCHANGED posts /\ threads' = [threads EXCEPT ![Thread(t)].locked = locked]
    BY <1>7 DEF SetLocked
  <2>2. threads \in Table /\ Root(threads, Thread(t))
    BY <1>1, ForestRoots DEF TypeOK, Table, Thread, Indexed
  <2>3. /\ threads' \in Table
        /\ \A s \in Threads : /\ threads'[s] = None <=> threads[s] = None
                              /\ threads[s] # None => threads'[s].redirect = threads[s].redirect
    <3>1. threads[Thread(t)] \in ThreadRow
      BY <2>2 DEF Table, Root
    <3> DEFINE row == [threads[Thread(t)] EXCEPT !.locked = locked]
    <3>2. row \in ThreadRow /\ row.redirect = threads[Thread(t)].redirect
      BY <3>1 DEF ThreadRow
    <3>3. threads' = [threads EXCEPT ![Thread(t)] = row]
      BY <2>1
    <3>4. row # None
      BY <3>2, DiscussionsAssumption DEF DiscussionsAssumption
    <3> HIDE DEF row
    <3> QED BY <2>2, <3>2, <3>3, <3>4 DEF Table, Root
  <2>4. /\ Forest(threads')
        /\ \A s \in Threads : threads[s] # None => Canonical(threads', s) = Canonical(threads, s)
    BY <1>1, <2>2, <2>3, SameRedirects
  <2>5. Grown
    BY <2>3, <2>4 DEF Grown, Indexed
  <2>6. ASSUME NEW p \in PostIds PROVE posts'[p].thread = Canonical(threads', posts[p].thread)
    <3>1. Root(threads, posts[p].thread)
      BY <1>1 DEF Together
    <3>2. Canonical(threads, posts[p].thread) = posts[p].thread
      BY <1>1, <2>2, <3>1, RootIsCanonical
    <3> QED BY <3>1, <3>2, <2>1, <2>4 DEF Root
  <2> QED BY <2>1, <2>5, <2>6, <1>2 DEF Followed, PostIds
<1>8. ASSUME NEW w \in Wallets, NEW block \in BOOLEAN, SetBlocked(w, block) PROVE Goal
  BY <1>8, <1>3 DEF SetBlocked
<1>9. CASE SyncAny
  <2>1. PICK new \in SUBSET (Threads \ Indexed), comment \in Reviews \cup {None},
             pair \in {<<>>} \cup (Reviews \X Natives) :
             \E tombstones : Sync(new, comment, tombstones, pair)
    BY <1>9, Zenon DEF SyncAny
  <2>2. PICK tombstones : Sync(new, comment, tombstones, pair)
    BY <2>1
  <2> QED BY <2>2, <1>1, Synced
<1>10. CASE Tick
  <2>1. UNCHANGED threads
    BY <1>10 DEF Tick
  <2>2. ASSUME NEW p \in PostIds
        PROVE  /\ posts'[p] \in Post /\ posts'[p].request = posts[p].request
               /\ posts'[p].reply = posts[p].reply /\ posts'[p].thread = posts[p].thread
    <3>1. posts[p] \in Post
      BY <1>2, ElementOfSeq DEF PostIds
    <3> DEFINE age == IF posts[p].age < Hour THEN posts[p].age + 1 ELSE posts[p].age
    <3>2. posts'[p] = [posts[p] EXCEPT !.age = age]
      BY <1>10 DEF Tick
    <3>3. age \in 0..Hour
      BY <3>1, DiscussionsAssumption DEF Post, DiscussionsAssumption
    <3> HIDE DEF age
    <3> QED BY <3>1, <3>2, <3>3 DEF Post
  <2>3. posts' \in [1..Len(posts) -> Post]
    BY <1>10, <2>2 DEF Tick, PostIds
  <2>4. posts' \in Seq(Post) /\ Len(posts') = Len(posts)
    BY <2>3, <1>2, SeqOf
  <2> QED BY <1>1, <2>1, <2>2, <2>4, Unmoved DEF PostIds
<1>11. CASE ServiceStep
  BY <1>11, <1>4, <1>5, <1>6, <1>7, <1>8, <1>9, <1>10 DEF ServiceStep, Moderate
<1>12. CASE ~ServiceStep
  BY <1>12, <1>3, PagesWriteNothing
<1> QED BY <1>11, <1>12

-----------------------------------------------------------------------------
(* A call goes on: what it was made with stays, and an acceptance too. *)
GoesOn(d, c) ==
    /\ d.wallet = c.wallet /\ d.request = c.request /\ d.thread = c.thread
    /\ d.key = c.key /\ d.keys = c.keys /\ d.saved = c.saved
    /\ d.open => c.open
    /\ c.stage = "accepted" => d.stage = "accepted"

(* Every call after a step is what became of one of before. *)
Continued ==
    \E after \in [calls -> Call] :
        /\ \A c \in calls : GoesOn(after[c], c)
        /\ calls' \subseteq {after[c] : c \in calls}

Posted(w, i, saved) ==
    \E n \in 1..MaxCopies :
        calls' = calls \cup {[wallet |-> w, request |-> i, copy |-> n, thread |-> view[w].at,
                    key |-> PendingKey(w), keys |-> Keys(w), saved |-> saved,
                    current |-> TRUE, open |-> TRUE, stage |-> "sent"]}

Stages == {"sent", "identity", "accepted", "refused", "failed", "unauthorized"}

LEMMA CallChange ==
  ASSUME NEW c \in Call
  PROVE  /\ \A stage \in Stages : [c EXCEPT !.stage = stage] \in Call
         /\ \A stage \in Stages : c.stage # "accepted" => GoesOn([c EXCEPT !.stage = stage], c)
         /\ [c EXCEPT !.current = FALSE] \in Call /\ GoesOn([c EXCEPT !.current = FALSE], c)
         /\ [c EXCEPT !.open = FALSE] \in Call /\ GoesOn([c EXCEPT !.open = FALSE], c)
         /\ GoesOn(c, c)
BY DEF Call, GoesOn, Stages

LEMMA Fewer ==
  ASSUME calls \subseteq Call, calls' \subseteq calls
  PROVE  Continued
<1> DEFINE after == [c \in calls |-> c]
<1>1. after \in [calls -> Call] /\ \A c \in calls : GoesOn(after[c], c)
  BY DEF GoesOn
<1>2. calls' \subseteq {after[c] : c \in calls}
  OBVIOUS
<1> HIDE DEF after
<1> QED BY <1>1, <1>2 DEF Continued

LEMMA OneChanges ==
  ASSUME calls \subseteq Call, NEW c \in calls, NEW d \in Call, GoesOn(d, c),
         calls' \subseteq (calls \ {c}) \cup {d}
  PROVE  Continued
<1> DEFINE after == [e \in calls |-> IF e = c THEN d ELSE e]
<1>1. after \in [calls -> Call] /\ \A e \in calls : GoesOn(after[e], e)
  BY DEF GoesOn
<1>2. calls' \subseteq {after[e] : e \in calls}
  <2>1. ASSUME NEW e \in calls' PROVE \E f \in calls : e = after[f]
    BY <2>1
  <2> QED BY <2>1
<1> HIDE DEF after
<1> QED BY <1>1, <1>2 DEF Continued

LEMMA Settling ==
  ASSUME calls \subseteq Call, NEW c \in calls, NEW stage \in Stages, Settle(c, stage),
         c.stage # "accepted"
  PROVE  Continued
<1>1. calls' \subseteq (calls \ {c}) \cup {[c EXCEPT !.stage = stage]}
  BY DEF Settle
<1>2. [c EXCEPT !.stage = stage] \in Call /\ GoesOn([c EXCEPT !.stage = stage], c)
  BY CallChange
<1> HIDE DEF Settle
<1> QED BY <1>1, <1>2, OneChanges

LEMMA Outdating ==
  ASSUME calls \subseteq Call, NEW w, calls' \subseteq Outdated(w)
  PROVE  Continued
<1> DEFINE after == [c \in calls |-> IF c.wallet = w THEN [c EXCEPT !.current = FALSE] ELSE c]
<1>1. after \in [calls -> Call] /\ \A c \in calls : GoesOn(after[c], c)
  BY CallChange
<1>2. calls' \subseteq {after[c] : c \in calls}
  BY DEF Outdated
<1> HIDE DEF after
<1> QED BY <1>1, <1>2 DEF Continued

LEMMA Forgetting ==
  ASSUME calls \subseteq Call, NEW gone, calls' \subseteq Forgotten(gone)
  PROVE  Continued
<1> DEFINE lost == {c \in calls : c.wallet \in gone /\ c.stage = "sent"}
           after == [c \in calls |-> IF c \in lost THEN [c EXCEPT !.stage = "unauthorized"] ELSE c]
<1>1. after \in [calls -> Call] /\ \A c \in calls : GoesOn(after[c], c)
  BY CallChange DEF Stages
<1>2. calls' \subseteq {after[c] : c \in calls}
  <2>1. ASSUME NEW e \in calls' PROVE \E f \in calls : e = after[f]
    <3>1. e \in calls \ lost \/ \E f \in lost : e = [f EXCEPT !.stage = "unauthorized"]
      BY DEF Forgotten
    <3> QED BY <3>1
  <2> QED BY <2>1
<1> HIDE DEF after
<1> QED BY <1>1, <1>2 DEF Continued

LEMMA Verdicts ==
  ASSUME NEW c, Verdict(c) # "admitted"
  PROVE  Verdict(c) \in {"accepted", "refused", "failed"}
<1> DEFINE t == Thread(c.thread)
<1>1. CASE Saved(c.request)
  BY <1>1 DEF Verdict
<1>2. CASE ~Saved(c.request) /\ (threads[t].locked \/ c.wallet \in blocked \/ Resting(c.wallet))
  BY <1>2 DEF Verdict
<1>3. CASE ~Saved(c.request) /\ ~(threads[t].locked \/ c.wallet \in blocked \/ Resting(c.wallet))
  BY <1>3 DEF Verdict
<1> QED BY <1>1, <1>2, <1>3

(* What a step may do to the requests and their calls. *)
LEMMA CallStep ==
  ASSUME SInv, [Next]_vars
  PROVE  \/ Continued /\ UNCHANGED requests
         \/ \E w \in Wallets : SendSaved(w) /\ Posted(w, Pending(w), TRUE)
         \/ \E w \in Wallets : Send(w) /\ Posted(w, Len(requests) + 1, FALSE)
<1>1. calls \subseteq Call
  BY DEF SInv, TypeOK
<1> USE DEF service, store, page
<1>2. ASSUME NEW c \in calls, Admit(c) PROVE Continued /\ UNCHANGED requests
  <2>1. c.stage = "sent" /\ UNCHANGED requests
    BY <1>2 DEF Admit
  <2>2. PICK stage \in Stages : Settle(c, stage)
    BY <1>2, Verdicts DEF Admit, Stages
  <2> QED BY <1>1, <2>1, <2>2, Settling
<1>3. ASSUME NEW c \in calls, AddPost(c) PROVE Continued /\ UNCHANGED requests
  <2>1. c.stage = "identity" /\ UNCHANGED requests
    BY <1>3 DEF AddPost
  <2>2. PICK stage \in Stages : Settle(c, stage)
    BY <1>3, Verdicts DEF AddPost, Stages
  <2> QED BY <1>1, <2>1, <2>2, Settling
<1>4. ASSUME NEW w \in sessions, Expire(w) PROVE Continued /\ UNCHANGED requests
  BY <1>1, <1>4, Forgetting DEF Expire
<1>5. CASE Moderate \/ SyncAny \/ Tick
  <2>1. UNCHANGED <<calls, requests>>
    BY <1>5 DEF Moderate, SetHidden, SetLocked, SetBlocked, SyncAny, Sync, Tick
  <2> QED BY <1>1, <2>1, Fewer
<1>6. CASE ServiceRestart
  <2>1. calls' \subseteq Forgotten(Wallets) /\ UNCHANGED requests
    BY <1>6 DEF ServiceRestart, Restart
  <2> QED BY <1>1, <2>1, Forgetting
<1>7. ASSUME NEW c \in calls, ReceiveAccepted(c) \/ ReceiveRefused(c) \/ ReceiveFailed(c)
      PROVE  Continued /\ UNCHANGED requests
  <2>1. calls' \subseteq calls /\ UNCHANGED requests
    BY <1>7 DEF ReceiveAccepted, ReceiveRefused, ReceiveFailed
  <2> QED BY <1>1, <2>1, Fewer
<1>8. ASSUME NEW c \in calls, ReceiveUnauthorized(c) PROVE Continued /\ UNCHANGED requests
  <2>1. (calls' \subseteq calls \/ calls' \subseteq Outdated(c.wallet)) /\ UNCHANGED requests
    BY <1>8 DEF ReceiveUnauthorized
  <2> QED BY <1>1, <2>1, Fewer, Outdating
<1>9. ASSUME NEW c \in calls, GiveUp(c) PROVE Continued /\ UNCHANGED requests
  <2>1. calls' \subseteq (calls \ {c}) \cup {[c EXCEPT !.open = FALSE]} /\ UNCHANGED requests
    BY <1>9 DEF GiveUp
  <2>2. [c EXCEPT !.open = FALSE] \in Call /\ GoesOn([c EXCEPT !.open = FALSE], c)
    BY <1>1, CallChange
  <2> QED BY <1>1, <2>1, <2>2, OneChanges
<1>10. ASSUME NEW w, Connect(w) \/ SignOff(w) PROVE Continued /\ UNCHANGED requests
  <2>1. calls' \subseteq Outdated(w) /\ UNCHANGED requests
    BY <1>10 DEF Connect, SignOff
  <2> QED BY <1>1, <2>1, Outdating
<1>11. ASSUME NEW k \in checks, AnswerCheck(k) \/ ReceiveCheck(k)
       PROVE  Continued /\ UNCHANGED requests
  <2>1. CASE CheckRejected(k)
    BY <2>1, <1>10 DEF CheckRejected
  <2>2. CASE AnswerCheck(k) \/ CheckReceived(k) \/ CheckMissing(k) \/ CheckFails(k)
    BY <1>1, <2>2, Fewer DEF AnswerCheck, CheckReceived, CheckMissing, CheckFails
  <2> QED BY <1>11, <2>1, <2>2 DEF ReceiveCheck
<1>12. ASSUME NEW w \in Wallets, StartCheck(w) \/ \E t \in Threads : Open(w, t)
       PROVE  Continued /\ UNCHANGED requests
  BY <1>1, <1>12, Fewer DEF StartCheck, Open
<1>13. ASSUME NEW w \in Wallets, NEW reply \in {0} \cup PostIds, Write(w, reply)
       PROVE  Continued /\ UNCHANGED requests
  BY <1>1, <1>13, Fewer DEF Write
<1>14. ASSUME NEW w \in Wallets, SendSaved(w) PROVE Posted(w, Pending(w), TRUE)
  BY <1>14 DEF SendSaved, PostCall, Posted
<1>15. ASSUME NEW w \in Wallets, Send(w) PROVE Posted(w, Len(requests) + 1, FALSE)
  BY <1>15 DEF Send, PostCall, Posted
<1>16. CASE UNCHANGED vars
  BY <1>1, <1>16, Fewer DEF vars
<1>17. CASE ServiceStep
  BY <1>17, <1>2, <1>3, <1>4, <1>5 DEF ServiceStep
<1> QED
  BY <1>6, <1>7, <1>8, <1>9, <1>10, <1>11, <1>12, <1>13, <1>14, <1>15, <1>16, <1>17
  DEF Next, Receive

-----------------------------------------------------------------------------
LEMMA SeenIsView ==
  ASSUME TypeOK, Forest(threads), NEW t \in Indexed
  PROVE  /\ Seen(t) \in View
         /\ Root(threads, Seen(t).at) /\ Seen(t).at = Thread(t)
         /\ Seen(t).aliases = {s \in Indexed : threads[s].redirect = Thread(t)}
<1>1. threads \in Table /\ Root(threads, Thread(t))
  BY ForestRoots DEF TypeOK, Table, Thread, Indexed
<1>2. Thread(t) \in Threads /\ Locked(t) \in BOOLEAN
  BY <1>1 DEF Root, Locked, Table, ThreadRow
<1>3. Aliases(Thread(t)) = {s \in Indexed : threads[s].redirect = Thread(t)}
  BY DEF Aliases
<1>4. Aliases(Thread(t)) \in SUBSET Threads
  BY <1>3 DEF Indexed
<1> QED BY <1>1, <1>2, <1>3, <1>4 DEF Seen, View

(* The keys a page looks under, and what it finds there. *)
LEMMA KeysHeld ==
  ASSUME TypeOK, NEW w \in Wallets, view[w] # None
  PROVE  /\ view[w] \in View /\ view[w].at \in Keys(w) /\ Keys(w) \subseteq Threads
         /\ DraftKey(w) \in Keys(w) /\ PendingKey(w) \in Keys(w)
         /\ Pending(w) = 0 => PendingKey(w) = view[w].at /\ \A k \in Keys(w) : pending[w][k] = 0
<1>1. view[w] \in View
  BY DEF TypeOK
<1>2. view[w].at \in Keys(w) /\ Keys(w) \subseteq Threads
  BY <1>1 DEF Keys, View
<1>3. ASSUME NEW held PROVE KeyOf(w, held) \in Keys(w)
  BY <1>2 DEF KeyOf
<1>4. ASSUME Pending(w) = 0
      PROVE  PendingKey(w) = view[w].at /\ \A k \in Keys(w) : pending[w][k] = 0
  <2> DEFINE held == {k \in Threads : pending[w][k] # 0}
  <2>1. PendingKey(w) = IF view[w].at \in held \/ Keys(w) \cap held = {} THEN view[w].at
                        ELSE CHOOSE k \in Keys(w) \cap held : TRUE
    BY DEF PendingKey, KeyOf
  <2>2. PendingKey(w) \notin held
    BY <1>4 DEF Pending
  <2>3. Keys(w) \cap held = {}
    BY <2>1, <2>2, <1>2
  <2> QED BY <2>1, <2>3, <1>2
<1> QED BY <1>1, <1>2, <1>3, <1>4 DEF DraftKey, PendingKey

(* A view changes by being loaded, while the threads stand still. *)
Looked ==
    /\ view' \in [Wallets -> View \cup {None}]
    /\ \A w \in Wallets :
        \/ view'[w] = view[w]
        \/ UNCHANGED threads /\ \E t \in Indexed : view'[w] = Seen(t)

LEMMA ViewStep ==
  ASSUME SInv, [Next]_vars
  PROVE  Looked
<1>1. TypeOK /\ Forest(threads) /\ Together /\ Shown /\ view \in [Wallets -> View \cup {None}]
  BY DEF SInv, TypeOK
<1> USE DEF service, store, page
<1>2. CASE UNCHANGED view
  BY <1>1, <1>2 DEF Looked
<1>3. ASSUME NEW w \in Wallets, NEW t \in Indexed, view' = [view EXCEPT ![w] = Seen(t)], UNCHANGED threads
      PROVE  Looked
  BY <1>1, <1>3, SeenIsView DEF Looked
<1>4. ASSUME NEW w \in Wallets, NEW t \in Threads, Open(w, t) PROVE Looked
  BY <1>3, <1>4 DEF Open
<1>5. ASSUME NEW k \in checks, AnswerCheck(k) \/ ReceiveCheck(k) PROVE Looked
  <2>1. CASE CheckReceived(k)
    <3>1. Saved(k.request) /\ k.wallet \in Wallets
      BY <1>1, <2>1 DEF CheckReceived, Shown, TypeOK, StatusCheck
    <3>2. PICK p \in PostIds : SavedIn(k.request) = posts[p].thread
      BY <3>1 DEF Saved, SavedIn
    <3>3. SavedIn(k.request) \in Indexed
      BY <1>1, <3>2 DEF Together, Root, Indexed
    <3> QED BY <2>1, <3>1, <3>3, <1>3 DEF CheckReceived
  <2>2. CASE AnswerCheck(k) \/ CheckRejected(k) \/ CheckMissing(k) \/ CheckFails(k)
    BY <2>2, <1>2 DEF AnswerCheck, CheckRejected, SignOff, CheckMissing, CheckFails
  <2> QED BY <1>5, <2>1, <2>2 DEF ReceiveCheck
<1>6. ASSUME NEW c \in calls, Receive(c) PROVE Looked
  <2>1. CASE ReceiveAccepted(c)
    <3> DEFINE w == c.wallet
    <3>1. w \in Wallets /\ view[w] # None /\ view[w].at \in Indexed
      BY <1>1 DEF TypeOK, Call, Shown
    <3>2. UNCHANGED view \/ view' = [view EXCEPT ![w] = Seen(view[w].at)]
      <4>1. view' = [view EXCEPT ![w] = IF c.current /\ @.at = c.thread THEN Seen(@.at) ELSE @]
        BY <2>1 DEF ReceiveAccepted
      <4> QED BY <4>1, <1>1
    <3>3. UNCHANGED threads
      BY <2>1 DEF ReceiveAccepted
    <3> QED BY <3>1, <3>2, <3>3, <1>2, <1>3
  <2>2. CASE ReceiveRefused(c) \/ ReceiveFailed(c) \/ ReceiveUnauthorized(c)
    BY <2>2, <1>2 DEF ReceiveRefused, ReceiveFailed, ReceiveUnauthorized
  <2> QED BY <1>6, <2>1, <2>2 DEF Receive
<1>7. ASSUME NEW w \in Wallets, Connect(w) \/ SignOff(w) \/ Send(w) \/ SendSaved(w) \/ StartCheck(w)
      PROVE  Looked
  BY <1>2, <1>7 DEF Connect, SignOff, Send, SendSaved, StartCheck
<1>8. ASSUME NEW w \in Wallets, NEW reply \in {0} \cup PostIds, Write(w, reply) PROVE Looked
  BY <1>2, <1>8 DEF Write
<1>9. ASSUME NEW c \in calls, GiveUp(c) PROVE Looked
  BY <1>2, <1>9 DEF GiveUp
<1>10. CASE ServiceStep \/ ServiceRestart \/ UNCHANGED vars
  BY <1>2, <1>10 DEF ServiceStep, ServiceRestart, vars
<1> QED BY <1>4, <1>5, <1>6, <1>7, <1>8, <1>9, <1>10 DEF Next

(* Drafts and receipts are only taken away, except by Write and Send. *)
DraftsGo ==
    /\ drafts' \in [Wallets -> [Threads -> Draft \cup {None}]]
    /\ \A w \in Wallets, k \in Threads : drafts'[w][k] \in {drafts[w][k], None}
    /\ UNCHANGED written

ReceiptsGo ==
    /\ pending' \in [Wallets -> [Threads -> 0..MaxRequests]]
    /\ \A w \in Wallets, k \in Threads : pending'[w][k] \in {pending[w][k], 0}

LEMMA DraftStep ==
  ASSUME SInv, [Next]_vars
  PROVE  DraftsGo \/ \E w \in Wallets, reply \in {0} \cup PostIds : Write(w, reply)
<1>1. TypeOK /\ drafts \in [Wallets -> [Threads -> Draft \cup {None}]]
  BY DEF SInv, TypeOK
<1> USE DEF service, store, page
<1>2. ASSUME UNCHANGED <<drafts, written>> PROVE DraftsGo
  BY <1>1, <1>2 DEF DraftsGo
<1>3. ASSUME NEW w \in Wallets, NEW i, NEW keys, drafts' = WithoutText(w, i, keys), UNCHANGED written
      PROVE  DraftsGo
  BY <1>1, <1>3 DEF WithoutText, DraftsGo
<1>4. ASSUME NEW k \in checks, AnswerCheck(k) \/ ReceiveCheck(k) PROVE DraftsGo
  <2>1. CASE CheckReceived(k)
    <3>1. k.wallet \in Wallets
      BY <1>1 DEF TypeOK, StatusCheck
    <3> QED BY <2>1, <3>1, <1>3 DEF CheckReceived
  <2>2. CASE AnswerCheck(k) \/ CheckRejected(k) \/ CheckMissing(k) \/ CheckFails(k)
    BY <2>2, <1>2 DEF AnswerCheck, CheckRejected, SignOff, CheckMissing, CheckFails
  <2> QED BY <1>4, <2>1, <2>2 DEF ReceiveCheck
<1>5. ASSUME NEW c \in calls, Receive(c) PROVE DraftsGo
  <2>1. CASE ReceiveAccepted(c)
    <3>1. c.wallet \in Wallets
      BY <1>1 DEF TypeOK, Call
    <3> QED BY <2>1, <3>1, <1>3 DEF ReceiveAccepted
  <2>2. CASE ReceiveRefused(c) \/ ReceiveFailed(c) \/ ReceiveUnauthorized(c)
    BY <2>2, <1>2 DEF ReceiveRefused, ReceiveFailed, ReceiveUnauthorized
  <2> QED BY <1>5, <2>1, <2>2 DEF Receive
<1>6. ASSUME NEW w \in Wallets, Connect(w) \/ SignOff(w) \/ Send(w) \/ SendSaved(w) \/ StartCheck(w)
      PROVE  DraftsGo
  BY <1>2, <1>6 DEF Connect, SignOff, Send, SendSaved, StartCheck
<1>7. ASSUME NEW w \in Wallets, NEW t \in Threads, Open(w, t) PROVE DraftsGo
  BY <1>2, <1>7 DEF Open
<1>8. ASSUME NEW c \in calls, GiveUp(c) PROVE DraftsGo
  BY <1>2, <1>8 DEF GiveUp
<1>9. CASE ServiceStep \/ ServiceRestart \/ UNCHANGED vars
  BY <1>2, <1>9 DEF ServiceStep, ServiceRestart, vars
<1> QED BY <1>4, <1>5, <1>6, <1>7, <1>8, <1>9 DEF Next

LEMMA ReceiptStep ==
  ASSUME SInv, [Next]_vars
  PROVE  ReceiptsGo \/ \E w \in Wallets : Send(w)
<1>1. TypeOK /\ pending \in [Wallets -> [Threads -> 0..MaxRequests]] /\ 0 \in 0..MaxRequests
  BY DiscussionsAssumption DEF SInv, TypeOK, DiscussionsAssumption
<1> USE DEF service, store, page
<1>2. ASSUME UNCHANGED pending PROVE ReceiptsGo
  BY <1>1, <1>2 DEF ReceiptsGo
<1>3. ASSUME NEW w \in Wallets, NEW k, pending' = [pending EXCEPT ![w][k] = 0]
      PROVE  ReceiptsGo
  BY <1>1, <1>3 DEF ReceiptsGo
<1>4. ASSUME NEW k \in checks, AnswerCheck(k) \/ ReceiveCheck(k) PROVE ReceiptsGo
  <2>1. CASE CheckReceived(k)
    <3>1. k.wallet \in Wallets
      BY <1>1 DEF TypeOK, StatusCheck
    <3> QED BY <2>1, <3>1, <1>3 DEF CheckReceived
  <2>2. CASE AnswerCheck(k) \/ CheckRejected(k) \/ CheckMissing(k) \/ CheckFails(k)
    BY <2>2, <1>2 DEF AnswerCheck, CheckRejected, SignOff, CheckMissing, CheckFails
  <2> QED BY <1>4, <2>1, <2>2 DEF ReceiveCheck
<1>5. ASSUME NEW c \in calls, Receive(c) PROVE ReceiptsGo
  <2>1. c.wallet \in Wallets
    BY <1>1 DEF TypeOK, Call
  <2>2. pending' = pending \/ pending' = Removed(c)
    BY <1>5 DEF Receive, ReceiveAccepted, ReceiveRefused, ReceiveFailed, ReceiveUnauthorized
  <2> QED BY <2>1, <2>2, <1>2, <1>3 DEF Removed
<1>6. ASSUME NEW w \in Wallets, Connect(w) \/ SignOff(w) \/ SendSaved(w) \/ StartCheck(w)
      PROVE  ReceiptsGo
  BY <1>2, <1>6 DEF Connect, SignOff, SendSaved, StartCheck
<1>7. ASSUME NEW w \in Wallets, NEW t \in Threads, Open(w, t) PROVE ReceiptsGo
  BY <1>2, <1>7 DEF Open
<1>8. ASSUME NEW c \in calls, GiveUp(c) PROVE ReceiptsGo
  BY <1>2, <1>8 DEF GiveUp
<1>9. ASSUME NEW w \in Wallets, NEW reply \in {0} \cup PostIds, Write(w, reply) PROVE ReceiptsGo
  BY <1>2, <1>9 DEF Write
<1>10. CASE ServiceStep \/ ServiceRestart \/ UNCHANGED vars
  BY <1>2, <1>10 DEF ServiceStep, ServiceRestart, vars
<1> QED BY <1>4, <1>5, <1>6, <1>7, <1>8, <1>9, <1>10 DEF Next

(* Requests are only added, by Send. *)
LEMMA RequestStep ==
  ASSUME SInv, [Next]_vars
  PROVE  /\ requests' \in Seq(Request) /\ Len(requests) \in Nat
         /\ \A i \in RequestIds : i \in RequestIds' /\ requests'[i] = requests[i]
         /\ \/ UNCHANGED requests
            \/ \E w \in Wallets : /\ Send(w) /\ Len(requests) < MaxRequests
                                  /\ Len(requests') = Len(requests) + 1
                                  /\ drafts[w][DraftKey(w)] \in Draft
                                  /\ requests'[Len(requests) + 1] =
                                        [wallet |-> w, text |-> drafts[w][DraftKey(w)].text,
                                         reply |-> drafts[w][DraftKey(w)].reply]
<1>1. requests \in Seq(Request) /\ Len(requests) \in Nat
  BY DEF SInv, TypeOK
<1>2. CASE UNCHANGED requests
  BY <1>1, <1>2 DEF RequestIds
<1>3. ASSUME NEW w \in Wallets, Send(w)
      PROVE  /\ Len(requests) < MaxRequests
             /\ drafts[w][DraftKey(w)] \in Draft
             /\ requests' \in Seq(Request) /\ Len(requests') = Len(requests) + 1
             /\ \A i \in RequestIds : requests'[i] = requests[i]
             /\ requests'[Len(requests) + 1] =
                   [wallet |-> w, text |-> drafts[w][DraftKey(w)].text,
                    reply |-> drafts[w][DraftKey(w)].reply]
  <2> DEFINE draft == drafts[w][DraftKey(w)]
             request == [wallet |-> w, text |-> draft.text, reply |-> draft.reply]
  <2>1. Len(requests) < MaxRequests /\ requests' = Append(requests, request)
    BY <1>3 DEF Send
  <2>2. draft \in Draft
    <3>1. DraftKey(w) \in Threads /\ draft # None
      BY <1>3, KeysHeld DEF Send, SInv
    <3> QED BY <3>1 DEF SInv, TypeOK
  <2>3. request \in Request
    BY <2>2 DEF Draft, Request
  <2> HIDE DEF request
  <2>4. /\ requests' \in Seq(Request) /\ Len(requests') = Len(requests) + 1
        /\ \A i \in RequestIds : requests'[i] = requests[i]
        /\ requests'[Len(requests) + 1] = request
    BY <1>1, <2>1, <2>3, Appended DEF RequestIds
  <2> QED BY <2>1, <2>2, <2>4 DEF request
<1>4. ASSUME NEW w \in Wallets, Send(w)
      PROVE  \A i \in RequestIds : i \in RequestIds'
  <2>1. Len(requests') = Len(requests) + 1
    BY <1>3, <1>4
  <2> QED BY <1>1, <2>1 DEF RequestIds
<1>5. UNCHANGED requests \/ \E w \in Wallets : Send(w)
  BY CallStep DEF SendSaved
<1> QED BY <1>1, <1>2, <1>3, <1>4, <1>5

(* The sets that the service keeps. *)
LEMMA ServiceSets ==
  ASSUME SInv, [Next]_vars
  PROVE  blocked' \subseteq Wallets /\ sessions' \subseteq Wallets /\ ready' \subseteq Indexed'
<1> DEFINE Goal == blocked' \subseteq Wallets /\ sessions' \subseteq Wallets /\ ready' \subseteq Indexed'
<1>1. /\ TypeOK /\ Forest(threads) /\ Together
      /\ blocked \subseteq Wallets /\ sessions \subseteq Wallets /\ ready \subseteq Indexed
  BY DEF SInv, TypeOK
<1>2. Indexed \subseteq Indexed'
  BY StoreStep DEF Grown, Indexed
<1> USE DEF service, store
<1>3. ASSUME blocked' \subseteq Wallets, sessions' \subseteq Wallets, ready' \in {ready, {}} PROVE Goal
  BY <1>1, <1>2, <1>3
<1>4. ASSUME NEW c \in calls, Admit(c) \/ AddPost(c) PROVE Goal
  BY <1>1, <1>3, <1>4 DEF Admit, AddPost
<1>5. ASSUME NEW w, Expire(w) PROVE Goal
  BY <1>1, <1>3, <1>5 DEF Expire
<1>6. CASE Moderate
  BY <1>1, <1>3, <1>6 DEF Moderate, SetHidden, SetLocked, SetBlocked
<1>7. CASE SyncAny
  <2>1. PICK new \in SUBSET (Threads \ Indexed), comment \in Reviews \cup {None},
             pair \in {<<>>} \cup (Reviews \X Natives) :
             \E tombstones : Sync(new, comment, tombstones, pair)
    BY <1>7, Zenon DEF SyncAny
  <2>2. PICK tombstones : Sync(new, comment, tombstones, pair)
    BY <2>1
  <2>3. \A t \in Threads : WithThreads(new)[t] # None => threads'[t] # None
    BY <1>1, <2>2, Synced
  <2>4. ready' \subseteq Indexed'
    BY <2>2, <2>3 DEF Sync, Indexed
  <2>5. UNCHANGED <<blocked, sessions>>
    BY <2>2 DEF Sync
  <2> QED BY <1>1, <2>4, <2>5
<1>8. CASE Tick
  BY <1>1, <1>3, <1>8 DEF Tick
<1>9. CASE ServiceRestart
  BY <1>1, <1>3, <1>9 DEF ServiceRestart, Restart
<1>10. ASSUME NEW c \in calls, Receive(c) \/ GiveUp(c) PROVE Goal
  BY <1>1, <1>3, <1>10
  DEF Receive, ReceiveAccepted, ReceiveRefused, ReceiveFailed, ReceiveUnauthorized, GiveUp
<1>11. ASSUME NEW w \in Wallets, Connect(w) \/ SignOff(w) \/ Send(w) \/ SendSaved(w) \/ StartCheck(w)
       PROVE  Goal
  BY <1>1, <1>3, <1>11 DEF Connect, SignOff, Send, SendSaved, StartCheck
<1>12. ASSUME NEW w \in Wallets, NEW t \in Threads, Open(w, t) PROVE Goal
  BY <1>1, <1>3, <1>12 DEF Open
<1>13. ASSUME NEW w \in Wallets, NEW reply, Write(w, reply) PROVE Goal
  BY <1>1, <1>3, <1>13 DEF Write
<1>14. CASE UNCHANGED vars
  BY <1>1, <1>3, <1>14 DEF vars
<1>15. CASE ServiceStep
  BY <1>15, <1>4, <1>5, <1>6, <1>7, <1>8 DEF ServiceStep
<1>16. ASSUME NEW k \in checks, AnswerCheck(k) \/ ReceiveCheck(k) PROVE Goal
  BY <1>1, <1>3, <1>16
  DEF AnswerCheck, ReceiveCheck, CheckRejected, SignOff, CheckReceived, CheckMissing, CheckFails
<1> QED BY <1>9, <1>10, <1>11, <1>12, <1>13, <1>14, <1>15, <1>16 DEF Next

(* What else the pages keep. *)
LEMMA PageSets ==
  ASSUME SInv, [Next]_vars
  PROVE  /\ signed' \subseteq Wallets /\ offered' \in [Wallets -> BOOLEAN]
         /\ written' \in 0..MaxDrafts /\ rejected' \cup overtaken' \subseteq RequestIds'
         /\ failures' \in 0..MaxFailures
<1> DEFINE Goal == /\ signed' \subseteq Wallets /\ offered' \in [Wallets -> BOOLEAN]
                   /\ written' \in 0..MaxDrafts /\ rejected' \cup overtaken' \subseteq RequestIds
                   /\ failures' \in 0..MaxFailures
<1> SUFFICES Goal
  BY RequestStep
<1>1. /\ calls \subseteq Call /\ checks \subseteq StatusCheck
      /\ signed \subseteq Wallets /\ offered \in [Wallets -> BOOLEAN]
      /\ written \in 0..MaxDrafts /\ failures \in 0..MaxFailures
      /\ rejected \cup overtaken \subseteq RequestIds
      /\ MaxDrafts \in Nat /\ MaxFailures \in Nat
  BY PageAssumption DEF SInv, TypeOK, PageAssumption
<1> USE DEF service, store, page
<1>2. ASSUME NEW w \in Wallets, NEW k \in Threads PROVE {pending[w][k]} \ {0} \subseteq RequestIds
  BY DEF SInv, Shown, TypeOK, RequestIds
<1>3. ASSUME NEW w \in Wallets, NEW k \in Threads,
             rejected' \cup overtaken' \subseteq
                 (rejected \cup overtaken) \cup ({pending[w][k]} \ {0})
      PROVE  rejected' \cup overtaken' \subseteq RequestIds
  BY <1>1, <1>2, <1>3, Zenon
<1>4. CASE ServiceStep \/ UNCHANGED vars
  BY <1>1, <1>4 DEF ServiceStep, vars
<1>5. CASE ServiceRestart
  BY <1>1, <1>5 DEF ServiceRestart
<1>6. ASSUME NEW c \in calls, Receive(c) \/ GiveUp(c) PROVE Goal
  <2>1. c.wallet \in Wallets /\ c.key \in Threads
    BY <1>1 DEF Call
  <2>2. /\ offered' = [offered EXCEPT ![c.wallet] = FALSE] /\ signed' \subseteq signed
        /\ UNCHANGED written /\ failures' \in 0..MaxFailures
    BY <1>1, <1>6 DEF Receive, ReceiveAccepted, ReceiveRefused, ReceiveFailed, ReceiveUnauthorized, GiveUp
  <2>3. rejected' \cup overtaken' \subseteq
            (rejected \cup overtaken) \cup ({pending[c.wallet][c.key]} \ {0})
    BY <1>6 DEF Receive, ReceiveAccepted, ReceiveRefused, ReceiveFailed, ReceiveUnauthorized, GiveUp
  <2>4. rejected' \cup overtaken' \subseteq RequestIds
    BY <2>1, <2>3, <1>3
  <2> QED BY <1>1, <2>1, <2>2, <2>4
<1>7. ASSUME NEW w \in Wallets, Connect(w) \/ SignOff(w) \/ Send(w) \/ SendSaved(w) PROVE Goal
  BY <1>1, <1>7 DEF Connect, SignOff, Send, SendSaved
<1>8. ASSUME NEW k \in checks, AnswerCheck(k) \/ ReceiveCheck(k) PROVE Goal
  <2>1. k.wallet \in Wallets /\ k.key \in Threads
    BY <1>1 DEF StatusCheck
  <2>2. CASE CheckRejected(k)
    BY <2>1, <2>2, <1>7 DEF CheckRejected
  <2>3. CASE CheckReceived(k)
    <3>1. /\ offered' = [offered EXCEPT ![k.wallet] = FALSE]
          /\ UNCHANGED <<signed, written, rejected, failures>>
          /\ overtaken' = overtaken \cup ({pending[k.wallet][k.key]} \ {0, k.request})
      BY <2>3 DEF CheckReceived
    <3>2. rejected' \cup overtaken' \subseteq
              (rejected \cup overtaken) \cup ({pending[k.wallet][k.key]} \ {0})
      BY <3>1
    <3>3. rejected' \cup overtaken' \subseteq RequestIds
      BY <2>1, <3>2, <1>3
    <3> QED BY <1>1, <2>1, <3>1, <3>3
  <2>4. CASE AnswerCheck(k) \/ CheckMissing(k) \/ CheckFails(k)
    BY <1>1, <2>1, <2>4 DEF AnswerCheck, CheckMissing, CheckFails
  <2> QED BY <1>8, <2>2, <2>3, <2>4 DEF ReceiveCheck
<1>9. ASSUME NEW w \in Wallets, StartCheck(w) \/ \E t \in Threads : Open(w, t) PROVE Goal
  BY <1>1, <1>9 DEF StartCheck, Open
<1>10. ASSUME NEW w \in Wallets, NEW reply, Write(w, reply) PROVE Goal
  BY <1>1, <1>10 DEF Write
<1> QED BY <1>4, <1>5, <1>6, <1>7, <1>8, <1>9, <1>10 DEF Next

-----------------------------------------------------------------------------
LEMMA InitSInv ==
  ASSUME Init
  PROVE  SInv
<1> USE DEF Init, StoreInit
<1>1. /\ threads \in Table /\ \A t \in Threads : threads[t] = None
      /\ Indexed = {}
  BY DEF Table, Indexed
<1>2. posts \in Seq(Post) /\ Len(posts) = 0 /\ requests \in Seq(Request) /\ Len(requests) = 0
  OBVIOUS
<1>3. Forest(threads)
  <2> DEFINE root == [t \in Threads |-> t]
             up == [t \in Threads |-> {}]
  <2>1. root \in [Threads -> Threads] /\ up \in [Threads -> SUBSET Threads] /\ Well(threads, root, up)
    BY <1>1 DEF Well
  <2> HIDE DEF root, up
  <2> QED BY <2>1 DEF Forest
<1>4. Together
  BY <1>2 DEF Together, PostIds
<1>5. Shown
  BY <1>1, <1>2 DEF Shown
<1>6. TypeOK
  <2>1. MaxRequests \in Nat /\ MaxDrafts \in Nat /\ MaxFailures \in Nat
    BY DiscussionsAssumption, PageAssumption DEF DiscussionsAssumption, PageAssumption
  <2> QED BY <1>1, <1>2, <2>1 DEF TypeOK, Table
<1> QED BY <1>3, <1>4, <1>5, <1>6 DEF SInv

LEMMA TogetherStep ==
  ASSUME SInv, [Next]_vars
  PROVE  Together'
<1>1. /\ Grown /\ Followed
      /\ \A p \in PostIds' \ PostIds : Joined(posts'[p])
      /\ PostIds \subseteq PostIds'
  <2>1. posts \in Seq(Post)
    BY DEF SInv, TypeOK
  <2> QED BY <2>1, StoreStep DEF PostIds, Followed
<1> SUFFICES ASSUME NEW p \in PostIds'
             PROVE  /\ Root(threads', posts'[p].thread)
                    /\ posts'[p].reply # 0 =>
                        /\ posts'[p].reply \in PostIds'
                        /\ posts'[posts'[p].reply].thread = posts'[p].thread
  BY DEF Together
<1>2. CASE p \in PostIds
  <2>1. /\ Root(threads, posts[p].thread)
        /\ posts[p].reply # 0 =>
            /\ posts[p].reply \in PostIds
            /\ posts[posts[p].reply].thread = posts[p].thread
    BY <1>2 DEF SInv, Together
  <2>2. /\ posts'[p].thread = Canonical(threads', posts[p].thread)
        /\ posts'[p].reply = posts[p].reply
        /\ posts[p].reply \in PostIds =>
               posts'[posts[p].reply].thread = Canonical(threads', posts[posts[p].reply].thread)
    BY <1>1, <1>2 DEF Followed
  <2>3. threads' \in Table /\ Forest(threads') /\ threads'[posts[p].thread] # None
    BY <1>1, <2>1 DEF Grown, Root, Indexed
  <2>4. Root(threads', Canonical(threads', posts[p].thread))
    BY <2>1, <2>3, ForestRoots DEF Root
  <2> QED BY <1>1, <2>1, <2>2, <2>4
<1>3. CASE p \notin PostIds
  BY <1>1, <1>3 DEF Joined
<1> QED BY <1>2, <1>3

(* The record that Send and SendSaved post. *)
PostOf(w, n, i, saved) ==
    [wallet |-> w, request |-> i, copy |-> n, thread |-> view[w].at,
     key |-> PendingKey(w), keys |-> Keys(w), saved |-> saved,
     current |-> TRUE, open |-> TRUE, stage |-> "sent"]

LEMMA PostedStep ==
  ASSUME SInv, [Next]_vars, NEW w \in Wallets, NEW i, NEW saved \in BOOLEAN, Posted(w, i, saved),
         (Send(w) /\ i = Len(requests) + 1) \/ (SendSaved(w) /\ i = Pending(w))
  PROVE  /\ i \in 1..MaxRequests /\ i \in RequestIds'
         /\ \E n \in 1..MaxCopies : /\ PostOf(w, n, i, saved) \in Call
                                    /\ calls' = calls \cup {PostOf(w, n, i, saved)}
<1>1. /\ view[w] # None /\ view[w] \in View
      /\ PendingKey(w) \in Threads /\ Keys(w) \subseteq Threads
  BY KeysHeld DEF Send, SendSaved, SInv
<1>2. i \in 1..MaxRequests /\ i \in RequestIds'
  <2>1. Len(requests) \in Nat /\ MaxRequests \in Nat
    BY DiscussionsAssumption DEF SInv, TypeOK, DiscussionsAssumption
  <2>2. CASE Send(w) /\ i = Len(requests) + 1
    <3>1. Len(requests) < MaxRequests /\ requests' # requests
      BY <2>2, RequestStep, <2>1 DEF Send
    <3>2. Len(requests') = Len(requests) + 1
      <4>1. requests' # requests
        BY <3>1
      <4> QED BY <4>1, RequestStep
    <3> QED BY <2>1, <2>2, <3>1, <3>2 DEF RequestIds
  <2>3. CASE SendSaved(w) /\ i = Pending(w)
    <3>1. /\ Pending(w) \in 0..MaxRequests /\ Pending(w) # 0
          /\ Pending(w) \in 0..Len(requests)
      BY <1>1, <2>3 DEF SendSaved, Pending, SInv, TypeOK, Shown
    <3>2. requests' = requests
      BY <2>3 DEF SendSaved
    <3> QED BY <2>1, <2>3, <3>1, <3>2 DEF RequestIds
  <2> QED BY <2>2, <2>3
<1>3. PICK n \in 1..MaxCopies : calls' = calls \cup {PostOf(w, n, i, saved)}
  BY DEF Posted, PostOf
<1>4. PostOf(w, n, i, saved) \in Call
  BY <1>1, <1>2 DEF PostOf, Call, View
<1> QED BY <1>2, <1>3, <1>4

(* What a page asks about, as it looks now. *)
CheckOf(w, n) ==
    [wallet |-> w, request |-> Pending(w), copy |-> n, key |-> PendingKey(w), keys |-> Keys(w),
     answer |-> "none"]

(* A check goes on, and is answered as the store says. *)
Checking(d, k) ==
    /\ d.wallet = k.wallet /\ d.request = k.request /\ d.key = k.key /\ d.keys = k.keys
    /\ d.answer = "found" => k.answer = "found" \/ Saved(k.request)

LEMMA CheckStep ==
  ASSUME SInv, [Next]_vars, NEW d \in checks'
  PROVE  /\ d \in StatusCheck
         /\ \/ \E k \in checks : Checking(d, k)
            \/ \E w \in Wallets : /\ StartCheck(w) /\ \E n \in 1..MaxCopies : d = CheckOf(w, n)
                                  /\ view[w] # None /\ Pending(w) # 0 /\ UNCHANGED <<requests, pending>>
<1> DEFINE Goal == /\ d \in StatusCheck /\ \E k \in checks : Checking(d, k)
<1>1. checks \subseteq StatusCheck
  BY DEF SInv, TypeOK
<1>2. ASSUME d \in checks PROVE Goal
  BY <1>1, <1>2 DEF Checking
<1> USE DEF service, store, page
<1>3. ASSUME NEW k \in checks, AnswerCheck(k) PROVE Goal
  <2> DEFINE answer == IF k.wallet \notin sessions THEN "unauthorized"
                       ELSE IF Saved(k.request) THEN "found" ELSE "missing"
  <2>1. d \in checks \/ d = [k EXCEPT !.answer = answer]
    BY <1>3 DEF AnswerCheck
  <2>2. /\ answer \in {"none", "found", "missing", "unauthorized"}
        /\ answer = "found" => Saved(k.request)
    OBVIOUS
  <2> HIDE DEF answer
  <2>3. CASE d = [k EXCEPT !.answer = answer]
    <3>1. k \in StatusCheck
      BY <1>1
    <3>2. /\ d \in StatusCheck /\ d.answer = answer /\ d.wallet = k.wallet
          /\ d.request = k.request /\ d.key = k.key /\ d.keys = k.keys
      BY <2>2, <2>3, <3>1 DEF StatusCheck
    <3> QED BY <2>2, <3>2 DEF Checking
  <2> QED BY <2>1, <2>3, <1>2
<1>4. ASSUME NEW k \in checks, ReceiveCheck(k) PROVE d \in checks
  BY <1>4 DEF ReceiveCheck, CheckRejected, SignOff, CheckReceived, CheckMissing, CheckFails
<1>5. ASSUME NEW c \in calls, Receive(c) \/ GiveUp(c) PROVE d \in checks
  BY <1>5 DEF Receive, ReceiveAccepted, ReceiveRefused, ReceiveFailed, ReceiveUnauthorized, GiveUp
<1>6. ASSUME NEW w \in Wallets, Connect(w) \/ SignOff(w) \/ Send(w) \/ SendSaved(w) PROVE d \in checks
  BY <1>6 DEF Connect, SignOff, Send, SendSaved
<1>7. ASSUME NEW w \in Wallets, NEW t \in Threads, Open(w, t) PROVE d \in checks
  BY <1>7 DEF Open
<1>8. ASSUME NEW w \in Wallets, NEW reply \in {0} \cup PostIds, Write(w, reply) PROVE d \in checks
  BY <1>8 DEF Write
<1>9. CASE ServiceStep \/ ServiceRestart \/ UNCHANGED vars
  BY <1>2, <1>9 DEF ServiceStep, ServiceRestart, vars
<1>10. ASSUME NEW w \in Wallets, StartCheck(w)
       PROVE  \/ Goal
              \/ /\ d \in StatusCheck /\ \E n \in 1..MaxCopies : d = CheckOf(w, n)
                 /\ view[w] # None /\ Pending(w) # 0 /\ UNCHANGED <<requests, pending>>
  <2>1. PICK n \in 1..MaxCopies : checks' = checks \cup {CheckOf(w, n)}
    BY <1>10 DEF StartCheck, CheckOf
  <2>2. /\ view[w] # None /\ Pending(w) # 0 /\ UNCHANGED <<requests, pending>>
    BY <1>10 DEF StartCheck
  <2>3. PendingKey(w) \in Threads /\ Keys(w) \subseteq Threads
    BY <2>2, KeysHeld DEF SInv
  <2>4. Pending(w) \in 1..MaxRequests
    BY <2>2, <2>3, DiscussionsAssumption DEF Pending, SInv, TypeOK, DiscussionsAssumption
  <2>5. CheckOf(w, n) \in StatusCheck
    BY <2>3, <2>4 DEF CheckOf, StatusCheck
  <2> QED BY <2>1, <2>2, <2>5, <1>2
<1> QED BY <1>2, <1>3, <1>4, <1>5, <1>6, <1>7, <1>8, <1>9, <1>10 DEF Next

LEMMA ViewsStay ==
  ASSUME SInv, [Next]_vars
  PROVE  /\ \A w \in Wallets : view[w] # None => view'[w] # None
         /\ \A w \in Wallets : view'[w] # None =>
                /\ view'[w].at \in Indexed'
                /\ \A s \in view'[w].aliases : s \in Indexed' /\ threads'[s].redirect = view'[w].at
<1>1. TypeOK /\ Forest(threads) /\ Shown /\ Looked
  BY ViewStep DEF SInv
<1>2. /\ Indexed \subseteq Indexed'
      /\ \A t \in Indexed : threads[t].redirect # None => threads'[t].redirect = threads[t].redirect
  BY StoreStep DEF Grown, Indexed
<1>3. None \notin Threads /\ None \notin View
  BY DiscussionsAssumption, PageAssumption DEF DiscussionsAssumption, PageAssumption
<1>4. ASSUME NEW w \in Wallets, view[w] # None PROVE view'[w] # None
  BY <1>1, <1>3, <1>4, SeenIsView DEF Looked
<1>5. ASSUME NEW w \in Wallets, view'[w] # None
      PROVE  /\ view'[w].at \in Indexed'
             /\ \A s \in view'[w].aliases : s \in Indexed' /\ threads'[s].redirect = view'[w].at
  <2>1. CASE view'[w] = view[w]
    <3>1. /\ view[w].at \in Indexed
          /\ \A s \in view[w].aliases : s \in Indexed /\ threads[s].redirect = view[w].at
      BY <1>1, <1>5, <2>1 DEF Shown
    <3>2. view[w].at # None
      BY <3>1, <1>3 DEF Indexed
    <3> QED BY <3>1, <3>2, <2>1, <1>2
  <2>2. CASE view'[w] # view[w]
    <3>1. PICK t \in Indexed : view'[w] = Seen(t)
      BY <1>1, <2>2 DEF Looked
    <3>2. UNCHANGED threads
      BY <1>1, <2>2 DEF Looked
    <3>3. /\ Root(threads, Seen(t).at)
          /\ Seen(t).aliases = {s \in Indexed : threads[s].redirect = Seen(t).at}
      BY <1>1, SeenIsView
    <3>4. Seen(t).at \in Indexed
      BY <3>3 DEF Root, Indexed
    <3> QED BY <3>1, <3>2, <3>3, <3>4, <1>2
  <2> QED BY <2>1, <2>2
<1> QED BY <1>4, <1>5

LEMMA SavedStays ==
  ASSUME SInv, [Next]_vars, NEW i, Saved(i)
  PROVE  Saved(i)'
<1>1. PICK p \in PostIds : posts[p].request = i
  BY DEF Saved
<1>2. p \in PostIds' /\ posts'[p].request = i
  BY <1>1, StoreStep DEF Followed, PostIds, SInv, TypeOK
<1> QED BY <1>2 DEF Saved

LEMMA ShownStep ==
  ASSUME SInv, [Next]_vars
  PROVE  Shown' /\ calls' \subseteq Call
<1>1. TypeOK /\ Shown /\ calls \subseteq Call
  BY DEF SInv, TypeOK
<1>2. /\ Indexed \subseteq Indexed' /\ RequestIds \subseteq RequestIds'
      /\ Len(requests) \in Nat /\ Len(requests') \in Nat /\ Len(requests) <= Len(requests')
  <2>1. Indexed \subseteq Indexed'
    BY StoreStep DEF Grown, Indexed
  <2>2. /\ requests' \in Seq(Request) /\ Len(requests) \in Nat
        /\ RequestIds \subseteq RequestIds'
        /\ requests' = requests \/ Len(requests') = Len(requests) + 1
    BY RequestStep
  <2> QED BY <2>1, <2>2
<1> DEFINE Good(c) == /\ c \in Call
                      /\ c.request \in RequestIds' /\ c.thread \in Indexed'
                      /\ view'[c.wallet] # None
<1>3. \A c \in calls' : Good(c)
  <2>1. ASSUME NEW c \in calls, NEW d \in Call, GoesOn(d, c) PROVE Good(d)
    BY <1>1, <1>2, <2>1, ViewsStay DEF GoesOn, Shown, Call
  <2>2. CASE Continued
    BY <2>1, <2>2 DEF Continued
  <2>3. ASSUME NEW w \in Wallets, NEW i, NEW saved \in BOOLEAN, Posted(w, i, saved),
               (Send(w) /\ i = Len(requests) + 1) \/ (SendSaved(w) /\ i = Pending(w))
        PROVE  \A c \in calls' : Good(c)
    <3>1. PICK n \in 1..MaxCopies : /\ PostOf(w, n, i, saved) \in Call
                                    /\ calls' = calls \cup {PostOf(w, n, i, saved)}
      BY <2>3, PostedStep
    <3>2. i \in RequestIds' /\ view[w] # None
      BY <2>3, PostedStep DEF Send, SendSaved
    <3>3. Good(PostOf(w, n, i, saved))
      <4>1. view[w].at \in Indexed
        BY <1>1, <3>2 DEF Shown
      <4> QED BY <4>1, <3>1, <3>2, <1>2, ViewsStay DEF PostOf
    <3>4. \A c \in calls : Good(c)
      BY <1>1, <2>1, CallChange
    <3> HIDE DEF Good
    <3> QED BY <3>1, <3>3, <3>4
  <2> HIDE DEF Good
  <2>4. ASSUME NEW w \in Wallets, Send(w), Posted(w, Len(requests) + 1, FALSE)
        PROVE  \A c \in calls' : Good(c)
    <3> DEFINE i == Len(requests) + 1
    <3>1. Posted(w, i, FALSE) /\ i = Len(requests) + 1
      BY <2>4
    <3>2. (Send(w) /\ i = Len(requests) + 1) \/ (SendSaved(w) /\ i = Pending(w))
      BY <2>4
    <3>3. FALSE \in BOOLEAN
      OBVIOUS
    <3> HIDE DEF i
    <3> QED BY <3>1, <3>2, <3>3, <2>3, Zenon
  <2>5. ASSUME NEW w \in Wallets, SendSaved(w), Posted(w, Pending(w), TRUE)
        PROVE  \A c \in calls' : Good(c)
    BY <2>3, <2>5
  <2> QED BY <2>2, <2>4, <2>5, CallStep
<1>4. \A w \in Wallets, k \in Threads : pending'[w][k] \in 0..Len(requests')
  <2>1. \A w \in Wallets, k \in Threads : pending[w][k] \in 0..Len(requests)
    BY <1>1 DEF Shown
  <2>2. CASE ReceiptsGo
    BY <2>1, <2>2, <1>2 DEF ReceiptsGo
  <2>3. ASSUME NEW w \in Wallets, Send(w)
        PROVE  \A v \in Wallets, k \in Threads : pending'[v][k] \in 0..Len(requests')
    <3>1. pending' = [pending EXCEPT ![w][PendingKey(w)] = Len(requests) + 1]
      BY <2>3 DEF Send
    <3>2. Len(requests') = Len(requests) + 1
      BY <2>3, RequestStep, PostedStep, CallStep DEF Send
    <3>3. pending \in [Wallets -> [Threads -> 0..MaxRequests]]
      BY <1>1 DEF TypeOK
    <3> QED BY <3>1, <3>2, <3>3, <2>1, <1>2
  <2> QED BY <2>2, <2>3, ReceiptStep
<1>5. \A c \in calls' : /\ c.request \in RequestIds' /\ c.thread \in Indexed' /\ view'[c.wallet] # None
  BY <1>3
<1>6. ASSUME NEW d \in checks'
      PROVE  /\ d.request \in RequestIds' /\ view'[d.wallet] # None
             /\ d.answer = "found" => Saved(d.request)'
  <2>1. ASSUME NEW k \in checks, Checking(d, k)
        PROVE  /\ d.request \in RequestIds' /\ view'[d.wallet] # None
               /\ d.answer = "found" => Saved(d.request)'
    <3>1. /\ k.request \in RequestIds /\ view[k.wallet] # None /\ k.wallet \in Wallets
          /\ k.answer = "found" => Saved(k.request)
      BY <1>1 DEF Shown, TypeOK, StatusCheck
    <3>2. Saved(k.request) => Saved(k.request)'
      BY SavedStays
    <3> QED BY <2>1, <3>1, <3>2, <1>2, ViewsStay DEF Checking
  <2>2. ASSUME NEW w \in Wallets, NEW n, d = CheckOf(w, n), view[w] # None, Pending(w) # 0
        PROVE  /\ d.request \in RequestIds' /\ view'[d.wallet] # None /\ d.answer = "none"
    <3>1. d.wallet = w /\ d.request = Pending(w) /\ d.answer = "none"
      BY <2>2 DEF CheckOf
    <3>2. PendingKey(w) \in Threads
      BY <1>1, <2>2, KeysHeld
    <3>3. Pending(w) \in RequestIds
      BY <1>1, <1>2, <2>2, <3>2 DEF Pending, Shown, RequestIds
    <3> QED BY <3>1, <3>3, <1>2, <2>2, ViewsStay
  <2> QED BY <2>1, <2>2, CheckStep
<1>7. \A k \in checks' : /\ k.request \in RequestIds' /\ view'[k.wallet] # None
                         /\ k.answer = "found" => Saved(k.request)'
  BY <1>6
<1> QED BY <1>3, <1>4, <1>5, <1>7, ViewsStay DEF Shown

LEMMA SInvStep ==
  ASSUME SInv, [Next]_vars
  PROVE  SInv'
<1>1. /\ Grown /\ Followed /\ Looked
      /\ requests' \in Seq(Request)
      /\ blocked' \subseteq Wallets /\ sessions' \subseteq Wallets /\ ready' \subseteq Indexed'
      /\ Shown' /\ calls' \subseteq Call
  BY StoreStep, ViewStep, RequestStep, ServiceSets, ShownStep
<1>2. drafts' \in [Wallets -> [Threads -> Draft \cup {None}]]
  <2>1. CASE DraftsGo
    BY <2>1 DEF DraftsGo
  <2>2. ASSUME NEW w \in Wallets, NEW reply \in {0} \cup PostIds, Write(w, reply)
        PROVE  drafts' \in [Wallets -> [Threads -> Draft \cup {None}]]
    <3>1. drafts \in [Wallets -> [Threads -> Draft \cup {None}]]
      BY DEF SInv, TypeOK
    <3>2. [text |-> written', reply |-> reply] \in Draft
      <4>1. written' \in 1..MaxDrafts
        BY <2>2, PageSets DEF Write, SInv, TypeOK
      <4>2. reply \in Nat
        BY DEF SInv, TypeOK, PostIds
      <4> QED BY <4>1, <4>2 DEF Draft
    <3>3. drafts' = [drafts EXCEPT ![w][DraftKey(w)] = [text |-> written', reply |-> reply]]
      BY <2>2 DEF Write
    <3> QED BY <3>1, <3>2, <3>3
  <2> QED BY <2>1, <2>2, DraftStep
<1>3. pending' \in [Wallets -> [Threads -> 0..MaxRequests]]
  <2>1. CASE ReceiptsGo
    BY <2>1 DEF ReceiptsGo
  <2>2. ASSUME NEW w \in Wallets, Send(w)
        PROVE  pending' \in [Wallets -> [Threads -> 0..MaxRequests]]
    <3>1. pending \in [Wallets -> [Threads -> 0..MaxRequests]] /\ MaxRequests \in Nat
      BY DiscussionsAssumption DEF SInv, TypeOK, DiscussionsAssumption
    <3>2. Len(requests) + 1 \in 0..MaxRequests
      BY <2>2, <3>1 DEF Send, SInv, TypeOK
    <3>3. pending' = [pending EXCEPT ![w][PendingKey(w)] = Len(requests) + 1]
      BY <2>2 DEF Send
    <3> QED BY <3>1, <3>2, <3>3
  <2> QED BY <2>1, <2>2, ReceiptStep
<1>4. \A t \in Indexed' : threads'[Thread(t)'].redirect = None
  BY <1>1, ForestRoots DEF Grown, Indexed, Thread, Root
<1>5. checks' \subseteq StatusCheck
  BY CheckStep
<1>6. TypeOK'
  BY <1>1, <1>2, <1>3, <1>4, <1>5, PageSets DEF TypeOK, Grown, Followed, Looked, Table
<1>7. Forest(threads')
  BY <1>1 DEF Grown
<1> QED BY <1>1, <1>6, <1>7, TogetherStep DEF SInv

(* The invariant that the pages and the store keep together. *)
THEOREM Correct == Spec => []SInv
<1>1. Init => SInv
  BY InitSInv
<1>2. SInv /\ [Next]_vars => SInv'
  BY SInvStep
<1> QED BY <1>1, <1>2, PTL DEF Spec

(* The tables and what the pages keep have their types, and a thread's id   *)
(* leads to a row that leads no further (thread in store.mjs).              *)
THEOREM TypeCorrect == Spec => []TypeOK
<1>1. SInv => TypeOK
  BY DEF SInv
<1> QED BY <1>1, Correct, PTL

(* Replies stay in one discussion with what they answer or quote, whatever  *)
(* joins happen while they are on their way.                                *)
THEOREM RepliesTogether == Spec => []RepliesStayTogether
<1>1. SInv => RepliesStayTogether
  BY DEF SInv, Together, RepliesStayTogether, Root
<1> QED BY <1>1, Correct, PTL

(* What locks come to in a step. *)
LEMMA LockStep ==
  ASSUME SInv, [Next]_vars, NEW t \in Indexed, Locked(t)
  PROVE  /\ Locked(t)' \/ \E s \in Indexed : SetLocked(s, FALSE)
         /\ \A p \in PostIds' \ PostIds : posts'[p].request # 0 => posts'[p].thread # Thread(t)
<1> DEFINE Goal == Locked(t)' \/ \E s \in Indexed : SetLocked(s, FALSE)
<1>1. TypeOK /\ Forest(threads) /\ Together /\ Shown /\ threads \in Table
  BY DEF SInv, TypeOK, Table
<1>2. ASSUME UNCHANGED threads PROVE Goal
  BY <1>2 DEF Locked, Thread
<1>3. ASSUME NEW s \in Indexed, SetLocked(s, TRUE) PROVE Goal
  <2>1. threads' = [threads EXCEPT ![Thread(s)].locked = TRUE]
    BY <1>3 DEF SetLocked
  <2>2. Root(threads, Thread(s)) /\ Root(threads, Thread(t))
    BY <1>1, ForestRoots DEF Thread, Indexed
  <2>3. threads' \in Table
    BY StoreStep DEF Grown
  <2>4. /\ threads[Thread(s)] \in ThreadRow /\ threads[Thread(t)] \in ThreadRow
        /\ None \notin ThreadRow
    BY <1>1, <2>2, DiscussionsAssumption DEF Table, Root, DiscussionsAssumption
  <2> DEFINE row == [threads[Thread(s)] EXCEPT !.locked = TRUE]
  <2>5. row \in ThreadRow /\ row.locked /\ row.redirect = threads[Thread(s)].redirect
    BY <2>4 DEF ThreadRow
  <2>6. threads' = [threads EXCEPT ![Thread(s)] = row]
    BY <2>1
  <2> HIDE DEF row
  <2>7. \A r \in Threads : /\ threads[r] # None => threads'[r] # None /\ threads'[r].redirect = threads[r].redirect
                           /\ threads[r] = None => threads'[r] = None
    BY <1>1, <2>2, <2>4, <2>5, <2>6 DEF Table, Root
  <2>8. Thread(t)' = Thread(t)
    BY <1>1, <2>3, <2>7, SameRedirects DEF Thread, Indexed
  <2>9. threads'[Thread(t)].locked
    BY <1>1, <2>2, <2>5, <2>6 DEF Locked, Table, Root
  <2> QED BY <2>8, <2>9 DEF Locked
<1>4. ASSUME Moderate PROVE Goal
  <2>1. ASSUME NEW s \in Indexed, NEW locked \in BOOLEAN, SetLocked(s, locked) PROVE Goal
    <3>1. CASE locked = TRUE
      BY <2>1, <3>1, <1>3
    <3>2. CASE locked = FALSE
      BY <2>1, <3>2
    <3> QED BY <3>1, <3>2
  <2>2. ASSUME NEW p \in PostIds, NEW hidden \in BOOLEAN, SetHidden(p, hidden) PROVE Goal
    BY <2>2, <1>2 DEF SetHidden
  <2>3. ASSUME NEW w \in Wallets, NEW block \in BOOLEAN, SetBlocked(w, block) PROVE Goal
    BY <2>3, <1>2 DEF SetBlocked
  <2> QED BY <1>4, <2>1, <2>2, <2>3 DEF Moderate
<1>5. ASSUME SyncAny PROVE Goal
  <2>1. PICK new \in SUBSET (Threads \ Indexed), comment \in Reviews \cup {None},
             pair \in {<<>>} \cup (Reviews \X Natives) :
             \E tombstones : Sync(new, comment, tombstones, pair)
    BY <1>5, Zenon DEF SyncAny
  <2> QED BY <2>1, <1>1, Synced
<1>6. ASSUME ServiceStep PROVE Goal
  <2>1. ASSUME NEW c \in calls, Admit(c) \/ AddPost(c) PROVE Goal
    BY <2>1, <1>2 DEF Admit, AddPost, service, store
  <2>2. ASSUME NEW w, Expire(w) PROVE Goal
    BY <2>2, <1>2 DEF Expire, store
  <2>3. ASSUME Tick PROVE Goal
    BY <2>3, <1>2 DEF Tick
  <2> QED BY <1>6, <1>4, <1>5, <2>1, <2>2, <2>3 DEF ServiceStep
<1>7. Goal
  BY <1>2, <1>6, PagesWriteNothing
<1>8. ASSUME NEW p \in PostIds' \ PostIds, posts'[p].request # 0 PROVE posts'[p].thread # Thread(t)
  <2>1. PICK c \in calls : AddPost(c) /\ posts' # posts
    BY <1>8, StoreStep
  <2>2. p = Len(posts) + 1
    BY StoreStep
  <2>3. posts'[p].thread = Thread(c.thread) /\ ~threads[Thread(c.thread)].locked
    BY <1>1, <2>1, <2>2, Admitted
  <2> QED BY <2>3 DEF Locked
<1> QED BY <1>7, <1>8

(* A locked discussion takes no reply and stays locked until a moderator    *)
(* unlocks it, through joins and under all its ids: a reply that was        *)
(* admitted before is validated again where it is stored (addPost).         *)
THEOREM LocksHold == Spec => LockHolds
<1>1. SInv /\ [Next]_vars =>
        [\A t \in Indexed : Locked(t) =>
            /\ Locked(t)' \/ \E s \in Indexed : SetLocked(s, FALSE)
            /\ \A p \in PostIds' \ PostIds : posts'[p].request # 0 => posts'[p].thread # Thread(t)]_vars
  BY LockStep
<1> QED BY <1>1, Correct, PTL DEF Spec, LockHolds

-----------------------------------------------------------------------------
(* A text is in one draft; it and the requests made of it are one wallet's. *)
Texts ==
    /\ \A w \in Wallets, k \in Threads : drafts[w][k] # None => drafts[w][k].text <= written
    /\ \A i \in RequestIds : requests[i].text <= written
    /\ \A w, v \in Wallets, k, l \in Threads :
        drafts[w][k] # None /\ drafts[v][l] # None /\ drafts[w][k].text = drafts[v][l].text
        => w = v /\ k = l
    /\ \A w \in Wallets, k \in Threads, i \in RequestIds :
        drafts[w][k] # None /\ drafts[w][k].text = requests[i].text => requests[i].wallet = w

Holds(w, k, i) == drafts[w][k] # None /\ drafts[w][k].text = requests[i].text

(* No view of w will ever show what is kept under k. *)
Buried(w, k) ==
    /\ k \in Indexed
    /\ threads[k].redirect # None
    /\ threads[threads[k].redirect] # None
    /\ threads[threads[k].redirect].redirect # None
    /\ view[w] # None => view[w].at \notin {k, threads[k].redirect}

(* A receipt is its wallet's and under one key, and a view that shows the   *)
(* draft of its text shows it too.                                          *)
Receipts ==
    \A w \in Wallets, k \in Threads : pending[w][k] # 0 =>
        /\ requests[pending[w][k]].wallet = w
        /\ \A l \in Threads : pending[w][l] = pending[w][k] => l = k
        /\ \A l \in Threads : Holds(w, l, pending[w][k]) /\ l # k =>
            /\ l \in Indexed /\ threads[l].redirect = k
            /\ view[w] # None
            /\ view[w].at # l
            /\ view[w].at = k => l \in view[w].aliases

(* A call or a check: its wallet's, and an acceptance clears what it has to. *)
Waits(c) ==
    /\ requests[c.request].wallet = c.wallet
    /\ \A l \in Threads : Holds(c.wallet, l, c.request) => l \in c.keys \/ Buried(c.wallet, l)

Waiting == \A c \in calls \cup checks : Waits(c)

(* A request whose receipt was removed although it may still be stored. *)
Forgone == rejected \cup overtaken

(* Nothing will store the reply. *)
Dead(i) ==
    /\ ~Saved(i)
    /\ Copies(i) = {}
    /\ \A k \in Threads : pending[requests[i].wallet][k] # i

(* No new request will be made of the text. *)
Done(i) == \A k \in Threads : Holds(requests[i].wallet, k, i) => Buried(requests[i].wallet, k)

Settled ==
    /\ \A i \in RequestIds :
        \/ i \in Forgone
        \/ \E k \in Threads : pending[requests[i].wallet][k] = i
        \/ Dead(i)
        \/ Done(i)
    /\ \A i, j \in RequestIds :
        i < j /\ requests[i].text = requests[j].text => i \in Forgone \/ Dead(i)

(* A reply that is stored was asked for, and is stored once. *)
StoredOnce ==
    /\ \A p \in PostIds : posts[p].request \in 0..Len(requests)
    /\ \A p, q \in PostIds : posts[p].request # 0 /\ posts[p].request = posts[q].request => p = q

OInv == Texts /\ Receipts /\ Waiting /\ Settled /\ StoredOnce

-----------------------------------------------------------------------------
(* A draft that is buried stays buried, and its page does not look there. *)
LEMMA BuriedStays ==
  ASSUME SInv, [Next]_vars, NEW w \in Wallets, NEW k \in Threads, Buried(w, k)
  PROVE  Buried(w, k)'
<1> DEFINE r == threads[k].redirect
<1>1. threads \in Table /\ None \notin Threads
  BY DiscussionsAssumption DEF SInv, TypeOK, Table, DiscussionsAssumption
<1>2. /\ k \in Indexed /\ r # None /\ threads[r] # None /\ threads[r].redirect # None
      /\ view[w] # None => view[w].at \notin {k, r}
  BY DEF Buried
<1>3. r \in Indexed
  BY <1>1, <1>2 DEF Table, ThreadRow, Indexed
<1>4. /\ k \in Indexed' /\ threads'[k].redirect = r
      /\ threads'[r] # None /\ threads'[r].redirect # None
  BY <1>2, <1>3, StoreStep DEF Grown, Indexed
<1>5. ASSUME view'[w] # None PROVE view'[w].at \notin {k, r}
  <2>1. CASE view'[w] = view[w]
    BY <1>2, <1>5, <2>1
  <2>2. CASE view'[w] # view[w]
    <3>1. PICK t \in Indexed : view'[w] = Seen(t)
      BY <2>2, ViewStep DEF Looked
    <3>2. threads[Seen(t).at].redirect = None
      BY SeenIsView DEF SInv, Root
    <3> QED BY <3>1, <3>2, <1>2
  <2> QED BY <2>1, <2>2
<1> QED BY <1>4, <1>5 DEF Buried

LEMMA BuriedHidden ==
  ASSUME SInv, NEW w \in Wallets, view[w] # None, NEW k, Buried(w, k)
  PROVE  k \notin Keys(w)
<1>1. /\ view[w].at \notin {k, threads[k].redirect}
      /\ \A s \in view[w].aliases : threads[s].redirect = view[w].at
  BY DEF SInv, Shown, Buried
<1> QED BY <1>1 DEF Keys

(* What Send does. *)
LEMMA SendStep ==
  ASSUME SInv, [Next]_vars, NEW w \in Wallets, Send(w)
  PROVE  LET i == Len(requests) + 1
             at == view[w].at
         IN  /\ view[w] # None /\ at \in Threads /\ at \in Keys(w) /\ Keys(w) \subseteq Threads
             /\ PendingKey(w) = at /\ \A k \in Keys(w) : pending[w][k] = 0
             /\ DraftKey(w) \in Keys(w) /\ drafts[w][DraftKey(w)] # None
             /\ pending' = [pending EXCEPT ![w][at] = i]
             /\ Len(requests') = i /\ Len(requests) \in Nat
             /\ requests'[i].wallet = w
             /\ requests'[i].text = drafts[w][DraftKey(w)].text
             /\ Posted(w, i, FALSE)
             /\ UNCHANGED <<threads, posts, view, drafts, written, rejected>>
<1> DEFINE i == Len(requests) + 1
<1>1. /\ view[w] # None /\ Pending(w) = 0 /\ drafts[w][DraftKey(w)] # None
      /\ pending' = [pending EXCEPT ![w][PendingKey(w)] = i]
      /\ requests' = Append(requests, [wallet |-> w, text |-> drafts[w][DraftKey(w)].text,
                                       reply |-> drafts[w][DraftKey(w)].reply])
      /\ UNCHANGED <<threads, posts, view, drafts, written, rejected>>
  BY DEF Send, service, store
<1>2. /\ view[w].at \in Keys(w) /\ Keys(w) \subseteq Threads /\ DraftKey(w) \in Keys(w)
      /\ PendingKey(w) = view[w].at /\ \A k \in Keys(w) : pending[w][k] = 0
  BY <1>1, KeysHeld DEF SInv
<1>3. Posted(w, i, FALSE)
  BY DEF Send, PostCall, Posted
<1>4. requests \in Seq(Request) /\ Len(requests) \in Nat
  BY DEF SInv, TypeOK
<1>5. Len(requests') = i /\ requests'[i] = [wallet |-> w, text |-> drafts[w][DraftKey(w)].text,
                                            reply |-> drafts[w][DraftKey(w)].reply]
  BY <1>1, <1>4
<1>6. requests'[i].wallet = w /\ requests'[i].text = drafts[w][DraftKey(w)].text
  BY <1>5
<1>7. view[w].at \in Threads
  BY <1>2
<1>8. pending' = [pending EXCEPT ![w][view[w].at] = i]
  BY <1>1, <1>2
<1> QED BY <1>1, <1>2, <1>3, <1>4, <1>5, <1>6, <1>7, <1>8, Zenon

(* Texts are only taken out of drafts, as far as requests have them. *)
LEMMA HoldsStays ==
  ASSUME SInv, Texts, [Next]_vars, NEW w \in Wallets, NEW k \in Threads, NEW i \in RequestIds,
         Holds(w, k, i)'
  PROVE  Holds(w, k, i)
<1>1. requests'[i] = requests[i]
  BY RequestStep
<1>2. CASE DraftsGo
  BY <1>1, <1>2 DEF DraftsGo, Holds
<1>3. ASSUME NEW v \in Wallets, NEW reply \in {0} \cup PostIds, Write(v, reply)
      PROVE  Holds(w, k, i)
  <2>1. /\ written' = written + 1 /\ written \in Nat
        /\ drafts' = [drafts EXCEPT ![v][DraftKey(v)] = [text |-> written', reply |-> reply]]
        /\ drafts \in [Wallets -> [Threads -> Draft \cup {None}]]
    BY <1>3 DEF Write, SInv, TypeOK
  <2>2. requests[i].text <= written /\ requests[i].text \in Nat
    <3>1. requests[i] \in Request
      BY ElementOfSeq DEF SInv, TypeOK, RequestIds
    <3> QED BY <3>1 DEF Texts, Request
  <2>3. drafts'[w][k].text = requests[i].text /\ drafts'[w][k] # None
    BY <1>1 DEF Holds
  <2>4. drafts'[w][k] = IF w = v /\ k = DraftKey(v) THEN [text |-> written', reply |-> reply]
                        ELSE drafts[w][k]
    BY <2>1
  <2>5. ~(w = v /\ k = DraftKey(v))
    BY <2>1, <2>2, <2>3, <2>4
  <2> QED BY <2>3, <2>4, <2>5 DEF Holds
<1> QED BY <1>2, <1>3, DraftStep

LEMMA PendingStays ==
  ASSUME SInv, [Next]_vars, NEW w \in Wallets, NEW k \in Threads, pending'[w][k] # 0
  PROVE  \/ pending'[w][k] = pending[w][k]
         \/ pending'[w][k] = Len(requests) + 1 /\ Send(w) /\ k = view[w].at
<1>1. CASE ReceiptsGo
  BY <1>1 DEF ReceiptsGo
<1>2. ASSUME NEW v \in Wallets, Send(v)
      PROVE  \/ pending'[w][k] = pending[w][k]
             \/ pending'[w][k] = Len(requests) + 1 /\ Send(w) /\ k = view[w].at
  <2>1. pending' = [pending EXCEPT ![v][view[v].at] = Len(requests) + 1]
    BY <1>2, SendStep
  <2>2. pending \in [Wallets -> [Threads -> 0..MaxRequests]]
    BY DEF SInv, TypeOK
  <2> QED BY <1>2, <2>1, <2>2
<1> QED BY <1>1, <1>2, ReceiptStep

(* A reply is stored where a call carries it, which is then accepted. *)
LEMMA SavedStep ==
  ASSUME SInv, [Next]_vars, NEW i, i # 0, Saved(i)', ~Saved(i)
  PROVE  \E c \in calls : c.request = i /\ Settle(c, "accepted")
<1>1. PICK p \in PostIds' : posts'[p].request = i
  BY DEF Saved
<1>2. p \notin PostIds
  BY <1>1, StoreStep DEF Followed, Saved
<1>3. PICK c \in calls : AddPost(c) /\ posts' # posts
  BY <1>1, <1>2, StoreStep
<1>4. p = Len(posts) + 1
  BY <1>2, StoreStep
<1>5. posts'[p].request = c.request /\ Verdict(c) = "admitted"
  BY <1>3, <1>4, Admitted DEF SInv
<1>6. Settle(c, "accepted")
  BY <1>3, <1>5 DEF AddPost
<1> QED BY <1>1, <1>5, <1>6

LEMMA TextsStep ==
  ASSUME SInv, Texts, [Next]_vars
  PROVE  Texts'
<1>1. /\ written \in Nat /\ drafts \in [Wallets -> [Threads -> Draft \cup {None}]]
      /\ \A i \in RequestIds : requests[i] \in Request
      /\ \A i \in RequestIds : requests[i].text \in Nat
      /\ \A w \in Wallets, k \in Threads : drafts[w][k] # None => drafts[w][k].text \in Nat
  <2>1. written \in Nat /\ drafts \in [Wallets -> [Threads -> Draft \cup {None}]]
    BY DEF SInv, TypeOK
  <2>2. \A i \in RequestIds : requests[i] \in Request
    BY ElementOfSeq DEF SInv, TypeOK, RequestIds
  <2>3. \A w \in Wallets, k \in Threads : drafts[w][k] # None => drafts[w][k] \in Draft
    BY <2>1
  <2> QED BY <2>1, <2>2, <2>3 DEF Request, Draft
<1>2. CASE UNCHANGED requests /\ DraftsGo
  BY <1>2 DEF Texts, DraftsGo, RequestIds
<1>3. ASSUME NEW v \in Wallets, NEW reply \in {0} \cup PostIds, Write(v, reply) PROVE Texts'
  <2> DEFINE key == DraftKey(v)
             draft == [text |-> written + 1, reply |-> reply]
  <2>1. /\ written' = written + 1 /\ requests' = requests
        /\ drafts' = [drafts EXCEPT ![v][key] = draft]
    BY <1>3 DEF Write
  <2>2. draft.text = written + 1
    OBVIOUS
  <2> HIDE DEF key, draft
  <2>3. \A w \in Wallets, k \in Threads :
            drafts'[w][k] = IF w = v /\ k = key THEN draft ELSE drafts[w][k]
    BY <1>1, <2>1
  <2>4. \A i \in RequestIds : requests[i].text <= written
    BY DEF Texts
  <2>5. \A w \in Wallets, k \in Threads : drafts[w][k] # None => drafts[w][k].text <= written
    BY DEF Texts
  <2>6. \A w \in Wallets, k \in Threads : drafts'[w][k] # None => drafts'[w][k].text <= written'
    BY <1>1, <2>1, <2>2, <2>3, <2>5
  <2>7. \A i \in RequestIds' : requests'[i].text <= written'
    BY <1>1, <2>1, <2>4 DEF RequestIds
  <2>8. ASSUME NEW w \in Wallets, NEW u \in Wallets, NEW k \in Threads, NEW l \in Threads,
               drafts'[w][k] # None, drafts'[u][l] # None, drafts'[w][k].text = drafts'[u][l].text
        PROVE  w = u /\ k = l
    <3>1. CASE (w = v /\ k = key) \/ (u = v /\ l = key)
      BY <3>1, <2>8, <1>1, <2>2, <2>3, <2>5
    <3>2. CASE ~(w = v /\ k = key) /\ ~(u = v /\ l = key)
      BY <3>2, <2>8, <2>3 DEF Texts
    <3> QED BY <3>1, <3>2
  <2>9. ASSUME NEW w \in Wallets, NEW k \in Threads, NEW i \in RequestIds',
               drafts'[w][k] # None, drafts'[w][k].text = requests'[i].text
        PROVE  requests'[i].wallet = w
    <3>1. i \in RequestIds /\ requests'[i] = requests[i]
      BY <2>1 DEF RequestIds
    <3>2. ~(w = v /\ k = key)
      BY <3>1, <2>9, <1>1, <2>2, <2>3, <2>4
    <3> QED BY <3>1, <3>2, <2>9, <2>3 DEF Texts
  <2> QED BY <2>6, <2>7, <2>8, <2>9 DEF Texts
<1>4. ASSUME NEW v \in Wallets, Send(v) PROVE Texts'
  <2> DEFINE n == Len(requests) + 1
             key == DraftKey(v)
  <2>1. /\ key \in Threads /\ drafts[v][key] # None
        /\ Len(requests') = n /\ Len(requests) \in Nat
        /\ requests'[n].wallet = v /\ requests'[n].text = drafts[v][key].text
        /\ UNCHANGED <<drafts, written>>
        /\ \A i \in RequestIds : requests'[i] = requests[i]
    BY <1>4, SendStep, RequestStep
  <2> HIDE DEF key
  <2>2. \A i \in RequestIds' : i \in RequestIds \/ i = n
    BY <2>1 DEF RequestIds
  <2>3. \A i \in RequestIds' : requests'[i].text <= written'
    BY <2>1, <2>2 DEF Texts
  <2>4. ASSUME NEW w \in Wallets, NEW k \in Threads, NEW i \in RequestIds',
               drafts'[w][k] # None, drafts'[w][k].text = requests'[i].text
        PROVE  requests'[i].wallet = w
    <3>1. CASE i \in RequestIds
      BY <3>1, <2>1, <2>4 DEF Texts
    <3>2. CASE i = n
      BY <3>2, <2>1, <2>4 DEF Texts
    <3> QED BY <3>1, <3>2, <2>2
  <2> QED BY <2>1, <2>3, <2>4 DEF Texts
<1> QED BY <1>2, <1>3, <1>4, DraftStep, RequestStep

(* The draft holds the text of a request after the step. *)
Held(w, k, i) == drafts'[w][k] # None /\ drafts'[w][k].text = requests'[i].text

LEMMA ReceiptsStep ==
  ASSUME SInv, Texts, Receipts, [Next]_vars
  PROVE  Receipts'
<1>1. /\ \A w \in Wallets, k \in Threads : pending[w][k] \in 0..Len(requests)
      /\ Len(requests) \in Nat
  BY DEF SInv, Shown, TypeOK
<1> SUFFICES ASSUME NEW w \in Wallets, NEW k \in Threads, pending'[w][k] # 0
             PROVE  LET i == pending'[w][k]
                    IN  /\ requests'[i].wallet = w
                        /\ \A l \in Threads : pending'[w][l] = i => l = k
                        /\ \A l \in Threads : Held(w, l, i) /\ l # k =>
                            /\ l \in Indexed' /\ threads'[l].redirect = k
                            /\ view'[w] # None
                            /\ view'[w].at # l
                            /\ view'[w].at = k => l \in view'[w].aliases
  BY DEF Receipts, Holds, Held
<1> DEFINE i == pending'[w][k]
<1>2. CASE i = pending[w][k]
  <2>1. i \in RequestIds /\ requests'[i] = requests[i]
    BY <1>1, <1>2, RequestStep DEF RequestIds
  <2>2. /\ requests[i].wallet = w
        /\ \A l \in Threads : pending[w][l] = i => l = k
        /\ \A l \in Threads : Holds(w, l, i) /\ l # k =>
            /\ l \in Indexed /\ threads[l].redirect = k
            /\ view[w] # None
            /\ view[w].at # l
            /\ view[w].at = k => l \in view[w].aliases
    BY <1>2 DEF Receipts
  <2> HIDE DEF i
  <2>3. ASSUME NEW l \in Threads, pending'[w][l] = i PROVE l = k
    <3>1. pending'[w][l] # 0 /\ pending'[w][l] # Len(requests) + 1
      BY <1>1, <2>1, <2>3 DEF RequestIds
    <3>2. pending[w][l] = i
      BY <3>1, <2>3, PendingStays
    <3> QED BY <2>2, <3>2
  <2>4. ASSUME NEW l \in Threads, Held(w, l, i), l # k
        PROVE  /\ l \in Indexed' /\ threads'[l].redirect = k
               /\ view'[w] # None
               /\ view'[w].at # l
               /\ view'[w].at = k => l \in view'[w].aliases
    <3>1. Holds(w, l, i)
      BY <2>1, <2>4, HoldsStays DEF Held, Holds
    <3>2. /\ l \in Indexed /\ threads[l].redirect = k /\ k # None
          /\ view[w] # None
          /\ view[w].at # l
          /\ view[w].at = k => l \in view[w].aliases
      BY <2>2, <2>4, <3>1, DiscussionsAssumption DEF DiscussionsAssumption
    <3>3. l \in Indexed' /\ threads'[l].redirect = k
      BY <3>2, StoreStep DEF Grown, Indexed
    <3>4. view'[w] # None
      BY <3>2, ViewsStay
    <3>5. view'[w].at # l /\ (view'[w].at = k => l \in view'[w].aliases)
      <4>1. CASE view'[w] = view[w]
        BY <4>1, <3>2
      <4>2. CASE view'[w] # view[w]
        <5>1. PICK t \in Indexed : view'[w] = Seen(t)
          BY <4>2, ViewStep DEF Looked
        <5>2. /\ threads[Seen(t).at].redirect = None
              /\ Seen(t).aliases = {s \in Indexed : threads[s].redirect = Seen(t).at}
          BY SeenIsView DEF SInv, Root
        <5> QED BY <5>1, <5>2, <3>2
      <4> QED BY <4>1, <4>2
    <3> QED BY <3>3, <3>4, <3>5
  <2> QED BY <2>1, <2>2, <2>3, <2>4 DEF i
<1>3. CASE i = Len(requests) + 1 /\ Send(w) /\ k = view[w].at
  <2> DEFINE key == DraftKey(w)
  <2>1. /\ view[w] # None /\ key \in Keys(w) /\ Keys(w) \subseteq Threads
        /\ drafts[w][key] # None
        /\ requests'[i].wallet = w /\ requests'[i].text = drafts[w][key].text
        /\ UNCHANGED <<threads, view, drafts>>
    BY <1>3, SendStep
  <2> HIDE DEF key, i
  <2>2. ASSUME NEW l \in Threads, pending'[w][l] = i PROVE l = k
    <3>1. i # 0 /\ i # pending[w][l]
      BY <1>1, <1>3
    <3>2. l = view[w].at
      BY <3>1, <2>2, PendingStays
    <3> QED BY <3>2, <1>3
  <2>3. ASSUME NEW l \in Threads, Held(w, l, i), l # k
        PROVE  /\ l \in Indexed /\ threads[l].redirect = k /\ l \in view[w].aliases
    <3>1. drafts[w][l] # None /\ drafts[w][l].text = drafts[w][key].text
      BY <2>1, <2>3 DEF Held
    <3>2. l = key
      BY <2>1, <3>1 DEF Texts
    <3>3. l \in view[w].aliases
      BY <2>1, <2>3, <3>2, <1>3 DEF Keys
    <3> QED BY <2>1, <3>3, <1>3 DEF SInv, Shown
  <2>4. Indexed' = Indexed
    BY <2>1 DEF Indexed
  <2> QED BY <1>3, <2>1, <2>2, <2>3, <2>4 DEF i
<1> QED BY <1>2, <1>3, PendingStays


(* The keys a page looks under when it finds a receipt are those under      *)
(* which its text is drafted.                                               *)
LEMMA KeysReach ==
  ASSUME SInv, Receipts, NEW w \in Wallets, view[w] # None, Pending(w) # 0
  PROVE  /\ requests[Pending(w)].wallet = w /\ Pending(w) \in RequestIds
         /\ \A l \in Threads : Holds(w, l, Pending(w)) => l \in Keys(w) \/ Buried(w, l)
<1> DEFINE k == PendingKey(w)
           i == Pending(w)
<1>1. k \in Keys(w) /\ Keys(w) \subseteq Threads /\ pending[w][k] = i
  BY KeysHeld DEF SInv, Pending
<1> HIDE DEF k
<1>2. /\ requests[i].wallet = w
      /\ \A l \in Threads : Holds(w, l, i) /\ l # k =>
            /\ l \in Indexed /\ threads[l].redirect = k
            /\ view[w].at # l
            /\ view[w].at = k => l \in view[w].aliases
  BY <1>1 DEF Receipts
<1>3. i \in RequestIds
  BY <1>1 DEF SInv, Shown, TypeOK, RequestIds
<1>4. ASSUME NEW l \in Threads, Holds(w, l, i) PROVE l \in Keys(w) \/ Buried(w, l)
  <2>1. CASE l = k \/ view[w].at = k
    BY <2>1, <1>1, <1>2, <1>4 DEF Keys
  <2>2. CASE l # k /\ view[w].at # k
    <3>1. k \in view[w].aliases
      BY <2>2, <1>1 DEF Keys
    <3>2. k \in Indexed /\ threads[k].redirect = view[w].at /\ view[w].at \in Threads
      BY <3>1 DEF SInv, Shown, Indexed
    <3>3. None \notin Threads
      BY DiscussionsAssumption DEF DiscussionsAssumption
    <3> QED BY <2>2, <1>2, <1>4, <3>2, <3>3 DEF Buried, Indexed
  <2> QED BY <2>1, <2>2
<1> QED BY <1>2, <1>3, <1>4

(* What a call or a check was made with keeps clearing the drafts. *)
LEMMA StillWaits ==
  ASSUME SInv, Texts, [Next]_vars, NEW d, d.request \in RequestIds, d.wallet \in Wallets,
         requests[d.request].wallet = d.wallet,
         \A l \in Threads : Holds(d.wallet, l, d.request) => l \in d.keys \/ Buried(d.wallet, l)
  PROVE  Waits(d)'
<1>1. requests'[d.request].wallet = d.wallet
  BY RequestStep
<1>2. ASSUME NEW l \in Threads, Holds(d.wallet, l, d.request)'
      PROVE  l \in d.keys \/ Buried(d.wallet, l)'
  <2>1. Holds(d.wallet, l, d.request)
    BY <1>2, HoldsStays
  <2> QED BY <2>1, BuriedStays
<1> QED BY <1>1, <1>2 DEF Waits

LEMMA WaitingStep ==
  ASSUME SInv, OInv, [Next]_vars
  PROVE  Waiting'
<1>1. ASSUME NEW c \in calls \cup checks, NEW d, d.wallet = c.wallet, d.request = c.request,
             d.keys = c.keys
      PROVE  Waits(d)'
  <2>1. c.request \in RequestIds /\ c.wallet \in Wallets
    BY DEF SInv, TypeOK, Shown, Call, StatusCheck
  <2>2. Waits(c)
    BY DEF OInv, Waiting
  <2>3. /\ requests[d.request].wallet = d.wallet
        /\ \A l \in Threads : Holds(d.wallet, l, d.request) => l \in d.keys \/ Buried(d.wallet, l)
    BY <1>1, <2>2 DEF Waits
  <2> QED BY <1>1, <2>1, <2>3, StillWaits DEF OInv
<1>2. ASSUME NEW w \in Wallets, NEW d, view[w] # None, Pending(w) # 0,
             d.wallet = w, d.request = Pending(w), d.keys = Keys(w)
      PROVE  Waits(d)'
  <2>1. /\ requests[d.request].wallet = d.wallet /\ d.request \in RequestIds
        /\ \A l \in Threads : Holds(d.wallet, l, d.request) => l \in d.keys \/ Buried(d.wallet, l)
    BY <1>2, KeysReach DEF OInv
  <2> QED BY <1>2, <2>1, StillWaits DEF OInv
<1>3. ASSUME NEW w \in Wallets, Send(w), NEW d, d.wallet = w, d.request = Len(requests) + 1,
             d.keys = Keys(w)
      PROVE  Waits(d)'
  <2>1. /\ DraftKey(w) \in Keys(w) /\ Keys(w) \subseteq Threads /\ drafts[w][DraftKey(w)] # None
        /\ requests'[d.request].wallet = w
        /\ requests'[d.request].text = drafts[w][DraftKey(w)].text
        /\ UNCHANGED drafts
    BY <1>3, SendStep
  <2>2. ASSUME NEW l \in Threads, Holds(w, l, d.request)' PROVE l \in Keys(w)
    <3>1. drafts[w][l] # None /\ drafts[w][l].text = drafts[w][DraftKey(w)].text
      BY <2>1, <2>2 DEF Holds
    <3>2. l = DraftKey(w)
      BY <2>1, <3>1 DEF OInv, Texts
    <3> QED BY <2>1, <3>2
  <2> QED BY <1>3, <2>1, <2>2 DEF Waits, Holds
<1>4. ASSUME NEW d \in calls' PROVE Waits(d)'
  <2>1. CASE Continued
    <3>1. PICK c \in calls : GoesOn(d, c)
      BY <2>1 DEF Continued
    <3> QED BY <3>1, <1>1 DEF GoesOn
  <2>2. ASSUME d \in calls PROVE Waits(d)'
    BY <1>1, <2>2
  <2>3. ASSUME NEW w \in Wallets, SendSaved(w), Posted(w, Pending(w), TRUE) PROVE Waits(d)'
    <3>1. view[w] # None /\ Pending(w) # 0
      BY <2>3 DEF SendSaved
    <3>2. d \in calls \/ (d.wallet = w /\ d.request = Pending(w) /\ d.keys = Keys(w))
      BY <2>3 DEF Posted
    <3> QED BY <3>1, <3>2, <2>2, <1>2
  <2>4. ASSUME NEW w \in Wallets, Send(w), Posted(w, Len(requests) + 1, FALSE) PROVE Waits(d)'
    <3>1. d \in calls \/ (d.wallet = w /\ d.request = Len(requests) + 1 /\ d.keys = Keys(w))
      BY <2>4 DEF Posted
    <3> QED BY <3>1, <2>2, <2>4, <1>3
  <2> QED BY <2>1, <2>3, <2>4, CallStep
<1>5. ASSUME NEW d \in checks' PROVE Waits(d)'
  <2>1. ASSUME NEW k \in checks, Checking(d, k) PROVE Waits(d)'
    BY <1>1, <2>1 DEF Checking
  <2>2. ASSUME NEW w \in Wallets, NEW n, d = CheckOf(w, n), view[w] # None, Pending(w) # 0
        PROVE  Waits(d)'
    BY <1>2, <2>2 DEF CheckOf
  <2> QED BY <2>1, <2>2, CheckStep
<1> QED BY <1>4, <1>5 DEF Waiting

LEMMA DeadStays ==
  ASSUME SInv, OInv, [Next]_vars, NEW i \in RequestIds, Dead(i)
  PROVE  Dead(i)'
<1>1. /\ ~Saved(i) /\ Copies(i) = {} /\ requests'[i] = requests[i] /\ i # 0
      /\ \A k \in Threads : pending[requests[i].wallet][k] # i
  BY RequestStep DEF Dead, RequestIds
<1>2. requests[i].wallet \in Wallets
  <2>1. requests[i] \in Request
    BY ElementOfSeq DEF SInv, TypeOK, RequestIds
  <2> QED BY <2>1 DEF Request
<1>3. ~Saved(i)'
  BY <1>1, SavedStep DEF Copies
<1>4. Copies(i)' = {}
  <2>1. CASE Continued
    BY <1>1, <2>1 DEF Continued, GoesOn, Copies
  <2>2. ASSUME NEW w \in Wallets, SendSaved(w), Posted(w, Pending(w), TRUE) PROVE Copies(i)' = {}
    <3>1. Pending(w) # i
      <4>1. PendingKey(w) \in Threads
        BY <2>2, KeysHeld DEF SInv, SendSaved
      <4> QED BY <4>1, <1>1, <2>2 DEF OInv, Receipts, SendSaved, Pending
    <3> QED BY <2>2, <3>1, <1>1 DEF Posted, Copies
  <2>3. ASSUME NEW w \in Wallets, Send(w), Posted(w, Len(requests) + 1, FALSE)
        PROVE  Copies(i)' = {}
    <3>1. Len(requests) + 1 # i
      BY DEF SInv, TypeOK, RequestIds
    <3> QED BY <2>3, <3>1, <1>1 DEF Posted, Copies
  <2> QED BY <2>1, <2>2, <2>3, CallStep
<1>5. \A k \in Threads : pending'[requests[i].wallet][k] # i
  <2>1. Len(requests) + 1 # i
    BY DEF SInv, TypeOK, RequestIds
  <2> QED BY <2>1, <1>1, <1>2, PendingStays
<1> QED BY <1>1, <1>3, <1>4, <1>5 DEF Dead

LEMMA DoneStays ==
  ASSUME SInv, OInv, [Next]_vars, NEW i \in RequestIds, Done(i)
  PROVE  Done(i)'
<1>1. requests'[i] = requests[i]
  BY RequestStep
<1>2. requests[i].wallet \in Wallets
  <2>1. requests[i] \in Request
    BY ElementOfSeq DEF SInv, TypeOK, RequestIds
  <2> QED BY <2>1 DEF Request
<1>3. ASSUME NEW k \in Threads, Holds(requests[i].wallet, k, i)' PROVE Buried(requests[i].wallet, k)'
  <2> DEFINE w == requests[i].wallet
  <2>1. w' = w
    BY <1>1
  <2>2. PICK v \in Wallets : v = w
    BY <1>2
  <2>3. Holds(v, k, i)'
    BY <1>3, <2>1, <2>2 DEF Holds
  <2>4. Holds(v, k, i)
    BY <2>3, HoldsStays DEF OInv
  <2>5. Buried(v, k)
    BY <2>2, <2>4 DEF Done
  <2>6. Buried(v, k)'
    BY <2>5, BuriedStays
  <2> QED BY <2>6, <2>1, <2>2 DEF Buried
<1> QED BY <1>3 DEF Done

(* The actions that write to the receipts. *)
LEMMA PendingBy ==
  ASSUME [Next]_vars, pending' # pending
  PROVE  \/ \E c \in calls : ReceiveAccepted(c) \/ ReceiveRefused(c) \/ ReceiveUnauthorized(c)
         \/ \E k \in checks : CheckReceived(k)
         \/ \E w \in Wallets : Send(w)
<1> USE DEF page
<1>1. ~ServiceStep /\ ~ServiceRestart /\ ~UNCHANGED vars
  BY DEF ServiceStep, ServiceRestart, vars
<1>2. \A c \in calls : ~ReceiveFailed(c) /\ ~GiveUp(c)
  BY DEF ReceiveFailed, GiveUp
<1>3. \A w : ~Connect(w) /\ ~SignOff(w) /\ ~SendSaved(w) /\ ~StartCheck(w)
  BY DEF Connect, SignOff, SendSaved, StartCheck
<1>4. \A k \in checks : ~AnswerCheck(k) /\ ~CheckRejected(k) /\ ~CheckMissing(k) /\ ~CheckFails(k)
  BY <1>3 DEF AnswerCheck, CheckRejected, CheckMissing, CheckFails
<1>5. \A w \in Wallets, t \in Threads : ~Open(w, t)
  BY DEF Open
<1>6. \A w \in Wallets, reply \in {0} \cup PostIds : ~Write(w, reply)
  BY DEF Write
<1> QED BY <1>1, <1>2, <1>3, <1>4, <1>5, <1>6 DEF Next, Receive, ReceiveCheck

(* What becomes of a request whose receipt is removed. *)
LEMMA ReceiptGone ==
  ASSUME SInv, OInv, [Next]_vars, NEW i \in RequestIds,
         NEW w \in Wallets, w = requests[i].wallet, NEW k \in Threads, pending[w][k] = i,
         pending'[w][k] # i
  PROVE  i \in Forgone' \/ Dead(i)' \/ Done(i)'
<1>1. /\ requests'[i] = requests[i] /\ i # 0 /\ i # Len(requests) + 1
      /\ pending \in [Wallets -> [Threads -> 0..MaxRequests]]
      /\ \A l \in Threads : pending[w][l] = i => l = k
  <2>1. /\ requests'[i] = requests[i] /\ i # 0 /\ i # Len(requests) + 1
        /\ pending \in [Wallets -> [Threads -> 0..MaxRequests]]
    BY RequestStep DEF SInv, TypeOK, RequestIds
  <2> QED BY <2>1 DEF OInv, Receipts
<1>2. ASSUME NEW c \in calls \cup checks, c.request = i, c.wallet = w,
             drafts' = WithoutText(w, i, c.keys)
      PROVE  Done(i)'
  <2> SUFFICES ASSUME NEW l \in Threads, drafts'[w][l] # None, drafts'[w][l].text = requests[i].text
               PROVE  Buried(w, l)'
    BY <1>1 DEF Done, Holds, Buried
  <2>1. drafts \in [Wallets -> [Threads -> Draft \cup {None}]]
    BY DEF SInv, TypeOK
  <2>2. Holds(w, l, i) /\ l \notin c.keys
    BY <2>1, <1>2 DEF WithoutText, Holds
  <2>3. Buried(w, l)
    BY <1>2, <2>2 DEF OInv, Waiting, Waits
  <2> QED BY <2>3, BuriedStays
<1>3. ASSUME NEW v, NEW key, pending' = [pending EXCEPT ![v][key] = 0]
      PROVE  v = w /\ key = k
  BY <1>1, <1>3
<1>4. ASSUME NEW c \in calls, ReceiveAccepted(c) PROVE i \in Forgone' \/ Done(i)'
  <2>1. /\ pending' = Removed(c) /\ drafts' = WithoutText(c.wallet, c.request, c.keys)
        /\ overtaken' = overtaken \cup ({pending[c.wallet][c.key]} \ {0, c.request})
    BY <1>4 DEF ReceiveAccepted
  <2>2. c.wallet = w /\ c.key = k
    BY <2>1, <1>3 DEF Removed
  <2>3. CASE c.request = i
    BY <2>1, <2>2, <2>3, <1>2
  <2>4. CASE c.request # i
    BY <2>1, <2>2, <2>4, <1>1 DEF Forgone
  <2> QED BY <2>3, <2>4
<1>5. ASSUME NEW c \in calls, ReceiveRefused(c) PROVE i \in Forgone' \/ Dead(i)'
  <2> DEFINE forget == c.current /\ ~c.saved
             final == Copies(c.request) = {c} /\ ~Saved(c.request)
  <2>1. /\ pending' = IF forget THEN Removed(c) ELSE pending
        /\ overtaken' = overtaken \cup {j \in {pending[c.wallet][c.key]} \ {0} :
                            forget /\ ~(j = c.request /\ final)}
        /\ calls' = calls \ {c} /\ UNCHANGED posts
    BY <1>5 DEF ReceiveRefused, service, store
  <2>2. forget /\ pending' = Removed(c)
    BY <2>1
  <2>3. c.wallet = w /\ c.key = k
    BY <2>2, <1>3 DEF Removed
  <2> HIDE DEF final, forget
  <2>4. CASE i = c.request /\ final
    <3>1. Copies(i)' = {}
      BY <2>1, <2>4 DEF Copies, final
    <3>2. ~Saved(i)'
      BY <2>1, <2>4 DEF Saved, PostIds, final
    <3>3. \A l \in Threads : pending'[w][l] # i
      BY <2>2, <2>3, <1>1 DEF Removed
    <3> QED BY <1>1, <3>1, <3>2, <3>3 DEF Dead
  <2>5. CASE ~(i = c.request /\ final)
    <3>1. i \in {j \in {pending[c.wallet][c.key]} \ {0} : forget /\ ~(j = c.request /\ final)}
      BY <2>2, <2>3, <2>5, <1>1
    <3>2. i \in overtaken'
      BY <2>1, <3>1
    <3> QED BY <3>2 DEF Forgone
  <2> QED BY <2>4, <2>5
<1>6. ASSUME NEW c \in calls, ReceiveUnauthorized(c) PROVE i \in Forgone'
  <2>1. pending' = Removed(c) /\ rejected' = rejected \cup ({pending[c.wallet][c.key]} \ {0})
    BY <1>6 DEF ReceiveUnauthorized
  <2>2. c.wallet = w /\ c.key = k
    BY <2>1, <1>3 DEF Removed
  <2> QED BY <1>1, <2>1, <2>2 DEF Forgone
<1>7. ASSUME NEW d \in checks, CheckReceived(d) PROVE i \in Forgone' \/ Done(i)'
  <2>1. /\ pending' = [pending EXCEPT ![d.wallet][d.key] = 0]
        /\ drafts' = WithoutText(d.wallet, d.request, d.keys)
        /\ overtaken' = overtaken \cup ({pending[d.wallet][d.key]} \ {0, d.request})
    BY <1>7 DEF CheckReceived
  <2>2. d.wallet = w /\ d.key = k
    BY <2>1, <1>3
  <2>3. CASE d.request = i
    BY <2>1, <2>2, <2>3, <1>2
  <2>4. CASE d.request # i
    BY <2>1, <2>2, <2>4, <1>1 DEF Forgone
  <2> QED BY <2>3, <2>4
<1>8. ASSUME NEW v \in Wallets, Send(v) PROVE FALSE
  <2>1. pending' = [pending EXCEPT ![v][view[v].at] = Len(requests) + 1] /\ pending[v][view[v].at] = 0
    BY <1>8, SendStep
  <2> QED BY <2>1, <1>1
<1>9. pending' # pending
  OBVIOUS
<1> QED BY <1>4, <1>5, <1>6, <1>7, <1>8, <1>9, PendingBy

LEMMA ForgoneStays ==
  ASSUME [Next]_vars
  PROVE  Forgone \subseteq Forgone'
<1> SUFFICES rejected \subseteq rejected' /\ overtaken \subseteq overtaken'
  BY DEF Forgone
<1> DEFINE Goal == rejected \subseteq rejected' /\ overtaken \subseteq overtaken'
<1> USE DEF page
<1>1. CASE ServiceStep \/ ServiceRestart \/ UNCHANGED vars
  BY <1>1 DEF ServiceStep, ServiceRestart, vars
<1>2. ASSUME NEW c \in calls, Receive(c) \/ GiveUp(c) PROVE Goal
  BY <1>2 DEF Receive, ReceiveAccepted, ReceiveRefused, ReceiveFailed, ReceiveUnauthorized, GiveUp
<1>3. ASSUME NEW w, Connect(w) \/ SignOff(w) \/ Send(w) \/ SendSaved(w) \/ StartCheck(w) PROVE Goal
  BY <1>3 DEF Connect, SignOff, Send, SendSaved, StartCheck
<1>4. ASSUME NEW k \in checks, AnswerCheck(k) \/ ReceiveCheck(k) PROVE Goal
  BY <1>4
  DEF AnswerCheck, ReceiveCheck, CheckRejected, SignOff, CheckReceived, CheckMissing, CheckFails
<1>5. ASSUME NEW w \in Wallets, NEW t \in Threads, Open(w, t) PROVE Goal
  BY <1>5 DEF Open
<1>6. ASSUME NEW w \in Wallets, NEW reply, Write(w, reply) PROVE Goal
  BY <1>6 DEF Write
<1> QED BY <1>1, <1>2, <1>3, <1>4, <1>5, <1>6 DEF Next

(* A request is made of a text when nothing will store an earlier one. *)
LEMMA EarlierSettled ==
  ASSUME SInv, OInv, [Next]_vars, NEW w \in Wallets, Send(w), NEW i \in RequestIds,
         requests[i].text = drafts[w][DraftKey(w)].text
  PROVE  i \in Forgone \/ Dead(i)
<1> DEFINE l == DraftKey(w)
<1>1. /\ view[w] # None /\ view[w].at \in Keys(w)
      /\ l \in Keys(w) /\ Keys(w) \subseteq Threads /\ drafts[w][l] # None
      /\ \A k \in Keys(w) : pending[w][k] = 0
  BY SendStep
<1>2. requests[i].wallet = w /\ Holds(w, l, i) /\ i # 0
  BY <1>1 DEF OInv, Texts, Holds, RequestIds
<1> HIDE DEF l
<1>3. ~Done(i)
  BY <1>1, <1>2, BuriedHidden DEF Done
<1>4. ASSUME NEW k \in Threads, pending[w][k] = i PROVE FALSE
  <2>1. k \notin Keys(w) /\ l # k
    BY <1>1, <1>2, <1>4
  <2>2. threads[l].redirect = k /\ view[w].at # l
    BY <1>1, <1>2, <1>4, <2>1 DEF OInv, Receipts
  <2>3. threads[l].redirect = view[w].at
    BY <1>1, <2>2 DEF Keys, SInv, Shown
  <2> QED BY <1>1, <2>1, <2>2, <2>3
<1> QED BY <1>2, <1>3, <1>4 DEF OInv, Settled

LEMMA SettledStep ==
  ASSUME SInv, OInv, [Next]_vars
  PROVE  Settled'
<1>1. /\ Len(requests) \in Nat
      /\ \A i \in RequestIds : requests'[i] = requests[i]
      /\ \A i \in RequestIds' : \/ i \in RequestIds
                                \/ i = Len(requests) + 1 /\ \E w \in Wallets : Send(w)
  <2>1. Len(requests) \in Nat /\ \A i \in RequestIds : requests'[i] = requests[i]
    BY RequestStep
  <2>2. UNCHANGED requests \/ \E w \in Wallets : Send(w) /\ Len(requests') = Len(requests) + 1
    BY RequestStep
  <2> QED BY <2>1, <2>2 DEF RequestIds
<1>2. \A i \in RequestIds : requests[i].wallet \in Wallets
  <2>1. \A i \in RequestIds : requests[i] \in Request
    BY ElementOfSeq DEF SInv, TypeOK, RequestIds
  <2> QED BY <2>1 DEF Request
<1>3. ASSUME NEW i \in RequestIds'
      PROVE  \/ i \in Forgone' \/ Dead(i)' \/ Done(i)'
             \/ \E k \in Threads : pending'[requests'[i].wallet][k] = i
  <2>1. CASE i \in RequestIds
    <3>1. CASE i \in Forgone
      BY <3>1, ForgoneStays
    <3>2. CASE Dead(i)
      BY <2>1, <3>2, DeadStays
    <3>3. CASE Done(i)
      BY <2>1, <3>3, DoneStays
    <3>4. ASSUME NEW k \in Threads, pending[requests[i].wallet][k] = i,
                 pending'[requests[i].wallet][k] # i
          PROVE  i \in Forgone' \/ Dead(i)' \/ Done(i)'
      BY <1>2, <2>1, <3>4, ReceiptGone
    <3> QED BY <1>1, <2>1, <3>1, <3>2, <3>3, <3>4 DEF OInv, Settled
  <2>2. ASSUME NEW w \in Wallets, Send(w), i = Len(requests) + 1
        PROVE  \E k \in Threads : pending'[requests'[i].wallet][k] = i
    <3>1. /\ requests'[i].wallet = w /\ view[w].at \in Threads
          /\ pending' = [pending EXCEPT ![w][view[w].at] = i]
      BY <2>2, SendStep
    <3> QED BY <3>1 DEF SInv, TypeOK
  <2> QED BY <1>1, <2>1, <2>2
<1>4. ASSUME NEW i \in RequestIds', NEW j \in RequestIds', i < j, requests'[i].text = requests'[j].text
      PROVE  i \in Forgone' \/ Dead(i)'
  <2>1. i \in RequestIds
    BY <1>1, <1>4 DEF RequestIds
  <2>2. CASE j \in RequestIds
    BY <1>1, <1>4, <2>1, <2>2, ForgoneStays, DeadStays DEF OInv, Settled
  <2>3. ASSUME NEW w \in Wallets, Send(w), j = Len(requests) + 1
        PROVE  i \in Forgone' \/ Dead(i)'
    <3>1. requests[i].text = drafts[w][DraftKey(w)].text
      BY <1>1, <1>4, <2>1, <2>3, SendStep
    <3>2. i \in Forgone \/ Dead(i)
      BY <2>1, <2>3, <3>1, EarlierSettled
    <3> QED BY <2>1, <3>2, ForgoneStays, DeadStays
  <2> QED BY <1>1, <2>2, <2>3
<1> QED BY <1>3, <1>4 DEF Settled

LEMMA StoredStep ==
  ASSUME SInv, OInv, [Next]_vars
  PROVE  StoredOnce'
<1>1. /\ Len(requests) \in Nat /\ Len(requests') \in Nat /\ Len(requests) <= Len(requests')
      /\ posts \in Seq(Post) /\ PostIds \subseteq PostIds'
      /\ \A p \in PostIds : posts'[p].request = posts[p].request
      /\ \A p \in PostIds' : p \in PostIds \/ p = Len(posts) + 1
  <2>1. /\ requests' \in Seq(Request) /\ Len(requests) \in Nat
        /\ requests' = requests \/ Len(requests') = Len(requests) + 1
    BY RequestStep
  <2>2. /\ posts \in Seq(Post)
        /\ \A p \in PostIds : posts'[p].request = posts[p].request
        /\ \A p \in PostIds' \ PostIds : p = Len(posts) + 1
    BY StoreStep DEF SInv, TypeOK, Followed
  <2>3. PostIds \subseteq PostIds'
    BY <2>2, StoreStep DEF PostIds, Followed
  <2> QED BY <2>1, <2>2, <2>3
<1>2. /\ \A p \in PostIds : posts[p].request \in 0..Len(requests)
      /\ \A p, q \in PostIds : posts[p].request # 0 /\ posts[p].request = posts[q].request => p = q
  BY DEF OInv, StoredOnce
<1>3. ASSUME NEW p \in PostIds' \ PostIds, posts'[p].request # 0
      PROVE  posts'[p].request \in 0..Len(requests) /\ ~Saved(posts'[p].request)
  <2>1. PICK c \in calls : AddPost(c) /\ posts' # posts
    BY <1>3, StoreStep
  <2>2. posts'[p].request = c.request /\ ~Saved(c.request)
    BY <1>1, <2>1, Admitted DEF SInv
  <2>3. c.request \in 0..Len(requests)
    BY <1>1 DEF SInv, Shown, RequestIds
  <2> QED BY <2>2, <2>3
<1>4. \A p \in PostIds' : posts'[p].request \in 0..Len(requests')
  <2>1. \A p \in PostIds' : posts'[p].request \in 0..Len(requests)
    BY <1>1, <1>2, <1>3
  <2> QED BY <1>1, <2>1
<1>5. ASSUME NEW p \in PostIds', NEW q \in PostIds', posts'[p].request # 0,
             posts'[p].request = posts'[q].request
      PROVE  p = q
  <2>1. CASE p \in PostIds /\ q \in PostIds
    BY <1>1, <1>2, <1>5, <2>1
  <2>2. CASE p \notin PostIds /\ q \notin PostIds
    BY <1>1, <2>2
  <2>3. CASE p \in PostIds /\ q \notin PostIds
    BY <1>1, <1>3, <1>5, <2>3 DEF Saved
  <2>4. CASE p \notin PostIds /\ q \in PostIds
    BY <1>1, <1>3, <1>5, <2>4 DEF Saved
  <2> QED BY <2>1, <2>2, <2>3, <2>4
<1> QED BY <1>4, <1>5 DEF StoredOnce

LEMMA InitOInv ==
  ASSUME Init
  PROVE  OInv
<1> USE DEF Init, StoreInit
<1>1. RequestIds = {} /\ PostIds = {}
  BY DEF RequestIds, PostIds
<1> QED BY <1>1 DEF OInv, Texts, Receipts, Waiting, Settled, StoredOnce

(* A text is posted once, however many calls and checks a page waits for    *)
(* and however often an answer is lost and the saved request sent again,    *)
(* unless the receipt of a request was removed because a session was        *)
(* rejected or with an answer that was not its last (send and checkReply in *)
(* discussions.mjs).                                                        *)
THEOREM OnePost == Spec => []PostedOnce
<1>1. Init => OInv
  BY InitOInv
<1>2. SInv /\ OInv /\ [Next]_vars => OInv'
  BY TextsStep, ReceiptsStep, WaitingStep, SettledStep, StoredStep DEF OInv
<1>3. SInv /\ OInv => PostedOnce
  <2> SUFFICES ASSUME SInv, OInv, NEW p \in PostIds, NEW q \in PostIds, p # q,
                      posts[p].request # 0, posts[q].request # 0,
                      requests[posts[p].request].text = requests[posts[q].request].text
               PROVE  {posts[p].request, posts[q].request} \cap (rejected \cup overtaken) # {}
    BY DEF PostedOnce
  <2> DEFINE i == posts[p].request
             j == posts[q].request
  <2>1. i \in RequestIds /\ j \in RequestIds /\ i # j
    BY DEF OInv, StoredOnce, RequestIds, SInv, TypeOK
  <2>2. ~Dead(i) /\ ~Dead(j)
    BY DEF Dead, Saved
  <2>3. i < j \/ j < i
    BY <2>1 DEF RequestIds
  <2> HIDE DEF i, j
  <2>4. i \in Forgone \/ j \in Forgone
    <3>1. requests[i].text = requests[j].text
      BY DEF i, j
    <3> QED BY <2>1, <2>2, <2>3, <3>1 DEF OInv, Settled
  <2> QED BY <2>4 DEF i, j, Forgone
<1> QED BY <1>1, <1>2, <1>3, Correct, PTL DEF Spec

=============================================================================
