------------------------------ MODULE StwServer ------------------------------
(***************************************************************************)
(* The application servers (stwserver/stwserver_impl.go): users, their     *)
(* subscriptions, posts and timelines, kept in the storage servers under   *)
(* the keys of util/keyFormatter.go.  An app server has no state of its    *)
(* own here, so the model is of the handlers: every RPC runs in a          *)
(* goroutine, makes one storage call after the other and may be anywhere   *)
(* between two of them when another handler, of the same or another app    *)
(* server, takes its step; and it may die there with its server.           *)
(* WebServer makes the calls.                                              *)
(*                                                                         *)
(* An update is one step on the atomic store that LeaseSystem implements.  *)
(* A read is answered by the libstore of the app server, which may do so   *)
(* from a leased copy; Overtaken, LeaseSlides and EmptyAppend show copies  *)
(* that outlast an update.  So here any update may leave what was there    *)
(* before behind in any libstore, until the libstore lets it go.  A storage *)
(* call may also fail with an error, whether it was carried out or not.    *)
(* A list that does not exist and an empty one are treated alike by all    *)
(* handlers: both are the empty set.                                       *)
(*                                                                         *)
(* A post key is a user and a time (FormatPostKey, ParsePostKey).  No two  *)
(* posts read the same time.Now().UnixNano(): the code relies on it too.   *)
(***************************************************************************)
EXTENDS Integers, FiniteSets

CONSTANTS
  Users,
  Handlers,      \* goroutines that serve RPCs
  Apps,          \* app servers, each with a libstore
  AppOf,         \* AppOf[u]: stwServers[RequestHash(u) % len(stwServers)]
  NoKey,         \* the key of a call that has none, or one that ParsePostKey rejects
  MaxTime,       \* bound: times handed out by the clock
  Limit,         \* posts in a timeline (100)
  MaxFaults,     \* bound: storage calls that fail and app servers that die
  MaxTrouble     \* bound: these, together with the copies in libstores that are out of date

Ops == {"CreateUser", "Subscribe", "Unsubscribe", "Post", "DeletePost", "Timeline", "HomeTimeline"}
PostKeys == [user: Users, time: 1 .. MaxTime]

ASSUME StwAssumption ==
  /\ Users # {} /\ NoKey \notin PostKeys
  /\ AppOf \in [Users -> Apps]
  /\ MaxTime \in Nat /\ MaxFaults \in Nat /\ MaxTrouble \in Nat
  /\ Limit \in Nat \ {0}

VARIABLES
  users,      \* users u with a value under "u:usrid"
  subs,       \* subs[u]: the list "u:sublist"
  postlist,   \* postlist[u]: the list "u:postlist"
  posts,      \* post keys with a value
  seenSubs,   \* seenSubs[a][u]: what the libstore of a answers to GetList("u:sublist")
  seenLists,  \* seenLists[a][u]: what it answers to GetList("u:postlist")
  oldPosts,   \* oldPosts[a]: deleted posts that it still has
  clock,      \* the latest time handed out
  job,        \* job[h]: the RPC of handler h, and how far it has come
  status,     \* status[h]: the reply of h's latest RPC
  faults

caches == <<seenSubs, seenLists, oldPosts>>
store == <<users, subs, postlist, posts, caches>>
stwVars == <<store, clock, job, status, faults>>

Steps == {"user", "putUser", "target", "sublist", "put", "append", "unlist", "delete",
          "list", "subs", "lists", "fetch", "done"}
Statuses == {"none", "OK", "Exists", "NoSuchUser", "NoSuchTargetUser", "NoSuchPost", "Error"}

\* todo: subscriptions whose list is still to be read; keys: posts still to be read;
\* got: posts in the reply so far.
Job == [op: Ops \cup {"none"}, user: Users, target: Users, key: PostKeys \cup {NoKey}, pc: Steps,
        todo: SUBSET Users, keys: SUBSET PostKeys, got: SUBSET PostKeys]

StwTypeOK ==
  /\ users \in SUBSET Users
  /\ subs \in [Users -> SUBSET Users]
  /\ postlist \in [Users -> SUBSET PostKeys]
  /\ posts \in SUBSET PostKeys
  /\ seenSubs \in [Apps -> [Users -> SUBSET Users]]
  /\ seenLists \in [Apps -> [Users -> SUBSET PostKeys]]
  /\ oldPosts \in [Apps -> SUBSET PostKeys]
  /\ clock \in 0 .. MaxTime
  /\ job \in [Handlers -> Job] /\ \A h \in Handlers : Cardinality(job[h].got) <= Limit
  /\ status \in [Handlers -> Statuses]
  /\ faults \in 0 .. MaxFaults

NewJob(c, pc) ==
  [op |-> c.op, user |-> c.user, target |-> c.target, key |-> c.key, pc |-> pc,
   todo |-> {}, keys |-> {}, got |-> {}]

NoJob ==
  LET u == CHOOSE u \in Users : TRUE
  IN NewJob([op |-> "none", user |-> u, target |-> u, key |-> NoKey], "done")

StwInit ==
  /\ users = {}
  /\ subs = [u \in Users |-> {}]
  /\ postlist = [u \in Users |-> {}]
  /\ posts = {}
  /\ seenSubs = [a \in Apps |-> subs]
  /\ seenLists = [a \in Apps |-> postlist]
  /\ oldPosts = [a \in Apps |-> {}]
  /\ clock = 0
  /\ job = [h \in Handlers |-> NoJob]
  /\ status = [h \in Handlers |-> "none"]
  /\ faults = 0

-----------------------------------------------------------------------------
(* The ways a handler goes on.                                             *)

At(h, op, pc) == job[h].op = op /\ job[h].pc = pc

Goto(h, pc) == job' = [job EXCEPT ![h].pc = pc] /\ UNCHANGED status

Return(h, st) ==
  /\ job' = [job EXCEPT ![h].pc = "done", ![h].todo = {}, ![h].keys = {}]
  /\ status' = [status EXCEPT ![h] = st]

Stale ==
  Cardinality({p \in Apps \X Users : seenSubs[p[1]][p[2]] # subs[p[2]]})
    + Cardinality({p \in Apps \X Users : seenLists[p[1]][p[2]] # postlist[p[2]]})
    + Cardinality({p \in Apps \X PostKeys : p[2] \in oldPosts[p[1]]})

\* A storage call fails with an error, or an app server dies.
Fault == faults < MaxFaults /\ faults + Stale < MaxTrouble /\ faults' = faults + 1

Busy(h) == job[h].pc # "done"

Begin(h, c) ==
  /\ ~Busy(h)
  /\ job' = [job EXCEPT ![h] = NewJob(c, "user")]
  /\ status' = [status EXCEPT ![h] = "none"]
  /\ UNCHANGED <<store, clock, faults>>

\* All handlers begin with Get of the user key, and take any error for its absence.
NoUser(h) ==
  /\ job[h].pc = "user"
  /\ \/ job[h].user \notin users /\ UNCHANGED faults
     \/ Fault
  /\ IF job[h].op = "CreateUser" THEN Goto(h, "putUser") ELSE Return(h, "NoSuchUser")
  /\ UNCHANGED <<store, clock>>

IsUser(h) ==
  LET j == job[h] IN
  /\ j.pc = "user" /\ j.user \in users
  /\ CASE j.op = "CreateUser"                   -> Return(h, "Exists")
       [] j.op \in {"Subscribe", "Unsubscribe"} -> Goto(h, "target")
       [] j.op = "Post"                         -> Goto(h, "put")
       [] j.op = "DeletePost"                   -> IF j.key # NoKey /\ j.key.user = j.user
                                                   THEN Goto(h, "unlist")
                                                   ELSE Return(h, "NoSuchPost")
       [] j.op = "Timeline"                     -> Goto(h, "list")
       [] j.op = "HomeTimeline"                 -> Goto(h, "subs")
  /\ UNCHANGED <<store, clock, faults>>

\* The RPCs of D fail: their app server has died, or cannot be reached.
HandlersDie(D) ==
  /\ job' = [h \in Handlers |-> IF h \in D THEN NoJob ELSE job[h]]
  /\ status' = [h \in Handlers |-> IF h \in D THEN "Error" ELSE status[h]]
  /\ UNCHANGED <<store, clock>>

-----------------------------------------------------------------------------
(* What the libstores answer.                                              *)

\* The libstore that reads for handler h.
Libstore(h) == AppOf[job[h].user]

\* u's subscriptions have been updated; the libstores of A keep the copy that they have.
SubsSeen(u) ==
  /\ \E A \in SUBSET Apps : seenSubs' =
       [a \in Apps |-> IF a \in A THEN seenSubs[a] ELSE [seenSubs[a] EXCEPT ![u] = subs'[u]]]
  /\ UNCHANGED <<seenLists, oldPosts>>
  /\ faults' + Stale' <= MaxTrouble

\* So has u's list of posts.
ListSeen(u) ==
  /\ \E A \in SUBSET Apps : seenLists' =
       [a \in Apps |-> IF a \in A THEN seenLists[a] ELSE [seenLists[a] EXCEPT ![u] = postlist'[u]]]
  /\ UNCHANGED <<seenSubs, oldPosts>>
  /\ faults' + Stale' <= MaxTrouble

\* The contents of post k may have been deleted.
GoneSeen(k) ==
  /\ \E A \in SUBSET Apps : oldPosts' =
       [a \in Apps |-> IF a \in A /\ k \in posts \ posts' THEN oldPosts[a] \cup {k} ELSE oldPosts[a]]
  /\ UNCHANGED <<seenSubs, seenLists>>
  /\ faults' + Stale' <= MaxTrouble

\* A lease expires or is revoked, or the recycler takes the copy.
ForgetSubs(a, u) ==
  /\ seenSubs[a][u] # subs[u]
  /\ seenSubs' = [seenSubs EXCEPT ![a][u] = subs[u]]
  /\ UNCHANGED <<users, subs, postlist, posts, seenLists, oldPosts, clock, job, status, faults>>

ForgetList(a, u) ==
  /\ seenLists[a][u] # postlist[u]
  /\ seenLists' = [seenLists EXCEPT ![a][u] = postlist[u]]
  /\ UNCHANGED <<users, subs, postlist, posts, seenSubs, oldPosts, clock, job, status, faults>>

ForgetPost(a, k) ==
  /\ oldPosts' = [oldPosts EXCEPT ![a] = @ \ {k}]
  /\ UNCHANGED <<users, subs, postlist, posts, seenSubs, seenLists, clock, job, status, faults>>

Forget(a) ==
  \/ \E u \in Users : ForgetSubs(a, u) \/ ForgetList(a, u)
  \/ \E k \in oldPosts[a] : ForgetPost(a, k)

\* A libstore that has just been started.
Forgotten(a) ==
  /\ seenSubs' = [seenSubs EXCEPT ![a] = subs]
  /\ seenLists' = [seenLists EXCEPT ![a] = postlist]
  /\ oldPosts' = [oldPosts EXCEPT ![a] = {}]
  /\ UNCHANGED <<users, subs, postlist, posts, clock, job, status, faults>>

-----------------------------------------------------------------------------
(* Users and subscriptions.                                                *)

\* CreateUser ignores what Put returns.
CreateUser(h) ==
  /\ At(h, "CreateUser", "putUser")
  /\ \/ users' = users \cup {job[h].user} /\ UNCHANGED faults
     \/ Fault /\ users' \in {users, users \cup {job[h].user}}
  /\ Return(h, "OK")
  /\ UNCHANGED <<subs, postlist, posts, caches, clock>>

\* Mutant: the target user is not looked up.
GetTargetUnchecked(h) ==
  /\ job[h].pc = "target"
  /\ Goto(h, "sublist")
  /\ UNCHANGED <<store, clock, faults>>

GetTarget(h) ==
  /\ job[h].pc = "target"
  /\ \/ job[h].target \in users /\ Goto(h, "sublist") /\ UNCHANGED faults
     \/ job[h].target \notin users /\ Return(h, "NoSuchTargetUser") /\ UNCHANGED faults
     \/ Fault /\ Return(h, "NoSuchTargetUser")
  /\ UNCHANGED <<store, clock>>

\* AppendToList(slistKey, target); whatever goes wrong is reported as Exists.
Subscribe(h) ==
  LET u == job[h].user
      t == job[h].target
  IN
  /\ At(h, "Subscribe", "sublist")
  /\ \/ /\ t \notin subs[u]
        /\ subs' = [subs EXCEPT ![u] = @ \cup {t}]
        /\ Return(h, "OK")
        /\ UNCHANGED faults
     \/ t \in subs[u] /\ Return(h, "Exists") /\ UNCHANGED <<subs, faults>>
     \/ /\ Fault
        /\ subs' \in {subs, [subs EXCEPT ![u] = @ \cup {t}]}
        /\ Return(h, "Exists")
  /\ UNCHANGED <<users, postlist, posts, clock>>
  /\ SubsSeen(u)

\* RemoveFromList(slistKey, target); whatever goes wrong is reported as NoSuchTargetUser.
Unsubscribe(h) ==
  LET u == job[h].user
      t == job[h].target
  IN
  /\ At(h, "Unsubscribe", "sublist")
  /\ \/ t \in subs[u] /\ subs' = [subs EXCEPT ![u] = @ \ {t}] /\ Return(h, "OK") /\ UNCHANGED faults
     \/ t \notin subs[u] /\ Return(h, "NoSuchTargetUser") /\ UNCHANGED <<subs, faults>>
     \/ /\ Fault
        /\ subs' \in {subs, [subs EXCEPT ![u] = @ \ {t}]}
        /\ Return(h, "NoSuchTargetUser")
  /\ UNCHANGED <<users, postlist, posts, clock>>
  /\ SubsSeen(u)

-----------------------------------------------------------------------------
(* Posts.                                                                  *)

\* Mutant: the key is put in the list before the post is stored.
PutPostLater(h) ==
  LET k == [user |-> job[h].user, time |-> clock + 1] IN
  /\ At(h, "Post", "put") /\ clock < MaxTime
  /\ clock' = clock + 1
  /\ job' = [job EXCEPT ![h].pc = "append", ![h].key = k]
  /\ postlist' = [postlist EXCEPT ![k.user] = @ \cup {k}]
  /\ UNCHANGED <<users, subs, posts, status, faults>>
  /\ ListSeen(k.user)

\* The key is made from the clock, and the contents stored.  What Put returns is ignored.
PutPost(h) ==
  LET k == [user |-> job[h].user, time |-> clock + 1] IN
  /\ At(h, "Post", "put") /\ clock < MaxTime
  /\ clock' = clock + 1
  /\ job' = [job EXCEPT ![h].pc = "append", ![h].key = k]
  /\ \/ posts' = posts \cup {k} /\ UNCHANGED faults
     \/ Fault /\ posts' \in {posts, posts \cup {k}}
  /\ UNCHANGED <<users, subs, postlist, caches, status>>

\* The key is added to the user's list.  What AppendToList returns is ignored.
Post(h) ==
  LET k == job[h].key
      listed == [postlist EXCEPT ![k.user] = @ \cup {k}]
  IN
  /\ At(h, "Post", "append")
  /\ \/ postlist' = listed /\ UNCHANGED faults
     \/ Fault /\ postlist' \in {postlist, listed}
  /\ Return(h, "OK")
  /\ UNCHANGED <<users, subs, posts, clock>>
  /\ ListSeen(k.user)

\* DeletePost: first the list,
Unlist(h) ==
  LET k == job[h].key
      unlisted == [postlist EXCEPT ![k.user] = @ \ {k}]
  IN
  /\ At(h, "DeletePost", "unlist")
  /\ \/ k \in postlist[k.user] /\ postlist' = unlisted /\ Goto(h, "delete") /\ UNCHANGED faults
     \/ k \notin postlist[k.user] /\ Return(h, "NoSuchPost") /\ UNCHANGED <<postlist, faults>>
     \/ Fault /\ postlist' \in {postlist, unlisted} /\ Return(h, "NoSuchPost")
  /\ UNCHANGED <<users, subs, posts, clock>>
  /\ ListSeen(k.user)

\* Mutant: the contents are left in the store.
DeletePostListOnly(h) ==
  /\ At(h, "DeletePost", "delete")
  /\ Return(h, "OK")
  /\ UNCHANGED <<store, clock, faults>>

\* then the contents.
DeletePost(h) ==
  LET k == job[h].key IN
  /\ At(h, "DeletePost", "delete")
  /\ \/ k \in posts /\ posts' = posts \ {k} /\ Return(h, "OK") /\ UNCHANGED faults
     \/ k \notin posts /\ Return(h, "NoSuchPost") /\ UNCHANGED <<posts, faults>>
     \/ Fault /\ posts' \in {posts, posts \ {k}} /\ Return(h, "NoSuchPost")
  /\ UNCHANGED <<users, subs, postlist, clock>>
  /\ GoneSeen(k)

-----------------------------------------------------------------------------
(* Timelines.                                                              *)

\* Mutant: the list is not sorted before it is cut.
NewestAny(S) == {T \in SUBSET S : Cardinality(T) <= Limit}

\* The choices of Limit newest keys of S (sort.Sort by time, which leaves ties open).
Newest(S) ==
  {T \in SUBSET S :
     /\ Cardinality(T) = IF Cardinality(S) < Limit THEN Cardinality(S) ELSE Limit
     /\ \A k \in T, l \in S \ T : k.time >= l.time}

\* The posts T are to be read next; a timeline without any more is complete.
Fetching(h, T) ==
  IF T = {} THEN Return(h, "OK")
  ELSE /\ job' = [job EXCEPT ![h].pc = "fetch", ![h].todo = {}, ![h].keys = T]
       /\ UNCHANGED status

ReadList(h) ==
  /\ At(h, "Timeline", "list")
  /\ \/ /\ \E T \in Newest(seenLists[Libstore(h)][job[h].user]) : Fetching(h, T)
        /\ UNCHANGED faults
     \/ Fault /\ Return(h, "OK")
  /\ UNCHANGED <<store, clock>>

\* A list that cannot be read counts as empty, so no subscriptions, no posts.
ReadSubs(h) ==
  LET todo == seenSubs[Libstore(h)][job[h].user] IN
  /\ At(h, "HomeTimeline", "subs")
  /\ \/ todo # {} /\ job' = [job EXCEPT ![h].pc = "lists", ![h].todo = todo] /\ UNCHANGED <<status, faults>>
     \/ todo = {} /\ Return(h, "OK") /\ UNCHANGED faults
     \/ Fault /\ Return(h, "OK")
  /\ UNCHANGED <<store, clock>>

\* Mutant: the merged list is not cut again.
MergeUncut(S) == {S}

\* All subscriptions' lists in one: sorted and cut again.
Merge(S) == Newest(S)

\* The next subscription: its newest posts, or nothing if its list cannot be read.
ReadSubscription(h) ==
  LET list == seenLists[Libstore(h)] IN
  /\ At(h, "HomeTimeline", "lists")
  /\ \E t \in job[h].todo : \E T \in Newest(list[t]) \cup {{}} :
       LET keys == job[h].keys \cup T IN
       /\ \/ T \in Newest(list[t]) /\ UNCHANGED faults
          \/ T = {} /\ Fault
       /\ IF job[h].todo = {t}
          THEN \E cut \in Merge(keys) : Fetching(h, cut)
          ELSE job' = [job EXCEPT ![h].todo = @ \ {t}, ![h].keys = keys] /\ UNCHANGED status
  /\ UNCHANGED <<store, clock>>

\* The contents of the posts, newest first.  One that is not there ends the call.
Fetch(h) ==
  LET ks == job[h].keys
      there == posts \cup oldPosts[Libstore(h)]
  IN
  /\ job[h].pc = "fetch"
  /\ \E k \in ks :
       /\ \A l \in ks : l.time <= k.time
       /\ \/ /\ k \in there
             /\ job' = [job EXCEPT ![h].pc = IF ks = {k} THEN "done" ELSE "fetch",
                                   ![h].keys = @ \ {k}, ![h].got = @ \cup {k}]
             /\ status' = [status EXCEPT ![h] = IF ks = {k} THEN "OK" ELSE @]
             /\ UNCHANGED faults
          \/ k \notin there /\ Return(h, "Error") /\ UNCHANGED faults
          \/ Fault /\ Return(h, "Error")
  /\ UNCHANGED <<store, clock>>

-----------------------------------------------------------------------------
Step(h) ==
  \/ NoUser(h) \/ IsUser(h)
  \/ CreateUser(h) \/ GetTarget(h) \/ Subscribe(h) \/ Unsubscribe(h)
  \/ PutPost(h) \/ Post(h) \/ Unlist(h) \/ DeletePost(h)
  \/ ReadList(h) \/ ReadSubs(h) \/ ReadSubscription(h) \/ Fetch(h)
=============================================================================
