------------------------------ MODULE FeedProofs ------------------------------
(***************************************************************************)
(* What follows from Feed, for any set of users and any number of posts.   *)
(* WebServer implements Feed, so it holds of the app servers as well.      *)
(***************************************************************************)
EXTENDS Feed, TLAPS

PostKey == [user: Users, time: Nat]

FeedType ==
  /\ users \in SUBSET Users
  /\ subs \in [Users -> SUBSET Users]
  /\ postlist \in [Users -> SUBSET PostKey]
  /\ drafts \in SUBSET PostKey
  /\ clock \in Nat

\* Only users follow, and only users are followed.
Relations == \A u \in Users : \A t \in subs[u] : u \in users /\ t \in users

\* A post stands in the list of its own user, who has signed up, and is not a draft.
Posted ==
  \A u \in Users : \A k \in postlist[u] : k.user = u /\ u \in users /\ k.time <= clock /\ k \notin drafts

Drafted == \A k \in drafts : k.user \in users /\ k.time <= clock

FeedInv == FeedType /\ Relations /\ Posted /\ Drafted

LEMMA FeedInit == Init => FeedInv
BY DEF Init, FeedInv, FeedType, Relations, Posted, Drafted

LEMMA FeedStep == FeedInv /\ [Next]_feed => FeedInv'
<1> SUFFICES ASSUME FeedInv, [Next]_feed PROVE FeedInv'
  OBVIOUS
<1> USE DEF FeedInv, FeedType, Relations, Posted, Drafted, PostKey
<1>1. ASSUME NEW u \in Users, SignUp(u) PROVE FeedInv'
  BY <1>1 DEF SignUp
<1>2. ASSUME NEW u \in Users, Draft(u) PROVE FeedInv'
  <2> DEFINE k == [user |-> u, time |-> clock + 1]
  <2>1. k \in PostKey /\ k.user \in users /\ k.time <= clock + 1
    BY <1>2 DEF Draft
  <2>2. \A v \in Users : k \notin postlist[v]
    OBVIOUS
  <2>3. drafts' = drafts \cup {k} /\ clock' = clock + 1 /\ UNCHANGED <<users, subs, postlist>>
    BY <1>2 DEF Draft
  <2> HIDE DEF k
  <2> QED BY <2>1, <2>2, <2>3
<1>3. ASSUME NEW u \in Users, NEW t \in Users, Follow(u, t) PROVE FeedInv'
  BY <1>3 DEF Follow
<1>4. ASSUME NEW u \in Users, NEW t \in Users, Unfollow(u, t) PROVE FeedInv'
  BY <1>4 DEF Unfollow
<1>5. ASSUME NEW k \in drafts, Publish(k) PROVE FeedInv'
  BY <1>5 DEF Publish
<1>6. ASSUME NEW K \in SUBSET drafts, Abandon(K) PROVE FeedInv'
  BY <1>6 DEF Abandon
<1>7. ASSUME NEW u \in Users, NEW k \in postlist[u], Retract(k) PROVE FeedInv'
  BY <1>7 DEF Retract
<1>8. CASE UNCHANGED feed
  BY <1>8 DEF feed
<1> QED BY <1>1, <1>2, <1>3, <1>4, <1>5, <1>6, <1>7, <1>8 DEF Next

\* Relations stay among users, and lists hold their own users' posts, whatever Subscribe,
\* Unsubscribe, Post and DeletePost of the app servers do.
THEOREM FeedInvariance == Spec => []FeedInv
BY FeedInit, FeedStep, PTL DEF Spec

\* A post that had its time, and is neither listed nor about to be.
Gone(k) == k.time <= clock /\ k \notin drafts /\ k \notin postlist[k.user]

\* What DeletePost has unlisted, or Post has given up, is not listed again.
GoneForGood == [][\A k \in PostKey : Gone(k) => Gone(k)']_feed

\* A post that is neither drafted nor listed, once its time is over, never is again: DeletePost is final.
THEOREM PostsStayGone == Spec => GoneForGood
<1>1. FeedInv /\ [Next]_feed => [\A k \in PostKey : Gone(k) => Gone(k)']_feed
  <2> SUFFICES ASSUME FeedInv, Next, NEW k \in PostKey, Gone(k) PROVE Gone(k)'
    BY DEF feed
  <2> USE DEF FeedInv, FeedType, PostKey, Gone
  <2>1. ASSUME NEW u \in Users, SignUp(u) \/ Draft(u) PROVE Gone(k)'
    BY <2>1 DEF SignUp, Draft
  <2>2. ASSUME NEW u \in Users, NEW t \in Users, Follow(u, t) \/ Unfollow(u, t) PROVE Gone(k)'
    BY <2>2 DEF Follow, Unfollow
  <2>3. ASSUME NEW d \in drafts, Publish(d) PROVE Gone(k)'
    BY <2>3 DEF Publish
  <2>4. ASSUME NEW K \in SUBSET drafts, Abandon(K) PROVE Gone(k)'
    BY <2>4 DEF Abandon
  <2>5. ASSUME NEW u \in Users, NEW d \in postlist[u], Retract(d) PROVE Gone(k)'
    BY <2>5 DEF Retract
  <2> QED BY <2>1, <2>2, <2>3, <2>4, <2>5 DEF Next
<1> QED BY <1>1, FeedInvariance, PTL DEF Spec, GoneForGood
=============================================================================
