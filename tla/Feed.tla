--------------------------------- MODULE Feed ---------------------------------
(***************************************************************************)
(* What the app servers promise together, each operation in one step:      *)
(* users sign up and stay; only users follow, and only users; a post is    *)
(* drafted with a time of its own, then published at most once; one that   *)
(* has been retracted, or never made it, does not come back.               *)
(***************************************************************************)
EXTENDS Integers

CONSTANT Users

VARIABLES
  users,      \* who has signed up
  subs,       \* subs[u]: whom u follows
  postlist,   \* postlist[u]: the published posts of u
  drafts,     \* posts that have a time and are not published yet
  clock       \* the time of the latest post

feed == <<users, subs, postlist, drafts, clock>>

Init ==
  /\ users = {} /\ drafts = {} /\ clock = 0
  /\ subs = [u \in Users |-> {}]
  /\ postlist = [u \in Users |-> {}]

SignUp(u) ==
  /\ users' = users \cup {u}
  /\ UNCHANGED <<subs, postlist, drafts, clock>>

Follow(u, t) ==
  /\ {u, t} \subseteq users
  /\ subs' = [subs EXCEPT ![u] = @ \cup {t}]
  /\ UNCHANGED <<users, postlist, drafts, clock>>

Unfollow(u, t) ==
  /\ subs' = [subs EXCEPT ![u] = @ \ {t}]
  /\ UNCHANGED <<users, postlist, drafts, clock>>

Draft(u) ==
  /\ u \in users
  /\ clock' = clock + 1
  /\ drafts' = drafts \cup {[user |-> u, time |-> clock']}
  /\ UNCHANGED <<users, subs, postlist>>

Publish(k) ==
  /\ k \in drafts
  /\ drafts' = drafts \ {k}
  /\ postlist' = [postlist EXCEPT ![k.user] = @ \cup {k}]
  /\ UNCHANGED <<users, subs, clock>>

\* Posts are given up: their app server has died, or could not list them.
Abandon(K) ==
  /\ drafts' = drafts \ K
  /\ UNCHANGED <<users, subs, postlist, clock>>

Retract(k) ==
  /\ postlist' = [postlist EXCEPT ![k.user] = @ \ {k}]
  /\ UNCHANGED <<users, subs, drafts, clock>>

Next ==
  \/ \E u \in Users : SignUp(u) \/ Draft(u)
  \/ \E u, t \in Users : Follow(u, t) \/ Unfollow(u, t)
  \/ \E k \in drafts : Publish(k)
  \/ \E K \in SUBSET drafts : Abandon(K)
  \/ \E u \in Users : \E k \in postlist[u] : Retract(k)

Spec == Init /\ [][Next]_feed
=============================================================================
