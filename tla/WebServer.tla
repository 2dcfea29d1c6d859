------------------------------ MODULE WebServer ------------------------------
(***************************************************************************)
(* The web server in front of the app servers (webserver_impl.go) composed *)
(* with the app servers' handlers of StwServer.  An HTTP handler finds the *)
(* app server of the user in ws.stwConns, a map that all handlers share    *)
(* without a lock, and makes its RPCs one after the other.  App servers    *)
(* die and come back; the connection in the map stays what it was.         *)
(* Requests are those of httpclient, of a browser, and of stwclient, which *)
(* calls an app server directly.                                           *)
(*                                                                         *)
(* Handler h is an HTTP handler's goroutine together with the goroutine in *)
(* the app server that serves its RPC: one waits while the other runs.     *)
(***************************************************************************)
EXTENDS StwServer, Sequences

CONSTANT
  Requests       \* Requests[h]: what may come in at h

\* good: the arguments are where the handler looks for them.
RequestType ==
  [path: {"/users", "/subscriptions", "/posts", "/timeline", "/home", "rpc", "none"},
   method: {"GET", "POST", "DELETE", "none"} \cup Ops, user: Users, target: Users,
   key: PostKeys \cup {NoKey}, good: BOOLEAN]

ASSUME WebAssumption ==
  \A h \in Handlers : \A r \in Requests[h] :
    /\ r \in RequestType
    /\ r.path = "rpc" => r.method \in Ops
    /\ r.path = "/home" => r.target = r.user   \* homeHandler subscribes the user to themselves

VARIABLES
  web,       \* web[h]: the request of h, and how far it has come
  conns,     \* ws.stwConns
  webUp, appUp,
  \* history: the posts that h's timeline owes its reader, less those that it need not show any
  \* more; handlers whose request has had a storage call fail
  due, failed

webVars == <<web, conns, webUp, appUp>>
history == <<due, failed>>
vars == <<stwVars, webVars, history>>

Request(path, method, user) ==
  [path |-> path, method |-> method, user |-> user, target |-> user, key |-> NoKey, good |-> TRUE]

NoRequest == Request("none", "none", NoJob.user)
Idle == [req |-> NoRequest, pc |-> "idle", todo |-> <<>>, conn |-> "none"]
Conns == {"none", "open", "broken"}

\* The requests of the clients.  DeletePost of httpclient sends its arguments in the body.
CreateUserReq(u)     == Request("/users", "POST", u)
SubscribeReq(u, t)   == [Request("/subscriptions", "POST", u) EXCEPT !.target = t]
UnsubscribeReq(u, t) == [Request("/subscriptions", "DELETE", u) EXCEPT !.target = t]
TimelineReq(u)       == Request("/timeline", "GET", u)
HomeTimelineReq(u)   == Request("/home", "GET", u)
PostReq(u)           == Request("/posts", "POST", u)
DeletePostReq(u, k)  == [Request("/posts", "DELETE", u) EXCEPT !.key = k, !.good = FALSE]
DeleteInQuery(u, k)  == [DeletePostReq(u, k) EXCEPT !.good = TRUE]
StwClientReq(op, u)  == Request("rpc", op, u)

-----------------------------------------------------------------------------
(* What a handler calls.                                                   *)

\* Mutant: homeHandler does not subscribe the user to themselves.
HomeRpcsNotSelf == <<"CreateUser", "HomeTimeline">>

\* Mutant: postsHandler does not create the user.
PostRpcsNoUser == <<"Post">>

HomeRpcs == <<"CreateUser", "Subscribe", "HomeTimeline">>
PostRpcs == <<"CreateUser", "Post">>

\* The RPCs of a request.  Those that are not listed, or lack arguments, are answered 400, or
\* are echoed.  The target of a request without one is the user, as in homeHandler's Subscribe.
Rpcs(r) ==
  IF r.path = "rpc" THEN <<r.method>>
  ELSE IF ~r.good THEN <<>>
  ELSE CASE r.path = "/users" /\ r.method = "POST"           -> <<"CreateUser">>
         [] r.path = "/subscriptions" /\ r.method = "POST"   -> <<"Subscribe">>
         [] r.path = "/subscriptions" /\ r.method = "DELETE" -> <<"Unsubscribe">>
         [] r.path = "/posts" /\ r.method = "POST"           -> PostRpcs
         [] r.path = "/posts" /\ r.method = "DELETE"         -> <<"DeletePost">>
         [] r.path = "/timeline"                             -> <<"CreateUser", "Timeline">>
         [] r.path = "/home"                                 -> HomeRpcs
         [] OTHER                                            -> <<>>

\* subscriptionHandler asks for a connection before it looks at the method.
Connects(r) ==
  /\ r.path # "rpc" /\ r.good
  /\ Rpcs(r) # <<>> \/ r.path = "/subscriptions"

Calls(r, op) == r.path = "rpc" /\ r.method = op
IsHome(r) == r.path = "/home" \/ Calls(r, "HomeTimeline")
IsTimeline(r) == r.path = "/timeline" \/ Calls(r, "Timeline")

\* Whose posts a timeline shows, and the posts that it owes its reader.
Shows(r) ==
  {t \in Users : \/ (IsTimeline(r) \/ r.path = "/home") /\ t = r.user
                 \/ IsHome(r) /\ t \in subs[r.user]}
Owed(r) == UNION {postlist[t] : t \in Shows(r)}

-----------------------------------------------------------------------------
Init ==
  /\ StwInit
  /\ web = [h \in Handlers |-> Idle]
  /\ conns = [a \in Apps |-> "none"]
  /\ webUp = TRUE
  /\ appUp = [a \in Apps |-> TRUE]
  /\ due = [h \in Handlers |-> {}]
  /\ failed = {}

App(h) == AppOf[web[h].req.user]

\* stwclient dials the app server itself.
Accept(h, r) ==
  /\ web[h].pc = "idle" /\ job[h] = NoJob
  /\ IF r.path = "rpc" THEN appUp[AppOf[r.user]] ELSE webUp
  /\ web' = [web EXCEPT ![h] =
       [req  |-> r,
        pc   |-> IF Connects(r) THEN "route" ELSE "rpc",
        todo |-> Rpcs(r),
        conn |-> IF r.path = "rpc" THEN "open" ELSE "none"]]
  /\ due' = [due EXCEPT ![h] = Owed(r)]
  /\ UNCHANGED <<stwVars, conns, webUp, appUp, failed>>

\* getStwConn: the lookup,
Route(h) ==
  LET c == conns[App(h)] IN
  /\ web[h].pc = "route"
  /\ web' = [web EXCEPT ![h].pc = IF c = "none" THEN "dial" ELSE "rpc", ![h].conn = c]
  /\ UNCHANGED <<stwVars, conns, webUp, appUp, history>>

\* the dial, and the new connection in the map,
Dial(h) ==
  /\ web[h].pc = "dial" /\ appUp[App(h)]
  /\ conns' = [conns EXCEPT ![App(h)] = "open"]
  /\ web' = [web EXCEPT ![h].pc = "rpc", ![h].conn = "open"]
  /\ UNCHANGED <<stwVars, webUp, appUp, history>>

\* All HTTP handlers end with the process; their RPCs go on in the app servers.
WebDies ==
  /\ webUp' = FALSE
  /\ conns' = [a \in Apps |-> "none"]
  /\ web' = [g \in Handlers |->
       IF web[g].req.path = "rpc" THEN web[g] ELSE [web[g] EXCEPT !.pc = "idle", !.todo = <<>>, !.conn = "none"]]
  /\ UNCHANGED <<stwVars, appUp, history>>

\* log.Fatal when the app server cannot be dialled,
DialFatal(h) == web[h].pc = "dial" /\ ~appUp[App(h)] /\ WebDies

\* or the Go runtime, which sees the map written and accessed at the same time.
MapRace(h) ==
  /\ web[h].pc = "dial" /\ appUp[App(h)]
  /\ \E g \in Handlers \ {h} : web[g].pc \in {"route", "dial"}
  /\ WebDies

WebRestart ==
  /\ ~webUp /\ \A a \in Apps : appUp[a]
  /\ webUp' = TRUE
  /\ UNCHANGED <<stwVars, web, conns, appUp, history>>

CallRpc(h) ==
  LET r == web[h].req IN
  /\ web[h].pc = "rpc" /\ web[h].todo # <<>> /\ web[h].conn = "open"
  /\ Begin(h, [op |-> Head(web[h].todo), user |-> r.user, target |-> r.target, key |-> r.key])
  /\ web' = [web EXCEPT ![h].todo = Tail(@)]
  /\ UNCHANGED <<conns, webUp, appUp, history>>

\* rpc.ErrShutdown; the handler logs it and goes on with its next call.
CallFails(h) ==
  /\ web[h].pc = "rpc" /\ web[h].todo # <<>> /\ web[h].conn = "broken" /\ ~Busy(h)
  /\ web' = [web EXCEPT ![h].todo = Tail(@)]
  /\ HandlersDie({h})
  /\ UNCHANGED <<faults, conns, webUp, appUp, history>>

\* The reply to the client; that of an RPC whose caller has died goes nowhere.
Answer(h) ==
  /\ \/ web[h].pc = "rpc" /\ web[h].todo = <<>>
     \/ web[h].pc = "idle" /\ job[h] # NoJob
  /\ ~Busy(h)
  /\ job' = [job EXCEPT ![h] = NoJob]
  /\ status' = [status EXCEPT ![h] = "none"]
  /\ web' = [web EXCEPT ![h] = Idle]
  /\ due' = [due EXCEPT ![h] = {}]
  /\ failed' = failed \ {h}
  /\ UNCHANGED <<store, clock, faults, conns, webUp, appUp>>

\* Post k is not in the list that h's step reads, or is by a user who is missing there,
\* because the list is out of date.
Overlooks(h, k) ==
  LET u == job[h].user
      a == Libstore(h)
  IN
  \/ At(h, "Timeline", "list") /\ k \in postlist[u] \ seenLists[a][u]
  \/ At(h, "HomeTimeline", "subs") /\ k.user \in subs[u] \ seenSubs[a][u]
  \/ /\ At(h, "HomeTimeline", "lists") /\ k.user \in job[h].todo \ job'[h].todo
     /\ k \in postlist[k.user] \ seenLists[a][k.user]

Serve(h) ==
  /\ Step(h)
  /\ failed' = IF faults' = faults THEN failed ELSE failed \cup {h}
  /\ due' = [g \in Handlers |-> {k \in due[g] :
       /\ k \in postlist'[k.user]
       /\ IsHome(web[g].req) => k.user \notin subs[web[g].req.user] \ subs'[web[g].req.user]
       /\ g = h => ~Overlooks(h, k)}]
  /\ UNCHANGED webVars

AppDies(a) ==
  LET dying == {h \in Handlers : Busy(h) /\ AppOf[job[h].user] = a} IN
  /\ appUp[a] /\ Fault
  /\ appUp' = [appUp EXCEPT ![a] = FALSE]
  /\ HandlersDie(dying)
  /\ conns' = [conns EXCEPT ![a] = IF @ = "open" THEN "broken" ELSE @]
  /\ web' = [h \in Handlers |->
       IF web[h].conn = "open" /\ App(h) = a THEN [web[h] EXCEPT !.conn = "broken"] ELSE web[h]]
  /\ UNCHANGED <<webUp, due, failed>>

AppRestart(a) ==
  /\ ~appUp[a]
  /\ appUp' = [appUp EXCEPT ![a] = TRUE]
  /\ Forgotten(a)
  /\ UNCHANGED <<web, conns, webUp, history>>

CopyGoes(a) == Forget(a) /\ UNCHANGED <<webVars, history>>

Next ==
  \/ \E h \in Handlers :
       \/ \E r \in Requests[h] : Accept(h, r)
       \/ Route(h) \/ Dial(h) \/ DialFatal(h) \/ MapRace(h)
       \/ CallRpc(h) \/ CallFails(h) \/ Serve(h) \/ Answer(h)
  \/ \E a \in Apps : AppDies(a) \/ AppRestart(a) \/ CopyGoes(a)
  \/ WebRestart

Spec == Init /\ [][Next]_vars

-----------------------------------------------------------------------------
(* Properties.                                                             *)

\* The variables have their types; a handler uses a connection only after it has got one,
\* and a timeline has no more than Limit posts, also one merged from several lists
\* (HomeTimeline).
TypeOK ==
  /\ StwTypeOK
  /\ \A h \in Handlers :
       /\ web[h].req \in Requests[h] \cup {NoRequest}
       /\ web[h].pc \in {"idle", "route", "dial", "rpc"}
       /\ web[h].conn \in Conns
       /\ web[h].pc = "rpc" /\ web[h].todo # <<>> => web[h].conn # "none"
  /\ conns \in [Apps -> Conns]
  /\ webUp \in BOOLEAN /\ appUp \in [Apps -> BOOLEAN]
  /\ due \in [Handlers -> SUBSET PostKeys]
  /\ failed \subseteq Handlers

Listed == UNION {postlist[u] : u \in Users}
Handled(op, pc) == {job[h].key : h \in {g \in Handlers : At(g, op, pc)}}

\* A post that a user's list names, or is about to name, can be read: Post stores it before
\* it lists it, DeletePost unlists it before it deletes it, and no step of other handlers
\* in between makes one unreadable.  Only a failing storage call can.
Unreadable == (Listed \cup Handled("Post", "append")) \ posts
ListedPostStored == [][faults' = faults => Unreadable' \subseteq Unreadable]_vars

\* No contents stay in the storage unlisted, where no DeletePost finds them, except while a
\* Post or DeletePost is between its two writes; only a storage call that fails or an app
\* server that dies leaves some.  That the web server goes away under an RPC does not.
Stray == posts \ (Listed \cup Handled("Post", "append") \cup Handled("DeletePost", "delete"))
NoStrayPosts == [][faults' = faults => Stray' \subseteq Stray]_vars

Shown(h, k) == k \in job[h].got \/ Cardinality({l \in job[h].got : l.time > k.time}) = Limit

Complete(h) == job[h].op \in {"Timeline", "HomeTimeline"} /\ status[h] = "OK" /\ h \notin failed

\* A timeline that is answered OK lacks a post that was there when the request came in only if
\* Limit newer ones are shown, or, in the meantime, the post was unlisted, the reader
\* unsubscribed from its user, a storage call failed, or a list was answered from a copy that
\* is out of date.  Cutting each list before merging loses nothing (Timeline, HomeTimeline);
\* /home shows the user's own posts too, whether they ever subscribed to themselves or not
\* (README.md: "including the user itself").
TimelinesMissNothing == \A h \in Handlers : Complete(h) => \A k \in due[h] : Shown(h, k)

\* A page that signs its user up is never told that there is no such user, unless a storage
\* call failed: the user is created by an earlier RPC of the same request, and stays.
PagesSignUp ==
  \A h \in Handlers \ failed :
    web[h].req.path \in {"/posts", "/timeline", "/home"} /\ web[h].req.method # "DELETE" =>
      status[h] # "NoSuchUser"

\* The storage calls of all handlers, in whatever order, failing and half done, come to the
\* single steps of Feed: relations are among users, a post is published once, after its
\* user signed up, and does not come back.
FeedOfPosts ==
  INSTANCE Feed WITH drafts <- Handled("Post", "append")
IsFeed == FeedOfPosts!Spec
=============================================================================
