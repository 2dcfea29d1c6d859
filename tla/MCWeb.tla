-------------------------------- MODULE MCWeb --------------------------------
(* A TLC instance of WebServer: one handler for what a user looks at, one for what changes it. *)
EXTENDS WebServer, TLC

CONSTANTS u1, u2, a1, a2, g1, g2

Key(u, t) == [user |-> u, time |-> t]

Looking ==
  {HomeTimelineReq(u1), TimelineReq(u1), SubscribeReq(u1, u2), PostReq(u1), DeleteInQuery(u1, Key(u1, 1))}
Changing ==
  {PostReq(u2), StwClientReq("Unsubscribe", u1),
   [StwClientReq("DeletePost", u1) EXCEPT !.key = Key(u1, 1)]}

Work == (g1 :> Looking) @@ (g2 :> Changing)
Route2 == (u1 :> a1) @@ (u2 :> a2)
=============================================================================
