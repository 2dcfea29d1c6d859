------------------------------ MODULE LeaseRpc ------------------------------
(***************************************************************************)
(* What a storage server and its libstores share: the keys and values, the *)
(* lease constants of rpc/storagerpc/proto.go, the RPC calls in flight     *)
(* between them, and time.                                                 *)
(*                                                                         *)
(* Time.  Every process of a deployment runs on one machine (the servers   *)
(* listen on "localhost"), so there is one clock, read in whole seconds by *)
(* time.Now().Unix().  The model stores the AGE of a time stamp t, that    *)
(* is now - t, instead of t; the action Tick of LeaseSystem ages all of    *)
(* them by one second.  The code compares ages with LeaseTerm at most      *)
(* (QueryCacheSeconds is LeaseSeconds), so an age stops at AgeCap.         *)
(*                                                                         *)
(* Values.  A stored list is the set of its items: util.BinarySearchString *)
(* keeps it sorted and free of duplicates, so the set determines the list. *)
(* A plain value is a list of one item (storage[key] = []string{value}),   *)
(* the one that Get returns.                                               *)
(***************************************************************************)
EXTENDS Integers, Sequences

CONSTANTS
  Hosts,              \* app servers; each has one libstore with a callback address
  Procs,              \* goroutines of the app servers that call their libstore
  HostOf,             \* the app server each of those goroutines runs in
  Keys,
  KeyRange,           \* the keys the storage server is responsible for
  Items,
  Nil,                \* no value
  Workload,           \* the calls the goroutines make, any number of times
  Mode,               \* libstore.LeaseMode
  LeaseSeconds,
  LeaseGuardSeconds,
  QueryCacheSeconds,
  QueryCacheThresh,
  MaxLate,            \* bound: revocations of one key in flight after a timeout
  MaxCrashes          \* bound: crashes of app servers

ScalarOps == {"Get", "Put"}
ListOps   == {"GetList", "AppendToList", "RemoveFromList"}

Reads   == {"Get", "GetList"}
Updates == {"Put", "Delete", "AppendToList", "RemoveFromList"}
Status  == {"OK", "KeyNotFound", "ItemNotFound", "WrongServer", "ItemExists"}

Values  == SUBSET Items
Calls   == [proc: Procs, op: Reads \cup Updates, key: Keys, item: Items]
Request == [op: Reads \cup Updates, key: Keys, item: Items, want: BOOLEAN]
Reply   == [status: Status, val: {Nil} \cup Values, lease: BOOLEAN]

ASSUME ConstantAssumption ==
  /\ HostOf \in [Procs -> Hosts]
  /\ KeyRange \subseteq Keys
  /\ Workload \subseteq Calls
  /\ Mode \in {"Never", "Normal", "Always"}
  /\ \A v \in Values : Nil # v
  /\ \A r \in Request \cup Reply : Nil # r
  /\ Nil \notin Hosts \cup Procs \cup Keys

\* The app server's keys (util/keyFormatter.go) hold either one value or a list; Get of a
\* list would return, and cache, its first item alone.
ASSUME KeyUseAssumption ==
  \A c, d \in Workload : c.op \in ScalarOps /\ d.op \in ListOps => c.key # d.key

ASSUME TimeAssumption ==
  /\ LeaseSeconds \in Nat
  /\ LeaseGuardSeconds \in Nat
  /\ QueryCacheSeconds \in 0 .. (LeaseSeconds + LeaseGuardSeconds)
  /\ QueryCacheThresh \in Nat \ {0}
  /\ MaxLate \in Nat
  /\ MaxCrashes \in Nat

LeaseTerm == LeaseSeconds + LeaseGuardSeconds
AgeCap    == LeaseTerm + 1
Ages      == 0 .. AgeCap
NoLease   == -1
Older(a)  == IF a \in 0 .. (AgeCap - 1) THEN a + 1 ELSE a

VARIABLES
  req,      \* req[p]: the call p waits for (libstore -> storage server), or Nil
  reply,    \* reply[p]: the answer on its way back to p, or Nil
  callee,   \* the host whose RevokeLease the storage server waits for, or Nil
  done,     \* that call has completed (revokeCall.Done)
  late,     \* late[h][k]: RevokeLease calls the server gave up on, not yet run
  hostUp    \* the app server process runs

rpcVars == <<req, reply, callee, done, late, hostUp>>

Idle(p)    == req[p] = Nil
Waiting(p) == req[p] # Nil /\ reply[p] = Nil
Replied(p) == reply[p] # Nil

RpcTypeOK ==
  /\ req \in [Procs -> {Nil} \cup Request]
  /\ reply \in [Procs -> {Nil} \cup Reply]
  /\ \A p \in Procs : Idle(p) => reply[p] = Nil
  /\ callee \in {Nil} \cup Hosts
  /\ done \in BOOLEAN
  /\ late \in [Hosts -> [Keys -> 0 .. MaxLate]]
  /\ hostUp \in [Hosts -> BOOLEAN]

RpcInit ==
  /\ req = [p \in Procs |-> Nil]
  /\ reply = [p \in Procs |-> Nil]
  /\ callee = Nil
  /\ done = FALSE
  /\ late = [h \in Hosts |-> [k \in Keys |-> 0]]
  /\ hostUp = [h \in Hosts |-> TRUE]

Answer(p, status, val, lease) ==
  reply' = [reply EXCEPT ![p] = [status |-> status, val |-> val, lease |-> lease]]
=============================================================================
