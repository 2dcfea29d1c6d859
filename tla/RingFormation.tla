---------------------------- MODULE RingFormation ----------------------------
(***************************************************************************)
(* How the ring of storage servers forms, and who serves a key meanwhile:  *)
(* NewStorageServer, RegisterServer, GetServers and keyRangeContains of    *)
(* storageserver/storageserver_impl.go, NewLibstore and getStorageServer   *)
(* of libstore/libstore_impl.go.                                           *)
(*                                                                         *)
(* A server answers RPCs from the moment it listens, before it knows the   *)
(* ring.  RegisterServer holds ss.lock, but GetServers, keyRangeContains   *)
(* and the slave's own loop over reply.Servers do not take it, so the two  *)
(* assignments of RegisterServer (ss.ring, then ss.nodes) and the slave's  *)
(* insertions one by one are steps that others see.                        *)
(*                                                                         *)
(* A server is its node ID, a key is its hash (StoreHash).  What a stored  *)
(* key holds is the business of StorageServer.tla.                         *)
(***************************************************************************)
EXTENDS Integers, Sequences, FiniteSets, FiniteSetsExt

CONSTANTS
  Servers,       \* the node IDs
  Master,        \* the server that is started without a master address
  Keys,          \* hashes of keys
  Clients,       \* libstores
  Nil,
  MaxDials,      \* dials of the master that a slave sees fail before it gives up
  MaxAsks,       \* GetServers calls NewLibstore makes before it gives up
  MaxCrashes     \* bound: crashes of servers

ASSUME RingAssumption ==
  /\ Servers \subseteq Nat /\ IsFiniteSet(Servers)
  /\ Master \in Servers
  /\ Keys \subseteq Nat
  /\ Nil \notin Servers
  /\ MaxDials \in Nat \ {0} /\ MaxAsks \in Nat \ {0} /\ MaxCrashes \in Nat

Slaves == Servers \ {Master}
N      == Cardinality(Servers)     \* numNodes of the master

VARIABLES
  phase,    \* where NewStorageServer is; "dead" after log.Fatal, a panic or a crash
  tries,    \* dials of the master that have failed
  ring,     \* ss.ring
  nodes,    \* the IDs in ss.nodes
  learn,    \* nodes of the slave's reply.Servers that are not in its ring yet
  regLock,  \* the slave whose RegisterServer is between its two assignments, or Nil
  stored,   \* stored[s]: keys written at s
  libPhase, \* where NewLibstore is
  asked,    \* GetServers calls it has made
  libRing,  \* ls.ring
  conns,    \* ls.conns: the connections a libstore has made, none of which it renews
  crashes

srvVars == <<phase, tries, ring, nodes, learn, regLock>>
libVars == <<libPhase, asked, libRing>>
vars == <<srvVars, stored, libVars, conns, crashes>>

SrvPhases == {"down", "dialing", "registering", "learning", "waiting", "ready", "dead"}

TypeOK ==
  /\ phase \in [Servers -> SrvPhases]
  /\ tries \in [Servers -> 0 .. MaxDials]
  /\ ring \in [Servers -> Seq(Servers)]
  /\ nodes \in [Servers -> SUBSET Servers]
  /\ learn \in [Servers -> SUBSET Servers]
  /\ regLock \in {Nil} \cup Slaves
  /\ stored \in [Servers -> SUBSET Keys]
  /\ libPhase \in [Clients -> {"off", "asking", "on", "failed"}]
  /\ asked \in [Clients -> 0 .. MaxAsks]
  /\ libRing \in [Clients -> Seq(Servers)]
  /\ conns \in [Clients -> [Servers -> {"none", "open", "broken"}]]
  /\ crashes \in 0 .. MaxCrashes

Init ==
  /\ phase = [s \in Servers |-> "down"]
  /\ tries = [s \in Servers |-> 0]
  /\ ring = [s \in Servers |-> <<>>]
  /\ nodes = [s \in Servers |-> {}]
  /\ learn = [s \in Servers |-> {}]
  /\ regLock = Nil
  /\ stored = [s \in Servers |-> {}]
  /\ libPhase = [c \in Clients |-> "off"]
  /\ asked = [c \in Clients |-> 0]
  /\ libRing = [c \in Clients |-> <<>>]
  /\ conns = [c \in Clients |-> [s \in Servers |-> "none"]]
  /\ crashes = 0

Listening(s) == phase[s] \notin {"down", "dead"}

-----------------------------------------------------------------------------
(* The ring as a sorted slice.                                             *)

\* The index BinarySearchUint32 returns for a value that is not in the slice, or is in it
\* once (SortedList shows this of the loop).
BinarySearchUint32(vals, x) ==
  CHOOSE n \in 0 .. Len(vals) :
    /\ \A m \in 1 .. n : vals[m] < x
    /\ \A m \in (n + 1) .. Len(vals) : vals[m] >= x

\* append, copy and temp[i] = id
Insert(r, id) ==
  LET n == BinarySearchUint32(r, id) IN SubSeq(r, 1, n) \o <<id>> \o SubSeq(r, n + 1, Len(r))

\* Mutant: no wrap-around, a hash beyond the last node goes to that node.
SearchRingNoWrap(r, hash) ==
  LET n == BinarySearchUint32(r, hash) IN IF n = Len(r) THEN r[n] ELSE r[n + 1]

\* The node that is responsible for a hash; the caller makes sure the ring is not empty.
SearchHashRing(r, hash) ==
  LET n == BinarySearchUint32(r, hash) IN IF n = Len(r) THEN r[1] ELSE r[n + 1]

-----------------------------------------------------------------------------
(* NewStorageServer.                                                       *)

\* The process starts and listens.  Only the master begins with itself in the ring.  A
\* slave that has died may be started again; without its master a ring is lost.
Start(s) ==
  /\ phase[s] = "down" \/ (s # Master /\ phase[s] = "dead")
  /\ phase' = [phase EXCEPT ![s] = IF s = Master THEN "waiting" ELSE "dialing"]
  /\ ring' = [ring EXCEPT ![s] = IF s = Master THEN <<s>> ELSE <<>>]
  /\ nodes' = [nodes EXCEPT ![s] = IF s = Master THEN {s} ELSE {}]
  /\ UNCHANGED <<tries, learn, regLock, stored, libVars, conns, crashes>>

\* The process ends; what it had in memory is gone.
Dies(s) ==
  /\ phase' = [phase EXCEPT ![s] = "dead"]
  /\ tries' = [tries EXCEPT ![s] = 0]
  /\ ring' = [ring EXCEPT ![s] = <<>>]
  /\ nodes' = [nodes EXCEPT ![s] = {}]
  /\ learn' = [learn EXCEPT ![s] = {}]
  /\ regLock' = IF s = Master THEN Nil ELSE regLock
  /\ stored' = [stored EXCEPT ![s] = {}]
  /\ conns' = [c \in Clients |-> [conns[c] EXCEPT ![s] = IF @ = "open" THEN "broken" ELSE @]]

Crash(s) ==
  /\ Listening(s) /\ crashes < MaxCrashes
  /\ Dies(s)
  /\ crashes' = crashes + 1
  /\ UNCHANGED libVars

DialMaster(s) ==
  /\ phase[s] = "dialing" /\ tries[s] < MaxDials
  /\ Listening(Master)
  /\ phase' = [phase EXCEPT ![s] = "registering"]
  /\ tries' = [tries EXCEPT ![s] = 0]
  /\ UNCHANGED <<ring, nodes, learn, regLock, stored, libVars, conns, crashes>>

\* Mutant: the number of dials is not limited.
DialFailsForever(s) ==
  /\ phase[s] = "dialing"
  /\ ~Listening(Master)
  /\ tries' = [tries EXCEPT ![s] = @ + 1]
  /\ UNCHANGED <<phase, ring, nodes, learn, regLock, stored, libVars, conns, crashes>>

DialFails(s) ==
  /\ phase[s] = "dialing" /\ tries[s] < MaxDials
  /\ ~Listening(Master)
  /\ tries' = [tries EXCEPT ![s] = @ + 1]
  /\ UNCHANGED <<phase, ring, nodes, learn, regLock, stored, libVars, conns, crashes>>

\* log.Fatal after the last dial has failed.
GiveUp(s) ==
  /\ phase[s] = "dialing" /\ tries[s] = MaxDials
  /\ Dies(s)
  /\ UNCHANGED <<libVars, crashes>>

\* RegisterServer at the master, called by slave s: first ss.ring.
RegisterRing(s) ==
  /\ phase[s] = "registering" /\ Listening(Master)
  /\ regLock = Nil
  /\ s \notin nodes[Master]
  /\ ring' = [ring EXCEPT ![Master] = Insert(@, s)]
  /\ regLock' = s
  /\ UNCHANGED <<phase, tries, nodes, learn, stored, libVars, conns, crashes>>

\* Mutant: one node too many is waited for.
RegisterReplyLate(s, known) ==
  IF Len(ring[Master]) > N /\ phase[s] = "registering"
    THEN /\ learn' = [learn EXCEPT ![s] = known]
         /\ phase' = [phase EXCEPT ![s] = "learning"]
    ELSE UNCHANGED <<learn, phase>>

\* The reply: the nodes once all have joined, else NotReady, and the slave asks again.  (A
\* slave that has died meanwhile gets no reply; the handler runs to its end all the same.)
RegisterReply(s, known) ==
  IF Len(ring[Master]) >= N /\ phase[s] = "registering"
    THEN /\ learn' = [learn EXCEPT ![s] = known]
         /\ phase' = [phase EXCEPT ![s] = "learning"]
    ELSE UNCHANGED <<learn, phase>>

\* Then ss.nodes, the reply, and the lock is given back.
RegisterNode(s) ==
  /\ regLock = s
  /\ nodes' = [nodes EXCEPT ![Master] = @ \cup {s}]
  /\ regLock' = Nil
  /\ RegisterReply(s, nodes[Master] \cup {s})
  /\ UNCHANGED <<tries, ring, stored, libVars, conns, crashes>>

\* Mutant: a server that registers again is added to the ring again.
RegisterTwice(s) ==
  /\ phase[s] = "registering" /\ Listening(Master)
  /\ regLock = Nil
  /\ s \in nodes[Master]
  /\ ring' = [ring EXCEPT ![Master] = Insert(@, s)]
  /\ RegisterReply(s, nodes[Master])
  /\ UNCHANGED <<tries, nodes, regLock, stored, libVars, conns, crashes>>

\* RegisterServer of a server that is in ss.nodes already.
RegisterAgain(s) ==
  /\ phase[s] = "registering" /\ Listening(Master)
  /\ regLock = Nil
  /\ s \in nodes[Master]
  /\ RegisterReply(s, nodes[Master])
  /\ UNCHANGED <<tries, ring, nodes, regLock, stored, libVars, conns, crashes>>

\* The call fails because the master has died: log.Fatal.
RegisterFails(s) ==
  /\ phase[s] = "registering" /\ ~Listening(Master)
  /\ Dies(s)
  /\ UNCHANGED <<libVars, crashes>>

\* The slave's loop over reply.Servers, in the order of a map iteration.
Learn(s) ==
  /\ phase[s] = "learning"
  /\ \E id \in learn[s] :
       /\ ring' = [ring EXCEPT ![s] = Insert(@, id)]
       /\ nodes' = [nodes EXCEPT ![s] = @ \cup {id}]
       /\ learn' = [learn EXCEPT ![s] = @ \ {id}]
  /\ UNCHANGED <<phase, tries, regLock, stored, libVars, conns, crashes>>

\* NewStorageServer returns: a slave has gone through the reply, the master's ring is full.
Ready(s) ==
  /\ \/ phase[s] = "learning" /\ learn[s] = {}
     \/ phase[s] = "waiting" /\ Len(ring[s]) >= N
  /\ phase' = [phase EXCEPT ![s] = "ready"]
  /\ UNCHANGED <<tries, ring, nodes, learn, regLock, stored, libVars, conns, crashes>>

-----------------------------------------------------------------------------
(* NewLibstore.                                                            *)

LibFails(c) ==
  /\ libPhase' = [libPhase EXCEPT ![c] = "failed"]
  /\ asked' = [asked EXCEPT ![c] = 0]
  /\ UNCHANGED libRing

LibDial(c) ==
  /\ libPhase[c] = "off"
  /\ IF Listening(Master)
       THEN libPhase' = [libPhase EXCEPT ![c] = "asking"] /\ UNCHANGED <<asked, libRing>>
       ELSE LibFails(c)
  /\ UNCHANGED <<srvVars, stored, conns, crashes>>

\* GetServers at the master, which takes no lock, and what NewLibstore does with the reply.
GetServers(c) ==
  /\ libPhase[c] = "asking" /\ Listening(Master)
  /\ \/ /\ Len(ring[Master]) >= N
        /\ libRing' = [libRing EXCEPT ![c] = FoldSet(LAMBDA id, r : Insert(r, id), <<>>, nodes[Master])]
        /\ libPhase' = [libPhase EXCEPT ![c] = "on"]
        /\ asked' = [asked EXCEPT ![c] = 0]
     \/ /\ Len(ring[Master]) < N
        /\ IF asked[c] + 1 < MaxAsks
             THEN asked' = [asked EXCEPT ![c] = @ + 1] /\ UNCHANGED <<libPhase, libRing>>
             ELSE LibFails(c)
  /\ UNCHANGED <<srvVars, stored, conns, crashes>>

\* GetServers iterates over ss.nodes while RegisterServer writes to it: the Go runtime may
\* notice and end the process.
MapRace(c) ==
  /\ libPhase[c] = "asking" /\ Listening(Master)
  /\ regLock # Nil /\ Len(ring[Master]) >= N
  /\ Dies(Master)
  /\ UNCHANGED <<libVars, crashes>>

GetServersFails(c) ==
  /\ libPhase[c] = "asking" /\ ~Listening(Master)
  /\ LibFails(c)
  /\ UNCHANGED <<srvVars, stored, conns, crashes>>

-----------------------------------------------------------------------------
(* A write of key k by libstore c: getStorageServer, then Put or AppendToList at the   *)
(* server it names, which asks keyRangeContains first.                                 *)

Routed(c, k, s) == libPhase[c] = "on" /\ SearchHashRing(libRing[c], k) = s

\* getStorageServer dials a server once and keeps the connection.
DialServer(c, k, s) ==
  /\ Routed(c, k, s) /\ Listening(s) /\ conns[c][s] = "none"
  /\ conns' = [conns EXCEPT ![c][s] = "open"]
  /\ UNCHANGED <<srvVars, stored, libVars, crashes>>

\* The request arrives at s.
Arrives(c, k, s) == Routed(c, k, s) /\ conns[c][s] = "open"

\* Mutant: the server takes whatever it is sent.
keyRangeUnchecked(s, k) == TRUE

keyRangeContains(s, k) == SearchHashRing(ring[s], k) = s

\* A slave is putting the next node into its ring, in place where the slice has room for it:
\* a handler that reads the ring meanwhile, without the lock, may see it half moved, and
\* find the key in the range or not.
Moving(s) == phase[s] = "learning" /\ learn[s] # {}

\* A key in the range is stored.  (A key that is not is answered with WrongServer, which
\* changes nothing.)
Write(c, k, s) ==
  /\ Arrives(c, k, s)
  /\ ring[s] # <<>>
  /\ Moving(s) \/ keyRangeContains(s, k)
  /\ stored' = [stored EXCEPT ![s] = @ \cup {k}]
  /\ UNCHANGED <<srvVars, libVars, conns, crashes>>

\* ring[0] of an empty ring: the handler panics, and the process ends.
EmptyRingPanic(c, k, s) ==
  /\ Arrives(c, k, s)
  /\ ring[s] = <<>>
  /\ Dies(s)
  /\ UNCHANGED <<libVars, crashes>>

\* The server does not run: getStorageServer cannot dial it, log.Fatal.  (A call on a
\* broken connection only returns an error.)
RouteFails(c, k, s) ==
  /\ Routed(c, k, s) /\ ~Listening(s) /\ conns[c][s] = "none"
  /\ LibFails(c)
  /\ UNCHANGED <<srvVars, stored, conns, crashes>>

-----------------------------------------------------------------------------
Join(s) ==
  \/ DialMaster(s) \/ DialFails(s) \/ GiveUp(s)
  \/ RegisterRing(s) \/ RegisterNode(s) \/ RegisterAgain(s) \/ RegisterFails(s)
  \/ Learn(s) \/ Ready(s)

Ask(c) == LibDial(c) \/ GetServers(c) \/ MapRace(c) \/ GetServersFails(c)

Request(c, k, s) ==
  \/ DialServer(c, k, s)
  \/ Write(c, k, s) \/ EmptyRingPanic(c, k, s) \/ RouteFails(c, k, s)

Next ==
  \/ \E s \in Servers : Start(s) \/ Join(s) \/ Crash(s)
  \/ \E c \in Clients : Ask(c)
  \/ \E c \in Clients, k \in Keys, s \in Servers : Request(c, k, s)

Spec == Init /\ [][Next]_vars

\* Every server is started, and its main goroutine goes on.
FairSpec ==
  /\ Spec
  /\ \A s \in Servers : WF_vars(phase[s] = "down" /\ Start(s)) /\ WF_vars(Join(s))

-----------------------------------------------------------------------------
(* Correctness.                                                            *)

\* Consistent hashing, as a definition: the first node at or after the hash, else the
\* first node of all.
Owner(k) ==
  LET after == {s \in Servers : s >= k} IN
  CHOOSE s \in IF after # {} THEN after ELSE Servers :
    \A t \in IF after # {} THEN after ELSE Servers : s <= t

Complete(c) == Len(libRing[c]) = N

\* A server whose NewStorageServer has returned has the whole ring and takes exactly the
\* keys it owns: of the servers that are up, no two take the same key and, once all are
\* up, none is without a server, whatever the order of the registrations, retries, crashes
\* and restarts that led there (RegisterServer, the slave's loop, SearchHashRing).
ReadyServersPartitionKeys ==
  \A s \in Servers, k \in Keys :
    phase[s] = "ready" => Len(ring[s]) = N /\ (keyRangeContains(s, k) <=> s = Owner(k))

\* A key is written at its owner and nowhere else, although servers take requests before
\* they know the ring and libstores may be given a ring with a node missing (GetServers
\* reads ss.ring and ss.nodes without the lock).  The server's own range check catches what
\* such a libstore misroutes, except at a slave that is still inserting the reply's nodes:
\* only when both come together is a key stored where it is never looked for again.
StoredAtOwner ==
  [][\A s \in Servers, k \in Keys :
       k \in stored'[s] \ stored[s] =>
         \/ s = Owner(k)
         \/ Moving(s) /\ \E c \in Clients : libPhase[c] = "on" /\ ~Complete(c)]_vars

\* The ring forms: every server comes up, unless one of them dies on the way.
RingForms ==
  <>(\/ \A s \in Servers : phase[s] = "ready"
     \/ \E s \in Servers : phase[s] = "dead")
=============================================================================
