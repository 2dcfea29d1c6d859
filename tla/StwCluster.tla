------------------------------ MODULE StwCluster ------------------------------
(***************************************************************************)
(* How the app servers find each other (NewStwServer, RegisterServer and   *)
(* GetServers of stwserver/stwserver_impl.go) and how the web server       *)
(* learns of them (NewWebServer).  None of it takes a lock: a handler of   *)
(* RegisterServer at the master reads ts.nodes anew in every line, and     *)
(* others are between two of their lines.                                  *)
(*                                                                         *)
(* A slice is the name of an array and a length.  append copies a full     *)
(* array into a new one of twice its size, but writes to the array itself  *)
(* if that has room: the temp of a handler is an array of its own, or one  *)
(* that ts.nodes and the temps of other handlers share.                    *)
(*                                                                         *)
(* Addresses are numbers in the order of the strings; "" is Empty.         *)
(***************************************************************************)
EXTENDS Integers, Sequences, SequencesExt, FiniteSets, FiniteSetsExt

CONSTANTS
  Slaves,        \* the addresses of the slaves
  Master,
  Asked,         \* the app server that the web server is told of
  MaxDials,      \* dials of the master before a slave gives up (6)
  MaxAsks,       \* calls of GetServers before the web server gives up (5)
  MaxCrashes     \* bound: servers that crash

Nodes  == Slaves \cup {Master}
N      == Cardinality(Nodes)
Empty  == 0
Addrs  == Nodes \cup {Empty}
Arrays == 1 .. N       \* as many as are ever in use: one per handler, and that of ts.nodes

ASSUME ClusterAssumption ==
  /\ Nodes \subseteq Nat \ {Empty} /\ IsFiniteSet(Nodes) /\ Master \notin Slaves
  /\ Asked \in Nodes
  /\ MaxDials \in Nat /\ MaxAsks \in Nat /\ MaxCrashes \in Nat

VARIABLES
  phase,      \* phase[s]: how far the main goroutine of server s has come
  tries,      \* tries[s]: dials of s that have failed
  arrays,     \* the arrays of the master's slices; <<>> if none uses it
  nodes,      \* ts.nodes of the master, a slice
  call,       \* call[s]: the handler at the master of s's call of RegisterServer
  own,        \* own[s]: ts.nodes of slave s
  learn,      \* learn[s]: nodes of the reply that s has still to go through
  web,        \* the web server: its phase, the calls it made, its stwServers
  crashes

srvVars  == <<phase, tries>>
listVars == <<arrays, nodes, call>>
vars     == <<srvVars, listVars, own, learn, web, crashes>>

Phases  == {"down", "dialing", "registering", "learning", "waiting", "up", "dead"}
NoCall  == [pc |-> "none", i |-> 0, temp |-> [arr |-> 1, len |-> 0]]

\* The lines of RegisterServer before which a handler has a temp.
HasTemp == {"copy", "store", "assign"}

\* The types of the state.  Whatever the handlers do to each other's slices, none is longer
\* than its array, and temp[i] is in temp when it is stored to.
TypeOK ==
  /\ phase \in [Nodes -> Phases] /\ tries \in [Nodes -> 0 .. MaxDials]
  /\ arrays \in [Arrays -> Seq(Addrs)]
  /\ nodes.arr \in Arrays /\ nodes.len \in 1 .. Len(arrays[nodes.arr])
  /\ \A s \in Slaves :
       /\ call[s].pc \in {"none", "compare", "append", "reply"} \cup HasTemp
       /\ call[s].pc \in HasTemp =>
            call[s].temp.arr \in Arrays /\ call[s].temp.len \in 1 .. Len(arrays[call[s].temp.arr])
       /\ call[s].pc = "store" => call[s].i \in 0 .. call[s].temp.len - 1
       /\ learn[s] \in Seq(Addrs) /\ own[s] \in Seq(Addrs)
  /\ web.phase \in {"off", "asking", "on", "failed"} /\ web.asks \in 0 .. MaxAsks
  /\ web.servers \in Seq(Addrs)
  /\ crashes \in 0 .. MaxCrashes

Init ==
  /\ phase = [s \in Nodes |-> "down"]
  /\ tries = [s \in Nodes |-> 0]
  /\ arrays = [a \in Arrays |-> IF a = 1 THEN <<Master>> ELSE <<>>]
  /\ nodes = [arr |-> 1, len |-> 1]
  /\ call = [s \in Slaves |-> NoCall]
  /\ own = [s \in Slaves |-> <<s>>]
  /\ learn = [s \in Slaves |-> <<>>]
  /\ web = [phase |-> "off", asks |-> 0, servers |-> <<>>]
  /\ crashes = 0

Listening(s) == phase[s] \notin {"down", "dead"}

\* ts.nodes of the master.
MasterNodes == SubSeq(arrays[nodes.arr], 1, nodes.len)

\* The loop of BinarySearchString, from every pair of i and j; the list need not be sorted.
BinarySearchString(vals, val) ==
  LET from[p \in (0 .. Len(vals)) \X (-1 .. Len(vals) - 1)] ==
        LET i == p[1]
            j == p[2]
            mid == (i + j) \div 2
        IN
        IF i > j THEN i
        ELSE IF vals[mid + 1] = val THEN mid
        ELSE IF vals[mid + 1] < val THEN from[<<mid + 1, j>>] ELSE from[<<i, mid - 1>>]
  IN from[<<0, Len(vals) - 1>>]

-----------------------------------------------------------------------------
(* NewStwServer.                                                           *)

Start(s) ==
  /\ phase[s] = "down"
  /\ phase' = [phase EXCEPT ![s] = IF s = Master THEN "waiting" ELSE "dialing"]
  /\ UNCHANGED <<tries, listVars, own, learn, web, crashes>>

Dies(s) == phase' = [phase EXCEPT ![s] = "dead"]

DialMaster(s) ==
  /\ phase[s] = "dialing" /\ Listening(Master)
  /\ phase' = [phase EXCEPT ![s] = "registering"]
  /\ tries' = [tries EXCEPT ![s] = 0]
  /\ UNCHANGED <<listVars, own, learn, web, crashes>>

DialFails(s) ==
  /\ phase[s] = "dialing" /\ ~Listening(Master)
  /\ IF tries[s] < MaxDials
     THEN tries' = [tries EXCEPT ![s] = @ + 1] /\ UNCHANGED phase
     ELSE Dies(s) /\ UNCHANGED tries
  /\ UNCHANGED <<listVars, own, learn, web, crashes>>

\* The master is gone: log.Fatal.
RegisterFails(s) ==
  /\ phase[s] = "registering" /\ ~Listening(Master)
  /\ Dies(s)
  /\ UNCHANGED <<tries, listVars, own, learn, web, crashes>>

\* A slave goes through the nodes of the reply.  It opens a gap for each and leaves there
\* what was there, or nothing at the end of the list: the address is not stored.
Learn(s) ==
  LET i == BinarySearchString(own[s], Head(learn[s]))
      gap == IF i < Len(own[s]) THEN own[s][i + 1] ELSE Empty
  IN
  /\ phase[s] = "learning" /\ learn[s] # <<>>
  /\ own' = [own EXCEPT ![s] = InsertAt(@, i + 1, gap)]
  /\ learn' = [learn EXCEPT ![s] = Tail(@)]
  /\ UNCHANGED <<srvVars, listVars, web, crashes>>

Ready(s) ==
  /\ \/ phase[s] = "learning" /\ learn[s] = <<>>
     \/ phase[s] = "waiting" /\ nodes.len >= N
  /\ phase' = [phase EXCEPT ![s] = "up"]
  /\ UNCHANGED <<tries, listVars, own, learn, web, crashes>>

-----------------------------------------------------------------------------
(* RegisterServer at the master, called by slave s, line by line.          *)

At(s, line) == call[s].pc = line /\ Listening(Master)

\* The place of the address is searched,
RegisterSearch(s) ==
  /\ phase[s] = "registering" /\ At(s, "none")
  /\ call' = [call EXCEPT ![s].pc = "compare", ![s].i = BinarySearchString(MasterNodes, s)]
  /\ UNCHANGED <<srvVars, arrays, nodes, own, learn, web, crashes>>

\* and if it is not there
RegisterCompare(s) ==
  LET found == call[s].i < nodes.len /\ MasterNodes[call[s].i + 1] = s IN
  /\ At(s, "compare")
  /\ call' = [call EXCEPT ![s] = IF found THEN [NoCall EXCEPT !.pc = "reply"]
                                         ELSE [@ EXCEPT !.pc = "append"]]
  /\ UNCHANGED <<srvVars, arrays, nodes, own, learn, web, crashes>>

Used   == {nodes.arr} \cup {call[s].temp.arr : s \in {q \in Slaves : call[q].pc \in HasTemp}}
Unused == Arrays \ Used

\* Mutant: the list is sliced one longer, without append.
RegisterReslice(s) ==
  /\ At(s, "append")
  /\ call' = [call EXCEPT ![s].pc = "copy", ![s].temp = [nodes EXCEPT !.len = @ + 1]]
  /\ UNCHANGED <<srvVars, arrays, nodes, own, learn, web, crashes>>

\* Mutant: ts.nodes is the longer list from the start.
RegisterPublish(s) ==
  LET full == nodes.len = Len(arrays[nodes.arr])
      a    == IF full THEN Min(Unused) ELSE nodes.arr
  IN
  /\ At(s, "append")
  /\ arrays' = IF full THEN [arrays EXCEPT ![a] = MasterNodes \o [j \in 1 .. nodes.len |-> Empty]]
                       ELSE [arrays EXCEPT ![a][nodes.len + 1] = Empty]
  /\ nodes' = [arr |-> a, len |-> nodes.len + 1]
  /\ call' = [call EXCEPT ![s].pc = "copy", ![s].temp = nodes']
  /\ UNCHANGED <<srvVars, own, learn, web, crashes>>

\* "" is appended, in place or in a new array,
RegisterAppend(s) ==
  LET full == nodes.len = Len(arrays[nodes.arr])
      a    == IF full THEN Min(Unused) ELSE nodes.arr
  IN
  /\ At(s, "append")
  /\ arrays' = IF full THEN [arrays EXCEPT ![a] = MasterNodes \o [j \in 1 .. nodes.len |-> Empty]]
                       ELSE [arrays EXCEPT ![a][nodes.len + 1] = Empty]
  /\ call' = [call EXCEPT ![s].pc = "copy", ![s].temp = [arr |-> a, len |-> nodes.len + 1]]
  /\ UNCHANGED <<srvVars, nodes, own, learn, web, crashes>>

\* what is behind the place in ts.nodes, as it is by now, is moved up in temp (if ts.nodes has
\* become too short for that a slice expression panics, and the process ends),
RegisterCopy(s) ==
  LET i    == call[s].i
      temp == call[s].temp
      up   == (i + 2) .. IF temp.len <= nodes.len THEN temp.len ELSE nodes.len + 1
  IN
  /\ At(s, "copy")
  /\ IF i + 1 > temp.len \/ i > nodes.len
     THEN Dies(Master) /\ UNCHANGED <<arrays, call>>
     ELSE /\ arrays' = [arrays EXCEPT ![temp.arr] =
                          [j \in DOMAIN @ |-> IF j \in up THEN MasterNodes[j - 1] ELSE @[j]]]
          /\ call' = [call EXCEPT ![s].pc = "store"]
          /\ UNCHANGED phase
  /\ UNCHANGED <<tries, nodes, own, learn, web, crashes>>

\* the address is put in its place,
RegisterStore(s) ==
  /\ At(s, "store")
  /\ arrays' = [arrays EXCEPT ![call[s].temp.arr][call[s].i + 1] = s]
  /\ call' = [call EXCEPT ![s].pc = "assign"]
  /\ UNCHANGED <<srvVars, nodes, own, learn, web, crashes>>

\* and ts.nodes = temp.
RegisterAssign(s) ==
  /\ At(s, "assign")
  /\ nodes' = call[s].temp
  /\ call' = [call EXCEPT ![s] = [NoCall EXCEPT !.pc = "reply"]]
  /\ arrays' = [a \in Arrays |-> IF a \in Used' THEN arrays[a] ELSE <<>>]
  /\ UNCHANGED <<srvVars, own, learn, web, crashes>>

\* Mutant: OK only when there are more nodes than expected.
RegisterReplyLate(s) ==
  LET ok == nodes.len > N /\ phase[s] = "registering" IN
  /\ At(s, "reply")
  /\ call' = [call EXCEPT ![s] = NoCall]
  /\ phase' = IF ok THEN [phase EXCEPT ![s] = "learning"] ELSE phase
  /\ learn' = IF ok THEN [learn EXCEPT ![s] = MasterNodes] ELSE learn
  /\ UNCHANGED <<tries, arrays, nodes, own, web, crashes>>

\* The reply: OK with the list, or NotReady and the slave tries again.
RegisterReply(s) ==
  LET ok == nodes.len >= N /\ phase[s] = "registering" IN
  /\ At(s, "reply")
  /\ call' = [call EXCEPT ![s] = NoCall]
  /\ phase' = IF ok THEN [phase EXCEPT ![s] = "learning"] ELSE phase
  /\ learn' = IF ok THEN [learn EXCEPT ![s] = MasterNodes] ELSE learn
  /\ UNCHANGED <<tries, arrays, nodes, own, web, crashes>>

Register(s) ==
  \/ RegisterSearch(s) \/ RegisterCompare(s) \/ RegisterAppend(s) \/ RegisterCopy(s)
  \/ RegisterStore(s) \/ RegisterAssign(s) \/ RegisterReply(s)

-----------------------------------------------------------------------------
(* NewWebServer, and GetServers of the app server it asks.                 *)

WebDial ==
  /\ web.phase = "off" /\ MaxAsks > 0
  /\ web' = [web EXCEPT !.phase = IF Listening(Asked) THEN "asking" ELSE "failed"]
  /\ UNCHANGED <<srvVars, listVars, own, learn, crashes>>

\* A slave's own numNodes is never more than its list is long (it is started without -N).
GetServers ==
  LET servers == IF Asked = Master THEN MasterNodes ELSE own[Asked]
      ok == Asked # Master \/ nodes.len >= N
  IN
  /\ web.phase = "asking" /\ Listening(Asked) /\ web.asks < MaxAsks
  /\ web' = IF ok THEN [phase |-> "on", asks |-> 0, servers |-> servers]
                    ELSE [web EXCEPT !.asks = @ + 1]
  /\ UNCHANGED <<srvVars, listVars, own, learn, crashes>>

WebGivesUp ==
  /\ web.phase = "asking" /\ (web.asks = MaxAsks \/ ~Listening(Asked))
  /\ web' = [web EXCEPT !.phase = "failed", !.asks = 0]
  /\ UNCHANGED <<srvVars, listVars, own, learn, crashes>>

-----------------------------------------------------------------------------
\* A server crashes.  A slave may be started again, with a new list, once the master has
\* dealt with the call of its former life; it then registers once more.
Crash(s) ==
  /\ Listening(s) /\ crashes < MaxCrashes
  /\ Dies(s)
  /\ crashes' = crashes + 1
  /\ UNCHANGED <<tries, listVars, own, learn, web>>

Restart(s) ==
  /\ phase[s] = "dead" /\ call[s].pc = "none" /\ crashes > 0
  /\ phase' = [phase EXCEPT ![s] = "down"]
  /\ tries' = [tries EXCEPT ![s] = 0]
  /\ own' = [own EXCEPT ![s] = <<s>>]
  /\ learn' = [learn EXCEPT ![s] = <<>>]
  /\ UNCHANGED <<listVars, web, crashes>>

Join(s) == DialMaster(s) \/ DialFails(s) \/ RegisterFails(s) \/ Learn(s)

Next ==
  \/ \E s \in Nodes : Start(s) \/ Ready(s) \/ Crash(s)
  \/ \E s \in Slaves : Join(s) \/ Register(s) \/ Restart(s)
  \/ WebDial \/ GetServers \/ WebGivesUp

Spec == Init /\ [][Next]_vars

\* Every server is started, and goes on.
FairSpec ==
  /\ Spec
  /\ \A s \in Nodes : WF_vars(Start(s)) /\ WF_vars(Ready(s))
  /\ \A s \in Slaves : WF_vars(Join(s)) /\ WF_vars(Register(s))

-----------------------------------------------------------------------------
(* Correctness.                                                            *)

\* All servers come up, or one of them has died on the way.  (stwserver_api.go: once all
\* nodes have joined, RegisterServer replies OK.)
ClusterForms ==
  <>((\A s \in Nodes : phase[s] = "up") \/ (\E s \in Nodes : phase[s] = "dead"))

\* Two handlers have a temp, and may replace each other's list or write to one array.
Mixed ==
  \E s, q \in Slaves : s # q /\ call[s].pc \in HasTemp /\ call[q].pc \in HasTemp

\* The lists that the master has handed out.
HandedOut ==
  /\ \A s \in Slaves : learn[s] \in Seq(Nodes)
  /\ Asked = Master => web.servers \in Seq(Nodes)

\* No list that the master hands out has a gap ("", which getStwConn cannot dial), unless two
\* handlers are between append and the assignment of ts.nodes at once: temp is whole before
\* it becomes ts.nodes, and what is written in place beyond ts.nodes is not seen.
WholeUnlessMixed == []HandedOut \/ <>Mixed

\* The servers come up if no two handlers are ever between append and the assignment of
\* ts.nodes at once: places that were searched in an older list (and leave the list unsorted,
\* with an address twice), slaves that are started again and retries do not prevent it.
FormsUnlessMixed ==
  <>(\/ \A s \in Nodes : phase[s] = "up"
     \/ \E s \in Nodes : phase[s] = "dead"
     \/ Mixed)
=============================================================================
