------------------------------- MODULE WebGate -------------------------------
(***************************************************************************)
(* The gate of the web server (ddosProtectionWrapper and servePuzzle of    *)
(* webserver_impl.go): while the average latency is high, clients without  *)
(* the passcode cookie get a puzzle page in place of an answer.  Every     *)
(* request is a goroutine, and avgLatency, underHighLoad and zombieFilter  *)
(* are shared without a lock.                                              *)
(*                                                                         *)
(* Latencies are whole units of 10 ms, and the average is rounded down.    *)
(* The filter is a Bloom filter with one hash function: a client is its    *)
(* bit, which others may share.                                            *)
(***************************************************************************)
EXTENDS Integers, FiniteSets

CONSTANTS
  Clients,
  Jar,           \* clients that keep cookies: browsers do, httpclient does not
  BitOf,         \* BitOf[c]: the bit of c's address in the filter
  Threshold,     \* 20 ms
  Slow,          \* the latency of a request under load
  MaxSlow        \* bound: slow requests

Bits == {BitOf[c] : c \in Clients}
Methods == {"GET", "POST", "DELETE"}

ASSUME GateAssumption ==
  /\ Jar \subseteq Clients
  /\ Threshold \in Nat \ {0} /\ Slow \in Nat \ {0} /\ MaxSlow \in Nat

VARIABLES
  avg,           \* ws.avgLatency
  high,          \* ws.underHighLoad
  filter,        \* ws.zombieFilter: the bits that are set
  cookies,       \* clients with a passcode that has not expired
  req,           \* req[c]: the request of c
  slow           \* slow requests so far

vars == <<avg, high, filter, cookies, req, slow>>

\* pass: the request carries a passcode; took: its latency; old: avgLatency as it was read;
\* load: what underHighLoad will be set to.  Each is dropped when it is no longer needed.
NoRequest == [pc |-> "idle", method |-> "GET", pass |-> FALSE, took |-> 0, old |-> 0, load |-> FALSE]

Init ==
  /\ avg = 0 /\ high = FALSE /\ filter = {} /\ cookies = {}
  /\ req = [c \in Clients |-> NoRequest]
  /\ slow = 0

Ask(c, m) ==
  /\ req[c].pc = "idle"
  /\ req' = [req EXCEPT ![c] = [NoRequest EXCEPT !.pc = "check", !.method = m, !.pass = c \in cookies]]
  /\ UNCHANGED <<avg, high, filter, cookies, slow>>

Gated(c) == req[c].pc = "check" /\ ~req[c].pass /\ (high \/ BitOf[c] \in filter)

Admit(c) ==
  /\ req[c].pc = "check" /\ ~Gated(c)
  /\ req' = [req EXCEPT ![c] = [NoRequest EXCEPT !.pc = "serve"]]
  /\ UNCHANGED <<avg, high, filter, cookies, slow>>

\* Mutant: the puzzle is solved without getting a passcode.
SolvePuzzleNoCookie(c) ==
  /\ Gated(c) /\ req[c].method = "POST"
  /\ filter' = filter \ {BitOf[c]}
  /\ req' = [req EXCEPT ![c] = NoRequest]
  /\ UNCHANGED <<avg, high, cookies, slow>>

\* servePuzzle: a POST takes the client's bit out, whoever set it, and is answered with a
\* passcode, without its latency being measured;
SolvePuzzle(c) ==
  /\ Gated(c) /\ req[c].method = "POST"
  /\ filter' = filter \ {BitOf[c]}
  /\ cookies' = cookies \cup ({c} \cap Jar)
  /\ req' = [req EXCEPT ![c] = NoRequest]
  /\ UNCHANGED <<avg, high, slow>>

\* a GET gets the page and marks the client; other methods get an empty answer.
ShowPuzzle(c) ==
  /\ Gated(c) /\ req[c].method # "POST"
  /\ filter' = IF req[c].method = "GET" THEN filter \cup {BitOf[c]} ELSE filter
  /\ req' = [req EXCEPT ![c] = NoRequest]
  /\ UNCHANGED <<avg, high, cookies, slow>>

\* mux.ServeHTTP, and the read of avgLatency for the new average,
Measure(c, took) ==
  /\ req[c].pc = "serve"
  /\ took = Slow => slow < MaxSlow
  /\ slow' = IF took = Slow THEN slow + 1 ELSE slow
  /\ req' = [req EXCEPT ![c].pc = "average", ![c].took = took, ![c].old = avg]
  /\ UNCHANGED <<avg, high, filter, cookies>>

\* Mutant: the new latency counts in full.
AverageInFull(c) ==
  /\ req[c].pc = "average"
  /\ avg' = (9 * req[c].old) \div 10 + req[c].took
  /\ req' = [req EXCEPT ![c] = [NoRequest EXCEPT !.pc = "test"]]
  /\ UNCHANGED <<high, filter, cookies, slow>>

\* which is written in another step than it was read,
Average(c) ==
  /\ req[c].pc = "average"
  /\ avg' = (9 * req[c].old + req[c].took) \div 10
  /\ req' = [req EXCEPT ![c] = [NoRequest EXCEPT !.pc = "test"]]
  /\ UNCHANGED <<high, filter, cookies, slow>>

\* then tested,
Test(c) ==
  /\ req[c].pc = "test"
  /\ req' = [req EXCEPT ![c].pc = "set", ![c].load = avg >= Threshold]
  /\ UNCHANGED <<avg, high, filter, cookies, slow>>

\* and the outcome kept.
SetLoad(c) ==
  /\ req[c].pc = "set"
  /\ high' = req[c].load
  /\ req' = [req EXCEPT ![c] = NoRequest]
  /\ UNCHANGED <<avg, filter, cookies, slow>>

\* 111 seconds are over.
Expire(c) ==
  /\ c \in cookies
  /\ cookies' = cookies \ {c}
  /\ UNCHANGED <<avg, high, filter, req, slow>>

Handle(c) ==
  \/ Admit(c) \/ SolvePuzzle(c) \/ ShowPuzzle(c)
  \/ \E took \in {0, Slow} : Measure(c, took)
  \/ Average(c) \/ Test(c) \/ SetLoad(c)

Next == \E c \in Clients : Handle(c) \/ Expire(c) \/ \E m \in Methods : Ask(c, m)

Spec == Init /\ [][Next]_vars

\* A goroutine goes on.  A client with cookies answers a puzzle in the end, and uses its
\* passcode now and then before it expires.  Nothing is assumed of the other clients.
FairSpec ==
  /\ Spec
  /\ \A c \in Clients : WF_vars(Handle(c))
  /\ \A c \in Jar : SF_vars(Ask(c, "POST")) /\ SF_vars(c \in cookies /\ Ask(c, "GET"))

-----------------------------------------------------------------------------
\* The variables have their types, and the average stays below the slowest request.
TypeOK ==
  /\ avg \in 0 .. Slow /\ high \in BOOLEAN
  /\ filter \subseteq Bits /\ cookies \subseteq Jar
  /\ req \in [Clients -> [pc: {"idle", "check", "serve", "average", "test", "set"}, method: Methods,
                          pass: BOOLEAN, took: {0, Slow}, old: 0 .. Slow, load: BOOLEAN]]
  /\ slow \in 0 .. MaxSlow

\* High load ends once requests are fast again, and does not come back: although only
\* requests that get past the gate are measured, although averages and the flag are written
\* from what was read before (ddosProtectionWrapper), and whatever the clients without
\* cookies do.
LoadEnds == <>[]~high
=============================================================================
