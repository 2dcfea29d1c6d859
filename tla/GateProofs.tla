------------------------------ MODULE GateProofs ------------------------------
(***************************************************************************)
(* The average latency of WebGate stays below the slowest request for any  *)
(* clients, addresses that share bits, thresholds and latencies, although  *)
(* requests write averages of what they read before others wrote.          *)
(***************************************************************************)
EXTENDS WebGate, TLAPS

Request == [pc: {"idle", "check", "serve", "average", "test", "set"}, method: Methods,
            pass: BOOLEAN, took: {0, Slow}, old: 0 .. Slow, load: BOOLEAN]

\* The latencies and bounds are numbers.
LEMMA ConstantsFit == Slow \in Nat \ {0} /\ MaxSlow \in Nat /\ Threshold \in Nat
BY GateAssumption

\* A goroutine without a request.
LEMMA NoRequestFits == NoRequest \in Request
BY ConstantsFit DEF NoRequest, Request, Methods

\* The average of two latencies, nine parts to one, is none that exceeds both.
LEMMA AverageFits ==
  ASSUME NEW old \in 0 .. Slow, NEW took \in {0, Slow}
  PROVE  (9 * old + took) \div 10 \in 0 .. Slow
<1> DEFINE sum == 9 * old + took
<1>1. sum \in Nat /\ sum <= 10 * Slow /\ Slow \in Nat
  BY ConstantsFit
<1> HIDE DEF sum
<1>2. sum \div 10 \in Nat /\ sum \div 10 <= Slow
  BY <1>1
<1> QED  BY <1>1, <1>2 DEF sum

\* A step of c's goroutine changes its request only.
LEMMA RequestStep ==
  ASSUME TypeOK, NEW c \in Clients, NEW r \in Request, req' = [req EXCEPT ![c] = r],
         avg' \in 0 .. Slow, high' \in BOOLEAN, filter' \subseteq Bits, cookies' \subseteq Jar,
         slow' \in 0 .. MaxSlow
  PROVE  TypeOK'
<1>1. req \in [Clients -> Request]
  BY DEF TypeOK, Request
<1>2. req' \in [Clients -> Request]
  BY <1>1
<1> QED  BY <1>2 DEF TypeOK, Request

\* Each step of a request, and the end of a passcode, keeps the types.
LEMMA GateNext == TypeOK /\ [Next]_vars => TypeOK'
<1> SUFFICES ASSUME TypeOK, [Next]_vars PROVE TypeOK'
  OBVIOUS
<1>1. /\ avg \in 0 .. Slow /\ high \in BOOLEAN /\ filter \subseteq Bits /\ cookies \subseteq Jar
      /\ req \in [Clients -> Request] /\ slow \in 0 .. MaxSlow
  BY DEF TypeOK, Request
<1>2. ASSUME NEW c \in Clients, NEW m \in Methods, Ask(c, m) PROVE TypeOK'
  <2> DEFINE pass == c \in cookies
             r == [NoRequest EXCEPT !.pc = "check", !.method = m, !.pass = pass]
  <2>1. req' = [req EXCEPT ![c] = r] /\ UNCHANGED <<avg, high, filter, cookies, slow>>
    BY <1>2 DEF Ask
  <2>2. r \in Request
    <3>1. pass \in BOOLEAN
      OBVIOUS
    <3> HIDE DEF pass
    <3> QED  BY <3>1, NoRequestFits DEF Request
  <2> HIDE DEF r
  <2> QED  BY <1>1, <2>1, <2>2, RequestStep
<1>3. ASSUME NEW c \in Clients, Admit(c) PROVE TypeOK'
  <2> DEFINE r == [NoRequest EXCEPT !.pc = "serve"]
  <2>1. req' = [req EXCEPT ![c] = r] /\ UNCHANGED <<avg, high, filter, cookies, slow>>
    BY <1>3 DEF Admit
  <2>2. r \in Request
    BY NoRequestFits DEF Request
  <2> HIDE DEF r
  <2> QED  BY <1>1, <2>1, <2>2, RequestStep
<1>4. ASSUME NEW c \in Clients, SolvePuzzle(c) \/ ShowPuzzle(c) PROVE TypeOK'
  <2>1. req' = [req EXCEPT ![c] = NoRequest] /\ UNCHANGED <<avg, high, slow>>
    BY <1>4 DEF SolvePuzzle, ShowPuzzle
  <2>2. filter' \subseteq Bits /\ cookies' \subseteq Jar
    BY <1>1, <1>4 DEF SolvePuzzle, ShowPuzzle, Bits
  <2> QED  BY <1>1, <2>1, <2>2, NoRequestFits, RequestStep
<1>5. ASSUME NEW c \in Clients, NEW took \in {0, Slow}, Measure(c, took) PROVE TypeOK'
  <2> DEFINE r == [req[c] EXCEPT !.pc = "average", !.took = took, !.old = avg]
  <2>1. req' = [req EXCEPT ![c] = r] /\ UNCHANGED <<avg, high, filter, cookies>>
    BY <1>1, <1>5 DEF Measure
  <2>2. r \in Request
    BY <1>1 DEF Request
  <2>3. slow' \in 0 .. MaxSlow
    BY <1>1, <1>5, ConstantsFit DEF Measure
  <2> HIDE DEF r
  <2> QED  BY <1>1, <2>1, <2>2, <2>3, RequestStep
<1>6. ASSUME NEW c \in Clients, Average(c) PROVE TypeOK'
  <2> DEFINE r == [NoRequest EXCEPT !.pc = "test"]
  <2>1. req' = [req EXCEPT ![c] = r] /\ UNCHANGED <<high, filter, cookies, slow>>
    BY <1>6 DEF Average
  <2>2. r \in Request
    BY NoRequestFits DEF Request
  <2>3. avg' = (9 * req[c].old + req[c].took) \div 10
    BY <1>6 DEF Average
  <2>4. req[c].old \in 0 .. Slow /\ req[c].took \in {0, Slow}
    BY <1>1 DEF Request
  <2>5. avg' \in 0 .. Slow
    BY <2>3, <2>4, AverageFits
  <2> HIDE DEF r
  <2> QED  BY <1>1, <2>1, <2>2, <2>5, RequestStep
<1>7. ASSUME NEW c \in Clients, Test(c) PROVE TypeOK'
  <2> DEFINE load == avg >= Threshold
             r == [req[c] EXCEPT !.pc = "set", !.load = load]
  <2>1. req' = [req EXCEPT ![c] = r] /\ UNCHANGED <<avg, high, filter, cookies, slow>>
    BY <1>1, <1>7 DEF Test
  <2>2. r \in Request
    <3>1. load \in BOOLEAN
      OBVIOUS
    <3> HIDE DEF load
    <3> QED  BY <1>1, <3>1 DEF Request
  <2> HIDE DEF r
  <2> QED  BY <1>1, <2>1, <2>2, RequestStep
<1>8. ASSUME NEW c \in Clients, SetLoad(c) PROVE TypeOK'
  <2>1. req' = [req EXCEPT ![c] = NoRequest] /\ UNCHANGED <<avg, filter, cookies, slow>>
    BY <1>8 DEF SetLoad
  <2>2. high' \in BOOLEAN
    BY <1>1, <1>8 DEF SetLoad, Request
  <2> QED  BY <1>1, <2>1, <2>2, NoRequestFits, RequestStep
<1>9. ASSUME NEW c \in Clients, Expire(c) PROVE TypeOK'
  BY <1>9 DEF Expire, TypeOK
<1>10. CASE UNCHANGED vars
  BY <1>10 DEF vars, TypeOK
<1> QED  BY <1>2, <1>3, <1>4, <1>5, <1>6, <1>7, <1>8, <1>9, <1>10 DEF Next, Handle

\* TypeOK always: ddosProtectionWrapper's average never exceeds the slowest request, whichever
\* averages are lost because two requests read the same one.
THEOREM GateTypeSafe == Spec => []TypeOK
<1>1. Init => TypeOK
  <2> SUFFICES ASSUME Init PROVE TypeOK
    OBVIOUS
  <2>1. req \in [Clients -> Request]
    BY NoRequestFits DEF Init
  <2>2. avg \in 0 .. Slow /\ slow \in 0 .. MaxSlow
    BY ConstantsFit DEF Init
  <2>3. high \in BOOLEAN /\ filter \subseteq Bits /\ cookies \subseteq Jar
    BY DEF Init
  <2> QED  BY <2>1, <2>2, <2>3 DEF TypeOK, Request
<1> QED  BY <1>1, GateNext, PTL DEF Spec
=============================================================================
