--------------------------- MODULE TestsProofs ---------------------------
(* Proofs about the test runner, for any fixtures, tests and threads: that *)
(* the fixtures of Fixtures live as long as they are needed and its report *)
(* is honest; and that a test, through the TestContext, leaves the         *)
(* environment and the disk as they were and shares no temporary resource. *)
EXTENDS JoinedTests, FiniteSetTheorems, TLAPS

Elements(order) == {order[i] : i \in DOMAIN order}
Distinct(order) == \A i, j \in DOMAIN order : order[i] = order[j] => i = j
InTest == pc \in {"resolve", "body", "cleanTest", "report"}

Types ==
  /\ <<mode, failFast>> \in Runs /\ failFast \in BOOLEAN
  /\ pc \in PCs \ {"cleanContext"} /\ current \in 0 .. Tests
  /\ InTest => current # 0
  /\ stack \in Seq((Names \cup 1 .. Tests) \X (Nat \ {0}))
  /\ testOrder \in Seq(Names) /\ testCache \subseteq Names
  /\ moduleOrder \in Seq(Names) /\ moduleCache \subseteq Names
  /\ context \in BOOLEAN /\ cleanupError \in BOOLEAN /\ stopped \in BOOLEAN
  /\ outcome \in Outcomes
  /\ counts \in [{"passed", "failed", "skipped", "todo"} -> Nat] /\ failures \in Nat
  /\ made \in [Names -> 0 .. 1] /\ live \subseteq Names /\ faulty \subseteq 0 .. Tests

(* The caches are the orders, each of its scope, and what is in them lives.*)
CacheInv ==
  /\ testCache = Elements(testOrder) /\ testCache \subseteq OfScope("test")
  /\ moduleCache = Elements(moduleOrder) /\ moduleCache \subseteq OfScope("module")
  /\ Distinct(testOrder) /\ Distinct(moduleOrder)
  /\ live = testCache \cup moduleCache
  /\ pc \in {"next", "report", "cleanModule", "done"} => testOrder = <<>>
  /\ pc = "done" => moduleOrder = <<>> \/ (mode = "machine" /\ failFast)

(* What is not in its cache has not been made.                             *)
MadeInv ==
  /\ pc = "resolve" => \A f \in OfScope("test") \ testCache : made[f] = 0
  /\ pc \notin {"cleanModule", "done"} => \A f \in OfScope("module") \ moduleCache : made[f] = 0

(* What a fixture was made from was made before it, in its order or, for   *)
(* a test fixture, in the module's.                                        *)
OrderInv ==
  /\ \A i \in DOMAIN testOrder : \A p \in DOMAIN Needs[testOrder[i]] :
       \/ Needs[testOrder[i]][p] = TestContext /\ context
       \/ Needs[testOrder[i]][p] \in moduleCache
       \/ \E j \in DOMAIN testOrder : j < i /\ testOrder[j] = Needs[testOrder[i]][p]
  /\ \A i \in DOMAIN moduleOrder : \A p \in DOMAIN Needs[moduleOrder[i]] :
       \E j \in DOMAIN moduleOrder : j < i /\ moduleOrder[j] = Needs[moduleOrder[i]][p]

(* The calls of resolve_fixture: each waits for the one above it, has what *)
(* it has bound so far, and no fixture is waited for twice, because of the *)
(* ranks.                                                                  *)
Ranks == {rank \in [Names -> 0 .. Cardinality(Names)] :
            \A f \in Names : \A i \in DOMAIN Needs[f] :
              Needs[f][i] # TestContext => rank[Needs[f][i]] < rank[f]}
Rank == CHOOSE rank \in Ranks : TRUE
Has(n, cached, bound) == IF n = TestContext THEN bound ELSE n \in cached
Waits(st, s) ==
  /\ st[s][2] \in DOMAIN Needs[st[s][1]]
  /\ st[s + 1][1] = Needs[st[s][1]][st[s][2]]
HasSoFar(call, cached, bound) ==
  \A p \in DOMAIN Needs[call[1]] : p < call[2] => Has(Needs[call[1]][p], cached, bound)
CallsInv(st, cached, bound) ==
  /\ st # <<>> /\ st[1][1] \in 1 .. Tests
  /\ \A s \in DOMAIN st : s > 1 => st[s][1] \in Names \ cached
  /\ \A s \in DOMAIN st : HasSoFar(st[s], cached, bound)
  /\ \A s \in 1 .. Len(st) - 1 : Waits(st, s)
  /\ \A r, s \in DOMAIN st : 1 < r /\ r < s => Rank[st[s][1]] < Rank[st[r][1]]
StackInv ==
  IF pc = "resolve" THEN stack[1][1] = current /\ CallsInv(stack, Cached, context)
  ELSE stack = <<>>
BodyInv ==
  pc = "body" => \A p \in DOMAIN Needs[current] : Has(Needs[current][p], Cached, context)

LifeInv == CacheInv /\ MadeInv /\ OrderInv /\ StackInv /\ BodyInv

(* What is counted: every test up to the present one, and the failures of  *)
(* those and of the module.                                                *)
Pending == IF InTest THEN {current} ELSE IF pc = "cleanModule" THEN {0} ELSE {}
Counted == IF InTest THEN current - 1 ELSE current
Sum == counts["passed"] + counts["failed"] + counts["skipped"] + counts["todo"]
CountInv ==
  /\ faulty \subseteq 0 .. current
  /\ pc \notin {"cleanModule", "done"} => 0 \notin faulty
  /\ InTest => (current \in faulty <=> outcome = "failed" \/ cleanupError)
  /\ pc = "cleanModule" => (0 \in faulty <=> cleanupError)
  /\ pc \in {"resolve", "body"} => outcome = "none" /\ ~cleanupError
  /\ pc \in {"cleanTest", "report"} => outcome # "none"
  /\ failures = Cardinality(faulty \ Pending) /\ counts["failed"] = failures
  /\ Sum = Counted + (IF 0 \in faulty \ Pending THEN 1 ELSE 0)
  /\ stopped => failFast /\ failures > 0
  /\ pc \in {"cleanModule", "done"} /\ current < Tests => stopped

FixturesInv == Types /\ LifeInv /\ CountInv
----------------------------------------------------------------------------
(* The fixtures the file declares, and sequences of them.                  *)

LEMMA Declared ==
  /\ Names \cap (1 .. Tests) = {} /\ TestContext \notin Names /\ Tests \in Nat \ {0}
  /\ \A x \in Names \cup 1 .. Tests :
       /\ Needs[x] \in Seq(Names \cup {TestContext})
       /\ \A p \in DOMAIN Needs[x] : Needs[x][p] \in Names \cup {TestContext}
  /\ \A f \in OfScope("module") : \A p \in DOMAIN Needs[f] : Needs[f][p] \in OfScope("module")
  /\ OfScope("test") \cap OfScope("module") = {}
  /\ OfScope("test") \cup OfScope("module") = Names
<1>1. /\ Names \cap (1 .. Tests) = {} /\ TestContext \notin Names /\ Tests \in Nat \ {0}
      /\ Needs \in [Names \cup 1 .. Tests -> Seq(Names \cup {TestContext})]
      /\ Scope \in [Names -> {"test", "module"}]
      /\ \A f \in Names : Scope[f] = "module" =>
           \A i \in DOMAIN Needs[f] :
             Needs[f][i] # TestContext /\ Scope[Needs[f][i]] = "module"
  BY FixtureAssumption DEF FixturesResolve
<1>2. \A x \in Names \cup 1 .. Tests :
        /\ Needs[x] \in Seq(Names \cup {TestContext})
        /\ \A p \in DOMAIN Needs[x] : Needs[x][p] \in Names \cup {TestContext}
  BY <1>1
<1> QED  BY <1>1, <1>2 DEF OfScope

LEMMA Ranked ==
  /\ Rank \in [Names -> Nat]
  /\ \A f \in Names : \A i \in DOMAIN Needs[f] :
       Needs[f][i] # TestContext => Rank[Needs[f][i]] < Rank[f]
<1>1. Cardinality(Names) \in Nat
  BY FixtureAssumption, FS_CardinalityType
<1>2. Ranks # {}
  BY FixtureAssumption DEF FixturesResolve, Ranks
<1>3. Rank \in Ranks
  BY <1>2 DEF Rank
<1> QED  BY <1>1, <1>3 DEF Ranks

LEMMA LastRemoved ==
  ASSUME NEW S, NEW s \in Seq(S), s # <<>>, Distinct(s)
  PROVE  /\ LastOf(s) \in DOMAIN s /\ s[LastOf(s)] \in S
         /\ Without(s, LastOf(s)) \in Seq(S) /\ Distinct(Without(s, LastOf(s)))
         /\ Elements(Without(s, LastOf(s))) = Elements(s) \ {s[LastOf(s)]}
         /\ DOMAIN Without(s, LastOf(s)) \subseteq DOMAIN s
         /\ LastOf(s) \notin DOMAIN Without(s, LastOf(s))
         /\ \A i \in DOMAIN s : i < LastOf(s) => i \in DOMAIN Without(s, LastOf(s))
         /\ \A i \in DOMAIN Without(s, LastOf(s)) : Without(s, LastOf(s))[i] = s[i]
<1>1. Len(s) \in Nat \ {0} /\ DOMAIN s = 1 .. Len(s) /\ LastOf(s) = Len(s)
  BY DEF LastOf
<1>2. \A i \in 1 .. Len(s) : s[i] \in S
  OBVIOUS
<1>a. Len(s) - 1 \in Nat /\ (Len(s) - 1) + 1 = Len(s)
  BY <1>1
<1>3. PICK n \in Nat : n + 1 = Len(s) /\ n = Len(s) - 1
  BY <1>a
<1>4. PICK r : r = Without(s, LastOf(s))
  OBVIOUS
<1>b. r = [j \in 1 .. n |-> IF j < Len(s) THEN s[j] ELSE s[j + 1]]
  BY <1>1, <1>3, <1>4 DEF Without
<1>c. \A j \in 1 .. n : j < Len(s)
  BY <1>3
<1>5. r = [i \in 1 .. n |-> s[i]]
  BY <1>b, <1>c
<1>6. r \in Seq(S) /\ DOMAIN r = 1 .. n /\ \A i \in 1 .. n : r[i] = s[i]
  BY <1>1, <1>2, <1>3, <1>5
<1>7. Distinct(r)
  BY <1>1, <1>3, <1>6 DEF Distinct
<1>8. Elements(r) = Elements(s) \ {s[n + 1]}
  BY <1>1, <1>3, <1>6 DEF Distinct, Elements
<1> QED  BY <1>1, <1>2, <1>3, <1>4, <1>6, <1>7, <1>8

LEMMA Appended ==
  ASSUME NEW S, NEW s \in Seq(S), NEW e \in S, Distinct(s), e \notin Elements(s)
  PROVE  /\ Append(s, e) \in Seq(S) /\ Distinct(Append(s, e))
         /\ Elements(Append(s, e)) = Elements(s) \cup {e}
         /\ DOMAIN Append(s, e) = DOMAIN s \cup {Len(s) + 1}
         /\ \A i \in DOMAIN s : Append(s, e)[i] = s[i] /\ i < Len(s) + 1
         /\ Append(s, e)[Len(s) + 1] = e
<1>a. /\ Append(s, e) \in Seq(S) /\ DOMAIN Append(s, e) = 1 .. Len(s) + 1
      /\ \A i \in 1 .. Len(s) : Append(s, e)[i] = s[i]
      /\ Append(s, e)[Len(s) + 1] = e
  OBVIOUS
<1>1. PICK r \in Seq(S) : /\ r = Append(s, e) /\ DOMAIN r = 1 .. Len(s) + 1
                          /\ \A i \in 1 .. Len(s) : r[i] = s[i]
                          /\ r[Len(s) + 1] = e
  BY <1>a
<1>2. DOMAIN s = 1 .. Len(s) /\ Len(s) \in Nat
  OBVIOUS
<1>3. 1 .. Len(s) + 1 = (1 .. Len(s)) \cup {Len(s) + 1}
  BY <1>2
<1>4. Elements(r) = Elements(s) \cup {e}
  BY <1>1, <1>2, <1>3 DEF Elements
<1>5. Distinct(r)
  BY <1>1, <1>2, <1>3 DEF Distinct, Elements
<1> QED  BY <1>1, <1>2, <1>3, <1>4, <1>5
----------------------------------------------------------------------------
(* The stack of calls: a call is added on top, the top one binds its next  *)
(* parameter, the top one returns to the one below.                        *)
Call == (Names \cup 1 .. Tests) \X (Nat \ {0})

LEMMA CallsTyped ==
  ASSUME NEW st \in Seq(Call), st # <<>>
  PROVE  /\ Len(st) \in Nat \ {0} /\ DOMAIN st = 1 .. Len(st)
         /\ \A s \in 1 .. Len(st) : /\ st[s] \in Call /\ st[s][1] \in Names \cup 1 .. Tests
                                    /\ st[s][2] \in Nat \ {0} /\ st[s] = <<st[s][1], st[s][2]>>
<1>1. \A c \in Call : /\ c[1] \in Names \cup 1 .. Tests /\ c[2] \in Nat \ {0}
                      /\ c = <<c[1], c[2]>>
  BY DEF Call
<1>2. \A s \in 1 .. Len(st) : st[s] \in Call
  OBVIOUS
<1>3. Len(st) \in Nat \ {0} /\ DOMAIN st = 1 .. Len(st)
  OBVIOUS
<1> QED  BY <1>1, <1>2, <1>3

LEMMA CallAdded ==
  ASSUME NEW st \in Seq(Call), NEW cached \in SUBSET Names, NEW bound \in BOOLEAN,
         CallsInv(st, cached, bound), NEW f \in Names \ cached,
         st[Len(st)][2] \in DOMAIN Needs[st[Len(st)][1]],
         f = Needs[st[Len(st)][1]][st[Len(st)][2]]
  PROVE  /\ CallsInv(Append(st, <<f, 1>>), cached, bound)
         /\ Append(st, <<f, 1>>) \in Seq(Call) /\ Append(st, <<f, 1>>)[1] = st[1]
<1> DEFINE n == Len(st)
<1>0. PICK u : u = Append(st, <<f, 1>>)
  OBVIOUS
<1>1. <<f, 1>> \in Call
  BY DEF Call
<1>2. /\ n \in Nat \ {0} /\ DOMAIN st = 1 .. n
      /\ \A s \in 1 .. n : st[s][1] \in Names \cup 1 .. Tests /\ st[s][2] \in Nat \ {0}
  BY CallsTyped DEF CallsInv
<1>3. /\ u \in Seq(Call) /\ DOMAIN u = 1 .. n + 1 /\ Len(u) = n + 1
      /\ \A s \in 1 .. n : u[s] = st[s]
      /\ u[n + 1] = <<f, 1>>
  BY <1>0, <1>1, <1>2
<1>a. u[n + 1][1] = f /\ u[n + 1][2] = 1
  BY <1>3
<1> HIDE DEF n
<1>b. \A s \in 1 .. n + 1 : s \in 1 .. n \/ s = n + 1
  BY <1>2
<1>4. u # <<>> /\ u[1] = st[1]
  BY <1>2, <1>3
<1>5. \A s \in DOMAIN u : s > 1 => u[s][1] \in Names \ cached
  BY <1>2, <1>3, <1>a, <1>b DEF CallsInv
<1>6. \A s \in DOMAIN u : HasSoFar(u[s], cached, bound)
  <2>1. HasSoFar(<<f, 1>>, cached, bound)
    <3>1. \A p \in DOMAIN Needs[f] : p \in Nat \ {0}
      BY Declared
    <3> QED  BY <3>1 DEF HasSoFar
  <2> QED  BY <1>2, <1>3, <1>b, <2>1 DEF CallsInv
<1>7. \A s \in 1 .. Len(u) - 1 : Waits(u, s)
  <2> SUFFICES ASSUME NEW s \in 1 .. n PROVE Waits(u, s)
    BY <1>2, <1>3
  <2>1. CASE s = n
    BY <1>2, <1>3, <1>a, <2>1 DEF Waits, n
  <2>2. CASE s # n
    <3>1. n \in Nat
      BY <1>2
    <3>2. s \in 1 .. n - 1 /\ s + 1 \in 1 .. n
      BY <3>1, <2>2
    <3>3. s \in 1 .. Len(st) - 1 /\ s + 1 \in 1 .. n
      BY <3>2 DEF n
    <3> QED  BY <1>2, <1>3, <3>3 DEF Waits, CallsInv
  <2> QED  BY <2>1, <2>2
<1>8. \A r, s \in DOMAIN u : 1 < r /\ r < s => Rank[u[s][1]] < Rank[u[r][1]]
  <2> SUFFICES ASSUME NEW r \in 1 .. n + 1, NEW s \in 1 .. n + 1, 1 < r, r < s
               PROVE  Rank[u[s][1]] < Rank[u[r][1]]
    BY <1>3
  <2>1. CASE s \in 1 .. n
    <3>1. r \in 1 .. n
      BY <1>2, <2>1
    <3>2. u[r] = st[r] /\ u[s] = st[s]
      BY <1>3, <2>1, <3>1
    <3>3. Rank[st[s][1]] < Rank[st[r][1]]
      BY <1>2, <2>1, <3>1 DEF CallsInv
    <3> QED  BY <3>2, <3>3
  <2>2. CASE s = n + 1
    <3>1. n \in 1 .. n /\ r \in 1 .. n /\ n > 1
      BY <1>2, <2>2
    <3>2. st[n][1] \in Names /\ st[r][1] \in Names
      BY <1>2, <3>1 DEF CallsInv
    <3>3. Rank[f] < Rank[st[n][1]]
      BY <3>2, Ranked, Declared DEF n
    <3>4. r = n \/ Rank[st[n][1]] < Rank[st[r][1]]
      BY <1>2, <3>1 DEF CallsInv
    <3>5. Rank[f] \in Nat /\ Rank[st[n][1]] \in Nat /\ Rank[st[r][1]] \in Nat
      BY <3>2, Ranked
    <3>6. Rank[f] < Rank[st[r][1]]
      BY <3>3, <3>4, <3>5
    <3> QED  BY <1>3, <1>a, <2>2, <3>1, <3>6
  <2> QED  BY <1>b, <2>1, <2>2
<1> QED  BY <1>0, <1>3, <1>4, <1>5, <1>6, <1>7, <1>8 DEF CallsInv
Advanced(st) == [st EXCEPT ![Len(st)] = <<st[Len(st)][1], st[Len(st)][2] + 1>>]

LEMMA CallBinds ==
  ASSUME NEW st \in Seq(Call), NEW cached, NEW bound,
         CallsInv(st, cached, bound),
         NEW cached2 \in SUBSET Names, NEW bound2,
         cached \subseteq cached2, bound => bound2,
         \A s \in DOMAIN st : s > 1 => st[s][1] \notin cached2,
         st[Len(st)][2] \in DOMAIN Needs[st[Len(st)][1]],
         Has(Needs[st[Len(st)][1]][st[Len(st)][2]], cached2, bound2)
  PROVE  /\ CallsInv(Advanced(st), cached2, bound2)
         /\ Advanced(st) \in Seq(Call) /\ Advanced(st)[1][1] = st[1][1]
<1> DEFINE n == Len(st)
<1>0. PICK u : u = Advanced(st)
  OBVIOUS
<1>2. /\ n \in Nat \ {0} /\ DOMAIN st = 1 .. n
      /\ \A s \in 1 .. n : /\ st[s] \in Call /\ st[s][1] \in Names \cup 1 .. Tests
                           /\ st[s][2] \in Nat \ {0}
  BY CallsTyped DEF CallsInv
<1>1. <<st[n][1], st[n][2] + 1>> \in Call
  <2>1. st[n][1] \in Names \cup 1 .. Tests /\ st[n][2] \in Nat \ {0}
    BY <1>2
  <2> QED  BY <2>1 DEF Call
<1>3. /\ u \in Seq(Call) /\ DOMAIN u = 1 .. n /\ Len(u) = n
      /\ \A s \in 1 .. n : s # n => u[s] = st[s]
      /\ u[n] = <<st[n][1], st[n][2] + 1>>
  BY <1>0, <1>1, <1>2 DEF Advanced
<1>a. u[n][1] = st[n][1] /\ u[n][2] = st[n][2] + 1
  <2>1. \A a, b : <<a, b>>[1] = a /\ <<a, b>>[2] = b
    OBVIOUS
  <2> HIDE DEF n
  <2> QED  BY <1>3, <2>1
<1>t. st[n][2] \in DOMAIN Needs[st[n][1]] /\ Has(Needs[st[n][1]][st[n][2]], cached2, bound2)
  OBVIOUS
<1>m. \A x : Has(x, cached, bound) => Has(x, cached2, bound2)
  BY DEF Has
<1> HIDE DEF n
<1>b. \A s \in 1 .. n : u[s][1] = st[s][1]
  BY <1>3, <1>a
<1>4. u # <<>> /\ u[1][1] = st[1][1]
  BY <1>2, <1>3, <1>b
<1>5. \A s \in DOMAIN u : s > 1 => u[s][1] \in Names \ cached2
  BY <1>2, <1>3, <1>b DEF CallsInv
<1>6. \A s \in DOMAIN u : HasSoFar(u[s], cached2, bound2)
  <2> SUFFICES ASSUME NEW s \in 1 .. n, NEW p \in DOMAIN Needs[u[s][1]], p < u[s][2]
               PROVE  Has(Needs[u[s][1]][p], cached2, bound2)
    BY <1>3 DEF HasSoFar
  <2>1. CASE p < st[s][2]
    BY <1>2, <1>b, <1>m, <2>1 DEF CallsInv, HasSoFar
  <2>2. CASE ~ (p < st[s][2])
    <3>1. s = n
      BY <1>3, <2>2
    <3>2. p \in Nat /\ st[s][2] \in Nat
      <4>1. st[s][1] \in Names \cup 1 .. Tests /\ st[s][2] \in Nat /\ p \in DOMAIN Needs[st[s][1]]
        BY <1>2, <1>b
      <4>2. Needs[st[s][1]] \in Seq(Names \cup {TestContext})
        BY <4>1, Declared
      <4> QED  BY <4>1, <4>2
    <3>3. p = st[n][2]
      BY <1>a, <2>2, <3>1, <3>2
    <3> QED  BY <1>b, <1>t, <3>1, <3>3
  <2> QED  BY <2>1, <2>2
<1>7. \A s \in 1 .. Len(u) - 1 : Waits(u, s)
  <2> SUFFICES ASSUME NEW s \in 1 .. n - 1 PROVE Waits(u, s)
    BY <1>3
  <2>1. s \in 1 .. n /\ s # n /\ s + 1 \in 1 .. n
    BY <1>2
  <2>2. Waits(st, s)
    BY <1>2, <2>1 DEF CallsInv, n
  <2> QED  BY <1>3, <1>b, <2>1, <2>2 DEF Waits
<1>8. \A r, s \in DOMAIN u : 1 < r /\ r < s => Rank[u[s][1]] < Rank[u[r][1]]
  BY <1>2, <1>3, <1>b DEF CallsInv
<1> QED  BY <1>0, <1>2, <1>3, <1>4, <1>5, <1>6, <1>7, <1>8, <1>b DEF CallsInv

Below(st) == SubSeq(st, 1, Len(st) - 1)

LEMMA CallReturns ==
  ASSUME NEW st \in Seq(Call), NEW cached, NEW bound,
         CallsInv(st, cached, bound), Len(st) > 1,
         NEW u, u = Below(st)
  PROVE  /\ CallsInv(u, cached, bound) /\ u \in Seq(Call) /\ u[1] = st[1]
         /\ u[Len(u)][2] \in DOMAIN Needs[u[Len(u)][1]]
         /\ st[Len(st)][1] = Needs[u[Len(u)][1]][u[Len(u)][2]]
         /\ st[Len(st)][1] \in Names
         /\ \A s \in DOMAIN u : s > 1 => u[s][1] # st[Len(st)][1]
<1>1. /\ Len(st) \in Nat \ {0} /\ DOMAIN st = 1 .. Len(st)
      /\ \A s \in 1 .. Len(st) : st[s][1] \in Names \cup 1 .. Tests
  BY CallsTyped DEF CallsInv
<1>2. PICK n \in Nat \ {0} : n + 1 = Len(st) /\ n = Len(st) - 1
  <2>1. Len(st) - 1 \in Nat \ {0} /\ (Len(st) - 1) + 1 = Len(st)
    BY <1>1
  <2> QED  BY <2>1
<1>3. /\ u \in Seq(Call) /\ DOMAIN u = 1 .. n /\ Len(u) = n
      /\ \A s \in 1 .. n : u[s] = st[s]
  <2>1. u = SubSeq(st, 1, n) /\ n <= Len(st)
    BY <1>1, <1>2 DEF Below
  <2>2. \A s \in 1 .. n : s \in 1 .. Len(st)
    BY <1>1, <2>1
  <2>3. u = [s \in 1 .. n |-> st[s]]
    BY <2>1
  <2>4. \A s \in 1 .. n : st[s] \in Call
    BY <2>2
  <2> QED  BY <2>3, <2>4
<1>4. \A s \in 1 .. n : s \in 1 .. n + 1
  BY <1>2
<1>5. CallsInv(u, cached, bound)
  <2>a. 1 \in 1 .. n /\ n # 0
    BY <1>2
  <2>b. Len(<<>>) = 0
    OBVIOUS
  <2>1. u # <<>> /\ u[1] = st[1]
    BY <1>3, <2>a, <2>b
  <2>2. \A s \in DOMAIN u : s > 1 => u[s][1] \in Names \ cached
    BY <1>1, <1>2, <1>3, <1>4 DEF CallsInv
  <2>3. \A s \in DOMAIN u : HasSoFar(u[s], cached, bound)
    BY <1>1, <1>2, <1>3, <1>4 DEF CallsInv
  <2>4. \A s \in 1 .. Len(u) - 1 : Waits(u, s)
    <3> SUFFICES ASSUME NEW s \in 1 .. n - 1 PROVE Waits(u, s)
      BY <1>3
    <3>1. s \in 1 .. n /\ s + 1 \in 1 .. n /\ s \in 1 .. Len(st) - 1
      BY <1>2
    <3>2. Waits(st, s)
      BY <3>1 DEF CallsInv
    <3> QED  BY <1>3, <3>1, <3>2 DEF Waits
  <2>5. \A r, s \in DOMAIN u : 1 < r /\ r < s => Rank[u[s][1]] < Rank[u[r][1]]
    BY <1>1, <1>2, <1>3, <1>4 DEF CallsInv
  <2>6. u[1][1] \in 1 .. Tests
    BY <2>1 DEF CallsInv
  <2> QED  BY <2>1, <2>2, <2>3, <2>4, <2>5, <2>6 DEF CallsInv
<1>6. Waits(st, n) /\ u[n] = st[n] /\ u[1] = st[1]
  <2>1. n \in 1 .. Len(st) - 1
    BY <1>2
  <2> QED  BY <1>2, <1>3, <2>1 DEF CallsInv
<1>7. st[n + 1][1] \in Names
  BY <1>1, <1>2 DEF CallsInv
<1>8. \A s \in DOMAIN u : s > 1 => u[s][1] # st[n + 1][1]
  <2> SUFFICES ASSUME NEW s \in 1 .. n, s > 1 PROVE st[s][1] # st[n + 1][1]
    BY <1>3
  <2>1. Rank[st[n + 1][1]] < Rank[st[s][1]]
    <3>1. s \in 1 .. n + 1 /\ n + 1 \in 1 .. n + 1 /\ s < n + 1
      BY <1>2
    <3> QED  BY <1>1, <1>2, <3>1 DEF CallsInv
  <2>2. Rank[st[n + 1][1]] \in Nat
    BY <1>7, Ranked
  <2> QED  BY <2>1, <2>2
<1> QED  BY <1>2, <1>3, <1>5, <1>6, <1>7, <1>8 DEF Waits
----------------------------------------------------------------------------
(* The fixtures' lives, action by action.                                  *)
Life == Types /\ LifeInv

LEMMA LifeInit == ASSUME Init PROVE Life
<1>1. Tests \in Nat \ {0} /\ Runs \subseteq {"human", "machine"} \X BOOLEAN
  BY FixtureAssumption
<1>a. <<mode, failFast>> \in Runs /\ failFast \in BOOLEAN
  <2>1. PICK run \in Runs : mode = run[1] /\ failFast = run[2]
    BY DEF Init
  <2> QED  BY <1>1, <2>1
<1>b. counts \in [{"passed", "failed", "skipped", "todo"} -> Nat]
  BY DEF Init, Zero
<1>c. /\ stack \in Seq((Names \cup 1 .. Tests) \X (Nat \ {0}))
      /\ testOrder \in Seq(Names) /\ moduleOrder \in Seq(Names)
  BY DEF Init
<1>d. /\ made \in [Names -> 0 .. 1] /\ 0 \in 0 .. Tests /\ failures \in Nat
      /\ current = 0 /\ faulty = {} /\ pc = "next" /\ outcome = "none"
      /\ testCache = {} /\ moduleCache = {} /\ live = {}
      /\ context = FALSE /\ cleanupError = FALSE /\ stopped = FALSE
  BY <1>1 DEF Init
<1>2. Types
  BY <1>a, <1>b, <1>c, <1>d DEF Types, InTest, PCs, Outcomes
<1>3. LifeInv
  BY DEF Init, LifeInv, CacheInv, MadeInv, OrderInv, StackInv, BodyInv, Elements, Distinct, OfScope
<1> QED  BY <1>2, <1>3 DEF Life

LEMMA TopTyped ==
  ASSUME Life, pc = "resolve"
  PROVE  /\ stack \in Seq(Call) /\ CallsInv(stack, Cached, context)
         /\ Len(stack) \in Nat \ {0} /\ stack[1][1] = current
         /\ Top[1] \in Names \cup 1 .. Tests /\ Top[2] \in Nat \ {0}
         /\ Bound = Advanced(stack)
         /\ Cached \in SUBSET Names /\ context \in BOOLEAN
         /\ \A f : Wants(f) => /\ stack[Len(stack)][2] \in DOMAIN Needs[stack[Len(stack)][1]]
                               /\ f = Needs[stack[Len(stack)][1]][stack[Len(stack)][2]]
<1>1. /\ stack \in Seq(Call) /\ CallsInv(stack, Cached, context) /\ stack[1][1] = current
      /\ Cached \in SUBSET Names /\ context \in BOOLEAN
  BY DEF Life, Types, LifeInv, StackInv, Call, Cached
<1>2. /\ Len(stack) \in Nat \ {0}
      /\ Top[1] \in Names \cup 1 .. Tests /\ Top[2] \in Nat \ {0}
  BY <1>1, CallsTyped DEF CallsInv, Top
<1>3. \A f : Wants(f) => Top[2] \in DOMAIN Needs[Top[1]]
  <2>1. Needs[Top[1]] \in Seq(Names \cup {TestContext})
    BY <1>2, Declared
  <2>2. Len(Needs[Top[1]]) \in Nat /\ DOMAIN Needs[Top[1]] = 1 .. Len(Needs[Top[1]])
    BY <2>1
  <2> QED  BY <1>2, <2>2 DEF Wants
<1> QED  BY <1>1, <1>2, <1>3 DEF Wants, Top, Bound, Advanced

LEMMA ResolveCachedLife == ASSUME Life, ResolveCached PROVE Life'
<1>1. PICK f \in Cached : Wants(f)
  BY DEF ResolveCached
<1>2. /\ pc = "resolve" /\ stack' = Bound
      /\ UNCHANGED <<runner, pc, current, testState, moduleState, context, outcome,
                     cleanupError, made, live, faulty>>
  BY DEF ResolveCached
<1>3. /\ CallsInv(stack', Cached, context) /\ stack' \in Seq(Call) /\ stack'[1][1] = current
  <2>1. Has(f, Cached, context)
    BY <1>1, TopTyped, <1>2, Declared DEF Has
  <2>2. \A s \in DOMAIN stack : s > 1 => stack[s][1] \notin Cached
    BY <1>2, TopTyped DEF CallsInv
  <2>3. /\ stack \in Seq(Call) /\ CallsInv(stack, Cached, context) /\ stack' = Advanced(stack)
        /\ Cached \in SUBSET Names /\ stack[1][1] = current
        /\ stack[Len(stack)][2] \in DOMAIN Needs[stack[Len(stack)][1]]
        /\ f = Needs[stack[Len(stack)][1]][stack[Len(stack)][2]]
    BY <1>1, <1>2, TopTyped
  <2> QED  BY <2>1, <2>2, <2>3, CallBinds
<1>4. Types'
  BY <1>2, <1>3 DEF Life, Types, InTest, runner, testState, moduleState, Call
<1>5. CacheInv' /\ MadeInv' /\ OrderInv' /\ BodyInv'
  BY <1>2 DEF Life, LifeInv, CacheInv, MadeInv, OrderInv, BodyInv, runner, testState, moduleState
<1>6. StackInv'
  BY <1>2, <1>3 DEF StackInv, Cached, testState, moduleState
<1> QED  BY <1>4, <1>5, <1>6 DEF Life, LifeInv

LEMMA BindContextLife == ASSUME Life, BindContext PROVE Life'
<1>2. /\ pc = "resolve" /\ stack' = Bound /\ Wants(TestContext) /\ context' = TRUE
      /\ UNCHANGED <<runner, pc, current, testState, moduleState, outcome,
                     cleanupError, made, live, faulty>>
  BY DEF BindContext
<1>3. /\ CallsInv(stack', Cached, TRUE) /\ stack' \in Seq(Call) /\ stack'[1][1] = current
  <2>1. Has(TestContext, Cached, TRUE)
    BY DEF Has
  <2>2. \A s \in DOMAIN stack : s > 1 => stack[s][1] \notin Cached
    BY <1>2, TopTyped DEF CallsInv
  <2>3. /\ stack \in Seq(Call) /\ CallsInv(stack, Cached, context) /\ stack' = Advanced(stack)
        /\ Cached \in SUBSET Names /\ stack[1][1] = current
        /\ stack[Len(stack)][2] \in DOMAIN Needs[stack[Len(stack)][1]]
        /\ TestContext = Needs[stack[Len(stack)][1]][stack[Len(stack)][2]]
    BY <1>2, TopTyped
  <2> QED  BY <2>1, <2>2, <2>3, CallBinds
<1>4. Types'
  BY <1>2, <1>3 DEF Life, Types, InTest, runner, testState, moduleState, Call
<1>5. CacheInv' /\ MadeInv' /\ OrderInv' /\ BodyInv'
  BY <1>2 DEF Life, LifeInv, CacheInv, MadeInv, OrderInv, BodyInv, runner, testState, moduleState
<1>6. StackInv'
  BY <1>2, <1>3 DEF StackInv, Cached, testState, moduleState
<1> QED  BY <1>4, <1>5, <1>6 DEF Life, LifeInv

LEMMA ResolveNeededLife == ASSUME Life, ResolveNeeded PROVE Life'
<1>1. PICK f \in Names \ Cached : Wants(f) /\ stack' = Append(stack, <<f, 1>>)
  BY DEF ResolveNeeded
<1>2. /\ pc = "resolve"
      /\ UNCHANGED <<runner, pc, current, testState, moduleState, context, outcome,
                     cleanupError, made, live, faulty>>
  BY DEF ResolveNeeded
<1>3. /\ CallsInv(stack', Cached, context) /\ stack' \in Seq(Call) /\ stack'[1][1] = current
  BY <1>1, <1>2, TopTyped, CallAdded
<1>4. Types'
  BY <1>2, <1>3 DEF Life, Types, InTest, runner, testState, moduleState, Call
<1>5. CacheInv' /\ MadeInv' /\ OrderInv' /\ BodyInv'
  BY <1>2 DEF Life, LifeInv, CacheInv, MadeInv, OrderInv, BodyInv, runner, testState, moduleState
<1>6. StackInv'
  BY <1>2, <1>3 DEF StackInv, Cached, testState, moduleState
<1> QED  BY <1>4, <1>5, <1>6 DEF Life, LifeInv
LEMMA MakeFixtureLife == ASSUME Life, MakeFixture PROVE Life'
<1>0. PICK f : f = Top[1]
  OBVIOUS
<1>u. PICK u : u = Below(stack)
  OBVIOUS
<1>1. /\ pc = "resolve" /\ Len(stack) > 1 /\ BoundAll
      /\ IF Scope[f] = "test"
           THEN /\ testOrder' = Append(testOrder, f)
                /\ testCache' = testCache \cup {f}
                /\ UNCHANGED moduleState
           ELSE /\ moduleOrder' = Append(moduleOrder, f)
                /\ moduleCache' = moduleCache \cup {f}
                /\ UNCHANGED testState
      /\ made' = [made EXCEPT ![f] = @ + 1]
      /\ live' = live \cup {f}
      /\ stack' = [Rest EXCEPT ![Len(Rest)] = <<@[1], @[2] + 1>>]
      /\ UNCHANGED <<runner, pc, current, context, outcome, cleanupError, faulty>>
  BY <1>0 DEF MakeFixture
<1>2. /\ stack \in Seq(Call) /\ CallsInv(stack, Cached, context) /\ stack[1][1] = current
      /\ f = stack[Len(stack)][1] /\ Cached \in SUBSET Names /\ Len(stack) \in Nat \ {0}
      /\ Top[2] \in Nat \ {0}
  BY <1>0, <1>1, TopTyped DEF Top
<1>3. /\ CallsInv(u, Cached, context) /\ u \in Seq(Call) /\ u[1] = stack[1]
      /\ u[Len(u)][2] \in DOMAIN Needs[u[Len(u)][1]]
      /\ f = Needs[u[Len(u)][1]][u[Len(u)][2]]
      /\ f \in Names
      /\ \A s \in DOMAIN u : s > 1 => u[s][1] # f
  <2>1. /\ stack \in Seq(Call) /\ CallsInv(stack, Cached, context) /\ Len(stack) > 1
        /\ u = Below(stack)
    BY <1>1, <1>2, <1>u
  <2>2. /\ CallsInv(u, Cached, context) /\ u \in Seq(Call) /\ u[1] = stack[1]
        /\ u[Len(u)][2] \in DOMAIN Needs[u[Len(u)][1]]
        /\ stack[Len(stack)][1] = Needs[u[Len(u)][1]][u[Len(u)][2]]
        /\ stack[Len(stack)][1] \in Names
        /\ \A s \in DOMAIN u : s > 1 => u[s][1] # stack[Len(stack)][1]
    BY <2>1, CallReturns
  <2> QED  BY <1>2, <2>2
<1>4. f \notin Cached
  BY <1>1, <1>2 DEF CallsInv
<1>5. stack' = Advanced(u)
  BY <1>1, <1>u DEF Rest, Advanced, Below
<1>6. \A p \in DOMAIN Needs[f] : Has(Needs[f][p], Cached, context)
  <2>1. Needs[f] \in Seq(Names \cup {TestContext})
    BY <1>3, Declared
  <2>2. HasSoFar(stack[Len(stack)], Cached, context)
    BY <1>2 DEF CallsInv
  <2>3. \A p \in DOMAIN Needs[f] : p < Top[2]
    BY <1>0, <1>1, <1>2, <2>1 DEF BoundAll
  <2> QED  BY <1>2, <2>2, <2>3 DEF HasSoFar, Top
<1>7. Cached' = Cached \cup {f}
  BY <1>1 DEF Cached, testState, moduleState
<1>8. CallsInv(stack', Cached', context) /\ stack' \in Seq(Call) /\ stack'[1][1] = current
  <2>1. Has(f, Cached', context)
    BY <1>3, <1>7, Declared DEF Has
  <2>2. \A s \in DOMAIN u : s > 1 => u[s][1] \notin Cached'
    BY <1>3, <1>7 DEF CallsInv
  <2>3. Cached' \in SUBSET Names /\ Cached \subseteq Cached'
    BY <1>2, <1>3, <1>7
  <2>4. /\ CallsInv(u, Cached, context) /\ u \in Seq(Call)
        /\ u[Len(u)][2] \in DOMAIN Needs[u[Len(u)][1]]
        /\ Has(Needs[u[Len(u)][1]][u[Len(u)][2]], Cached', context)
        /\ \A s \in DOMAIN u : s > 1 => u[s][1] \notin Cached'
    BY <1>3, <2>1, <2>2
  <2>5. CallsInv(Advanced(u), Cached', context) /\ Advanced(u) \in Seq(Call) /\ Advanced(u)[1][1] = u[1][1]
    <3>1. PICK k \in SUBSET Names : k = Cached'
      BY <2>3
    <3>2. /\ Cached \subseteq k /\ Has(Needs[u[Len(u)][1]][u[Len(u)][2]], k, context)
          /\ \A s \in DOMAIN u : s > 1 => u[s][1] \notin k
      BY <2>3, <2>4, <3>1
    <3>3. /\ CallsInv(Advanced(u), k, context)
          /\ Advanced(u) \in Seq(Call) /\ Advanced(u)[1][1] = u[1][1]
      <4>1. /\ CallsInv(u, Cached, context) /\ u \in Seq(Call)
            /\ u[Len(u)][2] \in DOMAIN Needs[u[Len(u)][1]]
        BY <2>4
      <4> QED  BY <3>2, <4>1, CallBinds
    <3> QED  BY <3>1, <3>3
  <2> QED  BY <1>2, <1>3, <1>5, <2>5
<1>9. StackInv'
  BY <1>1, <1>8 DEF StackInv
<1>10. BodyInv'
  BY <1>1 DEF BodyInv
<1>f. f \in OfScope("test") \/ f \in OfScope("module")
  BY <1>3, Declared
<1>g. \A n : Has(n, Cached, context) =>
        (n = TestContext /\ context) \/ n \in testCache \/ n \in moduleCache
  BY DEF Has, Cached
<1>t. ASSUME f \in OfScope("test") PROVE Types' /\ CacheInv' /\ MadeInv' /\ OrderInv'
  <2>1. /\ testOrder' = Append(testOrder, f) /\ testCache' = testCache \cup {f}
        /\ moduleOrder' = moduleOrder /\ moduleCache' = moduleCache
    BY <1>1, <1>t DEF OfScope, moduleState
  <2>2. /\ testOrder \in Seq(Names) /\ Distinct(testOrder) /\ testCache = Elements(testOrder)
        /\ f \notin testCache
    BY <1>4 DEF Life, Types, LifeInv, CacheInv, Cached
  <2>3. /\ testOrder' \in Seq(Names) /\ Distinct(testOrder')
        /\ Elements(testOrder') = Elements(testOrder) \cup {f}
        /\ DOMAIN testOrder' = DOMAIN testOrder \cup {Len(testOrder) + 1}
        /\ \A i \in DOMAIN testOrder : testOrder'[i] = testOrder[i] /\ i < Len(testOrder) + 1
        /\ testOrder'[Len(testOrder) + 1] = f
    BY <1>3, <2>1, <2>2, Appended
  <2>4. made[f] = 0
    BY <1>1, <1>t, <2>2 DEF Life, LifeInv, MadeInv
  <2>5. Types'
    <3>1. made' \in [Names -> 0 .. 1] /\ live' \subseteq Names
      <4>1. made' = [made EXCEPT ![f] = 1] /\ live' = live \cup {f}
        BY <1>1, <2>4
      <4>2. made \in [Names -> 0 .. 1] /\ live \subseteq Names
        BY DEF Life, Types
      <4>3. f \in Names
        BY <1>3
      <4> QED  BY <4>1, <4>2, <4>3
    <3> QED  BY <1>1, <1>3, <1>8, <2>1, <2>3, <3>1 DEF Life, Types, InTest, runner, Call
  <2>6. CacheInv'
    BY <1>1, <1>t, <2>1, <2>2, <2>3 DEF Life, LifeInv, CacheInv
  <2>7. MadeInv'
    <3>1. \A g \in Names : g # f => made'[g] = made[g]
      BY <1>1 DEF Life, Types
    <3> QED  BY <1>1, <1>t, <2>1, <3>1, Declared DEF Life, LifeInv, MadeInv
  <2>8. OrderInv'
    <3>1. \A p \in DOMAIN Needs[f] :
            \/ Needs[f][p] = TestContext /\ context
            \/ Needs[f][p] \in moduleCache
            \/ \E j \in DOMAIN testOrder : testOrder[j] = Needs[f][p]
      BY <1>6, <1>g, <2>2 DEF Elements
    <3>2. \A i \in DOMAIN testOrder' : \A p \in DOMAIN Needs[testOrder'[i]] :
            \/ Needs[testOrder'[i]][p] = TestContext /\ context
            \/ Needs[testOrder'[i]][p] \in moduleCache
            \/ \E j \in DOMAIN testOrder' : j < i /\ testOrder'[j] = Needs[testOrder'[i]][p]
      <4> SUFFICES ASSUME NEW i \in DOMAIN testOrder', NEW p \in DOMAIN Needs[testOrder'[i]]
                   PROVE  \/ Needs[testOrder'[i]][p] = TestContext /\ context
                          \/ Needs[testOrder'[i]][p] \in moduleCache
                          \/ \E j \in DOMAIN testOrder' :
                               j < i /\ testOrder'[j] = Needs[testOrder'[i]][p]
        OBVIOUS
      <4>1. CASE i \in DOMAIN testOrder
        BY <2>3, <4>1 DEF Life, LifeInv, OrderInv
      <4>2. CASE i = Len(testOrder) + 1
        BY <2>3, <3>1, <4>2
      <4> QED  BY <2>3, <4>1, <4>2
    <3>3. context' = context
      BY <1>1
    <3> QED  BY <2>1, <3>2, <3>3 DEF Life, LifeInv, OrderInv
  <2> QED  BY <2>5, <2>6, <2>7, <2>8
<1>m. ASSUME f \in OfScope("module") PROVE Types' /\ CacheInv' /\ MadeInv' /\ OrderInv'
  <2>1. /\ moduleOrder' = Append(moduleOrder, f) /\ moduleCache' = moduleCache \cup {f}
        /\ testOrder' = testOrder /\ testCache' = testCache
    BY <1>1, <1>m DEF OfScope, testState
  <2>2. /\ moduleOrder \in Seq(Names) /\ Distinct(moduleOrder)
        /\ moduleCache = Elements(moduleOrder) /\ f \notin moduleCache
        /\ testCache \subseteq OfScope("test")
    BY <1>4 DEF Life, Types, LifeInv, CacheInv, Cached
  <2>3. /\ moduleOrder' \in Seq(Names) /\ Distinct(moduleOrder')
        /\ Elements(moduleOrder') = Elements(moduleOrder) \cup {f}
        /\ DOMAIN moduleOrder' = DOMAIN moduleOrder \cup {Len(moduleOrder) + 1}
        /\ \A i \in DOMAIN moduleOrder :
             moduleOrder'[i] = moduleOrder[i] /\ i < Len(moduleOrder) + 1
        /\ moduleOrder'[Len(moduleOrder) + 1] = f
    BY <1>3, <2>1, <2>2, Appended
  <2>4. made[f] = 0
    BY <1>1, <1>m, <2>2 DEF Life, LifeInv, MadeInv
  <2>5. Types'
    <3>1. made' \in [Names -> 0 .. 1] /\ live' \subseteq Names
      <4>1. made' = [made EXCEPT ![f] = 1] /\ live' = live \cup {f}
        BY <1>1, <2>4
      <4>2. made \in [Names -> 0 .. 1] /\ live \subseteq Names
        BY DEF Life, Types
      <4>3. f \in Names
        BY <1>3
      <4> QED  BY <4>1, <4>2, <4>3
    <3> QED  BY <1>1, <1>3, <1>8, <2>1, <2>3, <3>1 DEF Life, Types, InTest, runner, Call
  <2>6. CacheInv'
    BY <1>1, <1>m, <2>1, <2>2, <2>3 DEF Life, LifeInv, CacheInv
  <2>7. MadeInv'
    <3>1. \A g \in Names : g # f => made'[g] = made[g]
      BY <1>1 DEF Life, Types
    <3> QED  BY <1>1, <1>m, <2>1, <3>1, Declared DEF Life, LifeInv, MadeInv
  <2>8. OrderInv'
    <3>1. \A p \in DOMAIN Needs[f] : \E j \in DOMAIN moduleOrder : moduleOrder[j] = Needs[f][p]
      <4>1. \A p \in DOMAIN Needs[f] : Needs[f][p] \in OfScope("module") /\ Needs[f][p] # TestContext
        BY <1>m, Declared
      <4>2. \A p \in DOMAIN Needs[f] : Needs[f][p] \in moduleCache
        BY <1>6, <1>g, <2>2, <4>1, Declared
      <4> QED  BY <2>2, <4>2 DEF Elements
    <3>2. \A i \in DOMAIN moduleOrder' : \A p \in DOMAIN Needs[moduleOrder'[i]] :
            \E j \in DOMAIN moduleOrder' : j < i /\ moduleOrder'[j] = Needs[moduleOrder'[i]][p]
      <4> SUFFICES ASSUME NEW i \in DOMAIN moduleOrder', NEW p \in DOMAIN Needs[moduleOrder'[i]]
                   PROVE  \E j \in DOMAIN moduleOrder' :
                            j < i /\ moduleOrder'[j] = Needs[moduleOrder'[i]][p]
        OBVIOUS
      <4>1. CASE i \in DOMAIN moduleOrder
        BY <2>3, <4>1 DEF Life, LifeInv, OrderInv
      <4>2. CASE i = Len(moduleOrder) + 1
        BY <2>3, <3>1, <4>2
      <4> QED  BY <2>3, <4>1, <4>2
    <3>3. \A i \in DOMAIN testOrder' : \A p \in DOMAIN Needs[testOrder'[i]] :
            \/ Needs[testOrder'[i]][p] = TestContext /\ context'
            \/ Needs[testOrder'[i]][p] \in moduleCache'
            \/ \E j \in DOMAIN testOrder' : j < i /\ testOrder'[j] = Needs[testOrder'[i]][p]
      BY <1>1, <2>1 DEF Life, LifeInv, OrderInv
    <3> QED  BY <3>2, <3>3 DEF OrderInv
  <2> QED  BY <2>5, <2>6, <2>7, <2>8
<1> QED  BY <1>9, <1>10, <1>f, <1>t, <1>m DEF Life, LifeInv
LEMMA StartTestLife == ASSUME Life, StartTest PROVE Life'
<1>1. /\ pc = "next" /\ current < Tests /\ current' = current + 1
      /\ stack' = <<<<current + 1, 1>>>>
      /\ testOrder' = <<>> /\ testCache' = {} /\ context' = FALSE
      /\ outcome' = "none" /\ cleanupError' = FALSE
      /\ made' = [f \in Names |-> IF Scope[f] = "test" THEN 0 ELSE made[f]]
      /\ pc' = "resolve"
      /\ UNCHANGED <<runner, moduleState, live, faulty>>
  BY DEF StartTest
<1>2. testOrder = <<>> /\ testCache = {}
  BY <1>1 DEF Life, LifeInv, CacheInv, Elements
<1>3. current + 1 \in 1 .. Tests /\ current + 1 \in 0 .. Tests /\ current + 1 # 0
  BY <1>1, Declared DEF Life, Types
<1>4. <<current + 1, 1>> \in Call /\ stack' \in Seq(Call)
  BY <1>1, <1>3 DEF Call
<1>5. made' \in [Names -> 0 .. 1] /\ failFast \in BOOLEAN
  BY <1>1 DEF Life, Types
<1>6. Types'
  <2>1. /\ stack' \in Seq((Names \cup 1 .. Tests) \X (Nat \ {0}))
        /\ testOrder' \in Seq(Names) /\ testCache' \subseteq Names
    BY <1>1, <1>4 DEF Call
  <2>2. /\ <<mode', failFast'>> \in Runs /\ counts' = counts /\ failures' = failures
        /\ stopped' \in BOOLEAN /\ moduleOrder' \in Seq(Names) /\ moduleCache' \subseteq Names
    BY <1>1 DEF Life, Types, runner, moduleState
  <2>3. /\ moduleCache' \subseteq Names /\ live' \subseteq Names /\ faulty' \subseteq 0 .. Tests
        /\ counts' \in [{"passed", "failed", "skipped", "todo"} -> Nat] /\ failures' \in Nat
    BY <1>1, <2>2 DEF Life, Types
  <2>4. /\ current' \in 0 .. Tests /\ current' # 0 /\ pc' \in PCs \ {"cleanContext"}
        /\ context' \in BOOLEAN /\ cleanupError' \in BOOLEAN /\ outcome' \in Outcomes
        /\ made' \in [Names -> 0 .. 1] /\ failFast' \in BOOLEAN
    BY <1>1, <1>3, <1>5 DEF PCs, Outcomes, runner
  <2> QED  BY <2>1, <2>2, <2>3, <2>4 DEF Types
<1>7. CacheInv'
  BY <1>1, <1>2 DEF Life, LifeInv, CacheInv, moduleState
<1>8. MadeInv'
  <2>1. \A f \in OfScope("test") : made'[f] = 0
    BY <1>1 DEF OfScope
  <2>2. \A f \in OfScope("module") : made'[f] = made[f]
    BY <1>1 DEF OfScope
  <2> QED  BY <1>1, <2>1, <2>2 DEF Life, LifeInv, MadeInv, moduleState
<1>9. OrderInv'
  BY <1>1 DEF Life, LifeInv, OrderInv, moduleState
<1>10. StackInv'
  <2>1. PICK u : u = stack'
    OBVIOUS
  <2>2. DOMAIN u = {1} /\ Len(u) = 1 /\ u # <<>> /\ u[1] = <<current + 1, 1>>
    BY <1>1, <2>1
  <2>3. u[1][1] = current + 1 /\ u[1][2] = 1
    BY <2>2
  <2>4. HasSoFar(u[1], Cached', context')
    <3>1. \A p \in DOMAIN Needs[current + 1] : p \in Nat \ {0}
      BY <1>3, Declared
    <3> QED  BY <2>3, <3>1 DEF HasSoFar
  <2>5. 1 .. Len(u) - 1 = {}
    BY <2>2
  <2>6. CallsInv(u, Cached', context')
    BY <1>3, <2>2, <2>3, <2>4, <2>5 DEF CallsInv
  <2> QED  BY <1>1, <2>1, <2>3, <2>6 DEF StackInv
<1>11. BodyInv'
  BY <1>1 DEF BodyInv
<1> QED  BY <1>6, <1>7, <1>8, <1>9, <1>10, <1>11 DEF Life, LifeInv

LEMMA FixtureFailsLife == ASSUME Life, FixtureFails PROVE Life'
<1>1. /\ pc = "resolve" /\ outcome' \in {"failed", "skipped", "todo"}
      /\ stack' = <<>> /\ pc' = "cleanTest" /\ faulty' \subseteq faulty \cup {current}
      /\ UNCHANGED <<runner, current, testState, moduleState, context,
                     cleanupError, made, live>>
  BY DEF FixtureFails, Blame
<1>2. Types'
  <2>1. stack' \in Seq((Names \cup 1 .. Tests) \X (Nat \ {0}))
    BY <1>1
  <2> QED  BY <1>1, <2>1 DEF Life, Types, InTest, PCs, Outcomes, runner, testState, moduleState
<1>3. CacheInv' /\ MadeInv' /\ OrderInv' /\ StackInv' /\ BodyInv'
  BY <1>1 DEF Life, LifeInv, CacheInv, MadeInv, OrderInv, StackInv, BodyInv, runner,
              testState, moduleState
<1> QED  BY <1>2, <1>3 DEF Life, LifeInv

LEMMA EnterBodyLife == ASSUME Life, EnterBody PROVE Life'
<1>1. /\ pc = "resolve" /\ Len(stack) = 1 /\ BoundAll /\ stack' = <<>> /\ pc' = "body"
      /\ UNCHANGED <<runner, current, testState, moduleState, context, outcome,
                     cleanupError, made, live, faulty>>
  BY DEF EnterBody
<1>2. Types'
  <2>1. stack' \in Seq((Names \cup 1 .. Tests) \X (Nat \ {0}))
    BY <1>1
  <2> QED  BY <1>1, <2>1 DEF Life, Types, InTest, PCs, Outcomes, runner, testState, moduleState
<1>3. CacheInv' /\ MadeInv' /\ OrderInv' /\ StackInv'
  BY <1>1 DEF Life, LifeInv, CacheInv, MadeInv, OrderInv, StackInv, runner, testState, moduleState
<1>4. BodyInv'
  <2>1. /\ stack[1][1] = current /\ HasSoFar(stack[1], Cached, context) /\ current \in 1 .. Tests
        /\ Top = stack[1] /\ Top[2] \in Nat \ {0}
    <3>1. 1 \in DOMAIN stack
      BY <1>1, TopTyped
    <3> QED  BY <1>1, <3>1, TopTyped DEF CallsInv, Top
  <2>2. \A p \in DOMAIN Needs[current] : p < stack[1][2]
    <3>1. Needs[current] \in Seq(Names \cup {TestContext})
      BY <2>1, Declared
    <3> QED  BY <1>1, <2>1, <3>1 DEF BoundAll
  <2>3. \A p \in DOMAIN Needs[current] : Has(Needs[current][p], Cached, context)
    BY <2>1, <2>2 DEF HasSoFar
  <2> QED  BY <1>1, <2>3 DEF BodyInv, Cached, testState, moduleState
<1> QED  BY <1>2, <1>3, <1>4 DEF Life, LifeInv

LEMMA BodyEndsLife == ASSUME Life, BodyEnds PROVE Life'
<1>1. /\ pc = "body" /\ outcome' \in Outcomes
      /\ pc' = "cleanTest" /\ faulty' \subseteq faulty \cup {current}
      /\ UNCHANGED <<runner, current, stack, testState, moduleState, context,
                     cleanupError, made, live>>
  BY DEF BodyEnds, Blame
<1>2. Types'
  BY <1>1 DEF Life, Types, InTest, PCs, runner, testState, moduleState
<1>3. CacheInv' /\ MadeInv' /\ OrderInv' /\ StackInv' /\ BodyInv'
  BY <1>1 DEF Life, LifeInv, CacheInv, MadeInv, OrderInv, StackInv, BodyInv, runner,
              testState, moduleState
<1> QED  BY <1>2, <1>3 DEF Life, LifeInv

LEMMA CleanTestFixtureLife == ASSUME Life, CleanTestFixture PROVE Life'
<1>0. PICK i : i = LastOf(testOrder)
  OBVIOUS
<1>1. /\ pc = "cleanTest" /\ testOrder # <<>>
      /\ testOrder' = Without(testOrder, i) /\ testCache' = testCache \ {testOrder[i]}
      /\ live' = live \ {testOrder[i]}
      /\ cleanupError' \in BOOLEAN /\ faulty' \subseteq faulty \cup {current}
      /\ UNCHANGED <<runner, pc, current, stack, moduleState, context, outcome, made>>
  BY <1>0 DEF CleanTestFixture, HookRuns, Blame, Life, Types
<1>2. /\ testOrder \in Seq(Names) /\ Distinct(testOrder)
  BY DEF Life, Types, LifeInv, CacheInv
<1>3. /\ i \in DOMAIN testOrder /\ testOrder[i] \in Names
      /\ testOrder' \in Seq(Names) /\ Distinct(testOrder')
      /\ Elements(testOrder') = Elements(testOrder) \ {testOrder[i]}
      /\ DOMAIN testOrder' \subseteq DOMAIN testOrder
      /\ i \notin DOMAIN testOrder'
      /\ \A k \in DOMAIN testOrder : k < i => k \in DOMAIN testOrder'
      /\ \A k \in DOMAIN testOrder' : testOrder'[k] = testOrder[k]
  BY <1>0, <1>1, <1>2, LastRemoved
<1>4. Types'
  BY <1>1, <1>3 DEF Life, Types, InTest, runner, moduleState
<1>5. CacheInv'
  <2>1. testOrder[i] \in OfScope("test") /\ testOrder[i] \notin moduleCache
    BY <1>3, Declared DEF Life, LifeInv, CacheInv, Elements
  <2> QED  BY <1>1, <1>3, <2>1 DEF Life, LifeInv, CacheInv, moduleState
<1>6. MadeInv' /\ StackInv' /\ BodyInv'
  BY <1>1 DEF Life, LifeInv, MadeInv, StackInv, BodyInv, moduleState
<1>7. OrderInv'
  <2>1. \A k \in DOMAIN testOrder', j \in DOMAIN testOrder : j < k => j \in DOMAIN testOrder'
    <3>1. DOMAIN testOrder = 1 .. Len(testOrder) /\ DOMAIN testOrder' = 1 .. Len(testOrder')
      BY <1>2, <1>3
    <3>2. Len(testOrder) \in Nat /\ Len(testOrder') \in Nat
      BY <1>2, <1>3
    <3> QED  BY <3>1, <3>2
  <2>2. \A k \in DOMAIN testOrder' : \A p \in DOMAIN Needs[testOrder'[k]] :
          \/ Needs[testOrder'[k]][p] = TestContext /\ context
          \/ Needs[testOrder'[k]][p] \in moduleCache
          \/ \E j \in DOMAIN testOrder' : j < k /\ testOrder'[j] = Needs[testOrder'[k]][p]
    BY <1>3, <2>1 DEF Life, LifeInv, OrderInv
  <2> QED  BY <1>1, <2>2 DEF Life, LifeInv, OrderInv, moduleState
<1> QED  BY <1>4, <1>5, <1>6, <1>7 DEF Life, LifeInv

LEMMA CleanContextLife == ASSUME Life, CleanContext PROVE Life'
<1>1. /\ pc = "cleanTest" /\ testOrder = <<>> /\ context' = FALSE /\ pc' = "report"
      /\ cleanupError' \in BOOLEAN /\ faulty' \subseteq faulty \cup {current}
      /\ UNCHANGED <<runner, current, stack, testState, moduleState, outcome, made, live>>
  BY DEF CleanContext, TestFixturesCleaned, HookRuns, Blame, Life, Types
<1>2. Types'
  BY <1>1 DEF Life, Types, InTest, PCs, runner, testState, moduleState
<1>3. CacheInv' /\ MadeInv' /\ StackInv' /\ BodyInv'
  BY <1>1 DEF Life, LifeInv, CacheInv, MadeInv, StackInv, BodyInv, runner, testState, moduleState
<1>4. OrderInv'
  <2>1. DOMAIN testOrder = {}
    BY <1>1
  <2> QED  BY <1>1, <2>1 DEF Life, LifeInv, OrderInv, testState, moduleState
<1> QED  BY <1>2, <1>3, <1>4 DEF Life, LifeInv

LEMMA ReportLife == ASSUME Life, Report PROVE Life'
<1>1. /\ pc = "report" /\ counts' = [counts EXCEPT ![Verdict] = @ + 1]
      /\ failures' \in {failures, failures + 1} /\ stopped' \in BOOLEAN
      /\ \/ pc' \in {"cleanModule", "next"}
         \/ pc' = "done" /\ mode # "human" /\ failFast
      /\ cleanupError' = FALSE
      /\ UNCHANGED <<mode, failFast, current, stack, testState, moduleState, context,
                     outcome, made, live, faulty>>
  BY DEF Report, Life, Types
<1>2. mode \in {"human", "machine"}
  <2>1. <<mode, failFast>> \in {"human", "machine"} \X BOOLEAN
    BY FixtureAssumption DEF Life, Types
  <2> QED  BY <2>1
<1>3. counts' \in [{"passed", "failed", "skipped", "todo"} -> Nat] /\ failures' \in Nat
  <2>1. counts \in [{"passed", "failed", "skipped", "todo"} -> Nat] /\ failures \in Nat
    BY DEF Life, Types
  <2>2. PICK v : v = Verdict
    OBVIOUS
  <2>3. counts' = [counts EXCEPT ![v] = counts[v] + 1]
    BY <1>1, <2>2
  <2>4. CASE v \in {"passed", "failed", "skipped", "todo"}
    <3>1. counts[v] + 1 \in Nat
      BY <2>1, <2>4
    <3> QED  BY <1>1, <2>1, <2>3, <2>4, <3>1
  <2>5. CASE v \notin {"passed", "failed", "skipped", "todo"}
    <3>1. counts' = counts
      BY <2>1, <2>3, <2>5
    <3>2. failures' \in Nat
      BY <1>1, <2>1
    <3> QED  BY <2>1, <3>1, <3>2
  <2> QED  BY <2>4, <2>5
<1>4. Types'
  BY <1>1, <1>3 DEF Life, Types, InTest, PCs, testState, moduleState
<1>5. CacheInv' /\ MadeInv' /\ OrderInv' /\ StackInv' /\ BodyInv'
  BY <1>1, <1>2 DEF Life, LifeInv, CacheInv, MadeInv, OrderInv, StackInv, BodyInv,
                    testState, moduleState
<1> QED  BY <1>4, <1>5 DEF Life, LifeInv

LEMMA CleanModuleFixtureLife == ASSUME Life, CleanModuleFixture PROVE Life'
<1>0. PICK i : i = LastOf(moduleOrder)
  OBVIOUS
<1>1. /\ pc = "cleanModule" /\ moduleOrder # <<>>
      /\ moduleOrder' = Without(moduleOrder, i) /\ moduleCache' = moduleCache \ {moduleOrder[i]}
      /\ live' = live \ {moduleOrder[i]}
      /\ cleanupError' \in BOOLEAN /\ faulty' \subseteq faulty \cup {0}
      /\ UNCHANGED <<runner, pc, current, stack, testState, context, outcome, made>>
  BY <1>0 DEF CleanModuleFixture, HookRuns, Blame, Life, Types
<1>2. moduleOrder \in Seq(Names) /\ Distinct(moduleOrder) /\ testOrder = <<>> /\ testCache = {}
  BY <1>1 DEF Life, Types, LifeInv, CacheInv, Elements
<1>3. /\ i \in DOMAIN moduleOrder /\ moduleOrder[i] \in Names
      /\ moduleOrder' \in Seq(Names) /\ Distinct(moduleOrder')
      /\ Elements(moduleOrder') = Elements(moduleOrder) \ {moduleOrder[i]}
      /\ DOMAIN moduleOrder' \subseteq DOMAIN moduleOrder
      /\ i \notin DOMAIN moduleOrder'
      /\ \A k \in DOMAIN moduleOrder : k < i => k \in DOMAIN moduleOrder'
      /\ \A k \in DOMAIN moduleOrder' : moduleOrder'[k] = moduleOrder[k]
  BY <1>0, <1>1, <1>2, LastRemoved
<1>4. Types'
  <2>1. 0 \in 0 .. Tests
    BY Declared
  <2> QED  BY <1>1, <1>3, <2>1 DEF Life, Types, InTest, runner, testState
<1>5. CacheInv'
  BY <1>1, <1>2, <1>3 DEF Life, LifeInv, CacheInv, testState
<1>6. MadeInv' /\ StackInv' /\ BodyInv'
  BY <1>1 DEF Life, LifeInv, MadeInv, StackInv, BodyInv
<1>7. OrderInv'
  <2>1. \A k \in DOMAIN moduleOrder', j \in DOMAIN moduleOrder : j < k => j \in DOMAIN moduleOrder'
    <3>1. /\ DOMAIN moduleOrder = 1 .. Len(moduleOrder)
          /\ DOMAIN moduleOrder' = 1 .. Len(moduleOrder')
      BY <1>2, <1>3
    <3>2. Len(moduleOrder) \in Nat /\ Len(moduleOrder') \in Nat
      BY <1>2, <1>3
    <3> QED  BY <3>1, <3>2
  <2>2. \A k \in DOMAIN moduleOrder' : \A p \in DOMAIN Needs[moduleOrder'[k]] :
          \E j \in DOMAIN moduleOrder' : j < k /\ moduleOrder'[j] = Needs[moduleOrder'[k]][p]
    BY <1>3, <2>1 DEF Life, LifeInv, OrderInv
  <2>3. DOMAIN testOrder' = {}
    BY <1>1, <1>2 DEF testState
  <2> QED  BY <2>2, <2>3 DEF OrderInv
<1> QED  BY <1>4, <1>5, <1>6, <1>7 DEF Life, LifeInv

LEMMA ReportModuleLife == ASSUME Life, ReportModule PROVE Life'
<1>1. /\ pc = "cleanModule" /\ moduleOrder = <<>> /\ pc' = "done"
      /\ counts' \in {counts, [counts EXCEPT !["failed"] = @ + 1]}
      /\ failures' \in {failures, failures + 1} /\ stopped' \in BOOLEAN
      /\ UNCHANGED <<mode, failFast, current, stack, testState, moduleState, context,
                     outcome, cleanupError, made, live, faulty>>
  BY DEF ReportModule, Life, Types
<1>2. counts' \in [{"passed", "failed", "skipped", "todo"} -> Nat] /\ failures' \in Nat
  <2>1. [counts EXCEPT !["failed"] = @ + 1] \in [{"passed", "failed", "skipped", "todo"} -> Nat]
    BY DEF Life, Types
  <2> QED  BY <1>1, <2>1 DEF Life, Types
<1>3. Types'
  BY <1>1, <1>2 DEF Life, Types, InTest, PCs, testState, moduleState
<1>4. CacheInv' /\ MadeInv' /\ OrderInv' /\ StackInv' /\ BodyInv'
  BY <1>1 DEF Life, LifeInv, CacheInv, MadeInv, OrderInv, StackInv, BodyInv, testState, moduleState
<1> QED  BY <1>3, <1>4 DEF Life, LifeInv
----------------------------------------------------------------------------
(* What is counted, action by action.                                      *)

LEMMA FaultsFinite ==
  ASSUME NEW S \in SUBSET (0 .. Tests)
  PROVE  /\ IsFiniteSet(S) /\ Cardinality(S) \in Nat
         /\ \A x : Cardinality(S \ {x}) = IF x \in S THEN Cardinality(S) - 1 ELSE Cardinality(S)
<1>1. IsFiniteSet(0 .. Tests)
  BY FS_Interval, Declared
<1>2. IsFiniteSet(S)
  BY <1>1, FS_Subset
<1> QED  BY <1>2, FS_CardinalityType, FS_RemoveElement

LEMMA CountInit == ASSUME Init PROVE CountInv
<1>1. /\ faulty = {} /\ pc = "next" /\ current = 0 /\ stopped = FALSE /\ failures = 0
      /\ counts = Zero
  BY DEF Init
<1>2. faulty \ Pending = {} /\ Cardinality({}) = 0 /\ Counted = 0 /\ Sum = 0
  BY <1>1, FS_EmptySet DEF Pending, Counted, Sum, InTest, Zero
<1> QED  BY <1>1, <1>2 DEF CountInv, InTest, Zero

(* Steps that leave everything that is counted alone.                      *)
LEMMA CountUnchanged ==
  ASSUME CountInv, pc' = pc \/ (pc = "resolve" /\ pc' = "body"),
         UNCHANGED <<runner, current, outcome, cleanupError, faulty>>
  PROVE  CountInv'
<1>1. InTest' = InTest /\ Pending' = Pending /\ Counted' = Counted /\ Sum' = Sum
  BY DEF InTest, Pending, Counted, Sum, runner
<1> QED  BY <1>1 DEF CountInv, runner

LEMMA StartTestCount == ASSUME Types, CountInv, StartTest PROVE CountInv'
<1>1. /\ pc = "next" /\ current' = current + 1 /\ outcome' = "none" /\ cleanupError' = FALSE
      /\ pc' = "resolve" /\ UNCHANGED <<runner, faulty>>
  BY DEF StartTest
<1>2. current \in Nat /\ faulty \subseteq 0 .. current /\ 0 \notin faulty
  BY <1>1 DEF Types, CountInv
<1>3. current + 1 \notin faulty /\ current + 1 # 0
  BY <1>2
<1>4. /\ (faulty \ Pending)' = faulty \ Pending /\ Pending = {} /\ ~ InTest /\ InTest'
      /\ Counted' = Counted /\ Sum' = Sum
  BY <1>1, <1>2, <1>3 DEF Pending, Counted, Sum, InTest, runner
<1>5. faulty' \subseteq 0 .. current'
  BY <1>1, <1>2
<1> QED  BY <1>1, <1>2, <1>3, <1>4, <1>5 DEF CountInv, runner

(* A test's outcome is known, or one of its cleanups has run.              *)
LEMMA FaultCount ==
  ASSUME Types, CountInv, pc \in {"resolve", "body", "cleanTest"}, pc' \in {"cleanTest", "report"},
         NEW failed \in BOOLEAN, faulty' = Blame(failed, current),
         \/ pc # "cleanTest" /\ failed = (outcome' = "failed") /\ outcome' # "none"
            /\ cleanupError' = cleanupError
         \/ pc = "cleanTest" /\ cleanupError' = (cleanupError \/ failed) /\ outcome' = outcome,
         UNCHANGED <<runner, current>>
  PROVE  CountInv'
<1>1. /\ InTest /\ InTest' /\ Pending = {current} /\ Pending' = {current}
      /\ Counted' = Counted /\ Sum' = Sum /\ current \in Nat \ {0}
  BY DEF InTest, Pending, Counted, Sum, runner, Types
<1>2. /\ faulty' \ {current} = faulty \ {current}
      /\ faulty' = IF failed THEN faulty \cup {current} ELSE faulty
  BY DEF Blame
<1>3. (faulty \ Pending)' = faulty \ Pending
  BY <1>1, <1>2
<1>4. current \in faulty' <=> outcome' = "failed" \/ cleanupError'
  <2>1. current \in faulty <=> outcome = "failed" \/ cleanupError
    BY <1>1 DEF CountInv
  <2>2. pc # "cleanTest" => outcome # "failed" /\ ~ cleanupError
    BY DEF CountInv
  <2>3. CASE failed
    BY <1>2, <2>3
  <2>4. CASE ~ failed
    <3>1. current \in faulty' <=> current \in faulty
      BY <1>2, <2>4
    <3>2. (outcome' = "failed" \/ cleanupError') <=> (outcome = "failed" \/ cleanupError)
      <4>1. CASE pc # "cleanTest" /\ failed = (outcome' = "failed") /\ cleanupError' = cleanupError
        BY <2>2, <2>4, <4>1
      <4>2. CASE cleanupError' = (cleanupError \/ failed) /\ outcome' = outcome
        BY <2>4, <4>2
      <4> QED  BY <4>1, <4>2
    <3> QED  BY <2>1, <3>1, <3>2
  <2> QED  BY <2>3, <2>4
<1>5. faulty' \subseteq 0 .. current /\ 0 \notin faulty'
  BY <1>1, <1>2 DEF CountInv
<1> QED  BY <1>1, <1>3, <1>4, <1>5 DEF CountInv, runner

LEMMA ReportCount == ASSUME Types, CountInv, Report PROVE CountInv'
<1>1. /\ pc = "report" /\ counts' = [counts EXCEPT ![Verdict] = @ + 1]
      /\ failures' = (IF Verdict = "failed" THEN failures + 1 ELSE failures)
      /\ stopped' = (Verdict = "failed" /\ failFast)
      /\ pc' \in {"cleanModule", "done", "next"}
      /\ pc' # "next" => stopped' \/ current = Tests
      /\ cleanupError' = FALSE
      /\ UNCHANGED <<mode, failFast, current, outcome, faulty>>
  BY DEF Report
<1>2. /\ InTest /\ ~ InTest' /\ Pending = {current} /\ current \in Nat \ {0}
      /\ Counted = current - 1 /\ Counted' = current /\ Pending' \in {{}, {0}}
  BY <1>1 DEF InTest, Pending, Counted, Types
<1>3. /\ 0 \notin faulty /\ outcome # "none" /\ (current \in faulty <=> Verdict = "failed")
      /\ faulty \subseteq 0 .. current /\ faulty \subseteq 0 .. Tests
  BY <1>1, <1>2 DEF CountInv, Verdict, Types
<1>4. (faulty \ Pending)' = faulty
  BY <1>1, <1>2, <1>3
<1>5. /\ Verdict \in {"passed", "failed", "skipped", "todo"} /\ failures \in Nat
      /\ counts \in [{"passed", "failed", "skipped", "todo"} -> Nat]
  BY <1>3 DEF Verdict, Types, Outcomes
<1>6. Sum' = Sum + 1
  BY <1>1, <1>5 DEF Sum
<1>7. /\ failures' = Cardinality(faulty) /\ counts'["failed"] = failures'
  <2>1. failures = Cardinality(faulty \ {current}) /\ counts["failed"] = failures
    BY <1>2 DEF CountInv
  <2>2. Cardinality(faulty \ {current})
          = IF current \in faulty THEN Cardinality(faulty) - 1 ELSE Cardinality(faulty)
    BY <1>3, FaultsFinite
  <2>3. Cardinality(faulty) \in Nat
    BY <1>3, FaultsFinite
  <2> QED  BY <1>1, <1>3, <1>5, <2>1, <2>2, <2>3
<1>8. Sum' = Counted'
  <2>1. Sum = Counted
    BY <1>2, <1>3 DEF CountInv
  <2> QED  BY <1>2, <1>6, <2>1
<1>9. stopped' => failFast /\ failures' > 0
  <2>1. failures + 1 > 0
    BY <1>5
  <2> QED  BY <1>1, <2>1
<1>10. pc' \in {"cleanModule", "done"} /\ current < Tests => stopped'
  BY <1>1, <1>2, Declared
<1> QED  BY <1>1, <1>2, <1>3, <1>4, <1>7, <1>8, <1>9, <1>10 DEF CountInv

LEMMA CleanModuleFixtureCount == ASSUME Types, CountInv, CleanModuleFixture PROVE CountInv'
<1>1. PICK failed \in BOOLEAN :
        cleanupError' = (cleanupError \/ failed) /\ faulty' = Blame(failed, 0)
  BY DEF CleanModuleFixture, HookRuns
<1>2. pc = "cleanModule" /\ UNCHANGED <<runner, pc, current, outcome>>
  BY DEF CleanModuleFixture
<1>3. /\ ~ InTest /\ ~ InTest' /\ Pending = {0} /\ Pending' = {0}
      /\ Counted' = Counted /\ Sum' = Sum /\ current \in Nat
  BY <1>2 DEF InTest, Pending, Counted, Sum, runner, Types
<1>4. faulty' = IF failed THEN faulty \cup {0} ELSE faulty
  BY <1>1 DEF Blame
<1>5. (faulty \ Pending)' = faulty \ Pending
  BY <1>3, <1>4
<1>6. 0 \in faulty' <=> cleanupError'
  BY <1>1, <1>2, <1>4 DEF CountInv
<1>7. faulty' \subseteq 0 .. current
  BY <1>3, <1>4 DEF CountInv
<1> QED  BY <1>2, <1>3, <1>5, <1>6, <1>7 DEF CountInv, runner

LEMMA ReportModuleCount == ASSUME Types, CountInv, ReportModule PROVE CountInv'
<1>1. /\ pc = "cleanModule" /\ pc' = "done"
      /\ IF cleanupError
           THEN /\ counts' = [counts EXCEPT !["failed"] = @ + 1]
                /\ failures' = failures + 1
                /\ stopped' = (stopped \/ failFast)
           ELSE UNCHANGED <<counts, failures, stopped>>
      /\ UNCHANGED <<mode, failFast, current, outcome, cleanupError, faulty>>
  BY DEF ReportModule
<1>2. /\ ~ InTest /\ ~ InTest' /\ Pending = {0} /\ Pending' = {}
      /\ Counted' = Counted /\ faulty \subseteq 0 .. Tests /\ failures \in Nat
      /\ counts \in [{"passed", "failed", "skipped", "todo"} -> Nat] /\ Counted \in Nat
  BY <1>1 DEF InTest, Pending, Counted, Types
<1>3. (0 \in faulty <=> cleanupError) /\ (faulty \ Pending)' = faulty
  BY <1>1, <1>2 DEF CountInv
<1>4. /\ failures = Cardinality(faulty \ {0}) /\ counts["failed"] = failures /\ Sum = Counted
      /\ Cardinality(faulty) \in Nat
      /\ Cardinality(faulty \ {0})
           = IF 0 \in faulty THEN Cardinality(faulty) - 1 ELSE Cardinality(faulty)
  BY <1>2, FaultsFinite DEF CountInv
<1>5. failures' = Cardinality(faulty) /\ counts'["failed"] = failures'
  BY <1>1, <1>2, <1>3, <1>4
<1>6. Sum' = Counted' + (IF 0 \in faulty THEN 1 ELSE 0)
  BY <1>1, <1>2, <1>3, <1>4 DEF Sum
<1>7. stopped' => failFast /\ failures' > 0
  <2>1. failures + 1 > 0 /\ (stopped => failFast /\ failures > 0)
    BY <1>2 DEF CountInv
  <2>2. CASE cleanupError
    BY <1>1, <2>1, <2>2
  <2>3. CASE ~ cleanupError
    BY <1>1, <2>1, <2>3
  <2> QED  BY <2>2, <2>3
<1>8. current < Tests => stopped'
  BY <1>1 DEF CountInv
<1> QED  BY <1>1, <1>2, <1>3, <1>5, <1>6, <1>7, <1>8 DEF CountInv
----------------------------------------------------------------------------
(* The invariant, and what follows from it.                                *)

LEMMA LifeStep == ASSUME Life, [Next]_vars PROVE Life'
<1>1. CASE Next
  BY <1>1, StartTestLife, ResolveCachedLife, BindContextLife, ResolveNeededLife, MakeFixtureLife,
     FixtureFailsLife, EnterBodyLife, BodyEndsLife, CleanTestFixtureLife, CleanContextLife,
     ReportLife, CleanModuleFixtureLife, ReportModuleLife DEF Next
<1>2. CASE UNCHANGED vars
  <2>1. Types'
    BY <1>2 DEF vars, Life, Types, InTest
  <2>2. CacheInv' /\ MadeInv' /\ OrderInv'
    BY <1>2 DEF vars, Life, LifeInv, CacheInv, MadeInv, OrderInv
  <2>3. StackInv' /\ BodyInv'
    BY <1>2 DEF vars, Life, LifeInv, StackInv, BodyInv, Cached
  <2> QED  BY <2>1, <2>2, <2>3 DEF Life, LifeInv
<1> QED  BY <1>1, <1>2

LEMMA CountStep == ASSUME Types, CountInv, [Next]_vars PROVE CountInv'
<1>1. CASE StartTest
  BY <1>1, StartTestCount
<1>2. CASE ResolveCached \/ BindContext \/ ResolveNeeded \/ EnterBody
  BY <1>2, CountUnchanged DEF ResolveCached, BindContext, ResolveNeeded, EnterBody
<1>3. CASE MakeFixture
  BY <1>3, CountUnchanged DEF MakeFixture
<1>4. CASE FixtureFails
  <2>1. /\ pc = "resolve" /\ pc' = "cleanTest" /\ faulty' = Blame(outcome' = "failed", current)
        /\ outcome' # "none" /\ cleanupError' = cleanupError /\ UNCHANGED <<runner, current>>
    BY <1>4 DEF FixtureFails
  <2> QED  BY <2>1, FaultCount
<1>5. CASE BodyEnds
  <2>1. /\ pc = "body" /\ pc' = "cleanTest" /\ faulty' = Blame(outcome' = "failed", current)
        /\ outcome' # "none" /\ cleanupError' = cleanupError /\ UNCHANGED <<runner, current>>
    BY <1>5 DEF BodyEnds
  <2> QED  BY <2>1, FaultCount
<1>6. CASE CleanTestFixture
  <2>1. PICK failed \in BOOLEAN :
          cleanupError' = (cleanupError \/ failed) /\ faulty' = Blame(failed, current)
    BY <1>6 DEF CleanTestFixture, HookRuns
  <2>2. pc = "cleanTest" /\ UNCHANGED <<runner, pc, current, outcome>>
    BY <1>6 DEF CleanTestFixture
  <2> QED  BY <2>1, <2>2, FaultCount
<1>7. CASE CleanContext
  <2>1. PICK failed \in BOOLEAN :
          cleanupError' = (cleanupError \/ failed) /\ faulty' = Blame(failed, current)
    <3>1. CASE context
      BY <1>7, <3>1 DEF CleanContext, HookRuns
    <3>2. CASE ~ context
      <4>1. cleanupError' = cleanupError /\ faulty' = faulty /\ cleanupError \in BOOLEAN
        BY <1>7, <3>2 DEF CleanContext, Types
      <4>2. cleanupError' = (cleanupError \/ FALSE) /\ faulty' = Blame(FALSE, current)
        BY <4>1 DEF Blame
      <4> QED  BY <4>2
    <3> QED  BY <3>1, <3>2
  <2>2. pc = "cleanTest" /\ pc' = "report" /\ UNCHANGED <<runner, current, outcome>>
    BY <1>7 DEF CleanContext, TestFixturesCleaned
  <2> QED  BY <2>1, <2>2, FaultCount
<1>8. CASE Report \/ CleanModuleFixture \/ ReportModule
  BY <1>8, ReportCount, CleanModuleFixtureCount, ReportModuleCount
<1>9. CASE UNCHANGED vars
  BY <1>9, CountUnchanged DEF vars, runner
<1> QED  BY <1>1, <1>2, <1>3, <1>4, <1>5, <1>6, <1>7, <1>8, <1>9 DEF Next

(* The inductive invariant: what is cached lives and was made in order,    *)
(* the calls of resolve_fixture have what they bound, and the counts are   *)
(* those of the faults so far.                                             *)
THEOREM FixturesInvariant == Spec => []FixturesInv
<1>1. Init => FixturesInv
  BY LifeInit, CountInit DEF Life, FixturesInv
<1>2. FixturesInv /\ [Next]_vars => FixturesInv'
  BY LifeStep, CountStep DEF Life, FixturesInv
<1> QED  BY <1>1, <1>2, PTL DEF Spec
LEMMA WhatIsNeeded ==
  ASSUME NEW x \in Names \cup 1 .. Tests
  PROVE  /\ FixturesOf(x) = {Needs[x][p] : p \in DOMAIN Needs[x]} \ {TestContext}
         /\ FixturesOf(x) \subseteq Names
BY Declared DEF FixturesOf

LEMMA Outlive == ASSUME FixturesInv PROVE DependenciesOutlive
<1>1. /\ Life /\ Cached = testCache \cup moduleCache
      /\ testCache = Elements(testOrder) /\ moduleCache = Elements(moduleOrder)
      /\ live = Cached /\ testCache \subseteq Names /\ moduleCache \subseteq Names
      /\ testOrder \in Seq(Names)
  BY DEF FixturesInv, Life, Types, LifeInv, CacheInv, Cached
<1>2. ASSUME NEW f \in testCache PROVE FixturesOf(f) \subseteq live /\ (HasContext(f) => context)
  <2>1. PICK i \in DOMAIN testOrder : testOrder[i] = f
    BY <1>1 DEF Elements
  <2>2. \A p \in DOMAIN Needs[f] :
          \/ Needs[f][p] = TestContext /\ context
          \/ Needs[f][p] \in moduleCache
          \/ \E j \in DOMAIN testOrder : testOrder[j] = Needs[f][p]
    BY <1>1, <2>1 DEF Life, LifeInv, OrderInv
  <2>3. \A p \in DOMAIN Needs[f] :
          (Needs[f][p] = TestContext /\ context) \/ Needs[f][p] \in Cached
    BY <1>1, <2>2 DEF Elements
  <2>4. TestContext \notin Cached
    BY <1>1, Declared
  <2> QED  BY <1>1, <2>3, <2>4 DEF FixturesOf, HasContext
<1>3. ASSUME NEW f \in moduleCache PROVE FixturesOf(f) \subseteq live /\ ~ HasContext(f)
  <2>1. PICK i \in DOMAIN moduleOrder : moduleOrder[i] = f
    BY <1>1 DEF Elements
  <2>2. \A p \in DOMAIN Needs[f] : \E j \in DOMAIN moduleOrder : moduleOrder[j] = Needs[f][p]
    BY <1>1, <2>1 DEF Life, LifeInv, OrderInv
  <2>3. \A p \in DOMAIN Needs[f] : Needs[f][p] \in moduleCache
    BY <1>1, <2>2 DEF Elements
  <2>4. TestContext \notin moduleCache
    BY <1>1, Declared
  <2> QED  BY <1>1, <2>3, <2>4 DEF FixturesOf, HasContext
<1>4. ASSUME pc = "body" PROVE FixturesOf(current) \subseteq live /\ (HasContext(current) => context)
  <2>1. \A p \in DOMAIN Needs[current] : Has(Needs[current][p], Cached, context)
    BY <1>1, <1>4 DEF Life, LifeInv, BodyInv
  <2>2. TestContext \notin Cached
    BY <1>1, Declared
  <2> QED  BY <1>1, <2>1, <2>2 DEF Has, FixturesOf, HasContext
<1> QED  BY <1>1, <1>2, <1>3, <1>4 DEF DependenciesOutlive

LEMMA Scoped == ASSUME FixturesInv PROVE ScopesHold
<1>1. /\ Types /\ CacheInv /\ CountInv /\ Tests \in Nat
  BY Declared DEF FixturesInv, LifeInv
<1>2. \A k \in {"passed", "failed", "skipped", "todo"} : counts[k] \in 0 .. Tests + 1
  <2>1. /\ counts["passed"] \in Nat /\ counts["failed"] \in Nat
        /\ counts["skipped"] \in Nat /\ counts["todo"] \in Nat
    BY <1>1 DEF Types
  <2>2. Counted \in Nat /\ Counted <= Tests
    BY <1>1 DEF Counted, Types
  <2>3. Sum <= Tests + 1
    <3>1. Sum = Counted \/ Sum = Counted + 1
      BY <1>1, <2>2 DEF CountInv
    <3> QED  BY <1>1, <2>2, <3>1
  <2>4. counts["passed"] + counts["failed"] + counts["skipped"] + counts["todo"] <= Tests + 1
    BY <2>3 DEF Sum
  <2> QED  BY <1>1, <2>1, <2>4
<1>3. failures \in 0 .. Tests + 1
  BY <1>1, <1>2 DEF CountInv
<1>4. counts \in [{"passed", "failed", "skipped", "todo"} -> 0 .. Tests + 1]
  BY <1>1, <1>2 DEF Types
<1>5. TypeOK
  BY <1>1, <1>3, <1>4 DEF Types, TypeOK
<1>6. \A f \in Names : made[f] <= 1
  <2>1. made \in [Names -> 0 .. 1]
    BY <1>1 DEF Types
  <2> QED  BY <2>1
<1>7. pc \in {"next", "report", "cleanModule", "done"} => live \subseteq OfScope("module")
  BY <1>1 DEF CacheInv, Elements
<1> QED  BY <1>5, <1>6, <1>7 DEF ScopesHold

(* Whatever runs, or has yet to be torn down, finds everything it was made *)
(* from alive, and no fixture is made twice for its scope or seen outside  *)
(* it (Interpreter::resolve_fixture, cleanup_fixture_cache), under every   *)
(* report, --fail-fast or not.                                             *)
THEOREM DependenciesHold == Spec => [](DependenciesOutlive /\ ScopesHold)
<1>1. FixturesInv => DependenciesOutlive /\ ScopesHold
  BY Outlive, Scoped
<1> QED  BY <1>1, FixturesInvariant, PTL

(* And every fixture has been torn down in the end, unless the machine     *)
(* report stops at its first failure: that one leaves the loop over the    *)
(* files before the teardown of the module (run_machine_readable_tests).   *)
THEOREM FixturesAreReleased ==
  ASSUME <<"machine", TRUE>> \notin Runs PROVE Spec => []FixturesLive
<1>1. FixturesInv => FixturesLive
  <2> SUFFICES ASSUME FixturesInv, pc = "done" PROVE live = {}
    BY Outlive, Scoped DEF FixturesLive, NothingIsLeft
  <2>1. ~ (mode = "machine" /\ failFast)
    BY DEF FixturesInv, Types
  <2> QED  BY <2>1 DEF FixturesInv, LifeInv, CacheInv, Elements
<1> QED  BY <1>1, FixturesInvariant, PTL

LEMMA SetOfCounted ==
  ASSUME NEW n \in Nat, NEW S \in SUBSET (0 .. n)
  PROVE  Cardinality(1 .. n \cup S) = n + (IF 0 \in S THEN 1 ELSE 0)
<1>1. CASE 0 \in S
  <2>1. 0 .. n = (1 .. n) \cup {0}
    OBVIOUS
  <2>2. (1 .. n) \cup S = 0 .. n
    BY <1>1, <2>1
  <2>3. Cardinality(0 .. n) = n + 1
    BY FS_Interval
  <2> QED  BY <1>1, <2>2, <2>3
<1>2. CASE 0 \notin S
  <2>1. (1 .. n) \cup S = 1 .. n
    <3>1. \A i \in 0 .. n : i # 0 => i \in 1 .. n
      OBVIOUS
    <3> QED  BY <1>2, <3>1
  <2>2. Cardinality(1 .. n) = n
    BY FS_Interval
  <2>3. Cardinality((1 .. n) \cup S) = n
    BY <2>1, <2>2
  <2> QED  BY <1>2, <2>3
<1> QED  BY <1>1, <1>2

(* Every test that ran is counted once, as failed exactly when something   *)
(* of it failed, and only a failure under --fail-fast leaves tests out     *)
(* (RunSummary, in both loops of test_runner.rs).                          *)
THEOREM ReportIsHonest == Spec => []Honest
<1>1. FixturesInv => Honest
  <2> SUFFICES ASSUME FixturesInv, pc \in {"next", "done"}
               PROVE  /\ counts["failed"] = failures /\ failures = Cardinality(faulty)
                      /\ counts["passed"] + counts["failed"] + counts["skipped"] + counts["todo"]
                           = Cardinality(1 .. current \cup faulty)
                      /\ stopped => failFast /\ failures > 0
                      /\ pc = "done" /\ current < Tests => stopped
    BY DEF Honest
  <2>1. CountInv /\ current \in Nat /\ Pending = {} /\ Counted = current
    BY DEF FixturesInv, Types, Pending, Counted, InTest
  <2>2. Cardinality(1 .. current \cup faulty) = current + (IF 0 \in faulty THEN 1 ELSE 0)
    BY <2>1, SetOfCounted DEF CountInv
  <2>3. Sum = current + (IF 0 \in faulty THEN 1 ELSE 0)
    BY <2>1 DEF CountInv
  <2> QED  BY <2>1, <2>2, <2>3 DEF CountInv, Sum
<1> QED  BY <1>1, FixturesInvariant, PTL

----------------------------------------------------------------------------
(* The test context                                                        *)

(* A thread that does nothing, now.                                        *)
Still(a) == C!At(a, "unborn") \/ C!At(a, "over")
(* The test of context c has not begun; runs; is over.                     *)
Future(c) == c[2] > tester[c[1]].test
Running(c) == tester[c[1]] = [test |-> c[2], at |-> "body"]
Undoing(c) == tester[c[1]] = [test |-> c[2], at |-> "undo"]
Ended(c) == ~Future(c) /\ ~Running(c)

ThreadState == [step : C!ThreadStates, calls : 0 .. MaxCalls, paths : SUBSET C!Paths]
RunnerState == [test : 1 .. TestsOfContext, at : {"body", "undo", "between", "over"}]

ContextTypes ==
  /\ env \in [Processes -> [Variables -> Values \cup {C!Garbled, C!Unset}]]
  /\ DOMAIN disk \subseteq C!Paths /\ \A f \in DOMAIN disk : disk[f] \subseteq C!Threads
  /\ nextId \in [Processes -> Nat]
  /\ resources \in [C!Contexts -> C!Resources]
  /\ thread \in [C!Threads -> ThreadState]
  /\ tester \in [Processes -> RunnerState]
  /\ undo \in [Processes -> C!Resources]

(* A test of the future has no threads and no resources yet, and one that  *)
(* is over has none any more, if it awaited its tasks.                     *)
PhaseInv ==
  /\ \A a \in C!Threads :
       /\ Future(a[1]) => C!At(a, "unborn")
       /\ C!At(a, "unborn") => thread[a].paths = {}
  /\ \A c \in C!Contexts : Future(c) => resources[c] = C!Nothing
  /\ \A p \in Processes : tester[p].at # "undo" => undo[p] = C!Nothing
AwaitInv ==
  /\ \A c \in C!Contexts : Ended(c) => resources[c] = C!Nothing /\ C!At(<<c, Body>>, "over")
  /\ \A a \in C!Threads : C!At(<<a[1], Body>>, "over") => Still(a)

(* Who is about to set a variable has noted it.                            *)
Noted(notes, v) == \E i \in DOMAIN notes : notes[i][1] = v
FirstIsOriginal(notes, v) ==
  \E i \in DOMAIN notes :
    /\ notes[i] = <<v, Originally[v]>>
    /\ \A j \in DOMAIN notes : notes[j][1] = v => i <= j
Notes(p) == IF tester[p].at = "undo" THEN undo[p].restores ELSE resources[C!Context(p)].restores
NotesInv ==
  /\ \A p \in Processes, v \in Variables : 
       IF Noted(Notes(p), v) THEN FirstIsOriginal(Notes(p), v)
       ELSE env[p][v] = Originally[v]
  /\ \A a \in C!Threads :
       C!At(a, "register") /\ ~Noted(Notes(C!Process(a)), thread[a].step.name)
         => thread[a].step.previous = Originally[thread[a].step.name]
  /\ \A a \in C!Threads : C!At(a, "set") => Noted(resources[a[1]].restores, thread[a].step.name)

(* What is a thread's: the resources it has, and the one it is getting.    *)
Getting(t) == IF t.step.at \in {"make", "keep"} THEN {t.step.path} ELSE {}
Owned(t) == t.paths \cup Getting(t)
OwnersInv ==
  /\ \A a \in C!Threads : \A f \in Owned(thread[a]) : f[2] < nextId[C!Process(a)]
  /\ \A a, b \in C!Threads : a # b => Owned(thread[a]) \cap Owned(thread[b]) = {}
  /\ \A a \in C!Threads : Getting(thread[a]) \cap thread[a].paths = {}
DiskInv ==
  /\ \A f \in DOMAIN disk : \A p \in Processes : f[2] < nextId[p]
  /\ \A a \in C!Threads : C!At(a, "make") => thread[a].step.path \notin DOMAIN disk
  /\ \A a \in C!Threads : Running(a[1]) =>
       /\ \A f \in thread[a].paths : f \in DOMAIN disk /\ disk[f] \subseteq {a}
       /\ C!At(a, "keep") => thread[a].step.path \in DOMAIN disk /\ disk[thread[a].step.path] = {}
OneProcess == \A p, q \in Processes : p = q

(* What is on disk of a thread will be removed.                            *)
Listed(paths, f) == \E i \in DOMAIN paths : paths[i] = f
RemovedInv ==
  \A a \in C!Threads : \A f \in thread[a].paths :
    /\ Running(a[1]) => Listed(resources[a[1]].temps, f)
    /\ Undoing(a[1]) /\ f \in DOMAIN disk => Listed(undo[C!Process(a)].temps, f)
    /\ Ended(a[1]) /\ ~Undoing(a[1]) => f \notin DOMAIN disk
----------------------------------------------------------------------------
(* Types                                                                   *)

LEMMA ThreadParts ==
  ASSUME NEW a \in C!Threads
  PROVE  /\ a[1] \in C!Contexts /\ a[2] \in Tasks \cup {Body} /\ a = <<a[1], a[2]>>
         /\ a[1][1] \in Processes /\ a[1][2] \in 1 .. TestsOfContext /\ a[1] = <<a[1][1], a[1][2]>>
         /\ C!Process(a) = a[1][1]
  BY DEF C!Threads, C!Contexts, C!Process

LEMMA ContextParts ==
  ASSUME NEW p \in Processes, tester \in [Processes -> RunnerState]
  PROVE  /\ tester[p].test \in 1 .. TestsOfContext /\ tester[p].at \in {"body", "undo", "between", "over"}
         /\ C!Context(p) \in C!Contexts /\ C!Context(p)[1] = p /\ C!Context(p)[2] = tester[p].test
         /\ tester[p] = [test |-> tester[p].test, at |-> tester[p].at]
  BY DEF RunnerState, C!Context, C!Contexts

LEMMA ThreadFields ==
  ASSUME thread \in [C!Threads -> ThreadState], NEW a \in C!Threads
  PROVE  /\ thread[a] = [step |-> thread[a].step, calls |-> thread[a].calls, paths |-> thread[a].paths]
         /\ thread[a].step \in C!ThreadStates /\ thread[a].calls \in 0 .. MaxCalls
         /\ thread[a].paths \subseteq C!Paths
  BY DEF ThreadState

LEMMA StepFields ==
  ASSUME NEW s \in C!ThreadStates
  PROVE  /\ s.at \in {"unborn", "idle", "over", "register", "set", "make", "keep"}
         /\ s.at \in {"register", "set"} =>
              /\ s.name \in Variables /\ s.previous \in Values \cup {C!Unset} /\ s.value \in Values
              /\ s = [at |-> s.at, name |-> s.name, previous |-> s.previous, value |-> s.value]
         /\ s.at \in {"make", "keep"} => s.path \in C!Paths /\ s = [at |-> s.at, path |-> s.path]
         /\ s.at \in {"unborn", "idle", "over"} => s = [at |-> s.at]
  BY DEF C!ThreadStates

LEMMA Steps ==
  /\ C!Idle \in C!ThreadStates /\ C!Idle.at = "idle" /\ [at |-> "over"] \in C!ThreadStates
  /\ \A v \in Variables, x \in Values, y \in Values \cup {C!Unset}, at \in {"register", "set"} :
       [at |-> at, name |-> v, previous |-> y, value |-> x] \in C!ThreadStates
  /\ \A f \in C!Paths, at \in {"make", "keep"} : [at |-> at, path |-> f] \in C!ThreadStates
  BY DEF C!ThreadStates, C!Idle

LEMMA Moved ==
  ASSUME thread \in [C!Threads -> ThreadState], NEW a \in C!Threads, NEW s \in C!ThreadStates, C!Go(a, s)
  PROVE  /\ thread' \in [C!Threads -> ThreadState]
         /\ thread'[a].step = s /\ thread'[a].paths = thread[a].paths
         /\ \A b \in C!Threads : b # a => thread'[b] = thread[b]
<1>1. thread[a] \in ThreadState
  OBVIOUS
<1> QED  BY <1>1 DEF C!Go, ThreadState

LEMMA Called ==
  ASSUME thread \in [C!Threads -> ThreadState], NEW a \in C!Threads, NEW s \in C!ThreadStates, C!Calls(a, s)
  PROVE  /\ thread' \in [C!Threads -> ThreadState] /\ C!At(a, "idle")
         /\ thread'[a].step = s /\ thread'[a].paths = thread[a].paths
         /\ \A b \in C!Threads : b # a => thread'[b] = thread[b]
<1>1. thread[a] \in ThreadState /\ thread[a].calls + 1 \in 0 .. MaxCalls
  BY TestsAssumption DEF C!Calls, ThreadState, C!TestContextAssumption
<1> QED  BY <1>1 DEF C!Calls, ThreadState

LEMMA KeptPath ==
  ASSUME thread \in [C!Threads -> ThreadState], NEW a \in C!Threads, NEW f \in C!Paths,
         thread' = [thread EXCEPT ![a].step = C!Idle, ![a].paths = @ \cup {f}]
  PROVE  /\ thread' \in [C!Threads -> ThreadState]
         /\ thread'[a].step = C!Idle /\ thread'[a].paths = thread[a].paths \cup {f}
         /\ \A b \in C!Threads : b # a => thread'[b] = thread[b]
<1>1. thread[a] \in ThreadState /\ C!Idle \in C!ThreadStates
  BY Steps
<1> QED  BY <1>1 DEF ThreadState
----------------------------------------------------------------------------
(* What each action does, and that it keeps the types                      *)

(* Thread a comes to a place and has paths; the others stay as they are.   *)
Only(a, place, paths) ==
  /\ thread' \in [C!Threads -> ThreadState]
  /\ thread'[a].step.at = place /\ thread'[a].paths = paths
  /\ \A b \in C!Threads : b # a => thread'[b] = thread[b]
(* Context c is left with r, and the others stay as they are.              *)
OnlyOf(c, r) ==
  /\ resources' \in [C!Contexts -> C!Resources] /\ resources'[c] = r
  /\ \A d \in C!Contexts : d # c => resources'[d] = resources[d]
(* The same of the resources a runner has yet to undo.                     *)
OnlyUndo(p, r) ==
  /\ undo' \in [Processes -> C!Resources] /\ undo'[p] = r
  /\ \A q \in Processes : q # p => undo'[q] = undo[q]
(* Process p sets v to x.                                                  *)
Sets(p, v, x) ==
  /\ env' \in [Processes -> [Variables -> Values \cup {C!Garbled, C!Unset}]]
  /\ env'[p][v] = x
  /\ \A q \in Processes, w \in Variables : <<q, w>> # <<p, v>> => env'[q][w] = env[q][w]
(* The runner of p goes to a place.                                        *)
Goes(p, test, place) ==
  /\ tester' \in [Processes -> RunnerState]
  /\ tester'[p].test = test /\ tester'[p].at = place
  /\ \A q \in Processes : q # p => tester'[q] = tester[q]

LEMMA SpawnEffect ==
  ASSUME ContextTypes, NEW a \in C!Threads, NEW k \in Tasks, C!Spawn(a, k)
  PROVE  /\ ContextTypes' /\ C!At(a, "idle") /\ <<a[1], k>> \in C!Threads /\ C!At(<<a[1], k>>, "unborn")
         /\ Only(<<a[1], k>>, "idle", thread[<<a[1], k>>].paths)
         /\ UNCHANGED <<env, disk, nextId, resources, tester, undo>>
<1>1. <<a[1], k>> \in C!Threads
  BY ThreadParts DEF C!Threads
<1>2. Only(<<a[1], k>>, "idle", thread[<<a[1], k>>].paths)
  <2> HIDE DEF C!Idle
  <2>1. thread \in [C!Threads -> ThreadState] /\ C!Idle \in C!ThreadStates /\ C!Go(<<a[1], k>>, C!Idle)
    BY Steps DEF ContextTypes, C!Spawn
  <2> QED  BY <1>1, <2>1, Moved, Steps DEF Only
<1>3. C!At(a, "idle") /\ C!At(<<a[1], k>>, "unborn")
         /\ UNCHANGED <<env, disk, nextId, resources, tester, undo>>
  BY DEF C!Spawn
<1>4. ContextTypes'
  BY <1>2, <1>3 DEF ContextTypes, Only
<1> QED  BY <1>1, <1>2, <1>3, <1>4

LEMMA LookUpEffect ==
  ASSUME ContextTypes, NEW a \in C!Threads, NEW v \in Variables, NEW x \in Values, C!LookUp(a, v, x)
  PROVE  /\ ContextTypes' /\ C!At(a, "idle")
         /\ Only(a, "register", thread[a].paths)
         /\ thread'[a].step.name = v
         /\ thread'[a].step.previous = C!Told(env[C!Process(a)][v])
         /\ UNCHANGED <<env, disk, nextId, resources, tester, undo>>
<1> DEFINE s == [at |-> "register", name |-> v, previous |-> C!Told(env[C!Process(a)][v]),
                 value |-> x]
<1>1. s \in C!ThreadStates
  <2>1. C!Process(a) \in Processes
    BY ThreadParts
  <2>2. C!Told(env[C!Process(a)][v]) \in Values \cup {C!Unset}
    <3>1. env[C!Process(a)][v] \in Values \cup {C!Garbled, C!Unset}
      BY <2>1 DEF ContextTypes
    <3> QED  BY <3>1 DEF C!Told
  <2> QED  BY <2>2, Steps
<1>2. C!Calls(a, s) /\ UNCHANGED <<env, disk, nextId, resources, tester, undo>>
  BY DEF C!LookUp
<1> HIDE DEF s
<1>3. /\ Only(a, "register", thread[a].paths) /\ thread'[a].step.name = v /\ C!At(a, "idle")
      /\ thread'[a].step.previous = C!Told(env[C!Process(a)][v])
  <2>1. thread' \in [C!Threads -> ThreadState] /\ thread'[a].step = s /\ thread'[a].paths = thread[a].paths
        /\ (\A b \in C!Threads : b # a => thread'[b] = thread[b]) /\ C!At(a, "idle")
    <3> HIDE DEF s
    <3> QED  BY <1>1, <1>2, Called DEF ContextTypes
  <2> QED  BY <2>1 DEF Only, s
<1>4. ContextTypes'
  BY <1>2, <1>3 DEF ContextTypes, Only
<1> QED  BY <1>2, <1>3, <1>4 DEF s

LEMMA WithRestores ==
  ASSUME NEW r \in C!Resources, NEW s
  PROVE  [r EXCEPT !.restores = s] = [restores |-> s, temps |-> r.temps]
  BY DEF C!Resources

LEMMA WithTemps ==
  ASSUME NEW r \in C!Resources, NEW s
  PROVE  [r EXCEPT !.temps = s] = [restores |-> r.restores, temps |-> s]
  BY DEF C!Resources

LEMMA RegisterEffect ==
  ASSUME ContextTypes, NEW a \in C!Threads, C!Register(a)
  PROVE  /\ ContextTypes' /\ C!At(a, "register") /\ thread[a].step.name \in Variables
         /\ Only(a, "set", thread[a].paths) /\ thread'[a].step.name = thread[a].step.name
         /\ OnlyOf(a[1], [restores |-> Append(resources[a[1]].restores,
                                              <<thread[a].step.name, thread[a].step.previous>>),
                          temps |-> resources[a[1]].temps])
         /\ UNCHANGED <<env, disk, nextId, tester, undo>>
<1> DEFINE s == [at |-> "set", name |-> thread[a].step.name,
                 previous |-> thread[a].step.previous, value |-> thread[a].step.value]
           n == <<thread[a].step.name, thread[a].step.previous>>
<1>1. /\ C!At(a, "register") /\ C!Go(a, [thread[a].step EXCEPT !.at = "set"])
      /\ resources' = [resources EXCEPT ![a[1]].restores = Append(@, n)]
      /\ UNCHANGED <<env, disk, nextId, tester, undo>>
  BY DEF C!Register
<1>2. thread[a].step \in C!ThreadStates /\ thread[a].step.at = "register"
  BY <1>1, ThreadFields DEF ContextTypes, C!At
<1>3. s = [thread[a].step EXCEPT !.at = "set"] /\ s \in C!ThreadStates /\ n \in Variables \X (Values \cup {C!Unset})
      /\ thread[a].step.name \in Variables
  BY <1>2, StepFields, Steps
<1>4. OnlyOf(a[1], [restores |-> Append(resources[a[1]].restores, n), temps |-> resources[a[1]].temps])
  <2> HIDE DEF n
  <2>1. a[1] \in C!Contexts /\ resources \in [C!Contexts -> C!Resources]
    BY ThreadParts DEF ContextTypes
  <2>2. resources[a[1]] \in C!Resources
    BY <2>1
  <2>3. /\ resources[a[1]] = [restores |-> resources[a[1]].restores, temps |-> resources[a[1]].temps]
        /\ Append(resources[a[1]].restores, n) \in Seq(Variables \X (Values \cup {C!Unset}))
    BY <1>3, <2>2 DEF C!Resources
  <2>4. [restores |-> Append(resources[a[1]].restores, n), temps |-> resources[a[1]].temps] \in C!Resources
    BY <2>2, <2>3 DEF C!Resources
  <2>5. resources' = [resources EXCEPT ![a[1]] =
                       [restores |-> Append(resources[a[1]].restores, n), temps |-> resources[a[1]].temps]]
    <3>1. [resources[a[1]] EXCEPT !.restores = Append(resources[a[1]].restores, n)]
            = [restores |-> Append(resources[a[1]].restores, n), temps |-> resources[a[1]].temps]
      BY <2>2, WithRestores
    <3>2. resources' = [resources EXCEPT ![a[1]] =
                         [resources[a[1]] EXCEPT !.restores = Append(resources[a[1]].restores, n)]]
      BY <1>1
    <3> QED  BY <3>1, <3>2
  <2> QED  BY <2>1, <2>4, <2>5 DEF OnlyOf
<1>5. Only(a, "set", thread[a].paths) /\ thread'[a].step.name = thread[a].step.name
  <2>1. thread' \in [C!Threads -> ThreadState] /\ thread'[a].step = s /\ thread'[a].paths = thread[a].paths
        /\ (\A b \in C!Threads : b # a => thread'[b] = thread[b])
    <3> HIDE DEF s
    <3> QED  BY <1>1, <1>2, <1>3, Moved DEF ContextTypes
  <2> QED  BY <2>1 DEF Only
<1>6. ContextTypes'
  BY <1>1, <1>4, <1>5 DEF ContextTypes, Only, OnlyOf
<1> QED  BY <1>1, <1>3, <1>4, <1>5, <1>6

LEMMA SetEnvEffect ==
  ASSUME ContextTypes, NEW a \in C!Threads, C!SetEnv(a)
  PROVE  /\ ContextTypes' /\ C!At(a, "set") /\ thread[a].step.name \in Variables
         /\ Sets(C!Process(a), thread[a].step.name, thread[a].step.value)
         /\ Only(a, "idle", thread[a].paths)
         /\ UNCHANGED <<disk, nextId, resources, tester, undo>>
<1>1. /\ C!At(a, "set") /\ C!Go(a, C!Idle)
      /\ env' = [env EXCEPT ![C!Process(a)][thread[a].step.name] = thread[a].step.value]
      /\ UNCHANGED <<disk, nextId, resources, tester, undo>>
  BY DEF C!SetEnv
<1>2. thread[a].step.name \in Variables /\ thread[a].step.value \in Values
  BY <1>1, ThreadFields, StepFields DEF ContextTypes, C!At
<1>3. Sets(C!Process(a), thread[a].step.name, thread[a].step.value)
  BY <1>1, <1>2, ThreadParts DEF ContextTypes, Sets
<1>4. Only(a, "idle", thread[a].paths)
  BY <1>1, Moved, Steps DEF ContextTypes, Only
<1>5. ContextTypes'
  BY <1>1, <1>3, <1>4 DEF ContextTypes, Only, Sets
<1> QED  BY <1>1, <1>2, <1>3, <1>4, <1>5

LEMMA TakeIdEffect ==
  ASSUME ContextTypes, NEW a \in C!Threads, NEW kind \in Kinds, C!TakeId(a, kind)
  PROVE  /\ ContextTypes' /\ C!At(a, "idle") /\ <<kind, nextId[C!Process(a)]>> \in C!Paths
         /\ Only(a, "make", thread[a].paths) /\ thread'[a].step.path = <<kind, nextId[C!Process(a)]>>
         /\ nextId'[C!Process(a)] = nextId[C!Process(a)] + 1
         /\ \A q \in Processes : q # C!Process(a) => nextId'[q] = nextId[q]
         /\ UNCHANGED <<env, disk, resources, tester, undo>>
<1> DEFINE s == [at |-> "make", path |-> <<kind, nextId[C!Process(a)]>>]
<1>1. C!Process(a) \in Processes /\ nextId \in [Processes -> Nat]
  BY ThreadParts DEF ContextTypes
<1>2. <<kind, nextId[C!Process(a)]>> \in C!Paths /\ s \in C!ThreadStates
  BY <1>1, Steps DEF C!Paths
<1>3. C!Calls(a, s) /\ UNCHANGED <<env, disk, resources, tester, undo>>
      /\ nextId' = [nextId EXCEPT ![C!Process(a)] = @ + 1]
  BY DEF C!TakeId, C!NewId
<1>4. Only(a, "make", thread[a].paths) /\ thread'[a].step.path = <<kind, nextId[C!Process(a)]>> /\ C!At(a, "idle")
  <2>1. thread' \in [C!Threads -> ThreadState] /\ thread'[a].step = s /\ thread'[a].paths = thread[a].paths
        /\ (\A b \in C!Threads : b # a => thread'[b] = thread[b]) /\ C!At(a, "idle")
    <3> HIDE DEF s
    <3> QED  BY <1>2, <1>3, Called DEF ContextTypes
  <2> QED  BY <2>1 DEF Only
<1>5. /\ nextId' \in [Processes -> Nat] /\ nextId'[C!Process(a)] = nextId[C!Process(a)] + 1
      /\ \A q \in Processes : q # C!Process(a) => nextId'[q] = nextId[q]
  BY <1>1, <1>3
<1>6. ContextTypes'
  BY <1>3, <1>4, <1>5 DEF ContextTypes, Only
<1> QED  BY <1>2, <1>3, <1>4, <1>5, <1>6

(* Making a resource creates it, empty unless it is a directory there was. *)
Makes(f) ==
  /\ DOMAIN disk' = DOMAIN disk \cup {f}
  /\ \A g \in DOMAIN disk : g # f => disk'[g] = disk[g]
  /\ f \notin DOMAIN disk => disk'[f] = {}

LEMMA MakeEffect ==
  ASSUME ContextTypes, NEW a \in C!Threads, C!Make(a)
  PROVE  /\ ContextTypes' /\ C!At(a, "make") /\ thread[a].step.path \in C!Paths /\ Makes(thread[a].step.path)
         /\ Only(a, "keep", thread[a].paths) /\ thread'[a].step.path = thread[a].step.path
         /\ UNCHANGED <<env, nextId, resources, tester, undo>>
<1> DEFINE f == thread[a].step.path
           s == [at |-> "keep", path |-> f]
<1>1. /\ C!At(a, "make") /\ C!Go(a, [thread[a].step EXCEPT !.at = "keep"])
      /\ disk' = [g \in DOMAIN disk \cup {f} |->
                IF g # f THEN disk[g]
                ELSE IF f[1] = "dir" /\ f \in DOMAIN disk THEN disk[f] ELSE {}]
      /\ UNCHANGED <<env, nextId, resources, tester, undo>>
  BY DEF C!Make
<1>2. thread[a].step \in C!ThreadStates /\ thread[a].step.at = "make"
  BY <1>1, ThreadFields DEF ContextTypes, C!At
<1>3. s = [thread[a].step EXCEPT !.at = "keep"] /\ s \in C!ThreadStates /\ f \in C!Paths
  BY <1>2, StepFields, Steps
<1>4. Only(a, "keep", thread[a].paths) /\ thread'[a].step.path = f
  <2>1. thread' \in [C!Threads -> ThreadState] /\ thread'[a].step = s /\ thread'[a].paths = thread[a].paths
        /\ (\A b \in C!Threads : b # a => thread'[b] = thread[b])
    <3> HIDE DEF s
    <3> QED  BY <1>1, <1>2, <1>3, Moved DEF ContextTypes
  <2> QED  BY <2>1 DEF Only
<1> HIDE DEF f
<1>5. Makes(f) /\ DOMAIN disk' \subseteq C!Paths /\ \A g \in DOMAIN disk' : disk'[g] \subseteq C!Threads
  BY <1>1, <1>3 DEF ContextTypes, Makes
<1>6. ContextTypes'
  BY <1>1, <1>4, <1>5 DEF ContextTypes, Only
<1> QED  BY <1>1, <1>3, <1>4, <1>5, <1>6 DEF f
LEMMA KeepEffect ==
  ASSUME ContextTypes, NEW a \in C!Threads, C!Keep(a)
  PROVE  /\ ContextTypes' /\ C!At(a, "keep") /\ thread[a].step.path \in C!Paths
         /\ Only(a, "idle", thread[a].paths \cup {thread[a].step.path})
         /\ OnlyOf(a[1], [restores |-> resources[a[1]].restores,
                          temps |-> Append(resources[a[1]].temps, thread[a].step.path)])
         /\ UNCHANGED <<env, disk, nextId, tester, undo>>
<1> DEFINE f == thread[a].step.path
<1>1. /\ C!At(a, "keep") /\ UNCHANGED <<env, disk, nextId, tester, undo>>
      /\ resources' = [resources EXCEPT ![a[1]].temps = Append(@, f)]
      /\ thread' = [thread EXCEPT ![a].step = C!Idle, ![a].paths = @ \cup {f}]
  BY DEF C!Keep
<1>2. f \in C!Paths
  BY <1>1, ThreadFields, StepFields DEF ContextTypes, C!At
<1> HIDE DEF f
<1>3. Only(a, "idle", thread[a].paths \cup {f})
  BY <1>1, <1>2, KeptPath, Steps DEF ContextTypes, Only
<1>4. OnlyOf(a[1], [restores |-> resources[a[1]].restores, temps |-> Append(resources[a[1]].temps, f)])
  <2> DEFINE r == [restores |-> resources[a[1]].restores, temps |-> Append(resources[a[1]].temps, f)]
  <2>1. a[1] \in C!Contexts /\ resources \in [C!Contexts -> C!Resources]
    BY ThreadParts DEF ContextTypes
  <2>2. resources[a[1]] \in C!Resources
    BY <2>1
  <2>3. r \in C!Resources
    BY <1>2, <2>2 DEF C!Resources
  <2>4. resources' = [resources EXCEPT ![a[1]] = r]
    <3>1. [resources[a[1]] EXCEPT !.temps = Append(resources[a[1]].temps, f)] = r
      BY <2>2, WithTemps
    <3>2. resources' = [resources EXCEPT ![a[1]] =
                         [resources[a[1]] EXCEPT !.temps = Append(resources[a[1]].temps, f)]]
      BY <1>1
    <3> QED  BY <3>1, <3>2
  <2> QED  BY <2>1, <2>3, <2>4 DEF OnlyOf
<1>5. ContextTypes'
  BY <1>1, <1>3, <1>4 DEF ContextTypes, Only, OnlyOf
<1> QED  BY <1>1, <1>2, <1>3, <1>4, <1>5 DEF f

LEMMA WriteEffect ==
  ASSUME ContextTypes, NEW a \in C!Threads, C!Write(a)
  PROVE  /\ ContextTypes' /\ C!At(a, "idle")
         /\ \E f \in thread[a].paths \cap DOMAIN disk :
              /\ DOMAIN disk' = DOMAIN disk /\ disk'[f] = disk[f] \cup {a}
              /\ \A g \in DOMAIN disk : g # f => disk'[g] = disk[g]
         /\ UNCHANGED <<env, nextId, resources, thread, tester, undo>>
<1>1. /\ C!At(a, "idle") /\ UNCHANGED <<env, nextId, resources, thread, tester, undo>>
  BY DEF C!Write
<1>2. PICK f \in thread[a].paths \cap DOMAIN disk : disk' = [disk EXCEPT ![f] = @ \cup {a}]
  BY DEF C!Write
<1>3. /\ DOMAIN disk' = DOMAIN disk /\ disk'[f] = disk[f] \cup {a}
      /\ \A g \in DOMAIN disk : g # f => disk'[g] = disk[g]
  BY <1>2
<1>4. ContextTypes'
  <2>1. \A g \in DOMAIN disk' : disk'[g] \subseteq C!Threads
    BY <1>3 DEF ContextTypes
  <2> QED  BY <1>1, <1>3, <2>1 DEF ContextTypes
<1> QED  BY <1>1, <1>2, <1>3, <1>4

LEMMA FinishEffect ==
  ASSUME ContextTypes, NEW a \in C!Threads, C!Finish(a) \/ C!MakeFails(a)
  PROVE  /\ ContextTypes'
         /\ C!At(a, "idle") \/ C!At(a, "make")
         /\ (a[2] = Body /\ Awaits) =>
              \A k \in Tasks : C!At(<<a[1], k>>, "unborn") \/ C!At(<<a[1], k>>, "over")
         /\ Only(a, "over", thread[a].paths)
         /\ UNCHANGED <<env, disk, nextId, resources, tester, undo>>
<1> DEFINE s == [at |-> "over"]
<1>1. /\ C!At(a, "idle") \/ C!At(a, "make")
      /\ C!Go(a, s) /\ UNCHANGED <<env, disk, nextId, resources, tester, undo>>
      /\ (a[2] = Body /\ Awaits) =>
           \A k \in Tasks : C!At(<<a[1], k>>, "unborn") \/ C!At(<<a[1], k>>, "over")
  BY DEF C!Finish, C!MakeFails, C!Over
<1>2. s \in C!ThreadStates
  BY Steps
<1>3. Only(a, "over", thread[a].paths)
  <2>1. thread' \in [C!Threads -> ThreadState] /\ thread'[a].step = s /\ thread'[a].paths = thread[a].paths
        /\ (\A b \in C!Threads : b # a => thread'[b] = thread[b])
    <3> HIDE DEF s
    <3> QED  BY <1>1, <1>2, Moved DEF ContextTypes
  <2> QED  BY <2>1 DEF Only
<1>4. ContextTypes'
  BY <1>1, <1>3 DEF ContextTypes, Only
<1> QED  BY <1>1, <1>3, <1>4

LEMMA PhaseGoes ==
  ASSUME tester \in [Processes -> RunnerState], NEW p \in Processes,
         NEW place \in {"body", "undo", "between", "over"}, C!Phase(p, place)
  PROVE  Goes(p, tester[p].test, place)
  BY DEF C!Phase, Goes, RunnerState

LEMMA TearDownEffect ==
  ASSUME ContextTypes, NEW p \in Processes, C!TearDown(p)
  PROVE  /\ ContextTypes' /\ tester[p].at = "body" /\ C!At(<<C!Context(p), Body>>, "over")
         /\ OnlyUndo(p, resources[C!Context(p)]) /\ OnlyOf(C!Context(p), C!Nothing)
         /\ Goes(p, tester[p].test, "undo")
         /\ UNCHANGED <<env, disk, nextId, thread>>
<1>1. /\ tester[p].at = "body" /\ C!At(<<C!Context(p), Body>>, "over") /\ C!Phase(p, "undo")
      /\ undo' = [undo EXCEPT ![p] = resources[C!Context(p)]]
      /\ resources' = [resources EXCEPT ![C!Context(p)] = C!Nothing]
      /\ UNCHANGED <<env, disk, nextId, thread>>
  BY DEF C!TearDown
<1>2. C!Context(p) \in C!Contexts
  BY ContextParts DEF ContextTypes
<1>3. C!Nothing \in C!Resources
  <2>1. <<>> \in Seq(Variables \X (Values \cup {C!Unset})) /\ <<>> \in Seq(C!Paths)
    OBVIOUS
  <2> QED  BY <2>1 DEF C!Nothing, C!Resources
<1>4. OnlyUndo(p, resources[C!Context(p)])
  BY <1>1, <1>2 DEF ContextTypes, OnlyUndo
<1>5. OnlyOf(C!Context(p), C!Nothing)
  BY <1>1, <1>2, <1>3 DEF ContextTypes, OnlyOf
<1>6. Goes(p, tester[p].test, "undo")
  BY <1>1, PhaseGoes DEF ContextTypes
<1>7. ContextTypes'
  BY <1>1, <1>4, <1>5, <1>6 DEF ContextTypes, OnlyOf, OnlyUndo, Goes
<1> QED  BY <1>1, <1>4, <1>5, <1>6, <1>7

LEMMA LastAndRest ==
  ASSUME NEW S, NEW s \in Seq(S), s # <<>>
  PROVE  /\ Len(s) \in DOMAIN s /\ C!Last(s) = s[Len(s)] /\ C!Last(s) \in S
         /\ C!ButLast(s) \in Seq(S) /\ Len(s) \in Nat /\ Len(s) > 0
         /\ DOMAIN s = 1 .. Len(s) /\ DOMAIN C!ButLast(s) = 1 .. Len(s) - 1
         /\ \A i \in 1 .. Len(s) - 1 : C!ButLast(s)[i] = s[i]
  BY DEF C!Last, C!ButLast

LEMMA RestoreEffect ==
  ASSUME ContextTypes, NEW p \in Processes, C!Restore(p)
  PROVE  /\ ContextTypes' /\ tester[p].at = "undo" /\ undo[p].restores # <<>>
         /\ undo[p].restores \in Seq(Variables \X (Values \cup {C!Unset}))
         /\ Sets(p, C!Last(undo[p].restores)[1], C!Last(undo[p].restores)[2])
         /\ OnlyUndo(p, [restores |-> C!ButLast(undo[p].restores), temps |-> undo[p].temps])
         /\ UNCHANGED <<disk, nextId, resources, thread, tester>>
<1>1. /\ tester[p].at = "undo" /\ undo[p].restores # <<>>
      /\ env' = [env EXCEPT ![p][C!Last(undo[p].restores)[1]] = C!Last(undo[p].restores)[2]]
      /\ undo' = [undo EXCEPT ![p].restores = C!ButLast(@)]
      /\ UNCHANGED <<disk, nextId, resources, thread, tester>>
  BY DEF C!Restore
<1>2. undo[p] \in C!Resources /\ undo[p].restores \in Seq(Variables \X (Values \cup {C!Unset}))
  BY DEF ContextTypes, C!Resources
<1> DEFINE n == C!Last(undo[p].restores)
           r == C!ButLast(undo[p].restores)
<1>3. n \in Variables \X (Values \cup {C!Unset}) /\ r \in Seq(Variables \X (Values \cup {C!Unset}))
  BY <1>1, <1>2, LastAndRest
<1> HIDE DEF n, r
<1>4. Sets(p, n[1], n[2])
  <2>1. n[1] \in Variables /\ n[2] \in Values \cup {C!Unset}
    BY <1>3
  <2>2. env' = [env EXCEPT ![p][n[1]] = n[2]]
    BY <1>1 DEF n
  <2> QED  BY <2>1, <2>2 DEF ContextTypes, Sets
<1>5. OnlyUndo(p, [restores |-> r, temps |-> undo[p].temps])
  <2>1. [undo[p] EXCEPT !.restores = r] = [restores |-> r, temps |-> undo[p].temps]
    BY <1>2, WithRestores
  <2>2. undo' = [undo EXCEPT ![p] = [undo[p] EXCEPT !.restores = r]]
    BY <1>1 DEF r
  <2>3. [restores |-> r, temps |-> undo[p].temps] \in C!Resources
    BY <1>2, <1>3 DEF C!Resources
  <2> QED  BY <2>1, <2>2, <2>3 DEF ContextTypes, OnlyUndo
<1>6. ContextTypes'
  BY <1>1, <1>4, <1>5 DEF ContextTypes, Sets, OnlyUndo
<1> QED  BY <1>1, <1>2, <1>4, <1>5, <1>6 DEF n, r

LEMMA RemoveEffect ==
  ASSUME ContextTypes, NEW p \in Processes, C!Remove(p)
  PROVE  /\ ContextTypes' /\ tester[p].at = "undo" /\ undo[p].temps # <<>>
         /\ undo[p].temps \in Seq(C!Paths)
         /\ DOMAIN disk' = DOMAIN disk \ {C!Last(undo[p].temps)}
         /\ \A f \in DOMAIN disk' : disk'[f] = disk[f]
         /\ OnlyUndo(p, [restores |-> undo[p].restores, temps |-> C!ButLast(undo[p].temps)])
         /\ UNCHANGED <<env, nextId, resources, thread, tester>>
<1>1. /\ tester[p].at = "undo" /\ undo[p].temps # <<>>
      /\ disk' = [f \in DOMAIN disk \ {C!Last(undo[p].temps)} |-> disk[f]]
      /\ undo' = [undo EXCEPT ![p].temps = C!ButLast(@)]
      /\ UNCHANGED <<env, nextId, resources, thread, tester>>
  BY DEF C!Remove
<1>2. undo[p] \in C!Resources /\ undo[p].temps \in Seq(C!Paths)
  BY DEF ContextTypes, C!Resources
<1> DEFINE r == C!ButLast(undo[p].temps)
<1>3. r \in Seq(C!Paths)
  BY <1>1, <1>2, LastAndRest
<1> HIDE DEF r
<1>4. /\ DOMAIN disk' = DOMAIN disk \ {C!Last(undo[p].temps)}
      /\ \A f \in DOMAIN disk' : disk'[f] = disk[f]
  BY <1>1
<1>5. OnlyUndo(p, [restores |-> undo[p].restores, temps |-> r])
  <2>1. [undo[p] EXCEPT !.temps = r] = [restores |-> undo[p].restores, temps |-> r]
    BY <1>2, WithTemps
  <2>2. undo' = [undo EXCEPT ![p] = [undo[p] EXCEPT !.temps = r]]
    BY <1>1 DEF r
  <2>3. [restores |-> undo[p].restores, temps |-> r] \in C!Resources
    BY <1>2, <1>3 DEF C!Resources
  <2> QED  BY <2>1, <2>2, <2>3 DEF ContextTypes, OnlyUndo
<1>6. ContextTypes'
  BY <1>1, <1>4, <1>5 DEF ContextTypes, OnlyUndo
<1> QED  BY <1>1, <1>2, <1>4, <1>5, <1>6 DEF r

LEMMA UndoneEffect ==
  ASSUME ContextTypes, NEW p \in Processes, C!Undone(p)
  PROVE  /\ ContextTypes' /\ tester[p].at = "undo" /\ undo[p] = C!Nothing
         /\ Goes(p, tester[p].test, "between")
         /\ UNCHANGED <<env, disk, nextId, resources, thread, undo>>
<1>1. /\ tester[p].at = "undo" /\ undo[p] = C!Nothing /\ C!Phase(p, "between")
      /\ UNCHANGED <<env, disk, nextId, resources, thread, undo>>
  BY DEF C!Undone
<1>2. Goes(p, tester[p].test, "between")
  BY <1>1, PhaseGoes DEF ContextTypes
<1>3. ContextTypes'
  BY <1>1, <1>2 DEF ContextTypes, Goes
<1> QED  BY <1>1, <1>2, <1>3

LEMMA NextTestEffect ==
  ASSUME ContextTypes, NEW p \in Processes, C!NextTest(p)
  PROVE  /\ ContextTypes' /\ tester[p].at = "between"
         /\ \/ /\ Goes(p, tester[p].test, "over") /\ UNCHANGED thread
            \/ \E a \in C!Threads :
                 /\ a = <<<<p, tester[p].test + 1>>, Body>>
                 /\ Goes(p, tester[p].test + 1, "body")
                 /\ Only(a, "idle", thread[a].paths)
         /\ UNCHANGED <<env, disk, nextId, resources, undo>>
<1>1. tester[p].at = "between" /\ UNCHANGED <<env, disk, nextId, resources, undo>>
  BY DEF C!NextTest
<1>2. CASE tester[p].test < TestsOfContext
  <2> DEFINE a == <<<<p, tester[p].test + 1>>, Body>>
  <2>1. /\ tester' = [tester EXCEPT ![p] = [test |-> @.test + 1, at |-> "body"]] /\ C!Go(a, C!Idle)
    BY <1>2 DEF C!NextTest
  <2>2. tester[p].test \in 1 .. TestsOfContext
    BY ContextParts DEF ContextTypes
  <2>3. tester[p].test + 1 \in 1 .. TestsOfContext
    BY <1>2, <2>2, TestsAssumption DEF C!TestContextAssumption
  <2>4. a \in C!Threads
    BY <2>3 DEF C!Threads, C!Contexts
  <2>5. Goes(p, tester[p].test + 1, "body")
    <3>1. [test |-> tester[p].test + 1, at |-> "body"] \in RunnerState
      BY <2>3 DEF RunnerState
    <3> QED  BY <2>1, <3>1 DEF Goes, ContextTypes
  <2> HIDE DEF a
  <2>6. Only(a, "idle", thread[a].paths)
    BY <2>1, <2>4, Moved, Steps DEF ContextTypes, Only
  <2>7. ContextTypes'
    BY <1>1, <2>5, <2>6 DEF ContextTypes, Goes, Only
  <2> QED  BY <1>1, <2>4, <2>5, <2>6, <2>7 DEF a
<1>3. CASE ~(tester[p].test < TestsOfContext)
  <2>1. Goes(p, tester[p].test, "over") /\ UNCHANGED thread
    BY <1>3, PhaseGoes DEF ContextTypes, C!NextTest
  <2>2. ContextTypes'
    BY <1>1, <2>1 DEF ContextTypes, Goes
  <2> QED  BY <1>1, <2>1, <2>2
<1> QED  BY <1>2, <1>3

LEMMA TypesStep ==
  ASSUME ContextTypes, C!Next \/ UNCHANGED C!vars
  PROVE  ContextTypes'
<1>1. ASSUME NEW a \in C!Threads, C!Step(a) PROVE ContextTypes'
  <2>1. CASE \/ \E k \in Tasks : C!Spawn(a, k)
             \/ \E v \in Variables, x \in Values : C!LookUp(a, v, x)
             \/ C!Register(a) \/ C!SetEnv(a)
    BY <2>1, SpawnEffect, LookUpEffect, RegisterEffect, SetEnvEffect
  <2>2. CASE (\E kind \in Kinds : C!TakeId(a, kind)) \/ C!Make(a) \/ C!Keep(a) \/ C!Write(a)
    BY <2>2, TakeIdEffect, MakeEffect, KeepEffect, WriteEffect
  <2>3. CASE C!Finish(a) \/ C!MakeFails(a)
    BY <2>3, FinishEffect
  <2> QED  BY <1>1, <2>1, <2>2, <2>3 DEF C!Step
<1>2. ASSUME NEW p \in Processes, C!Run(p) PROVE ContextTypes'
  BY <1>2, TearDownEffect, RestoreEffect, RemoveEffect, UndoneEffect, NextTestEffect DEF C!Run
<1>3. ASSUME UNCHANGED C!vars PROVE ContextTypes'
  BY <1>3 DEF C!vars, ContextTypes
<1> QED  BY <1>1, <1>2, <1>3 DEF C!Next
----------------------------------------------------------------------------
(* Tests of the future and of the past                                     *)

(* A step of a thread of a test that has begun: what it may disturb.       *)
LEMMA PhaseKept ==
  ASSUME ContextTypes, PhaseInv, NEW a \in C!Threads, ~C!At(a, "unborn"), UNCHANGED <<tester, undo>>,
         \A c \in C!Contexts : c # a[1] => resources'[c] = resources[c],
         \A b \in C!Threads : b[1] # a[1] => thread'[b] = thread[b],
         \A b \in C!Threads : C!At(b, "unborn")' => thread'[b] = thread[b]
  PROVE  PhaseInv'
<1>1. ~Future(a[1])
  BY DEF PhaseInv
<1>2. \A b \in C!Threads : Future(b[1])' => C!At(b, "unborn")'
  BY <1>1 DEF PhaseInv, Future, C!At
<1>3. \A b \in C!Threads : C!At(b, "unborn")' => thread'[b].paths = {}
  BY DEF PhaseInv, C!At
<1>4. \A c \in C!Contexts : Future(c)' => resources'[c] = C!Nothing
  BY <1>1 DEF PhaseInv, Future
<1>5. \A p \in Processes : tester'[p].at # "undo" => undo'[p] = C!Nothing
  BY DEF PhaseInv
<1> QED  BY <1>2, <1>3, <1>4, <1>5 DEF PhaseInv

LEMMA PhaseOfSteps ==
  ASSUME ContextTypes, PhaseInv, NEW a \in C!Threads, C!Step(a)
  PROVE  PhaseInv'
<1>1. ASSUME NEW k \in Tasks, C!Spawn(a, k) PROVE PhaseInv'
  <2>1. ~C!At(a, "unborn") /\ <<a[1], k>>[1] = a[1] /\ ~C!At(<<a[1], k>>, "unborn")'
    BY <1>1, SpawnEffect DEF C!At, Only, C!Idle
  <2> QED  BY <1>1, <2>1, SpawnEffect, PhaseKept DEF Only, C!At
<1>2. ASSUME NEW v \in Variables, NEW x \in Values, C!LookUp(a, v, x) PROVE PhaseInv'
  <2>1. ~C!At(a, "unborn") /\ ~C!At(a, "unborn")'
    BY <1>2, LookUpEffect DEF C!At, Only
  <2> QED  BY <1>2, <2>1, LookUpEffect, PhaseKept DEF Only, C!At
<1>3. ASSUME C!Register(a) PROVE PhaseInv'
  <2>1. ~C!At(a, "unborn") /\ ~C!At(a, "unborn")'
    BY <1>3, RegisterEffect DEF C!At, Only
  <2> QED  BY <1>3, <2>1, RegisterEffect, PhaseKept DEF Only, OnlyOf, C!At
<1>4. ASSUME C!SetEnv(a) PROVE PhaseInv'
  <2>1. ~C!At(a, "unborn") /\ ~C!At(a, "unborn")'
    BY <1>4, SetEnvEffect DEF C!At, Only, C!Idle
  <2> QED  BY <1>4, <2>1, SetEnvEffect, PhaseKept DEF Only, C!At
<1>5. ASSUME NEW kind \in Kinds, C!TakeId(a, kind) PROVE PhaseInv'
  <2>1. ~C!At(a, "unborn") /\ ~C!At(a, "unborn")'
    BY <1>5, TakeIdEffect DEF C!At, Only
  <2> QED  BY <1>5, <2>1, TakeIdEffect, PhaseKept DEF Only, C!At
<1>6. ASSUME C!Make(a) PROVE PhaseInv'
  <2>1. ~C!At(a, "unborn") /\ ~C!At(a, "unborn")'
    BY <1>6, MakeEffect DEF C!At, Only
  <2> QED  BY <1>6, <2>1, MakeEffect, PhaseKept DEF Only, C!At
<1>7. ASSUME C!Keep(a) PROVE PhaseInv'
  <2>1. ~C!At(a, "unborn") /\ ~C!At(a, "unborn")'
    BY <1>7, KeepEffect DEF C!At, Only, C!Idle
  <2> QED  BY <1>7, <2>1, KeepEffect, PhaseKept DEF Only, OnlyOf, C!At
<1>8. ASSUME C!Write(a) PROVE PhaseInv'
  <2>1. ~C!At(a, "unborn")
    BY <1>8, WriteEffect DEF C!At
  <2> QED  BY <1>8, <2>1, WriteEffect, PhaseKept
<1>9. ASSUME C!Finish(a) \/ C!MakeFails(a) PROVE PhaseInv'
  <2>1. ~C!At(a, "unborn") /\ ~C!At(a, "unborn")'
    BY <1>9, FinishEffect DEF C!At, Only
  <2> QED  BY <1>9, <2>1, FinishEffect, PhaseKept DEF Only, C!At
<1> QED  BY <1>1, <1>2, <1>3, <1>4, <1>5, <1>6, <1>7, <1>8, <1>9 DEF C!Step

LEMMA PhaseStep ==
  ASSUME ContextTypes, PhaseInv, C!Next \/ UNCHANGED C!vars
  PROVE  PhaseInv'
<1>1. ASSUME NEW p \in Processes, C!Run(p) PROVE PhaseInv'
  <2>1. CASE C!TearDown(p)
    <3>1. tester'[p].test = tester[p].test /\ tester'[p].at = "undo"
      BY <2>1, TearDownEffect DEF Goes
    <3>2. \A c \in C!Contexts : Future(c)' <=> Future(c)
      BY <2>1, <3>1, TearDownEffect DEF Goes, Future, C!Contexts
    <3>3. \A c \in C!Contexts : Future(c) => resources'[c] = C!Nothing
      BY <2>1, TearDownEffect DEF PhaseInv, OnlyOf
    <3>4. \A q \in Processes : tester'[q].at # "undo" => undo'[q] = C!Nothing
      BY <2>1, <3>1, TearDownEffect DEF PhaseInv, OnlyUndo, Goes
    <3>5. \A b \in C!Threads : (Future(b[1])' => C!At(b, "unborn")') /\ (C!At(b, "unborn")' => thread'[b].paths = {})
      BY <2>1, <3>2, TearDownEffect, ThreadParts DEF PhaseInv, C!At
    <3> QED  BY <3>2, <3>3, <3>4, <3>5 DEF PhaseInv
  <2>2. CASE C!Restore(p)
    BY <2>2, RestoreEffect DEF PhaseInv, OnlyUndo, Future, C!At
  <2>3. CASE C!Remove(p)
    BY <2>3, RemoveEffect DEF PhaseInv, OnlyUndo, Future, C!At
  <2>4. CASE C!Undone(p)
    <3>1. tester'[p].test = tester[p].test /\ tester'[p].at = "between"
      BY <2>4, UndoneEffect DEF Goes
    <3>2. \A c \in C!Contexts : Future(c)' <=> Future(c)
      BY <2>4, <3>1, UndoneEffect DEF Goes, Future, C!Contexts
    <3>3. \A q \in Processes : tester'[q].at # "undo" => undo'[q] = C!Nothing
      BY <2>4, UndoneEffect DEF PhaseInv, Goes
    <3>4. \A b \in C!Threads : (Future(b[1])' => C!At(b, "unborn")') /\ (C!At(b, "unborn")' => thread'[b].paths = {})
      BY <2>4, <3>2, UndoneEffect, ThreadParts DEF PhaseInv, C!At
    <3>5. UNCHANGED resources
      BY <2>4, UndoneEffect
    <3> QED  BY <3>2, <3>3, <3>4, <3>5 DEF PhaseInv
  <2>5. CASE C!NextTest(p)
    <3>1. tester[p].at = "between" /\ tester'[p].at # "undo" /\ UNCHANGED <<resources, undo>>
          /\ \A q \in Processes : q # p => tester'[q] = tester[q]
      BY <2>5, NextTestEffect DEF Goes
    <3>2. tester'[p].test \in {tester[p].test, tester[p].test + 1} /\ tester[p].test \in Nat
      BY <2>5, NextTestEffect, ContextParts DEF Goes, ContextTypes
    <3>3. \A c \in C!Contexts : Future(c)' => Future(c)
      BY <3>1, <3>2, TestsAssumption DEF Future, C!Contexts, C!TestContextAssumption
    <3>4. \A b \in C!Threads : thread'[b] = thread[b]
            \/ (b[1] = <<p, tester'[p].test>> /\ ~C!At(b, "unborn")')
      BY <2>5, NextTestEffect DEF Only, Goes, C!At, C!Idle
    <3>5. \A b \in C!Threads : (Future(b[1])' => C!At(b, "unborn")')
      <4> SUFFICES ASSUME NEW b \in C!Threads, Future(b[1])' PROVE C!At(b, "unborn")'
        OBVIOUS
      <4>1. b[1] # <<p, tester'[p].test>>
        BY ThreadParts, <3>2 DEF Future
      <4> QED  BY <3>3, <3>4, <4>1, ThreadParts DEF PhaseInv, C!At
    <3>6. \A b \in C!Threads : C!At(b, "unborn")' => thread'[b].paths = {}
      BY <3>4 DEF PhaseInv, C!At
    <3>7. \A q \in Processes : tester'[q].at # "undo" => undo'[q] = C!Nothing
      BY <3>1 DEF PhaseInv
    <3> QED  BY <3>1, <3>3, <3>5, <3>6, <3>7 DEF PhaseInv
  <2> QED  BY <1>1, <2>1, <2>2, <2>3, <2>4, <2>5 DEF C!Run
<1>2. ASSUME UNCHANGED C!vars PROVE PhaseInv'
  BY <1>2 DEF C!vars, PhaseInv, Future, C!At
<1> QED  BY <1>1, <1>2, PhaseOfSteps DEF C!Next

(* Who does something is in the test that runs, if tests await their tasks. *)
LEMMA ActiveRuns ==
  ASSUME PhaseInv, AwaitInv, NEW a \in C!Threads, ~Still(a)
  PROVE  Running(a[1]) /\ ~C!At(<<a[1], Body>>, "over")
  BY ThreadParts DEF PhaseInv, AwaitInv, Still, Ended
LEMMA AwaitKept ==
  ASSUME ContextTypes, PhaseInv, AwaitInv, NEW a \in C!Threads, ~Still(a), UNCHANGED tester,
         \A c \in C!Contexts : c # a[1] => resources'[c] = resources[c],
         \A b \in C!Threads : b[1] # a[1] => thread'[b] = thread[b],
         C!At(<<a[1], Body>>, "over")' => \A b \in C!Threads : b[1] = a[1] => Still(b)'
  PROVE  AwaitInv'
<1>1. Running(a[1])
  BY ActiveRuns
<1>2. ASSUME NEW c \in C!Contexts, Ended(c)' PROVE resources'[c] = C!Nothing /\ C!At(<<c, Body>>, "over")'
  <2>1. Ended(c) /\ c # a[1]
    BY <1>1, <1>2 DEF Ended, Running, Future
  <2>2. <<c, Body>> \in C!Threads /\ <<c, Body>>[1] = c
    BY DEF C!Threads
  <2> QED  BY <2>1, <2>2 DEF AwaitInv, C!At
<1>3. ASSUME NEW b \in C!Threads, C!At(<<b[1], Body>>, "over")' PROVE Still(b)'
  <2>1. CASE b[1] = a[1]
    BY <1>3, <2>1
  <2>2. CASE b[1] # a[1]
    <3>1. <<b[1], Body>> \in C!Threads /\ <<b[1], Body>>[1] = b[1]
      BY ThreadParts DEF C!Threads
    <3> QED  BY <1>3, <2>2, <3>1 DEF AwaitInv, C!At, Still
  <2> QED  BY <2>1, <2>2
<1> QED  BY <1>2, <1>3 DEF AwaitInv

(* As long as the body of a test goes on, or anyone comes to another place. *)
LEMMA AwaitGoes ==
  ASSUME ContextTypes, PhaseInv, AwaitInv, NEW a \in C!Threads, ~Still(a), UNCHANGED tester,
         \A c \in C!Contexts : c # a[1] => resources'[c] = resources[c],
         NEW b \in C!Threads, b[1] = a[1], NEW place, place # "over",
         NEW paths, Only(b, place, paths)
  PROVE  AwaitInv'
<1>1. ~C!At(<<a[1], Body>>, "over") /\ <<a[1], Body>> \in C!Threads
  BY ActiveRuns, ThreadParts DEF C!Threads
<1>2. ~C!At(<<a[1], Body>>, "over")'
  BY <1>1 DEF Only, C!At
<1>3. \A d \in C!Threads : d[1] # a[1] => thread'[d] = thread[d]
  BY DEF Only
<1> QED  BY <1>2, <1>3, AwaitKept

LEMMA AwaitOfSteps ==
  ASSUME Awaits, ContextTypes, PhaseInv, AwaitInv, NEW a \in C!Threads, C!Step(a)
  PROVE  AwaitInv'
<1>1. ASSUME NEW k \in Tasks, C!Spawn(a, k) PROVE AwaitInv'
  <2>1. ~Still(a) /\ <<a[1], k>>[1] = a[1] /\ <<a[1], k>> \in C!Threads
        /\ Only(<<a[1], k>>, "idle", thread[<<a[1], k>>].paths) /\ UNCHANGED <<tester, resources>>
    BY <1>1, SpawnEffect DEF C!At, Still
  <2> QED  BY <2>1, AwaitGoes
<1>2. ASSUME NEW v \in Variables, NEW x \in Values, C!LookUp(a, v, x) PROVE AwaitInv'
  <2>1. ~Still(a) /\ Only(a, "register", thread[a].paths) /\ UNCHANGED <<tester, resources>>
    BY <1>2, LookUpEffect DEF C!At, Still
  <2> QED  BY <2>1, AwaitGoes
<1>3. ASSUME C!Register(a) PROVE AwaitInv'
  <2>1. ~Still(a) /\ Only(a, "set", thread[a].paths) /\ UNCHANGED tester
    BY <1>3, RegisterEffect DEF C!At, Still
  <2>2. \A c \in C!Contexts : c # a[1] => resources'[c] = resources[c]
    BY <1>3, RegisterEffect DEF OnlyOf
  <2> QED  BY <2>1, <2>2, AwaitGoes
<1>4. ASSUME C!SetEnv(a) PROVE AwaitInv'
  <2>1. ~Still(a) /\ Only(a, "idle", thread[a].paths) /\ UNCHANGED <<tester, resources>>
    BY <1>4, SetEnvEffect DEF C!At, Still
  <2> QED  BY <2>1, AwaitGoes
<1>5. ASSUME NEW kind \in Kinds, C!TakeId(a, kind) PROVE AwaitInv'
  <2>1. ~Still(a) /\ Only(a, "make", thread[a].paths) /\ UNCHANGED <<tester, resources>>
    BY <1>5, TakeIdEffect DEF C!At, Still
  <2> QED  BY <2>1, AwaitGoes
<1>6. ASSUME C!Make(a) PROVE AwaitInv'
  <2>1. ~Still(a) /\ Only(a, "keep", thread[a].paths) /\ UNCHANGED <<tester, resources>>
    BY <1>6, MakeEffect DEF C!At, Still
  <2> QED  BY <2>1, AwaitGoes
<1>7. ASSUME C!Keep(a) PROVE AwaitInv'
  <2>1. ~Still(a) /\ Only(a, "idle", thread[a].paths \cup {thread[a].step.path}) /\ UNCHANGED tester
    BY <1>7, KeepEffect DEF C!At, Still
  <2>2. \A c \in C!Contexts : c # a[1] => resources'[c] = resources[c]
    BY <1>7, KeepEffect DEF OnlyOf
  <2> QED  BY <2>1, <2>2, AwaitGoes
<1>8. ASSUME C!Write(a) PROVE AwaitInv'
  BY <1>8, WriteEffect DEF AwaitInv, C!At, Still, Ended, Running, Future
<1>9. ASSUME C!Finish(a) \/ C!MakeFails(a) PROVE AwaitInv'
  <2>1. ~Still(a) /\ Only(a, "over", thread[a].paths) /\ UNCHANGED <<tester, resources>>
    BY <1>9, FinishEffect DEF C!At, Still
  <2>2. \A b \in C!Threads : b[1] # a[1] => thread'[b] = thread[b]
    BY <2>1 DEF Only
  <2>3. <<a[1], Body>> \in C!Threads /\ ~C!At(<<a[1], Body>>, "over")
    BY <2>1, ActiveRuns, ThreadParts DEF C!Threads
  <2>4. C!At(<<a[1], Body>>, "over")' => \A b \in C!Threads : b[1] = a[1] => Still(b)'
    <3> SUFFICES ASSUME C!At(<<a[1], Body>>, "over")', NEW b \in C!Threads, b[1] = a[1]
                 PROVE  Still(b)'
      OBVIOUS
    <3>1. a = <<a[1], Body>> /\ a[2] = Body
      BY <2>1, <2>3, ThreadParts DEF Only, C!At
    <3>2. \A k \in Tasks : C!At(<<a[1], k>>, "unborn") \/ C!At(<<a[1], k>>, "over")
      BY <1>9, <3>1, FinishEffect
    <3>3. CASE b = a
      BY <2>1, <3>3 DEF Only, Still, C!At
    <3>4. CASE b # a
      <4>1. b[2] \in Tasks /\ b = <<a[1], b[2]>>
        BY <3>1, <3>4, ThreadParts
      <4>2. Still(b)
        BY <3>2, <4>1 DEF Still
      <4> QED  BY <2>1, <3>4, <4>2 DEF Only, Still, C!At
    <3> QED  BY <3>3, <3>4
  <2> QED  BY <2>1, <2>2, <2>4, AwaitKept
<1> QED  BY <1>1, <1>2, <1>3, <1>4, <1>5, <1>6, <1>7, <1>8, <1>9 DEF C!Step

LEMMA AwaitStep ==
  ASSUME Awaits, ContextTypes, PhaseInv, AwaitInv, C!Next \/ UNCHANGED C!vars
  PROVE  AwaitInv'
<1>1. ASSUME NEW p \in Processes, C!Run(p) PROVE AwaitInv'
  <2>1. CASE C!TearDown(p)
    <3>1. /\ tester[p].at = "body" /\ tester'[p].test = tester[p].test /\ tester'[p].at = "undo"
          /\ \A q \in Processes : q # p => tester'[q] = tester[q]
          /\ C!At(<<C!Context(p), Body>>, "over") /\ UNCHANGED thread
      BY <2>1, TearDownEffect DEF Goes
    <3>2. /\ resources'[C!Context(p)] = C!Nothing
          /\ \A c \in C!Contexts : c # C!Context(p) => resources'[c] = resources[c]
      BY <2>1, TearDownEffect DEF OnlyOf
    <3>3. ASSUME NEW c \in C!Contexts, c # C!Context(p), Ended(c)' PROVE Ended(c)
      <4>1. CASE c[1] # p
        BY <3>1, <3>3, <4>1 DEF Ended, Running, Future, C!Contexts
      <4>2. CASE c[1] = p
        <5>1. c[2] # tester[p].test
          BY <3>3, <4>2 DEF C!Contexts, C!Context
        <5> QED  BY <3>1, <3>3, <4>2, <5>1 DEF Ended, Running, Future
      <4> QED  BY <4>1, <4>2
    <3>4. \A c \in C!Contexts : Ended(c)' => resources'[c] = C!Nothing /\ C!At(<<c, Body>>, "over")'
      BY <3>1, <3>2, <3>3 DEF AwaitInv, C!At
    <3>5. \A b \in C!Threads : C!At(<<b[1], Body>>, "over")' => Still(b)'
      BY <3>1 DEF AwaitInv, C!At, Still
    <3> QED  BY <3>4, <3>5 DEF AwaitInv
  <2>2. CASE C!Restore(p)
    BY <2>2, RestoreEffect DEF AwaitInv, C!At, Still, Ended, Running, Future
  <2>3. CASE C!Remove(p)
    BY <2>3, RemoveEffect DEF AwaitInv, C!At, Still, Ended, Running, Future
  <2>4. CASE C!Undone(p)
    <3>1. /\ tester[p].at = "undo" /\ tester'[p].test = tester[p].test /\ tester'[p].at = "between"
          /\ \A q \in Processes : q # p => tester'[q] = tester[q]
          /\ UNCHANGED <<thread, resources>>
      BY <2>4, UndoneEffect DEF Goes
    <3>2. ASSUME NEW c \in C!Contexts, Ended(c)' PROVE Ended(c)
      BY <3>1, <3>2 DEF Ended, Running, Future, C!Contexts
    <3> QED  BY <3>1, <3>2 DEF AwaitInv, C!At, Still
  <2>5. CASE C!NextTest(p)
    <3>1. tester[p].at = "between" /\ UNCHANGED resources
      BY <2>5, NextTestEffect
    <3>2. CASE Goes(p, tester[p].test, "over") /\ UNCHANGED thread
      <4>1. /\ tester'[p].test = tester[p].test /\ tester'[p].at = "over"
            /\ \A q \in Processes : q # p => tester'[q] = tester[q]
        BY <3>2 DEF Goes
      <4>2. ASSUME NEW c \in C!Contexts, Ended(c)' PROVE Ended(c)
        BY <3>1, <4>1, <4>2 DEF Ended, Running, Future, C!Contexts
      <4> QED  BY <3>1, <3>2, <4>2 DEF AwaitInv, C!At, Still
    <3>3. CASE \E a \in C!Threads :
                 /\ a = <<<<p, tester[p].test + 1>>, Body>>
                 /\ Goes(p, tester[p].test + 1, "body") /\ Only(a, "idle", thread[a].paths)
      <4>1. PICK a \in C!Threads :
              /\ a = <<<<p, tester[p].test + 1>>, Body>>
              /\ Goes(p, tester[p].test + 1, "body") /\ Only(a, "idle", thread[a].paths)
        BY <3>3
      <4>2. /\ tester'[p].test = tester[p].test + 1 /\ tester'[p].at = "body" /\ tester[p].test \in 1 .. TestsOfContext
            /\ \A q \in Processes : q # p => tester'[q] = tester[q]
            /\ tester'[p] \in RunnerState
        BY <4>1, ContextParts DEF Goes, ContextTypes
      <4>3. a[1] \in C!Contexts /\ a[1] = <<p, tester'[p].test>> /\ a[2] = Body /\ Running(a[1])'
            /\ ~C!At(a, "over")'
        BY <4>1, <4>2, ThreadParts DEF Running, RunnerState, Only, C!At
      <4>4. ASSUME NEW c \in C!Contexts, Ended(c)' PROVE Ended(c) /\ c # a[1]
        <5>1. c # a[1]
          BY <4>3, <4>4 DEF Ended
        <5>2. CASE c[1] # p
          <6>1. tester'[c[1]] = tester[c[1]]
            BY <4>2, <5>2 DEF C!Contexts
          <6> QED  BY <4>4, <5>1, <6>1 DEF Ended, Running, Future
        <5>3. CASE c[1] = p
          <6>1. ~(c[2] > tester[p].test + 1) /\ c[2] # tester[p].test + 1 /\ c[2] \in 1 .. TestsOfContext
            BY <4>2, <4>3, <4>4, <5>1, <5>3 DEF Ended, Future, C!Contexts
          <6>2. ~(c[2] > tester[p].test)
            BY <4>2, <6>1, TestsAssumption DEF C!TestContextAssumption
          <6> QED  BY <3>1, <5>1, <5>3, <6>2 DEF Ended, Running, Future
        <5> QED  BY <5>1, <5>2, <5>3
      <4>5. ASSUME NEW c \in C!Contexts, Ended(c)' PROVE C!At(<<c, Body>>, "over")' /\ resources'[c] = C!Nothing
        <5>1. Ended(c) /\ c # a[1] /\ <<c, Body>> \in C!Threads /\ <<c, Body>> # a
          BY <4>3, <4>4, <4>5 DEF C!Threads
        <5> QED  BY <3>1, <4>1, <5>1 DEF AwaitInv, Only, C!At
      <4>6. ASSUME NEW b \in C!Threads, C!At(<<b[1], Body>>, "over")' PROVE Still(b)'
        <5>1. <<b[1], Body>> \in C!Threads /\ b # a /\ <<b[1], Body>> # a
          BY <4>3, <4>6, ThreadParts DEF C!Threads
        <5>2. C!At(<<b[1], Body>>, "over") /\ thread'[b] = thread[b]
          BY <4>1, <4>6, <5>1 DEF Only, C!At
        <5> QED  BY <5>2 DEF AwaitInv, Still, C!At
      <4> QED  BY <4>5, <4>6 DEF AwaitInv
    <3> QED  BY <2>5, <3>2, <3>3, NextTestEffect
  <2> QED  BY <1>1, <2>1, <2>2, <2>3, <2>4, <2>5 DEF C!Run
<1>2. ASSUME UNCHANGED C!vars PROVE AwaitInv'
  BY <1>2 DEF C!vars, AwaitInv, Ended, Running, Future, C!At, Still
<1> QED  BY <1>1, <1>2, AwaitOfSteps DEF C!Next
----------------------------------------------------------------------------
(* The notes                                                               *)

NoteSeq == Seq(Variables \X (Values \cup {C!Unset}))

LEMMA AppendedNotes ==
  ASSUME NEW s \in NoteSeq, NEW n \in Variables \X (Values \cup {C!Unset}), NEW v \in Variables
  PROVE  /\ Noted(Append(s, n), v) <=> (Noted(s, v) \/ n[1] = v)
         /\ FirstIsOriginal(s, v) => FirstIsOriginal(Append(s, n), v)
         /\ ~Noted(s, v) /\ n[1] = v /\ n[2] = Originally[v] => FirstIsOriginal(Append(s, n), v)
<1>1. /\ DOMAIN s = 1 .. Len(s) /\ Len(s) \in Nat /\ DOMAIN Append(s, n) = 1 .. Len(s) + 1
      /\ Append(s, n)[Len(s) + 1] = n /\ \A i \in 1 .. Len(s) : Append(s, n)[i] = s[i]
  BY DEF NoteSeq
<1> DEFINE t == Append(s, n)
<1>2. n = <<n[1], n[2]>>
  OBVIOUS
<1> HIDE DEF t
<1>3. Noted(t, v) <=> (Noted(s, v) \/ n[1] = v)
  BY <1>1 DEF Noted, t
<1>4. FirstIsOriginal(s, v) => FirstIsOriginal(t, v)
  <2> SUFFICES ASSUME FirstIsOriginal(s, v) PROVE FirstIsOriginal(t, v)
    OBVIOUS
  <2>1. PICK i \in DOMAIN s : s[i] = <<v, Originally[v]>> /\ \A j \in DOMAIN s : s[j][1] = v => i <= j
    BY DEF FirstIsOriginal
  <2>2. i \in DOMAIN t /\ t[i] = <<v, Originally[v]>>
    BY <1>1, <2>1 DEF t
  <2>3. \A j \in DOMAIN t : t[j][1] = v => i <= j
    BY <1>1, <2>1 DEF t
  <2> QED  BY <2>2, <2>3 DEF FirstIsOriginal
<1>5. ~Noted(s, v) /\ n[1] = v /\ n[2] = Originally[v] => FirstIsOriginal(t, v)
  <2> SUFFICES ASSUME ~Noted(s, v), n[1] = v, n[2] = Originally[v] PROVE FirstIsOriginal(t, v)
    OBVIOUS
  <2>1. Len(s) + 1 \in DOMAIN t /\ t[Len(s) + 1] = <<v, Originally[v]>>
    BY <1>1, <1>2 DEF t
  <2>2. \A j \in DOMAIN t : t[j][1] = v => Len(s) + 1 <= j
    BY <1>1 DEF Noted, t
  <2> QED  BY <2>1, <2>2 DEF FirstIsOriginal
<1> QED  BY <1>3, <1>4, <1>5 DEF t

LEMMA ShortenedNotes ==
  ASSUME NEW s \in NoteSeq, s # <<>>, NEW v \in Variables
  PROVE  /\ Noted(C!ButLast(s), v) => Noted(s, v)
         /\ FirstIsOriginal(s, v) /\ Noted(C!ButLast(s), v) => FirstIsOriginal(C!ButLast(s), v)
         /\ Noted(s, v) /\ ~Noted(C!ButLast(s), v) => C!Last(s)[1] = v
         /\ FirstIsOriginal(s, v) /\ ~Noted(C!ButLast(s), v) => C!Last(s) = <<v, Originally[v]>>
<1>1. /\ C!Last(s) = s[Len(s)] /\ Len(s) \in Nat /\ Len(s) > 0
      /\ DOMAIN s = 1 .. Len(s) /\ DOMAIN C!ButLast(s) = 1 .. Len(s) - 1
      /\ \A i \in 1 .. Len(s) - 1 : C!ButLast(s)[i] = s[i]
  BY LastAndRest DEF NoteSeq
<1> DEFINE t == C!ButLast(s)
<1> HIDE DEF t
<1>2. Noted(t, v) => Noted(s, v)
  BY <1>1 DEF Noted, t
<1>3. ASSUME FirstIsOriginal(s, v), Noted(t, v) PROVE FirstIsOriginal(t, v)
  <2>1. PICK i \in DOMAIN s : s[i] = <<v, Originally[v]>> /\ \A j \in DOMAIN s : s[j][1] = v => i <= j
    BY <1>3 DEF FirstIsOriginal
  <2>2. PICK k \in DOMAIN t : t[k][1] = v
    BY <1>3 DEF Noted
  <2>3. i <= k
    BY <1>1, <2>1, <2>2 DEF t
  <2>4. i \in DOMAIN t /\ t[i] = <<v, Originally[v]>>
    BY <1>1, <2>1, <2>2, <2>3 DEF t
  <2>5. \A j \in DOMAIN t : t[j][1] = v => i <= j
    BY <1>1, <2>1 DEF t
  <2> QED  BY <2>4, <2>5 DEF FirstIsOriginal
<1>4. Noted(s, v) /\ ~Noted(t, v) => C!Last(s)[1] = v
  BY <1>1 DEF Noted, t
<1>5. ASSUME FirstIsOriginal(s, v), ~Noted(t, v) PROVE C!Last(s) = <<v, Originally[v]>>
  <2>1. PICK i \in DOMAIN s : s[i] = <<v, Originally[v]>>
    BY <1>5 DEF FirstIsOriginal
  <2>2. i \notin DOMAIN t
    BY <1>1, <1>5, <2>1 DEF Noted, t
  <2>3. i = Len(s)
    BY <1>1, <2>1, <2>2 DEF t
  <2> QED  BY <1>1, <2>1, <2>3
<1> QED  BY <1>2, <1>3, <1>4, <1>5 DEF t

LEMMA NotesTyped ==
  ASSUME ContextTypes
  PROVE  /\ \A c \in C!Contexts : resources[c].restores \in NoteSeq
         /\ \A p \in Processes : undo[p].restores \in NoteSeq
         /\ \A p \in Processes : Notes(p) \in NoteSeq /\ C!Context(p) \in C!Contexts
<1>1. \A c \in C!Contexts : resources[c].restores \in NoteSeq
  BY DEF ContextTypes, C!Resources, NoteSeq
<1>2. \A p \in Processes : undo[p].restores \in NoteSeq
  BY DEF ContextTypes, C!Resources, NoteSeq
<1>3. \A p \in Processes : C!Context(p) \in C!Contexts
  BY ContextParts DEF ContextTypes
<1> QED  BY <1>1, <1>2, <1>3 DEF Notes

(* A thread that does something reads and writes the notes of its process. *)
LEMMA NotesOfActive ==
  ASSUME ContextTypes, NEW a \in C!Threads, Running(a[1])
  PROVE  /\ C!Context(C!Process(a)) = a[1] /\ tester[C!Process(a)].at = "body"
         /\ Notes(C!Process(a)) = resources[a[1]].restores
  BY ThreadParts DEF Running, C!Context, Notes

(* No note is made or undone, no variable set.                             *)
LEMMA NotesKept ==
  ASSUME ContextTypes, NotesInv, UNCHANGED <<env, tester, undo>>,
         \A c \in C!Contexts : resources'[c].restores = resources[c].restores,
         \A b \in C!Threads : C!At(b, "register")' =>
           \/ thread'[b].step = thread[b].step
           \/ ~Noted(Notes(C!Process(b)), thread'[b].step.name) => thread'[b].step.previous = Originally[thread'[b].step.name],
         \A b \in C!Threads : C!At(b, "set")' => thread'[b].step = thread[b].step
  PROVE  NotesInv'
<1>1. \A p \in Processes : Notes(p)' = Notes(p)
  BY NotesTyped DEF Notes, C!Context
<1>2. \A p \in Processes, v \in Variables :
        IF Noted(Notes(p)', v) THEN FirstIsOriginal(Notes(p)', v) ELSE env'[p][v] = Originally[v]
  BY <1>1 DEF NotesInv
<1>3. \A b \in C!Threads :
        C!At(b, "register")' /\ ~Noted(Notes(C!Process(b))', thread'[b].step.name)
          => thread'[b].step.previous = Originally[thread'[b].step.name]
  BY <1>1, ThreadParts DEF NotesInv, C!At
<1>4. \A b \in C!Threads : C!At(b, "set")' => Noted(resources'[b[1]].restores, thread'[b].step.name)
  BY ThreadParts DEF NotesInv, C!At
<1> QED  BY <1>2, <1>3, <1>4 DEF NotesInv

LEMMA NotesOfRegister ==
  ASSUME ContextTypes, PhaseInv, AwaitInv, NotesInv, NEW a \in C!Threads, C!Register(a)
  PROVE  NotesInv'
<1> DEFINE p == C!Process(a)
           n == <<thread[a].step.name, thread[a].step.previous>>
<1>1. /\ C!At(a, "register") /\ thread[a].step.name \in Variables
      /\ Only(a, "set", thread[a].paths) /\ thread'[a].step.name = thread[a].step.name
      /\ OnlyOf(a[1], [restores |-> Append(resources[a[1]].restores, n), temps |-> resources[a[1]].temps])
      /\ UNCHANGED <<env, tester, undo>>
  BY RegisterEffect
<1>2. Running(a[1])
  BY <1>1, ActiveRuns DEF C!At, Still
<1>3. /\ C!Context(p) = a[1] /\ tester[p].at = "body" /\ Notes(p) = resources[a[1]].restores
      /\ p \in Processes /\ a[1] \in C!Contexts
  BY <1>2, NotesOfActive, ThreadParts
<1>4. /\ resources'[a[1]].restores = Append(Notes(p), n)
      /\ \A c \in C!Contexts : c # a[1] => resources'[c] = resources[c]
  BY <1>1, <1>3 DEF OnlyOf
<1>5. Notes(p)' = Append(Notes(p), n)
  BY <1>1, <1>3, <1>4 DEF Notes, C!Context
<1>6. \A q \in Processes : q # p => Notes(q)' = Notes(q)
  <2> SUFFICES ASSUME NEW q \in Processes, q # p PROVE Notes(q)' = Notes(q)
    OBVIOUS
  <2>1. C!Context(q) # a[1] /\ C!Context(q) \in C!Contexts
    BY <1>3, NotesTyped DEF C!Context
  <2>2. C!Context(q)' = C!Context(q)
    BY <1>1 DEF C!Context
  <2>3. resources'[C!Context(q)] = resources[C!Context(q)]
    BY <1>4, <2>1
  <2> QED  BY <1>1, <2>2, <2>3 DEF Notes
<1>7. n \in Variables \X (Values \cup {C!Unset}) /\ n[1] = thread[a].step.name /\ n[2] = thread[a].step.previous
  BY <1>1, ThreadFields, StepFields DEF ContextTypes, C!At
<1>8. ~Noted(Notes(p), n[1]) => n[2] = Originally[n[1]]
  BY <1>1, <1>7 DEF NotesInv
<1>9. Notes(p) \in NoteSeq
  BY <1>3, NotesTyped
<1> HIDE DEF n, p
<1>10. \A v \in Variables :
         IF Noted(Append(Notes(p), n), v) THEN FirstIsOriginal(Append(Notes(p), n), v) ELSE env[p][v] = Originally[v]
  <2> SUFFICES ASSUME NEW v \in Variables
               PROVE  IF Noted(Append(Notes(p), n), v) THEN FirstIsOriginal(Append(Notes(p), n), v)
                      ELSE env[p][v] = Originally[v]
    OBVIOUS
  <2>1. IF Noted(Notes(p), v) THEN FirstIsOriginal(Notes(p), v) ELSE env[p][v] = Originally[v]
    BY <1>3 DEF NotesInv
  <2> QED  BY <2>1, <1>7, <1>8, <1>9, AppendedNotes
<1>11. \A q \in Processes, v \in Variables :
         IF Noted(Notes(q)', v) THEN FirstIsOriginal(Notes(q)', v) ELSE env'[q][v] = Originally[v]
  <2> SUFFICES ASSUME NEW q \in Processes, NEW v \in Variables
               PROVE  IF Noted(Notes(q)', v) THEN FirstIsOriginal(Notes(q)', v)
                      ELSE env'[q][v] = Originally[v]
    OBVIOUS
  <2>1. CASE q = p
    BY <1>1, <1>5, <1>10, <2>1
  <2>2. CASE q # p
    <3>1. Notes(q)' = Notes(q) /\ env' = env
      BY <1>1, <1>6, <2>2
    <3> QED  BY <3>1 DEF NotesInv
  <2> QED  BY <2>1, <2>2
<1>12. \A b \in C!Threads :
         C!At(b, "register")' /\ ~Noted(Notes(C!Process(b))', thread'[b].step.name)
           => thread'[b].step.previous = Originally[thread'[b].step.name]
  <2> SUFFICES ASSUME NEW b \in C!Threads, C!At(b, "register")',
                      ~Noted(Notes(C!Process(b))', thread'[b].step.name)
               PROVE  thread'[b].step.previous = Originally[thread'[b].step.name]
    OBVIOUS
  <2>1. b # a /\ thread'[b] = thread[b] /\ C!At(b, "register")
    BY <1>1 DEF Only, C!At
  <2>2. thread[b].step.name \in Variables
    BY <2>1, ThreadFields, StepFields DEF ContextTypes, C!At
  <2>3. ~Noted(Notes(C!Process(b)), thread[b].step.name)
    <3>1. C!Process(b) \in Processes
      BY ThreadParts
    <3>2. CASE C!Process(b) = p
      <4>1. ~Noted(Append(Notes(p), n), thread[b].step.name)
        BY <1>5, <2>1, <3>2
      <4> QED  BY <1>7, <1>9, <2>2, <3>2, <4>1, AppendedNotes
    <3>3. CASE C!Process(b) # p
      BY <1>6, <2>1, <3>1, <3>3
    <3> QED  BY <3>2, <3>3
  <2> QED  BY <2>1, <2>3 DEF NotesInv
<1>13. \A b \in C!Threads : C!At(b, "set")' => Noted(resources'[b[1]].restores, thread'[b].step.name)
  <2> SUFFICES ASSUME NEW b \in C!Threads, C!At(b, "set")'
               PROVE  Noted(resources'[b[1]].restores, thread'[b].step.name)
    OBVIOUS
  <2>1. CASE b = a
    <3>1. n[1] \in Variables /\ thread'[b].step.name = n[1]
      BY <1>1, <1>7, <2>1
    <3>2. Noted(Append(Notes(p), n), n[1])
      BY <1>7, <1>9, <3>1, AppendedNotes
    <3> QED  BY <1>4, <2>1, <3>1, <3>2
  <2>2. CASE b # a
    <3>1. thread'[b] = thread[b] /\ C!At(b, "set")
      BY <1>1, <2>2 DEF Only, C!At
    <3>2. Noted(resources[b[1]].restores, thread[b].step.name) /\ thread[b].step.name \in Variables
      BY <3>1, ThreadFields, StepFields DEF NotesInv, ContextTypes, C!At
    <3>3. CASE b[1] = a[1]
      <4>1. Noted(Notes(p), thread[b].step.name)
        BY <1>3, <3>2, <3>3
      <4>2. Noted(Append(Notes(p), n), thread[b].step.name)
        BY <1>7, <1>9, <3>2, <4>1, AppendedNotes
      <4> QED  BY <1>4, <3>1, <3>3, <4>2
    <3>4. CASE b[1] # a[1]
      BY <1>4, <3>1, <3>2, <3>4, ThreadParts
    <3> QED  BY <3>3, <3>4
  <2> QED  BY <2>1, <2>2
<1> QED  BY <1>11, <1>12, <1>13 DEF NotesInv

LEMMA NotesOfSet ==
  ASSUME ContextTypes, PhaseInv, AwaitInv, NotesInv, NEW a \in C!Threads, C!SetEnv(a)
  PROVE  NotesInv'
<1> DEFINE p == C!Process(a)
           w == thread[a].step.name
<1>1. /\ C!At(a, "set") /\ w \in Variables /\ Sets(p, w, thread[a].step.value)
      /\ Only(a, "idle", thread[a].paths) /\ UNCHANGED <<resources, tester, undo>>
  BY SetEnvEffect
<1>2. Running(a[1])
  BY <1>1, ActiveRuns DEF C!At, Still
<1>3. Noted(Notes(p), w)
  BY <1>1, <1>2, NotesOfActive DEF NotesInv
<1>4. \A q \in Processes : Notes(q)' = Notes(q)
  BY <1>1 DEF Notes, C!Context
<1> HIDE DEF p, w
<1>5. \A q \in Processes, v \in Variables :
        IF Noted(Notes(q)', v) THEN FirstIsOriginal(Notes(q)', v) ELSE env'[q][v] = Originally[v]
  BY <1>1, <1>3, <1>4 DEF NotesInv, Sets
<1>6. \A b \in C!Threads : (C!At(b, "register") \/ C!At(b, "set"))' => thread'[b] = thread[b]
  BY <1>1 DEF Only, C!At
<1>7. \A b \in C!Threads :
        C!At(b, "register")' /\ ~Noted(Notes(C!Process(b))', thread'[b].step.name)
          => thread'[b].step.previous = Originally[thread'[b].step.name]
  BY <1>4, <1>6, ThreadParts DEF NotesInv, C!At
<1>8. \A b \in C!Threads : C!At(b, "set")' => Noted(resources'[b[1]].restores, thread'[b].step.name)
  BY <1>1, <1>6 DEF NotesInv, C!At
<1> QED  BY <1>5, <1>7, <1>8 DEF NotesInv

LEMMA NotesOfSteps ==
  ASSUME C!Readable, ContextTypes, PhaseInv, AwaitInv, NotesInv, NEW a \in C!Threads, C!Step(a)
  PROVE  NotesInv'
<1>1. ASSUME NEW k \in Tasks, C!Spawn(a, k) PROVE NotesInv'
  BY <1>1, SpawnEffect, NotesKept DEF Only, C!At
<1>2. ASSUME NEW v \in Variables, NEW x \in Values, C!LookUp(a, v, x) PROVE NotesInv'
  <2>1. /\ C!At(a, "idle") /\ Only(a, "register", thread[a].paths)
        /\ thread'[a].step.name = v /\ thread'[a].step.previous = C!Told(env[C!Process(a)][v])
        /\ UNCHANGED <<env, resources, tester, undo>>
    BY <1>2, LookUpEffect
  <2>2. ~Noted(Notes(C!Process(a)), v) => env[C!Process(a)][v] = Originally[v]
    BY ThreadParts DEF NotesInv
  <2>3. \A b \in C!Threads : b # a => thread'[b] = thread[b]
    BY <2>1 DEF Only
  <2>4. ~C!At(a, "set")'
    BY <2>1 DEF Only, C!At
  <2>5. ~Noted(Notes(C!Process(a)), v) => thread'[a].step.previous = Originally[v]
    BY <2>1, <2>2 DEF C!Readable, C!Told
  <2> QED  BY <2>1, <2>3, <2>4, <2>5, NotesKept
<1>3. ASSUME NEW kind \in Kinds, C!TakeId(a, kind) PROVE NotesInv'
  BY <1>3, TakeIdEffect, NotesKept DEF Only, C!At
<1>4. ASSUME C!Make(a) PROVE NotesInv'
  BY <1>4, MakeEffect, NotesKept DEF Only, C!At
<1>5. ASSUME C!Keep(a) PROVE NotesInv'
  <2>1. \A c \in C!Contexts : resources'[c].restores = resources[c].restores
    <3>1. OnlyOf(a[1], [restores |-> resources[a[1]].restores,
                        temps |-> Append(resources[a[1]].temps, thread[a].step.path)])
      BY <1>5, KeepEffect
    <3>2. resources'[a[1]].restores = resources[a[1]].restores
      BY <3>1 DEF OnlyOf
    <3>3. \A c \in C!Contexts : c # a[1] => resources'[c] = resources[c]
      BY <3>1 DEF OnlyOf
    <3> QED  BY <3>2, <3>3
  <2> QED  BY <1>5, <2>1, KeepEffect, NotesKept DEF Only, C!At
<1>6. ASSUME C!Write(a) PROVE NotesInv'
  BY <1>6, WriteEffect, NotesKept
<1>7. ASSUME C!Finish(a) \/ C!MakeFails(a) PROVE NotesInv'
  BY <1>7, FinishEffect, NotesKept DEF Only, C!At
<1> QED  BY <1>1, <1>2, <1>3, <1>4, <1>5, <1>6, <1>7, NotesOfRegister, NotesOfSet DEF C!Step
(* A step of the runner of p that leaves the threads as they are: it is    *)
(* about the notes of p, and no thread of p is at work.                    *)
LEMMA NotesOfRunner ==
  ASSUME ContextTypes, PhaseInv, AwaitInv, NotesInv, NEW p \in Processes, UNCHANGED thread,
         \A a \in C!Threads : C!Process(a) = p => Still(a),
         \A q \in Processes : q # p =>
           tester'[q] = tester[q] /\ undo'[q] = undo[q] /\ env'[q] = env[q],
         \A c \in C!Contexts : c # C!Context(p) => resources'[c] = resources[c],
         \A v \in Variables :
           IF Noted(Notes(p)', v) THEN FirstIsOriginal(Notes(p)', v) ELSE env'[p][v] = Originally[v]
  PROVE  NotesInv'
<1>1. \A q \in Processes : q # p => Notes(q)' = Notes(q)
  <2> SUFFICES ASSUME NEW q \in Processes, q # p PROVE Notes(q)' = Notes(q)
    OBVIOUS
  <2>1. C!Context(q) # C!Context(p) /\ C!Context(q) \in C!Contexts
    BY NotesTyped DEF C!Context
  <2>2. C!Context(q)' = C!Context(q)
    BY DEF C!Context
  <2>3. resources'[C!Context(q)] = resources[C!Context(q)]
    BY <2>1
  <2> QED  BY <2>2, <2>3 DEF Notes
<1>2. \A q \in Processes, v \in Variables :
        IF Noted(Notes(q)', v) THEN FirstIsOriginal(Notes(q)', v) ELSE env'[q][v] = Originally[v]
  BY <1>1 DEF NotesInv
<1>3. \A b \in C!Threads : (C!At(b, "register") \/ C!At(b, "set"))' =>
        ~Still(b) /\ C!Process(b) # p /\ C!Process(b) \in Processes /\ b[1] \in C!Contexts /\ b[1] # C!Context(p)
  BY ThreadParts DEF C!At, Still, C!Context
<1>4. \A b \in C!Threads :
        C!At(b, "register")' /\ ~Noted(Notes(C!Process(b))', thread'[b].step.name)
          => thread'[b].step.previous = Originally[thread'[b].step.name]
  BY <1>1, <1>3 DEF NotesInv, C!At
<1>5. \A b \in C!Threads : C!At(b, "set")' => Noted(resources'[b[1]].restores, thread'[b].step.name)
  BY <1>3 DEF NotesInv, C!At
<1> QED  BY <1>2, <1>4, <1>5 DEF NotesInv

LEMMA RunnerAlone ==
  ASSUME ContextTypes, PhaseInv, AwaitInv, NEW p \in Processes,
         tester[p].at # "body" \/ C!At(<<C!Context(p), Body>>, "over")
  PROVE  \A a \in C!Threads : C!Process(a) = p => Still(a)
<1> SUFFICES ASSUME NEW a \in C!Threads, C!Process(a) = p, ~Still(a) PROVE FALSE
  OBVIOUS
<1>1. Running(a[1]) /\ ~C!At(<<a[1], Body>>, "over")
  BY ActiveRuns
<1>2. C!Context(p) = a[1] /\ tester[p].at = "body"
  BY <1>1, NotesOfActive
<1> QED  BY <1>1, <1>2

LEMMA RunnerSets ==
  ASSUME ContextTypes, NEW p \in Processes, NEW v \in Variables, NEW x, Sets(p, v, x)
  PROVE  /\ \A q \in Processes : q # p => env'[q] = env[q]
         /\ env'[p][v] = x /\ \A w \in Variables : w # v => env'[p][w] = env[p][w]
<1>1. /\ env'[p][v] = x /\ \A w \in Variables : w # v => env'[p][w] = env[p][w]
  BY DEF Sets
<1>2. ASSUME NEW q \in Processes, q # p PROVE env'[q] = env[q]
  <2>1. /\ env[q] \in [Variables -> Values \cup {C!Garbled, C!Unset}]
        /\ env'[q] \in [Variables -> Values \cup {C!Garbled, C!Unset}]
        /\ \A w \in Variables : env'[q][w] = env[q][w]
    BY <1>2 DEF Sets, ContextTypes
  <2> QED  BY <2>1
<1> QED  BY <1>1, <1>2

LEMMA NotesStep ==
  ASSUME C!Readable, ContextTypes, PhaseInv, AwaitInv, NotesInv, ContextTypes', PhaseInv',
         AwaitInv',
         C!Next \/ UNCHANGED C!vars
  PROVE  NotesInv'
<1>1. ASSUME NEW p \in Processes, C!Run(p) PROVE NotesInv'
  <2>0. \A v \in Variables :
          IF Noted(Notes(p), v) THEN FirstIsOriginal(Notes(p), v) ELSE env[p][v] = Originally[v]
    BY DEF NotesInv
  <2>1. CASE C!TearDown(p)
    <3>1. /\ tester[p].at = "body" /\ C!At(<<C!Context(p), Body>>, "over")
          /\ OnlyUndo(p, resources[C!Context(p)]) /\ OnlyOf(C!Context(p), C!Nothing)
          /\ Goes(p, tester[p].test, "undo") /\ UNCHANGED <<env, thread>>
      BY <2>1, TearDownEffect
    <3>2. Notes(p)' = Notes(p)
      BY <3>1 DEF Notes, Goes, OnlyUndo
    <3>3. \A q \in Processes : q # p => tester'[q] = tester[q] /\ undo'[q] = undo[q]
      BY <3>1 DEF Goes, OnlyUndo
    <3>4. \A c \in C!Contexts : c # C!Context(p) => resources'[c] = resources[c]
      BY <3>1 DEF OnlyOf
    <3>5. \A a \in C!Threads : C!Process(a) = p => Still(a)
      BY <3>1, RunnerAlone
    <3> QED  BY <2>0, <3>1, <3>2, <3>3, <3>4, <3>5, NotesOfRunner
  <2>2. CASE C!Restore(p)
    <3> DEFINE s == undo[p].restores
    <3>1. /\ tester[p].at = "undo" /\ s # <<>> /\ s \in NoteSeq
          /\ Sets(p, C!Last(s)[1], C!Last(s)[2])
          /\ OnlyUndo(p, [restores |-> C!ButLast(s), temps |-> undo[p].temps])
          /\ UNCHANGED <<resources, thread, tester>>
      BY <2>2, RestoreEffect DEF NoteSeq
    <3>2. Notes(p) = s /\ Notes(p)' = C!ButLast(s)
      BY <3>1 DEF Notes, OnlyUndo
    <3>3. \A a \in C!Threads : C!Process(a) = p => Still(a)
      BY <3>1, RunnerAlone
    <3>4. C!Last(s) \in Variables \X (Values \cup {C!Unset})
      BY <3>1, LastAndRest DEF NoteSeq
    <3> HIDE DEF s
    <3>5. C!Last(s)[1] \in Variables
      BY <3>4
    <3>6. \A q \in Processes : q # p => undo'[q] = undo[q]
      BY <3>1 DEF OnlyUndo
    <3>7. \A v \in Variables :
            IF Noted(C!ButLast(s), v) THEN FirstIsOriginal(C!ButLast(s), v) ELSE env'[p][v] = Originally[v]
      <4> SUFFICES ASSUME NEW v \in Variables
                   PROVE  IF Noted(C!ButLast(s), v) THEN FirstIsOriginal(C!ButLast(s), v) ELSE env'[p][v] = Originally[v]
        OBVIOUS
      <4>1. IF Noted(s, v) THEN FirstIsOriginal(s, v) ELSE env[p][v] = Originally[v]
        BY <2>0, <3>2
      <4>2. CASE Noted(C!ButLast(s), v)
        BY <3>1, <4>1, <4>2, ShortenedNotes
      <4>3. CASE ~Noted(C!ButLast(s), v)
        <5>1. CASE C!Last(s)[1] = v
          <6>1. Noted(s, v)
            <7>1. Len(s) \in DOMAIN s /\ C!Last(s) = s[Len(s)]
              BY <3>1, LastAndRest DEF NoteSeq
            <7> QED  BY <5>1, <7>1 DEF Noted
          <6>2. C!Last(s) = <<v, Originally[v]>>
            BY <3>1, <4>1, <4>3, <6>1, ShortenedNotes
          <6>3. C!Last(s)[1] = v /\ C!Last(s)[2] = Originally[v]
            BY <6>2
          <6> QED  BY <3>1, <3>5, <4>3, <6>3, RunnerSets
        <5>2. CASE C!Last(s)[1] # v
          <6>1. ~Noted(s, v)
            BY <3>1, <4>3, <5>2, ShortenedNotes
          <6> QED  BY <3>1, <3>5, <4>1, <4>3, <5>2, <6>1, RunnerSets
        <5> QED  BY <5>1, <5>2
      <4> QED  BY <4>2, <4>3
    <3>8. \A q \in Processes : q # p => env'[q] = env[q]
      BY <3>1, <3>5, RunnerSets
    <3> QED  BY <3>1, <3>2, <3>3, <3>6, <3>7, <3>8, NotesOfRunner
  <2>3. CASE C!Remove(p)
    <3>1. /\ tester[p].at = "undo" /\ UNCHANGED <<env, resources, thread, tester>>
          /\ OnlyUndo(p, [restores |-> undo[p].restores, temps |-> C!ButLast(undo[p].temps)])
      BY <2>3, RemoveEffect
    <3>2. Notes(p)' = Notes(p)
      BY <3>1 DEF Notes, OnlyUndo
    <3>3. \A a \in C!Threads : C!Process(a) = p => Still(a)
      BY <3>1, RunnerAlone
    <3>4. \A q \in Processes : q # p => undo'[q] = undo[q]
      BY <3>1 DEF OnlyUndo
    <3> QED  BY <2>0, <3>1, <3>2, <3>3, <3>4, NotesOfRunner
  <2>4. CASE C!Undone(p)
    <3>1. /\ tester[p].at = "undo" /\ undo[p] = C!Nothing /\ Goes(p, tester[p].test, "between")
          /\ UNCHANGED <<env, resources, thread, undo>>
      BY <2>4, UndoneEffect
    <3>2. /\ tester'[p].at = "between" /\ tester'[p].test = tester[p].test
          /\ \A q \in Processes : q # p => tester'[q] = tester[q]
      BY <3>1 DEF Goes
    <3>3. C!Context(p)' = C!Context(p) /\ C!Context(p) \in C!Contexts /\ C!Context(p)[1] = p /\ C!Context(p)[2] = tester[p].test
          /\ tester[p].test \in Nat
      BY <3>2, ContextParts DEF C!Context, ContextTypes
    <3>4. Ended(C!Context(p))
      BY <3>1, <3>3 DEF Ended, Running, Future
    <3>5. resources[C!Context(p)] = C!Nothing
      BY <3>3, <3>4 DEF AwaitInv
    <3>6. Notes(p)' = Notes(p)
      BY <3>1, <3>2, <3>3, <3>5 DEF Notes
    <3>7. \A a \in C!Threads : C!Process(a) = p => Still(a)
      BY <3>1, RunnerAlone
    <3> QED  BY <2>0, <3>1, <3>2, <3>6, <3>7, NotesOfRunner
  <2>5. CASE C!NextTest(p)
    <3>1. /\ tester[p].at = "between" /\ UNCHANGED <<env, disk, nextId, resources, undo>>
      BY <2>5, NextTestEffect
    <3>2. Notes(p) = <<>>
      <4>1. C!Context(p) \in C!Contexts /\ C!Context(p)[1] = p /\ C!Context(p)[2] = tester[p].test
            /\ tester[p].test \in Nat
        BY ContextParts DEF ContextTypes
      <4>2. Ended(C!Context(p))
        BY <3>1, <4>1 DEF Ended, Running, Future
      <4>3. resources[C!Context(p)] = C!Nothing
        BY <4>1, <4>2 DEF AwaitInv
      <4> QED  BY <3>1, <4>3 DEF Notes, C!Nothing
    <3>3. \A v \in Variables : env[p][v] = Originally[v]
      BY <2>0, <3>2 DEF Noted
    <3>4. /\ \A q \in Processes : q # p => tester'[q] = tester[q]
          /\ tester'[p].at \in {"over", "body"}
          /\ tester'[p].test \in {tester[p].test, tester[p].test + 1}
      BY <2>5, NextTestEffect DEF Goes
    <3>5. Notes(p)' = Notes(p)
      <4>1. CASE Goes(p, tester[p].test, "over")
        BY <3>1, <4>1 DEF Goes, Notes, C!Context
      <4>2. CASE Goes(p, tester[p].test + 1, "body")
        <5>1. tester'[p].test = tester[p].test + 1 /\ tester'[p].at = "body"
          BY <4>2 DEF Goes
        <5>2. C!Context(p)' \in C!Contexts /\ C!Context(p)'[1] = p /\ C!Context(p)'[2] = tester[p].test + 1
              /\ tester[p].test \in Nat
          <6>1. tester' \in [Processes -> RunnerState]
            BY <4>2 DEF Goes
          <6>2. tester'[p].test \in 1 .. TestsOfContext /\ tester[p].test \in Nat
            BY <6>1, ContextParts DEF RunnerState, ContextTypes
          <6> QED  BY <5>1, <6>2 DEF C!Context, C!Contexts
        <5>3. Future(C!Context(p)')
          BY <5>2 DEF Future
        <5>4. resources[C!Context(p)'] = C!Nothing
          BY <5>2, <5>3 DEF PhaseInv
        <5> QED  BY <3>1, <3>2, <5>1, <5>4 DEF Notes, C!Nothing
      <4> QED  BY <2>5, <4>1, <4>2, NextTestEffect
    <3>6. \A q \in Processes : q # p => Notes(q)' = Notes(q)
      BY <3>1, <3>4 DEF Notes, C!Context
    <3>7. \A q \in Processes : Notes(q)' = Notes(q)
      BY <3>5, <3>6
    <3>8. \A b \in C!Threads : thread'[b] = thread[b] \/ C!At(b, "idle")'
      BY <2>5, NextTestEffect DEF Only, C!At
    <3>9. \A q \in Processes, v \in Variables :
            IF Noted(Notes(q)', v) THEN FirstIsOriginal(Notes(q)', v) ELSE env'[q][v] = Originally[v]
      BY <3>1, <3>7 DEF NotesInv
    <3>10. \A b \in C!Threads :
             C!At(b, "register")' /\ ~Noted(Notes(C!Process(b))', thread'[b].step.name)
               => thread'[b].step.previous = Originally[thread'[b].step.name]
      <4> SUFFICES ASSUME NEW b \in C!Threads, C!At(b, "register")',
                          ~Noted(Notes(C!Process(b))', thread'[b].step.name)
                   PROVE  thread'[b].step.previous = Originally[thread'[b].step.name]
        OBVIOUS
      <4>1. thread'[b] = thread[b] /\ C!At(b, "register")
        BY <3>8 DEF C!At
      <4> QED  BY <3>7, <4>1, ThreadParts DEF NotesInv
    <3>11. \A b \in C!Threads : C!At(b, "set")' => Noted(resources'[b[1]].restores, thread'[b].step.name)
      BY <3>1, <3>8 DEF NotesInv, C!At
    <3> QED  BY <3>9, <3>10, <3>11 DEF NotesInv
  <2> QED  BY <1>1, <2>1, <2>2, <2>3, <2>4, <2>5 DEF C!Run
<1>2. ASSUME UNCHANGED C!vars PROVE NotesInv'
  BY <1>2 DEF C!vars, NotesInv, Notes, C!Context, C!At
<1> QED  BY <1>1, <1>2, NotesOfSteps DEF C!Next
----------------------------------------------------------------------------
(* The temporary resources                                                 *)

LEMMA OwnedPaths ==
  ASSUME ContextTypes, NEW a \in C!Threads
  PROVE  /\ Owned(thread[a]) \subseteq C!Paths
         /\ thread[a].paths \subseteq Owned(thread[a])
         /\ C!At(a, "make") \/ C!At(a, "keep") =>
              thread[a].step.path \in Owned(thread[a]) /\ Getting(thread[a]) = {thread[a].step.path}
         /\ ~C!At(a, "make") /\ ~C!At(a, "keep") => Getting(thread[a]) = {}
<1>1. thread[a].step \in C!ThreadStates /\ thread[a].paths \subseteq C!Paths
  BY ThreadFields DEF ContextTypes
<1>2. C!At(a, "make") \/ C!At(a, "keep") => thread[a].step.path \in C!Paths
  BY <1>1, StepFields DEF C!At
<1> QED  BY <1>1, <1>2 DEF Owned, Getting, C!At

(* Nobody gets a new resource.                                             *)
LEMMA OwnersKept ==
  ASSUME ContextTypes, OwnersInv, UNCHANGED nextId,
         \A b \in C!Threads : Owned(thread'[b]) \subseteq Owned(thread[b]),
         \A b \in C!Threads :
           Getting(thread'[b]) = {}
             \/ (Getting(thread'[b]) = Getting(thread[b]) /\ thread'[b].paths = thread[b].paths)
  PROVE  OwnersInv'
<1>1. \A a \in C!Threads : \A f \in Owned(thread'[a]) : f[2] < nextId'[C!Process(a)]
  BY DEF OwnersInv
<1>2. \A a, b \in C!Threads : a # b => Owned(thread'[a]) \cap Owned(thread'[b]) = {}
  BY DEF OwnersInv
<1>3. \A a \in C!Threads : Getting(thread'[a]) \cap thread'[a].paths = {}
  BY DEF OwnersInv
<1> QED  BY <1>1, <1>2, <1>3 DEF OwnersInv

(* No thread has come to get a resource.                                   *)
NothingGot ==
  \A b \in C!Threads :
    /\ thread'[b].paths = thread[b].paths
    /\ thread'[b].step.at \in {"make", "keep"} => thread'[b] = thread[b]

LEMMA OwnersIdle ==
  ASSUME ContextTypes, OwnersInv, UNCHANGED nextId, NothingGot
  PROVE  OwnersInv'
<1>1. ASSUME NEW b \in C!Threads PROVE Owned(thread'[b]) \subseteq Owned(thread[b])
  BY DEF NothingGot, Owned, Getting
<1>2. ASSUME NEW b \in C!Threads
      PROVE  Getting(thread'[b]) = {}
               \/ (Getting(thread'[b]) = Getting(thread[b]) /\ thread'[b].paths = thread[b].paths)
  BY DEF NothingGot, Getting
<1> QED  BY <1>1, <1>2, OwnersKept

LEMMA OwnersOfSteps ==
  ASSUME OneProcess, ContextTypes, OwnersInv, NEW a \in C!Threads, C!Step(a)
  PROVE  OwnersInv'
<1>1. ASSUME NEW k \in Tasks, C!Spawn(a, k) PROVE OwnersInv'
  <2>1. Only(<<a[1], k>>, "idle", thread[<<a[1], k>>].paths) /\ <<a[1], k>> \in C!Threads /\ UNCHANGED <<nextId>>
    BY <1>1, SpawnEffect
  <2>2. NothingGot
    BY <2>1 DEF Only, NothingGot
  <2> QED  BY <2>1, <2>2, OwnersIdle
<1>2. ASSUME NEW v \in Variables, NEW x \in Values, C!LookUp(a, v, x) PROVE OwnersInv'
  <2>1. Only(a, "register", thread[a].paths) /\ a \in C!Threads /\ UNCHANGED <<nextId>>
    BY <1>2, LookUpEffect
  <2>2. NothingGot
    BY <2>1 DEF Only, NothingGot
  <2> QED  BY <2>1, <2>2, OwnersIdle
<1>3. ASSUME C!Register(a) PROVE OwnersInv'
  <2>1. Only(a, "set", thread[a].paths) /\ a \in C!Threads /\ UNCHANGED <<nextId>>
    BY <1>3, RegisterEffect
  <2>2. NothingGot
    BY <2>1 DEF Only, NothingGot
  <2> QED  BY <2>1, <2>2, OwnersIdle
<1>4. ASSUME C!SetEnv(a) PROVE OwnersInv'
  <2>1. Only(a, "idle", thread[a].paths) /\ a \in C!Threads /\ UNCHANGED <<nextId>>
    BY <1>4, SetEnvEffect
  <2>2. NothingGot
    BY <2>1 DEF Only, NothingGot
  <2> QED  BY <2>1, <2>2, OwnersIdle
<1>5. ASSUME NEW kind \in Kinds, C!TakeId(a, kind) PROVE OwnersInv'
  <2> DEFINE p == C!Process(a)
             f == <<kind, nextId[p]>>
  <2>1. /\ C!At(a, "idle") /\ f \in C!Paths /\ p \in Processes /\ nextId[p] \in Nat
        /\ thread'[a].step.at = "make" /\ thread'[a].step.path = f /\ thread'[a].paths = thread[a].paths
        /\ \A b \in C!Threads : b # a => thread'[b] = thread[b]
        /\ nextId'[p] = nextId[p] + 1
    BY <1>5, TakeIdEffect, ThreadParts DEF Only, ContextTypes
  <2>2. Owned(thread'[a]) = thread[a].paths \cup {f} /\ Getting(thread'[a]) = {f}
    BY <2>1 DEF Owned, Getting
  <2>3. \A b \in C!Threads : C!Process(b) = p
    BY <2>1, ThreadParts DEF OneProcess
  <2>4. f[2] = nextId[p]
    OBVIOUS
  <2>5. \A b \in C!Threads : \A g \in Owned(thread[b]) : g[2] < nextId[p] /\ g[2] \in Nat
    BY <2>3, OwnedPaths DEF OwnersInv, C!Paths
  <2> HIDE DEF f, p
  <2>6. \A b \in C!Threads : f \notin Owned(thread[b])
    BY <2>1, <2>4, <2>5
  <2>7. \A b \in C!Threads : \A g \in Owned(thread'[b]) : g[2] < nextId'[p]
    <3> SUFFICES ASSUME NEW b \in C!Threads, NEW g \in Owned(thread'[b]) PROVE g[2] < nextId'[p]
      OBVIOUS
    <3>1. CASE b = a /\ g = f
      BY <2>1, <2>4, <3>1
    <3>2. CASE ~(b = a /\ g = f)
      <4>1. g \in Owned(thread[b])
        BY <2>1, <2>2, <3>2, OwnedPaths
      <4> QED  BY <2>1, <2>5, <4>1
    <3> QED  BY <3>1, <3>2
  <2>8. \A b, c \in C!Threads : b # c => Owned(thread'[b]) \cap Owned(thread'[c]) = {}
    <3> SUFFICES ASSUME NEW b \in C!Threads, NEW c \in C!Threads, b # c, NEW g \in Owned(thread'[b]),
                        g \in Owned(thread'[c])
                 PROVE  FALSE
      OBVIOUS
    <3>1. g # f
      BY <2>1, <2>6
    <3>2. g \in Owned(thread[b]) /\ g \in Owned(thread[c])
      BY <2>1, <2>2, <3>1, OwnedPaths
    <3> QED  BY <3>2 DEF OwnersInv
  <2>9. \A b \in C!Threads : Getting(thread'[b]) \cap thread'[b].paths = {}
    BY <2>1, <2>2, <2>6, OwnedPaths DEF OwnersInv
  <2> QED  BY <2>3, <2>7, <2>8, <2>9 DEF OwnersInv
<1>6. ASSUME C!Make(a) PROVE OwnersInv'
  <2>1. /\ C!At(a, "make") /\ UNCHANGED nextId /\ thread'[a].step.at = "keep"
        /\ thread'[a].step.path = thread[a].step.path /\ thread'[a].paths = thread[a].paths
        /\ \A b \in C!Threads : b # a => thread'[b] = thread[b]
    BY <1>6, MakeEffect DEF Only
  <2>2. Getting(thread'[a]) = Getting(thread[a]) /\ Owned(thread'[a]) = Owned(thread[a])
    BY <2>1 DEF Getting, Owned, C!At
  <2> QED  BY <2>1, <2>2, OwnersKept
<1>7. ASSUME C!Keep(a) PROVE OwnersInv'
  <2>1. /\ C!At(a, "keep") /\ UNCHANGED nextId /\ thread'[a].step.at = "idle"
        /\ thread'[a].paths = thread[a].paths \cup {thread[a].step.path}
        /\ \A b \in C!Threads : b # a => thread'[b] = thread[b]
    BY <1>7, KeepEffect DEF Only
  <2>2. Getting(thread'[a]) = {} /\ Owned(thread'[a]) = Owned(thread[a])
    BY <2>1 DEF Getting, Owned, C!At
  <2> QED  BY <2>1, <2>2, OwnersKept
<1>8. ASSUME C!Write(a) PROVE OwnersInv'
  BY <1>8, WriteEffect DEF OwnersInv
<1>9. ASSUME C!Finish(a) \/ C!MakeFails(a) PROVE OwnersInv'
  <2>1. Only(a, "over", thread[a].paths) /\ a \in C!Threads /\ UNCHANGED <<nextId>>
    BY <1>9, FinishEffect
  <2>2. NothingGot
    BY <2>1 DEF Only, NothingGot
  <2> QED  BY <2>1, <2>2, OwnersIdle
<1> QED  BY <1>1, <1>2, <1>3, <1>4, <1>5, <1>6, <1>7, <1>8, <1>9 DEF C!Step

LEMMA OwnersStep ==
  ASSUME OneProcess, ContextTypes, OwnersInv, C!Next \/ UNCHANGED C!vars
  PROVE  OwnersInv'
<1>1. ASSUME NEW p \in Processes, C!Run(p) PROVE OwnersInv'
  <2>1. CASE C!TearDown(p)
    BY <2>1, TearDownEffect DEF OwnersInv
  <2>2. CASE C!Restore(p)
    BY <2>2, RestoreEffect DEF OwnersInv
  <2>3. CASE C!Remove(p)
    BY <2>3, RemoveEffect DEF OwnersInv
  <2>4. CASE C!Undone(p)
    BY <2>4, UndoneEffect DEF OwnersInv
  <2>5. CASE C!NextTest(p)
    <3>1. UNCHANGED nextId
      BY <2>5, NextTestEffect
    <3>2. CASE UNCHANGED thread
      BY <3>1, <3>2 DEF OwnersInv
    <3>3. CASE \E a \in C!Threads : Only(a, "idle", thread[a].paths)
      <4>1. NothingGot
        BY <3>3 DEF Only, NothingGot
      <4> QED  BY <3>1, <4>1, OwnersIdle
    <3> QED  BY <2>5, <3>2, <3>3, NextTestEffect
  <2> QED  BY <1>1, <2>1, <2>2, <2>3, <2>4, <2>5 DEF C!Run
<1>2. ASSUME UNCHANGED C!vars PROVE OwnersInv'
  BY <1>2 DEF C!vars, OwnersInv
<1> QED  BY <1>1, <1>2, OwnersOfSteps DEF C!Next

(* Nothing is made, written or removed, and no test begins that has things. *)
LEMMA DiskKept ==
  ASSUME ContextTypes, DiskInv, UNCHANGED <<disk, nextId>>,
         \A b \in C!Threads : thread'[b].paths = thread[b].paths,
         \A b \in C!Threads : C!At(b, "make")' \/ C!At(b, "keep")' => thread'[b].step = thread[b].step,
         \A b \in C!Threads : Running(b[1])' =>
           Running(b[1]) \/ (thread'[b].paths = {} /\ ~C!At(b, "keep")')
  PROVE  DiskInv'
<1>1. \A f \in DOMAIN disk' : \A p \in Processes : f[2] < nextId'[p]
  BY DEF DiskInv
<1>2. \A b \in C!Threads : C!At(b, "make")' => thread'[b].step.path \notin DOMAIN disk'
  BY DEF DiskInv, C!At
<1>3. \A b \in C!Threads : Running(b[1])' =>
       /\ \A f \in thread'[b].paths : f \in DOMAIN disk' /\ disk'[f] \subseteq {b}
       /\ C!At(b, "keep")' => thread'[b].step.path \in DOMAIN disk' /\ disk'[thread'[b].step.path] = {}
  BY DEF DiskInv, C!At
<1> QED  BY <1>1, <1>2, <1>3 DEF DiskInv

LEMMA DiskIdle ==
  ASSUME ContextTypes, DiskInv, UNCHANGED <<disk, nextId, tester>>, NothingGot
  PROVE  DiskInv'
<1>1. \A b \in C!Threads : thread'[b].paths = thread[b].paths
  BY DEF NothingGot
<1>2. \A b \in C!Threads : C!At(b, "make")' \/ C!At(b, "keep")' => thread'[b].step = thread[b].step
  BY DEF NothingGot, C!At
<1>3. \A b \in C!Threads : Running(b[1])' => Running(b[1])
  BY DEF Running
<1> QED  BY <1>1, <1>2, <1>3, DiskKept

LEMMA DiskOfMake ==
  ASSUME ContextTypes, OwnersInv, DiskInv, NEW a \in C!Threads, C!Make(a), OneProcess
  PROVE  DiskInv'
<1> DEFINE f == thread[a].step.path
<1>1. /\ C!At(a, "make") /\ f \in C!Paths /\ Makes(f) /\ UNCHANGED <<nextId, tester>>
      /\ thread'[a].step.at = "keep" /\ thread'[a].step.path = f /\ thread'[a].paths = thread[a].paths
      /\ \A b \in C!Threads : b # a => thread'[b] = thread[b]
  BY MakeEffect DEF Only
<1>2. f \notin DOMAIN disk /\ f \in Owned(thread[a]) /\ f \notin thread[a].paths
  BY <1>1, OwnedPaths DEF DiskInv, OwnersInv
<1>3. \A b \in C!Threads : b # a => f \notin Owned(thread[b])
  BY <1>2 DEF OwnersInv
<1>4. f[2] < nextId[C!Process(a)]
  BY <1>2 DEF OwnersInv
<1> HIDE DEF f
<1>5. /\ DOMAIN disk' = DOMAIN disk \cup {f} /\ disk'[f] = {}
      /\ \A g \in DOMAIN disk : disk'[g] = disk[g]
  BY <1>1, <1>2 DEF Makes
<1>6. \A g \in DOMAIN disk' : \A p \in Processes : g[2] < nextId'[p]
  BY <1>1, <1>4, <1>5, ThreadParts DEF DiskInv, OneProcess
<1>7. \A b \in C!Threads : C!At(b, "make")' => thread'[b].step.path \notin DOMAIN disk'
  <2> SUFFICES ASSUME NEW b \in C!Threads, C!At(b, "make")' PROVE thread'[b].step.path \notin DOMAIN disk'
    OBVIOUS
  <2>1. b # a /\ thread'[b] = thread[b] /\ C!At(b, "make")
    BY <1>1 DEF C!At
  <2>2. thread[b].step.path \in Owned(thread[b])
    BY <2>1, OwnedPaths
  <2> QED  BY <1>3, <1>5, <2>1, <2>2 DEF DiskInv
<1>8. \A b \in C!Threads : Running(b[1])' =>
       /\ \A g \in thread'[b].paths : g \in DOMAIN disk' /\ disk'[g] \subseteq {b}
       /\ C!At(b, "keep")' => thread'[b].step.path \in DOMAIN disk' /\ disk'[thread'[b].step.path] = {}
  <2> SUFFICES ASSUME NEW b \in C!Threads, Running(b[1])'
               PROVE  /\ \A g \in thread'[b].paths : g \in DOMAIN disk' /\ disk'[g] \subseteq {b}
                      /\ C!At(b, "keep")' => thread'[b].step.path \in DOMAIN disk'
                                             /\ disk'[thread'[b].step.path] = {}
    OBVIOUS
  <2>1. Running(b[1]) /\ thread'[b].paths = thread[b].paths
    BY <1>1 DEF Running
  <2>2. \A g \in thread'[b].paths : g \in DOMAIN disk' /\ disk'[g] \subseteq {b}
    BY <1>5, <2>1 DEF DiskInv
  <2>3. C!At(b, "keep")' => thread'[b].step.path \in DOMAIN disk' /\ disk'[thread'[b].step.path] = {}
    <3>1. CASE b = a
      BY <1>1, <1>5, <3>1
    <3>2. CASE b # a
      BY <1>1, <1>5, <2>1, <3>2 DEF DiskInv, C!At
    <3> QED  BY <3>1, <3>2
  <2> QED  BY <2>2, <2>3
<1> QED  BY <1>6, <1>7, <1>8 DEF DiskInv

LEMMA DiskOfSteps ==
  ASSUME OneProcess, ContextTypes, OwnersInv, DiskInv, NEW a \in C!Threads, C!Step(a),
         tester[C!Process(a)].at # "over"
  PROVE  DiskInv'
<1>1. ASSUME NEW k \in Tasks, C!Spawn(a, k) PROVE DiskInv'
  <2>1. Only(<<a[1], k>>, "idle", thread[<<a[1], k>>].paths) /\ <<a[1], k>> \in C!Threads /\ UNCHANGED <<disk, nextId, tester>>
    BY <1>1, SpawnEffect
  <2>2. NothingGot
    BY <2>1 DEF Only, NothingGot
  <2> QED  BY <2>1, <2>2, DiskIdle
<1>2. ASSUME NEW v \in Variables, NEW x \in Values, C!LookUp(a, v, x) PROVE DiskInv'
  <2>1. Only(a, "register", thread[a].paths) /\ a \in C!Threads /\ UNCHANGED <<disk, nextId, tester>>
    BY <1>2, LookUpEffect
  <2>2. NothingGot
    BY <2>1 DEF Only, NothingGot
  <2> QED  BY <2>1, <2>2, DiskIdle
<1>3. ASSUME C!Register(a) PROVE DiskInv'
  <2>1. Only(a, "set", thread[a].paths) /\ a \in C!Threads /\ UNCHANGED <<disk, nextId, tester>>
    BY <1>3, RegisterEffect
  <2>2. NothingGot
    BY <2>1 DEF Only, NothingGot
  <2> QED  BY <2>1, <2>2, DiskIdle
<1>4. ASSUME C!SetEnv(a) PROVE DiskInv'
  <2>1. Only(a, "idle", thread[a].paths) /\ a \in C!Threads /\ UNCHANGED <<disk, nextId, tester>>
    BY <1>4, SetEnvEffect
  <2>2. NothingGot
    BY <2>1 DEF Only, NothingGot
  <2> QED  BY <2>1, <2>2, DiskIdle
<1>5. ASSUME NEW kind \in Kinds, C!TakeId(a, kind) PROVE DiskInv'
  <2> DEFINE p == C!Process(a)
             f == <<kind, nextId[p]>>
  <2>1. /\ C!At(a, "idle") /\ f \in C!Paths /\ p \in Processes /\ nextId[p] \in Nat /\ f[2] = nextId[p]
        /\ thread'[a].step.at = "make" /\ thread'[a].step.path = f /\ thread'[a].paths = thread[a].paths
        /\ \A b \in C!Threads : b # a => thread'[b] = thread[b]
        /\ nextId'[p] = nextId[p] + 1 /\ UNCHANGED <<disk, tester>>
    BY <1>5, TakeIdEffect, ThreadParts DEF Only, ContextTypes
  <2> HIDE DEF f, p
  <2>2. \A g \in DOMAIN disk : g[2] \in Nat /\ g[2] < nextId[p]
    BY <2>1 DEF DiskInv, ContextTypes, C!Paths
  <2>3. f \notin DOMAIN disk
    BY <2>1, <2>2
  <2>4. \A g \in DOMAIN disk' : \A q \in Processes : g[2] < nextId'[q]
    BY <2>1, <2>2 DEF OneProcess
  <2>5. \A b \in C!Threads : C!At(b, "make")' => thread'[b].step.path \notin DOMAIN disk'
    BY <2>1, <2>3 DEF DiskInv, C!At
  <2>6. \A b \in C!Threads : Running(b[1])' =>
       /\ \A g \in thread'[b].paths : g \in DOMAIN disk' /\ disk'[g] \subseteq {b}
       /\ C!At(b, "keep")' => thread'[b].step.path \in DOMAIN disk' /\ disk'[thread'[b].step.path] = {}
    BY <2>1 DEF DiskInv, C!At, Running
  <2> QED  BY <2>4, <2>5, <2>6 DEF DiskInv
<1>6. ASSUME C!Keep(a) PROVE DiskInv'
  <2> DEFINE f == thread[a].step.path
  <2>1. /\ C!At(a, "keep") /\ UNCHANGED <<disk, nextId, tester>> /\ thread'[a].step.at = "idle"
        /\ thread'[a].paths = thread[a].paths \cup {f}
        /\ \A b \in C!Threads : b # a => thread'[b] = thread[b]
    BY <1>6, KeepEffect DEF Only
  <2>2. Running(a[1]) => f \in DOMAIN disk /\ disk[f] = {}
    BY <2>1 DEF DiskInv
  <2> HIDE DEF f
  <2>3. \A b \in C!Threads : C!At(b, "make")' => thread'[b].step.path \notin DOMAIN disk'
    BY <2>1 DEF DiskInv, C!At
  <2>4. \A b \in C!Threads : Running(b[1])' =>
       /\ \A g \in thread'[b].paths : g \in DOMAIN disk' /\ disk'[g] \subseteq {b}
       /\ C!At(b, "keep")' => thread'[b].step.path \in DOMAIN disk' /\ disk'[thread'[b].step.path] = {}
    BY <2>1, <2>2 DEF DiskInv, C!At, Running
  <2> QED  BY <2>1, <2>3, <2>4 DEF DiskInv
<1>7. ASSUME C!Write(a) PROVE DiskInv'
  <2>1. PICK f \in thread[a].paths \cap DOMAIN disk :
          /\ DOMAIN disk' = DOMAIN disk /\ disk'[f] = disk[f] \cup {a}
          /\ \A g \in DOMAIN disk : g # f => disk'[g] = disk[g]
    BY <1>7, WriteEffect
  <2>2. UNCHANGED <<nextId, thread, tester>>
    BY <1>7, WriteEffect
  <2>3. \A b \in C!Threads : b # a => f \notin Owned(thread[b])
    BY OwnedPaths DEF OwnersInv
  <2>4. f \notin Getting(thread[a])
    BY DEF OwnersInv
  <2>5. \A b \in C!Threads : Running(b[1])' =>
       /\ \A g \in thread'[b].paths : g \in DOMAIN disk' /\ disk'[g] \subseteq {b}
       /\ C!At(b, "keep")' => thread'[b].step.path \in DOMAIN disk' /\ disk'[thread'[b].step.path] = {}
    <3> SUFFICES ASSUME NEW b \in C!Threads, Running(b[1])
                 PROVE  /\ \A g \in thread[b].paths : g \in DOMAIN disk' /\ disk'[g] \subseteq {b}
                        /\ C!At(b, "keep") => thread[b].step.path \in DOMAIN disk'
                                              /\ disk'[thread[b].step.path] = {}
      BY <2>2 DEF Running, C!At
    <3>1. C!At(b, "keep") => thread[b].step.path # f
      BY <2>3, <2>4, OwnedPaths
    <3>2. b # a => f \notin thread[b].paths
      BY <2>3, OwnedPaths
    <3>3. /\ \A g \in thread[b].paths : g \in DOMAIN disk /\ disk[g] \subseteq {b}
          /\ C!At(b, "keep") => thread[b].step.path \in DOMAIN disk /\ disk[thread[b].step.path] = {}
      BY DEF DiskInv
    <3>4. \A g \in thread[b].paths : g \in DOMAIN disk' /\ disk'[g] \subseteq {b}
      <4> SUFFICES ASSUME NEW g \in thread[b].paths PROVE g \in DOMAIN disk' /\ disk'[g] \subseteq {b}
        OBVIOUS
      <4>1. CASE g = f
        BY <2>1, <3>2, <3>3, <4>1
      <4>2. CASE g # f
        BY <2>1, <3>3, <4>2
      <4> QED  BY <4>1, <4>2
    <3> QED  BY <2>1, <3>1, <3>3, <3>4
  <2>6. \A b \in C!Threads : C!At(b, "make")' => thread'[b].step.path \notin DOMAIN disk'
    BY <2>1, <2>2 DEF DiskInv, C!At
  <2> QED  BY <2>1, <2>2, <2>5, <2>6 DEF DiskInv
<1>8. ASSUME C!Finish(a) \/ C!MakeFails(a) PROVE DiskInv'
  <2>1. Only(a, "over", thread[a].paths) /\ a \in C!Threads /\ UNCHANGED <<disk, nextId, tester>>
    BY <1>8, FinishEffect
  <2>2. NothingGot
    BY <2>1 DEF Only, NothingGot
  <2> QED  BY <2>1, <2>2, DiskIdle
<1> QED  BY <1>1, <1>2, <1>3, <1>4, <1>5, <1>6, <1>7, <1>8, DiskOfMake DEF C!Step

(* With one process: while its runner is elsewhere, no test runs.          *)
LEMMA NoneRuns ==
  ASSUME OneProcess, NEW p \in Processes, tester[p].at # "body"
  PROVE  \A b \in C!Threads : ~Running(b[1])
  BY ThreadParts DEF OneProcess, Running

LEMMA DiskStep ==
  ASSUME OneProcess, ContextTypes, PhaseInv, OwnersInv, DiskInv, C!Next \/ UNCHANGED C!vars
  PROVE  DiskInv'
<1>1. ASSUME NEW p \in Processes, C!Run(p) PROVE DiskInv'
  <2>1. CASE C!TearDown(p)
    <3>1. UNCHANGED <<disk, nextId, thread>> /\ tester'[p].at = "undo"
      BY <2>1, TearDownEffect DEF Goes
    <3>2. \A b \in C!Threads : ~Running(b[1])'
      BY <3>1, ThreadParts DEF OneProcess, Running
    <3> QED  BY <3>1, <3>2, DiskKept
  <2>2. CASE C!Restore(p)
    BY <2>2, RestoreEffect DEF DiskInv, C!At, Running
  <2>3. CASE C!Remove(p)
    <3>1. /\ tester[p].at = "undo" /\ UNCHANGED <<nextId, thread, tester>>
          /\ DOMAIN disk' \subseteq DOMAIN disk
      BY <2>3, RemoveEffect
    <3>2. \A b \in C!Threads : ~Running(b[1])'
      BY <3>1, NoneRuns DEF Running
    <3> QED  BY <3>1, <3>2 DEF DiskInv, C!At
  <2>4. CASE C!Undone(p)
    <3>1. UNCHANGED <<disk, nextId, thread>> /\ tester'[p].at = "between"
      BY <2>4, UndoneEffect DEF Goes
    <3>2. \A b \in C!Threads : ~Running(b[1])'
      BY <3>1, ThreadParts DEF OneProcess, Running
    <3> QED  BY <3>1, <3>2, DiskKept
  <2>5. CASE C!NextTest(p)
    <3>1. tester[p].at = "between" /\ UNCHANGED <<disk, nextId>>
      BY <2>5, NextTestEffect
    <3>2. \A b \in C!Threads : thread'[b].paths = thread[b].paths
           /\ (thread'[b].step = thread[b].step \/ thread'[b].step.at = "idle")
      BY <2>5, NextTestEffect DEF Only
    <3>3. \A b \in C!Threads : Running(b[1])' => Future(b[1])
      <4> SUFFICES ASSUME NEW b \in C!Threads, Running(b[1])' PROVE Future(b[1])
        OBVIOUS
      <4>1. b[1][1] = p /\ tester[p].test \in Nat
        BY ThreadParts, ContextParts DEF OneProcess, ContextTypes
      <4>2. tester'[p].at = "body" /\ tester'[p].test = b[1][2]
        BY <4>1 DEF Running
      <4>3. tester'[p].test = tester[p].test + 1
        BY <2>5, <4>2, NextTestEffect DEF Goes
      <4> QED  BY <4>1, <4>2, <4>3 DEF Future
    <3>4. \A b \in C!Threads : Running(b[1])' => thread'[b].paths = {} /\ ~C!At(b, "keep")'
      BY <3>2, <3>3 DEF PhaseInv, C!At
    <3>5. \A b \in C!Threads : C!At(b, "make")' \/ C!At(b, "keep")' => thread'[b].step = thread[b].step
      BY <3>2 DEF C!At
    <3> QED  BY <3>1, <3>2, <3>4, <3>5, DiskKept
  <2> QED  BY <1>1, <2>1, <2>2, <2>3, <2>4, <2>5 DEF C!Run
<1>2. ASSUME UNCHANGED C!vars PROVE DiskInv'
  BY <1>2 DEF C!vars, DiskInv, C!At, Running
<1> QED  BY <1>1, <1>2, DiskOfSteps DEF C!Next
(* Nothing is given out, listed or unlisted, and what came to be on disk   *)
(* is nobody's yet.                                                        *)
LEMMA RemovedKept ==
  ASSUME ContextTypes, RemovedInv, UNCHANGED tester,
         \A b \in C!Threads : thread'[b].paths = thread[b].paths,
         \A c \in C!Contexts : resources'[c].temps = resources[c].temps,
         \A p \in Processes : undo'[p].temps = undo[p].temps,
         \A b \in C!Threads : \A f \in thread[b].paths : f \in DOMAIN disk' => f \in DOMAIN disk
  PROVE  RemovedInv'
<1> SUFFICES ASSUME NEW a \in C!Threads, NEW f \in thread[a].paths
             PROVE  /\ Running(a[1])' => Listed(resources'[a[1]].temps, f)
                    /\ Undoing(a[1])' /\ f \in DOMAIN disk' => Listed(undo'[C!Process(a)].temps, f)
                    /\ Ended(a[1])' /\ ~Undoing(a[1])' => f \notin DOMAIN disk'
  BY DEF RemovedInv
<1>1. /\ Running(a[1])' <=> Running(a[1])
      /\ Undoing(a[1])' <=> Undoing(a[1])
      /\ Ended(a[1])' <=> Ended(a[1])
  BY DEF Running, Undoing, Ended, Future
<1>2. a[1] \in C!Contexts /\ C!Process(a) \in Processes
  BY ThreadParts
<1> QED  BY <1>1, <1>2 DEF RemovedInv

LEMMA AppendedPath ==
  ASSUME NEW s \in Seq(C!Paths), NEW f \in C!Paths
  PROVE  Listed(Append(s, f), f) /\ \A g : Listed(s, g) => Listed(Append(s, f), g)
<1>1. /\ DOMAIN s = 1 .. Len(s) /\ Len(s) \in Nat /\ DOMAIN Append(s, f) = 1 .. Len(s) + 1
      /\ Append(s, f)[Len(s) + 1] = f /\ \A i \in 1 .. Len(s) : Append(s, f)[i] = s[i]
  OBVIOUS
<1>2. Len(s) + 1 \in DOMAIN Append(s, f)
  BY <1>1
<1> QED  BY <1>1, <1>2 DEF Listed

LEMMA RemovedOfKeep ==
  ASSUME ContextTypes, RemovedInv, NEW a \in C!Threads, C!Keep(a), Running(a[1])
  PROVE  RemovedInv'
<1> DEFINE f == thread[a].step.path
<1>1. /\ f \in C!Paths /\ UNCHANGED <<disk, tester, undo>>
      /\ OnlyOf(a[1], [restores |-> resources[a[1]].restores, temps |-> Append(resources[a[1]].temps, f)])
      /\ thread'[a].paths = thread[a].paths \cup {f}
      /\ \A b \in C!Threads : b # a => thread'[b] = thread[b]
  BY KeepEffect DEF Only
<1>2. a[1] \in C!Contexts /\ resources[a[1]].temps \in Seq(C!Paths)
  BY ThreadParts DEF ContextTypes, C!Resources
<1> HIDE DEF f
<1>3. /\ resources'[a[1]].temps = Append(resources[a[1]].temps, f)
      /\ \A c \in C!Contexts : c # a[1] => resources'[c] = resources[c]
  BY <1>1 DEF OnlyOf
<1> SUFFICES ASSUME NEW b \in C!Threads, NEW g \in thread'[b].paths
             PROVE  /\ Running(b[1])' => Listed(resources'[b[1]].temps, g)
                    /\ Undoing(b[1])' /\ g \in DOMAIN disk' => Listed(undo'[C!Process(b)].temps, g)
                    /\ Ended(b[1])' /\ ~Undoing(b[1])' => g \notin DOMAIN disk'
  BY DEF RemovedInv
<1>4. /\ Running(b[1])' <=> Running(b[1])
      /\ Undoing(b[1])' <=> Undoing(b[1])
      /\ Ended(b[1])' <=> Ended(b[1])
  BY <1>1 DEF Running, Undoing, Ended, Future
<1>5. Running(b[1]) => ~Undoing(b[1]) /\ ~Ended(b[1])
  BY DEF Running, Undoing, Ended
<1>6. CASE b = a
  <2>1. g = f \/ Listed(resources[a[1]].temps, g)
    BY <1>1, <1>6 DEF RemovedInv
  <2>2. f \in C!Paths /\ thread'[a].paths = thread[a].paths \cup {f}
    BY <1>1
  <2>3. Listed(Append(resources[a[1]].temps, f), g)
    BY <1>2, <2>1, <2>2, AppendedPath
  <2>4. Listed(resources'[b[1]].temps, g)
    BY <1>3, <1>6, <2>3
  <2> QED  BY <1>4, <1>5, <1>6, <2>4
<1>7. CASE b # a
  <2>1. g \in thread[b].paths /\ b[1] \in C!Contexts
    BY <1>1, <1>7, ThreadParts
  <2>2. Listed(resources[b[1]].temps, g) => Listed(resources'[b[1]].temps, g)
    BY <1>1, <1>2, <1>3, <2>1, AppendedPath
  <2> QED  BY <1>1, <1>4, <2>1, <2>2 DEF RemovedInv
<1> QED  BY <1>6, <1>7

LEMMA RemovedOfSteps ==
  ASSUME ContextTypes, PhaseInv, AwaitInv, OwnersInv, RemovedInv, NEW a \in C!Threads, C!Step(a)
  PROVE  RemovedInv'
<1>1. ASSUME NEW k \in Tasks, C!Spawn(a, k) PROVE RemovedInv'
  <2>1. Only(<<a[1], k>>, "idle", thread[<<a[1], k>>].paths) /\ UNCHANGED <<disk, resources, tester, undo>>
    BY <1>1, SpawnEffect
  <2>2. \A b \in C!Threads : thread'[b].paths = thread[b].paths
    BY <2>1 DEF Only
  <2> QED  BY <2>1, <2>2, RemovedKept
<1>2. ASSUME NEW v \in Variables, NEW x \in Values, C!LookUp(a, v, x) PROVE RemovedInv'
  <2>1. Only(a, "register", thread[a].paths) /\ UNCHANGED <<disk, resources, tester, undo>>
    BY <1>2, LookUpEffect
  <2>2. \A b \in C!Threads : thread'[b].paths = thread[b].paths
    BY <2>1 DEF Only
  <2> QED  BY <2>1, <2>2, RemovedKept
<1>3. ASSUME C!Register(a) PROVE RemovedInv'
  <2>1. Only(a, "set", thread[a].paths) /\ UNCHANGED <<disk, tester, undo>>
        /\ OnlyOf(a[1], [restores |-> Append(resources[a[1]].restores,
                                             <<thread[a].step.name, thread[a].step.previous>>),
                         temps |-> resources[a[1]].temps])
    BY <1>3, RegisterEffect
  <2>2. \A b \in C!Threads : thread'[b].paths = thread[b].paths
    BY <2>1 DEF Only
  <2>3. resources'[a[1]].temps = resources[a[1]].temps
        /\ \A c \in C!Contexts : c # a[1] => resources'[c] = resources[c]
    BY <2>1 DEF OnlyOf
  <2> QED  BY <2>1, <2>2, <2>3, RemovedKept
<1>4. ASSUME C!SetEnv(a) PROVE RemovedInv'
  <2>1. Only(a, "idle", thread[a].paths) /\ UNCHANGED <<disk, resources, tester, undo>>
    BY <1>4, SetEnvEffect
  <2>2. \A b \in C!Threads : thread'[b].paths = thread[b].paths
    BY <2>1 DEF Only
  <2> QED  BY <2>1, <2>2, RemovedKept
<1>5. ASSUME NEW kind \in Kinds, C!TakeId(a, kind) PROVE RemovedInv'
  <2>1. Only(a, "make", thread[a].paths) /\ UNCHANGED <<disk, resources, tester, undo>>
    BY <1>5, TakeIdEffect
  <2>2. \A b \in C!Threads : thread'[b].paths = thread[b].paths
    BY <2>1 DEF Only
  <2> QED  BY <2>1, <2>2, RemovedKept
<1>6. ASSUME C!Make(a) PROVE RemovedInv'
  <2>1. /\ C!At(a, "make") /\ Only(a, "keep", thread[a].paths) /\ UNCHANGED <<resources, tester, undo>>
        /\ Makes(thread[a].step.path)
    BY <1>6, MakeEffect
  <2>2. \A b \in C!Threads : thread'[b].paths = thread[b].paths
    BY <2>1 DEF Only
  <2>3. thread[a].step.path \in Owned(thread[a]) /\ thread[a].step.path \notin thread[a].paths
    BY <2>1, OwnedPaths DEF OwnersInv
  <2>4. \A b \in C!Threads : thread[a].step.path \notin thread[b].paths
    BY <2>3, OwnedPaths DEF OwnersInv
  <2>5. \A b \in C!Threads : \A f \in thread[b].paths : f \in DOMAIN disk' => f \in DOMAIN disk
    BY <2>1, <2>4 DEF Makes
  <2> QED  BY <2>1, <2>2, <2>5, RemovedKept
<1>7. ASSUME C!Keep(a) PROVE RemovedInv'
  <2>1. Running(a[1])
    BY <1>7, KeepEffect, ActiveRuns DEF C!At, Still
  <2> QED  BY <1>7, <2>1, RemovedOfKeep
<1>8. ASSUME C!Write(a) PROVE RemovedInv'
  <2>1. DOMAIN disk' = DOMAIN disk /\ UNCHANGED <<resources, thread, tester, undo>>
    BY <1>8, WriteEffect
  <2> QED  BY <2>1, RemovedKept
<1>9. ASSUME C!Finish(a) \/ C!MakeFails(a) PROVE RemovedInv'
  <2>1. Only(a, "over", thread[a].paths) /\ UNCHANGED <<disk, resources, tester, undo>>
    BY <1>9, FinishEffect
  <2>2. \A b \in C!Threads : thread'[b].paths = thread[b].paths
    BY <2>1 DEF Only
  <2> QED  BY <2>1, <2>2, RemovedKept
<1> QED  BY <1>1, <1>2, <1>3, <1>4, <1>5, <1>6, <1>7, <1>8, <1>9 DEF C!Step

LEMMA RemovedStep ==
  ASSUME OneProcess, ContextTypes, PhaseInv, AwaitInv, OwnersInv, RemovedInv, C!Next \/ UNCHANGED C!vars
  PROVE  RemovedInv'
<1>1. ASSUME NEW p \in Processes, C!Run(p) PROVE RemovedInv'
  <2> DEFINE Sound(b, f) ==
               /\ Running(b[1])' => Listed(resources'[b[1]].temps, f)
               /\ Undoing(b[1])' /\ f \in DOMAIN disk' => Listed(undo'[C!Process(b)].temps, f)
               /\ Ended(b[1])' /\ ~Undoing(b[1])' => f \notin DOMAIN disk'
  <2>0. \A b \in C!Threads : C!Process(b) = p /\ b[1][1] = p /\ b[1][2] \in Nat /\ b[1] \in C!Contexts
    BY ThreadParts DEF OneProcess
  <2>t. tester[p].test \in Nat /\ C!Context(p) \in C!Contexts
    BY ContextParts DEF ContextTypes
  <2>1. CASE C!TearDown(p)
    <3>1. /\ tester[p].at = "body" /\ UNCHANGED <<disk, thread>>
          /\ OnlyUndo(p, resources[C!Context(p)]) /\ Goes(p, tester[p].test, "undo")
      BY <2>1, TearDownEffect
    <3>2. undo'[p] = resources[C!Context(p)] /\ tester'[p].test = tester[p].test /\ tester'[p].at = "undo"
      BY <3>1 DEF OnlyUndo, Goes
    <3>3. ASSUME NEW b \in C!Threads, NEW f \in thread[b].paths PROVE Sound(b, f)
      <4>1. ~Running(b[1])'
        BY <2>0, <3>2 DEF Running
      <4>2. ASSUME Undoing(b[1])' PROVE Listed(undo'[p].temps, f)
        <5>1. b[1][2] = tester[p].test
          BY <2>0, <3>2, <4>2 DEF Undoing
        <5>2. b[1] = C!Context(p) /\ Running(b[1])
          <6>1. b[1] = <<p, tester[p].test>>
            BY <2>0, <5>1, ThreadParts
          <6>2. tester[p] = [test |-> tester[p].test, at |-> tester[p].at]
            BY ContextParts DEF ContextTypes
          <6> QED  BY <2>0, <3>1, <5>1, <6>1, <6>2 DEF C!Context, Running
        <5> QED  BY <3>2, <5>2 DEF RemovedInv
      <4>3. ASSUME Ended(b[1])', ~Undoing(b[1])' PROVE f \notin DOMAIN disk'
        <5>1. tester'[p] = [test |-> tester[p].test, at |-> "undo"]
          <6>1. tester' \in [Processes -> RunnerState]
            BY <3>1 DEF Goes
          <6>2. tester'[p] = [test |-> tester'[p].test, at |-> tester'[p].at]
            BY <6>1 DEF RunnerState
          <6> QED  BY <3>2, <6>2
        <5>2. b[1][2] # tester[p].test /\ ~(b[1][2] > tester[p].test)
          BY <2>0, <4>3, <5>1 DEF Ended, Undoing, Future
        <5>3. ~Running(b[1]) /\ ~Undoing(b[1]) /\ Ended(b[1])
          BY <2>0, <5>2 DEF Running, Undoing, Ended, Future
        <5> QED  BY <3>1, <5>3 DEF RemovedInv
      <4> QED  BY <2>0, <4>1, <4>2, <4>3
    <3> QED  BY <3>1, <3>3 DEF RemovedInv
  <2>2. CASE C!Restore(p)
    <3>1. /\ UNCHANGED <<disk, resources, thread, tester>>
          /\ OnlyUndo(p, [restores |-> C!ButLast(undo[p].restores), temps |-> undo[p].temps])
      BY <2>2, RestoreEffect
    <3>2. \A q \in Processes : undo'[q].temps = undo[q].temps
      BY <3>1 DEF OnlyUndo
    <3> QED  BY <3>1, <3>2, RemovedKept
  <2>3. CASE C!Remove(p)
    <3> DEFINE s == undo[p].temps
    <3>1. /\ tester[p].at = "undo" /\ s # <<>> /\ s \in Seq(C!Paths)
          /\ DOMAIN disk' = DOMAIN disk \ {C!Last(s)}
          /\ OnlyUndo(p, [restores |-> undo[p].restores, temps |-> C!ButLast(s)])
          /\ UNCHANGED <<resources, thread, tester>>
      BY <2>3, RemoveEffect
    <3>2. undo'[p].temps = C!ButLast(s)
      BY <3>1 DEF OnlyUndo
    <3>3. /\ C!Last(s) = s[Len(s)] /\ Len(s) \in Nat /\ DOMAIN s = 1 .. Len(s)
          /\ DOMAIN C!ButLast(s) = 1 .. Len(s) - 1 /\ \A i \in 1 .. Len(s) - 1 : C!ButLast(s)[i] = s[i]
      BY <3>1, LastAndRest
    <3> HIDE DEF s
    <3>4. \A f : Listed(s, f) /\ f # C!Last(s) => Listed(C!ButLast(s), f)
      <4> SUFFICES ASSUME NEW f, Listed(s, f), f # C!Last(s) PROVE Listed(C!ButLast(s), f)
        OBVIOUS
      <4>1. PICK i \in DOMAIN s : s[i] = f
        BY DEF Listed
      <4>2. i # Len(s)
        BY <3>3, <4>1
      <4>3. i \in DOMAIN C!ButLast(s) /\ C!ButLast(s)[i] = f
        BY <3>3, <4>1, <4>2
      <4> QED  BY <4>3 DEF Listed
    <3>5. ASSUME NEW b \in C!Threads, NEW f \in thread[b].paths PROVE Sound(b, f)
      <4>1. /\ Running(b[1])' <=> Running(b[1])
            /\ Undoing(b[1])' <=> Undoing(b[1])
            /\ Ended(b[1])' <=> Ended(b[1])
        BY <3>1 DEF Running, Undoing, Ended, Future
      <4>2. /\ Running(b[1]) => Listed(resources[b[1]].temps, f)
            /\ Undoing(b[1]) /\ f \in DOMAIN disk => Listed(s, f)
            /\ Ended(b[1]) /\ ~Undoing(b[1]) => f \notin DOMAIN disk
        BY <2>0 DEF RemovedInv, s
      <4> QED  BY <2>0, <3>1, <3>2, <3>4, <4>1, <4>2
    <3> QED  BY <3>1, <3>5 DEF RemovedInv
  <2>4. CASE C!Undone(p)
    <3>1. /\ tester[p].at = "undo" /\ undo[p] = C!Nothing /\ Goes(p, tester[p].test, "between")
          /\ UNCHANGED <<disk, resources, thread, undo>>
      BY <2>4, UndoneEffect
    <3>2. tester'[p].test = tester[p].test /\ tester'[p].at = "between"
      BY <3>1 DEF Goes
    <3>3. ASSUME NEW b \in C!Threads, NEW f \in thread[b].paths PROVE Sound(b, f)
      <4>1. ~Running(b[1])' /\ ~Undoing(b[1])' /\ ~Running(b[1])
        BY <2>0, <3>1, <3>2 DEF Running, Undoing
      <4>2. Ended(b[1])' => Ended(b[1])
        BY <2>0, <3>2, <4>1 DEF Ended, Future
      <4>3. ~Listed(undo[p].temps, f)
        BY <3>1 DEF C!Nothing, Listed
      <4> QED  BY <2>0, <3>1, <4>1, <4>2, <4>3 DEF RemovedInv
    <3> QED  BY <3>1, <3>3 DEF RemovedInv
  <2>5. CASE C!NextTest(p)
    <3>1. tester[p].at = "between" /\ UNCHANGED <<disk, resources, undo>>
      BY <2>5, NextTestEffect
    <3>2. \A b \in C!Threads : thread'[b].paths = thread[b].paths
      BY <2>5, NextTestEffect DEF Only
    <3>3. \/ tester'[p].test = tester[p].test /\ tester'[p].at = "over"
          \/ tester'[p].test = tester[p].test + 1 /\ tester'[p].at = "body"
      BY <2>5, NextTestEffect DEF Goes
    <3>4. ASSUME NEW b \in C!Threads, NEW f \in thread[b].paths PROVE Sound(b, f)
      <4>1. ~Future(b[1])
        BY DEF PhaseInv
      <4>2. ~(b[1][2] > tester[p].test) /\ b[1][2] # tester[p].test + 1
        BY <2>0, <2>t, <4>1 DEF Future
      <4>3. ~Running(b[1])' /\ ~Undoing(b[1])'
        BY <2>0, <2>t, <3>3, <4>2 DEF Running, Undoing
      <4>4. Ended(b[1]) /\ ~Undoing(b[1])
        BY <2>0, <3>1, <4>1 DEF Ended, Running, Undoing
      <4> QED  BY <3>1, <4>3, <4>4 DEF RemovedInv
    <3> QED  BY <3>2, <3>4 DEF RemovedInv
  <2> QED  BY <1>1, <2>1, <2>2, <2>3, <2>4, <2>5 DEF C!Run
<1>2. ASSUME UNCHANGED C!vars PROVE RemovedInv'
  <2>1. UNCHANGED <<disk, resources, thread, tester, undo>>
    BY <1>2 DEF C!vars
  <2> QED  BY <2>1, RemovedKept
<1> QED  BY <1>1, <1>2, RemovedOfSteps DEF C!Next
----------------------------------------------------------------------------
(* What follows                                                            *)

LEMMA RestoredBetween ==
  ASSUME ContextTypes, AwaitInv, NotesInv
  PROVE  C!EnvRestored
<1> SUFFICES ASSUME NEW p \in Processes, tester[p].at = "between" PROVE env[p] = Originally
  BY DEF C!EnvRestored
<1>1. /\ C!Context(p) \in C!Contexts /\ C!Context(p)[1] = p /\ C!Context(p)[2] = tester[p].test
      /\ tester[p].test \in Nat
  BY ContextParts DEF ContextTypes
<1>2. Ended(C!Context(p))
  BY <1>1 DEF Ended, Running, Future
<1>3. resources[C!Context(p)] = C!Nothing
  BY <1>1, <1>2 DEF AwaitInv
<1>4. Notes(p) = <<>>
  BY <1>3 DEF Notes, C!Nothing
<1>5. \A v \in Variables : env[p][v] = Originally[v]
  BY <1>4 DEF NotesInv, Noted
<1>6. env[p] \in [Variables -> Values \cup {C!Garbled, C!Unset}]
  BY DEF ContextTypes
<1>7. Originally \in [Variables -> Values \cup {C!Garbled, C!Unset}]
  BY TestsAssumption DEF C!TestContextAssumption
<1> QED  BY <1>5, <1>6, <1>7

LEMMA OriginalFirst ==
  ASSUME ContextTypes, NotesInv
  PROVE  C!FirstNoteIsOriginal
<1>1. C!TypeOK
  <2>1. \A a \in C!Threads :
          thread[a].step \in C!ThreadStates /\ thread[a].calls \in 0 .. MaxCalls
            /\ thread[a].paths \subseteq C!Paths
    BY ThreadFields DEF ContextTypes
  <2> QED  BY <2>1 DEF ContextTypes, C!TypeOK, RunnerState
<1>2. ASSUME NEW p \in Processes, NEW v \in Variables
      PROVE  LET c == C!Context(p)
                 notes == IF tester[p].at = "undo" THEN undo[p].restores ELSE resources[c].restores
                 of == {i \in DOMAIN notes : notes[i][1] = v}
             IN IF of = {}
                  THEN /\ env[p][v] = Originally[v]
                       /\ \A a \in C!Threads :
                            (C!Process(a) = p /\ C!At(a, "register") /\ thread[a].step.name = v)
                              => thread[a].step.previous = Originally[v]
                  ELSE \E i \in of : notes[i][2] = Originally[v] /\ \A j \in of : i <= j
  <2> DEFINE notes == Notes(p)
             of == {i \in DOMAIN notes : notes[i][1] = v}
  <2>1. CASE of = {}
    <3>1. ~Noted(Notes(p), v)
      BY <2>1 DEF Noted
    <3>2. env[p][v] = Originally[v] /\ \A a \in C!Threads :
            (C!Process(a) = p /\ C!At(a, "register") /\ thread[a].step.name = v)
              => thread[a].step.previous = Originally[v]
      BY <3>1 DEF NotesInv
    <3> QED  BY <2>1, <3>2 DEF Notes
  <2>2. CASE of # {}
    <3>1. Noted(Notes(p), v)
      BY <2>2 DEF Noted
    <3>2. FirstIsOriginal(Notes(p), v)
      BY <3>1 DEF NotesInv
    <3>3. PICK i \in DOMAIN notes :
            notes[i] = <<v, Originally[v]>> /\ \A j \in DOMAIN notes : notes[j][1] = v => i <= j
      BY <3>2 DEF FirstIsOriginal
    <3>4. i \in of /\ notes[i][2] = Originally[v] /\ \A j \in of : i <= j
      BY <3>3
    <3> QED  BY <2>2, <3>4 DEF Notes
  <2> QED  BY <2>1, <2>2
<1> QED  BY <1>1, <1>2 DEF C!FirstNoteIsOriginal

LEMMA RemovedBetween ==
  ASSUME OneProcess, ContextTypes, PhaseInv, RemovedInv
  PROVE  C!TempsRemoved
<1> SUFFICES ASSUME NEW p \in Processes, tester[p].at = "between",
                    NEW a \in C!Threads, C!Process(a) = p, NEW f \in thread[a].paths
             PROVE  f \notin DOMAIN disk
  BY DEF C!TempsRemoved
<1>1. ~Future(a[1])
  BY DEF PhaseInv
<1>2. ~Running(a[1]) /\ ~Undoing(a[1])
  BY ThreadParts DEF Running, Undoing
<1> QED  BY <1>1, <1>2 DEF RemovedInv, Ended

LEMMA PrivateWhileRunning ==
  ASSUME DiskInv
  PROVE  C!TempsArePrivate
  BY ThreadParts DEF DiskInv, C!TempsArePrivate, Running

LEMMA ContextStarts ==
  ASSUME C!Init
  PROVE  ContextTypes /\ PhaseInv /\ AwaitInv /\ NotesInv /\ OwnersInv /\ DiskInv /\ RemovedInv
<1>1. /\ C!Nothing \in C!Resources
      /\ C!Nothing.restores = <<>>
  <2>1. <<>> \in Seq(Variables \X (Values \cup {C!Unset})) /\ <<>> \in Seq(C!Paths)
    OBVIOUS
  <2> QED  BY <2>1 DEF C!Nothing, C!Resources
<1>2. \A a \in C!Threads :
        /\ thread[a].paths = {} /\ thread[a].calls = 0
        /\ thread[a].step = IF a[1][2] = 1 /\ a[2] = Body THEN C!Idle
                                             ELSE [at |-> "unborn"]
  BY DEF C!Init
<1>3. \A a \in C!Threads : thread[a].step.at = IF a[1][2] = 1 /\ a[2] = Body THEN "idle" ELSE "unborn"
  BY <1>2 DEF C!Idle
<1>4. \A p \in Processes : tester[p] = [test |-> 1, at |-> "body"]
  BY DEF C!Init
<1>5. \A c \in C!Contexts : ~Ended(c) /\ resources[c] = C!Nothing /\ (Future(c) => c[2] # 1)
  <2> SUFFICES ASSUME NEW c \in C!Contexts
               PROVE  ~Ended(c) /\ resources[c] = C!Nothing /\ (Future(c) => c[2] # 1)
    OBVIOUS
  <2>1. c[1] \in Processes /\ c[2] \in 1 .. TestsOfContext /\ tester[c[1]] = [test |-> 1, at |-> "body"]
    BY <1>4 DEF C!Contexts
  <2>2. c[2] \in Nat /\ c[2] >= 1
    BY <2>1, TestsAssumption DEF C!TestContextAssumption
  <2>3. resources[c] = C!Nothing
    BY DEF C!Init
  <2>4. CASE c[2] = 1
    BY <2>1, <2>3, <2>4 DEF Ended, Future, Running
  <2>5. CASE c[2] # 1
    BY <2>1, <2>2, <2>3, <2>5 DEF Ended, Future, Running
  <2> QED  BY <2>4, <2>5
<1>6. DOMAIN disk = {}
  BY DEF C!Init
<1>7. ContextTypes
  <2>1. env \in [Processes -> [Variables -> Values \cup {C!Garbled, C!Unset}]]
    BY TestsAssumption DEF C!Init, C!TestContextAssumption
  <2>2. nextId \in [Processes -> Nat] /\ resources \in [C!Contexts -> C!Resources]
        /\ undo \in [Processes -> C!Resources]
    BY <1>1 DEF C!Init
  <2>3. tester \in [Processes -> RunnerState]
    <3>1. [test |-> 1, at |-> "body"] \in RunnerState
      BY TestsAssumption DEF RunnerState, C!TestContextAssumption
    <3> QED  BY <3>1 DEF C!Init
  <2>4. thread \in [C!Threads -> ThreadState]
    <3>1. C!Idle \in C!ThreadStates /\ [at |-> "unborn"] \in C!ThreadStates /\ 0 \in 0 .. MaxCalls
      BY TestsAssumption DEF C!ThreadStates, C!Idle, C!TestContextAssumption
    <3> DEFINE first(a) == [step |-> IF a[1][2] = 1 /\ a[2] = Body THEN C!Idle ELSE [at |-> "unborn"],
                            calls |-> 0, paths |-> {}]
    <3>2. \A a \in C!Threads : first(a) \in ThreadState
      BY <3>1 DEF ThreadState
    <3>3. thread = [a \in C!Threads |-> first(a)]
      BY DEF C!Init
    <3> QED  BY <3>2, <3>3
  <2> QED  BY <1>6, <2>1, <2>2, <2>3, <2>4 DEF ContextTypes
<1>8. PhaseInv
  <2>1. \A a \in C!Threads : Future(a[1]) => C!At(a, "unborn")
    BY <1>3, <1>5, ThreadParts DEF C!At
  <2>2. \A p \in Processes : undo[p] = C!Nothing
    BY DEF C!Init
  <2> QED  BY <1>2, <1>5, <2>1, <2>2 DEF PhaseInv
<1>9. AwaitInv
  <2>1. \A a \in C!Threads : <<a[1], Body>> \in C!Threads
    BY ThreadParts DEF C!Threads
  <2>2. \A a \in C!Threads : ~C!At(a, "over")
    BY <1>3 DEF C!At
  <2> QED  BY <1>5, <2>1, <2>2 DEF AwaitInv
<1>10. NotesInv
  <2>1. \A p \in Processes : Notes(p) = <<>>
    BY <1>1, <1>5, <1>7, NotesTyped, <1>4 DEF Notes
  <2>2. \A p \in Processes, v \in Variables : env[p][v] = Originally[v]
    BY DEF C!Init
  <2>3. \A a \in C!Threads : ~C!At(a, "register") /\ ~C!At(a, "set")
    BY <1>3 DEF C!At
  <2> QED  BY <2>1, <2>2, <2>3 DEF NotesInv, Noted
<1>11. OwnersInv /\ DiskInv /\ RemovedInv
  <2>1. \A a \in C!Threads : Getting(thread[a]) = {} /\ Owned(thread[a]) = {} /\ ~C!At(a, "make") /\ ~C!At(a, "keep")
    BY <1>2, <1>3 DEF Getting, Owned, C!At
  <2> QED  BY <1>2, <1>6, <2>1 DEF OwnersInv, DiskInv, RemovedInv
<1> QED  BY <1>7, <1>8, <1>9, <1>10, <1>11

----------------------------------------------------------------------------
(* The invariants of every behaviour                                       *)

ContextInv == part = "context" => ContextTypes /\ PhaseInv
AwaitedInv == part = "context" => AwaitInv /\ NotesInv
OwnInv == part = "context" => OwnersInv /\ DiskInv
GoneInv == part = "context" => RemovedInv

LEMMA ContextSteps ==
  ASSUME [TestsNext]_<<part, vars, contextVars>>, part' = "context"
  PROVE  part = "context" /\ (C!Next \/ UNCHANGED C!vars)
<1>1. part' = part
  BY DEF TestsNext, OnFixtures, OnContext
<1>2. C!Next \/ UNCHANGED contextVars
  BY <1>1 DEF TestsNext, OnFixtures, OnContext
<1> QED  BY <1>1, <1>2 DEF contextVars, C!vars

LEMMA ContextInitially ==
  ASSUME TestsInit
  PROVE  ContextInv /\ AwaitedInv /\ OwnInv /\ GoneInv
  BY ContextStarts DEF TestsInit, ContextInv, AwaitedInv, OwnInv, GoneInv

(* The types of the environment, the disk, the notes and the threads, and  *)
(* that tests which have not begun have no threads, for any processes.     *)
LEMMA ContextInvariant == TestsSpec => []ContextInv
<1>1. TestsInit => ContextInv
  BY ContextInitially
<1>2. ContextInv /\ [TestsNext]_<<part, vars, contextVars>> => ContextInv'
  BY ContextSteps, TypesStep, PhaseStep DEF ContextInv
<1> QED  BY <1>1, <1>2, PTL DEF TestsSpec

LEMMA AwaitedInvariant ==
  ASSUME Awaits, C!Readable
  PROVE  TestsSpec => [](ContextInv /\ AwaitedInv)
<1>1. TestsInit => ContextInv /\ AwaitedInv
  BY ContextInitially
<1>2. ContextInv /\ AwaitedInv /\ [TestsNext]_<<part, vars, contextVars>>
        => (ContextInv /\ AwaitedInv)'
  <2> SUFFICES ASSUME ContextInv, AwaitedInv, [TestsNext]_<<part, vars, contextVars>>,
                      part' = "context"
               PROVE  (ContextTypes /\ PhaseInv /\ AwaitInv /\ NotesInv)'
    BY DEF ContextInv, AwaitedInv
  <2>1. part = "context" /\ (C!Next \/ UNCHANGED C!vars)
    BY ContextSteps
  <2>2. ContextTypes /\ PhaseInv /\ AwaitInv /\ NotesInv
    BY <2>1 DEF ContextInv, AwaitedInv
  <2>3. ContextTypes' /\ PhaseInv'
    BY <2>1, <2>2, TypesStep, PhaseStep
  <2>4. AwaitInv'
    BY <2>1, <2>2, AwaitStep
  <2>5. NotesInv'
    BY <2>1, <2>2, <2>3, <2>4, NotesStep
  <2> QED  BY <2>3, <2>4, <2>5
<1> QED  BY <1>1, <1>2, PTL DEF TestsSpec

LEMMA OwnInvariant ==
  ASSUME OneProcess
  PROVE  TestsSpec => [](ContextInv /\ OwnInv)
<1>1. TestsInit => ContextInv /\ OwnInv
  BY ContextInitially
<1>2. ContextInv /\ OwnInv /\ [TestsNext]_<<part, vars, contextVars>> => (ContextInv /\ OwnInv)'
  <2> SUFFICES ASSUME ContextInv, OwnInv, [TestsNext]_<<part, vars, contextVars>>,
                      part' = "context"
               PROVE  (ContextTypes /\ PhaseInv /\ OwnersInv /\ DiskInv)'
    BY DEF ContextInv, OwnInv
  <2>1. part = "context" /\ (C!Next \/ UNCHANGED C!vars)
    BY ContextSteps
  <2>2. ContextTypes /\ PhaseInv /\ OwnersInv /\ DiskInv
    BY <2>1 DEF ContextInv, OwnInv
  <2> QED  BY <2>1, <2>2, TypesStep, PhaseStep, OwnersStep, DiskStep
<1> QED  BY <1>1, <1>2, PTL DEF TestsSpec

LEMMA GoneInvariant ==
  ASSUME Awaits, C!Readable, OneProcess
  PROVE  TestsSpec => [](ContextInv /\ GoneInv)
<1>1. TestsInit => GoneInv
  BY ContextInitially
<1>2. ContextInv /\ AwaitedInv /\ OwnInv /\ GoneInv /\ [TestsNext]_<<part, vars, contextVars>>
        => GoneInv'
  <2> SUFFICES ASSUME ContextInv, AwaitedInv, OwnInv, GoneInv,
                      [TestsNext]_<<part, vars, contextVars>>, part' = "context"
               PROVE  RemovedInv'
    BY DEF GoneInv
  <2>1. part = "context" /\ (C!Next \/ UNCHANGED C!vars)
    BY ContextSteps
  <2>2. ContextTypes /\ PhaseInv /\ AwaitInv /\ OwnersInv /\ RemovedInv
    BY <2>1 DEF ContextInv, AwaitedInv, OwnInv, GoneInv
  <2> QED  BY <2>1, <2>2, RemovedStep
<1>3. TestsSpec => [](ContextInv /\ AwaitedInv)
  BY AwaitedInvariant
<1>4. TestsSpec => [](ContextInv /\ OwnInv)
  BY OwnInvariant
<1> QED  BY <1>1, <1>2, <1>3, <1>4, PTL DEF TestsSpec

(* With any number of processes and threads: between two tests the         *)
(* environment is what it was before, and of the notes there are for a     *)
(* variable the first is the original, whichever task made it.  Tests must *)
(* await their tasks: one that comes late finds no teardown after it; and  *)
(* the values the process starts with must be Unicode: no other is noted.  *)
THEOREM EnvironmentIsRestored ==
  ASSUME Awaits, C!Readable
  PROVE  TestsSpec => [](part = "context" => C!EnvRestored /\ C!FirstNoteIsOriginal)
<1>1. ContextInv /\ AwaitedInv => (part = "context" => C!EnvRestored /\ C!FirstNoteIsOriginal)
  BY RestoredBetween, OriginalFirst DEF ContextInv, AwaitedInv
<1>2. TestsSpec => [](ContextInv /\ AwaitedInv)
  BY AwaitedInvariant
<1> QED  BY <1>1, <1>2, PTL

(* The same, and between two tests no file or directory of a test is left, *)
(* when only one process makes files in the host's temporary directory.    *)
THEOREM NoTraceIsLeft ==
  ASSUME Awaits, C!Readable, OneProcess
  PROVE  TestsSpec => []TracesAreRemoved
<1>1. ContextInv /\ AwaitedInv /\ GoneInv => TracesAreRemoved
  BY RestoredBetween, OriginalFirst, RemovedBetween
     DEF ContextInv, AwaitedInv, GoneInv, TracesAreRemoved
<1>2. TestsSpec => [](ContextInv /\ AwaitedInv)
  BY AwaitedInvariant
<1>3. TestsSpec => [](ContextInv /\ GoneInv)
  BY GoneInvariant
<1> QED  BY <1>1, <1>2, <1>3, PTL

(* While a test runs, what it was given exists and holds only what the     *)
(* thread that asked for it wrote, however many threads ask at once and    *)
(* whether or not the tests await them, in one process.                    *)
THEOREM TempsStayPrivate ==
  ASSUME OneProcess
  PROVE  TestsSpec => []TempsArePrivate
<1>1. OwnInv => TempsArePrivate
  BY PrivateWhileRunning DEF OwnInv, TempsArePrivate
<1>2. TestsSpec => [](ContextInv /\ OwnInv)
  BY OwnInvariant
<1> QED  BY <1>1, <1>2, PTL
=============================================================================
