---------------------------- MODULE StreamsProofs ---------------------------
(* Proofs that the streams of Streams lose no byte and say honestly how    *)
(* their calls ended, for any tasks, calls and room in the kernel; and     *)
(* that a connect gives up only for a reason.                              *)
EXTENDS JoinedSockets, TLAPS

(* A call is of a kind its handle has; it collects only of a connection,   *)
(* and never more than it was asked for.                                   *)
CallInv(c) ==
  /\ c.at # "idle" => Applies(c.op, c.on)
  /\ c.at \in {"arm", "call"} => c.on # "file" /\ c.op \notin {"flush", "address", "close"}
  /\ c.got # <<>> => c.on \in Ends
  /\ c.op \in {"read_exact", "write_all"} => Len(c.got) <= c.size
  /\ c.at \notin {"idle", "over"} => c.res = "none"
CallsInv == \A t \in Tasks : CallInv(call[t])

(* How a call ended.                                                       *)
ResultInv(c) ==
  /\ c.res = "cancelled" => Stopped(c)
  /\ c.res = "timeout" => TimedOut(c)
  /\ c.res = "ok" /\ c.on \in Ends /\ c.op \in {"read_exact", "write_all"}
       => Len(c.got) = c.size
ResultsInv == \A t \in Tasks : ResultInv(call[t])

(* A call that blocks has the mutex, and the timeout of its own view.      *)
MutexInv ==
  \A t \in Tasks : /\ Holds(t) => holder[call[t].on] = t
                   /\ call[t].at = "call" => timed[call[t].on] = Sliced(call[t])

(* A write reports places that hold its own bytes.                         *)
WrittenInv ==
  \A t \in Tasks : call[t].op \in Writes =>
    \A i \in 1 .. Len(call[t].got) :
      /\ call[t].got[i] \in 1 .. Len(sent[Other[call[t].on]])
      /\ sent[Other[call[t].on]][call[t].got[i]] = t

(* A read has its bytes in the order they were sent in.                    *)
Increasing(s) == \A i, j \in 1 .. Len(s) : i < j => s[i] < s[j]
OrderInv == \A t \in Tasks : call[t].op \in Reads => Increasing(call[t].got)

(* Every byte that was taken is in one place.                              *)
InHandOf(c, e) ==
  IF c.op \in Reads /\ c.on = e /\ c.at \notin {"idle", "over"} THEN ToSet(c.got) ELSE {}
Held(t, e) == InHandOf(call[t], e)
Partition(e) ==
  /\ 1 .. taken[e] = kept[e] \cup lost[e] \cup UNION {Held(t, e) : t \in Tasks}
  /\ kept[e] \cap lost[e] = {}
  /\ \A t \in Tasks : Held(t, e) \cap (kept[e] \cup lost[e]) = {}
  /\ \A t, u \in Tasks : t # u => Held(t, e) \cap Held(u, e) = {}
PartitionInv == \A e \in Ends : Partition(e)

StreamsInv ==
  TypeOK /\ CallsInv /\ ResultsInv /\ MutexInv /\ WrittenInv /\ OrderInv /\ PartitionInv

----------------------------------------------------------------------------
(* Sequences of places.                                                    *)

LEMMA ToSetOf == ASSUME NEW S, NEW s \in Seq(S) PROVE ToSet(s) = {s[i] : i \in 1 .. Len(s)}
BY DEF ToSet

LEMMA Shifted ==
  ASSUME NEW k \in Nat, NEW l \in Nat, NEW n \in Nat, NEW i \in 1 .. l + n, i \notin 1 .. l
  PROVE  k + (i - l) \in 1 .. k + n /\ k + (i - l) \notin 1 .. k
OBVIOUS

LEMMA Joined ==
  ASSUME NEW S, NEW s \in Seq(S), NEW r \in Seq(S)
  PROVE  /\ s \o r \in Seq(S) /\ Len(s \o r) = Len(s) + Len(r)
         /\ \A i \in 1 .. Len(s) : (s \o r)[i] = s[i]
         /\ \A i \in 1 .. Len(s) + Len(r) : i \notin 1 .. Len(s) => (s \o r)[i] = r[i - Len(s)]
OBVIOUS

LEMMA Extended ==
  ASSUME NEW s \in Seq(Nat), NEW k \in Nat, NEW n \in Nat
  PROVE  /\ s \o Places(k, n) \in Seq(Nat) /\ Len(s \o Places(k, n)) = Len(s) + n
         /\ \A i \in 1 .. Len(s) : (s \o Places(k, n))[i] = s[i]
         /\ \A i \in 1 .. Len(s) + n :
              i \notin 1 .. Len(s) => (s \o Places(k, n))[i] = k + (i - Len(s))
<1>1. /\ Places(k, n) \in Seq(Nat) /\ Len(Places(k, n)) = n
      /\ \A i \in 1 .. n : Places(k, n)[i] = k + i
  BY DEF Places
<1>2. /\ s \o Places(k, n) \in Seq(Nat) /\ Len(s \o Places(k, n)) = Len(s) + n
      /\ \A i \in 1 .. Len(s) : (s \o Places(k, n))[i] = s[i]
      /\ \A i \in 1 .. Len(s) + n :
           i \notin 1 .. Len(s) => (s \o Places(k, n))[i] = Places(k, n)[i - Len(s)]
  <2>1. PICK r \in Seq(Nat) : r = Places(k, n) /\ Len(r) = n
    BY <1>1
  <2>2. /\ s \o r \in Seq(Nat) /\ Len(s \o r) = Len(s) + n
        /\ \A i \in 1 .. Len(s) : (s \o r)[i] = s[i]
        /\ \A i \in 1 .. Len(s) + n :
             i \notin 1 .. Len(s) => (s \o r)[i] = r[i - Len(s)]
    <3>1. /\ s \o r \in Seq(Nat) /\ Len(s \o r) = Len(s) + Len(r)
          /\ \A i \in 1 .. Len(s) : (s \o r)[i] = s[i]
          /\ \A i \in 1 .. Len(s) + Len(r) :
               i \notin 1 .. Len(s) => (s \o r)[i] = r[i - Len(s)]
      BY Joined
    <3> QED  BY <2>1, <3>1
  <2> QED  BY <2>1, <2>2
<1>3. \A i \in 1 .. Len(s) + n :
        i \notin 1 .. Len(s) => (s \o Places(k, n))[i] = k + (i - Len(s))
  <2> SUFFICES ASSUME NEW i \in 1 .. Len(s) + n, i \notin 1 .. Len(s)
               PROVE  (s \o Places(k, n))[i] = k + (i - Len(s))
    OBVIOUS
  <2>1. i - Len(s) \in 1 .. n
    OBVIOUS
  <2> QED  BY <1>1, <1>2, <2>1
<1> QED  BY <1>2, <1>3

LEMMA ExtendedSet ==
  ASSUME NEW s \in Seq(Nat), NEW k \in Nat, NEW n \in Nat
  PROVE  ToSet(s \o Places(k, n)) = ToSet(s) \cup (k + 1 .. k + n)
<1>0. PICK r \in Seq(Nat) :
        /\ r = s \o Places(k, n)
        /\ Len(r) = Len(s) + n /\ \A i \in 1 .. Len(s) : r[i] = s[i]
        /\ \A i \in 1 .. Len(s) + n : i \notin 1 .. Len(s) => r[i] = k + (i - Len(s))
  BY Extended
<1>1. ToSet(r) = {r[i] : i \in 1 .. Len(r)} /\ ToSet(s) = {s[i] : i \in 1 .. Len(s)}
  BY ToSetOf
<1>2. ToSet(r) \subseteq ToSet(s) \cup (k + 1 .. k + n)
  <2> SUFFICES ASSUME NEW i \in 1 .. Len(r) PROVE r[i] \in ToSet(s) \cup (k + 1 .. k + n)
    BY <1>1
  <2>1. CASE i \in 1 .. Len(s)
    BY <1>0, <1>1, <2>1
  <2>2. CASE i \notin 1 .. Len(s)
    <3>1. r[i] = k + (i - Len(s)) /\ i - Len(s) \in 1 .. n
      BY <1>0, <2>2
    <3> QED  BY <3>1
  <2> QED  BY <2>1, <2>2
<1>3. ASSUME NEW j \in k + 1 .. k + n PROVE j \in ToSet(r)
  <2>1. Len(s) + (j - k) \in 1 .. Len(r) /\ Len(s) + (j - k) \notin 1 .. Len(s)
    BY <1>0
  <2>2. r[Len(s) + (j - k)] = k + ((Len(s) + (j - k)) - Len(s))
    BY <1>0, <2>1
  <2>3. k + ((Len(s) + (j - k)) - Len(s)) = j
    OBVIOUS
  <2> QED  BY <1>1, <2>1, <2>2, <2>3
<1>4. ToSet(s) \subseteq ToSet(r)
  <2>1. \A i \in 1 .. Len(s) : i \in 1 .. Len(r)
    BY <1>0
  <2> QED  BY <1>0, <1>1, <2>1
<1>5. ToSet(r) = ToSet(s) \cup (k + 1 .. k + n)
  BY <1>2, <1>3, <1>4
<1> QED  BY <1>0, <1>5

----------------------------------------------------------------------------
(* One step of a task's call: the call d it becomes, and what happens to   *)
(* the mutex and the timeout of its handle.                                *)
Becomes(t, d) ==
  /\ d \in Call /\ call' = [call EXCEPT ![t] = d]
  /\ CallInv(d) /\ ResultInv(d) /\ UNCHANGED <<expired, cancelled>>
  /\ holder' \in [Handles -> Tasks \cup {"none"}] /\ timed' \in [Handles -> BOOLEAN]
  /\ \A h \in Handles : holder'[h] # holder[h] => holder[h] \in {t, "none"}
  /\ \A h \in Handles : timed'[h] # timed[h] => holder[h] = t
  /\ d.at \in {"arm", "call"} => holder'[d.on] = t
  /\ d.at = "call" => timed'[d.on] = Sliced(d)

LEMMA BecomesKeeps ==
  ASSUME StreamsInv, NEW t \in Tasks, NEW d, Becomes(t, d)
  PROVE  /\ call' \in [Tasks -> Call] /\ call'[t] = d
         /\ \A u \in Tasks \ {t} : call'[u] = call[u]
         /\ CallsInv' /\ ResultsInv' /\ MutexInv'
<1>1. /\ call' \in [Tasks -> Call] /\ call'[t] = d
      /\ \A u \in Tasks \ {t} : call'[u] = call[u]
  BY DEF Becomes, StreamsInv, TypeOK
<1>2. CallsInv'
  BY <1>1 DEF Becomes, StreamsInv, CallsInv, CallInv
<1>3. ResultsInv'
  BY <1>1 DEF Becomes, StreamsInv, ResultsInv, ResultInv, Stopped, TimedOut
<1>4. MutexInv'
  <2> SUFFICES ASSUME NEW u \in Tasks
               PROVE  /\ Holds(u)' => holder'[call'[u].on] = u
                      /\ call'[u].at = "call" => timed'[call'[u].on] = Sliced(call'[u])
    BY DEF MutexInv, Sliced
  <2>1. CASE u = t
    BY <1>1, <2>1 DEF Becomes, Holds
  <2>2. CASE u # t
    <3>1. call[u].on \in Handles /\ "none" \notin Tasks
      BY StreamsAssumption DEF StreamsInv, TypeOK, Call
    <3>2. call[u].at = "call" => Holds(u)
      BY DEF Holds
    <3> QED  BY <1>1, <2>2, <3>1, <3>2 DEF Becomes, StreamsInv, MutexInv, Holds
  <2> QED  BY <2>1, <2>2
<1> QED  BY <1>1, <1>2, <1>3, <1>4

(* What becomes of the bytes of one end when a task moves: those that are  *)
(* newly taken and those in the task's hands stay there, are kept or lost. *)
Gathers(t, e) ==
  /\ taken'[e] \in Nat /\ taken[e] <= taken'[e]
  /\ \A u \in Tasks \ {t} : Held(u, e)' = Held(u, e)
  /\ LET new == taken[e] + 1 .. taken'[e] IN
     \/ /\ Held(t, e)' = Held(t, e) \cup new
        /\ kept'[e] = kept[e] /\ lost'[e] = lost[e]
     \/ /\ Held(t, e)' = {}
        /\ kept'[e] = kept[e] \cup Held(t, e) \cup new /\ lost'[e] = lost[e]
     \/ /\ Held(t, e)' = {}
        /\ lost'[e] = lost[e] \cup Held(t, e) \cup new /\ kept'[e] = kept[e]

LEMMA GathersKeeps ==
  ASSUME NEW e, taken[e] \in Nat, Partition(e), NEW t \in Tasks, Gathers(t, e)
  PROVE  Partition(e)'
<1> DEFINE new == taken[e] + 1 .. taken'[e]
<1>1. 1 .. taken'[e] = (1 .. taken[e]) \cup new /\ (1 .. taken[e]) \cap new = {}
  BY DEF Gathers
<1>2. /\ kept[e] \subseteq 1 .. taken[e] /\ lost[e] \subseteq 1 .. taken[e]
      /\ \A u \in Tasks : Held(u, e) \subseteq 1 .. taken[e]
  BY DEF Partition
<1>3. UNION {Held(u, e)' : u \in Tasks} = Held(t, e)' \cup UNION {Held(u, e) : u \in Tasks \ {t}}
  BY DEF Gathers
<1>4. UNION {Held(u, e) : u \in Tasks} = Held(t, e) \cup UNION {Held(u, e) : u \in Tasks \ {t}}
  OBVIOUS
<1>5. 1 .. taken'[e] = kept'[e] \cup lost'[e] \cup UNION {Held(u, e)' : u \in Tasks}
  <2> HIDE DEF new
  <2> DEFINE rest == UNION {Held(u, e) : u \in Tasks \ {t}}
  <2>1. 1 .. taken[e] = kept[e] \cup lost[e] \cup Held(t, e) \cup rest
    BY <1>4 DEF Partition
  <2>2. \/ /\ Held(t, e)' = Held(t, e) \cup new
           /\ kept'[e] = kept[e] /\ lost'[e] = lost[e]
        \/ /\ Held(t, e)' = {}
           /\ kept'[e] = kept[e] \cup Held(t, e) \cup new /\ lost'[e] = lost[e]
        \/ /\ Held(t, e)' = {}
           /\ lost'[e] = lost[e] \cup Held(t, e) \cup new /\ kept'[e] = kept[e]
    BY DEF Gathers, new
  <2> HIDE DEF rest
  <2> QED  BY <1>1, <1>3, <2>1, <2>2 DEF rest
<1>6. /\ kept'[e] \cap lost'[e] = {}
      /\ Held(t, e)' \cap (kept'[e] \cup lost'[e]) = {}
      /\ \A u \in Tasks \ {t} : /\ Held(u, e) \cap (kept'[e] \cup lost'[e]) = {}
                                /\ Held(u, e) \cap Held(t, e)' = {}
  <2>1. /\ kept[e] \cap new = {} /\ lost[e] \cap new = {}
        /\ \A u \in Tasks : Held(u, e) \cap new = {}
    BY <1>1, <1>2
  <2> QED  BY <2>1 DEF Partition, Gathers
<1> QED  BY <1>5, <1>6 DEF Partition, Gathers

(* A step that touches no byte of an end.                                  *)
LEMMA QuietGathers ==
  ASSUME TypeOK, NEW t \in Tasks, NEW e \in Ends,
         \A u \in Tasks : Held(u, e)' = Held(u, e),
         taken'[e] = taken[e], kept'[e] = kept[e], lost'[e] = lost[e]
  PROVE  Gathers(t, e)
<1>1. taken[e] \in Nat
  BY DEF TypeOK
<1>2. taken[e] + 1 .. taken[e] = {}
  BY <1>1
<1> QED  BY <1>1, <1>2 DEF Gathers

----------------------------------------------------------------------------
(* What a step of a task shows, so that all parts of the invariant hold    *)
(* after it.                                                               *)
Kept(t, d) ==
  /\ Becomes(t, d) /\ \A e \in Ends : Gathers(t, e)
  /\ open' \in [Handles -> BOOLEAN] /\ sent' \in [Ends -> Seq(Tasks)]
  /\ taken' \in [Ends -> Nat] /\ reset' \in [Ends -> BOOLEAN]
  /\ backlog' \in {0, 1} /\ calls' \in [Tasks -> Nat]
  /\ kept' \in [Ends -> SUBSET Nat] /\ lost' \in [Ends -> SUBSET Nat]
  /\ WrittenInv' /\ OrderInv'

LEMMA KeptKeeps ==
  ASSUME StreamsInv, NEW t \in Tasks, NEW d, Kept(t, d)
  PROVE  StreamsInv'
<1>1. call' \in [Tasks -> Call] /\ CallsInv' /\ ResultsInv' /\ MutexInv'
  BY BecomesKeeps DEF Kept
<1>2. PartitionInv'
  <2> SUFFICES ASSUME NEW e \in Ends PROVE Partition(e)'
    BY DEF PartitionInv
  <2>1. taken[e] \in Nat /\ Partition(e) /\ Gathers(t, e)
    BY DEF StreamsInv, TypeOK, PartitionInv, Kept
  <2> QED  BY <2>1, GathersKeeps
<1>3. TypeOK'
  BY <1>1 DEF Kept, Becomes, StreamsInv, TypeOK
<1> QED  BY <1>1, <1>2, <1>3 DEF Kept, StreamsInv

(* A call that moves nothing keeps the order and the places it has.        *)
LEMMA SamePlaces ==
  ASSUME StreamsInv, NEW t \in Tasks, NEW d, Becomes(t, d), sent' = sent,
         d.got = <<>> \/ (d.op = call[t].op /\ d.on = call[t].on /\ d.got = call[t].got)
  PROVE  WrittenInv' /\ OrderInv'
<1>1. call'[t] = d /\ \A u \in Tasks \ {t} : call'[u] = call[u]
  BY BecomesKeeps
<1>2. WrittenInv'
  <2> SUFFICES ASSUME NEW u \in Tasks, call'[u].op \in Writes, NEW i \in 1 .. Len(call'[u].got)
               PROVE  /\ call'[u].got[i] \in 1 .. Len(sent[Other[call'[u].on]])
                      /\ sent[Other[call'[u].on]][call'[u].got[i]] = u
    BY DEF WrittenInv
  <2>1. CASE u # t
    BY <1>1, <2>1 DEF StreamsInv, WrittenInv
  <2>2. CASE u = t /\ d.got # <<>>
    BY <1>1, <2>2 DEF StreamsInv, WrittenInv
  <2>3. CASE u = t /\ d.got = <<>>
    BY <1>1, <2>3
  <2> QED  BY <2>1, <2>2, <2>3
<1>3. OrderInv'
  BY <1>1 DEF StreamsInv, OrderInv, Increasing
<1> QED  BY <1>2, <1>3

LEMMA HeldAfter ==
  ASSUME StreamsInv, NEW t \in Tasks, NEW d, Becomes(t, d), NEW e
  PROVE  Held(t, e)' = InHandOf(d, e) /\ \A u \in Tasks \ {t} : Held(u, e)' = Held(u, e)
BY BecomesKeeps DEF Held, InHandOf

(* The fields of a call, and where one that blocks can be.                 *)
LEMMA CallFields ==
  ASSUME StreamsInv, NEW t \in Tasks
  PROVE  /\ call[t] \in Call /\ call[t].on \in Handles /\ call[t].got \in Seq(Nat)
         /\ call[t].size \in 0 .. 2 /\ CallInv(call[t]) /\ ResultInv(call[t])
         /\ Holds(t) => holder[call[t].on] = t
         /\ call[t].at \in {"lock", "arm", "call"} /\ call[t].op \in Reads \cup Writes
              => call[t].on \in Ends \cup {"file"}
         /\ Holds(t) /\ call[t].op \in Reads \cup Writes => call[t].on \in Ends
<1>1. /\ call[t] \in Call /\ call[t].on \in Handles /\ call[t].got \in Seq(Nat)
      /\ call[t].size \in 0 .. 2
  BY DEF StreamsInv, TypeOK, Call
<1>2. /\ CallInv(call[t]) /\ ResultInv(call[t]) /\ (Holds(t) => holder[call[t].on] = t)
  BY DEF StreamsInv, CallsInv, ResultsInv, MutexInv
<1>3. call[t].at \in {"lock", "arm", "call"} /\ call[t].op \in Reads \cup Writes
        => call[t].on \in Ends \cup {"file"}
  BY <1>1, <1>2 DEF CallInv, Applies, Handles, Ends, Reads, Writes
<1>4. Holds(t) /\ call[t].op \in Reads \cup Writes => call[t].on \in Ends
  BY <1>2, <1>3 DEF CallInv, Holds
<1> QED  BY <1>1, <1>2, <1>3, <1>4

(* A call is over: what it collected is kept if it succeeded, and lost     *)
(* otherwise.                                                              *)
LEMMA EndKeeps ==
  ASSUME StreamsInv, NEW t \in Tasks, Holds(t), NEW c \in Call,
         NEW end \in Outcomes \ {"none"}, End(t, c, end), CallInv(c),
         c.op = call[t].op, c.on = call[t].on, c.at = call[t].at,
         ResultInv(Over(c, end)), UNCHANGED <<timed, expired, cancelled>>,
         \A e \in Ends : /\ taken'[e] \in Nat /\ taken[e] <= taken'[e]
                         /\ InHandOf(c, e) = Held(t, e) \cup (taken[e] + 1 .. taken'[e])
  PROVE  /\ Becomes(t, Over(c, end)) /\ \A e \in Ends : Gathers(t, e)
         /\ kept' \in [Ends -> SUBSET Nat] /\ lost' \in [Ends -> SUBSET Nat]
<1> DEFINE d == Over(c, end)
<1>1. /\ d \in Call /\ d.op = c.op /\ d.on = c.on /\ d.size = c.size /\ d.got = c.got
      /\ d.at = "over" /\ d.res = end /\ c.on \in Handles /\ c.got \in Seq(Nat)
  BY DEF Over, Call, CallStates
<1>2. CallInv(d)
  BY <1>1, CallFields DEF CallInv, Holds
<1>3. Becomes(t, d)
  <2>1. call' = [call EXCEPT ![t] = d] /\ holder' = [holder EXCEPT ![c.on] = "none"]
    BY DEF End
  <2>2. holder[c.on] = t
    BY CallFields
  <2> HIDE DEF d
  <2>3. ResultInv(d)
    BY DEF d
  <2> QED  BY <1>1, <1>2, <2>1, <2>2, <2>3 DEF Becomes, StreamsInv, TypeOK
<1>4. c.op \in Reads => c.on \in Ends /\ ToSet(c.got) \subseteq Nat
  BY <1>1, CallFields, ToSetOf
<1>5. kept' \in [Ends -> SUBSET Nat] /\ lost' \in [Ends -> SUBSET Nat]
  BY <1>4 DEF End, StreamsInv, TypeOK
<1>6. ASSUME NEW e \in Ends PROVE Gathers(t, e)
  <2>1. Held(t, e)' = {} /\ \A u \in Tasks \ {t} : Held(u, e)' = Held(u, e)
    <3>1. InHandOf(d, e) = {}
      BY <1>1 DEF InHandOf
    <3> HIDE DEF d
    <3> QED  BY <1>3, <3>1, HeldAfter
  <2>2. CASE c.op \in Reads /\ c.on = e
    <3>1. ToSet(c.got) = Held(t, e) \cup (taken[e] + 1 .. taken'[e])
      <4>1. InHandOf(c, e) = ToSet(c.got)
        BY <2>2 DEF InHandOf, Holds
      <4> QED  BY <4>1
    <3>2. \/ /\ kept'[e] = kept[e] \cup ToSet(c.got) /\ lost'[e] = lost[e]
          \/ /\ lost'[e] = lost[e] \cup ToSet(c.got) /\ kept'[e] = kept[e]
      BY <2>2 DEF End, StreamsInv, TypeOK
    <3> QED  BY <2>1, <3>1, <3>2 DEF Gathers
  <2>3. CASE ~(c.op \in Reads /\ c.on = e)
    <3>1. Held(t, e) \cup (taken[e] + 1 .. taken'[e]) = {}
      BY <2>3 DEF InHandOf
    <3>2. kept'[e] = kept[e] /\ lost'[e] = lost[e]
      BY <1>4, <2>3 DEF End, StreamsInv, TypeOK
    <3> QED  BY <2>1, <3>1, <3>2 DEF Gathers
  <2> QED  BY <2>2, <2>3
<1> QED  BY <1>3, <1>5, <1>6

(* A call that ends with what it had.                                      *)
LEMMA EndSame ==
  ASSUME StreamsInv, NEW t \in Tasks, Holds(t), NEW end \in Outcomes \ {"none"},
         End(t, call[t], end), ResultInv(Over(call[t], end)),
         UNCHANGED <<timed, expired, cancelled, open, sent, taken, reset, calls>>,
         backlog' \in {0, 1}
  PROVE  Kept(t, Over(call[t], end))
<1> DEFINE d == Over(call[t], end)
<1>1. call[t] \in Call /\ CallInv(call[t])
  BY CallFields
<1>2. \A e \in Ends : /\ taken'[e] \in Nat /\ taken[e] <= taken'[e]
                      /\ InHandOf(call[t], e) = Held(t, e) \cup (taken[e] + 1 .. taken'[e])
  <2> SUFFICES ASSUME NEW e \in Ends
               PROVE  /\ taken'[e] \in Nat /\ taken[e] <= taken'[e]
                      /\ InHandOf(call[t], e) = Held(t, e) \cup (taken[e] + 1 .. taken'[e])
    OBVIOUS
  <2>1. taken[e] \in Nat /\ taken'[e] = taken[e]
    BY DEF StreamsInv, TypeOK
  <2>2. taken[e] + 1 .. taken'[e] = {}
    BY <2>1
  <2> QED  BY <2>1, <2>2 DEF Held
<1>3. /\ Becomes(t, d) /\ \A e \in Ends : Gathers(t, e)
      /\ kept' \in [Ends -> SUBSET Nat] /\ lost' \in [Ends -> SUBSET Nat]
  BY <1>1, <1>2, EndKeeps
<1>4. WrittenInv' /\ OrderInv'
  <2>1. d.op = call[t].op /\ d.on = call[t].on /\ d.got = call[t].got
    BY <1>1 DEF Over, Call
  <2> HIDE DEF d
  <2> QED  BY <1>3, <2>1, SamePlaces
<1> QED  BY <1>3, <1>4 DEF Kept, StreamsInv, TypeOK

----------------------------------------------------------------------------
(* The steps of a task.                                                    *)

LEMMA BeginStep ==
  ASSUME StreamsInv, NEW t \in Tasks, Begin(t)
  PROVE  \E d : Kept(t, d)
<1>1. PICK r \in Menu[t] :
        LET c == [op |-> r.op, on |-> r.on, ctl |-> r.ctl, size |-> r.size,
                  got |-> <<>>, at |-> "lock", res |-> "none"]
        IN call' = [call EXCEPT ![t] =
             IF r.on = "file" /\ r.op # "close" /\ Refusal(c) # "none"
             THEN Over(c, Refusal(c)) ELSE c]
  BY DEF Begin
<1> DEFINE c == [op |-> r.op, on |-> r.on, ctl |-> r.ctl, size |-> r.size,
                 got |-> <<>>, at |-> "lock", res |-> "none"]
<1>2. r \in Requests
  BY StreamsAssumption
<1>3. /\ r.op \in Reads \cup Writes \cup Others /\ r.on \in Handles
      /\ r.ctl \in AllControls /\ r.size \in 0 .. 2 /\ Applies(r.op, r.on)
  BY <1>2 DEF Requests
<1>4. PICK d : /\ \/ d = c
                  \/ d = Over(c, Refusal(c)) /\ Refusal(c) # "none" /\ r.on = "file"
               /\ call' = [call EXCEPT ![t] = d]
  BY <1>1
<1>5. /\ d \in Call /\ d.got = <<>> /\ d.at \in {"lock", "over"} /\ d.ctl = r.ctl
      /\ d.op = r.op /\ d.on = r.on /\ d.size = r.size
      /\ d.at = "lock" => d.res = "none"
      /\ d.res \in {"none", Refusal(d)} /\ (d.res # "none" => d.on = "file")
  <2>1. Refusal(c) \in Outcomes \ {"ok"}
    BY DEF Refusal, Outcomes
  <2>2. c \in Call
    <3>1. <<>> \in Seq(Nat)
      OBVIOUS
    <3> QED  BY <1>3, <3>1 DEF Call, CallStates, Outcomes
  <2>3. CASE d = c
    BY <2>2, <2>3
  <2>4. CASE d = Over(c, Refusal(c)) /\ Refusal(c) # "none" /\ r.on = "file"
    BY <1>3, <2>1, <2>2, <2>4
       DEF Over, Call, CallStates, Outcomes, Refusal, Stopped, TimedOut, Is
  <2> QED  BY <1>4, <2>3, <2>4
<1> HIDE DEF c
<1>6. CallInv(d) /\ ResultInv(d)
  <2>1. CallInv(d)
    <3>1. Len(d.got) = 0
      BY <1>5
    <3> QED  BY <1>3, <1>5, <3>1 DEF CallInv
  <2>2. ResultInv(d)
    BY <1>5 DEF ResultInv, Refusal, Ends
  <2> QED  BY <2>1, <2>2
<1>7. Becomes(t, d)
  BY <1>4, <1>5, <1>6 DEF Begin, Becomes, StreamsInv, TypeOK
<1>8. WrittenInv' /\ OrderInv'
  BY <1>5, <1>7, SamePlaces DEF Begin, worldVars
<1>9. ASSUME NEW e \in Ends PROVE Gathers(t, e)
  <2>1. Held(t, e) = {}
    BY DEF Begin, Held, InHandOf
  <2>2. InHandOf(d, e) = {}
    BY <1>5 DEF InHandOf, ToSet
  <2> QED  BY <1>7, <2>1, <2>2, HeldAfter, QuietGathers DEF Begin, worldVars, StreamsInv
<1>10. calls' \in [Tasks -> Nat]
  BY DEF Begin, StreamsInv, TypeOK
<1> QED  BY <1>7, <1>8, <1>9, <1>10 DEF Kept, Begin, worldVars, StreamsInv, TypeOK

LEMMA LockStep ==
  ASSUME StreamsInv, NEW t \in Tasks, Lock(t)
  PROVE  \E d : Kept(t, d)
<1> DEFINE c == call[t]
           armed == [c EXCEPT !.at = "arm"]
<1>0. /\ c \in Call /\ c.on \in Handles /\ c.got \in Seq(Nat) /\ CallInv(c) /\ ResultInv(c)
      /\ c.at = "lock" /\ holder[c.on] = "none" /\ c.op # "close"
  BY CallFields DEF Lock
<1>1. PICK d : /\ call' = [call EXCEPT ![t] = d]
               /\ \/ d = Over(c, "closed") /\ ~open[c.on] /\ UNCHANGED holder
                  \/ /\ d = Over(c, "ok") /\ open[c.on] /\ UNCHANGED holder
                     /\ c.on = "file" \/ c.op \in {"flush", "address"}
                  \/ /\ d = armed /\ open[c.on] /\ holder' = [holder EXCEPT ![c.on] = t]
                     /\ c.on # "file" /\ c.op \notin {"flush", "address"}
  <2>1. call' = [call EXCEPT ![t].at = "arm"] => call' = [call EXCEPT ![t] = armed]
    OBVIOUS
  <2> QED  BY <2>1 DEF Lock
<1>2. /\ d \in Call /\ d.op = c.op /\ d.on = c.on /\ d.got = c.got /\ d.size = c.size
      /\ d.ctl = c.ctl
      /\ \/ d.at = "over" /\ d.res = "closed" /\ ~open[c.on] /\ UNCHANGED holder
         \/ /\ d.at = "over" /\ d.res = "ok" /\ open[c.on] /\ UNCHANGED holder
            /\ c.on = "file" \/ c.op \in {"flush", "address"}
         \/ /\ d.at = "arm" /\ d.res = "none" /\ open[c.on]
            /\ holder' = [holder EXCEPT ![c.on] = t]
            /\ c.on # "file" /\ c.op \notin {"flush", "address"}
  <2>1. CASE d = Over(c, "closed") /\ ~open[c.on] /\ UNCHANGED holder
    BY <1>0, <2>1 DEF Over, Call, CallStates, Outcomes
  <2>2. CASE /\ d = Over(c, "ok") /\ open[c.on] /\ UNCHANGED holder
             /\ c.on = "file" \/ c.op \in {"flush", "address"}
    BY <1>0, <2>2 DEF Over, Call, CallStates, Outcomes
  <2>3. CASE /\ d = armed /\ open[c.on] /\ holder' = [holder EXCEPT ![c.on] = t]
             /\ c.on # "file" /\ c.op \notin {"flush", "address"}
    <3>1. c.res = "none"
      BY <1>0 DEF CallInv
    <3> QED  BY <1>0, <2>3, <3>1 DEF Call, CallStates, Outcomes
  <2> HIDE DEF c, armed
  <2> QED  BY <1>1, <2>1, <2>2, <2>3
<1> HIDE DEF c, armed
<1>3. CallInv(d)
  BY <1>0, <1>2 DEF CallInv
<1>4. ResultInv(d)
  BY <1>2 DEF ResultInv, Ends
<1>5. holder' \in [Handles -> Tasks \cup {"none"}] /\ (d.at = "arm" => holder'[d.on] = t)
      /\ \A h \in Handles : holder'[h] # holder[h] => holder[h] = "none"
  BY <1>0, <1>2 DEF StreamsInv, TypeOK
<1>6. Becomes(t, d)
  BY <1>0, <1>1, <1>2, <1>3, <1>4, <1>5 DEF Becomes, Lock, StreamsInv, TypeOK
<1>7. WrittenInv' /\ OrderInv'
  BY <1>2, <1>6, SamePlaces DEF Lock, c
<1>8. lost' = IF d.at = "over" /\ ~open[c.on] /\ c.op \in Reads /\ c.on \in Ends
              THEN [lost EXCEPT ![c.on] = @ \cup ToSet(c.got)] ELSE lost
  BY <1>2 DEF Lock, c
<1>9. lost' \in [Ends -> SUBSET Nat]
  <2>1. ToSet(c.got) \subseteq Nat
    BY <1>0, ToSetOf
  <2> QED  BY <1>8, <2>1 DEF StreamsInv, TypeOK
<1>10. ASSUME NEW e \in Ends PROVE Gathers(t, e)
  <2>1. /\ Held(t, e)' = InHandOf(d, e) /\ \A u \in Tasks \ {t} : Held(u, e)' = Held(u, e)
        /\ taken'[e] = taken[e] /\ kept'[e] = kept[e] /\ taken[e] \in Nat
        /\ taken[e] + 1 .. taken'[e] = {}
    <3>1. taken'[e] = taken[e] /\ kept'[e] = kept[e] /\ taken[e] \in Nat
      BY DEF Lock, StreamsInv, TypeOK
    <3>2. taken[e] + 1 .. taken'[e] = {}
      BY <3>1
    <3> QED  BY <1>6, <3>1, <3>2, HeldAfter
  <2>2. CASE c.op \in Reads /\ c.on = e /\ d.at = "over"
    <3>1. ~open[c.on]
      BY <1>2, <2>2 DEF Ends, Reads
    <3>2. Held(t, e) = ToSet(c.got) /\ InHandOf(d, e) = {}
      BY <1>0, <2>2 DEF Held, InHandOf, c
    <3>3. lost'[e] = lost[e] \cup ToSet(c.got)
      BY <1>8, <2>2, <3>1 DEF StreamsInv, TypeOK
    <3> QED  BY <2>1, <3>2, <3>3 DEF Gathers
  <2>3. CASE ~(c.op \in Reads /\ c.on = e /\ d.at = "over")
    <3>1. Held(t, e) = InHandOf(d, e)
      BY <1>0, <1>2, <2>3 DEF Held, InHandOf, c
    <3>2. lost'[e] = lost[e]
      BY <1>8, <2>3 DEF StreamsInv, TypeOK
    <3> QED  BY <2>1, <3>1, <3>2 DEF Gathers
  <2> QED  BY <2>2, <2>3
<1> QED  BY <1>6, <1>7, <1>9, <1>10 DEF Kept, Lock, StreamsInv, TypeOK

LEMMA CloseStep ==
  ASSUME StreamsInv, NEW t \in Tasks, Close(t)
  PROVE  \E d : Kept(t, d)
<1> DEFINE c == call[t]
<1>0. /\ c \in Call /\ c.on \in Handles /\ c.got \in Seq(Nat) /\ CallInv(c) /\ ResultInv(c)
      /\ c.at = "lock" /\ c.op = "close"
  BY CallFields DEF Close
<1>1. PICK d : /\ call' = [call EXCEPT ![t] = d] /\ d \in Call
               /\ d.op = "close" /\ d.on = c.on /\ d.got = c.got /\ d.at = "over"
               /\ d.res \in {"ok", "closed"}
  <2>1. ASSUME NEW end \in {"ok", "closed"}
        PROVE  /\ Over(c, end) \in Call /\ Over(c, end).op = "close" /\ Over(c, end).on = c.on
               /\ Over(c, end).got = c.got /\ Over(c, end).at = "over"
               /\ Over(c, end).res = end
    BY <1>0 DEF Over, Call, CallStates, Outcomes
  <2> QED  BY <2>1 DEF Close
<1> HIDE DEF c
<1>2. CallInv(d) /\ ResultInv(d)
  BY <1>0, <1>1 DEF CallInv, ResultInv
<1>3. Becomes(t, d)
  BY <1>1, <1>2 DEF Becomes, Close, StreamsInv, TypeOK
<1>4. d.got = <<>> \/ (d.op = call[t].op /\ d.on = call[t].on /\ d.got = call[t].got)
  BY <1>0, <1>1 DEF c
<1>5. WrittenInv' /\ OrderInv'
  BY <1>3, <1>4, SamePlaces DEF Close
<1>6. ASSUME NEW e \in Ends PROVE Gathers(t, e)
  <2>1. Held(t, e) = {} /\ InHandOf(d, e) = {}
    BY <1>0, <1>1 DEF Held, InHandOf, c, Reads
  <2> QED  BY <1>3, <2>1, HeldAfter, QuietGathers DEF Close, StreamsInv
<1> QED  BY <1>3, <1>5, <1>6 DEF Kept, Close, StreamsInv, TypeOK

(* A call that goes on, with what it had.                                  *)
LEMMA GoesOn ==
  ASSUME StreamsInv, NEW t \in Tasks, Holds(t), NEW st \in {"arm", "call"},
         call' = [call EXCEPT ![t].at = st],
         UNCHANGED <<holder, kept, lost, open, expired, cancelled, sent, taken, reset, backlog,
                     calls>>,
         timed' \in [Handles -> BOOLEAN],
         \A h \in Handles : timed'[h] # timed[h] => h = call[t].on,
         st = "call" => timed'[call[t].on] = Sliced(call[t])
  PROVE  \E d : Kept(t, d)
<1> DEFINE c == call[t]
           d == [c EXCEPT !.at = st]
<1>0. /\ c \in Call /\ c.on \in Handles /\ CallInv(c) /\ ResultInv(c) /\ holder[c.on] = t
      /\ c.at \in {"arm", "call"}
  BY CallFields DEF Holds
<1>1. /\ call' = [call EXCEPT ![t] = d] /\ d \in Call /\ d.op = c.op /\ d.on = c.on
      /\ d.got = c.got /\ d.ctl = c.ctl /\ d.size = c.size /\ d.res = c.res /\ d.at = st
  BY <1>0 DEF Call, CallStates
<1> HIDE DEF c, d
<1>2. CallInv(d) /\ ResultInv(d)
  BY <1>0, <1>1 DEF CallInv, ResultInv, Stopped, TimedOut, Is
<1>3. Becomes(t, d)
  BY <1>0, <1>1, <1>2 DEF Becomes, StreamsInv, TypeOK, Sliced, c
<1>4. WrittenInv' /\ OrderInv'
  BY <1>1, <1>3, SamePlaces DEF c
<1>5. ASSUME NEW e \in Ends PROVE Gathers(t, e)
  <2>1. Held(t, e) = InHandOf(d, e)
    BY <1>0, <1>1 DEF Held, InHandOf, c
  <2> QED  BY <1>3, <2>1, HeldAfter, QuietGathers DEF StreamsInv
<1>6. Kept(t, d)
  BY <1>3, <1>4, <1>5 DEF Kept, StreamsInv, TypeOK
<1> QED  BY <1>6

(* A refusal is for a reason.                                              *)
LEMMA RefusalHolds ==
  ASSUME StreamsInv, NEW t \in Tasks, Refusal(call[t]) # "none"
  PROVE  /\ Refusal(call[t]) \in Outcomes \ {"none"}
         /\ ResultInv(Over(call[t], Refusal(call[t])))
<1>1. call[t] \in Call
  BY CallFields
<1> QED  BY <1>1 DEF Refusal, Outcomes, ResultInv, Over, Call, Stopped, TimedOut, Is

LEMMA ArmStep ==
  ASSUME StreamsInv, NEW t \in Tasks, Arm(t)
  PROVE  \E d : Kept(t, d)
<1>1. Holds(t) /\ call[t].on \in Handles /\ backlog' \in {0, 1}
  BY CallFields DEF Arm, Holds, StreamsInv, TypeOK
<1>2. CASE Refusal(call[t]) # "none"
  BY <1>1, <1>2, RefusalHolds, EndSame DEF Arm
<1>3. CASE Refusal(call[t]) = "none"
  <2>1. /\ call' = [call EXCEPT ![t].at = "call"]
        /\ timed' = [timed EXCEPT ![call[t].on] = Sliced(call[t])]
        /\ UNCHANGED <<holder, kept, lost, open, expired, cancelled, sent, taken, reset, backlog,
                       calls>>
    BY <1>3 DEF Arm
  <2>2. /\ timed' \in [Handles -> BOOLEAN]
        /\ \A h \in Handles : timed'[h] # timed[h] => h = call[t].on
        /\ timed'[call[t].on] = Sliced(call[t])
    BY <1>1, <2>1 DEF StreamsInv, TypeOK, Sliced
  <2> QED  BY <1>1, <2>1, <2>2, GoesOn
<1> QED  BY <1>2, <1>3

LEMMA WaitStep ==
  ASSUME StreamsInv, NEW t \in Tasks, SliceEnds(t) \/ Accept(t)
  PROVE  \E d : Kept(t, d)
<1>1. Holds(t)
  BY DEF Holds, SliceEnds, Accept
<1>2. backlog' \in {0, 1} /\ timed' \in [Handles -> BOOLEAN]
  BY DEF SliceEnds, Accept, StreamsInv, TypeOK
<1>3. CASE Refusal(call[t]) # "none" /\ End(t, call[t], Refusal(call[t]))
  BY <1>1, <1>2, <1>3, RefusalHolds, EndSame DEF SliceEnds, Accept
<1>4. CASE /\ call' = [call EXCEPT ![t].at = "arm"]
           /\ UNCHANGED <<holder, lost, kept, backlog>>
  BY <1>1, <1>2, <1>4, GoesOn DEF SliceEnds, Accept
<1>5. CASE Accept(t) /\ End(t, call[t], "ok")
  <2>1. ResultInv(Over(call[t], "ok"))
    <3>1. call[t] \in Call /\ call[t].op = "accept"
      BY <1>5, CallFields DEF Accept
    <3> QED  BY <3>1 DEF ResultInv, Over, Call
  <2> QED  BY <1>1, <1>2, <1>5, <2>1, EndSame DEF Accept, Outcomes
<1> QED  BY <1>3, <1>4, <1>5 DEF SliceEnds, Accept

LEMMA FailStep ==
  ASSUME StreamsInv, NEW t \in Tasks, ReadNothing(t) \/ Broken(t)
  PROVE  \E d : Kept(t, d)
<1>1. Holds(t) /\ backlog' \in {0, 1} /\ call[t] \in Call
  BY CallFields DEF Holds, ReadNothing, Broken, StreamsInv, TypeOK
<1>2. PICK end \in {"closed", "ok", "broken"} :
        /\ End(t, call[t], end)
        /\ end = "ok" => call[t].op \in Reads \ {"read_exact"}
  BY DEF ReadNothing, Broken
<1>3. ResultInv(Over(call[t], end))
  BY <1>1, <1>2 DEF ResultInv, Over, Call, Reads
<1> QED  BY <1>1, <1>2, <1>3, EndSame DEF ReadNothing, Broken, Outcomes

(* A call that moved bytes: it is over, or goes on without the mutex.      *)
LEMMA MovedKeeps ==
  ASSUME StreamsInv, NEW t \in Tasks, call[t].at = "call", NEW g \in Call, Moved(t, g),
         CallInv(g), g.op = call[t].op, g.on = call[t].on, g.at = "call",
         g.op \in Reads \cup Writes, UNCHANGED <<timed, expired, cancelled>>,
         \A e \in Ends : /\ taken'[e] \in Nat /\ taken[e] <= taken'[e]
                         /\ InHandOf(g, e) = Held(t, e) \cup (taken[e] + 1 .. taken'[e])
  PROVE  \E d : /\ Becomes(t, d) /\ \A e \in Ends : Gathers(t, e)
                /\ kept' \in [Ends -> SUBSET Nat] /\ lost' \in [Ends -> SUBSET Nat]
                /\ d.op = g.op /\ d.on = g.on /\ d.got = g.got
<1>1. /\ Holds(t) /\ g.on \in Ends /\ g.on \in Handles /\ g.res = "none" /\ holder[g.on] = t
      /\ g.got \in Seq(Nat) /\ g.size \in Nat
  BY CallFields DEF Holds, CallInv, Call
<1>2. CASE Enough(g)
  <2> DEFINE d == Over(g, "ok")
  <2>1. d.op = g.op /\ d.on = g.on /\ d.got = g.got /\ d.size = g.size /\ d.res = "ok"
    BY DEF Over, Call
  <2>2. ResultInv(d)
    <3>1. g.op \in {"read_exact", "write_all"} => Len(g.got) = g.size
      BY <1>1, <1>2 DEF Enough, Loops, CallInv
    <3> HIDE DEF d
    <3> QED  BY <2>1, <3>1 DEF ResultInv
  <2>3. End(t, g, "ok")
    BY <1>2 DEF Moved
  <2>4. /\ Becomes(t, d) /\ \A e \in Ends : Gathers(t, e)
        /\ kept' \in [Ends -> SUBSET Nat] /\ lost' \in [Ends -> SUBSET Nat]
    BY <1>1, <2>2, <2>3, EndKeeps DEF Outcomes
  <2> HIDE DEF d
  <2> QED  BY <2>1, <2>4
<1>3. CASE ~Enough(g)
  <2> DEFINE d == [g EXCEPT !.at = "lock"]
  <2>1. /\ d \in Call /\ d.op = g.op /\ d.on = g.on /\ d.got = g.got /\ d.ctl = g.ctl
        /\ d.size = g.size /\ d.res = "none" /\ d.at = "lock"
    BY <1>1 DEF Call, CallStates
  <2>2. /\ call' = [call EXCEPT ![t] = d] /\ holder' = [holder EXCEPT ![g.on] = "none"]
        /\ UNCHANGED <<kept, lost>>
    BY <1>3 DEF Moved
  <2> HIDE DEF d
  <2>3. CallInv(d) /\ ResultInv(d)
    BY <2>1 DEF CallInv, ResultInv
  <2>4. Becomes(t, d)
    BY <1>1, <2>1, <2>2, <2>3 DEF Becomes, StreamsInv, TypeOK
  <2>5. ASSUME NEW e \in Ends PROVE Gathers(t, e)
    <3>1. Held(t, e)' = InHandOf(g, e) /\ \A u \in Tasks \ {t} : Held(u, e)' = Held(u, e)
      BY <2>1, <2>4, HeldAfter DEF InHandOf
    <3> QED  BY <2>2, <3>1 DEF Gathers
  <2>6. kept' \in [Ends -> SUBSET Nat] /\ lost' \in [Ends -> SUBSET Nat]
    BY <2>2 DEF StreamsInv, TypeOK
  <2> QED  BY <2>1, <2>4, <2>5, <2>6
<1> QED  BY <1>2, <1>3

LEMMA ReadStep ==
  ASSUME StreamsInv, NEW t \in Tasks, Read(t)
  PROVE  \E d : Kept(t, d)
<1> DEFINE c == call[t]
           e == c.on
<1>0. /\ c \in Call /\ c.at = "call" /\ c.op \in Reads /\ c.on \in Ends /\ CallInv(c)
      /\ c.got \in Seq(Nat) /\ c.size \in 0 .. 2 /\ Holds(t)
  BY CallFields DEF Read, Holds
<1>1. PICK n \in 1 .. Waiting(c.on) :
        /\ n <= Asks(c)
        /\ taken' = [taken EXCEPT ![c.on] = @ + n]
        /\ Moved(t, [c EXCEPT !.got = @ \o NextPlaces(c.on, n)])
  BY DEF Read
<1>2. n \in Nat /\ (\A f \in Ends : taken[f] \in Nat) /\ taken[e] \in Nat /\ Len(c.got) \in Nat
  <2>1. Waiting(c.on) \in Int
    BY <1>0 DEF Waiting, StreamsInv, TypeOK
  <2> QED  BY <1>0, <2>1 DEF StreamsInv, TypeOK
<1> DEFINE got == c.got \o Places(taken[e], n)
           g == [c EXCEPT !.got = got]
<1>3. /\ got \in Seq(Nat) /\ Len(got) = Len(c.got) + n
      /\ \A i \in 1 .. Len(c.got) : got[i] = c.got[i]
      /\ \A i \in 1 .. Len(c.got) + n : i \notin 1 .. Len(c.got)
                                         => got[i] = taken[e] + (i - Len(c.got))
  <2>1. c.got \in Seq(Nat) /\ taken[e] \in Nat /\ n \in Nat
    BY <1>0, <1>2
  <2> HIDE DEF c, e
  <2> QED  BY <2>1, Extended
<1>4. ToSet(got) = ToSet(c.got) \cup (taken[e] + 1 .. taken[e] + n)
  <2>1. c.got \in Seq(Nat) /\ taken[e] \in Nat /\ n \in Nat
    BY <1>0, <1>2
  <2> HIDE DEF c, e
  <2> QED  BY <2>1, ExtendedSet
<1>5. Moved(t, g)
  BY <1>1 DEF NextPlaces
<1> HIDE DEF got
<1>6. /\ g \in Call /\ g.op = c.op /\ g.on = c.on /\ g.at = "call" /\ g.size = c.size
      /\ g.got = got /\ g.res = c.res /\ g.ctl = c.ctl
  BY <1>0, <1>3 DEF Call
<1> HIDE DEF g, c
<1>7. CallInv(g)
  <2>1. c.op = "read_exact" => n <= c.size - Len(c.got)
    BY <1>1 DEF Asks
  <2>2. c.op \in {"read_exact", "write_all"} => Len(got) <= c.size
    BY <1>0, <1>2, <1>3, <2>1 DEF Reads
  <2> QED  BY <1>0, <1>6, <2>2 DEF CallInv
<1>8. \A f \in Ends : taken'[f] = IF f = e THEN taken[f] + n ELSE taken[f]
  BY <1>0, <1>1 DEF StreamsInv, TypeOK
<1>9. ASSUME NEW f \in Ends
      PROVE  /\ taken'[f] \in Nat /\ taken[f] <= taken'[f]
             /\ InHandOf(g, f) = Held(t, f) \cup (taken[f] + 1 .. taken'[f])
  <2>1. taken'[f] \in Nat /\ taken[f] <= taken'[f]
    BY <1>2, <1>8
  <2>2. CASE f = e
    <3>1. InHandOf(g, f) = ToSet(got) /\ Held(t, f) = ToSet(c.got)
      BY <1>0, <1>6, <2>2 DEF InHandOf, Held, c
    <3> QED  BY <1>4, <1>8, <2>1, <2>2, <3>1
  <2>3. CASE f # e
    <3>1. InHandOf(g, f) = {} /\ Held(t, f) = {}
      BY <1>6, <2>3 DEF InHandOf, Held, c
    <3>2. taken[f] + 1 .. taken'[f] = {}
      BY <1>2, <1>8, <2>3
    <3> QED  BY <2>1, <3>1, <3>2
  <2> QED  BY <2>2, <2>3
<1>10. PICK d : /\ Becomes(t, d) /\ \A f \in Ends : Gathers(t, f)
                /\ kept' \in [Ends -> SUBSET Nat] /\ lost' \in [Ends -> SUBSET Nat]
                /\ d.op = g.op /\ d.on = g.on /\ d.got = g.got
  BY <1>0, <1>5, <1>6, <1>7, <1>9, MovedKeeps DEF Read, c
<1>11. /\ call'[t] = d /\ \A u \in Tasks \ {t} : call'[u] = call[u]
  BY <1>10, BecomesKeeps
<1>12. WrittenInv'
  <2>1. call'[t].op \notin Writes
    BY <1>0, <1>6, <1>10, <1>11 DEF Reads, Writes
  <2> QED  BY <1>11, <2>1, SMTT(30) DEF Read, StreamsInv, WrittenInv
<1>13. Increasing(got)
  <2>1. ToSet(c.got) \subseteq 1 .. taken[e]
    <3>1. Held(t, e) = ToSet(c.got)
      BY <1>0 DEF Held, InHandOf, c
    <3> QED  BY <1>0, <3>1 DEF StreamsInv, PartitionInv, Partition
  <2>2. ASSUME NEW i \in 1 .. Len(c.got) PROVE c.got[i] \in 1 .. taken[e]
    BY <1>0, <2>1, ToSetOf
  <2>3. Increasing(c.got)
    BY <1>0 DEF StreamsInv, OrderInv, c
  <2> SUFFICES ASSUME NEW i \in 1 .. Len(got), NEW j \in 1 .. Len(got), i < j
               PROVE  got[i] < got[j]
    BY DEF Increasing
  <2>4. CASE j \in 1 .. Len(c.got)
    <3>1. i \in 1 .. Len(c.got)
      BY <1>3, <2>4
    <3> QED  BY <1>3, <2>3, <2>4, <3>1 DEF Increasing
  <2>5. CASE j \notin 1 .. Len(c.got) /\ i \in 1 .. Len(c.got)
    <3>1. got[i] = c.got[i] /\ c.got[i] \in 1 .. taken[e]
      BY <1>3, <2>2, <2>5
    <3>2. got[j] = taken[e] + (j - Len(c.got)) /\ j - Len(c.got) \in Nat \ {0}
      <4>1. j \in 1 .. Len(c.got) + n /\ Len(c.got) \in Nat
        BY <1>0, <1>3
      <4>2. got[j] = taken[e] + (j - Len(c.got))
        BY <1>3, <2>5, <4>1
      <4>3. j - Len(c.got) \in Nat \ {0}
        BY <2>5, <4>1, <1>2
      <4> QED  BY <4>2, <4>3
    <3> QED  BY <1>0, <1>2, <3>1, <3>2
  <2>6. CASE j \notin 1 .. Len(c.got) /\ i \notin 1 .. Len(c.got)
    <3>1. got[i] = taken[e] + (i - Len(c.got)) /\ got[j] = taken[e] + (j - Len(c.got))
      BY <1>3, <2>6
    <3> QED  BY <1>2, <3>1
  <2> QED  BY <2>4, <2>5, <2>6
<1>14. OrderInv'
  <2>1. call'[t].got = got
    BY <1>6, <1>10, <1>11
  <2> QED  BY <1>11, <1>13, <2>1 DEF StreamsInv, OrderInv, Increasing
<1>15. taken' \in [Ends -> Nat]
  <2>1. taken' = [f \in Ends |-> taken'[f]]
    BY <1>1 DEF StreamsInv, TypeOK
  <2> QED  BY <1>9, <2>1
<1> QED  BY <1>10, <1>12, <1>14, <1>15 DEF Kept, Read, StreamsInv, TypeOK

LEMMA WriteStep ==
  ASSUME StreamsInv, NEW t \in Tasks, Write(t)
  PROVE  \E d : Kept(t, d)
<1> DEFINE c == call[t]
           to == Other[c.on]
           old == sent[to]
<1>0. /\ c \in Call /\ c.at = "call" /\ c.op \in Writes /\ c.on \in Ends /\ CallInv(c)
      /\ c.got \in Seq(Nat) /\ c.size \in 0 .. 2 /\ Holds(t)
  BY CallFields DEF Write, Holds
<1>1. PICK n \in 1 .. (Room - Waiting(to)) :
        /\ n <= Asks(c)
        /\ sent' = [sent EXCEPT ![to] = @ \o [i \in 1 .. n |-> t]]
        /\ Moved(t, [c EXCEPT !.got = @ \o Places(Len(old), n)])
  BY DEF Write
<1>2. /\ to \in Ends /\ old \in Seq(Tasks) /\ Len(old) \in Nat /\ n \in Nat
      /\ Len(c.got) \in Nat /\ \A f \in Ends : taken[f] \in Nat
  <2>1. to \in Ends
    BY <1>0 DEF Other, Ends
  <2>2. Room - Waiting(to) \in Int
    BY <2>1, StreamsAssumption DEF Waiting, StreamsInv, TypeOK
  <2> QED  BY <1>0, <2>1, <2>2 DEF StreamsInv, TypeOK
<1> DEFINE got == c.got \o Places(Len(old), n)
           g == [c EXCEPT !.got = got]
           new == old \o [i \in 1 .. n |-> t]
<1>3. /\ got \in Seq(Nat) /\ Len(got) = Len(c.got) + n
      /\ \A i \in 1 .. Len(c.got) : got[i] = c.got[i]
      /\ \A i \in 1 .. Len(c.got) + n : i \notin 1 .. Len(c.got)
                                         => got[i] = Len(old) + (i - Len(c.got))
  <2>1. c.got \in Seq(Nat) /\ Len(old) \in Nat /\ n \in Nat
    BY <1>0, <1>2
  <2> HIDE DEF c, old
  <2> QED  BY <2>1, Extended
<1>4. /\ new \in Seq(Tasks) /\ Len(new) = Len(old) + n
      /\ \A i \in 1 .. Len(old) : new[i] = old[i]
      /\ \A i \in 1 .. Len(old) + n : i \notin 1 .. Len(old) => new[i] = t
  <2> DEFINE mine == [i \in 1 .. n |-> t]
  <2>1. mine \in Seq(Tasks) /\ Len(mine) = n /\ \A i \in 1 .. n : mine[i] = t
    BY <1>2
  <2>2. new = old \o mine
    OBVIOUS
  <2>3. old \in Seq(Tasks) /\ Len(old) \in Nat /\ n \in Nat
    BY <1>2
  <2> HIDE DEF mine, old, new
  <2>4. /\ new \in Seq(Tasks) /\ Len(new) = Len(old) + n
        /\ \A i \in 1 .. Len(old) : new[i] = old[i]
        /\ \A i \in 1 .. Len(old) + n : i \notin 1 .. Len(old) => new[i] = mine[i - Len(old)]
    BY <2>1, <2>2, <2>3, Joined
  <2>5. \A i \in 1 .. Len(old) + n : i \notin 1 .. Len(old) => i - Len(old) \in 1 .. n
    BY <2>3, <2>4
  <2> QED  BY <2>1, <2>4, <2>5
<1>5. Moved(t, g)
  BY <1>1
<1>6. /\ g \in Call /\ g.op = c.op /\ g.on = c.on /\ g.at = "call" /\ g.size = c.size
      /\ g.got = got /\ g.res = c.res /\ g.ctl = c.ctl
  <2> HIDE DEF got
  <2> QED  BY <1>0, <1>3 DEF Call
<1>7. sent' = [sent EXCEPT ![to] = new]
  BY <1>1
<1> HIDE DEF g, got, new, c
<1>8. CallInv(g)
  <2>1. c.op = "write_all" => n <= c.size - Len(c.got)
    BY <1>1 DEF Asks
  <2>2. c.op \in {"read_exact", "write_all"} => Len(got) <= c.size
    BY <1>0, <1>2, <1>3, <2>1 DEF Writes
  <2> QED  BY <1>0, <1>6, <2>2 DEF CallInv
<1>9. ASSUME NEW f \in Ends
      PROVE  /\ taken'[f] = taken[f] /\ taken'[f] \in Nat /\ taken[f] <= taken'[f]
             /\ InHandOf(g, f) = Held(t, f) \cup (taken[f] + 1 .. taken'[f])
  <2>1. taken'[f] = taken[f] /\ taken[f] \in Nat
    BY <1>2 DEF Write
  <2>2. taken[f] + 1 .. taken'[f] = {}
    BY <2>1
  <2>3. InHandOf(g, f) = {} /\ Held(t, f) = {}
    BY <1>0, <1>6 DEF InHandOf, Held, c, Reads, Writes
  <2> QED  BY <2>1, <2>2, <2>3
<1>10. PICK d : /\ Becomes(t, d) /\ \A f \in Ends : Gathers(t, f)
                /\ kept' \in [Ends -> SUBSET Nat] /\ lost' \in [Ends -> SUBSET Nat]
                /\ d.op = g.op /\ d.on = g.on /\ d.got = g.got
  BY <1>0, <1>5, <1>6, <1>8, <1>9, MovedKeeps DEF Write, c
<1>11. /\ call'[t] = d /\ \A u \in Tasks \ {t} : call'[u] = call[u]
  BY <1>10, BecomesKeeps
<1>12. OrderInv'
  <2>1. call'[t].op \notin Reads
    BY <1>0, <1>6, <1>10, <1>11 DEF Reads, Writes
  <2> QED  BY <1>11, <2>1 DEF StreamsInv, OrderInv, Increasing
<1>13. /\ sent' \in [Ends -> Seq(Tasks)]
       /\ \A f \in Ends : /\ Len(sent'[f]) >= Len(sent[f])
                          /\ \A i \in 1 .. Len(sent[f]) : sent'[f][i] = sent[f][i]
  <2>1. \A f \in Ends : sent'[f] = IF f = to THEN new ELSE sent[f]
    BY <1>2, <1>7 DEF StreamsInv, TypeOK
  <2>2. \A f \in Ends : Len(sent[f]) \in Nat
    BY DEF StreamsInv, TypeOK
  <2>3. sent' \in [Ends -> Seq(Tasks)]
    BY <1>2, <1>4, <1>7 DEF StreamsInv, TypeOK
  <2> SUFFICES ASSUME NEW f \in Ends
               PROVE  /\ Len(sent'[f]) >= Len(sent[f])
                      /\ \A i \in 1 .. Len(sent[f]) : sent'[f][i] = sent[f][i]
    BY <2>3
  <2>4. CASE f = to
    <3>1. Len(new) >= Len(old)
      BY <1>2, <1>4
    <3> QED  BY <1>4, <2>1, <2>4, <3>1
  <2>5. CASE f # to
    BY <2>1, <2>2, <2>5
  <2> QED  BY <2>4, <2>5
<1>14. WrittenInv'
  <2> SUFFICES ASSUME NEW u \in Tasks, call'[u].op \in Writes,
                      NEW i \in 1 .. Len(call'[u].got)
               PROVE  /\ call'[u].got[i] \in 1 .. Len(sent'[Other[call'[u].on]])
                      /\ sent'[Other[call'[u].on]][call'[u].got[i]] = u
    BY DEF WrittenInv
  <2>1. ASSUME NEW x \in Tasks, call[x].op \in Writes, NEW j \in 1 .. Len(call[x].got)
        PROVE  /\ call[x].got[j] \in 1 .. Len(sent'[Other[call[x].on]])
               /\ sent'[Other[call[x].on]][call[x].got[j]] = x
    <3>1. /\ call[x].got[j] \in 1 .. Len(sent[Other[call[x].on]])
          /\ sent[Other[call[x].on]][call[x].got[j]] = x
      BY <2>1 DEF StreamsInv, WrittenInv
    <3>2. call[x].on \in Ends
      <4>1. call[x].got # <<>>
        OBVIOUS
      <4> QED  BY <4>1, CallFields DEF CallInv
    <3>3. PICK f \in Ends : f = Other[call[x].on]
      BY <3>2 DEF Other, Ends
    <3>4. Len(sent[f]) \in Nat /\ Len(sent'[f]) \in Nat
      BY <1>13 DEF StreamsInv, TypeOK
    <3> QED  BY <1>13, <3>1, <3>3, <3>4, SMTT(30)
  <2>2. CASE u # t
    BY <1>11, <2>1, <2>2
  <2>3. CASE u = t
    <3>1. call'[t].got = got /\ call'[t].on = c.on /\ sent'[to] = new
      BY <1>2, <1>6, <1>7, <1>10, <1>11 DEF StreamsInv, TypeOK
    <3>2. CASE i \in 1 .. Len(c.got)
      <4>1. call[t].op \in Writes /\ i \in 1 .. Len(call[t].got)
        BY <1>0, <3>2 DEF c
      <4>2. /\ call[t].got[i] \in 1 .. Len(sent'[Other[call[t].on]])
            /\ sent'[Other[call[t].on]][call[t].got[i]] = t
        BY <2>1, <4>1
      <4>3. got[i] = call[t].got[i] /\ call'[t].on = call[t].on
        BY <1>3, <3>1, <3>2 DEF c
      <4> QED  BY <2>3, <3>1, <4>2, <4>3
    <3>3. CASE i \notin 1 .. Len(c.got)
      <4>1. i \in 1 .. Len(got) /\ got[i] = Len(old) + (i - Len(c.got))
        BY <1>3, <2>3, <3>1, <3>3
      <4>2. got[i] \in 1 .. Len(new) /\ got[i] \notin 1 .. Len(old)
        <5>1. i \in 1 .. Len(c.got) + n
          BY <1>3, <4>1
        <5>2. /\ Len(old) + (i - Len(c.got)) \in 1 .. Len(old) + n
              /\ Len(old) + (i - Len(c.got)) \notin 1 .. Len(old)
          BY <1>2, <3>3, <5>1, Shifted
        <5> QED  BY <1>4, <4>1, <5>2
      <4>3. got[i] \in 1 .. Len(old) + n
        BY <1>4, <4>2
      <4>4. new[got[i]] = t
        BY <1>4, <4>2, <4>3
      <4> QED  BY <2>3, <3>1, <4>2, <4>4
    <3> QED  BY <3>2, <3>3
  <2> QED  BY <2>2, <2>3
<1>15. reset' \in [Ends -> BOOLEAN]
  BY DEF Write, StreamsInv, TypeOK
<1> QED  BY <1>10, <1>12, <1>13, <1>14, <1>15 DEF Kept, Write, StreamsInv, TypeOK

----------------------------------------------------------------------------
(* Time, the token and the clients touch no call, and a reason stays one.  *)
LEMMA WorldStep ==
  ASSUME StreamsInv, Expire \/ Cancel \/ Arrive \/ UNCHANGED vars
  PROVE  StreamsInv'
<1>1. /\ UNCHANGED <<open, holder, timed, sent, taken, reset, kept, lost, call, calls>>
      /\ expired => expired'
      /\ cancelled => cancelled'
      /\ expired' \in BOOLEAN /\ cancelled' \in BOOLEAN /\ backlog' \in {0, 1}
  <2>1. CASE Expire
    BY <2>1 DEF Expire, worldVars, StreamsInv, TypeOK
  <2>2. CASE Cancel
    BY <2>2 DEF Cancel, worldVars, StreamsInv, TypeOK
  <2>3. CASE Arrive
    BY <2>3 DEF Arrive, StreamsInv, TypeOK
  <2>4. CASE UNCHANGED vars
    BY <2>4 DEF vars, StreamsInv, TypeOK
  <2> QED  BY <2>1, <2>2, <2>3, <2>4
<1>2. TypeOK'
  BY <1>1 DEF StreamsInv, TypeOK
<1>3. CallsInv' /\ WrittenInv' /\ OrderInv'
  BY <1>1 DEF StreamsInv, CallsInv, CallInv, WrittenInv, OrderInv, Increasing
<1>4. ResultsInv'
  BY <1>1 DEF StreamsInv, ResultsInv, ResultInv, Stopped, TimedOut
<1>5. MutexInv'
  BY <1>1 DEF StreamsInv, MutexInv, Holds, Sliced
<1>6. PartitionInv'
  BY <1>1, SMTT(30) DEF StreamsInv, PartitionInv, Partition, Held, InHandOf
<1> QED  BY <1>2, <1>3, <1>4, <1>5, <1>6 DEF StreamsInv

LEMMA Inductive == StreamsInv /\ [Next]_vars => StreamsInv'
<1> SUFFICES ASSUME StreamsInv, [Next]_vars PROVE StreamsInv'
  OBVIOUS
<1>1. ASSUME NEW t \in Tasks, Begin(t) \/ Step(t) PROVE StreamsInv'
  <2>1. \E d : Kept(t, d)
    <3>1. CASE Begin(t)
      BY <3>1, BeginStep
    <3>2. CASE Lock(t)
      BY <3>2, LockStep
    <3>3. CASE Close(t)
      BY <3>3, CloseStep
    <3>4. CASE Arm(t)
      BY <3>4, ArmStep
    <3>5. CASE Read(t)
      BY <3>5, ReadStep
    <3>6. CASE Write(t)
      BY <3>6, WriteStep
    <3>7. CASE ReadNothing(t) \/ Broken(t)
      BY <3>7, FailStep
    <3>8. CASE SliceEnds(t) \/ Accept(t)
      BY <3>8, WaitStep
    <3> QED  BY <1>1, <3>1, <3>2, <3>3, <3>4, <3>5, <3>6, <3>7, <3>8 DEF Step
  <2> QED  BY <2>1, KeptKeeps
<1>2. CASE Expire \/ Cancel \/ Arrive \/ UNCHANGED vars
  BY <1>2, WorldStep
<1> QED  BY <1>1, <1>2 DEF Next

LEMMA Initially == Init => StreamsInv
<1> SUFFICES ASSUME Init PROVE StreamsInv
  OBVIOUS
<1>1. <<>> \in Seq(Nat) /\ <<>> \in Seq(Tasks) /\ ToSet(<<>>) = {} /\ Len(<<>>) = 0
  BY DEF ToSet
<1>2. Idle \in Call
  BY <1>1 DEF Idle, Call, CallStates, Outcomes, Handles, AllControls
<1>3. \A t \in Tasks : call[t] = Idle
  BY DEF Init
<1>4. TypeOK
  BY <1>1, <1>2 DEF Init, TypeOK
<1>5. CallsInv /\ ResultsInv /\ MutexInv
  BY <1>1, <1>3 DEF CallsInv, CallInv, ResultsInv, ResultInv, MutexInv, Holds, Idle
<1>6. WrittenInv /\ OrderInv
  BY <1>1, <1>3 DEF WrittenInv, OrderInv, Increasing, Idle
<1>7. PartitionInv
  <2> SUFFICES ASSUME NEW e \in Ends PROVE Partition(e)
    BY DEF PartitionInv
  <2>1. \A t \in Tasks : Held(t, e) = {}
    BY <1>3 DEF Held, InHandOf, Idle
  <2>2. taken[e] = 0 /\ kept[e] = {} /\ lost[e] = {}
    BY DEF Init
  <2>3. 1 .. taken[e] = {}
    BY <2>2
  <2> QED  BY <2>1, <2>2, <2>3 DEF Partition
<1> QED  BY <1>4, <1>5, <1>6, <1>7 DEF StreamsInv

(* The streams keep their invariant: types, the mutex of every handle, and *)
(* a place for every byte.                                                 *)
THEOREM StreamsInvariant == Spec => []StreamsInv
BY Initially, Inductive, PTL DEF Spec

(* However many tasks share an end of a connection, whatever their calls   *)
(* and wherever a deadline, a token, a close or a reset stops one, every   *)
(* byte taken from the kernel is in the result of one read, in the hands   *)
(* of one that still collects, or gone with one that failed.               *)
THEOREM BytesConserved == Spec => []BytesAreConserved
<1>1. StreamsInv => BytesAreConserved
  <2> SUFFICES ASSUME StreamsInv, NEW e \in Ends
               PROVE  /\ 1 .. taken[e] = kept[e] \cup lost[e] \cup InHand(e)
                      /\ kept[e] \cap lost[e] = {}
                      /\ InHand(e) \cap (kept[e] \cup lost[e]) = {}
                      /\ \A t, u \in Tasks :
                           /\ Collects(t, e) => Increasing(call[t].got)
                           /\ Collects(t, e) /\ Collects(u, e) /\ t # u =>
                                ToSet(call[t].got) \cap ToSet(call[u].got) = {}
    BY DEF BytesAreConserved, Increasing
  <2>1. Partition(e)
    BY DEF StreamsInv, PartitionInv
  <2>2. ASSUME NEW t \in Tasks
        PROVE  Held(t, e) = IF Collects(t, e) THEN ToSet(call[t].got) ELSE {}
    BY DEF Held, InHandOf, Collects, Done
  <2>3. InHand(e) = UNION {Held(t, e) : t \in Tasks}
    BY <2>2 DEF InHand
  <2>4. \A t \in Tasks : Collects(t, e) => Increasing(call[t].got)
    BY DEF StreamsInv, OrderInv, Collects
  <2> QED  BY <2>1, <2>2, <2>3, <2>4 DEF Partition
<1> QED  BY <1>1, StreamsInvariant, PTL

(* Every call of every program ends the way it says, for a reason of its   *)
(* own view of the handle, and blocks only with the handle's mutex and its *)
(* own timeout.                                                            *)
THEOREM OutcomesHonest == Spec => []OutcomesAreHonest
<1>1. StreamsInv => OutcomesAreHonest
  BY DEF StreamsInv, OutcomesAreHonest, ResultsInv, ResultInv, WrittenInv, MutexInv
<1> QED  BY <1>1, StreamsInvariant, PTL

----------------------------------------------------------------------------
(* Connect                                                                 *)

(* With a token, n attempts of a slice each may be made beyond the last    *)
(* look at the clock and the token.                                        *)
Timely(n) == (C!HasDeadline => now < deadline + n) /\ now < cancelAt + n

(* A round that was begun in time has made next - 1 attempts; each of them *)
(* refused or was too slow.                                                *)
RoundInv ==
  /\ slice = 1 /\ Timely(next - 1)
  /\ next > 1 => refused \/ missed

(* Without a token the attempts share what is left of the deadline, and    *)
(* have all the system's patience where there is none.                     *)
Lone ==
  /\ Len(list) = 1 /\ list[1].how = "answers"
  /\ 0 < deadline /\ list[1].after <= C!Least(deadline, Patience)
Answers(i) == list[i].how = "answers" /\ list[i].after <= Patience
SharedInv ==
  /\ C!HasDeadline => now <= deadline
  /\ next = 1 => now = 0
  /\ ~C!HasDeadline => \A i \in 1 .. next - 1 : ~Answers(i)
  /\ Lone => next = 1

ConnectInv ==
  /\ C!TypeOK
  /\ at = "start" => now = 0 /\ next = 1
  /\ at \in {"round", "try"} => list # <<>>
  /\ at = "round" => C!HasToken /\ Timely(Len(list))
  /\ at = "try" => IF C!HasToken THEN RoundInv ELSE SharedInv
  /\ C!GivesUpRightly

LEMMA ConnectConstants ==
  /\ list \in Addresses => list \in Seq(C!Peers) /\ Len(list) \in Nat
                           /\ \A i \in 1 .. Len(list) : list[i].after \in Nat
  /\ deadline \in Deadlines => deadline \in Nat
  /\ cancelAt \in Cancels => cancelAt \in Nat
  /\ Never \in Nat /\ NoToken \in Nat /\ Patience \in Nat /\ Patience > 0
  /\ Horizon \in Nat /\ Horizon <= Never
<1>1. ASSUME list \in Addresses
      PROVE  list \in Seq(C!Peers) /\ Len(list) \in Nat
             /\ \A i \in 1 .. Len(list) : list[i].after \in Nat
  <2>1. list \in Seq(C!Peers)
    BY <1>1, SocketsAssumption DEF C!ConnectAssumption
  <2>2. \A i \in 1 .. Len(list) : list[i] \in C!Peers
    BY <2>1
  <2>3. \A p \in C!Peers : p.after \in Nat
    BY DEF C!Peers
  <2> QED  BY <2>1, <2>2, <2>3
<1>2. /\ Never \in Nat /\ NoToken \in Nat /\ Patience \in Nat /\ Patience > 0
      /\ Horizon \in Nat /\ Horizon <= Never
      /\ Deadlines \subseteq 0 .. Never /\ Cancels \subseteq 0 .. NoToken
  BY SocketsAssumption DEF C!ConnectAssumption
<1>3. 0 .. Never \subseteq Nat /\ 0 .. NoToken \subseteq Nat
  OBVIOUS
<1>4. Deadlines \subseteq Nat /\ Cancels \subseteq Nat
  BY <1>2, <1>3
<1> QED  BY <1>1, <1>2, <1>4

LEMMA ConnectStarts == C!Init => ConnectInv
<1> SUFFICES ASSUME C!Init PROVE ConnectInv
  OBVIOUS
<1>1. Len(list) \in Nat /\ Horizon \in Nat
  BY ConnectConstants DEF C!Init
<1>2. 1 \in 1 .. Len(list) + 1 /\ 0 \in 0 .. Horizon
  BY <1>1
<1>3. C!TypeOK
  BY <1>2 DEF C!Init, C!TypeOK
<1> QED  BY <1>3 DEF C!Init, ConnectInv, C!GivesUpRightly

LEMMA StartStep ==
  ASSUME ConnectInv, C!Start PROVE ConnectInv'
<1>1. now = 0 /\ next = 1 /\ now' = 0 /\ next' = 1 /\ UNCHANGED C!control
  BY DEF ConnectInv, C!Start, C!GiveUp
<1>2. C!TypeOK'
  BY <1>1 DEF ConnectInv, C!TypeOK, C!Start, C!GiveUp, C!control
<1>3. list \in Addresses /\ deadline \in Deadlines /\ cancelAt \in Cancels
  BY DEF ConnectInv, C!TypeOK
<1>4. Len(list) \in Nat /\ deadline \in Nat /\ cancelAt \in Nat
  BY <1>3, ConnectConstants
<1>5. CASE C!Cancelled
  BY <1>1, <1>2, <1>4, <1>5
     DEF C!Start, C!GiveUp, ConnectInv, C!GivesUpRightly, C!Cancelled, C!HasToken,
         C!HasDeadline, C!control
<1>6. CASE ~C!Cancelled /\ list = <<>>
  BY <1>1, <1>2, <1>4, <1>6
     DEF C!Start, C!GiveUp, ConnectInv, C!GivesUpRightly, C!Cancelled, C!HasToken,
         C!HasDeadline, C!control
<1>7. CASE ~C!Cancelled /\ list # <<>>
  <2>1. at' = IF C!HasToken THEN "round" ELSE "try"
    BY <1>7 DEF C!Start
  <2>2. Len(list) > 0
    BY <1>3, <1>7, ConnectConstants
  <2> QED
    BY <1>1, <1>2, <1>4, <1>7, <2>1, <2>2
       DEF ConnectInv, C!GivesUpRightly, C!Cancelled, C!HasToken, C!HasDeadline, C!control,
           Timely, SharedInv, Lone, Answers
<1> QED  BY <1>5, <1>6, <1>7

LEMMA RoundStep ==
  ASSUME ConnectInv, C!Round PROVE ConnectInv'
<1>1. at = "round" /\ C!HasToken /\ Timely(Len(list)) /\ list # <<>>
  BY DEF ConnectInv, C!Round
<1>2. list \in Addresses /\ deadline \in Deadlines /\ cancelAt \in Cancels /\ now \in 0 .. Horizon
  BY DEF ConnectInv, C!TypeOK
<1>3. Len(list) \in Nat /\ deadline \in Nat /\ cancelAt \in Nat /\ now \in Nat
  BY <1>2, ConnectConstants
<1>4. UNCHANGED <<C!control, now>>
  BY DEF C!Round, C!GiveUp
<1>5. CASE C!Cancelled \/ C!Expired
  <2>1. /\ at' = "over" /\ UNCHANGED <<slice, next, refused, missed>>
        /\ res' = IF C!Cancelled THEN "cancelled" ELSE "timeout"
    BY <1>5 DEF C!Round, C!GiveUp
  <2>2. C!TypeOK'
    BY <1>4, <2>1 DEF ConnectInv, C!TypeOK, C!control
  <2> QED
    BY <1>1, <1>3, <1>4, <1>5, <2>1, <2>2
       DEF ConnectInv, C!GivesUpRightly, C!Cancelled, C!Expired, C!HasToken, C!HasDeadline,
           C!control, Timely
<1>6. CASE ~C!Cancelled /\ ~C!Expired
  <2>1. /\ slice' = (IF C!HasDeadline THEN C!Least(1, C!Remaining) ELSE 1)
        /\ next' = 1 /\ refused' = FALSE /\ missed' = FALSE /\ at' = "try" /\ res' = res
    BY <1>6 DEF C!Round
  <2>2. slice' = 1
    BY <1>3, <1>6, <2>1 DEF C!Least, C!Remaining, C!Expired
  <2>3. C!TypeOK'
    <3>1. 1 \in 1 .. Len(list) + 1
      BY <1>3
    <3> QED  BY <1>4, <2>1, <2>2, <3>1 DEF ConnectInv, C!TypeOK, C!control
  <2>4. RoundInv'
    BY <1>1, <1>3, <1>4, <1>6, <2>1, <2>2
       DEF RoundInv, Timely, C!Cancelled, C!Expired, C!HasToken, C!HasDeadline, C!control
  <2> QED
    BY <1>1, <1>4, <2>1, <2>3, <2>4
       DEF ConnectInv, C!GivesUpRightly, C!HasToken, C!control
<1> QED  BY <1>5, <1>6

LEMMA AttemptStep ==
  ASSUME ConnectInv, at = "try", next <= Len(list), C!HasToken \/ ~C!Expired, C!Attempt
  PROVE  ConnectInv'
<1> DEFINE p == list[next]
           spent == IF C!InTime(p) THEN p.after ELSE C!Limit
           met == C!InTime(p) /\ p.how = "answers"
<1>1. list \in Addresses /\ deadline \in Deadlines /\ cancelAt \in Cancels
      /\ now \in 0 .. Horizon /\ next \in 1 .. Len(list) + 1 /\ slice \in {0, 1}
      /\ refused \in BOOLEAN /\ missed \in BOOLEAN
  BY DEF ConnectInv, C!TypeOK
<1>2. Len(list) \in Nat /\ deadline \in Nat /\ cancelAt \in Nat /\ now \in Nat /\ Patience \in Nat
      /\ Horizon \in Nat
  BY <1>1, ConnectConstants
<1>3. next \in 1 .. Len(list) /\ p.after \in Nat
  BY <1>1, <1>2, ConnectConstants
<1>4. /\ now' = C!Least(now + spent, Horizon) /\ UNCHANGED <<C!control, slice>>
      /\ met => at' = "over" /\ res' = "ok" /\ UNCHANGED <<next, refused, missed>>
      /\ ~met => /\ next' = next + 1 /\ UNCHANGED <<at, res>>
                 /\ refused' = IF C!InTime(p) THEN TRUE
                               ELSE IF C!HasToken THEN refused ELSE FALSE
                 /\ missed' = (missed \/ ~C!InTime(p))
  BY DEF C!Attempt
<1>5. C!HasToken' = C!HasToken /\ C!HasDeadline' = C!HasDeadline
  BY <1>4 DEF C!HasToken, C!HasDeadline, C!control
<1>6. C!Limit \in Nat
  BY <1>1, <1>2 DEF C!Limit, C!Remaining, C!Expired
<1>7. spent \in Nat /\ spent <= C!Limit
  BY <1>3, <1>6 DEF C!InTime
<1>8. now' \in 0 .. Horizon /\ now' <= now + spent
  BY <1>2, <1>4, <1>7 DEF C!Least
<1>9. C!TypeOK'
  <2>1. next \in 1 .. Len(list) + 1 /\ next + 1 \in 1 .. Len(list) + 1
    BY <1>2, <1>3
  <2>2. next' \in 1 .. Len(list) + 1 /\ refused' \in BOOLEAN /\ missed' \in BOOLEAN
    BY <1>1, <1>4, <2>1
  <2>3. /\ at' \in {"try", "over"} /\ res' \in {res, "ok"}
        /\ res \in {"none", "ok", "cancelled", "timeout", "refused", "dns"}
    BY <1>4 DEF ConnectInv, C!TypeOK
  <2>4. list' = list /\ deadline' = deadline /\ cancelAt' = cancelAt /\ slice' = slice
    BY <1>4 DEF C!control
  <2> HIDE DEF p, spent, met
  <2> QED  BY <1>1, <1>8, <2>2, <2>3, <2>4 DEF C!TypeOK
<1>10. list # <<>>
  BY DEF ConnectInv
<1>11. CASE C!HasToken
  <2>1. RoundInv /\ C!Limit = 1
    BY <1>11 DEF ConnectInv, RoundInv, C!Limit
  <2>2. now' <= now + 1
    BY <1>2, <1>7, <1>8, <2>1
  <2>3. (C!HasDeadline => now' < deadline + next) /\ now' < cancelAt + next
    BY <1>2, <1>3, <1>8, <2>1, <2>2 DEF RoundInv, Timely
  <2>4. CASE met
    BY <1>2, <1>3, <1>4, <1>5, <1>8, <1>9, <1>10, <1>11, <2>3, <2>4
       DEF ConnectInv, C!GivesUpRightly, C!control
  <2>5. CASE ~met
    <3>1. RoundInv'
      <4>1. next' = next + 1 /\ (refused' \/ missed') /\ slice' = slice
            /\ deadline' = deadline /\ cancelAt' = cancelAt
        BY <1>1, <1>4, <2>5 DEF C!control
      <4>2. next' - 1 = next
        BY <1>3, <4>1
      <4> QED  BY <1>5, <2>1, <2>3, <4>1, <4>2 DEF RoundInv, Timely
    <3> QED
      BY <1>4, <1>5, <1>9, <1>10, <1>11, <2>5, <3>1 DEF ConnectInv, C!GivesUpRightly, C!control
  <2> QED  BY <2>4, <2>5
<1>12. CASE ~C!HasToken
  <2>1. SharedInv
    BY <1>12 DEF ConnectInv
  <2>2. C!HasDeadline => now' <= deadline
    BY <1>2, <1>7, <1>8, <1>12 DEF C!Limit, C!Remaining, C!Expired
  <2>3. CASE met
    <3>1. at' = "over" /\ res' = "ok" /\ list' = list /\ deadline' = deadline
      BY <1>4, <2>3 DEF C!control
    <3>2. C!GivesUpRightly'
      BY <1>2, <1>5, <1>8, <1>12, <2>2, <3>1 DEF C!GivesUpRightly
    <3> QED  BY <1>9, <3>1, <3>2 DEF ConnectInv
  <2>4. CASE ~met
    <3>1. ~C!HasDeadline => \A i \in 1 .. next : ~Answers(i)
      <4> SUFFICES ASSUME ~C!HasDeadline, NEW i \in 1 .. next PROVE ~Answers(i)
        OBVIOUS
      <4>1. CASE i = next
        BY <1>12, <2>4, <4>1 DEF Answers, C!InTime, C!Limit
      <4>2. CASE i # next
        BY <1>3, <2>1, <4>2 DEF SharedInv
      <4> QED  BY <4>1, <4>2
    <3>2. ~Lone
      <4> SUFFICES ASSUME Lone PROVE FALSE
        OBVIOUS
      <4>1. next = 1 /\ now = 0
        BY <2>1 DEF SharedInv
      <4>2. p.how = "answers" /\ p.after <= C!Least(deadline, Patience)
        BY <4>1 DEF Lone
      <4>3. C!Limit = IF C!HasDeadline THEN deadline ELSE Patience
        BY <1>2, <1>12, <4>1 DEF C!Limit, C!Remaining
      <4> QED
        BY <1>2, <1>3, <2>4, <4>2, <4>3 DEF C!Least, C!InTime
    <3>3. SharedInv'
      BY <1>3, <1>4, <1>5, <2>2, <2>4, <3>1, <3>2
         DEF SharedInv, Answers, Lone, C!HasDeadline, C!control
    <3> QED
      BY <1>4, <1>5, <1>9, <1>10, <1>12, <2>4, <3>3
         DEF ConnectInv, C!GivesUpRightly, C!control
  <2> QED  BY <2>3, <2>4
<1> QED  BY <1>11, <1>12

LEMMA TryStep ==
  ASSUME ConnectInv, C!Try PROVE ConnectInv'
<1>1. list \in Addresses /\ deadline \in Deadlines /\ cancelAt \in Cancels
      /\ now \in 0 .. Horizon /\ next \in 1 .. Len(list) + 1
  BY DEF ConnectInv, C!TypeOK
<1>2. Len(list) \in Nat /\ deadline \in Nat /\ cancelAt \in Nat /\ now \in Nat /\ next \in Nat
  BY <1>1, ConnectConstants
<1>3. at = "try" /\ list # <<>>
  BY DEF ConnectInv, C!Try
<1>4. Len(list) > 0
  BY <1>1, <1>3, ConnectConstants
<1>5. CASE next <= Len(list) /\ (C!HasToken \/ ~C!Expired)
  BY <1>3, <1>5, AttemptStep DEF C!Try
<1>6. CASE next <= Len(list) /\ ~C!HasToken /\ C!Expired
  <2>1. C!GiveUp("timeout") /\ SharedInv
    BY <1>3, <1>6 DEF C!Try, ConnectInv
  <2>2. C!TypeOK'
    BY <2>1 DEF ConnectInv, C!TypeOK, C!GiveUp, C!control
  <2>3. ~Lone
    BY <1>2, <1>6, <2>1 DEF SharedInv, Lone, C!Expired
  <2> QED
    BY <1>2, <1>3, <1>6, <2>1, <2>2, <2>3
       DEF ConnectInv, C!GivesUpRightly, C!GiveUp, C!control, SharedInv, Lone, C!Expired,
           C!HasToken, C!HasDeadline
<1>7. CASE next > Len(list) /\ ~C!HasToken
  <2>1. SharedInv /\ next = Len(list) + 1
    BY <1>1, <1>2, <1>3, <1>7 DEF ConnectInv
  <2>2. PICK r \in {"refused", "timeout"} : C!GiveUp(r)
    BY <1>7, <1>2 DEF C!Try
  <2>3. C!TypeOK'
    BY <2>2 DEF ConnectInv, C!TypeOK, C!GiveUp, C!control
  <2>4. ~Lone
    BY <1>4, <2>1, <1>2 DEF SharedInv
  <2>5. ~C!HasDeadline => \A i \in 1 .. Len(list) : ~Answers(i)
    BY <1>2, <2>1 DEF SharedInv
  <2> QED
    BY <1>2, <1>3, <1>7, <2>1, <2>2, <2>3, <2>4, <2>5
       DEF ConnectInv, C!GivesUpRightly, C!GiveUp, C!control, SharedInv, Lone, Answers,
           C!HasToken, C!HasDeadline
<1>8. CASE next > Len(list) /\ C!HasToken
  <2>1. RoundInv /\ next = Len(list) + 1
    BY <1>1, <1>2, <1>3, <1>8 DEF ConnectInv
  <2>2. Timely(Len(list)) /\ (refused \/ missed)
    BY <1>2, <1>4, <2>1 DEF RoundInv
  <2>3. CASE refused
    <3>1. C!GiveUp("refused")
      BY <1>2, <1>8, <2>3 DEF C!Try
    <3>2. C!TypeOK'
      BY <3>1 DEF ConnectInv, C!TypeOK, C!GiveUp, C!control
    <3> QED
      BY <1>2, <1>3, <1>8, <2>2, <3>1, <3>2
         DEF ConnectInv, C!GivesUpRightly, C!GiveUp, C!control, Timely, C!HasToken,
             C!HasDeadline
  <2>4. CASE ~refused
    <3>1. at' = "round" /\ UNCHANGED <<C!control, now, slice, next, refused, missed, res>>
      BY <1>2, <1>8, <2>2, <2>4 DEF C!Try
    <3>2. C!TypeOK'
      BY <3>1 DEF ConnectInv, C!TypeOK, C!control
    <3> QED
      BY <1>3, <1>8, <2>2, <3>1, <3>2
         DEF ConnectInv, C!GivesUpRightly, C!control, Timely, C!HasToken, C!HasDeadline
  <2> QED  BY <2>3, <2>4
<1> QED  BY <1>2, <1>5, <1>6, <1>7, <1>8

(* Whatever the addresses, the deadline and the token: a connect gives up  *)
(* only for a reason it was given, is late by no more than the attempts of *)
(* one round, and without a token passes by no peer that answers in time   *)
(* (connect_tcp_value, connect_to_socket_addresses).                       *)
THEOREM GivesUpForAReason == SocketsSpec => []GivesUpRightly
<1> DEFINE Inv == part = "connect" => ConnectInv
<1>1. SocketsInit => Inv
  BY ConnectStarts DEF SocketsInit
<1>2. Inv /\ [SocketsNext]_<<part, vars, connectVars>> => Inv'
  <2> SUFFICES ASSUME Inv, [SocketsNext]_<<part, vars, connectVars>>, part' = "connect"
               PROVE  ConnectInv'
    OBVIOUS
  <2>1. part' = part
    BY DEF SocketsNext, Using, Connecting
  <2>2. ConnectInv /\ (C!Next \/ UNCHANGED connectVars)
    BY <2>1 DEF SocketsNext, Using, Connecting
  <2>3. CASE UNCHANGED connectVars
    BY <2>2, <2>3
       DEF connectVars, ConnectInv, C!TypeOK, C!GivesUpRightly, RoundInv, SharedInv, Timely,
           Lone, Answers, C!HasToken, C!HasDeadline, C!Cancelled, C!Expired
  <2> QED  BY <2>2, <2>3, StartStep, RoundStep, TryStep DEF C!Next
<1>3. Inv => GivesUpRightly
  BY DEF ConnectInv, GivesUpRightly
<1> QED  BY <1>1, <1>2, <1>3, PTL DEF SocketsSpec
=============================================================================
