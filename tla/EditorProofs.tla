---------------------------- MODULE EditorProofs ---------------------------
(* Proofs that the checks of Editor stay few and publish what was asked,   *)
(* for any documents, settings and number of events.                       *)
EXTENDS Editor, SequenceTheorems, TLAPS

(* Versions only grow, and nobody asks for one that is not there yet.      *)
VersionsInv ==
  \A d \in Documents : text[d] \in 1 .. events + 1 /\ asked[d] \in 0 .. text[d]

(* A check that is not cancelled is its document's, of its generation, and *)
(* about the text that was asked for or, where every change restarts it,   *)
(* the text of now.                                                        *)
LiveInv ==
  \A c \in DOMAIN checks : checks[c].state = "running" =>
    LET d == checks[c].document IN
    /\ inflight[d] = c
    /\ checks[c].generation = generations[d]
    /\ checks[c].text \in asked[d] .. text[d]
    /\ mode = "onChange" => checks[c].text = text[d]

(* inflight names a check that runs, and a timer runs only without one.    *)
SlotsInv ==
  \A d \in Documents :
    /\ inflight[d] # 0 => /\ checks[inflight[d]].document = d
                          /\ checks[inflight[d]].state = "running"
    /\ timers[d] # 0 => inflight[d] = 0

EditorInv == TypeOK /\ VersionsInv /\ LiveInv /\ SlotsInv /\ ClosedIsQuiet

----------------------------------------------------------------------------
(* A list of checks: what the operators of Editor do to it.                *)

LEMMA ChecksList ==
  ASSUME NEW n \in Nat, NEW f \in [1 .. n -> Check]
  PROVE  f \in Seq(Check) /\ Len(f) = n /\ DOMAIN f = 1 .. n
OBVIOUS

LEMMA ChecksFields ==
  ASSUME TypeOK
  PROVE  /\ Len(checks) \in Nat /\ DOMAIN checks = 1 .. Len(checks)
         /\ checks \in [1 .. Len(checks) -> Check]
         /\ \A c \in DOMAIN checks : /\ checks[c].document \in Documents
                                     /\ checks[c].generation \in Nat \ {0}
                                     /\ checks[c].text \in Nat \ {0}
                                     /\ checks[c].state \in {"running", "cancelled", "ended"}
         /\ \A d \in Documents : inflight[d] # 0 => inflight[d] \in DOMAIN checks
<1>1. /\ Len(checks) \in Nat /\ DOMAIN checks = 1 .. Len(checks)
      /\ checks \in [1 .. Len(checks) -> Check]
  BY DEF TypeOK
<1>2. \A c \in DOMAIN checks : checks[c] \in Check
  BY <1>1
<1>3. \A d \in Documents : inflight[d] \in 0 .. Len(checks)
  BY DEF TypeOK
<1> QED  BY <1>1, <1>2, <1>3 DEF Check

(* What becomes of the checks when those of the documents ds are           *)
(* cancelled: the same list, with fewer of them running.                   *)
CancelledFor(ds) ==
  /\ checks' \in Seq(Check) /\ Len(checks') = Len(checks) /\ DOMAIN checks' = DOMAIN checks
  /\ \A c \in DOMAIN checks :
       /\ checks'[c].document = checks[c].document
       /\ checks'[c].generation = checks[c].generation
       /\ checks'[c].text = checks[c].text
       /\ checks'[c].state = "running"
            <=> checks[c].state = "running" /\ checks[c].document \notin ds
  /\ inflight' = [d \in Documents |-> IF d \in ds THEN 0 ELSE inflight[d]]

LEMMA CancelAllEffect ==
  ASSUME EditorInv, NEW ds \in SUBSET Documents, CancelAll(ds)
  PROVE  CancelledFor(ds)
<1>1. /\ Len(checks) \in Nat /\ DOMAIN checks = 1 .. Len(checks)
      /\ checks \in [1 .. Len(checks) -> Check]
  BY ChecksFields DEF EditorInv
<1>2. ASSUME NEW c \in DOMAIN checks
      PROVE  /\ [checks[c] EXCEPT !.state = "cancelled"] \in Check
             /\ checks[c] \in Check
             /\ (\E d \in ds : inflight[d] = c)
                  <=> checks[c].state = "running" /\ checks[c].document \in ds
  <2>1. checks[c] \in Check /\ [checks[c] EXCEPT !.state = "cancelled"] \in Check
    BY <1>1 DEF Check
  <2>2. c # 0
    BY <1>1
  <2>3. ASSUME NEW d \in ds, inflight[d] = c
        PROVE  checks[c].state = "running" /\ checks[c].document = d
    BY <2>2, <2>3 DEF EditorInv, SlotsInv
  <2>4. checks[c].state = "running" => inflight[checks[c].document] = c
    BY DEF EditorInv, LiveInv
  <2> QED  BY <2>1, <2>3, <2>4
<1>3. checks' \in [1 .. Len(checks) -> Check]
  BY <1>1, <1>2 DEF CancelAll
<1>4. checks' \in Seq(Check) /\ Len(checks') = Len(checks) /\ DOMAIN checks' = 1 .. Len(checks)
  BY <1>1, <1>3, ChecksList
<1>5. ASSUME NEW c \in DOMAIN checks
      PROVE  /\ checks'[c].document = checks[c].document
             /\ checks'[c].generation = checks[c].generation
             /\ checks'[c].text = checks[c].text
             /\ checks'[c].state = "running"
                  <=> checks[c].state = "running" /\ checks[c].document \notin ds
  <2>1. checks'[c] = IF checks[c].state = "running" /\ checks[c].document \in ds
                       THEN [checks[c] EXCEPT !.state = "cancelled"] ELSE checks[c]
    BY <1>2 DEF CancelAll
  <2> QED  BY <1>2, <2>1 DEF Check
<1> QED  BY <1>1, <1>4, <1>5 DEF CancelAll, CancelledFor

----------------------------------------------------------------------------
(* Events.  The documents ds start anew; the others see nothing of it.     *)

(* What an event does to the variables of the user.                        *)
EventOn(ds) ==
  /\ Event /\ mode' \in Modes /\ open' \subseteq Documents
  /\ text' \in [Documents -> Nat] /\ asked' \in [Documents -> Nat]
  /\ \A d \in Documents : text'[d] \in 1 .. events' + 1 /\ asked'[d] \in 0 .. text'[d]
  /\ \A d \in Documents \ ds : /\ text'[d] = text[d] /\ asked'[d] = asked[d]
                               /\ d \in open' <=> d \in open
                               /\ mode' = mode \/ d \notin open

LEMMA ResetKeeps ==
  ASSUME EditorInv, NEW ds \in SUBSET Documents, EventOn(ds),
         Clear(ds) \/ (Restart(ds) /\ ds \subseteq open' /\ mode' # "off")
  PROVE  EditorInv'
<1>1. CancelledFor(ds)
  BY CancelAllEffect DEF Clear, Restart
<1>2. /\ generations' \in [Documents -> Nat] /\ timers' \in [Documents -> Nat]
      /\ \A d \in Documents : timers'[d] \in {0, generations'[d]}
      /\ shown' \in [Documents -> 0 .. MaxEvents + 1]
      /\ \A d \in Documents \ ds : /\ generations'[d] = generations[d]
                                   /\ timers'[d] = timers[d] /\ shown'[d] = shown[d]
      /\ \A d \in ds : d \notin open' \/ mode' = "off" => timers'[d] = 0 /\ shown'[d] = 0
  <2>1. CASE Clear(ds)
    BY <2>1, EditorAssumption DEF Clear, EditorInv, TypeOK
  <2>2. CASE Restart(ds) /\ ds \subseteq open' /\ mode' # "off"
    BY <2>2 DEF Restart, TimerGeneration, EditorInv, TypeOK
  <2> QED  BY <2>1, <2>2
<1>3. /\ DOMAIN checks = 1 .. Len(checks) /\ Len(checks) \in Nat
      /\ \A c \in DOMAIN checks : checks[c].document \in Documents
      /\ \A d \in Documents : inflight[d] # 0 => inflight[d] \in DOMAIN checks
  BY ChecksFields DEF EditorInv
<1>4. TypeOK'
  <2>1. events' \in 0 .. MaxEvents
    BY EditorAssumption DEF EventOn, Event, EditorInv, TypeOK
  <2>2. text' \in [Documents -> 1 .. MaxEvents + 1] /\ asked' \in [Documents -> 0 .. MaxEvents + 1]
    <3>1. \A d \in Documents : text'[d] \in 1 .. MaxEvents + 1 /\ asked'[d] \in 0 .. MaxEvents + 1
      BY <2>1, EditorAssumption DEF EventOn
    <3> QED  BY <3>1 DEF EventOn
  <2>3. inflight' \in [Documents -> 0 .. Len(checks')]
    BY <1>1, <1>3 DEF CancelledFor, EditorInv, TypeOK
  <2> QED  BY <1>1, <1>2, <2>1, <2>2, <2>3 DEF TypeOK, EventOn, CancelledFor
<1>5. VersionsInv'
  BY DEF VersionsInv, EventOn
<1>6. ASSUME NEW c \in DOMAIN checks', checks'[c].state = "running"
      PROVE  /\ checks[c].state = "running" /\ checks[c].document \in Documents \ ds
             /\ checks'[c].document = checks[c].document
             /\ checks'[c].generation = checks[c].generation /\ checks'[c].text = checks[c].text
             /\ c \in DOMAIN checks
  BY <1>1, <1>3, <1>6 DEF CancelledFor
<1>7. LiveInv'
  <2> SUFFICES ASSUME NEW c \in DOMAIN checks', checks'[c].state = "running",
                      NEW d \in Documents \ ds, d = checks'[c].document
               PROVE  /\ inflight'[d] = c /\ checks'[c].generation = generations'[d]
                      /\ checks'[c].text \in asked'[d] .. text'[d]
                      /\ mode' = "onChange" => checks'[c].text = text'[d]
    BY <1>6 DEF LiveInv
  <2>1. /\ inflight[d] = c /\ checks[c].generation = generations[d]
        /\ checks[c].text \in asked[d] .. text[d]
        /\ mode = "onChange" => checks[c].text = text[d]
        /\ d \in open
    BY <1>6 DEF EditorInv, LiveInv, ClosedIsQuiet, Live
  <2> QED  BY <1>1, <1>2, <1>6, <2>1 DEF EventOn, CancelledFor
<1>8. SlotsInv'
  <2>1. ASSUME NEW d \in Documents \ ds PROVE inflight'[d] = inflight[d] /\ timers'[d] = timers[d]
    BY <1>1, <1>2 DEF CancelledFor
  <2>2. ASSUME NEW d \in ds PROVE inflight'[d] = 0
    BY <1>1 DEF CancelledFor
  <2> QED  BY <1>1, <1>3, <2>1, <2>2 DEF EditorInv, SlotsInv, CancelledFor
<1>9. ClosedIsQuiet'
  <2> SUFFICES ASSUME NEW d \in Documents, d \notin open' \/ mode' = "off"
               PROVE  shown'[d] = 0 /\ timers'[d] = 0 /\ Live(d)' = {}
    BY DEF ClosedIsQuiet
  <2>1. CASE d \in ds
    BY <1>2, <1>6, <2>1 DEF Live
  <2>2. CASE d \notin ds
    <3>1. shown[d] = 0 /\ timers[d] = 0 /\ Live(d) = {}
      BY <2>2 DEF EventOn, EditorInv, ClosedIsQuiet
    <3> QED  BY <1>2, <1>6, <2>2, <3>1 DEF Live
  <2> QED  BY <2>1, <2>2
<1> QED  BY <1>4, <1>5, <1>7, <1>8, <1>9 DEF EditorInv

(* A change while checks follow the saves: only the text moves on.         *)
LEMMA SkipKeeps ==
  ASSUME EditorInv, NEW d \in open, Change(d), Skip, mode = "onSave"
  PROVE  EditorInv'
<1>1. /\ d \in Documents /\ events' = events + 1 /\ events < MaxEvents
      /\ text' = [text EXCEPT ![d] = @ + 1]
      /\ UNCHANGED <<mode, open, asked, generations, timers, inflight, checks, shown>>
  BY DEF Change, Event, Skip, EditorInv, TypeOK
<1>2. VersionsInv'
  BY <1>1, SMTT(30) DEF EditorInv, VersionsInv, TypeOK
<1>3. TypeOK'
  <2>1. events' \in 0 .. MaxEvents
    BY <1>1, EditorAssumption DEF EditorInv, TypeOK
  <2>2. \A e \in Documents : text'[e] \in 1 .. MaxEvents + 1
    BY <1>2, <2>1, EditorAssumption DEF VersionsInv
  <2>3. text' \in [Documents -> 1 .. MaxEvents + 1]
    BY <1>1, <2>2 DEF EditorInv, TypeOK
  <2> QED  BY <1>1, <2>1, <2>3 DEF EditorInv, TypeOK
<1>4. LiveInv'
  <2> SUFFICES ASSUME NEW c \in DOMAIN checks, checks[c].state = "running",
                      NEW e \in Documents, e = checks[c].document
               PROVE  checks[c].text \in asked[e] .. text'[e]
    BY <1>1, ChecksFields DEF EditorInv, LiveInv
  <2>1. checks[c].text \in asked[e] .. text[e]
    BY DEF EditorInv, LiveInv
  <2>2. text[e] \in Nat /\ text'[e] \in {text[e], text[e] + 1} /\ asked[e] \in Nat
    BY <1>1, SMTT(30) DEF EditorInv, TypeOK
  <2> QED  BY <2>1, <2>2
<1>5. SlotsInv' /\ ClosedIsQuiet'
  BY <1>1 DEF EditorInv, SlotsInv, ClosedIsQuiet, Live
<1> QED  BY <1>2, <1>3, <1>4, <1>5 DEF EditorInv

LEMMA UserStep ==
  ASSUME EditorInv, User
  PROVE  EditorInv'
<1>1. /\ text \in [Documents -> Nat] /\ asked \in [Documents -> Nat] /\ events \in Nat
      /\ open \subseteq Documents /\ mode \in Modes
      /\ \A d \in Documents : text[d] \in 1 .. events + 1 /\ asked[d] \in 0 .. text[d]
  BY DEF EditorInv, TypeOK, VersionsInv
<1>2. ASSUME NEW ds \in SUBSET Documents, EventOn(ds), NEW reason, Schedule(ds, reason),
             ds \subseteq open' \/ mode' = "off", ~(mode' = "onSave" /\ reason = "change")
      PROVE  EditorInv'
  BY <1>2, ResetKeeps DEF Schedule
<1>3. ASSUME NEW d \in Documents, Open(d) PROVE EditorInv'
  <2>1. EventOn({d})
    BY <1>1, <1>3 DEF Open, EventOn, Event
  <2>2. Schedule({d}, "open") /\ {d} \subseteq open'
    BY <1>3 DEF Open
  <2> QED  BY <1>2, <2>1, <2>2
<1>4. ASSUME NEW d \in Documents, Change(d) PROVE EditorInv'
  <2>1. EventOn({d})
    BY <1>1, <1>4 DEF Change, EventOn, Event
  <2>2. Schedule({d}, "change") /\ {d} \subseteq open' /\ d \in open /\ mode' = mode
    BY <1>4 DEF Change
  <2>3. CASE mode = "onSave"
    <3>1. Skip
      BY <2>2, <2>3 DEF Schedule
    <3> QED  BY <1>4, <2>2, <2>3, <3>1, SkipKeeps
  <2>4. CASE mode # "onSave"
    BY <1>2, <2>1, <2>2, <2>4
  <2> QED  BY <2>3, <2>4
<1>5. ASSUME NEW d \in Documents, Recheck(d) PROVE EditorInv'
  <2>1. EventOn({d})
    BY <1>1, <1>5 DEF Recheck, EventOn, Event
  <2>2. Schedule({d}, "save") /\ {d} \subseteq open'
    BY <1>5 DEF Recheck
  <2> QED  BY <1>2, <2>1, <2>2
<1>6. ASSUME NEW d \in Documents, Close(d) PROVE EditorInv'
  <2>1. EventOn({d})
    BY <1>1, <1>6 DEF Close, EventOn, Event
  <2> QED  BY <1>6, <2>1, ResetKeeps DEF Close
<1>7. ASSUME NEW m \in Modes, Configure(m) PROVE EditorInv'
  <2>1. EventOn(open)
    BY <1>1, <1>7 DEF Configure, EventOn, Event
  <2>2. Schedule(open, "config") /\ open \subseteq open'
    BY <1>7 DEF Configure
  <2> QED  BY <1>1, <1>2, <2>1, <2>2
<1> QED  BY <1>3, <1>4, <1>5, <1>6, <1>7 DEF User

----------------------------------------------------------------------------
(* Timers and ends of checks.                                              *)

LEMMA TimerStep ==
  ASSUME EditorInv, NEW d \in Documents, TimerFires(d)
  PROVE  EditorInv'
<1>1. /\ DOMAIN checks = 1 .. Len(checks) /\ Len(checks) \in Nat /\ checks \in Seq(Check)
      /\ \A c \in DOMAIN checks : checks[c].document \in Documents
      /\ \A e \in Documents : inflight[e] # 0 => inflight[e] \in DOMAIN checks
      /\ inflight \in [Documents -> 0 .. Len(checks)]
  BY ChecksFields DEF EditorInv, TypeOK
<1>2. /\ timers[d] # 0 /\ timers[d] = generations[d] /\ generations[d] \in Nat \ {0}
      /\ inflight[d] = 0 /\ d \in open /\ mode # "off" /\ Live(d) = {}
      /\ text[d] \in Nat \ {0} /\ asked[d] \in 0 .. text[d]
  <2>1. timers[d] # 0 /\ timers[d] = generations[d] /\ generations[d] \in Nat \ {0}
    BY DEF TimerFires, EditorInv, TypeOK
  <2>2. inflight[d] = 0 /\ d \in open /\ mode # "off"
    BY <2>1 DEF EditorInv, SlotsInv, ClosedIsQuiet
  <2>3. Live(d) = {}
    BY <1>1, <2>2 DEF EditorInv, LiveInv, Live
  <2>4. text[d] \in Nat \ {0} /\ asked[d] \in 0 .. text[d]
    BY DEF EditorInv, TypeOK, VersionsInv
  <2> QED  BY <2>1, <2>2, <2>3, <2>4
<1>3. PICK new \in Check :
        /\ new = [document |-> d, generation |-> timers[d], text |-> text[d], state |-> "running"]
        /\ checks' = Append(checks, new)
        /\ inflight' = [inflight EXCEPT ![d] = Len(checks) + 1]
        /\ timers' = [timers EXCEPT ![d] = 0]
        /\ UNCHANGED <<user, generations, shown>>
  <2>1. [document |-> d, generation |-> timers[d], text |-> text[d], state |-> "running"] \in Check
    BY <1>2 DEF Check
  <2> QED  BY <1>2, <2>1 DEF TimerFires, Cancelled
<1>4. /\ checks' \in Seq(Check) /\ Len(checks') = Len(checks) + 1
      /\ DOMAIN checks' = DOMAIN checks \cup {Len(checks) + 1}
      /\ \A c \in DOMAIN checks : checks'[c] = checks[c]
      /\ checks'[Len(checks) + 1] = new
  BY <1>1, <1>3
<1>5. TypeOK'
  <2>1. inflight' \in [Documents -> 0 .. Len(checks')]
    BY <1>1, <1>3, <1>4
  <2>2. \A e \in Documents : timers'[e] \in {0, generations[e]}
    BY <1>2, <1>3 DEF EditorInv, TypeOK
  <2> QED  BY <1>3, <1>4, <2>1, <2>2 DEF EditorInv, TypeOK, user
<1>6. VersionsInv'
  BY <1>3 DEF EditorInv, VersionsInv, user
<1>7. LiveInv'
  <2> SUFFICES ASSUME NEW c \in DOMAIN checks', checks'[c].state = "running",
                      NEW e \in Documents, e = checks'[c].document
               PROVE  /\ inflight'[e] = c /\ checks'[c].generation = generations[e]
                      /\ checks'[c].text \in asked[e] .. text[e]
                      /\ mode = "onChange" => checks'[c].text = text[e]
    <3>1. \A c \in DOMAIN checks' : checks'[c].document \in Documents
      BY <1>1, <1>3, <1>4
    <3> QED  BY <1>3, <3>1 DEF LiveInv, user
  <2>1. CASE c = Len(checks) + 1
    BY <1>1, <1>2, <1>3, <1>4, <2>1
  <2>2. CASE c \in DOMAIN checks
    <3>1. e # d
      BY <1>2, <1>4, <2>2 DEF Live
    <3> QED  BY <1>1, <1>3, <1>4, <2>2, <3>1 DEF EditorInv, LiveInv
  <2> QED  BY <1>4, <2>1, <2>2
<1>8. SlotsInv'
  <2> SUFFICES ASSUME NEW e \in Documents
               PROVE  /\ inflight'[e] # 0 => /\ checks'[inflight'[e]].document = e
                                             /\ checks'[inflight'[e]].state = "running"
                      /\ timers'[e] # 0 => inflight'[e] = 0
    BY DEF SlotsInv
  <2>1. CASE e = d
    BY <1>1, <1>3, <1>4, <2>1 DEF EditorInv, TypeOK
  <2>2. CASE e # d
    BY <1>1, <1>3, <1>4, <2>2 DEF EditorInv, SlotsInv, TypeOK
  <2> QED  BY <2>1, <2>2
<1>9. ClosedIsQuiet'
  <2> SUFFICES ASSUME NEW e \in Documents, e \notin open \/ mode = "off"
               PROVE  shown[e] = 0 /\ timers'[e] = 0 /\ Live(e)' = {}
    BY <1>3 DEF ClosedIsQuiet, user
  <2>1. e # d /\ shown[e] = 0 /\ timers[e] = 0 /\ Live(e) = {}
    BY <1>2 DEF EditorInv, ClosedIsQuiet
  <2>2. timers'[e] = timers[e] /\ new.document # e
    BY <1>3, <2>1 DEF EditorInv, TypeOK
  <2> QED  BY <1>1, <1>4, <2>1, <2>2 DEF Live
<1> QED  BY <1>5, <1>6, <1>7, <1>8, <1>9 DEF EditorInv

(* A check ends: it runs no more, and only its own slot is given up.       *)
LEMMA EndsStep ==
  ASSUME EditorInv, NEW c \in DOMAIN checks, Ends(c)
  PROVE  /\ EditorInv'
         /\ \A d \in Documents : shown'[d] \notin {0, shown[d]} =>
              /\ checks[c].state = "running" /\ checks[c].document = d
              /\ shown'[d] = checks[c].text
<1>1. /\ DOMAIN checks = 1 .. Len(checks) /\ Len(checks) \in Nat
      /\ checks \in [1 .. Len(checks) -> Check]
      /\ \A b \in DOMAIN checks : checks[b].document \in Documents
      /\ \A e \in Documents : inflight[e] # 0 => inflight[e] \in DOMAIN checks
      /\ inflight \in [Documents -> 0 .. Len(checks)]
      /\ shown \in [Documents -> 0 .. MaxEvents + 1]
  BY ChecksFields DEF EditorInv, TypeOK
<1>2. PICK d \in Documents : d = checks[c].document
  BY <1>1
<1>3. /\ checks' = [checks EXCEPT ![c].state = "ended"]
      /\ inflight' = [inflight EXCEPT ![d] = IF @ = c THEN 0 ELSE @]
      /\ UNCHANGED <<user, generations, timers>>
  BY <1>2 DEF Ends, CancelledEnds, CheckEnds, Settle
<1>4. /\ checks' \in Seq(Check) /\ Len(checks') = Len(checks) /\ DOMAIN checks' = DOMAIN checks
      /\ \A b \in DOMAIN checks \ {c} : checks'[b] = checks[b]
      /\ checks'[c].document = d /\ checks'[c].state = "ended"
  <2>1. checks[c] \in Check /\ [checks[c] EXCEPT !.state = "ended"] \in Check
    BY <1>1 DEF Check
  <2>2. checks' \in [1 .. Len(checks) -> Check]
    BY <1>1, <1>3, <2>1
  <2>3. checks'[c] = [checks[c] EXCEPT !.state = "ended"]
    BY <1>1, <1>3
  <2> QED  BY <1>1, <1>2, <1>3, <2>1, <2>2, <2>3, ChecksList DEF Check
<1>5. checks[c].state = "running" =>
        /\ d \in open /\ mode # "off" /\ inflight[d] = c
        /\ checks[c].text \in asked[d] .. text[d]
  BY <1>2 DEF EditorInv, LiveInv, ClosedIsQuiet, Live
<1>6. /\ shown' \in [Documents -> 0 .. MaxEvents + 1]
      /\ \A e \in Documents : shown'[e] # shown[e] =>
           checks[c].state = "running" /\ e = d /\ shown'[e] = checks[c].text
  <2>1. CASE CancelledEnds(c)
    BY <1>1, <2>1 DEF CancelledEnds
  <2>2. CASE CheckEnds(c)
    <3>1. checks[c].text \in 0 .. MaxEvents + 1
      <4>1. /\ checks[c].text \in Nat /\ checks[c].text <= text[d]
            /\ text[d] \in 1 .. MaxEvents + 1
        BY <1>2, <1>5, <2>2, ChecksFields DEF CheckEnds, EditorInv, TypeOK
      <4> QED  BY <4>1, EditorAssumption
    <3> QED  BY <1>1, <1>2, <2>2, <3>1 DEF CheckEnds
  <2> QED  BY <2>1, <2>2 DEF Ends
<1>7. TypeOK'
  <2>1. inflight' \in [Documents -> 0 .. Len(checks')]
    BY <1>1, <1>3, <1>4
  <2> QED  BY <1>3, <1>4, <1>6, <2>1 DEF EditorInv, TypeOK, user
<1>8. VersionsInv'
  BY <1>3 DEF EditorInv, VersionsInv, user
<1>9. LiveInv'
  <2> SUFFICES ASSUME NEW b \in DOMAIN checks', checks'[b].state = "running"
               PROVE  /\ inflight'[checks'[b].document] = b
                      /\ checks'[b].generation = generations[checks'[b].document]
                      /\ checks'[b].text \in asked[checks'[b].document] .. text[checks'[b].document]
                      /\ mode = "onChange" => checks'[b].text = text[checks'[b].document]
    BY <1>3 DEF LiveInv, user
  <2>1. b # c /\ b \in DOMAIN checks /\ checks'[b] = checks[b]
    BY <1>4
  <2> QED  BY <1>1, <1>3, <2>1 DEF EditorInv, LiveInv
<1>10. SlotsInv'
  <2> SUFFICES ASSUME NEW e \in Documents
               PROVE  /\ inflight'[e] # 0 => /\ checks'[inflight'[e]].document = e
                                             /\ checks'[inflight'[e]].state = "running"
                      /\ timers[e] # 0 => inflight'[e] = 0
    BY <1>3 DEF SlotsInv
  <2>1. inflight'[e] # 0 => inflight'[e] = inflight[e] /\ inflight[e] # c
    BY <1>1, <1>2, <1>3 DEF EditorInv, SlotsInv
  <2> QED  BY <1>1, <1>3, <1>4, <2>1 DEF EditorInv, SlotsInv
<1>11. ClosedIsQuiet'
  <2> SUFFICES ASSUME NEW e \in Documents, e \notin open \/ mode = "off"
               PROVE  shown'[e] = 0 /\ timers[e] = 0 /\ Live(e)' = {}
    BY <1>3 DEF ClosedIsQuiet, user
  <2>1. shown[e] = 0 /\ timers[e] = 0 /\ Live(e) = {}
    BY DEF EditorInv, ClosedIsQuiet
  <2>2. shown'[e] = shown[e]
    BY <1>5, <1>6
  <2> QED  BY <1>1, <1>4, <2>1, <2>2 DEF Live
<1> QED  BY <1>2, <1>6, <1>7, <1>8, <1>9, <1>10, <1>11 DEF EditorInv

----------------------------------------------------------------------------
LEMMA EditorInit == Init => EditorInv
<1> SUFFICES ASSUME Init PROVE EditorInv
  OBVIOUS
<1>1. TypeOK
  BY EditorAssumption DEF Init, TypeOK
<1>2. VersionsInv /\ LiveInv /\ SlotsInv /\ ClosedIsQuiet
  BY DEF Init, VersionsInv, LiveInv, SlotsInv, ClosedIsQuiet, Live
<1> QED  BY <1>1, <1>2 DEF EditorInv

(* Timers, generations, checks and what is shown keep belonging together.  *)
THEOREM EditorInvariant == Spec => []EditorInv
<1>1. EditorInv /\ [Next]_vars => EditorInv'
  <2> SUFFICES ASSUME EditorInv, [Next]_vars PROVE EditorInv'
    OBVIOUS
  <2>1. CASE User
    BY <2>1, UserStep
  <2>2. ASSUME NEW d \in Documents, TimerFires(d) PROVE EditorInv'
    BY <2>2, TimerStep
  <2>3. ASSUME NEW c \in DOMAIN checks, Ends(c) PROVE EditorInv'
    BY <2>3, EndsStep
  <2>4. CASE UNCHANGED vars
    BY <2>4 DEF vars, EditorInv, TypeOK, VersionsInv, LiveInv, SlotsInv, ClosedIsQuiet, Live
  <2> QED  BY <2>1, <2>2, <2>3, <2>4 DEF Next
<1> QED  BY <1>1, EditorInit, PTL DEF Spec

(* Checks neither pile up nor outlive what they are about: at most one per *)
(* document runs that is not cancelled, the one in flight, and nothing is  *)
(* shown or under way for a closed document or with diagnostics off.       *)
THEOREM ChecksStayFew == Spec => []ChecksAreFew
<1>1. EditorInv => ChecksAreFew
  <2> SUFFICES ASSUME EditorInv, NEW d \in Documents PROVE Live(d) = {inflight[d]} \ {0}
    BY DEF ChecksAreFew, OneLiveCheck, EditorInv
  <2>1. inflight[d] # 0 => inflight[d] \in Live(d)
    BY ChecksFields DEF EditorInv, SlotsInv, Live
  <2>2. \A c \in Live(d) : inflight[d] = c /\ c # 0
    BY ChecksFields DEF EditorInv, LiveInv, Live
  <2> QED  BY <2>1, <2>2
<1> QED  BY <1>1, EditorInvariant, PTL

(* What is published is about the text of now, or, where checks follow the *)
(* saves, about the text of the last save or a later one.                  *)
THEOREM PublishesWhatWasAsked == Spec => PublishesAsked
<1>1. EditorInv /\ [Next]_vars
        => [\A d \in Documents : shown'[d] \notin {0, shown[d]} =>
              IF mode = "onChange" THEN shown'[d] = text[d]
                                   ELSE shown'[d] \in asked[d] .. text[d]]_vars
  <2> SUFFICES ASSUME EditorInv, Next, NEW d \in Documents, shown'[d] \notin {0, shown[d]}
               PROVE  IF mode = "onChange" THEN shown'[d] = text[d]
                                           ELSE shown'[d] \in asked[d] .. text[d]
    OBVIOUS
  <2>1. CASE User
    BY <2>1 DEF User, Open, Change, Recheck, Close, Configure, Schedule, Clear, Skip, Restart
  <2>2. ASSUME NEW e \in Documents, TimerFires(e) PROVE FALSE
    BY <2>2 DEF TimerFires
  <2>3. ASSUME NEW c \in DOMAIN checks, Ends(c)
        PROVE  IF mode = "onChange" THEN shown'[d] = text[d]
                                    ELSE shown'[d] \in asked[d] .. text[d]
    <3>1. /\ checks[c].state = "running" /\ checks[c].document = d
          /\ shown'[d] = checks[c].text
      BY <2>3, EndsStep
    <3> QED  BY <3>1 DEF EditorInv, LiveInv
  <2> QED  BY <2>1, <2>2, <2>3 DEF Next
<1> QED  BY <1>1, EditorInvariant, PTL DEF Spec, PublishesAsked
=============================================================================
