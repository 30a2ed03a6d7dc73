------------------------------- MODULE Editor -------------------------------
(***************************************************************************)
(* Diagnostics in the editor (tools/vscode-gof): every document has at     *)
(* most one timer and at most one check in flight, a process that reads    *)
(* the text of the document as it is when the timer fires.  A newer event  *)
(* supersedes both.  A check that was cancelled ends later, in any order,  *)
(* and generations, which begin again at 1 when a document is reopened,    *)
(* tell what may still be published.                                       *)
(***************************************************************************)
EXTENDS Naturals, Sequences, FiniteSets

CONSTANTS
  Documents,    (* the documents of gof files                              *)
  Modes,        (* settings: "off", "onSave" (runOnSaveOnly), "onChange"   *)
  MaxEvents     (* bound on the events of the user                         *)

ASSUME EditorAssumption ==
  Modes \subseteq {"off", "onSave", "onChange"} /\ MaxEvents \in Nat

VARIABLES
  mode,         (* readDiagnosticsConfig()                                 *)
  open,         (* the documents that are open                             *)
  text,         (* text[d]: the version of the text of d                   *)
  asked,        (* asked[d]: the version that is to be checked             *)
  generations,  (* generations[d], 0 when there is none                    *)
  timers,       (* timers[d]: the generation of the timer, 0 without one   *)
  inflight,     (* inflight[d]: the check in flight, 0 without one         *)
  checks,       (* the checks started so far                               *)
  shown,        (* shown[d]: the version that is reported on, 0 for none   *)
  events        (* number of events                                        *)

vars == <<mode, open, text, asked, generations, timers, inflight, checks, shown, events>>

Check == [document : Documents, generation : Nat \ {0}, text : Nat \ {0},
          state : {"running", "cancelled", "ended"}]

TypeOK ==
  /\ mode \in Modes /\ open \subseteq Documents /\ events \in 0 .. MaxEvents
  /\ text \in [Documents -> 1 .. MaxEvents + 1]
  /\ asked \in [Documents -> 0 .. MaxEvents + 1]
  /\ generations \in [Documents -> Nat]
  /\ timers \in [Documents -> Nat]
  /\ \A d \in Documents : timers[d] \in {0, generations[d]}
  /\ checks \in Seq(Check)
  /\ inflight \in [Documents -> 0 .. Len(checks)]
  /\ shown \in [Documents -> 0 .. MaxEvents + 1]

----------------------------------------------------------------------------
(* cancelInflight: the check in flight is killed, and will end later.      *)
Cancelled(d, cs) ==
  IF inflight[d] = 0 THEN cs ELSE [cs EXCEPT ![inflight[d]].state = "cancelled"]
CancelAll(ds) ==
  /\ checks' = [c \in DOMAIN checks |->
                  IF \E d \in ds : inflight[d] = c
                    THEN [checks[c] EXCEPT !.state = "cancelled"] ELSE checks[c]]
  /\ inflight' = [d \in Documents |-> IF d \in ds THEN 0 ELSE inflight[d]]

(* Wrong: closing leaves the check in flight to the generations.           *)
ClearNotCancelling(ds) ==
  /\ timers' = [d \in Documents |-> IF d \in ds THEN 0 ELSE timers[d]]
  /\ generations' = [d \in Documents |-> IF d \in ds THEN 0 ELSE generations[d]]
  /\ shown' = [d \in Documents |-> IF d \in ds THEN 0 ELSE shown[d]]
  /\ inflight' = [d \in Documents |-> IF d \in ds THEN 0 ELSE inflight[d]]
  /\ UNCHANGED checks

(* clearDocumentState                                                      *)
Clear(ds) ==
  /\ CancelAll(ds)
  /\ timers' = [d \in Documents |-> IF d \in ds THEN 0 ELSE timers[d]]
  /\ generations' = [d \in Documents |-> IF d \in ds THEN 0 ELSE generations[d]]
  /\ shown' = [d \in Documents |-> IF d \in ds THEN 0 ELSE shown[d]]

TimerGeneration(d) == generations[d] + 1

(* scheduleDocumentDiagnostics, past the settings                          *)
Restart(ds) ==
  /\ CancelAll(ds)
  /\ generations' = [d \in Documents |-> generations[d] + IF d \in ds THEN 1 ELSE 0]
  /\ timers' = [d \in Documents |-> IF d \in ds THEN TimerGeneration(d) ELSE timers[d]]
  /\ UNCHANGED shown

Skip == UNCHANGED <<generations, timers, inflight, checks, shown>>

Schedule(ds, reason) ==
  IF mode' = "off" THEN Clear(ds)
  ELSE IF mode' = "onSave" /\ reason = "change" THEN Skip
  ELSE Restart(ds)

----------------------------------------------------------------------------
(* Events of the user                                                      *)

Event == events < MaxEvents /\ events' = events + 1

(* A text that is opened may be another one than was closed.               *)
Open(d) ==
  /\ Event /\ d \notin open
  /\ open' = open \cup {d}
  /\ \E t \in {text[d], text[d] + 1} :
       text' = [text EXCEPT ![d] = t] /\ asked' = [asked EXCEPT ![d] = t]
  /\ UNCHANGED mode
  /\ Schedule({d}, "open")

Change(d) ==
  /\ Event /\ d \in open
  /\ text' = [text EXCEPT ![d] = @ + 1]
  /\ asked' = IF mode = "onSave" THEN asked ELSE [asked EXCEPT ![d] = text'[d]]
  /\ UNCHANGED <<mode, open>>
  /\ Schedule({d}, "change")

(* Saving, and gof.recheckActiveDocument                                   *)
Recheck(d) ==
  /\ Event /\ d \in open
  /\ asked' = [asked EXCEPT ![d] = text[d]]
  /\ UNCHANGED <<mode, open, text>>
  /\ Schedule({d}, "save")

Close(d) ==
  /\ Event /\ d \in open
  /\ open' = open \ {d}
  /\ UNCHANGED <<mode, text, asked>>
  /\ Clear({d})

Configure(m) ==
  /\ Event
  /\ mode' = m
  /\ asked' = [d \in Documents |-> IF d \in open THEN text[d] ELSE asked[d]]
  /\ UNCHANGED <<open, text>>
  /\ Schedule(open, "config")

----------------------------------------------------------------------------
(* Timers and checks: runDocumentDiagnostics                               *)

user == <<mode, open, text, asked, events>>

TimerFires(d) ==
  /\ timers[d] # 0
  /\ timers' = [timers EXCEPT ![d] = 0]
  /\ IF mode = "off" \/ generations[d] # timers[d]
       THEN UNCHANGED <<checks, inflight>>
       ELSE /\ checks' = Append(Cancelled(d, checks),
                 [document |-> d, generation |-> timers[d], text |-> text[d],
                  state |-> "running"])
            /\ inflight' = [inflight EXCEPT ![d] = Len(checks) + 1]
  /\ UNCHANGED <<user, generations, shown>>

(* Wrong: whichever check ends, the one in flight is forgotten.            *)
SettleAny(c) == inflight' = [inflight EXCEPT ![checks[c].document] = 0]

(* settleInflight                                                          *)
Settle(c) ==
  inflight' = [inflight EXCEPT ![checks[c].document] = IF @ = c THEN 0 ELSE @]

(* A check that was cancelled ends, with whatever result.                  *)
CancelledEnds(c) ==
  /\ checks[c].state = "cancelled"
  /\ checks' = [checks EXCEPT ![c].state = "ended"]
  /\ Settle(c)
  /\ UNCHANGED <<user, generations, timers, shown>>

(* Wrong: the check fails, and nothing is published.                       *)
CheckEndsQuietly(c) ==
  /\ checks[c].state = "running"
  /\ checks' = [checks EXCEPT ![c].state = "ended"]
  /\ Settle(c)
  /\ UNCHANGED <<user, generations, timers, shown>>

(* It ends with a report, with output that is none (GOFEXT002), or could   *)
(* not be started (GOFEXT001): one of them is published.                   *)
CheckEnds(c) ==
  /\ checks[c].state = "running"
  /\ checks' = [checks EXCEPT ![c].state = "ended"]
  /\ Settle(c)
  /\ LET d == checks[c].document IN
     shown' = IF generations[d] = checks[c].generation
                THEN [shown EXCEPT ![d] = checks[c].text] ELSE shown
  /\ UNCHANGED <<user, generations, timers>>

Init ==
  /\ mode \in Modes /\ open = {}
  /\ text = [d \in Documents |-> 1] /\ asked = [d \in Documents |-> 0]
  /\ generations = [d \in Documents |-> 0] /\ timers = [d \in Documents |-> 0]
  /\ inflight = [d \in Documents |-> 0] /\ checks = <<>>
  /\ shown = [d \in Documents |-> 0] /\ events = 0

User ==
  \/ \E d \in Documents : Open(d) \/ Change(d) \/ Recheck(d) \/ Close(d)
  \/ \E m \in Modes : Configure(m)
Ends(c) == CancelledEnds(c) \/ CheckEnds(c)

Next ==
  \/ User
  \/ \E d \in Documents : TimerFires(d)
  \/ \E c \in DOMAIN checks : Ends(c)

(* Timers fire, and processes end: a check is given no time limit.         *)
Fairness ==
  /\ \A d \in Documents : WF_vars(TimerFires(d))
  /\ \A n \in 1 .. MaxEvents * Cardinality(Documents) : WF_vars(n \in DOMAIN checks /\ Ends(n))
Spec == Init /\ [][Next]_vars /\ Fairness

----------------------------------------------------------------------------
(* Properties                                                              *)

Live(d) == {c \in DOMAIN checks : checks[c].document = d /\ checks[c].state = "running"}

(* Nothing is shown for a document that is closed, or while diagnostics    *)
(* are off, and nothing is under way that could still be shown.            *)
ClosedIsQuiet ==
  \A d \in Documents : (d \notin open \/ mode = "off") =>
    shown[d] = 0 /\ timers[d] = 0 /\ Live(d) = {}

(* Checks do not pile up: the one in flight is the only one not cancelled. *)
OneLiveCheck == TypeOK /\ \A d \in Documents : Live(d) = {inflight[d]} \ {0}

(* Checks neither pile up nor outlive what they are about.                 *)
ChecksAreFew == ClosedIsQuiet /\ OneLiveCheck

(* What is published is about the text of that moment ("stale editor       *)
(* checks are cancelled instead of piling up", the extension's README).    *)
PublishesCurrent ==
  [][\A d \in Documents : shown'[d] \notin {0, shown[d]} => shown'[d] = text[d]]_vars

(* It is so whenever checks follow the edits; where they follow the saves, *)
(* the report is on the text of the last save or of a later moment.        *)
PublishesAsked ==
  [][\A d \in Documents : shown'[d] \notin {0, shown[d]} =>
       IF mode = "onChange" THEN shown'[d] = text[d]
                            ELSE shown'[d] \in asked[d] .. text[d]]_vars

(* Every text that is to be checked is reported on, unless its document is *)
(* closed or diagnostics are switched off.                                 *)
EventuallyShown ==
  \A d \in Documents : []<>(d \notin open \/ mode = "off" \/ shown[d] >= asked[d])
=============================================================================
