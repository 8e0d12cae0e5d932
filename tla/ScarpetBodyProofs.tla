------------------------- MODULE ScarpetBodyProofs -------------------------
(* A lost answer never makes the action happen twice, and what the caller  *)
(* is told of it is so: for any set of actions, any number of reloads and  *)
(* any loss of requests and answers.                                       *)
(*                                                                         *)
(* The argument: an action that was done and is not remembered has left    *)
(* the server's memory by a reload or an eviction.  Both show in the next  *)
(* status, as another epoch or an incomplete ledger, so it is not sent     *)
(* again; and no request for it is under way, or it is one of those the    *)
(* property excepts.                                                       *)
EXTENDS ScarpetBody, TLAPS

Places == {"before", "after", "changed"}
Pcs == {"idle", "dispatch", "status", "resend", "restatus", "wait", "probe", "probed", "unknown", "await"}
Bodies == [pc : Pcs, a : Actions \cup {"none"}, known : Nat, sent : Nat, match : BOOLEAN, tries : Nat,
           start : Nat, last : Nat, then : {"probe", "unknown"}, heard : [Actions -> {"none"} \cup Outcomes]]
Entries == [who : Actions \cup {"death"}, out : Outcomes]
Servers == [epoch : Nat, got : SUBSET Actions, ok : SUBSET Actions, shown : SUBSET Actions, complete : BOOLEAN]

RconType ==
    /\ server \in Servers
    /\ act \in [Actions -> {"none", "running"} \cup Outcomes]
    /\ log \in Seq(Entries)
    /\ cell \in [Actions -> Places]
    /\ copies \in [Actions -> Nat] /\ starts \in [Actions -> Nat] /\ effects \in [Actions -> Nat]
    /\ excused \in SUBSET Actions
    /\ body \in Bodies
    /\ outcome \in [Actions -> {"none", "refused", "unknown", "timeout", "death"} \cup Outcomes]

\* The call in hand is about action a.
InHand(a) == body.pc # "idle" /\ body.a = a

\* What must not happen to the action again has happened.
Did(a) == IF Kind[a] = "block" THEN effects[a] >= 1 ELSE starts[a] >= 1

(* What the server does it does for an action it has accepted and          *)
(* remembers, and what its log says is so.                                 *)
ServerSound ==
    /\ server.ok \subseteq server.got
    /\ \A a \in Actions :
         /\ act[a] # "none" => a \in server.ok
         /\ a \in server.ok => starts[a] >= 1
         /\ effects[a] >= 1 => starts[a] >= 1
         /\ Kind[a] = "result" => act[a] = "none" /\ effects[a] = starts[a]
         /\ act[a] = "ok" => effects[a] >= 1
    /\ \A n \in 1..Len(log) : \A a \in Actions : log[n].who = a =>
         /\ starts[a] >= 1
         /\ log[n].out = "ok" => effects[a] >= 1

\* The action is done at most once, and its block shows it.
DoneOnce ==
    \A a \in Actions \ excused :
        /\ effects[a] <= 1 /\ (Kind[a] # "block" => starts[a] <= 1)
        /\ act[a] = "running" => effects[a] = 0
        /\ Kind[a] = "block" => (cell[a] = "after" <=> effects[a] >= 1)
        /\ a \in server.got /\ a \notin server.ok => effects[a] = 0

\* The ledger the server has is the one the action was sent to.
SameLedger(b) == b.sent # NoEpoch /\ server.epoch = b.sent /\ server.complete

(* An action that was done and is forgotten is not asked for again.        *)
NotAgain ==
    \A a \in Actions \ excused : Did(a) /\ a \notin server.got =>
        /\ copies[a] = 0
        /\ InHand(a) => body.pc \notin Sending /\ ~SameLedger(body)

\* An action that was not called yet, or not sent yet, is unheard of.
Untouched(a) == starts[a] = 0 /\ copies[a] = 0 /\ a \notin server.got
Unsent ==
    /\ \A a \in Actions : outcome[a] = "none" /\ ~InHand(a) => Untouched(a)
    /\ body.pc = "dispatch" => Untouched(body.a)

OneCall ==
    /\ body.pc # "idle" => body.a \in Actions /\ outcome[body.a] = "none"
    /\ body.sent <= server.epoch /\ body.known <= server.epoch

\* What Python has heard of an action and tells of it is so.
Truthful(h, a) == (h = "ok" => effects[a] >= 1) /\ (h = "failed" => starts[a] >= 1)
Heard ==
    \A a \in Actions \ excused : Truthful(body.heard[a], a) /\ Truthful(outcome[a], a)
RefusedForGood ==
    \A a \in Actions \ excused : outcome[a] = "refused" =>
        effects[a] = 0 /\ a \notin server.ok /\ (a \notin server.got => copies[a] = 0)

RconInv ==
    RconType /\ ServerSound /\ DoneOnce /\ NotAgain /\ Unsent /\ OneCall /\ Heard /\ RefusedForGood

LEMMA RconInvTrue == RconInv => AppliedOnce /\ ToldIsTrue
<1> SUFFICES ASSUME RconInv PROVE AppliedOnce /\ ToldIsTrue OBVIOUS
<1>1. AppliedOnce BY DEF RconInv, DoneOnce, AppliedOnce
<1>2. ToldIsTrue
  BY DEF RconInv, RconType, DoneOnce, Heard, Truthful, RefusedForGood, ToldIsTrue
<1>3. QED BY <1>1, <1>2

LEMMA RconInitInv == RconInit => RconInv
<1> SUFFICES ASSUME RconInit PROVE RconInv OBVIOUS
<1> USE DEF RconInit
<1>1. NoBody \in Bodies BY DEF NoBody, Bodies, Pcs, NoEpoch, Outcomes
<1>2. Fresh(1) \in Servers /\ Fresh(1).epoch = 1 /\ Fresh(1).got = {} /\ Fresh(1).ok = {} BY DEF Fresh, Servers
<1>3. RconType BY <1>1, <1>2 DEF RconType, NobodyActs, Places, Outcomes
<1>4. ServerSound BY <1>2 DEF ServerSound, NobodyActs
<1>5. DoneOnce BY <1>2 DEF DoneOnce, NobodyActs
<1>6. NotAgain BY DEF NotAgain, Did
<1>7. Unsent BY <1>2 DEF Unsent, Untouched, NoBody
<1>8. OneCall BY <1>2 DEF OneCall, NoBody, NoEpoch
<1>9. Heard BY DEF Heard, Truthful, NoBody
<1>10. RefusedForGood BY DEF RefusedForGood
<1>11. QED BY <1>3, <1>4, <1>5, <1>6, <1>7, <1>8, <1>9, <1>10 DEF RconInv

\* ----- the server reads a request ----------------------------------------

(* Reading a request for a leaves everything about other actions as it is, *)
(* and a as well when it is remembered.                                    *)
Reads(a) ==
    /\ server' \in Servers /\ server'.got = server.got \cup {a}
    /\ server'.epoch = server.epoch /\ server'.complete = server.complete
    /\ act' \in [Actions -> {"none", "running"} \cup Outcomes] /\ cell' = cell
    /\ starts' \in [Actions -> Nat] /\ effects' \in [Actions -> Nat]
    /\ \A b \in Actions : starts'[b] >= starts[b] /\ effects'[b] >= effects[b]
    /\ \A b \in Actions \ {a} :
         /\ starts'[b] = starts[b] /\ effects'[b] = effects[b] /\ act'[b] = act[b]
         /\ b \in server'.ok <=> b \in server.ok
    /\ a \in server.got => server'.ok = server.ok /\ starts'[a] = starts[a] /\ effects'[a] = effects[a]

LEMMA DeliverReads ==
    ASSUME RconType, NEW a \in Actions, Deliver(a)
    PROVE  Reads(a)
<1>0. server = [epoch |-> server.epoch, got |-> server.got, ok |-> server.ok, shown |-> server.shown,
                complete |-> server.complete]
  BY DEF RconType, Servers
<1>t. /\ starts \in [Actions -> Nat] /\ effects \in [Actions -> Nat]
      /\ act \in [Actions -> {"none", "running"} \cup Outcomes]
  BY DEF RconType
<1>1. CASE a \in server.got /\ UNCHANGED srvVars
  <2>1. server.got = server.got \cup {a} BY <1>1
  <2>2. \A b \in Actions : starts[b] >= starts[b] /\ effects[b] >= effects[b] BY DEF RconType
  <2>3. QED BY <1>1, <2>1, <2>2 DEF RconType, Reads, srvVars
<1>2. CASE a \notin server.got /\ Accepted(a)
  <2>1. server' \in Servers /\ server'.got = server.got \cup {a} /\ server'.ok = server.ok \cup {a}
        /\ server'.epoch = server.epoch /\ server'.complete = server.complete
    BY <1>2 DEF RconType, Accepted, Servers
  <2>2. starts' = [starts EXCEPT ![a] = @ + 1] /\ cell' = cell BY <1>2 DEF Accepted
  <2>3. starts' \in [Actions -> Nat] /\ starts'[a] = starts[a] + 1 /\ \A b \in Actions \ {a} : starts'[b] = starts[b]
    BY <2>2 DEF RconType
  <2>4. \/ effects' = [effects EXCEPT ![a] = @ + 1] /\ act' = act
        \/ act' = [act EXCEPT ![a] = "running"] /\ effects' = effects
    BY <1>2 DEF Accepted
  <2>5. effects' \in [Actions -> Nat] /\ \A b \in Actions \ {a} : effects'[b] = effects[b]
    BY <1>t, <2>4
  <2>6. effects'[a] \in {effects[a], effects[a] + 1} BY <1>t, <2>4
  <2>7. act' \in [Actions -> {"none", "running"} \cup Outcomes] /\ \A b \in Actions \ {a} : act'[b] = act[b]
    BY <1>t, <2>4
  <2>8. \A b \in Actions : starts'[b] >= starts[b] /\ effects'[b] >= effects[b]
    BY <1>t, <2>3, <2>5, <2>6
  <2>9. QED BY <1>2, <2>1, <2>2, <2>3, <2>5, <2>7, <2>8 DEF Reads
<1>3. CASE a \notin server.got /\ Refused(a)
  <2>1. server' \in Servers /\ server'.got = server.got \cup {a} /\ server'.ok = server.ok \ {a}
        /\ server'.epoch = server.epoch /\ server'.complete = server.complete
    BY <1>3 DEF RconType, Refused, Servers
  <2>2. UNCHANGED <<act, starts, effects, cell>> BY <1>3 DEF Refused
  <2>3. \A b \in Actions : starts[b] >= starts[b] /\ effects[b] >= effects[b] BY DEF RconType
  <2>4. QED BY <1>3, <2>1, <2>2, <2>3 DEF RconType, Reads
<1>4. QED BY <1>1, <1>2, <1>3 DEF Deliver

\* A request that may be read is not for an action that was done and forgotten.
Wanted(a) == copies[a] > 0 \/ (InHand(a) /\ body.pc \in Sending)

LEMMA WantedNotDone ==
    ASSUME RconInv, NEW a \in Actions \ excused, Wanted(a), a \notin server.got
    PROVE  ~Did(a)
BY DEF RconInv, RconType, NotAgain, Wanted

LEMMA DeliverSound ==
    ASSUME RconInv, NEW a \in Actions, Wanted(a), Deliver(a), UNCHANGED <<log, excused>>
    PROVE  ServerSound' /\ DoneOnce'
<1>1. CASE a \in server.got
  <2>1. UNCHANGED srvVars BY <1>1 DEF Deliver
  <2>2. QED BY <2>1 DEF RconInv, ServerSound, DoneOnce, srvVars
<1>2. CASE a \notin server.got
  <2>0. Reads(a) BY DeliverReads DEF RconInv
  <2>1. a \notin server.ok /\ act[a] = "none" BY <1>2 DEF RconInv, RconType, ServerSound
  <2>2. a \notin excused => ~Did(a) BY <1>2, WantedNotDone
  <2>3. a \notin excused => effects[a] = 0 /\ (Kind[a] # "block" => starts[a] = 0)
    BY <2>2, KindAssumption DEF Did, RconInv, RconType, ServerSound
  <2>4. \A n \in 1..Len(log) : \A b \in Actions : log[n].who = b =>
           starts'[b] >= 1 /\ (log[n].out = "ok" => effects'[b] >= 1)
    <3>1. /\ starts \in [Actions -> Nat] /\ effects \in [Actions -> Nat]
          /\ starts' \in [Actions -> Nat] /\ effects' \in [Actions -> Nat]
          /\ \A b \in Actions : starts'[b] >= starts[b] /\ effects'[b] >= effects[b]
      BY <2>0 DEF RconInv, RconType, Reads
    <3>2. SUFFICES ASSUME NEW n \in 1..Len(log), NEW b \in Actions, log[n].who = b
                   PROVE  starts'[b] >= 1 /\ (log[n].out = "ok" => effects'[b] >= 1)
      OBVIOUS
    <3>3. starts[b] >= 1 /\ (log[n].out = "ok" => effects[b] >= 1) BY <3>2 DEF RconInv, ServerSound
    <3>4. QED BY <3>1, <3>3
  <2>5. CASE Accepted(a)
    <3>1. /\ server'.got = server.got \cup {a} /\ server'.ok = server.ok \cup {a}
      BY <2>5 DEF RconInv, RconType, Accepted, Servers
    <3>2. starts'[a] = starts[a] + 1 BY <2>5 DEF RconInv, RconType, Accepted
    <3>3. IF Kind[a] = "result" THEN effects'[a] = effects[a] + 1 /\ act'[a] = "none"
          ELSE act'[a] = "running" /\ effects'[a] = effects[a]
      BY <2>1, <2>5 DEF RconInv, RconType, Accepted
    <3>4. /\ a \in server'.ok /\ starts'[a] >= 1
          /\ Kind[a] = "result" => act'[a] = "none" /\ effects'[a] = starts'[a]
          /\ act'[a] = "ok" => effects'[a] >= 1
      BY <3>1, <3>2, <3>3 DEF RconInv, RconType, ServerSound
    <3>5. ServerSound' BY <2>0, <2>4, <3>1, <3>4 DEF RconInv, RconType, ServerSound, Reads
    <3>6. a \notin excused =>
             /\ effects'[a] <= 1 /\ (Kind[a] # "block" => starts'[a] <= 1)
             /\ act'[a] = "running" => effects'[a] = 0
             /\ Kind[a] = "block" => (cell'[a] = "after" <=> effects'[a] >= 1)
      <4>1. ASSUME a \notin excused PROVE effects'[a] <= 1 /\ (Kind[a] # "block" => starts'[a] <= 1)
        BY <2>3, <3>2, <3>3, <4>1
      <4>2. ASSUME a \notin excused PROVE act'[a] = "running" => effects'[a] = 0
        BY <2>3, <3>3, <4>2
      <4>3. ASSUME a \notin excused PROVE Kind[a] = "block" => (cell'[a] = "after" <=> effects'[a] >= 1)
        BY <2>0, <3>3, <4>3 DEF Reads, RconInv, DoneOnce
      <4>4. QED BY <4>1, <4>2, <4>3
    <3>7. DoneOnce' BY <2>0, <3>1, <3>6 DEF RconInv, DoneOnce, Reads
    <3>8. QED BY <3>5, <3>7
  <2>6. CASE Refused(a)
    <3>1. server'.got = server.got \cup {a} /\ server'.ok = server.ok \ {a}
          /\ UNCHANGED <<act, starts, effects, cell>>
      BY <2>6 DEF RconInv, RconType, Refused, Servers
    <3>2. ServerSound' BY <2>1, <3>1 DEF RconInv, ServerSound
    <3>3. DoneOnce' BY <2>3, <3>1 DEF RconInv, DoneOnce
    <3>4. QED BY <3>2, <3>3
  <2>7. QED BY <1>2, <2>5, <2>6 DEF Deliver
<1>3. QED BY <1>1, <1>2

\* ----- a step of the call in hand ----------------------------------------

(* While the call about a takes a step, the server reads a request for a   *)
(* or does nothing.                                                        *)
Later(a) ==
    /\ server' \in Servers /\ server.got \subseteq server'.got /\ server'.got \subseteq server.got \cup {a}
    /\ server'.epoch = server.epoch /\ server'.complete = server.complete
    /\ act' \in [Actions -> {"none", "running"} \cup Outcomes] /\ cell' = cell
    /\ starts' \in [Actions -> Nat] /\ effects' \in [Actions -> Nat]
    /\ \A b \in Actions : starts'[b] >= starts[b] /\ effects'[b] >= effects[b]
    /\ \A b \in Actions \ {a} :
         starts'[b] = starts[b] /\ effects'[b] = effects[b] /\ (b \in server'.ok <=> b \in server.ok)
    /\ ServerSound' /\ DoneOnce'
    /\ UNCHANGED <<log, excused>>

LEMMA LaterRead ==
    ASSUME RconInv, NEW a \in Actions, Wanted(a), Deliver(a), UNCHANGED <<log, excused>>
    PROVE  Later(a) /\ a \in server'.got
BY DeliverReads, DeliverSound DEF RconInv, Reads, Later

LEMMA LaterSame ==
    ASSUME RconInv, NEW a, UNCHANGED <<srvVars, log, excused>>
    PROVE  Later(a)
<1>1. \A b \in Actions : starts[b] >= starts[b] /\ effects[b] >= effects[b] BY DEF RconInv, RconType
<1>2. ServerSound' /\ DoneOnce' BY DEF RconInv, ServerSound, DoneOnce, srvVars
<1>3. QED BY <1>1, <1>2 DEF RconInv, RconType, Later, srvVars

\* What was true of an action stays true.
LEMMA StaysTrue ==
    ASSUME RconInv, NEW a, Later(a), NEW x \in Actions
    PROVE  \A h : Truthful(h, x) => (h = "ok" => effects'[x] >= 1) /\ (h = "failed" => starts'[x] >= 1)
<1>1. /\ starts[x] \in Nat /\ effects[x] \in Nat /\ starts'[x] \in Nat /\ effects'[x] \in Nat
      /\ starts'[x] >= starts[x] /\ effects'[x] >= effects[x]
  BY DEF RconInv, RconType, Later
<1>2. QED BY <1>1 DEF Truthful

LEMMA Onward ==
    ASSUME RconInv, NEW a \in Actions, InHand(a), Later(a), UNCHANGED outcome,
           NEW b \in Bodies, body' = b, b.a = a, b.pc \notin {"idle", "dispatch"}, b.sent = body.sent,
           b.known <= server.epoch,
           \A x \in Actions \ excused : Truthful(b.heard[x], x),
           copies' \in [Actions -> Nat], \A x \in Actions \ {a} : copies'[x] = copies[x],
           a \notin excused /\ Did(a)' /\ a \notin server'.got =>
               copies'[a] = 0 /\ b.pc \notin Sending /\ ~SameLedger(body)
    PROVE  RconInv'
<1>1. RconType' BY DEF RconInv, RconType, Later
<1>2. ServerSound' /\ DoneOnce' BY DEF Later
<1>3. \A x \in Actions : InHand(x)' <=> x = a BY DEF InHand
<1>4. \A x \in Actions \ {a} : ~InHand(x) BY DEF InHand
<1>5. NotAgain'
  <2>1. SUFFICES ASSUME NEW x \in Actions \ excused, Did(x)', x \notin server'.got
                 PROVE  copies'[x] = 0 /\ (InHand(x)' => b.pc \notin Sending /\ ~SameLedger(b)')
    BY DEF NotAgain, Later
  <2>2. CASE x = a BY <2>1, <2>2 DEF SameLedger, Later
  <2>3. CASE x # a
    <3>1. Did(x) /\ x \notin server.got BY <2>1, <2>3 DEF Did, Later
    <3>2. QED BY <1>3, <2>3, <3>1 DEF RconInv, NotAgain
  <2>4. QED BY <2>2, <2>3
<1>6. Unsent'
  <2>1. SUFFICES ASSUME NEW x \in Actions, outcome[x] = "none", x # a
                 PROVE  Untouched(x)'
    BY <1>3 DEF Unsent
  <2>2. Untouched(x) BY <1>4, <2>1 DEF RconInv, Unsent
  <2>3. QED BY <2>1, <2>2 DEF Untouched, Later
<1>7. OneCall' BY DEF RconInv, OneCall, InHand, Later
<1>8. Heard'
  <2>1. SUFFICES ASSUME NEW x \in Actions \ excused
                 PROVE  Truthful(b.heard[x], x)' /\ Truthful(outcome[x], x)'
    BY DEF Heard, Later
  <2>2. Truthful(b.heard[x], x) /\ Truthful(outcome[x], x) BY DEF RconInv, Heard
  <2>3. QED BY <2>2, StaysTrue DEF Truthful
<1>9. RefusedForGood'
  <2>1. outcome[a] = "none" BY DEF RconInv, OneCall, InHand
  <2>2. QED BY <2>1 DEF RconInv, RefusedForGood, Later
<1>10. QED BY <1>1, <1>2, <1>5, <1>6, <1>7, <1>8, <1>9 DEF RconInv

LEMMA Over ==
    ASSUME RconInv, NEW a \in Actions, InHand(a), Later(a),
           NEW b \in Bodies, b.a = a, b.sent = body.sent, b.known <= server.epoch,
           NEW what \in {"refused", "unknown", "timeout", "death"} \cup Outcomes, Tell(b, what),
           \A x \in Actions \ excused : Truthful(b.heard[x], x),
           UNCHANGED copies,
           a \notin excused => Truthful(what, a)',
           a \notin excused /\ what = "refused" => a \in server'.got /\ a \notin server'.ok,
           a \notin excused /\ Did(a)' /\ a \notin server'.got => copies[a] = 0
    PROVE  RconInv'
<1>1. /\ body' \in Bodies /\ body'.pc = "idle" /\ body'.a = "none" /\ body'.sent = b.sent
      /\ body'.known = b.known /\ body'.heard = b.heard
  BY DEF Tell, Bodies, Pcs
<1>2. outcome' \in [Actions -> {"none", "refused", "unknown", "timeout", "death"} \cup Outcomes]
      /\ outcome'[a] = what /\ \A x \in Actions \ {a} : outcome'[x] = outcome[x]
  BY DEF Tell, RconInv, RconType
<1>3. RconType' BY <1>1, <1>2 DEF RconInv, RconType, Later
<1>4. ServerSound' /\ DoneOnce' BY DEF Later
<1>5. \A x \in Actions \ {a} : ~InHand(x) BY DEF InHand
<1>6. NotAgain'
  <2>1. SUFFICES ASSUME NEW x \in Actions \ excused, Did(x)', x \notin server'.got
                 PROVE  copies[x] = 0
    BY <1>1 DEF NotAgain, InHand, Later
  <2>2. CASE x # a
    <3>1. Did(x) /\ x \notin server.got BY <2>1, <2>2 DEF Did, Later
    <3>2. QED BY <3>1 DEF RconInv, NotAgain
  <2>3. QED BY <2>1, <2>2
<1>7. Unsent'
  <2>1. SUFFICES ASSUME NEW x \in Actions, outcome'[x] = "none"
                 PROVE  Untouched(x)'
    BY <1>1 DEF Unsent
  <2>2. x # a /\ outcome[x] = "none" BY <1>2, <2>1 DEF Outcomes
  <2>3. Untouched(x) BY <1>5, <2>2 DEF RconInv, Unsent
  <2>4. QED BY <2>2, <2>3 DEF Untouched, Later
<1>8. OneCall' BY <1>1 DEF RconInv, OneCall, Later
<1>9. Heard'
  <2>1. SUFFICES ASSUME NEW x \in Actions \ excused
                 PROVE  Truthful(body.heard[x], x)' /\ Truthful(outcome[x], x)'
    BY DEF Heard, Later
  <2>2. Truthful(b.heard[x], x) /\ Truthful(outcome[x], x) BY DEF RconInv, Heard
  <2>3. Truthful(body.heard[x], x)' BY <1>1, <2>2, StaysTrue DEF Truthful
  <2>4. CASE x = a BY <1>2, <2>3, <2>4 DEF Truthful
  <2>5. CASE x # a BY <1>2, <2>2, <2>3, <2>5, StaysTrue DEF Truthful
  <2>6. QED BY <2>4, <2>5
<1>10. RefusedForGood'
  <2>1. SUFFICES ASSUME NEW x \in Actions \ excused, outcome'[x] = "refused"
                 PROVE  effects'[x] = 0 /\ x \notin server'.ok /\ (x \notin server'.got => copies[x] = 0)
    BY DEF RefusedForGood, Later
  <2>2. CASE x = a BY <1>2, <2>1, <2>2 DEF DoneOnce, Later
  <2>3. CASE x # a BY <1>2, <2>1, <2>3 DEF RconInv, RefusedForGood, Later
  <2>4. QED BY <2>2, <2>3
<1>11. QED BY <1>3, <1>4, <1>6, <1>7, <1>8, <1>9, <1>10 DEF RconInv

\* b is the Body after reading, before it moves on: nothing it heard is wrong.
Informed(b) ==
    /\ b \in Bodies /\ b.a = body.a /\ b.sent = body.sent /\ b.known <= server.epoch
    /\ \A x \in Actions \ excused : Truthful(b.heard[x], x)

LEMMA BodyInformed == RconInv => Informed(body)
BY DEF RconInv, RconType, Informed, OneCall, Heard

LEMMA PollInformed ==
    ASSUME RconInv
    PROVE  Informed(poll_events(body)) /\ poll_events(body).known = body.known
<1> DEFINE heard == [x \in Actions |-> HeardOf(body, x)]
           last == IF Len(log) > body.last THEN Len(log) ELSE body.last
<1>1. body \in Bodies /\ log \in Seq(Entries) BY DEF RconInv, RconType
<1>2. ASSUME NEW x \in Actions
      PROVE  /\ HeardOf(body, x) \in {"none"} \cup Outcomes
             /\ x \notin excused => Truthful(HeardOf(body, x), x)
  <2>1. body.heard[x] \in {"none"} \cup Outcomes /\ (x \notin excused => Truthful(body.heard[x], x))
    BY <1>1 DEF Bodies, RconInv, Heard
  <2>2. ASSUME NEW o \in TerminalIn(Unread(body), x) PROVE o \in Outcomes /\ Truthful(o, x)
    <3>1. PICK n \in 1..Len(log) : log[n].who = x /\ log[n].out = o
      BY <2>2 DEF TerminalIn, Unread
    <3>a. log[n] \in Entries BY <1>1
    <3>2. o \in Outcomes BY <3>1, <3>a DEF Entries
    <3>3. starts[x] >= 1 /\ (o = "ok" => effects[x] >= 1) BY <3>1 DEF RconInv, ServerSound
    <3>4. QED BY <3>2, <3>3 DEF Truthful
  <2>3. CASE HeardOf(body, x) = body.heard[x] BY <2>1, <2>3
  <2>4. CASE TerminalIn(Unread(body), x) # {}
             /\ HeardOf(body, x) = CHOOSE o \in TerminalIn(Unread(body), x) : TRUE
    <3>1. HeardOf(body, x) \in TerminalIn(Unread(body), x) BY <2>4
    <3>2. QED BY <2>2, <3>1
  <2>5. QED BY <2>3, <2>4 DEF HeardOf
<1>3. heard \in [Actions -> {"none"} \cup Outcomes] /\ \A x \in Actions \ excused : Truthful(heard[x], x)
  BY <1>2
<1>4. last \in Nat BY <1>1 DEF Bodies
<1>5. poll_events(body) = [body EXCEPT !.last = last, !.heard = heard] BY DEF poll_events
<1> HIDE DEF heard, last
<1>6. QED BY <1>1, <1>3, <1>4, <1>5 DEF Informed, Bodies, RconInv, OneCall

LEMMA RegisterInformed ==
    ASSUME RconInv, InHand(body.a), NEW out \in Outcomes, NEW seq \in Nat,
           body.a \notin excused => Truthful(out, body.a)
    PROVE  Informed(_register_reconciled_terminal(body, out, seq))
<1> DEFINE last == IF seq > body.last THEN seq ELSE body.last + 1
           heard == [body.heard EXCEPT ![body.a] = out]
           r == [body EXCEPT !.heard[body.a] = out, !.last = last]
<1>1. body \in Bodies /\ body.a \in Actions /\ body.heard \in [Actions -> {"none"} \cup Outcomes]
  BY DEF RconInv, RconType, Bodies, OneCall, InHand
<1>2. last \in Nat BY <1>1 DEF Bodies
<1>3. heard \in [Actions -> {"none"} \cup Outcomes] /\ \A x \in Actions \ excused : Truthful(heard[x], x)
  BY <1>1 DEF RconInv, Heard
<1>4. r = [body EXCEPT !.heard = heard, !.last = last] BY <1>1 DEF Bodies
<1>5. _register_reconciled_terminal(body, out, seq) \in {body, r} BY DEF _register_reconciled_terminal
<1> HIDE DEF heard, last
<1>6. Informed(r) BY <1>1, <1>2, <1>3, <1>4 DEF Informed, Bodies, RconInv, OneCall
<1>7. QED BY <1>5, <1>6, BodyInformed

\* The call goes on to another place of the code.
LEMMA GoesOn ==
    ASSUME RconInv, body.pc # "idle", UNCHANGED <<srvVars, restVars>>,
           NEW b, Informed(b), NEW c \in Bodies, To(c), c.a = b.a, c.sent = b.sent, c.heard = b.heard,
           c.known <= server.epoch, c.pc \notin {"idle", "dispatch"},
           c.pc \in Sending /\ body.a \notin excused /\ Did(body.a) => body.a \in server.got
    PROVE  RconInv'
<1>1. PICK a \in Actions : a = body.a /\ InHand(a) BY DEF RconInv, OneCall, InHand
<1>2. Later(a) BY LaterSame DEF restVars
<1>3. (Did(a)' <=> Did(a)) /\ server' = server BY DEF Did, srvVars
<1>4. a \notin excused /\ Did(a) /\ a \notin server.got => copies[a] = 0 /\ ~SameLedger(body)
  BY <1>1 DEF RconInv, NotAgain
<1>5. copies' \in [Actions -> Nat] /\ copies' = copies BY DEF RconInv, RconType, restVars
<1>6. QED BY <1>1, <1>2, <1>3, <1>4, <1>5, Onward DEF To, Informed

\* The call is over.
LEMMA CallOver ==
    ASSUME RconInv, body.pc # "idle", UNCHANGED <<srvVars, restVars>>,
           NEW b, Informed(b), NEW what \in {"refused", "unknown", "timeout", "death"} \cup Outcomes, Tell(b, what),
           body.a \notin excused => Truthful(what, body.a),
           what = "refused" => body.a \in server.got /\ body.a \notin server.ok
    PROVE  RconInv'
<1>1. PICK a \in Actions : a = body.a /\ InHand(a) BY DEF RconInv, OneCall, InHand
<1>2. Later(a) BY LaterSame DEF restVars
<1>3. (Did(a)' <=> Did(a)) /\ server' = server /\ effects' = effects /\ starts' = starts BY DEF Did, srvVars
<1>4. a \notin excused /\ Did(a) /\ a \notin server.got => copies[a] = 0
  BY <1>1 DEF RconInv, NotAgain
<1>5. copies' = copies BY DEF restVars
<1>6. a \notin excused => Truthful(what, a)' BY <1>1, <1>3 DEF Truthful
<1>7. QED BY <1>1, <1>2, <1>3, <1>4, <1>5, <1>6, Over DEF Informed

\* ----- the actions of the Body -------------------------------------------

LEMMA ExecuteKeeps ==
    ASSUME RconInv, NEW a \in Actions, execute_mutation(a)
    PROVE  RconInv'
<1>1. body.pc = "idle" /\ outcome[a] = "none" /\ UNCHANGED <<srvVars, restVars, outcome>>
  BY DEF execute_mutation, To
<1>2. PICK e \in {NoEpoch, server.epoch, body.known} :
        body' = [body EXCEPT !.pc = "dispatch", !.a = a, !.known = e, !.sent = e, !.match = FALSE,
                             !.tries = 0, !.start = body.last]
  BY DEF execute_mutation, To
<1>3. body \in Bodies /\ server.epoch \in Nat /\ body.known <= server.epoch
  BY DEF RconInv, RconType, Servers, OneCall
<1>4. e \in Nat /\ e <= server.epoch BY <1>3 DEF NoEpoch, Bodies
<1>5. /\ body' \in Bodies /\ body'.pc = "dispatch" /\ body'.a = a /\ body'.known = e /\ body'.sent = e
      /\ body'.heard = body.heard
  BY <1>2, <1>3, <1>4 DEF Bodies, Pcs
<1>6. \A x \in Actions : InHand(x)' <=> x = a BY <1>5 DEF InHand
<1>7. \A x \in Actions : ~InHand(x) BY <1>1 DEF InHand
<1>8. Untouched(a) BY <1>1, <1>7 DEF RconInv, Unsent
<1>9. RconType' BY <1>1, <1>5 DEF RconInv, RconType, srvVars, restVars
<1>10. ServerSound' /\ DoneOnce' /\ RefusedForGood'
  BY <1>1 DEF RconInv, ServerSound, DoneOnce, RefusedForGood, srvVars, restVars
<1>11. NotAgain'
  <2>1. ~Did(a) BY <1>8 DEF Untouched, Did, RconInv, RconType, ServerSound
  <2>2. QED BY <1>1, <1>6, <2>1 DEF RconInv, NotAgain, Did, srvVars, restVars
<1>12. Unsent' BY <1>1, <1>5, <1>6, <1>7, <1>8 DEF RconInv, Unsent, Untouched, srvVars, restVars
<1>13. OneCall' BY <1>1, <1>4, <1>5 DEF OneCall, srvVars
<1>14. Heard' BY <1>1, <1>5 DEF RconInv, Heard, Truthful, srvVars, restVars
<1>15. QED BY <1>9, <1>10, <1>11, <1>12, <1>13, <1>14 DEF RconInv

LEMMA AnsweredKeeps ==
    ASSUME RconInv, Answered
    PROVE  RconInv'
<1>0. body.pc \in Sending /\ body.pc # "idle" BY DEF Answered, Sending, Resending
<1>1. PICK a \in Actions : a = body.a /\ InHand(a) BY <1>0 DEF RconInv, OneCall, InHand
<1>2. Wanted(a) /\ Deliver(a) /\ UNCHANGED <<log, copies, excused>>
  BY <1>0, <1>1 DEF Wanted, Answered, restVars
<1>3. Later(a) /\ a \in server'.got BY <1>1, <1>2, LaterRead
<1>4. Informed(body) BY BodyInformed
<1>5. CASE a \notin server'.ok /\ Tell(body, "refused")
  <2>1. Truthful("refused", a)' BY DEF Truthful
  <2>2. QED BY <1>1, <1>2, <1>3, <1>4, <1>5, <2>1, Over DEF Informed
<1>6. CASE a \in server'.ok /\ Kind[a] = "result" /\ Tell(body, "ok")
  <2>1. effects'[a] >= 1 BY <1>3, <1>6 DEF Later, ServerSound
  <2>2. Truthful("ok", a)' BY <2>1 DEF Truthful
  <2>3. QED BY <1>1, <1>2, <1>3, <1>4, <1>6, <2>2, Over DEF Informed, Outcomes
<1>7. CASE To([body EXCEPT !.pc = "await"])
  <2>0. body \in Bodies BY <1>4 DEF Informed
  <2>1. PICK c \in Bodies : /\ c = [body EXCEPT !.pc = "await"] /\ c.a = a /\ c.pc = "await" /\ c.sent = body.sent
                            /\ c.known = body.known /\ c.heard = body.heard
    <3>1. [body EXCEPT !.pc = "await"] \in Bodies BY <2>0 DEF Bodies, Pcs
    <3>2. QED BY <1>1, <2>0, <3>1 DEF Bodies
  <2>2. copies' \in [Actions -> Nat] BY <1>2 DEF RconInv, RconType
  <2>3. QED BY <1>1, <1>2, <1>3, <1>4, <1>7, <2>1, <2>2, Onward DEF To, Informed
<1>8. QED BY <1>1, <1>5, <1>6, <1>7 DEF Answered, Answer

LEMMA RequestFailsKeeps ==
    ASSUME RconInv, RequestFails
    PROVE  RconInv'
<1>0. body.pc \in Sending /\ body.pc # "idle" BY DEF RequestFails, Sending, Resending
<1>1. PICK a \in Actions : a = body.a /\ InHand(a) BY <1>0 DEF RconInv, OneCall, InHand
<1>2. Wanted(a) /\ UNCHANGED <<log, excused, outcome>>
  BY <1>0, <1>1 DEF Wanted, RequestFails, To
<1>3. Informed(body) BY BodyInformed
<1>4. AfterLoss(body.pc) \in {"status", "restatus", "unknown"}
  BY <1>0 DEF Sending, Resending, AfterLoss
<1>5. PICK c \in Bodies : /\ c = [body EXCEPT !.pc = AfterLoss(body.pc)] /\ c.a = a /\ c.sent = body.sent
                          /\ c.pc \in {"status", "restatus", "unknown"}
                          /\ c.known = body.known /\ c.heard = body.heard
  <2>1. body \in Bodies BY <1>3 DEF Informed
  <2>2. [body EXCEPT !.pc = AfterLoss(body.pc)] \in Bodies BY <1>4, <2>1 DEF Bodies, Pcs
  <2>3. QED BY <1>1, <1>4, <2>1, <2>2 DEF Bodies
<1>6. body' = c BY <1>5 DEF RequestFails, To
<1>7. c.pc \notin Sending /\ c.pc \notin {"idle", "dispatch"} BY <1>5 DEF Sending, Resending
<1>8. CASE Deliver(a) /\ UNCHANGED copies
  <2>1. Later(a) /\ a \in server'.got BY <1>1, <1>2, <1>8, LaterRead
  <2>2. copies' \in [Actions -> Nat] /\ \A x \in Actions \ {a} : copies'[x] = copies[x]
    BY <1>8 DEF RconInv, RconType
  <2>3. c.known <= server.epoch /\ \A x \in Actions \ excused : Truthful(c.heard[x], x)
    BY <1>3, <1>5 DEF Informed
  <2>4. QED BY <1>1, <1>2, <1>5, <1>6, <1>7, <2>1, <2>2, <2>3, Onward
<1>9. CASE copies' = [copies EXCEPT ![a] = @ + 1] /\ UNCHANGED srvVars
  <2>1. Later(a) BY <1>2, <1>9, LaterSame
  <2>2. copies \in [Actions -> Nat] BY DEF RconInv, RconType
  <2>3. copies' \in [Actions -> Nat] /\ \A x \in Actions \ {a} : copies'[x] = copies[x] BY <1>9, <2>2
  <2>4. (Did(a)' <=> Did(a)) /\ server' = server BY <1>9 DEF Did, srvVars
  <2>5. ~(a \notin excused /\ Did(a) /\ a \notin server.got) BY <1>2, WantedNotDone
  <2>6. QED BY <1>1, <1>2, <1>3, <1>5, <1>6, <1>7, <2>1, <2>3, <2>4, <2>5, Onward DEF Informed
<1>10. QED BY <1>1, <1>8, <1>9 DEF RequestFails

\* c is b at another place of the code.
Moved(b, c) ==
    c \in Bodies /\ c.a = b.a /\ c.sent = b.sent /\ c.known = b.known /\ c.heard = b.heard

LEMMA MovedTo ==
    ASSUME NEW b \in Bodies, NEW pc \in Pcs
    PROVE  Moved(b, [b EXCEPT !.pc = pc]) /\ [b EXCEPT !.pc = pc].pc = pc
BY DEF Moved, Bodies

LEMMA MovedThen ==
    ASSUME NEW b \in Bodies, NEW pc \in Pcs, NEW t \in {"probe", "unknown"}
    PROVE  Moved(b, [b EXCEPT !.pc = pc, !.then = t]) /\ [b EXCEPT !.pc = pc, !.then = t].pc = pc
<1>1. [b EXCEPT !.pc = pc, !.then = t] \in Bodies BY DEF Bodies
<1>2. QED BY <1>1 DEF Moved, Bodies

LEMMA MovedTries ==
    ASSUME NEW b \in Bodies, NEW pc \in Pcs, NEW n \in Nat
    PROVE  Moved(b, [b EXCEPT !.pc = pc, !.tries = n]) /\ [b EXCEPT !.pc = pc, !.tries = n].pc = pc
<1>1. [b EXCEPT !.pc = pc, !.tries = n] \in Bodies BY DEF Bodies
<1>2. QED BY <1>1 DEF Moved, Bodies

LEMMA InPcs == {"resend", "wait", "await", "probe", "probed", "unknown"} \subseteq Pcs
BY DEF Pcs

\* The call goes on with what it has read.
LEMMA MovesOn ==
    ASSUME RconInv, body.pc # "idle", UNCHANGED <<srvVars, restVars>>, NEW b, Informed(b), NEW c, Moved(b, c), To(c),
           c.pc \notin {"idle", "dispatch"},
           c.pc \in Sending /\ body.a \notin excused /\ Did(body.a) => body.a \in server.got
    PROVE  RconInv'
BY GoesOn DEF Informed, Moved

\* What the server remembers of the action is told.
LEMMA RememberedKeeps ==
    ASSUME RconInv, body.pc # "idle", UNCHANGED <<srvVars, restVars>>, NEW b, Informed(b), Remembered(b),
           Answer(b, b.a \in server.ok)
    PROVE  RconInv'
<1>1. b.a = body.a /\ body.a \in Actions /\ b.a \in server.got BY DEF Informed, RconInv, OneCall, Remembered
<1>2. CASE b.a \notin server.ok /\ Tell(b, "refused")
  BY <1>1, <1>2, CallOver DEF Truthful
<1>3. CASE b.a \in server.ok /\ Kind[b.a] = "result" /\ Tell(b, "ok")
  <2>1. starts[b.a] >= 1 /\ effects[b.a] = starts[b.a] BY <1>1, <1>3 DEF RconInv, ServerSound
  <2>2. Truthful("ok", body.a) BY <1>1, <2>1 DEF Truthful
  <2>3. QED BY <1>3, <2>2, CallOver DEF Outcomes
<1>4. QED BY <1>2, <1>3 DEF Answer, Remembered

\* The action is sent again only when the server has not received it.
LEMMA NotSeenNotDone ==
    ASSUME RconInv, body.pc # "idle", NEW b, b.sent = body.sent, b.a = body.a, _status_proves_not_seen(b),
           body.a \notin excused
    PROVE  ~Did(body.a)
BY DEF RconInv, OneCall, InHand, NotAgain, SameLedger, _status_proves_not_seen

LEMMA UnknownKeeps ==
    ASSUME RconInv, body.pc # "idle", UNCHANGED <<srvVars, restVars>>, NEW b, Informed(b), Unknown(b)
    PROVE  RconInv'
BY CallOver DEF Unknown, Truthful

LEMMA ReadStatusKeeps ==
    ASSUME RconInv, ReadStatus
    PROVE  RconInv'
<1>1. body.pc = "status" /\ UNCHANGED <<srvVars, restVars>> BY DEF ReadStatus
<1> DEFINE b == [body EXCEPT !.match = (body.sent # NoEpoch /\ server.epoch = body.sent)]
<1>2. Informed(body) BY BodyInformed
<1>3. Informed(b)
  <2>1. body \in Bodies BY <1>2 DEF Informed
  <2>2. b \in Bodies /\ b.a = body.a /\ b.sent = body.sent /\ b.heard = body.heard /\ b.known = body.known
    BY <2>1 DEF Bodies
  <2>3. QED BY <1>2, <2>2 DEF Informed
<1>4. \/ Unknown(body)
      \/ Remembered(b) /\ Answer(b, b.a \in server.ok)
      \/ _status_proves_not_seen(b) /\ To([b EXCEPT !.pc = "resend", !.tries = 1])
      \/ To([b EXCEPT !.pc = "wait", !.then = "probe"])
  BY DEF ReadStatus
<1> HIDE DEF b
<1>5. CASE Unknown(body) BY <1>1, <1>2, <1>5, UnknownKeeps
<1>6. CASE Remembered(b) /\ Answer(b, b.a \in server.ok) BY <1>1, <1>3, <1>6, RememberedKeeps
<1>7. CASE _status_proves_not_seen(b) /\ To([b EXCEPT !.pc = "resend", !.tries = 1])
  <2>1. Moved(b, [b EXCEPT !.pc = "resend", !.tries = 1]) /\ [b EXCEPT !.pc = "resend", !.tries = 1].pc = "resend"
    <3>1. b \in Bodies /\ "resend" \in Pcs /\ 1 \in Nat BY <1>3, InPcs DEF Informed
    <3>2. QED BY <3>1, MovedTries
  <2>2. body.a \notin excused => ~Did(body.a) BY <1>1, <1>3, <1>7, NotSeenNotDone DEF Informed
  <2>3. QED BY <1>1, <1>3, <1>7, <2>1, <2>2, MovesOn
<1>8. CASE To([b EXCEPT !.pc = "wait", !.then = "probe"])
  <2>1. Moved(b, [b EXCEPT !.pc = "wait", !.then = "probe"]) /\ [b EXCEPT !.pc = "wait", !.then = "probe"].pc = "wait"
    <3>1. b \in Bodies /\ "wait" \in Pcs BY <1>3, InPcs DEF Informed
    <3>2. QED BY <3>1, MovedThen
  <2>2. "wait" \notin Sending BY DEF Sending, Resending
  <2>3. QED BY <1>1, <1>3, <1>8, <2>1, <2>2, MovesOn
<1>9. QED BY <1>4, <1>5, <1>6, <1>7, <1>8

\* The terminal is found, in the status or in the log.
LEMMA SettlesKeeps ==
    ASSUME RconInv, body.pc # "idle", UNCHANGED <<srvVars, restVars>>, Settles(body)
    PROVE  RconInv'
<1>1. \E r : Informed(r) /\ To([r EXCEPT !.pc = "await"])
  <2>1. CASE StatusTerminal(body.a) # {}
    <3>1. PICK n \in StatusTerminal(body.a) :
            To([_register_reconciled_terminal(body, log[n].out, n) EXCEPT !.pc = "await"])
      BY <2>1 DEF Settles
    <3>2. n \in 1..Len(log) /\ log[n].who = body.a BY <3>1 DEF StatusTerminal
    <3>3. log[n] \in Entries /\ n \in Nat BY <3>2 DEF RconInv, RconType
    <3>4. body.a \in Actions /\ InHand(body.a) BY DEF RconInv, OneCall, InHand
    <3>5. Truthful(log[n].out, body.a) BY <3>2, <3>4 DEF RconInv, ServerSound, Truthful
    <3>6. log[n].out \in Outcomes BY <3>3 DEF Entries
    <3>7. QED BY <3>1, <3>3, <3>4, <3>5, <3>6, RegisterInformed
  <2>2. CASE StatusTerminal(body.a) = {} BY <2>2, PollInformed DEF Settles
  <2>3. QED BY <2>1, <2>2
<1>2. PICK r : Informed(r) /\ To([r EXCEPT !.pc = "await"]) BY <1>1
<1>3. Moved(r, [r EXCEPT !.pc = "await"]) /\ [r EXCEPT !.pc = "await"].pc = "await"
  <2>1. r \in Bodies /\ "await" \in Pcs BY <1>2, InPcs DEF Informed
  <2>2. QED BY <2>1, MovedTo
<1>4. "await" \notin Sending BY DEF Sending, Resending
<1>5. QED BY <1>2, <1>3, <1>4, MovesOn

LEMMA ReadStatusAgainKeeps ==
    ASSUME RconInv, ReadStatusAgain
    PROVE  RconInv'
<1>1. body.pc = "restatus" /\ UNCHANGED <<srvVars, restVars>> BY DEF ReadStatusAgain
<1> DEFINE b == poll_events(body)
<1>2. Informed(body) /\ Informed(b) BY BodyInformed, PollInformed
<1>3. \/ Unknown(body) \/ Settles(body)
      \/ Remembered(b) /\ Answer(b, b.a \in server.ok)
      \/ To([b EXCEPT !.pc = "wait", !.then = "unknown"])
      \/ _status_proves_not_seen(b) /\ To([b EXCEPT !.pc = "resend", !.tries = @ + 1])
      \/ Unknown(b)
  BY DEF ReadStatusAgain
<1> HIDE DEF b
<1>4. CASE Unknown(body) \/ Unknown(b) BY <1>1, <1>2, <1>4, UnknownKeeps
<1>5. CASE Settles(body) BY <1>1, <1>5, SettlesKeeps
<1>6. CASE Remembered(b) /\ Answer(b, b.a \in server.ok) BY <1>1, <1>2, <1>6, RememberedKeeps
<1>7. CASE To([b EXCEPT !.pc = "wait", !.then = "unknown"])
  <2>1. Moved(b, [b EXCEPT !.pc = "wait", !.then = "unknown"])
        /\ [b EXCEPT !.pc = "wait", !.then = "unknown"].pc = "wait"
    <3>1. b \in Bodies /\ "wait" \in Pcs BY <1>2, InPcs DEF Informed
    <3>2. QED BY <3>1, MovedThen
  <2>2. "wait" \notin Sending BY DEF Sending, Resending
  <2>3. QED BY <1>1, <1>2, <1>7, <2>1, <2>2, MovesOn
<1>8. CASE _status_proves_not_seen(b) /\ To([b EXCEPT !.pc = "resend", !.tries = @ + 1])
  <2>1. b.tries + 1 \in Nat BY <1>2 DEF Informed, Bodies
  <2>2. PICK n \in Nat : n = b.tries + 1 BY <2>1
  <2>3. Moved(b, [b EXCEPT !.pc = "resend", !.tries = n]) /\ [b EXCEPT !.pc = "resend", !.tries = n].pc = "resend"
    <3>1. b \in Bodies /\ "resend" \in Pcs BY <1>2, InPcs DEF Informed
    <3>2. QED BY <3>1, MovedTries
  <2>4. To([b EXCEPT !.pc = "resend", !.tries = n]) BY <1>8, <2>2
  <2>5. body.a \notin excused => ~Did(body.a) BY <1>1, <1>2, <1>8, NotSeenNotDone DEF Informed
  <2>6. QED BY <1>1, <1>2, <2>3, <2>4, <2>5, MovesOn
<1>9. QED BY <1>3, <1>4, <1>5, <1>6, <1>7, <1>8

LEMMA LookAgainKeeps ==
    ASSUME RconInv, LookAgain
    PROVE  RconInv'
<1>1. body.pc = "wait" /\ UNCHANGED <<srvVars, restVars>> BY DEF LookAgain
<1> DEFINE b == poll_events(body)
<1>2. Informed(b) BY PollInformed
<1>3. CASE Settles(body) BY <1>1, <1>3, SettlesKeeps
<1>4. CASE \E e \in {b.known, server.epoch} : To([b EXCEPT !.known = e])
  <2>1. PICK e \in {b.known, server.epoch} : To([b EXCEPT !.known = e]) BY <1>4
  <2>2. b.pc = "wait" BY <1>1 DEF poll_events, RconInv, RconType, Bodies
  <2> HIDE DEF b
  <2>3. b \in Bodies /\ server.epoch \in Nat BY <1>2 DEF Informed, RconInv, RconType, Servers
  <2>4. e \in Nat /\ e <= server.epoch BY <1>2, <2>1, <2>3 DEF Informed, Bodies
  <2>5. [b EXCEPT !.known = e] \in Bodies BY <2>3, <2>4 DEF Bodies
  <2>6. LET c == [b EXCEPT !.known = e]
        IN  c.a = b.a /\ c.sent = b.sent /\ c.known = e /\ c.heard = b.heard /\ c.pc = "wait"
    BY <2>2, <2>3 DEF Bodies
  <2>7. "wait" \notin Sending /\ "wait" \notin {"idle", "dispatch"} BY DEF Sending, Resending
  <2>8. QED BY <1>1, <1>2, <2>1, <2>4, <2>5, <2>6, <2>7, GoesOn
<1>5. QED BY <1>3, <1>4 DEF LookAgain

LEMMA GiveUpKeeps ==
    ASSUME RconInv, GiveUpWaiting
    PROVE  RconInv'
<1>1. body.pc = "wait" /\ UNCHANGED <<srvVars, restVars>> /\ To([body EXCEPT !.pc = body.then]) BY DEF GiveUpWaiting
<1>2. Informed(body) /\ body \in Bodies /\ body.then \in {"probe", "unknown"}
  BY BodyInformed DEF RconInv, RconType, Bodies
<1>3. body.then \in Pcs /\ body.then \notin Sending /\ body.then \notin {"idle", "dispatch"}
  BY <1>2 DEF Pcs, Sending, Resending
<1>4. Moved(body, [body EXCEPT !.pc = body.then]) /\ [body EXCEPT !.pc = body.then].pc = body.then
  <2>1. body \in Bodies /\ body.then \in Pcs BY <1>2, <1>3
  <2>2. QED BY <2>1, MovedTo
<1>5. QED BY <1>1, <1>2, <1>3, <1>4, MovesOn

LEMMA ProbeBlockKeeps ==
    ASSUME RconInv, ProbeBlock
    PROVE  RconInv'
<1>1. body.pc = "probe" /\ UNCHANGED <<srvVars, restVars>> BY DEF ProbeBlock
<1>2. Informed(body) /\ body.a \in Actions /\ InHand(body.a) BY <1>1, BodyInformed DEF RconInv, OneCall, InHand
<1>3. CASE Unknown(body) BY <1>1, <1>2, <1>3, UnknownKeeps
<1>4. CASE /\ classify_authoritative_block(body.a) = "applied"
           /\ To([_register_reconciled_terminal(body, "ok", 0) EXCEPT !.pc = "await"])
  <2>1. Kind[body.a] = "block" /\ cell[body.a] = "after" BY <1>4 DEF classify_authoritative_block
  <2>2. body.a \notin excused => Truthful("ok", body.a)
    BY <1>2, <2>1 DEF RconInv, DoneOnce, Truthful
  <2>3. Informed(_register_reconciled_terminal(body, "ok", 0)) BY <1>2, <2>2, RegisterInformed DEF Outcomes
  <2>4. PICK r : r = _register_reconciled_terminal(body, "ok", 0) OBVIOUS
  <2>5. Moved(r, [r EXCEPT !.pc = "await"]) /\ [r EXCEPT !.pc = "await"].pc = "await"
    <3>1. r \in Bodies /\ "await" \in Pcs BY <2>3, <2>4, InPcs DEF Informed
    <3>2. QED BY <3>1, MovedTo
  <2>6. "await" \notin Sending BY DEF Sending, Resending
  <2>7. QED BY <1>1, <1>4, <2>3, <2>4, <2>5, <2>6, MovesOn
<1>5. CASE classify_authoritative_block(body.a) = "not_applied" /\ To([body EXCEPT !.pc = "probed"])
  <2>1. Kind[body.a] = "block" /\ cell[body.a] = "before" BY <1>5 DEF classify_authoritative_block
  <2>2. body.a \notin excused => ~Did(body.a) BY <1>2, <2>1 DEF RconInv, DoneOnce, Did
  <2>3. Moved(body, [body EXCEPT !.pc = "probed"]) /\ [body EXCEPT !.pc = "probed"].pc = "probed"
    <3>1. body \in Bodies /\ "probed" \in Pcs BY <1>2, InPcs DEF Informed
    <3>2. QED BY <3>1, MovedTo
  <2>4. QED BY <1>1, <1>2, <1>5, <2>2, <2>3, MovesOn
<1>6. QED BY <1>3, <1>4, <1>5 DEF ProbeBlock

LEMMA AwaitKeeps ==
    ASSUME RconInv, await_action_terminal
    PROVE  RconInv'
<1>1. body.pc = "await" /\ UNCHANGED <<srvVars, restVars>> BY DEF await_action_terminal
<1> DEFINE b == poll_events(body)
<1>2. Informed(b) BY PollInformed
<1>3. body.a \in Actions /\ b.a = body.a BY <1>1, <1>2 DEF RconInv, OneCall, Informed
<1>4. \/ b.heard[b.a] # "none" /\ Tell(b, b.heard[b.a])
      \/ Tell(b, "death") \/ Tell(b, "timeout")
  BY DEF await_action_terminal
<1> HIDE DEF b
<1>5. CASE b.heard[b.a] # "none" /\ Tell(b, b.heard[b.a])
  <2>1. b.heard[b.a] \in Outcomes BY <1>2, <1>3, <1>5 DEF Informed, Bodies
  <2>2. body.a \notin excused => Truthful(b.heard[b.a], body.a) BY <1>2, <1>3 DEF Informed
  <2>3. b.heard[b.a] # "refused" BY <2>1 DEF Outcomes
  <2>4. QED BY <1>1, <1>2, <1>5, <2>1, <2>2, <2>3, CallOver
<1>6. CASE Tell(b, "death") BY <1>1, <1>2, <1>6, CallOver DEF Truthful
<1>7. CASE Tell(b, "timeout") BY <1>1, <1>2, <1>7, CallOver DEF Truthful
<1>8. QED BY <1>4, <1>5, <1>6, <1>7

\* ----- the actions of the server -----------------------------------------

LEMMA LateRequestKeeps ==
    ASSUME RconInv, NEW a \in Actions, LateRequest(a)
    PROVE  RconInv'
<1>1. /\ copies[a] > 0 /\ copies' = [copies EXCEPT ![a] = @ - 1] /\ Deliver(a)
      /\ UNCHANGED <<log, excused, body, outcome>>
  BY DEF LateRequest
<1>2. Reads(a) /\ ServerSound' /\ DoneOnce' BY <1>1, DeliverReads, DeliverSound DEF Wanted, RconInv
<1>3. copies \in [Actions -> Nat] BY DEF RconInv, RconType
<1>4. copies' \in [Actions -> Nat] /\ \A x \in Actions \ {a} : copies'[x] = copies[x] BY <1>1, <1>3
<1>5. RconType' BY <1>1, <1>2, <1>4 DEF RconInv, RconType, Reads
<1>6. \A x \in Actions : InHand(x)' <=> InHand(x) BY <1>1 DEF InHand
<1>7. NotAgain'
  <2>1. SUFFICES ASSUME NEW x \in Actions \ excused, Did(x)', x \notin server'.got
                 PROVE  copies'[x] = 0 /\ (InHand(x) => body.pc \notin Sending /\ ~SameLedger(body)')
    BY <1>1, <1>6 DEF NotAgain
  <2>2. x # a BY <1>2, <2>1 DEF Reads
  <2>3. Did(x) /\ x \notin server.got BY <1>2, <2>1, <2>2 DEF Did, Reads
  <2>4. copies[x] = 0 /\ (InHand(x) => body.pc \notin Sending /\ ~SameLedger(body))
    BY <2>3 DEF RconInv, NotAgain
  <2>5. QED BY <1>1, <1>2, <1>4, <2>2, <2>4 DEF SameLedger, Reads
<1>8. Unsent'
  <2>1. ~Untouched(a) BY <1>1, <1>3 DEF Untouched
  <2>2. ASSUME NEW x \in Actions, Untouched(x) PROVE Untouched(x)'
    BY <1>2, <1>4, <2>1, <2>2 DEF Untouched, Reads
  <2>3. body.pc = "dispatch" => body.a \in Actions BY DEF RconInv, OneCall
  <2>4. QED BY <1>1, <1>6, <2>2, <2>3 DEF RconInv, Unsent, Untouched
<1>9. OneCall' BY <1>1, <1>2 DEF RconInv, OneCall, Reads
<1>10. Heard'
  <2>1. SUFFICES ASSUME NEW x \in Actions \ excused
                 PROVE  Truthful(body.heard[x], x)' /\ Truthful(outcome[x], x)'
    BY <1>1 DEF Heard
  <2>2. Truthful(body.heard[x], x) /\ Truthful(outcome[x], x) BY DEF RconInv, Heard
  <2>3. /\ starts[x] \in Nat /\ effects[x] \in Nat /\ starts'[x] \in Nat /\ effects'[x] \in Nat
        /\ starts'[x] >= starts[x] /\ effects'[x] >= effects[x]
    BY <1>2 DEF RconInv, RconType, Reads
  <2>4. QED BY <1>1, <2>2, <2>3 DEF Truthful
<1>11. RefusedForGood'
  <2>1. SUFFICES ASSUME NEW x \in Actions \ excused, outcome[x] = "refused"
                 PROVE  effects'[x] = 0 /\ x \notin server'.ok /\ (x \notin server'.got => copies'[x] = 0)
    BY <1>1 DEF RefusedForGood
  <2>2. effects[x] = 0 /\ x \notin server.ok /\ (x \notin server.got => copies[x] = 0)
    BY <2>1 DEF RconInv, RefusedForGood
  <2>3. CASE x = a
    <3>1. a \in server.got BY <1>1, <1>3, <2>2, <2>3
    <3>2. QED BY <1>2, <2>2, <2>3, <3>1 DEF Reads
  <2>4. CASE x # a BY <1>2, <1>4, <2>2, <2>4 DEF Reads
  <2>5. QED BY <2>3, <2>4
<1>12. QED BY <1>2, <1>5, <1>7, <1>8, <1>9, <1>10, <1>11 DEF RconInv

LEMMA EndActionKeeps ==
    ASSUME RconInv, NEW a \in Actions, EndAction(a)
    PROVE  RconInv'
<1>1. PICK out \in Outcomes :
        /\ act' = [act EXCEPT ![a] = out]
        /\ IF out = "ok"
           THEN effects' = [effects EXCEPT ![a] = @ + 1] /\ cell' = [cell EXCEPT ![a] = "after"]
           ELSE UNCHANGED <<effects, cell>>
  BY DEF EndAction
<1>2. act[a] = "running" /\ UNCHANGED <<server, starts, log, copies, excused, body, outcome>>
  BY DEF EndAction, restVars
<1>3. /\ act \in [Actions -> {"none", "running"} \cup Outcomes] /\ effects \in [Actions -> Nat]
      /\ starts \in [Actions -> Nat] /\ cell \in [Actions -> Places]
  BY DEF RconInv, RconType
<1>4. /\ act' \in [Actions -> {"none", "running"} \cup Outcomes] /\ act'[a] = out
      /\ \A x \in Actions \ {a} : act'[x] = act[x]
  BY <1>1, <1>3
<1>5. /\ effects' \in [Actions -> Nat] /\ cell' \in [Actions -> Places]
      /\ \A x \in Actions \ {a} : effects'[x] = effects[x] /\ cell'[x] = cell[x]
      /\ effects'[a] = (IF out = "ok" THEN effects[a] + 1 ELSE effects[a])
      /\ cell'[a] = (IF out = "ok" THEN "after" ELSE cell[a])
  BY <1>1, <1>3 DEF Places
<1>6. a \in server.ok /\ a \in server.got /\ starts[a] >= 1 /\ Kind[a] # "result"
  BY <1>2 DEF RconInv, ServerSound
<1>7. a \notin excused => effects[a] = 0 BY <1>2 DEF RconInv, DoneOnce
<1>8. \A x \in Actions : effects'[x] >= effects[x] /\ effects[x] \in Nat /\ effects'[x] \in Nat BY <1>3, <1>5
<1>9. RconType' BY <1>2, <1>4, <1>5 DEF RconInv, RconType
<1>10. ServerSound'
  <2>1. ASSUME NEW x \in Actions
        PROVE  /\ act'[x] # "none" => x \in server.ok
               /\ effects'[x] >= 1 => starts[x] >= 1
               /\ Kind[x] = "result" => act'[x] = "none" /\ effects'[x] = starts[x]
               /\ act'[x] = "ok" => effects'[x] >= 1
    <3>1. CASE x = a BY <1>3, <1>4, <1>5, <1>6, <3>1
    <3>2. CASE x # a BY <1>4, <1>5, <3>2 DEF RconInv, ServerSound
    <3>3. QED BY <3>1, <3>2
  <2>2. ASSUME NEW n \in 1..Len(log), NEW x \in Actions, log[n].who = x, log[n].out = "ok"
        PROVE  effects'[x] >= 1
    <3>1. effects[x] >= 1 BY <2>2 DEF RconInv, ServerSound
    <3>2. QED BY <1>8, <3>1
  <2>3. QED BY <1>2, <2>1, <2>2 DEF RconInv, ServerSound
<1>11. DoneOnce'
  <2>1. SUFFICES ASSUME NEW x \in Actions \ excused
                 PROVE  /\ effects'[x] <= 1 /\ (Kind[x] # "block" => starts[x] <= 1)
                        /\ act'[x] = "running" => effects'[x] = 0
                        /\ Kind[x] = "block" => (cell'[x] = "after" <=> effects'[x] >= 1)
                        /\ x \in server.got /\ x \notin server.ok => effects'[x] = 0
    BY <1>2 DEF DoneOnce
  <2>2. CASE x = a
    <3>1. Kind[a] # "block" => starts[a] <= 1 BY <2>2 DEF RconInv, DoneOnce
    <3>2. effects[a] = 0 /\ (Kind[a] = "block" => cell[a] # "after")
      BY <1>7, <2>2 DEF RconInv, DoneOnce
    <3>3. out # "running" BY DEF Outcomes
    <3>4. QED BY <1>4, <1>5, <1>6, <2>2, <3>1, <3>2, <3>3
  <2>3. CASE x # a BY <1>4, <1>5, <2>3 DEF RconInv, DoneOnce
  <2>4. QED BY <2>2, <2>3
<1>12. NotAgain'
  <2>1. SUFFICES ASSUME NEW x \in Actions \ excused, Did(x)', x \notin server.got
                 PROVE  copies[x] = 0 /\ (InHand(x) => body.pc \notin Sending /\ ~SameLedger(body))
    BY <1>2 DEF NotAgain, InHand, SameLedger
  <2>2. x # a BY <1>6, <2>1
  <2>3. Did(x) BY <1>2, <1>5, <2>1, <2>2 DEF Did
  <2>4. QED BY <2>1, <2>3 DEF RconInv, NotAgain
<1>13. Unsent' BY <1>2 DEF RconInv, Unsent, InHand, Untouched
<1>14. OneCall' BY <1>2 DEF RconInv, OneCall
<1>15. Heard'
  <2>1. SUFFICES ASSUME NEW x \in Actions \ excused
                 PROVE  Truthful(body.heard[x], x)' /\ Truthful(outcome[x], x)'
    BY <1>2 DEF Heard
  <2>2. Truthful(body.heard[x], x) /\ Truthful(outcome[x], x) BY DEF RconInv, Heard
  <2>3. QED BY <1>2, <1>8, <2>2 DEF Truthful
<1>16. RefusedForGood'
  <2>1. outcome[a] # "refused" \/ a \in excused BY <1>6 DEF RconInv, RefusedForGood
  <2>2. QED BY <1>2, <1>5, <2>1 DEF RconInv, RefusedForGood
<1>17. QED BY <1>9, <1>10, <1>11, <1>12, <1>13, <1>14, <1>15, <1>16 DEF RconInv

LEMMA PublishKeeps ==
    ASSUME RconInv, NEW a \in Actions, Publish(a)
    PROVE  RconInv'
<1>1. /\ act[a] \in Outcomes /\ log' = Append(log, [who |-> a, out |-> act[a]])
      /\ server' = [server EXCEPT !.shown = @ \cup {a}] /\ act' = [act EXCEPT ![a] = "none"]
      /\ UNCHANGED <<cell, copies, starts, effects, excused, body, outcome>>
  BY DEF Publish
<1>2. /\ server' \in Servers /\ server'.got = server.got /\ server'.ok = server.ok
      /\ server'.epoch = server.epoch /\ server'.complete = server.complete
  BY <1>1 DEF RconInv, RconType, Servers
<1>3. act \in [Actions -> {"none", "running"} \cup Outcomes] /\ log \in Seq(Entries) BY DEF RconInv, RconType
<1>4. act' \in [Actions -> {"none", "running"} \cup Outcomes] /\ act'[a] = "none"
      /\ \A x \in Actions \ {a} : act'[x] = act[x]
  BY <1>1, <1>3
<1>5. [who |-> a, out |-> act[a]] \in Entries BY <1>1 DEF Entries
<1>6. /\ log' \in Seq(Entries) /\ Len(log') = Len(log) + 1 /\ log'[Len(log) + 1] = [who |-> a, out |-> act[a]]
      /\ \A n \in 1..Len(log) : log'[n] = log[n]
  BY <1>1, <1>3, <1>5
<1>7. RconType' BY <1>1, <1>2, <1>4, <1>6 DEF RconInv, RconType
<1>8. a \in server.ok /\ starts[a] >= 1 /\ (act[a] = "ok" => effects[a] >= 1)
  BY <1>1 DEF RconInv, ServerSound, Outcomes
<1>9. ServerSound'
  <2>1. ASSUME NEW n \in 1..Len(log'), NEW x \in Actions, log'[n].who = x
        PROVE  starts[x] >= 1 /\ (log'[n].out = "ok" => effects[x] >= 1)
    <3>1. CASE n \in 1..Len(log) BY <1>6, <2>1, <3>1 DEF RconInv, ServerSound
    <3>2. CASE n = Len(log) + 1 BY <1>6, <1>8, <2>1, <3>2
    <3>3. QED BY <1>3, <1>6, <3>1, <3>2
  <2>2. QED BY <1>1, <1>2, <1>4, <2>1 DEF RconInv, ServerSound
<1>10. DoneOnce' BY <1>1, <1>2, <1>4 DEF RconInv, DoneOnce
<1>11. NotAgain' BY <1>1, <1>2 DEF RconInv, NotAgain, Did, InHand, SameLedger
<1>12. Unsent' BY <1>1, <1>2 DEF RconInv, Unsent, InHand, Untouched
<1>13. OneCall' BY <1>1, <1>2 DEF RconInv, OneCall
<1>14. Heard' BY <1>1 DEF RconInv, Heard, Truthful
<1>15. RefusedForGood' BY <1>1, <1>2 DEF RconInv, RefusedForGood
<1>16. QED BY <1>7, <1>9, <1>10, <1>11, <1>12, <1>13, <1>14, <1>15 DEF RconInv

LEMMA DieKeeps ==
    ASSUME RconInv, Die
    PROVE  RconInv'
<1>1. log = <<>> /\ log' = Append(log, Death) /\ UNCHANGED <<server, act, starts, effects, cell, copies, excused, body, outcome>>
  BY DEF Die, srvVars
<1>2. Death \in Entries BY DEF Death, Entries, Outcomes
<1>3. log' \in Seq(Entries) /\ Len(log') = 1 /\ log'[1].who = "death" BY <1>1, <1>2 DEF Death
<1>4. RconType' BY <1>1, <1>3 DEF RconInv, RconType
<1>5. \A n \in 1..Len(log') : log'[n].who \notin Actions BY <1>3, ActionsAssumption
<1>6. ServerSound' BY <1>1, <1>5 DEF RconInv, ServerSound
<1>7. DoneOnce' /\ NotAgain' BY <1>1 DEF RconInv, DoneOnce, NotAgain, Did, InHand, SameLedger
<1>8. Unsent' /\ OneCall' BY <1>1 DEF RconInv, Unsent, InHand, Untouched, OneCall
<1>9. Heard' /\ RefusedForGood' BY <1>1 DEF RconInv, Heard, Truthful, RefusedForGood
<1>10. QED BY <1>4, <1>6, <1>7, <1>8, <1>9 DEF RconInv

(* An action that was done has no request under way unless it is excused.  *)
LEMMA DoneAtRest ==
    ASSUME RconInv, NEW x \in Actions, ~UnderWay(x), Did(x)
    PROVE  copies[x] = 0 /\ (InHand(x) => body.pc \notin Sending)
<1>1. copies[x] = 0 /\ (body.a = x => body.pc \notin Resending) BY DEF RconInv, RconType, UnderWay
<1>2. starts[x] >= 1 BY DEF Did, RconInv, ServerSound
<1>3. InHand(x) => body.pc # "dispatch" BY <1>2 DEF InHand, RconInv, Unsent, Untouched
<1>4. QED BY <1>1, <1>3 DEF InHand, Sending

LEMMA ReloadKeeps ==
    ASSUME RconInv, Reload
    PROVE  RconInv'
<1>1. /\ server' = Fresh(server.epoch + 1) /\ act' = NobodyActs /\ log' = <<>>
      /\ excused' = excused \cup {a \in Actions : UnderWay(a)}
      /\ UNCHANGED <<cell, copies, starts, effects, body, outcome>>
  BY DEF Reload
<1>2. /\ server.epoch \in Nat /\ body.sent \in Nat /\ body.known \in Nat
      /\ body.sent <= server.epoch /\ body.known <= server.epoch
  BY DEF RconInv, RconType, Servers, Bodies, OneCall
<1>3. /\ server' \in Servers /\ server'.got = {} /\ server'.ok = {} /\ server'.epoch = server.epoch + 1
  BY <1>1, <1>2 DEF Fresh, Servers
<1>4. act' \in [Actions -> {"none", "running"} \cup Outcomes] /\ \A x \in Actions : act'[x] = "none"
  BY <1>1 DEF NobodyActs
<1>5. log' \in Seq(Entries) /\ Len(log') = 0 BY <1>1
<1>6. excused' \in SUBSET Actions /\ \A x \in Actions \ excused' : x \notin excused /\ ~UnderWay(x)
  BY <1>1 DEF RconInv, RconType
<1>7. RconType' BY <1>1, <1>3, <1>4, <1>5, <1>6 DEF RconInv, RconType
<1>8. ServerSound' BY <1>1, <1>3, <1>4, <1>5 DEF RconInv, ServerSound
<1>9. DoneOnce' BY <1>1, <1>3, <1>4, <1>6 DEF RconInv, DoneOnce
<1>10. NotAgain'
  <2>1. SUFFICES ASSUME NEW x \in Actions \ excused', Did(x)
                 PROVE  copies[x] = 0 /\ (InHand(x) => body.pc \notin Sending /\ ~SameLedger(body)')
    BY <1>1 DEF NotAgain, InHand, Did
  <2>2. copies[x] = 0 /\ (InHand(x) => body.pc \notin Sending) BY <1>6, <2>1, DoneAtRest
  <2>3. ~SameLedger(body)' BY <1>1, <1>2, <1>3 DEF SameLedger
  <2>4. QED BY <2>2, <2>3
<1>11. Unsent' BY <1>1, <1>3 DEF RconInv, Unsent, InHand, Untouched
<1>12. OneCall' BY <1>1, <1>2, <1>3 DEF RconInv, OneCall
<1>13. Heard' BY <1>1, <1>6 DEF RconInv, Heard, Truthful
<1>14. RefusedForGood'
  <2>1. \A x \in Actions \ excused' : copies[x] = 0 BY <1>6 DEF UnderWay, RconInv, RconType
  <2>2. QED BY <1>1, <1>3, <1>6, <2>1 DEF RconInv, RefusedForGood
<1>15. QED BY <1>7, <1>8, <1>9, <1>10, <1>11, <1>12, <1>13, <1>14 DEF RconInv

LEMMA EvictKeeps ==
    ASSUME RconInv, NEW a \in Actions, Evict(a)
    PROVE  RconInv'
<1>1. /\ act[a] = "none"
      /\ server' = [server EXCEPT !.got = @ \ {a}, !.ok = @ \ {a}, !.shown = @ \ {a}, !.complete = FALSE]
      /\ excused' = excused \cup {b \in {a} : UnderWay(b)}
      /\ UNCHANGED <<act, log, cell, copies, starts, effects, body, outcome>>
  BY DEF Evict
<1>2. /\ server' \in Servers /\ server'.got = server.got \ {a} /\ server'.ok = server.ok \ {a}
      /\ server'.epoch = server.epoch /\ ~server'.complete
  BY <1>1 DEF RconInv, RconType, Servers
<1>3. /\ excused' \in SUBSET Actions /\ \A x \in Actions \ excused' : x \notin excused
      /\ a \notin excused' => ~UnderWay(a)
  BY <1>1 DEF RconInv, RconType
<1>4. RconType' BY <1>1, <1>2, <1>3 DEF RconInv, RconType
<1>5. ServerSound' BY <1>1, <1>2 DEF RconInv, ServerSound
<1>6. DoneOnce' BY <1>1, <1>2, <1>3 DEF RconInv, DoneOnce
<1>7. NotAgain'
  <2>1. SUFFICES ASSUME NEW x \in Actions \ excused', Did(x), x \notin server'.got
                 PROVE  copies[x] = 0 /\ (InHand(x) => body.pc \notin Sending)
    BY <1>1, <1>2 DEF NotAgain, InHand, Did, SameLedger
  <2>2. CASE x = a BY <1>3, <2>1, <2>2, DoneAtRest
  <2>3. CASE x # a BY <1>2, <1>3, <2>1, <2>3 DEF RconInv, NotAgain
  <2>4. QED BY <2>2, <2>3
<1>8. Unsent' BY <1>1, <1>2 DEF RconInv, Unsent, InHand, Untouched
<1>9. OneCall' BY <1>1, <1>2 DEF RconInv, OneCall
<1>10. Heard' BY <1>1, <1>3 DEF RconInv, Heard, Truthful
<1>11. RefusedForGood'
  <2>1. a \notin excused' => copies[a] = 0 BY <1>3 DEF UnderWay, RconInv, RconType
  <2>2. QED BY <1>1, <1>2, <1>3, <2>1 DEF RconInv, RefusedForGood
<1>12. QED BY <1>4, <1>5, <1>6, <1>7, <1>8, <1>9, <1>10, <1>11 DEF RconInv

LEMMA StrayBlockKeeps ==
    ASSUME RconInv, NEW a \in Actions, StrayBlock(a)
    PROVE  RconInv'
<1>1. PICK v \in {"before", "after", "changed"} : cell' = [cell EXCEPT ![a] = v] BY DEF StrayBlock
<1>2. excused' = excused \cup {a} /\ UNCHANGED <<server, act, log, copies, starts, effects, body, outcome>>
  BY DEF StrayBlock
<1>3. cell \in [Actions -> Places] BY DEF RconInv, RconType
<1>4. cell' \in [Actions -> Places] /\ \A x \in Actions \ {a} : cell'[x] = cell[x] BY <1>1, <1>3 DEF Places
<1>5. excused' \in SUBSET Actions /\ \A x \in Actions \ excused' : x \notin excused /\ x # a
  BY <1>2 DEF RconInv, RconType
<1>6. RconType' BY <1>2, <1>4, <1>5 DEF RconInv, RconType
<1>7. ServerSound' BY <1>2 DEF RconInv, ServerSound
<1>8. DoneOnce' BY <1>2, <1>4, <1>5 DEF RconInv, DoneOnce
<1>9. NotAgain' BY <1>2, <1>5 DEF RconInv, NotAgain, Did, InHand, SameLedger
<1>10. Unsent' /\ OneCall' BY <1>2 DEF RconInv, Unsent, InHand, Untouched, OneCall
<1>11. Heard' /\ RefusedForGood' BY <1>2, <1>5 DEF RconInv, Heard, Truthful, RefusedForGood
<1>12. QED BY <1>6, <1>7, <1>8, <1>9, <1>10, <1>11 DEF RconInv

\* ----- the theorems ------------------------------------------------------

LEMMA RconStep ==
    ASSUME RconInv, [RconNext]_rconVars
    PROVE  RconInv'
<1>1. CASE RconServer
  BY <1>1, LateRequestKeeps, EndActionKeeps, PublishKeeps, EvictKeeps, StrayBlockKeeps, DieKeeps, ReloadKeeps
  DEF RconServer
<1>2. CASE SayUnknown BY <1>2, BodyInformed, UnknownKeeps DEF SayUnknown
<1>3. CASE RconBody
  BY <1>2, <1>3, ExecuteKeeps, AnsweredKeeps, RequestFailsKeeps, ReadStatusKeeps, ReadStatusAgainKeeps,
     LookAgainKeeps, GiveUpKeeps, ProbeBlockKeeps, AwaitKeeps
  DEF RconBody
<1>4. CASE UNCHANGED rconVars
  <2>1. UNCHANGED <<server, act, log, cell, copies, starts, effects, excused, body, outcome>>
    BY <1>4 DEF rconVars
  <2>2. RconType' BY <2>1 DEF RconInv, RconType
  <2>3. ServerSound' /\ DoneOnce' BY <2>1 DEF RconInv, ServerSound, DoneOnce
  <2>4. NotAgain' /\ Unsent' /\ OneCall'
    BY <2>1 DEF RconInv, NotAgain, Did, SameLedger, InHand, Unsent, Untouched, OneCall
  <2>5. Heard' /\ RefusedForGood' BY <2>1 DEF RconInv, Heard, Truthful, RefusedForGood
  <2>6. QED BY <2>2, <2>3, <2>4, <2>5 DEF RconInv
<1>5. QED BY <1>1, <1>3, <1>4 DEF RconNext

(* execute of game/body.py with a lost answer: the status reads, the wait  *)
(* for the terminal and the look at the block never make an action happen  *)
(* a second time, however often the script is reloaded and however late a  *)
(* request is read, unless the server forgot the action while a request    *)
(* for it was under way or others changed its block.                       *)
THEOREM AppliedOnceAlways == RconSpec => []AppliedOnce
<1>1. RconInit => RconInv BY RconInitInv
<1>2. RconInv /\ [RconNext]_rconVars => RconInv' BY RconStep
<1>3. RconInv => AppliedOnce BY RconInvTrue
<1>4. QED BY <1>1, <1>2, <1>3, PTL DEF RconSpec

(* The outcome game/body.py gives its caller is what happened: a refusal   *)
(* means nothing was done, a success that it was done exactly once, and a  *)
(* failure that it was begun; with the same exceptions.                    *)
THEOREM ToldTrueAlways == RconSpec => []ToldIsTrue
<1>1. RconInit => RconInv BY RconInitInv
<1>2. RconInv /\ [RconNext]_rconVars => RconInv' BY RconStep
<1>3. RconInv => ToldIsTrue BY RconInvTrue
<1>4. QED BY <1>1, <1>2, <1>3, PTL DEF RconSpec
============================================================================
