-------------------------- MODULE ClientLinkProofs -------------------------
(***************************************************************************)
(* The Body of the real client and its link, for any number of calls, any  *)
(* connections and any number of ticks, deaths and worlds: what an action  *)
(* leaves behind, what a stopped action still does, which edges are told,  *)
(* for whom Python holds the Body while an order of it may act.            *)
(*                                                                         *)
(* Every operator of the client takes a fit client to a fit one (Fit) and  *)
(* goes on from it in a fixed way (Goes): what was sent stays sent, what   *)
(* is new is an edge, a ready or the terminal of the action that ended,    *)
(* and a stopped action does nothing more.  Goes is transitive, so it is   *)
(* shown for the small operators and holds for the tick.                   *)
(* The holder needs the order of the requests: a reading of the state that *)
(* finds the client free was asked for before every order still abroad.    *)
(***************************************************************************)
EXTENDS ClientLink, TLAPS

KindNames == Objectives \cup Structured \cup {"none"}
Endings == {"completed", "failed", "timeout", "canceled"}

Runs == [id : Ids \cup {None}, kind : KindNames, peer : Nat, phase : 0..3,
         stop : Endings \cup {"no"}, late : BOOLEAN, stable : Nat, saved : SUBSET Settings,
         menu : BOOLEAN, sign : BOOLEAN, swim : BOOLEAN, touched : Nat]

Edges == [type : {"edge"}, seq : Nat, name : {"death", "respawned", "world_ready", "world_disconnected"}]
Readies == [type : {"ready"}]
Terminals == [type : {"terminal"}, id : Ids, status : Endings]
Rejections == [type : {"rejected"}, id : Ids \cup {None} \cup Int]
Replies == [type : {"state"}, id : Ids \cup {None} \cup Int, says : [active : Ids \cup {None}, still : BOOLEAN]]
Messages == Edges \cup Readies \cup Terminals \cup Rejections \cup Replies

Clients == [run : Runs, used : SUBSET Ids, bari : {"off", "on", "ending"}, raw : BOOLEAN,
            changed : SUBSET Settings, keys : SUBSET {"use", "jump"},
            menu : {"none", "asked", "open"}, read : BOOLEAN, peer : Nat, link : Nat,
            inWorld : BOOLEAN, ready : BOOLEAN, dead : BOOLEAN, screen : BOOLEAN,
            dying : BOOLEAN, asked : BOOLEAN, seq : Nat, events : Seq(Edges), out : Seq(Messages)]

(* What an action has changed it has put aside.  The use key is held by a  *)
(* running action of two kinds only, Baritone works without an action only *)
(* when a control set it going, and the two settings of a way round and of *)
(* a held key are gone once the action is told to stop, or has not been    *)
(* worked on since a death.                                                *)
Neat(x) ==
    /\ ~ Running(x) => x.run.saved = {}
    /\ x.changed = x.run.saved
    /\ "use" \in x.keys => /\ Running(x) /\ x.run.stop = "no"
                           /\ x.run.kind \in {"rangedAttack", "useItem"}
    /\ ~ Running(x) /\ x.bari # "off" => x.raw
    /\ x.run.stop # "no" => "swim" \notin x.run.saved
    /\ x.dead <=> x.screen
Rested(x) == x.dying /\ x.run.stop = "no" => "swim" \notin x.run.saved /\ "use" \notin x.keys
Fit(x) == x \in Clients /\ Neat(x) /\ Rested(x)

In(s, e) == \E j \in DOMAIN s : s[j] = e

(* What a step of the client does to what others see of it.                *)
Quietly(x, y) ==
    /\ y.run.stop = x.run.stop /\ y.run.touched = x.run.touched
    /\ y.keys \subseteq x.keys /\ y.run.saved \subseteq x.run.saved
    /\ y.bari = "on" => x.bari = "on"
    /\ y.menu = "asked" => x.menu = "asked"
Sends(x, y) ==
    /\ \A m : In(x.out, m) => In(y.out, m)
    /\ \A m : In(y.out, m) => \/ In(x.out, m)
                              \/ m.type \in {"edge", "ready"}
                              \/ /\ m.type = "terminal" /\ m.id = x.run.id
                                 /\ Running(x) /\ ~ Running(y)
Tells(x, y) ==
    y.peer # 0 /\ y.peer = y.link =>
       \/ \A k \in DOMAIN y.events : In(y.out, y.events[k])
       \/ /\ y.ready => x.ready
          /\ \A k \in DOMAIN y.events : In(x.events, y.events[k]) \/ In(y.out, y.events[k])
Goes(x, y) ==
    /\ y.link = x.link /\ y.peer = x.peer
    /\ Running(y) => /\ y.run.id = x.run.id /\ y.run.peer = x.run.peer
                     /\ y.run.stop = "no" => x.run.stop = "no"
                     /\ x.run.stop # "no" => Quietly(x, y)
    /\ Sends(x, y) /\ Tells(x, y)

LEMMA GoesOn ==
    ASSUME NEW x, NEW y, NEW z, Goes(x, y), Goes(y, z)
    PROVE  Goes(x, z)
  <1>1. z.link = x.link /\ z.peer = x.peer
    BY DEF Goes
  <1>2. ASSUME Running(z)
        PROVE  /\ z.run.id = x.run.id /\ z.run.peer = x.run.peer
               /\ z.run.stop = "no" => x.run.stop = "no"
               /\ x.run.stop # "no" => Quietly(x, z)
    <2>1. Running(y)
      BY <1>2 DEF Goes, Running
    <2>2. x.run.stop # "no" => Quietly(x, y) /\ y.run.stop # "no"
      BY <2>1 DEF Goes, Quietly
    <2>3. y.run.stop # "no" => Quietly(y, z)
      BY <1>2 DEF Goes
    <2> QED
      BY <1>2, <2>1, <2>2, <2>3 DEF Goes, Quietly
  <1>3. Sends(x, z)
    <2>1. \A m : In(x.out, m) => In(z.out, m)
      BY DEF Goes, Sends
    <2>2. ASSUME NEW m, In(z.out, m), ~ In(x.out, m), m.type \notin {"edge", "ready"}
          PROVE  m.type = "terminal" /\ m.id = x.run.id /\ Running(x) /\ ~ Running(z)
      <3>1. CASE In(y.out, m)
        BY <2>2, <3>1 DEF Goes, Sends, Running
      <3>2. CASE ~ In(y.out, m)
        BY <2>2, <3>2 DEF Goes, Sends, Running
      <3> QED
        BY <3>1, <3>2
    <2> QED
      BY <2>1, <2>2 DEF Sends
  <1>4. Tells(x, z)
    <2> SUFFICES ASSUME z.peer # 0, z.peer = z.link,
                        ~ \A k \in DOMAIN z.events : In(z.out, z.events[k])
                 PROVE  /\ z.ready => x.ready
                        /\ \A k \in DOMAIN z.events : In(x.events, z.events[k]) \/ In(z.out, z.events[k])
      BY DEF Tells
    <2>1. y.peer # 0 /\ y.peer = y.link
      BY DEF Goes
    <2>2. /\ z.ready => y.ready
          /\ \A k \in DOMAIN z.events : In(y.events, z.events[k]) \/ In(z.out, z.events[k])
      BY DEF Goes, Tells
    <2>3. \A m : In(y.out, m) => In(z.out, m)
      BY DEF Goes, Sends
    <2>4. ~ \A k \in DOMAIN y.events : In(y.out, y.events[k])
      BY <2>2, <2>3 DEF In
    <2>5. /\ y.ready => x.ready
          /\ \A k \in DOMAIN y.events : In(x.events, y.events[k]) \/ In(y.out, y.events[k])
      BY <2>1, <2>4 DEF Goes, Tells
    <2>6. \A m : In(y.events, m) => In(x.events, m) \/ In(y.out, m)
      BY <2>5 DEF In
    <2> QED
      BY <2>2, <2>3, <2>5, <2>6
  <1> QED
    BY <1>1, <1>2, <1>3, <1>4 DEF Goes

----------------------------------------------------------------------------
(* Work on an action that has not been told to stop *)

Signs(x, y) == /\ y.ready <=> x.ready
               /\ y.dead <=> x.dead
               /\ y.screen <=> x.screen
               /\ y.dying <=> x.dying
Framed(x, y) ==
    /\ y.link = x.link /\ y.peer = x.peer /\ y.events = x.events /\ y.out = x.out
    /\ y.run.id = x.run.id /\ y.run.kind = x.run.kind /\ y.run.peer = x.run.peer
    /\ y.run.stop = x.run.stop

(* x at the beginning of the tick, y in the course of it                   *)
Busy(x, y) ==
    /\ y \in Clients /\ Framed(x, y) /\ Signs(x, y)
    /\ Running(y) /\ y.run.stop = "no" /\ ~ y.dying
    /\ y.changed = y.run.saved
    /\ "use" \in y.keys => y.run.kind \in {"rangedAttack", "useItem"}
    /\ y.dead <=> y.screen

LEMMA BusyGoes ==
    ASSUME NEW x, NEW y, Busy(x, y)
    PROVE  Fit(y) /\ Goes(x, y)
  <1>1. Fit(y)
    BY DEF Busy, Fit, Neat, Rested
  <1>2. Goes(x, y)
    BY DEF Busy, Framed, Signs, Goes, Sends, Tells, In
  <1> QED
    BY <1>1, <1>2

LEMMA Columns ==
    ASSUME NEW x \in Clients
    PROVE  /\ DOMAIN x = {"run", "used", "bari", "raw", "changed", "keys", "menu", "read", "peer", "link",
                          "inWorld", "ready", "dead", "screen", "dying", "asked", "seq", "events", "out"}
           /\ DOMAIN x.run = {"id", "kind", "peer", "phase", "stop", "late", "stable", "saved", "menu",
                              "sign", "swim", "touched"}
  <1>1. /\ x.run \in Runs
        /\ DOMAIN x = {"run", "used", "bari", "raw", "changed", "keys", "menu", "read", "peer", "link",
                       "inWorld", "ready", "dead", "screen", "dying", "asked", "seq", "events", "out"}
    BY DEF Clients
  <1>2. DOMAIN x.run = {"id", "kind", "peer", "phase", "stop", "late", "stable", "saved", "menu",
                        "sign", "swim", "touched"}
    BY <1>1 DEF Runs
  <1> QED
    BY <1>1, <1>2

(* Columns of the client that work writes.                                 *)
LEMMA Written ==
    ASSUME NEW x \in Clients
    PROVE  /\ \A n \in 0..3 : [x EXCEPT !.run.phase = n] \in Clients
           /\ \A b \in {"off", "on", "ending"} : [x EXCEPT !.bari = b] \in Clients
           /\ \A k \in SUBSET {"use", "jump"} : [x EXCEPT !.keys = k] \in Clients
           /\ \A m \in {"none", "asked", "open"} : [x EXCEPT !.menu = m] \in Clients
  <1>1. ASSUME NEW n \in 0..3 PROVE [x EXCEPT !.run.phase = n] \in Clients
    <2>1. [x.run EXCEPT !.phase = n] \in Runs
      <3>1. x.run \in Runs
        BY DEF Clients
      <3> QED
        BY <3>1, Zenon DEF Runs
    <2> QED
      BY <2>1, Zenon DEF Clients
  <1>2. \A b \in {"off", "on", "ending"} : [x EXCEPT !.bari = b] \in Clients
    BY Zenon DEF Clients
  <1>3. \A k \in SUBSET {"use", "jump"} : [x EXCEPT !.keys = k] \in Clients
    BY Zenon DEF Clients
  <1>4. \A m \in {"none", "asked", "open"} : [x EXCEPT !.menu = m] \in Clients
    BY Zenon DEF Clients
  <1> QED
    BY <1>1, <1>2, <1>3, <1>4

LEMMA PhaseBusy ==
    ASSUME NEW x, NEW y, Busy(x, y), NEW n \in 0..3
    PROVE  Busy(x, Phase(y, n))
  <1> DEFINE z == Phase(y, n)
  <1>1. y \in Clients /\ z \in Clients
    BY Written DEF Phase, Busy
  <1>2. Framed(y, z) /\ z.changed = y.changed /\ z.keys = y.keys /\ z.run.saved = y.run.saved
    BY <1>1, Columns DEF Phase, Framed
  <1>3. Signs(y, z)
    BY <1>1, Columns DEF Phase, Signs
  <1> HIDE DEF z
  <1>4. Busy(x, z)
    BY <1>1, <1>2, <1>3 DEF Busy, Framed, Signs, Running
  <1> QED
    BY <1>4 DEF z

(* Work that goes on keeps the frame, and what it changes it puts aside.   *)
LEMMA StillBusy ==
    ASSUME NEW x, NEW y, Busy(x, y), NEW z \in Clients, Framed(y, z), Signs(y, z),
           z.changed = z.run.saved,
           "use" \in z.keys => "use" \in y.keys \/ y.run.kind \in {"rangedAttack", "useItem"}
    PROVE  Busy(x, z)
  BY DEF Busy, Framed, Signs, Running

LEMMA BaritoneBusy ==
    ASSUME NEW x, NEW y, Busy(x, y)
    PROVE  Busy(x, Bari(y)) /\ Busy(x, Alone(y))
  <1>1. ASSUME NEW b \in {"off", "on", "ending"} PROVE Busy(x, [y EXCEPT !.bari = b])
    <2> DEFINE z == [y EXCEPT !.bari = b]
    <2>1. y \in Clients /\ z \in Clients /\ y.changed = y.run.saved
      BY Written DEF Busy
    <2>2. Framed(y, z) /\ z.changed = y.changed /\ z.keys = y.keys /\ z.run.saved = y.run.saved
      BY <2>1, Columns DEF Framed
    <2>3. Signs(y, z)
      BY <2>1, Columns DEF Signs
    <2> HIDE DEF z
    <2>4. Busy(x, z)
      BY <2>1, <2>2, <2>3, StillBusy
    <2> QED
      BY <2>4 DEF z
  <1>2. Bari(y) = [y EXCEPT !.bari = "on"]
    BY DEF Bari
  <1>3. \E b \in {"off", "on", "ending"} : Alone(y) = [y EXCEPT !.bari = b]
    BY DEF Alone
  <1> QED
    BY <1>1, <1>2, <1>3

LEMMA KeysBusy ==
    ASSUME NEW x, NEW y, Busy(x, y)
    PROVE  /\ \A k \in {"use", "jump"} : Busy(x, Release(y, k))
           /\ Busy(x, Press(y, "jump"))
           /\ y.run.kind \in {"rangedAttack", "useItem"} => Busy(x, Press(y, "use"))
  <1>1. ASSUME NEW K \in SUBSET {"use", "jump"},
               "use" \in K => "use" \in y.keys \/ y.run.kind \in {"rangedAttack", "useItem"}
        PROVE  Busy(x, [y EXCEPT !.keys = K])
    <2> DEFINE z == [y EXCEPT !.keys = K]
    <2>1. y \in Clients /\ z \in Clients /\ y.changed = y.run.saved
      BY Written DEF Busy
    <2>2. Framed(y, z) /\ z.changed = y.changed /\ z.keys = K /\ z.run.saved = y.run.saved
      BY <2>1, Columns DEF Framed
    <2>3. Signs(y, z)
      BY <2>1, Columns DEF Signs
    <2> HIDE DEF z
    <2>4. Busy(x, z)
      BY <1>1, <2>1, <2>2, <2>3, StillBusy
    <2> QED
      BY <2>4 DEF z
  <1>2. y.keys \in SUBSET {"use", "jump"}
    BY DEF Busy, Clients
  <1>3. /\ \A k : Release(y, k) = [y EXCEPT !.keys = y.keys \ {k}]
        /\ \A k : Press(y, k) = [y EXCEPT !.keys = y.keys \cup {k}]
    BY DEF Release, Press
  <1>4. ASSUME NEW k \in {"use", "jump"} PROVE Busy(x, Release(y, k))
    <2>1. y.keys \ {k} \in SUBSET {"use", "jump"} /\ ("use" \in y.keys \ {k} => "use" \in y.keys)
      BY <1>2
    <2> QED
      BY <1>1, <1>3, <2>1
  <1>5. ASSUME NEW k \in {"use", "jump"}, k = "use" => y.run.kind \in {"rangedAttack", "useItem"}
        PROVE  Busy(x, Press(y, k))
    <2>1. /\ y.keys \cup {k} \in SUBSET {"use", "jump"}
          /\ "use" \in y.keys \cup {k} => "use" \in y.keys \/ y.run.kind \in {"rangedAttack", "useItem"}
      BY <1>2, <1>5
    <2> QED
      BY <1>1, <1>3, <2>1
  <1> QED
    BY <1>4, <1>5

LEMMA SavedTyped ==
    ASSUME NEW x \in Clients, NEW S \in SUBSET Settings, NEW T \in SUBSET Settings
    PROVE  [x EXCEPT !.run.saved = S, !.changed = T] \in Clients
  <1>1. x.run \in Runs
    BY DEF Clients
  <1>2. [x.run EXCEPT !.saved = S] \in Runs
    BY <1>1, Zenon DEF Runs
  <1> QED
    BY <1>2, Zenon DEF Clients

LEMMA SaveBusy ==
    ASSUME NEW x, NEW y, Busy(x, y), NEW s \in Settings
    PROVE  Busy(x, Save(y, s))
  <1> DEFINE z == Save(y, s)
  <1>1. y \in Clients /\ y.changed = y.run.saved /\ y.run.saved \in SUBSET Settings
    BY DEF Busy, Clients, Runs
  <1>2. z = [y EXCEPT !.run.saved = y.run.saved \cup {s}, !.changed = y.run.saved \cup {s}]
    BY <1>1 DEF Save
  <1>3. z \in Clients
    <2>1. y.run.saved \cup {s} \in SUBSET Settings
      BY <1>1
    <2> QED
      BY <1>1, <1>2, <2>1, SavedTyped, ZenonT(40)
  <1>4. Framed(y, z) /\ z.changed = z.run.saved /\ z.keys = y.keys
    BY <1>1, <1>2, Columns DEF Framed
  <1>5. Signs(y, z)
    BY <1>1, <1>2, Columns DEF Signs
  <1> HIDE DEF z
  <1>6. Busy(x, z)
    BY <1>1, <1>3, <1>4, <1>5, StillBusy
  <1> QED
    BY <1>6 DEF z

LEMMA MarksBusy ==
    ASSUME NEW x, NEW y, Busy(x, y)
    PROVE  /\ Busy(x, [y EXCEPT !.run.menu = TRUE])
           /\ Busy(x, [y EXCEPT !.run.swim = TRUE])
           /\ Busy(x, [y EXCEPT !.run.sign = TRUE])
  <1>1. y \in Clients /\ y.run \in Runs /\ y.changed = y.run.saved
    BY DEF Busy, Clients
  <1>2. [y EXCEPT !.run.menu = TRUE] \in Clients
    <2>1. [y.run EXCEPT !.menu = TRUE] \in Runs
      BY <1>1, Zenon DEF Runs
    <2> QED
      BY <1>1, <2>1, Zenon DEF Clients
  <1>3. [y EXCEPT !.run.swim = TRUE] \in Clients
    <2>1. [y.run EXCEPT !.swim = TRUE] \in Runs
      BY <1>1, Zenon DEF Runs
    <2> QED
      BY <1>1, <2>1, Zenon DEF Clients
  <1>4. [y EXCEPT !.run.sign = TRUE] \in Clients
    <2>1. [y.run EXCEPT !.sign = TRUE] \in Runs
      BY <1>1, Zenon DEF Runs
    <2> QED
      BY <1>1, <2>1, Zenon DEF Clients
  <1>5. ASSUME NEW z \in Clients,
               \/ z = [y EXCEPT !.run.menu = TRUE]
               \/ z = [y EXCEPT !.run.swim = TRUE]
               \/ z = [y EXCEPT !.run.sign = TRUE]
        PROVE  Busy(x, z)
    <2>1. /\ Framed(y, z) /\ z.changed = y.changed /\ z.keys = y.keys /\ z.run.saved = y.run.saved
          /\ Signs(y, z)
      <3>1. CASE z = [y EXCEPT !.run.menu = TRUE]
        BY <1>1, <3>1, Columns DEF Framed, Signs
      <3>2. CASE z = [y EXCEPT !.run.swim = TRUE]
        BY <1>1, <3>2, Columns DEF Framed, Signs
      <3>3. CASE z = [y EXCEPT !.run.sign = TRUE]
        BY <1>1, <3>3, Columns DEF Framed, Signs
      <3> QED
        BY <1>5, <3>1, <3>2, <3>3
    <2> QED
      BY <1>1, <2>1, StillBusy
  <1> QED
    BY <1>2, <1>3, <1>4, <1>5

LEMMA MenuBusy ==
    ASSUME NEW x, NEW y, Busy(x, y)
    PROVE  /\ \A z \in openMenu(y) : Busy(x, z)
           /\ Busy(x, [y EXCEPT !.menu = "none", !.run.menu = FALSE])
  <1>1. y \in Clients /\ y.run \in Runs /\ y.changed = y.run.saved
    BY DEF Busy, Clients
  <1>2. [y EXCEPT !.menu = "none", !.run.menu = FALSE] \in Clients
    <2>1. [y.run EXCEPT !.menu = FALSE] \in Runs
      BY <1>1, Zenon DEF Runs
    <2> QED
      BY <1>1, <2>1, Zenon DEF Clients
  <1>3. ASSUME NEW z \in Clients,
               \/ z = [y EXCEPT !.menu = "asked"]
               \/ z = [y EXCEPT !.menu = "none", !.run.menu = FALSE]
        PROVE  Busy(x, z)
    <2>1. /\ Framed(y, z) /\ z.changed = y.changed /\ z.keys = y.keys /\ z.run.saved = y.run.saved
          /\ Signs(y, z)
      <3>1. CASE z = [y EXCEPT !.menu = "asked"]
        BY <1>1, <3>1, Columns DEF Framed, Signs
      <3>2. CASE z = [y EXCEPT !.menu = "none", !.run.menu = FALSE]
        BY <1>1, <3>2, Columns DEF Framed, Signs
      <3> QED
        BY <1>3, <3>1, <3>2
    <2> QED
      BY <1>1, <2>1, StillBusy
  <1>4. ASSUME NEW z \in openMenu(y) PROVE Busy(x, z)
    <2>1. z = [y EXCEPT !.menu = "asked"]
      BY <1>4 DEF openMenu
    <2>2. z \in Clients
      BY <1>1, <2>1, Written
    <2> QED
      BY <1>3, <2>1, <2>2
  <1> QED
    BY <1>2, <1>3, <1>4

(* The first stop: keys that act are released, the settings of a way round *)
(* are put back.                                                           *)
LEMMA StoppedClient ==
    ASSUME NEW x \in Clients, Running(x), x.run.stop = "no", NEW s \in Endings
    PROVE  /\ requestStop(x, s) \in Clients
           /\ requestStop(x, s).run.stop = s
           /\ requestStop(x, s).run.saved = x.run.saved \ {"swim"}
           /\ requestStop(x, s).run.id = x.run.id /\ requestStop(x, s).run.peer = x.run.peer
           /\ requestStop(x, s).changed = x.changed \ ({"swim"} \cap x.run.saved)
           /\ requestStop(x, s).keys \subseteq x.keys
           /\ x.run.kind \in {"rangedAttack", "useItem"} => "use" \notin requestStop(x, s).keys
           /\ requestStop(x, s).link = x.link /\ requestStop(x, s).peer = x.peer
           /\ requestStop(x, s).events = x.events /\ requestStop(x, s).out = x.out
           /\ Signs(x, requestStop(x, s))
  <1> DEFINE K == x.keys \ ((IF x.run.kind \in {"rangedAttack", "useItem"} THEN {"use"} ELSE {}) \cup
                            (IF x.run.swim THEN {"jump"} ELSE {}))
             B == IF x.bari = "off" THEN "off" ELSE "ending"
             M == IF x.run.menu /\ x.menu = "open" THEN "none" ELSE x.menu
             q == [x EXCEPT !.run.stop = s, !.bari = B, !.keys = K, !.menu = M]
             T == {"swim"} \cap x.run.saved
             z == [q EXCEPT !.changed = @ \ T, !.run.saved = @ \ T]
  <1>1. /\ K \in SUBSET {"use", "jump"} /\ B \in {"off", "on", "ending"} /\ M \in {"none", "asked", "open"}
        /\ x.run \in Runs /\ K \subseteq x.keys
        /\ x.run.kind \in {"rangedAttack", "useItem"} => "use" \notin K
    BY DEF Clients
  <1> HIDE DEF K, B, M
  <1>2. q \in Clients
    <2>1. [x.run EXCEPT !.stop = s] \in Runs
      BY <1>1, Zenon DEF Runs
    <2> QED
      BY <1>1, <2>1, Zenon DEF Clients
  <1>3. /\ q.run.saved = x.run.saved /\ q.run.stop = s /\ q.run.id = x.run.id /\ q.run.peer = x.run.peer
        /\ q.changed = x.changed /\ q.keys = K /\ q.link = x.link /\ q.peer = x.peer
        /\ q.events = x.events /\ q.out = x.out
    BY Columns
  <1>4. Signs(x, q)
    BY <1>1, Columns DEF Signs
  <1>5. requestStop(x, s) = Restore(q, {"swim"})
    BY DEF requestStop, K, B, M
  <1> HIDE DEF q
  <1>6. requestStop(x, s) = z
    BY <1>3, <1>5 DEF Restore
  <1>7. x.run.saved \ T \in SUBSET Settings /\ x.changed \ T \in SUBSET Settings
    BY <1>1 DEF Clients, Runs
  <1> HIDE DEF T
  <1>8. z = [q EXCEPT !.run.saved = x.run.saved \ T, !.changed = x.changed \ T]
    BY <1>2, <1>3, Columns
  <1> HIDE DEF z
  <1>9. z \in Clients
    BY <1>2, <1>7, <1>8, SavedTyped
  <1>10. /\ z.run.saved = x.run.saved \ T /\ z.run.stop = q.run.stop /\ z.run.id = q.run.id
         /\ z.run.peer = q.run.peer /\ z.changed = x.changed \ T /\ z.keys = q.keys
         /\ z.link = q.link /\ z.peer = q.peer /\ z.events = q.events /\ z.out = q.out
    BY <1>2, <1>8, Columns
  <1>11. Signs(q, z)
    BY <1>2, <1>8, Columns DEF Signs
  <1>12. Signs(x, z)
    BY <1>4, <1>11 DEF Signs
  <1>13. x.run.saved \ T = x.run.saved \ {"swim"}
    BY DEF T
  <1> QED
    BY <1>1, <1>3, <1>6, <1>9, <1>10, <1>12, <1>13 DEF T

LEMMA StopGoes ==
    ASSUME NEW x \in Clients, Neat(x), NEW s \in Endings
    PROVE  /\ Fit(requestStop(x, s)) /\ Goes(x, requestStop(x, s))
           /\ requestStop(x, s).run.id = x.run.id
           /\ Running(x) => requestStop(x, s).run.stop # "no"
           /\ Signs(x, requestStop(x, s))
  <1>1. CASE ~ Running(x) \/ x.run.stop # "no"
    <2>1. requestStop(x, s) = x
      BY <1>1 DEF requestStop
    <2>2. Goes(x, x)
      BY DEF Goes, Quietly, Sends, Tells, In
    <2>3. Signs(x, x)
      BY DEF Signs
    <2>4. Fit(x)
      BY <1>1 DEF Fit, Neat, Rested
    <2> QED
      BY <1>1, <2>1, <2>2, <2>3, <2>4
  <1>2. CASE Running(x) /\ x.run.stop = "no"
    <2> DEFINE z == requestStop(x, s)
    <2>1. /\ z \in Clients /\ z.run.stop = s /\ z.run.saved = x.run.saved \ {"swim"}
          /\ z.run.id = x.run.id /\ z.run.peer = x.run.peer
          /\ z.changed = x.changed \ ({"swim"} \cap x.run.saved) /\ z.keys \subseteq x.keys
          /\ x.run.kind \in {"rangedAttack", "useItem"} => "use" \notin z.keys
          /\ z.link = x.link /\ z.peer = x.peer /\ z.events = x.events /\ z.out = x.out
      BY <1>2, StoppedClient
    <2>2. Signs(x, z)
      BY <1>2, StoppedClient
    <2> HIDE DEF z
    <2>3. s # "no" /\ Running(z)
      BY <1>2, <2>1 DEF Endings, Running
    <2>4. z.dead <=> z.screen
      BY <2>2 DEF Signs, Neat
    <2>5. z.changed = z.run.saved /\ "use" \notin z.keys /\ "swim" \notin z.run.saved
      BY <2>1 DEF Neat
    <2>6. Fit(z)
      BY <2>1, <2>3, <2>4, <2>5 DEF Fit, Neat, Rested
    <2>7. Goes(x, z)
      BY <1>2, <2>1, <2>2, <2>3 DEF Goes, Sends, Tells, In, Signs
    <2> QED
      BY <2>1, <2>2, <2>3, <2>6, <2>7 DEF z
  <1> QED
    BY <1>1, <1>2

(* Work leaves an action at work, or tells it to stop.                     *)
Worked(x, y) == \/ Busy(x, y)
                \/ \E b \in Clients, s \in Endings : Busy(x, b) /\ y = requestStop(b, s)

LEMMA WorkedGoes ==
    ASSUME NEW x, NEW y, Worked(x, y)
    PROVE  Fit(y) /\ Goes(x, y)
  <1>1. CASE Busy(x, y)
    BY <1>1, BusyGoes
  <1>2. CASE \E b \in Clients, s \in Endings : Busy(x, b) /\ y = requestStop(b, s)
    <2>1. PICK b \in Clients, s \in Endings : Busy(x, b) /\ y = requestStop(b, s)
      BY <1>2
    <2>2. Fit(b) /\ Goes(x, b)
      BY <2>1, BusyGoes
    <2>3. Fit(y) /\ Goes(b, y)
      BY <2>1, <2>2, StopGoes DEF Fit
    <2> QED
      BY <2>2, <2>3, GoesOn
  <1> QED
    BY <1>1, <1>2 DEF Worked

LEMMA WorkEnds ==
    ASSUME NEW x, NEW y, Busy(x, y)
    PROVE  /\ Worked(x, y) /\ Worked(x, Failed(y)) /\ Worked(x, Completed(y))
           /\ Worked(x, requestStop(y, "timeout"))
  <1>1. y \in Clients
    BY DEF Busy
  <1>2. \A s \in Endings : Worked(x, requestStop(y, s))
    BY <1>1 DEF Worked
  <1> QED
    BY <1>2 DEF Worked, Failed, Completed, Endings

LEMMA EngageWorks ==
    ASSUME NEW x, NEW y, Busy(x, y)
    PROVE  \A z \in tickEngage(y) : Worked(x, z)
  <1>1. Busy(x, Bari(y)) /\ Busy(x, Alone(y))
    BY BaritoneBusy
  <1>2. Worked(x, Bari(y)) /\ Worked(x, Alone(y)) /\ Worked(x, Completed(y)) /\ Worked(x, Failed(y))
    BY <1>1, WorkEnds
  <1> QED
    BY <1>2 DEF tickEngage, combatTarget

LEMMA RangedWorks ==
    ASSUME NEW x, NEW y, Busy(x, y), y.run.kind = "rangedAttack"
    PROVE  \A z \in tickRanged(y) : Worked(x, z)
  <1>1. Busy(x, Bari(y)) /\ Busy(x, Alone(y))
    BY BaritoneBusy
  <1>2. Alone(y).run.kind = "rangedAttack"
    BY <1>1 DEF Busy, Framed
  <1>3. Busy(x, Press(Alone(y), "use")) /\ Busy(x, Release(y, "use"))
    BY <1>1, <1>2, KeysBusy
  <1>4. /\ Busy(x, Phase(Press(Alone(y), "use"), 1))
        /\ Busy(x, Phase(Release(y, "use"), 0)) /\ Busy(x, Phase(Release(y, "use"), 2))
    BY <1>3, PhaseBusy
  <1>5. Busy(x, [y EXCEPT !.run.sign = TRUE])
    BY MarksBusy
  <1>6. /\ Worked(x, y) /\ Worked(x, Bari(y)) /\ Worked(x, Completed(y)) /\ Worked(x, Failed(y))
        /\ Worked(x, Phase(Press(Alone(y), "use"), 1))
        /\ Worked(x, Phase(Release(y, "use"), 0)) /\ Worked(x, Phase(Release(y, "use"), 2))
        /\ Worked(x, [y EXCEPT !.run.sign = TRUE])
    BY <1>1, <1>4, <1>5, WorkEnds
  <1>7. tickRanged(y) \subseteq
           {y, Completed(y), Failed(y), Bari(y), Phase(Press(Alone(y), "use"), 1),
            Phase(Release(y, "use"), 0), Phase(Release(y, "use"), 2), [y EXCEPT !.run.sign = TRUE]}
    BY DEF tickRanged, combatTarget
  <1> QED
    BY <1>6, <1>7

LEMMA UseItemWorks ==
    ASSUME NEW x, NEW y, Busy(x, y), y.run.kind = "useItem"
    PROVE  \A z \in tickUseItem(y) : Worked(x, z)
  <1>1. /\ Busy(x, Phase(y, 1)) /\ Busy(x, Phase(y, 2)) /\ Busy(x, Phase(y, 3))
        /\ Busy(x, Press(y, "use"))
    BY PhaseBusy, KeysBusy
  <1>2. /\ Worked(x, Phase(y, 1)) /\ Worked(x, Phase(y, 2)) /\ Worked(x, Phase(y, 3))
        /\ Worked(x, Press(y, "use"))
        /\ Worked(x, y) /\ Worked(x, Completed(y)) /\ Worked(x, Failed(y))
    BY <1>1, WorkEnds
  <1> QED
    BY <1>2 DEF tickUseItem

LEMMA PlaceBlockWorks ==
    ASSUME NEW x, NEW y, Busy(x, y)
    PROVE  \A z \in tickPlaceBlock(y) : Worked(x, z)
  <1>1. Busy(x, Bari(y)) /\ Busy(x, Alone(y))
    BY BaritoneBusy
  <1>2. /\ Busy(x, Phase(Bari(y), 1)) /\ Busy(x, Phase(y, 2)) /\ Busy(x, Phase(Alone(y), 2))
        /\ Busy(x, Phase(y, 3))
    BY <1>1, PhaseBusy
  <1>3. /\ Worked(x, Phase(Bari(y), 1)) /\ Worked(x, Phase(y, 2)) /\ Worked(x, Phase(Alone(y), 2))
        /\ Worked(x, Phase(y, 3))
        /\ Worked(x, y) /\ Worked(x, Completed(y)) /\ Worked(x, Failed(y))
    BY <1>2, WorkEnds
  <1> QED
    BY <1>3 DEF tickPlaceBlock

LEMMA CollectWorks ==
    ASSUME NEW x, NEW y, Busy(x, y)
    PROVE  \A z \in tickCollectBlocks(y) : Worked(x, z)
  <1>1. Busy(x, Save(y, "throwaway")) /\ Busy(x, Save(y, "radius"))
    BY SaveBusy DEF Settings
  <1>2. /\ Busy(x, Bari(y)) /\ Busy(x, Bari(Save(y, "throwaway")))
        /\ Busy(x, Bari(Save(y, "radius")))
    BY <1>1, BaritoneBusy
  <1>3. /\ Busy(x, Phase(Bari(y), 1)) /\ Busy(x, Phase(Bari(Save(y, "throwaway")), 1))
        /\ Busy(x, Phase(Bari(Save(y, "radius")), 2))
    BY <1>2, PhaseBusy
  <1>4. /\ Worked(x, Phase(Bari(y), 1)) /\ Worked(x, Phase(Bari(Save(y, "throwaway")), 1))
        /\ Worked(x, Phase(Bari(Save(y, "radius")), 2)) /\ Worked(x, Bari(y))
        /\ Worked(x, y) /\ Worked(x, Completed(y)) /\ Worked(x, Failed(y))
    BY <1>2, <1>3, WorkEnds
  <1> QED
    BY <1>4 DEF tickCollectBlocks, startCollectionGoal

LEMMA CraftWorks ==
    ASSUME NEW x, NEW y, Busy(x, y)
    PROVE  \A z \in tickCraft(y) : Worked(x, z)
  <1> DEFINE known == [y EXCEPT !.run.menu = TRUE]
  <1>1. Busy(x, known)
    BY MarksBusy
  <1> HIDE DEF known
  <1>2. /\ Busy(x, Phase(known, 2)) /\ Busy(x, Phase(y, 2)) /\ Busy(x, Phase(y, 3))
        /\ \A d \in openMenu(y) : Busy(x, Phase(d, 1))
    <2>1. \A d \in openMenu(y) : Busy(x, d)
      BY MenuBusy
    <2>2. \A d : Busy(x, d) => \A n \in 0..3 : Busy(x, Phase(d, n))
      BY PhaseBusy
    <2>3. 1 \in 0..3 /\ 2 \in 0..3 /\ 3 \in 0..3
      OBVIOUS
    <2> QED
      BY <1>1, <2>1, <2>2, <2>3
  <1>3. /\ Worked(x, Phase(known, 2)) /\ Worked(x, Failed(known))
        /\ Worked(x, Phase(y, 2)) /\ Worked(x, Phase(y, 3))
        /\ \A d \in openMenu(y) : Worked(x, Phase(d, 1))
        /\ Worked(x, y) /\ Worked(x, Completed(y)) /\ Worked(x, Failed(y))
    BY <1>1, <1>2, WorkEnds
  <1>4. \A z \in craftInputs(y) \cup craftInputs(known) \cup collectCraftRemainders(y) : Worked(x, z)
    BY <1>3 DEF craftInputs, collectCraftRemainders
  <1>5. tickCraft(y) \subseteq
           {y, Failed(y), Completed(y)} \cup {Phase(d, 1) : d \in openMenu(y)}
           \cup craftInputs(y) \cup craftInputs(known) \cup collectCraftRemainders(y)
    BY DEF tickCraft, known
  <1> QED
    BY <1>3, <1>4, <1>5

LEMMA BuilderWorks ==
    ASSUME NEW x, NEW y, Busy(x, y)
    PROVE  \A z \in tickBuilderFile(y) : Worked(x, z)
  <1>1. Busy(x, Save(y, "inventory"))
    BY SaveBusy DEF Settings
  <1>2. Busy(x, Phase(Save(y, "inventory"), 1))
    BY <1>1, PhaseBusy
  <1>3. Busy(x, Bari(Phase(Save(y, "inventory"), 1)))
    BY <1>2, BaritoneBusy
  <1>4. /\ Worked(x, Failed(Phase(Save(y, "inventory"), 1)))
        /\ Worked(x, Bari(Phase(Save(y, "inventory"), 1)))
        /\ Worked(x, y) /\ Worked(x, Completed(y)) /\ Worked(x, Failed(y))
    BY <1>2, <1>3, WorkEnds
  <1> QED
    BY <1>4 DEF tickBuilderFile

LEMMA TransferWorks ==
    ASSUME NEW x, NEW y, Busy(x, y)
    PROVE  \A z \in tickMenuTransfer(y) : Worked(x, z)
  <1> DEFINE known == [y EXCEPT !.run.menu = TRUE]
             shut == [y EXCEPT !.menu = "none", !.run.menu = FALSE]
  <1>1. Busy(x, known) /\ Busy(x, shut)
    BY MarksBusy, MenuBusy
  <1> HIDE DEF known, shut
  <1>2. /\ Busy(x, Phase(known, 2))
        /\ \A d \in openMenu(y) : Busy(x, Phase(d, 1))
        /\ \A d \in openMenu(shut) : Busy(x, Phase(d, 3))
    <2>1. \A d \in openMenu(y) \cup openMenu(shut) : Busy(x, d)
      BY <1>1, MenuBusy
    <2>2. \A d : Busy(x, d) => \A n \in 0..3 : Busy(x, Phase(d, n))
      BY PhaseBusy
    <2>3. 1 \in 0..3 /\ 2 \in 0..3 /\ 3 \in 0..3
      OBVIOUS
    <2> QED
      BY <1>1, <2>1, <2>2, <2>3
  <1>3. /\ Worked(x, Phase(known, 2)) /\ Worked(x, Failed(known)) /\ Worked(x, Completed(known))
        /\ \A d \in openMenu(y) : Worked(x, Phase(d, 1))
        /\ \A d \in openMenu(shut) : Worked(x, Phase(d, 3))
        /\ Worked(x, y) /\ Worked(x, Failed(y))
    BY <1>1, <1>2, WorkEnds
  <1>4. \A z \in transferMenuSlots(known) \cup verifyMenuTransfer(known) : Worked(x, z)
    BY <1>3 DEF transferMenuSlots, verifyMenuTransfer
  <1>5. tickMenuTransfer(y) \subseteq
           {y, Failed(y)} \cup {Phase(d, 1) : d \in openMenu(y)} \cup {Phase(d, 3) : d \in openMenu(shut)}
           \cup transferMenuSlots(known) \cup verifyMenuTransfer(known)
    BY DEF tickMenuTransfer, known, shut
  <1> QED
    BY <1>3, <1>4, <1>5

LEMMA HandoffWorks ==
    ASSUME NEW x, NEW y, Busy(x, y)
    PROVE  \A z \in tickHandoff(y) : Worked(x, z)
  <1>1. Busy(x, Bari(y)) /\ Busy(x, Alone(y))
    BY BaritoneBusy
  <1>2. Busy(x, Phase(Alone(y), 1)) /\ Busy(x, Phase(Bari(y), 2))
    BY <1>1, PhaseBusy
  <1>3. /\ Worked(x, Phase(Alone(y), 1)) /\ Worked(x, Phase(Bari(y), 2))
        /\ Worked(x, Bari(y)) /\ Worked(x, Alone(y))
        /\ Worked(x, y) /\ Worked(x, Completed(y)) /\ Worked(x, Failed(y))
    BY <1>1, <1>2, WorkEnds
  <1> QED
    BY <1>3 DEF tickHandoff

LEMMA SwimWorks ==
    ASSUME NEW x, NEW y, Busy(x, y)
    PROVE  \A z \in tickSwimUp(y) : Worked(x, z)
  <1> DEFINE s == IF y.run.phase = 0 THEN Phase([y EXCEPT !.run.swim = TRUE], 1) ELSE y
             low == Release(s, "jump")
  <1>1. Busy(x, s)
    <2>1. Busy(x, [y EXCEPT !.run.swim = TRUE])
      BY MarksBusy
    <2>2. PICK v : v = [y EXCEPT !.run.swim = TRUE]
      OBVIOUS
    <2>3. Busy(x, Phase(v, 1))
      BY <2>1, <2>2, PhaseBusy
    <2> QED
      BY <2>2, <2>3
  <1>2. tickSwimUp(y) =
           {Completed(low), Failed(low)} \cup routeSwimToAir(low) \cup
           IF s.run.phase = 2 THEN {low, Bari(low), Phase(Press(Alone(s), "jump"), 3)} ELSE {Press(s, "jump")}
    BY DEF tickSwimUp
  <1> HIDE DEF s
  <1>3. Busy(x, low) /\ Busy(x, Press(s, "jump")) /\ Busy(x, Alone(s))
    BY <1>1, KeysBusy, BaritoneBusy
  <1> HIDE DEF low
  <1>4. Busy(x, Bari(low)) /\ Busy(x, Press(Alone(s), "jump")) /\ Busy(x, Save(low, "swim"))
    BY <1>3, KeysBusy, BaritoneBusy, SaveBusy DEF Settings
  <1>5. Busy(x, Phase(Press(Alone(s), "jump"), 3)) /\ Busy(x, Phase(Alone(Save(low, "swim")), 2))
    BY <1>4, PhaseBusy, BaritoneBusy
  <1>6. /\ Worked(x, low) /\ Worked(x, Bari(low)) /\ Worked(x, Press(s, "jump"))
        /\ Worked(x, Phase(Press(Alone(s), "jump"), 3)) /\ Worked(x, Phase(Alone(Save(low, "swim")), 2))
        /\ Worked(x, Completed(low)) /\ Worked(x, Failed(low))
    BY <1>3, <1>4, <1>5, WorkEnds
  <1>7. \A z \in routeSwimToAir(low) : Worked(x, z)
    BY <1>6 DEF routeSwimToAir
  <1> QED
    BY <1>2, <1>6, <1>7

LEMMA VerticalWorks ==
    ASSUME NEW x, NEW y, Busy(x, y)
    PROVE  \A z \in tickVertical(y) : Worked(x, z)
  <1> DEFINE lent == Save(y, "throwaway")
  <1>1. Busy(x, lent)
    BY SaveBusy DEF Settings
  <1>2. Busy(x, Phase(Bari(y), 1)) /\ Busy(x, Phase(Bari(lent), 1))
    BY <1>1, BaritoneBusy, PhaseBusy
  <1> HIDE DEF lent
  <1>3. /\ Worked(x, Phase(Bari(y), 1)) /\ Worked(x, Phase(Bari(lent), 1))
        /\ Worked(x, Failed(lent))
        /\ Worked(x, y) /\ Worked(x, Completed(y)) /\ Worked(x, Failed(y))
    BY <1>1, <1>2, WorkEnds
  <1>4. \A z \in tickSwimUp(y) : Worked(x, z)
    BY SwimWorks
  <1>5. tickVertical(y) \subseteq
           {y, Failed(y), Completed(y), Failed(lent), Phase(Bari(y), 1), Phase(Bari(lent), 1)}
           \cup tickSwimUp(y)
    BY DEF tickVertical, lent
  <1> QED
    BY <1>3, <1>4, <1>5

LEMMA StructuredWorks ==
    ASSUME NEW x, NEW y, Busy(x, y), y.run.kind \in Structured
    PROVE  \A z \in tickStructuredAction(y) : Worked(x, z)
  <1>1. Worked(x, Failed(y)) /\ Worked(x, requestStop(y, "timeout"))
    BY WorkEnds
  <1> DEFINE k == y.run.kind
  <1>2. /\ k = "engageEntity" => \A z \in tickEngage(y) : Worked(x, z)
        /\ k = "useItem" => \A z \in tickUseItem(y) : Worked(x, z)
        /\ k = "placeBlock" => \A z \in tickPlaceBlock(y) : Worked(x, z)
        /\ k = "collectBlocks" => \A z \in tickCollectBlocks(y) : Worked(x, z)
        /\ k = "rangedAttack" => \A z \in tickRanged(y) : Worked(x, z)
        /\ k = "craftItem" => \A z \in tickCraft(y) : Worked(x, z)
        /\ k = "builderBuildFile" => \A z \in tickBuilderFile(y) : Worked(x, z)
        /\ k = "containerTransfer" => \A z \in tickMenuTransfer(y) : Worked(x, z)
        /\ k = "handoffItem" => \A z \in tickHandoff(y) : Worked(x, z)
        /\ \A z \in tickVertical(y) : Worked(x, z)
    BY EngageWorks, UseItemWorks, PlaceBlockWorks, CollectWorks, RangedWorks, CraftWorks, BuilderWorks,
       TransferWorks, HandoffWorks, VerticalWorks
  <1> QED
    BY <1>1, <1>2 DEF tickStructuredAction, Structured, isVertical

LEMMA ObjectiveWorks ==
    ASSUME NEW x, NEW y, Busy(x, y)
    PROVE  \A z \in tickObjective(y) : Worked(x, z)
  <1>1. Busy(x, Bari(y))
    BY BaritoneBusy
  <1>2. /\ Worked(x, y) /\ Worked(x, Bari(y)) /\ Worked(x, Failed(y)) /\ Worked(x, Completed(y))
        /\ Worked(x, requestStop(y, "timeout"))
    BY <1>1, WorkEnds
  <1> QED
    BY <1>2 DEF tickObjective, tickFollow

----------------------------------------------------------------------------
(* What the client says *)

LEMMA InAppend ==
    ASSUME NEW S, NEW s \in Seq(S), NEW n \in S
    PROVE  Append(s, n) \in Seq(S) /\ \A m : In(Append(s, n), m) <=> In(s, m) \/ m = n
  <1>1. Append(s, n) \in Seq(S) /\ Len(Append(s, n)) = Len(s) + 1
    OBVIOUS
  <1>2. /\ \A j \in 1..Len(s) : Append(s, n)[j] = s[j]
        /\ Append(s, n)[Len(s) + 1] = n
    OBVIOUS
  <1>3. DOMAIN s = 1..Len(s) /\ DOMAIN Append(s, n) = 1..(Len(s) + 1) /\ Len(s) \in Nat
    BY <1>1
  <1>4. \A j \in 1..(Len(s) + 1) : j \in 1..Len(s) \/ j = Len(s) + 1
    BY <1>3
  <1>5. \A j \in 1..Len(s) : j \in 1..(Len(s) + 1)
    BY <1>3
  <1>6. Len(s) + 1 \in 1..(Len(s) + 1)
    BY <1>3
  <1>7. ASSUME NEW m PROVE In(Append(s, n), m) <=> In(s, m) \/ m = n
    BY <1>2, <1>3, <1>4, <1>5, <1>6 DEF In
  <1> QED
    BY <1>1, <1>7

LEMMA InConcat ==
    ASSUME NEW S, NEW s \in Seq(S), NEW t \in Seq(S)
    PROVE  s \o t \in Seq(S) /\ \A m : In(s \o t, m) <=> In(s, m) \/ In(t, m)
  <1>1. s \o t \in Seq(S) /\ Len(s \o t) = Len(s) + Len(t)
    OBVIOUS
  <1>2. DOMAIN s = 1..Len(s) /\ DOMAIN t = 1..Len(t) /\ DOMAIN (s \o t) = 1..(Len(s) + Len(t))
        /\ Len(s) \in Nat /\ Len(t) \in Nat
    BY <1>1
  <1>3. \A j \in 1..(Len(s) + Len(t)) : (s \o t)[j] = IF j <= Len(s) THEN s[j] ELSE t[j - Len(s)]
    OBVIOUS
  <1>4. ASSUME NEW m, In(s, m) PROVE In(s \o t, m)
    <2>1. PICK j \in 1..Len(s) : s[j] = m
      BY <1>2, <1>4 DEF In
    <2>2. j \in 1..(Len(s) + Len(t)) /\ j <= Len(s)
      BY <1>2
    <2> QED
      BY <1>2, <1>3, <2>1, <2>2 DEF In
  <1>5. ASSUME NEW m, In(t, m) PROVE In(s \o t, m)
    <2>1. PICK j \in 1..Len(t) : t[j] = m
      BY <1>2, <1>5 DEF In
    <2>2. j + Len(s) \in 1..(Len(s) + Len(t)) /\ ~ (j + Len(s) <= Len(s)) /\ (j + Len(s)) - Len(s) = j
      BY <1>2
    <2>3. (s \o t)[j + Len(s)] = m
      BY <1>3, <2>1, <2>2
    <2> QED
      BY <1>2, <2>2, <2>3 DEF In
  <1>6. ASSUME NEW m, In(s \o t, m) PROVE In(s, m) \/ In(t, m)
    <2>1. PICK j \in 1..(Len(s) + Len(t)) : (s \o t)[j] = m
      BY <1>2, <1>6 DEF In
    <2>2. CASE j <= Len(s)
      <3>1. j \in 1..Len(s) /\ s[j] = m
        BY <1>2, <1>3, <2>1, <2>2
      <3> QED
        BY <1>2, <3>1 DEF In
    <2>3. CASE ~ (j <= Len(s))
      <3>1. j - Len(s) \in 1..Len(t) /\ t[j - Len(s)] = m
        BY <1>2, <1>3, <2>1, <2>3
      <3> QED
        BY <1>2, <3>1 DEF In
    <2> QED
      BY <2>2, <2>3
  <1> QED
    BY <1>1, <1>4, <1>5, <1>6

(* Two clients that differ in what they have said, or in columns that no   *)
(* property reads.                                                         *)
Alike(x, y) ==
    /\ y.run = x.run /\ y.changed = x.changed /\ y.keys = x.keys /\ y.bari = x.bari /\ y.menu = x.menu
    /\ y.raw <=> x.raw
    /\ y.link = x.link /\ y.peer = x.peer /\ Signs(x, y)

LEMMA AlikeFit ==
    ASSUME NEW x, NEW y \in Clients, Alike(x, y)
    PROVE  /\ Neat(x) => Neat(y)
           /\ Rested(x) => Rested(y)
           /\ Sends(x, y) /\ Tells(x, y) => Goes(x, y)
  <1>1. Neat(x) => Neat(y)
    BY DEF Alike, Signs, Neat, Running
  <1>2. Rested(x) => Rested(y)
    BY DEF Alike, Signs, Rested
  <1>3. Sends(x, y) /\ Tells(x, y) => Goes(x, y)
    BY DEF Alike, Goes, Quietly
  <1> QED
    BY <1>1, <1>2, <1>3

LEMMA Spoken ==
    ASSUME NEW x \in Clients, NEW s \in Seq(Messages), NEW y, y = [x EXCEPT !.out = s]
    PROVE  y \in Clients /\ Alike(x, y) /\ y.out = s /\ y.events = x.events
  <1>1. y \in Clients
    BY Zenon DEF Clients
  <1>2. Alike(x, y) /\ y.out = s /\ y.events = x.events
    BY Columns DEF Alike, Signs
  <1> QED
    BY <1>1, <1>2

LEMMA Says ==
    ASSUME NEW x \in Clients, NEW p, NEW m \in Messages
    PROVE  /\ Send(x, p, m) \in Clients /\ Alike(x, Send(x, p, m))
           /\ Send(x, p, m).events = x.events
           /\ \A n : In(x.out, n) => In(Send(x, p, m).out, n)
           /\ \A n : In(Send(x, p, m).out, n) => In(x.out, n) \/ n = m
           /\ p # 0 /\ p = x.link => In(Send(x, p, m).out, m)
  <1>1. CASE p # 0 /\ p = x.link
    <2>1. x.out \in Seq(Messages)
      BY DEF Clients
    <2>2. PICK s : s = Append(x.out, m)
      OBVIOUS
    <2>3. s \in Seq(Messages) /\ \A n : In(s, n) <=> In(x.out, n) \/ n = m
      BY <2>1, <2>2, InAppend
    <2>4. PICK y : y = [x EXCEPT !.out = s]
      OBVIOUS
    <2>5. Send(x, p, m) = y
      BY <1>1, <2>2, <2>4 DEF Send
    <2>6. y \in Clients /\ Alike(x, y) /\ y.out = s /\ y.events = x.events
      BY <2>3, <2>4, Spoken
    <2> QED
      BY <2>3, <2>5, <2>6
  <1>2. CASE ~ (p # 0 /\ p = x.link)
    <2>1. Send(x, p, m) = x
      BY <1>2 DEF Send
    <2>2. Alike(x, x)
      BY DEF Alike, Signs
    <2> QED
      BY <1>2, <2>1, <2>2
  <1> QED
    BY <1>1, <1>2

LEMMA MessageKinds ==
    /\ \A e \in Edges : e \in Messages /\ e.type = "edge"
    /\ \A e \in Readies : e \in Messages /\ e.type = "ready"
    /\ \A e \in Terminals : e \in Messages /\ e.type = "terminal"
    /\ \A e \in Rejections : e \in Messages /\ e.type = "rejected"
    /\ \A e \in Replies : e \in Messages /\ e.type = "state"
  BY DEF Messages, Edges, Readies, Terminals, Rejections, Replies

(* An edge is kept, and said to whom is served.                            *)
LEMMA Emits ==
    ASSUME NEW x \in Clients, NEW n \in {"death", "respawned", "world_ready", "world_disconnected"}
    PROVE  /\ emitLifecycle(x, n) \in Clients /\ Alike(x, emitLifecycle(x, n))
           /\ Goes(x, emitLifecycle(x, n))
  <1> DEFINE e == [type |-> "edge", seq |-> x.seq + 1, name |-> n]
  <1>1. x.seq \in Nat /\ x.events \in Seq(Edges)
    BY DEF Clients
  <1>2. e \in Edges
    BY <1>1 DEF Edges
  <1>3. PICK s : s = Append(x.events, e)
    OBVIOUS
  <1>4. s \in Seq(Edges) /\ \A m : In(s, m) <=> In(x.events, m) \/ m = e
    BY <1>1, <1>2, <1>3, InAppend
  <1>5. PICK q : q = [x EXCEPT !.seq = x.seq + 1, !.events = s]
    OBVIOUS
  <1>6. q \in Clients
    <2>1. x.seq + 1 \in Nat
      BY <1>1
    <2> QED
      BY <1>4, <1>5, <2>1, Zenon DEF Clients
  <1>7. Alike(x, q) /\ q.events = s /\ q.out = x.out
    BY <1>5, Columns DEF Alike, Signs
  <1>8. emitLifecycle(x, n) = Send(q, x.peer, e)
    BY <1>3, <1>5 DEF emitLifecycle
  <1> HIDE DEF e
  <1>9. e \in Messages /\ e.type = "edge"
    BY <1>2, MessageKinds
  <1>10. PICK y : y = Send(q, x.peer, e)
    OBVIOUS
  <1>11. /\ y \in Clients /\ Alike(q, y) /\ y.events = s
         /\ \A m : In(q.out, m) => In(y.out, m)
         /\ \A m : In(y.out, m) => In(q.out, m) \/ m = e
         /\ x.peer # 0 /\ x.peer = q.link => In(y.out, e)
    BY <1>6, <1>7, <1>9, <1>10, Says
  <1>12. Alike(x, y)
    BY <1>7, <1>11 DEF Alike, Signs
  <1>13. Sends(x, y)
    BY <1>7, <1>9, <1>11 DEF Sends
  <1>14. Tells(x, y)
    <2> SUFFICES ASSUME y.peer # 0, y.peer = y.link
                 PROVE  \A k \in DOMAIN y.events : In(x.events, y.events[k]) \/ In(y.out, y.events[k])
      BY <1>12 DEF Tells, Alike, Signs
    <2>1. In(y.out, e)
      BY <1>7, <1>11, <1>12 DEF Alike
    <2>2. \A k \in DOMAIN s : In(s, s[k])
      BY DEF In
    <2> QED
      BY <1>4, <1>11, <2>1, <2>2
  <1> QED
    BY <1>8, <1>10, <1>11, <1>12, <1>13, <1>14, AlikeFit

LEMMA SaysReady ==
    ASSUME NEW x \in Clients, NEW p
    PROVE  /\ SendReady(x, p) \in Clients /\ Alike(x, SendReady(x, p)) /\ Goes(x, SendReady(x, p))
           /\ SendReady(x, p).events = x.events
           /\ p # 0 /\ p = x.link => \A k \in DOMAIN x.events : In(SendReady(x, p).out, x.events[k])
  <1>1. CASE p = 0 \/ p # x.link
    <2>1. SendReady(x, p) = x
      BY <1>1 DEF SendReady
    <2>2. Alike(x, x) /\ Goes(x, x)
      BY DEF Alike, Signs, Goes, Quietly, Sends, Tells, In
    <2> QED
      BY <1>1, <2>1, <2>2
  <1>2. CASE ~ (p = 0 \/ p # x.link)
    <2>1. PICK e : e = [type |-> "ready"]
      OBVIOUS
    <2>2. e \in Messages /\ e.type = "ready"
      BY <2>1, MessageKinds DEF Readies
    <2>3. PICK r : r = Send(x, p, e)
      OBVIOUS
    <2>4. /\ r \in Clients /\ Alike(x, r) /\ r.events = x.events
          /\ \A n : In(x.out, n) => In(r.out, n)
          /\ \A n : In(r.out, n) => In(x.out, n) \/ n = e
      BY <2>2, <2>3, Says
    <2>5. x.events \in Seq(Edges) /\ r.out \in Seq(Messages)
      BY <2>4 DEF Clients
    <2>6. x.events \in Seq(Messages)
      BY <2>5 DEF Messages
    <2>7. PICK s : s = r.out \o x.events
      OBVIOUS
    <2>8. s \in Seq(Messages) /\ \A m : In(s, m) <=> In(r.out, m) \/ In(x.events, m)
      BY <2>5, <2>6, <2>7, InConcat
    <2>9. PICK y : y = [r EXCEPT !.out = s]
      OBVIOUS
    <2>10. y \in Clients /\ Alike(r, y) /\ y.out = s /\ y.events = x.events
      BY <2>4, <2>8, <2>9, Spoken
    <2>11. SendReady(x, p) = y
      BY <1>2, <2>1, <2>3, <2>7, <2>9 DEF SendReady
    <2>12. Alike(x, y)
      BY <2>4, <2>10 DEF Alike, Signs
    <2>13. \A m : In(x.events, m) => m.type = "edge"
      BY <2>5, MessageKinds DEF In
    <2>14. Sends(x, y)
      BY <2>2, <2>4, <2>8, <2>10, <2>13 DEF Sends
    <2>15. \A k \in DOMAIN x.events : In(y.out, x.events[k])
      <3>1. \A k \in DOMAIN x.events : In(x.events, x.events[k])
        BY DEF In
      <3> QED
        BY <2>8, <2>10, <3>1
    <2>16. Tells(x, y)
      BY <2>10, <2>15 DEF Tells
    <2> QED
      BY <2>10, <2>11, <2>12, <2>14, <2>15, <2>16, AlikeFit
  <1> QED
    BY <1>1, <1>2

(* A client that becomes ready says so, with every edge it keeps.          *)
LEMMA BecomesReady ==
    ASSUME NEW x, Fit(x), NEW y \in BecomeReady(x)
    PROVE  Fit(y) /\ Goes(x, y) /\ y.run = x.run /\ (y.dying <=> x.dying)
  <1>1. CASE y = x
    <2>1. Goes(x, x)
      BY DEF Goes, Quietly, Sends, Tells, In
    <2> QED
      BY <1>1, <2>1
  <1>2. CASE y # x
    <2>1. PICK q : q = [x EXCEPT !.ready = TRUE]
      OBVIOUS
    <2>2. q \in Clients
      BY <2>1, Zenon DEF Fit, Clients
    <2>3. /\ q.run = x.run /\ q.changed = x.changed /\ q.keys = x.keys /\ q.bari = x.bari /\ q.menu = x.menu
          /\ q.link = x.link /\ q.peer = x.peer /\ q.events = x.events /\ q.out = x.out
          /\ (q.raw <=> x.raw) /\ (q.dead <=> x.dead) /\ (q.screen <=> x.screen) /\ (q.dying <=> x.dying)
      BY <2>1, Columns DEF Fit
    <2>4. PICK r : r = SendReady(q, x.peer)
      OBVIOUS
    <2>5. /\ r \in Clients /\ Alike(q, r) /\ Goes(q, r) /\ r.events = x.events
          /\ x.peer # 0 /\ x.peer = x.link => \A k \in DOMAIN x.events : In(r.out, x.events[k])
      BY <2>2, <2>3, <2>4, SaysReady
    <2>6. y = emitLifecycle(r, "world_ready")
      BY <1>2, <2>1, <2>4 DEF BecomeReady
    <2>7. y \in Clients /\ Alike(r, y) /\ Goes(r, y)
      BY <2>5, <2>6, Emits
    <2>8. Goes(x, r)
      <3>1. r.link = x.link /\ r.peer = x.peer /\ r.run = x.run /\ Quietly(x, r)
        BY <2>3, <2>5 DEF Alike, Quietly
      <3>2. Sends(x, r)
        BY <2>3, <2>5 DEF Goes, Sends, Running
      <3>3. Tells(x, r)
        BY <2>3, <2>5, <3>1 DEF Tells
      <3> QED
        BY <3>1, <3>2, <3>3 DEF Goes
    <2>9. Neat(q) /\ Rested(q)
      BY <2>3 DEF Fit, Neat, Rested, Running
    <2>10. Fit(y)
      BY <2>5, <2>7, <2>9, AlikeFit DEF Fit
    <2>11. y.run = x.run /\ (y.dying <=> x.dying)
      BY <2>3, <2>5, <2>7 DEF Alike, Signs
    <2> QED
      BY <2>7, <2>8, <2>10, <2>11, GoesOn
  <1> QED
    BY <1>1, <1>2

----------------------------------------------------------------------------
(* The end of an action *)

(* What is put back was put aside.                                         *)
LEMMA PutsBack ==
    ASSUME NEW x \in Clients, NEW S
    PROVE  LET z == Restore(x, S)
           IN  /\ z \in Clients /\ z.run.saved = x.run.saved \ S
               /\ x.changed = x.run.saved => z.changed = z.run.saved
               /\ z.run.id = x.run.id /\ z.run.kind = x.run.kind /\ z.run.peer = x.run.peer
               /\ z.run.stop = x.run.stop /\ z.run.touched = x.run.touched
               /\ z.keys = x.keys /\ z.bari = x.bari /\ z.menu = x.menu /\ (z.raw <=> x.raw)
               /\ z.link = x.link /\ z.peer = x.peer /\ z.events = x.events /\ z.out = x.out
               /\ Signs(x, z)
  <1>1. PICK T : T = S \cap x.run.saved
    OBVIOUS
  <1>2. x.run.saved \ T \in SUBSET Settings /\ x.changed \ T \in SUBSET Settings
    BY DEF Clients, Runs
  <1>3. PICK z : z = [x EXCEPT !.run.saved = x.run.saved \ T, !.changed = x.changed \ T]
    OBVIOUS
  <1>4. Restore(x, S) = z
    BY <1>1, <1>3, Columns DEF Restore
  <1>5. z \in Clients
    BY <1>2, <1>3, SavedTyped
  <1>6. /\ z.run.saved = x.run.saved \ T /\ z.changed = x.changed \ T
        /\ z.run.id = x.run.id /\ z.run.kind = x.run.kind /\ z.run.peer = x.run.peer
        /\ z.run.stop = x.run.stop /\ z.run.touched = x.run.touched
        /\ z.keys = x.keys /\ z.bari = x.bari /\ z.menu = x.menu /\ (z.raw <=> x.raw)
        /\ z.link = x.link /\ z.peer = x.peer /\ z.events = x.events /\ z.out = x.out
    BY <1>3, Columns
  <1>7. Signs(x, z)
    BY <1>3, Columns DEF Signs
  <1>8. x.run.saved \ T = x.run.saved \ S
    BY <1>1
  <1> QED
    BY <1>4, <1>5, <1>6, <1>7, <1>8

LEMMA PutsBackGoes ==
    ASSUME NEW x, NEW z, x \in Clients, NEW S, z = Restore(x, S)
    PROVE  Goes(x, z) /\ (Fit(x) => Fit(z)) /\ z.run.id = x.run.id
  <1>1. /\ z \in Clients /\ z.run.saved = x.run.saved \ S
        /\ x.changed = x.run.saved => z.changed = z.run.saved
        /\ z.run.id = x.run.id /\ z.run.kind = x.run.kind /\ z.run.peer = x.run.peer
        /\ z.run.stop = x.run.stop /\ z.run.touched = x.run.touched
        /\ z.keys = x.keys /\ z.bari = x.bari /\ z.menu = x.menu /\ (z.raw <=> x.raw)
        /\ z.link = x.link /\ z.peer = x.peer /\ z.events = x.events /\ z.out = x.out
        /\ Signs(x, z)
    BY PutsBack
  <1>2. Goes(x, z)
    BY <1>1 DEF Goes, Quietly, Sends, Tells, In, Signs
  <1>3. Fit(x) => Neat(z) /\ Rested(z)
    BY <1>1 DEF Fit, Neat, Rested, Signs, Running
  <1> QED
    BY <1>1, <1>2, <1>3 DEF Fit

(* The terminal puts back all that is left and goes where the action came  *)
(* from.                                                                   *)
LEMMA Ends ==
    ASSUME NEW x \in Clients, Neat(x), Running(x), x.bari = "off", NEW s \in Endings,
           "swim" \notin x.run.saved, "use" \notin x.keys
    PROVE  /\ Fit(terminal(x, s)) /\ Goes(x, terminal(x, s))
           /\ ~ Running(terminal(x, s)) /\ Signs(x, terminal(x, s))
  <1>1. PICK t \in Endings :
            t = IF x.run.kind = "rangedAttack" /\ x.run.sign /\ s = "failed" THEN "completed" ELSE s
    BY DEF Endings
  <1>2. PICK r : r = Restore(x, {"radius", "attention", "inventory", "throwaway"})
    OBVIOUS
  <1>3. /\ r \in Clients /\ r.run.saved = x.run.saved \ {"radius", "attention", "inventory", "throwaway"}
        /\ r.changed = r.run.saved /\ r.keys = x.keys /\ r.bari = x.bari /\ r.menu = x.menu /\ (r.raw <=> x.raw)
        /\ r.link = x.link /\ r.peer = x.peer /\ r.events = x.events /\ r.out = x.out
        /\ Signs(x, r)
    BY <1>2, PutsBack DEF Neat
  <1>4. r.changed = {}
    BY <1>3 DEF Clients, Runs, Settings
  <1>5. PICK q : q = [r EXCEPT !.run = NoRun]
    OBVIOUS
  <1>6. NoRun \in Runs
    BY DEF NoRun, Runs, KindNames
  <1>7. q \in Clients
    BY <1>3, <1>5, <1>6, Zenon DEF Clients
  <1>8. /\ q.run = NoRun /\ q.changed = {} /\ q.keys = x.keys /\ q.bari = "off" /\ q.menu = x.menu
        /\ q.link = x.link /\ q.peer = x.peer /\ q.events = x.events /\ q.out = x.out
    BY <1>3, <1>4, <1>5, Columns
  <1>9. Signs(r, q)
    BY <1>3, <1>5, Columns DEF Signs
  <1>10. PICK m : m = [type |-> "terminal", id |-> x.run.id, status |-> t]
    OBVIOUS
  <1>11. x.run.id \in Ids
    BY DEF Clients, Runs, Running
  <1>12. m \in Messages /\ m.type = "terminal" /\ m.id = x.run.id
    BY <1>10, <1>11, MessageKinds DEF Terminals
  <1>13. PICK y : y = Send(q, x.run.peer, m)
    OBVIOUS
  <1>14. terminal(x, s) = y
    BY <1>1, <1>2, <1>5, <1>10, <1>13 DEF terminal
  <1>15. /\ y \in Clients /\ Alike(q, y) /\ y.events = x.events
         /\ \A n : In(q.out, n) => In(y.out, n)
         /\ \A n : In(y.out, n) => In(q.out, n) \/ n = m
    BY <1>7, <1>8, <1>12, <1>13, Says
  <1>16. ~ Running(y) /\ y.run.saved = {} /\ y.changed = {} /\ y.keys = x.keys /\ y.bari = "off" /\ y.run.stop = "no"
    BY <1>8, <1>15 DEF Alike, NoRun, Running
  <1>17. Signs(x, y)
    BY <1>3, <1>9, <1>15 DEF Alike, Signs
  <1>18. Fit(y)
    BY <1>15, <1>16, <1>17 DEF Fit, Neat, Rested, Signs
  <1>19. Goes(x, y)
    <2>1. y.link = x.link /\ y.peer = x.peer
      BY <1>8, <1>15 DEF Alike
    <2>2. Sends(x, y)
      BY <1>8, <1>12, <1>15, <1>16 DEF Sends
    <2>3. Tells(x, y)
      BY <1>15, <1>17 DEF Tells, Signs, In
    <2> QED
      BY <1>16, <2>1, <2>2, <2>3 DEF Goes
  <1> QED
    BY <1>14, <1>16, <1>17, <1>18, <1>19

LEMMA SettleGoes ==
    ASSUME NEW x, Fit(x), Running(x)
    PROVE  Fit(Settle(x)) /\ Goes(x, Settle(x))
  <1>1. CASE x.run.stop = "no"
    <2>1. Settle(x) = x
      BY <1>1 DEF Settle
    <2>2. Goes(x, x)
      BY DEF Goes, Quietly, Sends, Tells, In
    <2> QED
      BY <2>1, <2>2
  <1>2. CASE x.run.stop # "no"
    <2>1. PICK n : n = IF x.bari = "off" THEN x.run.stable + 1 ELSE 0
      OBVIOUS
    <2>2. x \in Clients /\ x.run \in Runs /\ x.run.stable \in Nat
      BY DEF Fit, Clients, Runs
    <2>3. n \in Nat
      BY <2>1, <2>2
    <2>4. PICK d : d = [x EXCEPT !.run.stable = n]
      OBVIOUS
    <2>5. d \in Clients
      <3>1. [x.run EXCEPT !.stable = n] \in Runs
        BY <2>2, <2>3, Zenon DEF Runs
      <3> QED
        BY <2>2, <2>4, <3>1, Zenon DEF Clients
    <2>6. /\ d.run.id = x.run.id /\ d.run.peer = x.run.peer /\ d.run.stop = x.run.stop
          /\ d.run.saved = x.run.saved /\ d.run.touched = x.run.touched /\ d.run.kind = x.run.kind
          /\ d.run.stable = n
          /\ d.changed = x.changed /\ d.keys = x.keys /\ d.bari = x.bari /\ d.menu = x.menu
          /\ d.link = x.link /\ d.peer = x.peer /\ d.events = x.events /\ d.out = x.out
          /\ (d.raw <=> x.raw)
      BY <2>2, <2>4, Columns
    <2>7. Signs(x, d)
      BY <2>2, <2>4, Columns DEF Signs
    <2>8. Fit(d)
      BY <2>5, <2>6, <2>7 DEF Fit, Neat, Rested, Signs, Running
    <2>9. Goes(x, d)
      BY <2>6, <2>7 DEF Goes, Quietly, Sends, Tells, In, Signs
    <2>10. Settle(x) = IF n >= StableTicks THEN terminal(d, d.run.stop) ELSE d
      <3>1. d = [x EXCEPT !.run.stable = IF x.bari = "off" THEN x.run.stable + 1 ELSE 0]
        BY <2>1, <2>4
      <3> QED
        BY <1>2, <2>6, <3>1 DEF Settle
    <2>11. CASE ~ (n >= StableTicks)
      BY <2>8, <2>9, <2>10, <2>11
    <2>12. CASE n >= StableTicks
      <3>1. n # 0
        BY <2>3, <2>12, TicksAssumption
      <3>2. d.bari = "off"
        BY <2>1, <2>6, <3>1
      <3>3. "swim" \notin d.run.saved /\ "use" \notin d.keys /\ Running(d) /\ d.run.stop \in Endings
        BY <1>2, <2>2, <2>6 DEF Fit, Neat, Running, Runs
      <3>4. Neat(d)
        BY <2>8 DEF Fit
      <3>5. Fit(terminal(d, d.run.stop)) /\ Goes(d, terminal(d, d.run.stop))
        BY <2>5, <3>2, <3>3, <3>4, Ends
      <3> QED
        BY <2>9, <2>10, <2>12, <3>5, GoesOn
    <2> QED
      BY <2>11, <2>12
  <1> QED
    BY <1>1, <1>2

(* One call of the tick function of an action at work.                     *)
LEMMA WorkGoes ==
    ASSUME NEW x, Fit(x), ~ x.dying, NEW y \in Work(x)
    PROVE  Fit(y) /\ Goes(x, y)
  <1>1. CASE ~ Running(x)
    <2>1. y = x
      BY <1>1 DEF Work
    <2>2. Goes(x, x)
      BY DEF Goes, Quietly, Sends, Tells, In
    <2> QED
      BY <2>1, <2>2
  <1>2. CASE Running(x) /\ x.run.stop # "no"
    <2>1. y = Settle(x)
      BY <1>2 DEF Work
    <2> QED
      BY <1>2, <2>1, SettleGoes
  <1>3. CASE Running(x) /\ x.run.stop = "no"
    <2>1. Busy(x, x)
      BY <1>3 DEF Busy, Framed, Signs, Fit, Neat
    <2>2. ASSUME NEW d \in observeHeldTool(x) \cup observeNavigation(x)
          PROVE  d = x \/ d = Failed(x)
      BY DEF observeHeldTool, observeNavigation
    <2>3. Worked(x, x) /\ Worked(x, Failed(x))
      BY <2>1, WorkEnds
    <2>4. Failed(x).run.stop # "no"
      BY <1>3, StopGoes DEF Failed, Endings, Fit
    <2> DEFINE Step(d) == IF d.run.stop # "no" THEN {d}
                          ELSE IF d.run.kind \in Structured THEN tickStructuredAction(d) ELSE tickObjective(d)
    <2>5. PICK d \in observeHeldTool(x) \cup observeNavigation(x) : \E e \in Step(d) : y = Settle(e)
      BY <1>3 DEF Work
    <2>6. PICK e \in Step(d) : y = Settle(e)
      BY <2>5
    <2>7. Worked(x, e)
      <3>1. CASE d.run.stop # "no"
        BY <2>2, <2>3, <2>6, <3>1
      <3>2. CASE d.run.stop = "no"
        <4>1. d = x
          BY <2>2, <2>4, <3>2
        <4>2. CASE d.run.kind \in Structured
          BY <2>1, <2>6, <3>2, <4>1, <4>2, StructuredWorks
        <4>3. CASE d.run.kind \notin Structured
          BY <2>1, <2>6, <3>2, <4>1, <4>3, ObjectiveWorks
        <4> QED
          BY <4>2, <4>3
      <3> QED
        BY <3>1, <3>2
    <2>8. Fit(e) /\ Goes(x, e) /\ Running(e)
      <3>1. CASE Busy(x, e)
        BY <2>7, <3>1, WorkedGoes DEF Busy
      <3>2. CASE \E b \in Clients, s \in Endings : Busy(x, b) /\ e = requestStop(b, s)
        <4>1. PICK b \in Clients, s \in Endings : Busy(x, b) /\ e = requestStop(b, s)
          BY <3>2
        <4>2. Fit(b) /\ Running(b)
          BY <4>1, BusyGoes DEF Busy
        <4>3. e.run.id = b.run.id
          BY <4>1, <4>2, StopGoes DEF Fit
        <4> QED
          BY <2>7, <4>2, <4>3, WorkedGoes DEF Running
      <3> QED
        BY <2>7, <3>1, <3>2 DEF Worked
    <2>9. Fit(y) /\ Goes(e, y)
      BY <2>6, <2>8, SettleGoes
    <2> QED
      BY <2>8, <2>9, GoesOn
  <1> QED
    BY <1>1, <1>2, <1>3

----------------------------------------------------------------------------
(* The tick *)

(* A death ends the work of the action under way, a return is told.        *)
LEMMA ObserveGoes ==
    ASSUME NEW x, Fit(x)
    PROVE  Fit(observe(x)) /\ Goes(x, observe(x)) /\ (observe(x).dead <=> observe(x).dying)
  <1>1. x \in Clients
    BY DEF Fit
  <1>3. CASE x.dead /\ ~ x.dying
    <2>1. PICK q : q = [x EXCEPT !.dying = TRUE, !.asked = FALSE, !.events = <<>>]
      OBVIOUS
    <2>2. q \in Clients
      <3>1. <<>> \in Seq(Edges)
        OBVIOUS
      <3> QED
        BY <1>1, <2>1, <3>1, Zenon DEF Clients
    <2>3. /\ q.run = x.run /\ q.changed = x.changed /\ q.keys = x.keys /\ q.bari = x.bari /\ q.menu = x.menu
          /\ q.link = x.link /\ q.peer = x.peer /\ q.events = <<>> /\ q.out = x.out
          /\ (q.raw <=> x.raw) /\ (q.ready <=> x.ready) /\ (q.dead <=> x.dead) /\ (q.screen <=> x.screen)
          /\ q.dying
      BY <1>1, <2>1, Columns
    <2>4. Neat(q)
      BY <2>3 DEF Fit, Neat, Running
    <2>5. Goes(x, q)
      BY <2>3 DEF Goes, Quietly, Sends, Tells, In
    <2>6. PICK r : r = emitLifecycle(q, "death")
      OBVIOUS
    <2>7. r \in Clients /\ Alike(q, r) /\ Goes(q, r)
      BY <2>2, <2>6, Emits
    <2>8. PICK t : t = requestStop(r, "failed")
      OBVIOUS
    <2>9. Fit(t) /\ Goes(r, t) /\ Signs(r, t)
      BY <2>4, <2>7, <2>8, AlikeFit, StopGoes DEF Endings
    <2>10. Goes(x, t) /\ t.dead /\ t.dying
      <3>1. Goes(x, t)
        BY <2>5, <2>7, <2>9, GoesOn
      <3>2. t.dead /\ t.dying
        BY <1>3, <2>3, <2>7, <2>9 DEF Alike, Signs
      <3> QED
        BY <3>1, <3>2
    <2>11. PICK u : u = [t EXCEPT !.asked = TRUE]
      OBVIOUS
    <2>12. observe(x) = t \/ observe(x) = u
      BY <1>3, <2>1, <2>6, <2>8, <2>11 DEF observe
    <2>13. u \in Clients
      BY <2>9, <2>11, Zenon DEF Fit, Clients
    <2>14. Alike(t, u) /\ u.events = t.events /\ u.out = t.out
      BY <2>9, <2>11, Columns DEF Alike, Signs, Fit
    <2>15. Fit(u) /\ Goes(t, u) /\ u.dead /\ u.dying
      <3>1. Sends(t, u) /\ Tells(t, u)
        BY <2>14 DEF Sends, Tells, In, Alike, Signs
      <3> QED
        BY <2>9, <2>10, <2>13, <2>14, <3>1, AlikeFit DEF Fit, Alike, Signs
    <2> QED
      BY <2>9, <2>10, <2>12, <2>15, GoesOn
  <1>4. CASE x.dead /\ x.dying
    <2>1. PICK u : u = [x EXCEPT !.asked = TRUE]
      OBVIOUS
    <2>2. observe(x) = x \/ observe(x) = u
      BY <1>4, <2>1 DEF observe
    <2>3. u \in Clients
      BY <1>1, <2>1, Zenon DEF Clients
    <2>4. Alike(x, u) /\ u.events = x.events /\ u.out = x.out
      BY <1>1, <2>1, Columns DEF Alike, Signs
    <2>5. Fit(u) /\ Goes(x, u) /\ u.dead /\ u.dying
      <3>1. Sends(x, u) /\ Tells(x, u)
        BY <2>4 DEF Sends, Tells, In, Alike, Signs
      <3> QED
        BY <1>4, <2>3, <2>4, <3>1, AlikeFit DEF Fit, Alike, Signs
    <2>6. Goes(x, x)
      BY DEF Goes, Quietly, Sends, Tells, In
    <2> QED
      BY <1>4, <2>2, <2>5, <2>6
  <1>5. CASE ~ x.dead /\ x.dying
    <2>1. ~ x.screen
      BY <1>5 DEF Fit, Neat
    <2>2. PICK q : q = [x EXCEPT !.dying = FALSE, !.asked = FALSE]
      OBVIOUS
    <2>3. observe(x) = emitLifecycle(q, "respawned")
      BY <1>5, <2>1, <2>2 DEF observe
    <2>4. q \in Clients
      BY <1>1, <2>2, Zenon DEF Clients
    <2>5. /\ q.run = x.run /\ q.changed = x.changed /\ q.keys = x.keys /\ q.bari = x.bari /\ q.menu = x.menu
          /\ q.link = x.link /\ q.peer = x.peer /\ q.events = x.events /\ q.out = x.out
          /\ (q.raw <=> x.raw) /\ (q.ready <=> x.ready) /\ (q.dead <=> x.dead) /\ (q.screen <=> x.screen)
          /\ ~ q.dying
      BY <1>1, <2>2, Columns
    <2>6. Fit(q) /\ Goes(x, q)
      <3>1. Neat(q) /\ Rested(q)
        BY <2>5 DEF Fit, Neat, Rested, Running
      <3>2. Goes(x, q)
        BY <2>5 DEF Goes, Quietly, Sends, Tells, In
      <3> QED
        BY <2>4, <3>1, <3>2 DEF Fit
    <2>7. PICK y : y = emitLifecycle(q, "respawned")
      OBVIOUS
    <2>8. y \in Clients /\ Alike(q, y) /\ Goes(q, y)
      BY <2>4, <2>7, Emits
    <2>9. Fit(y) /\ ~ y.dead /\ ~ y.dying
      BY <1>5, <2>5, <2>6, <2>8, AlikeFit DEF Fit, Alike, Signs
    <2> QED
      BY <2>3, <2>6, <2>7, <2>8, <2>9, GoesOn
  <1>6. CASE ~ x.dead /\ ~ x.dying
    <2>1. observe(x) = x
      BY <1>6 DEF observe, Fit, Neat
    <2>2. Goes(x, x)
      BY DEF Goes, Quietly, Sends, Tells, In
    <2> QED
      BY <1>6, <2>1, <2>2
  <1> QED
    BY <1>3, <1>4, <1>5, <1>6

LEMMA MenuReadGoes ==
    ASSUME NEW x, Fit(x), NEW f \in BOOLEAN
    PROVE  /\ Fit(finishMenuRead(x, f)) /\ Goes(x, finishMenuRead(x, f))
           /\ finishMenuRead(x, f).run = x.run /\ Signs(x, finishMenuRead(x, f))
           /\ finishMenuRead(x, f).events = x.events /\ finishMenuRead(x, f).out = x.out
  <1>1. x \in Clients /\ x.menu \in {"none", "asked", "open"}
    BY DEF Fit, Clients
  <1>2. PICK m \in {"none", "asked", "open"} : m = IF f THEN "none" ELSE x.menu
    BY <1>1
  <1>3. PICK y : y = [x EXCEPT !.read = FALSE, !.menu = m]
    OBVIOUS
  <1>4. finishMenuRead(x, f) = y
    BY <1>1, <1>2, <1>3, Columns DEF finishMenuRead
  <1>5. y \in Clients
    BY <1>1, <1>3, Zenon DEF Clients
  <1>6. /\ y.run = x.run /\ y.changed = x.changed /\ y.keys = x.keys /\ y.bari = x.bari /\ y.menu = m
        /\ y.link = x.link /\ y.peer = x.peer /\ y.events = x.events /\ y.out = x.out /\ (y.raw <=> x.raw)
        /\ Signs(x, y)
    BY <1>1, <1>3, Columns DEF Signs
  <1>7. Fit(y)
    BY <1>5, <1>6 DEF Fit, Neat, Rested, Signs, Running
  <1>8. Goes(x, y)
    BY <1>2, <1>6 DEF Goes, Quietly, Sends, Tells, In, Signs
  <1> QED
    BY <1>4, <1>6, <1>7, <1>8

LEMMA TickGoes ==
    ASSUME NEW x, Fit(x), NEW y \in tick(x)
    PROVE  Fit(y) /\ Goes(x, y)
  <1>1. PICK a : a = observe(x)
    OBVIOUS
  <1>2. Fit(a) /\ Goes(x, a) /\ (a.dead <=> a.dying)
    BY <1>1, ObserveGoes
  <1>3. CASE a.dead
    <2>1. y = IF Running(a) /\ a.bari = "off" THEN terminal(a, "failed") ELSE a
      BY <1>1, <1>3 DEF tick
    <2>2. CASE Running(a) /\ a.bari = "off"
      <3>1. "swim" \notin a.run.saved /\ "use" \notin a.keys
        BY <1>2, <1>3 DEF Fit, Neat, Rested
      <3>2. Fit(y) /\ Goes(a, y)
        BY <1>2, <2>1, <2>2, <3>1, Ends DEF Fit, Endings
      <3> QED
        BY <1>2, <3>2, GoesOn
    <2> QED
      BY <1>2, <2>1, <2>2
  <1>4. CASE ~ a.dead
    <2>1. PICK b \in tickMenuRead(a) : \E d \in BecomeReady(b) : y \in Work(d)
      BY <1>1, <1>4 DEF tick
    <2>2. PICK d \in BecomeReady(b) : y \in Work(d)
      BY <2>1
    <2>3. Fit(b) /\ Goes(a, b) /\ (b.dying <=> a.dying)
      <3>1. \A f \in BOOLEAN : /\ Fit(finishMenuRead(a, f)) /\ Goes(a, finishMenuRead(a, f))
                               /\ Signs(a, finishMenuRead(a, f))
        BY <1>2, MenuReadGoes
      <3>2. b = a \/ b = finishMenuRead(a, TRUE) \/ b = finishMenuRead(a, FALSE)
        BY DEF tickMenuRead
      <3>3. Goes(a, a) /\ Signs(a, a)
        BY DEF Goes, Quietly, Sends, Tells, In, Signs
      <3> QED
        BY <1>2, <3>1, <3>2, <3>3 DEF Signs
    <2>4. Fit(d) /\ Goes(b, d) /\ ~ d.dying
      BY <1>2, <1>4, <2>3, BecomesReady
    <2>5. Fit(y) /\ Goes(d, y)
      BY <2>2, <2>4, WorkGoes
    <2>6. Goes(x, b)
      BY <1>2, <2>3, GoesOn
    <2>7. Goes(x, d)
      BY <2>4, <2>6, GoesOn
    <2> QED
      BY <2>5, <2>7, GoesOn
  <1> QED
    BY <1>3, <1>4

----------------------------------------------------------------------------
(* Requests *)

RequestTypes == {"state", "cancel", "command", "read", "world_read", "builder_open", "stop", "close_screen"}
Numbers == Ids \cup {None} \cup Int
Requests == {m \in [type : RequestTypes, conn : Nat, id : Numbers, kind : KindNames] :
                 m.type \in {"command", "cancel"} => m.id \in Ids}

(* What a request and every other step of the client keep: all that was    *)
(* sent, what is owed to whom is served, the quiet of a stopped action.    *)
Keeps(x, y) ==
    /\ y.link = x.link /\ y.peer = x.peer
    /\ Running(x) /\ x.run.stop # "no" /\ y.run.id = x.run.id => Quietly(x, y)
    /\ \A m : In(x.out, m) => In(y.out, m)
    /\ Tells(x, y)

LEMMA GoesKeeps ==
    ASSUME NEW x, NEW y, Goes(x, y)
    PROVE  Keeps(x, y)
  BY DEF Goes, Keeps, Sends, Running

LEMMA SelfKeeps ==
    ASSUME NEW x
    PROVE  Goes(x, x) /\ Keeps(x, x)
  BY DEF Goes, Quietly, Sends, Tells, In, Keeps

(* Columns that no property reads, and the menu that is closed.            *)
LEMMA AlikeKeeps ==
    ASSUME NEW x, Fit(x), NEW y \in Clients, Alike(x, y), y.events = x.events, \A m : In(x.out, m) => In(y.out, m)
    PROVE  Fit(y) /\ Keeps(x, y)
  <1>1. Fit(y)
    BY AlikeFit DEF Fit
  <1>2. Tells(x, y)
    BY DEF Tells, Alike, Signs, In
  <1>3. Keeps(x, y)
    BY <1>2 DEF Keeps, Alike, Quietly
  <1> QED
    BY <1>1, <1>3

LEMMA SaysKeeps ==
    ASSUME NEW x, Fit(x), NEW p, NEW m \in Messages
    PROVE  Fit(Send(x, p, m)) /\ Keeps(x, Send(x, p, m))
  BY Says, AlikeKeeps DEF Fit

LEMMA RejectKeeps ==
    ASSUME NEW x, Fit(x), NEW m \in Requests
    PROVE  Fit(Reject(x, m)) /\ Keeps(x, Reject(x, m))
  <1>1. PICK e : e = [type |-> "rejected", id |-> m.id]
    OBVIOUS
  <1>2. m.id \in Ids \cup {None} \cup Int
    BY DEF Requests, Numbers
  <1>3. e \in Messages
    BY <1>1, <1>2, MessageKinds DEF Rejections
  <1> QED
    BY <1>1, <1>3, SaysKeeps DEF Reject

(* A column of Baritone, outside any action only as a control leaves it.   *)
BariOnly(x, y) ==
    /\ y.run = x.run /\ y.changed = x.changed /\ y.keys = x.keys /\ y.menu = x.menu
    /\ y.link = x.link /\ y.peer = x.peer /\ y.events = x.events /\ y.out = x.out /\ Signs(x, y)

LEMMA BariSteps ==
    ASSUME NEW x \in Clients, NEW b \in {"off", "on", "ending"}, NEW w \in BOOLEAN, NEW y,
           y = [x EXCEPT !.bari = b, !.raw = w]
    PROVE  y \in Clients /\ y.bari = b /\ y.raw = w /\ BariOnly(x, y)
  <1>1. y \in Clients
    BY Zenon DEF Clients
  <1>2. y.bari = b /\ y.raw = w /\ BariOnly(x, y)
    BY Columns DEF Signs, BariOnly
  <1> QED
    BY <1>1, <1>2

LEMMA ControlKeeps ==
    ASSUME NEW x, Fit(x), NEW y \in primitive(x) \cup builder_open(x) \cup worldRead(x) \cup close_screen(x)
    PROVE  Fit(y) /\ Keeps(x, y)
  <1>1. x \in Clients /\ x.bari \in {"off", "on", "ending"} /\ x.raw \in BOOLEAN
        /\ x.menu \in {"none", "asked", "open"}
    BY DEF Fit, Clients
  <1>2. CASE y = x
    BY <1>2, SelfKeeps
  <1>3. CASE y = Alone(x)
    <2>1. PICK b \in {"off", "on", "ending"} : b = IF x.bari = "off" THEN "off" ELSE "ending"
      OBVIOUS
    <2>2. y = [x EXCEPT !.bari = b]
      BY <1>3, <2>1 DEF Alone
    <2>3. y \in Clients /\ y.bari = b /\ (y.raw <=> x.raw) /\ BariOnly(x, y)
      <3>1. y \in Clients
        BY <1>1, <2>2, Written
      <3> QED
        BY <1>1, <2>2, <3>1, Columns DEF Signs, BariOnly
    <2>4. Fit(y)
      BY <2>1, <2>3 DEF Fit, Neat, Rested, Signs, Running, BariOnly
    <2>5. Keeps(x, y)
      BY <2>1, <2>3 DEF Keeps, Quietly, Tells, In, Signs, BariOnly
    <2> QED
      BY <2>4, <2>5
  <1>4. CASE y = [Bari(x) EXCEPT !.raw = TRUE] /\ ~ Running(x)
    <2>1. y = [x EXCEPT !.bari = "on", !.raw = TRUE]
      BY <1>1, <1>4, Columns DEF Bari
    <2>2. y \in Clients /\ y.bari = "on" /\ y.raw = TRUE /\ BariOnly(x, y)
      <3>1. PICK b \in {"off", "on", "ending"}, w \in BOOLEAN : b = "on" /\ w = TRUE
        OBVIOUS
      <3>2. y = [x EXCEPT !.bari = b, !.raw = w]
        BY <2>1, <3>1
      <3> QED
        BY <1>1, <3>1, <3>2, BariSteps
    <2>3. Fit(y)
      BY <1>4, <2>2 DEF Fit, Neat, Rested, Signs, Running, BariOnly
    <2>4. Keeps(x, y)
      BY <1>4, <2>2 DEF Keeps, Tells, In, Signs, BariOnly
    <2> QED
      BY <2>3, <2>4
  <1>5. CASE y \in close_screen(x)
    <2>1. PICK m \in {"none", "asked", "open"} : m = IF x.menu = "open" THEN "none" ELSE x.menu
      BY <1>1
    <2>2. y = [x EXCEPT !.menu = m]
      BY <1>5, <2>1 DEF close_screen
    <2>3. y \in Clients
      BY <1>1, <2>2, Written
    <2>4. /\ y.run = x.run /\ y.changed = x.changed /\ y.keys = x.keys /\ y.menu = m /\ y.bari = x.bari
          /\ (y.raw <=> x.raw)
          /\ y.link = x.link /\ y.peer = x.peer /\ y.events = x.events /\ y.out = x.out /\ Signs(x, y)
      BY <1>1, <2>2, Columns DEF Signs
    <2>5. Fit(y)
      BY <2>3, <2>4 DEF Fit, Neat, Rested, Signs, Running
    <2>6. Keeps(x, y)
      BY <2>1, <2>4 DEF Keeps, Quietly, Tells, In, Signs
    <2> QED
      BY <2>5, <2>6
  <1> QED
    BY <1>2, <1>3, <1>4, <1>5 DEF primitive, builder_open, worldRead

LEMMA ReadKeeps ==
    ASSUME NEW x, Fit(x), NEW y \in container_read(x)
    PROVE  Fit(y) /\ Keeps(x, y)
  <1>1. CASE Running(x) \/ x.read
    <2>1. y = x
      BY <1>1 DEF container_read
    <2> QED
      BY <2>1, SelfKeeps
  <1>2. CASE ~ Running(x) /\ ~ x.read
    <2>1. PICK r : r = [x EXCEPT !.read = TRUE]
      OBVIOUS
    <2>2. x \in Clients
      BY DEF Fit
    <2>3. r \in Clients
      BY <2>1, <2>2, Zenon DEF Clients
    <2>4. Alike(x, r) /\ r.events = x.events /\ r.out = x.out
      BY <2>1, <2>2, Columns DEF Alike, Signs
    <2>5. Fit(r) /\ Keeps(x, r)
      BY <2>3, <2>4, AlikeKeeps
    <2>6. CASE y = finishMenuRead(r, FALSE)
      <3>1. /\ Fit(y) /\ Goes(r, y) /\ y.run = r.run /\ Signs(r, y)
            /\ y.events = r.events /\ y.out = r.out
        BY <2>5, <2>6, MenuReadGoes
      <3>2. Keeps(x, y)
        BY <1>2, <2>4, <3>1 DEF Keeps, Alike, Goes, Tells, In, Signs
      <3> QED
        BY <3>1, <3>2
    <2>7. CASE y = [r EXCEPT !.menu = "asked"]
      <3>1. y \in Clients
        BY <2>3, <2>7, Written
      <3>2. /\ y.run = r.run /\ y.changed = r.changed /\ y.keys = r.keys /\ y.bari = r.bari
            /\ (y.raw <=> r.raw)
            /\ y.link = r.link /\ y.peer = r.peer /\ y.events = r.events /\ y.out = r.out /\ Signs(r, y)
        BY <2>3, <2>7, Columns DEF Signs
      <3>3. Fit(y)
        BY <2>5, <3>1, <3>2 DEF Fit, Neat, Rested, Signs, Running
      <3>4. Keeps(x, y)
        BY <1>2, <2>4, <3>2 DEF Keeps, Alike, Tells, In, Signs
      <3> QED
        BY <3>3, <3>4
    <2> QED
      BY <1>2, <2>1, <2>6, <2>7 DEF container_read, openMenu
  <1> QED
    BY <1>1, <1>2

LEMMA CancelKeeps ==
    ASSUME NEW x, Fit(x), NEW m \in Requests, NEW y \in cancelAction(x, m)
    PROVE  Fit(y) /\ Keeps(x, y)
  <1>1. Fit(requestStop(x, "canceled")) /\ Keeps(x, requestStop(x, "canceled"))
    BY StopGoes, GoesKeeps DEF Fit, Endings
  <1>2. Fit(Reject(x, m)) /\ Keeps(x, Reject(x, m))
    BY RejectKeeps
  <1> QED
    BY <1>1, <1>2 DEF cancelAction

(* A setting put aside at the start.                                       *)
LEMMA SaveFit ==
    ASSUME NEW x, Fit(x), Running(x), NEW s \in Settings \ {"swim"}
    PROVE  /\ Fit(Save(x, s)) /\ Running(Save(x, s))
           /\ Save(x, s).link = x.link /\ Save(x, s).peer = x.peer /\ Save(x, s).events = x.events
           /\ Save(x, s).out = x.out /\ Signs(x, Save(x, s))
           /\ Save(x, s).run.id = x.run.id /\ Save(x, s).run.peer = x.run.peer
           /\ Save(x, s).run.kind = x.run.kind /\ Save(x, s).run.stop = x.run.stop
  <1>1. x \in Clients /\ x.changed = x.run.saved /\ x.run.saved \in SUBSET Settings
    BY DEF Fit, Neat, Clients, Runs
  <1>2. PICK T \in SUBSET Settings : T = x.run.saved \cup {s}
    BY <1>1
  <1>3. PICK z : z = [x EXCEPT !.run.saved = T, !.changed = T]
    OBVIOUS
  <1>4. Save(x, s) = z
    BY <1>1, <1>2, <1>3 DEF Save
  <1>5. z \in Clients
    BY <1>1, <1>3, SavedTyped
  <1>6. /\ z.run.saved = T /\ z.changed = T /\ z.run.id = x.run.id /\ z.run.stop = x.run.stop
        /\ z.run.kind = x.run.kind /\ z.run.peer = x.run.peer
        /\ z.keys = x.keys /\ z.bari = x.bari /\ (z.raw <=> x.raw)
        /\ z.link = x.link /\ z.peer = x.peer /\ z.events = x.events /\ z.out = x.out
    BY <1>1, <1>3, Columns
  <1>7. Signs(x, z)
    BY <1>1, <1>3, Columns DEF Signs
  <1>8. Fit(z) /\ Running(z)
    BY <1>2, <1>5, <1>6, <1>7 DEF Fit, Neat, Rested, Signs, Running
  <1> QED
    BY <1>4, <1>6, <1>7, <1>8

(* A start takes a client that is free.                                    *)
LEMMA StartKeeps ==
    ASSUME NEW x, Fit(x), NEW m \in Requests, m.type = "command", NEW y \in start(x, m)
    PROVE  Fit(y) /\ Keeps(x, y)
  <1>1. CASE y = Reject(x, m)
    BY <1>1, RejectKeeps
  <1>2. CASE y # Reject(x, m)
    <2>1. ~ Running(x) /\ x \in Clients
      BY <1>2 DEF start, Fit
    <2>2. m.id \in Ids /\ m.kind \in KindNames /\ m.conn \in Nat /\ m.id # None
      BY CallsAssumption DEF Requests
    <2>3. PICK a : a = [NoRun EXCEPT !.id = m.id, !.kind = m.kind, !.peer = m.conn]
      OBVIOUS
    <2>4. a \in Runs
      <3>1. NoRun \in Runs
        BY DEF NoRun, Runs, KindNames
      <3>2. m.id \in Ids \cup {None}
        BY <2>2
      <3> HIDE DEF NoRun
      <3> QED
        BY <2>2, <2>3, <3>1, <3>2, Zenon DEF Runs
    <2>5. a.id = m.id /\ a.stop = "no" /\ a.saved = {}
      BY <2>3 DEF NoRun
    <2>6. PICK f : f = [x EXCEPT !.used = x.used \cup {m.id}, !.run = a]
      OBVIOUS
    <2>7. f \in Clients
      <3>1. x.used \cup {m.id} \in SUBSET Ids
        BY <2>1, <2>2 DEF Clients
      <3> QED
        BY <2>1, <2>4, <2>6, <3>1, Zenon DEF Clients
    <2>8. /\ f.run = a /\ f.changed = x.changed /\ f.keys = x.keys /\ f.bari = x.bari /\ (f.raw <=> x.raw)
          /\ f.link = x.link /\ f.peer = x.peer /\ f.events = x.events /\ f.out = x.out /\ Signs(x, f)
      BY <2>1, <2>6, Columns DEF Signs
    <2>9. Fit(f) /\ Running(f)
      BY <2>1, <2>2, <2>5, <2>7, <2>8 DEF Fit, Neat, Rested, Signs, Running
    <2> DEFINE Begun(z) == /\ Fit(z) /\ Running(z) /\ z.run.stop = "no"
                           /\ z.link = x.link /\ z.peer = x.peer /\ z.events = x.events /\ z.out = x.out
                           /\ Signs(x, z)
    <2>10. Begun(f)
      BY <2>5, <2>8, <2>9
    <2>11. ASSUME NEW z, Begun(z), NEW s \in Settings \ {"swim"} PROVE Begun(Save(z, s))
      BY <2>11, SaveFit DEF Signs
    <2>12. PICK g : g = beginAttention(f)
      OBVIOUS
    <2>13. Begun(g)
      BY <2>10, <2>11, <2>12 DEF beginAttention, Settings
    <2>14. PICK own : own = IF m.kind = "follow" THEN Save(g, "radius")
                            ELSE IF m.kind = "build" THEN Save(g, "inventory") ELSE g
      OBVIOUS
    <2>15. Begun(own)
      BY <2>11, <2>13, <2>14 DEF Settings
    <2>16. y = g \/ y = Bari(own) \/ y = requestStop(own, "failed")
      BY <1>2, <2>1, <2>3, <2>6, <2>12, <2>14 DEF start
    <2>17. ASSUME NEW z, Begun(z) PROVE Fit(z) /\ Keeps(x, z)
      BY <2>1, <2>17 DEF Keeps, Tells, In, Signs
    <2>18. Begun(Bari(own))
      <3>1. own \in Clients
        BY <2>15 DEF Fit
      <3>2. PICK z : z = [own EXCEPT !.bari = "on"]
        OBVIOUS
      <3>3. z \in Clients
        BY <3>1, <3>2, Written
      <3>4. /\ z.run = own.run /\ z.changed = own.changed /\ z.keys = own.keys
            /\ z.link = own.link /\ z.peer = own.peer /\ z.events = own.events /\ z.out = own.out /\ Signs(own, z)
        BY <3>1, <3>2, Columns DEF Signs
      <3>5. Begun(z)
        BY <2>15, <3>3, <3>4 DEF Fit, Neat, Rested, Signs, Running
      <3> QED
        BY <3>2, <3>5 DEF Bari
    <2>19. Fit(requestStop(own, "failed")) /\ Keeps(x, requestStop(own, "failed"))
      <3>1. Fit(requestStop(own, "failed")) /\ Goes(own, requestStop(own, "failed"))
        BY <2>15, StopGoes DEF Fit, Endings
      <3>2. Keeps(x, requestStop(own, "failed"))
        BY <2>1, <2>15, <3>1 DEF Goes, Sends, Keeps, Tells, In, Signs
      <3> QED
        BY <3>1, <3>2
    <2> QED
      BY <2>13, <2>16, <2>17, <2>18, <2>19
  <1> QED
    BY <1>1, <1>2

LEMMA HandleKeeps ==
    ASSUME NEW x, Fit(x), NEW m \in Requests, NEW y \in handle(x, m)
    PROVE  Fit(y) /\ Keeps(x, y)
  <1>1. CASE y = x
    BY <1>1, SelfKeeps
  <1>2. CASE m.type = "state" /\ y # x
    <2>1. PICK e : e = [type |-> "state", id |-> m.id, says |-> State(x)]
      OBVIOUS
    <2>2. y = Send(x, m.conn, e)
      BY <1>2, <2>1 DEF handle
    <2>3. State(x) \in [active : Ids \cup {None}, still : BOOLEAN]
      BY DEF State, Fit, Clients, Runs
    <2>4. m.id \in Ids \cup {None} \cup Int
      BY DEF Requests, Numbers
    <2>5. e \in Messages
      BY <2>1, <2>3, <2>4, MessageKinds DEF Replies
    <2> QED
      BY <2>2, <2>5, SaysKeeps
  <1>3. CASE m.type = "cancel" /\ y # x
    BY <1>3, CancelKeeps DEF handle
  <1>4. CASE m.type = "command" /\ y # x
    <2>1. y \in start(x, m) \/ y = Reject(x, m)
      BY <1>4 DEF handle
    <2> QED
      BY <1>4, <2>1, StartKeeps, RejectKeeps
  <1>5. CASE m.type = "read" /\ y # x
    BY <1>5, ReadKeeps DEF handle
  <1>6. CASE m.type \in {"world_read", "builder_open", "stop", "close_screen"} /\ y # x
    <2>1. y \in primitive(x) \cup builder_open(x) \cup worldRead(x) \cup close_screen(x)
      BY <1>6 DEF handle
    <2> QED
      BY <2>1, ControlKeeps
  <1>7. m.type \in RequestTypes
    BY DEF Requests
  <1> QED
    BY <1>1, <1>2, <1>3, <1>4, <1>5, <1>6, <1>7 DEF RequestTypes

LEMMA LostGoes ==
    ASSUME NEW x, Fit(x), NEW p
    PROVE  Fit(handle_lost(x, p)) /\ Goes(x, handle_lost(x, p))
  BY StopGoes, SelfKeeps DEF handle_lost, Fit, Endings

----------------------------------------------------------------------------
(* What the game tells the client *)

LEMMA MutationGoes ==
    ASSUME NEW x, Fit(x), NEW y \in allowVerticalMutation(x)
    PROVE  Fit(y) /\ Goes(x, y)
  <1>1. CASE y = x
    BY <1>1, SelfKeeps
  <1>2. CASE y = Failed(x)
    BY <1>2, StopGoes DEF Failed, Fit, Endings
  <1>3. CASE x.run.stop = "no" /\ y = [x EXCEPT !.run.touched = @ + 1]
    <2>1. x \in Clients /\ x.run \in Runs /\ x.run.touched \in Nat
      BY DEF Fit, Clients, Runs
    <2>2. PICK n \in Nat : n = x.run.touched + 1
      BY <2>1
    <2>3. y = [x EXCEPT !.run.touched = n]
      BY <1>3, <2>2
    <2>4. y \in Clients
      <3>1. [x.run EXCEPT !.touched = n] \in Runs
        BY <2>1, Zenon DEF Runs
      <3> QED
        BY <2>1, <2>3, <3>1, Zenon DEF Clients
    <2>5. /\ Framed(x, y) /\ Signs(x, y) /\ y.changed = x.changed /\ y.keys = x.keys /\ y.bari = x.bari
          /\ y.run.saved = x.run.saved /\ (y.raw <=> x.raw)
      BY <2>1, <2>3, Columns DEF Framed, Signs
    <2>6. Fit(y)
      BY <2>4, <2>5 DEF Fit, Neat, Rested, Framed, Signs, Running
    <2>7. Goes(x, y)
      BY <1>3, <2>5 DEF Goes, Sends, Tells, In, Framed, Signs, Running
    <2> QED
      BY <2>6, <2>7
  <1> QED
    BY <1>1, <1>2, <1>3 DEF allowVerticalMutation

LEMMA SignGoes ==
    ASSUME NEW x, Fit(x), NEW y \in {observeBlockUpdate(x), observePickup(x)}
    PROVE  Fit(y) /\ Goes(x, y)
  <1>1. x \in Clients /\ x.run \in Runs /\ x.run.sign \in BOOLEAN
    BY DEF Fit, Clients, Runs
  <1>2. PICK b \in BOOLEAN : y = [x EXCEPT !.run.sign = b]
    BY <1>1 DEF observeBlockUpdate, observePickup
  <1>3. y \in Clients
    <2>1. [x.run EXCEPT !.sign = b] \in Runs
      BY <1>1, Zenon DEF Runs
    <2> QED
      BY <1>1, <1>2, <2>1, Zenon DEF Clients
  <1>4. /\ Framed(x, y) /\ Signs(x, y) /\ y.changed = x.changed /\ y.keys = x.keys /\ y.bari = x.bari
        /\ y.run.saved = x.run.saved /\ y.run.touched = x.run.touched /\ y.menu = x.menu
    BY <1>1, <1>2, Columns DEF Framed, Signs
  <1>5. y.raw <=> x.raw
    BY <1>1, <1>2, Columns
  <1>6. Fit(y)
    BY <1>3, <1>4, <1>5 DEF Fit, Neat, Rested, Framed, Signs, Running
  <1>7. Goes(x, y)
    BY <1>4 DEF Goes, Quietly, Sends, Tells, In, Framed, Signs, Running
  <1> QED
    BY <1>6, <1>7

LEMMA JoinGoes ==
    ASSUME NEW x, Fit(x)
    PROVE  Fit(joinWorld(x)) /\ Goes(x, joinWorld(x))
  <1>1. x \in Clients
    BY DEF Fit
  <1>2. PICK s \in Seq(Edges) : s = <<>>
    <2>1. <<>> \in Seq(Edges)
      OBVIOUS
    <2> QED
      BY <2>1
  <1>3. PICK y : y = [x EXCEPT !.inWorld = TRUE, !.ready = FALSE, !.dead = FALSE, !.screen = FALSE,
                               !.dying = FALSE, !.asked = FALSE, !.events = s, !.bari = "off",
                               !.raw = FALSE, !.menu = "none"]
    OBVIOUS
  <1>4. joinWorld(x) = y
    BY <1>2, <1>3 DEF joinWorld
  <1>5. y \in Clients
    BY <1>1, <1>2, <1>3, ZenonT(40) DEF Clients
  <1>6. /\ y.run = x.run /\ y.changed = x.changed /\ y.keys = x.keys /\ y.bari = "off" /\ y.menu = "none"
        /\ y.link = x.link /\ y.peer = x.peer /\ y.events = s /\ y.out = x.out
        /\ y.dead = FALSE /\ y.screen = FALSE /\ y.dying = FALSE
    BY <1>1, <1>3, Columns
  <1>7. Fit(y)
    BY <1>5, <1>6 DEF Fit, Neat, Rested, Running
  <1>8. Goes(x, y)
    BY <1>2, <1>6 DEF Goes, Quietly, Sends, Tells, In
  <1> QED
    BY <1>4, <1>7, <1>8

LEMMA LeaveGoes ==
    ASSUME NEW x, Fit(x)
    PROVE  Fit(leaveWorld(x)) /\ Goes(x, leaveWorld(x))
  <1>1. PICK a : a = IF Running(x) THEN requestStop(x, "failed") ELSE x
    OBVIOUS
  <1>2. Fit(a) /\ Goes(x, a)
    BY <1>1, StopGoes, SelfKeeps DEF Fit, Endings
  <1>3. PICK r : r = Restore(a, {"attention", "inventory"})
    OBVIOUS
  <1>4. Fit(r) /\ Goes(a, r)
    BY <1>2, <1>3, PutsBackGoes DEF Fit
  <1>5. PICK q : q = [r EXCEPT !.inWorld = FALSE, !.ready = FALSE, !.read = FALSE, !.bari = "off",
                               !.raw = FALSE, !.menu = "none"]
    OBVIOUS
  <1>6. leaveWorld(x) = emitLifecycle(q, "world_disconnected")
    BY <1>1, <1>3, <1>5 DEF leaveWorld
  <1>7. q \in Clients
    BY <1>4, <1>5, ZenonT(40) DEF Fit, Clients
  <1>8. /\ q.run = r.run /\ q.changed = r.changed /\ q.keys = r.keys /\ q.bari = "off" /\ q.menu = "none"
        /\ q.link = r.link /\ q.peer = r.peer /\ q.events = r.events /\ q.out = r.out
        /\ q.ready = FALSE /\ (q.dead <=> r.dead) /\ (q.screen <=> r.screen) /\ (q.dying <=> r.dying)
    BY <1>4, <1>5, Columns DEF Fit
  <1>9. Neat(q) /\ Rested(q)
    BY <1>4, <1>8 DEF Fit, Neat, Rested, Running
  <1>10. Goes(r, q)
    BY <1>8 DEF Goes, Quietly, Sends, Tells, In
  <1>11. PICK y : y = emitLifecycle(q, "world_disconnected")
    OBVIOUS
  <1>12. y \in Clients /\ Alike(q, y) /\ Goes(q, y)
    BY <1>7, <1>11, Emits
  <1>13. Fit(y)
    BY <1>9, <1>12, AlikeFit DEF Fit
  <1>14. Goes(x, r)
    BY <1>2, <1>4, GoesOn
  <1>15. Goes(x, q)
    BY <1>10, <1>14, GoesOn
  <1> QED
    BY <1>6, <1>11, <1>12, <1>13, <1>15, GoesOn

(* The signs of a player, the deadline, the menu and Baritone.             *)
LEMMA GameGoes ==
    ASSUME NEW x, Fit(x), NEW y,
           \/ y = [x EXCEPT !.run.late = TRUE]
           \/ y = [x EXCEPT !.bari = "off", !.raw = FALSE]
           \/ \E s \in {"open", "none"} : y = [x EXCEPT !.menu = s]
           \/ \E b \in BOOLEAN : y = [x EXCEPT !.dead = b, !.screen = b]
    PROVE  Fit(y) /\ Goes(x, y)
  <1>1. x \in Clients /\ x.run \in Runs
    BY DEF Fit, Clients
  <1>2. CASE y = [x EXCEPT !.run.late = TRUE]
    <2>1. y \in Clients
      <3>1. [x.run EXCEPT !.late = TRUE] \in Runs
        BY <1>1, Zenon DEF Runs
      <3> QED
        BY <1>1, <1>2, <3>1, Zenon DEF Clients
    <2>2. /\ Framed(x, y) /\ Signs(x, y) /\ y.changed = x.changed /\ y.keys = x.keys /\ y.bari = x.bari
          /\ y.run.saved = x.run.saved /\ y.run.touched = x.run.touched /\ y.menu = x.menu
      BY <1>1, <1>2, Columns DEF Framed, Signs
    <2>3. y.raw <=> x.raw
      BY <1>1, <1>2, Columns
    <2>4. Fit(y)
      BY <2>1, <2>2, <2>3 DEF Fit, Neat, Rested, Framed, Signs, Running
    <2>5. Goes(x, y)
      BY <2>2, ZenonT(40) DEF Goes, Quietly, Sends, Tells, In, Framed, Signs, Running
    <2> QED
      BY <2>4, <2>5
  <1>3. CASE y = [x EXCEPT !.bari = "off", !.raw = FALSE]
    <2>1. PICK b \in {"off", "on", "ending"}, w \in BOOLEAN : b = "off" /\ w = FALSE
      OBVIOUS
    <2>2. y = [x EXCEPT !.bari = b, !.raw = w]
      BY <1>3, <2>1
    <2>3. y \in Clients /\ y.bari = "off" /\ BariOnly(x, y)
      BY <1>1, <2>1, <2>2, BariSteps
    <2>4. Fit(y)
      BY <2>3 DEF Fit, Neat, Rested, BariOnly, Signs, Running
    <2>5. Goes(x, y)
      BY <2>3 DEF Goes, Quietly, Sends, Tells, In, BariOnly, Signs, Running
    <2> QED
      BY <2>4, <2>5
  <1>4. CASE \E s \in {"open", "none"} : y = [x EXCEPT !.menu = s]
    <2>1. PICK s \in {"open", "none"} : y = [x EXCEPT !.menu = s]
      BY <1>4
    <2>2. y \in Clients
      BY <1>1, <2>1, Written
    <2>3. /\ y.run = x.run /\ y.changed = x.changed /\ y.keys = x.keys /\ y.menu = s /\ y.bari = x.bari
          /\ (y.raw <=> x.raw)
          /\ y.link = x.link /\ y.peer = x.peer /\ y.events = x.events /\ y.out = x.out /\ Signs(x, y)
      BY <1>1, <2>1, Columns DEF Signs
    <2>4. Fit(y)
      BY <2>2, <2>3 DEF Fit, Neat, Rested, Signs, Running
    <2>5. Goes(x, y)
      BY <2>3 DEF Goes, Quietly, Sends, Tells, In, Signs, Running
    <2> QED
      BY <2>4, <2>5
  <1>5. CASE \E b \in BOOLEAN : y = [x EXCEPT !.dead = b, !.screen = b]
    <2>1. PICK b \in BOOLEAN : y = [x EXCEPT !.dead = b, !.screen = b]
      BY <1>5
    <2>2. y \in Clients
      BY <1>1, <2>1, Zenon DEF Clients
    <2>3. /\ y.run = x.run /\ y.changed = x.changed /\ y.keys = x.keys /\ y.menu = x.menu /\ y.bari = x.bari
          /\ (y.raw <=> x.raw) /\ (y.ready <=> x.ready) /\ (y.dying <=> x.dying) /\ y.dead = b /\ y.screen = b
          /\ y.link = x.link /\ y.peer = x.peer /\ y.events = x.events /\ y.out = x.out
      BY <1>1, <2>1, Columns
    <2>4. Fit(y)
      BY <2>2, <2>3 DEF Fit, Neat, Rested, Running
    <2>5. Goes(x, y)
      BY <2>3 DEF Goes, Quietly, Sends, Tells, In, Running
    <2> QED
      BY <2>4, <2>5
  <1> QED
    BY <1>2, <1>3, <1>4, <1>5

(* The link and the connection served.                                     *)
Linked(x, l, p, s) == [x EXCEPT !.link = l, !.peer = p, !.out = s]
SameWork(x, y) == /\ y.run = x.run /\ y.keys = x.keys /\ y.bari = x.bari /\ y.menu = x.menu
                  /\ y.events = x.events /\ Signs(x, y)

LEMMA LinkFit ==
    ASSUME NEW x, Fit(x), NEW l \in Nat, NEW p \in Nat, NEW s \in Seq(Messages)
    PROVE  Fit(Linked(x, l, p, s)) /\ SameWork(x, Linked(x, l, p, s))
  <1> DEFINE y == Linked(x, l, p, s)
  <1>1. x \in Clients
    BY DEF Fit
  <1>2. y \in Clients
    BY <1>1, Zenon DEF Clients, Linked
  <1>3. /\ y.run = x.run /\ y.keys = x.keys /\ y.bari = x.bari /\ y.menu = x.menu
        /\ y.events = x.events /\ Signs(x, y) /\ y.changed = x.changed /\ (y.raw <=> x.raw)
    BY <1>1, Columns DEF Signs, Linked
  <1>4. Fit(y)
    BY <1>1, <1>2, <1>3 DEF Fit, Neat, Rested, Signs, Running
  <1> QED
    BY <1>3, <1>4 DEF SameWork

LEMMA LinkColumns ==
    ASSUME NEW x \in Clients, NEW l, NEW p, NEW s
    PROVE  /\ Linked(x, l, p, s).link = l /\ Linked(x, l, p, s).peer = p /\ Linked(x, l, p, s).out = s
           /\ Linked(x, l, p, s).events = x.events
           /\ Linked(x, l, p, s).ready <=> x.ready
  BY Columns DEF Linked

(* Taking a message out of the stream.                                     *)
LEMMA InTail ==
    ASSUME NEW S, NEW s \in Seq(S), s # <<>>
    PROVE  Tail(s) \in Seq(S) /\ Head(s) \in S /\ \A m : In(s, m) <=> m = Head(s) \/ In(Tail(s), m)
  <1>1. Tail(s) \in Seq(S) /\ Head(s) \in S /\ Head(s) = s[1] /\ Len(s) \in Nat /\ Len(s) # 0
        /\ Len(Tail(s)) = Len(s) - 1
    OBVIOUS
  <1>2. DOMAIN s = 1..Len(s) /\ DOMAIN Tail(s) = 1..(Len(s) - 1)
    BY <1>1
  <1>3. \A j \in 1..(Len(s) - 1) : Tail(s)[j] = s[j + 1]
    BY <1>1
  <1>4. ASSUME NEW m, In(s, m) PROVE m = Head(s) \/ In(Tail(s), m)
    <2>1. PICK j \in 1..Len(s) : s[j] = m
      BY <1>2, <1>4 DEF In
    <2>2. CASE j = 1
      BY <1>1, <2>1, <2>2
    <2>3. CASE j # 1
      <3>1. j - 1 \in 1..(Len(s) - 1) /\ (j - 1) + 1 = j
        BY <1>1, <2>3
      <3>2. Tail(s)[j - 1] = m
        BY <1>3, <2>1, <3>1
      <3> QED
        BY <1>2, <3>1, <3>2 DEF In
    <2> QED
      BY <2>2, <2>3
  <1>5. ASSUME NEW m, In(Tail(s), m) PROVE In(s, m)
    <2>1. PICK j \in 1..(Len(s) - 1) : Tail(s)[j] = m
      BY <1>2, <1>5 DEF In
    <2>2. j + 1 \in 1..Len(s) /\ s[j + 1] = m
      BY <1>1, <1>3, <2>1
    <2> QED
      BY <1>2, <2>2 DEF In
  <1>6. In(s, Head(s))
    <2>1. 1 \in 1..Len(s)
      BY <1>1
    <2> QED
      BY <1>1, <1>2, <2>1 DEF In
  <1> QED
    BY <1>1, <1>4, <1>5, <1>6

----------------------------------------------------------------------------
(* The types of the whole *)

Notices == [type : {"replay", "lost"}, conn : Nat]
Pys == [sock : Nat, broken : BOOLEAN, conns : Nat, ready : BOOLEAN, active : Ids \cup {None}, unknown : BOOLEAN,
        at : [Ids -> {"new", "begun", "ready", "send", "waiting", "done"}],
        how : [Ids -> Endings \cup {"none", "transport"}], got : SUBSET Messages,
        ask : {"no", "confirm", "interrupt"}, asks : Nat, since : SUBSET Ids, late : SUBSET Ids,
        early : SUBSET Ids]
Fitting ==
    /\ Fit(c)
    /\ wire \in Seq(Requests) /\ tasks \in Seq(Requests \cup Notices)
    /\ py \in Pys /\ load \in [Ids -> KindNames]

LEMMA PyColumns ==
    ASSUME NEW p \in Pys
    PROVE  DOMAIN p = {"sock", "broken", "conns", "ready", "active", "unknown", "at", "how", "got", "ask",
                       "asks", "since", "late", "early"}
  BY DEF Pys

LEMMA InitFits == Init => Fitting
  <1> SUFFICES ASSUME Init PROVE Fitting
    OBVIOUS
  <1>1. c \in Clients
    <2>1. NoRun \in Runs
      BY DEF NoRun, Runs, KindNames
    <2>2. <<>> \in Seq(Edges) /\ <<>> \in Seq(Messages)
      OBVIOUS
    <2> HIDE DEF NoRun
    <2> QED
      BY <2>1, <2>2 DEF Init, StartClient, Clients
  <1>2. Neat(c) /\ Rested(c)
    BY DEF Init, StartClient, NoRun, Neat, Rested, Running
  <1>3. wire \in Seq(Requests) /\ tasks \in Seq(Requests \cup Notices)
    BY DEF Init
  <1>4. py \in Pys
    BY DEF Init, StartBody, Pys
  <1>5. load \in [Ids -> KindNames]
    BY CallsAssumption DEF Init, KindNames
  <1> QED
    BY <1>1, <1>2, <1>3, <1>4, <1>5 DEF Fitting, Fit

(* A request is one whatever its connection, and sending keeps the wire.   *)
LEMMA SendsRequest ==
    ASSUME wire \in Seq(Requests), load \in [Ids -> KindNames], NEW p \in Pys,
           NEW t \in RequestTypes, NEW i \in Numbers, t \in {"command", "cancel"} => i \in Ids
    PROVE  send(p, Request(t, i)) \in Seq(Requests)
  <1>1. PICK k \in KindNames : k = IF i \in Ids THEN load[i] ELSE "none"
    BY DEF KindNames
  <1>2. p.sock \in Nat
    BY DEF Pys
  <1>3. PICK m : m = [type |-> t, conn |-> p.sock, id |-> i, kind |-> k]
    OBVIOUS
  <1>4. m \in Requests
    BY <1>2, <1>3 DEF Requests
  <1>5. [Request(t, i) EXCEPT !.conn = p.sock] = m
    BY <1>1, <1>3 DEF Request
  <1>6. Append(wire, m) \in Seq(Requests)
    BY <1>4
  <1> QED
    BY <1>5, <1>6 DEF send

(* The connection that Python has.                                         *)
SameSock(p, q) == q.sock = p.sock /\ q.conns = p.conns

LEMMA EndTyped ==
    ASSUME NEW p \in Pys, NEW i \in Ids, NEW h \in Endings \cup {"transport"}
    PROVE  Finish(p, i, h) \in Pys /\ SameSock(p, Finish(p, i, h))
  <1>1. PICK q : q = [p EXCEPT !.at[i] = "done", !.how[i] = h]
    OBVIOUS
  <1>2. q \in Pys
    <2>1. [p.at EXCEPT ![i] = "done"] \in [Ids -> {"new", "begun", "ready", "send", "waiting", "done"}]
      BY DEF Pys
    <2>2. [p.how EXCEPT ![i] = h] \in [Ids -> Endings \cup {"none", "transport"}]
      BY DEF Pys
    <2> QED
      BY <1>1, <2>1, <2>2, Zenon DEF Pys
  <1>3. [q EXCEPT !.unknown = TRUE] \in Pys
    BY <1>2, Zenon DEF Pys
  <1>4. [q EXCEPT !.active = None] \in Pys
    <2>1. None \in Ids \cup {None}
      OBVIOUS
    <2> QED
      BY <1>2, <2>1, Zenon DEF Pys
  <1>5. q.sock = p.sock /\ q.conns = p.conns
    BY <1>1, PyColumns
  <1>6. /\ [q EXCEPT !.unknown = TRUE].sock = q.sock /\ [q EXCEPT !.unknown = TRUE].conns = q.conns
        /\ [q EXCEPT !.active = None].sock = q.sock /\ [q EXCEPT !.active = None].conns = q.conns
    BY <1>2, PyColumns
  <1> QED
    BY <1>1, <1>2, <1>3, <1>4, <1>5, <1>6 DEF Finish, SameSock

LEMMA ConnectTyped ==
    ASSUME NEW p \in Pys
    PROVE  /\ connect(p) \in Pys
           /\ connect(p) # p => connect(p).sock = p.conns + 1 /\ connect(p).conns = p.conns + 1
           /\ connect(p).sock # 0
           /\ p.sock # 0 => connect(p) = p
  <1>1. p.conns \in Nat /\ p.conns + 1 \in Nat /\ p.conns + 1 # 0
    BY DEF Pys
  <1>2. PICK n \in Nat : n = p.conns + 1
    BY <1>1
  <1>3. PICK q : q = [p EXCEPT !.sock = n, !.conns = n, !.broken = FALSE, !.got = {}]
    OBVIOUS
  <1>4. q \in Pys
    <2>1. {} \in SUBSET Messages
      OBVIOUS
    <2> QED
      BY <1>3, <2>1, Zenon DEF Pys
  <1>5. q.sock = n /\ q.conns = n
    BY <1>3, PyColumns
  <1>6. connect(p) = IF p.sock # 0 THEN p ELSE q
    BY <1>2, <1>3 DEF connect
  <1> QED
    BY <1>1, <1>2, <1>4, <1>5, <1>6

(* One column of the Body in Python, or two.                               *)
Kept(p, q) == q \in Pys /\ SameSock(p, q)

LEMMA PyWritten ==
    ASSUME NEW p \in Pys
    PROVE  /\ \A i \in Ids : \A s \in {"new", "begun", "ready", "send", "waiting", "done"} :
                  Kept(p, [p EXCEPT !.at[i] = s])
           /\ \A g \in SUBSET Messages : Kept(p, [p EXCEPT !.got = g])
           /\ \A r \in BOOLEAN : Kept(p, [p EXCEPT !.ready = r])
           /\ \A i \in Ids \cup {None} : Kept(p, [p EXCEPT !.active = i])
           /\ \A u \in BOOLEAN : Kept(p, [p EXCEPT !.unknown = u])
           /\ \A E \in SUBSET Ids : Kept(p, [p EXCEPT !.early = E])
           /\ \A E \in SUBSET Ids : Kept(p, [p EXCEPT !.late = E])
           /\ \A E \in SUBSET Ids : \A f \in {"no", "confirm", "interrupt"} :
                 Kept(p, [p EXCEPT !.ask = f, !.since = E])
           /\ \A n \in Nat : Kept(p, [p EXCEPT !.asks = n])
           /\ Kept(p, [p EXCEPT !.broken = TRUE])
           /\ [p EXCEPT !.sock = 0, !.ready = FALSE, !.broken = TRUE] \in Pys
  <1>1. ASSUME NEW i \in Ids, NEW s \in {"new", "begun", "ready", "send", "waiting", "done"}
        PROVE  Kept(p, [p EXCEPT !.at[i] = s])
    <2>1. [p.at EXCEPT ![i] = s] \in [Ids -> {"new", "begun", "ready", "send", "waiting", "done"}]
      BY DEF Pys
    <2>2. [p EXCEPT !.at[i] = s] \in Pys
      BY <2>1, Zenon DEF Pys
    <2> QED
      BY <2>2, PyColumns DEF Kept, SameSock
  <1>2. ASSUME NEW g \in SUBSET Messages
        PROVE  Kept(p, [p EXCEPT !.got = g])
    <2>1. [p EXCEPT !.got = g] \in Pys
      BY Zenon DEF Pys
    <2> QED
      BY <2>1, PyColumns DEF Kept, SameSock
  <1>3. ASSUME NEW b \in BOOLEAN
        PROVE  Kept(p, [p EXCEPT !.ready = b]) /\ Kept(p, [p EXCEPT !.unknown = b])
    <2>1. [p EXCEPT !.ready = b] \in Pys /\ [p EXCEPT !.unknown = b] \in Pys
      BY Zenon DEF Pys
    <2> QED
      BY <2>1, PyColumns DEF Kept, SameSock
  <1>4. ASSUME NEW i \in Ids \cup {None}
        PROVE  Kept(p, [p EXCEPT !.active = i])
    <2>1. [p EXCEPT !.active = i] \in Pys
      BY Zenon DEF Pys
    <2> QED
      BY <2>1, PyColumns DEF Kept, SameSock
  <1>5. ASSUME NEW E \in SUBSET Ids
        PROVE  Kept(p, [p EXCEPT !.early = E]) /\ Kept(p, [p EXCEPT !.late = E])
    <2>1. [p EXCEPT !.early = E] \in Pys /\ [p EXCEPT !.late = E] \in Pys
      BY Zenon DEF Pys
    <2> QED
      BY <2>1, PyColumns DEF Kept, SameSock
  <1>6. ASSUME NEW E \in SUBSET Ids, NEW f \in {"no", "confirm", "interrupt"}
        PROVE  Kept(p, [p EXCEPT !.ask = f, !.since = E])
    <2>1. [p EXCEPT !.ask = f, !.since = E] \in Pys
      BY Zenon DEF Pys
    <2> QED
      BY <2>1, PyColumns DEF Kept, SameSock
  <1>7. ASSUME NEW n \in Nat
        PROVE  Kept(p, [p EXCEPT !.asks = n])
    <2>1. [p EXCEPT !.asks = n] \in Pys
      BY Zenon DEF Pys
    <2> QED
      BY <2>1, PyColumns DEF Kept, SameSock
  <1>8. Kept(p, [p EXCEPT !.broken = TRUE])
    <2>1. [p EXCEPT !.broken = TRUE] \in Pys
      BY Zenon DEF Pys
    <2> QED
      BY <2>1, PyColumns DEF Kept, SameSock
  <1>9. [p EXCEPT !.sock = 0, !.ready = FALSE, !.broken = TRUE] \in Pys
    <2>1. 0 \in Nat
      OBVIOUS
    <2> QED
      BY <2>1, Zenon DEF Pys
  <1> QED
    BY <1>1, <1>2, <1>3, <1>4, <1>5, <1>6, <1>7, <1>8, <1>9

----------------------------------------------------------------------------
(* The steps *)

(* What a stopped action does no more.                                     *)
Hushed(x, y) == Running(x) /\ x.run.stop # "no" /\ y.run.id = x.run.id => Quietly(x, y)

LEMMA TerminalTyped ==
    ASSUME NEW m \in Messages
    PROVE  m.type = "terminal" => m.id \in Ids /\ m.status \in Endings
  BY DEF Messages, Edges, Readies, Terminals, Rejections, Replies

LEMMA Idle ==
    ASSUME NEW x
    PROVE  Hushed(x, x)
  BY DEF Hushed, Quietly

(* A connection made, or kept.                                             *)
LEMMA Connects ==
    ASSUME Fitting, NEW p \in Pys, Connected(p)
    PROVE  /\ Fit(c') /\ Hushed(c, c')
           /\ c' # c => c'.link = p.sock /\ c'.out = <<>> /\ p.sock # py.sock
           /\ c'.peer = c.peer /\ SameWork(c, c')
           /\ p.sock # py.sock => c'.link = p.sock
  <1>1. CASE p.sock = py.sock
    <2>1. c' = c
      BY <1>1 DEF Connected
    <2> QED
      BY <1>1, <2>1, Idle DEF Fitting, SameWork, Signs
  <1>2. CASE p.sock # py.sock
    <2>1. p.sock \in Nat /\ c.peer \in Nat /\ <<>> \in Seq(Messages)
      BY DEF Pys, Fitting, Fit, Clients
    <2>2. PICK k \in Nat, q \in Nat, s \in Seq(Messages) : k = p.sock /\ q = c.peer /\ s = <<>>
      BY <2>1
    <2>3. Fit(c') /\ c'.link = p.sock /\ c'.peer = c.peer /\ c'.out = <<>> /\ SameWork(c, c')
      <3>1. c' = [c EXCEPT !.link = k, !.out = s]
        BY <1>2, <2>2 DEF Connected
      <3>2. Fit(c) /\ c \in Clients
        BY DEF Fitting, Fit
      <3>3. c' = Linked(c, k, q, s)
        BY <2>2, <3>1, <3>2, Columns DEF Linked
      <3>4. PICK d : d = Linked(c, k, q, s)
        OBVIOUS
      <3>5. Fit(c) /\ k \in Nat /\ q \in Nat /\ s \in Seq(Messages)
        BY <2>2, <3>2
      <3>6. Fit(d) /\ SameWork(c, d)
        BY <3>4, <3>5, LinkFit
      <3>7. d.link = k /\ d.peer = q /\ d.out = s
        BY <3>2, <3>4, LinkColumns
      <3> QED
        BY <2>2, <3>3, <3>4, <3>6, <3>7
    <2>4. Hushed(c, c')
      BY <2>3 DEF Hushed, Quietly, SameWork
    <2> QED
      BY <1>2, <2>3, <2>4
  <1> QED
    BY <1>1, <1>2

(* What a step of Python does to the connection: it makes one, or keeps    *)
(* the one there is.                                                       *)
Links == \E p \in {py, connect(py)} : Connected(p) /\ SameSock(p, py')

(* The steps of a call.                                                    *)
LEMMA CallFits ==
    ASSUME Fitting, NEW id \in Ids, execute(id) \/ Call(id)
    PROVE  Fitting' /\ Hushed(c, c') /\ Links /\ tasks' = tasks /\ told' = told
  <1>1. py \in Pys /\ Fit(c) /\ wire \in Seq(Requests)
    BY DEF Fitting
  <1>2. \A h \in Endings \cup {"transport"} : Kept(py, Finish(py, id, h))
    BY <1>1, EndTyped DEF Kept
  <1>3. Kept(py, py') /\ c' = c => py' \in Pys /\ Links /\ Hushed(c, c') /\ Fit(c')
    BY <1>1, Idle DEF Kept, Links, Connected
  <1>4. CASE execute(id)
    <2>1. Kept(py, py')
      <3>1. PICK q : q = [py EXCEPT !.at[id] = "begun"]
        OBVIOUS
      <3>2. Kept(py, q)
        BY <1>1, <3>1, PyWritten
      <3>3. Kept(q, [q EXCEPT !.active = id])
        BY <3>2, PyWritten DEF Kept
      <3>4. py' = [q EXCEPT !.active = id]
        BY <1>1, <1>4, <3>1, PyColumns DEF execute
      <3> QED
        BY <3>2, <3>3, <3>4 DEF Kept, SameSock
    <2> QED
      BY <1>1, <1>3, <1>4, <2>1 DEF execute, Fitting
  <1>5. CASE _ensure_connected(id)
    <2>1. PICK p : p = connect(py)
      OBVIOUS
    <2>2. p \in Pys
      BY <1>1, <2>1, ConnectTyped
    <2>3. Kept(p, [p EXCEPT !.at[id] = "send"]) /\ Kept(p, [p EXCEPT !.at[id] = "ready"])
      BY <2>2, PyWritten
    <2>4. \/ Connected(p) /\ Kept(p, py')
          \/ c' = c /\ Kept(py, py')
      BY <1>2, <1>5, <2>1, <2>3 DEF _ensure_connected
    <2>5. Fit(c') /\ Hushed(c, c') /\ py' \in Pys /\ Links
      <3>1. CASE Connected(p) /\ Kept(p, py')
        BY <2>1, <2>2, <3>1, Connects DEF Kept, Links
      <3>2. CASE c' = c /\ Kept(py, py')
        BY <1>3, <3>2
      <3> QED
        BY <2>4, <3>1, <3>2
    <2> QED
      BY <1>5, <2>5 DEF _ensure_connected, Fitting
  <1>6. CASE wait_ready(id)
    <2>1. Kept(py, py')
      <3>1. CASE py' = Finish(py, id, "transport")
        BY <1>2, <3>1
      <3>2. CASE py' = [py EXCEPT !.got = @ \ {[type |-> "ready"]}, !.ready = TRUE, !.at[id] = "send"]
        <4>1. PICK g \in SUBSET Messages : g = py.got \ {[type |-> "ready"]}
          BY <1>1 DEF Pys
        <4>2. PICK q : q = [py EXCEPT !.got = g]
          OBVIOUS
        <4>3. Kept(py, q)
          BY <1>1, <4>2, PyWritten
        <4>4. PICK r : r = [q EXCEPT !.ready = TRUE]
          OBVIOUS
        <4>5. Kept(q, r)
          BY <4>3, <4>4, PyWritten DEF Kept
        <4>6. Kept(r, [r EXCEPT !.at[id] = "send"])
          BY <4>5, PyWritten DEF Kept
        <4>7. py' = [r EXCEPT !.at[id] = "send"]
          BY <1>1, <3>2, <4>1, <4>2, <4>4, PyColumns
        <4> QED
          BY <4>3, <4>5, <4>6, <4>7 DEF Kept, SameSock
      <3> QED
        BY <1>6, <3>1, <3>2 DEF wait_ready
    <2> QED
      BY <1>1, <1>3, <1>6, <2>1 DEF wait_ready, Fitting
  <1>7. CASE SendCommand(id)
    <2>1. Kept(py, py')
      BY <1>1, <1>2, <1>7, PyWritten DEF SendCommand
    <2>2. wire' \in Seq(Requests)
      <3>1. send(py, Request("command", id)) \in Seq(Requests)
        BY <1>1, SendsRequest DEF Fitting, RequestTypes, Numbers
      <3> QED
        BY <1>1, <1>7, <3>1 DEF SendCommand
    <2> QED
      BY <1>1, <1>3, <1>7, <2>1, <2>2 DEF SendCommand, Fitting
  <1>8. CASE _wait_terminal(id)
    <2>1. Kept(py, py')
      <3>1. CASE py' = Finish(py, id, "transport")
        BY <1>2, <3>1
      <3>2. CASE \E m \in Answers(id) :
                     py' = Finish([py EXCEPT !.got = @ \ {m}], id, IF m.type = "terminal" THEN m.status ELSE "transport")
        <4>1. PICK m \in Answers(id) :
                   py' = Finish([py EXCEPT !.got = @ \ {m}], id, IF m.type = "terminal" THEN m.status ELSE "transport")
          BY <3>2
        <4>2. m \in Messages
          BY <1>1 DEF Answers, Pys
        <4>3. PICK h \in Endings \cup {"transport"} : h = IF m.type = "terminal" THEN m.status ELSE "transport"
          BY <4>2, TerminalTyped
        <4>4. PICK q : q = [py EXCEPT !.got = py.got \ {m}]
          OBVIOUS
        <4>5. py.got \ {m} \in SUBSET Messages
          BY <1>1 DEF Pys
        <4>6. Kept(py, q)
          BY <1>1, <4>4, <4>5, PyWritten
        <4>7. py' = Finish(q, id, h)
          BY <4>1, <4>3, <4>4
        <4> QED
          BY <4>6, <4>7, EndTyped DEF Kept, SameSock
      <3> QED
        BY <1>8, <3>1, <3>2 DEF _wait_terminal
    <2> QED
      BY <1>1, <1>3, <1>8, <2>1 DEF _wait_terminal, Fitting
  <1> QED
    BY <1>4, <1>5, <1>6, <1>7, <1>8 DEF Call

(* A reading of the client's state is asked for.                           *)
LEMMA AskFits ==
    ASSUME Fitting, NEW for \in {"confirm", "interrupt"}, Ask(for)
    PROVE  Fitting' /\ Hushed(c, c') /\ Links /\ tasks' = tasks /\ told' = told
  <1>1. py \in Pys /\ Fit(c) /\ wire \in Seq(Requests) /\ load \in [Ids -> KindNames]
    BY DEF Fitting
  <1>2. PICK p : p = connect(py)
    OBVIOUS
  <1>3. p \in Pys
    BY <1>1, <1>2, ConnectTyped
  <1>4. PICK n \in Nat : n = p.asks + 1
    BY <1>3 DEF Pys
  <1>5. PICK E \in SUBSET Ids : E = Waiting(p)
    BY DEF Waiting
  <1>6. PICK e : e = [type |-> "ready"]
    OBVIOUS
  <1>7. PICK g \in SUBSET Messages : g = p.got \ {e}
    BY <1>3 DEF Pys
  <1>8. /\ Connected(p)
        /\ py' = [p EXCEPT !.ask = for, !.asks = n, !.since = E, !.ready = TRUE, !.got = g]
        /\ wire' = send(p, Request("state", -n))
        /\ UNCHANGED <<tasks, told, load>>
    <2>1. /\ Connected(p)
          /\ py' = [p EXCEPT !.ask = for, !.asks = @ + 1, !.since = Waiting(p), !.ready = TRUE,
                             !.got = @ \ {[type |-> "ready"]}]
          /\ wire' = send(p, Request("state", -(p.asks + 1)))
          /\ UNCHANGED <<tasks, told, load>>
      BY <1>2 DEF Ask
    <2>2. py' = [p EXCEPT !.ask = for, !.asks = n, !.since = E, !.ready = TRUE, !.got = g]
      <3>1. py' = [p EXCEPT !.ask = for, !.asks = p.asks + 1, !.since = Waiting(p), !.ready = TRUE,
                            !.got = p.got \ {[type |-> "ready"]}]
        BY <1>3, <2>1, PyColumns
      <3>2. p.got \ {[type |-> "ready"]} = g
        BY <1>6, <1>7
      <3> QED
        BY <1>4, <1>5, <3>1, <3>2, Zenon
    <2> QED
      BY <1>4, <2>1, <2>2
  <1>9. Kept(p, py')
    <2>1. PICK q : q = [p EXCEPT !.ask = for, !.since = E]
      OBVIOUS
    <2>2. Kept(p, q)
      BY <1>3, <2>1, PyWritten
    <2>3. PICK r : r = [q EXCEPT !.asks = n]
      OBVIOUS
    <2>4. Kept(q, r)
      BY <2>2, <2>3, PyWritten DEF Kept
    <2>5. PICK v : v = [r EXCEPT !.ready = TRUE]
      OBVIOUS
    <2>6. Kept(r, v)
      BY <2>4, <2>5, PyWritten DEF Kept
    <2>7. Kept(v, [v EXCEPT !.got = g])
      BY <2>6, PyWritten DEF Kept
    <2>8. py' = [v EXCEPT !.got = g]
      BY <1>3, <1>8, <2>1, <2>3, <2>5, PyColumns
    <2> QED
      BY <2>2, <2>4, <2>6, <2>7, <2>8 DEF Kept, SameSock
  <1>10. wire' \in Seq(Requests)
    <2>1. -n \in Int /\ -n \in Numbers
      BY DEF Numbers
    <2>2. PICK k \in Numbers : k = -n
      BY <2>1
    <2>3. send(p, Request("state", k)) \in Seq(Requests)
      BY <1>1, <1>3, SendsRequest DEF RequestTypes
    <2> QED
      BY <1>8, <2>2, <2>3
  <1>11. Fit(c') /\ Hushed(c, c')
    BY <1>3, <1>8, Connects
  <1>12. Links
    BY <1>2, <1>8, <1>9 DEF Links, Kept
  <1>13. load' \in [Ids -> KindNames] /\ tasks' \in Seq(Requests \cup Notices)
    BY <1>8 DEF Fitting
  <1> QED
    BY <1>8, <1>9, <1>10, <1>11, <1>12, <1>13 DEF Fitting, Kept

(* A cancel, or a question when no call is there to cancel.                *)
LEMMA InterruptFits ==
    ASSUME Fitting, interrupt
    PROVE  Fitting' /\ Hushed(c, c') /\ Links /\ tasks' = tasks /\ told' = told
  <1>1. py \in Pys /\ Fit(c) /\ wire \in Seq(Requests) /\ load \in [Ids -> KindNames]
    BY DEF Fitting
  <1>2. CASE py.active = None
    BY <1>2, AskFits DEF interrupt
  <1>3. CASE py.active # None
    <2>1. py.active \in Ids
      BY <1>1, <1>3 DEF Pys
    <2>2. PICK E : E = IF py.at[py.active] \in {"begun", "ready", "send"} THEN py.early \cup {py.active} ELSE py.early
      OBVIOUS
    <2>3. E \in SUBSET Ids
      BY <1>1, <2>1, <2>2 DEF Pys
    <2>4. /\ wire' = send(py, Request("cancel", py.active)) /\ py' = [py EXCEPT !.early = E]
          /\ UNCHANGED <<c, tasks, told, load>>
      BY <1>1, <1>3, <2>2, PyColumns DEF interrupt
    <2>5. Kept(py, py')
      BY <1>1, <2>3, <2>4, PyWritten
    <2>6. send(py, Request("cancel", py.active)) \in Seq(Requests)
      BY <1>1, <2>1, SendsRequest DEF RequestTypes, Numbers
    <2> QED
      BY <1>1, <2>4, <2>5, <2>6, Idle DEF Fitting, Kept, Links, Connected
  <1> QED
    BY <1>2, <1>3

(* What the reading of the state does to the Body.                         *)
LEMMA LateTyped ==
    ASSUME NEW p \in Pys
    PROVE  Kept(p, take_late_terminal(p))
  <1>1. PICK L : L = {m \in p.got : m.type = "terminal" /\ p.how[m.id] = "transport" /\ m.id \notin p.late}
    OBVIOUS
  <1>2. PICK g \in SUBSET Messages : g = p.got \ L
    BY DEF Pys
  <1>3. {m.id : m \in L} \in SUBSET Ids
    BY <1>1, TerminalTyped DEF Pys
  <1>4. PICK E \in SUBSET Ids : E = p.late \cup {m.id : m \in L}
    BY <1>3 DEF Pys
  <1>5. PICK q : q = [p EXCEPT !.got = g]
    OBVIOUS
  <1>6. Kept(p, q)
    BY <1>5, PyWritten
  <1>7. Kept(q, [q EXCEPT !.late = E])
    BY <1>6, PyWritten DEF Kept
  <1>8. take_late_terminal(p) = [q EXCEPT !.late = E]
    BY <1>1, <1>2, <1>4, <1>5, PyColumns DEF take_late_terminal
  <1> QED
    BY <1>6, <1>7, <1>8 DEF Kept, SameSock

LEMMA LiftTyped ==
    ASSUME NEW p \in Pys, NEW says
    PROVE  Kept(p, Lift(p, says))
  <1>1. PICK q : q = [p EXCEPT !.unknown = FALSE]
    OBVIOUS
  <1>2. Kept(p, q)
    BY <1>1, PyWritten
  <1>3. PICK a : a = IF p.active # None /\ p.at[p.active] = "done" THEN None ELSE p.active
    OBVIOUS
  <1>4. a \in Ids \cup {None}
    BY <1>3 DEF Pys
  <1>5. Kept(q, [q EXCEPT !.active = a])
    BY <1>2, <1>4, PyWritten DEF Kept
  <1>6. Lift(p, says) = p \/ Lift(p, says) = [q EXCEPT !.active = a]
    BY <1>1, <1>3, PyColumns DEF Lift
  <1> QED
    BY <1>2, <1>5, <1>6 DEF Kept, SameSock

LEMMA AnswerFits ==
    ASSUME Fitting, StateAnswered
    PROVE  Fitting' /\ Hushed(c, c') /\ Links /\ tasks' = tasks /\ told' = told
  <1>1. py \in Pys /\ Fit(c) /\ wire \in Seq(Requests) /\ load \in [Ids -> KindNames]
    BY DEF Fitting
  <1>2. PICK E \in SUBSET Ids : E = {}
    OBVIOUS
  <1>3. ASSUME \E m \in Reading :
                LET p == [py EXCEPT !.got = @ \ {m}, !.ask = "no", !.since = {}]
                IN  IF py.ask = "confirm" THEN py' = Lift(take_late_terminal(p), m.says) /\ wire' = wire
                    ELSE py' = p /\ wire' = IF m.says.still THEN wire ELSE send(p, Request("stop", None))
        PROVE Kept(py, py') /\ wire' \in Seq(Requests)
    <2>1. PICK m \in Reading :
                LET p == [py EXCEPT !.got = @ \ {m}, !.ask = "no", !.since = {}]
                IN  IF py.ask = "confirm" THEN py' = Lift(take_late_terminal(p), m.says) /\ wire' = wire
                    ELSE py' = p /\ wire' = IF m.says.still THEN wire ELSE send(p, Request("stop", None))
      BY <1>3
    <2>2. PICK g \in SUBSET Messages : g = py.got \ {m}
      BY <1>1 DEF Pys
    <2>3. PICK q : q = [py EXCEPT !.got = g]
      OBVIOUS
    <2>4. PICK p : p = [q EXCEPT !.ask = "no", !.since = E]
      OBVIOUS
    <2>5. Kept(py, q)
      BY <1>1, <2>3, PyWritten
    <2>6. Kept(q, p)
      BY <2>4, <2>5, PyWritten DEF Kept
    <2>7. Kept(py, p)
      BY <2>5, <2>6 DEF Kept, SameSock
    <2>8. p = [py EXCEPT !.got = @ \ {m}, !.ask = "no", !.since = {}]
      BY <1>1, <1>2, <2>2, <2>3, <2>4, PyColumns
    <2>9. CASE py.ask = "confirm"
      <3>1. py' = Lift(take_late_terminal(p), m.says) /\ wire' = wire
        BY <2>1, <2>8, <2>9
      <3>2. PICK r : r = take_late_terminal(p)
        OBVIOUS
      <3>3. Kept(p, r)
        BY <2>7, <3>2, LateTyped DEF Kept
      <3>4. PICK s : s = m.says
        OBVIOUS
      <3>5. Kept(r, Lift(r, s))
        BY <3>3, LiftTyped DEF Kept
      <3> QED
        <4>1. wire' \in Seq(Requests)
          BY <1>1, <3>1
        <4>2. py' = Lift(r, s)
          BY <3>1, <3>2, <3>4
        <4> QED
          BY <2>7, <3>3, <3>5, <4>1, <4>2 DEF Kept, SameSock
    <2>10. CASE py.ask # "confirm"
      <3>1. py' = p /\ wire' \in {wire, send(p, Request("stop", None))}
        BY <2>1, <2>8, <2>10
      <3>2. send(p, Request("stop", None)) \in Seq(Requests)
        BY <1>1, <2>7, SendsRequest DEF Kept, RequestTypes, Numbers
      <3> QED
        BY <1>1, <2>7, <3>1, <3>2
    <2> QED
      BY <2>9, <2>10
  <1>4. ASSUME py' = [py EXCEPT !.ask = "no", !.since = E], wire' = wire
        PROVE  Kept(py, py') /\ wire' \in Seq(Requests)
    BY <1>1, <1>4, PyWritten
  <1>5. UNCHANGED <<c, tasks, told, load>> /\ Kept(py, py') /\ wire' \in Seq(Requests)
    <2>1. \/ \E m \in Reading :
                LET p == [py EXCEPT !.got = @ \ {m}, !.ask = "no", !.since = {}]
                IN  IF py.ask = "confirm" THEN py' = Lift(take_late_terminal(p), m.says) /\ wire' = wire
                    ELSE py' = p /\ wire' = IF m.says.still THEN wire ELSE send(p, Request("stop", None))
          \/ py' = [py EXCEPT !.ask = "no", !.since = E] /\ wire' = wire
      BY <1>2 DEF StateAnswered
    <2>2. UNCHANGED <<c, tasks, told, load>>
      BY DEF StateAnswered
    <2> QED
      BY <1>3, <1>4, <2>1, <2>2
  <1> QED
    BY <1>1, <1>5, Idle DEF Fitting, Kept, Links, Connected
(* Controls, which no reading of Python waits for.                         *)
LEMMA ControlFits ==
    ASSUME Fitting, NEW t \in Controls, Control(t)
    PROVE  Fitting' /\ Hushed(c, c') /\ Links /\ tasks' = tasks /\ told' = told
  <1>1. py \in Pys /\ Fit(c) /\ wire \in Seq(Requests) /\ load \in [Ids -> KindNames]
    BY DEF Fitting
  <1>2. UNCHANGED <<c, tasks, py, told, load>> /\ wire' = send(py, Request(t, None))
    BY DEF Control
  <1>3. send(py, Request(t, None)) \in Seq(Requests)
    BY <1>1, SendsRequest DEF RequestTypes, Numbers, Controls
  <1> QED
    BY <1>1, <1>2, <1>3, Idle DEF Fitting, Links, Connected, SameSock

(* A message read.                                                         *)
LEMMA ReadFits ==
    ASSUME Fitting, _read_loop
    PROVE  Fitting' /\ Hushed(c, c')
  <1>1. py \in Pys /\ Fit(c) /\ c \in Clients /\ c.out \in Seq(Messages)
    BY DEF Fitting, Fit, Clients
  <1>2. CASE c.out # <<>>
    <2>1. Tail(c.out) \in Seq(Messages) /\ Head(c.out) \in Messages
      BY <1>1, <1>2, InTail
    <2>2. PICK s : s = Tail(c.out)
      OBVIOUS
    <2>3. c' = [c EXCEPT !.out = s]
      BY <1>1, <1>2, <2>2, Columns DEF _read_loop
    <2>4. PICK y : y = [c EXCEPT !.out = s]
      OBVIOUS
    <2>5. y \in Clients /\ Alike(c, y)
      BY <1>1, <2>1, <2>2, <2>4, Spoken
    <2>6. Fit(y) /\ Hushed(c, y)
      BY <1>1, <2>5, AlikeFit DEF Fit, Hushed, Quietly, Alike
    <2>7. PICK g \in SUBSET Messages : g = py.got \cup {Head(c.out)}
      BY <1>1, <2>1 DEF Pys
    <2>8. py' = py \/ py' = [py EXCEPT !.got = g]
      BY <1>1, <1>2, <2>7, PyColumns DEF _read_loop
    <2>9. py' \in Pys
      BY <1>1, <2>8, PyWritten DEF Kept
    <2> QED
      BY <2>3, <2>4, <2>6, <2>9 DEF _read_loop, Fitting
  <1>3. CASE c.out = <<>>
    <2>1. py' = [py EXCEPT !.broken = TRUE] /\ c' = c
      BY <1>3 DEF _read_loop
    <2> QED
      BY <1>1, <2>1, PyWritten, Idle DEF _read_loop, Fitting, Kept
  <1> QED
    BY <1>2, <1>3

----------------------------------------------------------------------------
(* Ends of the link                                                        *)

LEMMA InPrefix ==
    ASSUME NEW S, NEW s \in Seq(S), NEW t \in Prefixes(s)
    PROVE  t \in Seq(S)
  <1>1. PICK k \in 0..Len(s) : t = SubSeq(s, 1, k)
    BY DEF Prefixes
  <1> QED
    BY <1>1

(* The link is gone, and some of what was under way to Python.             *)
LEMMA CutFit ==
    ASSUME Fit(c), NEW o \in Seq(Messages), c' = [c EXCEPT !.link = 0, !.out = o]
    PROVE  Fit(c') /\ c'.link = 0 /\ c'.peer = c.peer /\ SameWork(c, c') /\ Hushed(c, c')
  <1>1. c \in Clients /\ c.peer \in Nat /\ 0 \in Nat
    BY DEF Fit, Clients
  <1>2. PICK k \in Nat, q \in Nat : k = 0 /\ q = c.peer
    BY <1>1
  <1>3. c' = Linked(c, k, q, o)
    BY <1>1, <1>2, Columns DEF Linked
  <1>4. PICK d : d = Linked(c, k, q, o)
    OBVIOUS
  <1>5. k \in Nat /\ q \in Nat
    BY <1>2
  <1>6. Fit(d) /\ SameWork(c, d)
    BY <1>4, <1>5, LinkFit
  <1>7. d.link = k /\ d.peer = q
    BY <1>1, <1>4, LinkColumns
  <1>8. Hushed(c, d)
    BY <1>6 DEF Hushed, Quietly, SameWork
  <1> QED
    BY <1>2, <1>3, <1>4, <1>6, <1>7, <1>8

LEMMA EndsFit ==
    ASSUME Fitting, LinkBreaks \/ close \/ PythonRestarts
    PROVE  Fitting' /\ Hushed(c, c') /\ c'.link = 0 /\ c'.peer = c.peer
           /\ py'.conns = py.conns /\ (py'.sock = py.sock \/ py'.sock = 0)
  <1>1. /\ py \in Pys /\ Fit(c) /\ c.out \in Seq(Messages) /\ wire \in Seq(Requests)
        /\ <<>> \in Seq(Messages)
    BY DEF Fitting, Fit, Clients
  <1>2. CASE LinkBreaks
    <2>1. PICK o \in Prefixes(c.out), w \in Prefixes(wire) : c' = [c EXCEPT !.link = 0, !.out = o] /\ wire' = w
      BY <1>2 DEF LinkBreaks
    <2>2. o \in Seq(Messages) /\ w \in Seq(Requests)
      BY <1>1, <2>1, InPrefix
    <2>3. Fit(c') /\ c'.link = 0 /\ c'.peer = c.peer /\ Hushed(c, c')
      BY <1>1, <2>1, <2>2, CutFit
    <2>4. wire' \in Seq(Requests)
      BY <2>1, <2>2
    <2> QED
      BY <1>2, <2>3, <2>4 DEF LinkBreaks, Fitting
  <1>3. PICK o : o = <<>>
    OBVIOUS
  <1>4. o \in Seq(Messages)
    BY <1>3
  <1>5. Cut => Fit(c') /\ c'.link = 0 /\ c'.peer = c.peer /\ Hushed(c, c')
    <2>1. Cut => c' = [c EXCEPT !.link = 0, !.out = o]
      BY <1>3 DEF Cut
    <2> QED
      BY <1>1, <1>4, <2>1, CutFit
  <1>6. CASE close
    <2>1. py' \in Pys
      BY <1>1, <1>6, PyWritten DEF close
    <2>2. py'.sock = 0 /\ py'.conns = py.conns
      BY <1>1, <1>6, PyColumns DEF close
    <2> QED
      BY <1>5, <1>6, <2>1, <2>2 DEF close, Fitting
  <1>7. CASE PythonRestarts
    <2>1. PICK a : a = [i \in Ids |-> IF py.at[i] = "new" THEN "new" ELSE "done"]
      OBVIOUS
    <2>2. a \in [Ids -> {"new", "begun", "ready", "send", "waiting", "done"}]
      BY <2>1
    <2>3. PICK n \in Nat : n = py.conns
      BY <1>1 DEF Pys
    <2>4. py' = [sock |-> 0, broken |-> FALSE, conns |-> n, ready |-> FALSE, active |-> None, unknown |-> FALSE,
                 at |-> a, how |-> [i \in Ids |-> "none"], got |-> {},
                 ask |-> "no", asks |-> 0, since |-> {}, late |-> {}, early |-> {}]
      BY <1>7, <2>1, <2>3 DEF PythonRestarts, StartBody
    <2>5. py' \in Pys
      <3>1. [i \in Ids |-> "none"] \in [Ids -> Endings \cup {"none", "transport"}]
        OBVIOUS
      <3> QED
        BY <2>2, <2>3, <2>4, <3>1 DEF Pys
    <2>6. py'.sock = 0 /\ py'.conns = py.conns
      BY <2>3, <2>4
    <2> QED
      BY <1>5, <1>7, <2>5, <2>6 DEF PythonRestarts, Fitting
  <1> QED
    BY <1>2, <1>6, <1>7

----------------------------------------------------------------------------
(* The client's end                                                        *)

LEMMA TaskAdded ==
    ASSUME tasks \in Seq(Requests \cup Notices), NEW t \in Requests \cup Notices
    PROVE  Append(tasks, t) \in Seq(Requests \cup Notices) /\ \A m : In(Append(tasks, t), m) <=> In(tasks, m) \/ m = t
  BY InAppend

LEMMA Noticed ==
    ASSUME NEW n \in Nat
    PROVE  [type |-> "replay", conn |-> n] \in Notices /\ [type |-> "lost", conn |-> n] \in Notices
  BY DEF Notices

LEMMA PeerFits ==
    ASSUME Fit(c), NEW p \in Nat, c' = [c EXCEPT !.peer = p]
    PROVE  /\ Fit(c') /\ c'.link = c.link /\ c'.peer = p /\ c'.out = c.out
           /\ SameWork(c, c') /\ Hushed(c, c')
  <1>1. c \in Clients /\ c.link \in Nat /\ c.out \in Seq(Messages)
    BY DEF Fit, Clients
  <1>2. PICK l \in Nat, s \in Seq(Messages) : l = c.link /\ s = c.out
    BY <1>1
  <1>3. c' = Linked(c, l, p, s)
    BY <1>1, <1>2, Columns DEF Linked
  <1>4. PICK d : d = Linked(c, l, p, s)
    OBVIOUS
  <1>5. l \in Nat /\ s \in Seq(Messages)
    BY <1>2
  <1>6. Fit(d) /\ SameWork(c, d)
    BY <1>4, <1>5, LinkFit
  <1>7. d.link = l /\ d.peer = p /\ d.out = s
    BY <1>1, <1>4, LinkColumns
  <1>8. Hushed(c, d)
    BY <1>6 DEF Hushed, Quietly, SameWork
  <1> QED
    BY <1>2, <1>3, <1>4, <1>6, <1>7, <1>8

LEMMA ServeFits ==
    ASSUME Fitting, Serve
    PROVE  Fitting' /\ Hushed(c, c')
  <1>1. /\ py \in Pys /\ Fit(c) /\ wire \in Seq(Requests) /\ tasks \in Seq(Requests \cup Notices)
        /\ c.link \in Nat /\ c.peer \in Nat
    BY DEF Fitting, Fit, Clients
  <1>2. CASE ServeAccepts
    <2>1. PICK t : t = [type |-> "replay", conn |-> c.link]
      OBVIOUS
    <2>2. t \in Requests \cup Notices
      BY <1>1, <2>1, Noticed
    <2>3. Append(tasks, t) \in Seq(Requests \cup Notices)
      BY <1>1, <2>2, TaskAdded
    <2>4. tasks' = tasks \/ tasks' = Append(tasks, t)
      BY <1>2, <2>1 DEF ServeAccepts
    <2>5. Fit(c') /\ Hushed(c, c')
      BY <1>1, <1>2, PeerFits DEF ServeAccepts
    <2> QED
      BY <1>1, <1>2, <2>3, <2>4, <2>5 DEF ServeAccepts, Fitting
  <1>3. CASE ServeReads
    <2>1. wire # <<>>
      BY <1>3 DEF ServeReads
    <2>2. Head(wire) \in Requests /\ Tail(wire) \in Seq(Requests)
      BY <1>1, <2>1, InTail
    <2>3. PICK t \in Requests : t = Head(wire)
      BY <2>2
    <2>4. Append(tasks, t) \in Seq(Requests \cup Notices)
      BY <1>1, TaskAdded
    <2>5. tasks' = Append(tasks, t) /\ wire' = Tail(wire)
      BY <1>3, <2>3 DEF ServeReads
    <2> QED
      BY <1>1, <1>3, <2>2, <2>4, <2>5, Idle DEF ServeReads, Fitting
  <1>4. CASE ServeLoses
    <2>1. PICK t : t = [type |-> "lost", conn |-> c.peer]
      OBVIOUS
    <2>2. t \in Requests \cup Notices
      BY <1>1, <2>1, Noticed
    <2>3. Append(tasks, t) \in Seq(Requests \cup Notices)
      BY <1>1, <2>2, TaskAdded
    <2>4. tasks' = Append(tasks, t)
      BY <1>4, <2>1 DEF ServeLoses
    <2>5. PICK k \in Nat : k = 0
      OBVIOUS
    <2>6. c' = [c EXCEPT !.peer = k]
      BY <1>4, <2>5 DEF ServeLoses
    <2>7. Fit(c') /\ Hushed(c, c')
      BY <1>1, <2>6, PeerFits
    <2> QED
      BY <1>1, <1>4, <2>3, <2>4, <2>7 DEF ServeLoses, Fitting
  <1> QED
    BY <1>2, <1>3, <1>4 DEF Serve

(* What the client's thread does with a task.                              *)
LEMMA ThreadKeeps ==
    ASSUME Fitting, ClientThread
    PROVE  /\ Fitting' /\ Keeps(c, c')
           /\ Head(tasks).type = "replay" /\ Head(tasks).conn # 0 /\ Head(tasks).conn = c.link =>
                 \A k \in DOMAIN c'.events : In(c'.out, c'.events[k])
           /\ \A m : In(tasks, m) => In(tasks', m) \/ m = Head(tasks)
  <1>1. /\ Fit(c) /\ c \in Clients /\ tasks \in Seq(Requests \cup Notices) /\ tasks # <<>>
        /\ tasks' = Tail(tasks)
    BY DEF Fitting, Fit, ClientThread
  <1>2. PICK t : t = Head(tasks)
    OBVIOUS
  <1>3. /\ t \in Requests \cup Notices /\ Tail(tasks) \in Seq(Requests \cup Notices)
        /\ \A m : In(tasks, m) <=> m = t \/ In(Tail(tasks), m)
    BY <1>1, <1>2, InTail
  <1>4. CASE t.type = "replay"
    <2>1. c' = SendReady(c, t.conn)
      BY <1>2, <1>4 DEF ClientThread
    <2>2. PICK p : p = t.conn
      OBVIOUS
    <2>3. PICK y : y = SendReady(c, p)
      OBVIOUS
    <2>4. /\ y \in Clients /\ Alike(c, y) /\ Goes(c, y) /\ y.events = c.events
          /\ p # 0 /\ p = c.link => \A k \in DOMAIN c.events : In(y.out, c.events[k])
      BY <1>1, <2>3, SaysReady
    <2>5. Fit(y) /\ Keeps(c, y)
      BY <1>1, <2>4, AlikeFit, GoesKeeps DEF Fit
    <2> QED
      BY <1>1, <1>2, <1>3, <2>1, <2>2, <2>3, <2>4, <2>5 DEF Fitting, ClientThread
  <1>5. CASE t.type = "lost"
    <2>1. c' = handle_lost(c, t.conn)
      BY <1>2, <1>5 DEF ClientThread
    <2>2. Fit(c') /\ Keeps(c, c')
      BY <1>1, <2>1, LostGoes, GoesKeeps
    <2> QED
      BY <1>1, <1>2, <1>3, <1>5, <2>2 DEF Fitting, ClientThread
  <1>6. CASE t.type \notin {"replay", "lost"}
    <2>1. t \in Requests
      BY <1>3, <1>6 DEF Notices
    <2>2. c' \in handle(c, t)
      BY <1>2, <1>6 DEF ClientThread
    <2>3. Fit(c') /\ Keeps(c, c')
      BY <1>1, <2>1, <2>2, HandleKeeps
    <2> QED
      BY <1>1, <1>2, <1>3, <1>6, <2>3 DEF Fitting, ClientThread
  <1> QED
    BY <1>4, <1>5, <1>6

(* What the game does to the client.                                       *)
Game == \/ Tick \/ DeadlinePasses \/ BaritoneSettles \/ BaritoneMutates \/ MenuAnswered \/ WorldAnswers
        \/ PlayerDies \/ PlayerReturns \/ WorldLeft \/ WorldJoined

LEMMA GameKeeps ==
    ASSUME Fitting, Game
    PROVE  Fitting' /\ Keeps(c, c') /\ Goes(c, c') /\ UNCHANGED Rest
  <1>1. Fit(c)
    BY DEF Fitting
  <1>2. UNCHANGED Rest
    BY DEF Game, Tick, DeadlinePasses, BaritoneSettles, BaritoneMutates, MenuAnswered, WorldAnswers,
           PlayerDies, PlayerReturns, WorldLeft, WorldJoined
  <1>3. Fit(c') /\ Goes(c, c')
    <2>1. CASE Tick
      BY <1>1, <2>1, TickGoes DEF Tick
    <2>2. CASE DeadlinePasses
      BY <1>1, <2>2, GameGoes DEF DeadlinePasses
    <2>3. CASE BaritoneSettles
      BY <1>1, <2>3, GameGoes DEF BaritoneSettles
    <2>4. CASE BaritoneMutates
      BY <1>1, <2>4, MutationGoes DEF BaritoneMutates
    <2>5. CASE MenuAnswered
      BY <1>1, <2>5, GameGoes DEF MenuAnswered
    <2>6. CASE WorldAnswers
      BY <1>1, <2>6, SignGoes DEF WorldAnswers
    <2>7. CASE PlayerDies \/ PlayerReturns
      <3>1. \E b \in BOOLEAN : c' = [c EXCEPT !.dead = b, !.screen = b]
        BY <2>7 DEF PlayerDies, PlayerReturns
      <3> QED
        BY <1>1, <3>1, GameGoes
    <2>8. CASE WorldLeft
      BY <1>1, <2>8, LeaveGoes DEF WorldLeft
    <2>9. CASE WorldJoined
      BY <1>1, <2>9, JoinGoes DEF WorldJoined
    <2> QED
      BY <2>1, <2>2, <2>3, <2>4, <2>5, <2>6, <2>7, <2>8, <2>9 DEF Game
  <1>4. Keeps(c, c')
    BY <1>3, GoesKeeps
  <1> QED
    BY <1>2, <1>3, <1>4 DEF Rest, Fitting

----------------------------------------------------------------------------
(* The types and the quiet                                                 *)

LEMMA StepFits ==
    ASSUME Fitting, [Next]_vars
    PROVE  Fitting' /\ Hushed(c, c')
  <1>1. CASE \E id \in Ids : execute(id) \/ Call(id)
    BY <1>1, CallFits
  <1>2. CASE interrupt
    BY <1>2, InterruptFits
  <1>3. CASE confirm_control_idle
    BY <1>3, AskFits DEF confirm_control_idle
  <1>4. CASE StateAnswered
    BY <1>4, AnswerFits
  <1>5. CASE _read_loop
    BY <1>5, ReadFits
  <1>6. CASE \E t \in Controls : Control(t)
    BY <1>6, ControlFits
  <1>7. CASE LinkBreaks \/ close \/ PythonRestarts
    BY <1>7, EndsFit
  <1>8. CASE Serve
    BY <1>8, ServeFits
  <1>9. CASE ClientThread
    BY <1>9, ThreadKeeps DEF Keeps, Hushed
  <1>10. CASE Game
    BY <1>10, GameKeeps DEF Keeps, Hushed
  <1>11. CASE UNCHANGED vars
    BY <1>11, Idle DEF vars, Fitting
  <1> QED
    BY <1>1, <1>2, <1>3, <1>4, <1>5, <1>6, <1>7, <1>8, <1>9, <1>10, <1>11 DEF Next, Game

(* The client, its socket and the Body in Python keep their types, an      *)
(* action has put aside what it changed, and no key, setting or work of    *)
(* Baritone is without an action that answers for it (start, requestStop,  *)
(* terminal, tick, leaveWorld).                                            *)
THEOREM ClientIsFit == Spec => []Fitting
  <1>1. Init => Fitting
    BY InitFits
  <1>2. Fitting /\ [Next]_vars => Fitting'
    BY StepFits
  <1> QED
    BY <1>1, <1>2, PTL DEF Spec

(* When no action is under way none has left anything behind: no changed   *)
(* setting of Baritone, no held use key, and Baritone at rest unless a     *)
(* control set it going, whatever stopped the actions (requestStop,        *)
(* terminal, the DISCONNECT handler).                                      *)
THEOREM ActionsLeaveNothing == Spec => []NothingLeftBehind
  <1>1. Fitting => NothingLeftBehind
    BY DEF Fitting, Fit, Neat, NothingLeftBehind
  <1> QED
    BY <1>1, ClientIsFit, PTL

(* An action told to stop presses no key, sets Baritone to nothing, asks   *)
(* for no menu and changes no block before its terminal, in whatever order *)
(* the ticks, the requests, the link and the game come (requestStop, tick, *)
(* allowVerticalMutation).                                                 *)
THEOREM StopIsQuiet == Spec => StoppedIsQuiet
  <1>1. Fitting /\ [Next]_vars =>
           [Running(c) /\ c.run.stop # "no" /\ c'.run.id = c.run.id =>
              /\ c'.run.stop = c.run.stop /\ c'.run.touched = c.run.touched
              /\ c'.keys \subseteq c.keys /\ c'.run.saved \subseteq c.run.saved
              /\ c'.bari = "on" => c.bari = "on"
              /\ c'.menu = "asked" => c.menu = "asked"]_vars
    BY StepFits DEF Hushed, Quietly
  <1>2. Spec => [][Next]_vars
    BY DEF Spec
  <1> QED
    BY <1>1, <1>2, ClientIsFit, PTL DEF StoppedIsQuiet

----------------------------------------------------------------------------
(* The edges                                                               *)

(* An edge was told, is on its way, or will be sent again when the client  *)
(* comes to the replay of this connection.                                 *)
Due(e, edges, out, waiting, link) ==
    \/ \E k \in DOMAIN edges : edges[k].seq = e.seq
    \/ In(out, e)
    \/ \E m : In(waiting, m) /\ m.type = "replay" /\ m.conn = link

(* The socket of Python is the link or a dead one, connections are counted,*)
(* and what a ready client keeps is due to the connection it serves.       *)
Sockets == c.link \in {0, py.sock} /\ py.sock \in {0, py.conns} /\ c.peer <= py.conns
ToldOnce == \A j, k \in DOMAIN told : told[j].seq = told[k].seq => j = k
AllDue == c.ready /\ c.peer # 0 /\ c.peer = c.link =>
              \A k \in DOMAIN c.events : Due(c.events[k], told, c.out, tasks, c.link)
EdgeInv == told \in Seq(Edges) /\ Sockets /\ ToldOnce /\ AllDue

LEMMA EdgesOf ==
    ASSUME Fitting
    PROVE  c \in Clients /\ py \in Pys /\ c.events \in Seq(Edges) /\ c.link \in Nat /\ c.peer \in Nat
           /\ py.sock \in Nat /\ py.conns \in Nat /\ c.out \in Seq(Messages)
  BY DEF Fitting, Fit, Clients, Pys

(* The client goes on, with the same link.                                 *)
LEMMA OnwardEdges ==
    ASSUME Fitting, EdgeInv, Keeps(c, c'), told' = told, py' = py,
           \A m : In(tasks, m) /\ m.type = "replay" /\ m.conn = c.link /\ c.link # 0 =>
                      In(tasks', m) \/ \A k \in DOMAIN c'.events : In(c'.out, c'.events[k])
    PROVE  EdgeInv'
  <1>1. c'.link = c.link /\ c'.peer = c.peer /\ \A m : In(c.out, m) => In(c'.out, m)
    BY DEF Keeps
  <1>2. (told \in Seq(Edges) /\ Sockets /\ ToldOnce)'
    BY <1>1 DEF EdgeInv, Sockets, ToldOnce
  <1>3. ASSUME c'.ready, c'.peer # 0, c'.peer = c'.link, NEW k \in DOMAIN c'.events
        PROVE  Due(c'.events[k], told, c'.out, tasks', c'.link)
    <2>1. CASE \A j \in DOMAIN c'.events : In(c'.out, c'.events[j])
      BY <1>3, <2>1 DEF Due
    <2>2. CASE ~ \A j \in DOMAIN c'.events : In(c'.out, c'.events[j])
      <3>1. c.ready /\ (In(c.events, c'.events[k]) \/ In(c'.out, c'.events[k]))
        BY <1>3, <2>2 DEF Keeps, Tells
      <3>2. CASE In(c'.out, c'.events[k])
        BY <3>2 DEF Due
      <3>3. CASE In(c.events, c'.events[k])
        <4>1. Due(c'.events[k], told, c.out, tasks, c.link)
          BY <1>1, <1>3, <3>1, <3>3 DEF EdgeInv, AllDue, In
        <4> QED
          BY <1>1, <1>3, <2>2, <4>1 DEF Due
      <3> QED
        BY <3>1, <3>2, <3>3
    <2> QED
      BY <2>1, <2>2
  <1> QED
    BY <1>2, <1>3 DEF EdgeInv, AllDue

(* Python's steps: a new connection is not served yet.                     *)
LEMMA LinksEdges ==
    ASSUME Fitting, EdgeInv, Links, tasks' = tasks, told' = told
    PROVE  EdgeInv'
  <1>1. PICK p \in {py, connect(py)} : Connected(p) /\ SameSock(p, py')
    BY DEF Links
  <1>2. py \in Pys /\ c \in Clients /\ py.sock \in Nat /\ py.conns \in Nat /\ c.peer \in Nat /\ c.link \in Nat
    BY EdgesOf
  <1>3. p \in Pys
    BY <1>1, <1>2, ConnectTyped
  <1>4. \/ p.sock = py.sock /\ p.conns = py.conns
        \/ p.sock = py.conns + 1 /\ p.conns = py.conns + 1
    BY <1>1, <1>2, ConnectTyped
  <1>5. CASE p.sock = py.sock
    <2>1. c' = c
      BY <1>1, <1>5 DEF Connected
    <2>2. py'.sock = py.sock /\ py'.conns \in {py.conns, py.conns + 1} /\ py'.sock \in {0, py'.conns}
      BY <1>1, <1>2, <1>4, <1>5 DEF SameSock, EdgeInv, Sockets
    <2>3. Sockets'
      BY <1>2, <2>1, <2>2 DEF EdgeInv, Sockets
    <2> QED
      BY <2>1, <2>3 DEF EdgeInv, ToldOnce, AllDue
  <1>6. CASE p.sock # py.sock
    <2>1. c'.link = p.sock /\ c'.peer = c.peer
      BY <1>1, <1>3, <1>6, Connects
    <2>2. Sockets'
      BY <1>1, <1>2, <1>4, <1>6, <2>1 DEF SameSock, EdgeInv, Sockets
    <2>3. c'.peer # c'.link
      BY <1>2, <1>4, <1>6, <2>1 DEF EdgeInv, Sockets
    <2> QED
      BY <2>2, <2>3 DEF EdgeInv, ToldOnce, AllDue
  <1> QED
    BY <1>5, <1>6

(* The reader of the socket: an edge taken off the stream is told, once.   *)
LEMMA ReadEdges ==
    ASSUME Fitting, EdgeInv, _read_loop
    PROVE  EdgeInv'
  <1>1. py \in Pys /\ c \in Clients /\ c.out \in Seq(Messages) /\ c.events \in Seq(Edges) /\ told \in Seq(Edges)
    BY EdgesOf DEF EdgeInv
  <1>2. CASE c.out = <<>>
    <2>1. c' = c /\ told' = told /\ tasks' = tasks /\ py' = [py EXCEPT !.broken = TRUE]
      BY <1>2 DEF _read_loop
    <2>2. py'.sock = py.sock /\ py'.conns = py.conns
      BY <1>1, <2>1, PyColumns
    <2> QED
      BY <2>1, <2>2 DEF EdgeInv, Sockets, ToldOnce, AllDue
  <1>3. CASE c.out # <<>>
    <2>1. PICK e : e = Head(c.out)
      OBVIOUS
    <2>2. e \in Messages /\ Tail(c.out) \in Seq(Messages) /\ \A m : In(c.out, m) <=> m = e \/ In(Tail(c.out), m)
      BY <1>1, <1>3, <2>1, InTail
    <2>3. PICK s : s = Tail(c.out)
      OBVIOUS
    <2>4. c' = [c EXCEPT !.out = s] /\ tasks' = tasks
      BY <1>1, <1>3, <2>3, Columns DEF _read_loop
    <2>5. /\ c'.out = s /\ c'.link = c.link /\ c'.peer = c.peer /\ c'.events = c.events
          /\ c'.ready <=> c.ready
      BY <1>1, <2>4, Columns
    <2>6. py'.sock = py.sock /\ py'.conns = py.conns
      <3>1. py' = py \/ \E g : py' = [py EXCEPT !.got = g]
        BY <1>1, <1>3, PyColumns DEF _read_loop
      <3> QED
        BY <1>1, <3>1, PyColumns
    <2>7. Sockets'
      BY <2>5, <2>6 DEF EdgeInv, Sockets
    <2>8. /\ told' \in Seq(Edges) /\ ToldOnce'
          /\ \A m : (\E k \in DOMAIN told : told[k].seq = m.seq) => \E k \in DOMAIN told' : told'[k].seq = m.seq
          /\ e.type = "edge" => \E k \in DOMAIN told' : told'[k].seq = e.seq
      <3>1. CASE e.type # "edge" \/ \E k \in DOMAIN told : told[k].seq = e.seq
        <4>1. told' = told
          BY <1>3, <2>1, <3>1 DEF _read_loop, _on_lifecycle_event
        <4> QED
          BY <1>1, <3>1, <4>1 DEF EdgeInv, ToldOnce
      <3>2. CASE e.type = "edge" /\ ~ \E k \in DOMAIN told : told[k].seq = e.seq
        <4>1. told' = Append(told, e)
          BY <1>3, <2>1, <3>2 DEF _read_loop, _on_lifecycle_event
        <4>2. e \in Edges
          BY <2>2, <3>2 DEF Messages, Readies, Terminals, Rejections, Replies
        <4>3. /\ told' \in Seq(Edges) /\ Len(told) \in Nat
              /\ DOMAIN told = 1..Len(told) /\ DOMAIN told' = 1..(Len(told) + 1)
              /\ \A j \in 1..Len(told) : told'[j] = told[j]
              /\ told'[Len(told) + 1] = e
          BY <1>1, <4>1, <4>2
        <4>4. \A j \in DOMAIN told' : j \in DOMAIN told \/ j = Len(told) + 1
          BY <4>3
        <4>5. ToldOnce'
          <5>1. \A j \in DOMAIN told : told'[j].seq # e.seq
            BY <3>2, <4>3
          <5>2. ASSUME NEW j \in DOMAIN told', NEW k \in DOMAIN told', told'[j].seq = told'[k].seq
                PROVE  j = k
            <6>1. CASE j \in DOMAIN told /\ k \in DOMAIN told
              <7>1. told[j].seq = told[k].seq
                BY <4>3, <5>2, <6>1
              <7> QED
                BY <6>1, <7>1 DEF EdgeInv, ToldOnce
            <6>2. CASE ~ (j \in DOMAIN told /\ k \in DOMAIN told)
              BY <4>3, <4>4, <5>1, <5>2, <6>2
            <6> QED
              BY <6>1, <6>2
          <5> QED
            BY <5>2 DEF ToldOnce
        <4>6. Len(told) + 1 \in DOMAIN told' /\ \A k \in DOMAIN told : k \in DOMAIN told' /\ told'[k] = told[k]
          BY <4>3
        <4> QED
          BY <4>3, <4>5, <4>6
      <3> QED
        BY <3>1, <3>2
    <2>9. AllDue'
      <3>1. SUFFICES ASSUME c.ready, c.peer # 0, c.peer = c.link, NEW k \in DOMAIN c.events
                     PROVE  Due(c.events[k], told', s, tasks, c.link)
        BY <2>4, <2>5 DEF AllDue
      <3>2. PICK m : m = c.events[k]
        OBVIOUS
      <3>3. Due(m, told, c.out, tasks, c.link)
        BY <3>1, <3>2 DEF EdgeInv, AllDue
      <3>4. m.type = "edge"
        BY <1>1, <3>1, <3>2, MessageKinds
      <3> QED
        BY <2>2, <2>3, <2>8, <3>2, <3>3, <3>4 DEF Due
    <2> QED
      BY <2>7, <2>8, <2>9 DEF EdgeInv
  <1> QED
    BY <1>2, <1>3

LEMMA EndEdges ==
    ASSUME Fitting, EdgeInv, LinkBreaks \/ close \/ PythonRestarts
    PROVE  EdgeInv'
  <1>1. /\ c'.link = 0 /\ c'.peer = c.peer /\ py'.conns = py.conns
        /\ (py'.sock = py.sock \/ py'.sock = 0)
    BY EndsFit
  <1>2. Sockets'
    BY <1>1 DEF EdgeInv, Sockets
  <1>3. AllDue'
    BY <1>1 DEF AllDue
  <1>4. (told \in Seq(Edges) /\ ToldOnce)'
    <2>1. CASE PythonRestarts
      <3>1. told' = <<>>
        BY <2>1 DEF PythonRestarts
      <3> QED
        BY <3>1 DEF ToldOnce
    <2>2. CASE LinkBreaks \/ close
      <3>1. told' = told
        BY <2>2 DEF LinkBreaks, close
      <3> QED
        BY <3>1 DEF EdgeInv, ToldOnce
    <2> QED
      BY <2>1, <2>2
  <1> QED
    BY <1>2, <1>3, <1>4 DEF EdgeInv

(* A connection accepted by a ready client waits for its replay.           *)
LEMMA ServeEdges ==
    ASSUME Fitting, EdgeInv, Serve
    PROVE  EdgeInv'
  <1>1. /\ py \in Pys /\ c \in Clients /\ c.link \in Nat /\ c.peer \in Nat /\ py.sock \in Nat /\ py.conns \in Nat
        /\ tasks \in Seq(Requests \cup Notices) /\ wire \in Seq(Requests)
    BY EdgesOf DEF Fitting
  <1>2. CASE ServeAccepts
    <2>1. c' = [c EXCEPT !.peer = c.link] /\ UNCHANGED <<py, told>> /\ c.link # 0
      BY <1>1, <1>2, Columns DEF ServeAccepts
    <2>2. /\ c'.peer = c.link /\ c'.link = c.link /\ c'.events = c.events
          /\ c'.ready <=> c.ready
      BY <1>1, <2>1, Columns
    <2>3. Sockets'
      BY <1>1, <2>1, <2>2 DEF EdgeInv, Sockets
    <2>4. ASSUME c.ready, NEW k \in DOMAIN c.events
          PROVE  Due(c.events[k], told, c'.out, tasks', c.link)
      <3>1. PICK t : t = [type |-> "replay", conn |-> c.link]
        OBVIOUS
      <3>2. t \in Requests \cup Notices
        BY <1>1, <3>1, Noticed
      <3>3. tasks' = Append(tasks, t)
        BY <1>2, <2>4, <3>1 DEF ServeAccepts
      <3>4. In(tasks', t)
        BY <1>1, <3>2, <3>3, TaskAdded
      <3>5. t.type = "replay" /\ t.conn = c.link
        BY <3>1
      <3> QED
        BY <3>4, <3>5 DEF Due
    <2>5. AllDue'
      BY <2>1, <2>2, <2>4 DEF AllDue
    <2> QED
      BY <2>1, <2>3, <2>5 DEF EdgeInv, ToldOnce
  <1>3. CASE ServeReads
    <2>1. UNCHANGED <<c, py, told>> /\ tasks' = Append(tasks, Head(wire)) /\ wire # <<>>
      BY <1>3 DEF ServeReads
    <2>2. PICK t \in Requests : t = Head(wire)
      BY <1>1, <2>1, InTail
    <2>3. \A m : In(tasks, m) => In(tasks', m)
      BY <1>1, <2>1, <2>2, TaskAdded
    <2> QED
      BY <2>1, <2>3, SelfKeeps, OnwardEdges
  <1>4. CASE ServeLoses
    <2>1. c' = [c EXCEPT !.peer = 0] /\ UNCHANGED <<py, told>>
      BY <1>4 DEF ServeLoses
    <2>2. c'.peer = 0 /\ c'.link = c.link
      BY <1>1, <2>1, Columns
    <2>3. Sockets' /\ AllDue'
      BY <1>1, <2>1, <2>2 DEF EdgeInv, Sockets, AllDue
    <2> QED
      BY <2>1, <2>3 DEF EdgeInv, ToldOnce
  <1> QED
    BY <1>2, <1>3, <1>4 DEF Serve

LEMMA StepEdges ==
    ASSUME Fitting, EdgeInv, [Next]_vars
    PROVE  EdgeInv'
  <1>1. CASE \E id \in Ids : execute(id) \/ Call(id)
    BY <1>1, CallFits, LinksEdges
  <1>2. CASE interrupt
    BY <1>2, InterruptFits, LinksEdges
  <1>3. CASE confirm_control_idle
    BY <1>3, AskFits, LinksEdges DEF confirm_control_idle
  <1>4. CASE StateAnswered
    BY <1>4, AnswerFits, LinksEdges
  <1>5. CASE _read_loop
    BY <1>5, ReadEdges
  <1>6. CASE \E t \in Controls : Control(t)
    BY <1>6, ControlFits, LinksEdges
  <1>7. CASE LinkBreaks \/ close \/ PythonRestarts
    BY <1>7, EndEdges
  <1>8. CASE Serve
    BY <1>8, ServeEdges
  <1>9. CASE ClientThread
    <2>1. /\ Keeps(c, c') /\ told' = told /\ py' = py
          /\ \A m : In(tasks, m) /\ m.type = "replay" /\ m.conn = c.link /\ c.link # 0 =>
                        In(tasks', m) \/ \A k \in DOMAIN c'.events : In(c'.out, c'.events[k])
      BY <1>9, ThreadKeeps DEF ClientThread
    <2> QED
      BY <2>1, OnwardEdges
  <1>10. CASE Game
    <2>1. Keeps(c, c') /\ UNCHANGED Rest
      BY <1>10, GameKeeps
    <2> QED
      BY <2>1, OnwardEdges DEF Rest
  <1>11. CASE UNCHANGED vars
    BY <1>11 DEF vars, EdgeInv, Sockets, ToldOnce, AllDue
  <1> QED
    BY <1>1, <1>2, <1>3, <1>4, <1>5, <1>6, <1>7, <1>8, <1>9, <1>10, <1>11 DEF Next, Game

(* Every edge the client keeps has been told to the listeners, and once,   *)
(* when a ready client and a connected Python have exchanged all they had  *)
(* to say, whatever broke, restarted or died before: a connection is       *)
(* greeted with all edges that are kept (serve, sendReady), each edge goes *)
(* out as it happens, and a number that was told is not told again         *)
(* (_on_lifecycle_event).                                                  *)
THEOREM EdgesAreTold == Spec => []EdgesTold
  <1>1. Init => EdgeInv
    <2> SUFFICES ASSUME Init PROVE EdgeInv
      OBVIOUS
    <2>1. told \in Seq(Edges) /\ ToldOnce
      BY DEF Init, ToldOnce
    <2>2. c.link = 0 /\ c.peer = 0 /\ py.sock = 0 /\ py.conns = 0
      BY DEF Init, StartClient, StartBody
    <2> QED
      BY <2>1, <2>2 DEF EdgeInv, Sockets, AllDue
  <1>2. Fitting /\ EdgeInv /\ [Next]_vars => EdgeInv'
    BY StepEdges
  <1>3. EdgeInv => EdgesTold
    <2> SUFFICES ASSUME EdgeInv PROVE EdgesTold
      OBVIOUS
    <2>1. ASSUME Quiet, c.ready, c.peer # 0, c.peer = c.link, NEW k \in DOMAIN c.events
          PROVE  \E j \in DOMAIN told : told[j].seq = c.events[k].seq
      <3>1. \A m : ~ In(c.out, m) /\ ~ In(tasks, m)
        BY <2>1 DEF Quiet, In
      <3> QED
        BY <2>1, <3>1 DEF EdgeInv, AllDue, Due
    <2> QED
      BY <2>1 DEF EdgeInv, ToldOnce, EdgesTold
  <1>4. Spec => Init /\ [][Next]_vars
    BY DEF Spec
  <1> QED
    BY <1>1, <1>2, <1>3, <1>4, ClientIsFit, PTL

----------------------------------------------------------------------------
(* Requests under way, in their order                                      *)

Held(w, t, a) == In(t, a) \/ In(w, a)
After(s, a, b) == \E i, j \in DOMAIN s : i < j /\ s[i] = a /\ s[j] = b
Comes(w, t, a, b) == After(t, a, b) \/ After(w, a, b) \/ (In(t, a) /\ In(w, b))

(* No request more, and none that overtakes another.                       *)
Fewer(w, t, w2, t2) ==
    /\ \A a \in Requests : Held(w2, t2, a) => Held(w, t, a)
    /\ \A a, b \in Requests : Comes(w2, t2, a, b) => Comes(w, t, a, b)

LEMMA AfterAppend ==
    ASSUME NEW S, NEW s \in Seq(S), NEW n \in S, NEW a, NEW b, After(Append(s, n), a, b)
    PROVE  After(s, a, b) \/ (In(s, a) /\ b = n)
  <1>1. /\ Len(s) \in Nat /\ DOMAIN s = 1..Len(s) /\ DOMAIN Append(s, n) = 1..(Len(s) + 1)
        /\ \A j \in 1..Len(s) : Append(s, n)[j] = s[j]
        /\ Append(s, n)[Len(s) + 1] = n
    OBVIOUS
  <1>2. PICK i \in 1..(Len(s) + 1), j \in 1..(Len(s) + 1) : i < j /\ Append(s, n)[i] = a /\ Append(s, n)[j] = b
    BY <1>1 DEF After
  <1>3. i \in 1..Len(s) /\ (j \in 1..Len(s) \/ j = Len(s) + 1)
    BY <1>1, <1>2
  <1>4. s[i] = a
    BY <1>1, <1>2, <1>3
  <1>5. CASE j = Len(s) + 1
    BY <1>1, <1>2, <1>3, <1>4, <1>5 DEF In
  <1>6. CASE j \in 1..Len(s)
    <2>1. s[j] = b
      BY <1>1, <1>2, <1>6
    <2> QED
      BY <1>1, <1>2, <1>3, <1>4, <1>6, <2>1 DEF After
  <1> QED
    BY <1>3, <1>5, <1>6

LEMMA AfterTail ==
    ASSUME NEW S, NEW s \in Seq(S), s # <<>>
    PROVE  /\ \A a, b : After(Tail(s), a, b) => After(s, a, b)
           /\ \A b : In(Tail(s), b) => After(s, Head(s), b)
  <1>1. Len(s) \in Nat /\ Len(s) # 0 /\ Len(Tail(s)) = Len(s) - 1 /\ Head(s) = s[1] /\ Tail(s) \in Seq(S)
    OBVIOUS
  <1>2. DOMAIN s = 1..Len(s) /\ DOMAIN Tail(s) = 1..(Len(s) - 1)
    BY <1>1
  <1>3. \A j \in 1..(Len(s) - 1) : Tail(s)[j] = s[j + 1] /\ j + 1 \in 1..Len(s)
    BY <1>1
  <1>4. ASSUME NEW a, NEW b, After(Tail(s), a, b)
        PROVE  After(s, a, b)
    <2>1. PICK i \in 1..(Len(s) - 1), j \in 1..(Len(s) - 1) : i < j /\ Tail(s)[i] = a /\ Tail(s)[j] = b
      BY <1>2, <1>4 DEF After
    <2>2. i + 1 < j + 1
      BY <2>1
    <2>3. s[i + 1] = a /\ s[j + 1] = b /\ i + 1 \in DOMAIN s /\ j + 1 \in DOMAIN s
      BY <1>2, <1>3, <2>1
    <2> QED
      BY <2>2, <2>3 DEF After
  <1>5. ASSUME NEW b, In(Tail(s), b)
        PROVE  After(s, Head(s), b)
    <2>1. PICK j \in 1..(Len(s) - 1) : Tail(s)[j] = b
      BY <1>2, <1>5 DEF In
    <2>2. 1 < j + 1 /\ 1 \in DOMAIN s
      BY <1>1, <1>2, <2>1
    <2>3. s[j + 1] = b /\ j + 1 \in DOMAIN s
      BY <1>2, <1>3, <2>1
    <2> QED
      BY <1>1, <2>2, <2>3 DEF After
  <1> QED
    BY <1>4, <1>5

LEMMA AfterPrefix ==
    ASSUME NEW S, NEW s \in Seq(S), NEW t \in Prefixes(s)
    PROVE  /\ \A a : In(t, a) => In(s, a)
           /\ \A a, b : After(t, a, b) => After(s, a, b)
  <1>1. PICK k \in 0..Len(s) : t = SubSeq(s, 1, k)
    BY DEF Prefixes
  <1>2. Len(s) \in Nat /\ DOMAIN s = 1..Len(s) /\ DOMAIN t = 1..k /\ \A j \in 1..k : t[j] = s[j]
    BY <1>1
  <1>3. \A j \in DOMAIN t : j \in DOMAIN s /\ t[j] = s[j]
    BY <1>2
  <1> QED
    BY <1>3 DEF In, After

LEMMA NoticeFewer ==
    ASSUME NEW w, NEW t \in Seq(Requests \cup Notices), NEW n \in Notices
    PROVE  Fewer(w, t, w, Append(t, n))
  <1>1. \A a \in Requests : a # n
    BY DEF Requests, Notices, RequestTypes
  <1>2. PICK s : s = Append(t, n)
    OBVIOUS
  <1>3. \A m : In(s, m) <=> In(t, m) \/ m = n
    BY <1>2, InAppend
  <1>4. \A a, b : After(s, a, b) => After(t, a, b) \/ (In(t, a) /\ b = n)
    BY <1>2, AfterAppend
  <1> QED
    BY <1>1, <1>2, <1>3, <1>4 DEF Fewer, Held, Comes

LEMMA ReadFewer ==
    ASSUME NEW w \in Seq(Requests), NEW t \in Seq(Requests \cup Notices), w # <<>>
    PROVE  Fewer(w, t, Tail(w), Append(t, Head(w)))
  <1>1. PICK h \in Requests, v \in Seq(Requests) : h = Head(w) /\ v = Tail(w)
    BY InTail
  <1>2. \A m : In(w, m) <=> m = h \/ In(v, m)
    BY <1>1, InTail
  <1>3. /\ \A a, b : After(v, a, b) => After(w, a, b)
        /\ \A b : In(v, b) => After(w, h, b)
    BY <1>1, AfterTail
  <1>4. PICK s : s = Append(t, h)
    OBVIOUS
  <1>5. \A m : In(s, m) <=> In(t, m) \/ m = h
    BY <1>1, <1>4, InAppend
  <1>6. \A a, b : After(s, a, b) => After(t, a, b) \/ (In(t, a) /\ b = h)
    BY <1>1, <1>4, AfterAppend
  <1>7. Fewer(w, t, v, s)
    BY <1>2, <1>3, <1>5, <1>6 DEF Fewer, Held, Comes
  <1> QED
    BY <1>1, <1>4, <1>7

LEMMA TailFewer ==
    ASSUME NEW w, NEW t \in Seq(Requests \cup Notices), t # <<>>
    PROVE  /\ Fewer(w, t, w, Tail(t))
           /\ \A b : Held(w, Tail(t), b) => Comes(w, t, Head(t), b)
           /\ Held(w, t, Head(t))
  <1>1. PICK h, v : h = Head(t) /\ v = Tail(t)
    OBVIOUS
  <1>2. \A m : In(t, m) <=> m = h \/ In(v, m)
    BY <1>1, InTail
  <1>3. /\ \A a, b : After(v, a, b) => After(t, a, b)
        /\ \A b : In(v, b) => After(t, h, b)
    BY <1>1, AfterTail
  <1>4. /\ Fewer(w, t, w, v)
        /\ \A b : Held(w, v, b) => Comes(w, t, h, b)
        /\ Held(w, t, h)
    BY <1>2, <1>3 DEF Fewer, Held, Comes
  <1> QED
    BY <1>1, <1>4

LEMMA PrefixFewer ==
    ASSUME NEW w \in Seq(Requests), NEW t, NEW v \in Prefixes(w)
    PROVE  Fewer(w, t, v, t)
  <1>1. /\ \A a : In(v, a) => In(w, a)
        /\ \A a, b : After(v, a, b) => After(w, a, b)
    BY AfterPrefix
  <1> QED
    BY <1>1 DEF Fewer, Held, Comes

LEMMA SentLast ==
    ASSUME NEW w \in Seq(Requests), NEW t, NEW m \in Requests
    PROVE  /\ \A a : Held(Append(w, m), t, a) => Held(w, t, a) \/ a = m
           /\ \A a, b : Comes(Append(w, m), t, a, b) => Comes(w, t, a, b) \/ (b = m /\ Held(w, t, a))
  <1>1. PICK v : v = Append(w, m)
    OBVIOUS
  <1>2. \A n : In(v, n) <=> In(w, n) \/ n = m
    BY <1>1, InAppend
  <1>3. \A a, b : After(v, a, b) => After(w, a, b) \/ (In(w, a) /\ b = m)
    BY <1>1, AfterAppend
  <1>4. /\ \A a : Held(v, t, a) => Held(w, t, a) \/ a = m
        /\ \A a, b : Comes(v, t, a, b) => Comes(w, t, a, b) \/ (b = m /\ Held(w, t, a))
    BY <1>2, <1>3 DEF Held, Comes
  <1> QED
    BY <1>1, <1>4

----------------------------------------------------------------------------
(* The holder of the Body                                                  *)

(* An order of the connection that Python has, under way or being obeyed.  *)
Live(x, p) == p.sock # 0 /\ x.link = p.sock
Abroad(x, p, w, t, i) ==
    \/ \E a \in Requests : Held(w, t, a) /\ a.type = "command" /\ a.id = i /\ a.conn = p.sock
    \/ x.run.id = i /\ x.run.stop = "no" /\ x.run.peer = p.sock

Said(x, p, n) == In(x.out, n) \/ n \in p.got
Sent(p, i) == p.at[i] \in {"waiting", "done"}
Over(x, p, w, t, i) ==
    /\ Sent(p, i) /\ x.run.id # i
    /\ \A a \in Requests : Held(w, t, a) /\ a.type = "command" => a.id # i

\* A call that was sent after the reading of the state was asked for.
Fresh(p, i) == p.at[i] = "waiting" /\ i \notin p.since

(* A call under way is the active one.                                     *)
PyInv(p) ==
    /\ p.active # None => p.at[p.active] # "new"
    /\ \A i \in Ids : p.at[i] \in {"begun", "ready", "send", "waiting"} => p.active = i
    /\ \A i \in p.since : Sent(p, i)

(* Connections, commands and readings are numbered and used once.          *)
Counted(x, p, w, t) ==
    /\ Running(x) => x.run.peer # 0 /\ x.run.peer <= p.conns
    /\ \A a \in Requests : Held(w, t, a) => a.conn # 0 /\ a.conn <= p.conns
    /\ p.broken /\ p.sock # 0 => x.link # p.sock
Once(x, p, w, t) ==
    /\ \A a, b \in Requests : Comes(w, t, a, b) /\ a.type = "command" /\ b.type = "command" => a.id # b.id
    /\ \A a \in Requests : Held(w, t, a) /\ a.type = "command" => x.run.id # a.id /\ Sent(p, a.id)
    /\ Running(x) => Sent(p, x.run.id)
Numbered(x, p, w, t) ==
    /\ p.sock # 0 =>
          \A a \in Requests : Held(w, t, a) /\ a.type = "state" /\ a.conn = p.sock =>
              \A k \in Nat : a.id = -k => k <= p.asks
    /\ \A n \in Messages : Said(x, p, n) /\ n.type = "state" => \A k \in Nat : n.id = -k => k <= p.asks

(* What was answered is over: a terminal, and a rejection unless the call  *)
(* was canceled before it was sent.                                        *)
Answered(x, p, w, t) ==
    \A n \in Messages :
        Said(x, p, n) /\ (n.type = "terminal" \/ (n.type = "rejected" /\ n.id \in Ids /\ n.id \notin p.early)) =>
            Over(x, p, w, t, n.id)
Canceled(x, p, w, t) ==
    p.sock # 0 =>
        \A a \in Requests :
            Held(w, t, a) /\ a.type = "cancel" /\ a.conn = p.sock /\ a.id \notin p.early =>
                /\ Sent(p, a.id)
                /\ \A b \in Requests : Comes(w, t, a, b) /\ b.type = "command" => b.id # a.id

(* The order abroad is the holder's; when the reading that is asked for    *)
(* finds the client free, every order still abroad was sent after it.      *)
Holds(x, p, w, t) ==
    Live(x, p) => \A i \in Ids : Abroad(x, p, w, t, i) /\ i \notin p.early => p.active = i
Behind(x, p, w, t) ==
    Live(x, p) /\ p.ask # "no" =>
        \A a, b \in Requests :
            /\ Comes(w, t, a, b) /\ a.type = "state" /\ a.id = -p.asks /\ a.conn = p.sock
            /\ b.type = "command" /\ b.conn = p.sock /\ b.id \notin p.early
            => Fresh(p, b.id)
Free(x, p, w, t) ==
    Live(x, p) /\ p.ask # "no" =>
        \A n \in Messages :
            Said(x, p, n) /\ n.type = "state" /\ n.id = -p.asks /\ n.says.active = None =>
                \A i \in Ids : Abroad(x, p, w, t, i) /\ i \notin p.early => Fresh(p, i)

HolderInv(x, p, w, t) ==
    /\ PyInv(p) /\ Counted(x, p, w, t) /\ Once(x, p, w, t) /\ Numbered(x, p, w, t)
    /\ Answered(x, p, w, t) /\ Canceled(x, p, w, t)
    /\ Holds(x, p, w, t) /\ Behind(x, p, w, t) /\ Free(x, p, w, t)

(* The client goes on with its action, or ends it.                         *)
Follows(x, y) ==
    /\ y.link = x.link
    /\ Running(y) => /\ y.run.id = x.run.id /\ y.run.peer = x.run.peer
                     /\ y.run.stop = "no" => x.run.stop = "no"
    /\ \A n : In(y.out, n) => \/ In(x.out, n)
                              \/ n.type \in {"edge", "ready"}
                              \/ n.type = "terminal" /\ n.id = x.run.id /\ Running(x) /\ ~ Running(y)

LEMMA FollowsAbroad ==
    ASSUME NEW x, NEW y, NEW p, NEW w, NEW t, NEW w2, NEW t2, Fewer(w, t, w2, t2), Follows(x, y),
           NEW i \in Ids, Abroad(y, p, w2, t2, i)
    PROVE  Abroad(x, p, w, t, i)
  <1>1. CASE \E a \in Requests : Held(w2, t2, a) /\ a.type = "command" /\ a.id = i /\ a.conn = p.sock
    BY <1>1 DEF Fewer, Abroad
  <1>2. CASE y.run.id = i /\ y.run.stop = "no" /\ y.run.peer = p.sock
    BY <1>2, CallsAssumption DEF Follows, Running, Abroad
  <1> QED
    BY <1>1, <1>2 DEF Abroad

LEMMA FollowsHolds ==
    ASSUME NEW x, NEW y, NEW p, NEW w, NEW t, NEW w2, NEW t2,
           HolderInv(x, p, w, t), Follows(x, y), Fewer(w, t, w2, t2)
    PROVE  HolderInv(y, p, w2, t2)
  <1>1. PyInv(p)
    BY DEF HolderInv
  <1>2. Counted(y, p, w2, t2)
    BY DEF HolderInv, Counted, Follows, Fewer, Running
  <1>3. Once(y, p, w2, t2)
    <2>1. ASSUME NEW a \in Requests, Held(w2, t2, a), a.type = "command"
          PROVE  y.run.id # a.id /\ Sent(p, a.id)
      <3>1. x.run.id # a.id /\ Sent(p, a.id) /\ a.id # None
        BY <2>1, CallsAssumption DEF HolderInv, Once, Fewer, Requests
      <3> QED
        BY <3>1 DEF Follows, Running
    <2>2. \A a, b \in Requests : Comes(w2, t2, a, b) /\ a.type = "command" /\ b.type = "command" => a.id # b.id
      BY DEF HolderInv, Once, Fewer
    <2>3. Running(y) => Sent(p, y.run.id)
      BY DEF HolderInv, Once, Follows, Running
    <2> QED
      BY <2>1, <2>2, <2>3 DEF Once
  <1>4. \A n : Said(y, p, n) => \/ Said(x, p, n)
                                \/ n.type \in {"edge", "ready"}
                                \/ n.type = "terminal" /\ n.id = x.run.id /\ Running(x) /\ ~ Running(y)
    BY DEF Said, Follows
  <1>5. Numbered(y, p, w2, t2)
    BY <1>4 DEF HolderInv, Numbered, Fewer
  <1>6. Answered(y, p, w2, t2)
    <2>1. ASSUME NEW n \in Messages, Said(y, p, n),
                 n.type = "terminal" \/ (n.type = "rejected" /\ n.id \in Ids /\ n.id \notin p.early)
          PROVE  Over(y, p, w2, t2, n.id)
      <3>1. CASE Said(x, p, n)
        <4>1. Over(x, p, w, t, n.id)
          BY <2>1, <3>1 DEF HolderInv, Answered
        <4>2. n.id # None
          BY <2>1, TerminalTyped, CallsAssumption
        <4>3. y.run.id # n.id
          BY <4>1, <4>2 DEF Over, Follows, Running
        <4> QED
          BY <4>1, <4>3 DEF Over, Fewer
      <3>2. CASE n.id = x.run.id /\ Running(x) /\ ~ Running(y)
        <4>1. Sent(p, n.id) /\ \A a \in Requests : Held(w, t, a) /\ a.type = "command" => a.id # n.id
          BY <3>2 DEF HolderInv, Once
        <4>2. y.run.id # n.id
          BY <3>2 DEF Running
        <4> QED
          BY <4>1, <4>2 DEF Over, Fewer
      <3> QED
        BY <1>4, <2>1, <3>1, <3>2
    <2> QED
      BY <2>1 DEF Answered
  <1>7. Canceled(y, p, w2, t2)
    BY DEF HolderInv, Canceled, Fewer
  <1>8. \A i \in Ids : Abroad(y, p, w2, t2, i) => Abroad(x, p, w, t, i)
    BY FollowsAbroad
  <1>9. Live(y, p) => Live(x, p)
    BY DEF Live, Follows
  <1>10. Holds(y, p, w2, t2)
    BY <1>8, <1>9 DEF HolderInv, Holds
  <1>11. Behind(y, p, w2, t2)
    BY <1>9 DEF HolderInv, Behind, Fewer
  <1>12. Free(y, p, w2, t2)
    <2>1. ASSUME NEW n \in Messages, Said(y, p, n), n.type = "state"
          PROVE  Said(x, p, n)
      BY <1>4, <2>1
    <2> QED
      BY <1>8, <1>9, <2>1 DEF HolderInv, Free
  <1> QED
    BY <1>1, <1>2, <1>3, <1>5, <1>6, <1>7, <1>10, <1>11, <1>12 DEF HolderInv

(* What the client does with a request: it goes on, rejects it, answers a  *)
(* reading, or begins.                                                     *)
Answers1(x, m, n) == m.conn # 0 /\ m.conn = x.link /\ n.id = m.id
Rejects(x, y, m) ==
    /\ m.type = "command" \/ (m.type = "cancel" /\ x.run.id # m.id)
    /\ y.run = x.run /\ y.link = x.link
    /\ \A n : In(y.out, n) => In(x.out, n) \/ (n.type = "rejected" /\ Answers1(x, m, n))
Replied(x, y, m) ==
    /\ m.type = "state" /\ y.run = x.run /\ y.link = x.link
    /\ \A n : In(y.out, n) => \/ In(x.out, n)
                              \/ n.type = "state" /\ Answers1(x, m, n) /\ n.says.active = x.run.id
Begins(x, y, m) ==
    /\ m.type = "command" /\ ~ Running(x)
    /\ y.run.id = m.id /\ y.run.peer = m.conn /\ y.link = x.link /\ y.out = x.out

LEMMA GoesFollows ==
    ASSUME NEW x, NEW y, Goes(x, y)
    PROVE  Follows(x, y)
  BY DEF Goes, Sends, Follows

LEMMA CalmFollows ==
    ASSUME NEW x, NEW y, y.run = x.run, y.link = x.link, y.out = x.out
    PROVE  Follows(x, y)
  BY DEF Follows

LEMMA RejectSays ==
    ASSUME NEW x, Fit(x), NEW m \in Requests, m.type = "command" \/ (m.type = "cancel" /\ x.run.id # m.id)
    PROVE  Rejects(x, Reject(x, m), m)
  <1>1. PICK e : e = [type |-> "rejected", id |-> m.id]
    OBVIOUS
  <1>2. m.id \in Ids \cup {None} \cup Int /\ x \in Clients
    BY DEF Requests, Numbers, Fit
  <1>3. e \in Messages
    BY <1>1, <1>2, MessageKinds DEF Rejections
  <1>4. PICK y : y = Send(x, m.conn, e)
    OBVIOUS
  <1>5. Alike(x, y) /\ \A n : In(y.out, n) => In(x.out, n) \/ n = e
    BY <1>2, <1>3, <1>4, Says
  <1>6. e.type = "rejected" /\ e.id = m.id
    BY <1>1
  <1>7. Reject(x, m) = y
    BY <1>1, <1>4 DEF Reject
  <1>8. CASE m.conn # 0 /\ m.conn = x.link
    BY <1>5, <1>6, <1>7, <1>8 DEF Rejects, Alike, Answers1
  <1>9. CASE ~ (m.conn # 0 /\ m.conn = x.link)
    <2>1. y = x
      BY <1>4, <1>9 DEF Send
    <2> QED
      BY <1>7, <2>1 DEF Rejects
  <1> QED
    BY <1>8, <1>9

LEMMA ControlCalm ==
    ASSUME NEW x \in Clients,
           NEW y \in primitive(x) \cup builder_open(x) \cup worldRead(x) \cup close_screen(x) \cup container_read(x)
    PROVE  y.run = x.run /\ y.link = x.link /\ y.out = x.out
  <1>1. CASE y = x
    BY <1>1
  <1>2. CASE \E b : y = [x EXCEPT !.bari = b]
    BY <1>2, Columns
  <1>3. CASE y = [Bari(x) EXCEPT !.raw = TRUE]
    <2>1. y = [x EXCEPT !.bari = "on", !.raw = TRUE]
      BY <1>3, Columns DEF Bari
    <2> QED
      BY <2>1, Columns
  <1>4. CASE \E s : y = [x EXCEPT !.menu = s]
    BY <1>4, Columns
  <1>5. CASE y \in container_read(x) /\ y # x
    <2>1. PICK r : r = [x EXCEPT !.read = TRUE]
      OBVIOUS
    <2>2. y = finishMenuRead(r, FALSE) \/ y = [r EXCEPT !.menu = "asked"]
      BY <1>5, <2>1 DEF container_read, openMenu
    <2>3. finishMenuRead(r, FALSE) = [r EXCEPT !.read = FALSE]
      <3>1. DOMAIN r = DOMAIN x
        BY <2>1
      <3>2. r \in Clients
        BY <2>1, Zenon DEF Clients
      <3> QED
        BY <3>2, Columns DEF finishMenuRead
    <2>4. r \in Clients /\ r.run = x.run /\ r.link = x.link /\ r.out = x.out
      <3>1. r \in Clients
        BY <2>1, Zenon DEF Clients
      <3> QED
        BY <2>1, <3>1, Columns
    <2> QED
      BY <2>2, <2>3, <2>4, Columns, ZenonT(40)
  <1>6. \/ y = x \/ \E b : y = [x EXCEPT !.bari = b]
        \/ y = [Bari(x) EXCEPT !.raw = TRUE] \/ \E s : y = [x EXCEPT !.menu = s]
        \/ y \in container_read(x) /\ y # x
    BY DEF primitive, Alone, builder_open, worldRead, close_screen
  <1> QED
    BY <1>1, <1>2, <1>3, <1>4, <1>5, <1>6

(* The beginning of an action says nothing yet.                            *)
LEMMA StartBegins ==
    ASSUME NEW x, Fit(x), NEW m \in Requests, m.type = "command", NEW y \in start(x, m)
    PROVE  Rejects(x, y, m) \/ Begins(x, y, m)
  <1>1. CASE y = Reject(x, m)
    BY <1>1, RejectSays
  <1>2. CASE y # Reject(x, m)
    <2>1. ~ Running(x) /\ x \in Clients
      BY <1>2 DEF start, Fit
    <2>2. m.id \in Ids /\ m.kind \in KindNames /\ m.conn \in Nat /\ m.id # None
      BY CallsAssumption DEF Requests
    <2>3. PICK a : a = [NoRun EXCEPT !.id = m.id, !.kind = m.kind, !.peer = m.conn]
      OBVIOUS
    <2>4. a.id = m.id /\ a.stop = "no" /\ a.saved = {} /\ a.peer = m.conn /\ a \in Runs
      <3>1. NoRun \in Runs
        BY DEF NoRun, Runs, KindNames
      <3>2. m.id \in Ids \cup {None}
        BY <2>2
      <3>3. a \in Runs
        <4> HIDE DEF NoRun
        <4> QED
          BY <2>2, <2>3, <3>1, <3>2, Zenon DEF Runs
      <3>4. a.id = m.id /\ a.stop = "no" /\ a.saved = {} /\ a.peer = m.conn
        BY <2>3 DEF NoRun
      <3> QED
        BY <3>3, <3>4
    <2>5. PICK f : f = [x EXCEPT !.used = x.used \cup {m.id}, !.run = a]
      OBVIOUS
    <2>6. f \in Clients
      <3>1. x.used \cup {m.id} \in SUBSET Ids
        BY <2>1, <2>2 DEF Clients
      <3> QED
        BY <2>1, <2>4, <2>5, <3>1, Zenon DEF Clients
    <2>7. /\ f.run = a /\ f.changed = x.changed /\ f.keys = x.keys /\ f.bari = x.bari /\ (f.raw <=> x.raw)
          /\ f.link = x.link /\ f.out = x.out /\ Signs(x, f)
      BY <2>1, <2>5, Columns DEF Signs
    <2> DEFINE Begun(z) == /\ Fit(z) /\ Running(z) /\ z.run.stop = "no" /\ z.run.id = m.id /\ z.run.peer = m.conn
                           /\ z.link = x.link /\ z.out = x.out
    <2>8. Begun(f)
      <3>1. Fit(f)
        BY <2>1, <2>2, <2>4, <2>6, <2>7 DEF Fit, Neat, Rested, Signs, Running
      <3> QED
        BY <2>2, <2>4, <2>7, <3>1 DEF Running
    <2>9. ASSUME NEW z, Begun(z), NEW s \in Settings \ {"swim"} PROVE Begun(Save(z, s))
      BY <2>9, SaveFit
    <2>10. PICK g : g = beginAttention(f)
      OBVIOUS
    <2>11. Begun(g)
      BY <2>8, <2>9, <2>10 DEF beginAttention, Settings
    <2>12. PICK own : own = IF m.kind = "follow" THEN Save(g, "radius")
                            ELSE IF m.kind = "build" THEN Save(g, "inventory") ELSE g
      OBVIOUS
    <2>13. Begun(own)
      BY <2>9, <2>11, <2>12 DEF Settings
    <2>14. y = g \/ y = Bari(own) \/ y = requestStop(own, "failed")
      BY <1>2, <2>1, <2>3, <2>5, <2>10, <2>12 DEF start
    <2>15. own \in Clients /\ Bari(own).run = own.run /\ Bari(own).link = own.link /\ Bari(own).out = own.out
      BY <2>13, Columns DEF Fit, Bari
    <2>16. /\ requestStop(own, "failed").run.id = own.run.id /\ requestStop(own, "failed").run.peer = own.run.peer
           /\ requestStop(own, "failed").link = own.link /\ requestStop(own, "failed").out = own.out
      BY <2>13, <2>15, StoppedClient DEF Endings
    <2> QED
      BY <2>1, <2>11, <2>13, <2>14, <2>15, <2>16 DEF Begins
  <1> QED
    BY <1>1, <1>2

LEMMA HandleSays ==
    ASSUME NEW x, Fit(x), NEW m \in Requests, NEW y \in handle(x, m)
    PROVE  Follows(x, y) \/ Rejects(x, y, m) \/ Replied(x, y, m) \/ Begins(x, y, m)
  <1>1. CASE y = x
    BY <1>1, CalmFollows
  <1>2. CASE m.type = "state" /\ y # x
    <2>1. PICK e : e = [type |-> "state", id |-> m.id, says |-> State(x)]
      OBVIOUS
    <2>2. y = Send(x, m.conn, e)
      BY <1>2, <2>1 DEF handle
    <2>3. State(x) \in [active : Ids \cup {None}, still : BOOLEAN] /\ State(x).active = x.run.id /\ x \in Clients
      BY DEF State, Fit, Clients, Runs
    <2>4. m.id \in Ids \cup {None} \cup Int
      BY DEF Requests, Numbers
    <2>5. e \in Messages
      BY <2>1, <2>3, <2>4, MessageKinds DEF Replies
    <2>6. Alike(x, y) /\ \A n : In(y.out, n) => In(x.out, n) \/ n = e
      BY <2>2, <2>3, <2>5, Says
    <2>7. m.conn # 0 /\ m.conn = x.link
      BY <1>2, <2>2 DEF Send
    <2>8. e.type = "state" /\ e.id = m.id /\ e.says.active = x.run.id
      BY <2>1, <2>3
    <2> QED
      BY <1>2, <2>6, <2>7, <2>8 DEF Replied, Answers1, Alike
  <1>3. CASE m.type = "cancel" /\ y # x
    <2>1. y \in cancelAction(x, m)
      BY <1>3 DEF handle
    <2>2. CASE x.run.id = m.id /\ m.id # None
      <3>1. y = requestStop(x, "canceled")
        BY <2>1, <2>2 DEF cancelAction
      <3>2. Goes(x, requestStop(x, "canceled"))
        BY StopGoes DEF Fit, Endings
      <3> QED
        BY <3>1, <3>2, GoesFollows
    <2>3. CASE ~ (x.run.id = m.id /\ m.id # None)
      <3>1. y = Reject(x, m)
        BY <2>1, <2>3 DEF cancelAction
      <3>2. m.id \in Ids /\ m.id # None
        BY <1>3, CallsAssumption DEF Requests
      <3> QED
        BY <1>3, <2>3, <3>1, <3>2, RejectSays
    <2> QED
      BY <2>2, <2>3
  <1>4. CASE m.type = "command" /\ y # x
    <2>1. y \in start(x, m) \/ y = Reject(x, m)
      BY <1>4 DEF handle
    <2> QED
      BY <1>4, <2>1, StartBegins, RejectSays
  <1>5. CASE m.type \in {"read", "world_read", "builder_open", "stop", "close_screen"} /\ y # x
    <2>1. y \in primitive(x) \cup builder_open(x) \cup worldRead(x) \cup close_screen(x) \cup container_read(x)
      BY <1>5 DEF handle
    <2>2. x \in Clients
      BY DEF Fit
    <2> QED
      BY <2>1, <2>2, ControlCalm, CalmFollows
  <1>6. m.type \in RequestTypes
    BY DEF Requests
  <1> QED
    BY <1>1, <1>2, <1>3, <1>4, <1>5, <1>6 DEF RequestTypes

(* The invariant when the client has taken a request.                      *)
LEMMA RequestHolds ==
    ASSUME NEW x, NEW y, NEW p, NEW w, NEW t \in Seq(Requests \cup Notices), t # <<>>,
           NEW m \in Requests, m = Head(t), p.asks \in Nat,
           HolderInv(x, p, w, t), x.link \in {0, p.sock},
           Rejects(x, y, m) \/ Replied(x, y, m) \/ Begins(x, y, m)
    PROVE  HolderInv(y, p, w, Tail(t))
  <1>1. PICK t2 : t2 = Tail(t)
    OBVIOUS
  <1>2. /\ Fewer(w, t, w, t2) /\ Held(w, t, m)
        /\ \A b : Held(w, t2, b) => Comes(w, t, m, b)
    BY <1>1, TailFewer
  <1>3. y.link = x.link /\ (Live(y, p) <=> Live(x, p))
    BY DEF Rejects, Replied, Begins, Live
  <1>4. y.run = x.run \/ Begins(x, y, m)
    BY DEF Rejects, Replied
  <1>5. m.type = "command" => m.id \in Ids /\ m.id # None /\ x.run.id # m.id /\ Sent(p, m.id)
    BY <1>2, CallsAssumption DEF Requests, HolderInv, Once
  <1>6. PyInv(p)
    BY DEF HolderInv
  <1>7. Counted(y, p, w, t2)
    BY <1>2, <1>3, <1>4 DEF HolderInv, Counted, Fewer, Running, Begins
  <1>8. Once(y, p, w, t2)
    <2>1. ASSUME NEW a \in Requests, Held(w, t2, a), a.type = "command"
          PROVE  y.run.id # a.id /\ Sent(p, a.id)
      <3>1. x.run.id # a.id /\ Sent(p, a.id) /\ (m.type = "command" => m.id # a.id)
        BY <1>2, <2>1 DEF HolderInv, Once, Fewer
      <3> QED
        BY <1>4, <3>1 DEF Begins
    <2>2. \A a, b \in Requests : Comes(w, t2, a, b) /\ a.type = "command" /\ b.type = "command" => a.id # b.id
      BY <1>2 DEF HolderInv, Once, Fewer
    <2>3. Running(y) => Sent(p, y.run.id)
      BY <1>4, <1>5 DEF HolderInv, Once, Begins, Running
    <2> QED
      BY <2>1, <2>2, <2>3 DEF Once
  <1>9. ASSUME NEW n \in Messages, Said(y, p, n), ~ Said(x, p, n)
        PROVE  /\ m.conn = x.link /\ x.link = p.sock /\ p.sock # 0 /\ n.id = m.id
               /\ \/ n.type = "rejected" /\ Rejects(x, y, m)
                  \/ n.type = "state" /\ Replied(x, y, m) /\ n.says.active = x.run.id
    BY <1>9 DEF Said, Rejects, Replied, Begins, Answers1
  <1>10. Numbered(y, p, w, t2)
    <2>1. p.sock # 0 =>
            \A a \in Requests : Held(w, t2, a) /\ a.type = "state" /\ a.conn = p.sock =>
                \A k \in Nat : a.id = -k => k <= p.asks
      BY <1>2 DEF HolderInv, Numbered, Fewer
    <2>2. ASSUME NEW n \in Messages, Said(y, p, n), n.type = "state", NEW k \in Nat, n.id = -k
          PROVE  k <= p.asks
      <3>1. CASE Said(x, p, n)
        BY <2>2, <3>1 DEF HolderInv, Numbered
      <3>2. CASE ~ Said(x, p, n)
        <4>1. m.type = "state" /\ m.conn = p.sock /\ p.sock # 0 /\ m.id = -k
          BY <1>9, <2>2, <3>2 DEF Replied
        <4> QED
          BY <1>2, <4>1 DEF HolderInv, Numbered
      <3> QED
        BY <3>1, <3>2
    <2> QED
      BY <2>1, <2>2 DEF Numbered
  <1>11. Answered(y, p, w, t2)
    <2>1. ASSUME NEW n \in Messages, Said(y, p, n),
                 n.type = "terminal" \/ (n.type = "rejected" /\ n.id \in Ids /\ n.id \notin p.early)
          PROVE  Over(y, p, w, t2, n.id)
      <3>1. CASE Said(x, p, n)
        <4>1. Over(x, p, w, t, n.id)
          BY <2>1, <3>1 DEF HolderInv, Answered
        <4>2. m.type = "command" => m.id # n.id
          BY <1>2, <4>1 DEF Over
        <4>3. y.run.id # n.id
          BY <1>4, <4>1, <4>2 DEF Over, Begins
        <4> QED
          BY <1>2, <4>1, <4>3 DEF Over, Fewer
      <3>2. CASE ~ Said(x, p, n)
        <4>1. /\ n.type = "rejected" /\ n.id = m.id /\ m.conn = p.sock /\ p.sock # 0
              /\ y.run = x.run /\ m.type \in {"command", "cancel"}
              /\ m.type = "cancel" => x.run.id # m.id
          BY <1>9, <2>1, <3>2 DEF Rejects
        <4>2. CASE m.type = "command"
          <5>1. \A a \in Requests : Held(w, t2, a) /\ a.type = "command" => a.id # m.id
            BY <1>2, <4>2 DEF HolderInv, Once
          <5> QED
            BY <1>5, <4>1, <4>2, <5>1 DEF Over
        <4>3. CASE m.type = "cancel"
          <5>1. m.id \notin p.early
            BY <2>1, <4>1
          <5>2. /\ Sent(p, m.id)
                /\ \A b \in Requests : Comes(w, t, m, b) /\ b.type = "command" => b.id # m.id
            BY <1>2, <4>1, <4>3, <5>1 DEF HolderInv, Canceled
          <5>3. \A a \in Requests : Held(w, t2, a) /\ a.type = "command" => a.id # m.id
            BY <1>2, <5>2
          <5> QED
            BY <4>1, <4>3, <5>2, <5>3 DEF Over
        <4> QED
          BY <4>1, <4>2, <4>3
      <3> QED
        BY <3>1, <3>2
    <2> QED
      BY <2>1 DEF Answered
  <1>12. Canceled(y, p, w, t2)
    BY <1>2 DEF HolderInv, Canceled, Fewer
  <1>13. ASSUME NEW i \in Ids, Abroad(y, p, w, t2, i) PROVE Abroad(x, p, w, t, i)
    <2>1. CASE \E a \in Requests : Held(w, t2, a) /\ a.type = "command" /\ a.id = i /\ a.conn = p.sock
      BY <1>2, <2>1 DEF Fewer, Abroad
    <2>2. CASE y.run.id = i /\ y.run.stop = "no" /\ y.run.peer = p.sock
      BY <1>2, <1>4, <2>2 DEF Begins, Abroad
    <2> QED
      BY <1>13, <2>1, <2>2 DEF Abroad
  <1>14. Holds(y, p, w, t2)
    BY <1>3, <1>13 DEF HolderInv, Holds
  <1>15. Behind(y, p, w, t2)
    BY <1>2, <1>3 DEF HolderInv, Behind, Fewer
  <1>16. Free(y, p, w, t2)
    <2>1. ASSUME Live(y, p), p.ask # "no", NEW n \in Messages, Said(y, p, n), n.type = "state",
                 n.id = -p.asks, n.says.active = None, NEW i \in Ids, Abroad(y, p, w, t2, i), i \notin p.early
          PROVE  Fresh(p, i)
      <3>1. CASE Said(x, p, n)
        BY <1>3, <1>13, <2>1, <3>1 DEF HolderInv, Free
      <3>2. CASE ~ Said(x, p, n)
        <4>1. /\ m.type = "state" /\ m.id = -p.asks /\ m.conn = p.sock
              /\ y.run = x.run /\ x.run.id = None
          BY <1>9, <2>1, <3>2 DEF Replied
        <4>2. PICK a \in Requests : Held(w, t2, a) /\ a.type = "command" /\ a.id = i /\ a.conn = p.sock
          BY <2>1, <4>1, CallsAssumption DEF Abroad
        <4>3. Comes(w, t, m, a)
          BY <1>2, <4>2
        <4> QED
          BY <1>3, <2>1, <4>1, <4>2, <4>3 DEF HolderInv, Behind
      <3> QED
        BY <3>1, <3>2
    <2> QED
      BY <2>1 DEF Free
  <1>17. HolderInv(y, p, w, t2)
    BY <1>6, <1>7, <1>8, <1>10, <1>11, <1>12, <1>14, <1>15, <1>16 DEF HolderInv
  <1> QED
    BY <1>1, <1>17

(* The invariant when messages are taken, and when the link is gone.       *)
LEMMA SaysLess ==
    ASSUME NEW x, NEW y, NEW p, NEW q, NEW w, NEW t, HolderInv(x, p, w, t),
           y.run = x.run, y.link = x.link,
           q.sock = p.sock, q.conns = p.conns, q.active = p.active, q.at = p.at, q.ask = p.ask,
           q.asks = p.asks, q.since = p.since, q.early = p.early,
           q.broken => p.broken \/ ~ Live(x, p) \/ p.sock = 0,
           \A n : Said(y, q, n) => Said(x, p, n)
    PROVE  HolderInv(y, q, w, t)
  <1>1. Live(y, q) <=> Live(x, p)
    BY DEF Live
  <1>2. \A i \in Ids : Abroad(y, q, w, t, i) => Abroad(x, p, w, t, i)
    BY DEF Abroad
  <1>3. \A i : (Sent(q, i) <=> Sent(p, i)) /\ (Fresh(q, i) <=> Fresh(p, i))
    BY DEF Sent, Fresh
  <1>4. PyInv(q)
    BY <1>3 DEF HolderInv, PyInv
  <1>5. Counted(y, q, w, t)
    BY DEF HolderInv, Counted, Running, Live
  <1>6. Once(y, q, w, t)
    BY <1>3 DEF HolderInv, Once, Running
  <1>7. Numbered(y, q, w, t)
    BY DEF HolderInv, Numbered
  <1>8. Answered(y, q, w, t)
    BY <1>3 DEF HolderInv, Answered, Over
  <1>9. Canceled(y, q, w, t)
    BY <1>3 DEF HolderInv, Canceled
  <1>10. Holds(y, q, w, t)
    BY <1>1, <1>2 DEF HolderInv, Holds
  <1>11. Behind(y, q, w, t)
    BY <1>1, <1>3 DEF HolderInv, Behind
  <1>12. Free(y, q, w, t)
    BY <1>1, <1>2, <1>3 DEF HolderInv, Free
  <1> QED
    BY <1>4, <1>5, <1>6, <1>7, <1>8, <1>9, <1>10, <1>11, <1>12 DEF HolderInv

LEMMA CutHolds ==
    ASSUME NEW x \in Clients, NEW y, NEW p, NEW q, NEW w, NEW w2, NEW t,
           HolderInv(x, p, w, t), Fewer(w, t, w2, t),
           y.run = x.run, y.link = 0,
           PyInv(q), q.conns = p.conns, q.sock \in {0, p.sock}, \A i \in Ids : Sent(p, i) => Sent(q, i),
           \/ q.asks = p.asks /\ q.early = p.early /\ \A n : Said(y, q, n) => Said(x, p, n)
           \/ q.sock = 0 /\ \A n : ~ Said(y, q, n)
    PROVE  HolderInv(y, q, w2, t)
  <1>1. ~ Live(y, q)
    BY DEF Live
  <1>2. \A a \in Requests : a.type = "command" => a.id \in Ids
    BY DEF Requests
  <1>3. Counted(y, q, w2, t)
    BY DEF HolderInv, Counted, Running, Fewer
  <1>4. Once(y, q, w2, t)
    <2>1. \A a \in Requests : Held(w2, t, a) /\ a.type = "command" => y.run.id # a.id /\ Sent(q, a.id)
      BY <1>2 DEF HolderInv, Once, Fewer
    <2>2. Running(y) => Sent(q, y.run.id)
      <3>1. Running(x) => x.run.id \in Ids /\ Sent(p, x.run.id)
        BY DEF HolderInv, Once, Running, Clients, Runs
      <3> QED
        BY <3>1 DEF Running
    <2>3. \A a, b \in Requests : Comes(w2, t, a, b) /\ a.type = "command" /\ b.type = "command" => a.id # b.id
      BY DEF HolderInv, Once, Fewer
    <2> QED
      BY <2>1, <2>2, <2>3 DEF Once
  <1>5. Numbered(y, q, w2, t)
    BY DEF HolderInv, Numbered, Fewer
  <1>6. Answered(y, q, w2, t)
    <2>1. ASSUME NEW n \in Messages, Said(y, q, n),
                 n.type = "terminal" \/ (n.type = "rejected" /\ n.id \in Ids /\ n.id \notin q.early)
          PROVE  Over(y, q, w2, t, n.id)
      <3>1. Over(x, p, w, t, n.id)
        BY <2>1 DEF HolderInv, Answered
      <3>2. n.id \in Ids
        BY <2>1, TerminalTyped
      <3> QED
        BY <3>1, <3>2 DEF Over, Fewer
    <2> QED
      BY <2>1 DEF Answered
  <1>7. Canceled(y, q, w2, t)
    <2>1. ASSUME q.sock # 0, NEW a \in Requests, Held(w2, t, a), a.type = "cancel", a.conn = q.sock,
                 a.id \notin q.early
          PROVE  /\ Sent(q, a.id)
                 /\ \A b \in Requests : Comes(w2, t, a, b) /\ b.type = "command" => b.id # a.id
      <3>1. a.id \in Ids /\ p.sock # 0 /\ a.conn = p.sock /\ a.id \notin p.early
        BY <2>1 DEF Requests
      <3> QED
        BY <2>1, <3>1 DEF HolderInv, Canceled, Fewer
    <2> QED
      BY <2>1 DEF Canceled
  <1> QED
    BY <1>1, <1>3, <1>4, <1>5, <1>6, <1>7 DEF HolderInv, Holds, Behind, Free

(* A connection that is made has nothing under way.                        *)
LEMMA NewHolds ==
    ASSUME NEW x \in Clients, NEW y, NEW p \in Pys, NEW q, NEW w, NEW t, HolderInv(x, p, w, t),
           y.run = x.run, y.link = p.conns + 1, y.out = <<>>,
           q.sock = p.conns + 1, q.conns = p.conns + 1, q.broken = FALSE, q.got = {},
           q.active = p.active, q.at = p.at, q.ask = p.ask, q.asks = p.asks, q.since = p.since,
           q.early = p.early
    PROVE  HolderInv(y, q, w, t)
  <1>1. \A n : ~ Said(y, q, n)
    BY DEF Said, In
  <1>2. p.conns \in Nat
    BY DEF Pys
  <1>3. \A a \in Requests : Held(w, t, a) => a.conn \in Nat /\ a.conn # 0 /\ a.conn <= p.conns
    BY DEF HolderInv, Counted, Requests
  <1>4. \A a \in Requests : Held(w, t, a) => a.conn # q.sock /\ a.conn <= q.conns
    BY <1>2, <1>3
  <1>5. \A i : (Sent(q, i) <=> Sent(p, i))
    BY DEF Sent
  <1>6. PyInv(q)
    BY <1>5 DEF HolderInv, PyInv
  <1>7. Running(y) => y.run.peer # 0 /\ y.run.peer <= p.conns
    BY DEF HolderInv, Counted, Running
  <1>8. Running(y) => y.run.peer # q.sock /\ y.run.peer <= q.conns
    <2>1. x.run.peer \in Nat
      BY DEF Clients, Runs
    <2> QED
      BY <1>2, <1>7, <2>1
  <1>9. Counted(y, q, w, t)
    BY <1>3, <1>4, <1>7, <1>8 DEF Counted
  <1>10. Once(y, q, w, t)
    BY <1>5 DEF HolderInv, Once, Running
  <1>11. Numbered(y, q, w, t) /\ Answered(y, q, w, t) /\ Canceled(y, q, w, t)
    BY <1>1, <1>4 DEF Numbered, Answered, Canceled
  <1>12. \A i \in Ids : ~ Abroad(y, q, w, t, i)
    <2>1. \A i \in Ids : y.run.id = i => Running(y)
      BY CallsAssumption DEF Running
    <2> QED
      BY <1>4, <1>8, <2>1 DEF Abroad
  <1>13. Holds(y, q, w, t) /\ Free(y, q, w, t)
    BY <1>12 DEF Holds, Free
  <1>14. Behind(y, q, w, t)
    <2>1. \A a, b : Comes(w, t, a, b) => Held(w, t, a)
      BY DEF Comes, Held, After, In
    <2> QED
      BY <1>4, <2>1 DEF Behind
  <1> QED
    BY <1>6, <1>9, <1>10, <1>11, <1>13, <1>14 DEF HolderInv

LEMMA ConnectHolds ==
    ASSUME Fitting, Sockets, HolderInv(c, py, wire, tasks), NEW p, p = connect(py), Connected(p)
    PROVE  HolderInv(c', p, wire, tasks) /\ p \in Pys /\ p.sock # 0 /\ p.sock = p.conns
  <1>1. py \in Pys /\ c \in Clients
    BY DEF Fitting, Fit
  <1>2. p \in Pys /\ p.sock # 0
    BY <1>1, ConnectTyped
  <1>3. CASE py.sock # 0
    <2>1. p = py /\ c' = c
      BY <1>1, <1>3, ConnectTyped DEF Connected
    <2> QED
      BY <1>2, <1>3, <2>1 DEF Sockets
  <1>4. CASE py.sock = 0
    <2>1. PICK n \in Nat : n = py.conns + 1
      BY <1>1 DEF Pys
    <2>2. p = [py EXCEPT !.sock = n, !.conns = n, !.broken = FALSE, !.got = {}]
      BY <1>1, <1>4, <2>1, PyColumns DEF connect
    <2>3. /\ p.sock = n /\ p.conns = n /\ p.broken = FALSE /\ p.got = {}
          /\ p.active = py.active /\ p.at = py.at /\ p.ask = py.ask /\ p.asks = py.asks /\ p.since = py.since
          /\ p.early = py.early
      BY <1>1, <2>2, PyColumns
    <2>4. c' = [c EXCEPT !.link = n, !.out = <<>>]
      BY <1>2, <1>4, <2>3 DEF Connected
    <2>5. c'.run = c.run /\ c'.link = n /\ c'.out = <<>>
      BY <1>1, <2>4, Columns
    <2>6. HolderInv(c', p, wire, tasks)
      BY <1>1, <2>1, <2>3, <2>5, NewHolds
    <2> QED
      BY <1>2, <2>3, <2>6
  <1> QED
    BY <1>3, <1>4

(* The invariant when the Body in Python changes and nothing is sent.  It  *)
(* lets go of no order that is abroad, and forgets of none that it is      *)
(* newer than the reading.                                                 *)
LEMMA PyHolds ==
    ASSUME NEW x, NEW p, NEW q, NEW w, NEW t, HolderInv(x, p, w, t), PyInv(q), SameSock(p, q),
           q.broken <=> p.broken, q.got \subseteq p.got, p.early \subseteq q.early,
           \A i \in Ids : Sent(p, i) => Sent(q, i), x.run.id \in Ids \cup {None},
           q.asks = p.asks, q.ask = p.ask \/ q.ask = "no",
           \A i \in Ids : Live(x, p) /\ Abroad(x, p, w, t, i) /\ i \notin p.early =>
               /\ p.active = i => q.active = i
               /\ q.ask # "no" /\ Fresh(p, i) => Fresh(q, i)
    PROVE  HolderInv(x, q, w, t)
  <1>1. Live(x, q) <=> Live(x, p)
    BY DEF Live, SameSock
  <1>2. \A i : Abroad(x, q, w, t, i) <=> Abroad(x, p, w, t, i)
    BY DEF Abroad, SameSock
  <1>3. \A n : Said(x, q, n) => Said(x, p, n)
    BY DEF Said
  <1>4. \A a \in Requests : a.type \in {"command", "cancel"} => a.id \in Ids
    BY DEF Requests
  <1>5. Counted(x, q, w, t)
    BY DEF HolderInv, Counted, SameSock
  <1>6. Once(x, q, w, t)
    BY <1>4 DEF HolderInv, Once, Running
  <1>7. Numbered(x, q, w, t)
    BY <1>3 DEF HolderInv, Numbered, SameSock
  <1>8. Answered(x, q, w, t)
    <2>1. ASSUME NEW n \in Messages, Said(x, q, n),
                 n.type = "terminal" \/ (n.type = "rejected" /\ n.id \in Ids /\ n.id \notin q.early)
          PROVE  Over(x, q, w, t, n.id)
      <3>1. Over(x, p, w, t, n.id)
        BY <1>3, <2>1 DEF HolderInv, Answered
      <3>2. n.id \in Ids
        BY <2>1, TerminalTyped
      <3> QED
        BY <3>1, <3>2 DEF Over
    <2> QED
      BY <2>1 DEF Answered
  <1>9. Canceled(x, q, w, t)
    BY <1>4 DEF HolderInv, Canceled, SameSock
  <1>10. Holds(x, q, w, t)
    BY <1>1, <1>2 DEF HolderInv, Holds
  <1>11. Behind(x, q, w, t)
    <2>1. ASSUME Live(x, q), q.ask # "no", NEW a \in Requests, NEW b \in Requests,
                 Comes(w, t, a, b), a.type = "state", a.id = -q.asks, a.conn = q.sock,
                 b.type = "command", b.conn = q.sock, b.id \notin q.early
          PROVE  Fresh(q, b.id)
      <3>1. Held(w, t, b)
        BY <2>1 DEF Comes, Held, After, In
      <3>2. Abroad(x, p, w, t, b.id) /\ b.id \in Ids /\ b.id \notin p.early
        BY <1>4, <2>1, <3>1 DEF Abroad, SameSock
      <3>3. Fresh(p, b.id)
        BY <1>1, <2>1, <3>2 DEF HolderInv, Behind, SameSock
      <3> QED
        BY <1>1, <2>1, <3>2, <3>3
    <2> QED
      BY <2>1 DEF Behind
  <1>12. Free(x, q, w, t)
    <2>1. ASSUME Live(x, q), q.ask # "no", NEW n \in Messages, Said(x, q, n), n.type = "state",
                 n.id = -q.asks, n.says.active = None, NEW i \in Ids, Abroad(x, q, w, t, i), i \notin q.early
          PROVE  Fresh(q, i)
      <3>1. Abroad(x, p, w, t, i) /\ i \notin p.early /\ Live(x, p) /\ p.ask # "no"
        BY <1>1, <1>2, <2>1
      <3>2. Fresh(p, i)
        BY <1>3, <2>1, <3>1 DEF HolderInv, Free
      <3> QED
        BY <2>1, <3>1, <3>2
    <2> QED
      BY <2>1 DEF Free
  <1> QED
    BY <1>5, <1>6, <1>7, <1>8, <1>9, <1>10, <1>11, <1>12 DEF HolderInv

(* A call that ends has no order abroad, or keeps the Body and waited for  *)
(* no reading that is newer.                                               *)
LEMMA FinishHolds ==
    ASSUME NEW x, NEW p \in Pys, NEW w, NEW t, HolderInv(x, p, w, t), x.run.id \in Ids \cup {None},
           NEW i \in Ids, NEW h \in Endings \cup {"transport"}, p.at[i] \in {"begun", "ready", "send", "waiting"},
           Live(x, p) /\ Abroad(x, p, w, t, i) /\ i \notin p.early =>
               h = "transport" /\ ~ (p.ask # "no" /\ Fresh(p, i))
    PROVE  HolderInv(x, Finish(p, i, h), w, t)
  <1>1. PICK q : q = Finish(p, i, h)
    OBVIOUS
  <1>2. PICK d : d = [p EXCEPT !.at[i] = "done", !.how[i] = h]
    OBVIOUS
  <1>3. p.active = i
    BY DEF HolderInv, PyInv
  <1>4. d.active = i /\ DOMAIN d = DOMAIN p
    BY <1>2, <1>3, PyColumns
  <1>5. q = IF h = "transport" THEN [d EXCEPT !.unknown = TRUE] ELSE [d EXCEPT !.active = None]
    BY <1>1, <1>2, <1>3, <1>4 DEF Finish
  <1>6. /\ q.sock = p.sock /\ q.conns = p.conns /\ q.got = p.got /\ q.ask = p.ask /\ q.asks = p.asks
        /\ q.since = p.since /\ q.early = p.early /\ (q.broken <=> p.broken)
        /\ q.at = [p.at EXCEPT ![i] = "done"]
        /\ q.active = IF h = "transport" THEN i ELSE None
    BY <1>2, <1>4, <1>5, PyColumns
  <1>7. DOMAIN p.at = Ids
    BY DEF Pys
  <1>8. q.at[i] = "done" /\ \A j \in Ids : j # i => q.at[j] = p.at[j]
    BY <1>6, <1>7
  <1>9. PyInv(q)
    BY <1>3, <1>6, <1>8 DEF HolderInv, PyInv, Sent
  <1>10. \A j \in Ids : Sent(p, j) => Sent(q, j)
    BY <1>8 DEF Sent
  <1>11. ASSUME NEW j \in Ids, Live(x, p), Abroad(x, p, w, t, j), j \notin p.early
         PROVE  /\ p.active = j => q.active = j
                /\ q.ask # "no" /\ Fresh(p, j) => Fresh(q, j)
    BY <1>3, <1>6, <1>8, <1>11 DEF Fresh
  <1>12. HolderInv(x, q, w, t)
    BY <1>6, <1>9, <1>10, <1>11, PyHolds DEF SameSock
  <1> QED
    BY <1>1, <1>12

(* A request goes out on the connection there is, or is lost.              *)
LEMMA SendsIt ==
    ASSUME wire \in Seq(Requests), load \in [Ids -> KindNames], NEW p \in Pys, p.sock # 0,
           NEW r \in RequestTypes, NEW i \in Numbers, r \in {"command", "cancel"} => i \in Ids
    PROVE  \E m \in Requests :
               /\ m.type = r /\ m.id = i /\ m.conn = p.sock
               /\ send(p, Request(r, i)) = wire \/ send(p, Request(r, i)) = Append(wire, m)
  <1>1. PICK k \in KindNames : k = IF i \in Ids THEN load[i] ELSE "none"
    BY DEF KindNames
  <1>2. p.sock \in Nat
    BY DEF Pys
  <1>3. PICK m : m = [type |-> r, conn |-> p.sock, id |-> i, kind |-> k]
    OBVIOUS
  <1>4. m \in Requests
    BY <1>2, <1>3 DEF Requests
  <1>5. [Request(r, i) EXCEPT !.conn = p.sock] = m
    BY <1>1, <1>3 DEF Request
  <1>6. m.type = r /\ m.id = i /\ m.conn = p.sock
    BY <1>3
  <1> QED
    BY <1>4, <1>5, <1>6 DEF send

(* A command goes out once, when its call has the Body.                    *)
LEMMA CommandHolds ==
    ASSUME NEW x, NEW p, NEW q, NEW w \in Seq(Requests), NEW t, HolderInv(x, p, w, t), HolderInv(x, q, w, t),
           SameSock(p, q), q.early = p.early, q.got = p.got,
           NEW m \in Requests, m.type = "command", m.conn = q.sock, q.sock # 0, q.sock = q.conns, q.conns \in Nat,
           ~ Sent(p, m.id), Sent(q, m.id), q.active = m.id, Fresh(q, m.id)
    PROVE  HolderInv(x, q, Append(w, m), t)
  <1>1. PICK v : v = Append(w, m)
    OBVIOUS
  <1>2. /\ \A a : Held(v, t, a) => Held(w, t, a) \/ a = m
        /\ \A a, b : Comes(v, t, a, b) => Comes(w, t, a, b) \/ (b = m /\ Held(w, t, a))
    BY <1>1, SentLast
  <1>3. m.id \in Ids /\ m.id # None
    BY CallsAssumption DEF Requests
  <1>4. \A a \in Requests : Held(w, t, a) /\ a.type = "command" => a.id # m.id
    BY DEF HolderInv, Once
  <1>5. x.run.id # m.id
    BY <1>3 DEF HolderInv, Once, Running
  <1>6. Counted(x, q, v, t)
    BY <1>2 DEF HolderInv, Counted
  <1>7. Once(x, q, v, t)
    BY <1>2, <1>4, <1>5 DEF HolderInv, Once
  <1>8. Numbered(x, q, v, t)
    BY <1>2 DEF HolderInv, Numbered
  <1>9. Answered(x, q, v, t)
    <2>1. ASSUME NEW n \in Messages, Said(x, q, n),
                 n.type = "terminal" \/ (n.type = "rejected" /\ n.id \in Ids /\ n.id \notin q.early)
          PROVE  Over(x, q, v, t, n.id)
      <3>1. Over(x, q, w, t, n.id)
        BY <2>1 DEF HolderInv, Answered
      <3>2. Over(x, p, w, t, n.id)
        BY <2>1 DEF HolderInv, Answered, Said
      <3>3. n.id # m.id
        BY <3>2 DEF Over
      <3> QED
        BY <1>2, <3>1, <3>3 DEF Over
    <2> QED
      BY <2>1 DEF Answered
  <1>10. Canceled(x, q, v, t)
    <2>1. ASSUME NEW a \in Requests, Held(v, t, a), a.type = "cancel", a.conn = q.sock, a.id \notin q.early
          PROVE  /\ Sent(q, a.id)
                 /\ \A b \in Requests : Comes(v, t, a, b) /\ b.type = "command" => b.id # a.id
      <3>1. Held(w, t, a)
        BY <1>2, <2>1
      <3>2. Sent(p, a.id)
        BY <2>1, <3>1 DEF HolderInv, Canceled, SameSock
      <3>3. a.id # m.id
        BY <3>2
      <3> QED
        BY <1>2, <2>1, <3>1, <3>3 DEF HolderInv, Canceled
    <2> QED
      BY <2>1 DEF Canceled
  <1>11. \A i \in Ids : Abroad(x, q, v, t, i) => Abroad(x, q, w, t, i) \/ i = m.id
    BY <1>2 DEF Abroad
  <1>12. Holds(x, q, v, t)
    BY <1>11 DEF HolderInv, Holds
  <1>13. Behind(x, q, v, t)
    BY <1>2 DEF HolderInv, Behind
  <1>14. Free(x, q, v, t)
    BY <1>11 DEF HolderInv, Free
  <1>15. HolderInv(x, q, v, t)
    BY <1>6, <1>7, <1>8, <1>9, <1>10, <1>12, <1>13, <1>14 DEF HolderInv
  <1> QED
    BY <1>1, <1>15

(* Another request: a cancel of an order that was sent or of one that is   *)
(* canceled early, a reading of the latest number, a control.              *)
LEMMA SendHolds ==
    ASSUME NEW x, NEW p, NEW w \in Seq(Requests), NEW t, HolderInv(x, p, w, t),
           NEW m \in Requests, m.type # "command", m.conn = p.sock, p.sock # 0, p.sock = p.conns, p.conns \in Nat,
           m.type = "cancel" => Sent(p, m.id) \/ m.id \in p.early,
           m.type = "state" => \A k \in Nat : m.id = -k => k <= p.asks
    PROVE  HolderInv(x, p, Append(w, m), t)
  <1>1. PICK v : v = Append(w, m)
    OBVIOUS
  <1>2. /\ \A a : Held(v, t, a) => Held(w, t, a) \/ a = m
        /\ \A a, b : Comes(v, t, a, b) => Comes(w, t, a, b) \/ (b = m /\ Held(w, t, a))
    BY <1>1, SentLast
  <1>3. \A a, b : Comes(w, t, a, b) => Held(w, t, a)
    BY DEF Comes, Held, After, In
  <1>4. Counted(x, p, v, t)
    BY <1>2 DEF HolderInv, Counted
  <1>5. Once(x, p, v, t)
    BY <1>2 DEF HolderInv, Once
  <1>6. Numbered(x, p, v, t)
    BY <1>2 DEF HolderInv, Numbered
  <1>7. Answered(x, p, v, t)
    BY <1>2 DEF HolderInv, Answered, Over
  <1>8. Canceled(x, p, v, t)
    BY <1>2, <1>3 DEF HolderInv, Canceled
  <1>9. \A i \in Ids : Abroad(x, p, v, t, i) => Abroad(x, p, w, t, i)
    BY <1>2 DEF Abroad
  <1>10. Holds(x, p, v, t) /\ Free(x, p, v, t)
    BY <1>9 DEF HolderInv, Holds, Free
  <1>11. Behind(x, p, v, t)
    BY <1>2 DEF HolderInv, Behind
  <1>12. HolderInv(x, p, v, t)
    BY <1>4, <1>5, <1>6, <1>7, <1>8, <1>10, <1>11 DEF HolderInv
  <1> QED
    BY <1>1, <1>12

(* A reading gets a number that was never used.                            *)
LEMMA AskHolds ==
    ASSUME NEW x, NEW p \in Pys, NEW q, NEW w, NEW t, HolderInv(x, p, w, t), SameSock(p, q), p.sock # 0,
           q.broken <=> p.broken, q.got \subseteq p.got, q.early = p.early, q.active = p.active, q.at = p.at,
           q.asks = p.asks + 1, \A i \in q.since : Sent(p, i)
    PROVE  HolderInv(x, q, w, t)
  <1>1. p.asks \in Nat /\ \E k \in Nat : k = p.asks + 1 /\ ~ k <= p.asks
    BY DEF Pys
  <1>2. \A i : Sent(q, i) <=> Sent(p, i)
    BY DEF Sent
  <1>3. \A n : Said(x, q, n) => Said(x, p, n)
    BY DEF Said
  <1>4. /\ \A a \in Requests : Held(w, t, a) /\ a.type = "state" /\ a.conn = p.sock => a.id # -q.asks
        /\ \A n \in Messages : Said(x, p, n) /\ n.type = "state" => n.id # -q.asks
    BY <1>1 DEF HolderInv, Numbered
  <1>5. PyInv(q)
    BY <1>2 DEF HolderInv, PyInv
  <1>6. Counted(x, q, w, t)
    BY DEF HolderInv, Counted, SameSock
  <1>7. Once(x, q, w, t)
    BY <1>2 DEF HolderInv, Once
  <1>8. Numbered(x, q, w, t)
    <2>1. \A k \in Nat : k <= p.asks => k <= q.asks
      BY <1>1
    <2> QED
      BY <1>3, <2>1 DEF HolderInv, Numbered, SameSock
  <1>9. Answered(x, q, w, t)
    BY <1>2, <1>3 DEF HolderInv, Answered, Over
  <1>10. Canceled(x, q, w, t)
    BY <1>2 DEF HolderInv, Canceled, SameSock
  <1>11. Holds(x, q, w, t)
    BY DEF HolderInv, Holds, Live, Abroad, SameSock
  <1>12. Behind(x, q, w, t)
    <2>1. \A a, b : Comes(w, t, a, b) => Held(w, t, a)
      BY DEF Comes, Held, After, In
    <2> QED
      BY <1>4, <2>1 DEF Behind, SameSock
  <1>13. Free(x, q, w, t)
    BY <1>3, <1>4 DEF Free
  <1> QED
    BY <1>5, <1>6, <1>7, <1>8, <1>9, <1>10, <1>11, <1>12, <1>13 DEF HolderInv

----------------------------------------------------------------------------
(* The holder: the steps of Python *)

Holder == HolderInv(c, py, wire, tasks)

LEMMA CallHolds ==
    ASSUME Fitting, Sockets, Holder, NEW id \in Ids, execute(id) \/ Call(id)
    PROVE  Holder'
  <1>1. /\ py \in Pys /\ c \in Clients /\ wire \in Seq(Requests) /\ load \in [Ids -> KindNames]
        /\ c.run.id \in Ids \cup {None}
    BY DEF Fitting, Fit, Clients, Runs
  <1>2. c.run.id \in Ids \cup {None} /\ DOMAIN py.at = Ids /\ id # None
    BY <1>1, CallsAssumption DEF Pys
  <1>3. Endings \cup {"transport"} # {} /\ "transport" \in Endings \cup {"transport"}
    OBVIOUS
  <1>4. CASE execute(id)
    <2>1. /\ py.at[id] = "new" /\ py.active = None /\ UNCHANGED <<c, wire, tasks>>
          /\ py' = [py EXCEPT !.active = id, !.at[id] = "begun"]
      BY <1>4 DEF execute
    <2>2. /\ SameSock(py, py') /\ (py'.broken <=> py.broken) /\ py'.got = py.got /\ py'.early = py.early
          /\ py'.asks = py.asks /\ py'.ask = py.ask /\ py'.since = py.since /\ py'.active = id
          /\ py'.at = [py.at EXCEPT ![id] = "begun"]
      BY <1>1, <2>1, PyColumns DEF SameSock
    <2>3. py'.at[id] = "begun" /\ \A j \in Ids : j # id => py'.at[j] = py.at[j]
      BY <1>2, <2>2
    <2>4. PyInv(py')
      BY <1>2, <2>1, <2>2, <2>3, CallsAssumption DEF Holder, HolderInv, PyInv, Sent
    <2>5. \A j \in Ids : (Sent(py, j) => Sent(py', j)) /\ py.active # j /\ (Fresh(py, j) => Fresh(py', j))
      BY <2>1, <2>2, <2>3, CallsAssumption DEF Sent, Fresh
    <2>6. HolderInv(c, py', wire, tasks)
      BY <1>2, <2>2, <2>4, <2>5, PyHolds DEF Holder
    <2> QED
      BY <2>1, <2>6 DEF Holder
  <1>5. ASSUME NEW x, NEW p \in Pys, HolderInv(x, p, wire, tasks), x.run.id \in Ids \cup {None},
               p.at[id] \in {"begun", "ready"}, NEW q, NEW s \in {"ready", "send"},
               SameSock(p, q), q.broken <=> p.broken, q.got \subseteq p.got, q.early = p.early,
               q.asks = p.asks, q.ask = p.ask, q.since = p.since, q.active = p.active,
               q.at = [p.at EXCEPT ![id] = s]
        PROVE  HolderInv(x, q, wire, tasks)
    <2>1. DOMAIN p.at = Ids
      BY DEF Pys
    <2>2. q.at[id] = s /\ \A j \in Ids : j # id => q.at[j] = p.at[j]
      BY <1>5, <2>1
    <2>3. PyInv(q)
      BY <1>5, <2>2 DEF HolderInv, PyInv, Sent
    <2>4. \A j \in Ids : (Sent(p, j) => Sent(q, j)) /\ (Fresh(p, j) => Fresh(q, j))
      BY <1>5, <2>2 DEF Sent, Fresh
    <2> QED
      BY <1>5, <2>3, <2>4, PyHolds
  <1>6. CASE _ensure_connected(id)
    <2>1. PICK p : p = connect(py)
      OBVIOUS
    <2>2. py.at[id] = "begun" /\ UNCHANGED <<wire, tasks>>
      BY <1>6 DEF _ensure_connected
    <2>3. \/ \E s \in {"ready", "send"} : Connected(p) /\ py' = [p EXCEPT !.at[id] = s]
          \/ c' = c /\ py' = Finish(py, id, "transport")
      BY <1>6, <2>1 DEF _ensure_connected
    <2>4. CASE c' = c /\ py' = Finish(py, id, "transport")
      <3>1. ~ Fresh(py, id)
        BY <2>2 DEF Fresh
      <3>2. HolderInv(c, Finish(py, id, "transport"), wire, tasks)
        BY <1>1, <1>3, <2>2, <3>1, FinishHolds DEF Holder
      <3> QED
        BY <2>2, <2>4, <3>2 DEF Holder
    <2>5. ASSUME NEW s \in {"ready", "send"}, Connected(p), py' = [p EXCEPT !.at[id] = s]
          PROVE  Holder'
      <3>1. HolderInv(c', p, wire, tasks) /\ p \in Pys
        BY <2>1, <2>5, ConnectHolds DEF Holder
      <3>2. c'.run = c.run
        BY <2>5, <3>1, Connects DEF SameWork
      <3>3. p.at = py.at
        BY <1>1, <2>1, PyColumns DEF connect
      <3>4. /\ SameSock(p, py') /\ (py'.broken <=> p.broken) /\ py'.got = p.got /\ py'.early = p.early
            /\ py'.asks = p.asks /\ py'.ask = p.ask /\ py'.since = p.since /\ py'.active = p.active
            /\ py'.at = [p.at EXCEPT ![id] = s]
        BY <2>5, <3>1, PyColumns DEF SameSock
      <3>5. HolderInv(c', py', wire, tasks)
        BY <1>1, <1>5, <2>2, <3>1, <3>2, <3>3, <3>4
      <3> QED
        BY <2>2, <3>5 DEF Holder
    <2> QED
      BY <2>3, <2>4, <2>5
  <1>7. CASE wait_ready(id)
    <2>1. py.at[id] = "ready" /\ UNCHANGED <<c, wire, tasks>>
      BY <1>7 DEF wait_ready
    <2>2. CASE py' = Finish(py, id, "transport")
      <3>1. ~ Fresh(py, id)
        BY <2>1 DEF Fresh
      <3>2. HolderInv(c, Finish(py, id, "transport"), wire, tasks)
        BY <1>1, <1>3, <2>1, <3>1, FinishHolds DEF Holder
      <3> QED
        BY <2>1, <2>2, <3>2 DEF Holder
    <2>3. CASE py' = [py EXCEPT !.got = @ \ {[type |-> "ready"]}, !.ready = TRUE, !.at[id] = "send"]
      <3>1. PICK e : e = [type |-> "ready"]
        OBVIOUS
      <3>2. py' = [py EXCEPT !.got = @ \ {e}, !.ready = TRUE, !.at[id] = "send"]
        BY <2>3, <3>1
      <3>3. /\ SameSock(py, py') /\ (py'.broken <=> py.broken) /\ py'.got = py.got \ {e} /\ py'.early = py.early
            /\ py'.asks = py.asks /\ py'.ask = py.ask /\ py'.since = py.since /\ py'.active = py.active
            /\ py'.at = [py.at EXCEPT ![id] = "send"]
        BY <1>1, <3>2, PyColumns DEF SameSock
      <3>4. py'.got \subseteq py.got
        BY <3>3
      <3>5. HolderInv(c, py', wire, tasks)
        BY <1>1, <1>5, <2>1, <3>3, <3>4 DEF Holder
      <3> QED
        BY <2>1, <3>5 DEF Holder
    <2> QED
      BY <1>7, <2>2, <2>3 DEF wait_ready
  <1>8. CASE SendCommand(id)
    <2>1. py.at[id] = "send" /\ UNCHANGED <<c, tasks>>
      BY <1>8 DEF SendCommand
    <2>2. CASE py' = Finish(py, id, "transport") /\ wire' = wire
      <3>1. ~ Fresh(py, id)
        BY <2>1 DEF Fresh
      <3>2. HolderInv(c, Finish(py, id, "transport"), wire, tasks)
        BY <1>1, <1>3, <2>1, <3>1, FinishHolds DEF Holder
      <3> QED
        BY <2>1, <2>2, <3>2 DEF Holder
    <2>3. CASE /\ py.sock # 0 /\ py' = [py EXCEPT !.at[id] = "waiting"]
               /\ wire' = send(py, Request("command", id))
      <3>1. /\ SameSock(py, py') /\ (py'.broken <=> py.broken) /\ py'.got = py.got /\ py'.early = py.early
            /\ py'.asks = py.asks /\ py'.ask = py.ask /\ py'.since = py.since /\ py'.active = py.active
            /\ py'.at = [py.at EXCEPT ![id] = "waiting"]
        BY <1>1, <2>3, PyColumns DEF SameSock
      <3>2. py'.at[id] = "waiting" /\ \A j \in Ids : j # id => py'.at[j] = py.at[j]
        BY <1>2, <3>1
      <3>3. py.active = id
        BY <2>1 DEF Holder, HolderInv, PyInv
      <3>4. PyInv(py')
        BY <2>1, <3>1, <3>2, <3>3 DEF Holder, HolderInv, PyInv, Sent
      <3>5. \A j \in Ids : (Sent(py, j) => Sent(py', j)) /\ (Fresh(py, j) => Fresh(py', j))
        BY <2>1, <3>1, <3>2 DEF Sent, Fresh
      <3>6. HolderInv(c, py', wire, tasks)
        BY <1>2, <3>1, <3>4, <3>5, PyHolds DEF Holder
      <3>7. ~ Sent(py, id) /\ Sent(py', id) /\ Fresh(py', id)
        BY <2>1, <3>1, <3>2 DEF Sent, Fresh, Holder, HolderInv, PyInv
      <3>8. PICK m \in Requests : /\ m.type = "command" /\ m.id = id /\ m.conn = py.sock
                                  /\ wire' = wire \/ wire' = Append(wire, m)
        BY <1>1, <2>3, SendsIt DEF RequestTypes, Numbers
      <3>9. py'.sock = py.sock /\ py'.sock = py'.conns /\ py'.conns \in Nat
        BY <1>1, <2>3, <3>1 DEF Sockets, SameSock, Pys
      <3>10. HolderInv(c, py', Append(wire, m), tasks)
        <4>1. PICK q : q = py'
          OBVIOUS
        <4>2. /\ HolderInv(c, py, wire, tasks) /\ HolderInv(c, q, wire, tasks)
              /\ SameSock(py, q) /\ q.early = py.early /\ q.got = py.got
          BY <3>1, <3>6, <4>1 DEF Holder
        <4>3. m.conn = q.sock /\ q.sock # 0 /\ q.sock = q.conns /\ q.conns \in Nat
          BY <2>3, <3>8, <3>9, <4>1
        <4>4. ~ Sent(py, m.id) /\ Sent(q, m.id) /\ q.active = m.id /\ Fresh(q, m.id)
          BY <3>1, <3>3, <3>7, <3>8, <4>1
        <4>5. HolderInv(c, q, Append(wire, m), tasks)
          BY <1>1, <3>8, <4>2, <4>3, <4>4, CommandHolds
        <4> QED
          BY <4>1, <4>5
      <3> QED
        BY <2>1, <3>6, <3>8, <3>10 DEF Holder
    <2> QED
      BY <1>8, <2>2, <2>3 DEF SendCommand
  <1>9. CASE _wait_terminal(id)
    <2>1. py.at[id] = "waiting" /\ UNCHANGED <<c, wire, tasks>>
      BY <1>9 DEF _wait_terminal
    <2>2. CASE /\ py.broken \/ py.sock = 0 \/ py.ask = "no" \/ id \in py.since
               /\ py' = Finish(py, id, "transport")
      <3>1. Live(c, py) => ~ (py.ask # "no" /\ Fresh(py, id))
        BY <2>2 DEF Holder, HolderInv, Counted, Live, Fresh
      <3>2. HolderInv(c, Finish(py, id, "transport"), wire, tasks)
        BY <1>1, <1>3, <2>1, <3>1, FinishHolds DEF Holder
      <3> QED
        BY <2>1, <2>2, <3>2 DEF Holder
    <2>3. CASE \E m \in Answers(id) :
                   py' = Finish([py EXCEPT !.got = @ \ {m}], id, IF m.type = "terminal" THEN m.status ELSE "transport")
      <3>1. PICK m \in Answers(id) :
                   py' = Finish([py EXCEPT !.got = @ \ {m}], id, IF m.type = "terminal" THEN m.status ELSE "transport")
        BY <2>3
      <3>2. m \in Messages /\ m \in py.got /\ m.id = id /\ m.type \in {"terminal", "rejected"}
        BY <1>1 DEF Answers, Pys
      <3>3. PICK h \in Endings \cup {"transport"} : h = IF m.type = "terminal" THEN m.status ELSE "transport"
        BY <3>2, TerminalTyped
      <3>4. PICK q : q = [py EXCEPT !.got = py.got \ {m}]
        OBVIOUS
      <3>5. py.got \ {m} \in SUBSET Messages
        BY <1>1 DEF Pys
      <3>6. q \in Pys
        BY <1>1, <3>4, <3>5, PyWritten DEF Kept
      <3>7. /\ q.sock = py.sock /\ q.conns = py.conns /\ q.active = py.active /\ q.at = py.at /\ q.ask = py.ask
            /\ q.asks = py.asks /\ q.since = py.since /\ q.early = py.early /\ (q.broken <=> py.broken)
            /\ q.got \subseteq py.got
        BY <1>1, <3>4, PyColumns
      <3>8. \A n : Said(c, q, n) => Said(c, py, n)
        BY <3>7 DEF Said
      <3>9. HolderInv(c, q, wire, tasks)
        BY <3>7, <3>8, SaysLess DEF Holder
      <3>10. ~ (Abroad(c, q, wire, tasks, id) /\ id \notin q.early)
        <4>1. id \notin py.early => Over(c, py, wire, tasks, id)
          BY <3>2 DEF Holder, HolderInv, Answered, Said
        <4> QED
          BY <3>7, <4>1 DEF Over, Abroad
      <3>11. HolderInv(c, Finish(q, id, h), wire, tasks)
        BY <1>1, <2>1, <3>6, <3>7, <3>9, <3>10, FinishHolds
      <3>12. py' = Finish(q, id, h)
        BY <3>1, <3>3, <3>4
      <3> QED
        BY <2>1, <3>11, <3>12 DEF Holder
    <2> QED
      BY <1>9, <2>2, <2>3 DEF _wait_terminal
  <1> QED
    BY <1>4, <1>6, <1>7, <1>8, <1>9 DEF Call

LEMMA AsksHolds ==
    ASSUME Fitting, Sockets, Holder, NEW for \in {"confirm", "interrupt"}, Ask(for)
    PROVE  Holder'
  <1>1. /\ py \in Pys /\ c \in Clients /\ wire \in Seq(Requests) /\ load \in [Ids -> KindNames]
    BY DEF Fitting, Fit
  <1>2. PICK p : p = connect(py)
    OBVIOUS
  <1>3. Connected(p) /\ tasks' = tasks
    BY <1>2 DEF Ask
  <1>4. HolderInv(c', p, wire, tasks) /\ p \in Pys /\ p.sock # 0 /\ p.sock = p.conns
    BY <1>2, <1>3, ConnectHolds DEF Holder
  <1>5. PICK n \in Nat : n = p.asks + 1
    BY <1>4 DEF Pys
  <1>6. PICK e : e = [type |-> "ready"]
    OBVIOUS
  <1>7. /\ py' = [p EXCEPT !.ask = for, !.asks = n, !.since = Waiting(p), !.ready = TRUE, !.got = p.got \ {e}]
        /\ wire' = send(p, Request("state", -n))
    <2>1. /\ py' = [p EXCEPT !.ask = for, !.asks = @ + 1, !.since = Waiting(p), !.ready = TRUE, !.got = @ \ {e}]
          /\ wire' = send(p, Request("state", -(p.asks + 1)))
      BY <1>2, <1>6 DEF Ask
    <2>2. py' = [p EXCEPT !.ask = for, !.asks = p.asks + 1, !.since = Waiting(p), !.ready = TRUE, !.got = p.got \ {e}]
      BY <1>4, <2>1, PyColumns
    <2> QED
      BY <1>5, <2>1, <2>2
  <1>8. /\ SameSock(p, py') /\ (py'.broken <=> p.broken) /\ py'.got \subseteq p.got /\ py'.early = p.early
        /\ py'.active = p.active /\ py'.at = p.at /\ py'.asks = p.asks + 1 /\ py'.since = Waiting(p)
    <2>1. /\ SameSock(p, py') /\ (py'.broken <=> p.broken) /\ py'.got = p.got \ {e} /\ py'.early = p.early
          /\ py'.active = p.active /\ py'.at = p.at /\ py'.asks = n /\ py'.since = Waiting(p)
      BY <1>4, <1>7, PyColumns DEF SameSock
    <2> QED
      BY <1>5, <2>1
  <1>9. PICK q : q = py'
    OBVIOUS
  <1>10. HolderInv(c', q, wire, tasks)
    <2>1. \A i \in q.since : Sent(p, i)
      BY <1>8, <1>9 DEF Waiting, Sent
    <2> QED
      BY <1>4, <1>8, <1>9, <2>1, AskHolds
  <1>11. PICK m \in Requests : /\ m.type = "state" /\ m.id = -n /\ m.conn = p.sock
                               /\ wire' = wire \/ wire' = Append(wire, m)
    <2>1. PICK k \in Numbers : k = -n
      BY DEF Numbers
    <2> QED
      BY <1>1, <1>4, <1>7, <2>1, SendsIt DEF RequestTypes
  <1>12. \A k \in Nat : m.id = -k => k <= q.asks
    BY <1>5, <1>8, <1>9, <1>11
  <1>13. q.sock = p.sock /\ q.conns = p.conns /\ q.conns \in Nat
    BY <1>4, <1>8, <1>9 DEF SameSock, Pys
  <1>14. HolderInv(c', q, Append(wire, m), tasks)
    BY <1>1, <1>4, <1>10, <1>11, <1>12, <1>13, SendHolds
  <1> QED
    BY <1>3, <1>9, <1>10, <1>11, <1>14 DEF Holder

LEMMA InterruptHolds ==
    ASSUME Fitting, Sockets, Holder, interrupt
    PROVE  Holder'
  <1>1. /\ py \in Pys /\ c \in Clients /\ wire \in Seq(Requests) /\ load \in [Ids -> KindNames]
        /\ c.run.id \in Ids \cup {None}
    BY DEF Fitting, Fit, Clients, Runs
  <1>2. CASE py.active = None
    BY <1>2, AsksHolds DEF interrupt
  <1>3. CASE py.active # None
    <2>1. py.active \in Ids
      BY <1>1, <1>3 DEF Pys
    <2>2. PICK E : E = IF py.at[py.active] \in {"begun", "ready", "send"} THEN py.early \cup {py.active} ELSE py.early
      OBVIOUS
    <2>3. E \in SUBSET Ids /\ py.early \subseteq E
      BY <1>1, <2>1, <2>2 DEF Pys
    <2>4. /\ wire' = send(py, Request("cancel", py.active)) /\ py' = [py EXCEPT !.early = E]
          /\ UNCHANGED <<c, tasks>>
      BY <1>1, <1>3, <2>2, PyColumns DEF interrupt
    <2>5. PICK q : q = py'
      OBVIOUS
    <2>6. /\ SameSock(py, q) /\ (q.broken <=> py.broken) /\ q.got = py.got /\ q.early = E
          /\ q.active = py.active /\ q.at = py.at /\ q.asks = py.asks /\ q.since = py.since /\ q.ask = py.ask
      BY <1>1, <2>4, <2>5, PyColumns DEF SameSock
    <2>7. \A j : (Sent(py, j) <=> Sent(q, j)) /\ (Fresh(py, j) <=> Fresh(q, j))
      BY <2>6 DEF Sent, Fresh
    <2>8. PyInv(q)
      BY <2>6, <2>7 DEF Holder, HolderInv, PyInv
    <2>9. HolderInv(c, q, wire, tasks)
      BY <1>1, <2>3, <2>6, <2>7, <2>8, PyHolds DEF Holder
    <2>10. CASE py.sock = 0
      <3>1. wire' = wire
        BY <2>4, <2>10 DEF send, Up
      <3> QED
        BY <2>4, <2>5, <2>9, <3>1 DEF Holder
    <2>11. CASE py.sock # 0
      <3>1. PICK m \in Requests : /\ m.type = "cancel" /\ m.id = py.active /\ m.conn = py.sock
                                  /\ wire' = wire \/ wire' = Append(wire, m)
        BY <1>1, <2>1, <2>4, <2>11, SendsIt DEF RequestTypes, Numbers
      <3>2. Sent(q, m.id) \/ m.id \in q.early
        <4>1. py.at[py.active] # "new"
          BY <1>3 DEF Holder, HolderInv, PyInv
        <4>2. py.at[py.active] \in {"begun", "ready", "send", "waiting", "done"}
          BY <1>1, <2>1, <4>1 DEF Pys
        <4>3. py.at[py.active] \in {"begun", "ready", "send"} => py.active \in E
          BY <2>2
        <4>4. py.at[py.active] \notin {"begun", "ready", "send"} => Sent(py, py.active)
          BY <4>2 DEF Sent
        <4> QED
          BY <2>6, <2>7, <3>1, <4>3, <4>4
      <3>3. m.conn = q.sock /\ q.sock # 0 /\ q.sock = q.conns /\ q.conns \in Nat
        BY <1>1, <2>6, <2>11, <3>1 DEF Sockets, SameSock, Pys
      <3>4. HolderInv(c, q, Append(wire, m), tasks)
        BY <1>1, <2>9, <3>1, <3>2, <3>3, SendHolds
      <3> QED
        BY <2>4, <2>5, <2>9, <3>1, <3>4 DEF Holder
    <2> QED
      BY <2>10, <2>11
  <1> QED
    BY <1>2, <1>3

(* A control, or the stop of an interrupt that finds Baritone at work.     *)
LEMMA PlainHolds ==
    ASSUME Fitting, NEW p \in Pys, p.sock = 0 \/ p.sock = p.conns, HolderInv(c, p, wire, tasks),
           NEW r \in RequestTypes \ {"command", "cancel", "state"}, wire' = send(p, Request(r, None))
    PROVE  HolderInv(c, p, wire', tasks)
  <1>1. wire \in Seq(Requests) /\ load \in [Ids -> KindNames] /\ p.conns \in Nat
    BY DEF Fitting, Pys
  <1>2. CASE p.sock = 0
    <2>1. wire' = wire
      BY <1>2 DEF send, Up
    <2> QED
      BY <2>1
  <1>3. CASE p.sock # 0
    <2>1. PICK m \in Requests : /\ m.type = r /\ m.id = None /\ m.conn = p.sock
                                /\ wire' = wire \/ wire' = Append(wire, m)
      BY <1>1, <1>3, SendsIt DEF Numbers
    <2>2. HolderInv(c, p, Append(wire, m), tasks)
      BY <1>1, <1>3, <2>1, SendHolds
    <2> QED
      BY <2>1, <2>2
  <1> QED
    BY <1>2, <1>3

LEMMA AnswerHolds ==
    ASSUME Fitting, Sockets, Holder, StateAnswered
    PROVE  Holder'
  <1>1. /\ py \in Pys /\ c \in Clients /\ wire \in Seq(Requests) /\ load \in [Ids -> KindNames]
        /\ c.run.id \in Ids \cup {None} /\ UNCHANGED <<c, tasks>> /\ py.ask # "no"
    BY DEF Fitting, Fit, Clients, Runs, StateAnswered
  <1>2. PICK E \in SUBSET Ids : E = {}
    OBVIOUS
  <1>3. ASSUME NEW q, SameSock(py, q), q.broken <=> py.broken, q.got \subseteq py.got, q.early = py.early,
               q.at = py.at, q.asks = py.asks, q.since = {}, q.ask = "no",
               \/ q.active = py.active
               \/ q.active = None /\ py.at[py.active] = "done" /\ \E m \in Reading : m.says.active = None
        PROVE  HolderInv(c, q, wire, tasks)
    <2>1. \A j : Sent(py, j) => Sent(q, j)
      BY <1>3 DEF Sent
    <2>2. PyInv(q)
      BY <1>3 DEF Holder, HolderInv, PyInv
    <2>3. ASSUME NEW j \in Ids, Live(c, py), Abroad(c, py, wire, tasks, j), j \notin py.early, py.active = j
          PROVE  q.active = j
      <3>1. CASE q.active = py.active
        BY <2>3, <3>1
      <3>2. CASE q.active # py.active
        <4>1. PICK m \in Reading : m.says.active = None
          BY <1>3, <3>2
        <4>2. m \in Messages /\ Said(c, py, m) /\ m.type = "state" /\ m.id = -py.asks
          BY <1>1 DEF Reading, Said, Pys
        <4>3. Fresh(py, j)
          BY <1>1, <2>3, <4>1, <4>2 DEF Holder, HolderInv, Free
        <4> QED
          BY <1>3, <2>3, <3>2, <4>3 DEF Fresh
      <3> QED
        BY <3>1, <3>2
    <2> QED
      BY <1>1, <1>3, <2>1, <2>2, <2>3, PyHolds DEF Holder
  <1>4. CASE py' = [py EXCEPT !.ask = "no", !.since = E] /\ wire' = wire
    <2>1. PICK q : q = py'
      OBVIOUS
    <2>2. /\ SameSock(py, q) /\ (q.broken <=> py.broken) /\ q.got = py.got /\ q.early = py.early
          /\ q.active = py.active /\ q.at = py.at /\ q.asks = py.asks /\ q.since = {} /\ q.ask = "no"
      BY <1>1, <1>2, <1>4, <2>1, PyColumns DEF SameSock
    <2>3. HolderInv(c, q, wire, tasks)
      BY <1>3, <2>2
    <2> QED
      BY <1>1, <1>4, <2>1, <2>3 DEF Holder
  <1>5. ASSUME NEW m \in Reading,
               LET p == [py EXCEPT !.got = @ \ {m}, !.ask = "no", !.since = {}]
               IN  IF py.ask = "confirm" THEN py' = Lift(take_late_terminal(p), m.says) /\ wire' = wire
                   ELSE py' = p /\ wire' = IF m.says.still THEN wire ELSE send(p, Request("stop", None))
        PROVE  Holder'
    <2>1. PICK g \in SUBSET Messages : g = py.got \ {m}
      BY <1>1 DEF Pys
    <2>2. PICK p : p = [py EXCEPT !.got = g, !.ask = "no", !.since = E]
      OBVIOUS
    <2>3. p = [py EXCEPT !.got = @ \ {m}, !.ask = "no", !.since = {}]
      BY <1>1, <1>2, <2>1, <2>2, PyColumns
    <2>4. /\ SameSock(py, p) /\ (p.broken <=> py.broken) /\ p.got \subseteq py.got /\ p.early = py.early
          /\ p.active = py.active /\ p.at = py.at /\ p.asks = py.asks /\ p.since = {} /\ p.ask = "no"
      <3>1. /\ SameSock(py, p) /\ (p.broken <=> py.broken) /\ p.got = g /\ p.early = py.early
            /\ p.active = py.active /\ p.at = py.at /\ p.asks = py.asks /\ p.since = E /\ p.ask = "no"
        BY <1>1, <2>2, PyColumns DEF SameSock
      <3> QED
        BY <1>2, <2>1, <3>1
    <2>5. p \in Pys
      <3>1. PICK d : d = [py EXCEPT !.got = g]
        OBVIOUS
      <3>2. d \in Pys
        BY <1>1, <3>1, PyWritten DEF Kept
      <3>3. [d EXCEPT !.ask = "no", !.since = E] \in Pys
        BY <3>2, PyWritten DEF Kept
      <3> QED
        BY <1>1, <2>2, <3>1, <3>3, PyColumns
    <2>6. CASE py.ask = "confirm"
      <3>1. py' = Lift(take_late_terminal(p), m.says) /\ wire' = wire
        BY <1>5, <2>3, <2>6
      <3>2. PICK r : r = take_late_terminal(p)
        OBVIOUS
      <3>3. PICK L : L = {n \in p.got : n.type = "terminal" /\ p.how[n.id] = "transport" /\ n.id \notin p.late}
        OBVIOUS
      <3>4. PICK F : F = p.late \cup {n.id : n \in L}
        OBVIOUS
      <3>5. r = [p EXCEPT !.got = p.got \ L, !.late = F]
        BY <2>5, <3>2, <3>3, <3>4, PyColumns DEF take_late_terminal
      <3>6. /\ SameSock(p, r) /\ (r.broken <=> p.broken) /\ r.got = p.got \ L /\ r.early = p.early
            /\ r.active = p.active /\ r.at = p.at /\ r.asks = p.asks /\ r.since = p.since /\ r.ask = p.ask
            /\ DOMAIN r = DOMAIN p
        BY <2>5, <3>5, PyColumns DEF SameSock
      <3>7. PICK s : s = m.says
        OBVIOUS
      <3>8. PICK q : q = py'
        OBVIOUS
      <3>9. /\ SameSock(r, q) /\ (q.broken <=> r.broken) /\ q.got = r.got /\ q.early = r.early
            /\ q.at = r.at /\ q.asks = r.asks /\ q.since = r.since /\ q.ask = r.ask
            /\ q.active = r.active \/ (q.active = None /\ r.at[r.active] = "done" /\ s.active = None)
        <4>1. CASE s.active = None /\ s.still
          <5>1. PICK a : a = IF r.active # None /\ r.at[r.active] = "done" THEN None ELSE r.active
            OBVIOUS
          <5>2. q = [r EXCEPT !.unknown = FALSE, !.active = a]
            BY <2>5, <3>1, <3>2, <3>6, <3>7, <3>8, <4>1, <5>1, PyColumns DEF Lift
          <5>3. /\ SameSock(r, q) /\ (q.broken <=> r.broken) /\ q.got = r.got /\ q.early = r.early
                /\ q.at = r.at /\ q.asks = r.asks /\ q.since = r.since /\ q.ask = r.ask /\ q.active = a
            BY <2>5, <3>6, <5>2, PyColumns DEF SameSock
          <5> QED
            BY <4>1, <5>1, <5>3
        <4>2. CASE ~ (s.active = None /\ s.still)
          <5>1. q = r
            BY <3>1, <3>2, <3>7, <3>8, <4>2 DEF Lift
          <5> QED
            BY <5>1 DEF SameSock
        <4> QED
          BY <4>1, <4>2
      <3>10. /\ SameSock(py, q) /\ (q.broken <=> py.broken) /\ q.got \subseteq py.got /\ q.early = py.early
             /\ q.at = py.at /\ q.asks = py.asks /\ q.since = {} /\ q.ask = "no"
        BY <2>4, <3>6, <3>9 DEF SameSock
      <3>11. q.active = py.active \/ (q.active = None /\ py.at[py.active] = "done" /\ m.says.active = None)
        BY <2>4, <3>6, <3>7, <3>9
      <3>12. HolderInv(c, q, wire, tasks)
        BY <1>3, <1>5, <3>10, <3>11
      <3> QED
        BY <1>1, <3>1, <3>8, <3>12 DEF Holder
    <2>7. CASE py.ask # "confirm"
      <3>1. py' = p /\ (wire' = wire \/ wire' = send(p, Request("stop", None)))
        BY <1>5, <2>3, <2>7
      <3>2. HolderInv(c, p, wire, tasks)
        BY <1>3, <2>4
      <3>3. p.sock = 0 \/ p.sock = p.conns
        BY <2>4 DEF Sockets, SameSock
      <3>4. HolderInv(c, p, wire', tasks)
        BY <2>5, <3>1, <3>2, <3>3, PlainHolds DEF RequestTypes
      <3> QED
        BY <1>1, <3>1, <3>4 DEF Holder
    <2> QED
      BY <2>6, <2>7
  <1> QED
    <2>1. \/ \E m \in Reading :
                LET p == [py EXCEPT !.got = @ \ {m}, !.ask = "no", !.since = {}]
                IN  IF py.ask = "confirm" THEN py' = Lift(take_late_terminal(p), m.says) /\ wire' = wire
                    ELSE py' = p /\ wire' = IF m.says.still THEN wire ELSE send(p, Request("stop", None))
          \/ py' = [py EXCEPT !.ask = "no", !.since = E] /\ wire' = wire
      BY <1>2 DEF StateAnswered
    <2> QED
      BY <1>4, <1>5, <2>1

LEMMA ControlHolds ==
    ASSUME Fitting, Sockets, Holder, NEW t \in Controls, Control(t)
    PROVE  Holder'
  <1>1. py \in Pys /\ UNCHANGED <<c, tasks, py>> /\ wire' = send(py, Request(t, None))
    BY DEF Fitting, Control
  <1>2. HolderInv(c, py, wire', tasks)
    BY <1>1, PlainHolds DEF Holder, Sockets, RequestTypes, Controls
  <1> QED
    BY <1>1, <1>2 DEF Holder

----------------------------------------------------------------------------
(* The holder: the reader, the ends of the link, the client *)

LEMMA ReadHolds ==
    ASSUME Fitting, Holder, _read_loop
    PROVE  Holder'
  <1>1. py \in Pys /\ c \in Clients /\ c.out \in Seq(Messages) /\ UNCHANGED <<wire, tasks>> /\ py.sock # 0
    BY DEF Fitting, Fit, Clients, _read_loop
  <1>2. CASE c.out # <<>>
    <2>1. PICK h, s : h = Head(c.out) /\ s = Tail(c.out)
      OBVIOUS
    <2>2. \A n : In(c.out, n) <=> n = h \/ In(s, n)
      BY <1>1, <1>2, <2>1, InTail
    <2>3. c' = [c EXCEPT !.out = s]
      BY <1>1, <1>2, <2>1, Columns DEF _read_loop
    <2>4. c'.run = c.run /\ c'.link = c.link /\ c'.out = s
      BY <1>1, <2>3, Columns
    <2>5. py' = py \/ py' = [py EXCEPT !.got = py.got \cup {h}]
      BY <1>1, <1>2, <2>1, PyColumns DEF _read_loop
    <2>6. /\ py'.sock = py.sock /\ py'.conns = py.conns /\ py'.active = py.active /\ py'.at = py.at
          /\ py'.ask = py.ask /\ py'.asks = py.asks /\ py'.since = py.since /\ py'.early = py.early
          /\ (py'.broken <=> py.broken) /\ py'.got \subseteq py.got \cup {h}
      BY <1>1, <2>5, PyColumns
    <2>7. \A n : Said(c', py', n) => Said(c, py, n)
      BY <2>2, <2>4, <2>6 DEF Said
    <2>8. HolderInv(c', py', wire, tasks)
      BY <2>4, <2>6, <2>7, SaysLess DEF Holder
    <2> QED
      BY <1>1, <2>8 DEF Holder
  <1>3. CASE c.out = <<>>
    <2>1. py' = [py EXCEPT !.broken = TRUE] /\ c' = c /\ ~ Live(c, py)
      BY <1>3 DEF _read_loop, Up, Live
    <2>2. /\ py'.sock = py.sock /\ py'.conns = py.conns /\ py'.active = py.active /\ py'.at = py.at
          /\ py'.ask = py.ask /\ py'.asks = py.asks /\ py'.since = py.since /\ py'.early = py.early
          /\ py'.got = py.got
      BY <1>1, <2>1, PyColumns
    <2>3. \A n : Said(c', py', n) => Said(c, py, n)
      BY <2>1, <2>2 DEF Said
    <2>4. HolderInv(c', py', wire, tasks)
      BY <2>1, <2>2, <2>3, SaysLess DEF Holder
    <2> QED
      BY <1>1, <2>4 DEF Holder
  <1> QED
    BY <1>2, <1>3

LEMMA EndHolds ==
    ASSUME Fitting, Holder, LinkBreaks \/ close \/ PythonRestarts
    PROVE  Holder'
  <1>1. /\ py \in Pys /\ c \in Clients /\ c.out \in Seq(Messages) /\ wire \in Seq(Requests) /\ tasks' = tasks
        /\ DOMAIN py.at = Ids
    BY DEF Fitting, Fit, Clients, Pys, LinkBreaks, close, PythonRestarts
  <1>2. Fewer(wire, tasks, wire, tasks)
    BY DEF Fewer
  <1>3. CASE LinkBreaks
    <2>1. PICK o \in Prefixes(c.out), w \in Prefixes(wire) : c' = [c EXCEPT !.link = 0, !.out = o] /\ wire' = w
      BY <1>3 DEF LinkBreaks
    <2>2. Fewer(wire, tasks, w, tasks)
      BY <1>1, PrefixFewer
    <2>3. \A n : In(o, n) => In(c.out, n)
      BY <1>1, AfterPrefix
    <2>4. c'.run = c.run /\ c'.link = 0 /\ c'.out = o
      BY <1>1, <2>1, Columns
    <2>5. py' = py
      BY <1>3 DEF LinkBreaks
    <2>6. \A n : Said(c', py, n) => Said(c, py, n)
      BY <2>3, <2>4 DEF Said
    <2>7. PyInv(py)
      BY DEF Holder, HolderInv
    <2>8. HolderInv(c', py, w, tasks)
      BY <1>1, <2>2, <2>4, <2>6, <2>7, CutHolds DEF Holder
    <2> QED
      BY <1>1, <2>1, <2>5, <2>8 DEF Holder
  <1>4. Cut => c'.run = c.run /\ c'.link = 0 /\ c'.out = <<>>
    BY <1>1, Columns DEF Cut
  <1>5. ASSUME c'.out = <<>> PROVE \A n : ~ In(c'.out, n)
    BY <1>5 DEF In
  <1>6. CASE close
    <2>1. Cut /\ wire' = wire /\ py' = [py EXCEPT !.sock = 0, !.ready = FALSE, !.broken = TRUE]
      BY <1>6 DEF close
    <2>2. /\ py'.sock = 0 /\ py'.conns = py.conns /\ py'.active = py.active /\ py'.at = py.at
          /\ py'.asks = py.asks /\ py'.since = py.since /\ py'.early = py.early /\ py'.got = py.got
      BY <1>1, <2>1, PyColumns
    <2>3. PICK q : q = py'
      OBVIOUS
    <2>4. \A j : Sent(py, j) <=> Sent(q, j)
      BY <2>2, <2>3 DEF Sent
    <2>5. PyInv(q)
      BY <2>2, <2>3, <2>4 DEF Holder, HolderInv, PyInv
    <2>6. \A n : Said(c', q, n) => Said(c, py, n)
      BY <1>4, <1>5, <2>1, <2>2, <2>3 DEF Said
    <2>7. HolderInv(c', q, wire, tasks)
      <3>1. q.asks = py.asks /\ q.early = py.early /\ q.conns = py.conns /\ q.sock = 0
        BY <2>2, <2>3
      <3>2. c'.run = c.run /\ c'.link = 0
        BY <1>4, <2>1
      <3> QED
        BY <1>1, <1>2, <2>4, <2>5, <2>6, <3>1, <3>2, CutHolds DEF Holder
    <2> QED
      BY <1>1, <2>1, <2>3, <2>7 DEF Holder
  <1>7. CASE PythonRestarts
    <2>1. Cut /\ wire' = wire
      BY <1>7 DEF PythonRestarts
    <2>2. PICK a : a = [i \in Ids |-> IF py.at[i] = "new" THEN "new" ELSE "done"]
      OBVIOUS
    <2>3. PICK q : q = py'
      OBVIOUS
    <2>4. q = [StartBody EXCEPT !.conns = py.conns, !.at = a]
      BY <1>7, <2>2, <2>3 DEF PythonRestarts
    <2>5. q.sock = 0 /\ q.conns = py.conns /\ q.active = None /\ q.at = a /\ q.since = {} /\ q.got = {}
      BY <2>4 DEF StartBody
    <2>6. \A j \in Ids : (Sent(py, j) => Sent(q, j)) /\ q.at[j] \in {"new", "done"}
      BY <2>2, <2>5 DEF Sent
    <2>7. PyInv(q)
      BY <2>5, <2>6 DEF PyInv
    <2>8. \A n : ~ Said(c', q, n)
      BY <1>4, <1>5, <2>1, <2>5 DEF Said
    <2>9. HolderInv(c', q, wire, tasks)
      BY <1>1, <1>2, <1>4, <2>1, <2>5, <2>6, <2>7, <2>8, CutHolds DEF Holder
    <2> QED
      BY <1>1, <2>1, <2>3, <2>9 DEF Holder
  <1> QED
    BY <1>3, <1>6, <1>7

LEMMA ServeHolds ==
    ASSUME Fitting, Holder, Serve
    PROVE  Holder'
  <1>1. /\ py' = py /\ c \in Clients /\ wire \in Seq(Requests) /\ tasks \in Seq(Requests \cup Notices)
        /\ c.link \in Nat /\ c.peer \in Nat
    BY DEF Fitting, Fit, Clients, Serve, ServeAccepts, ServeReads, ServeLoses
  <1>2. Follows(c, c')
    <2>1. CASE c' = c
      BY <2>1, CalmFollows
    <2>2. CASE \E k : c' = [c EXCEPT !.peer = k]
      <3>1. c'.run = c.run /\ c'.link = c.link /\ c'.out = c.out
        BY <1>1, <2>2, Columns
      <3> QED
        BY <3>1, CalmFollows
    <2> QED
      BY <2>1, <2>2 DEF Serve, ServeAccepts, ServeReads, ServeLoses
  <1>3. Fewer(wire, tasks, wire', tasks')
    <2>1. CASE wire' = wire /\ \E n \in Notices : tasks' = Append(tasks, n)
      BY <1>1, <2>1, NoticeFewer
    <2>2. CASE wire' = wire /\ tasks' = tasks
      BY <2>2 DEF Fewer
    <2>3. CASE ServeReads
      BY <1>1, <2>3, ReadFewer DEF ServeReads
    <2>4. CASE ServeAccepts
      <3>1. [type |-> "replay", conn |-> c.link] \in Notices
        BY <1>1, Noticed
      <3> QED
        BY <2>1, <2>2, <2>4, <3>1 DEF ServeAccepts
    <2>5. CASE ServeLoses
      <3>1. [type |-> "lost", conn |-> c.peer] \in Notices
        BY <1>1, Noticed
      <3> QED
        BY <2>1, <2>5, <3>1 DEF ServeLoses
    <2> QED
      BY <2>3, <2>4, <2>5 DEF Serve
  <1>4. HolderInv(c', py, wire', tasks')
    BY <1>2, <1>3, FollowsHolds DEF Holder
  <1> QED
    BY <1>1, <1>4 DEF Holder

LEMMA ThreadHolds ==
    ASSUME Fitting, Sockets, Holder, ClientThread
    PROVE  Holder'
  <1>1. /\ Fit(c) /\ c \in Clients /\ tasks \in Seq(Requests \cup Notices) /\ tasks # <<>>
        /\ tasks' = Tail(tasks) /\ wire' = wire /\ py' = py /\ py.asks \in Nat
    BY DEF Fitting, Fit, Pys, ClientThread
  <1>2. PICK t : t = Head(tasks)
    OBVIOUS
  <1>3. t \in Requests \cup Notices
    BY <1>1, <1>2, InTail
  <1>4. Fewer(wire, tasks, wire, Tail(tasks))
    BY <1>1, TailFewer
  <1>5. CASE t.type = "replay"
    <2>1. PICK p : p = t.conn
      OBVIOUS
    <2>2. c' = SendReady(c, p)
      BY <1>2, <1>5, <2>1 DEF ClientThread
    <2>3. Goes(c, SendReady(c, p))
      BY <1>1, SaysReady
    <2>4. HolderInv(c', py, wire, Tail(tasks))
      BY <1>4, <2>2, <2>3, GoesFollows, FollowsHolds DEF Holder
    <2> QED
      BY <1>1, <2>4 DEF Holder
  <1>6. CASE t.type = "lost"
    <2>1. c' = handle_lost(c, t.conn)
      BY <1>2, <1>6 DEF ClientThread
    <2>2. Goes(c, c')
      BY <1>1, <2>1, LostGoes
    <2>3. HolderInv(c', py, wire, Tail(tasks))
      BY <1>4, <2>2, GoesFollows, FollowsHolds DEF Holder
    <2> QED
      BY <1>1, <2>3 DEF Holder
  <1>7. CASE t.type \notin {"replay", "lost"}
    <2>1. t \in Requests
      BY <1>3, <1>7 DEF Notices
    <2>2. c' \in handle(c, t)
      BY <1>2, <1>7 DEF ClientThread
    <2>3. PICK y : y = c'
      OBVIOUS
    <2>4. Follows(c, y) \/ Rejects(c, y, t) \/ Replied(c, y, t) \/ Begins(c, y, t)
      BY <1>1, <2>1, <2>2, <2>3, HandleSays
    <2>5. CASE Follows(c, y)
      <3>1. HolderInv(c', py, wire, Tail(tasks))
        BY <1>4, <2>3, <2>5, FollowsHolds DEF Holder
      <3> QED
        BY <1>1, <3>1 DEF Holder
    <2>6. CASE Rejects(c, y, t) \/ Replied(c, y, t) \/ Begins(c, y, t)
      <3>1. c.link \in {0, py.sock}
        BY DEF Sockets
      <3>2. HolderInv(y, py, wire, Tail(tasks))
        BY <1>1, <1>2, <2>1, <2>6, <3>1, RequestHolds DEF Holder
      <3> QED
        BY <1>1, <2>3, <3>2 DEF Holder
    <2> QED
      BY <2>4, <2>5, <2>6
  <1> QED
    BY <1>5, <1>6, <1>7

LEMMA GameHolds ==
    ASSUME Fitting, Holder, Game
    PROVE  Holder'
  <1>1. Goes(c, c') /\ UNCHANGED <<wire, tasks, py>>
    BY GameKeeps DEF Rest
  <1>2. Fewer(wire, tasks, wire, tasks)
    BY DEF Fewer
  <1>3. HolderInv(c', py, wire, tasks)
    BY <1>1, <1>2, GoesFollows, FollowsHolds DEF Holder
  <1> QED
    BY <1>1, <1>3 DEF Holder

LEMMA StepHolds ==
    ASSUME Fitting, Sockets, Holder, [Next]_vars
    PROVE  Holder'
  <1>1. CASE \E id \in Ids : execute(id) \/ Call(id)
    BY <1>1, CallHolds
  <1>2. CASE interrupt
    BY <1>2, InterruptHolds
  <1>3. CASE confirm_control_idle
    BY <1>3, AsksHolds DEF confirm_control_idle
  <1>4. CASE StateAnswered
    BY <1>4, AnswerHolds
  <1>5. CASE _read_loop
    BY <1>5, ReadHolds
  <1>6. CASE \E t \in Controls : Control(t)
    BY <1>6, ControlHolds
  <1>7. CASE LinkBreaks \/ close \/ PythonRestarts
    BY <1>7, EndHolds
  <1>8. CASE Serve
    BY <1>8, ServeHolds
  <1>9. CASE ClientThread
    BY <1>9, ThreadHolds
  <1>10. CASE Game
    BY <1>10, GameHolds
  <1>11. CASE UNCHANGED vars
    BY <1>11 DEF vars, Holder
  <1> QED
    BY <1>1, <1>2, <1>3, <1>4, <1>5, <1>6, <1>7, <1>8, <1>9, <1>10, <1>11 DEF Next, Game

LEMMA InitHolds == Init => Holder
  <1> SUFFICES ASSUME Init PROVE Holder
    OBVIOUS
  <1>1. /\ wire = <<>> /\ tasks = <<>> /\ py.sock = 0 /\ py.got = {} /\ py.since = {} /\ py.active = None
        /\ c.out = <<>> /\ c.run.id = None /\ \A i \in Ids : py.at[i] = "new"
    BY DEF Init, StartBody, StartClient, NoRun
  <1>2. /\ \A n : ~ Said(c, py, n)
        /\ \A a : ~ Held(wire, tasks, a)
        /\ \A a, b : ~ Comes(wire, tasks, a, b)
    BY <1>1 DEF Said, Held, Comes, After, In
  <1>3. ~ Running(c) /\ ~ Live(c, py)
    BY <1>1 DEF Running, Live
  <1>4. PyInv(py)
    BY <1>1 DEF PyInv
  <1>5. Counted(c, py, wire, tasks)
    BY <1>1, <1>2, <1>3 DEF Counted
  <1> QED
    BY <1>2, <1>3, <1>4, <1>5 DEF Holder, HolderInv, Once, Numbered, Answered, Canceled, Holds, Behind, Free

(* While its connection holds, an action that acts in the client is the    *)
(* one Python holds the Body for: whatever was asked, answered late, lost, *)
(* refused or started again, neither the failure of a wait nor a reading   *)
(* of the state gives the Body away under an order that may still act      *)
(* (execute, _run_action, _wait_terminal, confirm_control_idle), but for   *)
(* the calls that were canceled before they were sent.                     *)
THEOREM HolderActs == Spec => []ActsForItsHolder
  <1>1. Init => Holder /\ EdgeInv
    <2> SUFFICES ASSUME Init PROVE Holder /\ EdgeInv
      OBVIOUS
    <2>1. told \in Seq(Edges) /\ ToldOnce
      BY DEF Init, ToldOnce
    <2>2. c.link = 0 /\ c.peer = 0 /\ py.sock = 0 /\ py.conns = 0
      BY DEF Init, StartClient, StartBody
    <2> QED
      BY <2>1, <2>2, InitHolds DEF EdgeInv, Sockets, AllDue
  <1>2. Fitting /\ Holder /\ EdgeInv /\ [Next]_vars => Holder' /\ EdgeInv'
    BY StepHolds, StepEdges DEF EdgeInv
  <1>3. Fitting /\ Holder => ActsForItsHolder
    <2> SUFFICES ASSUME Fitting, Holder, Running(c), c.run.stop = "no", c.run.peer = c.link, c.link = py.sock
                 PROVE  py.active = c.run.id \/ c.run.id \in py.early
      BY DEF ActsForItsHolder
    <2>1. c.run.id \in Ids
      BY DEF Fitting, Fit, Clients, Runs, Running
    <2>2. Live(c, py)
      BY DEF Holder, HolderInv, Counted, Live
    <2>3. Abroad(c, py, wire, tasks, c.run.id)
      BY DEF Abroad
    <2> QED
      BY <2>1, <2>2, <2>3 DEF Holder, HolderInv, Holds
  <1>4. Spec => Init /\ [][Next]_vars
    BY DEF Spec
  <1> QED
    BY <1>1, <1>2, <1>3, <1>4, ClientIsFit, PTL
=============================================================================
