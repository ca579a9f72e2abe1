--------------------------- MODULE RunStreamProofs ---------------------------
(***************************************************************************)
(* What TLAPS proves of RunStream for any number of browser tabs, model    *)
(* steps, numbers and mishaps: its types, that stored numbers are used     *)
(* once, that an answer is stored once and with its end, and that a tab    *)
(* that is done has missed nothing.                                        *)
(*                                                                         *)
(* NothingIsMissed is far from inductive: a tab only says that it is done  *)
(* and how far it has read, while events lie in the buffer, the session,   *)
(* the hub and queues.  Inv says that a number which was not given late    *)
(* means one event wherever it is (OneEvent), what a tab knows up to the   *)
(* number it has reached (Known), that it has reached the end it tells of  *)
(* (Reached), and where a title is that it has not reached yet (Titles).   *)
(***************************************************************************)
EXTENDS RunStream, TLAPS, FiniteSetTheorems, WellFoundedInduction

\* Every event that may still reach the database or a browser.
Said == stored \cup bus.events \cup loop.session.kept \cup UNION {tab[t].queue : t \in Tabs}

\* Two events only share a number that was given late.
OneEvent == \A e, f \in Said : e.seq = f.seq /\ e.seq \notin late => e = f

\* No number is above top.
Bounded ==
  /\ \A e \in Said : e.seq <= top
  /\ hub.live <= top /\ hub.durable <= top /\ \A t \in Tabs : tab[t].last <= top

NumbersBounded == run.next <= top + 1 /\ bus.last <= top /\ loop.session.last <= top

\* What a session has kept is its own, and is not stored under a number the row has given.
KeptOK ==
  /\ \A e \in loop.session.kept : e.kind = "kept" /\ e.seq <= loop.session.last
  /\ \A e, f \in loop.session.kept : e.seq = f.seq => e = f
  /\ \A e \in loop.session.kept \ stored : e.seq >= run.next \/ e.seq \in late
  /\ \A e \in bus.events : e.kind \in {"delta", "kept"}
  /\ \A e \in stored : e.kind # "delta"

\* A loop that is ending its run has decided how, and may still try.
EndingOK ==
  At("ending") => loop.session.intent # "none" /\ loop.session.tries < Attempts

\* The end is stored with the status, once, and what follows it only follows a completed
\* run, whose loop stands by what it has stored.
Closing ==
  /\ \A e \in stored : e.kind = "end" => run.status \in Over
  /\ run.status \in Over => \E e \in stored : e.kind = "end"
  /\ \A e, f \in stored : e.kind = "end" /\ f.kind = "end" => e = f
  /\ loop.pc \in {"post", "named"} =>
       run.status = "completed" /\ loop.session.kept \subseteq stored
  /\ \A e \in stored : e.kind = "title" => run.status = "completed"
  /\ \A e \in stored : e.kind = "post" =>
       /\ run.status = "completed" /\ At("off")
       /\ \A f \in stored : f.kind = "title" => f.seq < e.seq

\* A tab knows what was stored, or will be, up to the number it has reached.
Known ==
  \A t \in Tabs, e \in stored \cup loop.session.kept :
    e.seq <= tab[t].last /\ e.seq \notin late => e \in tab[t].known

\* A tab that says its run is over has reached the end.
Reached ==
  \A t \in Tabs :
    /\ tab[t].at = "closed" => tab[t].status \in Over
    /\ tab[t].status \in Over =>
         run.status \in Over /\ \A e \in stored : e.kind = "end" => e.seq <= tab[t].last

\* What is on its way to a tab, and that the hub stays with its subscribers.
Channels ==
  /\ hub.seen \subseteq stored
  /\ \A t \in Tabs :
       /\ tab[t].first \subseteq stored /\ (tab[t].at # "joined" => tab[t].first = {})
       /\ tab[t].at \notin {"joined", "open"} => tab[t].queue = {}
       /\ tab[t].at \in {"idle", "lost"} => tab[t].end = "no"
       /\ \A e \in tab[t].queue : e \in stored \/ e.kind \in {"delta", "kept"}
       /\ Subscribed(t) => hub.on

\* A title that a tab has not reached is with its connection, or the hub comes to it.
Underway(e, t) == e.seq <= tab[t].last \/ e \in tab[t].first \cup tab[t].queue
Titles ==
  \A e \in stored : e.kind = "title" =>
    /\ hub.poll = "read" /\ e.seq > hub.durable =>
         e \in hub.seen \/ \A f \in hub.seen : f.seq < e.seq
    /\ e.seq \notin late => \A t \in Tabs :
         /\ Subscribed(t) => Underway(e, t) \/ e.seq > hub.durable
         /\ tab[t].end = "yes" => Underway(e, t)

\* A stream that was ended in its time had all there was.
EndedInTime ==
  \A t \in Tabs : tab[t].end = "yes" =>
    /\ run.status \in Over
    /\ run.status = "completed" => \E e \in stored : e.kind = "post"

\* The rows of TypeOK.
RunRow == [status : Statuses, version : Nat, next : Nat \ {0}]
Session == [last : Nat, kept : SUBSET Events,
            intent : {"none", "completed", "failed", "canceled"}, tries : 0..Attempts]
Pcs == {"off", "idle", "stream", "tools", "failing", "ending", "recover", "post", "named"}
LoopRow == [pc : Pcs, version : Nat, session : Session, steps : 0..MaxSessions]
BusRow == [events : SUBSET Events, last : Nat, cleaning : BOOLEAN]
HubRow == [on : BOOLEAN, live : Nat, durable : Nat, patience : {"none", "waiting", "over"},
           poll : {"none", "read"}, seen : SUBSET Events]
TabRow == [at : {"idle", "joined", "open", "lost", "closed"}, last : Nat,
           known : SUBSET Events, status : Statuses, first : SUBSET Events,
           queue : SUBSET Events, end : {"no", "yes", "hurried"}]

\* What is said of the loop and the tables, and of the hub and the tabs.
Core == /\ run \in RunRow /\ stored \subseteq Events /\ loop \in LoopRow /\ bus \in BusRow
        /\ top \in Nat /\ late \subseteq Nat
        /\ NumbersAreUnique /\ NumbersBounded /\ KeptOK /\ EndingOK /\ Closing

View == Known /\ Reached /\ Channels /\ Titles /\ EndedInTime

Inv == /\ Core /\ hub \in HubRow /\ tab \in [Tabs -> TabRow] /\ mishaps \in 0..MaxMishaps
       /\ OneEvent /\ Bounded /\ View

-----------------------------------------------------------------------------
(* Numbers and maxima.                                                     *)

\* A finite set that is not empty has a greatest number: of the sets of numbers above one
\* of its own, the smallest is empty.
LEMMA MaxExists ==
  ASSUME NEW n \in Nat, NEW S \in SUBSET (0..n), S # {}
  PROVE  Max(S) \in S /\ \A x \in S : Max(S) >= x
<1> DEFINE Above(x) == {y \in S : y > x}
           All == {Above(x) : x \in S}
<1>1. IsFiniteSet(S)
  BY FS_Interval, FS_Subset, 0 \in Int, n \in Int
<1>2. All \subseteq FiniteSubsetsOf(S) /\ All # {}
  <2>1. \A x \in S : Above(x) \subseteq S /\ IsFiniteSet(Above(x))
    BY <1>1, FS_Subset
  <2> QED BY <2>1 DEF FiniteSubsetsOf
<1>3. PICK T \in All : \A U \in All : ~(<<U, T>> \in StrictSubsetOrdering(S))
  BY <1>1, <1>2, WFMin, FS_StrictSubsetOrderingWellFounded
<1>4. PICK x \in S : T = Above(x)
  BY <1>3
<1>5. \A y \in S : x >= y
  <2>0. S \subseteq Nat
    OBVIOUS
  <2>1. SUFFICES ASSUME NEW y \in S, ~(x >= y) PROVE FALSE
    OBVIOUS
  <2>2. Above(y) \subseteq T /\ y \in T /\ y \notin Above(y)
    <3>1. y > x /\ ~(y > y) /\ \A z \in S : z > y => z > x
      <4>1. x \in Nat /\ y \in Nat /\ \A z \in S : z \in Nat
        BY <2>0
      <4> QED BY <2>1, <4>1
    <3> QED BY <1>4, <3>1
  <2>3. Above(y) \in All /\ T \subseteq S
    BY <1>4, <2>1
  <2>4. <<Above(y), T>> \in StrictSubsetOrdering(S)
    BY <2>2, <2>3 DEF StrictSubsetOrdering
  <2> QED BY <1>3, <2>3, <2>4
<1> QED BY <1>5 DEF Max

LEMMA MaxOfTwo ==
  ASSUME NEW a \in Nat, NEW b \in Nat
  PROVE  /\ Max({a, b}) \in {a, b} /\ Max({a, b}) >= a /\ Max({a, b}) >= b
         /\ Max({a, b}) \in Nat
<1>1. \E x \in {a, b} : \A y \in {a, b} : x >= y
  OBVIOUS
<1> QED BY <1>1 DEF Max

\* How far a set of events goes, from floor on.
LEMMA HighestOK ==
  ASSUME NEW n \in Nat, NEW floor \in Nat, floor <= n, NEW E \in SUBSET Events,
         \A e \in E : e.seq <= n
  PROVE  /\ Highest(E, floor) \in Nat /\ Highest(E, floor) <= n /\ Highest(E, floor) >= floor
         /\ \A e \in E : e.seq <= Highest(E, floor)
         /\ Highest(E, floor) = floor \/ \E e \in E : e.seq = Highest(E, floor)
<1> DEFINE S == {e.seq : e \in E} \cup {floor}
<1>1. S \in SUBSET (0..n) /\ S # {} /\ floor \in S /\ \A e \in E : e.seq \in S
  BY DEF Events
<1>2. Max(S) \in S /\ \A x \in S : Max(S) >= x
  BY <1>1, MaxExists
<1>3. Highest(E, floor) = Max(S)
  BY DEF Highest
<1>4. Max(S) = floor \/ \E e \in E : e.seq = Max(S)
  BY <1>2
<1>5. Max(S) \in Nat /\ Max(S) <= n /\ Max(S) >= floor /\ \A e \in E : e.seq <= Max(S)
  <2>1. \A x \in S : x \in Nat /\ x <= n
    BY <1>1
  <2>2. \A e \in E : Max(S) >= e.seq /\ e.seq \in Nat
    BY <1>1, <1>2, <2>1
  <2> HIDE DEF S
  <2> QED BY <1>1, <1>2, <2>1, <2>2
<1> QED BY <1>3, <1>4, <1>5

\* A browser goes on from last over the numbers of a batch, without a gap.
LEMMA ReachOK ==
  ASSUME NEW last \in Nat, top \in Nat, last <= top, NEW B
  PROVE  /\ Reach(last, B) \in Nat /\ Reach(last, B) >= last /\ Reach(last, B) <= top
         /\ \A n \in (last + 1)..Reach(last, B) : \E e \in B : e.seq = n
<1> DEFINE S == {k \in last..top : \A n \in (last + 1)..k : \E e \in B : e.seq = n}
<1>1. S \in SUBSET (0..top) /\ last \in S
  OBVIOUS
<1>2. Max(S) \in S
  BY <1>1, MaxExists
<1>3. Reach(last, B) \in S
  BY <1>2 DEF Reach
<1> QED BY <1>3

LEMMA EventIs ==
  ASSUME NEW n \in Nat, NEW kind \in Kinds
  PROVE  Event(n, kind) \in Events /\ Event(n, kind).seq = n /\ Event(n, kind).kind = kind
BY DEF Event, Events

LEMMA GivenIs ==
  ASSUME NEW n \in Nat, top \in Nat, late \subseteq Nat, Given(n)
  PROVE  /\ top' \in Nat /\ top' >= top /\ top' >= n
         /\ late' \subseteq Nat /\ late \subseteq late'
         /\ n > top \/ n \in late'
BY MaxOfTwo DEF Given

-----------------------------------------------------------------------------
(* The server: what a step adds, and what the browsers' side makes of it.  *)

\* A step of the loop, the API or the process that adds the events X, of which there is
\* at most one.
Serves(X) ==
  /\ \/ X = {} /\ Quiet
     \/ \E x \in Events : X = {x} /\ Given(x.seq)
  /\ stored \subseteq stored' /\ bus'.events \subseteq bus.events \cup X
  /\ stored' \cup loop'.session.kept \subseteq stored \cup loop.session.kept \cup X
  /\ run.status \in Over => run'.status = run.status
  /\ \A e \in stored' \ stored :
       /\ e.kind = "end" => run.status \notin Over
       /\ e.kind = "title" => /\ At("post") /\ run.status = "completed"
                              /\ \A f \in stored : f.seq < e.seq

\* The connection of a tab is left alone or cut.
Same(t) == tab'[t] = tab[t]
Cut(t) == /\ tab'[t].at = "idle" /\ tab'[t].end = "no"
          /\ tab'[t].first = {} /\ tab'[t].queue = {}
Steady ==
  /\ tab' \in [Tabs -> TabRow]
  /\ \A t \in Tabs :
       /\ tab'[t].last = tab[t].last /\ tab'[t].known = tab[t].known
       /\ tab'[t].status = tab[t].status
       /\ Same(t) \/ Cut(t)
  /\ \/ hub' = hub
     \/ hub' = NoHub /\ \A t \in Tabs : Cut(t) \/ ~Subscribed(t)

LEMMA SaidNow ==
  \A e : e \in Said <=> \/ e \in stored \/ e \in bus.events \/ e \in loop.session.kept
                        \/ \E t \in Tabs : e \in tab[t].queue
BY DEF Said

LEMMA SaidNext ==
  \A e : e \in Said' <=> \/ e \in stored' \/ e \in bus'.events \/ e \in loop'.session.kept
                         \/ \E t \in Tabs : e \in tab'[t].queue
BY DEF Said

LEMMA NoHubIs ==
  /\ NoHub \in HubRow /\ NoHub.live = 0 /\ NoHub.durable = 0 /\ NoHub.poll = "none"
  /\ NoHub.seen = {} /\ NoHub.patience = "none" /\ NoHub.on = FALSE
BY DEF NoHub, HubRow

LEMMA DroppedIs ==
  ASSUME NEW t, tab[t] \in TabRow
  PROVE  /\ Dropped(t) \in TabRow /\ Dropped(t).at = "idle" /\ Dropped(t).end = "no"
         /\ Dropped(t).first = {} /\ Dropped(t).queue = {} /\ Dropped(t).last = tab[t].last
         /\ Dropped(t).known = tab[t].known /\ Dropped(t).status = tab[t].status
<1>1. {} \in SUBSET Events
  OBVIOUS
<1> QED BY <1>1 DEF Dropped, TabRow

LEMMA SaidTyped == ASSUME Inv PROVE Said \subseteq Events
<1>1. stored \subseteq Events /\ bus.events \subseteq Events /\ loop.session.kept \subseteq Events
  BY DEF Inv, Core, BusRow, LoopRow, Session
<1>2. \A t \in Tabs : tab[t].queue \subseteq Events
  BY DEF Inv, TabRow
<1> QED BY <1>1, <1>2, SaidNow

\* What the new numbers keep.
LEMMA NewNumbers ==
  ASSUME Inv, NEW X, Serves(X)
  PROVE  /\ top' \in Nat /\ top' >= top /\ late \subseteq late' /\ late' \subseteq Nat
         /\ \A x \in X : x \in Events /\ x.seq <= top' /\ (x.seq > top \/ x.seq \in late')
         /\ \A x, y \in X : x = y
<1>1. top \in Nat /\ late \subseteq Nat
  BY DEF Inv, Core
<1>2. CASE X = {} /\ Quiet
  BY <1>1, <1>2 DEF Quiet
<1>3. CASE \E x \in Events : X = {x} /\ Given(x.seq)
  <2>1. PICK x \in Events : X = {x} /\ Given(x.seq)
    BY <1>3
  <2>2. x.seq \in Nat
    BY DEF Events
  <2> QED BY <1>1, <2>1, <2>2, GivenIs
<1> QED BY <1>2, <1>3 DEF Serves

LEMMA SaidServed ==
  ASSUME Inv, NEW X, Serves(X), Steady
  PROVE  Said' \subseteq Said \cup X
<1>1. \A t \in Tabs : tab'[t].queue \subseteq tab[t].queue
  BY DEF Steady, Same, Cut
<1>2. \A e : e \in Said' => e \in Said \cup X
  BY <1>1, SaidNow, SaidNext DEF Serves
<1> QED BY <1>2

LEMMA StaysNumbered ==
  ASSUME Inv, NEW X, Serves(X), Steady
  PROVE  OneEvent' /\ Bounded'
<1>1. Said' \subseteq Said \cup X /\ Said \subseteq Events
  BY SaidServed, SaidTyped
<1>2. /\ top' \in Nat /\ top' >= top /\ late \subseteq late' /\ top \in Nat
      /\ \A x \in X : x \in Events /\ x.seq <= top' /\ (x.seq > top \/ x.seq \in late')
      /\ \A x, y \in X : x = y
  BY NewNumbers DEF Inv, Core
<1>3. \A e \in Said : e.seq <= top /\ e.seq \in Nat
  BY <1>1 DEF Inv, Bounded, Events
<1>4. \A e, f \in Said : e.seq = f.seq /\ e.seq \notin late => e = f
  BY DEF Inv, OneEvent
<1>5. OneEvent'
  <2>1. ASSUME NEW e \in Said', NEW f \in Said', e.seq = f.seq, e.seq \notin late' PROVE e = f
    <3>1. (e \in Said \/ e \in X) /\ (f \in Said \/ f \in X)
      BY <1>1
    <3>2. CASE e \in Said /\ f \in Said
      BY <1>2, <1>4, <2>1, <3>2
    <3>3. CASE e \in X /\ f \in X
      BY <1>2, <3>3
    <3>4. CASE e \in Said /\ f \in X
      BY <1>2, <1>3, <2>1, <3>4
    <3>5. CASE e \in X /\ f \in Said
      BY <1>2, <1>3, <2>1, <3>5
    <3> QED BY <3>1, <3>2, <3>3, <3>4, <3>5
  <2> QED BY <2>1 DEF OneEvent
<1>6. \A e \in Said' : e.seq <= top'
  <2>1. ASSUME NEW e \in Said' PROVE e.seq <= top'
    BY <1>1, <1>2, <1>3
  <2> QED BY <2>1
<1>7. hub'.live <= top' /\ hub'.durable <= top'
  <2>1. hub.live \in Nat /\ hub.durable \in Nat /\ hub.live <= top /\ hub.durable <= top
    BY DEF Inv, HubRow, Bounded
  <2> QED BY <1>2, <2>1, NoHubIs DEF Steady
<1>8. \A t \in Tabs : tab'[t].last <= top'
  <2>1. \A t \in Tabs : tab[t].last \in Nat /\ tab[t].last <= top
    BY DEF Inv, TabRow, Bounded
  <2> QED BY <1>2, <2>1 DEF Steady
<1> QED BY <1>5, <1>6, <1>7, <1>8 DEF Bounded

LEMMA StaysInView ==
  ASSUME Inv, NEW X, Serves(X), Steady
  PROVE  View'
<1>1. /\ top \in Nat /\ late \subseteq late'
      /\ \A x \in X : x \in Events /\ (x.seq > top \/ x.seq \in late')
  BY NewNumbers DEF Inv, Core
<1>2. \A t \in Tabs : tab[t].last \in Nat /\ tab[t].last <= top
  BY DEF Inv, TabRow, Bounded
<1>3. \A e \in stored \cup loop.session.kept : e.seq \in Nat
  BY DEF Inv, Core, LoopRow, Session, Events
<1>4. Known'
  <2>1. ASSUME NEW t \in Tabs, NEW e \in stored' \cup loop'.session.kept,
               e.seq <= tab'[t].last, e.seq \notin late'
        PROVE  e \in tab'[t].known
    <3>1. CASE e \in stored \cup loop.session.kept
      BY <1>1, <2>1, <3>1 DEF Inv, View, Known, Steady
    <3>2. CASE e \in X
      <4>1. e.seq > top /\ e.seq \in Nat
        BY <1>1, <2>1, <3>2 DEF Events
      <4> QED BY <1>1, <1>2, <2>1, <4>1 DEF Steady
    <3> QED BY <3>1, <3>2 DEF Serves
  <2> QED BY <2>1 DEF Known
<1>5. Reached'
  BY DEF Reached, Inv, View, Steady, Same, Cut, Serves
<1>6. Channels'
  <2>1. (hub.seen \subseteq stored)'
    BY NoHubIs DEF Inv, View, Channels, Steady, Serves
  <2>2. ASSUME NEW t \in Tabs
        PROVE  /\ tab'[t].first \subseteq stored' /\ (tab'[t].at # "joined" => tab'[t].first = {})
               /\ tab'[t].at \notin {"joined", "open"} => tab'[t].queue = {}
               /\ tab'[t].at \in {"idle", "lost"} => tab'[t].end = "no"
               /\ \A e \in tab'[t].queue : e \in stored' \/ e.kind \in {"delta", "kept"}
    BY DEF Inv, View, Channels, Steady, Serves, Same, Cut
  <2>3. ASSUME NEW t \in Tabs, Subscribed(t)' PROVE hub'.on
    BY <2>3, NoHubIs DEF Inv, View, Channels, Steady, Same, Cut, Subscribed, Connected
  <2> QED BY <2>1, <2>2, <2>3 DEF Channels
<1>7. EndedInTime'
  BY DEF EndedInTime, Inv, View, Steady, Same, Cut, Serves
<1>8. Titles'
  <2>1. ASSUME NEW e \in stored', e.kind = "title", hub'.poll = "read", e.seq > hub'.durable,
               e \notin hub'.seen
        PROVE  \A f \in hub'.seen : f.seq < e.seq
    <3>1. CASE hub' = NoHub
      BY <3>1, NoHubIs
    <3>2. CASE hub' = hub /\ e \in stored
      BY <2>1, <3>2 DEF Inv, View, Titles
    <3>3. CASE hub' = hub /\ e \notin stored
      BY <2>1, <3>3 DEF Serves, Inv, View, Channels
    <3> QED BY <3>1, <3>2, <3>3 DEF Steady
  <2>2. ASSUME NEW e \in stored', e.kind = "title", e.seq \notin late', NEW t \in Tabs
        PROVE  /\ Subscribed(t)' => Underway(e, t)' \/ e.seq > hub'.durable
               /\ tab'[t].end = "yes" => Underway(e, t)'
    <3>1. CASE Cut(t)
      BY <3>1 DEF Cut, Subscribed, Connected
    <3>2. CASE Same(t) /\ e \in stored
      <4>1. e.seq \notin late
        BY <1>1, <2>2
      <4>2. /\ Subscribed(t) => Underway(e, t) \/ e.seq > hub.durable
            /\ tab[t].end = "yes" => Underway(e, t)
        BY <2>2, <3>2, <4>1 DEF Inv, View, Titles
      <4>3. (Subscribed(t)' <=> Subscribed(t)) /\ (Underway(e, t)' <=> Underway(e, t))
        BY <3>2 DEF Same, Subscribed, Connected, Underway
      <4>4. hub' = hub \/ ~Subscribed(t)
        BY <3>2 DEF Same, Cut, Steady, Subscribed, Connected
      <4> QED BY <3>2, <4>2, <4>3, <4>4 DEF Same
    <3>3. CASE Same(t) /\ e \notin stored
      <4>1. e \in X \/ e \in loop.session.kept
        BY <3>3 DEF Serves
      <4>2. e \in X /\ e.seq > top /\ e.seq \in Nat
        BY <1>1, <2>2, <4>1 DEF Inv, Core, KeptOK, Events
      <4>3. hub'.durable <= top /\ hub'.durable \in Nat
        BY <1>1, NoHubIs DEF Steady, Inv, Bounded, HubRow
      <4>4. At("post") /\ run.status = "completed"
        BY <2>2, <3>3 DEF Serves
      <4>5. tab[t].end # "yes"
        BY <4>4 DEF Inv, View, EndedInTime, Core, Closing, At
      <4> QED BY <1>1, <3>3, <4>2, <4>3, <4>5 DEF Same
    <3> QED BY <3>1, <3>2, <3>3 DEF Steady
  <2> QED BY <2>1, <2>2 DEF Titles
<1> QED BY <1>4, <1>5, <1>6, <1>7, <1>8 DEF View

LEMMA ServerGood ==
  ASSUME Inv, NEW X, Serves(X), Steady, Core', mishaps' \in 0..MaxMishaps
  PROVE  Inv'
<1>1. hub' \in HubRow
  BY NoHubIs DEF Steady, Inv
<1> QED BY <1>1, StaysNumbered, StaysInView DEF Inv, Steady

\* No browser and no connection takes part in the step.
LEMMA SteadyKept == ASSUME Inv, UNCHANGED Browsers PROVE Steady
<1>1. hub' = hub /\ tab' = tab
  BY DEF Browsers
<1>2. tab' \in [Tabs -> TabRow]
  BY <1>1 DEF Inv
<1>3. \A t \in Tabs : /\ tab'[t].last = tab[t].last /\ tab'[t].known = tab[t].known
                      /\ tab'[t].status = tab[t].status /\ Same(t)
  BY <1>1 DEF Same
<1> QED BY <1>1, <1>2, <1>3 DEF Steady

-----------------------------------------------------------------------------
(* The tables and the loop: what makes Core go on.                         *)

\* The session keeps what it has, or is gone.
SessionStays ==
  \/ loop'.session.kept = loop.session.kept /\ loop'.session.last = loop.session.last
  \/ loop'.session.kept = {} /\ loop'.session.last \in Nat /\ loop'.session.last <= top

\* The buffer keeps what it has, or less.
BusStays == bus' \in BusRow /\ bus'.events \subseteq bus.events /\ bus'.last <= top

LEMMA CoreTypes ==
  ASSUME Inv
  PROVE  /\ run.status \in Statuses /\ run.version \in Nat /\ run.next \in Nat \ {0}
         /\ top \in Nat /\ late \subseteq Nat /\ stored \subseteq Events
         /\ loop \in LoopRow /\ loop.session \in Session
         /\ loop.session.kept \subseteq Events /\ loop.session.last \in Nat
         /\ loop.session.last <= top /\ run.next <= top + 1
         /\ bus \in BusRow /\ bus.last \in Nat /\ bus.last <= top /\ bus.events \subseteq Events
         /\ \A e \in stored : e.seq \in Nat /\ e.seq < run.next
         /\ \A e \in loop.session.kept : e.seq \in Nat /\ e.seq <= loop.session.last
BY DEF Inv, Core, RunRow, LoopRow, Session, BusRow, NumbersBounded, NumbersAreUnique, KeptOK, Events

\* No table changes.
LEMMA QuietCore ==
  ASSUME Inv, UNCHANGED <<run, stored>>, Quiet, loop' \in LoopRow, SessionStays, BusStays,
         EndingOK', Closing'
  PROVE  Core' /\ Serves({})
<1>1. run' = run /\ stored' = stored /\ top' = top /\ late' = late
  BY DEF Quiet
<1>2. NumbersAreUnique'
  BY <1>1 DEF Inv, Core, NumbersAreUnique
<1>3. NumbersBounded'
  BY <1>1, CoreTypes DEF NumbersBounded, SessionStays, BusStays
<1>4. KeptOK'
  BY <1>1 DEF Inv, Core, KeptOK, SessionStays, BusStays
<1>5. Core'
  BY <1>1, <1>2, <1>3, <1>4 DEF Inv, Core, BusStays
<1>6. Serves({})
  BY <1>1 DEF Serves, SessionStays, BusStays, Quiet
<1> QED BY <1>5, <1>6

\* A loop that does not take its run for completed is where it may be.
LEMMA QuietCloses ==
  ASSUME Inv, UNCHANGED <<run, stored>>,
         loop'.pc \in {"post", "named"} =>
           loop.pc \in {"post", "named"} /\ loop'.session.kept \subseteq loop.session.kept,
         At("off") => loop'.pc = "off" \/ run.status # "completed"
  PROVE  Closing'
BY DEF Inv, Core, Closing, At

LEMMA AppendIs ==
  ASSUME Inv, NEW status \in Statuses, NEW version \in Nat, NEW kind \in Kinds,
         Append(status, version, kind)
  PROVE  LET x == Event(run.next, kind) IN
         /\ x \in Events /\ x.seq = run.next /\ x.kind = kind
         /\ stored' = stored \cup {x} /\ x \notin stored
         /\ run' \in RunRow /\ run'.status = status /\ run'.next = run.next + 1
         /\ top' \in Nat /\ top' >= top /\ top' >= run.next
         /\ late' \subseteq Nat /\ late \subseteq late' /\ Given(x.seq)
         /\ run.next > top \/ run.next \in late'
<1> DEFINE x == Event(run.next, kind)
<1>1. x \in Events /\ x.seq = run.next /\ x.kind = kind
  BY CoreTypes, EventIs
<1>2. Given(run.next) /\ stored' = stored \cup {x}
  BY DEF Append
<1>3. run' \in RunRow /\ run'.status = status /\ run'.next = run.next + 1
  BY CoreTypes DEF Append, RunRow
<1>4. x \notin stored
  BY <1>1, CoreTypes
<1> HIDE DEF x
<1>5. /\ top' \in Nat /\ top' >= top /\ top' >= run.next
      /\ late' \subseteq Nat /\ late \subseteq late'
      /\ run.next > top \/ run.next \in late'
  BY <1>2, CoreTypes, GivenIs
<1> QED BY <1>1, <1>2, <1>3, <1>4, <1>5 DEF x

\* The row gives its next number.
LEMMA AppendCore ==
  ASSUME Inv, NEW status \in Statuses, NEW version \in Nat, NEW kind \in Kinds \ {"delta"},
         Append(status, version, kind), loop' \in LoopRow, SessionStays, BusStays,
         EndingOK', Closing'
  PROVE  Core'
<1>1. PICK x \in Events :
         /\ x.seq = run.next /\ x.kind = kind /\ stored' = stored \cup {x} /\ x \notin stored
         /\ run' \in RunRow /\ run'.status = status /\ run'.next = run.next + 1
         /\ top' \in Nat /\ top' >= top /\ top' >= run.next
         /\ late' \subseteq Nat /\ late \subseteq late'
         /\ run.next > top \/ run.next \in late'
  BY AppendIs
<1>2. NumbersAreUnique'
  BY <1>1, CoreTypes DEF Inv, Core, NumbersAreUnique
<1>3. NumbersBounded'
  BY <1>1, CoreTypes DEF NumbersBounded, SessionStays, BusStays, BusRow
<1>4. KeptOK'
  <2>1. \A e \in loop'.session.kept \ stored' : e.seq >= run'.next \/ e.seq \in late'
    <3>1. ASSUME NEW e \in loop.session.kept, e \notin stored, SessionStays,
                 e.seq # run.next \/ run.next \in late'
          PROVE  e.seq >= run'.next \/ e.seq \in late'
      BY <1>1, <3>1, CoreTypes DEF Inv, Core, KeptOK
    <3>2. ASSUME NEW e \in loop.session.kept PROVE e.seq # run.next \/ run.next \in late'
      BY <1>1, CoreTypes
    <3> QED BY <1>1, <3>1, <3>2 DEF SessionStays
  <2> QED BY <1>1, <2>1 DEF Inv, Core, KeptOK, SessionStays, BusStays
<1> QED BY <1>1, <1>2, <1>3, <1>4 DEF Inv, Core, BusStays

LEMMA AppendServes ==
  ASSUME Inv, NEW status \in Statuses, NEW version \in Nat, NEW kind \in Kinds,
         Append(status, version, kind), SessionStays, BusStays,
         run.status \in Over => status = run.status,
         kind = "end" => run.status \notin Over,
         kind = "title" => At("post") /\ run.status = "completed"
  PROVE  \E X : Serves(X)
<1>1. PICK x \in Events :
         /\ x.seq = run.next /\ x.kind = kind /\ stored' = stored \cup {x} /\ x \notin stored
         /\ run'.status = status /\ Given(x.seq)
  BY AppendIs
<1>2. Serves({x})
  BY <1>1, CoreTypes DEF Serves, SessionStays, BusStays
<1> QED BY <1>2

\* A note changes nothing of how the run ends.
LEMMA NoteCloses ==
  ASSUME Inv, NEW status \in Statuses, NEW version \in Nat, Append(status, version, "note"),
         status = run.status \/ (status \notin Over /\ run.status \notin Over),
         run.status # "completed" \/ ~At("off"), loop'.pc \notin {"post", "named"}
  PROVE  Closing'
<1>1. PICK x \in Events :
         x.kind = "note" /\ stored' = stored \cup {x} /\ run'.status = status
  BY AppendIs DEF Kinds
<1>2. status \in Over <=> run.status \in Over
  OBVIOUS
<1>3. \A e \in stored : e.kind # "post"
  BY DEF Inv, Core, Closing
<1>4. status = "completed" <=> run.status = "completed"
  BY DEF Over
<1> QED BY <1>1, <1>2, <1>3, <1>4 DEF Inv, Core, Closing, Over

LEMMA EndCloses ==
  ASSUME Inv, NEW status \in Over, NEW version \in Nat, Append(status, version, "end"),
         run.status \notin Over, loop'.pc \notin {"post", "named"}
  PROVE  Closing'
<1>1. PICK x \in Events :
         x.kind = "end" /\ stored' = stored \cup {x} /\ run'.status = status
  BY AppendIs DEF Kinds, Statuses
<1>2. \A e \in stored : e.kind \notin {"end", "title", "post"}
  BY DEF Inv, Core, Closing, Over
<1> QED BY <1>1, <1>2 DEF Closing

-----------------------------------------------------------------------------
(* A batch.                                                                *)

\* A batch that passes the fence.
LEMMA ApplyGood ==
  ASSUME Inv, NEW to \in {"running"} \cup Over, ~Refusal(loop.session), Apply(loop.session, to),
         loop' \in LoopRow, SessionStays, BusStays, EndingOK',
         loop'.pc \in {"post", "named"} => to = "completed"
  PROVE  Core' /\ \E X : Serves(X)
<1> DEFINE s == loop.session
           next == Max({run.next, s.last + 1})
<1>1. /\ run.status = "running"
      /\ \A e \in s.kept : e \notin stored /\ \A f \in stored : e.seq # f.seq
  BY DEF Refusal
<1>2. next \in Nat /\ next >= run.next /\ next >= s.last + 1 /\ next <= top + 1 /\ next # 0
  <2>1. run.next \in Nat /\ s.last + 1 \in Nat /\ run.next # 0
    BY CoreTypes
  <2> QED BY <2>1, CoreTypes, MaxOfTwo
<1>3. stored \cup s.kept \subseteq Events
  BY CoreTypes
<1>4. \A e \in stored \cup s.kept : e.seq \in Nat /\ e.seq < next
  BY <1>2, CoreTypes
<1>5. \A e, f \in stored \cup s.kept : e.seq = f.seq => e = f
  BY <1>1 DEF Inv, Core, NumbersAreUnique, KeptOK
<1>6. loop'.session.kept \subseteq s.kept /\ bus'.events \subseteq bus.events
  BY DEF SessionStays, BusStays
<1>7. \A e \in s.kept : e.kind = "kept"
  BY DEF Inv, Core, KeptOK
<1>8. \A e \in stored : e.kind \notin {"end", "title", "post"}
  BY <1>1 DEF Inv, Core, Closing, Over
<1> HIDE DEF next, s
<1>9. CASE to = "running"
  <2>1. /\ run' = [run EXCEPT !.next = next] /\ stored' = stored \cup s.kept
        /\ top' = top /\ late' = late
    BY <1>9 DEF Apply, Quiet, next, s
  <2>2. run' \in RunRow /\ run'.status = "running" /\ run'.next = next
    BY <1>1, <1>2, <2>1 DEF Inv, Core, RunRow
  <2>3. NumbersAreUnique'
    BY <1>4, <1>5, <2>1, <2>2 DEF NumbersAreUnique
  <2>4. NumbersBounded'
    BY <1>2, <2>1, <2>2, CoreTypes DEF NumbersBounded, SessionStays, BusStays
  <2>5. KeptOK'
    BY <1>6, <1>7, <2>1 DEF s, KeptOK, Inv, Core, SessionStays
  <2>6. Closing'
    BY <1>7, <1>8, <1>9, <2>1, <2>2 DEF Closing, Over
  <2>7. Serves({})
    BY <1>1, <1>6, <1>7, <2>1, <2>2 DEF Serves, Quiet, s, Over
  <2>8. Core'
    BY <1>3, <2>1, <2>2, <2>3, <2>4, <2>5, <2>6 DEF Core, Inv, BusStays
  <2> QED BY <2>7, <2>8
<1>10. CASE to \in Over
  <2> DEFINE x == Event(next, "end")
  <2>1. /\ run' = [status |-> to, version |-> run.version + 1, next |-> next + 1]
        /\ stored' = stored \cup s.kept \cup {x} /\ Given(next)
    BY <1>10 DEF Apply, next, s, Over
  <2>2. x \in Events /\ x.seq = next /\ x.kind = "end"
    BY <1>2, EventIs DEF Kinds
  <2> HIDE DEF x
  <2>3. /\ top' \in Nat /\ top' >= top /\ top' >= next
        /\ late' \subseteq Nat /\ late \subseteq late'
    BY <1>2, <2>1, CoreTypes, GivenIs
  <2>4. run' \in RunRow /\ run'.status = to /\ run'.next = next + 1
    BY <1>2, <1>10, <2>1, CoreTypes DEF RunRow, Statuses
  <2>5. NumbersAreUnique'
    BY <1>2, <1>4, <1>5, <2>1, <2>2, <2>4 DEF NumbersAreUnique
  <2>6. NumbersBounded'
    BY <1>2, <2>3, <2>4, CoreTypes DEF NumbersBounded, SessionStays, BusStays, BusRow
  <2>7. KeptOK'
    BY <1>6, <1>7, <2>1, <2>2 DEF s, KeptOK, Inv, Core, SessionStays
  <2>8. Closing'
    BY <1>6, <1>7, <1>8, <1>10, <2>1, <2>2, <2>4 DEF Closing
  <2>9. Serves({x})
    BY <1>1, <1>6, <1>7, <2>1, <2>2, <2>4 DEF Serves, s, Over
  <2>10. Core'
    BY <1>3, <2>1, <2>2, <2>3, <2>4, <2>5, <2>6, <2>7, <2>8 DEF Core, Inv, BusStays
  <2> QED BY <2>9, <2>10
<1> QED BY <1>9, <1>10

-----------------------------------------------------------------------------
(* The steps of the loop.                                                  *)

LEMMA NoSessionIs ==
  /\ NoSession \in Session /\ NoSession.kept = {} /\ NoSession.last = 0
  /\ NoSession.tries = 0 /\ NoSession.intent = "none"
<1>1. 0 \in 0..Attempts /\ {} \in SUBSET Events
  BY StreamAssumption
<1> QED BY <1>1 DEF NoSession, Session

LEMMA GoIs ==
  ASSUME Inv, NEW place \in Pcs, Go(place)
  PROVE  /\ loop' \in LoopRow /\ loop'.pc = place /\ SessionStays
         /\ place # "off" => loop'.session = loop.session
         /\ loop'.session.kept \subseteq loop.session.kept
<1>1. loop \in LoopRow /\ top \in Nat
  BY DEF Inv, Core
<1>2. CASE place = "off"
  <2>1. loop' = [Idle EXCEPT !.steps = loop.steps]
    BY <1>2 DEF Go
  <2>2. loop'.pc = "off" /\ loop'.version = 0 /\ loop'.session = NoSession
        /\ loop'.steps = loop.steps /\ loop' \in LoopRow
    BY <1>1, <2>1, NoSessionIs DEF Idle, LoopRow, Pcs
  <2>3. SessionStays
    BY <1>1, <2>2, NoSessionIs DEF SessionStays
  <2> QED BY <1>2, <2>2, <2>3, NoSessionIs
<1>3. CASE place # "off"
  <2>1. loop' = [loop EXCEPT !.pc = place]
    BY <1>3 DEF Go
  <2>2. loop' \in LoopRow /\ loop'.pc = place /\ loop'.session = loop.session
    BY <1>1, <2>1 DEF LoopRow
  <2> QED BY <2>2 DEF SessionStays
<1> QED BY <1>2, <1>3

LEMMA BusKept == ASSUME Inv, UNCHANGED bus PROVE BusStays
BY DEF Inv, Core, NumbersBounded, BusStays

LEMMA BusMarked ==
  ASSUME Inv, NEW mark \in BOOLEAN, bus' = [bus EXCEPT !.cleaning = mark]
  PROVE  BusStays
BY DEF Inv, Core, NumbersBounded, BusStays, BusRow

LEMMA MishapCounts == ASSUME Inv, Mishap PROVE mishaps' \in 0..MaxMishaps
BY StreamAssumption DEF Inv, Mishap

LEMMA LoopTypes ==
  ASSUME Inv
  PROVE  /\ loop.pc \in Pcs /\ loop.version \in Nat /\ loop.steps \in 0..MaxSessions
         /\ loop.session \in Session /\ loop.session.tries \in 0..Attempts
BY DEF Inv, Core, LoopRow, Session

\* A claimed run continues with the numbers of its row.
LEMMA ClaimGood == ASSUME Inv, Claim PROVE Inv'
<1>1. /\ run.status = "queued" /\ At("off") /\ Append("running", run.version + 1, "note")
      /\ loop' = [loop EXCEPT !.pc = "idle", !.version = run.version + 1]
      /\ UNCHANGED bus /\ UNCHANGED Browsers /\ UNCHANGED mishaps
  BY DEF Claim
<1>2. loop' \in LoopRow /\ loop'.pc = "idle" /\ loop'.session = loop.session
  <2>1. loop \in LoopRow /\ run.version + 1 \in Nat
    BY CoreTypes
  <2> QED BY <1>1, <2>1 DEF LoopRow, Pcs
<1>3. SessionStays /\ BusStays /\ EndingOK'
  BY <1>1, <1>2, BusKept DEF SessionStays, EndingOK, At
<1>4. "running" \in Statuses /\ run.version + 1 \in Nat /\ "note" \in Kinds
  BY CoreTypes DEF Statuses, Kinds
<1>5. Closing'
  BY <1>1, <1>2, <1>4, NoteCloses DEF Over
<1>6. Core' /\ \E X : Serves(X)
  BY <1>1, <1>2, <1>3, <1>4, <1>5, AppendCore, AppendServes DEF Over
<1> QED BY <1>1, <1>6, ServerGood, SteadyKept DEF Inv

LEMMA OpenSessionGood == ASSUME Inv, OpenSession PROVE Inv'
<1> DEFINE s == [NoSession EXCEPT !.last = run.next - 1]
<1>1. /\ At("idle") /\ loop.steps < MaxSessions
      /\ loop' = [loop EXCEPT !.pc = "stream", !.steps = @ + 1, !.session = s]
      /\ bus' = [bus EXCEPT !.last = Max({@, run.next - 1}), !.cleaning = FALSE]
      /\ UNCHANGED <<run, stored>> /\ Quiet /\ UNCHANGED Browsers /\ UNCHANGED mishaps
  BY DEF OpenSession
<1>2. run.next - 1 \in Nat /\ run.next - 1 <= top
  BY CoreTypes
<1>3. s \in Session /\ s.kept = {} /\ s.last = run.next - 1
  BY <1>2, NoSessionIs DEF Session
<1> HIDE DEF s
<1>4. loop.steps + 1 \in 0..MaxSessions
  BY <1>1, LoopTypes, StreamAssumption
<1>5. loop' \in LoopRow /\ loop'.pc = "stream" /\ loop'.session = s
  BY <1>1, <1>3, <1>4, CoreTypes DEF LoopRow, Pcs
<1>6. BusStays
  <2>1. Max({bus.last, run.next - 1}) \in Nat /\ Max({bus.last, run.next - 1}) <= top
    BY <1>2, CoreTypes, MaxOfTwo
  <2> QED BY <1>1, <2>1, CoreTypes DEF BusStays, BusRow
<1>7. SessionStays /\ EndingOK'
  BY <1>2, <1>3, <1>5 DEF SessionStays, EndingOK, At
<1>8. Closing'
  BY <1>1, <1>5, QuietCloses DEF At
<1>9. Core' /\ Serves({})
  BY <1>1, <1>5, <1>6, <1>7, <1>8, QuietCore
<1> QED BY <1>1, <1>9, ServerGood, SteadyKept DEF Inv

\* A live event takes the number after the highest of the buffer and the session.
LEMMA PublishGood == ASSUME Inv, NEW kind \in {"delta", "kept"}, Publish(kind) PROVE Inv'
<1> DEFINE n == Max({bus.last, loop.session.last}) + 1
           e == Event(n, kind)
           kept == IF kind = "kept" THEN loop.session.kept \cup {e} ELSE loop.session.kept
           s == [loop.session EXCEPT !.last = n, !.kept = kept]
<1>1. /\ loop.pc \in {"stream", "failing"}
      /\ bus' = [bus EXCEPT !.events = @ \cup {e}, !.last = n]
      /\ loop' = [loop EXCEPT !.session.last = n,
                              !.session.kept = IF kind = "kept" THEN @ \cup {e} ELSE @]
      /\ Given(n)
      /\ UNCHANGED <<run, stored>> /\ UNCHANGED Browsers /\ UNCHANGED mishaps
  BY DEF Publish, At
<1>2. n \in Nat /\ n > bus.last /\ n > loop.session.last
  BY CoreTypes, MaxOfTwo
<1>3. e \in Events /\ e.seq = n /\ e.kind = kind
  BY <1>2, EventIs DEF Kinds
<1> HIDE DEF n, e
<1>4. /\ top' \in Nat /\ top' >= top /\ top' >= n /\ late' \subseteq Nat /\ late \subseteq late'
      /\ n > top \/ n \in late'
  BY <1>1, <1>2, CoreTypes, GivenIs
<1>5. kept \subseteq Events /\ kept \subseteq loop.session.kept \cup {e}
      /\ (e \in kept => kind = "kept" \/ e \in loop.session.kept)
  BY <1>3, CoreTypes
<1> HIDE DEF kept
<1>6. s \in Session /\ s.last = n /\ s.kept = kept
      /\ s.intent = loop.session.intent /\ s.tries = loop.session.tries
  BY <1>2, <1>5, LoopTypes DEF Session
<1>7. loop' = [loop EXCEPT !.session = s]
  <2>1. loop \in LoopRow /\ loop.session \in Session
    BY CoreTypes
  <2> QED BY <1>1, <2>1 DEF LoopRow, Session, kept
<1> HIDE DEF s
<1>8. loop' \in LoopRow /\ loop'.pc = loop.pc /\ loop'.session = s
  BY <1>6, <1>7, CoreTypes DEF LoopRow
<1>9. bus' \in BusRow /\ bus'.events = bus.events \cup {e} /\ bus'.last = n
  BY <1>1, <1>2, <1>3, CoreTypes DEF BusRow
<1>10. NumbersAreUnique'
  BY <1>1 DEF Inv, Core, NumbersAreUnique
<1>11. NumbersBounded'
  BY <1>1, <1>4, <1>6, <1>8, <1>9, CoreTypes DEF NumbersBounded
<1>12. KeptOK'
  <2>1. \A f \in loop.session.kept : f.seq \in Nat /\ f.seq <= loop.session.last /\ f.seq < n
    BY <1>2, CoreTypes
  <2>2. \A f \in kept : f.kind = "kept" /\ f.seq <= n
    BY <1>2, <1>3, <1>5, <2>1 DEF Inv, Core, KeptOK
  <2>3. \A f, g \in kept : f.seq = g.seq => f = g
    BY <1>3, <1>5, <2>1 DEF Inv, Core, KeptOK
  <2>4. \A f \in kept \ stored : f.seq >= run.next \/ f.seq \in late'
    <3>1. n >= run.next \/ n \in late'
      BY <1>2, <1>4, CoreTypes
    <3> QED BY <1>3, <1>4, <1>5, <3>1 DEF Inv, Core, KeptOK
  <2>5. \A f \in bus'.events : f.kind \in {"delta", "kept"}
    BY <1>3, <1>9 DEF Inv, Core, KeptOK
  <2>6. stored' = stored /\ run' = run /\ \A f \in stored : f.kind # "delta"
    BY <1>1 DEF Inv, Core, KeptOK
  <2> QED BY <1>6, <1>8, <2>2, <2>3, <2>4, <2>5, <2>6 DEF KeptOK
<1>13. EndingOK' /\ Closing'
  BY <1>1, <1>8 DEF EndingOK, Inv, Core, Closing, At
<1>14. Core'
  BY <1>1, <1>4, <1>8, <1>9, <1>10, <1>11, <1>12, <1>13 DEF Core, Inv
<1>15. Serves({e})
  BY <1>1, <1>3, <1>5, <1>6, <1>8, <1>9 DEF Serves
<1> QED BY <1>1, <1>14, <1>15, ServerGood, SteadyKept DEF Inv

\* What a loop makes of an attempt to store its batch.
LEMMA SendGood ==
  ASSUME Inv, NEW to \in {"running"} \cup Over, Send(loop.session, to),
         loop' \in LoopRow, SessionStays, BusStays, EndingOK', ~At("off"),
         loop'.pc \in {"post", "named"} =>
           /\ to = "completed" /\ Verdict(loop.session, to) # "refused"
           /\ loop'.session.kept \subseteq loop.session.kept
  PROVE  Core' /\ \E X : Serves(X)
<1>1. CASE Verdict(loop.session, to) = "applied"
  <2>1. ~Refusal(loop.session) /\ Apply(loop.session, to)
    BY <1>1 DEF Send, Verdict
  <2> QED BY <2>1, ApplyGood
<1>2. CASE Verdict(loop.session, to) # "applied"
  <2>1. UNCHANGED <<run, stored>> /\ Quiet
    BY <1>2 DEF Send
  <2>2. loop'.pc \in {"post", "named"} =>
          run.status = "completed" /\ loop'.session.kept \subseteq stored
    BY <1>2 DEF Verdict, Persisted
  <2>3. Closing'
    BY <2>1, <2>2 DEF Inv, Core, Closing, At
  <2> QED BY <2>1, <2>3, QuietCore
<1> QED BY <1>1, <1>2

LEMMA CommitStepGood == ASSUME Inv, CommitStep PROVE Inv'
<1>1. At("stream") /\ UNCHANGED bus /\ UNCHANGED Browsers
  BY DEF CommitStep
<1>2. PICK place \in {"failing", "tools"} : Go(place)
  BY DEF CommitStep
<1>3. loop' \in LoopRow /\ loop'.pc = place /\ SessionStays /\ BusStays
  BY <1>1, <1>2, GoIs, BusKept DEF Pcs
<1>4. EndingOK' /\ ~At("off") /\ loop'.pc \notin {"post", "named"}
  BY <1>1, <1>3 DEF EndingOK, At
<1>5. mishaps' \in 0..MaxMishaps
  BY MishapCounts DEF CommitStep, Inv
<1>6. CASE Send(loop.session, "running")
  <2>1. Core' /\ \E X : Serves(X)
    BY <1>3, <1>4, <1>6, SendGood
  <2> QED BY <1>1, <1>5, <2>1, ServerGood, SteadyKept
<1>7. CASE UNCHANGED <<run, stored>> /\ Quiet
  <2>1. Core' /\ Serves({})
    BY <1>3, <1>4, <1>7, QuietCore, QuietCloses
  <2> QED BY <1>1, <1>5, <2>1, ServerGood, SteadyKept
<1> QED BY <1>6, <1>7 DEF CommitStep

LEMMA ToolResultGood == ASSUME Inv, ToolResult PROVE Inv'
<1>1. At("tools") /\ UNCHANGED bus /\ UNCHANGED Browsers /\ UNCHANGED mishaps
  BY DEF ToolResult
<1>2. CASE /\ run.status = "running" /\ Append(run.status, run.version, "note")
           /\ loop' = [loop EXCEPT !.pc = "idle", !.session = NoSession]
  <2>1. loop' \in LoopRow /\ loop'.pc = "idle" /\ loop'.session = NoSession
    BY <1>2, CoreTypes, NoSessionIs DEF LoopRow, Pcs
  <2>2. SessionStays /\ BusStays /\ EndingOK'
    BY <1>1, <2>1, CoreTypes, BusKept, NoSessionIs DEF SessionStays, EndingOK, At
  <2>3. run.status \in Statuses /\ run.version \in Nat /\ "note" \in Kinds
    BY CoreTypes DEF Kinds
  <2>4. Closing'
    BY <1>2, <2>1, <2>3, NoteCloses
  <2>5. Core' /\ \E X : Serves(X)
    BY <1>2, <2>1, <2>2, <2>3, <2>4, AppendCore, AppendServes
  <2> QED BY <1>1, <2>5, ServerGood, SteadyKept DEF Inv
<1>3. CASE run.status # "running" /\ Go("off") /\ UNCHANGED <<run, stored>> /\ Quiet
  <2>1. loop' \in LoopRow /\ loop'.pc = "off" /\ SessionStays /\ BusStays
    BY <1>1, <1>3, GoIs, BusKept DEF Pcs
  <2>2. EndingOK' /\ Closing'
    BY <1>1, <1>3, <2>1, QuietCloses DEF EndingOK, At
  <2>3. Core' /\ Serves({})
    BY <1>3, <2>1, <2>2, QuietCore
  <2> QED BY <1>1, <2>3, ServerGood, SteadyKept DEF Inv
<1> QED BY <1>2, <1>3 DEF ToolResult

LEMMA DecideGood ==
  ASSUME Inv, NEW to \in {"completed", "failed", "canceled"}, Decide(to)
  PROVE  Inv'
<1> DEFINE s == [loop.session EXCEPT !.intent = to, !.tries = 0]
<1>1. /\ loop.pc \in {"stream", "failing"}
      /\ loop' = [loop EXCEPT !.pc = "ending", !.session.intent = to, !.session.tries = 0]
      /\ \/ UNCHANGED <<run, stored>> /\ Quiet
         \/ Append(run.status, run.version, "note")
      /\ UNCHANGED bus /\ UNCHANGED Browsers /\ UNCHANGED mishaps
  BY DEF Decide, At
<1>2. s \in Session /\ s.kept = loop.session.kept /\ s.last = loop.session.last
      /\ s.intent = to /\ s.tries = 0
  <2>1. 0 \in 0..Attempts
    BY StreamAssumption
  <2> QED BY <2>1, LoopTypes DEF Session
<1>3. loop' = [loop EXCEPT !.pc = "ending", !.session = s]
  BY <1>1, CoreTypes DEF LoopRow, Session
<1> HIDE DEF s
<1>4. loop' \in LoopRow /\ loop'.pc = "ending" /\ loop'.session = s
  BY <1>2, <1>3, CoreTypes DEF LoopRow, Pcs
<1>5. SessionStays /\ BusStays /\ EndingOK' /\ ~At("off")
  BY <1>1, <1>2, <1>4, BusKept, StreamAssumption DEF SessionStays, EndingOK, At
<1>6. CASE UNCHANGED <<run, stored>> /\ Quiet
  <2>1. Core' /\ Serves({})
    BY <1>4, <1>5, <1>6, QuietCore, QuietCloses
  <2> QED BY <1>1, <2>1, ServerGood, SteadyKept DEF Inv
<1>7. CASE Append(run.status, run.version, "note")
  <2>1. run.status \in Statuses /\ run.version \in Nat /\ "note" \in Kinds
    BY CoreTypes DEF Kinds
  <2>2. Closing'
    BY <1>4, <1>5, <1>7, <2>1, NoteCloses
  <2>3. Core' /\ \E X : Serves(X)
    BY <1>4, <1>5, <1>7, <2>1, <2>2, AppendCore, AppendServes
  <2> QED BY <1>1, <2>3, ServerGood, SteadyKept DEF Inv
<1> QED BY <1>1, <1>6, <1>7

\* One more attempt at the end, or the last.
LEMMA TriesIs ==
  ASSUME Inv, At("ending"), loop' = [loop EXCEPT !.session.tries = @ + 1, !.pc = Again]
  PROVE  /\ loop' \in LoopRow /\ loop'.pc \in {"ending", "recover"} /\ SessionStays /\ EndingOK'
<1> DEFINE s == [loop.session EXCEPT !.tries = @ + 1]
<1>1. loop.session.tries < Attempts /\ loop.session.intent # "none"
  BY DEF Inv, Core, EndingOK
<1>2. loop.session.tries + 1 \in 0..Attempts
  BY <1>1, LoopTypes, StreamAssumption
<1>3. s \in Session /\ s.kept = loop.session.kept /\ s.last = loop.session.last
      /\ s.intent = loop.session.intent /\ s.tries = loop.session.tries + 1
  BY <1>2, LoopTypes DEF Session
<1>4. loop' = [loop EXCEPT !.session = s, !.pc = Again]
  BY CoreTypes DEF LoopRow, Session
<1> HIDE DEF s
<1>5. Again \in {"ending", "recover"} /\ (Again = "ending" => loop.session.tries + 1 < Attempts)
  BY DEF Again
<1>6. loop' \in LoopRow /\ loop'.pc = Again /\ loop'.session = s
  BY <1>3, <1>4, <1>5, CoreTypes DEF LoopRow, Pcs
<1> QED BY <1>1, <1>3, <1>5, <1>6 DEF SessionStays, EndingOK, At

LEMMA CommitEndGood == ASSUME Inv, CommitEnd PROVE Inv'
<1> DEFINE s == loop.session
           verdict == Verdict(s, s.intent)
<1>1. At("ending") /\ UNCHANGED Browsers /\ ~At("off")
  BY DEF CommitEnd, At
<1>2. s.intent \in {"running"} \cup Over
  BY <1>1, LoopTypes DEF Inv, Core, EndingOK, Session, Over
<1>3. CASE /\ Send(s, s.intent) /\ UNCHANGED mishaps
           /\ Go(IF verdict # "refused" THEN Ended
                 ELSE IF run.status \in Over THEN "off" ELSE "recover")
           /\ bus' = [bus EXCEPT !.cleaning = @ \/ verdict # "refused"]
  <2>1. PICK place \in {"post", "off", "recover"} :
          /\ Go(place)
          /\ place = "post" => s.intent = "completed" /\ verdict # "refused"
    BY <1>3 DEF Ended
  <2>2. /\ loop' \in LoopRow /\ loop'.pc = place /\ SessionStays
        /\ loop'.session.kept \subseteq loop.session.kept
    BY <2>1, GoIs DEF Pcs
  <2>3. EndingOK'
    BY <2>2 DEF EndingOK, At
  <2>4. BusStays
    <3>1. (bus.cleaning \/ verdict # "refused") \in BOOLEAN
      BY DEF Inv, Core, BusRow
    <3> QED BY <1>3, <3>1, BusMarked
  <2>5. Core' /\ \E X : Serves(X)
    BY <1>1, <1>2, <1>3, <2>1, <2>2, <2>3, <2>4, SendGood
  <2> QED BY <1>1, <1>3, <2>5, ServerGood, SteadyKept DEF Inv
<1>4. CASE /\ Mishap /\ Send(s, s.intent) /\ UNCHANGED bus
           /\ loop' = [loop EXCEPT !.session.tries = @ + 1, !.pc = Again]
  <2>1. /\ loop' \in LoopRow /\ loop'.pc \notin {"post", "named"}
        /\ SessionStays /\ EndingOK' /\ BusStays
    BY <1>1, <1>4, TriesIs, BusKept
  <2>2. Core' /\ \E X : Serves(X)
    BY <1>1, <1>2, <1>4, <2>1, SendGood
  <2> QED BY <1>1, <1>4, <2>2, ServerGood, SteadyKept, MishapCounts
<1>5. CASE /\ Mishap /\ UNCHANGED <<run, stored, bus>> /\ Quiet
           /\ loop' = [loop EXCEPT !.session.tries = @ + 1, !.pc = Again]
  <2>1. /\ loop' \in LoopRow /\ loop'.pc \notin {"post", "named"}
        /\ SessionStays /\ EndingOK' /\ BusStays
    BY <1>1, <1>5, TriesIs, BusKept
  <2>2. Core' /\ Serves({})
    BY <1>1, <1>5, <2>1, QuietCore, QuietCloses
  <2> QED BY <1>1, <1>5, <2>2, ServerGood, SteadyKept, MishapCounts
<1> QED BY <1>3, <1>4, <1>5 DEF CommitEnd

LEMMA ExhaustedGood == ASSUME Inv, Exhausted PROVE Inv'
<1>1. At("recover") /\ Go("off") /\ UNCHANGED Browsers /\ ~At("off")
  BY DEF Exhausted, At
<1>2. loop' \in LoopRow /\ loop'.pc = "off" /\ SessionStays
  BY <1>1, GoIs DEF Pcs
<1>3. EndingOK'
  BY <1>2 DEF EndingOK, At
<1>4. mishaps' \in 0..MaxMishaps
  BY MishapCounts DEF Exhausted, Inv
<1>5. CASE /\ run.status = "running" /\ Append("interrupted", run.version + 1, "end")
           /\ bus' = [bus EXCEPT !.cleaning = TRUE]
  <2>1. BusStays
    BY <1>5, BusMarked
  <2>2. /\ "interrupted" \in Over /\ "interrupted" \in Statuses /\ "end" \in Kinds
        /\ run.version + 1 \in Nat /\ run.status \notin Over
    BY <1>5, CoreTypes DEF Over, Statuses, Kinds
  <2>3. Closing'
    BY <1>2, <1>5, <2>2, EndCloses
  <2>4. Core' /\ \E X : Serves(X)
    BY <1>2, <1>3, <1>5, <2>1, <2>2, <2>3, AppendCore, AppendServes
  <2> QED BY <1>1, <1>4, <2>4, ServerGood, SteadyKept
<1>6. CASE UNCHANGED <<run, stored, bus>> /\ Quiet
  <2>1. Core' /\ Serves({})
    BY <1>1, <1>2, <1>3, <1>6, BusKept, QuietCore, QuietCloses
  <2> QED BY <1>1, <1>4, <2>1, ServerGood, SteadyKept
<1> QED BY <1>5, <1>6 DEF Exhausted

LEMMA NameConversationGood == ASSUME Inv, NameConversation PROVE Inv'
<1>1. /\ At("post") /\ Append(run.status, run.version, "title") /\ Go("named")
      /\ UNCHANGED bus /\ UNCHANGED Browsers /\ UNCHANGED mishaps
  BY DEF NameConversation
<1>2. /\ loop' \in LoopRow /\ loop'.pc = "named" /\ SessionStays
      /\ loop'.session = loop.session
  BY <1>1, GoIs DEF Pcs
<1>3. EndingOK' /\ BusStays
  BY <1>1, <1>2, BusKept DEF EndingOK, At
<1>4. run.status \in Statuses /\ run.version \in Nat /\ "title" \in Kinds
  BY CoreTypes DEF Kinds
<1>5. run.status = "completed" /\ loop.session.kept \subseteq stored
  BY <1>1 DEF Inv, Core, Closing, At
<1>6. PICK x \in Events : x.kind = "title" /\ stored' = stored \cup {x} /\ run'.status = run.status
  BY <1>1, <1>4, AppendIs
<1>7. Closing'
  <2>1. \A e \in stored : e.kind # "post"
    BY <1>1 DEF Inv, Core, Closing, At
  <2> QED BY <1>2, <1>5, <1>6, <2>1 DEF Inv, Core, Closing
<1>8. Core' /\ \E X : Serves(X)
  BY <1>1, <1>2, <1>3, <1>4, <1>5, <1>7, AppendCore, AppendServes
<1> QED BY <1>1, <1>8, ServerGood, SteadyKept DEF Inv

LEMMA MarkPostProcessGood == ASSUME Inv, MarkPostProcess PROVE Inv'
<1>1. loop.pc \in {"post", "named"} /\ Go("off") /\ UNCHANGED bus /\ UNCHANGED Browsers
  BY DEF MarkPostProcess
<1>2. loop' \in LoopRow /\ loop'.pc = "off" /\ SessionStays /\ BusStays
  BY <1>1, GoIs, BusKept DEF Pcs
<1>3. EndingOK'
  BY <1>2 DEF EndingOK, At
<1>4. mishaps' \in 0..MaxMishaps
  BY MishapCounts DEF MarkPostProcess, Inv
<1>5. CASE Append(run.status, run.version, "post")
  <2>1. run.status \in Statuses /\ run.version \in Nat /\ "post" \in Kinds
    BY CoreTypes DEF Kinds
  <2>2. run.status = "completed" /\ \A e \in stored : e.kind # "post"
    BY <1>1 DEF Inv, Core, Closing, At
  <2>3. PICK x \in Events : /\ x.kind = "post" /\ x.seq = run.next
                            /\ stored' = stored \cup {x} /\ run'.status = run.status
    BY <1>5, <2>1, AppendIs
  <2>4. Closing'
    BY <1>2, <2>2, <2>3, CoreTypes DEF Inv, Core, Closing, At
  <2>5. Core' /\ \E X : Serves(X)
    BY <1>2, <1>3, <1>5, <2>1, <2>4, AppendCore, AppendServes
  <2> QED BY <1>1, <1>4, <2>5, ServerGood, SteadyKept
<1>6. CASE UNCHANGED <<run, stored>> /\ Quiet
  <2>1. Core' /\ Serves({})
    BY <1>1, <1>2, <1>3, <1>6, QuietCore, QuietCloses DEF At
  <2> QED BY <1>1, <1>4, <2>1, ServerGood, SteadyKept
<1> QED BY <1>5, <1>6 DEF MarkPostProcess

-----------------------------------------------------------------------------
(* The API and the process.                                                *)

LEMMA CancelRunGood == ASSUME Inv, CancelRun PROVE Inv'
<1>1. /\ run.status \notin Over /\ Append("canceled", run.version + 1, "end")
      /\ UNCHANGED loop /\ UNCHANGED bus /\ UNCHANGED Browsers /\ mishaps' \in 0..MaxMishaps
  BY MishapCounts DEF CancelRun
<1>2. loop' \in LoopRow /\ SessionStays /\ EndingOK' /\ BusStays
  BY <1>1, BusKept DEF Inv, Core, SessionStays, EndingOK, At
<1>3. /\ "canceled" \in Over /\ "canceled" \in Statuses /\ "end" \in Kinds
      /\ run.version + 1 \in Nat
  BY CoreTypes DEF Over, Statuses, Kinds
<1>4. loop.pc \notin {"post", "named"}
  BY <1>1 DEF Inv, Core, Closing, Over
<1>5. Closing'
  BY <1>1, <1>3, <1>4, EndCloses
<1>6. Core' /\ \E X : Serves(X)
  BY <1>1, <1>2, <1>3, <1>5, AppendCore, AppendServes
<1> QED BY <1>1, <1>6, ServerGood, SteadyKept

\* An empty buffer.
LEMMA BusDropped ==
  ASSUME Inv, bus' = [events |-> {}, last |-> 0, cleaning |-> FALSE]
  PROVE  BusStays
BY CoreTypes DEF BusStays, BusRow

LEMMA DropBufferGood == ASSUME Inv, DropBuffer PROVE Inv'
<1>1. /\ UNCHANGED <<run, stored>> /\ UNCHANGED loop /\ Quiet
      /\ UNCHANGED Browsers /\ UNCHANGED mishaps
      /\ BusStays
  BY BusDropped DEF DropBuffer
<1>2. loop' \in LoopRow /\ SessionStays /\ EndingOK' /\ Closing'
  BY <1>1 DEF Inv, Core, SessionStays, EndingOK, Closing, At
<1>3. Core' /\ Serves({})
  BY <1>1, <1>2, QuietCore
<1> QED BY <1>1, <1>3, ServerGood, SteadyKept DEF Inv

\* The connections break with the process, and the run is queued again or interrupted.
LEMMA RestartGood == ASSUME Inv, Restart PROVE Inv'
<1>1. /\ loop' = [Idle EXCEPT !.steps = loop.steps] /\ hub' = NoHub /\ BusStays
      /\ tab' = [t \in Tabs |-> IF Connected(t) THEN Dropped(t) ELSE tab[t]]
      /\ mishaps' \in 0..MaxMishaps
  BY MishapCounts, BusDropped DEF Restart
<1>2. Go("off")
  BY <1>1 DEF Go
<1>3. loop' \in LoopRow /\ loop'.pc = "off" /\ SessionStays
  BY <1>2, GoIs DEF Pcs
<1>4. EndingOK'
  BY <1>3 DEF EndingOK, At
<1>5. Steady
  <2>1. \A t \in Tabs : tab[t] \in TabRow
    BY DEF Inv
  <2>2. ASSUME NEW t \in Tabs
        PROVE  /\ tab'[t] \in TabRow /\ tab'[t].last = tab[t].last
               /\ tab'[t].known = tab[t].known /\ tab'[t].status = tab[t].status
               /\ Same(t) \/ Cut(t)
               /\ Cut(t) \/ ~Subscribed(t)
    <3>1. CASE Connected(t)
      BY <1>1, <2>1, <3>1, DroppedIs DEF Cut
    <3>2. CASE ~Connected(t)
      BY <1>1, <2>1, <3>2 DEF Same, Subscribed
    <3> QED BY <3>1, <3>2
  <2>3. tab' \in [Tabs -> TabRow]
    BY <1>1, <2>2
  <2> QED BY <1>1, <2>2, <2>3 DEF Steady
<1>6. /\ "queued" \in Statuses /\ "queued" \notin Over /\ "interrupted" \in Over
      /\ "interrupted" \in Statuses /\ {"note", "end"} \subseteq Kinds
      /\ run.version + 1 \in Nat /\ "running" \notin Over
  BY CoreTypes DEF Over, Statuses, Kinds
<1>7. CASE run.status = "running" /\ Append("queued", run.version + 1, "note")
  <2>1. Closing'
    BY <1>3, <1>6, <1>7, NoteCloses
  <2>2. Core' /\ \E X : Serves(X)
    BY <1>1, <1>3, <1>4, <1>6, <1>7, <2>1, AppendCore, AppendServes
  <2> QED BY <1>1, <1>5, <2>2, ServerGood
<1>8. CASE run.status = "running" /\ Append("interrupted", run.version + 1, "end")
  <2>1. Closing'
    BY <1>3, <1>6, <1>8, EndCloses
  <2>2. Core' /\ \E X : Serves(X)
    BY <1>1, <1>3, <1>4, <1>6, <1>8, <2>1, AppendCore, AppendServes
  <2> QED BY <1>1, <1>5, <2>2, ServerGood
<1>9. CASE UNCHANGED <<run, stored>> /\ Quiet
  <2>1. Closing'
    BY <1>3, <1>9, QuietCloses
  <2>2. Core' /\ Serves({})
    BY <1>1, <1>3, <1>4, <1>9, <2>1, QuietCore
  <2> QED BY <1>1, <1>5, <2>2, ServerGood
<1> QED BY <1>7, <1>8, <1>9 DEF Restart

-----------------------------------------------------------------------------
(* The hub, the tabs and their connections.                                *)

\* What View says of one tab, and of the hub.
TabView(t) ==
  /\ \A e \in stored \cup loop.session.kept :
       e.seq <= tab[t].last /\ e.seq \notin late => e \in tab[t].known
  /\ tab[t].at = "closed" => tab[t].status \in Over
  /\ tab[t].status \in Over =>
       run.status \in Over /\ \A e \in stored : e.kind = "end" => e.seq <= tab[t].last
  /\ tab[t].first \subseteq stored /\ (tab[t].at # "joined" => tab[t].first = {})
  /\ tab[t].at \notin {"joined", "open"} => tab[t].queue = {}
  /\ tab[t].at \in {"idle", "lost"} => tab[t].end = "no"
  /\ \A e \in tab[t].queue : e \in stored \/ e.kind \in {"delta", "kept"}
  /\ Subscribed(t) => hub.on
  /\ \A e \in stored : e.kind = "title" /\ e.seq \notin late =>
       /\ Subscribed(t) => Underway(e, t) \/ e.seq > hub.durable
       /\ tab[t].end = "yes" => Underway(e, t)
  /\ tab[t].end = "yes" =>
       /\ run.status \in Over
       /\ run.status = "completed" => \E e \in stored : e.kind = "post"

HubView ==
  /\ hub.seen \subseteq stored
  /\ \A e \in stored : e.kind = "title" /\ hub.poll = "read" /\ e.seq > hub.durable =>
       e \in hub.seen \/ \A f \in hub.seen : f.seq < e.seq

LEMMA ViewNow == View => HubView /\ \A t \in Tabs : TabView(t)
BY DEF View, HubView, TabView, Known, Reached, Channels, Titles, EndedInTime

LEMMA ViewNext == HubView' /\ (\A t \in Tabs : TabView(t)') => View'
<1> SUFFICES ASSUME HubView', \A t \in Tabs : TabView(t)' PROVE View'
  OBVIOUS
<1>1. Known' /\ Reached' /\ EndedInTime'
  BY DEF Known, Reached, EndedInTime, TabView
<1>2. Channels'
  BY DEF Channels, TabView, HubView
<1>3. Titles'
  BY DEF Titles, TabView, HubView
<1> QED BY <1>1, <1>2, <1>3 DEF View

LEMMA BrowserGood ==
  ASSUME Inv, UNCHANGED Server, mishaps' \in 0..MaxMishaps, hub' \in HubRow,
         hub'.live <= top, hub'.durable <= top, HubView', tab' \in [Tabs -> TabRow],
         \A t \in Tabs : /\ tab'[t].last <= top /\ TabView(t)'
                         /\ tab'[t].queue \subseteq tab[t].queue \cup bus.events \cup stored
  PROVE  Inv'
<1>1. /\ run' = run /\ stored' = stored /\ loop' = loop /\ bus' = bus
      /\ top' = top /\ late' = late
  BY DEF Server
<1>2. Core'
  BY <1>1 DEF Inv, Core, NumbersAreUnique, NumbersBounded, KeptOK, EndingOK, Closing, At
<1>3. Said' \subseteq Said
  <2>1. \A e : e \in Said' => e \in Said
    BY <1>1, SaidNow, SaidNext
  <2> QED BY <2>1
<1>4. OneEvent' /\ Bounded'
  BY <1>1, <1>3 DEF Inv, OneEvent, Bounded
<1> QED BY <1>2, <1>4, ViewNext DEF Inv

\* A tab that takes no part in the step.
LEMMA OtherTab ==
  ASSUME Inv, UNCHANGED Server, NEW t \in Tabs, tab'[t] = tab[t],
         \/ ~Subscribed(t)
         \/ hub'.on = hub.on /\ hub'.durable = hub.durable
  PROVE  /\ TabView(t)' /\ tab'[t].last <= top
         /\ tab'[t].queue \subseteq tab[t].queue \cup bus.events \cup stored
<1>1. /\ run' = run /\ stored' = stored /\ loop' = loop /\ late' = late
  BY DEF Server
<1>2. /\ Subscribed(t)' <=> Subscribed(t)
      /\ \A e : Underway(e, t)' <=> Underway(e, t)
  BY DEF Subscribed, Connected, Underway
<1>3. TabView(t)
  BY ViewNow DEF Inv
<1>4. TabView(t)'
  BY <1>1, <1>2, <1>3 DEF TabView
<1> QED BY <1>4 DEF Inv, Bounded

LEMMA TabTypes ==
  ASSUME Inv, NEW t \in Tabs
  PROVE  /\ tab[t] \in TabRow /\ tab[t].last \in Nat /\ tab[t].last <= top
         /\ tab[t].known \subseteq Events /\ tab[t].first \subseteq Events
         /\ tab[t].queue \subseteq Events /\ tab[t].status \in Statuses
         /\ tab[t].queue \subseteq Said
BY SaidNow DEF Inv, Bounded, TabRow

LEMMA HubTypes ==
  ASSUME Inv
  PROVE  /\ hub \in HubRow /\ hub.live \in Nat /\ hub.live <= top
         /\ hub.durable \in Nat /\ hub.durable <= top
         /\ hub.seen \subseteq Events /\ hub.seen \subseteq stored
         /\ HubView
BY ViewNow DEF Inv, Bounded, HubRow, HubView

\* The hub stays, or ends with no subscriber left but t.
LEMMA HubStays ==
  ASSUME Inv, UNCHANGED Server,
         hub' = hub \/ hub' = NoHub
  PROVE  hub' \in HubRow /\ hub'.live <= top /\ hub'.durable <= top /\ HubView'
<1>1. stored' = stored
  BY DEF Server
<1>2. CASE hub' = hub
  BY <1>1, <1>2, HubTypes DEF HubView
<1>3. CASE hub' = NoHub
  BY <1>1, <1>3, NoHubIs, CoreTypes DEF HubView
<1> QED BY <1>2, <1>3

LEMMA BroadcastIs ==
  ASSUME Inv, NEW E \in SUBSET Events, NEW ends \in {"no", "yes", "hurried"}, Broadcast(E, ends)
  PROVE  /\ tab' \in [Tabs -> TabRow]
         /\ \A t \in Tabs :
              /\ ~Subscribed(t) => tab'[t] = tab[t]
              /\ tab'[t].at = tab[t].at /\ tab'[t].last = tab[t].last
              /\ tab'[t].known = tab[t].known /\ tab'[t].status = tab[t].status
              /\ tab'[t].first = tab[t].first
              /\ Subscribed(t) =>
                   /\ tab'[t].queue = tab[t].queue \cup {e \in E : e.seq > tab[t].last}
                   /\ tab'[t].end = IF ends = "no" THEN tab[t].end ELSE ends
<1> DEFINE new(t) == IF ~Subscribed(t) THEN tab[t]
             ELSE [tab[t] EXCEPT !.queue = @ \cup {e \in E : e.seq > tab[t].last},
                                 !.end = IF ends = "no" THEN @ ELSE ends]
<1>1. tab' = [t \in Tabs |-> new(t)]
  BY DEF Broadcast
<1>2. ASSUME NEW t \in Tabs
      PROVE  /\ new(t) \in TabRow
             /\ ~Subscribed(t) => new(t) = tab[t]
             /\ new(t).at = tab[t].at /\ new(t).last = tab[t].last
             /\ new(t).known = tab[t].known /\ new(t).status = tab[t].status
             /\ new(t).first = tab[t].first
             /\ Subscribed(t) =>
                  /\ new(t).queue = tab[t].queue \cup {e \in E : e.seq > tab[t].last}
                  /\ new(t).end = IF ends = "no" THEN tab[t].end ELSE ends
  BY TabTypes DEF TabRow
<1> HIDE DEF new
<1>3. \A t \in Tabs : tab'[t] = new(t)
  BY <1>1
<1> QED BY <1>1, <1>2, <1>3

LEMMA ReplayIs ==
  ASSUME NEW after
  PROVE  Replay(after) \subseteq bus.events
BY DEF Replay

LEMMA HubReadsLiveGood == ASSUME Inv, HubReadsLive PROVE Inv'
<1> DEFINE E == Replay(hub.live)
<1>1. /\ hub.on /\ hub.poll = "none"
      /\ hub' = [hub EXCEPT !.live = Highest(E, @)] /\ Broadcast(E, "no")
      /\ UNCHANGED Server /\ UNCHANGED mishaps
  BY DEF HubReadsLive
<1>2. E \subseteq bus.events /\ E \in SUBSET Events /\ \A e \in E : e.seq <= top
  <2>1. E \subseteq bus.events
    BY ReplayIs
  <2> QED BY <2>1, CoreTypes, SaidNow DEF Inv, Bounded
<1> HIDE DEF E
<1>3. Highest(E, hub.live) \in Nat /\ Highest(E, hub.live) <= top
  BY <1>2, HubTypes, CoreTypes, HighestOK
<1>4. /\ hub' \in HubRow /\ hub'.live <= top /\ hub'.durable = hub.durable /\ hub'.on = hub.on
      /\ hub'.poll = hub.poll /\ hub'.seen = hub.seen
  BY <1>1, <1>3, HubTypes DEF HubRow
<1>5. HubView'
  BY <1>1, <1>4, HubTypes DEF HubView, Server
<1>6. tab' \in [Tabs -> TabRow]
  BY <1>1, <1>2, BroadcastIs
<1>7. ASSUME NEW t \in Tabs
      PROVE  /\ tab'[t].last <= top /\ TabView(t)'
             /\ tab'[t].queue \subseteq tab[t].queue \cup bus.events \cup stored
  <2>1. CASE ~Subscribed(t)
    <3>1. tab'[t] = tab[t]
      BY <1>1, <1>2, <2>1, BroadcastIs
    <3> QED BY <1>1, <2>1, <3>1, OtherTab
  <2>2. CASE Subscribed(t)
    <3>1. /\ tab'[t].at = tab[t].at /\ tab'[t].last = tab[t].last
          /\ tab'[t].known = tab[t].known /\ tab'[t].status = tab[t].status
          /\ tab'[t].first = tab[t].first /\ tab'[t].end = tab[t].end
          /\ tab'[t].queue = tab[t].queue \cup {e \in E : e.seq > tab[t].last}
      BY <1>1, <1>2, <2>2, BroadcastIs
    <3>2. \A e \in E : e.kind \in {"delta", "kept"}
      BY <1>2 DEF Inv, Core, KeptOK
    <3>3. run' = run /\ stored' = stored /\ loop' = loop /\ late' = late
      BY <1>1 DEF Server
    <3>4. TabView(t)
      BY ViewNow DEF Inv
    <3>5. Connected(t) /\ tab[t].end = "no"
      BY <2>2 DEF Subscribed
    <3>6. TabView(t)'
      BY <1>4, <3>1, <3>2, <3>3, <3>4, <3>5 DEF TabView, Subscribed, Connected, Underway
    <3> QED BY <1>2, <3>1, <3>6, TabTypes
  <2> QED BY <2>1, <2>2
<1> QED BY <1>1, <1>4, <1>5, <1>6, <1>7, HubTypes, BrowserGood DEF Inv

LEMMA HubReadsEventsGood == ASSUME Inv, HubReadsEvents PROVE Inv'
<1>1. /\ hub' = [hub EXCEPT !.poll = "read", !.seen = NewEvents]
      /\ UNCHANGED Server /\ UNCHANGED tab /\ UNCHANGED mishaps
  BY DEF HubReadsEvents
<1>2. NewEvents = {e \in stored : e.seq > hub.durable}
  BY DEF NewEvents
<1>3. /\ hub' \in HubRow /\ hub'.live = hub.live /\ hub'.durable = hub.durable
      /\ hub'.on = hub.on /\ hub'.seen = {e \in stored : e.seq > hub.durable}
  BY <1>1, <1>2, HubTypes, CoreTypes DEF HubRow
<1>4. HubView'
  BY <1>1, <1>3 DEF HubView, Server
<1> QED BY <1>1, <1>3, <1>4, HubTypes, OtherTab, BrowserGood DEF Inv

LEMMA HubLosesPatienceGood == ASSUME Inv, HubLosesPatience PROVE Inv'
<1>1. /\ hub' = [hub EXCEPT !.patience = "over"]
      /\ UNCHANGED Server /\ UNCHANGED tab /\ UNCHANGED mishaps
  BY DEF HubLosesPatience
<1>2. /\ hub' \in HubRow /\ hub'.live = hub.live /\ hub'.durable = hub.durable
      /\ hub'.on = hub.on /\ hub'.seen = hub.seen /\ hub'.poll = hub.poll
  BY <1>1, HubTypes DEF HubRow
<1>3. HubView'
  BY <1>1, <1>2, HubTypes DEF HubView, Server
<1> QED BY <1>1, <1>2, <1>3, HubTypes, OtherTab, BrowserGood DEF Inv

\* When a poll ends the stream in its time, the titles are among what it has read.
LEMMA HubBroadcastsGood == ASSUME Inv, HubBroadcasts PROVE Inv'
<1> DEFINE posted == \E e \in hub.seen : e.kind = "post"
           waits == Waits(run.status, posted)
           ends == run.status \in Over /\ ~waits
           E == {e \in hub.seen : e.kind # "post"}
           end == IF ~ends THEN "no" ELSE IF hub.patience = "over" THEN "hurried" ELSE "yes"
           durable == Highest(hub.seen, hub.durable)
           patience == IF waits /\ hub.patience = "none" THEN "waiting" ELSE hub.patience
<1>1. /\ hub.poll = "read"
      /\ hub' = IF ends THEN NoHub
                ELSE [hub EXCEPT !.poll = "none", !.seen = {}, !.durable = Highest(hub.seen, @),
                                 !.patience = IF waits /\ @ = "none" THEN "waiting" ELSE @]
      /\ Broadcast(E, end)
      /\ UNCHANGED Server /\ UNCHANGED mishaps
  BY DEF HubBroadcasts
<1>2. E \in SUBSET Events /\ E \subseteq stored /\ end \in {"no", "yes", "hurried"}
  BY HubTypes
<1>3. /\ durable \in Nat /\ durable <= top /\ durable >= hub.durable
      /\ \A e \in hub.seen : e.seq <= durable
      /\ durable = hub.durable \/ \E e \in hub.seen : e.seq = durable
  <2>1. \A e \in hub.seen : e.seq <= top
    BY HubTypes, SaidNow DEF Inv, Bounded
  <2> QED BY <2>1, HubTypes, CoreTypes, HighestOK
<1>4. end = "yes" => /\ run.status \in Over
                     /\ run.status = "completed" => posted
  BY DEF Waits
<1>5. end = "no" <=> ~ends
  OBVIOUS
<1>6. patience \in {"none", "waiting", "over"}
  BY HubTypes DEF HubRow
<1>7. IF ends THEN hub' = NoHub
      ELSE hub' = [hub EXCEPT !.poll = "none", !.seen = {}, !.durable = durable,
                              !.patience = patience]
  BY <1>1, HubTypes DEF HubRow
<1> HIDE DEF ends, end, durable, patience, waits
<1>8. /\ hub' \in HubRow /\ hub'.live <= top /\ hub'.durable <= top
      /\ hub'.poll = "none" /\ hub'.seen = {}
      /\ ~ends => hub'.on = hub.on /\ hub'.durable = durable
  <2>1. CASE ends
    BY <1>7, <2>1, NoHubIs, CoreTypes
  <2>2. CASE ~ends
    BY <1>3, <1>6, <1>7, <2>2, HubTypes DEF HubRow
  <2> QED BY <2>1, <2>2
<1>9. HubView'
  BY <1>8 DEF HubView
<1>10. tab' \in [Tabs -> TabRow]
  BY <1>1, <1>2, BroadcastIs
<1>11. run' = run /\ stored' = stored /\ loop' = loop /\ late' = late
  BY <1>1 DEF Server
<1>12. ASSUME NEW t \in Tabs
       PROVE  /\ tab'[t].last <= top /\ TabView(t)'
              /\ tab'[t].queue \subseteq tab[t].queue \cup bus.events \cup stored
  <2>1. CASE ~Subscribed(t)
    <3>1. tab'[t] = tab[t]
      BY <1>1, <1>2, <2>1, BroadcastIs
    <3> QED BY <1>1, <2>1, <3>1, OtherTab
  <2>2. CASE Subscribed(t)
    <3>1. /\ tab'[t].at = tab[t].at /\ tab'[t].last = tab[t].last
          /\ tab'[t].known = tab[t].known /\ tab'[t].status = tab[t].status
          /\ tab'[t].first = tab[t].first
          /\ tab'[t].end = IF end = "no" THEN tab[t].end ELSE end
          /\ tab'[t].queue = tab[t].queue \cup {e \in E : e.seq > tab[t].last}
      BY <1>1, <1>2, <2>2, BroadcastIs
    <3>2. TabView(t)
      BY ViewNow DEF Inv
    <3>3. Connected(t) /\ tab[t].end = "no"
      BY <2>2 DEF Subscribed
    <3>4. Connected(t)' /\ (Subscribed(t)' <=> end = "no")
      BY <3>1, <3>3 DEF Subscribed, Connected
    <3>5. ASSUME NEW e \in stored, e.kind = "title", e.seq \notin late
          PROVE  /\ e.seq > durable \/ Underway(e, t)'
                 /\ end = "yes" => Underway(e, t)'
      <4>1. e.seq \in Nat /\ \A f \in hub.seen : f.seq \in Nat
        BY CoreTypes, HubTypes
      <4>2. Underway(e, t) \/ e.seq > hub.durable
        BY <2>2, <3>2, <3>5 DEF TabView
      <4>3. CASE Underway(e, t)
        BY <3>1, <4>3 DEF Underway
      <4>4. CASE e \in hub.seen
        <5>1. e \in E /\ (e.seq <= tab[t].last \/ e.seq > tab[t].last)
          BY <3>5, <4>1, <4>4, TabTypes
        <5> QED BY <3>1, <5>1 DEF Underway
      <4>5. CASE ~Underway(e, t) /\ e \notin hub.seen
        <5>1. e.seq > hub.durable /\ \A f \in hub.seen : f.seq < e.seq
          BY <1>1, <3>5, <4>2, <4>5, HubTypes DEF HubView
        <5>2. e.seq > durable
          BY <1>3, <5>1
        <5>3. run.status = "completed"
          BY <3>5 DEF Inv, Core, Closing
        <5>4. \A f \in hub.seen : f.kind = "post" => e.seq < f.seq
          BY <3>5, HubTypes DEF Inv, Core, Closing
        <5>5. ~posted
          BY <4>1, <5>1, <5>4
        <5> QED BY <1>4, <5>2, <5>3, <5>5
      <4> QED BY <4>3, <4>4, <4>5
    <3>6. end = "yes" => /\ run.status \in Over
                         /\ run.status = "completed" => \E e \in stored : e.kind = "post"
      BY <1>4, HubTypes
    <3>7. tab[t].at \in {"joined", "open"}
      BY <3>3 DEF Connected
    <3>8. Subscribed(t)' => hub'.on /\ hub'.durable = durable
      BY <1>5, <1>8, <3>2, <2>2, <3>4 DEF TabView
    <3>9. \A e \in tab'[t].queue : e \in stored \/ e.kind \in {"delta", "kept"}
      BY <1>2, <3>1, <3>2 DEF TabView
    <3>10. TabView(t)'
      <4>1. \A e \in stored : e.kind = "title" /\ e.seq \notin late =>
              /\ Subscribed(t)' => Underway(e, t)' \/ e.seq > hub'.durable
              /\ tab'[t].end = "yes" => Underway(e, t)'
        BY <3>1, <3>3, <3>5, <3>8
      <4> HIDE DEF posted, E
      <4> QED BY <1>11, <3>1, <3>2, <3>3, <3>6, <3>7, <3>8, <3>9, <4>1 DEF TabView
    <3> QED BY <1>2, <3>1, <3>10, TabTypes
  <2> QED BY <2>1, <2>2
<1> QED BY <1>1, <1>8, <1>9, <1>10, <1>12, BrowserGood DEF Inv

-----------------------------------------------------------------------------
(* A tab.                                                                  *)

\* A step of one tab after which it has a new record, and no step of the hub but its end
\* with its last subscriber, or its beginning with its first.
LEMMA TabGood ==
  ASSUME Inv, UNCHANGED Server, mishaps' \in 0..MaxMishaps, NEW t \in Tabs, NEW r \in TabRow,
         tab' = [tab EXCEPT ![t] = r], r.last <= top, r.queue \subseteq tab[t].queue,
         hub' \in HubRow, hub'.live <= top, hub'.durable <= top, HubView',
         hub' = hub \/ \A u \in Tabs \ {t} : ~Subscribed(u),
         TabView(t)'
  PROVE  Inv'
<1>1. tab \in [Tabs -> TabRow]
  BY DEF Inv
<1>2. tab' \in [Tabs -> TabRow] /\ tab'[t] = r /\ \A u \in Tabs \ {t} : tab'[u] = tab[u]
  BY <1>1
<1>3. ASSUME NEW u \in Tabs
      PROVE  /\ tab'[u].last <= top /\ TabView(u)'
             /\ tab'[u].queue \subseteq tab[u].queue \cup bus.events \cup stored
  <2>1. CASE u = t
    BY <1>2, <2>1
  <2>2. CASE u # t
    BY <1>2, <2>2, OtherTab
  <2> QED BY <2>1, <2>2
<1> QED BY <1>2, <1>3, BrowserGood

LEMMA LeaveIs ==
  ASSUME Inv, NEW t \in Tabs, Leave(t)
  PROVE  \/ hub' = hub
         \/ hub' = NoHub /\ \A u \in Tabs \ {t} : ~Subscribed(u)
BY DEF Leave

\* What is known of a tab, of its new record r.
LEMMA NewView ==
  ASSUME Inv, UNCHANGED Server, NEW t \in Tabs, NEW r \in TabRow, tab'[t] = r,
         \A e \in stored \cup loop.session.kept :
           e.seq <= r.last /\ e.seq \notin late => e \in r.known,
         r.at = "closed" => r.status \in Over,
         r.status \in Over =>
           run.status \in Over /\ \A e \in stored : e.kind = "end" => e.seq <= r.last,
         r.first \subseteq stored, r.at # "joined" => r.first = {},
         r.at \notin {"joined", "open"} => r.queue = {},
         r.at \in {"idle", "lost"} => r.end = "no",
         r.queue \subseteq tab[t].queue, r.end \in {"no", tab[t].end},
         r.at \in {"joined", "open"} /\ r.end = "no" => hub'.on,
         \A e \in stored : e.kind = "title" /\ e.seq \notin late =>
           /\ r.at \in {"joined", "open"} /\ r.end = "no" =>
                e.seq <= r.last \/ e \in r.first \cup r.queue \/ e.seq > hub'.durable
           /\ r.end = "yes" => e.seq <= r.last \/ e \in r.first \cup r.queue
  PROVE  TabView(t)'
<1>1. run' = run /\ stored' = stored /\ loop' = loop /\ late' = late
  BY DEF Server
<1>2. TabView(t)
  BY ViewNow DEF Inv
<1>3. \A e \in r.queue : e \in stored \/ e.kind \in {"delta", "kept"}
  BY <1>2 DEF TabView
<1>4. r.end = "yes" => /\ run.status \in Over
                       /\ run.status = "completed" => \E e \in stored : e.kind = "post"
  BY <1>2 DEF TabView
<1>5. Subscribed(t)' <=> r.at \in {"joined", "open"} /\ r.end = "no"
  BY DEF Subscribed, Connected
<1> QED BY <1>1, <1>3, <1>4, <1>5 DEF TabView, Underway

LEMMA ReadTimelineGood == ASSUME Inv, NEW t \in Tabs, ReadTimeline(t) PROVE Inv'
<1> DEFINE last == Max({tab[t].last, run.next - 1})
           at == IF Settled(run.status) THEN "closed" ELSE "idle"
           r == [Timeline(t) EXCEPT !.at = at]
<1>1. /\ tab[t].at = "lost" /\ tab' = [tab EXCEPT ![t] = r]
      /\ UNCHANGED Server /\ UNCHANGED hub /\ UNCHANGED mishaps
  BY DEF ReadTimeline
<1>2. /\ last \in Nat /\ last <= top /\ last >= tab[t].last /\ last >= run.next - 1
      /\ last = tab[t].last \/ last = run.next - 1
  BY CoreTypes, TabTypes, MaxOfTwo
<1>3. tab[t].known \cup stored \in SUBSET Events
  BY CoreTypes, TabTypes
<1> HIDE DEF last
<1>4. at \in {"closed", "idle"} /\ (at = "closed" => run.status \in Over)
  BY DEF Settled
<1> HIDE DEF at
<1>5. /\ r \in TabRow /\ r.at = at /\ r.last = last /\ r.known = tab[t].known \cup stored
      /\ r.status = run.status /\ r.first = tab[t].first /\ r.queue = tab[t].queue
      /\ r.end = tab[t].end
  BY <1>2, <1>3, <1>4, CoreTypes, TabTypes DEF TabRow, Timeline, last
<1> HIDE DEF r
<1>6. /\ tab[t].first = {} /\ tab[t].queue = {} /\ tab[t].end = "no"
  BY <1>1 DEF Inv, View, Channels
<1>7. tab'[t] = r
  BY <1>1 DEF Inv
<1>8. \A e \in stored \cup loop.session.kept :
        e.seq <= r.last /\ e.seq \notin late => e \in r.known
  <2>1. ASSUME NEW e \in stored \cup loop.session.kept, e.seq <= r.last, e.seq \notin late
        PROVE  e \in r.known
    <3>1. e.seq \in Nat
      BY CoreTypes
    <3>2. CASE e.seq <= tab[t].last
      BY <1>5, <2>1, <3>2 DEF Inv, View, Known
    <3>3. CASE e.seq <= run.next - 1
      <4>1. ~(e.seq >= run.next)
        BY <3>1, <3>3, CoreTypes
      <4> QED BY <1>5, <2>1, <4>1 DEF Inv, Core, KeptOK
    <3> QED BY <1>2, <1>5, <2>1, <3>1, <3>2, <3>3
  <2> QED BY <2>1
<1>9. \A e \in stored : e.seq <= r.last
  BY <1>2, <1>5, CoreTypes
<1>10. TabView(t)'
  BY <1>1, <1>4, <1>5, <1>6, <1>7, <1>8, <1>9, NewView
<1> QED BY <1>1, <1>2, <1>5, <1>10, HubStays, TabGood DEF Inv

LEMMA ConnectGood == ASSUME Inv, NEW t \in Tabs, Connect(t) PROVE Inv'
<1> DEFINE first == {e \in stored : e.seq > tab[t].last}
           r == [tab[t] EXCEPT !.at = "joined", !.first = first]
           h == [NoHub EXCEPT !.on = TRUE, !.live = tab[t].last, !.durable = tab[t].last]
<1>1. /\ tab[t].at = "idle" /\ UNCHANGED Server /\ UNCHANGED mishaps
      /\ tab' = [tab EXCEPT ![t].at = "joined", ![t].first = first]
      /\ hub' = IF hub.on THEN hub ELSE h
  BY DEF Connect
<1>2. first \in SUBSET Events /\ first \subseteq stored
  BY CoreTypes
<1>3. tab' = [tab EXCEPT ![t] = r]
  BY <1>1 DEF Inv, TabRow
<1>4. /\ r \in TabRow /\ r.at = "joined" /\ r.last = tab[t].last /\ r.known = tab[t].known
      /\ r.status = tab[t].status /\ r.first = first /\ r.queue = tab[t].queue
      /\ r.end = tab[t].end
  BY <1>2, TabTypes DEF TabRow
<1>5. h \in HubRow /\ h.on /\ h.live = tab[t].last /\ h.durable = tab[t].last
      /\ h.poll = "none" /\ h.seen = {}
  BY TabTypes, NoHubIs DEF HubRow
<1> HIDE DEF r, h
<1>6. hub' \in HubRow /\ hub'.live <= top /\ hub'.durable <= top /\ HubView' /\ hub'.on
  <2>1. CASE hub.on
    BY <1>1, <2>1, HubStays
  <2>2. CASE ~hub.on
    BY <1>1, <1>5, <2>2, TabTypes DEF HubView
  <2> QED BY <2>1, <2>2
<1>7. hub' = hub \/ \A u \in Tabs \ {t} : ~Subscribed(u)
  BY <1>1 DEF Inv, View, Channels
<1>8. tab[t].end = "no" /\ tab[t].queue = {}
  BY <1>1 DEF Inv, View, Channels
<1>9. TabView(t)
  BY ViewNow DEF Inv
<1>10. \A e \in stored : e.seq <= tab[t].last \/ e \in first
  BY CoreTypes, TabTypes
<1>11. tab'[t] = r
  BY <1>3 DEF Inv
<1> HIDE DEF first
<1>12. /\ \A e \in stored \cup loop.session.kept :
            e.seq <= r.last /\ e.seq \notin late => e \in r.known
       /\ r.at = "closed" => r.status \in Over
       /\ r.status \in Over =>
            run.status \in Over /\ \A e \in stored : e.kind = "end" => e.seq <= r.last
  BY <1>4, <1>9 DEF TabView
<1>13. TabView(t)'
  BY <1>1, <1>2, <1>4, <1>6, <1>8, <1>10, <1>11, <1>12, NewView
<1> QED BY <1>1, <1>3, <1>4, <1>6, <1>7, <1>13, TabTypes, TabGood DEF Inv

\* A connection that ends without the tab being done.
LEMMA DroppedGood ==
  ASSUME Inv, NEW t \in Tabs, tab' = [tab EXCEPT ![t] = Dropped(t)], Leave(t),
         UNCHANGED Server, mishaps' \in 0..MaxMishaps
  PROVE  Inv'
<1> DEFINE r == Dropped(t)
<1>1. /\ r \in TabRow /\ r.at = "idle" /\ r.last = tab[t].last /\ r.known = tab[t].known
      /\ r.status = tab[t].status /\ r.first = {} /\ r.queue = {} /\ r.end = "no"
  BY TabTypes, DroppedIs
<1> HIDE DEF r
<1>2. tab' = [tab EXCEPT ![t] = r] /\ tab'[t] = r
  BY DEF Inv, r
<1>3. TabView(t)
  BY ViewNow DEF Inv
<1>4. /\ \A e \in stored \cup loop.session.kept :
           e.seq <= r.last /\ e.seq \notin late => e \in r.known
      /\ r.status \in Over =>
           run.status \in Over /\ \A e \in stored : e.kind = "end" => e.seq <= r.last
  BY <1>1, <1>3 DEF TabView
<1>5. TabView(t)'
  BY <1>1, <1>2, <1>4, NewView
<1> QED BY <1>1, <1>2, <1>5, LeaveIs, HubStays, TabTypes, TabGood

LEMMA DisconnectGood == ASSUME Inv, NEW t \in Tabs, Disconnect(t) PROVE Inv'
BY MishapCounts, DroppedGood DEF Disconnect

LEMMA EndOfStreamGood == ASSUME Inv, NEW t \in Tabs, EndOfStream(t) PROVE Inv'
<1>1. /\ tab[t].at = "open" /\ tab[t].queue = {} /\ tab[t].end # "no"
      /\ Leave(t) /\ UNCHANGED Server /\ mishaps' \in 0..MaxMishaps
  BY DEF EndOfStream, Inv
<1>2. CASE tab[t].status \in Over
  <2> DEFINE r == [tab[t] EXCEPT !.at = "closed"]
  <2>1. tab' = [tab EXCEPT ![t] = r] /\ tab'[t] = r
    BY <1>2 DEF EndOfStream, Inv
  <2>2. /\ r \in TabRow /\ r.at = "closed" /\ r.last = tab[t].last /\ r.known = tab[t].known
        /\ r.status = tab[t].status /\ r.first = tab[t].first /\ r.queue = tab[t].queue
        /\ r.end = tab[t].end
    BY TabTypes DEF TabRow
  <2> HIDE DEF r
  <2>3. TabView(t)
    BY ViewNow DEF Inv
  <2>4. tab[t].first = {}
    BY <1>1, <2>3 DEF TabView
  <2>5. /\ \A e \in stored \cup loop.session.kept :
             e.seq <= r.last /\ e.seq \notin late => e \in r.known
        /\ r.status \in Over =>
             run.status \in Over /\ \A e \in stored : e.kind = "end" => e.seq <= r.last
        /\ \A e \in stored : e.kind = "title" /\ e.seq \notin late =>
             (r.end = "yes" => e.seq <= r.last \/ e \in r.first \cup r.queue)
    BY <2>2, <2>3 DEF TabView, Underway
  <2>6. TabView(t)'
    BY <1>1, <1>2, <2>1, <2>2, <2>4, <2>5, NewView
  <2> QED BY <1>1, <2>1, <2>2, <2>6, LeaveIs, HubStays, TabTypes, TabGood
<1>3. CASE tab[t].status \notin Over
  <2>1. tab' = [tab EXCEPT ![t] = Dropped(t)]
    BY <1>3 DEF EndOfStream
  <2> QED BY <1>1, <2>1, DroppedGood
<1> QED BY <1>2, <1>3

-----------------------------------------------------------------------------
(* What a tab takes from a batch.                                          *)

LEMMA OneIsSome == ASSUME NEW S, Cardinality(S) = 1 PROVE S # {}
BY FS_EmptySet

LEMMA TakeGood ==
  ASSUME Inv, NEW t \in Tabs, NEW batch, batch \subseteq Said, Take(t, batch),
         tab[t].at \in {"joined", "open"}, tab[t].first \subseteq batch,
         \A e \in batch : e \in stored \/ e.kind \in {"delta", "kept"},
         UNCHANGED Server, UNCHANGED mishaps
  PROVE  Inv'
<1> DEFINE reach == Reach(tab[t].last, batch)
           fresh == {e \in batch : e.seq > tab[t].last /\ e.seq <= reach}
           statusOf(A) == IF \E e \in A : e.kind = "end" THEN run.status ELSE tab[t].status
           atOf(s) == IF Settled(s) THEN "closed"
                      ELSE IF \E e \in batch : e.seq > reach THEN "lost" ELSE "open"
           gets(A) == {e \in A : e.kind # "delta"}
           queueOf(a) == IF a = "open" THEN {e \in tab[t].queue : e.seq > reach} ELSE {}
           endOf(a) == IF a = "open" THEN tab[t].end ELSE "no"
           row(A, s, a) == Shown(tab[t], A, s, reach, a)
<1>1. PICK A \in SUBSET fresh :
        /\ \A e \in fresh : Cardinality({f \in A : f.seq = e.seq}) = 1
        /\ tab' = [tab EXCEPT ![t] = row(A, statusOf(A), atOf(statusOf(A)))]
        /\ IF atOf(statusOf(A)) = "open" THEN UNCHANGED hub ELSE Leave(t)
  BY DEF Take
<1>2. /\ reach \in Nat /\ reach >= tab[t].last /\ reach <= top
      /\ \A n \in (tab[t].last + 1)..reach : \E e \in batch : e.seq = n
  BY TabTypes, CoreTypes, ReachOK
<1> HIDE DEF reach
<1>3. batch \subseteq Events /\ \A e \in batch : e.seq \in Nat
  BY SaidTyped DEF Events
<1>4. \A e, f \in Said : e.seq = f.seq /\ e.seq \notin late => e = f
  BY DEF Inv, OneEvent
<1> DEFINE s == statusOf(A)
           at == atOf(s)
           r == row(A, s, at)
<1>5. A \subseteq batch /\ \A e \in A : e.seq <= reach
  BY <1>1
<1>6. s \in Statuses /\ (s # tab[t].status => s = run.status /\ \E e \in A : e.kind = "end")
  BY CoreTypes, TabTypes
<1>7. /\ at \in {"closed", "lost", "open"} /\ (at = "closed" => s \in Over)
      /\ at = "open" => \A e \in batch : ~(e.seq > reach)
  BY DEF Settled
<1>8. gets(A) \in SUBSET Events /\ queueOf(at) \subseteq tab[t].queue
      /\ endOf(at) \in {"no", tab[t].end}
      /\ (at # "open" => queueOf(at) = {} /\ endOf(at) = "no")
      /\ (at = "open" => endOf(at) = tab[t].end)
  BY <1>3, <1>5
<1>9. at = "open" => queueOf(at) = {e \in tab[t].queue : e.seq > reach}
  OBVIOUS
<1>10. tab' = [tab EXCEPT ![t] = r] /\ IF at = "open" THEN UNCHANGED hub ELSE Leave(t)
  BY <1>1
<1>11. \A e \in stored \cup loop.session.kept :
         e.seq <= reach /\ e.seq \notin late => e \in tab[t].known \cup gets(A)
  <2>1. ASSUME NEW e \in stored \cup loop.session.kept, e.seq <= reach, e.seq \notin late
        PROVE  e \in tab[t].known \cup gets(A)
    <3>1. e.seq \in Nat /\ e \in Said /\ e.kind # "delta"
      BY CoreTypes, SaidNow DEF Inv, Core, KeptOK
    <3>2. CASE e.seq <= tab[t].last
      BY <2>1, <3>2 DEF Inv, View, Known
    <3>3. CASE e.seq > tab[t].last
      <4>1. e.seq \in (tab[t].last + 1)..reach
        BY <1>2, <2>1, <3>1, <3>3, TabTypes
      <4>2. PICK x \in batch : x.seq = e.seq
        BY <1>2, <4>1
      <4>3. x \in fresh
        BY <2>1, <3>3, <4>2
      <4>4. {f \in A : f.seq = x.seq} # {}
        BY <1>1, <4>3, OneIsSome
      <4>5. PICK f \in A : f.seq = e.seq
        BY <4>2, <4>4
      <4>6. f = e
        BY <1>4, <1>5, <2>1, <3>1, <4>5
      <4> QED BY <3>1, <4>5, <4>6
    <3> QED BY <3>1, <3>2, <3>3, TabTypes
  <2> QED BY <2>1
<1>12. s \in Over => run.status \in Over /\ \A e \in stored : e.kind = "end" => e.seq <= reach
  <2>1. CASE \E e \in A : e.kind = "end"
    <3>1. PICK x \in A : x.kind = "end"
      BY <2>1
    <3>2. x \in stored /\ x.seq <= reach
      BY <1>5, <3>1
    <3> QED BY <3>1, <3>2 DEF Inv, Core, Closing
  <2>2. CASE s = tab[t].status
    <3>1. s \in Over => run.status \in Over
                        /\ \A e \in stored : e.kind = "end" => e.seq <= tab[t].last
      BY <2>2 DEF Inv, View, Reached
    <3>2. \A e \in stored : e.seq \in Nat /\ (e.seq <= tab[t].last => e.seq <= reach)
      BY <1>2, CoreTypes, TabTypes
    <3> HIDE DEF s
    <3> QED BY <3>1, <3>2
  <2> QED BY <1>6, <2>1, <2>2
<1>13. /\ r \in TabRow /\ r.at = at /\ r.last = reach /\ r.known = tab[t].known \cup gets(A)
       /\ r.status = s /\ r.first = {} /\ r.queue = queueOf(at) /\ r.end = endOf(at)
  <2>1. /\ {} \in SUBSET Events /\ queueOf(at) \in SUBSET Events
        /\ tab[t].known \cup gets(A) \in SUBSET Events
        /\ endOf(at) \in {"no", "yes", "hurried"}
    BY <1>8, TabTypes DEF TabRow
  <2>2. r = [tab[t] EXCEPT !.at = at, !.first = {}, !.status = s, !.last = reach,
               !.known = tab[t].known \cup gets(A), !.queue = queueOf(at), !.end = endOf(at)]
    BY DEF Shown
  <2> HIDE DEF s, at, gets, queueOf, endOf, fresh, r
  <2> QED BY <1>2, <1>6, <1>7, <2>1, <2>2, TabTypes DEF TabRow
<1> HIDE DEF s, at, gets, queueOf, endOf, fresh
<1> HIDE DEF r
<1>14. tab'[t] = r
  BY <1>10 DEF Inv
<1>15. \A e \in stored : e.kind = "title" /\ e.seq \notin late =>
         /\ r.at \in {"joined", "open"} /\ r.end = "no" =>
              e.seq <= r.last \/ e \in r.first \cup r.queue \/ e.seq > hub'.durable
         /\ r.end = "yes" => e.seq <= r.last \/ e \in r.first \cup r.queue
  <2>1. ASSUME NEW e \in stored, at = "open", Underway(e, t)
        PROVE  e.seq <= reach \/ e \in queueOf(at)
    <3>1. e.seq \in Nat
      BY CoreTypes
    <3>2. e \in tab[t].first => ~(e.seq > reach)
      BY <1>7, <2>1
    <3> QED BY <1>2, <1>9, <2>1, <3>1, <3>2, TabTypes DEF Underway
  <2>2. ASSUME NEW e \in stored, e.kind = "title", e.seq \notin late
        PROVE  /\ r.at \in {"joined", "open"} /\ r.end = "no" =>
                    e.seq <= r.last \/ e \in r.queue \/ e.seq > hub'.durable
               /\ r.end = "yes" => e.seq <= r.last \/ e \in r.queue
    <3>1. /\ Subscribed(t) => Underway(e, t) \/ e.seq > hub.durable
          /\ tab[t].end = "yes" => Underway(e, t)
      BY <2>2 DEF Inv, View, Titles
    <3>2. CASE at = "open"
      <4>1. r.end = tab[t].end /\ hub' = hub /\ (tab[t].end = "no" => Subscribed(t))
        BY <1>8, <1>10, <1>13, <3>2 DEF Subscribed, Connected
      <4> QED BY <1>13, <2>1, <3>1, <3>2, <4>1
    <3>3. CASE at # "open"
      BY <1>7, <1>8, <1>13, <3>3
    <3> QED BY <3>2, <3>3
  <2> QED BY <1>13, <2>2
<1>16. \/ hub' = hub
       \/ hub' = NoHub /\ \A u \in Tabs \ {t} : ~Subscribed(u)
  BY <1>10, LeaveIs
<1>17. r.at \in {"joined", "open"} /\ r.end = "no" => hub'.on
  BY <1>7, <1>8, <1>10, <1>13 DEF Inv, View, Channels, Subscribed, Connected
<1>18. TabView(t)'
  BY <1>7, <1>8, <1>11, <1>12, <1>13, <1>14, <1>15, <1>17, NewView
<1>19. mishaps' \in 0..MaxMishaps
  BY DEF Inv
<1> QED BY <1>2, <1>8, <1>10, <1>13, <1>16, <1>18, <1>19, HubStays, TabGood

LEMMA ReadBufferGood == ASSUME Inv, NEW t \in Tabs, ReadBuffer(t) PROVE Inv'
<1> DEFINE batch == tab[t].first \cup Replay(tab[t].last)
<1>1. tab[t].at = "joined" /\ Take(t, batch) /\ UNCHANGED Server /\ UNCHANGED mishaps
  BY DEF ReadBuffer
<1>2. tab[t].first \subseteq stored /\ Replay(tab[t].last) \subseteq bus.events
  BY ReplayIs DEF Inv, View, Channels
<1>3. batch \subseteq Said
  BY <1>2, SaidNow
<1>4. \A e \in batch : e \in stored \/ e.kind \in {"delta", "kept"}
  BY <1>2 DEF Inv, Core, KeptOK
<1> QED BY <1>1, <1>3, <1>4, TakeGood

LEMMA DeliverGood == ASSUME Inv, NEW t \in Tabs, Deliver(t) PROVE Inv'
<1>1. tab[t].at = "open" /\ Take(t, tab[t].queue) /\ UNCHANGED Server /\ UNCHANGED mishaps
  BY DEF Deliver
<1>2. tab[t].first = {} /\ \A e \in tab[t].queue : e \in stored \/ e.kind \in {"delta", "kept"}
  BY <1>1 DEF Inv, View, Channels
<1> QED BY <1>1, <1>2, TabTypes, TakeGood

-----------------------------------------------------------------------------
(* The theorems.                                                           *)

LEMMA InitInv == Init => Inv
<1> SUFFICES ASSUME Init PROVE Inv
  OBVIOUS
<1>1. Idle \in LoopRow /\ Idle.pc = "off" /\ Idle.session = NoSession
  BY NoSessionIs, StreamAssumption DEF Idle, LoopRow, Pcs
<1>2. /\ Opened \in TabRow /\ Opened.at = "idle" /\ Opened.last = 0 /\ Opened.end = "no"
      /\ Opened.first = {} /\ Opened.queue = {} /\ Opened.status = "queued"
  BY DEF Opened, TabRow, Statuses
<1>3. /\ stored = {} /\ loop = Idle /\ hub = NoHub /\ top = 0 /\ late = {} /\ mishaps = 0
      /\ run = [status |-> "queued", version |-> 1, next |-> 1]
      /\ bus = [events |-> {}, last |-> 0, cleaning |-> FALSE]
      /\ \A t \in Tabs : tab[t] = Opened
      /\ tab = [t \in Tabs |-> Opened]
  BY DEF Init
<1>4. run \in RunRow /\ bus \in BusRow /\ run.status = "queued" /\ run.next = 1
      /\ bus.events = {} /\ bus.last = 0
  BY <1>3 DEF RunRow, BusRow, Statuses
<1>5. NumbersAreUnique /\ NumbersBounded /\ KeptOK /\ EndingOK /\ Closing
  BY <1>1, <1>3, <1>4, NoSessionIs
     DEF NumbersAreUnique, NumbersBounded, KeptOK, EndingOK, Closing, At, Over
<1>6. Core
  BY <1>1, <1>3, <1>4, <1>5 DEF Core
<1>7. \A e : e \notin Said
  BY <1>1, <1>2, <1>3, <1>4, SaidNow, NoSessionIs
<1>8. OneEvent /\ Bounded
  BY <1>2, <1>3, <1>7, NoHubIs DEF OneEvent, Bounded
<1>9. View
  BY <1>1, <1>2, <1>3, <1>4, NoHubIs, NoSessionIs
     DEF View, Known, Reached, Channels, Titles, EndedInTime, Subscribed, Connected, Over
<1>10. tab \in [Tabs -> TabRow]
  BY <1>2, <1>3
<1> QED BY <1>3, <1>6, <1>8, <1>9, <1>10, NoHubIs, StreamAssumption DEF Inv

LEMMA NextInv == Inv /\ [Next]_vars => Inv'
<1> SUFFICES ASSUME Inv, [Next]_vars PROVE Inv'
  OBVIOUS
<1>1. CASE LoopStep
  BY <1>1, ClaimGood, OpenSessionGood, PublishGood, CommitStepGood, ToolResultGood, DecideGood,
     CommitEndGood, ExhaustedGood, NameConversationGood, MarkPostProcessGood DEF LoopStep
<1>2. CASE HubStep
  BY <1>2, HubReadsLiveGood, HubReadsEventsGood, HubBroadcastsGood, HubLosesPatienceGood
     DEF HubStep
<1>3. CASE \E t \in Tabs : TabStep(t) \/ Disconnect(t)
  BY <1>3, ReadTimelineGood, ConnectGood, ReadBufferGood, DeliverGood, EndOfStreamGood,
     DisconnectGood DEF TabStep
<1>4. CASE UNCHANGED vars
  <2>1. UNCHANGED Server /\ UNCHANGED Browsers /\ hub' = hub /\ tab' = tab /\ mishaps' = mishaps
    BY <1>4 DEF vars, Server, Browsers
  <2> QED BY <2>1, HubStays, OtherTab, BrowserGood DEF Inv
<1> QED BY <1>1, <1>2, <1>3, <1>4, CancelRunGood, DropBufferGood, RestartGood DEF Next

\* In every reachable state what is on its way, what is stored and what the tabs know fit
\* together, for any number of tabs, model steps, numbers and mishaps.
THEOREM Invariance == Spec => []Inv
<1>1. Init => Inv
  BY InitInv
<1>2. Inv /\ [Next]_vars => Inv'
  BY NextInv
<1> QED BY <1>1, <1>2, PTL DEF Spec

\* Types: the rows, the buffer, the hub and the tabs keep their form.
THEOREM TypeCorrect == Spec => []TypeOK
<1>1. Inv => TypeOK
  BY DEF Inv, Core, TypeOK, RunRow, LoopRow, Session, Pcs, BusRow, HubRow, TabRow
<1> QED BY <1>1, Invariance, PTL

\* The numbers of the stored events are used once, whichever of the two allocators, the
\* row or the session, has given them (postgres.ts, run-stream-bus.ts).
THEOREM NumbersUsedOnce == Spec => []NumbersAreUnique
<1>1. Inv => NumbersAreUnique
  BY DEF Inv, Core
<1> QED BY <1>1, Invariance, PTL

\* An answer is stored when the loop takes its run for completed, and with one end, though
\* answers of the database are lost and asked for again (streaming.ts, finalize.ts).
THEOREM AnswersStored == Spec => []AnswersAreStored
<1>1. ASSUME Inv PROVE AnswersAreStored
  <2> DEFINE Ends == {e \in stored : e.kind = "end"}
  <2>1. Closing
    BY <1>1 DEF Inv, Core
  <2>2. Cardinality(Ends) = IF run.status \in Over THEN 1 ELSE 0
    <3>1. CASE run.status \in Over
      <4>1. PICK e \in stored : e.kind = "end"
        BY <2>1, <3>1 DEF Closing
      <4>2. Ends = {e}
        BY <2>1, <4>1 DEF Closing
      <4> QED BY <3>1, <4>2, FS_Singleton
    <3>2. CASE run.status \notin Over
      <4>1. Ends = {}
        BY <2>1, <3>2 DEF Closing
      <4> QED BY <3>2, <4>1, FS_EmptySet
    <3> QED BY <3>1, <3>2
  <2> QED BY <2>1, <2>2 DEF AnswersAreStored, Closing
<1> QED BY <1>1, Invariance, PTL

\* A browser that is done with a run knows what was stored up to its end and, unless the
\* stream was ended early, the title that followed (run-stream-hub.ts, run-stream-manager.ts).
THEOREM NothingMissed == Spec => []NothingIsMissed
<1>1. ASSUME Inv PROVE NothingIsMissed
  <2>1. ASSUME NEW t \in Tabs, NEW e \in stored, NEW f \in stored,
               tab[t].at = "closed", e.seq \notin late,
               \/ f.kind = "end" /\ e.seq <= f.seq
               \/ f = e /\ e.kind = "title" /\ tab[t].end = "yes"
        PROVE  e \in tab[t].known
    <3>1. e.seq \in Nat /\ f.seq \in Nat /\ tab[t].last \in Nat
      BY <1>1, CoreTypes, TabTypes
    <3>2. e.seq <= tab[t].last
      <4>1. CASE f.kind = "end" /\ e.seq <= f.seq
        <5>1. f.seq <= tab[t].last
          BY <1>1, <2>1, <4>1 DEF Inv, View, Reached
        <5> QED BY <3>1, <4>1, <5>1
      <4>2. CASE f = e /\ e.kind = "title" /\ tab[t].end = "yes"
        <5>1. Underway(e, t)
          BY <1>1, <2>1, <4>2 DEF Inv, View, Titles
        <5>2. tab[t].first = {} /\ tab[t].queue = {}
          BY <1>1, <2>1 DEF Inv, View, Channels
        <5> QED BY <5>1, <5>2 DEF Underway
      <4> QED BY <2>1, <4>1, <4>2
    <3> QED BY <1>1, <2>1, <3>2 DEF Inv, View, Known
  <2> QED BY <2>1 DEF NothingIsMissed
<1> QED BY <1>1, Invariance, PTL

=============================================================================
