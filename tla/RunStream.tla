------------------------------- MODULE RunStream -------------------------------
(***************************************************************************)
(* What a browser sees of a run: the live events a stream session publishes*)
(* and later stores as one batch (run-stream-bus.ts), the reader that fans *)
(* them out (run-stream-hub.ts), the SSE route (server.ts) and the client  *)
(* that accepts them in the order of their numbers (run-stream-manager.ts  *)
(* and state.ts of the web application).                                   *)
(*                                                                         *)
(* Events are numbered by two allocators: next_event_sequence of the row,  *)
(* and the memory of the bus while a session is open.  One run, one loop.  *)
(* Payloads, byte limits and timeline items are left out; a session's      *)
(* items travel with its durable events.                                   *)
(***************************************************************************)
EXTENDS Naturals, FiniteSets, FiniteSetsExt

CONSTANTS
  Tabs,          \* browser tabs
  ReadLimit,     \* events one read of the buffer returns (256)
  Attempts,      \* terminalPersistenceMaximumAttempts
  MaxSessions,   \* model steps of the run (maxModelSteps)
  MaxNumber,     \* bound: no event is published with a number above it
  MaxMishaps     \* bound: cancellations, lost answers and connections, restarts

ASSUME StreamAssumption ==
  /\ ReadLimit \in Nat \ {0} /\ Attempts \in Nat \ {0}
  /\ MaxSessions \in Nat /\ MaxNumber \in Nat /\ MaxMishaps \in Nat

VARIABLES
  run,      \* ai.runs: status, row_version, next_event_sequence
  stored,   \* ai.run_events
  loop,     \* the executor's loop and its stream session
  bus,      \* the buffer of the run, its last number, and whether it is to be dropped
  hub,      \* the shared reader of the run
  tab,      \* per tab: the connection's cursor and queue, what the browser accepted
  top,      \* the highest number given to any event
  late,     \* numbers given although they were not above top
  mishaps

vars == <<run, stored, loop, bus, hub, tab, top, late, mishaps>>

Over == {"completed", "failed", "canceled", "interrupted"}
Kinds == {"delta", "kept", "note", "end", "title", "post"}
Highest(events, floor) == Max({e.seq : e \in events} \cup {floor})

Mishap == mishaps < MaxMishaps /\ mishaps' = mishaps + 1

\* An event that takes number n; again tells it from an earlier one with n.
Event(n, kind) == [seq |-> n, kind |-> kind, again |-> n <= top]

\* A step gives number n.
Given(n) == top' = Max({top, n}) /\ late' = IF n <= top THEN late \cup {n} ELSE late

Quiet == UNCHANGED <<top, late>>

\* appendEventWith: the row's next number, in the transaction that changes the row.
Append(status, version, kind) ==
  /\ run' = [status |-> status, version |-> version, next |-> run.next + 1]
  /\ stored' = stored \cup {Event(run.next, kind)}
  /\ Given(run.next)

NoSession == [last |-> 0, kept |-> {}, intent |-> "none", tries |-> 0]
Idle == [pc |-> "off", version |-> 0, session |-> NoSession, steps |-> 0]
NoHub == [on |-> FALSE, live |-> 0, durable |-> 0, patience |-> "none",
          poll |-> "none", seen |-> {}]
Opened == [at |-> "idle", last |-> 0, known |-> {}, status |-> "queued",
         first |-> {}, queue |-> {}, end |-> "no"]

Init ==
  /\ run = [status |-> "queued", version |-> 1, next |-> 1]
  /\ stored = {} /\ loop = Idle
  /\ bus = [events |-> {}, last |-> 0, cleaning |-> FALSE]
  /\ hub = NoHub /\ tab = [t \in Tabs |-> Opened]
  /\ top = 0 /\ late = {} /\ mishaps = 0

-----------------------------------------------------------------------------
(* The executor and its session.                                           *)

Browsers == <<hub, tab>>
Connected(t) == tab[t].at \in {"joined", "open"}
Subscribed(t) == Connected(t) /\ tab[t].end = "no"   \* its hub has not ended
Dropped(t) == [tab[t] EXCEPT !.at = "idle", !.first = {}, !.queue = {}, !.end = "no"]
At(place) == loop.pc = place
Go(place) ==
  loop' = IF place = "off" THEN [Idle EXCEPT !.steps = loop.steps]
          ELSE [loop EXCEPT !.pc = place]

Claim ==
  /\ run.status = "queued" /\ At("off")
  /\ Append("running", run.version + 1, "note")
  /\ loop' = [loop EXCEPT !.pc = "idle", !.version = run.version + 1]
  /\ UNCHANGED <<bus, Browsers, mishaps>>

\* InMemoryRunStreamBus.open.
OpenSession ==
  /\ At("idle") /\ loop.steps < MaxSessions
  /\ loop' = [loop EXCEPT !.pc = "stream", !.steps = @ + 1,
                          !.session = [NoSession EXCEPT !.last = run.next - 1]]
  /\ bus' = [bus EXCEPT !.last = Max({@, run.next - 1}), !.cleaning = FALSE]
  /\ UNCHANGED <<run, stored, Browsers, mishaps>> /\ Quiet

\* RunStreamSession.appendEvent and publish; the answer that was streaming when the
\* step failed is published once more.
Publish(kind) ==
  /\ \/ At("stream")
     \/ At("failing") /\ kind = "kept"
  /\ LET n == Max({bus.last, loop.session.last}) + 1
         e == Event(n, kind) IN
       /\ n <= MaxNumber
       /\ bus' = [bus EXCEPT !.events = @ \cup {e}, !.last = n]
       /\ loop' = [loop EXCEPT !.session.last = n,
                               !.session.kept = IF kind = "kept" THEN @ \cup {e} ELSE @]
       /\ Given(n)
  /\ UNCHANGED <<run, stored, Browsers, mishaps>>

\* batchAlreadyPersisted.
Persisted(s) == s.kept \subseteq stored /\ run.next > s.last

\* Mutant of Refusal: a batch sent again is written over what is there.
RefusalWithoutCheck(s) == run.status # "running" \/ run.version # loop.version

\* The batch does not pass the fence, a part of it is there, or a number is taken.
Refusal(s) ==
  \/ run.status # "running" \/ run.version # loop.version
  \/ s.kept \cap stored # {}
  \/ \E e \in s.kept, f \in stored : e.seq = f.seq

\* Mutant of Verdict: a batch that is there ends the run as well.
VerdictByBatch(s, to) ==
  IF Persisted(s) THEN "already" ELSE IF Refusal(s) THEN "refused" ELSE "applied"

\* What persistRunStreamBatch makes of a batch that ends the run in status to, or
\* leaves it running.
Verdict(s, to) ==
  IF Persisted(s) /\ to \in {"running", run.status} THEN "already"
  ELSE IF Refusal(s) THEN "refused" ELSE "applied"

Apply(s, to) ==
  LET next == Max({run.next, s.last + 1}) IN
  IF to = "running"
  THEN /\ run' = [run EXCEPT !.next = next]
       /\ stored' = stored \cup s.kept /\ Quiet
  ELSE /\ run' = [status |-> to, version |-> run.version + 1, next |-> next + 1]
       /\ stored' = stored \cup s.kept \cup {Event(next, "end")}
       /\ Given(next)

Send(s, to) ==
  \/ Verdict(s, to) = "applied" /\ Apply(s, to)
  \/ Verdict(s, to) # "applied" /\ UNCHANGED <<run, stored>> /\ Quiet

\* commit: a step with tool calls stores its batch, once.  A refusal, a lost answer or
\* a database out of reach fails the step, with the session still open.
CommitStep ==
  /\ At("stream")
  /\ \/ /\ Send(loop.session, "running")
        /\ Go(IF Verdict(loop.session, "running") = "refused" THEN "failing" ELSE "tools")
        /\ UNCHANGED mishaps
     \/ Mishap /\ Send(loop.session, "running") /\ Go("failing")
     \/ Mishap /\ UNCHANGED <<run, stored>> /\ Quiet /\ Go("failing")
  /\ UNCHANGED <<bus, Browsers>>

\* The result of a tool call, numbered by the row.
ToolResult ==
  /\ At("tools")
  /\ \/ /\ run.status = "running" /\ Append(run.status, run.version, "note")
        /\ loop' = [loop EXCEPT !.pc = "idle", !.session = NoSession]
     \/ run.status # "running" /\ Go("off") /\ UNCHANGED <<run, stored>> /\ Quiet
  /\ UNCHANGED <<bus, Browsers, mishaps>>

\* The loop decides how the run ends; the first intent of the session is kept.  A card
\* in the making is closed in the database first (failCard), a cancelled run is ended
\* as cancelled.
Decide(to) ==
  /\ \/ to = "completed" /\ At("stream")
     \/ to = "failed" /\ loop.pc \in {"stream", "failing"}
     \/ to = "canceled" /\ loop.pc \in {"stream", "failing"} /\ run.status = "canceled"
  /\ loop' = [loop EXCEPT !.pc = "ending", !.session.intent = to, !.session.tries = 0]
  /\ \/ UNCHANGED <<run, stored>> /\ Quiet
     \/ to = "failed" /\ Append(run.status, run.version, "note")
  /\ UNCHANGED <<bus, Browsers, mishaps>>

Ended == IF loop.session.intent = "completed" THEN "post" ELSE "off"
Again == IF loop.session.tries + 1 < Attempts THEN "ending" ELSE "recover"

\* commitTerminal with persistWithRetry: an answer that is lost is asked for again, a
\* refusal is not; one by a run that is over means somebody else ended it.
CommitEnd ==
  /\ At("ending")
  /\ LET s == loop.session
         verdict == Verdict(s, s.intent) IN
     \/ /\ Send(s, s.intent) /\ UNCHANGED mishaps
        /\ Go(IF verdict # "refused" THEN Ended
              ELSE IF run.status \in Over THEN "off" ELSE "recover")
        /\ bus' = [bus EXCEPT !.cleaning = @ \/ verdict # "refused"]
     \/ /\ Mishap /\ Send(s, s.intent) /\ UNCHANGED bus
        /\ loop' = [loop EXCEPT !.session.tries = @ + 1, !.pc = Again]
     \/ /\ Mishap /\ UNCHANGED <<run, stored, bus>> /\ Quiet
        /\ loop' = [loop EXCEPT !.session.tries = @ + 1, !.pc = Again]
  /\ UNCHANGED Browsers

\* terminalPersistenceExhausted: a run that still runs is interrupted; when the
\* database is out of reach it stays as it is.
Exhausted ==
  /\ At("recover") /\ Go("off")
  /\ \/ /\ run.status = "running" /\ Append("interrupted", run.version + 1, "end")
        /\ bus' = [bus EXCEPT !.cleaning = TRUE] /\ UNCHANGED mishaps
     \/ run.status # "running" /\ UNCHANGED <<run, stored, bus, mishaps>> /\ Quiet
     \/ Mishap /\ UNCHANGED <<run, stored, bus>> /\ Quiet
  /\ UNCHANGED Browsers

\* generateTitleAfterCompletion, then appendPostProcessCompleted.
NameConversation ==
  /\ At("post") /\ Append(run.status, run.version, "title") /\ Go("named")
  /\ UNCHANGED <<bus, Browsers, mishaps>>

MarkPostProcess ==
  /\ loop.pc \in {"post", "named"} /\ Go("off")
  /\ \/ Append(run.status, run.version, "post") /\ UNCHANGED mishaps
     \/ Mishap /\ UNCHANGED <<run, stored>> /\ Quiet
  /\ UNCHANGED <<bus, Browsers>>

\* cancelRun, from the API.
CancelRun ==
  /\ run.status \notin Over /\ Mishap
  /\ Append("canceled", run.version + 1, "end")
  /\ UNCHANGED <<loop, bus, Browsers>>

\* The timer of cleanup, minutes after the loop is done.
DropBuffer ==
  /\ bus.cleaning /\ At("off")
  /\ bus' = [events |-> {}, last |-> 0, cleaning |-> FALSE]
  /\ UNCHANGED <<run, stored, loop, Browsers, mishaps>> /\ Quiet

\* The process goes down and comes back; the run it left running is queued again or
\* interrupted.
Restart ==
  /\ Mishap
  /\ loop' = [Idle EXCEPT !.steps = loop.steps] /\ hub' = NoHub
  /\ bus' = [events |-> {}, last |-> 0, cleaning |-> FALSE]
  /\ tab' = [t \in Tabs |-> IF Connected(t) THEN Dropped(t) ELSE tab[t]]
  /\ \/ run.status = "running" /\ Append("queued", run.version + 1, "note")
     \/ run.status = "running" /\ Append("interrupted", run.version + 1, "end")
     \/ run.status # "running" /\ UNCHANGED <<run, stored>> /\ Quiet

-----------------------------------------------------------------------------
(* The hub.                                                                *)

Server == <<run, stored, loop, bus, top, late>>

\* The lowest ReadLimit events of the buffer above a cursor.
Replay(after) ==
  LET above == {e \in bus.events : e.seq > after} IN
  {e \in above : Cardinality({f \in above : f.seq < e.seq}) < ReadLimit}

\* LocalSubscription.push, for every subscriber.
Broadcast(events, ends) ==
  tab' = [t \in Tabs |-> IF ~Subscribed(t) THEN tab[t]
    ELSE [tab[t] EXCEPT !.queue = @ \cup {e \in events : e.seq > tab[t].last},
                        !.end = IF ends = "no" THEN @ ELSE ends]]

HubReadsLive ==
  /\ hub.on /\ hub.poll = "none" /\ Replay(hub.live) # {}
  /\ hub' = [hub EXCEPT !.live = Highest(Replay(hub.live), @)]
  /\ Broadcast(Replay(hub.live), "no")
  /\ UNCHANGED <<Server, mishaps>>

NewEvents == {e \in stored : e.seq > hub.durable}

\* A poll reads the events and the row on two connections.  The row read first only
\* delays the end of the stream by a poll; the events read first may miss the last one.
HubReadsEvents ==
  /\ hub.on /\ hub.poll = "none"
  /\ hub' = [hub EXCEPT !.poll = "read", !.seen = NewEvents]
  /\ UNCHANGED <<Server, tab, mishaps>>

\* A completed run is held open until its post-processing is marked, or for so long.
Waits(status, posted) == status = "completed" /\ ~posted /\ hub.patience # "over"

HubBroadcasts ==
  /\ hub.poll = "read"
  /\ LET posted == \E e \in hub.seen : e.kind = "post"
         waits == Waits(run.status, posted)
         ends == run.status \in Over /\ ~waits IN
       /\ hub' = IF ends THEN NoHub
                 ELSE [hub EXCEPT !.poll = "none", !.seen = {}, !.durable = Highest(hub.seen, @),
                                  !.patience = IF waits /\ @ = "none" THEN "waiting" ELSE @]
       /\ Broadcast({e \in hub.seen : e.kind # "post"},
                    IF ~ends THEN "no" ELSE IF hub.patience = "over" THEN "hurried" ELSE "yes")
  /\ UNCHANGED <<Server, mishaps>>

HubLosesPatience ==
  /\ hub.patience = "waiting" /\ hub.poll = "none"
  /\ hub' = [hub EXCEPT !.patience = "over"]
  /\ UNCHANGED <<Server, tab, mishaps>>

-----------------------------------------------------------------------------
(* A tab and its connection.                                               *)

\* The hub is gone with its last subscriber.
Leave(t) ==
  hub' = IF Subscribed(t) /\ \A u \in Tabs \ {t} : ~Subscribed(u) THEN NoHub ELSE hub

\* getTimeline: what is stored and the number it reaches, in one snapshot.
Timeline(t) ==
  [tab[t] EXCEPT !.last = Max({@, run.next - 1}), !.known = @ \cup stored,
                 !.status = run.status]

\* A run that did not complete is not followed any more.
Settled(status) == status \in Over \ {"completed"}

\* After a gap the timeline is read again.
ReadTimeline(t) ==
  /\ tab[t].at = "lost"
  /\ tab' = [tab EXCEPT ![t] = [Timeline(t) EXCEPT !.at =
                IF Settled(run.status) THEN "closed" ELSE "idle"]]
  /\ UNCHANGED <<Server, hub, mishaps>>

\* subscribe: the first subscriber brings the reader of the run to its own cursor.  The
\* route reads what is stored next, and sends it with what the buffer still has.
Connect(t) ==
  /\ tab[t].at = "idle"
  /\ tab' = [tab EXCEPT ![t].at = "joined", ![t].first = {e \in stored : e.seq > tab[t].last}]
  /\ hub' = IF hub.on THEN hub
            ELSE [NoHub EXCEPT !.on = TRUE, !.live = tab[t].last, !.durable = tab[t].last]
  /\ UNCHANGED <<Server, mishaps>>

\* Mutant of Reach: an event with a number further on is taken as well.
ReachAnyway(last, batch) == Highest(batch, last)

\* reduceAIEvent: only the number after the last one is accepted.
Reach(last, batch) ==
  Max({k \in last..top : \A n \in (last + 1)..k : \E e \in batch : e.seq = n})

\* A tab once a batch is on its screen: it keeps every event but the pieces of text, and
\* a connection that is given up leaves nothing behind.
Shown(r, accepted, status, reach, at) ==
  [r EXCEPT !.at = at, !.first = {}, !.status = status, !.last = reach,
            !.known = r.known \cup {e \in accepted : e.kind # "delta"},
            !.queue = IF at = "open" THEN {e \in r.queue : e.seq > reach} ELSE {},
            !.end = IF at = "open" THEN r.end ELSE "no"]

\* A batch is sent in the order of its numbers; of two events with one number the
\* browser keeps the first.  A gap makes it read the timeline, the end of a run that did
\* not complete makes it close.
Take(t, batch) ==
  LET reach == Reach(tab[t].last, batch)
      fresh == {e \in batch : e.seq > tab[t].last /\ e.seq <= reach} IN
  \E accepted \in SUBSET fresh :
    /\ \A e \in fresh : Cardinality({f \in accepted : f.seq = e.seq}) = 1
    /\ LET status == IF \E e \in accepted : e.kind = "end" THEN run.status ELSE tab[t].status
           at == IF Settled(status) THEN "closed"
                 ELSE IF \E e \in batch : e.seq > reach THEN "lost" ELSE "open" IN
         /\ tab' = [tab EXCEPT ![t] = Shown(tab[t], accepted, status, reach, at)]
         /\ IF at = "open" THEN UNCHANGED hub ELSE Leave(t)

ReadBuffer(t) ==
  /\ tab[t].at = "joined" /\ Take(t, tab[t].first \cup Replay(tab[t].last))
  /\ UNCHANGED <<Server, mishaps>>

Deliver(t) ==
  /\ tab[t].at = "open" /\ tab[t].queue # {} /\ Take(t, tab[t].queue)
  /\ UNCHANGED <<Server, mishaps>>

\* run.stream.completed: a tab that knows the end of the run is done, another one
\* connects again.
EndOfStream(t) ==
  /\ tab[t].at = "open" /\ tab[t].queue = {} /\ tab[t].end # "no"
  /\ tab' = [tab EXCEPT ![t] = IF tab[t].status \in Over THEN [@ EXCEPT !.at = "closed"]
                               ELSE Dropped(t)]
  /\ Leave(t)
  /\ UNCHANGED <<Server, mishaps>>

\* The connection breaks, or the subscriber was too slow.
Disconnect(t) ==
  /\ Connected(t) /\ Mishap
  /\ tab' = [tab EXCEPT ![t] = Dropped(t)]
  /\ Leave(t)
  /\ UNCHANGED Server

-----------------------------------------------------------------------------

LoopStep ==
  \/ Claim \/ OpenSession \/ \E kind \in {"delta", "kept"} : Publish(kind)
  \/ CommitStep \/ ToolResult \/ \E to \in {"completed", "failed", "canceled"} : Decide(to)
  \/ CommitEnd \/ Exhausted \/ NameConversation \/ MarkPostProcess

HubStep == HubReadsLive \/ HubReadsEvents \/ HubBroadcasts \/ HubLosesPatience

TabStep(t) ==
  \/ ReadTimeline(t) \/ Connect(t) \/ ReadBuffer(t) \/ Deliver(t)
  \/ EndOfStream(t)

Next ==
  \/ LoopStep \/ CancelRun \/ DropBuffer \/ Restart \/ HubStep
  \/ \E t \in Tabs : TabStep(t) \/ Disconnect(t)

Spec == Init /\ [][Next]_vars

-----------------------------------------------------------------------------

Events == [seq : Nat, kind : Kinds, again : BOOLEAN]
Statuses == {"queued", "running"} \cup Over

TypeOK ==
  /\ run \in [status : Statuses, version : Nat, next : Nat \ {0}]
  /\ stored \subseteq Events /\ top \in Nat /\ late \subseteq Nat
  /\ loop \in [pc : {"off", "idle", "stream", "tools", "failing", "ending", "recover",
                     "post", "named"},
               version : Nat, session : [last : Nat, kept : SUBSET Events,
               intent : {"none", "completed", "failed", "canceled"}, tries : 0..Attempts],
               steps : 0..MaxSessions]
  /\ bus \in [events : SUBSET Events, last : Nat, cleaning : BOOLEAN]
  /\ hub \in [on : BOOLEAN, live : Nat, durable : Nat, patience : {"none", "waiting", "over"},
              poll : {"none", "read"}, seen : SUBSET Events]
  /\ tab \in [Tabs -> [at : {"idle", "joined", "open", "lost", "closed"}, last : Nat,
                      known : SUBSET Events, status : Statuses, first : SUBSET Events,
                      queue : SUBSET Events, end : {"no", "yes", "hurried"}]]
  /\ mishaps \in 0..MaxMishaps

\* The numbers of the stored events, which browsers and the timeline go by, are used
\* once, and stay below the number the row gives next, whichever allocator gave them.
NumbersAreUnique ==
  /\ \A e, f \in stored : e.seq = f.seq => e = f
  /\ \A e \in stored : e.seq < run.next

\* When the loop takes its run for completed it is, with everything the last session
\* promised to store, and one end: an answer that was lost, and is asked for again, is
\* neither lost nor written twice.
AnswersAreStored ==
  /\ loop.pc \in {"post", "named"} =>
       run.status = "completed" /\ loop.session.kept \subseteq stored
  /\ Cardinality({e \in stored : e.kind = "end"}) = IF run.status \in Over THEN 1 ELSE 0

\* A tab that is done with the run knows every event stored up to its end, except those
\* whose number was given late; and the title that followed a completed run, unless the
\* stream was ended before the post-processing was.
NothingIsMissed ==
  \A t \in Tabs, e \in stored, f \in stored :
    (/\ tab[t].at = "closed" /\ e.seq \notin late
     /\ \/ f.kind = "end" /\ e.seq <= f.seq
        \/ f = e /\ e.kind = "title" /\ tab[t].end = "yes")
    => e \in tab[t].known

\* "The numbers of an active model session are written by the Agent's stream session
\* alone; PostgreSQL must not give numbers of the same run in the meantime" (the comment
\* in updateConversation, persistence/postgres.ts, and docs-internal/11, section 2).
OneAllocator == \A e \in bus.events, f \in stored : e.seq = f.seq => e = f

=============================================================================
