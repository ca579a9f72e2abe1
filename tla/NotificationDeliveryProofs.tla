----------------------- MODULE NotificationDeliveryProofs -----------------------
(***************************************************************************)
(* Proofs about NotificationDelivery.  A message that reached a receiver is *)
(* accounted for: it counts as lost, or its result is stored, or a worker   *)
(* has the answer and can still store it.  Two attempts cannot both store,  *)
(* as every claim has a number of its own and only the last one may settle; *)
(* two digests cannot both be sent, as the lock of the user is held from    *)
(* the choice of the mails to the end of the transaction.                   *)
(***************************************************************************)
EXTENDS NotificationDelivery, FiniteSetTheorems, SequenceTheorems, WellFoundedInduction,
        TLAPS

Sending(w) == worker[w].at \in {"check", "send", "answered"}

Row == [status : Statuses, attempts : Nat, stale : BOOLEAN]
OnHook == [at : {"check", "send"}, of : Hooks, attempt : Nat]
             \cup [at : {"answered"}, of : Hooks, attempt : Nat, answer : Answers]
OnMail == [at : {"mail"}, task : Mails \cup {Digest}, batch : SUBSET Mails, bad : SUBSET Mails]
            \cup [at : {"mailed"}, task : Mails \cup {Digest}, batch : SUBSET Mails,
                  bad : SUBSET Mails, answer : Answers]

\* TypeOK in three parts: what the invariants speak of, the line, and the rest.
CoreOK ==
  /\ instance \in Instances
  /\ row \in [Deliveries -> Row]
  /\ worker \in [Workers -> {Idle} \cup OnHook \cup OnMail]
  /\ accepted \in [Deliveries -> Nat] /\ lost \in [Deliveries -> Nat]
  /\ started \subseteq Mails /\ mailed \in Nat

LineTyped == line \in Seq(Mails) /\ IsInjective(line) /\ lastLed \subseteq Mails

RestOK ==
  /\ event \in [Events -> {"none", "pending", "completed"}]
  /\ toQueue \subseteq Deliveries \X BOOLEAN
  /\ queue \subseteq Deliveries \cup {Digest} /\ later \in BOOLEAN
  /\ faults \in 0..instance.faults

\* An attempt is counted before it is made, and no two workers make the same one.
AttemptsOK ==
  \A w \in Workers : Sending(w) =>
    /\ worker[w].attempt <= row[worker[w].of].attempts
    /\ \A v \in Workers \ {w} :
         Sending(v) /\ worker[v].of = worker[w].of => worker[v].attempt # worker[w].attempt

\* Under the lock of the user: one digest at a time, after a cooldown, of mails that wait.
LockOK ==
  \A w \in Mailing :
    /\ \A v \in Mailing : v = w
    /\ started = {} /\ mailed = 0
    /\ worker[w].batch # {} /\ worker[w].batch \cap worker[w].bad = {}
    /\ \A d \in worker[w].batch \cup worker[w].bad :
         Status(d) \in {"pending", "sending", "enqueue_failed"}

\* The receiver of this delivery has said yes to somebody who can still store it.
InHand(d) ==
  \E w \in Workers :
    \/ At(w, "answered") /\ worker[w].answer = "ok" /\ worker[w].of = d /\ Current(w)
    \/ At(w, "mailed") /\ worker[w].answer = "ok" /\ d \in worker[w].batch

\* Every message is stored, or about to be, or counts as lost.
Accounted ==
  \A d \in Deliveries :
    \/ accepted[d] <= lost[d]
    \/ accepted[d] <= 1 + lost[d] /\ (Status(d) = "succeeded" \/ InHand(d))

\* Only what was accepted is answered, and stored, as such.
AnswersOK ==
  /\ \A d \in Deliveries : Status(d) = "succeeded" => accepted[d] > 0
  /\ \A w \in Workers :
       /\ At(w, "answered") /\ worker[w].answer = "ok" => accepted[worker[w].of] > 0
       /\ At(w, "mailed") /\ worker[w].answer = "ok" =>
            \A d \in worker[w].batch : accepted[d] > 0

\* The digest of this cooldown has left a mail behind that says so.
SpacingOK == mailed = 0 \/ (mailed = 1 /\ \E d \in started : Status(d) = "succeeded")

\* The mails that were selected stand in line, in some order.
LineOK == ToSet(line) = {d \in Mails : Status(d) # "none"}

\* The part of Inv that rows, workers and counts are in.
Core == CoreOK /\ AttemptsOK /\ LockOK /\ Accounted /\ AnswersOK /\ SpacingOK

Inv == Core /\ RestOK /\ LineTyped /\ LineOK

-----------------------------------------------------------------------------
(* What the types say.                                                     *)

LEMMA Typed == TypeOK <=> CoreOK /\ LineTyped /\ RestOK
BY DEF TypeOK, CoreOK, LineTyped, RestOK, Row, OnHook, OnMail

LEMMA KindsDiffer ==
  /\ Mails \subseteq Deliveries /\ Hooks \subseteq Deliveries /\ Mails \cap Hooks = {}
BY DEF Mails, Hooks

LEMMA OnHookTyped ==
  ASSUME CoreOK, NEW w \in Workers, Sending(w)
  PROVE  /\ worker[w] \in OnHook /\ worker[w].of \in Hooks /\ worker[w].attempt \in Nat
         /\ worker[w].at = "answered" => worker[w].answer \in Answers
         /\ w \notin Mailing /\ worker[w].at # "idle"
BY DEF CoreOK, Sending, OnHook, OnMail, Idle, Mailing

LEMMA OnMailTyped ==
  ASSUME CoreOK, NEW w \in Mailing
  PROVE  /\ w \in Workers /\ worker[w] \in OnMail /\ worker[w].task \in Mails \cup {Digest}
         /\ worker[w].batch \subseteq Mails /\ worker[w].bad \subseteq Mails
         /\ worker[w].at = "mailed" => worker[w].answer \in Answers
         /\ ~Sending(w) /\ worker[w].at # "idle"
BY DEF CoreOK, Sending, OnHook, OnMail, Idle, Mailing

\* Set changes statuses and leases of D, and nothing else.
LEMMA SetGives ==
  ASSUME CoreOK, NEW D \in SUBSET Deliveries, NEW status \in Statuses, row' = Set(D, status)
  PROVE  /\ row' \in [Deliveries -> Row]
         /\ \A d \in D : row'[d].status = status /\ row'[d].attempts = row[d].attempts
         /\ \A d \in Deliveries \ D : row'[d] = row[d]
BY DEF CoreOK, Set, Row, Statuses

LEMMA PlusGives ==
  ASSUME NEW count \in [Deliveries -> Nat], NEW D \in SUBSET Deliveries
  PROVE  /\ Plus(count, D) \in [Deliveries -> Nat]
         /\ \A d \in D : Plus(count, D)[d] = count[d] + 1
         /\ \A d \in Deliveries \ D : Plus(count, D)[d] = count[d]
BY DEF Plus

-----------------------------------------------------------------------------
(* Steps that leave the workers and the receivers alone.                   *)

\* The attempt of this row may still be stored.
Live(d) == Status(d) = "sending" /\ ~row[d].stale

\* Rows that are neither live, nor locked, nor sent may take another status.
LEMMA RowsMove ==
  ASSUME Core, UNCHANGED <<instance, worker, accepted, lost, mailed>>,
         row' \in [Deliveries -> Row],
         \A d \in Deliveries : row'[d].attempts = row[d].attempts,
         \A d \in Deliveries : row'[d].status = "succeeded" <=> row[d].status = "succeeded",
         \A d \in Hooks : Live(d) => row'[d] = row[d],
         \A d \in Locked : row'[d].status = row[d].status,
         started' \subseteq started,
         \A d \in started \ started' : row[d].status # "succeeded"
  PROVE  Core'
<1> USE DEF Core
<1>1. CoreOK'
  BY DEF CoreOK
<1>2. AttemptsOK'
  <2>1. \A w \in Workers : Sending(w) => worker[w].of \in Deliveries
    BY OnHookTyped, KindsDiffer
  <2> QED BY <2>1 DEF AttemptsOK, Sending
<1>3. LockOK'
  <2>1. Mailing' = Mailing
    BY DEF Mailing
  <2>2. \A w \in Mailing :
          w \in Workers /\ worker[w].batch \subseteq Locked /\ worker[w].bad \subseteq Locked
    BY DEF Locked, Mailing
  <2>3. \A w \in Mailing : \A d \in worker[w].batch \cup worker[w].bad :
          Status(d)' \in {"pending", "sending", "enqueue_failed"}
    BY <2>2 DEF LockOK, Status
  <2> QED BY <2>1, <2>3 DEF LockOK
<1>4. Accounted'
  <2>1. ASSUME NEW d \in Deliveries, InHand(d) PROVE InHand(d)'
    <3>1. PICK w \in Workers :
            \/ At(w, "answered") /\ worker[w].answer = "ok" /\ worker[w].of = d /\ Current(w)
            \/ At(w, "mailed") /\ worker[w].answer = "ok" /\ d \in worker[w].batch
      BY <2>1 DEF InHand
    <3>2. CASE At(w, "answered") /\ worker[w].answer = "ok" /\ worker[w].of = d /\ Current(w)
      <4>1. d \in Hooks
        BY <3>2, OnHookTyped DEF Sending, At
      <4>2. row'[d] = row[d]
        BY <3>2, <4>1 DEF Current, Live
      <4> QED BY <3>2, <4>2 DEF InHand, At, Current, Status
    <3>3. CASE At(w, "mailed") /\ worker[w].answer = "ok" /\ d \in worker[w].batch
      BY <3>3 DEF InHand, At
    <3> QED BY <3>1, <3>2, <3>3
  <2> QED BY <2>1 DEF Accounted, Status
<1>5. AnswersOK'
  BY DEF AnswersOK, At, Status
<1>6. SpacingOK'
  BY DEF SpacingOK, Status, CoreOK, Mails
<1> QED BY <1>1, <1>2, <1>3, <1>4, <1>5, <1>6

LEMMA CoreStays ==
  ASSUME Core, UNCHANGED <<instance, row, worker, accepted, lost, mailed, started>>
  PROVE  Core'
BY RowsMove DEF Core, CoreOK

-----------------------------------------------------------------------------
(* Webhooks.                                                               *)

\* Whoever holds the attempt of this row that may still be stored has it alone.
LEMMA LiveAlone ==
  ASSUME Core, NEW w \in Workers, Sending(w), NEW v \in Workers \ {w}, Sending(v),
         worker[v].of = worker[w].of, worker[w].attempt = row[worker[w].of].attempts
  PROVE  ~Current(v)
<1>1. worker[v].attempt # worker[w].attempt
  BY DEF Core, AttemptsOK
<1> QED BY <1>1 DEF Current

\* A worker that is not at a digest leaves the mails and their workers alone.
LEMMA MailsApart ==
  ASSUME Core, NEW w \in Workers, w \notin Mailing, NEW x, Go(w, x), x.at # "mail", x.at # "mailed",
         UNCHANGED <<started, mailed>>,
         \A d \in Mails : row'[d] = row[d]
  PROVE  Mailing' = Mailing /\ LockOK' /\ SpacingOK'
<1> USE DEF Core
<1>1. Mailing' = Mailing /\ \A v \in Mailing : worker'[v] = worker[v]
  BY DEF Mailing, Go, CoreOK
<1>2. \A v \in Mailing : worker[v].batch \subseteq Mails /\ worker[v].bad \subseteq Mails
  BY OnMailTyped
<1>3. LockOK'
  <2>1. \A v \in Mailing : \A d \in worker[v].batch \cup worker[v].bad :
          Status(d)' \in {"pending", "sending", "enqueue_failed"}
    BY <1>2 DEF LockOK, Status
  <2> QED BY <1>1, <2>1 DEF LockOK
<1>4. SpacingOK'
  BY DEF SpacingOK, Status, CoreOK
<1> QED BY <1>1, <1>3, <1>4

LEMMA SettleGives ==
  ASSUME Core, NEW w \in Workers, Sending(w), NEW status \in Statuses, Settle(w, status)
  PROVE  /\ row' \in [Deliveries -> Row]
         /\ \A d \in Deliveries : row'[d].attempts = row[d].attempts
         /\ \A d \in Deliveries \ {worker[w].of} : row'[d] = row[d]
         /\ IF Status(worker[w].of) = "sending"
                 /\ row[worker[w].of].attempts = worker[w].attempt
            THEN row'[worker[w].of].status = status
            ELSE row'[worker[w].of] = row[worker[w].of]
<1>1. worker[w].of \in Deliveries
  BY OnHookTyped, KindsDiffer DEF Core
<1>2. CASE row' = row
  BY <1>1, <1>2 DEF Core, CoreOK, Settle, Set, Status, Row
<1>3. CASE row' = Set({worker[w].of}, status) /\ Status(worker[w].of) = "sending"
                 /\ row[worker[w].of].attempts = worker[w].attempt
  BY <1>1, <1>3, SetGives DEF Core
<1> QED BY <1>2, <1>3 DEF Settle

\* A worker that stores the result of its attempt, if it still may: success if that was the
\* answer, and anything else if not.
LEMMA HookSettles ==
  ASSUME Core, NEW w \in Workers, Sending(w), NEW status \in Statuses, Settle(w, status),
         Go(w, Idle), UNCHANGED <<instance, accepted, lost, started, mailed>>,
         status = "succeeded" <=> (At(w, "answered") /\ worker[w].answer = "ok")
  PROVE  Core'
<1> USE DEF Core
<1> DEFINE h == worker[w].of
<1>1. h \in Hooks /\ h \in Deliveries /\ h \notin Mails
  BY OnHookTyped, KindsDiffer
<1>2. /\ row' \in [Deliveries -> Row]
      /\ \A d \in Deliveries : row'[d].attempts = row[d].attempts
      /\ \A d \in Deliveries \ {h} : row'[d] = row[d]
      /\ IF Status(h) = "sending" /\ row[h].attempts = worker[w].attempt
         THEN row'[h].status = status ELSE row'[h] = row[h]
  BY SettleGives
<1>3. worker' \in [Workers -> {Idle} \cup OnHook \cup OnMail] /\ worker'[w].at = "idle"
        /\ \A v \in Workers \ {w} : worker'[v] = worker[v]
  BY DEF Go, CoreOK, Idle
<1> HIDE DEF h
<1>4. CoreOK'
  BY <1>2, <1>3 DEF CoreOK
<1>5. AttemptsOK'
  <2>1. \A v \in Workers : Sending(v) => worker[v].of \in Deliveries
    BY OnHookTyped, KindsDiffer
  <2> QED BY <1>2, <1>3, <2>1 DEF AttemptsOK, Sending
<1>6. LockOK' /\ SpacingOK'
  <2>1. \A d \in Mails : row'[d] = row[d]
    BY <1>1, <1>2, KindsDiffer
  <2>2. Idle.at # "mail" /\ Idle.at # "mailed"
    BY DEF Idle
  <2> QED BY <2>1, <2>2, OnHookTyped, MailsApart
<1>7. Accounted'
  <2> SUFFICES ASSUME NEW d \in Deliveries, ~(accepted[d] <= lost[d])
               PROVE  accepted[d] <= 1 + lost[d] /\ (Status(d)' = "succeeded" \/ InHand(d)')
    BY DEF Accounted
  <2>1. accepted[d] <= 1 + lost[d] /\ (Status(d) = "succeeded" \/ InHand(d))
    BY DEF Accounted
  <2>2. CASE Status(d) = "succeeded"
    BY <1>2, <2>1, <2>2 DEF Status
  <2>3. CASE InHand(d)
    <3>1. PICK v \in Workers :
            \/ At(v, "answered") /\ worker[v].answer = "ok" /\ worker[v].of = d /\ Current(v)
            \/ At(v, "mailed") /\ worker[v].answer = "ok" /\ d \in worker[v].batch
      BY <2>3 DEF InHand
    <3>2. CASE v = w
      <4>1. At(w, "answered") /\ worker[w].answer = "ok" /\ h = d /\ Current(w)
        BY <3>1, <3>2 DEF At, Sending, h
      <4>2. row'[d].status = "succeeded"
        BY <1>2, <4>1 DEF Current, h
      <4> QED BY <2>1, <4>2 DEF Status
    <3>3. CASE v # w /\ At(v, "mailed")
      BY <1>3, <2>1, <3>1, <3>3 DEF InHand, At
    <3>4. CASE v # w /\ At(v, "answered")
      <4>1. Sending(v) /\ worker[v].answer = "ok" /\ worker[v].of = d /\ Current(v)
        BY <3>1, <3>4 DEF At, Sending
      <4>2. row'[d] = row[d]
        <5>1. CASE d # h
          BY <1>2, <5>1
        <5>2. CASE d = h
          <6>1. worker[w].attempt # row[h].attempts
            BY <3>4, <4>1, <5>2, LiveAlone DEF h
          <6> QED BY <1>2, <5>2, <6>1
        <5> QED BY <5>1, <5>2
      <4>3. Current(v)'
        BY <1>3, <3>4, <4>1, <4>2 DEF Current, Status
      <4> QED BY <1>3, <2>1, <3>4, <4>1, <4>3 DEF InHand, At
    <3> QED BY <3>1, <3>2, <3>3, <3>4 DEF At
  <2> QED BY <2>1, <2>2, <2>3
<1>8. AnswersOK'
  <2>1. status = "succeeded" => accepted[h] > 0
    BY DEF AnswersOK, h
  <2>2. \A d \in Deliveries : Status(d)' = "succeeded" => accepted[d] > 0
    BY <1>2, <2>1 DEF AnswersOK, Status
  <2> QED BY <1>3, <2>2 DEF AnswersOK, At
<1> QED BY <1>4, <1>5, <1>6, <1>7, <1>8

\* A worker goes on with its attempt, or gives it up, and stores nothing.
LEMMA HookMoves ==
  ASSUME Core, NEW w \in Workers, Sending(w), NEW x \in {Idle} \cup OnHook, Go(w, x),
         x.at # "idle" => x.of = worker[w].of /\ x.attempt = worker[w].attempt,
         UNCHANGED <<instance, row, started, mailed>>,
         accepted' \in [Deliveries -> Nat], lost' \in [Deliveries -> Nat]
  PROVE  /\ CoreOK' /\ AttemptsOK' /\ LockOK' /\ SpacingOK'
         /\ worker'[w] = x /\ \A v \in Workers \ {w} : worker'[v] = worker[v]
         /\ \A d \in Deliveries : InHand(d) =>
              \/ InHand(d)'
              \/ At(w, "answered") /\ worker[w].answer = "ok" /\ worker[w].of = d /\ Current(w)
<1> USE DEF Core
<1>1. worker' \in [Workers -> {Idle} \cup OnHook \cup OnMail] /\ worker'[w] = x
        /\ \A v \in Workers \ {w} : worker'[v] = worker[v]
  BY DEF Go, CoreOK
<1>2. CoreOK'
  BY <1>1 DEF CoreOK
<1>3. AttemptsOK'
  <2>1. x.at \in {"idle", "check", "send", "answered"}
    BY DEF Idle, OnHook
  <2> QED BY <1>1, <2>1 DEF AttemptsOK, Sending
<1>4. LockOK' /\ SpacingOK'
  <2>1. x.at # "mail" /\ x.at # "mailed"
    BY DEF Idle, OnHook
  <2> QED BY <2>1, OnHookTyped, MailsApart
<1>5. ASSUME NEW d \in Deliveries, InHand(d),
             ~(At(w, "answered") /\ worker[w].answer = "ok" /\ worker[w].of = d /\ Current(w))
      PROVE  InHand(d)'
  <2>1. PICK v \in Workers :
          \/ At(v, "answered") /\ worker[v].answer = "ok" /\ worker[v].of = d /\ Current(v)
          \/ At(v, "mailed") /\ worker[v].answer = "ok" /\ d \in worker[v].batch
    BY <1>5 DEF InHand
  <2>2. v # w
    BY <1>5, <2>1 DEF At, Sending
  <2>3. worker'[v] = worker[v]
    BY <1>1, <2>2
  <2> QED BY <2>1, <2>3 DEF InHand, At, Current, Status
<1> QED BY <1>1, <1>2, <1>3, <1>4, <1>5

LEMMA CheckGood ==
  ASSUME Core, NEW w \in Workers, Check(w)
  PROVE  Core'
<1>1. Sending(w) /\ worker[w].at = "check"
      /\ UNCHANGED <<instance, accepted, lost, started, mailed>>
  BY DEF Check, Sending, At
<1>2. CASE Go(w, [worker[w] EXCEPT !.at = "send"]) /\ UNCHANGED row
  <2> DEFINE x == [worker[w] EXCEPT !.at = "send"]
  <2>1. x \in OnHook /\ x.at = "send" /\ x.of = worker[w].of /\ x.attempt = worker[w].attempt
    BY <1>1, OnHookTyped DEF OnHook, Core
  <2>2. Go(w, x)
    BY <1>2
  <2> HIDE DEF x
  <2>3. /\ CoreOK' /\ AttemptsOK' /\ LockOK' /\ SpacingOK'
        /\ worker'[w] = x /\ \A v \in Workers \ {w} : worker'[v] = worker[v]
        /\ \A d \in Deliveries : InHand(d) =>
             InHand(d)' \/ (At(w, "answered") /\ worker[w].answer = "ok" /\ worker[w].of = d)
    BY <1>1, <1>2, <2>1, <2>2, HookMoves DEF Core, CoreOK
  <2>4. Accounted'
    BY <1>1, <1>2, <2>3 DEF Core, Accounted, Status, At
  <2>5. AnswersOK'
    BY <1>1, <1>2, <2>1, <2>3 DEF Core, AnswersOK, Status, At
  <2> QED BY <2>3, <2>4, <2>5 DEF Core
<1>3. CASE Go(w, Idle) /\ Settle(w, "failed")
  <2>1. "failed" \in Statuses /\ ~At(w, "answered")
    BY <1>1 DEF Statuses, At
  <2> QED BY <1>1, <1>3, <2>1, HookSettles
<1> QED BY <1>2, <1>3 DEF Check

LEMMA SendGood ==
  ASSUME Core, NEW w \in Workers, Send(w)
  PROVE  Core'
<1> USE DEF Core
<1> DEFINE h == worker[w].of
<1>1. /\ Sending(w) /\ worker[w].at = "send" /\ UNCHANGED <<instance, row, started, mailed>>
      /\ h \in Hooks /\ h \in Deliveries /\ worker[w].attempt \in Nat
  BY OnHookTyped, KindsDiffer DEF Send, At, Sending
<1>2. PICK answer \in Answers :
        /\ Delivers({h}, answer, ~Current(w))
        /\ Go(w, [at |-> "answered", of |-> h, attempt |-> worker[w].attempt, answer |-> answer])
  BY DEF Send
<1> DEFINE x == [at |-> "answered", of |-> h, attempt |-> worker[w].attempt, answer |-> answer]
<1>3. x \in OnHook /\ x.at = "answered" /\ x.of = h /\ x.attempt = worker[w].attempt
        /\ x.answer = answer
  BY <1>1 DEF OnHook
<1>4. Go(w, x)
  BY <1>2
<1>5. \/ accepted' = accepted /\ lost' = lost /\ answer # "ok"
      \/ accepted' = Plus(accepted, {h}) /\ lost' = Plus(lost, {h})
      \/ accepted' = Plus(accepted, {h}) /\ lost' = lost /\ answer = "ok" /\ Current(w)
  BY <1>2 DEF Delivers
<1>6. /\ accepted' \in [Deliveries -> Nat] /\ lost' \in [Deliveries -> Nat]
      /\ \A d \in Deliveries \ {h} : accepted'[d] = accepted[d] /\ lost'[d] = lost[d]
      /\ \/ accepted'[h] = accepted[h] /\ lost'[h] = lost[h] /\ answer # "ok"
         \/ accepted'[h] = accepted[h] + 1 /\ lost'[h] = lost[h] + 1
         \/ accepted'[h] = accepted[h] + 1 /\ lost'[h] = lost[h] /\ answer = "ok" /\ Current(w)
  BY <1>1, <1>5, PlusGives DEF CoreOK
<1> HIDE DEF x, h
<1>7. /\ CoreOK' /\ AttemptsOK' /\ LockOK' /\ SpacingOK'
      /\ worker'[w] = x /\ \A v \in Workers \ {w} : worker'[v] = worker[v]
      /\ \A d \in Deliveries : InHand(d) => InHand(d)'
  BY <1>1, <1>3, <1>4, <1>6, HookMoves DEF h, At
<1>8. ASSUME Current(w) PROVE accepted[h] <= lost[h]
  <2>1. Status(h) # "succeeded" /\ worker[w].attempt = row[h].attempts
    BY <1>8 DEF Current, h
  <2>2. ~InHand(h)
    <3> SUFFICES ASSUME NEW v \in Workers,
                        \/ At(v, "answered") /\ worker[v].of = h /\ Current(v)
                        \/ At(v, "mailed") /\ h \in worker[v].batch
                 PROVE  FALSE
      BY DEF InHand
    <3>1. CASE At(v, "answered") /\ worker[v].of = h /\ Current(v)
      <4>1. v # w /\ Sending(v)
        BY <1>1, <3>1 DEF At, Sending
      <4> QED BY <1>1, <2>1, <3>1, <4>1, LiveAlone DEF h
    <3>2. CASE At(v, "mailed") /\ h \in worker[v].batch
      BY <1>1, <3>2, OnMailTyped, KindsDiffer DEF At, Mailing
    <3> QED BY <3>1, <3>2
  <2> QED BY <1>1, <2>1, <2>2 DEF Accounted
<1>9. Accounted'
  <2> SUFFICES ASSUME NEW d \in Deliveries
               PROVE  \/ accepted'[d] <= lost'[d]
                      \/ accepted'[d] <= 1 + lost'[d] /\ (Status(d)' = "succeeded" \/ InHand(d)')
    BY DEF Accounted
  <2>1. \/ accepted[d] <= lost[d]
        \/ accepted[d] <= 1 + lost[d] /\ (Status(d)' = "succeeded" \/ InHand(d)')
    BY <1>1, <1>7 DEF Accounted, Status
  <2>2. accepted[d] \in Nat /\ lost[d] \in Nat
    BY DEF CoreOK
  <2>3. CASE accepted'[d] = accepted[d] /\ lost'[d] = lost[d]
    BY <2>1, <2>3
  <2>4. CASE accepted'[d] = accepted[d] + 1 /\ lost'[d] = lost[d] + 1
    BY <2>1, <2>2, <2>4
  <2>5. CASE /\ d = h /\ accepted'[h] = accepted[h] + 1 /\ lost'[h] = lost[h]
             /\ answer = "ok" /\ Current(w)
    <3>1. InHand(d)'
      BY <1>1, <1>3, <1>7, <2>5 DEF InHand, At, Current, Status, h
    <3>2. accepted'[d] <= 1 + lost'[d]
      BY <1>8, <2>2, <2>5
    <3> QED BY <3>1, <3>2
  <2> QED BY <1>6, <2>3, <2>4, <2>5
<1>10. AnswersOK'
  <2>1. \A d \in Deliveries : accepted[d] > 0 => accepted'[d] > 0
    BY <1>6 DEF CoreOK
  <2>2. answer = "ok" => accepted'[h] > 0
    BY <1>1, <1>6 DEF CoreOK
  <2>3. \A d \in Deliveries : Status(d)' = "succeeded" => accepted'[d] > 0
    BY <1>1, <2>1 DEF AnswersOK, Status
  <2>4. ASSUME NEW v \in Workers, At(v, "answered")', worker'[v].answer = "ok"
        PROVE  accepted'[worker'[v].of] > 0
    <3>1. CASE v = w
      BY <1>3, <1>7, <2>2, <2>4, <3>1
    <3>2. CASE v # w
      <4>1. At(v, "answered") /\ worker[v].answer = "ok" /\ worker'[v].of = worker[v].of
        BY <1>7, <2>4, <3>2 DEF At
      <4>2. worker[v].of \in Deliveries
        BY <4>1, OnHookTyped, KindsDiffer DEF At, Sending
      <4> QED BY <2>1, <4>1, <4>2 DEF AnswersOK
    <3> QED BY <3>1, <3>2
  <2>5. ASSUME NEW v \in Workers, At(v, "mailed")', worker'[v].answer = "ok",
               NEW d \in worker'[v].batch
        PROVE  accepted'[d] > 0
    <3>1. v # w
      BY <1>3, <1>7, <2>5 DEF At
    <3>2. At(v, "mailed") /\ worker[v].answer = "ok" /\ d \in worker[v].batch
      BY <1>7, <2>5, <3>1 DEF At
    <3>3. d \in Deliveries
      BY <3>2, OnMailTyped, KindsDiffer DEF At, Mailing
    <3> QED BY <2>1, <3>2, <3>3 DEF AnswersOK
  <2> QED BY <2>3, <2>4, <2>5 DEF AnswersOK
<1> QED BY <1>7, <1>9, <1>10

LEMMA RecordGood ==
  ASSUME Core, NEW w \in Workers, Record(w)
  PROVE  Core'
<1>1. /\ Sending(w) /\ At(w, "answered") /\ Go(w, Idle) /\ worker[w].answer \in Answers
      /\ UNCHANGED <<instance, accepted, lost, started, mailed>>
  BY OnHookTyped DEF Record, At, Sending, Core
<1>2. /\ worker[w].answer = "ok" => Settle(w, "succeeded")
      /\ worker[w].answer = "refused" => Settle(w, "failed")
      /\ worker[w].answer = "retry" => Settle(w, "retry_pending")
  BY <1>1 DEF Record, Answers
<1>3. {"succeeded", "failed", "retry_pending"} \subseteq Statuses
  BY DEF Statuses
<1>4. CASE worker[w].answer = "ok"
  BY <1>1, <1>2, <1>3, <1>4, HookSettles
<1>5. CASE worker[w].answer = "refused"
  BY <1>1, <1>2, <1>3, <1>5, HookSettles
<1>6. CASE worker[w].answer = "retry"
  BY <1>1, <1>2, <1>3, <1>6, HookSettles
<1> QED BY <1>1, <1>4, <1>5, <1>6 DEF Answers

LEMMA HookStopsGood ==
  ASSUME Core, NEW w \in Workers, HookStops(w)
  PROVE  Core'
<1> USE DEF Core
<1> DEFINE h == worker[w].of
           said == At(w, "answered") /\ worker[w].answer = "ok" /\ Current(w)
<1>1. /\ Sending(w) /\ Go(w, Idle) /\ UNCHANGED <<instance, row, accepted, started, mailed>>
      /\ lost' = IF said THEN Plus(lost, {h}) ELSE lost
      /\ h \in Hooks /\ h \in Deliveries
  BY OnHookTyped, KindsDiffer DEF HookStops, At, Sending
<1>2. /\ lost' \in [Deliveries -> Nat]
      /\ \A d \in Deliveries \ {h} : lost'[d] = lost[d]
      /\ lost'[h] = IF said THEN lost[h] + 1 ELSE lost[h]
  BY <1>1, PlusGives DEF CoreOK
<1> HIDE DEF h, said
<1>3. Idle \in {Idle} \cup OnHook /\ Idle.at = "idle"
  BY DEF Idle
<1>4. /\ CoreOK' /\ AttemptsOK' /\ LockOK' /\ SpacingOK'
      /\ worker'[w] = Idle /\ \A v \in Workers \ {w} : worker'[v] = worker[v]
      /\ \A d \in Deliveries : InHand(d) => InHand(d)' \/ (said /\ h = d)
  BY <1>1, <1>2, <1>3, HookMoves DEF CoreOK, h, said
<1>5. Accounted'
  <2>1. \A d \in Deliveries : accepted[d] \in Nat /\ lost[d] \in Nat
    BY DEF CoreOK
  <2> QED BY <1>1, <1>2, <1>4, <2>1 DEF Accounted, Status
<1>6. AnswersOK'
  BY <1>1, <1>3, <1>4 DEF AnswersOK, Status, At
<1> QED BY <1>4, <1>5, <1>6

\* A row that is claimed goes to a new attempt: nobody can store the result of an earlier
\* one any more.
LEMMA TakeHookGood ==
  ASSUME Core, NEW w \in Workers, NEW h \in Hooks, TakeHook(w, h)
  PROVE  Core'
<1> USE DEF Core
<1>1. /\ At(w, "idle") /\ ~Sending(w) /\ w \notin Mailing /\ h \in Deliveries /\ h \notin Mails
      /\ UNCHANGED <<instance, accepted, lost, started, mailed>>
  BY KindsDiffer DEF TakeHook, At, Sending, Mailing
<1>2. CASE ~Claimable(h)
  <2>1. UNCHANGED <<row, worker>>
    BY <1>2 DEF TakeHook
  <2> QED BY <1>1, <2>1, CoreStays
<1>3. CASE Claimable(h)
  <2> DEFINE n == row[h].attempts + 1
             x == [at |-> "check", of |-> h, attempt |-> n]
             r == [status |-> "sending", attempts |-> n, stale |-> FALSE]
  <2>1. row' = [row EXCEPT ![h] = r] /\ Go(w, x)
    BY <1>3 DEF TakeHook
  <2>2. n \in Nat /\ n = row[h].attempts + 1 /\ row[h].attempts \in Nat
    BY <1>1 DEF CoreOK, Row
  <2>3. /\ x \in OnHook /\ x.at = "check" /\ x.of = h /\ x.attempt = n
        /\ r \in Row /\ r.status = "sending" /\ r.attempts = n
    BY <2>2 DEF OnHook, Row, Statuses
  <2> HIDE DEF n, x, r
  <2>4. /\ row' \in [Deliveries -> Row] /\ row'[h] = r
        /\ \A d \in Deliveries \ {h} : row'[d] = row[d]
    BY <1>1, <2>1, <2>3 DEF CoreOK
  <2>5. /\ worker' \in [Workers -> {Idle} \cup OnHook \cup OnMail] /\ worker'[w] = x
        /\ \A v \in Workers \ {w} : worker'[v] = worker[v]
    BY <2>1, <2>3 DEF Go, CoreOK
  <2>6. CoreOK'
    BY <1>1, <2>4, <2>5 DEF CoreOK
  <2>7. AttemptsOK'
    <3>1. \A v \in Workers : Sending(v) => worker[v].of \in Deliveries /\ worker[v].attempt \in Nat
      BY OnHookTyped, KindsDiffer
    <3>2. \A v \in Workers : Sending(v) /\ worker[v].of = h => worker[v].attempt < n
      BY <2>2, <3>1 DEF AttemptsOK
    <3>3. \A v \in Workers \ {w} : Sending(v)' <=> Sending(v)
      BY <2>5 DEF Sending
    <3>4. ASSUME NEW v \in Workers, Sending(v)'
          PROVE  worker'[v].attempt <= row'[worker'[v].of].attempts
      BY <2>2, <2>3, <2>4, <2>5, <3>1, <3>2, <3>3, <3>4 DEF AttemptsOK
    <3>5. ASSUME NEW v \in Workers, Sending(v)', NEW u \in Workers \ {v}, Sending(u)',
                 worker'[u].of = worker'[v].of
          PROVE  worker'[u].attempt # worker'[v].attempt
      <4>1. CASE u = w
        BY <2>2, <2>3, <2>5, <3>1, <3>2, <3>3, <3>5, <4>1
      <4>2. CASE v = w
        BY <2>2, <2>3, <2>5, <3>1, <3>2, <3>3, <3>5, <4>2
      <4>3. CASE u # w /\ v # w
        BY <2>5, <3>3, <3>5, <4>3 DEF AttemptsOK
      <4> QED BY <4>1, <4>2, <4>3
    <3> QED BY <3>4, <3>5 DEF AttemptsOK
  <2>8. LockOK' /\ SpacingOK'
    <3>1. \A d \in Mails : row'[d] = row[d]
      BY <1>1, <2>4, KindsDiffer
    <3>2. x.at # "mail" /\ x.at # "mailed"
      BY <2>3
    <3> QED BY <1>1, <2>1, <3>1, <3>2, MailsApart
  <2>9. Accounted'
    <3> SUFFICES ASSUME NEW d \in Deliveries, ~(accepted[d] <= lost[d])
                 PROVE  accepted[d] <= 1 + lost[d] /\ (Status(d)' = "succeeded" \/ InHand(d)')
      BY <1>1 DEF Accounted
    <3>1. accepted[d] <= 1 + lost[d] /\ (Status(d) = "succeeded" \/ InHand(d))
      BY DEF Accounted
    <3>2. d # h
      <4>1. Status(h) # "succeeded" /\ ~Live(h)
        BY <1>3 DEF Claimable, Live
      <4>2. ~InHand(h)
        BY <1>1, <4>1, OnMailTyped DEF InHand, Current, Live, At, Mailing
      <4> QED BY <3>1, <4>1, <4>2
    <3>3. row'[d] = row[d]
      BY <2>4, <3>2
    <3>4. ASSUME InHand(d) PROVE InHand(d)'
      <4>1. PICK v \in Workers :
              \/ At(v, "answered") /\ worker[v].answer = "ok" /\ worker[v].of = d /\ Current(v)
              \/ At(v, "mailed") /\ worker[v].answer = "ok" /\ d \in worker[v].batch
        BY <3>4 DEF InHand
      <4>2. worker'[v] = worker[v]
        BY <1>1, <2>5, <4>1 DEF At
      <4> QED BY <3>3, <4>1, <4>2 DEF InHand, At, Current, Status
    <3> QED BY <3>1, <3>3, <3>4 DEF Status
  <2>10. AnswersOK'
    <3>1. \A d \in Deliveries : Status(d)' = "succeeded" => Status(d) = "succeeded"
      BY <2>3, <2>4 DEF Status
    <3>2. \A v \in Workers : At(v, "answered")' \/ At(v, "mailed")' => worker'[v] = worker[v]
      BY <2>3, <2>5 DEF At
    <3> QED BY <1>1, <3>1, <3>2 DEF AnswersOK, At
  <2> QED BY <2>6, <2>7, <2>8, <2>9, <2>10
<1> QED BY <1>2, <1>3

\* A lease that is over takes the answer that was not stored in time for lost.
LEMMA LeaseExpiresGood ==
  ASSUME Core, NEW h \in Hooks, LeaseExpires(h)
  PROVE  Core'
<1> USE DEF Core
<1> DEFINE late == {w \in Workers : /\ worker[w].at \in {"check", "send", "answered"}
                                    /\ worker[w].of = h /\ Current(w)}
           sent == {w \in late : At(w, "answered") /\ worker[w].answer = "ok"}
<1>1. /\ Status(h) = "sending" /\ row' = [row EXCEPT ![h].stale = TRUE]
      /\ lost' = IF sent = {} THEN lost ELSE Plus(lost, {h})
      /\ UNCHANGED <<instance, worker, accepted, started, mailed>>
      /\ h \in Deliveries /\ h \notin Mails
  BY KindsDiffer DEF LeaseExpires
<1>2. /\ row' \in [Deliveries -> Row]
      /\ \A d \in Deliveries \ {h} : row'[d] = row[d]
      /\ row'[h].status = "sending" /\ row'[h].attempts = row[h].attempts
  BY <1>1 DEF CoreOK, Row, Status
<1>3. /\ lost' \in [Deliveries -> Nat]
      /\ \A d \in Deliveries \ {h} : lost'[d] = lost[d]
      /\ lost'[h] = IF sent = {} THEN lost[h] ELSE lost[h] + 1
  BY <1>1, PlusGives DEF CoreOK
<1>4. CoreOK'
  BY <1>1, <1>2, <1>3 DEF CoreOK
<1>5. AttemptsOK'
  <2>1. \A v \in Workers : Sending(v) => worker[v].of \in Deliveries
    BY OnHookTyped, KindsDiffer
  <2>2. \A d \in Deliveries : row'[d].attempts = row[d].attempts
    BY <1>2
  <2> QED BY <1>1, <2>1, <2>2 DEF AttemptsOK, Sending
<1>6. LockOK' /\ SpacingOK'
  <2>1. \A d \in Mails : row'[d] = row[d]
    BY <1>1, <1>2, KindsDiffer
  <2>2. Mailing' = Mailing
    BY <1>1 DEF Mailing
  <2>3. \A v \in Mailing : \A d \in worker[v].batch \cup worker[v].bad :
          Status(d)' \in {"pending", "sending", "enqueue_failed"}
    BY <2>1, OnMailTyped DEF LockOK, Status
  <2>4. LockOK'
    BY <1>1, <2>2, <2>3 DEF LockOK
  <2>5. SpacingOK'
    BY <1>1, <2>1 DEF SpacingOK, Status, CoreOK
  <2> QED BY <2>4, <2>5
<1>7. Accounted'
  <2> SUFFICES ASSUME NEW d \in Deliveries
               PROVE  \/ accepted[d] <= lost'[d]
                      \/ accepted[d] <= 1 + lost'[d] /\ (Status(d)' = "succeeded" \/ InHand(d)')
    BY <1>1 DEF Accounted
  <2>1. \/ accepted[d] <= lost[d]
        \/ accepted[d] <= 1 + lost[d] /\ (Status(d) = "succeeded" \/ InHand(d))
    BY DEF Accounted
  <2>2. accepted[d] \in Nat /\ lost[d] \in Nat
    BY DEF CoreOK
  <2>3. CASE d = h
    <3>1. sent = {} => ~InHand(h)
      BY <1>1, OnMailTyped DEF InHand, At, Mailing
    <3>2. Status(h) # "succeeded"
      BY <1>1
    <3> HIDE DEF sent
    <3> QED BY <1>3, <2>1, <2>2, <2>3, <3>1, <3>2
  <2>4. CASE d # h
    <3>1. row'[d] = row[d] /\ lost'[d] = lost[d]
      BY <1>2, <1>3, <2>4
    <3>2. InHand(d) => InHand(d)'
      BY <1>1, <3>1 DEF InHand, At, Current, Status
    <3> QED BY <2>1, <3>1, <3>2 DEF Status
  <2> QED BY <2>3, <2>4
<1>8. AnswersOK'
  <2>1. \A d \in Deliveries : Status(d)' = "succeeded" => Status(d) = "succeeded"
    BY <1>2 DEF Status
  <2> QED BY <1>1, <2>1 DEF AnswersOK, At
<1> QED BY <1>4, <1>5, <1>6, <1>7, <1>8
-----------------------------------------------------------------------------
(* Mails.                                                                  *)

\* Who sends to webhooks is not troubled by a step that leaves them and their rows alone.
LEMMA HooksApart ==
  ASSUME Core, NEW w \in Workers, ~Sending(w), NEW x \in {Idle} \cup OnMail, Go(w, x),
         row' \in [Deliveries -> Row],
         \A d \in Hooks : row'[d] = row[d]
  PROVE  /\ worker' \in [Workers -> {Idle} \cup OnHook \cup OnMail]
         /\ worker'[w] = x /\ \A v \in Workers \ {w} : worker'[v] = worker[v]
         /\ AttemptsOK'
         /\ \A d \in Deliveries : \A v \in Workers :
              At(v, "answered") /\ worker[v].answer = "ok" /\ worker[v].of = d /\ Current(v)
                => InHand(d)'
<1> USE DEF Core
<1>1. worker' \in [Workers -> {Idle} \cup OnHook \cup OnMail] /\ worker'[w] = x
        /\ \A v \in Workers \ {w} : worker'[v] = worker[v]
  BY DEF Go, CoreOK
<1>2. x.at \in {"idle", "mail", "mailed"}
  BY DEF Idle, OnMail
<1>3. \A v \in Workers :
        Sending(v) => worker[v].of \in Hooks /\ row'[worker[v].of] = row[worker[v].of]
  BY OnHookTyped
<1>4. AttemptsOK'
  <2>1. \A v \in Workers : Sending(v)' => v # w /\ Sending(v) /\ worker'[v] = worker[v]
    BY <1>1, <1>2 DEF Sending
  <2> QED BY <1>3, <2>1 DEF AttemptsOK
<1>5. ASSUME NEW d \in Deliveries, NEW v \in Workers, At(v, "answered"), worker[v].answer = "ok",
             worker[v].of = d, Current(v)
      PROVE  InHand(d)'
  <2>1. Sending(v) /\ v # w
    BY <1>5 DEF Sending, At
  <2>2. worker'[v] = worker[v] /\ row'[d] = row[d]
    BY <1>1, <1>3, <1>5, <2>1
  <2> QED BY <1>5, <2>2 DEF InHand, At, Current, Status
<1> QED BY <1>1, <1>4, <1>5

LEMMA TakeMailGood ==
  ASSUME Core, NEW w \in Workers, NEW task \in Mails \cup {Digest}, TakeMail(w, task)
  PROVE  Core'
<1> USE DEF Core
<1>1. /\ Mailing = {} /\ At(w, "idle") /\ ~Sending(w)
      /\ UNCHANGED <<instance, accepted, lost, started, mailed>>
  BY DEF TakeMail, PrepareDigest, At, Sending
<1>2. CASE UNCHANGED <<row, worker>>
  BY <1>1, <1>2, CoreStays
<1>3. ASSUME NEW bad \in SUBSET Batch, row' = Set(bad, "failed"), UNCHANGED worker
      PROVE  Core'
  <2>1. bad \subseteq Mails /\ \A d \in bad : Status(d) \in {"pending", "sending", "enqueue_failed"}
    BY DEF Batch, Waiting
  <2>2. bad \in SUBSET Deliveries /\ "failed" \in Statuses /\ \A d \in Hooks : d \notin bad
    BY <2>1, KindsDiffer DEF Statuses
  <2>3. /\ row' \in [Deliveries -> Row]
        /\ \A d \in bad : row'[d].status = "failed" /\ row'[d].attempts = row[d].attempts
        /\ \A d \in Deliveries \ bad : row'[d] = row[d]
    BY <1>3, <2>2, SetGives
  <2>4. Locked = {}
    BY <1>1 DEF Locked
  <2>5. \A d \in Deliveries : /\ row'[d].attempts = row[d].attempts
                              /\ row'[d].status = "succeeded" <=> row[d].status = "succeeded"
    BY <2>1, <2>3 DEF Status
  <2>6. \A d \in Hooks : row'[d] = row[d]
    BY <2>2, <2>3, KindsDiffer
  <2> QED BY <1>1, <1>3, <2>3, <2>4, <2>5, <2>6, RowsMove
<1>4. ASSUME NEW bad \in SUBSET Batch, Batch # bad, started = {}, UNCHANGED row,
             Go(w, [at |-> "mail", task |-> task, batch |-> Batch \ bad, bad |-> bad])
      PROVE  Core'
  <2> DEFINE x == [at |-> "mail", task |-> task, batch |-> Batch \ bad, bad |-> bad]
  <2>1. /\ Batch \subseteq Mails
        /\ \A d \in Batch : Status(d) \in {"pending", "sending", "enqueue_failed"}
    BY DEF Batch, Waiting
  <2>2. /\ x \in OnMail /\ x.at = "mail" /\ x.batch # {} /\ x.batch \cap x.bad = {}
        /\ \A d \in x.batch \cup x.bad : Status(d) \in {"pending", "sending", "enqueue_failed"}
    BY <1>4, <2>1 DEF OnMail
  <2>3. Go(w, x)
    BY <1>4
  <2> HIDE DEF x
  <2>4. /\ worker' \in [Workers -> {Idle} \cup OnHook \cup OnMail]
        /\ worker'[w] = x /\ \A v \in Workers \ {w} : worker'[v] = worker[v]
        /\ AttemptsOK'
        /\ \A d \in Deliveries : \A v \in Workers :
             At(v, "answered") /\ worker[v].answer = "ok" /\ worker[v].of = d /\ Current(v)
               => InHand(d)'
    BY <1>1, <1>4, <2>2, <2>3, HooksApart DEF CoreOK
  <2>5. CoreOK'
    BY <1>1, <1>4, <2>4 DEF CoreOK
  <2>6. Mailing' = {w}
    BY <1>1, <2>2, <2>4 DEF Mailing
  <2>7. mailed = 0
    BY <1>4 DEF SpacingOK
  <2>8. LockOK'
    BY <1>1, <1>4, <2>2, <2>4, <2>6, <2>7 DEF LockOK, Status
  <2>9. Accounted'
    <3>1. \A d \in Deliveries : InHand(d) => InHand(d)'
      BY <1>1, <2>4 DEF InHand, At, Mailing
    <3> QED BY <1>1, <1>4, <3>1 DEF Accounted, Status
  <2>10. AnswersOK'
    BY <1>1, <1>4, <2>2, <2>4 DEF AnswersOK, At, Status
  <2>11. SpacingOK'
    BY <1>1, <2>7 DEF SpacingOK
  <2> QED BY <2>4, <2>5, <2>8, <2>9, <2>10, <2>11
<1>5. \/ UNCHANGED <<row, worker>>
      \/ \E bad \in SUBSET Batch : row' = Set(bad, "failed") /\ UNCHANGED worker
      \/ \E bad \in SUBSET Batch :
           /\ Batch # bad /\ started = {} /\ UNCHANGED row
           /\ Go(w, [at |-> "mail", task |-> task, batch |-> Batch \ bad, bad |-> bad])
  BY DEF TakeMail, PrepareDigest
<1> QED BY <1>2, <1>3, <1>4, <1>5

LEMMA SendMailGood ==
  ASSUME Core, NEW w \in Workers, SendMail(w)
  PROVE  Core'
<1> USE DEF Core
<1> DEFINE B == worker[w].batch
<1>1. /\ At(w, "mail") /\ ~Sending(w) /\ w \in Mailing
      /\ UNCHANGED <<instance, row, started, mailed>>
      /\ B \subseteq Mails /\ B \subseteq Deliveries
      /\ worker[w].task \in Mails \cup {Digest} /\ worker[w].bad \subseteq Mails
  BY OnMailTyped, KindsDiffer DEF SendMail, At, Sending, Mailing
<1>2. PICK answer \in Answers :
        /\ Delivers(B, answer, FALSE)
        /\ Go(w, [at |-> "mailed", task |-> worker[w].task, batch |-> B,
                  bad |-> worker[w].bad, answer |-> answer])
  BY DEF SendMail
<1> DEFINE x == [at |-> "mailed", task |-> worker[w].task, batch |-> B,
                 bad |-> worker[w].bad, answer |-> answer]
<1>3. /\ x \in OnMail /\ x.at = "mailed" /\ x.batch = B /\ x.bad = worker[w].bad
      /\ x.answer = answer
  BY <1>1 DEF OnMail
<1>4. Go(w, x)
  BY <1>2
<1>5. \/ accepted' = accepted /\ lost' = lost /\ answer # "ok"
      \/ accepted' = Plus(accepted, B) /\ lost' = Plus(lost, B)
      \/ accepted' = Plus(accepted, B) /\ lost' = lost /\ answer = "ok"
  BY <1>2 DEF Delivers
<1>6. /\ accepted' \in [Deliveries -> Nat] /\ lost' \in [Deliveries -> Nat]
      /\ \A d \in Deliveries \ B : accepted'[d] = accepted[d] /\ lost'[d] = lost[d]
      /\ \A d \in B :
           \/ accepted'[d] = accepted[d] /\ lost'[d] = lost[d] /\ answer # "ok"
           \/ accepted'[d] = accepted[d] + 1 /\ lost'[d] = lost[d] + 1
           \/ accepted'[d] = accepted[d] + 1 /\ lost'[d] = lost[d] /\ answer = "ok"
  <2>1. B \in SUBSET Deliveries
    BY <1>1
  <2> QED BY <1>5, <2>1, PlusGives DEF CoreOK
<1> HIDE DEF x
<1>7. /\ worker' \in [Workers -> {Idle} \cup OnHook \cup OnMail]
      /\ worker'[w] = x /\ \A v \in Workers \ {w} : worker'[v] = worker[v]
      /\ AttemptsOK'
      /\ \A d \in Deliveries : \A v \in Workers :
           At(v, "answered") /\ worker[v].answer = "ok" /\ worker[v].of = d /\ Current(v)
             => InHand(d)'
  BY <1>1, <1>3, <1>4, HooksApart DEF CoreOK
<1>8. CoreOK'
  BY <1>1, <1>6, <1>7 DEF CoreOK
<1>9. \A v \in Mailing : v = w
  BY <1>1 DEF LockOK
<1>10. Mailing' = {w}
  BY <1>3, <1>7, <1>9 DEF Mailing
<1>11. LockOK'
  BY <1>1, <1>3, <1>7, <1>10 DEF LockOK, Status
<1>12. \A d \in Deliveries : InHand(d) => InHand(d)'
  BY <1>1, <1>7, <1>9 DEF InHand, At, Mailing
<1>13. \A d \in B : accepted[d] <= lost[d]
  <2> SUFFICES ASSUME NEW d \in B PROVE accepted[d] <= lost[d]
    OBVIOUS
  <2>1. d \in Deliveries /\ d \notin Hooks /\ Status(d) # "succeeded"
    BY <1>1, KindsDiffer DEF LockOK
  <2>2. ~InHand(d)
    <3>1. \A v \in Workers : At(v, "answered") => worker[v].of # d
      BY <2>1, OnHookTyped DEF At, Sending
    <3>2. \A v \in Workers : ~At(v, "mailed")
      BY <1>1, <1>9 DEF At, Mailing
    <3> QED BY <3>1, <3>2 DEF InHand
  <2> QED BY <2>1, <2>2 DEF Accounted
<1>14. Accounted'
  <2> SUFFICES ASSUME NEW d \in Deliveries
               PROVE  \/ accepted'[d] <= lost'[d]
                      \/ accepted'[d] <= 1 + lost'[d] /\ (Status(d)' = "succeeded" \/ InHand(d)')
    BY DEF Accounted
  <2>1. \/ accepted[d] <= lost[d]
        \/ accepted[d] <= 1 + lost[d] /\ (Status(d)' = "succeeded" \/ InHand(d)')
    BY <1>1, <1>12 DEF Accounted, Status
  <2>2. accepted[d] \in Nat /\ lost[d] \in Nat
    BY DEF CoreOK
  <2>3. CASE accepted'[d] = accepted[d] /\ lost'[d] = lost[d]
    BY <2>1, <2>3
  <2>4. CASE accepted'[d] = accepted[d] + 1 /\ lost'[d] = lost[d] + 1
    BY <2>1, <2>2, <2>4
  <2>5. CASE d \in B /\ accepted'[d] = accepted[d] + 1 /\ lost'[d] = lost[d] /\ answer = "ok"
    <3>1. InHand(d)'
      BY <1>3, <1>7, <2>5 DEF InHand, At
    <3> QED BY <1>13, <2>2, <2>5, <3>1
  <2> QED BY <1>6, <2>3, <2>4, <2>5
<1>15. AnswersOK'
  <2>1. \A d \in Deliveries : accepted[d] > 0 => accepted'[d] > 0
    BY <1>6 DEF CoreOK
  <2>2. answer = "ok" => \A d \in B : accepted'[d] > 0
    BY <1>1, <1>6 DEF CoreOK
  <2>3. \A d \in Deliveries : Status(d)' = "succeeded" => accepted'[d] > 0
    BY <1>1, <2>1 DEF AnswersOK, Status
  <2>4. ASSUME NEW v \in Workers, At(v, "answered")', worker'[v].answer = "ok"
        PROVE  accepted'[worker'[v].of] > 0
    <3>1. v # w
      BY <1>3, <1>7, <2>4 DEF At
    <3>2. At(v, "answered") /\ worker[v].answer = "ok" /\ worker'[v].of = worker[v].of
      BY <1>7, <2>4, <3>1 DEF At
    <3>3. worker[v].of \in Deliveries
      BY <3>2, OnHookTyped, KindsDiffer DEF At, Sending
    <3> QED BY <2>1, <3>2, <3>3 DEF AnswersOK
  <2>5. ASSUME NEW v \in Workers, At(v, "mailed")', worker'[v].answer = "ok",
               NEW d \in worker'[v].batch
        PROVE  accepted'[d] > 0
    <3>1. v = w
      BY <1>10, <2>5 DEF At, Mailing
    <3> QED BY <1>3, <1>7, <2>2, <2>5, <3>1
  <2> QED BY <2>3, <2>4, <2>5 DEF AnswersOK
<1>16. SpacingOK'
  BY <1>1 DEF SpacingOK, Status
<1> QED BY <1>7, <1>8, <1>11, <1>14, <1>15, <1>16

LEMMA StatusChanges ==
  ASSUME NEW r \in Row, NEW status \in Statuses
  PROVE  LET x == [r EXCEPT !.status = status]
         IN  x \in Row /\ x.status = status
<1>1. /\ r.status \in Statuses /\ r.attempts \in Nat /\ r.stale \in BOOLEAN
      /\ r = [status |-> r.status, attempts |-> r.attempts, stale |-> r.stale]
  BY DEF Row
<1>2. [r EXCEPT !.status = status]
        = [status |-> status, attempts |-> r.attempts, stale |-> r.stale]
  BY <1>1
<1> QED BY <1>1, <1>2 DEF Row

LEMMA RowChanges ==
  ASSUME NEW r \in Row, NEW status \in Statuses, NEW n \in Nat
  PROVE  LET x == [r EXCEPT !.attempts = n, !.status = status]
         IN  x \in Row /\ x.status = status
<1> DEFINE y == [r EXCEPT !.attempts = n]
<1>1. y \in Row
  BY DEF Row
<1>2. [r EXCEPT !.attempts = n, !.status = status] = [y EXCEPT !.status = status]
  OBVIOUS
<1> HIDE DEF y
<1> QED BY <1>1, <1>2, StatusChanges

LEMMA AfterMailGives ==
  ASSUME Core, NEW w \in Workers, At(w, "mailed")
  PROVE  /\ AfterMail(w) \in [Deliveries -> Row]
         /\ \A d \in Deliveries \ (worker[w].batch \cup worker[w].bad) : AfterMail(w)[d] = row[d]
         /\ \A d \in worker[w].bad : AfterMail(w)[d].status = "failed"
         /\ \A d \in worker[w].batch :
              /\ AfterMail(w)[d].status # "none"
              /\ AfterMail(w)[d].status = "succeeded" <=> worker[w].answer = "ok"
<1>1. /\ w \in Mailing /\ worker[w].answer \in Answers
      /\ worker[w].batch \subseteq Deliveries /\ worker[w].bad \subseteq Deliveries
      /\ worker[w].batch \cap worker[w].bad = {}
  BY OnMailTyped, KindsDiffer DEF Core, LockOK, At, Mailing
<1>2. \A d \in worker[w].batch : row[d].status \in {"pending", "sending", "enqueue_failed"}
  BY <1>1 DEF Core, LockOK, Status
<1> DEFINE after(d) == CASE worker[w].answer = "ok" -> "succeeded"
                         [] worker[w].answer = "refused" -> "failed"
                         [] worker[w].answer = "retry" ->
                              IF row[d].attempts + 1 >= MaxAttempts THEN "failed"
                              ELSE IF row[d].status = "enqueue_failed" THEN row[d].status
                              ELSE "pending"
<1>3. \A d \in worker[w].batch :
        after(d) \in Statuses \ {"none"} /\ (after(d) = "succeeded" <=> worker[w].answer = "ok")
  BY <1>1, <1>2 DEF Answers, Statuses
<1>4. \A d \in Deliveries : AfterMail(w)[d] =
        IF d \in worker[w].bad THEN [row[d] EXCEPT !.status = "failed"]
        ELSE IF d \notin worker[w].batch THEN row[d]
        ELSE [row[d] EXCEPT !.attempts = row[d].attempts + 1, !.status = after(d)]
  BY DEF AfterMail
<1> HIDE DEF after
<1>5. \A d \in Deliveries : row[d] \in Row
  BY DEF Core, CoreOK
<1>6. ASSUME NEW d \in Deliveries
      PROVE  /\ AfterMail(w)[d] \in Row
             /\ d \in worker[w].bad => AfterMail(w)[d].status = "failed"
             /\ d \in worker[w].batch => AfterMail(w)[d].status = after(d)
             /\ d \notin worker[w].batch \cup worker[w].bad => AfterMail(w)[d] = row[d]
  <2>1. CASE d \in worker[w].bad
    <3>1. AfterMail(w)[d] = [row[d] EXCEPT !.status = "failed"] /\ d \notin worker[w].batch
      BY <1>1, <1>4, <2>1
    <3>2. "failed" \in Statuses
      BY DEF Statuses
    <3>3. row[d] \in Row
      BY <1>5
    <3>4. AfterMail(w)[d] \in Row /\ AfterMail(w)[d].status = "failed"
      BY <3>1, <3>2, <3>3, StatusChanges
    <3> QED BY <2>1, <3>1, <3>4
  <2>2. CASE d \notin worker[w].batch /\ d \notin worker[w].bad
    BY <1>4, <1>5, <2>2
  <2>3. CASE d \in worker[w].batch
    <3>1. /\ AfterMail(w)[d] =
               [row[d] EXCEPT !.attempts = row[d].attempts + 1, !.status = after(d)]
          /\ d \notin worker[w].bad /\ after(d) \in Statuses
      BY <1>1, <1>3, <1>4, <2>3
    <3>2. row[d] \in Row /\ row[d].attempts + 1 \in Nat
      BY <1>5 DEF Row
    <3>3. AfterMail(w)[d] \in Row /\ AfterMail(w)[d].status = after(d)
      <4> DEFINE a == after(d)
                 n == row[d].attempts + 1
      <4>1. /\ AfterMail(w)[d] = [row[d] EXCEPT !.attempts = n, !.status = a]
            /\ a \in Statuses /\ n \in Nat
        BY <3>1, <3>2
      <4> HIDE DEF a, n
      <4>2. LET x == [row[d] EXCEPT !.attempts = n, !.status = a] IN x \in Row /\ x.status = a
        BY <3>2, <4>1, RowChanges
      <4>3. AfterMail(w)[d] \in Row /\ AfterMail(w)[d].status = a
        BY <4>1, <4>2, Zenon
      <4> QED BY <4>3 DEF a
    <3> QED BY <2>3, <3>1, <3>3
  <2> QED BY <2>1, <2>2, <2>3
<1>7. AfterMail(w) \in [Deliveries -> Row]
  BY <1>6 DEF AfterMail
<1> QED BY <1>1, <1>3, <1>6, <1>7

LEMMA CommitMailGood ==
  ASSUME Core, NEW w \in Workers, CommitMail(w)
  PROVE  Core'
<1> USE DEF Core
<1> DEFINE B == worker[w].batch
           all == worker[w].batch \cup worker[w].bad
           ok == worker[w].answer = "ok"
<1>1. /\ At(w, "mailed") /\ ~Sending(w) /\ w \in Mailing /\ Go(w, Idle) /\ row' = AfterMail(w)
      /\ started' = started \cup B /\ UNCHANGED <<instance, accepted, lost>>
      /\ mailed' = IF ok THEN mailed + 1 ELSE mailed
      /\ B \subseteq Mails /\ all \subseteq Mails /\ all \subseteq Deliveries
  BY OnMailTyped, KindsDiffer DEF CommitMail, At, Sending, Mailing
<1>2. B # {} /\ started = {} /\ mailed = 0 /\ \A v \in Mailing : v = w
  BY <1>1 DEF LockOK
<1>3. /\ row' \in [Deliveries -> Row]
      /\ \A d \in Deliveries \ all : row'[d] = row[d]
      /\ \A d \in all : row'[d].status = "succeeded" => ok /\ d \in B
      /\ \A d \in B : ok => row'[d].status = "succeeded"
  <2>1. \A d \in all \ B : row'[d].status = "failed"
    BY <1>1, AfterMailGives
  <2> QED BY <1>1, <2>1, AfterMailGives
<1>4. Idle \in {Idle} \cup OnMail /\ Idle.at = "idle"
  BY DEF Idle
<1> HIDE DEF ok, all, B
<1>5. /\ worker' \in [Workers -> {Idle} \cup OnHook \cup OnMail]
      /\ worker'[w] = Idle /\ \A v \in Workers \ {w} : worker'[v] = worker[v]
      /\ AttemptsOK'
      /\ \A d \in Deliveries : \A v \in Workers :
           At(v, "answered") /\ worker[v].answer = "ok" /\ worker[v].of = d /\ Current(v)
             => InHand(d)'
  <2>1. \A d \in Hooks : row'[d] = row[d]
    BY <1>1, <1>3, KindsDiffer
  <2> QED BY <1>1, <1>3, <1>4, <2>1, HooksApart
<1>6. CoreOK'
  BY <1>1, <1>2, <1>3, <1>5 DEF CoreOK
<1>7. Mailing' = {}
  BY <1>2, <1>4, <1>5 DEF Mailing
<1>8. LockOK'
  BY <1>7 DEF LockOK
<1>9. Accounted'
  <2> SUFFICES ASSUME NEW d \in Deliveries, ~(accepted[d] <= lost[d])
               PROVE  accepted[d] <= 1 + lost[d] /\ (Status(d)' = "succeeded" \/ InHand(d)')
    BY <1>1 DEF Accounted
  <2>1. accepted[d] <= 1 + lost[d] /\ (Status(d) = "succeeded" \/ InHand(d))
    BY DEF Accounted
  <2>2. CASE Status(d) = "succeeded"
    <3>1. d \notin all
      BY <1>1, <2>2 DEF LockOK, all
    <3> QED BY <1>3, <2>1, <2>2, <3>1 DEF Status
  <2>3. CASE InHand(d)
    <3>1. PICK v \in Workers :
            \/ At(v, "answered") /\ worker[v].answer = "ok" /\ worker[v].of = d /\ Current(v)
            \/ At(v, "mailed") /\ worker[v].answer = "ok" /\ d \in worker[v].batch
      BY <2>3 DEF InHand
    <3>2. CASE At(v, "mailed") /\ worker[v].answer = "ok" /\ d \in worker[v].batch
      <4>1. ok /\ d \in B
        BY <1>2, <3>2 DEF ok, B, At, Mailing
      <4> QED BY <1>3, <2>1, <4>1 DEF Status
    <3> QED BY <1>5, <2>1, <3>1, <3>2
  <2> QED BY <2>1, <2>2, <2>3
<1>10. AnswersOK'
  <2>1. \A d \in Deliveries : Status(d)' = "succeeded" => accepted[d] > 0
    <3> SUFFICES ASSUME NEW d \in Deliveries, row'[d].status = "succeeded" PROVE accepted[d] > 0
      BY DEF Status
    <3>1. CASE d \in all
      BY <1>1, <1>3, <3>1 DEF AnswersOK, ok, B
    <3>2. CASE d \notin all
      BY <1>3, <3>2 DEF AnswersOK, Status
    <3> QED BY <3>1, <3>2
  <2> QED BY <1>1, <1>4, <1>5, <2>1 DEF AnswersOK, At
<1>11. SpacingOK'
  <2>1. CASE ok
    <3>1. PICK d \in B : TRUE
      BY <1>2
    <3>2. d \in started' /\ Status(d)' = "succeeded" /\ mailed' = 1
      BY <1>1, <1>2, <1>3, <2>1, <3>1 DEF Status
    <3> QED BY <3>2 DEF SpacingOK
  <2>2. CASE ~ok
    BY <1>1, <1>2, <2>2 DEF SpacingOK
  <2> QED BY <2>1, <2>2
<1> QED BY <1>5, <1>6, <1>8, <1>9, <1>10, <1>11

LEMMA MailStopsGood ==
  ASSUME Core, NEW w \in Workers, MailStops(w)
  PROVE  Core'
<1> USE DEF Core
<1> DEFINE B == worker[w].batch
           said == At(w, "mailed") /\ worker[w].answer = "ok"
<1>1. /\ w \in Mailing /\ ~Sending(w) /\ Go(w, Idle)
      /\ UNCHANGED <<instance, row, accepted, started, mailed>>
      /\ lost' = IF said THEN Plus(lost, B) ELSE lost
      /\ B \in SUBSET Deliveries
  <2>1. w \in Mailing
    BY DEF MailStops, Mailing
  <2> QED BY <2>1, OnMailTyped, KindsDiffer DEF MailStops
<1>2. /\ lost' \in [Deliveries -> Nat]
      /\ \A d \in Deliveries : lost'[d] = IF said /\ d \in B THEN lost[d] + 1 ELSE lost[d]
  BY <1>1, PlusGives DEF CoreOK
<1>3. Idle \in {Idle} \cup OnMail /\ Idle.at = "idle"
  BY DEF Idle
<1>4. /\ worker' \in [Workers -> {Idle} \cup OnHook \cup OnMail]
      /\ worker'[w] = Idle /\ \A v \in Workers \ {w} : worker'[v] = worker[v]
      /\ AttemptsOK'
      /\ \A d \in Deliveries : \A v \in Workers :
           At(v, "answered") /\ worker[v].answer = "ok" /\ worker[v].of = d /\ Current(v)
             => InHand(d)'
  BY <1>1, <1>3, HooksApart DEF CoreOK
<1>5. CoreOK'
  BY <1>1, <1>2, <1>4 DEF CoreOK
<1>6. \A v \in Mailing : v = w
  BY <1>1 DEF LockOK
<1>7. Mailing' = {}
  BY <1>3, <1>4, <1>6 DEF Mailing
<1>8. LockOK'
  BY <1>7 DEF LockOK
<1>9. \A d \in Deliveries : InHand(d) => InHand(d)' \/ (said /\ d \in B)
  BY <1>4, <1>6 DEF InHand, At, Mailing
<1> HIDE DEF B, said
<1>10. Accounted'
  <2>1. \A d \in Deliveries : accepted[d] \in Nat /\ lost[d] \in Nat
    BY DEF CoreOK
  <2> QED BY <1>1, <1>2, <1>9, <2>1 DEF Accounted, Status
<1>11. AnswersOK'
  BY <1>1, <1>3, <1>4 DEF AnswersOK, At, Status
<1>12. SpacingOK'
  BY <1>1 DEF SpacingOK, Status
<1> QED BY <1>4, <1>5, <1>8, <1>10, <1>11, <1>12

\* No digest is under way whose cooldown could end.
LEMMA CooldownEndsGood ==
  ASSUME Core, CooldownEnds
  PROVE  Core'
<1> USE DEF Core
<1>1. started' = {} /\ mailed' = 0 /\ UNCHANGED <<instance, row, worker, accepted, lost>>
  BY DEF CooldownEnds
<1>2. CoreOK' /\ SpacingOK'
  BY <1>1 DEF CoreOK, SpacingOK
<1>3. AttemptsOK'
  BY <1>1 DEF AttemptsOK, Sending
<1>4. LockOK'
  BY <1>1 DEF LockOK, Mailing, Status
<1>5. Accounted' /\ AnswersOK'
  BY <1>1 DEF Accounted, AnswersOK, InHand, Current, At, Status
<1> QED BY <1>2, <1>3, <1>4, <1>5

-----------------------------------------------------------------------------
(* The service.                                                            *)

LEMMA ServiceGood ==
  ASSUME Core, ServiceStep
  PROVE  Core'
<1> USE DEF Core
<1>1. ASSUME NEW e \in Events, RecordNotification(e) PROVE Core'
  BY <1>1, CoreStays DEF RecordNotification
<1>2. ASSUME NEW e \in Events, MaterializeEvent(e) PROVE Core'
  <2>1. PICK targets \in SUBSET {d \in instance.deliveries : d[1] = e} :
          row' = Set({d \in targets : Status(d) = "none"}, "pending")
    BY <1>2 DEF MaterializeEvent
  <2> DEFINE new == {d \in targets : Status(d) = "none"}
  <2>2. new \in SUBSET Deliveries /\ "pending" \in Statuses
    BY DEF Deliveries, CoreOK, Statuses
  <2>3. \A d \in new : Status(d) = "none" /\ d \notin Locked
    BY DEF Locked, LockOK
  <2> HIDE DEF new
  <2>4. /\ row' \in [Deliveries -> Row]
        /\ \A d \in new : row'[d].status = "pending" /\ row'[d].attempts = row[d].attempts
        /\ \A d \in Deliveries \ new : row'[d] = row[d]
    BY <2>1, <2>2, SetGives DEF new
  <2>5. Locked \subseteq Deliveries
    BY OnMailTyped, KindsDiffer DEF Locked
  <2>6. /\ UNCHANGED <<instance, worker, accepted, lost, mailed>> /\ started' \subseteq started
        /\ \A d \in started \ started' : row[d].status # "succeeded"
    BY <1>2 DEF MaterializeEvent
  <2>7. \A d \in Deliveries : /\ row'[d].attempts = row[d].attempts
                              /\ row'[d].status = "succeeded" <=> row[d].status = "succeeded"
                              /\ Live(d) => row'[d] = row[d]
    BY <2>3, <2>4 DEF Live, Status
  <2>8. \A d \in Locked : row'[d].status = row[d].status
    BY <2>3, <2>4, <2>5
  <2> QED BY <2>4, <2>6, <2>7, <2>8, KindsDiffer, RowsMove
<1>3. ASSUME NEW d \in Deliveries, d \notin Locked,
             NEW status \in Statuses, row' = Set({d}, status),
             ~Live(d), Status(d) # "succeeded", status # "succeeded",
             UNCHANGED <<instance, worker, accepted, lost, mailed>>,
             started' \in {started, started \ {d}}
      PROVE  Core'
  <2>1. /\ row' \in [Deliveries -> Row]
        /\ row'[d].status = status /\ row'[d].attempts = row[d].attempts
        /\ \A c \in Deliveries \ {d} : row'[c] = row[c]
    BY <1>3, SetGives
  <2>2. Locked \subseteq Deliveries
    BY OnMailTyped, KindsDiffer DEF Locked
  <2>3. /\ started' \subseteq started
        /\ \A c \in started \ started' : row[c].status # "succeeded"
    BY <1>3 DEF Status
  <2>4. \A c \in Deliveries : /\ row'[c].attempts = row[c].attempts
                              /\ row'[c].status = "succeeded" <=> row[c].status = "succeeded"
                              /\ Live(c) => row'[c] = row[c]
    BY <1>3, <2>1 DEF Status
  <2>5. \A c \in Locked : row'[c].status = row[c].status
    BY <1>3, <2>1, <2>2
  <2> QED BY <1>3, <2>1, <2>3, <2>4, <2>5, KindsDiffer, RowsMove
<1>4. ASSUME NEW d \in Deliveries, NEW failed \in BOOLEAN, Enqueue(d, failed) PROVE Core'
  <2>1. UNCHANGED <<instance, worker, accepted, lost, mailed, started>>
    BY <1>4 DEF Enqueue
  <2>2. CASE UNCHANGED row
    BY <2>1, <2>2, CoreStays
  <2>3. CASE Status(d) = "enqueue_failed" /\ d \notin Locked /\ row' = Set({d}, "pending")
    BY <1>3, <2>1, <2>3 DEF Live, Statuses
  <2> QED BY <1>4, <2>2, <2>3 DEF Enqueue
<1>5. ASSUME NEW d \in Deliveries, NEW failed \in BOOLEAN, EnqueueFails(d, failed) PROVE Core'
  <2>1. UNCHANGED <<instance, worker, accepted, lost, mailed, started>>
    BY <1>5 DEF EnqueueFails
  <2>2. CASE UNCHANGED row
    BY <2>1, <2>2, CoreStays
  <2>3. CASE /\ Status(d) \in {"pending", "enqueue_failed"} /\ d \notin Locked
             /\ row' = Set({d}, "enqueue_failed")
    BY <1>3, <2>1, <2>3 DEF Live, Statuses
  <2> QED BY <1>5, <2>2, <2>3 DEF EnqueueFails
<1>6. CASE ServiceStops
  BY <1>6, CoreStays DEF ServiceStops
<1>7. ASSUME NEW d \in Deliveries, Reconcile(d) PROVE Core'
  BY <1>3, <1>7 DEF Reconcile, Reconcilable, Live, Statuses
<1> QED BY <1>1, <1>2, <1>4, <1>5, <1>6, <1>7 DEF ServiceStep

-----------------------------------------------------------------------------

LEMMA InitCore == Init => Core
<1> SUFFICES ASSUME Init PROVE Core
  OBVIOUS
<1>1. CoreOK
  BY DEF Init, CoreOK, Row, Statuses
<1>2. Mailing = {} /\ \A w \in Workers : worker[w].at = "idle"
  BY DEF Init, Mailing, Idle
<1>3. AttemptsOK /\ LockOK
  BY <1>2 DEF AttemptsOK, Sending, LockOK
<1>4. Accounted /\ AnswersOK /\ SpacingOK
  BY <1>2 DEF Init, Accounted, AnswersOK, SpacingOK, At, Status
<1> QED BY <1>1, <1>3, <1>4 DEF Core

LEMMA StepCore ==
  ASSUME Core, [Next]_vars
  PROVE  Core'
<1>1. CASE ServiceStep
  BY <1>1, ServiceGood
<1>2. CASE HookStep
  BY <1>2, CheckGood, SendGood, RecordGood, HookStopsGood, LeaseExpiresGood, TakeHookGood
  DEF HookStep
<1>3. CASE MailStep
  BY <1>3, SendMailGood, CommitMailGood, MailStopsGood, TakeMailGood, CooldownEndsGood
  DEF MailStep
<1>4. CASE UNCHANGED vars
  BY <1>4, CoreStays DEF vars
<1> QED BY <1>1, <1>2, <1>3, <1>4 DEF Next

-----------------------------------------------------------------------------
(* The line of the mails.                                                  *)

LEMMA MinGives ==
  ASSUME NEW I \in SUBSET Nat, I # {}
  PROVE  Min(I) \in I
<1>1. PICK m \in I : \A n \in I : <<n, m>> \notin OpToRel(<, Nat)
  BY WFMin, NatLessThanWellFounded
<1>2. \A n \in I : n \in Nat /\ m \in Nat
  OBVIOUS
<1>3. \A n \in I : ~(n < m)
  BY <1>1, <1>2, Zenon DEF OpToRel
<1>4. \A n \in I : m <= n
  BY <1>2, <1>3
<1> QED BY <1>4 DEF Min

LEMMA FirstInLine ==
  ASSUME LineTyped, NEW D \in SUBSET ToSet(line), D # {}
  PROVE  FirstOf(D) \in Mails
<1> DEFINE I == {i \in 1..Len(line) : line[i] \in D}
<1>1. line \in Seq(Mails) /\ DOMAIN line = 1..Len(line)
  BY DEF LineTyped
<1>2. I \in SUBSET Nat /\ I # {}
  BY <1>1 DEF ToSet
<1>3. FirstOf(D) = line[Min(I)]
  BY <1>2 DEF FirstOf, SelectInSeq
<1>4. Min(I) \in I
  BY <1>2, MinGives
<1> QED BY <1>1, <1>3, <1>4, ElementOfSeq

\* Two lines with nobody in common, one behind the other.
LEMMA BehindGives ==
  ASSUME NEW M, NEW s \in Seq(M), NEW t \in Seq(M), IsInjective(s), IsInjective(t),
         ToSet(s) \cap ToSet(t) = {}
  PROVE  s \o t \in Seq(M) /\ IsInjective(s \o t) /\ ToSet(s \o t) = ToSet(s) \cup ToSet(t)
<1>1. /\ s \o t \in Seq(M) /\ Len(s \o t) = Len(s) + Len(t)
      /\ Len(s) \in Nat /\ Len(t) \in Nat
      /\ DOMAIN s = 1..Len(s) /\ DOMAIN t = 1..Len(t) /\ DOMAIN (s \o t) = 1..(Len(s) + Len(t))
      /\ \A i \in 1..(Len(s) + Len(t)) : (s \o t)[i] = IF i <= Len(s) THEN s[i] ELSE t[i - Len(s)]
  BY LenProperties, ConcatProperties
<1> DEFINE u == s \o t
<1> HIDE DEF u
<1>2. \A i \in 1..Len(s) : i \in DOMAIN u /\ u[i] = s[i]
  BY <1>1 DEF u
<1>3. \A i \in 1..Len(t) : Len(s) + i \in DOMAIN u /\ u[Len(s) + i] = t[i]
  BY <1>1 DEF u
<1>4. \A i \in DOMAIN u : \/ i \in 1..Len(s) /\ u[i] = s[i]
                          \/ i - Len(s) \in 1..Len(t) /\ u[i] = t[i - Len(s)]
  BY <1>1 DEF u
<1>5. ToSet(u) = ToSet(s) \cup ToSet(t)
  <2>1. ToSet(u) \subseteq ToSet(s) \cup ToSet(t)
    BY <1>1, <1>4 DEF ToSet
  <2>2. ToSet(s) \subseteq ToSet(u)
    BY <1>1, <1>2 DEF ToSet
  <2>3. ToSet(t) \subseteq ToSet(u)
    BY <1>1, <1>3 DEF ToSet
  <2> QED BY <2>1, <2>2, <2>3
<1>6. IsInjective(u)
  <2> SUFFICES ASSUME NEW a \in DOMAIN u, NEW b \in DOMAIN u, u[a] = u[b] PROVE a = b
    BY DEF IsInjective
  <2>1. \A i \in 1..Len(s), j \in 1..Len(t) : s[i] # t[j]
    BY <1>1 DEF ToSet
  <2>2. a \in Int /\ b \in Int
    BY <1>1 DEF u
  <2>3. CASE a \in 1..Len(s) /\ u[a] = s[a]
    <3>1. b \in 1..Len(s) /\ u[b] = s[b]
      BY <1>4, <2>1, <2>3
    <3> QED BY <1>1, <2>3, <3>1 DEF IsInjective
  <2>4. CASE a - Len(s) \in 1..Len(t) /\ u[a] = t[a - Len(s)]
    <3>1. b - Len(s) \in 1..Len(t) /\ u[b] = t[b - Len(s)]
      BY <1>4, <2>1, <2>4
    <3>2. a - Len(s) = b - Len(s)
      BY <1>1, <2>4, <3>1 DEF IsInjective
    <3> QED BY <1>1, <2>2, <3>2
  <2> QED BY <1>4, <2>3, <2>4
<1> QED BY <1>1, <1>5, <1>6 DEF u

\* A set in some order.
LEMMA SetToSeqGives ==
  ASSUME NEW S, IsFiniteSet(S)
  PROVE  SetToSeq(S) \in Seq(S) /\ IsInjective(SetToSeq(S)) /\ ToSet(SetToSeq(S)) = S
<1> DEFINE n == Cardinality(S)
           f == SetToSeq(S)
<1>1. n \in Nat /\ ExistsBijection(1..n, S)
  BY FS_CardinalityType
<1>2. \E g \in [1..n -> S] : IsInjective(g)
  BY <1>1 DEF ExistsBijection, Bijection, Injection, Surjection, IsInjective
<1>3. f \in [1..n -> S] /\ IsInjective(f)
  BY <1>2 DEF SetToSeq
<1> HIDE DEF f
<1>4. f \in Seq(S) /\ DOMAIN f = 1..n
  BY <1>1, <1>3
<1>5. f \in Injection(1..n, S)
  BY <1>3, <1>4 DEF Injection, IsInjective
<1>6. Cardinality(1..n) = Cardinality(S)
  BY <1>1, FS_Interval
<1>7. f \in Surjection(1..n, S)
  BY <1>5, <1>6, FS_Injection
<1>8. ToSet(f) = S
  BY <1>3, <1>4, <1>7 DEF ToSet, Surjection
<1> QED BY <1>3, <1>4, <1>8 DEF f

\* Who leaves the line is missing in it.
LEMMA RemoveFirstGives ==
  ASSUME NEW M, NEW s \in Seq(M), IsInjective(s), NEW d \in ToSet(s)
  PROVE  /\ RemoveFirst(s, d) \in Seq(M) /\ IsInjective(RemoveFirst(s, d))
         /\ ToSet(RemoveFirst(s, d)) = ToSet(s) \ {d}
<1> DEFINE I == {i \in 1..Len(s) : s[i] = d}
           k == Min(I)
           n == Len(s)
           u == SubSeq(s, 1, k - 1) \o SubSeq(s, k + 1, n)
<1>1. n \in Nat /\ DOMAIN s = 1..n /\ \A i \in 1..n : s[i] \in M
  BY LenProperties
<1>2. I \in SUBSET Nat /\ I # {}
  BY <1>1 DEF ToSet
<1>3. k \in 1..n /\ s[k] = d
  BY <1>2, MinGives
<1>4. RemoveFirst(s, d) = u
  BY <1>2 DEF RemoveFirst, RemoveAt, SelectInSeq
<1> HIDE DEF k, n
<1>5. /\ SubSeq(s, 1, k - 1) \in Seq(M) /\ Len(SubSeq(s, 1, k - 1)) = k - 1
      /\ \A i \in 1..(k - 1) : SubSeq(s, 1, k - 1)[i] = s[i]
  <2>1. \A i \in 1..(k - 1) : s[i] \in M
    BY <1>1, <1>3
  <2>2. 1 \in Int /\ k - 1 \in Int
    BY <1>1, <1>3
  <2>3. /\ SubSeq(s, 1, k - 1) \in Seq(M)
        /\ Len(SubSeq(s, 1, k - 1)) = IF 1 <= k - 1 THEN (k - 1) - 1 + 1 ELSE 0
        /\ \A i \in 1..((k - 1) - 1 + 1) : SubSeq(s, 1, k - 1)[i] = s[1 + i - 1]
    BY <2>1, <2>2, SubSeqProperties
  <2> QED BY <1>1, <1>3, <2>3
<1>6. /\ SubSeq(s, k + 1, n) \in Seq(M) /\ Len(SubSeq(s, k + 1, n)) = n - k
      /\ \A i \in 1..(n - k) : SubSeq(s, k + 1, n)[i] = s[k + i]
  <2>1. \A i \in (k + 1)..n : s[i] \in M
    BY <1>1, <1>3
  <2>2. k + 1 \in Int /\ n \in Int
    BY <1>1, <1>3
  <2>3. /\ SubSeq(s, k + 1, n) \in Seq(M)
        /\ Len(SubSeq(s, k + 1, n)) = IF k + 1 <= n THEN n - (k + 1) + 1 ELSE 0
        /\ \A i \in 1..(n - (k + 1) + 1) : SubSeq(s, k + 1, n)[i] = s[k + 1 + i - 1]
    BY <2>1, <2>2, SubSeqProperties
  <2> QED BY <1>1, <1>3, <2>3
<1>7. /\ u \in Seq(M) /\ Len(u) = n - 1
      /\ \A i \in 1..(n - 1) : u[i] = IF i < k THEN s[i] ELSE s[i + 1]
  <2>1. /\ u \in Seq(M) /\ Len(u) = (k - 1) + (n - k)
        /\ \A i \in 1..((k - 1) + (n - k)) :
             u[i] = IF i <= k - 1 THEN SubSeq(s, 1, k - 1)[i] ELSE SubSeq(s, k + 1, n)[i - (k - 1)]
    <3> DEFINE a == SubSeq(s, 1, k - 1)
               b == SubSeq(s, k + 1, n)
    <3>1. a \in Seq(M) /\ b \in Seq(M) /\ Len(a) = k - 1 /\ Len(b) = n - k /\ u = a \o b
      BY <1>5, <1>6 DEF u
    <3> HIDE DEF a, b, u
    <3>2. /\ a \o b \in Seq(M) /\ Len(a \o b) = Len(a) + Len(b)
          /\ \A i \in 1..(Len(a) + Len(b)) :
               (a \o b)[i] = IF i <= Len(a) THEN a[i] ELSE b[i - Len(a)]
      BY <3>1, ConcatProperties
    <3> QED BY <3>1, <3>2 DEF a, b
  <2> QED BY <1>1, <1>3, <1>5, <1>6, <2>1
<1> HIDE DEF u
<1>8. DOMAIN u = 1..(n - 1)
  BY <1>7, LenProperties
<1>9. \A i, j \in 1..n : s[i] = s[j] => i = j
  BY <1>1 DEF IsInjective
<1>10. IsInjective(u)
  <2> SUFFICES ASSUME NEW i \in 1..(n - 1), NEW j \in 1..(n - 1), u[i] = u[j] PROVE i = j
    BY <1>8 DEF IsInjective
  <2>1. (IF i < k THEN i ELSE i + 1) \in 1..n /\ (IF j < k THEN j ELSE j + 1) \in 1..n
    BY <1>1, <1>3
  <2>2. u[i] = s[IF i < k THEN i ELSE i + 1] /\ u[j] = s[IF j < k THEN j ELSE j + 1]
    BY <1>7
  <2>3. (IF i < k THEN i ELSE i + 1) = (IF j < k THEN j ELSE j + 1)
    BY <1>9, <2>1, <2>2
  <2> QED BY <1>1, <1>3, <2>3
<1>11. ToSet(u) = ToSet(s) \ {d}
  <2>1. ASSUME NEW i \in 1..(n - 1) PROVE u[i] \in ToSet(s) \ {d}
    <3>1. (IF i < k THEN i ELSE i + 1) \in 1..n /\ (IF i < k THEN i ELSE i + 1) # k
      BY <1>1, <1>3
    <3>2. u[i] = s[IF i < k THEN i ELSE i + 1]
      BY <1>7
    <3> QED BY <1>1, <1>3, <1>9, <3>1, <3>2 DEF ToSet
  <2>2. ASSUME NEW i \in 1..n, s[i] # d PROVE s[i] \in ToSet(u)
    <3>1. CASE i < k
      BY <1>1, <1>3, <1>7, <1>8, <3>1 DEF ToSet
    <3>2. CASE i > k
      <4>1. i - 1 \in 1..(n - 1) /\ u[i - 1] = s[i]
        BY <1>1, <1>3, <1>7, <3>2
      <4> QED BY <1>8, <4>1 DEF ToSet
    <3> QED BY <1>1, <1>3, <2>2, <3>1, <3>2
  <2> QED BY <1>1, <1>8, <2>1, <2>2 DEF ToSet
<1> QED BY <1>4, <1>7, <1>10, <1>11

\* A mail that is in the line goes to its end.
LEMMA ToTheEndGives ==
  ASSUME LineTyped, NEW d \in Deliveries, d \in Mails => d \in ToSet(line)
  PROVE  /\ ToTheEnd(d) \in Seq(Mails) /\ IsInjective(ToTheEnd(d))
         /\ ToSet(ToTheEnd(d)) = ToSet(line)
<1>1. CASE d \notin Mails
  BY <1>1 DEF ToTheEnd, LineTyped
<1>2. CASE d \in Mails
  <2> DEFINE u == RemoveFirst(line, d)
             t == <<d>>
  <2>1. u \in Seq(Mails) /\ IsInjective(u) /\ ToSet(u) = ToSet(line) \ {d}
    BY <1>2, RemoveFirstGives DEF LineTyped
  <2> HIDE DEF u
  <2>2. t \in Seq(Mails) /\ IsInjective(t) /\ ToSet(t) = {d} /\ ToSet(u) \cap ToSet(t) = {}
    BY <1>2, <2>1 DEF IsInjective, ToSet
  <2>3. ToTheEnd(d) = u \o t
    BY <1>2, <2>1, AppendIsConcat DEF ToTheEnd, u
  <2> HIDE DEF t
  <2>4. /\ u \o t \in Seq(Mails) /\ IsInjective(u \o t)
        /\ ToSet(u \o t) = ToSet(u) \cup ToSet(t)
    BY <2>1, <2>2, BehindGives
  <2> QED BY <1>2, <2>1, <2>2, <2>3, <2>4
<1> QED BY <1>1, <1>2

LEMMA LineStays ==
  ASSUME LineTyped, LineOK, UNCHANGED line, lastLed' \subseteq Mails,
         \A d \in Mails : row'[d].status = "none" <=> row[d].status = "none"
  PROVE  LineTyped' /\ LineOK'
BY DEF LineTyped, LineOK, Status

\* The service: new mails join the line, and one that is queued again goes to its end.
LEMMA ServiceLine ==
  ASSUME Core, LineTyped, LineOK, ServiceStep
  PROVE  LineTyped' /\ LineOK'
<1> USE DEF Core
<1>1. ASSUME NEW e \in Events, RecordNotification(e) PROVE LineTyped' /\ LineOK'
  BY <1>1, LineStays DEF RecordNotification, LineTyped
<1>2. ASSUME NEW e \in Events, MaterializeEvent(e) PROVE LineTyped' /\ LineOK'
  <2>1. PICK targets \in SUBSET {d \in instance.deliveries : d[1] = e} :
          /\ row' = Set({d \in targets : Status(d) = "none"}, "pending")
          /\ line' = line \o SetToSeq({d \in targets : Status(d) = "none"} \cap Mails)
    BY <1>2 DEF MaterializeEvent
  <2> DEFINE new == {d \in targets : Status(d) = "none"}
             tail == SetToSeq(new \cap Mails)
  <2>2. new \in SUBSET Deliveries /\ "pending" \in Statuses
    BY DEF Deliveries, CoreOK, Statuses
  <2>3. IsFiniteSet(new \cap Mails)
    <3>1. IsFiniteSet({"mail", "hook"})
      <4>1. IsFiniteSet({"mail"}) /\ IsFiniteSet({"hook"})
        BY FS_Singleton
      <4>2. {"mail", "hook"} = {"mail"} \cup {"hook"}
        OBVIOUS
      <4>3. IsFiniteSet({"mail"} \cup {"hook"})
        BY <4>1, FS_Union, Zenon
      <4> QED BY <4>2, <4>3, Zenon
    <3>2. IsFiniteSet(Events \X {"mail", "hook"})
      BY <3>1, FS_Product, NotificationAssumption
    <3>3. new \cap Mails \subseteq Events \X {"mail", "hook"}
      BY NotificationAssumption DEF CoreOK
    <3> QED BY <3>2, <3>3, FS_Subset
  <2>4. \A d \in new : Status(d) = "none"
    OBVIOUS
  <2>5. line' = line \o tail /\ row' = Set(new, "pending")
    BY <2>1
  <2> HIDE DEF new
  <2>6. tail \in Seq(new \cap Mails) /\ IsInjective(tail) /\ ToSet(tail) = new \cap Mails
    BY <2>3, SetToSeqGives
  <2> HIDE DEF tail
  <2>7. tail \in Seq(Mails)
    <3>1. new \cap Mails \subseteq Mails
      OBVIOUS
    <3> QED BY <2>6, <3>1
  <2>8. ToSet(line) \cap ToSet(tail) = {}
    BY <2>4, <2>6 DEF LineOK
  <2>9. line' \in Seq(Mails) /\ IsInjective(line') /\ ToSet(line') = ToSet(line) \cup ToSet(tail)
    BY <2>5, <2>6, <2>7, <2>8, BehindGives DEF LineTyped
  <2>10. /\ \A d \in new : row'[d].status = "pending"
         /\ \A d \in Deliveries \ new : row'[d] = row[d]
    BY <2>2, <2>5, SetGives
  <2>11. \A d \in Mails : row'[d].status # "none" <=> (row[d].status # "none" \/ d \in new)
    BY <2>10, KindsDiffer
  <2>12. LineOK'
    BY <2>6, <2>9, <2>11 DEF LineOK, Status
  <2> QED BY <1>2, <2>9, <2>12 DEF MaterializeEvent, LineTyped
<1>3. ASSUME NEW d \in Deliveries, NEW status \in Statuses, row' = Set({d}, status),
             Status(d) # "none", status # "none", line' \in {line, ToTheEnd(d)}, UNCHANGED lastLed
      PROVE  LineTyped' /\ LineOK'
  <2>1. row'[d].status = status /\ \A c \in Deliveries \ {d} : row'[c] = row[c]
    BY <1>3, SetGives
  <2>2. \A c \in Mails : row'[c].status = "none" <=> row[c].status = "none"
    BY <1>3, <2>1, KindsDiffer DEF Status
  <2>3. d \in Mails => d \in ToSet(line)
    BY <1>3 DEF LineOK
  <2>4. line' \in Seq(Mails) /\ IsInjective(line') /\ ToSet(line') = ToSet(line)
    BY <1>3, <2>3, ToTheEndGives DEF LineTyped
  <2> QED BY <1>3, <2>2, <2>4 DEF LineTyped, LineOK, Status
<1>4. ASSUME NEW d \in Deliveries, NEW failed \in BOOLEAN, Enqueue(d, failed)
      PROVE  LineTyped' /\ LineOK'
  <2>1. CASE UNCHANGED <<row, line>>
    BY <1>4, <2>1, LineStays DEF Enqueue, LineTyped
  <2>2. CASE Status(d) = "enqueue_failed" /\ row' = Set({d}, "pending") /\ line' = ToTheEnd(d)
    BY <1>3, <1>4, <2>2 DEF Enqueue, Statuses
  <2> QED BY <1>4, <2>1, <2>2 DEF Enqueue
<1>5. ASSUME NEW d \in Deliveries, NEW failed \in BOOLEAN, EnqueueFails(d, failed)
      PROVE  LineTyped' /\ LineOK'
  <2>1. CASE UNCHANGED <<row, line>>
    BY <1>5, <2>1, LineStays DEF EnqueueFails, LineTyped
  <2>2. CASE /\ Status(d) \in {"pending", "enqueue_failed"} /\ row' = Set({d}, "enqueue_failed")
             /\ line' = ToTheEnd(d)
    BY <1>3, <1>5, <2>2 DEF EnqueueFails, Statuses
  <2> QED BY <1>5, <2>1, <2>2 DEF EnqueueFails
<1>6. CASE ServiceStops
  BY <1>6, LineStays DEF ServiceStops, LineTyped
<1>7. ASSUME NEW d \in Deliveries, Reconcile(d) PROVE LineTyped' /\ LineOK'
  BY <1>3, <1>7 DEF Reconcile, Reconcilable, Statuses
<1> QED BY <1>1, <1>2, <1>4, <1>5, <1>6, <1>7 DEF ServiceStep

\* The webhooks: no row of a mail is touched.
LEMMA HookLine ==
  ASSUME Core, LineTyped, LineOK, HookStep
  PROVE  LineTyped' /\ LineOK'
<1> USE DEF Core
<1>1. UNCHANGED <<line, lastLed>>
  BY DEF HookStep, Check, Send, Record, HookStops, LeaseExpires, TakeHook
<1>2. ASSUME NEW w \in Workers, Sending(w), NEW status \in Statuses, Settle(w, status),
             NEW d \in Mails
      PROVE  row'[d] = row[d]
  BY <1>2, SettleGives, OnHookTyped, KindsDiffer
<1>3. ASSUME NEW w \in Workers, Check(w), NEW d \in Mails PROVE row'[d] = row[d]
  <2>1. Sending(w) /\ "failed" \in Statuses
    BY <1>3 DEF Check, At, Sending, Statuses
  <2> QED BY <1>2, <1>3, <2>1 DEF Check
<1>4. ASSUME NEW w \in Workers, Record(w), NEW d \in Mails PROVE row'[d] = row[d]
  <2>1. Sending(w) /\ {"succeeded", "failed", "retry_pending"} \subseteq Statuses
    BY <1>4 DEF Record, At, Sending, Statuses
  <2>2. worker[w].answer \in Answers
    BY <1>4, <2>1, OnHookTyped DEF Record, At
  <2>3. PICK status \in {"succeeded", "failed", "retry_pending"} : Settle(w, status)
    BY <1>4, <2>2 DEF Record, Answers
  <2> QED BY <1>2, <2>1, <2>3
<1>5. ASSUME NEW d \in Mails PROVE row'[d] = row[d]
  <2>1. ASSUME NEW h \in Hooks, LeaseExpires(h) \/ \E w \in Workers : TakeHook(w, h)
        PROVE  row'[d] = row[d]
    BY <2>1, KindsDiffer DEF LeaseExpires, TakeHook, CoreOK
  <2> QED BY <1>3, <1>4, <2>1 DEF HookStep, Send, HookStops
<1> QED BY <1>1, <1>5, LineStays DEF LineTyped

\* The digests: a mail that is in the line has a status, and keeps one.
LEMMA MailLine ==
  ASSUME Core, LineTyped, LineOK, MailStep
  PROVE  LineTyped' /\ LineOK'
<1> USE DEF Core
<1>1. ASSUME NEW w \in Workers, SendMail(w) \/ MailStops(w) PROVE LineTyped' /\ LineOK'
  BY <1>1, LineStays DEF SendMail, MailStops, LineTyped
<1>2. CASE CooldownEnds
  BY <1>2, LineStays DEF CooldownEnds, LineTyped
<1>3. ASSUME NEW w \in Workers, NEW task \in Mails \cup {Digest}, TakeMail(w, task)
      PROVE  LineTyped' /\ LineOK'
  <2>1. UNCHANGED <<line, lastLed>>
    BY <1>3 DEF TakeMail, PrepareDigest
  <2>2. CASE UNCHANGED row
    BY <2>1, <2>2, LineStays DEF LineTyped
  <2>3. ASSUME NEW bad \in SUBSET Batch, row' = Set(bad, "failed") PROVE LineTyped' /\ LineOK'
    <3>1. bad \in SUBSET Deliveries /\ "failed" \in Statuses
          /\ \A d \in bad : row[d].status # "none"
      BY KindsDiffer DEF Batch, Waiting, Statuses, Status
    <3>2. /\ \A d \in bad : row'[d].status = "failed"
          /\ \A d \in Deliveries \ bad : row'[d] = row[d]
      BY <2>3, <3>1, SetGives
    <3>3. \A d \in Mails : row'[d].status = "none" <=> row[d].status = "none"
      BY <3>1, <3>2, KindsDiffer
    <3> QED BY <2>1, <3>3, LineStays DEF LineTyped
  <2> QED BY <1>3, <2>2, <2>3 DEF TakeMail, PrepareDigest
<1>4. ASSUME NEW w \in Workers, CommitMail(w) PROVE LineTyped' /\ LineOK'
  <2> DEFINE B == worker[w].batch
             all == worker[w].batch \cup worker[w].bad
  <2>1. /\ At(w, "mailed") /\ w \in Mailing /\ row' = AfterMail(w) /\ UNCHANGED line
        /\ lastLed' \in {lastLed, {FirstOf(B)}}
        /\ B \subseteq Mails /\ all \subseteq Deliveries
    BY <1>4, OnMailTyped, KindsDiffer DEF CommitMail, At, Mailing
  <2>2. B # {} /\ \A d \in all : row[d].status # "none"
    BY <2>1 DEF LockOK, Status
  <2>3. B \in SUBSET ToSet(line)
    BY <2>1, <2>2 DEF LineOK, Status
  <2>4. lastLed' \subseteq Mails
    BY <2>1, <2>2, <2>3, FirstInLine DEF LineTyped
  <2>5. \A d \in all : row'[d].status # "none"
    <3>1. \A d \in worker[w].batch : AfterMail(w)[d].status # "none"
      BY <2>1, AfterMailGives
    <3>2. \A d \in worker[w].bad : AfterMail(w)[d].status # "none"
      BY <2>1, AfterMailGives
    <3> QED BY <2>1, <3>1, <3>2
  <2>6. \A d \in Deliveries \ all : row'[d] = row[d]
    BY <2>1, AfterMailGives
  <2>7. \A d \in Mails : row'[d].status = "none" <=> row[d].status = "none"
    BY <2>2, <2>5, <2>6, KindsDiffer
  <2> QED BY <2>1, <2>4, <2>7, LineStays
<1> QED BY <1>1, <1>2, <1>3, <1>4 DEF MailStep

LEMMA StepLine ==
  ASSUME Core, LineTyped, LineOK, [Next]_vars
  PROVE  LineTyped' /\ LineOK'
<1>1. CASE UNCHANGED vars
  BY <1>1, LineStays DEF vars, LineTyped
<1> QED BY <1>1, ServiceLine, HookLine, MailLine DEF Next

-----------------------------------------------------------------------------
(* The queue, and what is bounded.                                         *)

LEMMA FaultGives ==
  ASSUME CoreOK, RestOK, Fault \/ UNCHANGED faults
  PROVE  faults' \in 0..instance.faults
<1>1. instance.faults \in Nat
  BY NotificationAssumption DEF CoreOK
<1> QED BY <1>1 DEF RestOK, Fault

LEMMA RestMoves ==
  ASSUME CoreOK, RestOK, UNCHANGED <<instance, event>>,
         Fault \/ UNCHANGED faults, later' \in BOOLEAN,
         toQueue' \subseteq Deliveries \X BOOLEAN, queue' \subseteq Deliveries \cup {Digest}
  PROVE  RestOK'
BY FaultGives DEF RestOK

LEMMA ServiceRest ==
  ASSUME Core, RestOK, ServiceStep
  PROVE  RestOK'
<1> USE DEF Core
<1>1. ASSUME NEW e \in Events, RecordNotification(e) PROVE RestOK'
  BY <1>1 DEF RecordNotification, RestOK
<1>2. ASSUME NEW e \in Events, MaterializeEvent(e) PROVE RestOK'
  <2>1. instance.deliveries \subseteq Deliveries
    BY DEF Deliveries, CoreOK
  <2>2. PICK D \in SUBSET Deliveries :
          toQueue' = toQueue \cup {<<d, Status(d) = "enqueue_failed">> : d \in D}
    <3>1. PICK targets \in SUBSET {d \in instance.deliveries : d[1] = e} :
            toQueue' = toQueue
               \cup {<<d, Status(d) = "enqueue_failed">> : d \in
                      {x \in targets : Status(x) \in {"none", "pending", "enqueue_failed"}}}
      BY <1>2 DEF MaterializeEvent
    <3> DEFINE D == {x \in targets : Status(x) \in {"none", "pending", "enqueue_failed"}}
    <3>2. D \in SUBSET Deliveries
      BY <2>1
    <3>3. toQueue' = toQueue \cup {<<d, Status(d) = "enqueue_failed">> : d \in D}
      BY <3>1
    <3> QED BY <3>2, <3>3
  <2>3. \A d \in D : <<d, Status(d) = "enqueue_failed">> \in Deliveries \X BOOLEAN
    OBVIOUS
  <2>4. toQueue' \subseteq Deliveries \X BOOLEAN
    BY <2>2, <2>3 DEF RestOK
  <2> QED BY <1>2, <2>4 DEF MaterializeEvent, RestOK
<1>3. ASSUME NEW d \in Deliveries, NEW failed \in BOOLEAN,
             Enqueue(d, failed) \/ EnqueueFails(d, failed)
      PROVE  RestOK'
  <2>1. /\ UNCHANGED <<instance, event, later>> /\ (Fault \/ UNCHANGED faults)
        /\ toQueue' \subseteq toQueue /\ queue' \in {queue, queue \cup {d}}
    BY <1>3 DEF Enqueue, EnqueueFails
  <2> QED BY <2>1, RestMoves DEF RestOK
<1>4. CASE ServiceStops
  BY <1>4, RestMoves DEF ServiceStops, RestOK
<1>5. ASSUME NEW d \in Deliveries, Reconcile(d) PROVE RestOK'
  <2>1. toQueue' = toQueue \cup {<<d, FALSE>>} /\ <<d, FALSE>> \in Deliveries \X BOOLEAN
    BY <1>5 DEF Reconcile
  <2>2. toQueue' \subseteq Deliveries \X BOOLEAN
    BY <2>1 DEF RestOK
  <2> QED BY <1>5, <2>2, RestMoves DEF Reconcile, RestOK
<1> QED BY <1>1, <1>2, <1>3, <1>4, <1>5 DEF ServiceStep

LEMMA DeliversGives ==
  ASSUME NEW D, NEW answer, NEW late, Delivers(D, answer, late)
  PROVE  Fault \/ UNCHANGED faults
BY DEF Delivers

LEMMA HookRest ==
  ASSUME Core, RestOK, HookStep
  PROVE  RestOK'
<1> USE DEF Core
<1>1. UNCHANGED <<instance, event, later, toQueue>>
  BY DEF HookStep, Check, Send, Record, HookStops, LeaseExpires, TakeHook
<1>2. ASSUME NEW w \in Workers, Check(w) PROVE RestOK'
  BY <1>1, <1>2, RestMoves DEF Check, RestOK
<1>3. ASSUME NEW w \in Workers, Send(w) PROVE RestOK'
  BY <1>1, <1>3, DeliversGives, RestMoves DEF Send, RestOK
<1>4. ASSUME NEW w \in Workers, Record(w) PROVE RestOK'
  <2>1. Sending(w)
    BY <1>4 DEF Record, At, Sending
  <2>2. worker[w].of \in Deliveries /\ worker[w].answer \in Answers
    BY <1>4, <2>1, OnHookTyped, KindsDiffer DEF Record, At
  <2>3. UNCHANGED faults /\ queue' \in {queue, queue \cup {worker[w].of}}
    BY <1>4, <2>2 DEF Record, Answers
  <2> QED BY <1>1, <2>2, <2>3, RestMoves DEF RestOK
<1>5. ASSUME NEW w \in Workers, HookStops(w) PROVE RestOK'
  <2>1. Sending(w)
    BY <1>5 DEF HookStops, Sending
  <2>2. worker[w].of \in Deliveries
    BY <2>1, OnHookTyped, KindsDiffer
  <2>3. Fault /\ queue' \in {queue, queue \cup {worker[w].of}}
    BY <1>5 DEF HookStops
  <2> QED BY <1>1, <2>2, <2>3, RestMoves DEF RestOK
<1>6. ASSUME NEW d \in Hooks, LeaseExpires(d) PROVE RestOK'
  <2>1. Fault \/ UNCHANGED faults
    BY <1>6 DEF LeaseExpires
  <2> QED BY <1>1, <1>6, <2>1, RestMoves DEF LeaseExpires, RestOK
<1>7. ASSUME NEW d \in Hooks, NEW w \in Workers, TakeHook(w, d) PROVE RestOK'
  <2>1. UNCHANGED faults /\ queue' \subseteq queue
    BY <1>7 DEF TakeHook
  <2> QED BY <1>1, <2>1, RestMoves DEF RestOK
<1> QED BY <1>2, <1>3, <1>4, <1>5, <1>6, <1>7 DEF HookStep

LEMMA ScheduleGives ==
  ASSUME RestOK, NEW task \in Mails \cup {Digest}, NEW rest,
         ScheduleNow(task, rest) \/ ScheduleLater(task, rest)
  PROVE  /\ Fault \/ UNCHANGED faults
         /\ later' \in BOOLEAN /\ queue' \subseteq Deliveries \cup {Digest}
<1>1. task \in Deliveries \cup {Digest}
  BY KindsDiffer
<1>2. CASE ScheduleNow(task, rest)
  BY <1>1, <1>2 DEF ScheduleNow, RestOK
<1>3. CASE ScheduleLater(task, rest)
  BY <1>1, <1>3 DEF ScheduleLater, RestOK
<1> QED BY <1>2, <1>3

LEMMA MailRest ==
  ASSUME Core, RestOK, MailStep
  PROVE  RestOK'
<1> USE DEF Core
<1>1. ASSUME NEW w \in Workers, SendMail(w) PROVE RestOK'
  BY <1>1, DeliversGives, RestMoves DEF SendMail, RestOK
<1>2. ASSUME NEW w \in Workers, w \in Mailing PROVE worker[w].task \in Mails \cup {Digest}
  BY <1>2, OnMailTyped
<1>3. ASSUME NEW w \in Workers, CommitMail(w) PROVE RestOK'
  <2>1. worker[w].task \in Mails \cup {Digest} /\ worker[w].task \in Deliveries \cup {Digest}
    BY <1>2, <1>3, KindsDiffer DEF CommitMail, At, Mailing
  <2>2. UNCHANGED <<instance, event, toQueue>>
    BY <1>3 DEF CommitMail
  <2>3. \/ queue' \in {queue, queue \cup {worker[w].task}} /\ UNCHANGED <<later, faults>>
        \/ ScheduleLater(worker[w].task, Waiting \ (worker[w].batch \cup worker[w].bad))
    BY <1>3 DEF CommitMail
  <2>4. CASE queue' \in {queue, queue \cup {worker[w].task}} /\ UNCHANGED <<later, faults>>
    BY <2>1, <2>2, <2>4, RestMoves DEF RestOK
  <2>5. CASE ScheduleLater(worker[w].task, Waiting \ (worker[w].batch \cup worker[w].bad))
    BY <2>1, <2>2, <2>5, ScheduleGives, RestMoves DEF RestOK
  <2> QED BY <2>3, <2>4, <2>5
<1>4. ASSUME NEW w \in Workers, MailStops(w) PROVE RestOK'
  <2>1. worker[w].task \in Deliveries \cup {Digest}
    BY <1>2, <1>4, KindsDiffer DEF MailStops, Mailing
  <2>2. Fault /\ queue' \in {queue, queue \cup {worker[w].task}}
    BY <1>4 DEF MailStops
  <2> QED BY <1>4, <2>1, <2>2, RestMoves DEF MailStops, RestOK
<1>5. ASSUME NEW w \in Workers, NEW task \in Mails \cup {Digest}, TakeMail(w, task) PROVE RestOK'
  <2>1. UNCHANGED <<instance, event, toQueue>>
    BY <1>5 DEF TakeMail, PrepareDigest
  <2>2. \/ queue' = queue \ {task} /\ UNCHANGED <<later, faults>>
        \/ \E rest : ScheduleNow(task, rest) \/ ScheduleLater(task, rest)
    BY <1>5 DEF TakeMail, PrepareDigest
  <2>3. CASE queue' = queue \ {task} /\ UNCHANGED <<later, faults>>
    BY <2>1, <2>3, RestMoves DEF RestOK
  <2>4. ASSUME NEW rest, ScheduleNow(task, rest) \/ ScheduleLater(task, rest) PROVE RestOK'
    BY <2>1, <2>4, ScheduleGives, RestMoves DEF RestOK
  <2> QED BY <2>2, <2>3, <2>4
<1>6. CASE CooldownEnds
  BY <1>6, RestMoves DEF CooldownEnds, RestOK
<1> QED BY <1>1, <1>3, <1>4, <1>5, <1>6 DEF MailStep

LEMMA StepRest ==
  ASSUME Core, RestOK, [Next]_vars
  PROVE  RestOK'
<1>1. CASE UNCHANGED vars
  BY <1>1 DEF vars, RestOK
<1> QED BY <1>1, ServiceRest, HookRest, MailRest DEF Next

-----------------------------------------------------------------------------
(* The theorems.                                                           *)

LEMMA InitInv == Init => Inv
<1> SUFFICES ASSUME Init PROVE Inv
  OBVIOUS
<1>1. instance.faults \in Nat
  BY NotificationAssumption DEF Init
<1>2. RestOK
  <2>1. faults \in 0..instance.faults
    BY <1>1 DEF Init
  <2> QED BY <2>1 DEF Init, RestOK
<1>3. LineTyped /\ LineOK
  <2>1. line = <<>> /\ lastLed = {} /\ \A d \in Mails : row[d].status = "none"
    BY KindsDiffer DEF Init
  <2>2. line \in Seq(Mails) /\ IsInjective(line)
    BY <2>1 DEF IsInjective
  <2>3. ToSet(line) = {}
    BY <2>1 DEF ToSet
  <2> QED BY <2>1, <2>2, <2>3 DEF LineTyped, LineOK, Status
<1> QED BY <1>2, <1>3, InitCore DEF Inv

\* Inv is inductive, so it holds in every reachable state.
THEOREM Invariance == Spec => []Inv
<1>1. Inv /\ [Next]_vars => Inv'
  BY StepCore, StepLine, StepRest DEF Inv
<1> QED BY InitInv, <1>1, PTL DEF Spec

\* Rows, tasks, workers and the line of the mails stay well formed: an operation of the
\* worker never looks for a first mail that does not exist.
THEOREM TypeCorrect == Spec => []TypeOK
<1>1. Inv => TypeOK
  BY Typed DEF Inv, Core
<1> QED BY Invariance, <1>1, PTL

\* A receiver gets one message per delivery, and one more at most for each that could not
\* be stored; and what counts as delivered was accepted.
THEOREM OneMessage == Spec => []OneMessageUnlessLost
<1>1. Inv => OneMessageUnlessLost
  BY DEF Inv, Core, CoreOK, Accounted, AnswersOK, OneMessageUnlessLost
<1> QED BY Invariance, <1>1, PTL

\* One digest is sent and stored per cooldown.
THEOREM Spaced == Spec => []MailsAreSpaced
<1>1. Inv => MailsAreSpaced
  BY DEF Inv, Core, SpacingOK, MailsAreSpaced
<1> QED BY Invariance, <1>1, PTL
=============================================================================
