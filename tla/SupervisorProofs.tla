-------------------------- MODULE SupervisorProofs --------------------------
(***************************************************************************)
(* Theorems about the supervisor, for any number of slots and attempts and *)
(* any settings.                                                           *)
(***************************************************************************)
EXTENDS Supervisor, FiniteSetTheorems, SequenceTheorems, TLAPS

(***************************************************************************)
(* Arithmetic of the backoff.                                              *)
(***************************************************************************)

\* Integer division by 100 is monotonic.
LEMMA DivMonotonic ==
  ASSUME NEW x \in Nat, NEW y \in Nat, x <= y
  PROVE  x \div 100 \in Nat /\ x \div 100 <= y \div 100
OBVIOUS

\* A product with the least percentage is least.
LEMMA ScaledMonotonic ==
  ASSUME NEW a \in Nat, NEW b \in Nat, a <= b, NEW percent \in 80..120
  PROVE  b * percent \in Nat /\ a * 80 <= b * percent
<1>1. a * 80 <= b * 80
  OBVIOUS
<1>2. percent - 80 \in Nat /\ b * (percent - 80) \in Nat
  OBVIOUS
<1>3. b * percent = b * 80 + b * (percent - 80)
  OBVIOUS
<1> QED BY <1>1, <1>2, <1>3

\* The settings, as nonzero and max leave them.
LEMMA Settings ==
  /\ Initial \in Nat \ {0}
  /\ Ceiling \in Nat
  /\ Initial <= Ceiling
BY SupervisorAssumption DEF Initial, Ceiling, Larger

\* Doubling stays between the initial delay and the maximum.
LEMMA DoubledBounded ==
  ASSUME NEW b \in Nat, Initial <= b, b <= Ceiling
  PROVE  Doubled(b) \in Nat /\ Initial <= Doubled(b) /\ Doubled(b) <= Ceiling
BY Settings DEF Doubled, Smaller

\* A jittered delay is at most the maximum and at least the least jitter of
\* the initial delay.
LEMMA JitteredBounded ==
  ASSUME NEW b \in Nat, Initial <= b, NEW percent \in Percents
  PROVE  /\ Jittered(b, percent) \in Nat
         /\ Jittered(b, percent) <= Ceiling
         /\ (Initial * 80) \div 100 <= Jittered(b, percent)
<1>1. percent \in 80..120
  BY SupervisorAssumption
<1>2. b * percent \in Nat /\ Initial * 80 <= b * percent
  BY <1>1, ScaledMonotonic, Settings
<1>3. Initial * 80 \in Nat
  BY Settings
<1> DEFINE low == Initial * 80
           x == b * percent
<1>4. low \in Nat /\ x \in Nat /\ low <= x
  BY <1>2, <1>3
<1>5. x \div 100 \in Nat /\ low \div 100 \in Nat /\ low \div 100 <= x \div 100
  <2> HIDE DEF low, x
  <2> QED BY <1>4, DivMonotonic
<1>6. low \div 100 <= Ceiling
  BY Settings
<1>7. Jittered(b, percent) = Smaller(x \div 100, Ceiling)
  BY DEF Jittered
<1> HIDE DEF x
<1> QED BY <1>5, <1>6, <1>7, Settings DEF Smaller

(***************************************************************************)
(* Control.  Only three kinds of step touch the place of a slot and its    *)
(* counters; the invariants below are about these.                         *)
(***************************************************************************)

Places == {"loop", "session", "sleep", "stopped", "done"}
Returned == Outcomes \cup {Cancellation, NoOutcome}

\* Forwarding, callbacks and the cancellation leave the retry state and the
\* counters alone; finishing a slot only moves it to its end.
LEMMA OtherSteps ==
  ASSUME NEW s \in Slots,
         Forward(s) \/ PeerConnects(s) \/ PeerDisconnects(s) \/ Cancel
  PROVE  UNCHANGED <<pc, attempts, completed, failed, backoff, retryIn, outcome>>
BY DEF Forward, PeerConnects, PeerDisconnects, Cancel, countVars

(***************************************************************************)
(* The backoff stays within its bounds.                                    *)
(***************************************************************************)

BackoffInv ==
  /\ pc \in [Slots -> Places]
  /\ backoff \in [Slots -> Nat]
  /\ retryIn \in [Slots -> Nat]
  /\ outcome \in [Slots -> Returned]
  /\ RetryBounded

\* Every step of the supervisor keeps the backoff and the delay in bounds; the
\* return of a session is the one that computes them.
LEMMA NextBackoffInv == BackoffInv /\ [Next]_vars => BackoffInv'
<1> SUFFICES ASSUME BackoffInv, [Next]_vars
             PROVE  BackoffInv'
  OBVIOUS
<1> USE DEF BackoffInv, Places
<1>1. ASSUME NEW s \in Slots, BeginAttempt(s)
      PROVE  BackoffInv'
  BY <1>1, Settings DEF BeginAttempt, RetryBounded
<1>2. ASSUME NEW s \in Slots, SessionReturns(s)
      PROVE  BackoffInv'
  <2>1. PICK o \in Outcomes \cup {Cancellation}, percent \in Percents :
               EndSession(s, o, percent)
    BY <1>2 DEF SessionReturns
  <2>2. outcome' \in [Slots -> Returned]
    BY <2>1 DEF EndSession, Returned
  <2>3. CASE Abandoned(o)
    BY <2>1, <2>2, <2>3, Settings DEF EndSession, RetryBounded
  <2>4. CASE ~Abandoned(o)
    <3> DEFINE base == IF Stable(o) THEN Initial ELSE backoff[s]
               next == IF Stable(o) THEN base ELSE Doubled(base)
               delay == Jittered(base, percent)
    <3>1. base \in Nat /\ Initial <= base /\ base <= Ceiling
      BY Settings DEF RetryBounded
    <3>2. next \in Nat /\ Initial <= next /\ next <= Ceiling
      <4> HIDE DEF base
      <4> QED BY <3>1, DoubledBounded
    <3>3. delay \in Nat /\ delay <= Ceiling /\ (Initial * 80) \div 100 <= delay
      <4> HIDE DEF base
      <4> QED BY <3>1, JitteredBounded
    <3>4. /\ pc' = [pc EXCEPT ![s] = "sleep"]
          /\ retryIn' = [retryIn EXCEPT ![s] = delay]
          /\ backoff' = [backoff EXCEPT ![s] = next]
      BY <2>1, <2>4 DEF EndSession
    <3> HIDE DEF base, next, delay
    <3> QED BY <2>2, <3>2, <3>3, <3>4, Settings DEF RetryBounded
  <2> QED BY <2>3, <2>4
<1>3. ASSUME NEW s \in Slots, EndSleep(s)
      PROVE  BackoffInv'
  <2>1. NoOutcome \in Returned
    BY DEF Returned
  <2> QED BY <1>3, <2>1, Settings DEF EndSleep, RetryBounded
<1>4. ASSUME NEW s \in Slots, FinishSlot(s)
      PROVE  BackoffInv'
  BY <1>4, Settings DEF FinishSlot, RetryBounded
<1>5. ASSUME NEW s \in Slots, Forward(s) \/ PeerConnects(s) \/ PeerDisconnects(s)
      PROVE  BackoffInv'
  BY <1>5, OtherSteps DEF RetryBounded
<1>6. CASE Cancel
  BY <1>6 DEF Cancel, RetryBounded
<1>7. CASE UNCHANGED vars
  BY <1>7 DEF vars, RetryBounded
<1> QED BY <1>1, <1>2, <1>3, <1>4, <1>5, <1>6, <1>7 DEF Next

\* The backoff and the delays of every slot stay within the settings for any
\* sequence of results, any settings and any jitter of twenty percent.
THEOREM RetryCorrect == Spec => []RetryBounded
<1>1. Init => BackoffInv
  BY Settings DEF Init, BackoffInv, Places, Returned, RetryBounded
<1>2. BackoffInv => RetryBounded
  BY DEF BackoffInv
<1> QED BY <1>1, <1>2, NextBackoffInv, PTL DEF Spec

\* A step that lowers a slot's backoff is the return of a stable session.
LEMMA ResetStep ==
  ASSUME BackoffInv, [Next]_vars, NEW s \in Slots, backoff'[s] < backoff[s]
  PROVE  \E d \in outcome'[s].relay : d >= StableSession
<1> USE DEF BackoffInv
<1>1. ASSUME UNCHANGED backoff PROVE FALSE
  BY <1>1
<1>2. PICK t \in Slots : SessionReturns(t)
  BY <1>1, OtherSteps
     DEF Next, vars, BeginAttempt, EndSleep, FinishSlot, Forward, PeerConnects,
         PeerDisconnects, Cancel
<1>3. PICK o \in Outcomes \cup {Cancellation}, percent \in Percents :
             EndSession(t, o, percent)
  BY <1>2 DEF SessionReturns
<1>4. outcome' = [outcome EXCEPT ![t] = o]
  BY <1>3 DEF EndSession
<1>5. ~Abandoned(o)
  BY <1>1, <1>3 DEF EndSession
<1>6. backoff' = [backoff EXCEPT ![t] = IF Stable(o) THEN Initial ELSE Doubled(backoff[t])]
  BY <1>3, <1>5 DEF EndSession
<1>7. t = s
  BY <1>6
<1>8. backoff[s] \in Nat /\ backoff[s] <= Ceiling
  BY DEF RetryBounded
<1>9. backoff[s] <= Doubled(backoff[s])
  BY <1>8, Settings DEF Doubled, Smaller
<1>10. Stable(o)
  BY <1>6, <1>7, <1>8, <1>9, DoubledBounded, Settings DEF RetryBounded
<1> QED BY <1>4, <1>7, <1>10 DEF Stable

\* Only a session that relayed for stable_session ever lowers a backoff.
THEOREM ResetCorrect == Spec => OnlyStableSessionsReset
<1>1. Init => BackoffInv
  BY Settings DEF Init, BackoffInv, Places, Returned, RetryBounded
<1>2. BackoffInv /\ [Next]_vars =>
        [\A s \in Slots : backoff'[s] < backoff[s] =>
           \E d \in outcome'[s].relay : d >= StableSession]_vars
  BY ResetStep
<1> QED BY <1>1, <1>2, NextBackoffInv, PTL DEF Spec, OnlyStableSessionsReset

(***************************************************************************)
(* Every attempt is accounted for.                                         *)
(***************************************************************************)

\* A slot that stops in its loop or its delay must not carry the result of a
\* cancelled session: without this SummaryBalanced is not inductive.
AccountInv ==
  /\ pc \in [Slots -> Places]
  /\ attempts \in [Slots -> Nat]
  /\ completed \in [Slots -> Nat]
  /\ failed \in [Slots -> Nat]
  /\ outcome \in [Slots -> Returned]
  /\ \A s \in Slots : pc[s] = "loop" => outcome[s].result = "none"
  /\ \A s \in Slots : pc[s] = "sleep" => outcome[s].result # "Cancelled"
  /\ SummaryBalanced

\* Every step of the supervisor keeps the summary in step with the attempts.
LEMMA NextAccountInv == AccountInv /\ [Next]_vars => AccountInv'
<1> SUFFICES ASSUME AccountInv, [Next]_vars
             PROVE  AccountInv'
  OBVIOUS
<1> USE DEF AccountInv, Places
<1>1. ASSUME NEW s \in Slots, BeginAttempt(s)
      PROVE  AccountInv'
  BY <1>1 DEF BeginAttempt, SummaryBalanced
<1>2. ASSUME NEW s \in Slots, SessionReturns(s)
      PROVE  AccountInv'
  <2>1. PICK o \in Outcomes \cup {Cancellation}, percent \in Percents :
               EndSession(s, o, percent)
    BY <1>2 DEF SessionReturns
  <2>2. outcome' = [outcome EXCEPT ![s] = o] /\ o \in Returned
    BY <2>1 DEF EndSession, Returned
  <2>3. o.result = "Cancelled" => cancelled
    BY <2>1 DEF EndSession, Outcomes, Cancellation
  <2>4. CASE Abandoned(o)
    <3>1. /\ pc' = [pc EXCEPT ![s] = "stopped"]
          /\ UNCHANGED <<attempts, completed, failed>>
          /\ pc[s] = "session" /\ o.result # "Ok"
      BY <2>1, <2>4 DEF EndSession, Abandoned
    <3> QED BY <2>2, <3>1 DEF SummaryBalanced
  <2>5. CASE ~Abandoned(o) /\ o.result = "Ok"
    <3>1. /\ pc' = [pc EXCEPT ![s] = "sleep"]
          /\ completed' = [completed EXCEPT ![s] = @ + 1]
          /\ UNCHANGED <<attempts, failed>>
          /\ pc[s] = "session"
      BY <2>1, <2>5 DEF EndSession
    <3> QED BY <2>2, <2>5, <3>1 DEF SummaryBalanced
  <2>6. CASE ~Abandoned(o) /\ o.result # "Ok"
    <3>1. /\ pc' = [pc EXCEPT ![s] = "sleep"]
          /\ failed' = [failed EXCEPT ![s] = @ + 1]
          /\ UNCHANGED <<attempts, completed>>
          /\ pc[s] = "session"
      BY <2>1, <2>6 DEF EndSession
    <3>2. o.result # "Cancelled"
      BY <2>3, <2>6 DEF Abandoned
    <3> QED BY <2>2, <3>1, <3>2 DEF SummaryBalanced
  <2> QED BY <2>4, <2>5, <2>6
<1>3. ASSUME NEW s \in Slots, EndSleep(s)
      PROVE  AccountInv'
  <2>1. NoOutcome \in Returned /\ NoOutcome.result = "none"
    BY DEF Returned, NoOutcome
  <2>2. UNCHANGED <<attempts, completed, failed>>
    BY <1>3 DEF EndSleep, countVars
  <2> QED BY <1>3, <2>1, <2>2 DEF EndSleep, SummaryBalanced
<1>4. ASSUME NEW s \in Slots, FinishSlot(s)
      PROVE  AccountInv'
  BY <1>4 DEF FinishSlot, countVars, SummaryBalanced
<1>5. ASSUME NEW s \in Slots, Forward(s) \/ PeerConnects(s) \/ PeerDisconnects(s)
      PROVE  AccountInv'
  BY <1>5, OtherSteps DEF SummaryBalanced
<1>6. CASE Cancel
  BY <1>6 DEF Cancel, countVars, SummaryBalanced
<1>7. CASE UNCHANGED vars
  BY <1>7 DEF vars, countVars, SummaryBalanced
<1> QED BY <1>1, <1>2, <1>3, <1>4, <1>5, <1>6, <1>7 DEF Next

\* Only the return of a session counts one: as failed for an error that no
\* cancellation excuses, as completed for Ok.
LEMMA CountStep ==
  ASSUME AccountInv, [Next]_vars, NEW s \in Slots
  PROVE  /\ failed'[s] # failed[s] => ~cancelled /\ outcome'[s].result = "Err"
         /\ completed'[s] # completed[s] => outcome'[s].result = "Ok"
<1>1. CASE UNCHANGED <<completed, failed>>
  BY <1>1
<1>2. ASSUME NEW t \in Slots, SessionReturns(t)
      PROVE  /\ failed'[s] # failed[s] => ~cancelled /\ outcome'[s].result = "Err"
             /\ completed'[s] # completed[s] => outcome'[s].result = "Ok"
  <2>1. PICK o \in Outcomes \cup {Cancellation}, percent \in Percents :
               EndSession(t, o, percent)
    BY <1>2 DEF SessionReturns
  <2>2. /\ outcome' = [outcome EXCEPT ![t] = o]
        /\ o.result \in {"Ok", "Err", "Cancelled"}
        /\ o.result = "Cancelled" => cancelled
    BY <2>1 DEF EndSession, Outcomes, Cancellation
  <2>3. CASE Abandoned(o)
    <3>1. UNCHANGED <<completed, failed>>
      BY <2>1, <2>3 DEF EndSession
    <3> QED BY <1>1, <3>1
  <2>4. CASE ~Abandoned(o) /\ o.result = "Ok"
    <3>1. completed' = [completed EXCEPT ![t] = @ + 1] /\ UNCHANGED failed
      BY <2>1, <2>4 DEF EndSession
    <3> QED BY <2>2, <2>4, <3>1 DEF AccountInv
  <2>5. CASE ~Abandoned(o) /\ o.result # "Ok"
    <3>1. failed' = [failed EXCEPT ![t] = @ + 1] /\ UNCHANGED completed
      BY <2>1, <2>5 DEF EndSession
    <3>2. ~cancelled /\ o.result = "Err"
      BY <2>2, <2>5 DEF Abandoned
    <3> QED BY <2>2, <3>1, <3>2 DEF AccountInv
  <2> QED BY <2>3, <2>4, <2>5
<1>3. CASE \E t \in Slots :
             \/ BeginAttempt(t) \/ EndSleep(t) \/ FinishSlot(t)
             \/ Forward(t) \/ PeerConnects(t) \/ PeerDisconnects(t)
  <2>1. UNCHANGED <<completed, failed>>
    BY <1>3, OtherSteps DEF BeginAttempt, EndSleep, FinishSlot, countVars
  <2> QED BY <1>1, <2>1
<1>4. CASE Cancel \/ UNCHANGED vars
  BY <1>1, <1>4 DEF Cancel, vars, countVars
<1> QED BY <1>2, <1>3, <1>4 DEF Next

\* Whatever the sessions return and whenever the pool is cancelled, every
\* attempt is counted once, and none that shutdown ended, or that failed while
\* it was under way, is a failure.
THEOREM AccountingCorrect == Spec => AttemptsAccounted
<1>1. Init => AccountInv
  BY DEF Init, AccountInv, Places, Returned, NoOutcome, SummaryBalanced
<1>2. AccountInv => SummaryBalanced
  BY DEF AccountInv
<1>3. AccountInv /\ [Next]_vars =>
        [\A s \in Slots :
           /\ failed'[s] # failed[s] => ~cancelled /\ outcome'[s].result = "Err"
           /\ completed'[s] # completed[s] => outcome'[s].result = "Ok"]_vars
  BY CountStep
<1> QED BY <1>1, <1>2, <1>3, NextAccountInv, PTL DEF Spec, AttemptsAccounted

(***************************************************************************)
(* What the pool is told.  The argument is about one log per slot: what was *)
(* forwarded followed by what is queued.  A step of the supervisor or of a  *)
(* callback appends to it; forwarding and draining leave it as it is.       *)
(***************************************************************************)

USE Zenon

Events == {"AttemptStarted", "SessionEnded", "AttemptFailed", "Stopped"} \cup PeerEvents

\* The log of a slot with a attempts, c completed and f failed.
Story(log, a, c, f, over) ==
  /\ log \in Seq(Events)
  /\ InTurn(log)
  /\ Count(log, "AttemptStarted") = a
  /\ Count(log, "SessionEnded") = c
  /\ Count(log, "AttemptFailed") = f
  /\ over => EndsStopped(log)
  /\ ~over => /\ Cardinality(Reports(log)) = a + c + f
              /\ \A i \in Reports(log) : log[i] # "Stopped"

Told(s) == forwarded[s] \o queue[s]

StoryInv ==
  /\ forwarded \in [Slots -> Seq(Events)]
  /\ queue \in [Slots -> Seq(Events)]
  /\ \A s \in Slots :
       /\ Story(Told(s), attempts[s], completed[s], failed[s], pc[s] \in {"stopped", "done"})
       /\ pc[s] = "done" => queue[s] = <<>>

\* The positions of a log are finite sets of positions.
LEMMA PositionsFinite ==
  ASSUME NEW log \in Seq(Events), NEW P \in SUBSET DOMAIN log
  PROVE  IsFiniteSet(P) /\ Cardinality(P) \in Nat /\ Len(log) + 1 \notin P
<1>1. DOMAIN log = 1..Len(log) /\ Len(log) \in Nat
  BY SMT
<1>2. IsFiniteSet(1..Len(log))
  BY <1>1, FS_Interval, SMT
<1>3. IsFiniteSet(P)
  BY <1>1, <1>2, FS_Subset
<1>4. Cardinality(P) \in Nat
  BY <1>3, FS_CardinalityType
<1>5. Len(log) + 1 \notin P
  BY <1>1, SMT
<1> QED BY <1>3, <1>4, <1>5

\* Appending adds the last position to what it is among.
LEMMA AppendPositions ==
  ASSUME NEW log \in Seq(Events), NEW e \in Events
  PROVE  /\ Append(log, e) \in Seq(Events)
         /\ DOMAIN Append(log, e) = DOMAIN log \cup {Len(log) + 1}
         /\ \A i \in DOMAIN log : Append(log, e)[i] = log[i] /\ i \in Nat /\ i < Len(log) + 1
         /\ Append(log, e)[Len(log) + 1] = e
         /\ Len(log) + 1 \in Nat
BY SMT

\* Counts after an event.
LEMMA AppendCount ==
  ASSUME NEW log \in Seq(Events), NEW e \in Events, NEW kind
  PROVE  /\ Count(log, kind) \in Nat
         /\ Count(Append(log, e), kind) = IF kind = e THEN Count(log, kind) + 1 ELSE Count(log, kind)
<1> DEFINE P == {i \in DOMAIN log : log[i] = kind}
           Q == {i \in DOMAIN Append(log, e) : Append(log, e)[i] = kind}
<1>1. IsFiniteSet(P) /\ Cardinality(P) \in Nat /\ Len(log) + 1 \notin P
  BY PositionsFinite
<1>2. Count(log, kind) = Cardinality(P) /\ Count(Append(log, e), kind) = Cardinality(Q)
  BY DEF Count
<1>3. CASE kind = e
  <2>1. Q = P \cup {Len(log) + 1}
    BY <1>3, AppendPositions, SMT
  <2>2. Cardinality(P \cup {Len(log) + 1}) = Cardinality(P) + 1
    BY <1>1, FS_AddElement
  <2> QED BY <1>1, <1>2, <1>3, <2>1, <2>2
<1>4. CASE kind # e
  <2>1. Q = P
    BY <1>4, AppendPositions, SMT
  <2> QED BY <1>1, <1>2, <1>4, <2>1
<1> QED BY <1>3, <1>4

\* Reports after an event of a callback.
LEMMA AppendPeerEvent ==
  ASSUME NEW log \in Seq(Events), NEW e \in PeerEvents
  PROVE  /\ Reports(Append(log, e)) = Reports(log)
         /\ \A i \in Reports(log) : Append(log, e)[i] = log[i]
         /\ \A i \in Reports(log) : Earlier(Append(log, e), i) = Earlier(log, i)
<1>1. e \in Events
  BY DEF Events
<1>2. Reports(Append(log, e)) = Reports(log)
  BY <1>1, AppendPositions, SMT DEF Reports
<1>3. \A i \in Reports(log) : Append(log, e)[i] = log[i]
  BY <1>1, AppendPositions, SMT DEF Reports
<1> QED BY <1>2, <1>3 DEF Earlier

\* Reports after an event of the supervisor.
LEMMA AppendReport ==
  ASSUME NEW log \in Seq(Events), NEW e \in Events \ PeerEvents
  PROVE  /\ Reports(Append(log, e)) = Reports(log) \cup {Len(log) + 1}
         /\ \A i \in Reports(log) : Append(log, e)[i] = log[i] /\ i <= Len(log) + 1 /\ i # Len(log) + 1
         /\ \A i \in Reports(log) : Earlier(Append(log, e), i) = Earlier(log, i)
         /\ Earlier(Append(log, e), Len(log) + 1) = Reports(log)
         /\ Cardinality(Reports(log)) \in Nat
         /\ Cardinality(Reports(Append(log, e))) = Cardinality(Reports(log)) + 1
<1> DEFINE n == Len(log) + 1
<1>1. Reports(Append(log, e)) = Reports(log) \cup {n}
  BY AppendPositions, SMT DEF Reports
<1>2. n \in Nat /\ \A i \in Reports(log) : i \in Nat /\ i < n /\ Append(log, e)[i] = log[i]
  BY AppendPositions, SMT DEF Reports
<1>3. IsFiniteSet(Reports(log)) /\ Cardinality(Reports(log)) \in Nat /\ n \notin Reports(log)
  BY PositionsFinite DEF Reports
<1>4. Cardinality(Reports(log) \cup {n}) = Cardinality(Reports(log)) + 1
  BY <1>3, FS_AddElement
<1> HIDE DEF n
<1>5. \A i \in Reports(log) : i <= n /\ i # n /\ ~(n < i)
  BY <1>2, SMT
<1>6. \A i \in Reports(log) : Earlier(Append(log, e), i) = Earlier(log, i)
  BY <1>1, <1>5 DEF Earlier
<1>7. ~(n < n)
  BY <1>2, SMT
<1>8. Earlier(Append(log, e), n) = Reports(log)
  BY <1>1, <1>2, <1>7 DEF Earlier
<1> QED BY <1>1, <1>2, <1>3, <1>4, <1>5, <1>6, <1>8 DEF n

\* The events of the callbacks are no part of the story.
LEMMA StoryPeerEvent ==
  ASSUME NEW log, NEW a \in Nat, NEW c \in Nat, NEW f \in Nat, NEW over \in BOOLEAN,
         NEW e \in PeerEvents, Story(log, a, c, f, over)
  PROVE  Story(Append(log, e), a, c, f, over)
<1> DEFINE new == Append(log, e)
<1>1. log \in Seq(Events) /\ e \in Events
  BY DEF Story, Events
<1>2. /\ Reports(new) = Reports(log)
      /\ \A i \in Reports(log) : new[i] = log[i]
      /\ \A i \in Reports(log) : Earlier(new, i) = Earlier(log, i)
  BY <1>1, AppendPeerEvent
<1>3. new \in Seq(Events)
  BY <1>1, AppendPositions
<1>4. \A kind : kind # e => Count(new, kind) = Count(log, kind)
  BY <1>1, AppendCount
<1>5. e \notin {"AttemptStarted", "SessionEnded", "AttemptFailed"}
  BY DEF PeerEvents
<1> HIDE DEF new
<1>6. InTurn(new)
  BY <1>2 DEF Story, InTurn
<1>7. over => EndsStopped(new)
  BY <1>2 DEF Story, EndsStopped
<1>8. /\ Count(new, "AttemptStarted") = a
      /\ Count(new, "SessionEnded") = c
      /\ Count(new, "AttemptFailed") = f
  BY <1>4, <1>5 DEF Story
<1>9. ~over => /\ Cardinality(Reports(new)) = a + c + f
               /\ \A i \in Reports(new) : new[i] # "Stopped"
  BY <1>2 DEF Story
<1> QED BY <1>3, <1>6, <1>7, <1>8, <1>9 DEF Story, new

\* A start or an end of an attempt, in its turn.
LEMMA StoryAttempt ==
  ASSUME NEW log, NEW a \in Nat, NEW c \in Nat, NEW f \in Nat, Story(log, a, c, f, FALSE),
         NEW e \in {"AttemptStarted", "SessionEnded", "AttemptFailed"},
         e = "AttemptStarted" <=> a = c + f,
         e # "AttemptStarted" => a = c + f + 1
  PROVE  Story(Append(log, e), IF e = "AttemptStarted" THEN a + 1 ELSE a,
                               IF e = "SessionEnded" THEN c + 1 ELSE c,
                               IF e = "AttemptFailed" THEN f + 1 ELSE f, FALSE)
<1> DEFINE new == Append(log, e)
           n == Len(log) + 1
<1>1. log \in Seq(Events) /\ e \in Events \ PeerEvents
  BY DEF Story, Events, PeerEvents
<1>2. /\ Reports(new) = Reports(log) \cup {n}
      /\ \A i \in Reports(log) : new[i] = log[i] /\ i # n
      /\ \A i \in Reports(log) : Earlier(new, i) = Earlier(log, i)
      /\ Earlier(new, n) = Reports(log)
      /\ Cardinality(Reports(new)) = Cardinality(Reports(log)) + 1
  BY <1>1, AppendReport
<1>3. new \in Seq(Events) /\ new[n] = e
  BY <1>1, AppendPositions
<1>4. \A kind : Count(new, kind) = IF kind = e THEN Count(log, kind) + 1 ELSE Count(log, kind)
  BY <1>1, AppendCount
<1>5. Cardinality(Reports(log)) = a + c + f
  BY DEF Story
<1>6. e = "AttemptStarted" <=> Cardinality(Reports(log)) % 2 = 0
  <2>1. CASE e = "AttemptStarted"
    <3>1. Cardinality(Reports(log)) = 2 * a
      BY <1>5, <2>1, SMT
    <3> QED BY <2>1, <3>1, SMT
  <2>2. CASE e # "AttemptStarted"
    <3>1. Cardinality(Reports(log)) = 2 * (c + f) + 1
      BY <1>5, <2>2, SMT
    <3> QED BY <2>2, <3>1, SMT
  <2> QED BY <2>1, <2>2
<1> HIDE DEF new, n
<1>7. InTurn(new)
  BY <1>2, <1>3, <1>6 DEF Story, InTurn
<1>8. \A i \in Reports(new) : new[i] # "Stopped"
  BY <1>2, <1>3 DEF Story
<1>9. /\ Count(new, "AttemptStarted") = (IF e = "AttemptStarted" THEN a + 1 ELSE a)
      /\ Count(new, "SessionEnded") = (IF e = "SessionEnded" THEN c + 1 ELSE c)
      /\ Count(new, "AttemptFailed") = (IF e = "AttemptFailed" THEN f + 1 ELSE f)
  BY <1>4 DEF Story
<1>10. Cardinality(Reports(new)) = (IF e = "AttemptStarted" THEN a + 1 ELSE a)
                                     + (IF e = "SessionEnded" THEN c + 1 ELSE c)
                                     + (IF e = "AttemptFailed" THEN f + 1 ELSE f)
  BY <1>2, <1>5, SMT
<1> QED BY <1>3, <1>7, <1>8, <1>9, <1>10 DEF Story, new

\* Stopped closes the story.
LEMMA StoryStopped ==
  ASSUME NEW log, NEW a \in Nat, NEW c \in Nat, NEW f \in Nat, Story(log, a, c, f, FALSE)
  PROVE  Story(Append(log, "Stopped"), a, c, f, TRUE)
<1> DEFINE new == Append(log, "Stopped")
           n == Len(log) + 1
<1>1. log \in Seq(Events) /\ "Stopped" \in Events \ PeerEvents
  BY DEF Story, Events, PeerEvents
<1>2. /\ Reports(new) = Reports(log) \cup {n}
      /\ \A i \in Reports(log) : new[i] = log[i] /\ i <= n
      /\ \A i \in Reports(log) : Earlier(new, i) = Earlier(log, i)
  BY <1>1, AppendReport
<1>3. new \in Seq(Events) /\ new[n] = "Stopped" /\ n <= n
  BY <1>1, AppendPositions, SMT
<1>4. \A kind : kind # "Stopped" => Count(new, kind) = Count(log, kind)
  BY <1>1, AppendCount
<1> HIDE DEF new, n
<1>5. InTurn(new)
  BY <1>2, <1>3 DEF Story, InTurn
<1>6. EndsStopped(new)
  BY <1>2, <1>3 DEF Story, EndsStopped
<1>7. /\ Count(new, "AttemptStarted") = a
      /\ Count(new, "SessionEnded") = c
      /\ Count(new, "AttemptFailed") = f
  BY <1>4 DEF Story
<1> QED BY <1>3, <1>5, <1>6, <1>7 DEF Story, new

\* Sequence laws of the sends, the forwarding and the drain.
LEMMA AppendAtEnd ==
  ASSUME NEW a \in Seq(Events), NEW b \in Seq(Events), NEW e \in Events
  PROVE  a \o Append(b, e) = Append(a \o b, e)
<1> DEFINE x == a \o Append(b, e)
           y == Append(a \o b, e)
<1>1. x \in Seq(Events) /\ y \in Seq(Events) /\ Len(x) = Len(a) + Len(b) + 1 /\ Len(y) = Len(a) + Len(b) + 1
  BY SMT
<1>2. \A i \in 1..Len(x) : x[i] = y[i]
  BY SMT
<1> HIDE DEF x, y
<1>3. x = y
  BY <1>1, <1>2, SeqEqual
<1> QED BY <1>3 DEF x, y

LEMMA HeadMoves ==
  ASSUME NEW a \in Seq(Events), NEW b \in Seq(Events), b # <<>>
  PROVE  Append(a, Head(b)) \o Tail(b) = a \o b
<1> DEFINE x == Append(a, Head(b)) \o Tail(b)
           y == a \o b
<1>1. x \in Seq(Events) /\ y \in Seq(Events) /\ Len(x) = Len(a) + Len(b) /\ Len(y) = Len(a) + Len(b)
  BY SMT
<1>2. \A i \in 1..Len(x) : x[i] = y[i]
  BY SMT
<1> HIDE DEF x, y
<1>3. x = y
  BY <1>1, <1>2, SeqEqual
<1> QED BY <1>3 DEF x, y

\* An event that is sent is the last of its slot's log.
LEMMA ToldEmit ==
  ASSUME StoryInv, NEW s \in Slots, NEW e \in Events, Emit(s, e), UNCHANGED forwarded
  PROVE  /\ forwarded' \in [Slots -> Seq(Events)] /\ queue' \in [Slots -> Seq(Events)]
         /\ Told(s)' = Append(Told(s), e)
         /\ \A t \in Slots \ {s} : Told(t)' = Told(t) /\ queue'[t] = queue[t]
<1>1. queue' = [queue EXCEPT ![s] = Append(queue[s], e)]
  BY DEF Emit
<1>2. queue[s] \in Seq(Events) /\ forwarded[s] \in Seq(Events)
  BY DEF StoryInv
<1>3. Append(queue[s], e) \in Seq(Events)
  BY <1>2, SMT
<1>4. queue' \in [Slots -> Seq(Events)]
  BY <1>1, <1>3 DEF StoryInv
<1>5. queue'[s] = Append(queue[s], e) /\ \A t \in Slots \ {s} : queue'[t] = queue[t]
  BY <1>1 DEF StoryInv
<1>6. forwarded[s] \o Append(queue[s], e) = Append(forwarded[s] \o queue[s], e)
  BY <1>2, AppendAtEnd
<1> QED BY <1>4, <1>5, <1>6 DEF Told, StoryInv

\* Forwarding and draining move events within the log.
LEMMA ToldMoved ==
  ASSUME StoryInv, NEW s \in Slots, Forward(s) \/ FinishSlot(s)
  PROVE  /\ forwarded' \in [Slots -> Seq(Events)] /\ queue' \in [Slots -> Seq(Events)]
         /\ \A t \in Slots : Told(t)' = Told(t)
         /\ \A t \in Slots \ {s} : queue'[t] = queue[t]
         /\ FinishSlot(s) => queue'[s] = <<>>
<1> DEFINE q == queue[s]
           sent == forwarded[s]
<1>1. q \in Seq(Events) /\ sent \in Seq(Events)
  BY DEF StoryInv
<1>2. ASSUME NEW front, NEW rest, forwarded' = [forwarded EXCEPT ![s] = front],
             queue' = [queue EXCEPT ![s] = rest],
             front \in Seq(Events), rest \in Seq(Events), front \o rest = sent \o q
      PROVE  /\ forwarded' \in [Slots -> Seq(Events)] /\ queue' \in [Slots -> Seq(Events)]
             /\ \A t \in Slots : Told(t)' = Told(t)
             /\ \A t \in Slots \ {s} : queue'[t] = queue[t]
             /\ queue'[s] = rest
  <2>1. forwarded' \in [Slots -> Seq(Events)] /\ queue' \in [Slots -> Seq(Events)]
    BY <1>2 DEF StoryInv
  <2>2. forwarded'[s] = front /\ queue'[s] = rest
    BY <1>2 DEF StoryInv
  <2>3. \A t \in Slots \ {s} : forwarded'[t] = forwarded[t] /\ queue'[t] = queue[t]
    BY <1>2 DEF StoryInv
  <2>4. Told(s)' = Told(s)
    BY <1>2, <2>2 DEF Told
  <2> QED BY <2>1, <2>2, <2>3, <2>4 DEF Told
<1>3. CASE Forward(s)
  <2>1. /\ forwarded' = [forwarded EXCEPT ![s] = Append(sent, Head(q))]
        /\ queue' = [queue EXCEPT ![s] = Tail(q)]
        /\ q # <<>> /\ pc' = pc /\ pc[s] # "stopped"
    BY <1>3 DEF Forward
  <2>2. Append(sent, Head(q)) \in Seq(Events) /\ Tail(q) \in Seq(Events)
    BY <1>1, <2>1, SMT
  <2>3. Append(sent, Head(q)) \o Tail(q) = sent \o q
    BY <1>1, <2>1, HeadMoves
  <2>4. ~FinishSlot(s)
    BY <2>1 DEF FinishSlot
  <2> HIDE DEF q, sent
  <2> QED BY <1>2, <2>1, <2>2, <2>3, <2>4
<1>4. CASE FinishSlot(s)
  <2>1. /\ forwarded' = [forwarded EXCEPT ![s] = sent \o q]
        /\ queue' = [queue EXCEPT ![s] = <<>>]
    BY <1>4 DEF FinishSlot, Drained
  <2>2. sent \o q \in Seq(Events) /\ <<>> \in Seq(Events) /\ (sent \o q) \o <<>> = sent \o q
    BY <1>1, SMT
  <2> HIDE DEF q, sent
  <2> QED BY <1>2, <2>1, <2>2
<1> QED BY <1>3, <1>4

\* The part of the invariant about the slot that takes the step is enough.
LEMMA StoryOfSlot ==
  ASSUME StoryInv, NEW s \in Slots,
         forwarded' \in [Slots -> Seq(Events)], queue' \in [Slots -> Seq(Events)],
         \A t \in Slots \ {s} :
           /\ Told(t)' = Told(t)
           /\ queue'[t] = queue[t]
           /\ attempts'[t] = attempts[t] /\ completed'[t] = completed[t] /\ failed'[t] = failed[t]
           /\ pc'[t] = pc[t],
         Story(Told(s)', attempts'[s], completed'[s], failed'[s], pc'[s] \in {"stopped", "done"}),
         pc'[s] = "done" => queue'[s] = <<>>
  PROVE  StoryInv'
<1>1. ASSUME NEW t \in Slots
      PROVE  /\ Story(Told(t)', attempts'[t], completed'[t], failed'[t], pc'[t] \in {"stopped", "done"})
             /\ pc'[t] = "done" => queue'[t] = <<>>
  <2>1. CASE t = s
    BY <2>1
  <2>2. CASE t # s
    BY <2>2 DEF StoryInv
  <2> QED BY <2>1, <2>2
<1> QED BY <1>1 DEF StoryInv

\* Every step of the pool keeps the logs true to the summaries.
LEMMA NextStoryInv == AccountInv /\ StoryInv /\ [Next]_vars => StoryInv'
<1> SUFFICES ASSUME AccountInv, StoryInv, [Next]_vars
             PROVE  StoryInv'
  OBVIOUS
<1> DEFINE Over(s) == pc[s] \in {"stopped", "done"}
<1>0. ASSUME NEW s \in Slots
      PROVE  /\ attempts[s] \in Nat /\ completed[s] \in Nat /\ failed[s] \in Nat
             /\ Story(Told(s), attempts[s], completed[s], failed[s], Over(s))
  BY <1>0 DEF AccountInv, StoryInv
<1>1. ASSUME NEW s \in Slots, pc[s] \notin {"stopped", "done"}, Emit(s, "Stopped"), UNCHANGED forwarded,
             pc' = [pc EXCEPT ![s] = "stopped"], UNCHANGED <<attempts, completed, failed>>
      PROVE  StoryInv'
  <2>1. "Stopped" \in Events
    BY DEF Events
  <2>2. /\ forwarded' \in [Slots -> Seq(Events)] /\ queue' \in [Slots -> Seq(Events)]
        /\ Told(s)' = Append(Told(s), "Stopped")
        /\ \A t \in Slots \ {s} : Told(t)' = Told(t) /\ queue'[t] = queue[t]
    BY <1>1, <2>1, ToldEmit
  <2>3. Story(Told(s), attempts[s], completed[s], failed[s], FALSE)
    <3>1. Over(s) = FALSE
      BY <1>1, SMT
    <3> HIDE DEF Over
    <3> QED BY <1>0, <3>1, Zenon
  <2>4. Story(Told(s)', attempts[s], completed[s], failed[s], TRUE)
    BY <1>0, <2>2, <2>3, StoryStopped
  <2>5. pc'[s] = "stopped" /\ \A t \in Slots \ {s} : pc'[t] = pc[t]
    BY <1>1 DEF AccountInv
  <2> QED BY <1>1, <2>2, <2>4, <2>5, StoryOfSlot
<1>2. ASSUME NEW s \in Slots, pc[s] \in {"loop", "session"}, NEW place \in {"session", "sleep"},
             NEW e \in {"AttemptStarted", "SessionEnded", "AttemptFailed"},
             e = "AttemptStarted" <=> pc[s] = "loop",
             Emit(s, e), UNCHANGED forwarded, pc' = [pc EXCEPT ![s] = place],
             attempts' = IF e = "AttemptStarted" THEN [attempts EXCEPT ![s] = @ + 1] ELSE attempts,
             completed' = IF e = "SessionEnded" THEN [completed EXCEPT ![s] = @ + 1] ELSE completed,
             failed' = IF e = "AttemptFailed" THEN [failed EXCEPT ![s] = @ + 1] ELSE failed
      PROVE  StoryInv'
  <2>1. e \in Events
    BY DEF Events
  <2>2. /\ forwarded' \in [Slots -> Seq(Events)] /\ queue' \in [Slots -> Seq(Events)]
        /\ Told(s)' = Append(Told(s), e)
        /\ \A t \in Slots \ {s} : Told(t)' = Told(t) /\ queue'[t] = queue[t]
    BY <1>2, <2>1, ToldEmit
  <2>3. Story(Told(s), attempts[s], completed[s], failed[s], FALSE)
    <3>1. Over(s) = FALSE
      BY <1>2, SMT
    <3> HIDE DEF Over
    <3> QED BY <1>0, <3>1, Zenon
  <2>4. /\ pc[s] = "loop" => attempts[s] = completed[s] + failed[s]
        /\ pc[s] = "session" => attempts[s] = completed[s] + failed[s] + 1
    BY <1>0, SMT DEF AccountInv, SummaryBalanced
  <2>5. e = "AttemptStarted" <=> attempts[s] = completed[s] + failed[s]
    BY <1>0, <1>2, <2>4, SMT
  <2>6. e # "AttemptStarted" => attempts[s] = completed[s] + failed[s] + 1
    BY <1>2, <2>4
  <2>7. /\ attempts'[s] = (IF e = "AttemptStarted" THEN attempts[s] + 1 ELSE attempts[s])
        /\ completed'[s] = (IF e = "SessionEnded" THEN completed[s] + 1 ELSE completed[s])
        /\ failed'[s] = (IF e = "AttemptFailed" THEN failed[s] + 1 ELSE failed[s])
    BY <1>2 DEF AccountInv
  <2>8. Story(Told(s)', attempts'[s], completed'[s], failed'[s], FALSE)
    <3>1. Story(Append(Told(s), e),
                IF e = "AttemptStarted" THEN attempts[s] + 1 ELSE attempts[s],
                IF e = "SessionEnded" THEN completed[s] + 1 ELSE completed[s],
                IF e = "AttemptFailed" THEN failed[s] + 1 ELSE failed[s], FALSE)
      BY <1>0, <2>3, <2>5, <2>6, StoryAttempt
    <3> QED BY <2>2, <2>7, <3>1
  <2>9. \A t \in Slots \ {s} :
          attempts'[t] = attempts[t] /\ completed'[t] = completed[t] /\ failed'[t] = failed[t]
    BY <1>2 DEF AccountInv
  <2>10. pc'[s] = place /\ \A t \in Slots \ {s} : pc'[t] = pc[t]
    BY <1>2 DEF AccountInv
  <2>11. (pc'[s] \in {"stopped", "done"}) = FALSE /\ pc'[s] # "done"
    BY <2>10, SMT
  <2> QED BY <2>2, <2>8, <2>9, <2>10, <2>11, StoryOfSlot
<1>3. ASSUME NEW s \in Slots, NEW e \in PeerEvents, Callback(s, e), UNCHANGED forwarded,
             UNCHANGED <<pc, attempts, completed, failed>>
      PROVE  StoryInv'
  <2>1. e \in Events
    BY DEF Events
  <2>2. CASE pc[s] = "done"
    BY <1>3, <2>2 DEF Callback, StoryInv, Told
  <2>3. CASE pc[s] # "done"
    <3>1. Emit(s, e)
      BY <1>3, <2>3 DEF Callback
    <3>2. /\ forwarded' \in [Slots -> Seq(Events)] /\ queue' \in [Slots -> Seq(Events)]
          /\ Told(s)' = Append(Told(s), e)
          /\ \A t \in Slots \ {s} : Told(t)' = Told(t) /\ queue'[t] = queue[t]
      BY <1>3, <2>1, <3>1, ToldEmit
    <3>3. Over(s) \in BOOLEAN
      BY SMT
    <3>4. Story(Told(s)', attempts[s], completed[s], failed[s], Over(s))
      <4> HIDE DEF Over
      <4> QED BY <1>0, <3>2, <3>3, StoryPeerEvent, SMT
    <3> QED BY <1>3, <2>3, <3>2, <3>4, StoryOfSlot
  <2> QED BY <2>2, <2>3
<1>4. ASSUME NEW s \in Slots, Forward(s) \/ FinishSlot(s)
      PROVE  StoryInv'
  <2>1. /\ forwarded' \in [Slots -> Seq(Events)] /\ queue' \in [Slots -> Seq(Events)]
        /\ \A t \in Slots : Told(t)' = Told(t)
        /\ \A t \in Slots \ {s} : queue'[t] = queue[t]
        /\ FinishSlot(s) => queue'[s] = <<>>
    BY <1>4, ToldMoved
  <2>2. UNCHANGED <<attempts, completed, failed>>
    BY <1>4 DEF Forward, FinishSlot, countVars
  <2>3. \A t \in Slots \ {s} : pc'[t] = pc[t]
    BY <1>4 DEF Forward, FinishSlot, AccountInv
  <2>4. /\ (pc'[s] \in {"stopped", "done"}) = (pc[s] \in {"stopped", "done"})
        /\ pc'[s] = "done" => queue'[s] = <<>>
    BY <1>4, <2>1, SMT DEF Forward, FinishSlot, AccountInv
  <2>5. Story(Told(s)', attempts'[s], completed'[s], failed'[s], pc'[s] \in {"stopped", "done"})
    BY <1>0, <2>1, <2>2, <2>4
  <2> QED BY <2>1, <2>2, <2>3, <2>4, <2>5, StoryOfSlot
<1>5. ASSUME UNCHANGED <<forwarded, queue, attempts, completed, failed>>,
             pc' \in [Slots -> Places],
             \A t \in Slots : pc'[t] = pc[t] \/ {pc'[t], pc[t]} \subseteq {"loop", "sleep"}
      PROVE  StoryInv'
  <2>1. ASSUME NEW t \in Slots
        PROVE  /\ Told(t)' = Told(t)
               /\ (pc'[t] \in {"stopped", "done"}) = (pc[t] \in {"stopped", "done"})
               /\ pc'[t] = "done" => pc[t] = "done"
    BY <1>5, <2>1, SMT DEF Told
  <2> QED BY <1>5, <2>1 DEF StoryInv
<1>6. ASSUME NEW s \in Slots, BeginAttempt(s)
      PROVE  StoryInv'
  <2>1. CASE cancelled
    BY <1>1, <1>6, <2>1 DEF BeginAttempt
  <2>2. CASE ~cancelled
    <3>1. /\ pc[s] = "loop" /\ Emit(s, "AttemptStarted") /\ UNCHANGED <<forwarded, completed, failed>>
          /\ pc' = [pc EXCEPT ![s] = "session"]
          /\ attempts' = [attempts EXCEPT ![s] = @ + 1]
      BY <1>6, <2>2 DEF BeginAttempt
    <3> QED BY <1>2, <3>1
  <2> QED BY <2>1, <2>2
<1>7. ASSUME NEW s \in Slots, SessionReturns(s)
      PROVE  StoryInv'
  <2>1. PICK o \in Outcomes \cup {Cancellation}, percent \in Percents :
               EndSession(s, o, percent)
    BY <1>7 DEF SessionReturns
  <2>2. pc[s] = "session" /\ UNCHANGED <<attempts, forwarded>>
    BY <2>1 DEF EndSession
  <2>3. CASE Abandoned(o)
    <3>1. /\ pc' = [pc EXCEPT ![s] = "stopped"] /\ Emit(s, "Stopped")
          /\ UNCHANGED <<completed, failed>>
      BY <2>1, <2>3 DEF EndSession
    <3> QED BY <1>1, <2>2, <3>1
  <2>4. CASE ~Abandoned(o) /\ o.result = "Ok"
    <3>1. /\ pc' = [pc EXCEPT ![s] = "sleep"] /\ Emit(s, "SessionEnded")
          /\ completed' = [completed EXCEPT ![s] = @ + 1] /\ UNCHANGED failed
      BY <2>1, <2>4 DEF EndSession
    <3> QED BY <1>2, <2>2, <3>1
  <2>5. CASE ~Abandoned(o) /\ o.result # "Ok"
    <3>1. /\ pc' = [pc EXCEPT ![s] = "sleep"] /\ Emit(s, "AttemptFailed")
          /\ failed' = [failed EXCEPT ![s] = @ + 1] /\ UNCHANGED completed
      BY <2>1, <2>5 DEF EndSession
    <3> QED BY <1>2, <2>2, <3>1
  <2> QED BY <2>3, <2>4, <2>5
<1>8. ASSUME NEW s \in Slots, EndSleep(s)
      PROVE  StoryInv'
  <2>1. UNCHANGED <<attempts, completed, failed, forwarded>> /\ pc[s] = "sleep"
    BY <1>8 DEF EndSleep, countVars
  <2>2. CASE cancelled
    <3>1. pc' = [pc EXCEPT ![s] = "stopped"] /\ Emit(s, "Stopped")
      BY <1>8, <2>2 DEF EndSleep
    <3> QED BY <1>1, <2>1, <3>1
  <2>3. CASE ~cancelled
    <3>1. pc' = [pc EXCEPT ![s] = "loop"] /\ UNCHANGED queue
      BY <1>8, <2>3 DEF EndSleep
    <3>2. pc' \in [Slots -> Places]
      BY <3>1 DEF AccountInv, Places
    <3>3. \A t \in Slots : pc'[t] = pc[t] \/ {pc'[t], pc[t]} \subseteq {"loop", "sleep"}
      BY <2>1, <3>1 DEF AccountInv
    <3> QED BY <1>5, <2>1, <3>1, <3>2, <3>3
  <2> QED BY <2>2, <2>3
<1>9. ASSUME NEW s \in Slots, PeerConnects(s) \/ PeerDisconnects(s)
      PROVE  StoryInv'
  <2>1. PICK e \in PeerEvents : Callback(s, e)
    BY <1>9 DEF PeerConnects, PeerDisconnects, PeerEvents
  <2>2. UNCHANGED <<forwarded, pc, attempts, completed, failed>>
    BY <1>9 DEF PeerConnects, PeerDisconnects, countVars
  <2> QED BY <1>3, <2>1, <2>2
<1>10. CASE Cancel \/ UNCHANGED vars
  <2>1. UNCHANGED <<forwarded, queue, pc, attempts, completed, failed>>
    BY <1>10 DEF Cancel, vars, countVars
  <2> QED BY <1>5, <2>1 DEF AccountInv
<1> QED BY <1>4, <1>6, <1>7, <1>8, <1>9, <1>10 DEF Next

\* A pool that starts has told nothing yet.
LEMMA InitStoryInv == Init => AccountInv /\ StoryInv
<1> SUFFICES ASSUME Init PROVE AccountInv /\ StoryInv
  OBVIOUS
<1>1. AccountInv
  BY SMT DEF Init, AccountInv, Places, Returned, NoOutcome, SummaryBalanced
<1>2. <<>> \in Seq(Events) /\ Reports(<<>>) = {} /\ \A kind : Count(<<>>, kind) = 0
  BY FS_EmptySet, SMT DEF Reports, Count
<1>3. Story(<<>>, 0, 0, 0, FALSE)
  BY <1>2, FS_EmptySet, SMT DEF Story, InTurn
<1>4. forwarded \in [Slots -> Seq(Events)] /\ queue \in [Slots -> Seq(Events)]
  BY <1>2 DEF Init
<1>5. ASSUME NEW s \in Slots
      PROVE  /\ Told(s) = <<>> /\ attempts[s] = 0 /\ completed[s] = 0 /\ failed[s] = 0
             /\ (pc[s] \in {"stopped", "done"}) = FALSE /\ pc[s] # "done"
  BY <1>5, SMT DEF Init, Told
<1> QED BY <1>1, <1>3, <1>4, <1>5 DEF StoryInv

\* When a slot has returned, the pool's receiver has been sent the whole story
\* of its summary, for any number of slots, attempts and late callbacks.
THEOREM ReportsCorrect == Spec => []ReportsMatchSummary
<1>1. AccountInv /\ StoryInv => ReportsMatchSummary
  <2> SUFFICES ASSUME StoryInv, NEW s \in Slots, pc[s] = "done"
               PROVE  Story(forwarded[s], attempts[s], completed[s], failed[s], TRUE)
    BY DEF ReportsMatchSummary, Story
  <2>1. queue[s] = <<>> /\ (pc[s] \in {"stopped", "done"}) = TRUE /\ forwarded[s] \in Seq(Events)
    BY DEF StoryInv
  <2>2. Told(s) = forwarded[s]
    BY <2>1, SMT DEF Told
  <2> QED BY <2>1, <2>2 DEF StoryInv
<1> QED BY <1>1, InitStoryInv, NextAccountInv, NextStoryInv, PTL DEF Spec

(***************************************************************************)
(* The consumers that the events tell of.                                  *)
(***************************************************************************)
Upto(log, kind, n) == {i \in DOMAIN log : i <= n /\ log[i] = kind}

\* After each event of the log, no more consumers have gone than have come.
Balanced(log) ==
  \A n \in DOMAIN log :
    Cardinality(Upto(log, "PeerDisconnected", n)) <= Cardinality(Upto(log, "PeerConnected", n))

\* Whoever counts the consumers of a slot by the events the pool forwards never
\* counts below zero, although the callbacks that send them run when they like,
\* after their session as well (supervise_peer_proxy_pool).
CountNeverNegative == \A s \in Slots : Balanced(forwarded[s])

\* The consumers whose disconnection may still be reported.
Present(s) == {a \in Connecting : peer[s][a] = "connected"}

\* The log of a slot with n consumers present.
Gauge(log, n, over) ==
  /\ Balanced(log)
  /\ ~over => Count(log, "PeerDisconnected") + n <= Count(log, "PeerConnected")

Consumers == [Connecting -> {"none", "connected", "gone", "back"}]

GaugeInv ==
  /\ peer \in [Slots -> Consumers]
  /\ \A s \in Slots : Gauge(Told(s), Cardinality(Present(s)), pc[s] = "done")

\* An event leaves the log balanced when its totals are.
LEMMA BalancedAppend ==
  ASSUME NEW log \in Seq(Events), NEW e \in Events, Balanced(log),
         Count(Append(log, e), "PeerDisconnected") <= Count(Append(log, e), "PeerConnected")
  PROVE  Balanced(Append(log, e))
<1> DEFINE new == Append(log, e)
           last == Len(log) + 1
<1>1. /\ DOMAIN new = DOMAIN log \cup {last} /\ last \in Nat
      /\ \A i \in DOMAIN log : new[i] = log[i] /\ i \in Nat /\ i < last
  BY AppendPositions
<1>0. Count(new, "PeerDisconnected") <= Count(new, "PeerConnected")
  OBVIOUS
<1> HIDE DEF new, last
<1>2. ASSUME NEW n \in DOMAIN log, NEW kind PROVE Upto(new, kind, n) = Upto(log, kind, n)
  <2>1. ~(last <= n)
    BY <1>1, SMT
  <2> QED BY <1>1, <2>1 DEF Upto
<1>3. ASSUME NEW kind PROVE Cardinality(Upto(new, kind, last)) = Count(new, kind)
  <2>1. \A i \in DOMAIN new : i <= last
    BY <1>1, SMT
  <2>2. Upto(new, kind, last) = {i \in DOMAIN new : new[i] = kind}
    BY <2>1 DEF Upto
  <2> QED BY <2>2 DEF Count
<1>4. ASSUME NEW n \in DOMAIN new
      PROVE  Cardinality(Upto(new, "PeerDisconnected", n)) <= Cardinality(Upto(new, "PeerConnected", n))
  <2>1. CASE n \in DOMAIN log
    BY <1>2, <2>1 DEF Balanced
  <2>2. CASE n = last
    <3>1. /\ Cardinality(Upto(new, "PeerDisconnected", last)) = Count(new, "PeerDisconnected")
          /\ Cardinality(Upto(new, "PeerConnected", last)) = Count(new, "PeerConnected")
      BY <1>3
    <3> QED BY <1>0, <2>2, <3>1
  <2> QED BY <1>1, <2>1, <2>2
<1> QED BY <1>4 DEF Balanced, new

\* What has been forwarded of a balanced log is balanced.
LEMMA BalancedPrefix ==
  ASSUME NEW a \in Seq(Events), NEW b \in Seq(Events), Balanced(a \o b)
  PROVE  Balanced(a)
<1>1. /\ DOMAIN a \subseteq DOMAIN (a \o b)
      /\ \A i \in DOMAIN a : (a \o b)[i] = a[i]
      /\ \A i \in DOMAIN (a \o b), n \in DOMAIN a : i <= n => i \in DOMAIN a
  BY SMT
<1>2. ASSUME NEW n \in DOMAIN a, NEW kind PROVE Upto(a \o b, kind, n) = Upto(a, kind, n)
  BY <1>1 DEF Upto
<1> QED BY <1>1, <1>2 DEF Balanced

\* The consumers present are finitely many.
LEMMA PresentFinite ==
  ASSUME NEW s \in Slots
  PROVE  IsFiniteSet(Present(s)) /\ Cardinality(Present(s)) \in Nat
<1>1. IsFiniteSet(1..MaxAttempts)
  BY SupervisorAssumption, FS_Interval, SMT
<1>2. Present(s) \subseteq 1..MaxAttempts
  BY SupervisorAssumption DEF Present
<1> QED BY <1>1, <1>2, FS_Subset, FS_CardinalityType

\* The part of the invariant about the slot that takes the step is enough.
LEMMA GaugeOfSlot ==
  ASSUME GaugeInv, NEW s \in Slots, peer' \in [Slots -> Consumers],
         \A t \in Slots \ {s} : Told(t)' = Told(t) /\ peer'[t] = peer[t] /\ pc'[t] = pc[t],
         Gauge(Told(s)', Cardinality(Present(s)'), pc'[s] = "done")
  PROVE  GaugeInv'
<1>1. ASSUME NEW t \in Slots PROVE Gauge(Told(t)', Cardinality(Present(t)'), pc'[t] = "done")
  <2>1. CASE t = s
    BY <2>1
  <2>2. CASE t # s
    BY <2>2 DEF GaugeInv, Present
  <2> QED BY <2>1, <2>2
<1> QED BY <1>1 DEF GaugeInv

\* An event is sent by a slot that has not returned, and the consumers change
\* as it says.
LEMMA GaugeEmit ==
  ASSUME AccountInv, StoryInv, GaugeInv, NEW s \in Slots, NEW e \in Events, Emit(s, e),
         UNCHANGED forwarded, pc[s] # "done",
         peer' \in [Slots -> Consumers], \A t \in Slots \ {s} : peer'[t] = peer[t] /\ pc'[t] = pc[t],
         Cardinality(Present(s)') \in Nat,
         e = "PeerConnected" => Cardinality(Present(s)') <= Cardinality(Present(s)) + 1,
         e = "PeerDisconnected" => Cardinality(Present(s)') + 1 <= Cardinality(Present(s)),
         e \notin PeerEvents => Cardinality(Present(s)') = Cardinality(Present(s))
  PROVE  GaugeInv'
<1> DEFINE log == Told(s)
           new == Append(log, e)
<1>1. log \in Seq(Events) /\ Gauge(log, Cardinality(Present(s)), FALSE)
  <2>1. (pc[s] = "done") = FALSE
    OBVIOUS
  <2> QED BY <2>1 DEF StoryInv, Story, GaugeInv
<1>2. Told(s)' = new /\ \A t \in Slots \ {s} : Told(t)' = Told(t)
  BY ToldEmit
<1>3. /\ Count(log, "PeerDisconnected") \in Nat /\ Count(log, "PeerConnected") \in Nat
      /\ Count(new, "PeerDisconnected") =
           IF "PeerDisconnected" = e THEN Count(log, "PeerDisconnected") + 1 ELSE Count(log, "PeerDisconnected")
      /\ Count(new, "PeerConnected") =
           IF "PeerConnected" = e THEN Count(log, "PeerConnected") + 1 ELSE Count(log, "PeerConnected")
  BY <1>1, AppendCount
<1>4. Cardinality(Present(s)) \in Nat
  BY PresentFinite
<1>5. Count(log, "PeerDisconnected") + Cardinality(Present(s)) <= Count(log, "PeerConnected")
  BY <1>1 DEF Gauge
<1> HIDE DEF new, log
<1>6. /\ Count(new, "PeerDisconnected") + Cardinality(Present(s)') <= Count(new, "PeerConnected")
      /\ Count(new, "PeerDisconnected") <= Count(new, "PeerConnected")
  BY <1>3, <1>4, <1>5, SMT DEF PeerEvents
<1>7. Balanced(new)
  BY <1>1, <1>6, BalancedAppend DEF Gauge, new
<1> QED BY <1>2, <1>6, <1>7, GaugeOfSlot DEF Gauge

\* Every step of the pool keeps the logs balanced.
LEMMA NextGaugeInv == AccountInv /\ StoryInv /\ GaugeInv /\ [Next]_vars => GaugeInv'
<1> SUFFICES ASSUME AccountInv, StoryInv, GaugeInv, [Next]_vars PROVE GaugeInv'
  OBVIOUS
<1>1. ASSUME NEW s \in Slots, NEW e \in Events \ PeerEvents, Emit(s, e), UNCHANGED <<forwarded, peer>>,
             pc[s] # "done", NEW place, pc' = [pc EXCEPT ![s] = place]
      PROVE  GaugeInv'
  <2>1. \A t \in Slots \ {s} : pc'[t] = pc[t]
    BY <1>1 DEF AccountInv
  <2>2. Present(s)' = Present(s) /\ Cardinality(Present(s)) \in Nat
    BY <1>1, PresentFinite DEF Present
  <2>3. e # "PeerConnected" /\ e # "PeerDisconnected" /\ peer' \in [Slots -> Consumers]
    BY <1>1 DEF PeerEvents, GaugeInv
  <2> QED BY <1>1, <2>1, <2>2, <2>3, GaugeEmit
<1>2. ASSUME UNCHANGED peer, \A t \in Slots : Told(t)' = Told(t) /\ (pc[t] = "done" => pc'[t] = "done")
      PROVE  GaugeInv'
  BY <1>2 DEF GaugeInv, Gauge, Present
<1>3. ASSUME NEW s \in Slots, BeginAttempt(s) PROVE GaugeInv'
  <2>1. PICK e \in Events \ PeerEvents, place \in {"session", "sleep", "stopped"} :
          Emit(s, e) /\ pc' = [pc EXCEPT ![s] = place]
    BY <1>3 DEF BeginAttempt, Events, PeerEvents
  <2> QED BY <1>1, <1>3, <2>1 DEF BeginAttempt
<1>4. ASSUME NEW s \in Slots, SessionReturns(s) PROVE GaugeInv'
  <2>1. PICK o \in Outcomes \cup {Cancellation}, percent \in Percents : EndSession(s, o, percent)
    BY <1>4 DEF SessionReturns
  <2>2. PICK e \in Events \ PeerEvents, place \in {"session", "sleep", "stopped"} :
          Emit(s, e) /\ pc' = [pc EXCEPT ![s] = place]
    BY <2>1 DEF EndSession, Events, PeerEvents
  <2>3. pc[s] = "session" /\ UNCHANGED <<forwarded, peer>>
    BY <2>1 DEF EndSession
  <2> QED BY <1>1, <2>2, <2>3
<1>5. ASSUME NEW s \in Slots, EndSleep(s) PROVE GaugeInv'
  <2>1. pc[s] = "sleep" /\ UNCHANGED <<forwarded, peer>>
    BY <1>5 DEF EndSleep
  <2>2. CASE cancelled
    <3>1. Emit(s, "Stopped") /\ pc' = [pc EXCEPT ![s] = "stopped"]
      BY <1>5, <2>2 DEF EndSleep
    <3>2. "Stopped" \in Events \ PeerEvents
      BY DEF Events, PeerEvents
    <3> QED BY <1>1, <2>1, <3>1, <3>2
  <2>3. CASE ~cancelled
    <3>1. pc' = [pc EXCEPT ![s] = "loop"] /\ UNCHANGED queue
      BY <1>5, <2>3 DEF EndSleep
    <3>2. \A t \in Slots : pc[t] = "done" => pc'[t] = "done"
      BY <2>1, <3>1 DEF AccountInv
    <3> QED BY <1>2, <2>1, <3>1, <3>2 DEF Told
  <2> QED BY <2>2, <2>3
<1>6. ASSUME NEW s \in Slots, Forward(s) \/ FinishSlot(s) PROVE GaugeInv'
  <2>1. \A t \in Slots : Told(t)' = Told(t)
    BY <1>6, ToldMoved
  <2>2. UNCHANGED peer /\ \A t \in Slots : pc[t] = "done" => pc'[t] = "done"
    BY <1>6 DEF Forward, FinishSlot, AccountInv
  <2> QED BY <1>2, <2>1, <2>2
<1>7. ASSUME NEW s \in Slots, NEW e \in PeerEvents, Callback(s, e), UNCHANGED <<forwarded, pc>>,
             NEW a \in Connecting, NEW to \in {"connected", "back", "gone"},
             peer' = [peer EXCEPT ![s][a] = to],
             e = "PeerDisconnected" => peer[s][a] = "connected" /\ to = "gone",
             e = "PeerConnected" => peer[s][a] # "connected"
      PROVE  GaugeInv'
  <2>1. peer' \in [Slots -> Consumers] /\ \A t \in Slots \ {s} : peer'[t] = peer[t]
    BY <1>7 DEF GaugeInv, Consumers
  <2>2. peer'[s] = [peer[s] EXCEPT ![a] = to] /\ peer[s] \in Consumers
    BY <1>7 DEF GaugeInv
  <2>3. Present(s)' = IF to = "connected" THEN Present(s) \cup {a} ELSE Present(s) \ {a}
    BY <2>2 DEF Present, Consumers
  <2>4. CASE pc[s] = "done"
    <3>1. UNCHANGED queue
      BY <1>7, <2>4 DEF Callback
    <3>2. \A t \in Slots : Told(t)' = Told(t)
      BY <1>7, <3>1 DEF Told
    <3>3. Gauge(Told(s)', Cardinality(Present(s)'), pc'[s] = "done")
      BY <1>7, <2>4, <3>2 DEF GaugeInv, Gauge
    <3> QED BY <1>7, <2>1, <3>2, <3>3, GaugeOfSlot
  <2>5. CASE pc[s] # "done"
    <3>1. Emit(s, e) /\ e \in Events
      BY <1>7, <2>5 DEF Callback, Events
    <3>2. IsFiniteSet(Present(s)) /\ Cardinality(Present(s)) \in Nat
      BY PresentFinite
    <3>3. /\ Cardinality(Present(s) \cup {a}) \in {Cardinality(Present(s)), Cardinality(Present(s)) + 1}
          /\ Cardinality(Present(s) \ {a}) =
               IF a \in Present(s) THEN Cardinality(Present(s)) - 1 ELSE Cardinality(Present(s))
      BY <3>2, FS_AddElement, FS_RemoveElement
    <3>4. e = "PeerDisconnected" <=> a \in Present(s)
      BY <1>7 DEF PeerEvents, Present
    <3>5. a \in Present(s) => Cardinality(Present(s)) # 0
      BY <3>2, FS_EmptySet
    <3>6. /\ Cardinality(Present(s)') \in Nat
          /\ e = "PeerConnected" => Cardinality(Present(s)') <= Cardinality(Present(s)) + 1
          /\ e = "PeerDisconnected" => Cardinality(Present(s)') + 1 <= Cardinality(Present(s))
      BY <1>7, <2>3, <3>2, <3>3, <3>4, <3>5, SMT DEF PeerEvents
    <3> QED BY <1>7, <2>1, <2>5, <3>1, <3>6, GaugeEmit
  <2> QED BY <2>4, <2>5
<1>8. ASSUME NEW s \in Slots, PeerConnects(s) PROVE GaugeInv'
  <2>1. PICK a \in Connecting :
          /\ peer[s][a] \in {"none", "gone"}
          /\ peer' = [peer EXCEPT ![s][a] = IF peer[s][a] = "none" THEN "connected" ELSE "back"]
    BY <1>8 DEF PeerConnects, GaugeInv
  <2>2. PICK to \in {"connected", "back"} : peer' = [peer EXCEPT ![s][a] = to]
    BY <2>1
  <2>3. Callback(s, "PeerConnected") /\ UNCHANGED <<forwarded, pc>> /\ "PeerConnected" \in PeerEvents
    BY <1>8 DEF PeerConnects, PeerEvents
  <2>4. to \in {"connected", "back", "gone"} /\ peer[s][a] # "connected" /\ "PeerConnected" # "PeerDisconnected"
    BY <2>1
  <2> QED BY <1>7, <2>2, <2>3, <2>4
<1>9. ASSUME NEW s \in Slots, PeerDisconnects(s) PROVE GaugeInv'
  <2>1. PICK a \in Connecting : peer[s][a] = "connected" /\ peer' = [peer EXCEPT ![s][a] = "gone"]
    BY <1>9 DEF PeerDisconnects
  <2>2. Callback(s, "PeerDisconnected") /\ UNCHANGED <<forwarded, pc>> /\ "PeerDisconnected" \in PeerEvents
    BY <1>9 DEF PeerDisconnects, PeerEvents
  <2> QED BY <1>7, <2>1, <2>2
<1>10. CASE Cancel \/ UNCHANGED vars
  <2>1. UNCHANGED <<forwarded, queue, pc, peer>>
    BY <1>10 DEF Cancel, vars
  <2> QED BY <1>2, <2>1 DEF Told
<1> QED BY <1>3, <1>4, <1>5, <1>6, <1>8, <1>9, <1>10 DEF Next

\* In no pool, with any number of slots and attempts, do the events that are
\* forwarded for a slot ever tell of more consumers gone than have come.
THEOREM CountCorrect == Spec => []CountNeverNegative
<1>1. Init => GaugeInv
  <2> SUFFICES ASSUME Init PROVE GaugeInv
    OBVIOUS
  <2>1. peer \in [Slots -> Consumers]
    BY DEF Init, Consumers
  <2>2. ASSUME NEW s \in Slots PROVE Told(s) = <<>> /\ Present(s) = {}
    BY SMT DEF Init, Told, Present
  <2>3. Balanced(<<>>) /\ \A kind : Count(<<>>, kind) = 0
    BY FS_EmptySet, SMT DEF Balanced, Count
  <2>4. Gauge(<<>>, Cardinality({}), FALSE)
    BY <2>3, FS_EmptySet, SMT DEF Gauge
  <2>5. \A s \in Slots : (pc[s] = "done") = FALSE
    BY SMT DEF Init
  <2> QED BY <2>1, <2>2, <2>4, <2>5 DEF GaugeInv
<1>2. StoryInv /\ GaugeInv => CountNeverNegative
  <2> SUFFICES ASSUME StoryInv, GaugeInv, NEW s \in Slots PROVE Balanced(forwarded[s])
    BY DEF CountNeverNegative
  <2>1. forwarded[s] \in Seq(Events) /\ queue[s] \in Seq(Events) /\ Balanced(forwarded[s] \o queue[s])
    BY DEF StoryInv, GaugeInv, Gauge, Told
  <2> QED BY <2>1, BalancedPrefix
<1> QED BY <1>1, <1>2, InitStoryInv, NextAccountInv, NextStoryInv, NextGaugeInv, PTL DEF Spec
=============================================================================
