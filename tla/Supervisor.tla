----------------------------- MODULE Supervisor -----------------------------
(***************************************************************************)
(* The peer proxy's process lifecycle (supervisor.rs): supervise_with runs *)
(* one session after another with a jittered exponential backoff, and      *)
(* supervise_peer_proxy_pool runs one supervisor per slot, forwards the    *)
(* events of each and joins them all.                                      *)
(*                                                                         *)
(* run_session is a parameter of the code; here it is a step that returns  *)
(* any result, and the WebRTC callbacks of a session, which send events    *)
(* of their own and may fire after the session has returned, as            *)
(* SessionContract says; PeerSession models the session itself and         *)
(* implements that contract.                                               *)
(*                                                                         *)
(* Durations are numbers of one small unit; a session that relayed has a   *)
(* relay duration, so relay durations are sets of at most one number.      *)
(***************************************************************************)
EXTENDS Integers, Sequences, FiniteSets

CONSTANTS Slots,           \* the slots of the pool
          MaxAttempts,     \* bound on the attempts of each slot
          Connecting,      \* the attempts in which a consumer may connect
          InitialBackoff,  \* config.initial_backoff
          MaxBackoff,      \* config.max_backoff
          Tick,            \* what nonzero() puts in the place of a zero delay
          StableSession,   \* config.stable_session
          RelayTimes,      \* relay durations that may be measured
          Percents         \* outcomes of the jitter's entropy

ASSUME SupervisorAssumption ==
  /\ MaxAttempts \in Nat
  /\ Connecting \subseteq 1..MaxAttempts
  /\ InitialBackoff \in Nat
  /\ MaxBackoff \in Nat
  /\ Tick \in Nat \ {0}
  /\ StableSession \in Nat
  /\ RelayTimes \subseteq Nat
  /\ Percents \subseteq 80..120

VARIABLES
  pc,         \* pc[s]: "loop", "session", "sleep", "stopped" (the supervisor has returned),
              \* "done" (its events are drained and the slot has returned)
  attempts, completed, failed,    \* SupervisorSummary
  backoff,    \* backoff[s]
  retryIn,    \* retryIn[s]: the delay under way, 0 outside it
  outcome,    \* outcome[s]: result and relay duration of the session that returned last
  cancelled,  \* the pool's token; the slots have child tokens of it
  queue,      \* queue[s]: worker_events
  forwarded,  \* forwarded[s]: events sent on to the pool's receiver
  peer,       \* peer[s][a]: the consumer of attempt a: "none", "connected",
              \* "gone" or "back"
  lost        \* lost[s]: events sent to a receiver that is gone (history)

countVars == <<attempts, completed, failed>>
vars == <<pc, countVars, backoff, retryIn, outcome, cancelled, queue, forwarded, peer, lost>>

NoOutcome == [result |-> "none", relay |-> {}]
Outcomes == [result : {"Ok"}, relay : {{d} : d \in RelayTimes}]
              \cup [result : {"Err"}, relay : {{d} : d \in RelayTimes} \cup {{}}]
Cancellation == [result |-> "Cancelled", relay |-> {}]

Smaller(a, b) == IF a < b THEN a ELSE b
Larger(a, b) == IF a < b THEN b ELSE a

\* nonzero(config.initial_backoff)
Initial == IF InitialBackoff = 0 THEN Tick ELSE InitialBackoff
\* config.max_backoff.max(initial_backoff)
Ceiling == Larger(MaxBackoff, Initial)

Init ==
  /\ pc = [s \in Slots |-> "loop"]
  /\ attempts = [s \in Slots |-> 0]
  /\ completed = [s \in Slots |-> 0]
  /\ failed = [s \in Slots |-> 0]
  /\ backoff = [s \in Slots |-> Initial]
  /\ retryIn = [s \in Slots |-> 0]
  /\ outcome = [s \in Slots |-> NoOutcome]
  /\ cancelled = FALSE
  /\ queue = [s \in Slots |-> <<>>]
  /\ forwarded = [s \in Slots |-> <<>>]
  /\ peer = [s \in Slots |-> [a \in Connecting |-> "none"]]
  /\ lost = [s \in Slots |-> 0]

-----------------------------------------------------------------------------
(* supervise_with.                                                         *)

\* emit: the slot's receiver lives at least as long as its supervisor.
Emit(s, event) == queue' = [queue EXCEPT ![s] = Append(@, event)]

\* The top of the loop: stop, or count an attempt and run its session.
BeginAttempt(s) ==
  /\ pc[s] = "loop"
  /\ IF cancelled
       THEN /\ pc' = [pc EXCEPT ![s] = "stopped"]
            /\ Emit(s, "Stopped")
            /\ UNCHANGED attempts
       ELSE /\ attempts[s] < MaxAttempts
            /\ attempts' = [attempts EXCEPT ![s] = @ + 1]
            /\ pc' = [pc EXCEPT ![s] = "session"]
            /\ Emit(s, "AttemptStarted")
  /\ UNCHANGED <<completed, failed, backoff, retryIn, outcome, cancelled, forwarded, peer, lost>>

\* Mutant of Stable: any completed session resets the backoff.
StableIfCompleted(o) == o.result = "Ok"

\* relay_duration >= stable_session, for a result that has one.
Stable(o) == \E d \in o.relay : d >= StableSession

\* Mutant of Jittered: the cap is forgotten.
JitteredUncapped(base, percent) == (base * percent) \div 100

\* jittered(backoff, entropy).min(max_backoff)
Jittered(base, percent) == Smaller((base * percent) \div 100, Ceiling)

\* backoff.saturating_mul(2).min(max_backoff)
Doubled(base) == Smaller(2 * base, Ceiling)

\* Mutant of Abandoned: only the session's own Cancelled is recognised, and an
\* error that races with shutdown counts as a failure.
AbandonedIfCancelled(o) == o.result = "Cancelled" /\ cancelled

\* An error while the slot is being cancelled is not a failure.
Abandoned(o) == o.result # "Ok" /\ cancelled

\* run_session returns: classify the result, compute the delay, report.
EndSession(s, o, percent) ==
  LET base == IF Stable(o) THEN Initial ELSE backoff[s] IN
  /\ pc[s] = "session"
  /\ o = Cancellation => cancelled
  /\ outcome' = [outcome EXCEPT ![s] = o]
  /\ IF Abandoned(o)
       THEN /\ pc' = [pc EXCEPT ![s] = "stopped"]
            /\ Emit(s, "Stopped")
            /\ UNCHANGED <<completed, failed, backoff, retryIn>>
       ELSE /\ pc' = [pc EXCEPT ![s] = "sleep"]
            /\ retryIn' = [retryIn EXCEPT ![s] = Jittered(base, percent)]
            /\ backoff' = [backoff EXCEPT ![s] = IF Stable(o) THEN base ELSE Doubled(base)]
            /\ IF o.result = "Ok"
                 THEN /\ completed' = [completed EXCEPT ![s] = @ + 1]
                      /\ Emit(s, "SessionEnded")
                      /\ UNCHANGED failed
                 ELSE /\ failed' = [failed EXCEPT ![s] = @ + 1]
                      /\ Emit(s, "AttemptFailed")
                      /\ UNCHANGED completed
  /\ UNCHANGED <<attempts, cancelled, forwarded, peer, lost>>

\* The delay, cut short by cancellation; retry_in and result go out of scope.
EndSleep(s) ==
  /\ pc[s] = "sleep"
  /\ IF cancelled
       THEN /\ pc' = [pc EXCEPT ![s] = "stopped"]
            /\ Emit(s, "Stopped")
       ELSE /\ pc' = [pc EXCEPT ![s] = "loop"]
            /\ UNCHANGED queue
  /\ retryIn' = [retryIn EXCEPT ![s] = 0]
  /\ outcome' = [outcome EXCEPT ![s] = IF cancelled THEN @ ELSE NoOutcome]
  /\ UNCHANGED <<countVars, backoff, cancelled, forwarded, peer, lost>>

-----------------------------------------------------------------------------
(* The WebRTC state-change callbacks of the sessions, which hold clones of  *)
(* the event sender.                                                        *)

Callback(s, event) ==
  IF pc[s] = "done"
    THEN /\ lost' = [lost EXCEPT ![s] = @ + 1]
         /\ UNCHANGED queue
    ELSE /\ Emit(s, event)
         /\ UNCHANGED lost

\* The consumer of an attempt connects, or comes back; the report may come
\* when the attempt is over (SessionContract).
PeerConnects(s) ==
  /\ \E a \in Connecting :
       /\ a <= attempts[s]
       /\ peer[s][a] \in {"none", "gone"}
       /\ peer' = [peer EXCEPT ![s][a] = IF @ = "none" THEN "connected" ELSE "back"]
  /\ Callback(s, "PeerConnected")
  /\ UNCHANGED <<pc, countVars, backoff, retryIn, outcome, cancelled, forwarded>>

\* Its disconnection is noticed, during the session or later.
PeerDisconnects(s) ==
  /\ \E a \in Connecting :
       /\ peer[s][a] = "connected"
       /\ peer' = [peer EXCEPT ![s][a] = "gone"]
  /\ Callback(s, "PeerDisconnected")
  /\ UNCHANGED <<pc, countVars, backoff, retryIn, outcome, cancelled, forwarded>>

-----------------------------------------------------------------------------
(* supervise_peer_proxy_pool.                                              *)

\* The forwarding branch of the slot's select.
Forward(s) ==
  /\ pc[s] \notin {"stopped", "done"}
  /\ queue[s] # <<>>
  /\ forwarded' = [forwarded EXCEPT ![s] = Append(@, Head(queue[s]))]
  /\ queue' = [queue EXCEPT ![s] = Tail(@)]
  /\ UNCHANGED <<pc, countVars, backoff, retryIn, outcome, cancelled, peer, lost>>

\* Mutant of MayFinish: wait until every clone of the sender is gone.
MayFinishWhenClosed(s) == \A a \in Connecting : peer[s][a] # "connected"

\* The slot's loop ends with its supervisor, whoever else holds a sender.
MayFinish(s) == TRUE

\* Mutant of Drained: leave what is still queued.
DrainedNothing(s) == <<>>

\* The events the final try_recv loop takes.
Drained(s) == queue[s]

\* The supervisor has returned: drain the events and return the summary.
FinishSlot(s) ==
  /\ pc[s] = "stopped"
  /\ MayFinish(s)
  /\ pc' = [pc EXCEPT ![s] = "done"]
  /\ forwarded' = [forwarded EXCEPT ![s] = @ \o Drained(s)]
  /\ queue' = [queue EXCEPT ![s] = <<>>]
  /\ UNCHANGED <<countVars, backoff, retryIn, outcome, cancelled, peer, lost>>

Cancel ==
  /\ ~cancelled
  /\ cancelled' = TRUE
  /\ UNCHANGED <<pc, countVars, backoff, retryIn, outcome, queue, forwarded, peer, lost>>

-----------------------------------------------------------------------------
SessionReturns(s) ==
  \E o \in Outcomes \cup {Cancellation}, percent \in Percents : EndSession(s, o, percent)

Next ==
  \/ \E s \in Slots :
       \/ BeginAttempt(s) \/ SessionReturns(s) \/ EndSleep(s)
       \/ Forward(s) \/ FinishSlot(s)
       \/ PeerConnects(s) \/ PeerDisconnects(s)
  \/ Cancel

Spec == Init /\ [][Next]_vars

\* The pool's task is polled, timers fire, and a cancelled session returns:
\* its select is biased towards the token.  Nothing makes a session return
\* before that, or a callback run.
SlotStep(s) ==
  \/ BeginAttempt(s) \/ EndSleep(s) \/ FinishSlot(s)
  \/ cancelled /\ SessionReturns(s)

FairSpec == Spec /\ \A s \in Slots : WF_vars(SlotStep(s))

-----------------------------------------------------------------------------
\* However sessions end, the backoff stays between the initial and the
\* effective maximum delay, and no slot ever waits longer than the maximum,
\* jitter included, or less than the least jitter of the initial delay: no
\* run of failures turns the retry loop into a busy loop (supervise_with).
RetryBounded ==
  \A s \in Slots :
    /\ Initial <= backoff[s] /\ backoff[s] <= Ceiling
    /\ pc[s] = "sleep" =>
         /\ retryIn[s] <= Ceiling
         /\ (Initial * 80) \div 100 <= retryIn[s]

SummaryBalanced ==
  \A s \in Slots :
    LET open == attempts[s] - completed[s] - failed[s] IN
    /\ open \in {0, 1}
    /\ pc[s] = "session" => open = 1
    /\ pc[s] \in {"loop", "sleep"} => open = 0
    /\ pc[s] \in {"stopped", "done"} =>
         /\ outcome[s].result = "Cancelled" => open = 1
         /\ outcome[s].result = "Ok" => open = 0

\* Every attempt is in the summary once: as completed, as failed, or as the
\* one attempt under way or abandoned to cancellation.  From the moment the
\* token is cancelled nothing more is a failure, whatever error the session
\* returns and however closely it races with the token; and only a session that
\* returned Ok is ever completed (the check after run_session).
AttemptsAccounted ==
  /\ []SummaryBalanced
  /\ [][\A s \in Slots :
          /\ failed'[s] # failed[s] => ~cancelled /\ outcome'[s].result = "Err"
          /\ completed'[s] # completed[s] => outcome'[s].result = "Ok"]_vars

PeerEvents == {"PeerConnected", "PeerDisconnected"}
Reports(log) == {i \in DOMAIN log : log[i] \notin PeerEvents}
Earlier(log, i) == {j \in Reports(log) : j < i}
Count(log, kind) == Cardinality({i \in DOMAIN log : log[i] = kind})

\* Starts and ends of attempts alternate.
InTurn(log) ==
  \A i \in Reports(log) : log[i] # "Stopped" =>
    (log[i] = "AttemptStarted" <=> Cardinality(Earlier(log, i)) % 2 = 0)

\* Stopped is the last report and the only one of its kind.
EndsStopped(log) ==
  \E last \in Reports(log) :
    /\ log[last] = "Stopped"
    /\ \A i \in Reports(log) : i <= last
    /\ \A i \in Reports(log) : log[i] = "Stopped" => i = last

\* When a slot has returned, what the pool's receiver was sent about it tells
\* the whole story of its summary: attempts start and end in turn, as often as
\* the summary counts, and Stopped is last, although events are forwarded and
\* drained concurrently with the callbacks' own (supervise_peer_proxy_pool).
ReportsMatchSummary ==
  \A s \in Slots : pc[s] = "done" =>
    LET log == forwarded[s] IN
    /\ InTurn(log)
    /\ EndsStopped(log)
    /\ Count(log, "AttemptStarted") = attempts[s]
    /\ Count(log, "SessionEnded") = completed[s]
    /\ Count(log, "AttemptFailed") = failed[s]

\* The backoff of a slot is only ever reduced by a session that relayed for
\* at least stable_session; a session that completed early, or failed after a
\* short relay, keeps the slot backing off (the stable flag).
OnlyStableSessionsReset ==
  [][\A s \in Slots : backoff'[s] < backoff[s] =>
       \E d \in outcome'[s].relay : d >= StableSession]_vars

\* Once the token is cancelled every slot returns, even while callbacks of
\* its sessions still hold the event sender (the comment in the pool's loop).
ShutdownCompletes == cancelled ~> \A s \in Slots : pc[s] = "done"

\* What that comment claims: "draining once it completes forwards every event
\* without loss".
NoEventLost == \A s \in Slots : lost[s] = 0
=============================================================================
