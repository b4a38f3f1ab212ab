------------------------------ MODULE WebRetry ------------------------------
(***************************************************************************)
(* httpClient.Get of internal/web: one GET request, made again after a     *)
(* delay as long as its status is one of the configured ones and retries   *)
(* are left.  WithRetry waits for a timer or for the end of the context,   *)
(* whichever comes first; when both have come, Go chooses any.             *)
(*                                                                         *)
(* A caller is busy with one Get at a time.  The module has its steps; the *)
(* module of the caller composes them with its own.                        *)
(***************************************************************************)
EXTENDS Integers

CONSTANT Callers

\* What comes of a request: the status that is expected, one of Retrieables,
\* another one, or no response, as the request cannot be made or times out.
Answers == {"expected", "retryable", "other", "none"}

VARIABLES
  phase,    \* "idle", "timer", "request", "late", "answered" or "refused"
  counter,  \* retries so far
  sent,     \* requests so far, with at most one more than are allowed counted
  last,     \* the last of the answers
  body,     \* the body of the last response: "none", "open" or "closed"
  ended     \* ctx of the caller is done

webVars == <<phase, counter, sent, last, body, ended>>

WebInit ==
  /\ phase = [p \in Callers |-> "idle"]
  /\ counter = [p \in Callers |-> 0]
  /\ sent = [p \in Callers |-> 0]
  /\ last = [p \in Callers |-> "none"]
  /\ body = [p \in Callers |-> "none"]
  /\ ended = [p \in Callers |-> FALSE]

InPhase(p, label) == phase' = [phase EXCEPT ![p] = label]

\* The call of Get, which sets the timer to Delay.
Get(p) ==
  /\ phase[p] = "idle"
  /\ InPhase(p, "timer")
  /\ counter' = [counter EXCEPT ![p] = 0]
  /\ sent' = [sent EXCEPT ![p] = 0]
  /\ UNCHANGED <<last, body, ended>>

\* A request that is made after the end of the context fails at once.
TimerFires(p, retries) ==
  /\ phase[p] = "timer"
  /\ InPhase(p, IF ended[p] THEN "late" ELSE "request")
  /\ sent' = [sent EXCEPT ![p] = IF @ <= retries + 1 THEN @ + 1 ELSE @]
  /\ UNCHANGED <<counter, last, body, ended>>

StopsWaiting(p) ==
  /\ phase[p] = "timer"
  /\ ended[p]
  /\ InPhase(p, "refused")
  /\ UNCHANGED <<counter, sent, last, body, ended>>

LeavesBody(answer) == IF answer = "none" THEN "none" ELSE "open"  \* mutant

\* The body of an unexpected status is read for its message and closed.
BodyAfter(answer) ==
  CASE answer = "expected" -> "open"
    [] answer = "none"     -> "none"
    [] OTHER               -> "closed"

OneTooMany(n, retries) == n <= retries                         \* mutant
RetryLeft(n, retries) == n # retries

NeverAgain == "asleep"                                         \* mutant

\* t.Reset(cfg.RetryDelay)
WaitAgain == "timer"

Answered(p, answer, retries) ==
  /\ \/ phase[p] = "request"
     \/ phase[p] = "late" /\ answer = "none"
  /\ last' = [last EXCEPT ![p] = answer]
  /\ body' = [body EXCEPT ![p] = BodyAfter(answer)]
  /\ CASE answer = "expected" -> InPhase(p, "answered") /\ UNCHANGED counter
       [] answer = "retryable" /\ RetryLeft(counter[p], retries) ->
            /\ counter' = [counter EXCEPT ![p] = @ + 1]
            /\ InPhase(p, WaitAgain)
       [] OTHER -> InPhase(p, "refused") /\ UNCHANGED counter
  /\ UNCHANGED <<sent, ended>>

\* The caller, or something it listens to, ends its context.
EndContext(p) ==
  /\ phase[p] \in {"timer", "request"} /\ ~ ended[p]
  /\ ended' = [ended EXCEPT ![p] = TRUE]
  /\ UNCHANGED <<phase, counter, sent, last, body>>

CloseBody(p) ==
  body' = [body EXCEPT ![p] = IF @ = "open" THEN "closed" ELSE @]

\* Get has its answer, and the caller is done with what came of it.
Release(p) ==
  /\ InPhase(p, "idle")
  /\ CloseBody(p)
  /\ UNCHANGED <<counter, sent, last, ended>>

\* The process of the caller ends, and its sockets with it.
Forget(p) ==
  /\ InPhase(p, "idle")
  /\ body' = [body EXCEPT ![p] = "none"]
  /\ ended' = [ended EXCEPT ![p] = FALSE]
  /\ UNCHANGED <<counter, sent, last>>

-----------------------------------------------------------------------------
WebTypeOK ==
  /\ phase \in [Callers -> {"idle", "timer", "request", "late", "answered", "refused"}]
  /\ counter \in [Callers -> Nat]
  /\ sent \in [Callers -> Nat]
  /\ last \in [Callers -> Answers]
  /\ body \in [Callers -> {"none", "open", "closed"}]
  /\ ended \in [Callers -> BOOLEAN]
=============================================================================
