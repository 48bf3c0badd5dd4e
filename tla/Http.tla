-------------------------------- MODULE Http --------------------------------
(***************************************************************************)
(* HttpClient::send: a request takes a token from the bucket of its host,  *)
(* is sent, and is answered, refused, cut off or timed out; what may pass  *)
(* is tried again after a pause, with a token of its own for each attempt. *)
(* The bucket is shared by all tasks of the process; until_ready looks     *)
(* again when it is woken, and nobody queues.                              *)
(*                                                                         *)
(* Hosts share nothing, so there is one host here.  A tick of the clock is *)
(* the time in which the bucket gains one token.                           *)
(***************************************************************************)
EXTENDS Integers

CONSTANTS
    Tasks,          \* tasks of one process
    Contents,       \* what upstream may have under the URL
    Absent,         \* ... that it has nothing, among them
    Statuses,       \* error statuses upstream may answer with, but 404
    MaxRetries,     \* self.max_retries
    Capacities,     \* what DOMAIN_RATE_LIMITS may give as capacity of the host
    Window          \* the longest window that is looked at, in ticks

NoResult == "none"
Failed   == "failed"

Silent   == 0           \* no answer so far
Broken   == 1           \* reqwest::Error without a status: transport, timeout, body
Success  == 200
NotFound == 404
NoLimit  == -1          \* the host is not in DOMAIN_RATE_LIMITS

ASSUME HttpAssumption ==
    /\ Absent \in Contents /\ {NoResult, Failed} \cap Contents = {}
    /\ Statuses \subseteq 400 .. 599 /\ NotFound \notin Statuses
    /\ MaxRetries \in Nat /\ Window \in Nat
    /\ Capacities \subseteq Nat

VARIABLES
    limit,      \* the capacity configured, or NoLimit
    tokens,     \* in the bucket
    upstream,   \* what upstream has now
    stage,      \* of each task: where its request is
    attempt,    \* ... which attempt it is at
    reply,      \* ... the status that has been sent back for it
    body,       \* ... and what came with a success
    outcome,    \* ... how its last attempt ended
    result,     \* ... what the last call returned
    had,        \* history: what upstream has had since the call began
    sent        \* history: requests sent in the last 1, 2, ... ticks

vars == <<limit, tokens, upstream, stage, attempt, reply, body, outcome, result, had, sent>>

Attempts == MaxRetries + 1
Stages   == {"idle", "wait", "flight", "backoff"}

Larger(a, b)  == IF a < b THEN b ELSE a
Smaller(a, b) == IF a < b THEN a ELSE b

\* A capacity of 0 counts as 1.
Burst(n) == Larger(n, 1)

\* Mutant: as in the Python version, 429 is final.
RetryableNot429(e) == e = Broken \/ e >= 500

Retryable(e) == e = Broken \/ e = 429 \/ e >= 500

\* Mutant: every status a repetition would not change.
IsNotFoundAny(e) == e >= 400 /\ ~Retryable(e)

IsNotFound(e) == e = NotFound

-----------------------------------------------------------------------------
(* send *)

Begin(t) ==
    /\ stage[t] = "idle"
    /\ stage' = [stage EXCEPT ![t] = "wait"]
    /\ attempt' = [attempt EXCEPT ![t] = 1]
    /\ outcome' = [outcome EXCEPT ![t] = Silent]
    /\ result' = [result EXCEPT ![t] = NoResult]
    /\ had' = [had EXCEPT ![t] = {upstream}]
    /\ UNCHANGED <<limit, tokens, upstream, reply, body, sent>>

\* Mutant: one token for the call, whatever its attempts.
TakesTokenOnce(t) == limit # NoLimit /\ attempt[t] = 1

\* acquire: a host that is not listed is not limited.
TakesToken(t) == limit # NoLimit

\* A token is there, and the request goes out.
Send(t) ==
    /\ stage[t] = "wait"
    /\ IF TakesToken(t) THEN tokens > 0 /\ tokens' = tokens - 1 ELSE UNCHANGED tokens
    /\ stage' = [stage EXCEPT ![t] = "flight"]
    /\ sent' = IF limit = NoLimit THEN sent ELSE [k \in 1 .. Window |-> sent[k] + 1]
    /\ UNCHANGED <<limit, upstream, attempt, reply, body, outcome, result, had>>

\* The connection is done with: an answer that comes later has nobody to read it.
Hangup(t) ==
    /\ reply' = [reply EXCEPT ![t] = Silent]
    /\ body' = [body EXCEPT ![t] = Absent]

Return(t, r) ==
    /\ stage' = [stage EXCEPT ![t] = "idle"]
    /\ result' = [result EXCEPT ![t] = r]
    /\ had' = [had EXCEPT ![t] = {}]

\* Mutant: one attempt too many.
RetriesOnceMore(t, e) == Retryable(e) /\ attempt[t] <= Attempts

Retries(t, e) == Retryable(e) /\ attempt[t] < Attempts

\* An attempt that failed with e: once more after a pause, or the error is
\* returned.
FailWith(t, e) ==
    /\ outcome' = [outcome EXCEPT ![t] = e]
    /\ \/ /\ Retries(t, e)
          /\ stage' = [stage EXCEPT ![t] = "backoff"]
          /\ UNCHANGED <<result, had>>
       \/ /\ ~Retries(t, e)
          /\ Return(t, IF IsNotFound(e) THEN Absent ELSE Failed)
    /\ Hangup(t)
    /\ UNCHANGED <<limit, tokens, upstream, attempt, sent>>

\* The answer is read: a success, or a status that is none.
Receive(t) ==
    /\ stage[t] = "flight" /\ reply[t] # Silent
    /\ \/ /\ reply[t] = Success
          /\ Return(t, body[t])
          /\ outcome' = [outcome EXCEPT ![t] = Success]
          /\ Hangup(t)
          /\ UNCHANGED <<limit, tokens, upstream, attempt, sent>>
       \/ /\ reply[t] # Success
          /\ FailWith(t, reply[t])

\* Mutant: no REQUEST_TIMEOUT, a peer that is silent is waited for.
BreakNoTimeout(t) == stage[t] = "flight" /\ reply[t] # Silent /\ FailWith(t, Broken)

\* The connection fails, REQUEST_TIMEOUT passes, or the body cannot be read.
Break(t) == stage[t] = "flight" /\ FailWith(t, Broken)

\* The pause is over.
Retry(t) ==
    /\ stage[t] = "backoff"
    /\ stage' = [stage EXCEPT ![t] = "wait"]
    /\ attempt' = [attempt EXCEPT ![t] = @ + 1]
    /\ UNCHANGED <<limit, tokens, upstream, reply, body, outcome, result, had, sent>>

-----------------------------------------------------------------------------
(* Upstream, and time *)

\* Upstream answers with what it has, with 404 only if it has nothing, or with
\* another error.
Reply(t) ==
    /\ stage[t] = "flight" /\ reply[t] = Silent
    /\ \E s \in {IF upstream = Absent THEN NotFound ELSE Success} \cup Statuses :
         reply' = [reply EXCEPT ![t] = s]
    /\ body' = [body EXCEPT ![t] = upstream]
    /\ UNCHANGED <<limit, tokens, upstream, stage, attempt, outcome, result, had, sent>>

Edit ==
    /\ \E c \in Contents \ {upstream} :
         /\ upstream' = c
         /\ had' = [t \in Tasks |-> IF stage[t] = "idle" THEN {} ELSE had[t] \cup {c}]
    /\ UNCHANGED <<limit, tokens, stage, attempt, reply, body, outcome, result, sent>>

Tick ==
    /\ tokens' = IF limit = NoLimit THEN tokens ELSE Smaller(tokens + 1, Burst(limit))
    /\ sent' = [k \in 1 .. Window |-> IF k = 1 THEN 0 ELSE sent[k - 1]]
    /\ UNCHANGED <<limit, upstream, stage, attempt, reply, body, outcome, result, had>>

-----------------------------------------------------------------------------
(* Specification *)

Init ==
    /\ limit \in Capacities \cup {NoLimit}
    /\ tokens = IF limit = NoLimit THEN 0 ELSE Burst(limit)
    /\ upstream \in Contents
    /\ stage = [t \in Tasks |-> "idle"]
    /\ attempt = [t \in Tasks |-> 1]
    /\ reply = [t \in Tasks |-> Silent]
    /\ body = [t \in Tasks |-> Absent]
    /\ outcome = [t \in Tasks |-> Silent]
    /\ result = [t \in Tasks |-> NoResult]
    /\ had = [t \in Tasks |-> {}]
    /\ sent = [k \in 1 .. Window |-> 0]

Settle(t) == Receive(t) \/ Break(t)

Next ==
    \/ \E t \in Tasks : Begin(t) \/ Send(t) \/ Reply(t) \/ Settle(t) \/ Retry(t)
    \/ Edit
    \/ Tick

Spec == Init /\ [][Next]_vars

\* A task is polled, a timer fires, time goes on.  Upstream need not answer.
Fairness ==
    /\ \A t \in Tasks : WF_vars(Send(t)) /\ WF_vars(Settle(t)) /\ WF_vars(Retry(t))
    /\ WF_vars(Tick)

FairSpec == Spec /\ Fairness

-----------------------------------------------------------------------------
(* Properties *)

MayPass == {Broken, 429} \cup 500 .. 599

TypeOK ==
    /\ limit \in Capacities \cup {NoLimit}
    /\ tokens \in 0 .. Burst(limit)
    /\ upstream \in Contents
    /\ stage \in [Tasks -> Stages]
    /\ attempt \in [Tasks -> 1 .. Attempts]
    /\ reply \in [Tasks -> {Silent, Success, NotFound} \cup Statuses]
    /\ body \in [Tasks -> Contents]
    /\ outcome \in [Tasks -> {Silent, Broken, Success, NotFound} \cup Statuses]
    /\ result \in [Tasks -> Contents \cup {NoResult, Failed}]
    /\ had \in [Tasks -> SUBSET Contents]
    /\ sent \in [1 .. Window -> Nat]

\* The tasks together send no more to a host than its bucket allows, retries
\* included: in k ticks no more than the burst and the k - 1 tokens that came in
\* between (acquire is called for each attempt, and a capacity of 0 counts as 1).
RateBound == limit # NoLimit => \A k \in 1 .. Window : sent[k] <= Burst(limit) + k - 1

\* A call fails only by an answer that cannot change or after four attempts that
\* all might have passed, and nothing is asked again after a final answer (send
\* retries what is_retryable says).
GivesUpOnlyWhenItMust ==
    \A t \in Tasks :
        /\ result[t] = Failed => outcome[t] \notin MayPass \/ attempt[t] = Attempts
        /\ stage[t] \in {"wait", "flight", "backoff"} => outcome[t] \in MayPass \cup {Silent}

\* What is returned is what upstream had at some time during the call, however
\* often it was tried; and "there is nothing", for which a sync leaves a mod or
\* project out (Outcome::NotFound), is returned for a 404 only, never for an
\* error that says nothing about it (send, is_not_found).
Calls == INSTANCE Call
ImplementsCall == Calls!Spec

\* No call lasts for ever, though a peer never answers (REQUEST_TIMEOUT), unless
\* other tasks take tokens again and again: until_ready keeps no queue.
NoHang ==
    \A t \in Tasks :
        \/ []<>(stage[t] = "idle")
        \/ []<><<\E u \in Tasks \ {t} : Send(u)>>_vars

-----------------------------------------------------------------------------
(* The inductive invariant behind the others *)

\* What a call may return is from its own time, and there is an attempt left for
\* who waits for one.
CallInv(t) ==
    /\ stage[t] = "idle" <=> had[t] = {}
    /\ stage[t] # "idle" => upstream \in had[t] /\ result[t] = NoResult
    /\ stage[t] # "flight" => reply[t] = Silent
    /\ reply[t] = Success => body[t] \in had[t]
    /\ reply[t] = NotFound => Absent \in had[t]
    /\ stage[t] = "backoff" => attempt[t] < Attempts

\* The tokens left are none of those spent.
BucketInv ==
    limit # NoLimit => \A k \in 1 .. Window : sent[k] + tokens <= Burst(limit) + k - 1

\* Every request that was answered is still to be returned by the call that sent
\* it, and every token is in the bucket or accounts for a request (send, acquire).
IInv == BucketInv /\ \A t \in Tasks : CallInv(t)
=============================================================================
