----------------------------- MODULE Http_proofs -----------------------------
(***************************************************************************)
(* Proofs about Http, for any number of tasks and retries, any capacity    *)
(* and any window: its types, how fast requests are sent, when a call      *)
(* gives up, and that it implements Call.                                  *)
(***************************************************************************)
EXTENDS Http, TLAPS

\* The bucket of a configured host holds at least one token when it is full.
LEMMA BurstPositive ==
  ASSUME NEW n \in Nat
  PROVE  Burst(n) \in Nat /\ Burst(n) >= 1
  BY DEF Burst, Larger

LEMMA LimitTypes ==
  ASSUME limit \in Capacities \cup {NoLimit}
  PROVE  Burst(limit) \in Nat /\ Burst(limit) >= 1
<1>1. CASE limit \in Capacities
  BY <1>1, BurstPositive, HttpAssumption
<1>2. CASE limit = NoLimit
  BY <1>2 DEF NoLimit, Burst, Larger
<1> QED
  BY <1>1, <1>2

\* What an attempt can fail with.
Errors == {Broken, NotFound} \cup Statuses

\* Both ways an attempt ends without a success are FailWith of such an error, a 404
\* only if one was sent.
LEMMA SettleCases ==
  ASSUME TypeOK, NEW t \in Tasks, Settle(t)
  PROVE  /\ stage[t] = "flight"
         /\ \/ /\ reply[t] = Success
               /\ Return(t, body[t]) /\ Hangup(t)
               /\ outcome' = [outcome EXCEPT ![t] = Success]
               /\ UNCHANGED <<limit, tokens, upstream, attempt, sent>>
            \/ \E e \in Errors : FailWith(t, e) /\ (e = NotFound => reply[t] = NotFound)
<1>1. CASE Receive(t)
  <2>1. CASE reply[t] = Success
    BY <1>1, <2>1 DEF Receive
  <2>2. CASE reply[t] # Success
    <3>1. reply[t] \in Errors
      BY <1>1, <2>2 DEF Receive, TypeOK, Errors
    <3> QED
      BY <1>1, <2>2, <3>1 DEF Receive
  <2> QED
    BY <2>1, <2>2
<1>2. CASE Break(t)
  <2>1. Broken \in Errors /\ Broken # NotFound
    BY DEF Errors, Broken, NotFound
  <2> QED
    BY <1>2, <2>1 DEF Break
<1> QED
  BY <1>1, <1>2 DEF Settle

\* An attempt that failed is followed by another or is the last.
LEMMA FailWithCases ==
  ASSUME NEW t \in Tasks, NEW e \in Errors, FailWith(t, e)
  PROVE  /\ outcome' = [outcome EXCEPT ![t] = e] /\ Hangup(t)
         /\ UNCHANGED <<limit, tokens, upstream, attempt, sent>>
         /\ \/ /\ Retries(t, e)
               /\ stage' = [stage EXCEPT ![t] = "backoff"]
               /\ UNCHANGED <<result, had>>
            \/ /\ ~Retries(t, e) /\ e = NotFound
               /\ Return(t, Absent)
            \/ /\ ~Retries(t, e) /\ e # NotFound
               /\ Return(t, Failed)
  BY DEF FailWith, IsNotFound

-----------------------------------------------------------------------------
(* Types *)

LEMMA SettleTyped ==
  ASSUME TypeOK, NEW t \in Tasks, Settle(t)
  PROVE  TypeOK'
<1>1. CASE /\ Return(t, body[t]) /\ Hangup(t)
           /\ outcome' = [outcome EXCEPT ![t] = Success]
           /\ UNCHANGED <<limit, tokens, upstream, attempt, sent>>
  BY <1>1, HttpAssumption DEF TypeOK, Return, Hangup, Stages
<1>2. ASSUME NEW e \in Errors, FailWith(t, e) PROVE TypeOK'
  <2>1. /\ outcome' = [outcome EXCEPT ![t] = e] /\ Hangup(t)
        /\ UNCHANGED <<limit, tokens, upstream, attempt, sent>>
        /\ \/ stage' = [stage EXCEPT ![t] = "backoff"] /\ UNCHANGED <<result, had>>
           \/ Return(t, Absent)
           \/ Return(t, Failed)
    BY <1>2, FailWithCases
  <2>2. /\ outcome' \in [Tasks -> {Silent, Broken, Success, NotFound} \cup Statuses]
        /\ reply' \in [Tasks -> {Silent, Success, NotFound} \cup Statuses]
        /\ body' \in [Tasks -> Contents]
    BY <2>1, HttpAssumption DEF Hangup, TypeOK, Errors
  <2>3. /\ stage' \in [Tasks -> Stages]
        /\ result' \in [Tasks -> Contents \cup {NoResult, Failed}]
        /\ had' \in [Tasks -> SUBSET Contents]
    <3>1. CASE stage' = [stage EXCEPT ![t] = "backoff"] /\ UNCHANGED <<result, had>>
      BY <3>1 DEF TypeOK, Stages
    <3>2. CASE Return(t, Absent)
      BY <3>2, HttpAssumption DEF Return, TypeOK, Stages
    <3>3. CASE Return(t, Failed)
      BY <3>3 DEF Return, TypeOK, Stages
    <3> QED
      BY <2>1, <3>1, <3>2, <3>3
  <2> QED
    BY <2>1, <2>2, <2>3 DEF TypeOK
<1> QED
  BY <1>1, <1>2, SettleCases

LEMMA InitTyped ==
  ASSUME Init
  PROVE  TypeOK
<1>1. tokens \in 0 .. Burst(limit)
  BY LimitTypes DEF Init
<1>2. attempt \in [Tasks -> 1 .. Attempts]
  BY HttpAssumption DEF Init, Attempts
<1> QED
  BY <1>1, <1>2, HttpAssumption DEF Init, TypeOK, Stages

\* The bucket never holds more than the burst nor less than nothing, and attempts
\* are counted up to the last.
LEMMA StepTyped ==
  ASSUME TypeOK, IInv, [Next]_vars
  PROVE  TypeOK'
<1> USE HttpAssumption
<1>1. CASE UNCHANGED vars
  BY <1>1 DEF vars, TypeOK
<1>2. ASSUME NEW t \in Tasks, Begin(t) PROVE TypeOK'
  BY <1>2 DEF Begin, TypeOK, Stages, Attempts
<1>3. ASSUME NEW t \in Tasks, Send(t) PROVE TypeOK'
  <2>1. tokens' \in 0 .. Burst(limit)
    BY <1>3, LimitTypes DEF Send, TypeOK
  <2>2. sent' \in [1 .. Window -> Nat]
    BY <1>3 DEF Send, TypeOK
  <2> QED
    BY <1>3, <2>1, <2>2 DEF Send, TypeOK, Stages
<1>4. ASSUME NEW t \in Tasks, Reply(t) PROVE TypeOK'
  BY <1>4 DEF Reply, TypeOK
<1>5. ASSUME NEW t \in Tasks, Settle(t) PROVE TypeOK'
  BY <1>5, SettleTyped
<1>6. ASSUME NEW t \in Tasks, Retry(t) PROVE TypeOK'
  <2>1. attempt[t] + 1 \in 1 .. Attempts
    BY <1>6 DEF Retry, TypeOK, IInv, CallInv, Attempts
  <2> QED
    BY <1>6, <2>1 DEF Retry, TypeOK, Stages
<1>7. CASE Edit
  BY <1>7 DEF Edit, TypeOK
<1>8. CASE Tick
  <2>1. tokens' \in 0 .. Burst(limit)
    BY <1>8, LimitTypes DEF Tick, TypeOK, Smaller
  <2>2. sent' \in [1 .. Window -> Nat]
    <3>1. \A k \in 1 .. Window : k # 1 => k - 1 \in 1 .. Window
      OBVIOUS
    <3> QED
      BY <1>8, <3>1 DEF Tick, TypeOK
  <2> QED
    BY <1>8, <2>1, <2>2 DEF Tick, TypeOK
<1> QED
  BY <1>1, <1>2, <1>3, <1>4, <1>5, <1>6, <1>7, <1>8 DEF Next

-----------------------------------------------------------------------------
(* The inductive invariant *)

LEMMA SettleKeepsCall ==
  ASSUME TypeOK, IInv, NEW t \in Tasks, Settle(t), NEW x \in Tasks
  PROVE  CallInv(x)'
<1> DEFINE Done(r) == Return(t, r) /\ Hangup(t) /\ UNCHANGED <<upstream, attempt>>
<1>1. ASSUME NEW r, Done(r) PROVE CallInv(x)'
  BY <1>1 DEF Return, Hangup, TypeOK, IInv, CallInv, Silent, Success, NotFound
<1>2. ASSUME NEW e \in Errors, FailWith(t, e) PROVE CallInv(x)'
  <2>1. CASE /\ Retries(t, e) /\ Hangup(t)
             /\ stage' = [stage EXCEPT ![t] = "backoff"]
             /\ UNCHANGED <<upstream, attempt, result, had>>
    <3>1. attempt[t] < Attempts
      BY <2>1 DEF Retries
    <3>2. stage[t] = "flight"
      BY SettleCases
    <3> QED
      BY <2>1, <3>1, <3>2 DEF Hangup, TypeOK, IInv, CallInv, Silent, Success, NotFound
  <2>2. CASE Done(Absent)
    BY <2>2, <1>1
  <2>3. CASE Done(Failed)
    BY <2>3, <1>1
  <2> QED
    BY <1>2, <2>1, <2>2, <2>3, FailWithCases
<1>3. CASE Done(body[t])
  BY <1>1, <1>3
<1> QED
  BY <1>2, <1>3, SettleCases

LEMMA StepKeepsCall ==
  ASSUME TypeOK, IInv, [Next]_vars, NEW x \in Tasks
  PROVE  CallInv(x)'
<1>1. CASE UNCHANGED vars
  BY <1>1 DEF vars, IInv, CallInv
<1>2. ASSUME NEW t \in Tasks, Begin(t) PROVE CallInv(x)'
  BY <1>2 DEF Begin, TypeOK, IInv, CallInv
<1>3. ASSUME NEW t \in Tasks, Send(t) PROVE CallInv(x)'
  <2>1. /\ stage[t] = "wait" /\ stage' = [stage EXCEPT ![t] = "flight"]
        /\ UNCHANGED <<upstream, attempt, reply, body, result, had>>
    BY <1>3 DEF Send
  <2>2. reply[t] = Silent
    BY <2>1 DEF IInv, CallInv
  <2> QED
    BY <2>1, <2>2 DEF TypeOK, IInv, CallInv, Silent, Success, NotFound
<1>4. ASSUME NEW t \in Tasks, Reply(t) PROVE CallInv(x)'
  BY <1>4, HttpAssumption DEF Reply, TypeOK, IInv, CallInv, Silent, Success, NotFound
<1>5. ASSUME NEW t \in Tasks, Settle(t) PROVE CallInv(x)'
  BY <1>5, SettleKeepsCall
<1>6. ASSUME NEW t \in Tasks, Retry(t) PROVE CallInv(x)'
  BY <1>6 DEF Retry, TypeOK, IInv, CallInv
<1>7. CASE Edit
  BY <1>7 DEF Edit, TypeOK, IInv, CallInv
<1>8. CASE Tick
  BY <1>8 DEF Tick, TypeOK, IInv, CallInv
<1> QED
  BY <1>1, <1>2, <1>3, <1>4, <1>5, <1>6, <1>7, <1>8 DEF Next

LEMMA StepKeepsBucket ==
  ASSUME TypeOK, IInv, [Next]_vars
  PROVE  BucketInv'
<1>1. CASE UNCHANGED <<limit, tokens, sent>>
  BY <1>1 DEF IInv, BucketInv
<1>2. ASSUME NEW t \in Tasks, Send(t) PROVE BucketInv'
  <2>1. SUFFICES ASSUME limit # NoLimit PROVE BucketInv'
    BY <1>2 DEF Send, BucketInv
  <2>2. /\ limit' = limit /\ tokens' = tokens - 1
        /\ sent' = [k \in 1 .. Window |-> sent[k] + 1]
    BY <1>2, <2>1 DEF Send, TakesToken
  <2>3. Burst(limit) \in Nat /\ tokens \in Nat /\ sent \in [1 .. Window -> Nat]
    BY LimitTypes DEF TypeOK
  <2> SUFFICES ASSUME NEW k \in 1 .. Window
               PROVE  sent'[k] + tokens' <= Burst(limit) + k - 1
    BY <2>2 DEF BucketInv
  <2>4. sent[k] + tokens <= Burst(limit) + k - 1
    BY <2>1 DEF IInv, BucketInv
  <2>5. sent'[k] = sent[k] + 1 /\ sent[k] \in Nat
    BY <2>2, <2>3
  <2> QED
    BY <2>2, <2>3, <2>4, <2>5
<1>3. CASE Tick
  <2> SUFFICES ASSUME limit # NoLimit, NEW k \in 1 .. Window
               PROVE  sent'[k] + tokens' <= Burst(limit) + k - 1
    BY <1>3 DEF Tick, BucketInv
  <2>1. /\ tokens' = Smaller(tokens + 1, Burst(limit))
        /\ sent'[k] = IF k = 1 THEN 0 ELSE sent[k - 1]
    BY <1>3 DEF Tick
  <2>2. tokens' \in Nat /\ tokens' <= tokens + 1 /\ tokens' <= Burst(limit)
    BY <2>1, LimitTypes DEF TypeOK, Smaller
  <2>3. CASE k = 1
    BY <2>1, <2>2, <2>3, LimitTypes DEF TypeOK
  <2>4. CASE k # 1
    <3>1. k - 1 \in 1 .. Window
      BY <2>4, HttpAssumption
    <3>2. sent[k - 1] + tokens <= Burst(limit) + (k - 1) - 1
      BY <1>3, <3>1 DEF IInv, BucketInv
    <3>3. sent[k - 1] \in Nat /\ tokens \in Nat /\ Burst(limit) \in Nat
      <4>1. limit \in Capacities \cup {NoLimit} /\ tokens \in 0 .. Burst(limit)
        BY DEF TypeOK
      <4>2. Burst(limit) \in Nat
        BY <4>1, LimitTypes
      <4>3. sent[k - 1] \in Nat
        BY <3>1 DEF TypeOK
      <4> QED
        BY <4>1, <4>2, <4>3
    <3>4. sent'[k] = sent[k - 1] /\ k \in Nat
      BY <2>1, <2>4, HttpAssumption
    <3> QED
      BY <2>2, <3>2, <3>3, <3>4, SMT
  <2> QED
    BY <2>3, <2>4
<1>4. ASSUME NEW t \in Tasks, Settle(t) PROVE UNCHANGED <<limit, tokens, sent>>
  BY <1>4, SettleCases, FailWithCases
<1> QED
  BY <1>1, <1>2, <1>3, <1>4 DEF Next, Begin, Reply, Retry, Edit, vars

\* Whatever the number of tasks, retries and edits: what a call may return is from
\* its own time, and no token is spent twice.
THEOREM Inductive == Spec => []IInv
<1>1. Init => TypeOK /\ IInv
  <2> SUFFICES ASSUME Init PROVE TypeOK /\ IInv
    OBVIOUS
  <2>1. ASSUME NEW t \in Tasks PROVE CallInv(t)
    <3>1. stage[t] = "idle" /\ had[t] = {} /\ reply[t] = Silent
      BY DEF Init
    <3> QED
      BY <3>1 DEF CallInv, Silent, Success, NotFound
  <2>2. BucketInv
    BY LimitTypes DEF Init, BucketInv
  <2> QED
    BY <2>1, <2>2, InitTyped DEF IInv
<1>2. TypeOK /\ IInv /\ [Next]_vars => (TypeOK /\ IInv)'
  <2> SUFFICES ASSUME TypeOK, IInv, [Next]_vars PROVE TypeOK' /\ IInv'
    OBVIOUS
  <2>1. \A x \in Tasks : CallInv(x)'
    BY StepKeepsCall
  <2> QED
    BY <2>1, StepTyped, StepKeepsBucket DEF IInv
<1> QED
  BY <1>1, <1>2, PTL DEF Spec

\* The types: the bucket never holds more than the burst nor less than nothing, and
\* no attempt follows the last.
THEOREM TypeCorrect == Spec => []TypeOK
<1>1. Init => TypeOK
  BY InitTyped
<1>2. TypeOK /\ IInv /\ [Next]_vars => TypeOK'
  BY StepTyped
<1> QED
  BY <1>1, <1>2, Inductive, PTL DEF Spec

\* In any window of any length the tasks send no more than burst and refill allow.
THEOREM RateKept == Spec => []RateBound
<1>1. TypeOK /\ IInv => RateBound
  <2> SUFFICES ASSUME TypeOK, IInv, limit # NoLimit, NEW k \in 1 .. Window
               PROVE  sent[k] <= Burst(limit) + k - 1
    BY DEF RateBound
  <2>1. sent[k] + tokens <= Burst(limit) + k - 1
    BY DEF IInv, BucketInv
  <2> QED
    BY <2>1, LimitTypes DEF TypeOK
<1> QED
  BY <1>1, TypeCorrect, Inductive, PTL

-----------------------------------------------------------------------------
(* Retries *)

LEMMA RetryableMayPass ==
  ASSUME NEW e \in Errors
  PROVE  Retryable(e) <=> e \in MayPass
<1>1. e \in {Broken, NotFound} \/ e \in 400 .. 599
  <2>1. Statuses \subseteq 400 .. 599
    BY HttpAssumption, Zenon
  <2> QED
    BY <2>1, Zenon DEF Errors
<1>2. CASE e \in {Broken, NotFound}
  <2>1. CASE e = Broken
    BY <2>1 DEF Retryable, MayPass
  <2>2. CASE e = NotFound
    BY <2>2 DEF Retryable, MayPass, Broken, NotFound
  <2> QED
    BY <1>2, <2>1, <2>2
<1>3. CASE e \in 400 .. 599
  <2>1. e \in Nat /\ e <= 599 /\ e # Broken
    BY <1>3 DEF Broken
  <2> QED
    BY <2>1 DEF Retryable, MayPass
<1> QED
  BY <1>1, <1>2, <1>3, Zenon

LEMMA StepGivesUpRightly ==
  ASSUME TypeOK, IInv, GivesUpOnlyWhenItMust, [Next]_vars
  PROVE  GivesUpOnlyWhenItMust'
<1> USE DEF GivesUpOnlyWhenItMust
<1>1. CASE UNCHANGED <<stage, attempt, outcome, result>>
  BY <1>1
<1>2. ASSUME NEW t \in Tasks, Begin(t) PROVE GivesUpOnlyWhenItMust'
  BY <1>2 DEF Begin, TypeOK, NoResult, Failed
<1>3. ASSUME NEW t \in Tasks, Send(t) PROVE GivesUpOnlyWhenItMust'
  BY <1>3 DEF Send, TypeOK
<1>4. ASSUME NEW t \in Tasks, Retry(t) PROVE GivesUpOnlyWhenItMust'
  BY <1>4 DEF Retry, TypeOK, IInv, CallInv, NoResult, Failed
<1>5. ASSUME NEW t \in Tasks, Settle(t) PROVE GivesUpOnlyWhenItMust'
  <2>1. ASSUME NEW e \in Errors, FailWith(t, e) PROVE GivesUpOnlyWhenItMust'
    <3>1. /\ outcome' = [outcome EXCEPT ![t] = e] /\ attempt' = attempt
          /\ \/ /\ Retries(t, e)
                /\ stage' = [stage EXCEPT ![t] = "backoff"] /\ result' = result
             \/ ~Retries(t, e) /\ Return(t, Absent)
             \/ ~Retries(t, e) /\ Return(t, Failed)
      BY <2>1, FailWithCases
    <3>2. Retries(t, e) => e \in MayPass
      BY RetryableMayPass DEF Retries
    <3>3. ~Retries(t, e) => e \notin MayPass \/ attempt[t] = Attempts
      <4>1. attempt[t] \in 1 .. Attempts /\ Attempts \in Nat
        BY HttpAssumption DEF TypeOK, Attempts
      <4> QED
        BY <4>1, RetryableMayPass DEF Retries
    <3>4. CASE Retries(t, e)
      <4>1. stage' = [stage EXCEPT ![t] = "backoff"] /\ result' = result
        BY <3>1, <3>4
      <4>2. result[t] # Failed
        BY SettleCases, <1>5 DEF IInv, CallInv, NoResult, Failed
      <4> QED
        BY <3>1, <3>2, <3>4, <4>1, <4>2 DEF TypeOK
    <3>5. CASE ~Retries(t, e)
      <4>1. stage' = [stage EXCEPT ![t] = "idle"]
            /\ \E r : result' = [result EXCEPT ![t] = r]
        BY <3>1, <3>5 DEF Return
      <4> QED
        BY <3>1, <3>3, <3>5, <4>1 DEF TypeOK
    <3> QED
      BY <3>4, <3>5
  <2>2. CASE /\ Return(t, body[t]) /\ attempt' = attempt
             /\ outcome' = [outcome EXCEPT ![t] = Success]
    <3>1. body[t] # Failed
      BY HttpAssumption DEF TypeOK
    <3> QED
      BY <2>2, <3>1 DEF Return, TypeOK
  <2> QED
    BY <1>5, <2>1, <2>2, SettleCases
<1> QED
  BY <1>1, <1>2, <1>3, <1>4, <1>5 DEF Next, Reply, Edit, Tick, vars

\* For any number of retries a call fails only by a final answer or when all its
\* attempts were spent on errors that might have passed.
THEOREM GivesUpRightly == Spec => []GivesUpOnlyWhenItMust
<1>1. Init => GivesUpOnlyWhenItMust
  BY DEF Init, GivesUpOnlyWhenItMust, NoResult, Failed
<1>2. TypeOK /\ IInv /\ GivesUpOnlyWhenItMust /\ [Next]_vars => GivesUpOnlyWhenItMust'
  BY StepGivesUpRightly
<1> QED
  BY <1>1, <1>2, TypeCorrect, Inductive, PTL DEF Spec

-----------------------------------------------------------------------------
(* Http implements Call *)

LEMMA SettleReturns ==
  ASSUME TypeOK, IInv, NEW t \in Tasks, Settle(t)
  PROVE  Calls!Return(t) \/ UNCHANGED Calls!vars
<1>1. had[t] # {} /\ UNCHANGED upstream
  BY SettleCases, FailWithCases DEF IInv, CallInv
<1>2. ASSUME NEW r \in had[t] \cup {Failed}, Return(t, r) PROVE Calls!Return(t)
  BY <1>1, <1>2 DEF Return, Calls!Return, Failed, Calls!Failed
<1>3. ASSUME NEW e \in Errors, FailWith(t, e), e = NotFound => reply[t] = NotFound
      PROVE  Calls!Return(t) \/ UNCHANGED Calls!vars
  <2>1. \/ UNCHANGED <<result, had>>
        \/ e = NotFound /\ Return(t, Absent)
        \/ Return(t, Failed)
    BY <1>3, FailWithCases
  <2>2. e = NotFound => Absent \in had[t]
    BY <1>3 DEF IInv, CallInv
  <2> QED
    BY <1>1, <1>2, <2>1, <2>2 DEF Calls!vars
<1>4. reply[t] = Success => body[t] \in had[t]
  BY DEF IInv, CallInv
<1> QED
  BY <1>2, <1>3, <1>4, SettleCases

\* Every step of a request is one of an abstract call or changes nothing of it.
LEMMA StepImplementsCall ==
  ASSUME TypeOK, IInv, [Next]_vars
  PROVE  [Calls!Next]_(Calls!vars)
<1>1. CASE UNCHANGED <<upstream, had, result>>
  BY <1>1 DEF Calls!vars
<1>2. ASSUME NEW t \in Tasks, Begin(t) PROVE Calls!Open(t)
  BY <1>2 DEF Begin, Calls!Open, IInv, CallInv, NoResult, Calls!NoResult
<1>3. CASE Edit
  <2>1. PICK c \in Contents :
          /\ upstream' = c
          /\ had' = [t \in Tasks |-> IF stage[t] = "idle" THEN {} ELSE had[t] \cup {c}]
    BY <1>3 DEF Edit
  <2>2. had' = [t \in Tasks |-> IF had[t] = {} THEN {} ELSE had[t] \cup {c}]
    BY <2>1 DEF IInv, CallInv
  <2> QED
    BY <1>3, <2>1, <2>2 DEF Edit, Calls!Edit, Calls!Next
<1> QED
  BY <1>1, <1>2, <1>3, SettleReturns DEF Next, Send, Reply, Retry, Tick, vars, Calls!Next

\* For any number of tasks, retries and edits a request returns what upstream had
\* during the call, or an error.
THEOREM Implements == Spec => ImplementsCall
<1>1. Init => Calls!Init
  BY DEF Init, Calls!Init, NoResult, Calls!NoResult
<1>2. TypeOK /\ IInv /\ [Next]_vars => [Calls!Next]_(Calls!vars)
  BY StepImplementsCall
<1> QED
  BY <1>1, <1>2, TypeCorrect, Inductive, PTL DEF Spec, ImplementsCall, Calls!Spec
=============================================================================
