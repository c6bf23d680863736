------------------------- MODULE RequestContextProofs -------------------------
(* Proofs about RequestContext for any requests, ids and connections.       *)
EXTENDS RequestContext, FiniteSetTheorems, TLAPS

LEMMA TypeStep == TypeOK /\ StageSettles /\ OneConnection /\ [Next]_vars => TypeOK'
<1> SUFFICES ASSUME TypeOK, StageSettles, OneConnection, [Next]_vars PROVE TypeOK'
  OBVIOUS
<1> USE ContextAssumption DEF TypeOK, Stage, Code, Context, Id
<1>1. ASSUME NEW th \in Thread, NEW r \in Request, RequestIdMiddleware(th, r)
      PROVE TypeOK'
  <2>1. HeaderOf[r] \in Id /\ request_id' \in [Request -> Id \cup {Null}]
    BY <1>1 DEF RequestIdMiddleware
  <2>2. serves' \in [Thread -> Request \cup {Null}] /\ stage' \in [Request -> Stage]
    BY <1>1 DEF RequestIdMiddleware
  <2> QED
    BY <1>1, <2>1, <2>2 DEF RequestIdMiddleware
<1>2. ASSUME NEW th \in Thread, SecurityMiddleware(th) PROVE TypeOK'
  BY <1>2 DEF SecurityMiddleware, At, Advance
<1>3. ASSUME NEW th \in Thread, Bind(th) PROVE TypeOK'
  <2>1. serves[th] \in Request /\ _get_request_id(serves[th]) \in Id \cup {Null}
    BY <1>3 DEF Bind, At, _get_request_id
  <2>2. context' = [context EXCEPT ![th] =
                       [id |-> _get_request_id(serves[th]), request |-> serves[th]]]
    BY <1>3 DEF Bind, bind_request_context
  <2>3. context' \in [Thread -> Context]
    BY <2>1, <2>2
  <2> QED
    BY <1>3, <2>1, <2>3 DEF Bind, Advance
<1>4. ASSUME NEW th \in Thread, Log(th) PROVE TypeOK'
  <2>1. /\ serves[th] \in Request /\ context[th] \in Context
        /\ log' = log \cup {[of |-> serves[th], context |-> context[th], at |-> "bound"]}
    BY <1>4 DEF Log, At, Record
  <2>2. log' \subseteq [of : Request, context : Context, at : {"warned", "bound"}]
    BY <2>1
  <2> QED
    BY <1>4, <2>2 DEF Log
<1>5. ASSUME NEW th \in Thread, NEW c \in {200, 500}, Answer(th, c) PROVE TypeOK'
  BY <1>5 DEF Answer, At, Advance
<1>6. ASSUME NEW th \in Thread, ObserveLatency(th) PROVE TypeOK'
  BY <1>6 DEF ObserveLatency, At, Advance
<1>7. ASSUME NEW th \in Thread, Count(th) PROVE TypeOK'
  <2>1. serves[th] \in Request /\ code[serves[th]] \in Code
    BY <1>7 DEF Count, At, StageSettles
  <2>2. request_count' \in [Code -> Nat]
    BY <1>7, <2>1 DEF Count, inc
  <2>3. response_id' \in [Request -> Id \cup {Null}]
    BY <1>7, <2>1 DEF Count, header
  <2>4. stage' \in [Request -> Stage] /\ serves' \in [Thread -> Request \cup {Null}]
    BY <1>7, <2>1 DEF Count, Advance
  <2> QED
    BY <1>7, <2>2, <2>3, <2>4 DEF Count
<1>8. ASSUME NEW th \in Thread, Close(th) PROVE TypeOK'
  BY <1>8 DEF Close, Empty
<1>9. CASE UNCHANGED vars
  BY <1>9 DEF vars
<1>10. ASSUME NEW th \in Thread, LoadFails(th) PROVE TypeOK'
  <2>1. /\ serves[th] \in Request /\ context[th] \in Context
        /\ log' = log \cup {[of |-> serves[th], context |-> context[th], at |-> "warned"]}
    BY <1>10 DEF LoadFails, At, Record
  <2>2. log' \subseteq [of : Request, context : Context, at : {"warned", "bound"}]
    BY <2>1
  <2> QED
    BY <1>10, <2>1, <2>2 DEF LoadFails, Advance
<1> HIDE DEF TypeOK, Stage, Code, Context, Id
<1> QED
  BY <1>1, <1>2, <1>3, <1>4, <1>5, <1>6, <1>7, <1>8, <1>9, <1>10 DEF Next

(* Each action in pointwise form: what becomes of a request and of a thread. *)
LEMMA Arrival ==
  ASSUME TypeOK, NEW th \in Thread, NEW r \in Request, RequestIdMiddleware(th, r)
  PROVE  /\ serves[th] = Null /\ stage[r] = "new"
         /\ \A q \in Request : /\ stage'[q] = IF q = r THEN "admitted" ELSE stage[q]
                               /\ request_id'[q] = IF q = r THEN HeaderOf[q] ELSE request_id[q]
         /\ \A u \in Thread : serves'[u] = IF u = th THEN r ELSE serves[u]
         /\ UNCHANGED <<ssl_redirect, code, context, request_count, latency_count,
                        response_id, log>>
  BY DEF RequestIdMiddleware, TypeOK

LEMMA Redirect ==
  ASSUME TypeOK, NEW th \in Thread, SecurityMiddleware(th)
  PROVE  /\ ssl_redirect
         /\ serves[th] \in Request /\ stage[serves[th]] = "admitted"
         /\ \A q \in Request : /\ stage'[q] = IF q = serves[th] THEN "sent" ELSE stage[q]
                               /\ code'[q] = IF q = serves[th] THEN 301 ELSE code[q]
         /\ \A u \in Thread : serves'[u] = IF u = th THEN Null ELSE serves[u]
         /\ UNCHANGED <<ssl_redirect, request_id, context, request_count,
                        latency_count, response_id, log>>
  BY DEF SecurityMiddleware, At, Advance, TypeOK

LEMMA Failing ==
  ASSUME TypeOK, NEW th \in Thread, LoadFails(th)
  PROVE  /\ ~ssl_redirect
         /\ serves[th] \in Request /\ stage[serves[th]] = "admitted"
         /\ serves[th] # Null /\ request_id[serves[th]] = Null
         /\ \A q \in Request : stage'[q] = IF q = serves[th] THEN "warned" ELSE stage[q]
         /\ log' = log \cup {Record(th, "warned")}
         /\ UNCHANGED <<ssl_redirect, serves, request_id, code, context,
                        request_count, latency_count, response_id>>
  BY DEF LoadFails, At, Advance, TypeOK

LEMMA Binding ==
  ASSUME TypeOK, StageSettles, NEW th \in Thread, Bind(th)
  PROVE  /\ ~ssl_redirect
         /\ serves[th] \in Request /\ serves[th] # Null
         /\ stage[serves[th]] \in {"admitted", "warned"}
         /\ \A q \in Request :
               /\ stage'[q] = IF q = serves[th] THEN "bound" ELSE stage[q]
               /\ request_id'[q] = IF q = serves[th] THEN Identity(q) ELSE request_id[q]
         /\ \A u \in Thread : context'[u] = IF u = th THEN Own(serves[th]) ELSE context[u]
         /\ UNCHANGED <<ssl_redirect, serves, code, request_count, latency_count,
                        response_id, log>>
<1> DEFINE r == serves[th]
<1>1. r \in Request /\ r # Null /\ stage[r] \in {"admitted", "warned"}
  BY DEF Bind, At, TypeOK
<1>2. _get_request_id(r) = Identity(r)
  BY <1>1 DEF StageSettles, _get_request_id, Identity
<1>3. /\ stage' = [stage EXCEPT ![r] = "bound"]
      /\ request_id' = [request_id EXCEPT ![r] = Identity(r)]
      /\ context' = [context EXCEPT ![th] = Own(r)]
  BY <1>2 DEF Bind, Advance, bind_request_context, Own
<1> QED
  BY <1>1, <1>3 DEF Bind, TypeOK

LEMMA Answering ==
  ASSUME TypeOK, NEW th \in Thread, NEW c \in {200, 500}, Answer(th, c)
  PROVE  /\ serves[th] \in Request /\ stage[serves[th]] = "bound"
         /\ \A q \in Request : /\ stage'[q] = IF q = serves[th] THEN "answered" ELSE stage[q]
                               /\ code'[q] = IF q = serves[th] THEN c ELSE code[q]
         /\ UNCHANGED <<ssl_redirect, serves, request_id, context, request_count,
                        latency_count, response_id, log>>
  BY DEF Answer, At, Advance, TypeOK

LEMMA Observing ==
  ASSUME TypeOK, NEW th \in Thread, ObserveLatency(th)
  PROVE  /\ serves[th] \in Request /\ stage[serves[th]] = "answered"
         /\ \A q \in Request : stage'[q] = IF q = serves[th] THEN "observed" ELSE stage[q]
         /\ latency_count' = latency_count + 1
         /\ UNCHANGED <<ssl_redirect, serves, request_id, code, context,
                        request_count, response_id, log>>
  BY DEF ObserveLatency, At, Advance, TypeOK

LEMMA Counting ==
  ASSUME TypeOK, NEW th \in Thread, Count(th)
  PROVE  /\ serves[th] \in Request /\ stage[serves[th]] = "observed"
         /\ \A q \in Request :
               /\ stage'[q] = IF q = serves[th] THEN "sent" ELSE stage[q]
               /\ response_id'[q] = IF q = serves[th] THEN request_id[q] ELSE response_id[q]
         /\ request_count' = [request_count EXCEPT ![code[serves[th]]] = @ + 1]
         /\ \A u \in Thread : serves'[u] = IF u = th THEN Null ELSE serves[u]
         /\ UNCHANGED <<ssl_redirect, request_id, code, context, latency_count, log>>
  BY DEF Count, At, Advance, header, inc, TypeOK

LEMMA ConnectionStep ==
  ASSUME TypeOK, StageSettles, OneConnection, [Next]_vars PROVE OneConnection'
<1> USE DEF OneConnection, Working
<1>1. ASSUME NEW th \in Thread, NEW r \in Request, RequestIdMiddleware(th, r)
      PROVE OneConnection'
  <2>1. \A u \in Thread : serves[u] # Null => serves[u] \in Request /\ serves[u] # r
    BY <1>1, Arrival DEF TypeOK
  <2>2. /\ \A q \in Request : stage'[q] = IF q = r THEN "admitted" ELSE stage[q]
        /\ \A u \in Thread : serves'[u] = IF u = th THEN r ELSE serves[u]
    BY <1>1, Arrival
  <2> QED
    BY <2>1, <2>2
<1>2. ASSUME NEW th \in Thread, SecurityMiddleware(th) PROVE OneConnection'
  <2>1. \A u \in Thread : u # th => serves[u] # serves[th]
    BY <1>2, Redirect, ContextAssumption
  <2>2. \A u \in Thread : serves[u] # Null => serves[u] \in Request
    BY DEF TypeOK
  <2> QED
    BY <1>2, <2>1, <2>2, Redirect
<1>3. ASSUME NEW th \in Thread, Count(th) PROVE OneConnection'
  <2>1. \A u \in Thread : u # th => serves[u] # serves[th]
    BY <1>3, Counting, ContextAssumption
  <2>2. \A u \in Thread : serves[u] # Null => serves[u] \in Request
    BY DEF TypeOK
  <2> QED
    BY <1>3, <2>1, <2>2, Counting
<1>4. ASSUME NEW th \in Thread, Bind(th) PROVE OneConnection'
  <2>1. \A u \in Thread : serves[u] # Null => serves[u] \in Request
    BY DEF TypeOK
  <2> QED
    BY <1>4, <2>1, Binding
<1>5. ASSUME NEW th \in Thread, NEW c \in {200, 500}, Answer(th, c) PROVE OneConnection'
  <2>1. \A u \in Thread : serves[u] # Null => serves[u] \in Request
    BY DEF TypeOK
  <2> QED
    BY <1>5, <2>1, Answering
<1>6. ASSUME NEW th \in Thread, ObserveLatency(th) PROVE OneConnection'
  <2>1. \A u \in Thread : serves[u] # Null => serves[u] \in Request
    BY DEF TypeOK
  <2> QED
    BY <1>6, <2>1, Observing
<1>7. CASE UNCHANGED <<serves, stage>>
  BY <1>7
<1>8. ASSUME NEW th \in Thread, LoadFails(th) PROVE OneConnection'
  <2>1. \A u \in Thread : serves[u] # Null => serves[u] \in Request
    BY DEF TypeOK
  <2> QED
    BY <1>8, <2>1, Failing
<1> QED
  BY <1>1, <1>2, <1>3, <1>4, <1>5, <1>6, <1>7, <1>8 DEF Next, Log, Close, vars

LEMMA ContextStep ==
  ASSUME TypeOK, StageSettles, OneConnection, ContextIsOwn, [Next]_vars
  PROVE  ContextIsOwn'
<1> USE DEF ContextIsOwn, Working
<1>0. \A u \in Thread : serves[u] # Null => serves[u] \in Request
  BY DEF TypeOK
<1>a. \A u \in Thread, th \in Thread : serves[u] # Null /\ serves[u] = serves[th] => u = th
  BY DEF OneConnection
<1>b. \A r \in Request : Own(r)' = Own(r)
  BY DEF Own, Identity
<1>1. ASSUME NEW th \in Thread, NEW r \in Request, RequestIdMiddleware(th, r)
      PROVE ContextIsOwn'
  <2>1. \A u \in Thread : u # th => serves'[u] = serves[u]
    BY <1>1, Arrival
  <2>2. stage'[r] = "admitted" /\ serves'[th] = r /\ context' = context
    BY <1>1, Arrival
  <2>3. \A q \in Request : stage'[q] \in Working => stage[q] = stage'[q]
    BY <1>1, Arrival
  <2> QED
    BY <1>0, <1>b, <2>1, <2>2, <2>3
<1>2. ASSUME NEW th \in Thread, SecurityMiddleware(th) PROVE ContextIsOwn'
  <2>1. /\ \A u \in Thread : serves'[u] # Null => serves'[u] = serves[u]
        /\ \A q \in Request : stage'[q] \in Working => stage[q] = stage'[q]
        /\ context' = context
    BY <1>2, Redirect
  <2> QED
    BY <1>0, <1>b, <2>1
<1>3. ASSUME NEW th \in Thread, Bind(th) PROVE ContextIsOwn'
  <2>1. ASSUME NEW u \in Thread, serves[u] # Null, stage'[serves[u]] \in Working
        PROVE  context'[u] = Own(serves[u])
    <3>1. CASE u = th
      BY <1>3, <3>1, Binding
    <3>2. CASE u # th
      <4>1. serves[u] # serves[th] /\ serves[u] \in Request
        BY <1>0, <1>a, <2>1, <3>2
      <4>2. stage'[serves[u]] = stage[serves[u]] /\ context'[u] = context[u]
        BY <1>3, <3>2, <4>1, Binding
      <4> QED
        BY <2>1, <4>2
    <3> QED
      BY <3>1, <3>2
  <2>2. serves' = serves
    BY <1>3, Binding
  <2> QED
    BY <1>0, <1>b, <2>1, <2>2
<1>4. ASSUME NEW th \in Thread, NEW c \in {200, 500}, Answer(th, c) PROVE ContextIsOwn'
  <2>1. /\ \A q \in Request : stage'[q] \in Working => stage[q] \in Working
        /\ serves' = serves /\ context' = context
    BY <1>4, Answering
  <2> QED
    BY <1>0, <1>b, <2>1
<1>5. ASSUME NEW th \in Thread, ObserveLatency(th) PROVE ContextIsOwn'
  <2>1. /\ \A q \in Request : stage'[q] \in Working => stage[q] \in Working
        /\ serves' = serves /\ context' = context
    BY <1>5, Observing
  <2> QED
    BY <1>0, <1>b, <2>1
<1>6. ASSUME NEW th \in Thread, Count(th) PROVE ContextIsOwn'
  <2>1. /\ \A u \in Thread : serves'[u] # Null => serves'[u] = serves[u]
        /\ \A q \in Request : stage'[q] \in Working => stage[q] = stage'[q]
        /\ context' = context
    BY <1>6, Counting
  <2> QED
    BY <1>0, <1>b, <2>1
<1>7. ASSUME NEW th \in Thread, Close(th) PROVE ContextIsOwn'
  <2>1. /\ serves[th] = Null /\ serves' = serves /\ stage' = stage
        /\ \A u \in Thread : u # th => context'[u] = context[u]
    BY <1>7 DEF Close, TypeOK
  <2> QED
    BY <1>0, <1>b, <2>1
<1>8. CASE UNCHANGED <<serves, stage, context>>
  BY <1>0, <1>b, <1>8
<1>9. ASSUME NEW th \in Thread, LoadFails(th) PROVE ContextIsOwn'
  <2>1. /\ \A q \in Request : stage'[q] \in Working => stage[q] = stage'[q]
        /\ serves' = serves /\ context' = context
    BY <1>9, Failing
  <2> QED
    BY <1>0, <1>b, <2>1
<1> QED
  BY <1>1, <1>2, <1>3, <1>4, <1>5, <1>6, <1>7, <1>8, <1>9 DEF Next, Log, vars

(* A context that is left over is of a request that has been answered: the *)
(* thread has bound it, and has served nobody else to the end since.       *)
LEMMA OutlivesStep ==
  ASSUME TypeOK, StageSettles, OneConnection, ContextIsOwn, ContextOutlives, [Next]_vars
  PROVE  ContextOutlives'
<1> USE DEF Working
<1> DEFINE Held(u, q) == stage[q] = "sent" \/ (serves[u] = q /\ stage[q] \in Working)
<1>a. ASSUME NEW u \in Thread, context[u] # Empty
      PROVE  \E q \in Request : context[u] = Own(q) /\ Held(u, q)
  BY <1>a DEF ContextOutlives
<1>b. \A q \in Request : Own(q)' = Own(q)
  BY DEF Own, Identity
<1>c. ASSUME \A u \in Thread : context'[u] = Empty
                \/ \E q \in Request : context'[u] = Own(q) /\ Held(u, q)'
      PROVE  ContextOutlives'
  BY <1>b, <1>c DEF ContextOutlives, Empty
<1>d. \A u \in Thread, t \in Thread : serves[u] # Null /\ serves[u] = serves[t] => u = t
  BY DEF OneConnection
<1>e. \A q \in Request : q # Null
  BY ContextAssumption DEF ContextAssumption
(* Where no context changes, it is enough that what held one still does.   *)
<1>f. ASSUME context' = context,
             \A u \in Thread, q \in Request : Held(u, q) => Held(u, q)'
      PROVE  ContextOutlives'
  BY <1>a, <1>c, <1>f
<1>1. ASSUME NEW th \in Thread, NEW r \in Request, RequestIdMiddleware(th, r)
      PROVE  ContextOutlives'
  BY <1>1, <1>e, <1>f, Arrival
<1>2. ASSUME NEW th \in Thread, SecurityMiddleware(th) PROVE ContextOutlives'
  BY <1>2, <1>f, Redirect
<1>3. ASSUME NEW th \in Thread, LoadFails(th) PROVE ContextOutlives'
  BY <1>3, <1>f, Failing
<1>4. ASSUME NEW th \in Thread, Bind(th) PROVE ContextOutlives'
  <2>1. ASSUME NEW u \in Thread, u # th, context[u] # Empty
        PROVE  \E q \in Request : context'[u] = Own(q) /\ Held(u, q)'
    <3>1. PICK q \in Request : context[u] = Own(q) /\ Held(u, q)
      BY <1>a, <2>1
    <3>2. q # serves[th]
      BY <1>4, <1>d, <1>e, <2>1, <3>1, Binding
    <3> QED
      BY <1>4, <2>1, <3>1, <3>2, Binding
  <2>2. PICK r \in Request : context'[th] = Own(r) /\ Held(th, r)'
    BY <1>4, Binding
  <2>3. \A u \in Thread : u # th => context'[u] = context[u]
    BY <1>4, Binding
  <2> QED
    <3>1. ASSUME NEW u \in Thread
          PROVE  context'[u] = Empty \/ \E q \in Request : context'[u] = Own(q) /\ Held(u, q)'
      BY <2>1, <2>2, <2>3
    <3> HIDE DEF Held
    <3> QED
      BY <1>c, <3>1
<1>5. ASSUME NEW th \in Thread, NEW c \in {200, 500}, Answer(th, c) PROVE ContextOutlives'
  BY <1>5, <1>f, Answering
<1>6. ASSUME NEW th \in Thread, ObserveLatency(th) PROVE ContextOutlives'
  BY <1>6, <1>f, Observing
<1>7. ASSUME NEW th \in Thread, Count(th) PROVE ContextOutlives'
  BY <1>7, <1>f, Counting
<1>8. ASSUME NEW th \in Thread, Close(th) PROVE ContextOutlives'
  <2>1. /\ serves' = serves /\ stage' = stage /\ context'[th] = Empty
        /\ \A u \in Thread : u # th => context'[u] = context[u]
    BY <1>8 DEF Close, TypeOK
  <2> QED
    BY <1>a, <1>c, <2>1
<1>9. CASE UNCHANGED <<serves, stage, context>>
  BY <1>f, <1>9
<1> QED
  BY <1>1, <1>2, <1>3, <1>4, <1>5, <1>6, <1>7, <1>8, <1>9 DEF Next, Log, vars

LEMMA SettlesStep ==
  ASSUME TypeOK, StageSettles, [Next]_vars PROVE StageSettles'
<1> USE DEF StageSettles, Working
<1>1. ASSUME NEW th \in Thread, NEW r \in Request, RequestIdMiddleware(th, r)
      PROVE StageSettles'
  BY <1>1, Arrival DEF Identity
<1>2. ASSUME NEW th \in Thread, SecurityMiddleware(th) PROVE StageSettles'
  BY <1>2, Redirect DEF Identity
<1>3. ASSUME NEW th \in Thread, Bind(th) PROVE StageSettles'
  BY <1>3, Binding DEF Identity
<1>4. ASSUME NEW th \in Thread, NEW c \in {200, 500}, Answer(th, c) PROVE StageSettles'
  BY <1>4, Answering DEF Identity
<1>5. ASSUME NEW th \in Thread, ObserveLatency(th) PROVE StageSettles'
  BY <1>5, Observing DEF Identity
<1>6. ASSUME NEW th \in Thread, Count(th) PROVE StageSettles'
  BY <1>6, Counting DEF Identity
<1>7. CASE UNCHANGED <<ssl_redirect, stage, request_id, code, response_id>>
  BY <1>7 DEF Identity
<1>8. ASSUME NEW th \in Thread, LoadFails(th) PROVE StageSettles'
  BY <1>8, Failing DEF Identity
<1> QED
  BY <1>1, <1>2, <1>3, <1>4, <1>5, <1>6, <1>7, <1>8 DEF Next, Log, Close, vars

LEMMA LogsStep ==
  ASSUME TypeOK, StageSettles, ContextIsOwn, ContextOutlives, LogsAreOwn, [Next]_vars
  PROVE  LogsAreOwn'
<1>1. \A r \in Request : Own(r)' = Own(r)
  BY DEF Own, Identity
<1>2. \A q \in Request :
        /\ stage[q] = "sent" => stage'[q] = "sent"
        /\ stage[q] \in Working => stage'[q] \in Working \cup {"sent"}
  <2> USE DEF Working
  <2> DEFINE Onward == \A q \in Request :
               /\ stage[q] = "sent" => stage'[q] = "sent"
               /\ stage[q] \in Working => stage'[q] \in Working \cup {"sent"}
  <2>1. ASSUME NEW th \in Thread, NEW r \in Request, RequestIdMiddleware(th, r)
        PROVE Onward
    BY <2>1, Arrival
  <2>2. ASSUME NEW th \in Thread, SecurityMiddleware(th) PROVE Onward
    BY <2>2, Redirect
  <2>3. ASSUME NEW th \in Thread, LoadFails(th) PROVE Onward
    BY <2>3, Failing
  <2>4. ASSUME NEW th \in Thread, Bind(th) PROVE Onward
    BY <2>4, Binding
  <2>5. ASSUME NEW th \in Thread, NEW c \in {200, 500}, Answer(th, c) PROVE Onward
    BY <2>5, Answering
  <2>6. ASSUME NEW th \in Thread, ObserveLatency(th) PROVE Onward
    BY <2>6, Observing
  <2>7. ASSUME NEW th \in Thread, Count(th) PROVE Onward
    BY <2>7, Counting
  <2> QED
    BY <2>1, <2>2, <2>3, <2>4, <2>5, <2>6, <2>7 DEF Next, Log, Close, vars
<1>3. ssl_redirect' = ssl_redirect
  BY DEF Next, RequestIdMiddleware, SecurityMiddleware, LoadFails, Bind, Log, Answer,
         ObserveLatency, Count, Close, vars
<1>4. \A x \in log : x.of \in Request
  BY DEF TypeOK
<1>5. ASSUME NEW x \in log, RecordIsOwn(x) PROVE RecordIsOwn(x)'
  <2>1. x.of \in Request
    BY <1>4
  <2> QED
    BY <1>1, <1>2, <1>3, <1>5, <2>1 DEF RecordIsOwn, Empty, Early
<1>6. ASSUME log' = log PROVE LogsAreOwn'
  BY <1>5, <1>6 DEF LogsAreOwn
<1>7. ASSUME NEW th \in Thread, Log(th) PROVE LogsAreOwn'
  <2>0. PICK new : new = Record(th, "bound")
    OBVIOUS
  <2>1. /\ serves[th] \in Request /\ stage[serves[th]] \in Working
        /\ log' = log \cup {new} /\ stage' = stage
        /\ serves[th] # Null
    BY <1>7, <2>0 DEF Log, At, TypeOK, Working
  <2>2. new.of = serves[th] /\ new.context = Own(serves[th]) /\ ~Early(new)
    BY <2>0, <2>1 DEF ContextIsOwn, Record, Early
  <2>3. ~ssl_redirect
    BY <2>1 DEF StageSettles
  <2>4. RecordIsOwn(new)'
    BY <1>1, <1>3, <2>1, <2>2, <2>3 DEF RecordIsOwn, Early
  <2> QED
    BY <1>5, <2>1, <2>4 DEF LogsAreOwn
<1>8. ASSUME NEW th \in Thread, LoadFails(th) PROVE LogsAreOwn'
  <2>0. PICK new : new = Record(th, "warned")
    OBVIOUS
  <2>1. /\ serves[th] \in Request /\ stage[serves[th]] = "admitted"
        /\ serves[th] # Null /\ request_id[serves[th]] = Null
        /\ log' = log \cup {new} /\ ~ssl_redirect
    BY <1>8, <2>0, Failing
  <2>2. new.of = serves[th] /\ new.context = context[th] /\ Early(new)
    BY <2>0 DEF Record, Early
  <2>3. HeaderOf[serves[th]] = Null
    BY <2>1 DEF StageSettles
  <2>4. context[th] = Empty
        \/ \E q \in Request \ {serves[th]} : context[th] = Own(q) /\ stage[q] = "sent"
    BY <2>1 DEF ContextOutlives, Working
  <2>5. RecordIsOwn(new)'
    BY <1>1, <1>2, <1>3, <2>1, <2>2, <2>3, <2>4 DEF RecordIsOwn, Empty, Early
  <2> QED
    BY <1>5, <2>1, <2>5 DEF LogsAreOwn
<1> QED
  BY <1>6, <1>7, <1>8 DEF Next, RequestIdMiddleware, SecurityMiddleware, Bind, Answer,
                    ObserveLatency, Count, Close, vars

LEMMA SetsAreFinite ==
  /\ IsFiniteSet(Observed) /\ \A c : IsFiniteSet(With(c))
<1>1. Observed \subseteq Request /\ \A c : With(c) \subseteq Request
  BY DEF Observed, With
<1> QED
  BY <1>1, FS_Subset, ContextAssumption DEF ContextAssumption

LEMMA MetricsStep ==
  ASSUME TypeOK, StageSettles, MetricsAgree, [Next]_vars PROVE MetricsAgree'
<1>1. ASSUME Observed' = Observed, \A c \in {200, 500} : With(c)' = With(c),
             UNCHANGED <<request_count, latency_count>>
      PROVE  MetricsAgree'
  BY <1>1 DEF MetricsAgree
<1>2. ASSUME NEW th \in Thread, NEW r \in Request, RequestIdMiddleware(th, r)
      PROVE MetricsAgree'
  BY <1>1, <1>2, Arrival DEF Observed, With
<1>3. ASSUME NEW th \in Thread, SecurityMiddleware(th) PROVE MetricsAgree'
  BY <1>1, <1>3, Redirect DEF Observed, With
<1>9. ASSUME NEW th \in Thread, LoadFails(th) PROVE MetricsAgree'
  BY <1>1, <1>9, Failing DEF Observed, With
<1>4. ASSUME NEW th \in Thread, Bind(th) PROVE MetricsAgree'
  BY <1>1, <1>4, Binding DEF Observed, With
<1>5. ASSUME NEW th \in Thread, NEW c \in {200, 500}, Answer(th, c) PROVE MetricsAgree'
  BY <1>1, <1>5, Answering DEF Observed, With
<1>6. ASSUME NEW th \in Thread, ObserveLatency(th) PROVE MetricsAgree'
  <2> DEFINE r == serves[th]
  <2>1. /\ r \in Request /\ stage[r] = "answered" /\ code[r] # 301
        /\ code' = code /\ request_count' = request_count
        /\ \A q \in Request : stage'[q] = IF q = r THEN "observed" ELSE stage[q]
    BY <1>6, Observing DEF StageSettles
  <2> HIDE DEF r
  <2>2. Observed' = Observed \cup {r} /\ r \notin Observed
    BY <2>1 DEF Observed
  <2>3. \A c \in {200, 500} : With(c)' = With(c)
    BY <2>1 DEF With
  <2>4. Cardinality(Observed \cup {r}) = Cardinality(Observed) + 1
    BY <2>2, SetsAreFinite, FS_AddElement
  <2>5. latency_count' = Cardinality(Observed)'
    BY <1>6, <2>2, <2>4, Observing DEF MetricsAgree
  <2> QED
    BY <2>1, <2>3, <2>5 DEF MetricsAgree
<1>7. ASSUME NEW th \in Thread, Count(th) PROVE MetricsAgree'
  <2>1. PICK r \in Request, k \in {200, 500} :
              /\ stage[r] = "observed" /\ code[r] = k
              /\ code' = code /\ latency_count' = latency_count
              /\ request_count' = [request_count EXCEPT ![k] = @ + 1]
              /\ \A q \in Request : stage'[q] = IF q = r THEN "sent" ELSE stage[q]
    BY <1>7, Counting DEF StageSettles
  <2>2. Observed' = Observed
    BY <2>1 DEF Observed
  <2>3. With(k)' = With(k) \cup {r} /\ r \notin With(k)
    BY <2>1 DEF With
  <2>4. \A c \in {200, 500} : c # k => With(c)' = With(c)
    BY <2>1 DEF With
  <2>5. Cardinality(With(k) \cup {r}) = Cardinality(With(k)) + 1
    BY <2>3, SetsAreFinite, FS_AddElement
  <2>6. ASSUME NEW c \in {200, 500} PROVE request_count'[c] = Cardinality(With(c))'
    <3>1. request_count'[c] = IF c = k THEN request_count[c] + 1 ELSE request_count[c]
      BY <2>1 DEF TypeOK, Code
    <3>2. CASE c = k
      <4>1. With(c)' = With(c) \cup {r}
        BY <2>1, <2>3, <3>2
      <4> QED
        BY <2>5, <3>1, <3>2, <4>1 DEF MetricsAgree
    <3>3. CASE c # k
      BY <2>4, <3>1, <3>3 DEF MetricsAgree
    <3> QED
      BY <3>2, <3>3
  <2> QED
    BY <2>1, <2>2, <2>6 DEF MetricsAgree
<1>8. CASE UNCHANGED <<stage, code, request_count, latency_count>>
  BY <1>1, <1>8 DEF Observed, With
<1> QED
  BY <1>2, <1>3, <1>4, <1>5, <1>6, <1>7, <1>8, <1>9 DEF Next, Log, Close, vars

LEMMA InitHolds == Init => IInv
<1> SUFFICES ASSUME Init PROVE IInv
  OBVIOUS
<1>1. TypeOK
  BY ContextAssumption DEF Init, TypeOK, Stage, Context, Empty, Code
<1>2. OneConnection /\ ContextIsOwn /\ ContextOutlives /\ LogsAreOwn
  BY DEF Init, OneConnection, ContextIsOwn, ContextOutlives, LogsAreOwn
<1>3. StageSettles
  BY DEF Init, StageSettles, Working
<1>4. Observed = {} /\ \A c : With(c) = {}
  BY DEF Init, Observed, With
<1>5. MetricsAgree
  BY <1>4, FS_EmptySet DEF Init, MetricsAgree, Code
<1> QED
  BY <1>1, <1>2, <1>3, <1>5 DEF IInv

LEMMA Step == IInv /\ [Next]_vars => IInv'
  BY TypeStep, ConnectionStep, ContextStep, OutlivesStep, SettlesStep, LogsStep, MetricsStep DEF IInv

(* Whatever requests arrive on however many connections, each is on one     *)
(* connection, a thread that works on a bound request has its context, and  *)
(* before the binding nobody's or that of a request answered before; each   *)
(* record carries what its thread had.                                      *)
THEOREM Invariant == Spec => []IInv
  BY InitHolds, Step, PTL DEF Spec

(* A record of a bound request never names another one, on any number of    *)
(* threads; the warning before the binding names none or an answered one.   *)
THEOREM RecordsNameTheirRequest == Spec => []LogsNameTheirRequest
<1>1. ASSUME IInv, NEW x \in log, ~Early(x)
      PROVE  /\ x.context.request = x.of
             /\ x.context.id # Null
             /\ x.context.id = request_id[x.of]
  <2>1. x.of \in Request
    BY <1>1 DEF IInv, TypeOK
  <2>2. x.context = Own(x.of) /\ request_id[x.of] = Identity(x.of)
    BY <1>1, <2>1 DEF IInv, LogsAreOwn, RecordIsOwn, StageSettles
  <2>3. Identity(x.of) # Null
    BY <2>1, ContextAssumption DEF ContextAssumption, Identity
  <2> QED
    BY <2>2, <2>3 DEF Own
<1>2. ASSUME IInv, NEW x \in log, Early(x), x.context # Empty
      PROVE  \E q \in Request \ {x.of} :
               /\ stage[q] = "sent"
               /\ x.context = [id |-> request_id[q], request |-> q]
  <2>1. PICK q \in Request \ {x.of} : x.context = Own(q) /\ stage[q] = "sent"
    BY <1>2 DEF IInv, LogsAreOwn, RecordIsOwn
  <2>2. request_id[q] = Identity(q)
    BY <1>2, <2>1 DEF IInv, StageSettles, LogsAreOwn, RecordIsOwn
  <2> QED
    BY <2>1, <2>2 DEF Own
<1>3. IInv => LogsNameTheirRequest
  BY <1>1, <1>2 DEF LogsNameTheirRequest
<1> QED
  BY <1>3, Invariant, PTL

(* The header of every response that passed the middleware is the id of the *)
(* records from the binding on; one written before it is of a request that  *)
(* brought no id.                                                           *)
THEOREM HeaderIsTheLogs == Spec => []HeaderFindsTheLog
<1>1. ASSUME IInv, NEW r \in Request, stage[r] = "sent", ~ssl_redirect
      PROVE  /\ response_id[r] # Null
             /\ HeaderOf[r] # Null => response_id[r] = HeaderOf[r]
             /\ \A x \in log : x.of = r =>
                    IF Early(x) THEN HeaderOf[r] = Null
                    ELSE x.context.id = response_id[r]
  <2>1. response_id[r] = Identity(r)
    BY <1>1 DEF IInv, StageSettles
  <2>2. Identity(r) # Null
    BY ContextAssumption DEF ContextAssumption, Identity
  <2>3. ASSUME NEW x \in log, x.of = r
        PROVE  IF Early(x) THEN HeaderOf[r] = Null ELSE x.context = Own(r)
    BY <1>1, <2>3 DEF IInv, LogsAreOwn, RecordIsOwn
  <2> QED
    BY <2>1, <2>2, <2>3 DEF Own, Identity
<1>2. IInv => HeaderFindsTheLog
  BY <1>1 DEF HeaderFindsTheLog
<1> QED
  BY <1>2, Invariant, PTL

(* The two metrics count exactly the responses that passed the middleware,  *)
(* for any number of requests.                                              *)
THEOREM CountersAreExact == Spec => []MetricsAgree
  BY Invariant, PTL DEF IInv
=============================================================================
