---------------------------- MODULE RequestContext ----------------------------
(***************************************************************************)
(* RequestContextMiddleware and the request part of the logging context:   *)
(* the request id, the context variables of the thread, the two HTTP       *)
(* metrics and the response header.                                        *)
(*                                                                         *)
(* The development server runs one thread for each connection and keeps    *)
(* the connection, so a thread serves several requests one after another   *)
(* and its context variables outlive a request. Threads interleave at any  *)
(* statement; a step is what one thread does between two accesses to what  *)
(* others see.                                                             *)
(***************************************************************************)
EXTENDS Integers, FiniteSets

CONSTANTS Thread,     \* connections the server holds at a time
          Request,
          HeaderOf,   \* X-Request-ID each request arrives with, or Null
          NewId,      \* id generated for a request, if one is
          Null

Id == {HeaderOf[r] : r \in Request} \cup {NewId[r] : r \in Request}

ASSUME ContextAssumption ==
    /\ IsFiniteSet(Request)
    /\ Null \notin Request
    /\ Null \notin {NewId[r] : r \in Request}

Code    == {200, 301, 500}
Context == [id : Id \cup {Null}, request : Request \cup {Null}]
Empty   == [id |-> Null, request |-> Null]

VARIABLES ssl_redirect,  \* SECURE_SSL_REDIRECT, set in staging only
          stage,         \* where each request is
          serves,        \* thread -> the request on its connection, or Null
          request_id,    \* request.request_id
          code,          \* status code of the response
          context,       \* thread -> the context variables
          request_count, \* REQUEST_COUNT, by status
          latency_count, \* observations of REQUEST_LATENCY
          response_id,   \* X-Request-ID of the response
          log            \* records: request at work, context, stage

vars == <<ssl_redirect, stage, serves, request_id, code, context, request_count,
          latency_count, response_id, log>>

Stage == {"new", "admitted", "warned", "bound", "answered", "observed", "sent"}

Init ==
    /\ ssl_redirect \in BOOLEAN
    /\ stage = [r \in Request |-> "new"]
    /\ serves = [th \in Thread |-> Null]
    /\ request_id = [r \in Request |-> Null]
    /\ code = [r \in Request |-> Null]
    /\ context = [th \in Thread |-> Empty]
    /\ request_count = [c \in Code |-> 0]
    /\ latency_count = 0
    /\ response_id = [r \in Request |-> Null]
    /\ log = {}

-----------------------------------------------------------------------------
At(th, st) == serves[th] # Null /\ stage[serves[th]] = st

Advance(th, st) == stage' = [stage EXCEPT ![serves[th]] = st]

(* What the filter makes of a record: the context variables of the thread. *)
(* It is early when the request has not yet bound its own.                 *)
Record(th, at) == [of |-> serves[th], context |-> context[th], at |-> at]
Early(x) == x.at = "warned"

(* RequestIdMiddleware: the id the request arrived with, if it has one.    *)
RequestIdMiddleware(th, r) ==
    /\ serves[th] = Null
    /\ stage[r] = "new"
    /\ stage' = [stage EXCEPT ![r] = "admitted"]
    /\ serves' = [serves EXCEPT ![th] = r]
    /\ request_id' = [request_id EXCEPT ![r] = HeaderOf[r]]
    /\ UNCHANGED <<ssl_redirect, code, context, request_count, latency_count,
                   response_id, log>>

(* With the redirect set SecurityMiddleware answers every request itself,  *)
(* the server speaking plain HTTP only: what is below it in the MIDDLEWARE *)
(* list never sees one.                                                    *)
SecurityMiddleware(th) ==
    /\ ssl_redirect
    /\ At(th, "admitted")
    /\ Advance(th, "sent")
    /\ serves' = [serves EXCEPT ![th] = Null]
    /\ code' = [code EXCEPT ![serves[th]] = 301]
    /\ UNCHANGED <<ssl_redirect, request_id, context, request_count,
                   latency_count, response_id, log>>

(* Mutated: the header is taken as it is, empty or not.                    *)
header_only(r) == request_id[r]

(* An id of the request itself, else a generated one; the generator of the *)
(* settings and the fallback both give a new uuid.                         *)
_get_request_id(r) == IF request_id[r] # Null THEN request_id[r] ELSE NewId[r]

(* The generator of the settings cannot be loaded: a warning, written with *)
(* the context the thread has before the binding, and then the fallback.   *)
LoadFails(th) ==
    /\ ~ssl_redirect
    /\ At(th, "admitted")
    /\ request_id[serves[th]] = Null
    /\ Advance(th, "warned")
    /\ log' = log \cup {Record(th, "warned")}
    /\ UNCHANGED <<ssl_redirect, serves, request_id, code, context,
                   request_count, latency_count, response_id>>

(* Mutated: one variable of the module for all threads.                    *)
bind_module_global(th, r, id) ==
    context' = [t \in Thread |-> [id |-> id, request |-> r]]

bind_request_context(th, r, id) ==
    context' = [context EXCEPT ![th] = [id |-> id, request |-> r]]

(* __call__ up to get_response.                                            *)
Bind(th) ==
    LET r  == serves[th]
        id == _get_request_id(r) IN
    /\ ~ssl_redirect
    /\ At(th, "admitted") \/ At(th, "warned")
    /\ Advance(th, "bound")
    /\ request_id' = [request_id EXCEPT ![r] = id]
    /\ bind_request_context(th, r, id)
    /\ UNCHANGED <<ssl_redirect, serves, code, request_count, latency_count,
                   response_id, log>>

(* A log record of the view or of a middleware below.                      *)
Log(th) ==
    /\ At(th, "bound") \/ At(th, "answered") \/ At(th, "observed")
    /\ log' = log \cup {Record(th, "bound")}
    /\ UNCHANGED <<ssl_redirect, stage, serves, request_id, code, context,
                   request_count, latency_count, response_id>>

(* get_response returns: an exception of the view has become a 500.        *)
Answer(th, c) ==
    /\ At(th, "bound")
    /\ Advance(th, "answered")
    /\ code' = [code EXCEPT ![serves[th]] = c]
    /\ UNCHANGED <<ssl_redirect, serves, request_id, context, request_count,
                   latency_count, response_id, log>>

ObserveLatency(th) ==
    /\ At(th, "answered")
    /\ Advance(th, "observed")
    /\ latency_count' = latency_count + 1
    /\ UNCHANGED <<ssl_redirect, serves, request_id, code, context,
                   request_count, response_id, log>>

(* Mutated: errors are left to the exception handler to count.             *)
count_success(counts, c) ==
    IF c = 500 THEN counts ELSE [counts EXCEPT ![c] = @ + 1]

inc(counts, c) == [counts EXCEPT ![c] = @ + 1]

(* Mutated: the header repeats what the request arrived with.              *)
echo(r) == HeaderOf[r]

header(r) == request_id[r]

(* The counter and the header; then the response leaves, and the thread    *)
(* waits for the next request on the connection, its context as it is.     *)
Count(th) ==
    LET r == serves[th] IN
    /\ At(th, "observed")
    /\ Advance(th, "sent")
    /\ request_count' = inc(request_count, code[r])
    /\ response_id' = [response_id EXCEPT ![r] = header(r)]
    /\ serves' = [serves EXCEPT ![th] = Null]
    /\ UNCHANGED <<ssl_redirect, request_id, code, context, latency_count,
                   log>>

(* The connection closes; the next one has a thread with a fresh context.  *)
Close(th) ==
    /\ serves[th] = Null
    /\ context' = [context EXCEPT ![th] = Empty]
    /\ UNCHANGED <<ssl_redirect, stage, serves, request_id, code,
                   request_count, latency_count, response_id, log>>

Next ==
    \E th \in Thread :
        \/ \E r \in Request : RequestIdMiddleware(th, r)
        \/ SecurityMiddleware(th)
        \/ LoadFails(th)
        \/ Bind(th)
        \/ Log(th)
        \/ \E c \in {200, 500} : Answer(th, c)
        \/ ObserveLatency(th)
        \/ Count(th)
        \/ Close(th)

Spec == Init /\ [][Next]_vars

-----------------------------------------------------------------------------
(* The shape of the recorded state.                                        *)
TypeOK ==
    /\ ssl_redirect \in BOOLEAN
    /\ stage \in [Request -> Stage]
    /\ serves \in [Thread -> Request \cup {Null}]
    /\ request_id \in [Request -> Id \cup {Null}]
    /\ code \in [Request -> Code \cup {Null}]
    /\ context \in [Thread -> Context]
    /\ request_count \in [Code -> Nat]
    /\ latency_count \in Nat
    /\ response_id \in [Request -> Id \cup {Null}]
    /\ log \subseteq [of : Request, context : Context, at : {"warned", "bound"}]

(* A record of a bound request carries the id, method and path of that     *)
(* request, whatever other threads serve meanwhile and whatever its own    *)
(* thread served before. The warning before the binding never does: it     *)
(* carries no context on a new connection, and on a kept one that of a     *)
(* request answered before.                                                *)
LogsNameTheirRequest ==
    \A x \in log :
        IF Early(x)
        THEN \/ x.context = Empty
             \/ \E q \in Request \ {x.of} :
                    /\ stage[q] = "sent"
                    /\ x.context = [id |-> request_id[q], request |-> q]
        ELSE /\ x.context.request = x.of
             /\ x.context.id # Null
             /\ x.context.id = request_id[x.of]

(* The X-Request-ID a client reads is the one it sent if it sent one, and  *)
(* the id in all records of its request from the binding on. What was      *)
(* written before is of a request that came without an id.                 *)
HeaderFindsTheLog ==
    \A r \in Request : stage[r] = "sent" /\ ~ssl_redirect =>
        /\ response_id[r] # Null
        /\ HeaderOf[r] # Null => response_id[r] = HeaderOf[r]
        /\ \A x \in log : x.of = r =>
               IF Early(x) THEN HeaderOf[r] = Null
               ELSE x.context.id = response_id[r]

(* Requests the view or a middleware below may be logging for.             *)
Working == {"bound", "answered", "observed"}

(* The id a request has from its binding on.                               *)
Identity(r) == IF HeaderOf[r] # Null THEN HeaderOf[r] ELSE NewId[r]

Own(r) == [id |-> Identity(r), request |-> r]

(* A request is on one connection from its arrival to its response.        *)
OneConnection ==
    \A th \in Thread : serves[th] # Null =>
        /\ stage[serves[th]] \in Working \cup {"admitted", "warned"}
        /\ \A u \in Thread : serves[u] = serves[th] => u = th

(* The context of a thread is that of the request it works on.             *)
ContextIsOwn ==
    \A th \in Thread : serves[th] # Null /\ stage[serves[th]] \in Working =>
        context[th] = Own(serves[th])

(* Before the binding it is nobody's, or that of a request answered before *)
(* on the connection: nothing clears it.                                   *)
ContextOutlives ==
    \A th \in Thread :
        \/ context[th] = Empty
        \/ \E q \in Request :
               /\ context[th] = Own(q)
               /\ stage[q] = "sent" \/ (serves[th] = q /\ stage[q] \in Working)

(* What each stage has settled: the id, the status and the header.         *)
StageSettles ==
    \A r \in Request :
        /\ stage[r] \in {"new", "admitted", "warned", "bound"} => code[r] = Null
        /\ stage[r] \in {"answered", "observed"} => code[r] \in {200, 500}
        /\ stage[r] \in {"admitted", "warned"} => request_id[r] = HeaderOf[r]
        /\ stage[r] = "warned" => HeaderOf[r] = Null
        /\ stage[r] \in Working \cup {"warned"} => ~ssl_redirect
        /\ stage[r] \in Working \cup {"sent"} /\ ~ssl_redirect =>
               request_id[r] = Identity(r)
        /\ stage[r] = "sent" /\ ~ssl_redirect =>
               code[r] \in {200, 500} /\ response_id[r] = Identity(r)
        /\ stage[r] = "sent" /\ ssl_redirect => code[r] = 301

(* Records of bound requests have their own context; a warning has what    *)
(* the thread had left.                                                    *)
RecordIsOwn(x) ==
    /\ ~ssl_redirect
    /\ ~Early(x) => /\ x.context = Own(x.of)
                   /\ stage[x.of] \in Working \cup {"sent"}
    /\ Early(x) => /\ HeaderOf[x.of] = Null
                  /\ \/ x.context = Empty
                     \/ \E q \in Request \ {x.of} :
                            x.context = Own(q) /\ stage[q] = "sent"

LogsAreOwn == \A x \in log : RecordIsOwn(x)

With(c)  == {r \in Request : stage[r] = "sent" /\ code[r] = c}
Observed == {r \in Request : stage[r] \in {"observed", "sent"} /\ code[r] # 301}

(* Each response that passed the middleware is counted once under its own  *)
(* status, errors included, and the histogram is ahead of the counter by   *)
(* the threads that are between the two.                                   *)
MetricsAgree ==
    /\ \A c \in {200, 500} : request_count[c] = Cardinality(With(c))
    /\ latency_count = Cardinality(Observed)

(* Inductive: all of the above is kept by every step, since a request is   *)
(* on one connection only and a binding gives the thread its own context.  *)
IInv == /\ TypeOK
        /\ OneConnection
        /\ ContextIsOwn
        /\ ContextOutlives
        /\ StageSettles
        /\ LogsAreOwn
        /\ MetricsAgree
=============================================================================
