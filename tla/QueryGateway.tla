----------------------------- MODULE QueryGateway -----------------------------
(***************************************************************************)
(* The Params query of x/stablecoin on its way from HTTP to the keeper and *)
(* back: query.pb.gw.go with the gRPC client and handler of query.pb.go.   *)
(*                                                                         *)
(* Routes are registered in one of three ways.  "server" calls the query   *)
(* server directly; "client" sends requests over a connection that belongs *)
(* to somebody else, as module.go does; "endpoint" dials a connection of   *)
(* its own and closes it when the context of the registration is done.     *)
(* Requests run concurrently with each other and with that.                *)
(***************************************************************************)
EXTENDS Naturals, Sequences

CONSTANTS Requests, Ways

ASSUME WaysAssumption == Ways \subseteq {"server", "client", "endpoint"}

VARIABLES
  way,       \* how the routes are registered
  setup,     \* where the registration is
  done,      \* is the context given to the registration done
  conn,      \* the connection
  closer,    \* the goroutine that waits for the context
  handler,   \* where the handler of each request is
  ended,     \* why the context of a request ended, "no" while it has not
  rpc,       \* the call that a request made, its code once it is answered
  result,    \* the code that the handler got
  replies,   \* what was written to the client of each request
  item       \* the Params item in the store

registration == <<way, setup, done, conn, closer>>
requests == <<handler, ended, rpc, result, replies>>
vars == <<registration, requests, item>>

Codes == {"ok", "internal", "undecodable", "bad request", "canceled", "deadline", "closing",
          "unavailable"}

Init ==
  /\ way \in Ways /\ setup = "start" /\ done = FALSE
  /\ conn = IF way = "client" THEN "open" ELSE "none"
  /\ closer = "none"
  /\ handler = [r \in Requests |-> "idle"]
  /\ ended = [r \in Requests |-> "no"]
  /\ rpc = [r \in Requests |-> "none"]
  /\ result = [r \in Requests |-> "none"]
  /\ replies = [r \in Requests |-> <<>>]
  /\ item \in {"stored", "missing", "broken"}

(***************************************************************************)
(* Registration.                                                           *)
(***************************************************************************)
RegisterQueryHandlerServer ==
  /\ way = "server" /\ setup = "start"
  /\ setup' = "registered"
  /\ UNCHANGED <<way, done, conn, closer, requests, item>>

(* The context that the function is given is not used.                     *)
RegisterQueryHandlerClient ==
  /\ \/ way = "client" /\ setup = "start" /\ setup' = "registered"
     \/ way = "endpoint" /\ setup = "dialled" /\ setup' = "returning"
  /\ UNCHANGED <<way, done, conn, closer, requests, item>>

(* Mutant: the error of Dial is ignored.                                   *)
DialAnyway ==
  /\ way = "endpoint" /\ setup = "start"
  /\ setup' = "dialled" /\ conn' \in {"open", "none"}
  /\ UNCHANGED <<way, done, closer, requests, item>>

Dial ==
  /\ way = "endpoint" /\ setup = "start"
  /\ \/ setup' = "dialled" /\ conn' = "open"
     \/ setup' = "failed" /\ conn' = conn
  /\ UNCHANGED <<way, done, closer, requests, item>>

(* Mutant: the connection is closed by the deferred function itself.       *)
CloseOnReturn ==
  /\ setup = "returning"
  /\ setup' = "registered" /\ conn' = "closed"
  /\ UNCHANGED <<way, done, closer, requests, item>>

(* Mutant: nobody waits for the context.                                   *)
ReturnOnly ==
  /\ setup = "returning"
  /\ setup' = "registered"
  /\ UNCHANGED <<way, done, conn, closer, requests, item>>

(* The deferred function.  Registering returns no error, and so the branch *)
(* that closes the connection at once is never taken.                      *)
StartCloser ==
  /\ setup = "returning"
  /\ setup' = "registered" /\ closer' = "waiting"
  /\ UNCHANGED <<way, done, conn, requests, item>>

CloseConnection ==
  /\ closer = "waiting" /\ done
  /\ closer' = "ended" /\ conn' = "closed"
  /\ UNCHANGED <<way, setup, done, requests, item>>

ContextDone ==
  /\ ~done /\ done' = TRUE
  /\ UNCHANGED <<way, setup, conn, closer, requests, item>>

(* The connection of module.go is the node's.                              *)
OwnerCloses ==
  /\ way = "client" /\ conn = "open" /\ conn' = "closed"
  /\ UNCHANGED <<way, setup, done, closer, requests, item>>

Register ==
  RegisterQueryHandlerServer \/ RegisterQueryHandlerClient \/ Dial \/ StartCloser

(***************************************************************************)
(* A request, from the route to its reply.                                 *)
(***************************************************************************)
OnRoute == setup \in {"returning", "registered"}

Arrive(r) ==
  /\ OnRoute /\ handler[r] = "idle"
  /\ handler' = [handler EXCEPT ![r] = "annotate"]
  /\ UNCHANGED <<registration, ended, rpc, result, replies, item>>

(* The client leaves, or the time that its header allows is over.          *)
ContextEnds(r) ==
  /\ ended[r] = "no"
  /\ \/ handler[r] \in {"annotate", "call", "wait", "reply"} /\ ended' = [ended EXCEPT ![r] = "canceled"]
     \/ handler[r] \in {"call", "wait", "reply"} /\ ended' = [ended EXCEPT ![r] = "deadline"]
  /\ UNCHANGED <<registration, handler, rpc, result, replies, item>>

Annotate(r) ==
  /\ handler[r] = "annotate"
  /\ handler' = [handler EXCEPT ![r] = "call"]
  /\ UNCHANGED <<registration, ended, rpc, result, replies, item>>

Reply(r, code) == replies' = [replies EXCEPT ![r] = Append(@, code)]

(* Mutant: no return after the error.                                      *)
RejectAndGoOn(r) ==
  /\ handler[r] = "annotate"
  /\ Reply(r, "bad request")
  /\ handler' = [handler EXCEPT ![r] = "call"]
  /\ UNCHANGED <<registration, ended, rpc, result, item>>

RejectRequest(r) ==
  /\ handler[r] = "annotate"
  /\ Reply(r, "bad request")
  /\ handler' = [handler EXCEPT ![r] = "done"]
  /\ UNCHANGED <<registration, ended, rpc, result, item>>

(* queryServer.Params: a missing item is answered with the defaults.       *)
Params == IF item = "broken" THEN "internal" ELSE "ok"

Got(r, code) ==
  /\ result' = [result EXCEPT ![r] = code]
  /\ handler' = [handler EXCEPT ![r] = "reply"]

local_request_Query_Params_0(r) ==
  /\ way = "server" /\ handler[r] = "call"
  /\ Got(r, Params)
  /\ UNCHANGED <<registration, ended, rpc, replies, item>>

(* Mutant: the call is made with a context of its own.                     *)
OwnContext(r) == {}

(* The call is made with the context of the request, ended or not.         *)
CallContext(r) == {ended[r]} \ {"no"}

(* queryClient.Params: Invoke sends the request, and returns the answer,   *)
(* the end of the call's context or the close of the connection.           *)
Lost(r) == (IF conn = "closed" THEN {"closing"} ELSE {}) \cup CallContext(r)

Send(r) ==
  /\ way # "server" /\ handler[r] = "call" /\ Lost(r) = {}
  /\ rpc' = [rpc EXCEPT ![r] = "sent"]
  /\ handler' = [handler EXCEPT ![r] = "wait"]
  /\ UNCHANGED <<registration, ended, result, replies, item>>

InvokeReturns(r) ==
  /\ way # "server"
  /\ \/ handler[r] = "call" /\ \E code \in Lost(r) : Got(r, code)
     \/ handler[r] = "wait" /\ \E code \in Lost(r) \cup ({rpc[r]} \cap Codes) : Got(r, code)
  /\ UNCHANGED <<registration, ended, rpc, replies, item>>

(* The transport of the connection fails, also one that is being closed.   *)
TransportFails(r) ==
  /\ way # "server" /\ handler[r] \in {"call", "wait"}
  /\ Got(r, "unavailable")
  /\ UNCHANGED <<registration, ended, rpc, replies, item>>

(* HTTPError or forward_Query_Params_0, and the deferred cancel.           *)
Respond(r) ==
  /\ handler[r] = "reply"
  /\ Reply(r, result[r])
  /\ handler' = [handler EXCEPT ![r] = "done"]
  /\ UNCHANGED <<registration, ended, rpc, result, item>>

(***************************************************************************)
(* The service.  Callers of gRPC reach it without the gateway, with bytes  *)
(* that may not decode.                                                    *)
(***************************************************************************)
CallDirectly(r) ==
  /\ handler[r] = "idle"
  /\ handler' = [handler EXCEPT ![r] = "direct"]
  /\ \E bytes \in {"sent", "garbled"} : rpc' = [rpc EXCEPT ![r] = bytes]
  /\ UNCHANGED <<registration, ended, result, replies, item>>

_Query_Params_Handler(r) ==
  /\ rpc[r] \in {"sent", "garbled"}
  /\ rpc' = [rpc EXCEPT ![r] = IF @ = "garbled" THEN "undecodable" ELSE Params]
  /\ UNCHANGED <<registration, handler, ended, result, replies, item>>

DirectAnswer(r) ==
  /\ handler[r] = "direct" /\ rpc[r] \in Codes
  /\ Reply(r, rpc[r])
  /\ handler' = [handler EXCEPT ![r] = "done"]
  /\ UNCHANGED <<registration, ended, rpc, result, item>>

Handle(r) ==
  \/ Annotate(r) \/ RejectRequest(r)
  \/ local_request_Query_Params_0(r) \/ Send(r) \/ InvokeReturns(r)
  \/ Respond(r) \/ DirectAnswer(r)

Next ==
  \/ Register \/ CloseConnection \/ ContextDone \/ OwnerCloses
  \/ \E r \in Requests :
       \/ Arrive(r) \/ ContextEnds(r) \/ CallDirectly(r) \/ Handle(r)
       \/ TransportFails(r) \/ _Query_Params_Handler(r)

(* Go runs the goroutines of the gateway on.  Nothing makes a service      *)
(* answer what it was sent.                                                *)
Fairness ==
  /\ WF_vars(Register)
  /\ WF_vars(CloseConnection)
  /\ \A r \in Requests : WF_vars(Handle(r))

Spec == Init /\ [][Next]_vars /\ Fairness

(***************************************************************************)
(* Properties                                                              *)
(***************************************************************************)
(* Every variable keeps its type, and routes that send over a connection   *)
(* have one.                                                               *)
TypeOK ==
  /\ way \in Ways
  /\ setup \in {"start", "dialled", "returning", "registered", "failed"}
  /\ done \in BOOLEAN
  /\ conn \in {"none", "open", "closed"}
  /\ closer \in {"none", "waiting", "ended"}
  /\ handler \in [Requests -> {"idle", "annotate", "call", "wait", "reply", "direct", "done"}]
  /\ ended \in [Requests -> {"no", "canceled", "deadline"}]
  /\ rpc \in [Requests -> {"none", "sent", "garbled"} \cup Codes]
  /\ result \in [Requests -> {"none"} \cup Codes]
  /\ replies \in [Requests -> Seq(Codes)]
  /\ item \in {"stored", "missing", "broken"}
  /\ OnRoute /\ way # "server" => conn # "none"

(* A request is answered once it is done with, and never twice.            *)
OneReply ==
  \A r \in Requests : Len(replies[r]) = IF handler[r] = "done" THEN 1 ELSE 0

(* A reply tells the truth: an answer of the store is that of the store, a *)
(* request whose context is said to have ended has ended, and nobody is    *)
(* told of a closing connection while its owner keeps it, or of a failing  *)
(* transport where the gateway has none.                                   *)
Cause(r, code) ==
  CASE code = "ok"                       -> item # "broken"
    [] code = "internal"                 -> item = "broken"
    [] code \in {"canceled", "deadline"} -> ended[r] = code
    [] code = "closing"                  -> conn = "closed" /\ (way = "endpoint" => done)
    [] code = "unavailable"              -> way # "server"
    [] OTHER                             -> TRUE

(* Each request gets one reply, for the reason that the reply gives,       *)
(* whatever ends while it runs: its own context, that of the registration, *)
(* or the connection.                                                      *)
OneReplyWithCause ==
  /\ OneReply
  /\ \A r \in Requests : \A i \in DOMAIN replies[r] : Cause(r, replies[r][i])

(* A request waits for a service that has not answered, and neither the    *)
(* request nor the connection has ended.                                   *)
Unanswered(r) ==
  /\ handler[r] \in {"wait", "direct"} /\ rpc[r] \notin Codes
  /\ handler[r] = "wait" => ended[r] = "no" /\ conn # "closed"

(* Every request that reached a route is answered, unless it waits for a   *)
(* silent service for ever.  In particular the end of its own context, the *)
(* close of the connection, and with it the end of the context of the      *)
(* registration, free a request that a silent service would keep.          *)
EveryRequestAnswered ==
  \A r \in Requests :
    []<>~Unanswered(r) => (handler[r] # "idle" ~> handler[r] = "done")

(* The connection that RegisterQueryHandlerFromEndpoint dialled is closed  *)
(* when its context is done, even if that was before it returned.          *)
ConnectionReleased == way = "endpoint" /\ done /\ conn = "open" ~> conn = "closed"

=============================================================================
