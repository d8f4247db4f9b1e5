-------------------------- MODULE ManagementClient --------------------------
(***************************************************************************)
(* The life of a client: client/rabbitmq_client.py, RabbitMQClient, around *)
(* the transport it owns.  The constructor creates the adapter and asks    *)
(* the broker for its version; if that fails it closes the adapter again   *)
(* and lets the first error through.  A client that was constructed serves *)
(* any number of threads, which may also close it, several at a time, and  *)
(* a close may itself fail.  Of the version only the major number matters: *)
(* with any other than 4 the client has no managers to make requests with. *)
(***************************************************************************)
EXTENDS RetryTransport

CONSTANTS
  Constructor,           \* the thread that runs __init__
  Closer                 \* threads that call close or leave a with block

ASSUME ConstructorAssumption == Constructor \in Caller
ASSUME OverviewAssumption == Overview \in Requests

VARIABLES
  phase,                 \* of the constructor
  raised,                \* what the constructor raised, or "none"
  has_adapter,           \* is there an adapter?  (_ha)
  closed,                \* RabbitMQClient._closed
  closing,               \* where each closing thread is
  close_failed,          \* has an adapter close raised?
  version,               \* the major version, or None  (_version)
  not_implemented        \* the threads that asked for a manager in vain

service == <<version, not_implemented>>
client == <<phase, raised, has_adapter, closed, closing, close_failed, service>>

(* RabbitMQMajorVersion, and the numbers it does not list.                 *)
Major == {"V4", "other"}

ClientInit ==
  /\ Init
  /\ phase = "new"
  /\ raised = "none"
  /\ has_adapter = FALSE
  /\ closed = FALSE
  /\ closing = [t \in Closer |-> "idle"]
  /\ close_failed = FALSE
  /\ version = None
  /\ not_implemented = {}

-----------------------------------------------------------------------------
(* __init__: create_ssl_context fails before there is an adapter.          *)
FailTls ==
  /\ phase = "new"
  /\ phase' = "failed"
  /\ raised' = "transport_error"
  /\ UNCHANGED <<vars, has_adapter, closed, closing, close_failed, service>>

(* With version_override no request is made.                               *)
CreateAdapter ==
  /\ phase = "new"
  /\ has_adapter' = TRUE
  /\ \/ phase' = "probe" /\ version' = None
     \/ phase' = "ready" /\ version' \in Major
  /\ UNCHANGED <<vars, raised, closed, closing, close_failed, not_implemented>>

(* _get_version: GET /api/overview.                                        *)
Probe ==
  /\ phase = "probe"
  /\ Call(Constructor, Overview)
  /\ UNCHANGED client

Probed == phase = "probe" /\ pc[Constructor] = "ended"

AcceptVersion ==
  /\ Probed
  /\ outcome[Constructor].status = "ok"
  /\ phase' = "ready"
  /\ version' \in Major
  /\ UNCHANGED <<vars, raised, has_adapter, closed, closing, close_failed, not_implemented>>

(* The error of the request, or an overview that names no usable version.  *)
RejectVersion ==
  /\ Probed
  /\ raised' = IF outcome[Constructor].status = "ok" THEN "malformed_response"
               ELSE outcome[Constructor].status
  /\ phase' = "cleanup"
  /\ UNCHANGED <<vars, has_adapter, closed, closing, close_failed, service>>

(* Faulty CleanUp: only the flag is set. *)
CleanUpFlagOnly ==
  /\ phase = "cleanup"
  /\ closed' = TRUE
  /\ phase' = "failed"
  /\ UNCHANGED <<vars, raised, has_adapter, closing, close_failed, service>>

(* Faulty CleanUpFails: the error of the clean-up replaces the first one. *)
CleanUpRaises ==
  /\ phase = "cleanup"
  /\ CloseAdapter \/ UNCHANGED vars
  /\ raised' = "transport_error"
  /\ close_failed' = TRUE
  /\ phase' = "failed"
  /\ UNCHANGED <<has_adapter, closed, closing, service>>

(* The constructor's own close; an Exception it raises is suppressed.      *)
CleanUp ==
  /\ phase = "cleanup"
  /\ CloseAdapter
  /\ closed' = TRUE
  /\ phase' = "failed"
  /\ UNCHANGED <<raised, has_adapter, closing, close_failed, service>>

CleanUpFails ==
  /\ phase = "cleanup"
  /\ CloseAdapter \/ UNCHANGED vars
  /\ close_failed' = TRUE
  /\ phase' = "failed"
  /\ UNCHANGED <<raised, has_adapter, closed, closing, service>>

-----------------------------------------------------------------------------
(* A manager's request; managers do not look at _closed.                   *)
Request(c) ==
  /\ phase = "ready"
  /\ version = "V4"
  /\ c # Constructor
  /\ \E r \in Requests \ {Overview} : Call(c, r)
  /\ UNCHANGED client

(* Every accessor raises NotImplementedError for another major version:    *)
(* there is no manager, and no request.                                    *)
RefuseManager(c) ==
  /\ phase = "ready"
  /\ version # "V4"
  /\ c # Constructor
  /\ not_implemented' = not_implemented \cup {c}
  /\ UNCHANGED <<vars, phase, raised, has_adapter, closed, closing, close_failed, version>>

(* Faulty Close: the flag is set first. *)
CloseFlagFirst(t) ==
  /\ phase = "ready"
  /\ closing[t] = "idle"
  /\ ~closed
  /\ closed' = TRUE
  /\ closing' = [closing EXCEPT ![t] = "adapter"]
  /\ UNCHANGED <<vars, phase, raised, has_adapter, close_failed, service>>

(* close: a thread that finds the client open goes on to close it; on a    *)
(* closed client nothing happens.                                          *)
Close(t) ==
  /\ phase = "ready"
  /\ closing[t] = "idle"
  /\ ~closed
  /\ closing' = [closing EXCEPT ![t] = "adapter"]
  /\ UNCHANGED <<vars, phase, raised, has_adapter, closed, close_failed, service>>

(* _ha.close() ...                                                         *)
CloseOwned(t) ==
  /\ closing[t] = "adapter"
  /\ CloseAdapter
  /\ closing' = [closing EXCEPT ![t] = "flag"]
  /\ UNCHANGED <<phase, raised, has_adapter, closed, close_failed, service>>

(* ... which may raise, having closed the connections or not.              *)
CloseOwnedFails(t) ==
  /\ closing[t] = "adapter"
  /\ CloseAdapter \/ UNCHANGED vars
  /\ closing' = [closing EXCEPT ![t] = "idle"]
  /\ close_failed' = TRUE
  /\ UNCHANGED <<phase, raised, has_adapter, closed, service>>

SetClosed(t) ==
  /\ closing[t] = "flag"
  /\ closed' = TRUE
  /\ closing' = [closing EXCEPT ![t] = "idle"]
  /\ UNCHANGED <<vars, phase, raised, has_adapter, close_failed, service>>

Construct ==
  FailTls \/ CreateAdapter \/ Probe \/ AcceptVersion \/ RejectVersion
    \/ CleanUp \/ CleanUpFails

Transport ==
  /\ \/ \E c \in Caller : Step(c)
     \/ \E r \in requests : CarryOut(r) \/ Refuse(r)
  /\ UNCHANGED client

ClientNext ==
  \/ Construct
  \/ \E c \in Caller : Request(c) \/ RefuseManager(c)
  \/ \E t \in Closer : Close(t) \/ CloseOwned(t) \/ CloseOwnedFails(t) \/ SetClosed(t)
  \/ Transport

(* The threads of a client run; whether anyone closes it is up to them.    *)
ClientSpec ==
  /\ ClientInit /\ [][ClientNext]_<<vars, client>>
  /\ WF_<<vars, client>>(Construct)
  /\ \A c \in Caller : WF_<<vars, client>>(Step(c) /\ UNCHANGED client)

-----------------------------------------------------------------------------
(***************************************************************************)
(* A constructor that raises leaves no open connection behind: there is no *)
(* adapter, or it is closed, or closing it failed as well.                 *)
(***************************************************************************)
NothingLeaks ==
  phase = "failed" => ~has_adapter \/ is_closed \/ close_failed

(***************************************************************************)
(* A client never believes itself closed while its adapter is open, even   *)
(* if several threads close it and some of the closes fail; so a close     *)
(* that failed can be tried again.                                         *)
(***************************************************************************)
ClosedIsClosed == closed => is_closed

(***************************************************************************)
(* The constructor raises the error that made it fail, not one of its      *)
(* clean-up: the answer or error of the probe, which is never the error of *)
(* a closed adapter, for nobody else can have closed it.                   *)
(***************************************************************************)
FirstErrorRaised ==
  phase = "failed" /\ has_adapter =>
    /\ raised # "none" /\ raised # "runtime_error"
    /\ raised = IF outcome[Constructor].status = "ok" THEN "malformed_response"
                ELSE outcome[Constructor].status

(* The constructor always comes to an end. *)
ConstructionEnds == <>(phase \in {"ready", "failed"})

(***************************************************************************)
(* A thread that turns to a client closed before, with a new request or    *)
(* with the retry of an old one, is told so by TransportError.             *)
(***************************************************************************)
ClosedClientRefuses ==
  \A c \in Caller : closed /\ pc[c] = "attempt" ~> outcome[c] = Failed("transport_error")
=============================================================================
