----------------------------- MODULE SocketLink -----------------------------
(***************************************************************************)
(* The Unix socket between the gateway (SocketServer) and a bridge         *)
(* (SocketClient) of packages/shared/src/socket.ts: one connection at a    *)
(* time, messages that are lost with it, and a client that keeps trying to *)
(* come back.  The module has no behaviour of its own: Bridge composes it  *)
(* with the two programs at its ends.                                      *)
(*                                                                         *)
(* A message goes through the kernel: what was written before the writer   *)
(* died may still arrive, so of the messages in flight a prefix survives   *)
(* the writer, and none survives the reader.  That lines arrive whole      *)
(* however they are cut into chunks is a property of module CutText.       *)
(***************************************************************************)
EXTENDS Naturals, Sequences

CONSTANTS
    MinDelay, MaxDelay  \* the first and the largest reconnect delay

ASSUME DelayAssumption ==
    /\ MinDelay \in Nat \ {0}
    /\ MaxDelay \in Nat
    /\ MinDelay <= MaxDelay

VARIABLES
    listening,       \* the server accepts connections
    nextClientId,    \* the id of its last connection
    clients,         \* ids of the connections it can write to
    socket,          \* state of the client's socket
    connected,       \* _connected, what the client believes
    reconnectTimer,  \* the client's timer is set
    reconnectDelay,  \* its next delay
    toServer,        \* lines in flight, with the connection they came by
    toClient         \* lines in flight to the client

linkVars == <<listening, nextClientId, clients, socket, connected,
              reconnectTimer, reconnectDelay, toServer, toClient>>

SocketState == {"connecting", "open", "broken", "closed"}

LinkInit ==
    /\ listening = TRUE
    /\ nextClientId = 0
    /\ clients = {}
    /\ socket = "connecting"
    /\ connected = FALSE
    /\ reconnectTimer = FALSE
    /\ reconnectDelay = MinDelay
    /\ toServer = <<>>
    /\ toClient = <<>>

-----------------------------------------------------------------------------
(* Writing.  A write to a connection that is gone is lost without a sign.  *)

\* SocketServer.send, behind the reply of a message handler: the line goes
\* to the connection the request came by, if that is still there.
SendTo(id, msg) ==
    toClient' = IF id \in clients THEN Append(toClient, msg) ELSE toClient

\* SocketServer.broadcast: to whoever is connected now.
Broadcast(msg) ==
    toClient' = IF clients # {} THEN Append(toClient, msg) ELSE toClient

\* SocketClient.send.  The client may not have noticed that the server died.
Send(msg) ==
    toServer' = IF connected /\ socket = "open"
                THEN Append(toServer, [from |-> nextClientId, body |-> msg])
                ELSE toServer

-----------------------------------------------------------------------------
(* The connection.                                                         *)

\* start() of a server: the connection counter begins anew.
Listen ==
    /\ ~listening
    /\ listening' = TRUE
    /\ nextClientId' = 0
    /\ UNCHANGED <<clients, socket, connected, reconnectTimer,
                   reconnectDelay, toServer, toClient>>

\* The server files the connection; the 'connect' event of the client.
Connect ==
    /\ socket = "connecting"
    /\ listening
    /\ nextClientId' = nextClientId + 1
    /\ clients' = clients \cup {nextClientId'}
    /\ socket' = "open"
    /\ connected' = TRUE
    /\ reconnectDelay' = MinDelay
    /\ UNCHANGED <<listening, reconnectTimer, toServer, toClient>>

\* scheduleReconnect; shouldReconnect is true until the bridge shuts down.
ScheduleReconnect ==
    IF reconnectTimer
    THEN UNCHANGED <<reconnectTimer, reconnectDelay>>
    ELSE /\ reconnectTimer' = TRUE
         /\ reconnectDelay' = IF 2 * reconnectDelay < MaxDelay
                              THEN 2 * reconnectDelay ELSE MaxDelay

\* Nobody listens: ECONNREFUSED or ENOENT is ignored, then comes 'close'.
Refused ==
    /\ socket = "connecting"
    /\ ~listening
    /\ socket' = "closed"
    /\ connected' = FALSE
    /\ ScheduleReconnect
    /\ UNCHANGED <<listening, nextClientId, clients, toServer, toClient>>

\* The end of the stream, after the last line: the client's 'close' event.
Close ==
    /\ socket = "broken"
    /\ toClient = <<>>
    /\ socket' = "closed"
    /\ connected' = FALSE
    /\ ScheduleReconnect
    /\ UNCHANGED <<listening, nextClientId, clients, toServer, toClient>>

\* Variant of Reconnect: the timer is not forgotten.
ReconnectKeepsTimer ==
    /\ reconnectTimer
    /\ socket' = "connecting"
    /\ UNCHANGED <<listening, nextClientId, clients, connected,
                   reconnectTimer, reconnectDelay, toServer, toClient>>

\* The reconnect timer: _connect replaces the socket and its listeners.
Reconnect ==
    /\ reconnectTimer
    /\ reconnectTimer' = FALSE
    /\ socket' = "connecting"
    /\ UNCHANGED <<listening, nextClientId, clients, connected,
                   reconnectDelay, toServer, toClient>>

\* The gateway process ends, by stop() or otherwise.
ServerDies ==
    /\ listening
    /\ listening' = FALSE
    /\ clients' = {}
    /\ socket' = IF socket = "open" THEN "broken" ELSE socket
    /\ toServer' = <<>>
    /\ \E n \in 0..Len(toClient) : toClient' = SubSeq(toClient, 1, n)
    /\ UNCHANGED <<nextClientId, connected, reconnectTimer, reconnectDelay>>

\* The bridge process ends and is started again: a new SocketClient.
ClientRestarts ==
    /\ clients' = {}
    /\ socket' = "connecting"
    /\ connected' = FALSE
    /\ reconnectTimer' = FALSE
    /\ reconnectDelay' = MinDelay
    /\ \E n \in 0..Len(toServer) : toServer' = SubSeq(toServer, 1, n)
    /\ toClient' = <<>>
    /\ UNCHANGED <<listening, nextClientId>>

-----------------------------------------------------------------------------
LinkTypeOK ==
    /\ listening \in BOOLEAN
    /\ nextClientId \in Nat
    /\ clients \subseteq 1..nextClientId
    /\ socket \in SocketState
    /\ connected \in BOOLEAN
    /\ reconnectTimer \in BOOLEAN
    /\ reconnectDelay \in MinDelay..MaxDelay
    /\ \A i \in 1..Len(toServer) : toServer[i].from \in 1..nextClientId

\* A client without a connection is about to get one: an attempt or the end
\* of its connection is in progress, or the timer is set, one at a time.
\* Only then does the chain of attempts never end (_connect, scheduleReconnect).
NeverGivesUp ==
    /\ reconnectTimer <=> socket = "closed"
    /\ connected <=> socket \in {"open", "broken"}
    /\ socket = "open" <=> nextClientId \in clients

=============================================================================
