----------------------------- MODULE EventClient -----------------------------
(***************************************************************************)
(* EventAPIClient (nodeclient/event_api_client.go), as to the registration *)
(* of one topic.  The MQTT client runs a handler per message, all of them  *)
(* concurrently.  A handler decodes its message and then waits for a       *)
(* reader of its unbuffered channel or for the end of the context.         *)
(***************************************************************************)
EXTENDS NodeClient

CONSTANTS
    MessageVersion,     \* [message -> protocol version it is encoded in]
    MaxChannels,        \* bound on registrations
    MaxContexts         \* bound on calls of Connect

VARIABLES
    context,        \* ctx of the client, by number; 0 before Connect
    canceled,       \* contexts that are done
    connected,      \* IsConnected of the MQTT client
    registered,     \* the channel of the topic's handlers, 0 if there are none
    channels,       \* channels made so far
    reading,        \* channels that somebody reads
    handlers,       \* [message -> its handler]
    errors          \* somebody received an error from Errors

eventVars == <<context, canceled, connected, registered, channels, reading, handlers, errors>>

Message == DOMAIN MessageVersion
Is(m, state) == handlers[m].state = state
Becomes(m, state) == [handlers EXCEPT ![m].state = state]

-----------------------------------------------------------------------------
(* Connect sets the context also when the connection fails. *)
Connect(ok) ==
    /\ ~connected /\ context < MaxContexts
    /\ context' = context + 1
    /\ connected' = ok
    /\ UNCHANGED <<canceled, registered, channels, reading, handlers, errors>>

Cancel ==
    /\ context > 0 /\ context \notin canceled
    /\ canceled' = canceled \cup {context}
    /\ UNCHANGED <<context, connected, registered, channels, reading, handlers, errors>>

(* panicIfEventAPIClientInactive *)
Active == connected /\ context \notin canceled

(* subscribeToTopic: the handler of the new channel replaces the one       *)
(* before; handlers that run already keep their channel.                   *)
Subscribe ==
    /\ Active /\ channels < MaxChannels
    /\ channels' = channels + 1
    /\ registered' = channels + 1
    /\ reading' = reading \cup {channels + 1}
    /\ UNCHANGED <<context, canceled, connected, handlers, errors>>

(* Close of a subscription: Unsubscribe from the topic. *)
Unsubscribe ==
    /\ connected /\ registered # 0
    /\ registered' = 0
    /\ UNCHANGED <<context, canceled, connected, channels, reading, handlers, errors>>

(* Close: Disconnect.  The channels stay open. *)
Disconnect ==
    /\ connected
    /\ connected' = FALSE /\ registered' = 0
    /\ UNCHANGED <<context, canceled, channels, reading, handlers, errors>>

(* sendErrOrDrop: received only if somebody listens at that moment. *)
sendErrOrDrop == errors' \in {errors, TRUE}

(* OnConnectionLost *)
ConnectionLost ==
    /\ connected
    /\ connected' = FALSE /\ registered' = 0
    /\ sendErrOrDrop
    /\ UNCHANGED <<context, canceled, channels, reading, handlers>>

(* The caller leaves a channel for good. *)
StopReading(c) ==
    /\ c \in reading
    /\ reading' = reading \ {c}
    /\ UNCHANGED <<context, canceled, connected, registered, channels, handlers, errors>>

-----------------------------------------------------------------------------
Receive(m) ==
    /\ connected /\ registered # 0 /\ Is(m, "unsent")
    /\ handlers' = [handlers EXCEPT ![m] = [state |-> "decoding", channel |-> registered, ctx |-> 0]]
    /\ UNCHANGED <<context, canceled, connected, registered, channels, reading, errors>>

(* deseriFunc fails: it reports its error, and so does the handler. *)
DecodeFails(m) ==
    /\ Is(m, "decoding") /\ ~APIForVersion(MessageVersion[m])
    /\ sendErrOrDrop
    /\ handlers' = Becomes(m, "failed")
    /\ UNCHANGED <<context, canceled, connected, registered, channels, reading>>

(* The handler enters its select, with the context of the moment. *)
Decode(m) ==
    /\ Is(m, "decoding") /\ APIForVersion(MessageVersion[m])
    /\ handlers' = [handlers EXCEPT ![m].state = "sending", ![m].ctx = context]
    /\ UNCHANGED <<context, canceled, connected, registered, channels, reading, errors>>

(* Mutant: only handlers of the channel registered now are served. *)
DeliverRegistered(m) ==
    /\ Is(m, "sending") /\ handlers[m].channel \in reading /\ handlers[m].channel = registered
    /\ handlers' = Becomes(m, "delivered")
    /\ UNCHANGED <<context, canceled, connected, registered, channels, reading, errors>>

Deliver(m) ==
    /\ Is(m, "sending") /\ handlers[m].channel \in reading
    /\ handlers' = Becomes(m, "delivered")
    /\ UNCHANGED <<context, canceled, connected, registered, channels, reading, errors>>

(* Mutant: the handler looks at the client's current context. *)
GiveUpCurrent(m) ==
    /\ Is(m, "sending") /\ context \in canceled
    /\ handlers' = Becomes(m, "abandoned")
    /\ UNCHANGED <<context, canceled, connected, registered, channels, reading, errors>>

GiveUp(m) ==
    /\ Is(m, "sending") /\ handlers[m].ctx \in canceled
    /\ handlers' = Becomes(m, "abandoned")
    /\ UNCHANGED <<context, canceled, connected, registered, channels, reading, errors>>

-----------------------------------------------------------------------------
EventInit ==
    /\ context = 0 /\ canceled = {} /\ connected = FALSE
    /\ registered = 0 /\ channels = 0 /\ reading = {} /\ errors = FALSE
    /\ handlers = [m \in Message |-> [state |-> "unsent", channel |-> 0, ctx |-> 0]]

HandlerStep(m) == Decode(m) \/ DecodeFails(m) \/ Deliver(m) \/ GiveUp(m)

EventStep ==
    \/ \E ok \in BOOLEAN : Connect(ok)
    \/ Cancel \/ Subscribe \/ Unsubscribe \/ Disconnect \/ ConnectionLost
    \/ \E c \in 1..MaxChannels : StopReading(c)
    \/ \E m \in Message : Receive(m) \/ HandlerStep(m)

-----------------------------------------------------------------------------
(* A handler that waits for a reader ends once its context is done, also   *)
(* after the client was connected again with another context: no handler   *)
(* is left behind.                                                         *)
HandlersEndWithContext ==
    \A m \in Message :
        Is(m, "sending") /\ handlers[m].ctx \in canceled ~> handlers[m].state \in {"delivered", "abandoned"}

(* A message that was received reaches the reader of the channel that was  *)
(* registered at that time, or its context ends, or the reader leaves,     *)
(* also after the channel was replaced or its subscription closed.         *)
ReadMessagesArrive ==
    \A m \in Message :
        Is(m, "sending") ~> (handlers[m].state \in {"delivered", "abandoned"} \/ handlers[m].channel \notin reading)

(* A message that cannot be decoded does not hold back its handler, even   *)
(* if nobody listens to Errors.                                            *)
ErrorsDoNotBlock == \A m \in Message : Is(m, "decoding") ~> ~Is(m, "decoding")

(* No handler is left behind, by a context that is done or by an error     *)
(* nobody listens to.                                                      *)
HandlersEnd == HandlersEndWithContext /\ ErrorsDoNotBlock
=============================================================================
