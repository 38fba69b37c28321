----------------------------- MODULE EventStream -----------------------------
(***************************************************************************)
(* The loan event stream: the SSE endpoint and its registries              *)
(* (controllers/eventStreamController.ts, services/eventStreamService.ts)  *)
(* and the browser hook that consumes it (frontend useSSE, useLoanStream). *)
(*                                                                         *)
(* A tab mounts the hook; every connection it makes is one response of the *)
(* server.  Events are numbered by their id in contract_events.            *)
(***************************************************************************)
EXTENDS Integers, FiniteSets

CONSTANTS
    Tabs, TabUser,      \* [Tabs -> user]
    TabBorrower,        \* [Tabs -> the ?borrower parameter, or NoParam]
    CanPoll,            \* the tabs whose page passes onFallbackPoll
    Administrators, NoParam, NoTab,
    Responses,          \* response objects the server can hold at a time
    LastStreamed, StreamedAddress,   \* events 1..LastStreamed, [events -> address]
    REPLAY_LIMIT, MAX_CONNECTIONS_PER_USER, maxReconnectAttempts,
    MaxStreamFaults     \* server restarts and failing replay queries

ASSUME StreamConstants ==
    /\ NoTab \notin Tabs
    /\ \A t \in Tabs : TabUser[t] # NoParam

VARIABLES
    committed,          \* events 1..committed are in contract_events
    broadcasted,        \* events 1..broadcasted were handed to broadcast
    tab,                \* tab -> [pc, attempts, response]
    handler,            \* response -> [tab, stage, rows] of its request
    connected,          \* responses whose client is still there
    leftEarly,          \* responses whose client left before registration
    clients,            \* borrowerClients and adminClients
    userClients,        \* the responses counted against their user
    received,           \* tab -> events its connections delivered
    streamFaults

streamVars == <<committed, broadcasted, tab, handler, connected, leftEarly, clients,
                userClients, received, streamFaults>>

Unused == [tab |-> NoTab, stage |-> "unused", rows |-> {}]
Unmounted == [pc |-> "unmounted", attempts |-> 0, response |-> NoTab]

UserOf(r) == TabUser[handler[r].tab]

(* Whose events the tab's stream carries; NoParam stands for all.          *)
Followed(t) ==
    IF TabBorrower[t] # NoParam THEN TabBorrower[t]
    ELSE IF TabUser[t] \in Administrators THEN NoParam ELSE TabUser[t]

Allowed(t) ==
    TabUser[t] \in Administrators \/ TabBorrower[t] \in {NoParam, TabUser[t]}

Concerns(t, e) == Followed(t) \in {NoParam, StreamedAddress[e]}

canOpenConnection(u) ==
    Cardinality({r \in userClients : UserOf(r) = u}) < MAX_CONNECTIONS_PER_USER

------------------------------------------------------------------------------
(* The client hook.                                                        *)

Mount(t) ==
    /\ tab[t].pc = "unmounted"
    /\ tab' = [tab EXCEPT ![t].pc = "connecting"]
    /\ UNCHANGED <<committed, broadcasted, handler, connected, leftEarly, clients,
                   userClients, received, streamFaults>>

AfterClose_Faulty(t) ==
    LET attempts == tab[t].attempts + 1
    IN  [pc |-> IF attempts < maxReconnectAttempts THEN "backoff" ELSE "idle",
         attempts |-> attempts, response |-> NoTab]

(* An error or the end of the stream: back off, or after three in a row    *)
(* poll - if the page gave the hook something to poll with.                *)
AfterClose(t) ==
    LET attempts == tab[t].attempts + 1
    IN  [pc |-> IF attempts < maxReconnectAttempts THEN "backoff"
                ELSE IF t \in CanPoll THEN "polling" ELSE "idle",
         attempts |-> attempts, response |-> NoTab]

Reconnect(t) ==
    /\ tab[t].pc = "backoff"
    /\ tab' = [tab EXCEPT ![t].pc = "connecting"]
    /\ UNCHANGED <<committed, broadcasted, handler, connected, leftEarly, clients,
                   userClients, received, streamFaults>>

------------------------------------------------------------------------------
(* streamEvents: checks and headers, the replay query, the registration.   *)

(* The request is refused, or never reaches the server.                    *)
Refused(t) ==
    /\ tab[t].pc = "connecting"
    /\ tab' = [tab EXCEPT ![t] = AfterClose(t)]
    /\ UNCHANGED <<committed, broadcasted, handler, connected, leftEarly, clients,
                   userClients, received, streamFaults>>

(* With the flushed headers the client counts as connected.                *)
streamEvents(t, r) ==
    /\ tab[t].pc = "connecting"
    /\ handler[r].stage = "unused" /\ r \notin userClients
    /\ Allowed(t) /\ canOpenConnection(TabUser[t])
    /\ handler' = [handler EXCEPT ![r] = [tab |-> t, stage |-> "query", rows |-> {}]]
    /\ connected' = connected \cup {r}
    /\ tab' = [tab EXCEPT ![t] = [pc |-> "open", attempts |-> 0, response |-> r]]
    /\ UNCHANGED <<committed, broadcasted, leftEarly, clients, userClients, received,
                   streamFaults>>

(* useSSE sends no Last-Event-ID: the rows are the first ones ever.        *)
Replayed(t) ==
    LET rows == {e \in 1..committed : Concerns(t, e)}
    IN  {e \in rows : Cardinality({f \in rows : f < e}) < REPLAY_LIMIT}

(* The request of r goes on with these rows.                               *)
GoesOn(r, stage, rows) ==
    handler' = [handler EXCEPT ![r] = [tab |-> handler[r].tab, stage |-> stage, rows |-> rows]]

ReplayQuery(r) ==
    /\ handler[r].stage = "query"
    /\ \/ GoesOn(r, "subscribe", Replayed(handler[r].tab)) /\ UNCHANGED streamFaults
       \/ /\ streamFaults < MaxStreamFaults
          /\ streamFaults' = streamFaults + 1
          /\ GoesOn(r, "subscribe", {})
    /\ UNCHANGED <<committed, broadcasted, tab, connected, leftEarly, clients, userClients,
                   received>>

Deliver(r, events) ==
    received' = IF r \in connected
                THEN [received EXCEPT ![handler[r].tab] = @ \cup events] ELSE received

subscribe(r) ==
    /\ handler[r].stage = "subscribe"
    /\ Deliver(r, handler[r].rows)
    /\ GoesOn(r, "streaming", {})
    /\ clients' = clients \cup {r}
    /\ userClients' = userClients \cup {r}
    /\ UNCHANGED <<committed, broadcasted, tab, connected, leftEarly, streamFaults>>

Disconnect_Faulty(t, after) ==
    LET r == tab[t].response
    IN  /\ tab[t].pc = "open"
        /\ tab' = [tab EXCEPT ![t] = after]
        /\ connected' = connected \ {r}
        /\ IF handler[r].stage = "streaming"
           THEN clients' = clients \ {r} /\ UNCHANGED leftEarly
           ELSE leftEarly' = leftEarly \cup {r} /\ UNCHANGED clients
        /\ UNCHANGED <<committed, broadcasted, received, streamFaults, userClients, handler>>

(* The connection goes, by an unmounted hook or by the network.  The close *)
(* listeners are installed after the registration: before it, nothing hears *)
(* the close, and the request goes on to register a response without peer. *)
Disconnect(t, after) ==
    LET r == tab[t].response
    IN  /\ tab[t].pc = "open"
        /\ tab' = [tab EXCEPT ![t] = after]
        /\ connected' = connected \ {r}
        /\ IF handler[r].stage = "streaming"
           THEN /\ clients' = clients \ {r}
                /\ userClients' = userClients \ {r}
                /\ handler' = [handler EXCEPT ![r] = Unused]
                /\ UNCHANGED leftEarly
           ELSE /\ leftEarly' = leftEarly \cup {r}
                /\ UNCHANGED <<clients, userClients, handler>>
        /\ UNCHANGED <<committed, broadcasted, received, streamFaults>>

ConnectionLost(t) == Disconnect(t, AfterClose(t))

Unmount(t) ==
    \/ Disconnect(t, Unmounted)
    \/ /\ tab[t].pc \notin {"open", "unmounted"}
       /\ tab' = [tab EXCEPT ![t] = Unmounted]
       /\ UNCHANGED <<committed, broadcasted, handler, connected, leftEarly, clients,
                      userClients, received, streamFaults>>

------------------------------------------------------------------------------
(* Events, heartbeats, shutdown.                                           *)

CommitEvent ==
    /\ committed < LastStreamed
    /\ committed' = committed + 1
    /\ UNCHANGED <<broadcasted, tab, handler, connected, leftEarly, clients, userClients,
                   received, streamFaults>>

Listening_Faulty(e) == {r \in clients : handler[r].stage = "streaming"}

Listening(e) == {r \in clients : Concerns(handler[r].tab, e)}

(* A write to a response without peer may throw: broadcast then drops it   *)
(* from the clients, and leaves it counted.                                *)
broadcast ==
    LET e == broadcasted + 1
    IN  /\ broadcasted < committed
        /\ broadcasted' = e
        /\ received' = [t \in Tabs |->
               IF \E r \in Listening(e) \cap connected : handler[r].tab = t
               THEN received[t] \cup {e} ELSE received[t]]
        /\ \E failed \in SUBSET (Listening(e) \ connected) : clients' = clients \ failed
        /\ UNCHANGED <<committed, tab, handler, connected, leftEarly, userClients, streamFaults>>

(* A heartbeat that fails removes the client altogether.                   *)
removeClient(r) ==
    /\ r \in clients \ connected
    /\ clients' = clients \ {r}
    /\ userClients' = userClients \ {r}
    /\ handler' = [handler EXCEPT ![r] = Unused]
    /\ leftEarly' = leftEarly \ {r}
    /\ UNCHANGED <<committed, broadcasted, tab, connected, received, streamFaults>>

closeAllConnections ==
    /\ streamFaults < MaxStreamFaults
    /\ streamFaults' = streamFaults + 1
    /\ clients' = {} /\ userClients' = {} /\ connected' = {} /\ leftEarly' = {}
    /\ handler' = [r \in Responses |-> Unused]
    /\ tab' = [t \in Tabs |-> IF tab[t].pc = "open" THEN AfterClose(t) ELSE tab[t]]
    /\ UNCHANGED <<committed, broadcasted, received>>

StreamInit ==
    /\ committed = 0 /\ broadcasted = 0
    /\ tab = [t \in Tabs |-> Unmounted]
    /\ handler = [r \in Responses |-> Unused]
    /\ connected = {} /\ leftEarly = {} /\ clients = {} /\ userClients = {}
    /\ received = [t \in Tabs |-> {}]
    /\ streamFaults = 0

Connecting(t) == Refused(t) \/ \E r \in Responses : streamEvents(t, r)

StreamNext ==
    \/ \E t \in Tabs : Mount(t) \/ Reconnect(t) \/ Connecting(t) \/ ConnectionLost(t) \/ Unmount(t)
    \/ \E r \in Responses : ReplayQuery(r) \/ subscribe(r) \/ removeClient(r)
    \/ CommitEvent \/ broadcast \/ closeAllConnections

(* A request is answered or fails, and timers fire.                        *)
StreamFairness ==
    \A t \in Tabs : WF_streamVars(Connecting(t)) /\ WF_streamVars(Reconnect(t))

StreamSpec == StreamInit /\ [][StreamNext]_streamVars /\ StreamFairness

------------------------------------------------------------------------------
(* Correctness.                                                            *)

(* The registries agree with the connections (a registered response with   *)
(* a peer is a client and is counted; a client is counted; a response is   *)
(* counted after its peer left only if the peer left during the replay     *)
(* query, before the close listeners were there), and a borrower's stream  *)
(* carries events of that borrower only, through replays, broadcasts and   *)
(* reconnections.                                                          *)
StreamsAccounted ==
    /\ \A r \in connected : handler[r].stage = "streaming" => r \in clients
    /\ clients \subseteq userClients
    /\ userClients \subseteq connected \cup leftEarly
    /\ \A t \in Tabs : TabUser[t] \notin Administrators =>
          \A e \in received[t] : StreamedAddress[e] = TabUser[t]

(* A mounted tab whose page can poll is never left without updates: it     *)
(* keeps reaching a connection or falls back to polling.                   *)
TabsSettle ==
    \A t \in CanPoll : []<>(tab[t].pc \in {"open", "polling", "unmounted"})
==============================================================================
