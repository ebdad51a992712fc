------------------------------ MODULE NotifyHub ------------------------------
(***************************************************************************)
(* internal/notification-gateway: the hub and its WebSocket clients.       *)
(*                                                                         *)
(* One goroutine serves three channels, in any order when several are      *)
(* ready: clients that join, clients that leave, events to be sent.  Every *)
(* client has a buffer, a goroutine that reads its connection and one that *)
(* writes it.  Nothing that puts into a channel waits: what finds a full   *)
(* one is dropped, a client's event together with the client.  Send looks  *)
(* whether the client is closed, gives the lock back, and then sends.      *)
(*                                                                         *)
(* Heartbeats, deadlines and metrics are left out: a connection is open or *)
(* gone.  The topics the gateway subscribes to never reach the default of  *)
(* shouldDeliver.                                                          *)
(***************************************************************************)
EXTENDS Naturals, Sequences, SequencesExt

CONSTANTS
  Clients,
  Claims,         \* per client: user, tenant, branches, whether a tenant's administrator
  Envelopes,      \* what is published: strategy, tenant, branch, user, and whether it is JSON
  RegisterCap, UnregisterCap, BroadcastCap, SendCap,   \* sizes of the channels
  MaxEvents       \* bound: events

ASSUME HubAssumption ==
  /\ RegisterCap \in Nat \ {0} /\ UnregisterCap \in Nat \ {0}
  /\ BroadcastCap \in Nat \ {0} /\ SendCap \in Nat \ {0} /\ MaxEvents \in Nat
  /\ Envelopes \subseteq [strategy : {"tenant", "user", "global"}, tenant : STRING,
                          branch : STRING, user : STRING, json : BOOLEAN]
  /\ "none" \notin Clients

VARIABLES
  clients,       \* h.clients
  envelopes,     \* the events dispatch was given, in order: an event is its place here
  register, unregister, broadcast,   \* the hub's channels
  hub,           \* select, send, panic or stopped
  left,          \* clients the event in hand still goes to
  event,         \* the event in hand
  current,       \* the client Send has found open, or none
  conn,          \* per client: none, joining, welcome, open, gone
  reading, writing,    \* clients whose pump runs
  closed,        \* clients that are closed
  send,          \* per client its buffer
  owed,          \* history: per client the events the hub took up for it that are not written
  last,          \* history: per client the last event written to it
  refused,       \* history: the events the broadcast channel had no room for
  missed,        \* history: clients an event found with a full buffer
  overflow,      \* history: clients that found the unregister channel full
  early          \* history: clients whose leaving was handled before their joining

queues == <<register, unregister, broadcast>>
sending == <<hub, left, event, current>>
pumps == <<conn, reading, writing>>
history == <<owed, last, refused, missed, overflow, early>>
hubVars == <<clients, envelopes, queues, sending, pumps, closed, send, history>>

None == "none"
Welcome == 0

HubInit ==
  /\ clients = {} /\ envelopes = <<>> /\ register = <<>> /\ unregister = <<>> /\ broadcast = <<>>
  /\ hub = "select" /\ left = {} /\ event = 0 /\ current = None
  /\ conn = [c \in Clients |-> "none"] /\ reading = {} /\ writing = {}
  /\ closed = {} /\ send = [c \in Clients |-> <<>>]
  /\ owed = [c \in Clients |-> {}] /\ last = [c \in Clients |-> 0]
  /\ refused = {} /\ missed = {} /\ overflow = {} /\ early = {}

-----------------------------------------------------------------------------
(* Who gets what.                                                           *)

(* matchStocktake: the envelope's tenant, if it names one, and the branch.  *)
matchStocktake(env, c) ==
  /\ env.tenant \in {"", Claims[c].tenant}
  /\ Claims[c].admin \/ env.branch = "" \/ env.branch \in Claims[c].branches

target(env, c) ==
  CASE env.strategy = "user"   -> Claims[c].user = env.user
    [] env.strategy = "global" -> TRUE
    [] OTHER                   -> matchStocktake(env, c)

(* Fanout: what a full channel has no room for is dropped and logged.       *)
Fanout(e) ==
  IF Len(broadcast) < BroadcastCap
  THEN broadcast' = Append(broadcast, e) /\ UNCHANGED refused
  ELSE refused' = refused \union {e} /\ UNCHANGED broadcast

(* dispatch.  A body that is not JSON is passed on all the same, as the data*)
(* of an event of that topic.                                               *)
Publish(env) ==
  /\ Len(envelopes) < MaxEvents
  /\ envelopes' = Append(envelopes, env)
  /\ Fanout(Len(envelopes) + 1)
  /\ UNCHANGED <<clients, register, unregister, sending, pumps, closed, send, owed, last, missed,
                 overflow, early>>

-----------------------------------------------------------------------------
(* A client.                                                                *)

(* Mutant: who leaves is closed at once.                                    *)
unregisterClient_Closes(c) ==
  /\ closed' = closed \union {c}
  /\ unregister' = IF Len(unregister) < UnregisterCap THEN Append(unregister, c) ELSE unregister
  /\ UNCHANGED overflow

(* unregisterClient: closed at once if the channel is full.                 *)
unregisterClient(c) ==
  IF Len(unregister) < UnregisterCap
  THEN unregister' = Append(unregister, c) /\ UNCHANGED <<closed, overflow>>
  ELSE closed' = closed \union {c} /\ overflow' = overflow \union {c} /\ UNCHANGED unregister

(* Mutant: a full buffer loses the event and keeps the client.              *)
Put_Drops(c, e) ==
  IF Len(send[c]) < SendCap
  THEN send' = [send EXCEPT ![c] = Append(@, e)] /\ UNCHANGED <<unregister, closed, missed,
                                                                overflow>>
  ELSE missed' = missed \union {c} /\ UNCHANGED <<send, unregister, closed, overflow>>

(* The second half of Send, of an open client.                              *)
Put(c, e) ==
  IF Len(send[c]) < SendCap
  THEN send' = [send EXCEPT ![c] = Append(@, e)] /\ UNCHANGED <<unregister, closed, missed,
                                                                overflow>>
  ELSE missed' = missed \union {c} /\ unregisterClient(c) /\ UNCHANGED send

(* wsUpgradeHandler: RegisterClient, which a full channel ignores, then the *)
(* welcome, then the pumps.                                                 *)
RegisterClient(c) ==
  /\ conn[c] = "none"
  /\ conn' = [conn EXCEPT ![c] = "joining"]
  /\ register' = IF Len(register) < RegisterCap THEN Append(register, c) ELSE register
  /\ UNCHANGED <<clients, envelopes, unregister, broadcast, sending, reading, writing, closed,
                 send, history>>

StartPumps(c) ==
  /\ conn' = [conn EXCEPT ![c] = "open"]
  /\ reading' = reading \union {c} /\ writing' = writing \union {c}

SendWelcome(c) ==
  /\ conn[c] = "joining"
  /\ IF c \in closed THEN StartPumps(c)
     ELSE conn' = [conn EXCEPT ![c] = "welcome"] /\ UNCHANGED <<reading, writing>>
  /\ UNCHANGED <<clients, envelopes, queues, sending, closed, send, history>>

(* A client closed since panics: gin recovers, and no pump is started.      *)
PutWelcome(c) ==
  /\ conn[c] = "welcome"
  /\ \/ c \notin closed /\ Put(c, Welcome) /\ StartPumps(c)
     \/ /\ c \in closed
        /\ conn' = [conn EXCEPT ![c] = "gone"]
        /\ UNCHANGED <<reading, writing, send, unregister, closed, missed, overflow>>
  /\ UNCHANGED <<clients, envelopes, register, broadcast, sending, owed, last, refused, early>>

(* The connection breaks.                                                   *)
Break(c) ==
  /\ conn[c] = "open"
  /\ conn' = [conn EXCEPT ![c] = "gone"]
  /\ UNCHANGED <<clients, envelopes, queues, sending, reading, writing, closed, send, history>>

(* Mutant: the hub is not told.                                             *)
ReadPump_Silent(c) ==
  /\ c \in reading /\ conn[c] = "gone"
  /\ reading' = reading \ {c}
  /\ UNCHANGED <<clients, envelopes, queues, sending, conn, writing, closed, send, history>>

ReadPump(c) ==
  /\ c \in reading /\ conn[c] = "gone"
  /\ reading' = reading \ {c}
  /\ unregisterClient(c)
  /\ UNCHANGED <<clients, envelopes, register, broadcast, sending, conn, writing, send, owed,
                 last, refused, missed, early>>

(* WritePump writes what is buffered, and ends when the client is closed or *)
(* the connection is gone; either way it closes the connection.  What it    *)
(* cannot encode it drops and logs, and goes on.                            *)
Encodes(e) == e = Welcome \/ envelopes[e].json

Write(c) ==
  /\ c \in writing /\ conn[c] = "open" /\ send[c] # <<>>
  /\ IF Encodes(Head(send[c]))
     THEN /\ owed' = [owed EXCEPT ![c] = @ \ {Head(send[c])}]
          /\ last' = [last EXCEPT ![c] = IF Head(send[c]) = Welcome THEN @ ELSE Head(send[c])]
     ELSE UNCHANGED <<owed, last>>
  /\ send' = [send EXCEPT ![c] = Tail(@)]
  /\ UNCHANGED <<clients, envelopes, queues, sending, pumps, closed, refused, missed, overflow,
                 early>>

EndWrite(c) ==
  /\ c \in writing /\ (conn[c] = "gone" \/ (c \in closed /\ send[c] = <<>>))
  /\ writing' = writing \ {c}
  /\ conn' = [conn EXCEPT ![c] = "gone"]
  /\ UNCHANGED <<clients, envelopes, queues, sending, reading, closed, send, history>>

-----------------------------------------------------------------------------
(* The hub.                                                                 *)

TakeRegister ==
  /\ hub = "select" /\ register # <<>>
  /\ clients' = clients \union {Head(register)} /\ register' = Tail(register)
  /\ UNCHANGED <<envelopes, unregister, broadcast, sending, pumps, closed, send, history>>

(* Only a client the hub has is closed.                                     *)
TakeUnregister ==
  /\ hub = "select" /\ unregister # <<>>
  /\ LET c == Head(unregister)
     IN /\ clients' = clients \ {c}
        /\ closed' = IF c \in clients THEN closed \union {c} ELSE closed
        /\ owed' = [owed EXCEPT ![c] = {}]
        /\ early' = IF c \in Range(register) THEN early \union {c} ELSE early
  /\ unregister' = Tail(unregister)
  /\ UNCHANGED <<envelopes, register, broadcast, sending, pumps, send, last, refused, missed,
                 overflow>>

TakeBroadcast ==
  /\ hub = "select" /\ broadcast # <<>>
  /\ event' = Head(broadcast)
  /\ left' = {c \in clients : target(envelopes[event'], c)}
  /\ owed' = [c \in Clients |-> IF c \in left' THEN owed[c] \union {event'} ELSE owed[c]]
  /\ hub' = "send" /\ broadcast' = Tail(broadcast)
  /\ UNCHANGED <<clients, envelopes, register, unregister, current, pumps, closed, send, last,
                 refused, missed, overflow, early>>

(* Send: whether the client is closed is looked up under its lock.          *)
LookClosed(c) ==
  /\ hub = "send" /\ current = None /\ c \in left
  /\ left' = left \ {c}
  /\ current' = IF c \in closed THEN None ELSE c
  /\ UNCHANGED <<clients, envelopes, queues, hub, event, pumps, closed, send, history>>

(* Sending to a channel that was closed since ends the process.             *)
PutEvent ==
  /\ hub = "send" /\ current # None
  /\ current' = None
  /\ \/ current \notin closed /\ Put(current, event) /\ UNCHANGED hub
     \/ /\ current \in closed /\ hub' = "panic"
        /\ UNCHANGED <<send, unregister, closed, missed, overflow>>
  /\ UNCHANGED <<clients, envelopes, register, broadcast, left, event, pumps, owed, last, refused,
                 early>>

EndSend ==
  /\ hub = "send" /\ left = {} /\ current = None
  /\ hub' = "select"
  /\ UNCHANGED <<clients, envelopes, queues, left, event, current, pumps, closed, send, history>>

Shutdown ==
  /\ hub = "select" /\ hub' = "stopped"
  /\ closed' = closed \union clients
  /\ UNCHANGED <<clients, envelopes, queues, left, event, current, pumps, send, history>>

HubStep ==
  \/ TakeRegister \/ TakeUnregister \/ TakeBroadcast \/ PutEvent \/ EndSend
  \/ \E c \in Clients : LookClosed(c)

ClientStep(c) == SendWelcome(c) \/ PutWelcome(c) \/ ReadPump(c) \/ Write(c) \/ EndWrite(c)

HubNext ==
  /\ hub # "panic"
  /\ \/ HubStep \/ Shutdown
     \/ \E c \in Clients : ClientStep(c) \/ RegisterClient(c) \/ Break(c)
     \/ \E env \in Envelopes : Publish(env)

HubSpec == HubInit /\ [][HubNext]_hubVars

(* The goroutines go on.                                                    *)
FairHubSpec == HubSpec /\ WF_hubVars(HubStep) /\ \A c \in Clients : WF_hubVars(ClientStep(c))

-----------------------------------------------------------------------------
(* What is in a client's buffer, and the event that is on its way to it.    *)
OnItsWay(c) == IF c \in left \/ current = c THEN <<event>> ELSE <<>>
Waiting(c) == send[c] \o OnItsWay(c)

(* Ascending, wherever the welcome stands.                                  *)
InOrder(s) == \A i, j \in DOMAIN s : i < j /\ s[j] # Welcome => s[i] < s[j]

(* Every event dispatch was given is taken up by the hub, waits for it, or  *)
(* was refused by a full broadcast channel, which the log records.          *)
TakenUp(e) == e \in 1 .. event /\ e \notin refused
NoneAstray ==
  \A e \in DOMAIN envelopes : TakenUp(e) \/ e \in refused \union Range(broadcast)

(* Of an event the hub takes up for a client nothing is lost but what       *)
(* WritePump cannot encode, which the log records as well, for as long as   *)
(* the hub keeps the client: one that missed an event is on its way out.    *)
NoneWithheld ==
  \A c \in clients :
    \/ \A e \in owed[c] : e \in Range(Waiting(c)) \/ ~envelopes[e].json
    \/ c \in missed /\ c \in Range(unregister)
    \/ c \in closed

(* A client gets events in the order they were published, each once, and    *)
(* only such as are meant for it.                                           *)
InTurn ==
  \A c \in Clients :
    /\ InOrder(<<last[c]>> \o Waiting(c))
    /\ \A e \in Range(Waiting(c)) \ {Welcome} : target(envelopes[e], c)

(* What a client the hub keeps does not get of the events dispatch was given*)
(* for it, the log says: refused by the broadcast channel or not encoded.   *)
GapsAreLogged == NoneAstray /\ NoneWithheld /\ InTurn

(* The hub dies of a closed channel only if the unregister channel was full.*)
PanicOnlyByOverflow == hub = "panic" => overflow # {}

(* A client whose reader is gone leaves the hub, unless it was gone before  *)
(* the hub had heard of it, or found the channel full.                      *)
GoneIsForgotten ==
  \A c \in Clients :
    [](conn[c] = "gone" => <>(c \notin clients \/ c \in early \union overflow
                              \/ hub \in {"panic", "stopped"}))
==============================================================================
