------------------------------- MODULE XmppBot -------------------------------
(***************************************************************************)
(* The messenger client that warns over XMPP (XMPPBotClient).              *)
(*                                                                         *)
(* Application threads send messages over the one connection the client    *)
(* keeps in a field.  sendMessageOrRetry answers a failed send by waiting, *)
(* shutting the connection down, starting another and sending again.  The  *)
(* server may drop the connection or refuse one, and Smack may bring a     *)
(* dropped one back.  Every statement of shutdown() and startup() reads    *)
(* the field anew, so what another thread assigned in between counts.      *)
(*                                                                         *)
(* An operator marked "Variant" is not the code: it is the operator after  *)
(* it with a plausible mistake, kept to show which property notices.       *)
(***************************************************************************)
EXTENDS Naturals, FiniteSets

CONSTANTS
  Threads,        \* application threads that use the client
  MaxMessages,    \* bound: messages the threads send
  MaxStarts,      \* bound: calls of startup() by the application
  MaxStops,       \* bound: calls of shutdown() by the application
  MaxDrops,       \* bound: connections the server drops
  MaxRefusals     \* bound: connections or logins the server refuses

ASSUME XmppBotAssumption ==
  {MaxMessages, MaxStarts, MaxStops, MaxDrops, MaxRefusals} \subseteq Nat

(***************************************************************************)
(* The object in the field: "new" before connect(), "linked" between       *)
(* connect() and login(), "up" once it has logged in, "down" when the      *)
(* server dropped it, "closed" after disconnect().                         *)
(***************************************************************************)
Connection == {"null", "new", "linked", "up", "down", "closed"}

Live == {"linked", "up", "down"}

VARIABLES
  connection,   \* XMPPBotClient.connection
  pc,           \* where each thread is
  call,         \* which method the thread called
  holding,      \* threads that hold "lock"
  sent,         \* how often each thread handed its present message over (history)
  result,       \* how its last call ended (history)
  leaked,       \* a live connection was dropped from the field (history)
  doubled,      \* two threads were in shutdown() or startup() at once (history)
  spent         \* messages, starts, stops, drops and refusals so far (bounds)

vars == << connection, pc, call, holding, sent, result, leaked, doubled, spent >>

Init ==
  /\ connection = "null"
  /\ pc = [t \in Threads |-> "idle"]
  /\ call = [t \in Threads |-> "none"]
  /\ holding = {}
  /\ sent = [t \in Threads |-> 0]
  /\ result = [t \in Threads |-> "none"]
  /\ leaked = FALSE
  /\ doubled = FALSE
  /\ spent = [messages |-> 0, starts |-> 0, stops |-> 0, drops |-> 0, refusals |-> 0]

Closing == {"disconnect", "unlisten", "clear"}
Opening == {"create", "connect", "login", "announce"}

Changing(t) == pc[t] \in Closing \union Opening

\* Thread t goes on at "where"; "doubled" remembers two of them changing the connection.
GoTo(t, where) ==
  /\ pc' = [pc EXCEPT ![t] = where]
  /\ doubled' = (doubled \/ \E u, v \in Threads :
                              u # v /\ {pc'[u], pc'[v]} \subseteq Closing \union Opening)

\* Leave the call; a finally block gives the lock back.
Finish(t, how) ==
  /\ GoTo(t, "idle")
  /\ result' = [result EXCEPT ![t] = how]
  /\ holding' = holding \ {t}

\* Variant: the lock is not given back in a finally block.
ThrowLocked(t) ==
  /\ GoTo(t, "idle")
  /\ result' = [result EXCEPT ![t] = "thrown"]
  /\ UNCHANGED << connection, call, holding, sent, leaked, spent >>

\* An exception nobody in the client catches.
Throw(t) == Finish(t, "thrown") /\ UNCHANGED << connection, call, sent, leaked, spent >>

-----------------------------------------------------------------------------
\* The methods the application calls.

Send(t, method) ==
  /\ pc[t] = "idle" /\ spent.messages < MaxMessages
  /\ GoTo(t, "send")
  /\ call' = [call EXCEPT ![t] = method]
  /\ sent' = [sent EXCEPT ![t] = 0]
  /\ result' = [result EXCEPT ![t] = "none"]
  /\ spent' = [spent EXCEPT !.messages = @ + 1]
  /\ UNCHANGED << connection, holding, leaked >>

CallStartup(t) ==
  /\ pc[t] = "idle" /\ spent.starts < MaxStarts
  /\ GoTo(t, "create")
  /\ call' = [call EXCEPT ![t] = "startup"]
  /\ result' = [result EXCEPT ![t] = "none"]
  /\ spent' = [spent EXCEPT !.starts = @ + 1]
  /\ UNCHANGED << connection, holding, sent, leaked >>

CallShutdown(t) ==
  /\ pc[t] = "idle" /\ spent.stops < MaxStops
  /\ GoTo(t, "disconnect")
  /\ call' = [call EXCEPT ![t] = "shutdown"]
  /\ result' = [result EXCEPT ![t] = "none"]
  /\ spent' = [spent EXCEPT !.stops = @ + 1]
  /\ UNCHANGED << connection, holding, sent, leaked >>

-----------------------------------------------------------------------------
\* sendMessage, under the read lock, which nobody ever waits for: the "write"
\* lock is the same read lock.  Without a connection, or with one that is not
\* connected, sendPacket ends in a runtime exception; it does not ask whether the
\* connection has logged in.

CanSend == connection \in {"linked", "up"}

\* Variant: reconnect after every message.
SendMessageAgain(t) ==
  /\ pc[t] = "send" /\ CanSend
  /\ sent' = [sent EXCEPT ![t] = @ + 1]
  /\ GoTo(t, "backoff")
  /\ UNCHANGED << connection, call, holding, result, leaked, spent >>

SendMessage(t) ==
  /\ pc[t] = "send" /\ CanSend
  /\ sent' = [sent EXCEPT ![t] = @ + 1]
  /\ Finish(t, "returned")
  /\ UNCHANGED << connection, call, leaked, spent >>

SendMessageFails(t) ==
  /\ pc[t] = "send" /\ ~CanSend
  /\ IF call[t] = "sendMessageOrRetry"
       THEN GoTo(t, "backoff") /\ UNCHANGED << connection, call, holding, sent, result, leaked, spent >>
       ELSE Throw(t)

\* sendMessageOrRetry after its sleep: writeLock.lock() is a read lock and does
\* not wait for anybody.
LockToReconnect(t) ==
  /\ pc[t] = "backoff"
  /\ holding' = holding \union {t}
  /\ GoTo(t, "disconnect")
  /\ UNCHANGED << connection, call, sent, result, leaked, spent >>

-----------------------------------------------------------------------------
\* shutdown().

\* Variant: shutdown() only forgets the connection.
DisconnectNothing(t) ==
  /\ pc[t] = "disconnect" /\ connection # "null"
  /\ GoTo(t, "unlisten")
  /\ UNCHANGED << connection, call, holding, sent, result, leaked, spent >>

\* Disconnecting what was never connected does nothing.
Disconnect(t) ==
  /\ pc[t] = "disconnect" /\ connection # "null"
  /\ connection' = IF connection \in Live THEN "closed" ELSE connection
  /\ GoTo(t, "unlisten")
  /\ UNCHANGED << call, holding, sent, result, leaked, spent >>

RemoveListener(t) ==
  /\ pc[t] = "unlisten" /\ connection # "null"
  /\ GoTo(t, "clear")
  /\ UNCHANGED << connection, call, holding, sent, result, leaked, spent >>

ClearConnection(t) ==
  /\ pc[t] = "clear"
  /\ connection' = "null"
  /\ leaked' = (leaked \/ connection \in Live)
  /\ IF call[t] = "shutdown"
       THEN Finish(t, "returned")
       ELSE GoTo(t, "create") /\ UNCHANGED << result, holding >>
  /\ UNCHANGED << call, sent, spent >>

\* startup().

NewConnection(t) ==
  /\ pc[t] = "create"
  /\ connection' = "new"
  /\ leaked' = (leaked \/ connection \in Live)
  /\ GoTo(t, "connect")
  /\ UNCHANGED << call, holding, sent, result, spent >>

Connect(t) ==
  /\ pc[t] = "connect" /\ connection # "null"
  /\ connection' = IF connection = "up" THEN "up" ELSE "linked"
  /\ GoTo(t, "login")
  /\ UNCHANGED << call, holding, sent, result, leaked, spent >>

Login(t) ==
  /\ pc[t] = "login" /\ connection = "linked"
  /\ connection' = "up"
  /\ GoTo(t, "announce")
  /\ UNCHANGED << call, holding, sent, result, leaked, spent >>

\* Variant: the message is not sent again after the reconnection.
AnnounceReturns(t) ==
  /\ pc[t] = "announce" /\ CanSend
  /\ Finish(t, "returned")
  /\ UNCHANGED << connection, call, sent, leaked, spent >>

\* The last statements of startup(); sendMessageOrRetry unlocks and sends again.
Announce(t) ==
  /\ pc[t] = "announce" /\ CanSend
  /\ IF call[t] = "startup"
       THEN Finish(t, "returned")
       ELSE GoTo(t, "send") /\ holding' = holding \ {t} /\ UNCHANGED result
  /\ UNCHANGED << connection, call, sent, leaked, spent >>

\* A statement that finds the field null, or a connection in the wrong state.
Misses(t) ==
  /\ \/ pc[t] \in {"disconnect", "unlisten", "connect"} /\ connection = "null"
     \/ pc[t] = "login" /\ connection # "linked"
     \/ pc[t] = "announce" /\ ~CanSend
  /\ Throw(t)

\* connect() or login() throws an XMPPException, which is wrapped.
Refused(t) ==
  /\ pc[t] \in {"connect", "login"} /\ connection # "null" /\ spent.refusals < MaxRefusals
  /\ spent' = [spent EXCEPT !.refusals = @ + 1]
  /\ Finish(t, "thrown")
  /\ UNCHANGED << connection, call, sent, leaked >>

-----------------------------------------------------------------------------
\* The server, and Smack's own reconnection (setReconnectionAllowed).

Drop ==
  /\ connection \in {"linked", "up"} /\ spent.drops < MaxDrops
  /\ connection' = "down"
  /\ spent' = [spent EXCEPT !.drops = @ + 1]
  /\ UNCHANGED << pc, call, holding, sent, result, leaked, doubled >>

Reconnect ==
  /\ connection = "down"
  /\ connection' = "up"
  /\ UNCHANGED << pc, call, holding, sent, result, leaked, doubled, spent >>

\* A thread inside a call.
Step(t) ==
  \/ SendMessage(t) \/ SendMessageFails(t) \/ LockToReconnect(t)
  \/ Disconnect(t) \/ RemoveListener(t) \/ ClearConnection(t)
  \/ NewConnection(t) \/ Connect(t) \/ Login(t) \/ Announce(t)
  \/ Misses(t) \/ Refused(t)

Next ==
  \/ \E t \in Threads :
       \/ Step(t) \/ CallStartup(t) \/ CallShutdown(t)
       \/ \E method \in {"sendMessage", "sendMessageOrRetry"} : Send(t, method)
  \/ Drop \/ Reconnect

Spec == Init /\ [][Next]_vars

-----------------------------------------------------------------------------
TypeOK ==
  /\ connection \in Connection
  /\ pc \in [Threads -> {"idle", "send", "backoff"} \union Closing \union Opening]
  /\ call \in [Threads -> {"none", "sendMessage", "sendMessageOrRetry", "startup", "shutdown"}]
  /\ holding \subseteq Threads
  /\ sent \in [Threads -> 0 .. 1]
  /\ result \in [Threads -> {"none", "returned", "thrown"}]
  /\ leaked \in BOOLEAN
  /\ doubled \in BOOLEAN
  /\ spent \in [ messages : 0 .. MaxMessages, starts : 0 .. MaxStarts, stops : 0 .. MaxStops,
                 drops : 0 .. MaxDrops, refusals : 0 .. MaxRefusals ]

Sending(t) == call[t] \in {"sendMessage", "sendMessageOrRetry"}

(***************************************************************************)
(* However often it reconnects, and whatever other threads do to the       *)
(* connection meanwhile, a send that returned handed its message over      *)
(* once and a send that threw did not.  (sendMessageOrRetry)               *)
(***************************************************************************)
SentOnce ==
  \A t \in Threads : pc[t] = "idle" /\ Sending(t) =>
    sent[t] = IF result[t] = "returned" THEN 1 ELSE 0

(***************************************************************************)
(* The client loses sight of a live connection only when two threads       *)
(* change it at once, or the application starts a client that is started:  *)
(* a lone retry always closes the connection it replaces.                  *)
(***************************************************************************)
ClosedBeforeReplaced == leaked => doubled \/ spent.starts > 1

(***************************************************************************)
(* The lock is held by threads that reconnect and nobody else, so no way   *)
(* out of shutdown() or startup() keeps it.                                *)
(***************************************************************************)
LockGivenBack ==
  \A t \in Threads :
    t \in holding <=> Changing(t) /\ call[t] = "sendMessageOrRetry"

-----------------------------------------------------------------------------
\* sendMessageOrRetry, line 227: no second shutdown or startup meanwhile.
OneReconnects ==
  \A t, u \in Threads :
    /\ Changing(t) /\ call[t] = "sendMessageOrRetry"
    /\ Changing(u) /\ call[u] = "sendMessageOrRetry"
    => t = u
=============================================================================
