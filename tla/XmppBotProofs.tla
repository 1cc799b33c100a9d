---------------------------- MODULE XmppBotProofs ----------------------------
(***************************************************************************)
(* Proofs about the messenger client, for every number of threads,         *)
(* messages, calls of startup() and shutdown(), drops and refusals.        *)
(***************************************************************************)
EXTENDS XmppBot, TLAPS

Retry == "sendMessageOrRetry"

Places == {"idle", "send", "backoff"} \union Closing \union Opening

\* What brings a thread where it is, and what it has sent by then.
Sent(t) ==
  /\ pc[t] \in {"send", "backoff"} => Sending(t)
  /\ pc[t] = "backoff" => call[t] = Retry
  /\ pc[t] \in Closing => call[t] \in {"shutdown", Retry}
  /\ pc[t] \in Opening => call[t] \in {"startup", Retry}
  /\ pc[t] # "idle" => result[t] = "none"
  /\ pc[t] # "idle" /\ Sending(t) => sent[t] = 0
  /\ pc[t] = "idle" /\ Sending(t) => sent[t] = IF result[t] = "returned" THEN 1 ELSE 0
  /\ t \in holding <=> Changing(t) /\ call[t] = Retry

SentInv == TypeOK /\ \A t \in Threads : Sent(t)

LEMMA SentInit == Init => SentInv
<1> SUFFICES ASSUME Init PROVE SentInv
  OBVIOUS
<1>1. spent \in [ messages : 0 .. MaxMessages, starts : 0 .. MaxStarts, stops : 0 .. MaxStops,
                  drops : 0 .. MaxDrops, refusals : 0 .. MaxRefusals ]
  BY XmppBotAssumption DEF Init
<1>2. TypeOK
  <2>1. sent \in [Threads -> 0 .. 1]
    BY DEF Init
  <2>2. pc \in [Threads -> {"idle", "send", "backoff"} \union Closing \union Opening]
    BY DEF Init
  <2>3. QED
    BY <1>1, <2>1, <2>2 DEF Init, TypeOK, Connection
<1>3. \A t \in Threads : Sent(t)
  BY DEF Init, Sent, Sending, Changing, Closing, Opening, Retry
<1>4. QED
  BY <1>2, <1>3 DEF SentInv

\* Every step of a thread changes the place of that thread only.
LEMMA StepPlace ==
  ASSUME TypeOK, NEW t \in Threads, NEW where \in Places, GoTo(t, where)
  PROVE  /\ pc' = [pc EXCEPT ![t] = where] /\ pc' \in [Threads -> Places]
         /\ doubled' \in BOOLEAN
  BY DEF TypeOK, GoTo, Places, Closing, Opening

LEMMA SentNext ==
  ASSUME SentInv, [Next]_vars
  PROVE  SentInv'
<1> USE DEF SentInv, Sent, TypeOK, Sending, Changing, Connection, Closing, Opening, Retry, Places
<1>1. ASSUME NEW t \in Threads, SendMessage(t)
      PROVE  SentInv'
  BY <1>1, StepPlace DEF SendMessage, Finish, CanSend
<1>2. ASSUME NEW t \in Threads, SendMessageFails(t)
      PROVE  SentInv'
  BY <1>2, StepPlace DEF SendMessageFails, Throw, Finish
<1>3. ASSUME NEW t \in Threads, LockToReconnect(t)
      PROVE  SentInv'
  BY <1>3, StepPlace DEF LockToReconnect
<1>4. ASSUME NEW t \in Threads, Disconnect(t)
      PROVE  SentInv'
  BY <1>4, StepPlace DEF Disconnect
<1>5. ASSUME NEW t \in Threads, RemoveListener(t)
      PROVE  SentInv'
  BY <1>5, StepPlace DEF RemoveListener
<1>6. ASSUME NEW t \in Threads, ClearConnection(t)
      PROVE  SentInv'
  BY <1>6, StepPlace DEF ClearConnection, Finish, Live
<1>7. ASSUME NEW t \in Threads, NewConnection(t)
      PROVE  SentInv'
  BY <1>7, StepPlace DEF NewConnection, Live
<1>8. ASSUME NEW t \in Threads, Connect(t)
      PROVE  SentInv'
  BY <1>8, StepPlace DEF Connect
<1>9. ASSUME NEW t \in Threads, Login(t)
      PROVE  SentInv'
  BY <1>9, StepPlace DEF Login
<1>10. ASSUME NEW t \in Threads, Announce(t)
       PROVE  SentInv'
  BY <1>10, StepPlace DEF Announce, Finish
<1>11. ASSUME NEW t \in Threads, Misses(t)
       PROVE  SentInv'
  BY <1>11, StepPlace DEF Misses, Throw, Finish
<1>12. ASSUME NEW t \in Threads, Refused(t)
       PROVE  SentInv'
  BY <1>12, StepPlace, XmppBotAssumption DEF Refused, Finish
<1>13. ASSUME NEW t \in Threads, CallStartup(t)
       PROVE  SentInv'
  BY <1>13, StepPlace, XmppBotAssumption DEF CallStartup
<1>14. ASSUME NEW t \in Threads, CallShutdown(t)
       PROVE  SentInv'
  BY <1>14, StepPlace, XmppBotAssumption DEF CallShutdown
<1>15. ASSUME NEW t \in Threads, NEW m \in {"sendMessage", "sendMessageOrRetry"}, Send(t, m)
       PROVE  SentInv'
  BY <1>15, StepPlace, XmppBotAssumption DEF Send
<1>16. CASE Drop
  BY <1>16, XmppBotAssumption DEF Drop
<1>17. CASE Reconnect
  BY <1>17 DEF Reconnect
<1>18. CASE UNCHANGED vars
  BY <1>18 DEF vars
<1>19. QED
  BY <1>1, <1>2, <1>3, <1>4, <1>5, <1>6, <1>7, <1>8, <1>9, <1>10, <1>11, <1>12, <1>13, <1>14,
     <1>15, <1>16, <1>17, <1>18 DEF Next, Step

LEMMA SentAlways == Spec => []SentInv
  BY SentInit, SentNext, PTL DEF Spec

(***************************************************************************)
(* The variables keep their types: in particular no thread hands the       *)
(* message of one call over twice.                                         *)
(***************************************************************************)
THEOREM TypeCorrect == Spec => []TypeOK
<1>1. SentInv => TypeOK
  BY DEF SentInv
<1>2. QED
  BY <1>1, SentAlways, PTL

(***************************************************************************)
(* A send that returned handed its message over once and one that threw    *)
(* did not, whatever the other threads do to the connection.               *)
(* (sendMessageOrRetry)                                                    *)
(***************************************************************************)
THEOREM EachSentOnce == Spec => []SentOnce
<1>1. SentInv => SentOnce
  BY DEF SentInv, Sent, SentOnce
<1>2. QED
  BY <1>1, SentAlways, PTL

(***************************************************************************)
(* The lock is held by the threads that reconnect and by nobody else, so   *)
(* every way out of shutdown() and startup() gives it back.                *)
(***************************************************************************)
THEOREM LockComesBack == Spec => []LockGivenBack
<1>1. SentInv => LockGivenBack
  BY DEF SentInv, Sent, LockGivenBack, Retry
<1>2. QED
  BY <1>1, SentAlways, PTL

-----------------------------------------------------------------------------
\* Nobody has a connection, and nobody is where only a connection leads.
Untouched ==
  /\ connection = "null"
  /\ \A u \in Threads : pc[u] \in {"idle", "send", "backoff", "disconnect", "create"}

\* A thread that changes the connection alone has closed what it drops.
Alone ==
  \A t \in Threads :
    /\ Changing(t) => \A u \in Threads \ {t} : ~Changing(u)
    /\ pc[t] \in {"unlisten", "clear"} => connection \notin Live
    /\ pc[t] = "create" /\ call[t] = Retry => connection = "null"

\* Until the first startup() has made a connection there is none to forget.
FirstStart ==
  /\ spent.starts = 0 => Untouched /\ \A t \in Threads : pc[t] # "create"
  /\ spent.starts = 1 =>
       \A t \in Threads : pc[t] = "create" /\ call[t] = "startup" =>
         Untouched /\ \A u \in Threads \ {t} : pc[u] # "create"

ReplaceInv == (~doubled => Alone) /\ FirstStart /\ ClosedBeforeReplaced

LEMMA ReplaceInit == Init => ReplaceInv
  BY DEF Init, ReplaceInv, Alone, FirstStart, ClosedBeforeReplaced, Untouched, Changing, Closing,
     Opening

LEMMA StepDoubles ==
  ASSUME TypeOK, NEW t \in Threads, NEW where \in Places, GoTo(t, where), ~doubled'
  PROVE  /\ ~doubled
         /\ where \in Closing \union Opening =>
              \A u \in Threads \ {t} : ~Changing(u)
         /\ \A u \in Threads \ {t} : pc'[u] = pc[u]
         /\ pc'[t] = where
<1>1. pc' = [pc EXCEPT ![t] = where] /\ \A u \in Threads \ {t} : pc'[u] = pc[u]
  BY DEF TypeOK, GoTo
<1>2. pc'[t] = where
  BY <1>1 DEF TypeOK
<1>3. ASSUME NEW u \in Threads \ {t}, where \in Closing \union Opening, Changing(u)
      PROVE  FALSE
  <2>1. {pc'[u], pc'[t]} \subseteq Closing \union Opening
    BY <1>1, <1>2, <1>3 DEF Changing
  <2>2. QED
    BY <2>1 DEF GoTo
<1>4. QED
  BY <1>1, <1>2, <1>3 DEF GoTo

LEMMA ReplaceNext ==
  ASSUME SentInv, ReplaceInv, [Next]_vars
  PROVE  ReplaceInv'
<1> USE DEF ReplaceInv, Alone, FirstStart, ClosedBeforeReplaced, Untouched, Changing, Closing,
            Opening, Places, Retry, Live, SentInv, Sent, TypeOK, Connection
<1>1. ASSUME NEW t \in Threads, SendMessage(t)
      PROVE  ReplaceInv'
  BY <1>1, StepPlace, StepDoubles DEF SendMessage, Finish, CanSend
<1>2. ASSUME NEW t \in Threads, SendMessageFails(t)
      PROVE  ReplaceInv'
  BY <1>2, StepPlace, StepDoubles DEF SendMessageFails, Throw, Finish
<1>3. ASSUME NEW t \in Threads, LockToReconnect(t)
      PROVE  ReplaceInv'
  BY <1>3, StepPlace, StepDoubles DEF LockToReconnect
<1>4. ASSUME NEW t \in Threads, Disconnect(t)
      PROVE  ReplaceInv'
  BY <1>4, StepPlace, StepDoubles DEF Disconnect
<1>5. ASSUME NEW t \in Threads, RemoveListener(t)
      PROVE  ReplaceInv'
  BY <1>5, StepPlace, StepDoubles DEF RemoveListener
<1>6. ASSUME NEW t \in Threads, ClearConnection(t)
      PROVE  ReplaceInv'
  BY <1>6, StepPlace, StepDoubles DEF ClearConnection, Finish
<1>7. ASSUME NEW t \in Threads, NewConnection(t)
      PROVE  ReplaceInv'
  BY <1>7, StepPlace, StepDoubles DEF NewConnection
<1>8. ASSUME NEW t \in Threads, Connect(t)
      PROVE  ReplaceInv'
  BY <1>8, StepPlace, StepDoubles DEF Connect
<1>9. ASSUME NEW t \in Threads, Login(t)
      PROVE  ReplaceInv'
  BY <1>9, StepPlace, StepDoubles DEF Login
<1>10. ASSUME NEW t \in Threads, Announce(t)
       PROVE  ReplaceInv'
  BY <1>10, StepPlace, StepDoubles DEF Announce, Finish
<1>11. ASSUME NEW t \in Threads, Misses(t)
       PROVE  ReplaceInv'
  BY <1>11, StepPlace, StepDoubles DEF Misses, Throw, Finish
<1>12. ASSUME NEW t \in Threads, Refused(t)
       PROVE  ReplaceInv'
  BY <1>12, StepPlace, StepDoubles DEF Refused, Finish
<1>13. ASSUME NEW t \in Threads, CallStartup(t)
       PROVE  ReplaceInv'
  BY <1>13, StepPlace, StepDoubles DEF CallStartup
<1>14. ASSUME NEW t \in Threads, CallShutdown(t)
       PROVE  ReplaceInv'
  BY <1>14, StepPlace, StepDoubles DEF CallShutdown
<1>15. ASSUME NEW t \in Threads, NEW m \in {"sendMessage", "sendMessageOrRetry"}, Send(t, m)
       PROVE  ReplaceInv'
  BY <1>15, StepPlace, StepDoubles DEF Send
<1>16. CASE Drop
  BY <1>16 DEF Drop
<1>17. CASE Reconnect
  BY <1>17 DEF Reconnect
<1>18. CASE UNCHANGED vars
  BY <1>18 DEF vars
<1>19. QED
  BY <1>1, <1>2, <1>3, <1>4, <1>5, <1>6, <1>7, <1>8, <1>9, <1>10, <1>11, <1>12, <1>13, <1>14,
     <1>15, <1>16, <1>17, <1>18 DEF Next, Step

(***************************************************************************)
(* The client loses sight of a live connection only when two threads       *)
(* change it at once or the application starts a started client.           *)
(* (shutdown, startup)                                                     *)
(***************************************************************************)
THEOREM NothingForgotten == Spec => []ClosedBeforeReplaced
<1>1. Init => SentInv /\ ReplaceInv
  BY SentInit, ReplaceInit
<1>2. SentInv /\ ReplaceInv /\ [Next]_vars => SentInv' /\ ReplaceInv'
  BY SentNext, ReplaceNext
<1>3. SentInv /\ ReplaceInv => ClosedBeforeReplaced
  BY DEF ReplaceInv
<1>4. QED
  BY <1>1, <1>2, <1>3, PTL DEF Spec
=============================================================================
