------------------------------ MODULE LogStore ------------------------------
(***************************************************************************)
(* What the CSV logging service promises to those who log and to those who *)
(* read its files, without queue bounds, clocks, headers, buffers or       *)
(* threads.                                                                *)
(*                                                                         *)
(* A log the service has accepted waits, is taken, and is added to the     *)
(* open file of its name.  The open file becomes a closed file as a whole, *)
(* and a closed file never changes.  As long as nothing failed no log is   *)
(* left out and none overtakes another.  A failure may cost the log in     *)
(* hand or the end of an open file; a crash costs what has reached no file *)
(* and the end of every open file, and where it leaves half a row there,   *)
(* the next log that comes to the file as well, which joins that row and   *)
(* can be read no more.  Neither costs a closed file, and no line of an    *)
(* open one is lost but by a failure of that moment.                       *)
(***************************************************************************)
EXTENDS Naturals, Sequences, SequencesExt

CONSTANTS
  Names,      \* names of the logs
  LogIds      \* identities of what is logged

VARIABLES
  accepted,   \* the logs accepted under each name, in order
  waiting,    \* those not taken yet
  taken,      \* those taken and not yet added to a file
  open,       \* the open file of each name
  closed,     \* its closed files, in the order they were closed
  failures,   \* failing files, crashes and misuse so far
  ok          \* none of them, nor any other reason to drop a log

files == << open, closed >>
storeVars == << accepted, waiting, taken, open, closed, failures, ok >>

StoreInit ==
  /\ accepted = [n \in Names |-> << >>]
  /\ waiting = [n \in Names |-> << >>]
  /\ taken = [n \in Names |-> {}]
  /\ open = [n \in Names |-> << >>]
  /\ closed = [n \in Names |-> << >>]
  /\ failures = 0
  /\ ok = TRUE

Accept(n, id) ==
  /\ \A m \in Names : id \notin ToSet(accepted[m])
  /\ accepted' = [accepted EXCEPT ![n] = Append(@, id)]
  /\ waiting' = [waiting EXCEPT ![n] = Append(@, id)]
  /\ UNCHANGED << taken, files, failures, ok >>

\* Only after a failure may two of a name be on their way at once.
TakeNext(n) ==
  /\ waiting[n] # << >> /\ (ok => taken[n] = {})
  /\ taken' = [taken EXCEPT ![n] = @ \union {Head(waiting[n])}]
  /\ waiting' = [waiting EXCEPT ![n] = Tail(@)]
  /\ UNCHANGED << accepted, files, failures, ok >>

Rolled(n) ==
  /\ closed' = [closed EXCEPT ![n] = Append(@, open[n])]
  /\ open' = [open EXCEPT ![n] = << >>]

Roll(n) ==
  /\ Rolled(n)
  /\ UNCHANGED << accepted, waiting, taken, failures, ok >>

\* Add a log to the open file, or to the one after it.
Store(n, id) ==
  /\ id \in taken[n]
  /\ taken' = [taken EXCEPT ![n] = @ \ {id}]
  /\ \/ /\ open' = [open EXCEPT ![n] = Append(@, id)]
        /\ UNCHANGED closed
     \/ /\ open' = [open EXCEPT ![n] = << id >>]
        /\ closed' = [closed EXCEPT ![n] = Append(@, open[n])]
  /\ UNCHANGED << accepted, waiting, failures, ok >>

\* A log is dropped: by a service that gave up, or in the half row a crash left.  Or
\* the service gives up here, and drops later.
Drop(n) ==
  /\ ok' = FALSE
  /\ taken' = taken \/ \E id \in taken[n] : taken' = [taken EXCEPT ![n] = @ \ {id}]
  /\ UNCHANGED << accepted, waiting, files, failures >>

\* A failure that concerns one log: of its file the end may be lost, or it is closed.
Fail(n) ==
  /\ ok' = FALSE /\ failures' = failures + 1
  /\ taken' = taken \/ \E id \in taken[n] : taken' = [taken EXCEPT ![n] = @ \ {id}]
  /\ \/ Rolled(n)
     \/ /\ \E s \in Prefixes(open[n]) : open' = [open EXCEPT ![n] = s]
        /\ UNCHANGED closed
  /\ UNCHANGED << accepted, waiting >>

Crash ==
  /\ ok' = FALSE /\ failures' = failures + 1
  /\ waiting' = [n \in Names |-> << >>]
  /\ taken' = [n \in Names |-> {}]
  /\ \E f \in [Names -> UNION { Prefixes(open[n]) : n \in Names }] :
       open' = f /\ \A n \in Names : f[n] \in Prefixes(open[n])
  /\ UNCHANGED << accepted, closed >>

StoreNext ==
  \/ \E n \in Names :
       \/ TakeNext(n) \/ Roll(n) \/ Drop(n) \/ Fail(n)
       \/ \E id \in LogIds : Accept(n, id) \/ Store(n, id)
  \/ Crash

StoreSpec == StoreInit /\ [][StoreNext]_storeVars
=============================================================================
