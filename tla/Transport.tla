------------------------------ MODULE Transport ------------------------------
(***************************************************************************)
(* A client of the quote servers: src/tdxman/transport (TdxConnection,     *)
(* AsyncTdxConnection), the reconnecting _execute() of the standard, the   *)
(* MAC and the extended clients, their heartbeats, and a worker of         *)
(* src/aspool/fetch.py that downloads item after item through one client.  *)
(*                                                                         *)
(* A server answers the requests of a connection in their order, and an    *)
(* answer does not say which request it answers: the next answer read is   *)
(* taken for that of the last request sent.  An answer is therefore the    *)
(* token of its request, and a connection the sequence of answers that     *)
(* nobody has read, arrived or not.  Of time, only its order is kept: a    *)
(* wait may end before what it waits for comes.                            *)
(***************************************************************************)
EXTENDS Naturals, Sequences, FiniteSets

CONSTANTS
    Clients,     \* the kinds of clients of this instance, see ClientKinds
    Calls,       \* calls of the user, in any fixed order
    MaxBeats,    \* _MAX_CONSECUTIVE_HEARTBEATS
    MaxRetries,  \* Len(_RETRY_DELAYS)
    MaxOutages,  \* bound: times the server goes away
    Heartbeats,  \* bound: the threads or tasks of a heartbeat that are there at a time
    NoCall

(* style: threads and blocking sockets, or tasks of one event loop.
   reconnect: auto_reconnect.  beats: heartbeat_interval > 0.
   worker: the user is a worker of fetch_sync() or fetch_async(), whose clients are
   made without heartbeat.
   lateHandshake: the server answers a handshake after the client has given up
   waiting for it, which connect() ignores. *)
ClientKinds == [style : {"sync", "async"}, reconnect : BOOLEAN, beats : BOOLEAN,
                worker : BOOLEAN, lateHandshake : BOOLEAN]

ASSUME ConstantsAssumption ==
    /\ Clients \subseteq ClientKinds
    /\ \A k \in Clients : k.worker => ~k.beats
    /\ Calls \cap {"beat", "setup", "none", "error"} = {} /\ NoCall \notin Calls
    /\ Heartbeats \cap {"user", "nobody"} = {}
    /\ MaxRetries \in Nat \ {0} /\ MaxOutages \in Nat
    /\ MaxBeats \in Nat \ {0}

Actors == {"user"} \cup Heartbeats
Tokens == Calls \cup {"beat", "setup"}

VARIABLES
    client,   \* what kind of client this is
    up,       \* the server accepts connections
    outages,
    open,     \* the client has a socket
    alive,    \* ... whose other end is there
    unread,   \* the answers on it that nobody has read, arrived or not
    left,     \* why there are answers that nobody waits for any more
    lock,     \* who holds the lock that serialises requests, or "nobody"
    pc,       \* what user and heartbeats are doing
    tries,    \* reconnections for the request in hand
    call,     \* the last call of the user
    recent,   \* a request was made since the heartbeat looked
    beats,    \* _consecutive_heartbeats
    answers,  \* what each call returned
    ever      \* all reasons there have been

linkVars == <<open, alive, unread, left, ever>>
workVars == <<lock, pc, tries>>
beatVars == <<recent, beats>>
vars == <<client, up, outages, linkVars, workVars, call, beatVars, answers>>

Reasons  == {"handshake", "cancelled", "kept", "stray"}
Outcomes == Tokens \cup {"none", "error"}

(* A heartbeat waits for its interval ("idle", or "late" when it does so on the stop
   event of an earlier connect()), is about to make a request ("due" or "calling"),
   waits for the answer ("reading"), or does so on a socket that the connection no
   longer has ("astray"). *)
Phases == {"off", "idle", "late", "due", "calling", "reading", "astray", "backoff",
           "replace"}

TypeOK ==
    /\ client \in Clients
    /\ up \in BOOLEAN /\ outages \in 0..MaxOutages
    /\ open \in BOOLEAN /\ alive \in BOOLEAN
    /\ unread \in Seq(Tokens)
    /\ left \subseteq ever /\ ever \subseteq Reasons
    /\ lock \in Actors \cup {"nobody"}
    /\ pc \in [Actors -> Phases]
    /\ tries \in [Actors -> 0..MaxRetries]
    /\ call \in Calls \cup {NoCall}
    /\ recent \in BOOLEAN /\ beats \in 0..MaxBeats
    /\ answers \in [Calls -> Outcomes]

Sync == client.style = "sync"

Init ==
    /\ client \in Clients
    /\ up = TRUE /\ outages = 0
    /\ open = FALSE /\ alive = FALSE /\ unread = <<>> /\ left = {} /\ ever = {}
    /\ lock = "nobody"
    /\ pc = [a \in Actors |-> IF a = "user" THEN "idle" ELSE "off"]
    /\ tries = [a \in Actors |-> 0]
    /\ call = NoCall
    /\ recent = FALSE /\ beats = 0
    /\ answers = [c \in Calls |-> "none"]

-----------------------------------------------------------------------------
(* The connection. *)

Token(a) == IF a = "user" THEN call ELSE "beat"

NoLink == open' = FALSE /\ alive' = FALSE /\ unread' = <<>> /\ left' = {} /\ UNCHANGED ever

(* A new connection, answers to a handshake that come too late included. *)
FreshLink ==
    /\ open' = TRUE /\ alive' = TRUE
    /\ unread' = IF client.lateHandshake THEN <<"setup">> ELSE <<>>
    /\ left' = IF client.lateHandshake THEN {"handshake"} ELSE {}
    /\ ever' = ever \cup left'

(* Nobody waits any more for what is on the connection, which stays. *)
LeaveUnread(reason) ==
    /\ left' = left \cup {reason} /\ ever' = ever \cup {reason}
    /\ UNCHANGED <<open, alive, unread>>

(* The request in hand ends, and the lock is released. *)
Return(a, outcome) ==
    /\ tries' = [tries EXCEPT ![a] = 0]
    /\ lock' = "nobody"
    /\ answers' = IF a = "user" THEN [answers EXCEPT ![call] = outcome] ELSE answers
Finish(a, outcome) == pc' = [pc EXCEPT ![a] = "idle"] /\ Return(a, outcome)

(* _RETRY_DELAYS is used up, or there is no reconnecting. *)
GivesUp(a) == ~client.reconnect \/ tries[a] = MaxRetries

(* TdxConnectionError leaves _execute(), of a worker or of another user; p is what
   the others do then.  A worker turns to another client for the item. *)
Raise(a, p) ==
    \/ /\ ~client.worker
       /\ pc' = [p EXCEPT ![a] = "idle"]
       /\ Return(a, "error")
    \/ /\ client.worker
       /\ pc' = [p EXCEPT ![a] = "replace"]
       /\ lock' = "nobody"
       /\ UNCHANGED <<tries, answers>>

(* TdxConnectionError in _execute(): reconnect, or raise. *)
Failed(a) ==
    \/ /\ ~GivesUp(a)
       /\ pc' = [pc EXCEPT ![a] = "backoff"]
       /\ lock' = IF Sync THEN "nobody" ELSE a
       /\ UNCHANGED <<tries, answers>>
    \/ GivesUp(a) /\ Raise(a, pc)

-----------------------------------------------------------------------------
(* connect() and close() of a client, between two calls. *)

(* All heartbeats are gone, and with a new connection one is there if the client
   has heartbeats. *)
NoBeat == [a \in Actors |-> IF a = "user" THEN pc[a] ELSE "off"]
StartBeat(p) ==
    LET unused == {h \in Heartbeats : p[h] = "off"}
        new    == CHOOSE h \in unused : TRUE
    IN  IF client.beats THEN unused # {} /\ pc' = [p EXCEPT ![new] = "idle"] ELSE pc' = p

(* What a thread does, once the connection has another socket and another event. *)
Behind(phase) == CASE phase = "idle"    -> "late"
                   [] phase = "reading" -> "astray"
                   [] OTHER             -> phase

NewBeat == /\ tries' = [a \in Actors |-> IF a = "user" THEN tries[a] ELSE 0]
           /\ recent' = TRUE /\ beats' = 0

(* connect() of a connection of threads asks neither for the lock nor whether there
   is a socket: it is replaced, and the heartbeat of the socket before goes on beside
   the new one.  It may use the stream that connect() is shaking hands on. *)
Connect ==
    /\ Sync
    /\ pc["user"] = "idle"
    /\ up
    /\ \/ FreshLink
       \/ /\ \E h \in Heartbeats : pc[h] # "off"
          /\ open' = TRUE /\ alive' = TRUE /\ unread' \in {<<>>, <<"setup">>}
          /\ left' = {"stray"} /\ ever' = ever \cup left'
    /\ StartBeat([a \in Actors |-> IF a = "user" THEN pc[a] ELSE Behind(pc[a])])
    /\ NewBeat
    /\ UNCHANGED <<client, up, outages, lock, call, answers>>

(* The server goes in the middle of the handshake: there is no socket any more. *)
ConnectFails ==
    /\ Sync
    /\ pc["user"] = "idle"
    /\ NoLink
    /\ pc' = [a \in Actors |-> IF pc[a] = "reading" THEN "astray" ELSE pc[a]]
    /\ UNCHANGED <<client, up, outages, lock, tries, call, beatVars, answers>>

(* connect() of an asynchronous client cancels the heartbeat that was running, where
   it is: in a reconnection of its own, the connection it was making stays as it is. *)
ConnectAsync ==
    /\ ~Sync
    /\ pc["user"] = "idle"
    /\ up /\ ~open
    /\ \/ FreshLink
       \/ /\ \E h \in Heartbeats : pc[h] = "backoff"
          /\ \/ NoLink
             \/ /\ open' = TRUE /\ alive' = TRUE /\ unread' = <<"setup">>
                /\ left' = {"cancelled"} /\ ever' = ever \cup left'
    /\ StartBeat(NoBeat)
    /\ NewBeat
    /\ lock' = "nobody"
    /\ UNCHANGED <<client, up, outages, call, answers>>

(* With a connection it only starts the heartbeat again, after the request in
   hand: connect() waits for _io_lock. *)
ConnectAgain ==
    /\ ~Sync
    /\ pc["user"] = "idle"
    /\ open
    /\ \A h \in Heartbeats : pc[h] # "reading"
    /\ StartBeat(NoBeat)
    /\ NewBeat
    /\ lock' = "nobody"
    /\ UNCHANGED <<client, up, outages, linkVars, call, answers>>

(* close(): an idle heartbeat sees the event and ends.  stop_heartbeat() waits for a
   thread for two seconds only, which then goes on without a socket. *)
Close ==
    /\ pc["user"] = "idle"
    /\ NoLink
    /\ \E survivors \in SUBSET {h \in Heartbeats : Sync /\ pc[h] \notin {"off", "idle"}} :
          /\ pc' = [a \in Actors |-> IF a \in survivors THEN Behind(pc[a]) ELSE NoBeat[a]]
          /\ lock' = IF lock \in survivors THEN lock ELSE "nobody"
    /\ tries' = [a \in Actors |-> IF a = "user" THEN tries[a] ELSE 0]
    /\ UNCHANGED <<client, up, outages, call, beatVars, answers>>

-----------------------------------------------------------------------------
(* _execute(): by the user, and by the heartbeat of an asynchronous client. *)

Call ==
    /\ pc["user"] = "idle"
    /\ \E c \in Calls : answers[c] = "none"
    /\ call' = CHOOSE c \in Calls : answers[c] = "none"
    /\ pc' = [pc EXCEPT !["user"] = "calling"]
    /\ UNCHANGED <<client, up, outages, linkVars, lock, tries, beatVars, answers>>

(* execute() of the connection, under the lock. *)
Send(a) ==
    /\ pc[a] = "calling"
    /\ lock \in {"nobody", a}
    /\ IF Sync THEN recent' = TRUE /\ beats' = 0 ELSE UNCHANGED beatVars
    /\ \/ /\ ~open
          /\ Failed(a)
          /\ UNCHANGED linkVars
       \/ /\ open
          /\ unread' = Append(unread, Token(a))
          /\ pc' = [pc EXCEPT ![a] = "reading"]
          /\ lock' = a
          /\ UNCHANGED <<open, alive, left, ever, tries, answers>>
    /\ UNCHANGED <<client, up, outages, call>>

Requests(a) == a = "user" \/ ~Sync

(* The next answer is taken for the one that is waited for. *)
Receive(a) ==
    /\ Requests(a)
    /\ pc[a] = "reading"
    /\ alive
    /\ unread # <<>>
    /\ unread' = Tail(unread)
    /\ Finish(a, Head(unread))
    /\ UNCHANGED <<client, up, outages, open, alive, left, ever, call, beatVars>>

(* A timeout, or a connection closed or reset by the server.  An asynchronous
   connection closes itself, the socket of the other stays. *)
LoseAnswer(a) ==
    /\ Requests(a)
    /\ pc[a] = "reading"
    /\ IF Sync THEN LeaveUnread("kept") ELSE NoLink
    /\ Failed(a)
    /\ UNCHANGED <<client, up, outages, call, beatVars>>

(* Fault: a retry uses the connection it has. *)
ReconnectNothing(a) ==
    /\ pc[a] = "backoff"
    /\ pc' = [pc EXCEPT ![a] = "calling"]
    /\ tries' = [tries EXCEPT ![a] = @ + 1]
    /\ UNCHANGED <<client, up, outages, linkVars, lock, call, beatVars, answers>>

(* Fault: reconnections are not counted. *)
ReconnectForEver(a) ==
    /\ pc[a] = "backoff"
    /\ up
    /\ FreshLink
    /\ pc' = [pc EXCEPT ![a] = "calling"]
    /\ UNCHANGED <<client, up, outages, lock, tries, call, beatVars, answers>>

(* After a delay: close, a new connection with a heartbeat of its own, and the
   command again.  The connection of threads is another object, which a heartbeat
   of the former one does not know.  When connect() raises, the exception leaves
   the loop, and a connection of threads has no heartbeat. *)
Reconnect(a) ==
    /\ pc[a] = "backoff"
    /\ \/ /\ up
          /\ FreshLink
          /\ tries' = [tries EXCEPT ![a] = @ + 1]
          /\ IF Sync THEN /\ StartBeat([b \in Actors |-> IF b = a THEN "calling" ELSE NoBeat[b]])
                          /\ recent' = TRUE /\ beats' = 0 /\ lock' = "nobody"
                     ELSE /\ pc' = [pc EXCEPT ![a] = "calling"]
                          /\ UNCHANGED <<beatVars, lock>>
          /\ UNCHANGED answers
       \/ /\ ~up
          /\ NoLink
          /\ Raise(a, IF Sync THEN NoBeat ELSE pc)
          /\ UNCHANGED beatVars
    /\ UNCHANGED <<client, up, outages, call>>

-----------------------------------------------------------------------------
(* Workers of fetch.py. *)

(* fetch_sync(): the client is closed and replaced, and the item is tried once
   more on the new one, by the same _execute(); without a retry_factory the item
   has failed, and the client stays.  fetch_async(): the item is tried on private
   clients, and the client of the worker stays as it is.  (Without a retry_factory
   it would be tried on that client again; no caller does so.) *)
Replace ==
    /\ pc["user"] = "replace"
    /\ \/ /\ ~Sync
          /\ UNCHANGED linkVars
          /\ \E outcome \in {call, "error"} : Finish("user", outcome)
       \/ /\ Sync
          /\ UNCHANGED linkVars
          /\ Finish("user", "error")
       \/ /\ Sync /\ up
          /\ LET stream == IF client.lateHandshake THEN <<"setup", call>> ELSE <<call>>
             IN  /\ unread' = Tail(stream)
                 /\ Finish("user", Head(stream))
          /\ left' = IF client.lateHandshake THEN {"handshake"} ELSE {}
          /\ open' = TRUE /\ alive' = TRUE /\ ever' = ever \cup left'
       \/ /\ Sync /\ up
          /\ open' = TRUE /\ alive' = TRUE /\ unread' = <<call>>
          /\ left' = {"kept"} /\ ever' = ever \cup {"kept"}
          /\ Finish("user", "error")
       \/ /\ Sync
          /\ NoLink
          /\ Finish("user", "error")
    /\ UNCHANGED <<client, up, outages, call, beatVars>>

(* asyncio.wait_for() of a worker cancels the request wherever it is: the lock is
   released, and the connection stays open with the answer still to come.  In a
   reconnection it may be a connection whose handshake has not been answered. *)
Cancel ==
    /\ client.worker /\ ~Sync
    /\ pc["user"] \in {"calling", "reading", "backoff"}
    /\ pc' = [pc EXCEPT !["user"] = "replace"]
    /\ lock' = IF lock = "user" THEN "nobody" ELSE lock
    /\ \/ pc["user"] = "calling" /\ UNCHANGED linkVars
       \/ pc["user"] = "reading" /\ LeaveUnread("cancelled")
       \/ pc["user"] = "backoff" /\ NoLink
       \/ /\ pc["user"] = "backoff" /\ up
          /\ open' = TRUE /\ alive' = TRUE /\ unread' = <<"setup">>
          /\ left' = {"cancelled"} /\ ever' = ever \cup {"cancelled"}
    /\ UNCHANGED <<client, up, outages, tries, call, beatVars, answers>>

-----------------------------------------------------------------------------
(* The heartbeat. *)

(* An interval has passed.  The thread looks at _last_active without the lock. *)
Wake(h) ==
    /\ pc[h] \in {"idle", "late"}
    /\ recent' = FALSE
    /\ pc' = [pc EXCEPT ![h] = IF ~Sync THEN "calling" ELSE IF recent THEN "idle" ELSE "due"]
    /\ UNCHANGED <<client, up, outages, linkVars, lock, tries, call, beats, answers>>

(* Fault: the thread does not wait for the lock. *)
BeatUnlocked(h) ==
    /\ pc[h] = "due"
    /\ open
    /\ beats + 1 < MaxBeats
    /\ unread' = Append(unread, "beat")
    /\ beats' = beats + 1
    /\ pc' = [pc EXCEPT ![h] = "reading"]
    /\ UNCHANGED <<client, up, outages, open, alive, left, ever, lock, tries, call, recent,
                   answers>>

(* _heartbeat_loop() with the lock: it ends without a connection, and closes one
   that nobody has used for long. *)
Beat(h) ==
    /\ pc[h] = "due"
    /\ lock = "nobody"
    /\ \/ /\ ~open
          /\ pc' = [pc EXCEPT ![h] = "off"]
          /\ UNCHANGED <<linkVars, lock, beats>>
       \/ /\ open /\ beats + 1 >= MaxBeats
          /\ NoLink
          /\ beats' = MaxBeats
          /\ pc' = [pc EXCEPT ![h] = "off"]
          /\ UNCHANGED lock
       \/ /\ open /\ beats + 1 < MaxBeats
          /\ unread' = Append(unread, "beat")
          /\ beats' = beats + 1
          /\ lock' = h
          /\ pc' = [pc EXCEPT ![h] = "reading"]
          /\ UNCHANGED <<open, alive, left, ever>>
    /\ UNCHANGED <<client, up, outages, tries, call, recent, answers>>

(* A timeout or a reset closes the socket and ends the thread.  So does the end of
   the stream, by an exception that nobody handles, but the dead socket stays. *)
BeatLost(h) ==
    /\ Sync /\ pc[h] = "reading"
    /\ \/ NoLink
       \/ ~alive /\ UNCHANGED linkVars
    /\ pc' = [pc EXCEPT ![h] = "off"]
    /\ lock' = "nobody"
    /\ UNCHANGED <<client, up, outages, tries, call, beatVars, answers>>

BeatAnswered(h) ==
    /\ Sync /\ pc[h] = "reading"
    /\ alive /\ unread # <<>>
    /\ unread' = Tail(unread)
    /\ pc' = [pc EXCEPT ![h] = "idle"]
    /\ lock' = "nobody"
    /\ UNCHANGED <<client, up, outages, open, alive, left, ever, tries, call, beatVars,
                   answers>>

(* The wait on a former socket ends.  The loop reads self._sock anew for the body
   of the answer, and to close it after a timeout: it is the socket of the present
   connection that loses an answer, or a part of one, or is closed. *)
Stray(h) ==
    /\ pc[h] = "astray"
    /\ \/ UNCHANGED linkVars
       \/ NoLink
       \/ /\ open
          /\ unread' \in {unread} \cup (IF unread = <<>> THEN {} ELSE {Tail(unread)})
          /\ left' = left \cup {"stray"} /\ ever' = ever \cup {"stray"}
          /\ UNCHANGED <<open, alive>>
    /\ \E phase \in {"idle", "off"} : pc' = [pc EXCEPT ![h] = phase]
    /\ lock' = "nobody"
    /\ UNCHANGED <<client, up, outages, tries, call, beatVars, answers>>

-----------------------------------------------------------------------------
(* The server. *)

GoAway ==
    /\ up /\ outages < MaxOutages
    /\ up' = FALSE /\ outages' = outages + 1
    /\ alive' = FALSE
    /\ UNCHANGED <<client, open, unread, left, ever, workVars, call, beatVars, answers>>

ComeBack ==
    /\ ~up
    /\ up' = TRUE
    /\ UNCHANGED <<client, outages, linkVars, workVars, call, beatVars, answers>>

-----------------------------------------------------------------------------
Execute(a) == Send(a) \/ Receive(a) \/ LoseAnswer(a) \/ Reconnect(a)

Heartbeat(h) == Beat(h) \/ BeatLost(h) \/ BeatAnswered(h) \/ Stray(h)

Next ==
    \/ Connect \/ ConnectFails \/ ConnectAsync \/ ConnectAgain \/ Close \/ Call
    \/ \E a \in Actors : Execute(a)
    \/ Replace \/ Cancel
    \/ \E h \in Heartbeats : Wake(h) \/ Heartbeat(h)
    \/ GoAway \/ ComeBack

Spec == Init /\ [][Next]_vars

(* Every wait has a timeout, and a heartbeat that has let the lock go waits for an
   interval before it asks for it again. *)
FairSpec ==
    /\ Spec
    /\ SF_vars(Execute("user")) /\ WF_vars(Replace)
    /\ \A h \in Heartbeats : WF_vars(Execute(h)) /\ WF_vars(Heartbeat(h))

-----------------------------------------------------------------------------
(* Properties. *)

(* A call returns its own answer, unless an answer has been left unread on the
   connection, by a call that failed or was cancelled or by a late handshake, or a
   heartbeat of an earlier socket has touched it: one that connect() did not stop, or
   for which close() did not wait.  All other heartbeats, which use the connection
   from threads and tasks of their own, cost no call its answer. *)
CleanLinkAnswersMatch ==
    [][\A c \in Calls :
          answers'[c] # answers[c] /\ answers'[c] \in Tokens /\ left = {} /\ left' = {} =>
              answers'[c] = c]_vars

(* Reconnections are invisible: until a call has failed before its user, whatever
   connections were lost and replaced under it, all calls got their own answers; late
   handshakes, cancellations and heartbeats of an earlier socket excepted. *)
MismatchFollowsFailure ==
    /\ ever \cap {"handshake", "cancelled", "stray"} = {}
    /\ \A c \in Calls : answers[c] # "error"
    => \A c \in Calls : answers[c] # "none" => answers[c] = c

(* Every call returns or raises, however the heartbeat, the server and the
   reconnections go. *)
CallsEnd == pc["user"] # "idle" ~> pc["user"] = "idle"

(* docs/design/aspool_index_design.md: "各连接内部串行，避免响应错配", requests are
   serial within a connection to keep answers from being mismatched. *)
AnswersMatch == \A c \in Calls : answers[c] \in Tokens => answers[c] = c
=============================================================================
