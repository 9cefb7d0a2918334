--------------------------- MODULE TransportProofs ---------------------------
(***************************************************************************)
(* Proofs about Transport, for any kinds of clients, numbers of calls, of  *)
(* reconnections, of heartbeats and of outages: on a connection on which   *)
(* nothing was left unread a call gets its own answer, and a client on     *)
(* which no call has failed has never mixed up two answers.                *)
(***************************************************************************)
EXTENDS Transport, TLAPS

(* TypeOK, in three parts. *)
ClientTypes ==
    /\ client \in Clients
    /\ up \in BOOLEAN /\ outages \in 0..MaxOutages
    /\ recent \in BOOLEAN /\ beats \in 0..MaxBeats
LinkTypes ==
    /\ open \in BOOLEAN /\ alive \in BOOLEAN
    /\ unread \in Seq(Tokens)
    /\ left \subseteq ever /\ ever \subseteq Reasons
WorkTypes ==
    /\ lock \in Actors \cup {"nobody"}
    /\ pc \in [Actors -> Phases]
    /\ tries \in [Actors -> 0..MaxRetries]
    /\ call \in Calls \cup {NoCall}
    /\ answers \in [Calls -> Outcomes]
Types == ClientTypes /\ LinkTypes /\ WorkTypes

(* The requests of a connection are serial: who reads has the lock, of the present
   connection or of a former one, and a task keeps it through its reconnections. *)
LockInvariant ==
    /\ \A a \in Actors : pc[a] \in {"reading", "astray"} => lock = a
    /\ \A a \in Actors : lock = a =>
          pc[a] \in {"reading", "astray"} \/ (~Sync /\ pc[a] \in {"calling", "backoff"})
    /\ ~Sync => \A a \in Actors : pc[a] = "backoff" => lock = a

(* What user and heartbeats can be doing, and how often they still may reconnect. *)
ActorInvariant ==
    /\ pc["user"] \notin {"off", "late", "due", "astray"}
    /\ \A h \in Heartbeats :
          /\ pc[h] # "replace"
          /\ ~client.beats => pc[h] = "off"
          /\ Sync => pc[h] \notin {"calling", "backoff"}
          /\ ~Sync => pc[h] \notin {"late", "due", "astray"}
    /\ \A a \in Actors : pc[a] = "backoff" => tries[a] < MaxRetries
    /\ pc["user"] # "idle" => call \in Calls /\ answers[call] = "none"
    /\ pc["user"] = "replace" => client.worker

(* On a living connection on which nothing was left, there is at most the answer to the
   request in hand. *)
LinkInvariant ==
    left = {} /\ alive =>
        /\ \A a \in Actors : pc[a] = "reading" => unread \in {<<>>, <<Token(a)>>}
        /\ (\A a \in Actors : pc[a] # "reading") => unread = <<>>

(* What a failed call left on a connection goes with the connection before the next one,
   or the call fails before its user. *)
KeptInvariant ==
    "kept" \in left =>
        Sync /\ (pc["user"] \in {"backoff", "replace"} \/ \E c \in Calls : answers[c] = "error")

TransportInvariant ==
    /\ Types /\ LockInvariant /\ ActorInvariant /\ LinkInvariant /\ KeptInvariant
    /\ MismatchFollowsFailure

-----------------------------------------------------------------------------
(* The assumption on the constants, as the steps use it. *)
LEMMA Constants ==
    /\ Tokens \subseteq Outcomes /\ "none" \in Outcomes /\ "error" \in Outcomes
    /\ "none" \notin Tokens /\ "error" \notin Tokens
    /\ "beat" \in Tokens /\ "setup" \in Tokens /\ Calls \subseteq Tokens
    /\ NoCall \notin Calls
    /\ "user" \in Actors /\ Heartbeats \subseteq Actors /\ "nobody" \notin Actors
    /\ "user" \notin Heartbeats /\ \A a \in Actors : a = "user" \/ a \in Heartbeats
    /\ MaxRetries \in Nat /\ 0 \in 0..MaxOutages
    /\ 0 \in 0..MaxBeats /\ MaxBeats \in 0..MaxBeats
    /\ \A n \in 0..MaxBeats : n + 1 < MaxBeats => n + 1 \in 0..MaxBeats
    /\ \A n \in 0..MaxOutages : n < MaxOutages => n + 1 \in 0..MaxOutages
    /\ <<>> \in Seq(Tokens) /\ \A t \in Tokens : <<t>> \in Seq(Tokens)
    /\ \A k \in Clients : k.worker => ~k.beats
  BY ConstantsAssumption DEF Tokens, Outcomes, Actors

LEMMA TailOfOne == \A x : Tail(<<x>>) = <<>> /\ Head(<<x>>) = x
  OBVIOUS

LEMMA TailOfTwo == \A x, y : Tail(<<x, y>>) = <<y>> /\ Head(<<x, y>>) = x
  OBVIOUS

(* At most one heartbeat starts, of a client that has heartbeats. *)
LEMMA BeatsStarted ==
    ASSUME NEW p \in [Actors -> Phases], StartBeat(p)
    PROVE  /\ pc' \in [Actors -> Phases]
           /\ pc'["user"] = p["user"]
           /\ \A h \in Heartbeats :
                 pc'[h] = p[h] \/ (client.beats /\ p[h] = "off" /\ pc'[h] = "idle")
<1> DEFINE unused == {h \in Heartbeats : p[h] = "off"}
           new    == CHOOSE h \in unused : TRUE
<1>1. CASE client.beats
  <2>1. unused # {} /\ pc' = [p EXCEPT ![new] = "idle"]
    BY <1>1 DEF StartBeat
  <2>2. new \in unused
    BY <2>1
  <2> QED
    BY <1>1, <2>1, <2>2, Constants DEF Phases
<1>2. CASE ~client.beats
  BY <1>2 DEF StartBeat
<1> QED
  BY <1>1, <1>2

(* What a heartbeat does on a connection that has got another socket. *)
LEMMA BehindAnotherSocket ==
    \A phase \in Phases :
        /\ Behind(phase) \in Phases \ {"idle", "reading"}
        /\ phase \in {"reading", "astray"} <=> Behind(phase) = "astray"
        /\ Behind(phase) # "late" => Behind(phase) \in {phase, "astray"}
        /\ phase \in {"off", "replace", "calling", "backoff"} => Behind(phase) = phase
  BY DEF Behind, Phases

LEMMA InitHolds == Init => TransportInvariant
<1> SUFFICES ASSUME Init PROVE TransportInvariant
  OBVIOUS
<1>1. ClientTypes
  BY Constants DEF Init, ClientTypes
<1>2. LinkTypes
  BY Constants DEF Init, LinkTypes
<1>3. WorkTypes
  <2>1. 0 \in 0..MaxRetries
    BY Constants
  <2> QED
    BY <2>1, Constants DEF Init, WorkTypes, Phases, Actors
<1>4. LockInvariant /\ ActorInvariant /\ KeptInvariant
  BY Constants DEF Init, LockInvariant, ActorInvariant, KeptInvariant, Actors
<1>5. LinkInvariant
  BY DEF Init, LinkInvariant
<1>6. MismatchFollowsFailure
  BY DEF Init, MismatchFollowsFailure
<1> QED
  BY <1>1, <1>2, <1>3, <1>4, <1>5, <1>6 DEF TransportInvariant, Types

-----------------------------------------------------------------------------
(* The steps. *)

LEMMA ConnectKeeps ==
    ASSUME TransportInvariant, Connect
    PROVE  TransportInvariant'
<1> USE Constants DEF TransportInvariant, Connect, FreshLink, NewBeat
<1> DEFINE behind == [a \in Actors |-> IF a = "user" THEN pc[a] ELSE Behind(pc[a])]
<1>p. /\ pc' \in [Actors -> Phases]
      /\ pc'["user"] = "idle"
      /\ \A h \in Heartbeats :
            /\ pc'[h] \in {"idle", "late", "due", "off", "astray"}
            /\ pc[h] \in {"reading", "astray"} <=> pc'[h] = "astray"
            /\ ~client.beats => pc'[h] = "off"
  <2>1. pc \in [Actors -> Phases]
    BY DEF Types, WorkTypes
  <2>2. behind \in [Actors -> Phases] /\ behind["user"] = "idle"
    BY <2>1, BehindAnotherSocket
  <2>3. ASSUME NEW h \in Heartbeats
        PROVE  /\ behind[h] \in {"late", "due", "off", "astray"}
               /\ pc[h] \in {"reading", "astray"} <=> behind[h] = "astray"
               /\ ~client.beats => behind[h] = "off"
    <3>1. behind[h] = Behind(pc[h]) /\ pc[h] \in Phases
      BY <2>1
    <3>2. pc[h] \notin {"calling", "backoff", "replace"} /\ (~client.beats => pc[h] = "off")
      BY DEF ActorInvariant
    <3> QED
      BY <3>1, <3>2, BehindAnotherSocket DEF Phases
  <2>4. StartBeat(behind)
    OBVIOUS
  <2>5. /\ pc' \in [Actors -> Phases]
        /\ pc'["user"] = behind["user"]
        /\ \A h \in Heartbeats :
              pc'[h] = behind[h] \/ (client.beats /\ behind[h] = "off" /\ pc'[h] = "idle")
    BY <2>2, <2>4, BeatsStarted
  <2> HIDE DEF behind
  <2> QED
    BY <2>2, <2>3, <2>5
<1>1. ClientTypes'
  BY DEF Types, ClientTypes
<1>2. LinkTypes'
  BY DEF Types, LinkTypes, Reasons
<1>3. WorkTypes'
  BY <1>p DEF Types, WorkTypes
<1>4. LockInvariant'
  BY <1>p DEF LockInvariant, Sync
<1>5. ActorInvariant'
  BY <1>p DEF Types, WorkTypes, ActorInvariant, Sync
<1>6. LinkInvariant'
  BY <1>p DEF LinkInvariant
<1>7. KeptInvariant'
  BY DEF Types, LinkTypes, WorkTypes, ActorInvariant, KeptInvariant, Actors, Sync
<1>8. MismatchFollowsFailure'
  BY DEF Types, LinkTypes, WorkTypes, ActorInvariant, LinkInvariant, KeptInvariant,
      MismatchFollowsFailure, Actors, Token, Sync, Reasons
<1> QED
  BY <1>1, <1>2, <1>3, <1>4, <1>5, <1>6, <1>7, <1>8 DEF Types

LEMMA ConnectFailsKeeps ==
    ASSUME TransportInvariant, ConnectFails
    PROVE  TransportInvariant'
<1> USE Constants DEF TransportInvariant, ConnectFails, NoLink, beatVars
<1>1. ClientTypes'
  BY DEF Types, ClientTypes
<1>2. LinkTypes'
  BY DEF Types, LinkTypes, Reasons
<1>3. WorkTypes'
  BY DEF Types, WorkTypes, Phases
<1>4. LockInvariant'
  BY DEF Types, WorkTypes, LockInvariant, ActorInvariant, Sync
<1>5. ActorInvariant'
  BY DEF Types, WorkTypes, ActorInvariant, Sync
<1>6. LinkInvariant'
  BY DEF LinkInvariant
<1>7. KeptInvariant'
  BY DEF Types, LinkTypes, WorkTypes, ActorInvariant, KeptInvariant, Actors, Sync
<1>8. MismatchFollowsFailure'
  BY DEF Types, LinkTypes, WorkTypes, ActorInvariant, LinkInvariant, KeptInvariant,
      MismatchFollowsFailure, Actors, Token, Sync, Reasons
<1> QED
  BY <1>1, <1>2, <1>3, <1>4, <1>5, <1>6, <1>7, <1>8 DEF Types

LEMMA ConnectAsyncKeeps ==
    ASSUME TransportInvariant, ConnectAsync
    PROVE  TransportInvariant'
<1> USE Constants DEF TransportInvariant, ConnectAsync, FreshLink, NoLink, NewBeat
<1>p. /\ pc' \in [Actors -> Phases]
      /\ pc'["user"] = "idle"
      /\ \A h \in Heartbeats : pc'[h] = "off" \/ (client.beats /\ pc'[h] = "idle")
  <2>1. /\ NoBeat \in [Actors -> Phases]
        /\ NoBeat["user"] = "idle"
        /\ \A h \in Heartbeats : NoBeat[h] = "off"
    BY DEF Types, WorkTypes, NoBeat, Phases
  <2>2. StartBeat(NoBeat)
    OBVIOUS
  <2> QED
    BY <2>1, <2>2, BeatsStarted
<1>1. ClientTypes'
  BY DEF Types, ClientTypes
<1>2. LinkTypes'
  BY DEF Types, LinkTypes, Reasons
<1>3. WorkTypes'
  BY <1>p DEF Types, WorkTypes
<1>4. LockInvariant'
  BY <1>p DEF LockInvariant, Sync
<1>5. ActorInvariant'
  BY <1>p DEF Types, WorkTypes, ActorInvariant, Sync
<1>6. LinkInvariant'
  BY <1>p DEF LinkInvariant
<1>7. KeptInvariant'
  BY DEF Types, LinkTypes, WorkTypes, ActorInvariant, KeptInvariant, Actors, Sync
<1>8. MismatchFollowsFailure'
  BY DEF Types, LinkTypes, WorkTypes, ActorInvariant, LinkInvariant, KeptInvariant,
      MismatchFollowsFailure, Actors, Token, Sync, Reasons
<1> QED
  BY <1>1, <1>2, <1>3, <1>4, <1>5, <1>6, <1>7, <1>8 DEF Types

LEMMA ConnectAgainKeeps ==
    ASSUME TransportInvariant, ConnectAgain
    PROVE  TransportInvariant'
<1> USE Constants DEF TransportInvariant, ConnectAgain, linkVars, NewBeat
<1>p. /\ pc' \in [Actors -> Phases]
      /\ pc'["user"] = "idle"
      /\ \A h \in Heartbeats : pc'[h] = "off" \/ (client.beats /\ pc'[h] = "idle")
  <2>1. /\ NoBeat \in [Actors -> Phases]
        /\ NoBeat["user"] = "idle"
        /\ \A h \in Heartbeats : NoBeat[h] = "off"
    BY DEF Types, WorkTypes, NoBeat, Phases
  <2>2. StartBeat(NoBeat)
    OBVIOUS
  <2> QED
    BY <2>1, <2>2, BeatsStarted
<1>1. ClientTypes'
  BY DEF Types, ClientTypes
<1>2. LinkTypes'
  BY DEF Types, LinkTypes, Reasons
<1>3. WorkTypes'
  BY <1>p DEF Types, WorkTypes
<1>4. LockInvariant'
  BY <1>p DEF LockInvariant, Sync
<1>5. ActorInvariant'
  BY <1>p DEF Types, WorkTypes, ActorInvariant, Sync
<1>6. LinkInvariant'
  <2>1. \A b \in Actors : pc[b] # "reading"
    BY DEF ActorInvariant
  <2> QED
    BY <1>p, <2>1 DEF LinkInvariant
<1>7. KeptInvariant'
  BY DEF Types, LinkTypes, WorkTypes, ActorInvariant, KeptInvariant, Actors, Sync
<1>8. MismatchFollowsFailure'
  BY DEF Types, LinkTypes, WorkTypes, ActorInvariant, LinkInvariant, KeptInvariant,
      MismatchFollowsFailure, Actors, Token, Sync, Reasons
<1> QED
  BY <1>1, <1>2, <1>3, <1>4, <1>5, <1>6, <1>7, <1>8 DEF Types

LEMMA CloseKeeps ==
    ASSUME TransportInvariant, Close
    PROVE  TransportInvariant'
<1> USE Constants DEF TransportInvariant, Close, NoLink, beatVars
<1> PICK survivors \in SUBSET {h \in Heartbeats : Sync /\ pc[h] \notin {"off", "idle"}} :
        /\ pc' = [a \in Actors |-> IF a \in survivors THEN Behind(pc[a]) ELSE NoBeat[a]]
        /\ lock' = IF lock \in survivors THEN lock ELSE "nobody"
  OBVIOUS
<1>p. /\ pc' \in [Actors -> Phases]
      /\ pc'["user"] = "idle"
      /\ \A h \in Heartbeats : h \notin survivors => pc'[h] = "off"
      /\ \A h \in survivors : pc'[h] = Behind(pc[h]) /\ pc[h] \in Phases
  BY BehindAnotherSocket DEF Types, WorkTypes, NoBeat, Phases
<1>q. \A h \in survivors :
        /\ pc'[h] \in {"late", "due", "astray"} /\ Sync /\ client.beats
        /\ pc[h] \in {"reading", "astray"} <=> pc'[h] = "astray"
  <2> SUFFICES ASSUME NEW h \in survivors
               PROVE  /\ pc'[h] \in {"late", "due", "astray"} /\ Sync /\ client.beats
                      /\ pc[h] \in {"reading", "astray"} <=> pc'[h] = "astray"
    OBVIOUS
  <2>1. pc'[h] = Behind(pc[h]) /\ Sync /\ pc[h] \notin {"off", "idle"} /\ pc[h] \in Phases
    BY <1>p
  <2>2. pc[h] \notin {"calling", "backoff", "replace"} /\ client.beats
    BY <2>1 DEF ActorInvariant
  <2> QED
    BY <2>1, <2>2, BehindAnotherSocket DEF Phases
<1>1. ClientTypes'
  BY DEF Types, ClientTypes
<1>2. LinkTypes'
  BY DEF Types, LinkTypes, Reasons
<1>3. WorkTypes'
  BY <1>p DEF Types, WorkTypes
<1>4. LockInvariant'
  <2>1. \A a \in Actors : pc'[a] \in {"reading", "astray"} => lock' = a
    <3> SUFFICES ASSUME NEW a \in Actors, pc'[a] \in {"reading", "astray"}
                 PROVE  lock' = a
      OBVIOUS
    <3>1. a \in survivors
      BY <1>p
    <3>2. lock = a
      BY <1>q, <3>1 DEF LockInvariant
    <3> QED
      BY <3>1, <3>2
  <2>2. \A a \in Actors : lock' = a => pc'[a] \in {"reading", "astray"}
    <3> SUFFICES ASSUME lock' \in Actors
                 PROVE  pc'[lock'] \in {"reading", "astray"}
      OBVIOUS
    <3>1. lock' = lock /\ lock \in survivors
      OBVIOUS
    <3>2. pc[lock] \in {"reading", "astray"}
      BY <1>q, <3>1 DEF LockInvariant
    <3> QED
      BY <1>q, <3>1, <3>2
  <2>3. \A a \in Actors : pc'[a] # "backoff"
    BY <1>p, <1>q
  <2> QED
    BY <2>1, <2>2, <2>3 DEF LockInvariant
<1>5. ActorInvariant'
  BY <1>p, <1>q DEF Types, WorkTypes, ActorInvariant, Sync
<1>6. LinkInvariant'
  BY DEF LinkInvariant
<1>7. KeptInvariant'
  BY DEF Types, LinkTypes, WorkTypes, ActorInvariant, KeptInvariant, Actors, Sync
<1>8. MismatchFollowsFailure'
  BY DEF Types, LinkTypes, WorkTypes, ActorInvariant, LinkInvariant, KeptInvariant,
      MismatchFollowsFailure, Actors, Token, Sync, Reasons
<1> QED
  BY <1>1, <1>2, <1>3, <1>4, <1>5, <1>6, <1>7, <1>8 DEF Types

LEMMA CallKeeps ==
    ASSUME TransportInvariant, Call
    PROVE  TransportInvariant'
<1> USE Constants DEF TransportInvariant, Call, linkVars, beatVars
<1>1. ClientTypes'
  BY DEF Types, ClientTypes
<1>2. LinkTypes'
  BY DEF Types, LinkTypes, WorkTypes, ActorInvariant, Actors, Token, Reasons
<1>3. WorkTypes'
  BY DEF Types, LinkTypes, WorkTypes, ActorInvariant, Phases, Actors, Token
<1>4. LockInvariant'
  BY DEF Types, WorkTypes, LockInvariant, ActorInvariant, Actors, Sync
<1>5. ActorInvariant'
  BY DEF Types, WorkTypes, LockInvariant, ActorInvariant, Actors, Sync
<1>6. LinkInvariant'
  BY DEF Types, WorkTypes, LockInvariant, ActorInvariant, LinkInvariant, Actors,
      Token, Sync
<1>7. KeptInvariant'
  BY DEF Types, LinkTypes, WorkTypes, ActorInvariant, KeptInvariant, Actors, Sync
<1>8. MismatchFollowsFailure'
  BY DEF Types, LinkTypes, WorkTypes, ActorInvariant, LinkInvariant, KeptInvariant,
      MismatchFollowsFailure, Actors, Token, Sync, Reasons
<1> QED
  BY <1>1, <1>2, <1>3, <1>4, <1>5, <1>6, <1>7, <1>8 DEF Types

LEMMA SendKeeps ==
    ASSUME TransportInvariant, NEW a \in Actors, Send(a)
    PROVE  TransportInvariant'
<1> USE Constants DEF TransportInvariant, Send, Failed, Raise, GivesUp, Finish, Return, linkVars, beatVars
<1>1. ClientTypes'
  BY DEF Types, ClientTypes
<1>2. LinkTypes'
  <2>1. Token(a) \in Tokens
    BY DEF Types, WorkTypes, ActorInvariant, Actors, Token
  <2> QED
    BY <2>1 DEF Types, LinkTypes
<1>3. WorkTypes'
  <2>1. lock' \in Actors \cup {"nobody"} /\ call' = call
    BY DEF Types, WorkTypes
  <2>2. pc' \in [Actors -> Phases]
    BY DEF Types, WorkTypes, Phases
  <2>3. tries' \in [Actors -> 0..MaxRetries]
    BY DEF Types, WorkTypes
  <2>4. answers' \in [Calls -> Outcomes]
    BY DEF Types, WorkTypes
  <2> QED
    BY <2>1, <2>2, <2>3, <2>4 DEF Types, WorkTypes
<1>4. LockInvariant'
  BY DEF Types, WorkTypes, LockInvariant, ActorInvariant, Actors, Sync
<1>5. ActorInvariant'
  <2>1. CASE ~open
    <3>1. client.worker => a = "user"
      BY DEF Types, ClientTypes, ActorInvariant
    <3>2. a \in Heartbeats => ~Sync /\ client.beats
      BY DEF ActorInvariant
    <3>3. pc' = [pc EXCEPT ![a] = pc'[a]] /\ pc'[a] \in {"idle", "backoff", "replace"}
      BY <2>1 DEF Types, WorkTypes
    <3>4. pc'[a] = "replace" => client.worker
      BY <2>1 DEF Types, WorkTypes
    <3>5. pc'[a] = "backoff" => tries[a] < MaxRetries /\ tries' = tries
      BY <2>1 DEF Types, WorkTypes
    <3>6. pc'["user"] # "idle" => answers' = answers /\ pc["user"] # "idle"
      BY <2>1, <3>3 DEF Types, WorkTypes
    <3>7. \A b \in Actors : b # a => tries'[b] = tries[b]
      BY <2>1 DEF Types, WorkTypes
    <3> QED
      BY <3>1, <3>2, <3>3, <3>4, <3>5, <3>6, <3>7 DEF Types, WorkTypes, ActorInvariant, Sync
  <2>2. CASE open
    BY <2>2 DEF Types, WorkTypes, ActorInvariant, Actors, Sync
  <2> QED
    BY <2>1, <2>2
<1>6. LinkInvariant'
  <2>1. \A b \in Actors : pc[b] # "reading"
    BY DEF LockInvariant, Actors
  <2>2. CASE ~open
    <3>1. \A b \in Actors : pc'[b] # "reading"
      BY <2>1, <2>2 DEF Types, WorkTypes, Actors
    <3> QED
      BY <2>1, <2>2, <3>1 DEF LinkInvariant
  <2>3. CASE open
    <3>1. \A b \in Actors : pc'[b] = "reading" => b = a
      BY <2>1, <2>3 DEF Types, WorkTypes, Actors
    <3>2. left = {} /\ alive => unread' = <<Token(a)>>
      BY <2>1, <2>3 DEF LinkInvariant
    <3>3. Token(a)' = Token(a) /\ pc'[a] = "reading"
      BY <2>3 DEF Types, WorkTypes, Token
    <3> QED
      BY <2>3, <3>1, <3>2, <3>3 DEF LinkInvariant
  <2> QED
    BY <2>2, <2>3
<1>7. KeptInvariant'
  BY DEF Types, LinkTypes, WorkTypes, ActorInvariant, KeptInvariant, Actors, Sync
<1>8. MismatchFollowsFailure'
  BY DEF Types, LinkTypes, WorkTypes, ActorInvariant, LinkInvariant, KeptInvariant,
      MismatchFollowsFailure, Actors, Token, Sync, Reasons
<1> QED
  BY <1>1, <1>2, <1>3, <1>4, <1>5, <1>6, <1>7, <1>8 DEF Types

LEMMA ReceiveKeeps ==
    ASSUME TransportInvariant, NEW a \in Actors, Receive(a)
    PROVE  TransportInvariant'
<1> USE Constants DEF TransportInvariant, Receive, Finish, Return, Requests, beatVars
<1>1. ClientTypes'
  BY DEF Types, ClientTypes
<1>2. LinkTypes'
  BY DEF Types, LinkTypes, WorkTypes, ActorInvariant, Actors, Token, Reasons
<1>3. WorkTypes'
  BY DEF Types, LinkTypes, WorkTypes, ActorInvariant, Phases, Actors, Token
<1>4. LockInvariant'
  BY DEF Types, WorkTypes, LockInvariant, ActorInvariant, Actors, Sync
<1>5. ActorInvariant'
  BY DEF Types, WorkTypes, LockInvariant, ActorInvariant, Actors, Sync
<1>6. LinkInvariant'
  <2>1. \A b \in Actors : pc'[b] # "reading"
    BY DEF Types, WorkTypes, LockInvariant, Actors
  <2>2. left = {} => unread = <<Token(a)>>
    BY DEF LinkInvariant
  <2>3. left' = {} => unread' = <<>>
    BY <2>2, TailOfOne
  <2> QED
    BY <2>1, <2>3 DEF LinkInvariant
<1>7. KeptInvariant'
  BY DEF Types, LinkTypes, WorkTypes, ActorInvariant, KeptInvariant, Actors, Sync
<1>8. MismatchFollowsFailure'
  BY DEF Types, LinkTypes, WorkTypes, ActorInvariant, LinkInvariant, KeptInvariant,
      MismatchFollowsFailure, Actors, Token, Sync, Reasons
<1> QED
  BY <1>1, <1>2, <1>3, <1>4, <1>5, <1>6, <1>7, <1>8 DEF Types

LEMMA LoseAnswerKeeps ==
    ASSUME TransportInvariant, NEW a \in Actors, LoseAnswer(a)
    PROVE  TransportInvariant'
<1> USE Constants DEF TransportInvariant, LoseAnswer, NoLink, LeaveUnread, Requests, Failed, Raise,
          GivesUp, Finish, Return, beatVars
<1>1. ClientTypes'
  BY DEF Types, ClientTypes
<1>2. LinkTypes'
  BY DEF Types, LinkTypes, WorkTypes, ActorInvariant, Actors, Token, Reasons
<1>3. WorkTypes'
  <2>1. lock' \in Actors \cup {"nobody"} /\ call' = call
    BY DEF Types, WorkTypes
  <2>2. pc' \in [Actors -> Phases]
    BY DEF Types, WorkTypes, Phases
  <2>3. tries' \in [Actors -> 0..MaxRetries]
    BY DEF Types, WorkTypes
  <2>4. answers' \in [Calls -> Outcomes]
    BY DEF Types, WorkTypes
  <2> QED
    BY <2>1, <2>2, <2>3, <2>4 DEF Types, WorkTypes
<1>4. LockInvariant'
  BY DEF Types, WorkTypes, LockInvariant, ActorInvariant, Actors, Sync
<1>5. ActorInvariant'
  <2>1. client.worker => a = "user"
    BY DEF Types, ClientTypes, ActorInvariant, Actors
  <2>2. a \in Heartbeats => ~Sync
    BY DEF Actors
  <2>3. pc' = [pc EXCEPT ![a] = pc'[a]] /\ pc'[a] \in {"idle", "backoff", "replace"}
    BY DEF Types, WorkTypes
  <2>4. pc'[a] = "replace" => client.worker
    BY DEF Types, WorkTypes
  <2>5. pc'[a] = "backoff" => tries[a] < MaxRetries /\ tries' = tries
    BY DEF Types, WorkTypes
  <2> QED
    BY <2>1, <2>2, <2>3, <2>4, <2>5 DEF Types, WorkTypes, ActorInvariant, Actors, Sync
<1>6. LinkInvariant'
  BY DEF Types, WorkTypes, LockInvariant, ActorInvariant, LinkInvariant, Actors,
      Token, Sync
<1>7. KeptInvariant'
  BY DEF Types, LinkTypes, WorkTypes, ActorInvariant, KeptInvariant, Actors, Sync
<1>8. MismatchFollowsFailure'
  BY DEF Types, LinkTypes, WorkTypes, ActorInvariant, LinkInvariant, KeptInvariant,
      MismatchFollowsFailure, Actors, Token, Sync, Reasons
<1> QED
  BY <1>1, <1>2, <1>3, <1>4, <1>5, <1>6, <1>7, <1>8 DEF Types

LEMMA ReconnectKeeps ==
    ASSUME TransportInvariant, NEW a \in Actors, Reconnect(a)
    PROVE  TransportInvariant'
<1> USE Constants DEF TransportInvariant, beatVars
<1>a. pc[a] = "backoff" /\ (~Sync => lock = a) /\ UNCHANGED <<client, up, outages, call>>
  BY DEF LockInvariant, Reconnect
<1>b. a \in Heartbeats => ~Sync /\ client.beats /\ ~client.worker
  BY <1>a DEF Types, ClientTypes, ActorInvariant
<1>c. FreshLink \/ NoLink
  BY DEF Reconnect
(* A heartbeat has at most been started. *)
<1>d. /\ pc' \in [Actors -> Phases] /\ pc'[a] \in {"calling", "idle", "replace"}
      /\ Sync => \A h \in Heartbeats : pc'[h] = "off" \/ (client.beats /\ pc'[h] = "idle")
      /\ ~Sync => \A b \in Actors : b # a => pc'[b] = pc[b]
      /\ pc'[a] = "replace" => client.worker
      /\ pc'[a] = "calling" => lock' = (IF Sync THEN "nobody" ELSE lock) /\ answers' = answers
      /\ pc'[a] # "calling" => lock' = "nobody"
  <2>1. CASE up /\ Sync
    <3> DEFINE p == [b \in Actors |-> IF b = a THEN "calling" ELSE NoBeat[b]]
    <3>1. a = "user"
      BY <1>b, <2>1
    <3>2. p \in [Actors -> Phases] /\ p["user"] = "calling" /\ \A h \in Heartbeats : p[h] = "off"
      BY <3>1 DEF Types, WorkTypes, NoBeat, Phases
    <3>3. StartBeat(p) /\ lock' = "nobody" /\ answers' = answers
      BY <2>1 DEF Reconnect
    <3> HIDE DEF p
    <3> QED
      BY <2>1, <3>1, <3>2, <3>3, BeatsStarted
  <2>2. CASE up /\ ~Sync
    BY <2>2 DEF Reconnect, Types, WorkTypes, Phases
  <2>3. CASE ~up /\ Sync
    <3>1. a = "user"
      BY <1>b, <2>3
    <3>2. /\ NoBeat \in [Actors -> Phases]
          /\ \A h \in Heartbeats : NoBeat[h] = "off"
      BY DEF Types, WorkTypes, NoBeat, Phases
    <3>3. Raise(a, NoBeat)
      BY <2>3 DEF Reconnect
    <3> QED
      BY <2>3, <3>1, <3>2, <3>3 DEF Raise, Return, Phases
  <2>4. CASE ~up /\ ~Sync
    BY <2>4 DEF Reconnect, Raise, Return, Types, WorkTypes, Phases
  <2> QED
    BY <2>1, <2>2, <2>3, <2>4
<1>e. /\ tries' \in [Actors -> 0..MaxRetries]
      /\ \A b \in Actors : b # a => tries'[b] = tries[b]
      /\ answers' = answers \/ (a = "user" /\ answers' = [answers EXCEPT ![call] = "error"]
                                /\ pc'[a] = "idle")
  <2>1. tries[a] + 1 \in 0..MaxRetries /\ 0 \in 0..MaxRetries
    BY <1>a DEF Types, WorkTypes, ActorInvariant
  <2>2. tries \in [Actors -> 0..MaxRetries]
    BY DEF Types, WorkTypes
  <2>3. CASE up
    BY <2>1, <2>2, <2>3 DEF Reconnect
  <2>4. CASE ~up
    <3>1. Raise(a, IF Sync THEN NoBeat ELSE pc)
      BY <2>4 DEF Reconnect
    <3>2. NoBeat \in [Actors -> Phases] /\ pc \in [Actors -> Phases]
      BY DEF Types, WorkTypes, NoBeat, Phases
    <3> QED
      BY <2>1, <2>2, <3>1, <3>2 DEF Raise, Return
  <2> QED
    BY <2>3, <2>4
<1>1. ClientTypes'
  <2>1. (recent' = TRUE /\ beats' = 0) \/ UNCHANGED <<recent, beats>>
    BY DEF Reconnect
  <2> QED
    BY <1>a, <2>1 DEF Types, ClientTypes
<1>2. LinkTypes'
  BY <1>c DEF Types, LinkTypes, FreshLink, NoLink, Reasons
<1>3. WorkTypes'
  <2>1. lock' \in Actors \cup {"nobody"} /\ call' = call
    BY <1>a, <1>d DEF Types, WorkTypes
  <2>2. answers' \in [Calls -> Outcomes]
    BY <1>e DEF Types, WorkTypes
  <2> QED
    BY <1>d, <1>e, <2>1, <2>2 DEF Types, WorkTypes
<1>4. LockInvariant'
  <2>1. CASE Sync
    BY <1>a, <1>b, <1>d, <2>1 DEF LockInvariant, Sync
  <2>2. CASE ~Sync
    BY <1>a, <1>d, <2>2 DEF LockInvariant, Sync
  <2> QED
    BY <2>1, <2>2
<1>5. ActorInvariant'
  <2>1. \A h \in Heartbeats :
          /\ pc'[h] # "replace"
          /\ ~client.beats => pc'[h] = "off"
          /\ Sync => pc'[h] \notin {"calling", "backoff"}
          /\ ~Sync => pc'[h] \notin {"late", "due", "astray"}
    BY <1>b, <1>d DEF ActorInvariant
  <2>2. pc'["user"] \notin {"off", "late", "due", "astray"}
    BY <1>b, <1>d DEF ActorInvariant
  <2>3. \A b \in Actors : pc'[b] = "backoff" => tries'[b] < MaxRetries
    BY <1>b, <1>d, <1>e DEF ActorInvariant
  <2>4. pc'["user"] # "idle" => pc["user"] # "idle" /\ answers' = answers
    BY <1>a, <1>b, <1>d, <1>e
  <2>5. pc'["user"] = "replace" => client.worker
    BY <1>b, <1>d DEF ActorInvariant
  <2> QED
    BY <1>a, <2>1, <2>2, <2>3, <2>4, <2>5 DEF ActorInvariant, Sync
<1>6. LinkInvariant'
  <2>1. \A b \in Actors : pc'[b] # "reading"
    BY <1>a, <1>b, <1>d DEF LockInvariant
  <2> QED
    BY <1>c, <2>1 DEF LinkInvariant, FreshLink, NoLink
<1>7. KeptInvariant'
  BY <1>c DEF KeptInvariant, FreshLink, NoLink
<1>8. MismatchFollowsFailure'
  <2>1. ever \subseteq ever'
    BY <1>c DEF FreshLink, NoLink
  <2>2. answers' = answers \/ \E c \in Calls : answers'[c] = "error"
    BY <1>a, <1>e DEF ActorInvariant, Types, WorkTypes
  <2> QED
    BY <2>1, <2>2 DEF MismatchFollowsFailure
<1> QED
  BY <1>1, <1>2, <1>3, <1>4, <1>5, <1>6, <1>7, <1>8 DEF Types

LEMMA ReplaceKeeps ==
    ASSUME TransportInvariant, Replace
    PROVE  TransportInvariant'
<1> USE Constants DEF TransportInvariant, Replace, NoLink, Finish, Return, linkVars, beatVars
<1>0. \/ UNCHANGED linkVars /\ (answers' = [answers EXCEPT ![call] = call]
                               \/ answers' = [answers EXCEPT ![call] = "error"])
      \/ /\ left' = {"handshake"} /\ ever' = ever \cup {"handshake"}
         /\ open' = TRUE /\ alive' = TRUE /\ unread' = <<call>>
         /\ answers' = [answers EXCEPT ![call] = "setup"]
      \/ /\ left' = {} /\ ever' = ever /\ open' = TRUE /\ alive' = TRUE /\ unread' = <<>>
         /\ answers' = [answers EXCEPT ![call] = call]
      \/ /\ left' = {"kept"} /\ ever' = ever \cup {"kept"}
         /\ open' = TRUE /\ alive' = TRUE /\ unread' = <<call>>
         /\ answers' = [answers EXCEPT ![call] = "error"]
      \/ /\ left' = {} /\ ever' = ever /\ open' = FALSE /\ alive' = FALSE /\ unread' = <<>>
         /\ answers' = [answers EXCEPT ![call] = "error"]
  <2>1. \A x : Return("user", x) => answers' = [answers EXCEPT ![call] = x]
    OBVIOUS
  <2> HIDE DEF Return
  <2>2. CASE UNCHANGED linkVars /\ \E outcome \in {call, "error"} : Return("user", outcome)
    BY <2>1, <2>2
  <2>3. CASE Sync /\ up
    <3>1. CASE client.lateHandshake
      BY <2>1, <2>3, <3>1, TailOfTwo
    <3>2. CASE ~client.lateHandshake
      <4>1. ever \cup {} = ever
        OBVIOUS
      <4> QED
        BY <2>1, <2>3, <3>2, <4>1, TailOfOne
    <3> QED
      BY <3>1, <3>2
  <2>4. CASE Sync /\ NoLink
    BY <2>1, <2>4
  <2> QED
    BY <2>2, <2>3, <2>4
<1>1. ClientTypes'
  BY DEF Types, ClientTypes
<1>2. LinkTypes'
  <2>1. <<call>> \in Seq(Tokens)
    BY DEF ActorInvariant
  <2> QED
    BY <1>0, <2>1 DEF Types, LinkTypes, Reasons
<1>3. WorkTypes'
  <2>1. lock' \in Actors \cup {"nobody"} /\ call' = call
    BY DEF Types, WorkTypes
  <2>2. pc' \in [Actors -> Phases]
    BY DEF Types, WorkTypes, Phases
  <2>3. tries' \in [Actors -> 0..MaxRetries]
    BY DEF Types, WorkTypes
  <2>4. answers' \in [Calls -> Outcomes]
    BY DEF Types, WorkTypes
  <2> QED
    BY <2>1, <2>2, <2>3, <2>4 DEF Types, WorkTypes
<1>4. LockInvariant'
  <2>1. \A h \in Heartbeats : pc[h] = "off"
    BY DEF Types, ClientTypes, ActorInvariant
  <2>2. pc' = [pc EXCEPT !["user"] = "idle"] /\ lock' = "nobody"
    OBVIOUS
  <2> QED
    BY <2>1, <2>2 DEF Types, WorkTypes, LockInvariant, Actors, Sync
<1>5. ActorInvariant'
  BY DEF Types, WorkTypes, LockInvariant, ActorInvariant, Actors, Sync
<1>6. LinkInvariant'
  <2>1. \A b \in Actors : pc'[b] # "reading"
    BY DEF Types, ClientTypes, WorkTypes, ActorInvariant, Actors
  <2>2. \A b \in Actors : pc[b] # "reading"
    BY DEF Types, ClientTypes, WorkTypes, ActorInvariant, Actors
  <2> QED
    BY <1>0, <2>1, <2>2 DEF LinkInvariant
<1>7. KeptInvariant'
  BY DEF Types, LinkTypes, WorkTypes, ActorInvariant, KeptInvariant, Actors, Sync
<1>8. MismatchFollowsFailure'
  <2>1. call \in Calls /\ answers[call] = "none"
    BY DEF ActorInvariant
  <2> SUFFICES ASSUME ever' \cap {"handshake", "cancelled", "stray"} = {},
                      \A c \in Calls : answers'[c] # "error"
               PROVE  \A c \in Calls : answers'[c] # "none" => answers'[c] = c
    BY DEF MismatchFollowsFailure
  <2>2. answers' = [answers EXCEPT ![call] = call] /\ ever' = ever
    BY <1>0, <2>1 DEF Types, WorkTypes
  <2>3. \A c \in Calls : answers[c] # "error"
    BY <2>1, <2>2 DEF Types, WorkTypes
  <2> QED
    BY <2>1, <2>2, <2>3 DEF MismatchFollowsFailure, Types, WorkTypes
<1> QED
  BY <1>1, <1>2, <1>3, <1>4, <1>5, <1>6, <1>7, <1>8 DEF Types

LEMMA CancelKeeps ==
    ASSUME TransportInvariant, Cancel
    PROVE  TransportInvariant'
<1> USE Constants DEF TransportInvariant, Cancel, NoLink, LeaveUnread, linkVars, beatVars
<1>1. ClientTypes'
  BY DEF Types, ClientTypes
<1>2. LinkTypes'
  BY DEF Types, LinkTypes, WorkTypes, ActorInvariant, Actors, Token, Reasons
<1>3. WorkTypes'
  BY DEF Types, LinkTypes, WorkTypes, ActorInvariant, Phases, Actors, Token
<1>4. LockInvariant'
  BY DEF Types, WorkTypes, LockInvariant, ActorInvariant, Actors, Sync
<1>5. ActorInvariant'
  BY DEF Types, WorkTypes, LockInvariant, ActorInvariant, Actors, Sync
<1>6. LinkInvariant'
  BY DEF Types, WorkTypes, LockInvariant, ActorInvariant, LinkInvariant, Actors,
      Token, Sync
<1>7. KeptInvariant'
  BY DEF Types, LinkTypes, WorkTypes, ActorInvariant, KeptInvariant, Actors, Sync
<1>8. MismatchFollowsFailure'
  BY DEF Types, LinkTypes, WorkTypes, ActorInvariant, LinkInvariant, KeptInvariant,
      MismatchFollowsFailure, Actors, Token, Sync, Reasons
<1> QED
  BY <1>1, <1>2, <1>3, <1>4, <1>5, <1>6, <1>7, <1>8 DEF Types

LEMMA WakeKeeps ==
    ASSUME TransportInvariant, NEW h \in Heartbeats, Wake(h)
    PROVE  TransportInvariant'
<1> USE Constants DEF TransportInvariant, Wake, linkVars
<1>1. ClientTypes'
  BY DEF Types, ClientTypes
<1>2. LinkTypes'
  BY DEF Types, LinkTypes, WorkTypes, ActorInvariant, Actors, Token, Reasons
<1>3. WorkTypes'
  BY DEF Types, LinkTypes, WorkTypes, ActorInvariant, Phases, Actors, Token
<1>4. LockInvariant'
  BY DEF Types, WorkTypes, LockInvariant, ActorInvariant, Actors, Sync
<1>5. ActorInvariant'
  BY DEF Types, WorkTypes, LockInvariant, ActorInvariant, Actors, Sync
<1>6. LinkInvariant'
  BY DEF Types, WorkTypes, LockInvariant, ActorInvariant, LinkInvariant, Actors,
      Token, Sync
<1>7. KeptInvariant'
  BY DEF Types, LinkTypes, WorkTypes, ActorInvariant, KeptInvariant, Actors, Sync
<1>8. MismatchFollowsFailure'
  BY DEF Types, LinkTypes, WorkTypes, ActorInvariant, LinkInvariant, KeptInvariant,
      MismatchFollowsFailure, Actors, Token, Sync, Reasons
<1> QED
  BY <1>1, <1>2, <1>3, <1>4, <1>5, <1>6, <1>7, <1>8 DEF Types

LEMMA BeatKeeps ==
    ASSUME TransportInvariant, NEW h \in Heartbeats, Beat(h)
    PROVE  TransportInvariant'
<1> USE Constants DEF TransportInvariant, Beat, NoLink, linkVars
<1>1. ClientTypes'
  BY DEF Types, ClientTypes
<1>2. LinkTypes'
  <2>1. Append(unread, "beat") \in Seq(Tokens)
    BY DEF Types, LinkTypes
  <2> QED
    BY <2>1 DEF Types, LinkTypes
<1>3. WorkTypes'
  BY DEF Types, LinkTypes, WorkTypes, ActorInvariant, Phases, Actors, Token
<1>4. LockInvariant'
  BY DEF Types, WorkTypes, LockInvariant, ActorInvariant, Actors, Sync
<1>5. ActorInvariant'
  BY DEF Types, WorkTypes, LockInvariant, ActorInvariant, Actors, Sync
<1>6. LinkInvariant'
  <2>1. \A b \in Actors : pc[b] # "reading"
    BY DEF LockInvariant, Actors
  <2>2. left = {} /\ alive => unread = <<>>
    BY <2>1 DEF LinkInvariant
  <2>3. \A b \in Actors : pc'[b] = "reading" => b = h
    BY <2>1 DEF Types, WorkTypes, Actors
  <2>4. CASE NoLink /\ pc'[h] # "reading"
    BY <2>3, <2>4 DEF LinkInvariant
  <2>5. CASE UNCHANGED linkVars /\ pc'[h] # "reading"
    BY <2>2, <2>3, <2>5 DEF LinkInvariant
  <2>6. CASE unread' = Append(unread, "beat") /\ UNCHANGED <<alive, left>>
            /\ pc'[h] = "reading"
    <3>1. left' = {} /\ alive' => unread' = <<"beat">>
      BY <2>2, <2>6
    <3> QED
      BY <2>3, <2>6, <3>1 DEF LinkInvariant, Token
  <2> QED
    BY <2>4, <2>5, <2>6 DEF Types, WorkTypes, Actors
<1>7. KeptInvariant'
  BY DEF Types, LinkTypes, WorkTypes, ActorInvariant, KeptInvariant, Actors, Sync
<1>8. MismatchFollowsFailure'
  BY DEF Types, LinkTypes, WorkTypes, ActorInvariant, LinkInvariant, KeptInvariant,
      MismatchFollowsFailure, Actors, Token, Sync, Reasons
<1> QED
  BY <1>1, <1>2, <1>3, <1>4, <1>5, <1>6, <1>7, <1>8 DEF Types

LEMMA BeatLostKeeps ==
    ASSUME TransportInvariant, NEW h \in Heartbeats, BeatLost(h)
    PROVE  TransportInvariant'
<1> USE Constants DEF TransportInvariant, BeatLost, NoLink, linkVars, beatVars
<1>1. ClientTypes'
  BY DEF Types, ClientTypes
<1>2. LinkTypes'
  BY DEF Types, LinkTypes, WorkTypes, ActorInvariant, Actors, Token, Reasons
<1>3. WorkTypes'
  BY DEF Types, LinkTypes, WorkTypes, ActorInvariant, Phases, Actors, Token
<1>4. LockInvariant'
  BY DEF Types, WorkTypes, LockInvariant, ActorInvariant, Actors, Sync
<1>5. ActorInvariant'
  BY DEF Types, WorkTypes, LockInvariant, ActorInvariant, Actors, Sync
<1>6. LinkInvariant'
  BY DEF Types, WorkTypes, LockInvariant, ActorInvariant, LinkInvariant, Actors,
      Token, Sync
<1>7. KeptInvariant'
  BY DEF Types, LinkTypes, WorkTypes, ActorInvariant, KeptInvariant, Actors, Sync
<1>8. MismatchFollowsFailure'
  BY DEF Types, LinkTypes, WorkTypes, ActorInvariant, LinkInvariant, KeptInvariant,
      MismatchFollowsFailure, Actors, Token, Sync, Reasons
<1> QED
  BY <1>1, <1>2, <1>3, <1>4, <1>5, <1>6, <1>7, <1>8 DEF Types

LEMMA BeatAnsweredKeeps ==
    ASSUME TransportInvariant, NEW h \in Heartbeats, BeatAnswered(h)
    PROVE  TransportInvariant'
<1> USE Constants DEF TransportInvariant, BeatAnswered, beatVars
<1>1. ClientTypes'
  BY DEF Types, ClientTypes
<1>2. LinkTypes'
  BY DEF Types, LinkTypes, WorkTypes, ActorInvariant, Actors, Token, Reasons
<1>3. WorkTypes'
  BY DEF Types, LinkTypes, WorkTypes, ActorInvariant, Phases, Actors, Token
<1>4. LockInvariant'
  BY DEF Types, WorkTypes, LockInvariant, ActorInvariant, Actors, Sync
<1>5. ActorInvariant'
  BY DEF Types, WorkTypes, LockInvariant, ActorInvariant, Actors, Sync
<1>6. LinkInvariant'
  <2>1. \A b \in Actors : pc'[b] # "reading"
    BY DEF Types, WorkTypes, LockInvariant, Actors
  <2>2. left = {} => unread = <<Token(h)>>
    BY DEF LinkInvariant, Actors
  <2>3. left' = {} => unread' = <<>>
    BY <2>2, TailOfOne
  <2> QED
    BY <2>1, <2>3 DEF LinkInvariant
<1>7. KeptInvariant'
  BY DEF Types, LinkTypes, WorkTypes, ActorInvariant, KeptInvariant, Actors, Sync
<1>8. MismatchFollowsFailure'
  BY DEF Types, LinkTypes, WorkTypes, ActorInvariant, LinkInvariant, KeptInvariant,
      MismatchFollowsFailure, Actors, Token, Sync, Reasons
<1> QED
  BY <1>1, <1>2, <1>3, <1>4, <1>5, <1>6, <1>7, <1>8 DEF Types

LEMMA StrayKeeps ==
    ASSUME TransportInvariant, NEW h \in Heartbeats, Stray(h)
    PROVE  TransportInvariant'
<1> USE Constants DEF TransportInvariant, Stray, NoLink, linkVars, beatVars
<1>1. ClientTypes'
  BY DEF Types, ClientTypes
<1>2. LinkTypes'
  <2>1. unread # <<>> => Tail(unread) \in Seq(Tokens)
    BY DEF Types, LinkTypes
  <2> QED
    BY <2>1 DEF Types, LinkTypes, Reasons
<1>3. WorkTypes'
  BY DEF Types, WorkTypes, Phases
<1>4. LockInvariant'
  BY DEF Types, WorkTypes, LockInvariant, ActorInvariant, Actors, Sync
<1>5. ActorInvariant'
  BY DEF Types, WorkTypes, ActorInvariant, Actors, Sync
<1>6. LinkInvariant'
  <2>1. \A b \in Actors : pc[b] # "reading" /\ pc'[b] # "reading"
    BY DEF Types, WorkTypes, LockInvariant
  <2>2. left' = {} => (UNCHANGED linkVars) \/ NoLink
    OBVIOUS
  <2> QED
    BY <2>1, <2>2 DEF LinkInvariant
<1>7. KeptInvariant'
  BY DEF Types, LinkTypes, WorkTypes, ActorInvariant, KeptInvariant, Actors, Sync
<1>8. MismatchFollowsFailure'
  BY DEF Types, LinkTypes, WorkTypes, ActorInvariant, LinkInvariant, KeptInvariant,
      MismatchFollowsFailure, Actors, Token, Sync, Reasons
<1> QED
  BY <1>1, <1>2, <1>3, <1>4, <1>5, <1>6, <1>7, <1>8 DEF Types

LEMMA GoAwayKeeps ==
    ASSUME TransportInvariant, GoAway
    PROVE  TransportInvariant'
<1> USE Constants DEF TransportInvariant, GoAway, workVars, beatVars
<1>1. ClientTypes'
  BY DEF Types, ClientTypes
<1>2. LinkTypes'
  BY DEF Types, LinkTypes, WorkTypes, ActorInvariant, Actors, Token, Reasons
<1>3. WorkTypes'
  BY DEF Types, LinkTypes, WorkTypes, ActorInvariant, Phases, Actors, Token
<1>4. LockInvariant'
  BY DEF Types, WorkTypes, LockInvariant, ActorInvariant, Actors, Sync
<1>5. ActorInvariant'
  BY DEF Types, WorkTypes, LockInvariant, ActorInvariant, Actors, Sync
<1>6. LinkInvariant'
  BY DEF Types, WorkTypes, LockInvariant, ActorInvariant, LinkInvariant, Actors,
      Token, Sync
<1>7. KeptInvariant'
  BY DEF Types, LinkTypes, WorkTypes, ActorInvariant, KeptInvariant, Actors, Sync
<1>8. MismatchFollowsFailure'
  BY DEF Types, LinkTypes, WorkTypes, ActorInvariant, LinkInvariant, KeptInvariant,
      MismatchFollowsFailure, Actors, Token, Sync, Reasons
<1> QED
  BY <1>1, <1>2, <1>3, <1>4, <1>5, <1>6, <1>7, <1>8 DEF Types

LEMMA ComeBackKeeps ==
    ASSUME TransportInvariant, ComeBack
    PROVE  TransportInvariant'
<1> USE Constants DEF TransportInvariant, ComeBack, linkVars, workVars, beatVars
<1>1. ClientTypes'
  BY DEF Types, ClientTypes
<1>2. LinkTypes'
  BY DEF Types, LinkTypes, WorkTypes, ActorInvariant, Actors, Token, Reasons
<1>3. WorkTypes'
  BY DEF Types, LinkTypes, WorkTypes, ActorInvariant, Phases, Actors, Token
<1>4. LockInvariant'
  BY DEF Types, WorkTypes, LockInvariant, ActorInvariant, Actors, Sync
<1>5. ActorInvariant'
  BY DEF Types, WorkTypes, LockInvariant, ActorInvariant, Actors, Sync
<1>6. LinkInvariant'
  BY DEF Types, WorkTypes, LockInvariant, ActorInvariant, LinkInvariant, Actors,
      Token, Sync
<1>7. KeptInvariant'
  BY DEF Types, LinkTypes, WorkTypes, ActorInvariant, KeptInvariant, Actors, Sync
<1>8. MismatchFollowsFailure'
  BY DEF Types, LinkTypes, WorkTypes, ActorInvariant, LinkInvariant, KeptInvariant,
      MismatchFollowsFailure, Actors, Token, Sync, Reasons
<1> QED
  BY <1>1, <1>2, <1>3, <1>4, <1>5, <1>6, <1>7, <1>8 DEF Types

-----------------------------------------------------------------------------
LEMMA StepHolds == TransportInvariant /\ [Next]_vars => TransportInvariant'
<1> SUFFICES ASSUME TransportInvariant, [Next]_vars PROVE TransportInvariant'
  OBVIOUS
<1>1. CASE Connect \/ ConnectFails \/ ConnectAsync \/ ConnectAgain \/ Close \/ Call
  BY <1>1, ConnectKeeps, ConnectFailsKeeps, ConnectAsyncKeeps, ConnectAgainKeeps,
     CloseKeeps, CallKeeps
<1>2. ASSUME NEW a \in Actors, Execute(a)
      PROVE  TransportInvariant'
  BY <1>2, SendKeeps, ReceiveKeeps, LoseAnswerKeeps, ReconnectKeeps DEF Execute
<1>3. CASE Replace \/ Cancel
  BY <1>3, ReplaceKeeps, CancelKeeps
<1>4. ASSUME NEW h \in Heartbeats, Wake(h) \/ Heartbeat(h)
      PROVE  TransportInvariant'
  BY <1>4, WakeKeeps, BeatKeeps, BeatLostKeeps, BeatAnsweredKeeps, StrayKeeps DEF Heartbeat
<1>5. CASE GoAway \/ ComeBack
  BY <1>5, GoAwayKeeps, ComeBackKeeps
<1>6. CASE UNCHANGED vars
  BY <1>6 DEF vars, linkVars, workVars, beatVars, TransportInvariant, Types, ClientTypes,
     LinkTypes, WorkTypes, LockInvariant, ActorInvariant, LinkInvariant, KeptInvariant,
     MismatchFollowsFailure, Token, Sync
<1> QED
  BY <1>1, <1>2, <1>3, <1>4, <1>5, <1>6 DEF Next

(* The inductive invariant: requests are serial, and nothing is unread but what a reason
   in left explains. *)
THEOREM InvariantHolds == Spec => []TransportInvariant
<1> QED
  BY InitHolds, StepHolds, PTL DEF Spec

(* All variables stay within their types. *)
THEOREM TypeCorrect == Spec => []TypeOK
<1>1. TransportInvariant => TypeOK
  BY DEF TransportInvariant, Types, ClientTypes, LinkTypes, WorkTypes, Phases, TypeOK
<1> QED
  BY <1>1, InvariantHolds, PTL

(* As long as no call has failed before its user, all calls got their own answers:
   connections are replaced under them without their noticing. *)
THEOREM NoMismatchWithoutFailure == Spec => []MismatchFollowsFailure
<1>1. TransportInvariant => MismatchFollowsFailure
  BY DEF TransportInvariant
<1> QED
  BY <1>1, InvariantHolds, PTL

(* On a connection on which nothing was left unread, a call returns its own answer. *)
THEOREM CleanLinksMatch == Spec => CleanLinkAnswersMatch
<1> DEFINE Matches ==
      \A c \in Calls :
          answers'[c] # answers[c] /\ answers'[c] \in Tokens /\ left = {} /\ left' = {} =>
              answers'[c] = c
<1>1. TransportInvariant /\ [Next]_vars => [Matches]_vars
  <2> SUFFICES ASSUME TransportInvariant, Next,
                      NEW c \in Calls, answers'[c] # answers[c], answers'[c] \in Tokens,
                      left = {}, left' = {}
               PROVE  answers'[c] = c
    BY DEF vars
  <2> USE Constants DEF TransportInvariant, Types, WorkTypes, ActorInvariant
  <2>1. ASSUME NEW a \in Actors, Receive(a)
        PROVE  answers'[c] = c
    <3>1. a = "user" /\ c = call /\ answers'[c] = Head(unread)
      BY <2>1 DEF Receive, Finish, Return, Actors
    <3>2. unread = <<call>>
      BY <2>1, <3>1 DEF LinkInvariant, Receive, Token, Actors
    <3> QED
      BY <3>1, <3>2
  <2>2. CASE Replace
    BY <2>2 DEF Replace, Finish, Return, NoLink
  <2>3. ASSUME NEW a \in Actors, Send(a) \/ LoseAnswer(a) \/ Reconnect(a)
        PROVE  answers'[c] \notin Tokens
    BY <2>3 DEF Send, LoseAnswer, Reconnect, Failed, Raise, Return
  <2>4. CASE \/ Connect \/ ConnectFails \/ ConnectAsync \/ ConnectAgain \/ Close \/ Call
             \/ Cancel \/ GoAway \/ ComeBack
    BY <2>4 DEF Connect, ConnectFails, ConnectAsync, ConnectAgain, Close, Call, Cancel,
       GoAway, ComeBack
  <2>5. ASSUME NEW h \in Heartbeats, Wake(h) \/ Heartbeat(h)
        PROVE  answers' = answers
    BY <2>5 DEF Wake, Heartbeat, Beat, BeatLost, BeatAnswered, Stray
  <2> QED
    BY <2>1, <2>2, <2>3, <2>4, <2>5 DEF Next, Execute
<1> QED
  BY <1>1, InvariantHolds, PTL DEF Spec, CleanLinkAnswersMatch
=============================================================================
