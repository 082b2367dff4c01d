----------------------------- MODULE MqttConsumer ------------------------------
(***************************************************************************)
(* The MQTT consumer (internal/mqtt/consumer.go) and the loop that         *)
(* connects it (connectMQTTWithRetry in cmd/server/main.go).  Subscribe    *)
(* may be called at any time; whenever the connection opens, the client    *)
(* library starts OnConnect in a goroutine that subscribes again to every  *)
(* topic registered so far.  A session is clean: the broker forgets the    *)
(* subscriptions when the connection is lost.                              *)
(*                                                                         *)
(* The client library and the broker are external; they are modelled by    *)
(* what the consumer sees of them.  Messages are left out.                 *)
(***************************************************************************)
EXTENDS Naturals

CONSTANTS
  Topics,       \* topics the program subscribes to
  MaxConnects,  \* bound: times the connection opens
  MaxRefusals   \* bound: subscriptions the broker refuses

ASSUME ConsumerAssumption ==
  /\ MaxConnects \in Nat \ {0}
  /\ MaxRefusals \in Nat

\* A call of Subscribe for each topic, a resubscribeAll for each connection.
Calls   == {"call"} \X Topics
Rounds  == {"round"} \X (1..MaxConnects)
Threads == Calls \cup Rounds

VARIABLES
  conn,      \* status of the client library
  connects,  \* times the connection has opened
  session,   \* topics the broker has subscribed this connection to
  refused,   \* topics it has refused on this connection
  refusals,  \* refusals so far
  subs,      \* Consumer.subs
  threads,   \* the goroutines in Subscribe and resubscribeAll
  retry      \* connectMQTTWithRetry

library  == <<conn, connects>>
broker   == <<session, refused, refusals>>
vars     == <<library, broker, subs, threads, retry>>

\* todo: topics still to subscribe to; waiting: the one whose token is awaited.
Thread == [pc: {"off", "begin", "run"}, todo: SUBSET Topics,
           waiting: {{}} \cup {{t} : t \in Topics}]

TypeOK ==
  /\ conn \in {"idle", "connecting", "open", "reconnecting"}
  /\ connects \in 0..MaxConnects
  /\ session \subseteq Topics
  /\ refused \subseteq Topics
  /\ refusals \in 0..MaxRefusals
  /\ subs \subseteq Topics
  /\ threads \in [Threads -> Thread]
  /\ retry \in {"connect", "wait", "sleep", "done"}

Init ==
  /\ conn = "idle"
  /\ connects = 0
  /\ session = {}
  /\ refused = {}
  /\ refusals = 0
  /\ subs = {}
  /\ threads = [th \in Threads |-> [pc |-> "off", todo |-> {}, waiting |-> {}]]
  /\ retry = "connect"

--------------------------------------------------------------------------------
\* Variant for mutation: the subscription is not remembered.
RegisterUncached(t) ==
  /\ threads[<<"call", t>>].pc = "off"
  /\ threads' = [threads EXCEPT ![<<"call", t>>].pc = "begin"]
  /\ UNCHANGED <<library, broker, subs, retry>>

\* Subscribe: the topic is remembered before the connection is looked at.
Register(t) ==
  /\ threads[<<"call", t>>].pc = "off"
  /\ threads' = [threads EXCEPT ![<<"call", t>>].pc = "begin"]
  /\ subs' = subs \cup {t}
  /\ UNCHANGED <<library, broker, retry>>

\* Subscribe: IsConnectionOpen decides whether this call subscribes itself.
LookAtConnection(t) ==
  LET th == <<"call", t>> IN
  /\ threads[th].pc = "begin"
  /\ threads' = [threads EXCEPT ![th].pc = "run",
                                ![th].todo = IF conn = "open" THEN {t} ELSE {}]
  /\ UNCHANGED <<library, broker, subs, retry>>

\* Variant for mutation: OnConnect only logs.
SubsNotCopied(k) ==
  /\ threads[<<"round", k>>].pc = "begin"
  /\ threads' = [threads EXCEPT ![<<"round", k>>].pc = "run"]
  /\ UNCHANGED <<library, broker, subs, retry>>

\* resubscribeAll copies subs under the lock.
CopySubs(k) ==
  LET th == <<"round", k>> IN
  /\ threads[th].pc = "begin"
  /\ threads' = [threads EXCEPT ![th].pc = "run", ![th].todo = subs]
  /\ UNCHANGED <<library, broker, subs, retry>>

\* Variant for mutation: the token is not waited for.
SendWithoutWait(th) ==
  /\ \E t \in threads[th].todo :
       threads' = [threads EXCEPT ![th].todo = @ \ {t},
                                  ![th].waiting = IF conn = "open" THEN @ \cup {t} ELSE {}]
  /\ UNCHANGED <<library, broker, subs, retry>>

\* subscribeWithClient: without an open connection the token fails at once.
Send(th) ==
  /\ threads[th].waiting = {}
  /\ \E t \in threads[th].todo :
       threads' = [threads EXCEPT ![th].todo = @ \ {t},
                                  ![th].waiting = IF conn = "open" THEN {t} ELSE {}]
  /\ UNCHANGED <<library, broker, subs, retry>>

\* The broker accepts the subscription thread th waits for.
Accept(th) ==
  /\ threads[th].waiting # {}
  /\ session' = session \cup threads[th].waiting
  /\ refused' = refused \ threads[th].waiting
  /\ threads' = [threads EXCEPT ![th].waiting = {}]
  /\ UNCHANGED <<library, refusals, subs, retry>>

\* The broker refuses it; the error is logged and nothing else.
Refuse(th) ==
  /\ threads[th].waiting # {}
  /\ refusals < MaxRefusals
  /\ refusals' = refusals + 1
  /\ refused' = refused \cup threads[th].waiting
  /\ threads' = [threads EXCEPT ![th].waiting = {}]
  /\ UNCHANGED <<library, session, subs, retry>>

\* The connection opens, the first time or again, and OnConnect is started.
Open ==
  /\ conn \in {"connecting", "reconnecting"}
  /\ connects < MaxConnects
  /\ conn' = "open"
  /\ connects' = connects + 1
  /\ threads' = [threads EXCEPT ![<<"round", connects + 1>>].pc = "begin"]
  /\ UNCHANGED <<broker, subs, retry>>

\* The connection is lost; every token that is awaited fails.
Lose ==
  /\ conn = "open"
  /\ connects < MaxConnects
  /\ conn' = "reconnecting"
  /\ session' = {}
  /\ refused' = {}
  /\ threads' = [th \in Threads |-> [threads[th] EXCEPT !.waiting = {}]]
  /\ UNCHANGED <<connects, refusals, subs, retry>>

--------------------------------------------------------------------------------
\* Connect: nothing to do, a first attempt, or an error while one is under way.
Connect ==
  /\ retry = "connect"
  /\ \/ conn \in {"open", "reconnecting"} /\ retry' = "done" /\ UNCHANGED conn
     \/ conn = "idle" /\ retry' = "wait" /\ conn' = "connecting"
     \/ conn = "connecting" /\ retry' = "sleep" /\ UNCHANGED conn
  /\ UNCHANGED <<connects, broker, subs, threads>>

\* The token of the first attempt is done.
Connected ==
  /\ retry = "wait"
  /\ conn \in {"open", "reconnecting"}
  /\ retry' = "done"
  /\ UNCHANGED <<library, broker, subs, threads>>

\* Ten seconds pass; the library goes on connecting by itself.
ConnectTimeout ==
  /\ retry = "wait"
  /\ retry' = "sleep"
  /\ UNCHANGED <<library, broker, subs, threads>>

Wake ==
  /\ retry = "sleep"
  /\ retry' = "connect"
  /\ UNCHANGED <<library, broker, subs, threads>>

ThreadStep(th) == Send(th) \/ Accept(th) \/ Refuse(th)

RetryStep == Connect \/ Connected \/ ConnectTimeout \/ Wake

Next ==
  \/ \E t \in Topics : Register(t) \/ LookAtConnection(t)
  \/ \E k \in 1..MaxConnects : CopySubs(k)
  \/ \E th \in Threads : ThreadStep(th)
  \/ Open
  \/ Lose
  \/ RetryStep

Spec == Init /\ [][Next]_vars

(***************************************************************************)
(* Goroutines run, the library keeps trying until the connection opens,    *)
(* and the broker answers.  Nothing makes a connection get lost.           *)
(***************************************************************************)
Fairness ==
  /\ \A t \in Topics : WF_vars(LookAtConnection(t))
  /\ \A k \in 1..MaxConnects : WF_vars(CopySubs(k))
  /\ \A th \in Threads : WF_vars(ThreadStep(th))
  /\ WF_vars(Open)
  /\ WF_vars(RetryStep)

FairSpec == Spec /\ Fairness

--------------------------------------------------------------------------------
\* The topics Subscribe has been called for.
Asked == {t \in Topics : threads[<<"call", t>>].pc # "off"}

\* No goroutine is about to subscribe.
Quiet ==
  \A th \in Threads : threads[th].pc # "begin" /\ threads[th].todo \cup threads[th].waiting = {}

(***************************************************************************)
(* On an open connection, once no goroutine is at it any more, the broker  *)
(* has every topic asked for, except those it refused: a Subscribe that    *)
(* races with OnConnect, or a connection lost and opened again between any *)
(* two of their steps, leaves no topic behind.                             *)
(***************************************************************************)
NoTopicMissed == conn = "open" /\ Quiet => Asked \ refused \subseteq session

(***************************************************************************)
(* Every topic asked for is subscribed in the end, or was refused on this  *)
(* connection, and stays so, whatever connections were lost before.        *)
(***************************************************************************)
EventuallyListening ==
  \A t \in Topics : t \in Asked ~> [](t \in session \cup refused)

================================================================================
