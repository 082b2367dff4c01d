------------------------------- MODULE MqttProofs ------------------------------
(***************************************************************************)
(* Proofs about MqttConsumer: no order of Subscribe, OnConnect and lost    *)
(* connections leaves a topic behind, for any number of topics,            *)
(* connections and refusals.                                               *)
(***************************************************************************)
EXTENDS MqttConsumer, TLAPS

\* A goroutine has something to do only once it has looked at subs or conn, and
\* a resubscription is started for each connection, not before it.
ThreadsStartEmpty ==
  /\ \A th \in Threads :
       threads[th].pc # "run" => threads[th].todo = {} /\ threads[th].waiting = {}
  /\ \A k \in 1..MaxConnects : k > connects => threads[<<"round", k>>].pc = "off"

\* A topic asked for is remembered.
AskedAreRemembered == Asked \subseteq subs

\* A goroutine will still subscribe to t on this connection.
OnItsWay(t) ==
  \/ \E th \in Threads : t \in threads[th].todo \cup threads[th].waiting
  \/ threads[<<"call", t>>].pc = "begin"
  \/ \E k \in 1..MaxConnects : threads[<<"round", k>>].pc = "begin"

\* While the connection is open, each topic is subscribed, refused or on its way.
NoneLost ==
  conn = "open" => \A t \in Asked : t \in session \cup refused \/ OnItsWay(t)

CInv == TypeOK /\ ThreadsStartEmpty /\ AskedAreRemembered /\ NoneLost

\* A thread is a call or a round.
LEMMA ThreadKinds ==
  /\ \A t \in Topics : <<"call", t>> \in Threads
  /\ \A k \in 1..MaxConnects : <<"round", k>> \in Threads
  /\ \A t \in Topics, k \in 1..MaxConnects : <<"call", t>> # <<"round", k>>
  /\ \A t, u \in Topics : <<"call", t>> = <<"call", u>> => t = u
  /\ \A j, k \in 1..MaxConnects : <<"round", j>> = <<"round", k>> => j = k
  BY DEF Threads, Calls, Rounds

LEMMA InitEstablishes == Init => CInv
<1> SUFFICES ASSUME Init PROVE CInv
  OBVIOUS
<1>1. TypeOK
  BY ConsumerAssumption DEF Init, TypeOK, Thread
<1>2. \A th \in Threads : threads[th] = [pc |-> "off", todo |-> {}, waiting |-> {}]
  BY DEF Init
<1>3. ThreadsStartEmpty
  BY <1>2, ThreadKinds DEF ThreadsStartEmpty
<1>4. Asked = {}
  BY <1>2, ThreadKinds DEF Asked
<1> QED
  BY <1>1, <1>3, <1>4 DEF CInv, AskedAreRemembered, NoneLost

LEMMA RegisterKeeps == ASSUME CInv, NEW t \in Topics, Register(t) PROVE CInv'
<1> DEFINE me == <<"call", t>>
<1>1. me \in Threads
  BY ThreadKinds
<1>2. \A th \in Threads : threads'[th] = IF th = me THEN [threads[th] EXCEPT !.pc = "begin"]
                                                    ELSE threads[th]
  BY <1>1 DEF Register, CInv, TypeOK
<1>3. TypeOK'
  BY <1>1 DEF Register, CInv, TypeOK, Thread, library, broker
<1>4. ThreadsStartEmpty'
  BY <1>1, <1>2, ThreadKinds
     DEF Register, CInv, TypeOK, Thread, ThreadsStartEmpty, library
<1>5. Asked' = Asked \cup {t}
  BY <1>1, <1>2, ThreadKinds DEF Asked, CInv, TypeOK, Thread
<1>6. AskedAreRemembered'
  BY <1>5 DEF Register, CInv, AskedAreRemembered
<1>7. NoneLost'
  <2>1. OnItsWay(t)'
    BY <1>1, <1>2 DEF OnItsWay, CInv, TypeOK, Thread
  <2>2. \A u \in Topics : u # t /\ OnItsWay(u) => OnItsWay(u)'
    BY <1>2, ThreadKinds DEF OnItsWay, CInv, TypeOK, Thread
  <2> QED
    BY <1>5, <2>1, <2>2 DEF Register, CInv, NoneLost, Asked, library, broker
<1> QED
  BY <1>3, <1>4, <1>6, <1>7 DEF CInv

LEMMA LookKeeps == ASSUME CInv, NEW t \in Topics, LookAtConnection(t) PROVE CInv'
<1> DEFINE me == <<"call", t>>
           mine == IF conn = "open" THEN {t} ELSE {}
<1>1. me \in Threads
  BY ThreadKinds
<1>2. \A th \in Threads :
        threads'[th] = IF th = me THEN [threads[th] EXCEPT !.pc = "run", !.todo = mine]
                                  ELSE threads[th]
  BY <1>1 DEF LookAtConnection, CInv, TypeOK
<1>3. TypeOK'
  BY <1>1 DEF LookAtConnection, CInv, TypeOK, Thread, library, broker
<1>4. ThreadsStartEmpty'
  BY <1>1, <1>2, ThreadKinds
     DEF LookAtConnection, CInv, TypeOK, Thread, ThreadsStartEmpty, library
<1>5. Asked' = Asked
  <2>1. threads[me].pc = "begin" /\ threads[me] \in Thread
    BY <1>1 DEF LookAtConnection, CInv, TypeOK
  <2>2. threads'[me].pc = "run"
    BY <1>1, <1>2, <2>1 DEF Thread
  <2>3. \A u \in Topics : threads'[<<"call", u>>].pc # "off" <=> threads[<<"call", u>>].pc # "off"
    BY <1>2, <2>1, <2>2, ThreadKinds
  <2> QED
    BY <2>3, Zenon DEF Asked
<1>6. NoneLost'
  <2> SUFFICES ASSUME conn = "open" PROVE \A u \in Topics : OnItsWay(u) => OnItsWay(u)'
    BY <1>5 DEF LookAtConnection, CInv, NoneLost, Asked, library, broker
  <2> TAKE u \in Topics
  <2>1. threads[me].todo = {} /\ threads[me].waiting = {}
    BY <1>1 DEF LookAtConnection, CInv, ThreadsStartEmpty
  <2>2. CASE u = t
    <3>1. threads[me] \in Thread
      BY <1>1 DEF CInv, TypeOK
    <3>2. threads'[me].todo = {t}
      BY <1>1, <1>2, <3>1 DEF Thread
    <3> QED
      BY <1>1, <2>2, <3>2 DEF OnItsWay
  <2>3. CASE u # t
    BY <1>2, <2>1, <2>3, ThreadKinds DEF OnItsWay, CInv, TypeOK, Thread
  <2> QED
    BY <2>2, <2>3
<1> QED
  BY <1>3, <1>4, <1>5, <1>6 DEF CInv, AskedAreRemembered, LookAtConnection

LEMMA CopyKeeps == ASSUME CInv, NEW k \in 1..MaxConnects, CopySubs(k) PROVE CInv'
<1> DEFINE me == <<"round", k>>
<1>1. me \in Threads
  BY ThreadKinds
<1>2. \A th \in Threads :
        threads'[th] = IF th = me THEN [threads[th] EXCEPT !.pc = "run", !.todo = subs]
                                  ELSE threads[th]
  BY <1>1 DEF CopySubs, CInv, TypeOK
<1>3. TypeOK'
  BY <1>1 DEF CopySubs, CInv, TypeOK, Thread, library, broker
<1>4. ThreadsStartEmpty'
  BY <1>1, <1>2, ThreadKinds DEF CopySubs, CInv, TypeOK, Thread, ThreadsStartEmpty, library
<1>5. Asked' = Asked
  BY <1>2, ThreadKinds DEF Asked, CInv, TypeOK, Thread
<1>6. \A t \in subs : t \in threads'[me].todo
  BY <1>1, <1>2 DEF CInv, TypeOK, Thread
<1>7. \A t \in Asked : OnItsWay(t)'
  BY <1>1, <1>6 DEF OnItsWay, CInv, AskedAreRemembered
<1> QED
  BY <1>3, <1>4, <1>5, <1>7 DEF CInv, AskedAreRemembered, NoneLost, CopySubs

LEMMA SendKeeps == ASSUME CInv, NEW th \in Threads, Send(th) PROVE CInv'
<1>1. PICK t \in threads[th].todo :
        threads' = [threads EXCEPT ![th].todo = @ \ {t},
                                   ![th].waiting = IF conn = "open" THEN {t} ELSE {}]
  BY DEF Send
<1>2. t \in Topics
  BY <1>1 DEF CInv, TypeOK, Thread
<1>3. \A g \in Threads :
        threads'[g] = IF g = th
                      THEN [threads[g] EXCEPT !.todo = @ \ {t},
                                              !.waiting = IF conn = "open" THEN {t} ELSE {}]
                      ELSE threads[g]
  BY <1>1 DEF CInv, TypeOK
<1>4. TypeOK'
  <2>1. threads' \in [Threads -> Thread]
    BY <1>1, <1>2 DEF CInv, TypeOK, Thread
  <2> QED
    BY <2>1 DEF Send, CInv, TypeOK, library, broker
<1>5. threads[th].pc = "run"
  BY <1>1 DEF CInv, ThreadsStartEmpty
<1>6. \A g \in Threads : threads'[g].pc = threads[g].pc
  BY <1>3 DEF CInv, TypeOK, Thread
<1>7. ThreadsStartEmpty'
  BY <1>3, <1>5, <1>6, ThreadKinds DEF Send, CInv, ThreadsStartEmpty, library
<1>8. Asked' = Asked
  BY <1>6, ThreadKinds DEF Asked
<1>9. NoneLost'
  <2> SUFFICES ASSUME conn = "open" PROVE \A u \in Topics : OnItsWay(u) => OnItsWay(u)'
    BY <1>8 DEF Send, CInv, NoneLost, Asked, library, broker
  <2>1. \A g \in Threads : threads[g].todo \cup threads[g].waiting
                             \subseteq threads'[g].todo \cup threads'[g].waiting
    <3> TAKE g \in Threads
    <3>1. threads[g] \in Thread /\ threads[th].waiting = {}
      BY DEF Send, CInv, TypeOK
    <3>2. CASE g = th
      <4>1. threads'[g].todo = threads[g].todo \ {t} /\ threads'[g].waiting = {t}
        BY <1>3, <3>1, <3>2 DEF Thread
      <4> QED
        BY <3>1, <3>2, <4>1
    <3>3. CASE g # th
      BY <1>3, <3>3
    <3> QED
      BY <3>2, <3>3
  <2> QED
    BY <1>6, <2>1, ThreadKinds DEF OnItsWay
<1> QED
  BY <1>4, <1>7, <1>8, <1>9 DEF CInv, AskedAreRemembered, Send

LEMMA AnswerKeeps == ASSUME CInv, NEW th \in Threads, Accept(th) \/ Refuse(th) PROVE CInv'
<1>1. threads' = [threads EXCEPT ![th].waiting = {}]
  BY DEF Accept, Refuse
<1>2. \A g \in Threads : threads'[g] = IF g = th THEN [threads[g] EXCEPT !.waiting = {}]
                                                 ELSE threads[g]
  BY <1>1 DEF CInv, TypeOK
<1>3. threads[th].waiting \subseteq Topics
  BY DEF CInv, TypeOK, Thread
<1>4. TypeOK'
  <2>1. threads' \in [Threads -> Thread]
    BY <1>1 DEF CInv, TypeOK, Thread
  <2> QED
    BY <1>3, <2>1, ConsumerAssumption DEF Accept, Refuse, CInv, TypeOK, library
<1>5. \A g \in Threads : threads'[g].pc = threads[g].pc /\ threads'[g].todo = threads[g].todo
  BY <1>2 DEF CInv, TypeOK, Thread
<1>6. ThreadsStartEmpty'
  BY <1>2, <1>5, ThreadKinds DEF Accept, Refuse, CInv, TypeOK, Thread, ThreadsStartEmpty, library
<1>7. Asked' = Asked
  BY <1>5, ThreadKinds DEF Asked
<1>8. NoneLost'
  <2>1. session \cup refused \cup threads[th].waiting \subseteq session' \cup refused'
    BY DEF Accept, Refuse
  <2>2. \A u \in Topics : OnItsWay(u) => u \in threads[th].waiting \/ OnItsWay(u)'
    BY <1>2, <1>5, ThreadKinds DEF OnItsWay
  <2>3. conn' = conn
    BY DEF Accept, Refuse, library
  <2> QED
    BY <1>7, <2>1, <2>2, <2>3 DEF CInv, NoneLost, Asked
<1> QED
  BY <1>4, <1>6, <1>7, <1>8 DEF CInv, AskedAreRemembered, Accept, Refuse

\* The goroutine that OnConnect starts will see every topic registered by then.
LEMMA OpenKeeps == ASSUME CInv, Open PROVE CInv'
<1> DEFINE me == <<"round", connects + 1>>
<1>1. connects + 1 \in 1..MaxConnects /\ me \in Threads
  BY ThreadKinds, ConsumerAssumption DEF Open, CInv, TypeOK
<1>2. \A g \in Threads : threads'[g] = IF g = me THEN [threads[g] EXCEPT !.pc = "begin"]
                                                 ELSE threads[g]
  BY <1>1 DEF Open, CInv, TypeOK
<1>3. TypeOK'
  <2>1. threads' \in [Threads -> Thread]
    BY <1>1 DEF Open, CInv, TypeOK, Thread
  <2> QED
    BY <1>1, <2>1, ConsumerAssumption DEF Open, CInv, TypeOK, broker
<1>4. threads[me].pc = "off"
  BY <1>1 DEF CInv, TypeOK, ThreadsStartEmpty
<1>5. ThreadsStartEmpty'
  <2>1. ASSUME NEW g \in Threads, threads'[g].pc # "run"
        PROVE  threads'[g].todo = {} /\ threads'[g].waiting = {}
    BY <1>2, <1>4, <2>1 DEF CInv, TypeOK, Thread, ThreadsStartEmpty
  <2>2. ASSUME NEW k \in 1..MaxConnects, k > connects'
        PROVE  threads'[<<"round", k>>].pc = "off"
    <3>1. k > connects /\ k # connects + 1 /\ connects + 1 \in 1..MaxConnects
      BY <1>1, <2>2 DEF Open, CInv, TypeOK
    <3>2. <<"round", k>> # me /\ <<"round", k>> \in Threads
      BY <3>1, ThreadKinds
    <3> QED
      BY <1>2, <3>1, <3>2 DEF CInv, ThreadsStartEmpty
  <2> QED
    BY <2>1, <2>2 DEF ThreadsStartEmpty
<1>6. Asked' = Asked
  BY <1>1, <1>2, ThreadKinds DEF Asked, CInv, TypeOK, Thread
<1>7. \A t \in Topics : OnItsWay(t)'
  BY <1>1, <1>2 DEF OnItsWay, CInv, TypeOK, Thread
<1> QED
  BY <1>3, <1>5, <1>6, <1>7 DEF CInv, AskedAreRemembered, NoneLost, Asked, Open

LEMMA LoseKeeps == ASSUME CInv, Lose PROVE CInv'
<1>1. \A g \in Threads : threads'[g] = [threads[g] EXCEPT !.waiting = {}]
  BY DEF Lose
<1>2. TypeOK'
  BY DEF Lose, CInv, TypeOK, Thread
<1>3. \A g \in Threads : threads'[g].pc = threads[g].pc /\ threads'[g].todo = threads[g].todo
                           /\ threads'[g].waiting = {}
  <2> TAKE g \in Threads
  <2>1. threads[g] \in Thread
    BY DEF CInv, TypeOK
  <2> QED
    BY <1>1, <2>1 DEF Thread
<1>4. ThreadsStartEmpty'
  BY <1>3, ThreadKinds DEF Lose, CInv, ThreadsStartEmpty
<1>5. Asked' = Asked
  BY <1>3, ThreadKinds DEF Asked
<1> QED
  BY <1>2, <1>4, <1>5 DEF CInv, AskedAreRemembered, NoneLost, Lose

\* connectMQTTWithRetry does not open a connection by itself.
LEMMA RetryKeeps == ASSUME CInv, RetryStep PROVE CInv'
<1>1. UNCHANGED <<connects, broker, subs, threads>> /\ (conn' = "open" => conn = "open")
  BY DEF RetryStep, Connect, Connected, ConnectTimeout, Wake, library
<1>2. TypeOK'
  BY DEF RetryStep, Connect, Connected, ConnectTimeout, Wake, library, broker, CInv, TypeOK
<1> QED
  BY <1>1, <1>2 DEF CInv, ThreadsStartEmpty, AskedAreRemembered, NoneLost, Asked, OnItsWay, broker

LEMMA CInvIsInductive == CInv /\ [Next]_vars => CInv'
<1> SUFFICES ASSUME CInv, [Next]_vars PROVE CInv'
  OBVIOUS
<1>1. CASE UNCHANGED vars
  BY <1>1 DEF CInv, TypeOK, ThreadsStartEmpty, AskedAreRemembered, NoneLost, Asked, OnItsWay,
              vars, library, broker
<1>2. ASSUME NEW t \in Topics, Register(t) \/ LookAtConnection(t) PROVE CInv'
  BY <1>2, RegisterKeeps, LookKeeps
<1>3. ASSUME NEW k \in 1..MaxConnects, CopySubs(k) PROVE CInv'
  BY <1>3, CopyKeeps
<1>4. ASSUME NEW th \in Threads, ThreadStep(th) PROVE CInv'
  BY <1>4, SendKeeps, AnswerKeeps DEF ThreadStep
<1>5. CASE Open
  BY <1>5, OpenKeeps
<1>6. CASE Lose
  BY <1>6, LoseKeeps
<1>7. CASE RetryStep
  BY <1>7, RetryKeeps
<1> QED
  BY <1>1, <1>2, <1>3, <1>4, <1>5, <1>6, <1>7 DEF Next

LEMMA CInvHolds == Spec => []CInv
<1> QED
  BY InitEstablishes, CInvIsInductive, PTL DEF Spec

\* The types of the consumer, its goroutines and the broker.
THEOREM ConsumerTypes == Spec => []TypeOK
<1>1. CInv => TypeOK
  BY DEF CInv
<1> QED
  BY <1>1, CInvHolds, PTL

\* NoTopicMissed, for every interleaving of any number of topics and connections.
THEOREM NoTopicLost == Spec => []NoTopicMissed
<1>1. ASSUME CInv PROVE NoTopicMissed
  <2> SUFFICES ASSUME conn = "open", Quiet, NEW t \in Asked PROVE t \in session \cup refused
    BY DEF NoTopicMissed
  <2>1. \A th \in Threads : threads[th].pc # "begin" /\ t \notin threads[th].todo \cup threads[th].waiting
    BY DEF Quiet
  <2>2. t \in Topics
    BY DEF Asked
  <2>3. ~OnItsWay(t)
    BY <2>1, <2>2, ThreadKinds DEF OnItsWay
  <2> QED
    BY <1>1, <2>3 DEF CInv, NoneLost
<1> QED
  BY <1>1, CInvHolds, PTL

================================================================================
