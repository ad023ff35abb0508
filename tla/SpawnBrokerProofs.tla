-------------------------- MODULE SpawnBrokerProofs --------------------------
(***************************************************************************)
(* Proofs about SpawnBroker, for any finite set of callers: whoever gives  *)
(* up, and however late a fork returns, a living sandbox worker belongs to *)
(* its caller or to the broker thread that will end it, never to both and  *)
(* never to nobody.                                                        *)
(***************************************************************************)
EXTENDS SpawnBroker, FiniteSetTheorems, SequenceTheorems, TLAPS

(* The brokers are numbered up to one more than the callers, so those are  *)
(* finitely many; and the name of nobody is no caller's.                   *)
CallersAssumption == IsFiniteSet(Callers) /\ NoCaller \notin Callers

(* How many brokers can be retired.                                        *)
N == Cardinality(Callers)
(* The callers that wait for an answer, or waited.                         *)
Leaving == {"waiting", "late", "left"}
(* The request of c waits in queue q.                                      *)
In(q, c) == \E i \in 1..Len(q) : q[i] = c
(* No request waits twice.                                                 *)
Once(q) == \A i, j \in 1..Len(q) : q[i] = q[j] => i = j
(* c asked b, and b has not answered.                                      *)
Asking(b, c) == mine[c] = b /\ caller[c] \in Leaving /\ ~ request[c].completed

(* Brokers are begun one after the other, each when the one before has     *)
(* been retired, and whoever gives up retires the broker it asked. This is *)
(* why there are enough of them: the caller that begins one has not given  *)
(* up, so fewer brokers are retired than there are callers.                *)
Brokerage ==
  /\ current \in 0..N
  /\ \A b \in Brokers :
       /\ b < current => ~ accepting[b]
       /\ ~ accepting[b] => b <= current /\ \E c \in Callers : caller[c] = "left" /\ mine[c] = b
  /\ \A c \in Callers : caller[c] # "new" => mine[c] \in 1..current

(* A queued request is of a caller that asked this broker, waits once, has *)
(* no worker, and is not the one being served.                             *)
Queues ==
  \A b \in Brokers :
    /\ Once(queued[b])
    /\ \A c \in Callers : In(queued[b], c) => Asking(b, c) /\ worker[c] = "none" /\ serving[b] # c

(* What the broker's thread has done so far to the request it serves.      *)
Hands ==
  \A b \in Brokers :
    /\ serving[b] = NoCaller <=> stage[b] = "idle"
    /\ serving[b] # NoCaller =>
         /\ Asking(b, serving[b])
         /\ stage[b] \in {"starting", "unforked"} => worker[serving[b]] = "none"
         /\ stage[b] = "forked" => worker[serving[b]] = "alive"
         /\ stage[b] \in {"finish", "kill"} => request[serving[b]].abandoned

(* What is true of one request: without an answer, its caller's broker     *)
(* still has it, queued or served; with one, the answer says which worker  *)
(* is left.                                                                *)
Fate(c) ==
  /\ caller[c] \in {"new", "picked"} => worker[c] = "none" /\ ~ request[c].completed
  /\ request[c].abandoned <=> caller[c] = "left"
  /\ request[c].error => request[c].completed
  /\ request[c].completed =>
       worker[c] \in (IF request[c].error THEN {"none"} ELSE IF request[c].abandoned THEN {"none", "dead"} ELSE {"alive"})
  /\ caller[c] = "owns" => request[c].completed /\ ~ request[c].error
  /\ caller[c] = "failed" => request[c].completed /\ request[c].error
  /\ caller[c] \in Leaving /\ ~ request[c].completed =>
       mine[c] \in Brokers /\ (serving[mine[c]] = c \/ In(queued[mine[c]], c))
Fates == \A c \in Callers : Fate(c)

(* The inductive invariant. WorkerHasOneOwner is not inductive: that a     *)
(* broker lets go of a worker only when it is the caller's rests on what   *)
(* each stage has seen of the request, and on a request waiting at one     *)
(* broker at most.                                                         *)
IInv == BrokerTypeOK /\ Brokerage /\ Queues /\ Hands /\ Fates

-----------------------------------------------------------------------------
(* Brokers are numbers.                                                    *)
LEMMA Numbers ==
  ASSUME CallersAssumption
  PROVE  N \in Nat /\ Brokers = 1..(N + 1)
  BY FS_CardinalityType DEF CallersAssumption, N, Brokers

(* A request put at the end of a queue.                                    *)
LEMMA Appended ==
  ASSUME NEW q \in Seq(Callers), NEW c \in Callers
  PROVE  /\ Append(q, c) \in Seq(Callers)
         /\ \A d \in Callers : In(Append(q, c), d) <=> In(q, d) \/ d = c
         /\ Once(q) /\ ~ In(q, c) => Once(Append(q, c))
<1>1. /\ Append(q, c) \in Seq(Callers) /\ Len(Append(q, c)) = Len(q) + 1 /\ Len(q) \in Nat
      /\ \A i \in 1..Len(q) : Append(q, c)[i] = q[i]
      /\ Append(q, c)[Len(q) + 1] = c
  BY AppendProperties
<1> DEFINE r == Append(q, c)
<1> HIDE DEF r
<1>2. QED
  BY <1>1 DEF In, Once, r

(* A request taken from the front of a queue.                              *)
LEMMA Taken ==
  ASSUME NEW q \in Seq(Callers), q # <<>>, Once(q)
  PROVE  /\ Head(q) \in Callers /\ In(q, Head(q))
         /\ Tail(q) \in Seq(Callers) /\ Once(Tail(q))
         /\ \A d \in Callers : In(Tail(q), d) <=> In(q, d) /\ d # Head(q)
<1>1. /\ Tail(q) \in Seq(Callers) /\ Len(q) \in Nat /\ Len(q) >= 1 /\ Len(Tail(q)) = Len(q) - 1
      /\ Head(q) = q[1] /\ \A i \in 1..Len(q) - 1 : Tail(q)[i] = q[i + 1]
      /\ \A i \in 1..Len(q) : q[i] \in Callers
  BY HeadTailProperties
<1> DEFINE r == Tail(q)
<1> HIDE DEF r
<1>2. 1 \in 1..Len(q) /\ q[1] \in Callers
  BY <1>1
<1>3. In(q, q[1])
  BY <1>2 DEF In
<1>4. \A i, j \in 1..Len(r) : r[i] = r[j] => i = j
  BY <1>1 DEF Once, r
<1>5. ASSUME NEW d \in Callers PROVE In(r, d) <=> In(q, d) /\ d # q[1]
  <2>1. ASSUME NEW i \in 1..Len(r), r[i] = d PROVE In(q, d) /\ d # q[1]
    BY <1>1, <2>1 DEF In, Once, r
  <2>2. ASSUME NEW i \in 1..Len(q), q[i] = d, d # q[1] PROVE In(r, d)
    <3>1. i - 1 \in 1..Len(r) /\ r[i - 1] = q[i]
      BY <1>1, <2>2 DEF r
    <3> QED
      BY <2>2, <3>1 DEF In
  <2> QED
    BY <2>1, <2>2 DEF In
<1> QED
  BY <1>1, <1>2, <1>3, <1>4, <1>5 DEF Once, r

(* The invariant holds at the start.                                       *)
LEMMA InitIInv == CallersAssumption /\ Init => IInv
<1> SUFFICES ASSUME CallersAssumption, Init PROVE IInv
  OBVIOUS
<1>1. BrokerTypeOK
  BY Numbers DEF Init, BrokerTypeOK, N, CallersAssumption
<1>2. Brokerage
  BY Numbers DEF Init, Brokerage
<1>3. Queues
  BY DEF Init, Queues, Once, In
<1>4. Hands
  BY DEF Init, Hands
<1>5. Fates
  BY DEF Init, Fates, Fate, Leaving
<1> QED
  BY <1>1, <1>2, <1>3, <1>4, <1>5 DEF IInv

(* Whoever begins has left a broker to begin with. *)
LEMMA BrokersSuffice ==
  ASSUME CallersAssumption, Brokerage, NEW c \in Callers, caller[c] # "left",
         \A b \in 1..current : ~ accepting[b]
  PROVE  current + 1 <= N
<1> DEFINE G == {d \in Callers \ {c} : caller[d] = "left" /\ mine[d] \in 1..current}
           f == [d \in G |-> mine[d]]
<1>1. current \in Nat /\ N \in Nat /\ N = Cardinality(Callers) /\ current <= N
  BY Numbers DEF Brokerage, N
<1>2. f \in Surjection(G, 1..current)
  <2>1. f \in [G -> 1..current]
    OBVIOUS
  <2>2. ASSUME NEW b \in 1..current PROVE \E d \in G : f[d] = b
    <3>1. b \in Brokers /\ ~ accepting[b]
      BY <1>1, Numbers
    <3>2. PICK d \in Callers : caller[d] = "left" /\ mine[d] = b
      BY <3>1 DEF Brokerage
    <3> QED
      BY <3>2
  <2> QED
    BY <2>1, <2>2 DEF Surjection
<1>3. IsFiniteSet(Callers \ {c}) /\ Cardinality(Callers \ {c}) = N - 1
  BY <1>1, FS_RemoveElement DEF CallersAssumption
<1>4. IsFiniteSet(G) /\ Cardinality(G) <= N - 1
  BY <1>3, FS_Subset
<1>5. Cardinality(1..current) <= Cardinality(G)
  BY <1>2, <1>4, FS_Surjection
<1>6. Cardinality(1..current) = current
  BY <1>1, FS_Interval
<1>7. Cardinality(G) \in Nat
  BY <1>4, FS_CardinalityType
<1> QED
  BY <1>1, <1>4, <1>5, <1>6, <1>7

(* A caller picks the current broker, or begins one: _start_process.       *)
LEMMA PickStep ==
  ASSUME CallersAssumption, IInv, NEW c \in Callers, Pick(c)
  PROVE  IInv'
<1>0. N \in Nat /\ Brokers = 1..(N + 1)
  BY Numbers
<1>1. /\ caller[c] = "new" /\ caller' = [caller EXCEPT ![c] = "picked"]
      /\ mine' = [mine EXCEPT ![c] = current']
      /\ UNCHANGED <<accepting, queued, serving, stage, request, worker, childConn>>
  BY DEF Pick, threadVars
<1>2. \/ current' = current /\ current # 0 /\ accepting[current]
      \/ current' = current + 1 /\ \A b \in 1..current : ~ accepting[b]
  <2>1. CASE current # 0 /\ accepting[current]
    BY <2>1 DEF Pick
  <2>2. CASE ~ (current # 0 /\ accepting[current])
    <3>1. current' = current + 1
      BY <2>2 DEF Pick
    <3>2. \A b \in 1..current : ~ accepting[b]
      BY <1>0, <2>2 DEF IInv, Brokerage
    <3> QED
      BY <3>1, <3>2
  <2> QED
    BY <2>1, <2>2
<1>3. current \in 0..N /\ current' \in 1..N /\ current <= current'
  BY <1>0, <1>1, <1>2, BrokersSuffice DEF IInv, Brokerage
<1>4. /\ caller'[c] = "picked" /\ mine'[c] = current'
      /\ \A d \in Callers : d # c => caller'[d] = caller[d] /\ mine'[d] = mine[d]
  BY <1>1 DEF IInv, BrokerTypeOK
<1>5. BrokerTypeOK'
  BY <1>0, <1>1, <1>3 DEF IInv, BrokerTypeOK, N
<1>6. Brokerage'
  <2>1. ASSUME NEW b \in Brokers, b < current' PROVE ~ accepting'[b]
    BY <1>0, <1>1, <1>2, <1>3, <2>1 DEF IInv, Brokerage
  <2>2. ASSUME NEW b \in Brokers, ~ accepting'[b]
        PROVE  b <= current' /\ \E d \in Callers : caller'[d] = "left" /\ mine'[d] = b
    <3>1. b <= current /\ \E d \in Callers : caller[d] = "left" /\ mine[d] = b
      BY <1>1, <2>2 DEF IInv, Brokerage
    <3> QED
      BY <1>0, <1>1, <1>3, <1>4, <3>1
  <2>3. ASSUME NEW d \in Callers, caller'[d] # "new" PROVE mine'[d] \in 1..current'
    <3>1. CASE d = c
      BY <1>0, <1>3, <1>4, <3>1
    <3>2. CASE d # c
      BY <1>0, <1>3, <1>4, <2>3, <3>2 DEF IInv, Brokerage
    <3> QED
      BY <3>1, <3>2
  <2> QED
    BY <1>0, <1>3, <2>1, <2>2, <2>3 DEF Brokerage, N
<1>7. \A b \in Brokers, d \in Callers : Asking(b, d) => d # c /\ Asking(b, d)'
  BY <1>1, <1>4 DEF Asking, Leaving
<1>8. Queues'
  BY <1>1, <1>7 DEF IInv, Queues, In, Once
<1>9. Hands'
  <2>1. \A b \in Brokers : serving[b] \in Callers \cup {NoCaller}
    BY DEF IInv, BrokerTypeOK
  <2> QED
    BY <1>1, <1>7, <2>1 DEF IInv, Hands
<1>10. Fates'
  BY <1>1, <1>4 DEF IInv, Fates, Fate, In, Leaving
<1> QED
  BY <1>5, <1>6, <1>8, <1>9, <1>10 DEF IInv

(* The request is queued, or the broker has been retired since: start.     *)
LEMMA SubmitStep ==
  ASSUME CallersAssumption, IInv, NEW c \in Callers, Submit(c)
  PROVE  IInv'
<1>0. N \in Nat /\ Brokers = 1..(N + 1)
  BY Numbers
<1> DEFINE m == mine[c]
<1>1. caller[c] = "picked" /\ m \in 1..current /\ m \in Brokers /\ current \in 0..N
  BY <1>0 DEF Submit, IInv, Brokerage
<1>2. ~ In(queued[m], c) /\ \A b \in Brokers, d \in Callers : Asking(b, d) => d # c
  BY <1>1 DEF IInv, Queues, Asking, Leaving
<1>3. UNCHANGED <<current, accepting, serving, stage, mine, request, worker, childConn>>
  BY DEF Submit
<1>4. PICK next \in {"waiting", "new"} : caller' = [caller EXCEPT ![c] = next]
  BY DEF Submit
<1>5. caller'[c] \in {"waiting", "new"} /\ \A d \in Callers : d # c => caller'[d] = caller[d]
  BY <1>4 DEF IInv, BrokerTypeOK
<1>6. Brokerage'
  BY <1>0, <1>1, <1>3, <1>5 DEF IInv, Brokerage, N
<1>7. \A b \in Brokers, d \in Callers : Asking(b, d) => Asking(b, d)'
  BY <1>2, <1>3, <1>5 DEF Asking
<1>8. \A b \in Brokers : serving[b] \in Callers \cup {NoCaller}
  BY DEF IInv, BrokerTypeOK
<1>9. Hands'
  BY <1>3, <1>7, <1>8 DEF IInv, Hands
<1>10. CASE accepting[m] /\ queued' = [queued EXCEPT ![m] = Append(queued[m], c)] /\ caller'[c] = "waiting"
  <2> DEFINE q == Append(queued[m], c)
  <2>1. queued[m] \in Seq(Callers)
    BY <1>1 DEF IInv, BrokerTypeOK
  <2>2. Once(queued[m])
    BY <1>1 DEF IInv, Queues
  <2>3. q \in Seq(Callers) /\ Once(q) /\ \A d \in Callers : In(q, d) <=> In(queued[m], d) \/ d = c
    BY <1>2, <2>1, <2>2, Appended
  <2> HIDE DEF q
  <2>4. queued'[m] = q /\ \A b \in Brokers : b # m => queued'[b] = queued[b]
    BY <1>1, <1>10 DEF IInv, BrokerTypeOK, q
  <2>5. BrokerTypeOK'
    <3>1. queued' \in [Brokers -> Seq(Callers)]
      BY <1>10, <2>3 DEF IInv, BrokerTypeOK, q
    <3> QED
      BY <1>3, <1>4, <3>1 DEF IInv, BrokerTypeOK
  <2>6. Asking(m, c)' /\ worker[c] = "none" /\ ~ request[c].completed /\ \A b \in Brokers : serving[b] # c
    <3>1. worker[c] = "none" /\ ~ request[c].completed
      BY <1>1 DEF IInv, Fates, Fate
    <3>2. \A b \in Brokers : serving[b] # c
      BY <1>1, <1>2 DEF IInv, Hands, CallersAssumption
    <3> QED
      BY <1>3, <1>10, <3>1, <3>2 DEF Asking, Leaving
  <2>7. Queues'
    <3>1. ASSUME NEW b \in Brokers, NEW d \in Callers, In(queued'[b], d)
          PROVE  Asking(b, d)' /\ worker'[d] = "none" /\ serving'[b] # d
      <4>1. CASE In(queued[b], d)
        BY <1>3, <1>7, <4>1 DEF IInv, Queues
      <4>2. CASE ~ In(queued[b], d)
        <5>1. b = m /\ d = c
          BY <2>3, <2>4, <3>1, <4>2
        <5> QED
          BY <1>3, <2>6, <5>1
      <4> QED
        BY <4>1, <4>2
    <3>2. \A b \in Brokers : Once(queued'[b])
      BY <2>3, <2>4 DEF IInv, Queues
    <3>3. \A b \in Brokers : /\ Once(queued[b])'
                              /\ \A d \in Callers : In(queued[b], d)' => Asking(b, d)' /\ worker'[d] = "none" /\ serving'[b] # d
      BY <3>1, <3>2 DEF Once, In
    <3> QED
      BY <3>3 DEF Queues
  <2>8. ASSUME NEW d \in Callers PROVE Fate(d)'
    <3>1. CASE d = c
      BY <1>1, <1>3, <1>10, <2>3, <2>4, <2>6, <3>1 DEF IInv, Fates, Fate, In
    <3>2. CASE d # c
      <4>1. \A b \in Brokers : In(queued[b], d) => In(queued'[b], d)
        BY <2>3, <2>4
      <4>2. \A b \in Brokers : In(queued[b], d) => In(queued[b], d)'
        BY <4>1 DEF In
      <4> HIDE DEF In
      <4>3. Fate(d)
        BY DEF IInv, Fates
      <4> QED
        BY <1>3, <1>5, <3>2, <4>2, <4>3 DEF Fate
    <3> QED
      BY <3>1, <3>2
  <2> QED
    BY <1>6, <1>9, <2>5, <2>7, <2>8 DEF IInv, Fates
<1>11. CASE UNCHANGED queued /\ caller'[c] = "new"
  <2>1. BrokerTypeOK'
    BY <1>3, <1>4, <1>11 DEF IInv, BrokerTypeOK
  <2>2. Queues'
    BY <1>3, <1>7, <1>11 DEF IInv, Queues, In, Once
  <2>3. Fates'
    BY <1>1, <1>3, <1>5, <1>11 DEF IInv, Fates, Fate, In, Leaving
  <2> QED
    BY <1>6, <1>9, <2>1, <2>2, <2>3 DEF IInv
<1> QED
  <2>1. caller \in [Callers -> {"new", "picked", "waiting", "late", "left", "owns", "failed"}]
    BY DEF IInv, BrokerTypeOK
  <2> QED
    BY <1>10, <1>11, <2>1 DEF Submit

(* The timeout of a caller runs out.                                       *)
LEMMA TimesOutStep ==
  ASSUME CallersAssumption, IInv, NEW c \in Callers, TimesOut(c)
  PROVE  IInv'
<1>1. /\ caller[c] = "waiting" /\ ~ request[c].completed /\ caller' = [caller EXCEPT ![c] = "late"]
      /\ UNCHANGED <<current, accepting, queued, serving, stage, mine, request, worker, childConn>>
  BY DEF TimesOut, threadVars
<1>2. caller'[c] = "late" /\ \A d \in Callers : d # c => caller'[d] = caller[d]
  BY <1>1 DEF IInv, BrokerTypeOK
<1>3. BrokerTypeOK'
  BY <1>1 DEF IInv, BrokerTypeOK
<1>4. Brokerage'
  BY <1>1, <1>2 DEF IInv, Brokerage, N, Brokers
<1>5. \A b \in Brokers, d \in Callers : Asking(b, d) => Asking(b, d)'
  BY <1>1, <1>2 DEF Asking, Leaving
<1>6. Queues'
  BY <1>1, <1>5 DEF IInv, Queues, In, Once
<1>7. \A b \in Brokers : serving[b] \in Callers \cup {NoCaller}
  BY DEF IInv, BrokerTypeOK
<1>8. Hands'
  BY <1>1, <1>5, <1>7 DEF IInv, Hands
<1>9. Fates'
  BY <1>1, <1>2 DEF IInv, Fates, Fate, In, Leaving
<1> QED
  BY <1>3, <1>4, <1>6, <1>8, <1>9 DEF IInv

(* A caller abandons its request and retires the broker.                   *)
LEMMA GiveUpStep ==
  ASSUME CallersAssumption, IInv, NEW c \in Callers, GiveUp(c)
  PROVE  IInv'
<1>0. N \in Nat /\ Brokers = 1..(N + 1)
  BY Numbers
<1> DEFINE m == mine[c]
<1>1. /\ caller[c] = "late" /\ ~ request[c].completed
      /\ caller' = [caller EXCEPT ![c] = "left"]
      /\ request' = [request EXCEPT ![c].abandoned = TRUE]
      /\ accepting' = [accepting EXCEPT ![m] = FALSE]
      /\ UNCHANGED <<current, queued, serving, stage, mine, worker, childConn>>
  BY DEF GiveUp, MayGiveUp, threadVars
<1>2. m \in Brokers /\ m \in 1..current /\ current \in 0..N
  BY <1>0, <1>1 DEF IInv, Brokerage
<1>3. /\ caller'[c] = "left" /\ \A d \in Callers : d # c => caller'[d] = caller[d]
      /\ accepting'[m] = FALSE /\ \A b \in Brokers : b # m => accepting'[b] = accepting[b]
  BY <1>1, <1>2 DEF IInv, BrokerTypeOK
<1>4. /\ request'[c].completed = request[c].completed /\ request'[c].error = request[c].error
      /\ request'[c].abandoned = TRUE
      /\ \A d \in Callers : d # c => request'[d] = request[d]
  BY <1>1 DEF IInv, BrokerTypeOK
<1>5. BrokerTypeOK'
  BY <1>1 DEF IInv, BrokerTypeOK
<1>6. Brokerage'
  BY <1>0, <1>1, <1>2, <1>3 DEF IInv, Brokerage, N
<1>7. \A b \in Brokers, d \in Callers : Asking(b, d) => Asking(b, d)'
  BY <1>1, <1>3, <1>4 DEF Asking, Leaving
<1>8. Queues'
  BY <1>1, <1>7 DEF IInv, Queues, In, Once
<1>9. \A b \in Brokers : serving[b] \in Callers \cup {NoCaller}
  BY DEF IInv, BrokerTypeOK
<1>10. Hands'
  BY <1>1, <1>4, <1>7, <1>9 DEF IInv, Hands
<1>11. Fates'
  BY <1>1, <1>3, <1>4 DEF IInv, Fates, Fate, In, Leaving
<1> QED
  BY <1>5, <1>6, <1>8, <1>10, <1>11 DEF IInv

(* A caller takes its answer.                                              *)
LEMMA AnsweredStep ==
  ASSUME CallersAssumption, IInv, NEW c \in Callers, Answered(c)
  PROVE  IInv'
<1>1. PICK next \in {"owns", "failed"} :
        /\ caller' = [caller EXCEPT ![c] = next]
        /\ next = IF request[c].error THEN "failed" ELSE "owns"
  BY DEF Answered
<1>2. /\ caller[c] \in {"waiting", "late"} /\ request[c].completed
      /\ childConn' = [childConn EXCEPT ![c] = "closed"]
      /\ UNCHANGED <<current, accepting, queued, serving, stage, mine, request, worker>>
  BY DEF Answered, MayGiveUp, threadVars
<1>3. caller'[c] = next /\ \A d \in Callers : d # c => caller'[d] = caller[d]
  BY <1>1 DEF IInv, BrokerTypeOK
<1>4. BrokerTypeOK'
  BY <1>1, <1>2 DEF IInv, BrokerTypeOK
<1>5. Brokerage'
  BY <1>1, <1>2, <1>3 DEF IInv, Brokerage, N, Brokers
<1>6. \A b \in Brokers, d \in Callers : Asking(b, d) => Asking(b, d)'
  BY <1>2, <1>3 DEF Asking
<1>7. Queues'
  BY <1>2, <1>6 DEF IInv, Queues, In, Once
<1>8. \A b \in Brokers : serving[b] \in Callers \cup {NoCaller}
  BY DEF IInv, BrokerTypeOK
<1>9. Hands'
  BY <1>2, <1>6, <1>8 DEF IInv, Hands
<1>10. Fates'
  BY <1>1, <1>2, <1>3 DEF IInv, Fates, Fate, In, Leaving
<1> QED
  BY <1>4, <1>5, <1>7, <1>9, <1>10 DEF IInv

(* What a broker works on, nobody else has. *)
LEMMA Alone ==
  ASSUME IInv, NEW b \in Brokers, serving[b] # NoCaller
  PROVE  /\ serving[b] \in Callers /\ Asking(b, serving[b])
         /\ \A a \in Brokers : ~ In(queued[a], serving[b]) /\ (a # b => serving[a] # serving[b])
<1>1. serving[b] \in Callers
  BY DEF IInv, BrokerTypeOK
<1>2. Asking(b, serving[b])
  BY DEF IInv, Hands
<1>3. ASSUME NEW a \in Brokers PROVE ~ In(queued[a], serving[b]) /\ (a # b => serving[a] # serving[b])
  BY <1>1, <1>2 DEF IInv, Queues, Hands, Asking
<1> QED
  BY <1>1, <1>2, <1>3

(* The broker's thread takes the next request of its queue.                *)
LEMMA TakeStep ==
  ASSUME CallersAssumption, IInv, NEW b \in Brokers, Take(b)
  PROVE  IInv'
<1> DEFINE q == queued[b]
           c == Head(q)
<1>1. q \in Seq(Callers) /\ q # <<>> /\ Once(q) /\ stage[b] = "idle"
  BY DEF Take, IInv, BrokerTypeOK, Queues
<1>2. /\ c \in Callers /\ In(q, c) /\ Tail(q) \in Seq(Callers) /\ Once(Tail(q))
      /\ \A d \in Callers : In(Tail(q), d) <=> In(q, d) /\ d # c
  BY <1>1, Taken
<1>3. PICK next \in {"finish", "starting"} :
        /\ next = IF request[c].abandoned THEN "finish" ELSE "starting"
        /\ stage' = [stage EXCEPT ![b] = next]
  BY DEF Take
<1>4. /\ queued' = [queued EXCEPT ![b] = Tail(q)] /\ serving' = [serving EXCEPT ![b] = c]
      /\ UNCHANGED <<current, accepting, caller, mine, request, worker, childConn>>
  BY DEF Take
<1>5. BrokerTypeOK'
  <2>1. queued' \in [Brokers -> Seq(Callers)]
    BY <1>2, <1>4 DEF IInv, BrokerTypeOK
  <2>2. serving' \in [Brokers -> Callers \cup {NoCaller}] /\ stage' \in [Brokers -> {"idle", "starting", "forked", "unforked", "finish", "kill"}]
    BY <1>2, <1>3, <1>4 DEF IInv, BrokerTypeOK
  <2> QED
    BY <1>4, <2>1, <2>2 DEF IInv, BrokerTypeOK
<1>6. /\ queued'[b] = Tail(q) /\ serving'[b] = c /\ stage'[b] = next
      /\ \A a \in Brokers : a # b => queued'[a] = queued[a] /\ serving'[a] = serving[a] /\ stage'[a] = stage[a]
  BY <1>3, <1>4 DEF IInv, BrokerTypeOK
<1>7. Asking(b, c) /\ worker[c] = "none"
  BY <1>2 DEF IInv, Queues
<1> HIDE DEF c
<1>8. c # NoCaller
  BY <1>2 DEF CallersAssumption
<1>9. Brokerage'
  BY <1>4 DEF IInv, Brokerage, N, Brokers
<1>10. \A a \in Brokers, d \in Callers : Asking(a, d)' <=> Asking(a, d)
  BY <1>4 DEF Asking
<1>11. \A a \in Brokers, d \in Callers : In(queued'[a], d) => In(queued[a], d) /\ serving'[a] # d
  BY <1>2, <1>6 DEF IInv, Queues
<1>12. Queues'
  <2>1. \A a \in Brokers : Once(queued'[a])
    BY <1>2, <1>6 DEF IInv, Queues
  <2>2. \A a \in Brokers, d \in Callers : In(queued'[a], d) => Asking(a, d)' /\ worker'[d] = "none"
    BY <1>4, <1>10, <1>11 DEF IInv, Queues
  <2>3. \A a \in Brokers : Once(queued[a])' /\ \A d \in Callers : In(queued[a], d)' => Asking(a, d)' /\ worker'[d] = "none" /\ serving'[a] # d
    BY <1>11, <2>1, <2>2 DEF Once, In
  <2> QED
    BY <2>3 DEF Queues
<1>13. Hands'
  <2>1. ASSUME NEW a \in Brokers, a # b, serving[a] # NoCaller PROVE serving[a] \in Callers
    BY <2>1 DEF IInv, BrokerTypeOK
  <2> QED
    BY <1>3, <1>4, <1>6, <1>7, <1>8, <1>10, <1>2, <2>1 DEF IInv, Hands
<1>14. ASSUME NEW d \in Callers PROVE Fate(d)'
  <2>1. Fate(d)
    BY DEF IInv, Fates
  <2>2. serving[b] = NoCaller /\ d # NoCaller
    BY <1>1 DEF IInv, Hands, CallersAssumption
  <2>3. ASSUME NEW a \in Brokers, serving[a] = d \/ In(queued[a], d)
        PROVE  serving'[a] = d \/ In(queued'[a], d)
    BY <1>2, <1>6, <2>2, <2>3
  <2>4. ASSUME NEW a \in Brokers, serving[a] = d \/ In(queued[a], d)
        PROVE  serving'[a] = d \/ In(queued[a], d)'
    BY <2>3, <2>4 DEF In
  <2> QED
    BY <1>4, <2>1, <2>4 DEF Fate
<1> QED
  BY <1>5, <1>9, <1>12, <1>13, <1>14 DEF IInv, Fates

(* Process.start() returns, or raises.                                     *)
LEMMA ForkStep ==
  ASSUME CallersAssumption, IInv, NEW b \in Brokers, Fork(b) \/ ForkFails(b)
  PROVE  IInv'
<1> DEFINE c == serving[b]
<1>1. PICK next \in {"forked", "unforked"}, fate \in {"alive", "none"} :
        /\ next = "forked" <=> fate = "alive"
        /\ stage' = [stage EXCEPT ![b] = next] /\ worker' = [worker EXCEPT ![c] = fate]
  <2>1. CASE Fork(b)
    BY <2>1 DEF Fork
  <2>2. CASE ForkFails(b)
    <3>1. c \in Callers /\ worker[c] = "none"
      BY <2>2 DEF ForkFails, IInv, Hands, BrokerTypeOK
    <3>2. worker' = [worker EXCEPT ![c] = "none"]
      BY <2>2, <3>1 DEF ForkFails, IInv, BrokerTypeOK
    <3> QED
      BY <2>2, <3>2 DEF ForkFails
  <2> QED
    BY <2>1, <2>2
<1>2. stage[b] = "starting" /\ UNCHANGED <<current, accepting, queued, serving, caller, mine, request, childConn>>
  BY DEF Fork, ForkFails
<1>3. /\ c \in Callers /\ c # NoCaller /\ Asking(b, c) /\ worker[c] = "none"
      /\ \A a \in Brokers : ~ In(queued[a], c) /\ (a # b => serving[a] # c)
  <2>1. c # NoCaller /\ worker[c] = "none"
    BY <1>2 DEF IInv, Hands
  <2> QED
    BY <2>1, Alone
<1>4. /\ stage'[b] = next /\ \A a \in Brokers : a # b => stage'[a] = stage[a]
      /\ worker'[c] = fate /\ \A d \in Callers : d # c => worker'[d] = worker[d]
  BY <1>1, <1>3 DEF IInv, BrokerTypeOK
<1>5. BrokerTypeOK'
  BY <1>1, <1>2 DEF IInv, BrokerTypeOK
<1>6. Brokerage'
  BY <1>2 DEF IInv, Brokerage, N, Brokers
<1>7. \A a \in Brokers, d \in Callers : Asking(a, d) => Asking(a, d)'
  BY <1>2 DEF Asking
<1>8. Queues'
  BY <1>2, <1>3, <1>4, <1>7 DEF IInv, Queues, In, Once
<1>9. Hands'
  <2>1. \A a \in Brokers : serving[a] \in Callers \cup {NoCaller}
    BY DEF IInv, BrokerTypeOK
  <2> QED
    BY <1>1, <1>2, <1>3, <1>4, <1>7, <2>1 DEF IInv, Hands
<1>10. Fates'
  <2>1. ~ request[c].completed /\ caller[c] \in Leaving
    BY <1>3 DEF Asking
  <2> QED
    BY <1>2, <1>3, <1>4, <2>1 DEF IInv, Fates, Fate, In, Leaving
<1> QED
  BY <1>5, <1>6, <1>8, <1>9, <1>10 DEF IInv

(* The answer, or the end of what nobody waits for: the broker lets go. *)
LEMMA LetsGo ==
  ASSUME CallersAssumption, IInv, NEW b \in Brokers, NEW c \in Callers, serving[b] = c,
         NEW e \in BOOLEAN, NEW fate \in {"none", "alive", "dead"},
         IF e THEN fate = "none" /\ ~ request[c].abandoned
         ELSE IF request[c].abandoned THEN fate # "alive" ELSE fate = "alive",
         request' = [request EXCEPT ![c].completed = TRUE, ![c].error = e],
         worker' = [worker EXCEPT ![c] = fate],
         stage' = [stage EXCEPT ![b] = "idle"], serving' = [serving EXCEPT ![b] = NoCaller],
         childConn' \in [Callers -> {"open", "closed"}],
         UNCHANGED <<current, accepting, queued, caller, mine>>
  PROVE  IInv'
<1>1. /\ c # NoCaller /\ Asking(b, c)
      /\ \A a \in Brokers : ~ In(queued[a], c) /\ (a # b => serving[a] # c)
  BY Alone DEF CallersAssumption
<1>2. /\ stage'[b] = "idle" /\ serving'[b] = NoCaller
      /\ \A a \in Brokers : a # b => stage'[a] = stage[a] /\ serving'[a] = serving[a]
  BY DEF IInv, BrokerTypeOK
<1>3. worker'[c] = fate /\ \A d \in Callers : d # c => worker'[d] = worker[d]
  BY DEF IInv, BrokerTypeOK
<1>4. /\ request'[c].completed = TRUE /\ request'[c].error = e /\ request'[c].abandoned = request[c].abandoned
      /\ \A d \in Callers : d # c => request'[d] = request[d]
  BY DEF IInv, BrokerTypeOK
<1>5. BrokerTypeOK'
  <2>1. request' \in [Callers -> [completed : BOOLEAN, abandoned : BOOLEAN, error : BOOLEAN]]
    <3>1. request \in [Callers -> [completed : BOOLEAN, abandoned : BOOLEAN, error : BOOLEAN]]
      BY DEF IInv, BrokerTypeOK
    <3> DEFINE r == [request[c] EXCEPT !.completed = TRUE, !.error = e]
    <3>2. r \in [completed : BOOLEAN, abandoned : BOOLEAN, error : BOOLEAN]
      BY <3>1
    <3>3. request' = [request EXCEPT ![c] = r]
      BY <3>1
    <3> QED
      BY <3>1, <3>2, <3>3
  <2>2. worker' \in [Callers -> {"none", "alive", "dead"}]
    BY DEF IInv, BrokerTypeOK
  <2>3. stage' \in [Brokers -> {"idle", "starting", "forked", "unforked", "finish", "kill"}]
    BY DEF IInv, BrokerTypeOK
  <2>4. serving' \in [Brokers -> Callers \cup {NoCaller}]
    BY DEF IInv, BrokerTypeOK
  <2> QED
    BY <2>1, <2>2, <2>3, <2>4 DEF IInv, BrokerTypeOK
<1>6. Brokerage'
  BY DEF IInv, Brokerage, N, Brokers
<1>7. \A a \in Brokers, d \in Callers : d # c /\ Asking(a, d) => Asking(a, d)'
  BY <1>4 DEF Asking
<1>8. Queues'
  <2>1. \A a \in Brokers, d \in Callers : In(queued[a], d) => d # c /\ Asking(a, d)' /\ worker'[d] = "none" /\ serving'[a] # d
    BY <1>1, <1>2, <1>3, <1>7 DEF IInv, Queues, CallersAssumption
  <2> QED
    BY <2>1 DEF IInv, Queues, In, Once
<1>9. Hands'
  <2> DEFINE Holds(a) ==
        /\ serving[a] = NoCaller <=> stage[a] = "idle"
        /\ serving[a] # NoCaller =>
             /\ Asking(a, serving[a])
             /\ stage[a] \in {"starting", "unforked"} => worker[serving[a]] = "none"
             /\ stage[a] = "forked" => worker[serving[a]] = "alive"
             /\ stage[a] \in {"finish", "kill"} => request[serving[a]].abandoned
  <2>1. Holds(b)'
    BY <1>2
  <2>2. ASSUME NEW a \in Brokers, a # b PROVE Holds(a)'
    <3>1. serving'[a] = serving[a] /\ stage'[a] = stage[a]
      BY <1>2, <2>2
    <3>2. Holds(a)
      BY DEF IInv, Hands
    <3>3. CASE serving[a] = NoCaller
      BY <3>1, <3>2, <3>3
    <3>4. CASE serving[a] # NoCaller
      <4>1. serving[a] \in Callers /\ serving[a] # c
        BY <1>1, <2>2, <3>4 DEF IInv, BrokerTypeOK
      <4>2. Asking(a, serving[a]) /\ Asking(a, serving[a])'
        <5>1. Asking(a, serving[a])
          BY <3>2, <3>4
        <5> HIDE DEF Holds
        <5> QED
          BY <1>2, <1>4, <3>1, <4>1, <5>1 DEF Asking
      <4>3. worker'[serving[a]] = worker[serving[a]] /\ request'[serving[a]] = request[serving[a]]
        BY <1>3, <1>4, <4>1
      <4> QED
        BY <3>1, <3>2, <3>4, <4>2, <4>3
    <3> QED
      BY <3>3, <3>4
  <2> QED
    BY <2>1, <2>2 DEF Hands
<1>10. ASSUME NEW d \in Callers PROVE Fate(d)'
  <2>1. Fate(d)
    BY DEF IInv, Fates
  <2>2. CASE d = c
    <3>1. caller[c] \in Leaving /\ caller'[c] = caller[c]
      BY <1>1 DEF Asking
    <3> QED
      BY <1>3, <1>4, <2>1, <2>2, <3>1 DEF Fate, Leaving
  <2>3. CASE d # c
    <3>1. \A a \in Brokers : In(queued[a], d)' <=> In(queued[a], d)
      BY DEF In
    <3>2. \A a \in Brokers : serving[a] = d => serving'[a] = d
      BY <1>2, <2>3
    <3> QED
      BY <1>3, <1>4, <2>1, <2>3, <3>1, <3>2 DEF Fate
  <2> QED
    BY <2>2, <2>3
<1> QED
  BY <1>5, <1>6, <1>8, <1>9, <1>10 DEF IInv, Fates

(* The broker goes on to finish what nobody waits for. *)
LEMMA FinishStep ==
  ASSUME CallersAssumption, IInv, NEW b \in Brokers, NEW next \in {"finish", "kill"},
         serving[b] # NoCaller, request[serving[b]].abandoned,
         stage' = [stage EXCEPT ![b] = next], childConn' \in [Callers -> {"open", "closed"}],
         UNCHANGED <<current, accepting, queued, serving, caller, mine, request, worker>>
  PROVE  IInv'
<1>1. stage'[b] = next /\ \A a \in Brokers : a # b => stage'[a] = stage[a]
  BY DEF IInv, BrokerTypeOK
<1>2. BrokerTypeOK'
  BY DEF IInv, BrokerTypeOK
<1>3. Brokerage'
  BY DEF IInv, Brokerage, N, Brokers
<1>4. \A a \in Brokers, d \in Callers : Asking(a, d) => Asking(a, d)'
  BY DEF Asking
<1>5. Queues'
  BY <1>4 DEF IInv, Queues, In, Once
<1>6. \A a \in Brokers : serving[a] \in Callers \cup {NoCaller}
  BY DEF IInv, BrokerTypeOK
<1>7. Hands'
  BY <1>1, <1>4, <1>6 DEF IInv, Hands
<1>8. Fates'
  BY DEF IInv, Fates, Fate, In, Leaving
<1> QED
  BY <1>2, <1>3, <1>5, <1>7, <1>8 DEF IInv

(* The thread answers, or finds that nobody waits any longer.              *)
LEMMA ReportStep ==
  ASSUME CallersAssumption, IInv, NEW b \in Brokers, Report(b)
  PROVE  IInv'
<1> DEFINE c == serving[b]
           failed == stage[b] = "unforked"
<1>1. stage[b] \in {"forked", "unforked"} /\ UNCHANGED <<current, accepting, queued, caller, mine, worker>>
  BY DEF Report
<1>2. c \in Callers /\ c # NoCaller /\ worker[c] = IF failed THEN "none" ELSE "alive"
  BY <1>1 DEF IInv, Hands, BrokerTypeOK
<1>3. CASE Abandoned(c)
  <2>1. stage' = [stage EXCEPT ![b] = "finish"] /\ UNCHANGED <<serving, request, childConn>>
    BY <1>3 DEF Report
  <2>2. childConn' \in [Callers -> {"open", "closed"}]
    BY <2>1 DEF IInv, BrokerTypeOK
  <2> QED
    BY <1>1, <1>2, <1>3, <2>1, <2>2, FinishStep DEF Abandoned
<1>4. CASE ~ Abandoned(c)
  <2>1. /\ request' = [request EXCEPT ![c].completed = TRUE, ![c].error = failed]
        /\ childConn' = IF failed THEN [childConn EXCEPT ![c] = "closed"] ELSE childConn
        /\ stage' = [stage EXCEPT ![b] = "idle"] /\ serving' = [serving EXCEPT ![b] = NoCaller]
    BY <1>4 DEF Report
  <2>2. childConn' \in [Callers -> {"open", "closed"}]
    BY <2>1 DEF IInv, BrokerTypeOK
  <2> DEFINE fate == IF failed THEN "none" ELSE "alive"
  <2>3. worker' = [worker EXCEPT ![c] = fate] /\ fate \in {"none", "alive", "dead"}
    BY <1>1, <1>2 DEF IInv, BrokerTypeOK
  <2>4. failed \in BOOLEAN
    OBVIOUS
  <2>5. IF failed THEN fate = "none" /\ ~ request[c].abandoned
        ELSE IF request[c].abandoned THEN fate # "alive" ELSE fate = "alive"
    BY <1>4 DEF Abandoned
  <2> HIDE DEF fate, failed
  <2> QED
    BY <1>1, <1>2, <2>1, <2>2, <2>3, <2>4, <2>5, LetsGo
<1> QED
  BY <1>3, <1>4

(* The thread closes the pipe of an abandoned request and kills its        *)
(* worker.                                                                 *)
LEMMA LateStep ==
  ASSUME CallersAssumption, IInv, NEW b \in Brokers, LateClose(b) \/ LateKill(b)
  PROVE  IInv'
<1> DEFINE c == serving[b]
<1>1. c \in Callers /\ c # NoCaller /\ request[c].abandoned /\ ~ request[c].completed
  <2>1. stage[b] \in {"finish", "kill"}
    BY DEF LateClose, LateKill
  <2> QED
    BY <2>1 DEF IInv, Hands, BrokerTypeOK, Asking
<1>2. CASE LateClose(b)
  <2>1. childConn' \in [Callers -> {"open", "closed"}]
    BY <1>2 DEF LateClose, IInv, BrokerTypeOK
  <2> QED
    BY <1>1, <1>2, <2>1, FinishStep DEF LateClose
<1>3. CASE LateKill(b)
  <2>1. ~ request[c].error
    BY <1>1 DEF IInv, Fates, Fate
  <2> DEFINE fate == LateKilled(c)
  <2>2. fate \in {"none", "alive", "dead"} /\ fate # "alive"
    BY <1>1 DEF LateKilled, IInv, BrokerTypeOK
  <2>3. request' = [request EXCEPT ![c].completed = TRUE]
    BY <1>3 DEF LateKill
  <2>4. request' = [request EXCEPT ![c].completed = TRUE, ![c].error = FALSE]
    <3>1. request \in [Callers -> [completed : BOOLEAN, abandoned : BOOLEAN, error : BOOLEAN]]
      BY DEF IInv, BrokerTypeOK
    <3> DEFINE r == [request[c] EXCEPT !.completed = TRUE]
               s == [request[c] EXCEPT !.completed = TRUE, !.error = FALSE]
    <3>2. r = s
      BY <1>1, <2>1, <3>1
    <3>3. request' = [request EXCEPT ![c] = r]
      BY <2>3, <3>1, <1>1
    <3>4. [request EXCEPT ![c] = s] = [request EXCEPT ![c].completed = TRUE, ![c].error = FALSE]
      BY <3>1, <1>1
    <3> QED
      BY <3>2, <3>3, <3>4
  <2>5. /\ worker' = [worker EXCEPT ![c] = fate] /\ stage' = [stage EXCEPT ![b] = "idle"]
        /\ serving' = [serving EXCEPT ![b] = NoCaller]
        /\ UNCHANGED <<current, accepting, queued, caller, mine, childConn>>
    BY <1>3 DEF LateKill
  <2>6. childConn' \in [Callers -> {"open", "closed"}]
    BY <2>5 DEF IInv, BrokerTypeOK
  <2> HIDE DEF fate
  <2> QED
    BY <1>1, <2>2, <2>4, <2>5, <2>6, LetsGo
<1> QED
  BY <1>2, <1>3

(* Every step keeps the invariant.                                         *)
LEMMA StepInv == CallersAssumption /\ IInv /\ [Next]_brokerVars => IInv'
<1> SUFFICES ASSUME CallersAssumption, IInv, [Next]_brokerVars PROVE IInv'
  OBVIOUS
<1>1. ASSUME NEW c \in Callers, CallerStep(c) \/ TimesOut(c) PROVE IInv'
  BY <1>1, PickStep, SubmitStep, TimesOutStep, GiveUpStep, AnsweredStep DEF CallerStep
<1>2. ASSUME NEW b \in Brokers, BrokerStep(b) PROVE IInv'
  BY <1>2, TakeStep, ForkStep, ReportStep, LateStep DEF BrokerStep
<1>3. CASE UNCHANGED brokerVars
  BY <1>3 DEF brokerVars, IInv, BrokerTypeOK, Brokerage, Queues, Hands, Fates, Fate, In, Once, Asking
<1> QED
  BY <1>1, <1>2, <1>3 DEF Next

(* The invariant holds in every reachable state.                           *)
THEOREM Invariance ==
  ASSUME CallersAssumption
  PROVE  Spec => []IInv
  BY InitIInv, StepInv, PTL DEF Spec

(* What the invariant says of a worker and its owner.                      *)
LEMMA Owned == ASSUME CallersAssumption, IInv PROVE WorkerHasOneOwner
<1>1. ASSUME NEW b \in Brokers, NEW c \in Callers PROVE Held(b, c) <=> serving[b] = c \/ In(queued[b], c)
  BY DEF Held, In, IInv, BrokerTypeOK
<1> SUFFICES ASSUME NEW c \in Callers
    PROVE  /\ caller[c] = "owns" => worker[c] = "alive" /\ ~ request[c].abandoned
           /\ worker[c] = "alive" /\ caller[c] # "owns"
                 => (\E b \in Brokers : Held(b, c)) # (request[c].completed /\ ~ request[c].error /\ ~ request[c].abandoned)
           /\ caller[c] = "owns" => \A b \in Brokers : ~ Held(b, c)
  BY DEF WorkerHasOneOwner
<1>2. Fate(c)
  BY DEF IInv, Fates
<1>3. ASSUME NEW b \in Brokers, Held(b, c) PROVE caller[c] \in Leaving /\ ~ request[c].completed
  BY <1>1, <1>3 DEF IInv, Queues, Hands, Asking, CallersAssumption
<1>4. caller[c] = "owns" => worker[c] = "alive" /\ ~ request[c].abandoned
  BY <1>2 DEF Fate
<1>5. caller[c] = "owns" => \A b \in Brokers : ~ Held(b, c)
  BY <1>3 DEF Leaving
<1>6. ASSUME worker[c] = "alive", caller[c] # "owns"
      PROVE  (\E b \in Brokers : Held(b, c)) # (request[c].completed /\ ~ request[c].error /\ ~ request[c].abandoned)
  <2>1. CASE request[c].completed
    <3>1. ~ request[c].error /\ ~ request[c].abandoned
      BY <1>2, <1>6, <2>1 DEF Fate
    <3> QED
      BY <1>3, <2>1, <3>1
  <2>2. CASE ~ request[c].completed
    <3>1. caller[c] \in Leaving
      BY <1>2, <1>6, <2>2 DEF Fate, Leaving, IInv, BrokerTypeOK
    <3>2. \E b \in Brokers : Held(b, c)
      BY <1>1, <1>2, <2>2, <3>1 DEF Fate
    <3> QED
      BY <2>2, <3>2
  <2> QED
    BY <2>1, <2>2
<1> QED
  BY <1>4, <1>5, <1>6

(* Caller and broker agree on whose a worker is, for any finite set of     *)
(* callers: an owned worker lives and no broker has it, and one that lives *)
(* and is not owned is either in the hands of a broker or answered to a    *)
(* caller that has not given up (_run and _finish_abandoned_request of the *)
(* broker, _start_process).                                                *)
THEOREM OneOwner ==
  ASSUME CallersAssumption
  PROVE  Spec => [](BrokerTypeOK /\ WorkerHasOneOwner)
<1>1. IInv => BrokerTypeOK /\ WorkerHasOneOwner
  BY Owned DEF IInv
<1>2. QED
  BY Invariance, <1>1, PTL
===============================================================================
