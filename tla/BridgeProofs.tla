----------------------------- MODULE BridgeProofs -----------------------------
(***************************************************************************)
(* Theorems about MqttBridge, for every number of sensors, events,         *)
(* coroutines, retries, faults and restarts: which coroutine awaits which  *)
(* record of the producer's queues, and the types that rest on it.         *)
(***************************************************************************)
EXTENDS MqttBridge, SequenceTheorems, FunctionTheorems, FiniteSetTheorems, TLAPS

-----------------------------------------------------------------------------
(* Sequences.                                                               *)

LEMMA RangeAppend ==
    ASSUME NEW S, NEW q \in Seq(S), NEW e \in S
    PROVE  Range(Append(q, e)) = Range(q) \cup {e}
<1> DEFINE n == Len(q)
<1>1. /\ DOMAIN Append(q, e) = 1 .. n + 1 /\ DOMAIN q = 1 .. n /\ n \in Nat
      /\ \A i \in 1 .. n : Append(q, e)[i] = q[i]
      /\ Append(q, e)[n + 1] = e
  BY AppendProperties, LenProperties
<1>2. 1 .. n + 1 = (1 .. n) \cup {n + 1}
  BY <1>1
<1> HIDE DEF n
<1>3. QED BY <1>1, <1>2 DEF Range

LEMMA RangeTail ==
    ASSUME NEW S, NEW q \in Seq(S), q # <<>>
    PROVE  /\ Range(q) = {Head(q)} \cup Range(Tail(q))
           /\ Head(q) \in S /\ Tail(q) \in Seq(S)
<1> DEFINE n == Len(q)
<1>1. /\ n \in Nat \ {0} /\ DOMAIN q = 1 .. n
      /\ DOMAIN Tail(q) = 1 .. n - 1
      /\ \A i \in 1 .. n - 1 : Tail(q)[i] = q[i + 1]
      /\ Head(q) = q[1]
      /\ Head(q) \in S /\ Tail(q) \in Seq(S)
  BY HeadTailProperties, LenProperties, EmptySeq
<1> HIDE DEF n
<1>2. ASSUME NEW i \in 1 .. n PROVE q[i] \in {q[1]} \cup Range(Tail(q))
  <2>1. CASE i = 1
    BY <2>1
  <2>2. CASE i # 1
    <3>1. i - 1 \in 1 .. n - 1 /\ Tail(q)[i - 1] = q[i]
      BY <1>1, <2>2
    <3>2. QED BY <1>1, <3>1 DEF Range
  <2>3. QED BY <2>1, <2>2
<1>3. ASSUME NEW i \in 1 .. n - 1 PROVE Tail(q)[i] \in Range(q)
  <2>1. i + 1 \in 1 .. n
    BY <1>1
  <2>2. QED BY <1>1, <2>1 DEF Range
<1>4. q[1] \in Range(q)
  BY <1>1 DEF Range
<1>5. Range(q) \subseteq {Head(q)} \cup Range(Tail(q))
  BY <1>1, <1>2 DEF Range
<1>6. Range(Tail(q)) \subseteq Range(q)
  BY <1>1, <1>3 DEF Range
<1>7. QED BY <1>1, <1>4, <1>5, <1>6

\* Without drops the entry at i and keeps the order of the others.
LEMMA WithoutProperties ==
    ASSUME NEW S, NEW q \in Seq(S), NEW i \in 1 .. Len(q)
    PROVE  /\ Without(q, i) \in Seq(S)
           /\ Len(Without(q, i)) = Len(q) - 1
           /\ \A k \in 1 .. Len(q) - 1 : Without(q, i)[k] = IF k < i THEN q[k] ELSE q[k + 1]
<1> DEFINE n == Len(q)
           a == SubSeq(q, 1, i - 1)
           b == SubSeq(q, i + 1, n)
<1>1. n \in Nat /\ \A k \in 1 .. n : q[k] \in S
  BY LenProperties, ElementOfSeq
<1>2. /\ a \in Seq(S) /\ Len(a) = i - 1
      /\ \A k \in 1 .. i - 1 : a[k] = q[k]
  <2>1. \A k \in 1 .. i - 1 : q[k] \in S
    BY <1>1
  <2>2. 1 \in Int /\ i - 1 \in Int
    BY <1>1
  <2>3. /\ a \in Seq(S) /\ Len(a) = IF 1 <= i - 1 THEN i - 1 - 1 + 1 ELSE 0
        /\ \A k \in 1 .. i - 1 - 1 + 1 : a[k] = q[1 + k - 1]
    BY <2>1, <2>2, SubSeqProperties
  <2>4. QED BY <1>1, <2>3
<1>3. /\ b \in Seq(S) /\ Len(b) = n - i
      /\ \A k \in 1 .. n - i : b[k] = q[i + k]
  <2>1. \A k \in i + 1 .. n : q[k] \in S
    BY <1>1
  <2>2. i + 1 \in Int /\ n \in Int
    BY <1>1
  <2>3. /\ b \in Seq(S) /\ Len(b) = IF i + 1 <= n THEN n - (i + 1) + 1 ELSE 0
        /\ \A k \in 1 .. n - (i + 1) + 1 : b[k] = q[(i + 1) + k - 1]
    BY <2>1, <2>2, SubSeqProperties
  <2>4. QED BY <1>1, <2>3
<1> HIDE DEF n, a, b
<1>4. /\ a \o b \in Seq(S) /\ Len(a \o b) = n - 1
      /\ \A k \in 1 .. n - 1 : (a \o b)[k] = IF k <= i - 1 THEN a[k] ELSE b[k - (i - 1)]
  <2>1. /\ a \o b \in Seq(S)
        /\ Len(a \o b) = Len(a) + Len(b)
        /\ \A k \in 1 .. Len(a) + Len(b) :
              (a \o b)[k] = IF k <= Len(a) THEN a[k] ELSE b[k - Len(a)]
    BY <1>2, <1>3, ConcatProperties
  <2>2. Len(a) + Len(b) = n - 1
    BY <1>1, <1>2, <1>3
  <2>3. QED BY <1>2, <2>1, <2>2
<1>5. ASSUME NEW k \in 1 .. n - 1
      PROVE  (a \o b)[k] = IF k < i THEN q[k] ELSE q[k + 1]
  <2>1. CASE k < i
    BY <1>1, <1>2, <1>4, <2>1
  <2>2. CASE ~(k < i)
    <3>1. k - (i - 1) \in 1 .. n - i /\ ~(k <= i - 1)
      BY <1>1, <2>2
    <3>2. b[k - (i - 1)] = q[i + (k - (i - 1))] /\ i + (k - (i - 1)) = k + 1
      BY <1>1, <1>3, <3>1
    <3>3. QED BY <1>4, <2>2, <3>1, <3>2
  <2>3. QED BY <2>1, <2>2
<1>6. QED BY <1>4, <1>5 DEF Without, n, a, b

\* f tells where the entries of r come from: different ones of q, all but the one at i.
LeavesOut(r, q, i, f) ==
    /\ f \in [DOMAIN r -> DOMAIN q]
    /\ \A k \in DOMAIN r : r[k] = q[f[k]] /\ f[k] # i
    /\ \A j, k \in DOMAIN r : f[j] = f[k] => j = k
    /\ \A k \in DOMAIN q \ {i} : \E j \in DOMAIN r : f[j] = k

LEMMA WithoutFrom ==
    ASSUME NEW S, NEW q \in Seq(S), NEW i \in 1 .. Len(q)
    PROVE  \E f : LeavesOut(Without(q, i), q, i, f)
<1> DEFINE f == [k \in 1 .. Len(q) - 1 |-> IF k < i THEN k ELSE k + 1]
<1>1. Len(q) \in Nat
  BY LenProperties
<1>2. f \in [1 .. Len(q) - 1 -> 1 .. Len(q)]
  BY <1>1
<1>3. \A k \in 1 .. Len(q) - 1 : Without(q, i)[k] = q[f[k]] /\ f[k] # i
  BY <1>1, WithoutProperties
<1>4. \A j, k \in 1 .. Len(q) - 1 : f[j] = f[k] => j = k
  BY <1>1
<1>5. ASSUME NEW k \in (1 .. Len(q)) \ {i} PROVE \E j \in 1 .. Len(q) - 1 : f[j] = k
  <2>1. CASE k < i
    <3>1. k \in 1 .. Len(q) - 1 /\ f[k] = k
      BY <1>1, <2>1
    <3>2. QED BY <3>1
  <2>2. CASE k > i
    <3>1. k - 1 \in 1 .. Len(q) - 1 /\ f[k - 1] = k
      BY <1>1, <2>2
    <3>2. QED BY <3>1
  <2>3. QED BY <1>1, <2>1, <2>2
<1>6. DOMAIN q = 1 .. Len(q) /\ DOMAIN Without(q, i) = 1 .. Len(q) - 1
  BY WithoutProperties, LenProperties
<1> HIDE DEF f
<1>7. LeavesOut(Without(q, i), q, i, f)
  BY <1>2, <1>3, <1>4, <1>5, <1>6 DEF LeavesOut
<1>8. QED BY <1>7

LEMMA TailIsWithout ==
    ASSUME NEW S, NEW q \in Seq(S), q # <<>>
    PROVE  Tail(q) = Without(q, 1) /\ 1 \in 1 .. Len(q)
<1>1. Len(q) \in Nat \ {0}
  BY EmptySeq
<1>2. Tail(q) = SubSeq(q, 2, Len(q)) /\ Tail(q) \in Seq(S)
  BY TailIsSubSeq, HeadTailProperties
<1>3. SubSeq(q, 1, 0) = <<>>
  BY SubSeqEmpty
<1>4. <<>> \o Tail(q) = Tail(q)
  BY <1>2, ConcatEmptySeq
<1>5. QED BY <1>1, <1>2, <1>3, <1>4 DEF Without

-----------------------------------------------------------------------------
(* The producer's queues: who awaits which record.                          *)

\* An idle publisher has no message, and one that backs off has attempts left.
JobsOK ==
    \A p \in Publishers :
        /\ job[p].pc = "idle" <=> job[p].msg = NoEvent
        /\ job[p].pc = "backoff" => job[p].tries < MaxTries

\* Each record lies in the topic of its message; a publisher that is named on one
\* awaits just that message.
RecordsOK ==
    \A t \in Topics : \A i \in DOMAIN accumulator[t] :
        LET r == accumulator[t][i]
        IN  /\ TopicOf(r.msg) = t
            /\ r.owner # NoEvent => job[r.owner].pc = "waiting" /\ job[r.owner].msg = r.msg

\* No publisher is named on two records of a topic.
OwnersOK ==
    \A t \in Topics : \A i, j \in DOMAIN accumulator[t] :
        /\ accumulator[t][i].owner # NoEvent
        /\ accumulator[t][i].owner = accumulator[t][j].owner
        => i = j

\* What a publisher awaits is in the queue.
WaitingOK ==
    \A p \in Publishers : job[p].pc = "waiting" =>
        \E i \in DOMAIN accumulator[TopicOf(job[p].msg)] :
            accumulator[TopicOf(job[p].msg)][i].owner = p

QueuesType ==
    /\ job \in [Publishers -> Job]
    /\ accumulator \in [Topics -> Seq(Record)]

QueuesInv == QueuesType /\ JobsOK /\ RecordsOK /\ OwnersOK /\ WaitingOK

LEMMA TopicOfType == \A m : TopicOf(m) \in Topics
BY DEF TopicOf, Topics

LEMMA QueueDomain ==
    ASSUME QueuesType, NEW t \in Topics
    PROVE  /\ accumulator[t] \in Seq(Record)
           /\ Len(accumulator[t]) \in Nat
           /\ DOMAIN accumulator[t] = 1 .. Len(accumulator[t])
           /\ \A i \in DOMAIN accumulator[t] : accumulator[t][i] \in Record
<1>1. accumulator[t] \in Seq(Record)
  BY DEF QueuesType
<1>2. QED BY <1>1, LenProperties, ElementOfSeq

LEMMA IdleType == Idle \in Job
BY BridgeAssumption DEF Idle, Job

\* A publisher that awaits no send may start one.
LEMMA SendingQueues ==
    ASSUME QueuesInv, NEW p \in Publishers, NEW m \in Event, NEW try \in 1 .. MaxTries,
           job[p].pc # "waiting", Sending(p, m, try)
    PROVE  QueuesInv'
<1> DEFINE topic == TopicOf(m)
           q == accumulator[topic]
           new == [msg |-> m, owner |-> p]
           mine == [msg |-> m, tries |-> try, pc |-> "waiting"]
           last == Len(q) + 1
<1>1. topic \in Topics /\ new \in Record /\ mine \in Job /\ p # NoEvent /\ m # NoEvent
  BY TopicOfType, BridgeAssumption DEF Record, Job
<1>2. /\ q \in Seq(Record) /\ Len(q) \in Nat /\ DOMAIN q = 1 .. Len(q)
      /\ accumulator[topic] = q
  BY <1>1, QueueDomain DEF QueuesInv
<1>3. job' = [job EXCEPT ![p] = mine] /\ accumulator' = [accumulator EXCEPT ![topic] = Append(q, new)]
  BY DEF Sending
<1>4. /\ Append(q, new) \in Seq(Record)
      /\ DOMAIN Append(q, new) = (DOMAIN q) \cup {last}
      /\ last \notin DOMAIN q
      /\ \A i \in DOMAIN q : Append(q, new)[i] = q[i]
      /\ Append(q, new)[last] = new
  <2>1. /\ Append(q, new) \in Seq(Record)
        /\ Len(Append(q, new)) = last
        /\ \A i \in 1 .. Len(q) : Append(q, new)[i] = q[i]
        /\ Append(q, new)[last] = new
    BY <1>1, <1>2, AppendProperties
  <2>2. DOMAIN Append(q, new) = 1 .. last
    BY <2>1, LenProperties
  <2>3. 1 .. last = (1 .. Len(q)) \cup {last} /\ last \notin 1 .. Len(q)
    BY <1>2
  <2>4. QED BY <1>2, <2>1, <2>2, <2>3
<1>5. QueuesType'
  BY <1>1, <1>3, <1>4 DEF QueuesInv, QueuesType
<1>6. /\ job'[p] = mine /\ \A o \in Publishers \ {p} : job'[o] = job[o]
      /\ accumulator'[topic] = Append(q, new)
      /\ \A t \in Topics \ {topic} : accumulator'[t] = accumulator[t]
  BY <1>1, <1>3 DEF QueuesInv, QueuesType
<1>7. mine.pc = "waiting" /\ mine.msg = m /\ new.msg = m /\ new.owner = p
  OBVIOUS
<1>8. \A t \in Topics : \A i \in DOMAIN accumulator[t] :
         accumulator[t][i].owner # p
  BY <1>1 DEF QueuesInv, RecordsOK
<1>9. \A t \in Topics : \A i \in DOMAIN accumulator[t] :
         accumulator[t][i].owner # NoEvent => accumulator[t][i].owner \in Publishers \ {p}
  <2>1. \A t \in Topics : \A i \in DOMAIN accumulator[t] : accumulator[t][i] \in Record
    BY QueueDomain DEF QueuesInv
  <2>2. QED BY <1>8, <2>1 DEF Record
<1> HIDE DEF topic, q, new, mine, last
<1>10. JobsOK'
  <2> SUFFICES ASSUME NEW o \in Publishers
               PROVE  /\ job'[o].pc = "idle" <=> job'[o].msg = NoEvent
                      /\ job'[o].pc = "backoff" => job'[o].tries < MaxTries
    BY DEF JobsOK
  <2>1. CASE o = p
    BY <1>1, <1>6, <1>7, <2>1
  <2>2. CASE o # p
    BY <1>6, <2>2 DEF QueuesInv, JobsOK
  <2>3. QED BY <2>1, <2>2
<1>11. RecordsOK'
  <2> SUFFICES ASSUME NEW t \in Topics, NEW i \in DOMAIN accumulator'[t]
               PROVE  LET r == accumulator'[t][i]
                      IN  /\ TopicOf(r.msg) = t
                          /\ r.owner # NoEvent =>
                                job'[r.owner].pc = "waiting" /\ job'[r.owner].msg = r.msg
    BY DEF RecordsOK, TopicOf
  <2>1. CASE t = topic /\ i = last
    BY <1>4, <1>6, <1>7, <2>1 DEF topic
  <2>2. CASE ~(t = topic /\ i = last)
    <3>1. i \in DOMAIN accumulator[t] /\ accumulator'[t][i] = accumulator[t][i]
      BY <1>2, <1>4, <1>6, <2>2
    <3>2. QED BY <1>6, <1>9, <3>1 DEF QueuesInv, RecordsOK
  <2>3. QED BY <2>1, <2>2
<1>12. OwnersOK'
  <2> SUFFICES ASSUME NEW t \in Topics,
                      NEW i \in DOMAIN accumulator'[t], NEW j \in DOMAIN accumulator'[t],
                      accumulator'[t][i].owner # NoEvent,
                      accumulator'[t][i].owner = accumulator'[t][j].owner
               PROVE  i = j
    BY DEF OwnersOK
  <2>1. CASE t # topic
    BY <1>6, <2>1 DEF QueuesInv, OwnersOK
  <2>2. CASE t = topic
    <3>1. ASSUME NEW k \in DOMAIN accumulator'[t]
          PROVE  \/ k = last /\ accumulator'[t][k].owner = p
                 \/ /\ k \in DOMAIN accumulator[t] /\ accumulator[t][k].owner # p
                    /\ accumulator'[t][k] = accumulator[t][k]
      BY <1>2, <1>4, <1>6, <1>7, <1>8, <2>2, SMTT(30)
    <3>2. QED BY <3>1 DEF QueuesInv, OwnersOK
  <2>3. QED BY <2>1, <2>2
<1>13. WaitingOK'
  <2> SUFFICES ASSUME NEW o \in Publishers, job'[o].pc = "waiting"
               PROVE  \E i \in DOMAIN accumulator'[TopicOf(job'[o].msg)] :
                         accumulator'[TopicOf(job'[o].msg)][i].owner = o
    BY DEF WaitingOK, TopicOf
  <2>1. CASE o = p
    <3>1. TopicOf(job'[o].msg) = topic
      BY <1>6, <1>7, <2>1 DEF topic
    <3>2. last \in DOMAIN accumulator'[topic] /\ accumulator'[topic][last].owner = o
      BY <1>4, <1>6, <1>7, <2>1
    <3>3. QED BY <3>1, <3>2
  <2>2. CASE o # p
    <3> DEFINE t == TopicOf(job[o].msg)
    <3>1. job'[o] = job[o] /\ t \in Topics
      BY <1>6, <2>2, TopicOfType
    <3>2. PICK i \in DOMAIN accumulator[t] : accumulator[t][i].owner = o
      BY <3>1 DEF QueuesInv, WaitingOK
    <3>3. i \in DOMAIN accumulator'[t] /\ accumulator'[t][i] = accumulator[t][i]
      BY <1>2, <1>4, <1>6, <3>1, <3>2
    <3>4. QED BY <3>1, <3>2, <3>3
  <2>3. QED BY <2>1, <2>2
<1>14. QED BY <1>5, <1>10, <1>11, <1>12, <1>13 DEF QueuesInv

\* ... with the one at i perhaps still among them, but without its owner.
Releases(r, q, i, f) ==
    /\ r \in Seq(Record) /\ f \in [DOMAIN r -> DOMAIN q]
    /\ \A j, k \in DOMAIN r : f[j] = f[k] => j = k
    /\ \A k \in DOMAIN q \ {i} : \E j \in DOMAIN r : f[j] = k
    /\ \A k \in DOMAIN r :
          IF f[k] = i THEN r[k].owner = NoEvent /\ r[k].msg = q[i].msg
                      ELSE r[k] = q[f[k]]

\* Whoever awaited the record at i of topic t goes on; nobody else does.
OwnerGoesOn(t, i) ==
    /\ job' \in [Publishers -> Job]
    /\ \A o \in Publishers :
          IF o = accumulator[t][i].owner THEN job'[o].pc # "waiting" ELSE job'[o] = job[o]

\* The record at i of topic t is gone or has lost its owner.
LEMMA ShrinkQueues ==
    ASSUME QueuesInv, NEW t \in Topics, NEW i \in DOMAIN accumulator[t],
           NEW r, NEW f, Releases(r, accumulator[t], i, f),
           accumulator' = [accumulator EXCEPT ![t] = r],
           OwnerGoesOn(t, i), JobsOK'
    PROVE  QueuesInv'
<1> USE DEF Releases, OwnerGoesOn
<1> DEFINE q == accumulator[t]
<1>1. accumulator'[t] = r /\ \A u \in Topics \ {t} : accumulator'[u] = accumulator[u]
  BY DEF QueuesInv, QueuesType
<1>2. QueuesType'
  BY DEF QueuesInv, QueuesType
\* No other record names the owner of the one at i.
<1>3. \A u \in Topics : \A k \in DOMAIN accumulator[u] :
         /\ accumulator[u][k].owner # NoEvent
         /\ ~(u = t /\ k = i)
         => /\ accumulator[u][k].owner \in Publishers
            /\ accumulator[u][k].owner # q[i].owner
            /\ job'[accumulator[u][k].owner] = job[accumulator[u][k].owner]
  <2> SUFFICES ASSUME NEW u \in Topics, NEW k \in DOMAIN accumulator[u],
                      accumulator[u][k].owner # NoEvent, ~(u = t /\ k = i)
               PROVE  /\ accumulator[u][k].owner \in Publishers
                      /\ accumulator[u][k].owner # q[i].owner
    OBVIOUS
  <2>1. accumulator[u][k] \in Record /\ q[i] \in Record
    BY QueueDomain DEF QueuesInv
  <2>2. accumulator[u][k].owner \in Publishers
    BY <2>1 DEF Record
  <2>3. ASSUME accumulator[u][k].owner = q[i].owner PROVE FALSE
    <3>1. job[q[i].owner].msg = q[i].msg /\ TopicOf(q[i].msg) = t
      BY <2>3 DEF QueuesInv, RecordsOK
    <3>2. job[q[i].owner].msg = accumulator[u][k].msg /\ TopicOf(accumulator[u][k].msg) = u
      BY <2>3 DEF QueuesInv, RecordsOK
    <3>3. u = t
      BY <3>1, <3>2
    <3>4. k = i
      BY <2>3, <3>3 DEF QueuesInv, OwnersOK
    <3>5. QED BY <3>3, <3>4
  <2>4. QED BY <2>2, <2>3
<1>4. ASSUME NEW u \in Topics, NEW k \in DOMAIN accumulator'[u],
             accumulator'[u][k].owner # NoEvent
      PROVE  \E l \in DOMAIN accumulator[u] :
                /\ accumulator'[u][k] = accumulator[u][l] /\ ~(u = t /\ l = i)
                /\ IF u = t THEN l = f[k] ELSE l = k
  <2>1. CASE u = t
    BY <1>1, <1>4, <2>1, SMTT(30)
  <2>2. CASE u # t
    BY <1>1, <2>2
  <2>3. QED BY <2>1, <2>2
<1>5. RecordsOK'
  <2> SUFFICES ASSUME NEW u \in Topics, NEW k \in DOMAIN accumulator'[u]
               PROVE  LET x == accumulator'[u][k]
                      IN  /\ TopicOf(x.msg) = u
                          /\ x.owner # NoEvent =>
                                job'[x.owner].pc = "waiting" /\ job'[x.owner].msg = x.msg
    BY DEF RecordsOK, TopicOf
  <2>1. CASE accumulator'[u][k].owner # NoEvent
    BY <1>3, <1>4, <2>1 DEF QueuesInv, RecordsOK
  <2>2. CASE accumulator'[u][k].owner = NoEvent
    <3>1. \E l \in DOMAIN accumulator[u] : accumulator'[u][k].msg = accumulator[u][l].msg
      BY <1>1
    <3>2. QED BY <2>2, <3>1 DEF QueuesInv, RecordsOK
  <2>3. QED BY <2>1, <2>2
<1>6. OwnersOK'
  <2> SUFFICES ASSUME NEW u \in Topics,
                      NEW k \in DOMAIN accumulator'[u], NEW l \in DOMAIN accumulator'[u],
                      accumulator'[u][k].owner # NoEvent,
                      accumulator'[u][k].owner = accumulator'[u][l].owner
               PROVE  k = l
    BY DEF OwnersOK
  <2>1. PICK m \in DOMAIN accumulator[u] :
           /\ accumulator'[u][k] = accumulator[u][m]
           /\ IF u = t THEN m = f[k] ELSE m = k
    BY <1>4
  <2>2. PICK n \in DOMAIN accumulator[u] :
           /\ accumulator'[u][l] = accumulator[u][n]
           /\ IF u = t THEN n = f[l] ELSE n = l
    BY <1>4
  <2>3. m = n
    BY <2>1, <2>2 DEF QueuesInv, OwnersOK
  <2>4. QED BY <1>1, <2>1, <2>2, <2>3
<1>7. WaitingOK'
  <2> SUFFICES ASSUME NEW o \in Publishers, job'[o].pc = "waiting"
               PROVE  \E k \in DOMAIN accumulator'[TopicOf(job'[o].msg)] :
                         accumulator'[TopicOf(job'[o].msg)][k].owner = o
    BY DEF WaitingOK, TopicOf
  <2> DEFINE u == TopicOf(job[o].msg)
  <2>1. o # q[i].owner /\ job'[o] = job[o] /\ u \in Topics
    BY TopicOfType
  <2>2. PICK k \in DOMAIN accumulator[u] : accumulator[u][k].owner = o
    BY <2>1 DEF QueuesInv, WaitingOK
  <2>3. \E l \in DOMAIN accumulator'[u] : accumulator'[u][l].owner = o
    <3>1. CASE u = t
      <4>1. k # i
        BY <2>1, <2>2, <3>1
      <4>2. PICK l \in DOMAIN r : f[l] = k
        BY <2>2, <3>1, <4>1
      <4>3. r[l].owner = o
        BY <2>2, <3>1, <4>1, <4>2
      <4>4. QED BY <1>1, <3>1, <4>3
    <3>2. CASE u # t
      BY <1>1, <2>1, <2>2, <3>2
    <3>3. QED BY <3>1, <3>2
  <2>4. QED BY <2>1, <2>3
<1>8. QED BY <1>2, <1>5, <1>6, <1>7 DEF QueuesInv

\* ... and it is gone.
LEMMA RemoveFromQueues ==
    ASSUME QueuesInv, NEW t \in Topics, NEW i \in DOMAIN accumulator[t],
           accumulator' = [accumulator EXCEPT ![t] = Without(accumulator[t], i)],
           OwnerGoesOn(t, i), JobsOK'
    PROVE  QueuesInv'
<1> DEFINE q == accumulator[t]
<1> PICK r : r = Without(q, i)
  OBVIOUS
<1>1. q \in Seq(Record) /\ Len(q) \in Nat /\ DOMAIN q = 1 .. Len(q) /\ i \in 1 .. Len(q)
  BY QueueDomain DEF QueuesInv
<1>2. r \in Seq(Record) /\ DOMAIN r = 1 .. Len(q) - 1
  BY <1>1, WithoutProperties, LenProperties
<1>3. PICK f : LeavesOut(r, q, i, f)
  BY <1>1, WithoutFrom
<1>4. /\ f \in [DOMAIN r -> DOMAIN q]
      /\ \A j, k \in DOMAIN r : f[j] = f[k] => j = k
      /\ \A k \in DOMAIN q \ {i} : \E j \in DOMAIN r : f[j] = k
      /\ \A k \in DOMAIN r : f[k] # i /\ r[k] = q[f[k]]
  BY <1>3 DEF LeavesOut
<1>5. Releases(r, accumulator[t], i, f)
  BY <1>2, <1>4 DEF Releases
<1>6. accumulator' = [accumulator EXCEPT ![t] = r]
  OBVIOUS
<1>7. QED BY <1>5, <1>6, ShrinkQueues

\* The owner of the record at i is told that it was cut off.
LEMMA OrphanInQueues ==
    ASSUME QueuesInv, NEW t \in Topics, NEW i \in DOMAIN accumulator[t],
           accumulator' = [accumulator EXCEPT ![t] =
                              [accumulator[t] EXCEPT ![i].owner = NoEvent]],
           OwnerGoesOn(t, i), JobsOK'
    PROVE  QueuesInv'
<1> DEFINE q == accumulator[t]
<1> PICK r : r = [q EXCEPT ![i].owner = NoEvent]
  OBVIOUS
<1>1. q \in Seq(Record) /\ DOMAIN q = 1 .. Len(q) /\ q[i] \in Record
  BY QueueDomain DEF QueuesInv
<1>2. [q[i] EXCEPT !.owner = NoEvent] \in Record
  BY <1>1 DEF Record
<1>3. r = [q EXCEPT ![i] = [q[i] EXCEPT !.owner = NoEvent]]
  OBVIOUS
<1>4. r \in Seq(Record) /\ DOMAIN r = DOMAIN q
  BY <1>1, <1>2, <1>3, ExceptSeq
<1>5. r[i].owner = NoEvent /\ r[i].msg = q[i].msg
  BY <1>1, <1>3 DEF Record
<1>6. \A k \in DOMAIN r \ {i} : r[k] = q[k]
  BY <1>3, <1>4
<1>7. PICK f : f = [k \in DOMAIN q |-> k]
  OBVIOUS
<1>8. Releases(r, q, i, f)
  BY <1>4, <1>5, <1>6, <1>7 DEF Releases
<1>9. accumulator' = [accumulator EXCEPT ![t] = r]
  OBVIOUS
<1>10. QED BY <1>8, <1>9, ShrinkQueues

\* Publishers that await nothing change, and still await nothing.
NobodyWaits ==
    /\ UNCHANGED accumulator /\ job' \in [Publishers -> Job]
    /\ \A o \in Publishers :
          job'[o] = job[o] \/ (job[o].pc # "waiting" /\ job'[o].pc # "waiting")

LEMMA SettledQueues ==
    ASSUME QueuesInv, NobodyWaits, JobsOK'
    PROVE  QueuesInv'
<1> USE DEF NobodyWaits
<1>1. QueuesType'
  BY DEF QueuesInv, QueuesType
<1>2. \A t \in Topics : \A i \in DOMAIN accumulator[t] :
         accumulator[t][i].owner # NoEvent => accumulator[t][i].owner \in Publishers
  BY QueueDomain DEF QueuesInv, Record
<1>3. RecordsOK' /\ OwnersOK'
  BY <1>2 DEF QueuesInv, RecordsOK, OwnersOK, TopicOf
<1>4. WaitingOK'
  <2> SUFFICES ASSUME NEW p \in Publishers, job'[p].pc = "waiting"
               PROVE  \E i \in DOMAIN accumulator[TopicOf(job'[p].msg)] :
                         accumulator[TopicOf(job'[p].msg)][i].owner = p
    BY DEF WaitingOK, TopicOf
  <2>1. job'[p] = job[p]
    OBVIOUS
  <2>2. QED BY <2>1 DEF QueuesInv, WaitingOK
<1>5. QED BY <1>1, <1>3, <1>4 DEF QueuesInv

LEMMA FirstRecord ==
    ASSUME QueuesType, NEW t \in Topics, accumulator[t] # <<>>
    PROVE  /\ 1 \in DOMAIN accumulator[t]
           /\ Head(accumulator[t]) = accumulator[t][1]
           /\ Tail(accumulator[t]) = Without(accumulator[t], 1)
           /\ accumulator[t][1] \in Record
<1>1. accumulator[t] \in Seq(Record)
  BY QueueDomain
<1>2. 1 \in DOMAIN accumulator[t] /\ Tail(accumulator[t]) = Without(accumulator[t], 1)
  BY <1>1, TailIsWithout, LenProperties
<1>3. QED BY <1>1, <1>2, QueueDomain

LEMMA NextQueues ==
    ASSUME TypeOK, QueuesInv, [BridgeNext]_vars
    PROVE  QueuesInv'
<1>0. scheduled \in Seq(Event) /\ spool \in Seq(Event) /\ drainList \in Seq(Event)
  BY DEF TypeOK
<1>1. 1 \in 1 .. MaxTries /\ QueuesType /\ JobsOK /\ MaxTries \in Nat
  BY BridgeAssumption DEF QueuesInv
<1>2. ASSUME UNCHANGED <<job, accumulator>> PROVE QueuesInv'
  BY <1>2 DEF QueuesInv, QueuesType, JobsOK, RecordsOK, OwnersOK, WaitingOK, TopicOf
<1>3. ASSUME NEW p \in Publishers, job' = [job EXCEPT ![p] = Idle]
      PROVE  job' \in [Publishers -> Job] /\ JobsOK' /\ job'[p].pc # "waiting"
  BY <1>1, <1>3, IdleType DEF QueuesType, JobsOK, Idle
<1>4. ASSUME NEW p \in Publishers, job[p].pc # "waiting", job' = [job EXCEPT ![p] = Idle],
             UNCHANGED accumulator
      PROVE  QueuesInv'
  <2>1. NobodyWaits
    BY <1>1, <1>3, <1>4 DEF NobodyWaits, QueuesType
  <2>2. QED BY <1>3, <1>4, <2>1, SettledQueues
<1>5. ASSUME NEW e \in Event, MessageArrives(e) PROVE QueuesInv'
  BY <1>2, <1>5 DEF MessageArrives
<1>6. ASSUME NEW h \in Handlers, StartHandler(h) PROVE QueuesInv'
  <2>1. CASE producerReady
    <3>1. Head(scheduled) \in Event /\ job[h].pc # "waiting" /\ h \in Publishers
      BY <1>0, <1>6, RangeTail DEF StartHandler, Publishers
    <3>2. Sending(h, Head(scheduled), 1)
      BY <1>6, <2>1 DEF StartHandler
    <3>3. QED BY <1>1, <3>1, <3>2, SendingQueues
  <2>2. CASE ~producerReady
    BY <1>2, <1>6, <2>2 DEF StartHandler
  <2>3. QED BY <2>1, <2>2
<1>7. ASSUME NEW h \in Handlers, HandlerDone(h) PROVE QueuesInv'
  BY <1>4, <1>7 DEF HandlerDone, Publishers
<1>8. ASSUME NEW p \in Publishers, AttemptFails(p) PROVE QueuesInv'
  <2> DEFINE topic == TopicOf(job[p].msg)
  <2>0. topic \in Topics
    BY TopicOfType
  <2>1. job[p].pc = "waiting"
    BY <1>8 DEF AttemptFails
  <2>2. PICK i : i = CHOOSE k \in DOMAIN accumulator[topic] : accumulator[topic][k].owner = p
    OBVIOUS
  <2>3. i \in DOMAIN accumulator[topic] /\ accumulator[topic][i].owner = p
    BY <2>1, <2>2 DEF QueuesInv, WaitingOK
  <2>4. JobsOK' /\ OwnerGoesOn(topic, i)
    <3>1. CASE job[p].tries < MaxTries
      <4>1. job' = [job EXCEPT ![p].pc = "backoff"]
        BY <1>8, <3>1 DEF AttemptFails
      <4>2. [job[p] EXCEPT !.pc = "backoff"] \in Job
        BY <1>1 DEF QueuesType, Job
      <4>3. job' \in [Publishers -> Job]
        BY <1>1, <4>1, <4>2 DEF QueuesType
      <4>4. /\ job'[p].pc = "backoff" /\ job'[p].tries = job[p].tries
            /\ job'[p].msg = job[p].msg
            /\ \A o \in Publishers \ {p} : job'[o] = job[o]
        BY <1>1, <4>1 DEF QueuesType, Job
      <4>5. QED BY <1>1, <2>1, <2>3, <3>1, <4>3, <4>4 DEF JobsOK, OwnerGoesOn
    <3>2. CASE ~(job[p].tries < MaxTries)
      <4>1. job' = [job EXCEPT ![p] = Idle]
        BY <1>8, <3>2 DEF AttemptFails
      <4>2. \A o \in Publishers \ {p} : job'[o] = job[o]
        BY <1>1, <4>1 DEF QueuesType
      <4>3. QED BY <1>3, <2>3, <4>1, <4>2 DEF OwnerGoesOn
    <3>3. QED BY <3>1, <3>2
  <2>5. PICK stays \in BOOLEAN : accumulator' = Abandoned(p, stays)
    BY <1>8 DEF AttemptFails
  <2>6. CASE stays
    <3>1. accumulator' = [accumulator EXCEPT ![topic] =
                             [accumulator[topic] EXCEPT ![i].owner = NoEvent]]
      BY <2>2, <2>5, <2>6 DEF Abandoned
    <3>2. PICK t \in Topics : t = topic
      BY <2>0
    <3>3. QED BY <2>3, <2>4, <3>1, <3>2, OrphanInQueues
  <2>7. CASE ~stays
    <3>1. accumulator' = [accumulator EXCEPT ![topic] = Without(accumulator[topic], i)]
      BY <2>2, <2>5, <2>7 DEF Abandoned
    <3>2. PICK t \in Topics : t = topic
      BY <2>0
    <3>3. QED BY <2>3, <2>4, <3>1, <3>2, RemoveFromQueues
  <2>8. QED BY <2>6, <2>7
<1>9. ASSUME NEW p \in Publishers, Retry(p) PROVE QueuesInv'
  <2>1. /\ job[p].pc = "backoff" /\ job[p].pc # "waiting"
        /\ job[p].msg \in Event
        /\ job[p].tries + 1 \in 1 .. MaxTries
    BY <1>1, <1>9 DEF Retry, JobsOK, QueuesType, Job
  <2>2. Sending(p, job[p].msg, job[p].tries + 1)
    BY <1>9 DEF Retry
  <2>3. QED BY <2>1, <2>2, SendingQueues
<1>10. CASE DrainStarts
  <2>1. Head(spool) \in Event /\ job[Drainer].pc # "waiting" /\ Drainer \in Publishers
    BY <1>0, <1>10, RangeTail DEF DrainStarts, Publishers
  <2>2. Sending(Drainer, Head(spool), 1)
    BY <1>10 DEF DrainStarts
  <2>3. QED BY <1>1, <2>1, <2>2, SendingQueues
<1>11. CASE DrainGoesOn
  <2>1. job[Drainer].pc # "waiting" /\ Drainer \in Publishers
    BY <1>11 DEF DrainGoesOn, Publishers
  <2>2. CASE drainList = <<>>
    BY <1>4, <1>11, <2>1, <2>2 DEF DrainGoesOn
  <2>3. CASE drainList # <<>>
    <3>1. Head(drainList) \in Event
      BY <1>0, <2>3, RangeTail
    <3>2. Sending(Drainer, Head(drainList), 1)
      BY <1>11, <2>3 DEF DrainGoesOn
    <3>3. QED BY <1>1, <2>1, <3>1, <3>2, SendingQueues
  <2>4. QED BY <2>2, <2>3
<1>12. CASE ProducerStarts
  BY <1>2, <1>12 DEF ProducerStarts, publishVars
<1>13. ASSUME NEW t \in Topics, RecordWritten(t) PROVE QueuesInv'
  <2> DEFINE owner == accumulator[t][1].owner
  <2>1. /\ 1 \in DOMAIN accumulator[t]
        /\ Head(accumulator[t]) = accumulator[t][1]
        /\ Tail(accumulator[t]) = Without(accumulator[t], 1)
        /\ accumulator[t][1] \in Record
    BY <1>1, <1>13, FirstRecord DEF RecordWritten
  <2>2. accumulator' = [accumulator EXCEPT ![t] = Without(accumulator[t], 1)]
    BY <1>13, <2>1 DEF RecordWritten
  <2>3. job' = [p \in Publishers |->
                   IF p = owner THEN [job[p] EXCEPT !.pc = "sent"] ELSE job[p]]
    BY <1>13, <2>1 DEF RecordWritten
  <2>4. \A p \in Publishers : [job[p] EXCEPT !.pc = "sent"] \in Job
    BY <1>1 DEF QueuesType, Job
  <2>5. job' \in [Publishers -> Job]
    BY <1>1, <2>3, <2>4 DEF QueuesType
  <2>6. ASSUME NEW p \in Publishers
        PROVE  IF p = owner
               THEN job'[p].pc = "sent" /\ job'[p].msg = job[p].msg /\ job[p].pc = "waiting"
               ELSE job'[p] = job[p]
    <3>1. CASE p = owner
      <4>1. job[p].pc = "waiting"
        BY <2>1, <3>1, BridgeAssumption DEF QueuesInv, RecordsOK
      <4>2. job'[p].pc = "sent" /\ job'[p].msg = job[p].msg
        BY <1>1, <2>3, <3>1 DEF QueuesType, Job
      <4>3. QED BY <3>1, <4>1, <4>2
    <3>2. CASE p # owner
      BY <2>3, <3>2
    <3>3. QED BY <3>1, <3>2
  <2>7. JobsOK'
    BY <1>1, <2>6 DEF JobsOK
  <2>8. OwnerGoesOn(t, 1)
    BY <2>5, <2>6 DEF OwnerGoesOn
  <2>9. QED BY <2>1, <2>2, <2>7, <2>8, RemoveFromQueues
<1>14. ASSUME NEW t \in Topics, ReplyLost(t) PROVE QueuesInv'
  BY <1>2, <1>14 DEF ReplyLost, publishVars
<1>15. ASSUME NEW t \in Topics, RecordExpires(t) PROVE QueuesInv'
  <2>1. /\ 1 \in DOMAIN accumulator[t] /\ accumulator[t][1].owner = NoEvent
        /\ accumulator' = [accumulator EXCEPT ![t] = Without(accumulator[t], 1)]
        /\ UNCHANGED job
    BY <1>1, <1>15, FirstRecord DEF RecordExpires
  <2>2. OwnerGoesOn(t, 1)
    BY <1>1, <2>1, BridgeAssumption DEF OwnerGoesOn, QueuesType
  <2>3. JobsOK'
    BY <1>1, <2>1 DEF JobsOK
  <2>4. QED BY <2>1, <2>2, <2>3, RemoveFromQueues
<1>16. CASE KafkaChanges
  BY <1>2, <1>16 DEF KafkaChanges, publishVars
<1>17. CASE MqttDisconnects \/ MqttConnects \/ ProcessStarts
  BY <1>2, <1>17 DEF MqttDisconnects, MqttConnects, ProcessStarts, publishVars
<1>18. CASE ProcessEnds
  <2>1. job' = [p \in Publishers |-> Idle] /\ accumulator' = [t \in Topics |-> <<>>]
    BY <1>18 DEF ProcessEnds
  <2>2. QueuesType'
    BY <2>1, IdleType DEF QueuesType
  <2>3. \A t \in Topics : DOMAIN accumulator'[t] = {}
    BY <2>1
  <2>4. \A p \in Publishers : job'[p] = Idle
    BY <2>1
  <2>5. QED
    BY <2>2, <2>3, <2>4
    DEF QueuesInv, JobsOK, RecordsOK, OwnersOK, WaitingOK, Idle
<1>19. CASE UNCHANGED vars
  BY <1>2, <1>19 DEF vars, publishVars
<1>20. QED
  BY <1>5, <1>6, <1>7, <1>8, <1>9, <1>10, <1>11, <1>12, <1>13, <1>14, <1>15, <1>16,
     <1>17, <1>18, <1>19
  DEF BridgeNext, Handle, Publish, Drain, Kafka, Process

-----------------------------------------------------------------------------
(* The bridge.                                                              *)

BridgeTypeInv == TypeOK /\ QueuesInv

LEMMA InitBridgeType == Init => BridgeTypeInv
<1> SUFFICES ASSUME Init PROVE BridgeTypeInv
  OBVIOUS
<1> USE DEF Init
<1>1. \A p \in Publishers : job[p] = Idle
  OBVIOUS
<1>2. \A t \in Topics : accumulator[t] = <<>> /\ DOMAIN accumulator[t] = {}
  OBVIOUS
<1>3. QueuesType
  BY IdleType DEF QueuesType
<1>4. QueuesInv
  BY <1>1, <1>2, <1>3 DEF QueuesInv, JobsOK, RecordsOK, OwnersOK, WaitingOK, Idle
<1>5. \A S : <<>> \in Seq(S)
  BY EmptySeq
<1>6. scheduled \in Seq(Event) /\ drainList \in Seq(Event) /\ spool \in Seq(Event)
  BY <1>5
<1>7. log \in [Topics -> Seq(Event)]
  BY <1>5
<1>8. /\ puback \subseteq accepted /\ accepted \subseteq Event /\ excused \subseteq Event
      /\ {running, subscribed, producerReady, kafkaUp} \subseteq BOOLEAN
  OBVIOUS
<1>9. messages \in 0 .. MaxMessages /\ troubles \in 0 .. MaxTroubles /\ stops \in 0 .. MaxStops
  BY BridgeAssumption
<1>10. TypeOK
  BY <1>3, <1>6, <1>7, <1>8, <1>9 DEF TypeOK, QueuesType
<1>11. QED BY <1>4, <1>10 DEF BridgeTypeInv

\* BridgeSpool.enqueue appends a message that is not there.
LEMMA SpooledProperties ==
    ASSUME spool \in Seq(Event), NEW m \in Event
    PROVE  /\ Spooled(m) \in Seq(Event)
           /\ Range(Spooled(m)) = Range(spool) \cup {m}
<1>1. CASE InSpool(m)
  BY <1>1 DEF Spooled, InSpool
<1>2. CASE ~InSpool(m)
  <2>1. Spooled(m) = Append(spool, m)
    BY <1>2 DEF Spooled
  <2>2. QED BY <2>1, AppendProperties, RangeAppend
<1>3. QED BY <1>1, <1>2

LEMMA GiveUpProperties ==
    ASSUME spool \in Seq(Event), drainList \in Seq(Event), NEW p \in Publishers,
           NEW m \in Event, GiveUp(p, m)
    PROVE  /\ spool' \in Seq(Event) /\ drainList' \in Seq(Event)
           /\ Range(spool) \subseteq Range(spool')
           /\ p # Drainer /\ m \notin Malformed => m \in Range(spool')
           /\ spool' = spool \/ (m \notin Malformed /\ spool' = Spooled(m))
<1>1. CASE p = Drainer
  <2>1. drainList' = <<>> /\ spool' = spool
    BY <1>1 DEF GiveUp
  <2>2. QED BY <1>1, <2>1, EmptySeq
<1>2. CASE p # Drainer /\ m \in Malformed
  BY <1>2 DEF GiveUp
<1>3. CASE p # Drainer /\ m \notin Malformed
  <2>1. drainList' = drainList /\ spool' = Spooled(m)
    BY <1>3 DEF GiveUp
  <2>2. PICK s : s = Spooled(m)
    OBVIOUS
  <2>3. s \in Seq(Event) /\ Range(s) = Range(spool) \cup {m}
    BY <2>2, SpooledProperties
  <2>4. spool' = s
    BY <2>1, <2>2
  <2>5. QED BY <1>3, <2>1, <2>3, <2>4
<1>4. QED BY <1>1, <1>2, <1>3

\* The row of the message that was sent, where the spool has it
LEMMA RemovedProperties ==
    ASSUME spool \in Seq(Event), NEW m, m = job[Drainer].msg
    PROVE  /\ Removed \in Seq(Event)
           /\ Range(Removed) \subseteq Range(spool)
           /\ \A e \in Range(spool) : e # m => e \in Range(Removed)
           /\ Removed = spool \/ \E i \in 1 .. Len(spool) : Removed = Without(spool, i)
<1>0. DOMAIN spool = 1 .. Len(spool) /\ Len(spool) \in Nat
  BY LenProperties
<1>1. CASE InSpool(m)
  <2>1. PICK i : i = CHOOSE k \in DOMAIN spool : spool[k] = m
    OBVIOUS
  <2>2. i \in 1 .. Len(spool) /\ spool[i] = m
    BY <1>0, <1>1, <2>1 DEF InSpool, Range
  <2>3. Removed = Without(spool, i)
    BY <1>1, <2>1 DEF Removed
  <2>4. PICK r : r = Without(spool, i)
    OBVIOUS
  <2>5. PICK f : LeavesOut(r, spool, i, f)
    BY <2>2, <2>4, WithoutFrom
  <2>6. r \in Seq(Event)
    BY <2>2, <2>4, WithoutProperties
  <2>7. ASSUME NEW e \in Range(spool), e # m PROVE e \in Range(r)
    <3>1. PICK k \in DOMAIN spool : spool[k] = e
      BY DEF Range
    <3>2. k # i
      BY <2>2, <2>7, <3>1
    <3>3. PICK j \in DOMAIN r : f[j] = k
      BY <2>5, <3>2 DEF LeavesOut
    <3>4. r[j] = e
      BY <2>5, <3>1, <3>3 DEF LeavesOut
    <3>5. QED BY <3>4 DEF Range
  <2>8. Range(r) \subseteq Range(spool)
    <3>1. \A k \in DOMAIN r : f[k] \in DOMAIN spool /\ r[k] = spool[f[k]]
      BY <2>5 DEF LeavesOut
    <3>2. QED BY <3>1 DEF Range
  <2>9. QED BY <2>2, <2>3, <2>4, <2>6, <2>7, <2>8
<1>2. CASE ~InSpool(m)
  BY <1>2 DEF Removed
<1>3. QED BY <1>1, <1>2

LEMMA NextBridgeType == ASSUME BridgeTypeInv, [BridgeNext]_vars PROVE BridgeTypeInv'
<1>0. TypeOK /\ QueuesInv /\ QueuesInv'
  BY NextQueues DEF BridgeTypeInv
<1>1. QueuesType' /\ QueuesType
  BY <1>0 DEF QueuesInv
<1> SUFFICES TypeOK'
  BY <1>0 DEF BridgeTypeInv
<1> USE <1>0, <1>1 DEF TypeOK, QueuesType
<1>2. ASSUME NEW e \in Event, MessageArrives(e) PROVE TypeOK'
  <2>1. Append(scheduled, e) \in Seq(Event)
    BY AppendProperties
  <2>2. scheduled' \in Seq(Event)
    BY <1>2, <2>1 DEF MessageArrives
  <2>3. /\ puback' \subseteq accepted' /\ accepted' \subseteq Event
        /\ excused' \subseteq Event /\ messages' \in 0 .. MaxMessages
    BY <1>2, BridgeAssumption DEF MessageArrives
  <2>4. QED BY <1>2, <2>2, <2>3 DEF MessageArrives, processVars, kafkaVars
<1>3. ASSUME NEW h \in Handlers, StartHandler(h) PROVE TypeOK'
  <2>1. Head(scheduled) \in Event /\ Tail(scheduled) \in Seq(Event)
    BY <1>3, RangeTail DEF StartHandler
  <2>2. scheduled' \in Seq(Event)
    BY <1>3, <2>1 DEF StartHandler
  <2>3. spool' \in Seq(Event) /\ drainList' \in Seq(Event)
    <3>1. CASE producerReady
      BY <1>3, <3>1 DEF StartHandler
    <3>2. CASE ~producerReady
      BY <1>3, <2>1, <3>2, GiveUpProperties DEF StartHandler, Publishers
    <3>3. QED BY <3>1, <3>2
  <2>4. QED BY <1>3, <2>2, <2>3 DEF StartHandler, processVars, kafkaVars, brokerVars
<1>4. ASSUME NEW h \in Handlers, HandlerDone(h) PROVE TypeOK'
  BY <1>4 DEF HandlerDone, processVars, kafkaVars, brokerVars
<1>5. ASSUME NEW p \in Publishers, AttemptFails(p) PROVE TypeOK'
  <2>1. job[p].msg \in Event
    BY <1>5 DEF AttemptFails, QueuesInv, JobsOK, Job
  <2>2. spool' \in Seq(Event) /\ drainList' \in Seq(Event)
    BY <1>5, <2>1, GiveUpProperties DEF AttemptFails
  <2>3. troubles' \in 0 .. MaxTroubles
    BY <1>5, BridgeAssumption DEF AttemptFails, Trouble
  <2>4. QED BY <1>5, <2>2, <2>3 DEF AttemptFails, processVars, kafkaVars, brokerVars
<1>6. ASSUME NEW p \in Publishers, Retry(p) PROVE TypeOK'
  BY <1>6 DEF Retry, processVars, kafkaVars, brokerVars
<1>7. CASE DrainStarts
  <2>1. PICK n : n = IF Len(spool) < DrainBatch THEN Len(spool) ELSE DrainBatch
    OBVIOUS
  <2>2. n \in Int /\ 2 \in Int /\ \A i \in 2 .. n : spool[i] \in Event
    BY <2>1, BridgeAssumption, LenProperties, ElementOfSeq
  <2>3. SubSeq(spool, 2, n) \in Seq(Event)
    BY <2>2, SubSeqProperties
  <2>4. drainList' \in Seq(Event)
    BY <1>7, <2>1, <2>3 DEF DrainStarts
  <2>5. QED BY <1>7, <2>4 DEF DrainStarts, processVars, kafkaVars, brokerVars
<1>8. CASE DrainGoesOn
  <2>1. spool' \in Seq(Event)
    BY <1>8, RemovedProperties DEF DrainGoesOn
  <2>2. drainList' \in Seq(Event)
    BY <1>8, RangeTail DEF DrainGoesOn
  <2>3. QED BY <1>8, <2>1, <2>2 DEF DrainGoesOn, processVars, kafkaVars, brokerVars
<1>9. CASE ProducerStarts
  BY <1>9 DEF ProducerStarts, publishVars, kafkaVars, brokerVars
<1>10. ASSUME NEW t \in Topics, RecordWritten(t) \/ ReplyLost(t) PROVE TypeOK'
  <2>1. Head(accumulator[t]).msg \in Event
    BY <1>10, FirstRecord DEF RecordWritten, ReplyLost, Record
  <2>2. Append(log[t], Head(accumulator[t]).msg) \in Seq(Event)
    BY <2>1, AppendProperties
  <2>3. log' \in [Topics -> Seq(Event)]
    BY <1>10, <2>2 DEF RecordWritten, ReplyLost
  <2>4. troubles' \in 0 .. MaxTroubles
    <3>1. CASE RecordWritten(t)
      BY <3>1 DEF RecordWritten
    <3>2. CASE ReplyLost(t)
      BY <3>2, BridgeAssumption, SMTT(30) DEF ReplyLost, Trouble
    <3>3. QED BY <1>10, <3>1, <3>2
  <2>5. QED
    BY <1>10, <2>3, <2>4 DEF RecordWritten, ReplyLost, processVars, publishVars, brokerVars
<1>11. ASSUME NEW t \in Topics, RecordExpires(t) PROVE TypeOK'
  BY <1>11 DEF RecordExpires, processVars, kafkaVars, brokerVars
<1>12. CASE KafkaChanges
  BY <1>12 DEF KafkaChanges, processVars, publishVars, brokerVars
<1>13. CASE MqttDisconnects \/ MqttConnects \/ ProcessStarts
  <2>1. stops' \in 0 .. MaxStops
    BY <1>13, BridgeAssumption DEF MqttDisconnects, MqttConnects, ProcessStarts, Stop
  <2>2. QED
    BY <1>13, <2>1
    DEF MqttDisconnects, MqttConnects, ProcessStarts, publishVars, kafkaVars, brokerVars
<1>14. CASE ProcessEnds
  <2>1. Range(scheduled) \subseteq Event
    BY RangeOfSeq
  <2>2. \A h \in Handlers : job[h].pc # "idle" => job[h].msg \in Event
    BY DEF QueuesInv, JobsOK, Job, Publishers
  <2>3. excused' \subseteq Event
    BY <1>14, <2>1, <2>2 DEF ProcessEnds
  <2>4. stops' \in 0 .. MaxStops
    BY <1>14, BridgeAssumption DEF ProcessEnds, Stop
  <2>5. scheduled' \in Seq(Event) /\ drainList' \in Seq(Event)
    BY <1>14 DEF ProcessEnds
  <2>6. QED BY <1>14, <2>3, <2>4, <2>5 DEF ProcessEnds, kafkaVars
<1>15. CASE UNCHANGED vars
  BY <1>15 DEF vars, processVars, publishVars, kafkaVars, brokerVars
<1>16. QED
  BY <1>2, <1>3, <1>4, <1>5, <1>6, <1>7, <1>8, <1>9, <1>10, <1>11, <1>12, <1>13, <1>14,
     <1>15
  DEF BridgeNext, Handle, Publish, Drain, Kafka, Process

\* The bridge keeps the types of its state, and of the producer's queues each entry
\* is awaited by at most one coroutine, through retries, timeouts and restarts.
THEOREM BridgeTypeCorrect == Spec => []TypeOK
<1>1. BridgeTypeInv => TypeOK
  BY DEF BridgeTypeInv
<1>2. QED BY <1>1, InitBridgeType, NextBridgeType, PTL DEF Spec
=============================================================================
