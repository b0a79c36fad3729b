-------------------------- MODULE RpcBackend_proofs --------------------------
(***************************************************************************)
(* Proofs about RpcBackend, for any tasks, transports and bounds.          *)
(*                                                                         *)
(* A report of client k is paid for by a poll of client k.  With the JSON  *)
(* client a connection stands for a report to come, so that reports and    *)
(* connections together are covered by the polls that were sent; with the  *)
(* XML client the reports alone are covered, by the polls that ended.      *)
(***************************************************************************)
EXTENDS RpcBackend, FiniteSetTheorems, TLAPS

InFlight == {"connecting", "sent", "answered"}

\* The polls of client k that were sent, and those that ended.
Asked(k) == {i \in Polls(k) : calls[i].phase # "connecting"}
Done(k) == {i \in Polls(k) : calls[i].phase \notin InFlight}

\* TypeOK, but for the bounds that rest on the counting.
Shape ==
    /\ transport \in Transports
    /\ m_tasks \subseteq Tasks
    /\ adds \in Seq(Tasks) /\ Len(adds) <= MaxAdds
    /\ calls \in Seq(Calls) /\ Len(calls) <= MaxCalls
    /\ conns \in [1..MaxAdds -> Nat]
    /\ made \in [1..MaxAdds -> Nat]
    /\ fault \in {"none", "deadReceiver", "badAnswer"}
    /\ stkeys \in Seq(Tasks)
    /\ disp \in {"idle", "running", "leaving"}
    /\ accepted \subseteq Tasks
    /\ status \in [Tasks -> Statuses]
    /\ intime \in BOOLEAN

\* A call was made through a client there was, for a task that was added, and
\* an addUri is never answered with a status.
Owned ==
    \A i \in DOMAIN calls :
        /\ calls[i].client \in 1..Latest
        /\ calls[i].task \in m_tasks
        /\ calls[i].phase = "answered" /\ calls[i].kind = "add" =>
               calls[i].answer \in {"gid", "rejected"}

\* Only the latest JSON client has connections.
Current ==
    \A k \in 1..MaxAdds : transport # "json" \/ k # Latest => conns[k] = 0

Counted ==
    \A k \in 1..MaxAdds :
        /\ transport = "json" => made[k] + conns[k] <= Cardinality(Asked(k))
        /\ transport = "xml" => made[k] <= Cardinality(Done(k))
        /\ transport = "ws" => made[k] = 0

IInv == Shape /\ Owned /\ Current /\ Counted

-----------------------------------------------------------------------------
(* Calls *)

\* Call i went on to phase p, with answer a.
Changed(i, p, a) ==
    /\ calls' \in Seq(Calls) /\ Len(calls') = Len(calls)
    /\ \A j \in DOMAIN calls : j # i => calls'[j] = calls[j]
    /\ calls'[i].client = calls[i].client /\ calls'[i].kind = calls[i].kind
    /\ calls'[i].task = calls[i].task
    /\ calls'[i].phase = p /\ calls'[i].answer = a

\* Calls of one kind were made through the latest client.
Extended(kind) ==
    /\ calls' \in Seq(Calls) /\ Len(calls) <= Len(calls')
    /\ \A j \in DOMAIN calls : calls'[j] = calls[j]
    /\ \A j \in DOMAIN calls' : j \notin DOMAIN calls =>
          /\ calls'[j].client = Latest' /\ calls'[j].kind = kind
          /\ calls'[j].task \in m_tasks' /\ calls'[j].phase = "connecting"

LEMMA Replaced ==
    ASSUME NEW S, NEW s \in Seq(S), NEW i \in DOMAIN s, NEW x \in S
    PROVE  /\ [s EXCEPT ![i] = x] \in Seq(S)
           /\ Len([s EXCEPT ![i] = x]) = Len(s)
           /\ [s EXCEPT ![i] = x][i] = x
           /\ \A j \in DOMAIN s : j # i => [s EXCEPT ![i] = x][j] = s[j]
  OBVIOUS

LEMMA Joined ==
    ASSUME NEW S, NEW s \in Seq(S), NEW u \in Seq(S)
    PROVE  /\ s \o u \in Seq(S) /\ Len(s \o u) = Len(s) + Len(u)
           /\ \A j \in 1..Len(s) : (s \o u)[j] = s[j]
           /\ \A j \in (Len(s) + 1)..(Len(s) + Len(u)) : (s \o u)[j] = u[j - Len(s)]
  OBVIOUS

LEMMA ConnsKept ==
    ASSUME Shape
    PROVE  /\ conns \in [1..MaxAdds -> Nat] /\ made \in [1..MaxAdds -> Nat]
           /\ \A k \in 1..MaxAdds : conns[k] \in Nat /\ conns[k] <= conns[k]
<1>1. conns \in [1..MaxAdds -> Nat] /\ made \in [1..MaxAdds -> Nat]
  BY DEF Shape
<1> QED BY <1>1

LEMMA CallType ==
    ASSUME Shape, NEW i \in DOMAIN calls
    PROVE  /\ calls[i] \in Calls
           /\ calls[i].client \in 1..MaxAdds /\ calls[i].kind \in {"add", "poll"}
           /\ calls[i].task \in Tasks
<1>1. calls[i] \in Calls
  BY DEF Shape
<1> QED BY <1>1 DEF Calls

LEMMA MovedChanges ==
    ASSUME Shape, NEW i \in DOMAIN calls, NEW p \in Phases, Moved(i, p)
    PROVE  Changed(i, p, calls[i].answer)
<1>1. calls \in Seq(Calls) /\ calls[i] \in Calls
  BY DEF Shape
<1>2. [calls[i] EXCEPT !.phase = p] \in Calls
  BY <1>1 DEF Calls
<1>3. calls' = [calls EXCEPT ![i] = [calls[i] EXCEPT !.phase = p]]
  BY DEF Moved
<1>4. calls' \in Seq(Calls) /\ Len(calls') = Len(calls)
  BY <1>1, <1>2, <1>3
<1>5. \A j \in DOMAIN calls : j # i => calls'[j] = calls[j]
  BY <1>1, <1>3
<1>6. calls'[i] = [calls[i] EXCEPT !.phase = p]
  BY <1>1, <1>3
<1> QED BY <1>1, <1>4, <1>5, <1>6 DEF Changed, Calls

LEMMA AnswerChanges ==
    ASSUME Shape, NEW i \in DOMAIN calls, NEW a \in Answers,
           calls' = [calls EXCEPT ![i].phase = "answered", ![i].answer = a]
    PROVE  Changed(i, "answered", a)
<1> DEFINE c == [[calls[i] EXCEPT !.phase = "answered"] EXCEPT !.answer = a]
<1>1. calls \in Seq(Calls) /\ calls[i] \in Calls
  BY DEF Shape
<1>2. /\ c \in Calls
      /\ c.client = calls[i].client /\ c.kind = calls[i].kind
      /\ c.task = calls[i].task /\ c.phase = "answered" /\ c.answer = a
  BY <1>1 DEF Calls, Phases
<1>3. calls' = [calls EXCEPT ![i] = c]
  BY <1>1
<1> HIDE DEF c
<1> DEFINE d == [calls EXCEPT ![i] = c]
<1>4. /\ d \in Seq(Calls) /\ Len(d) = Len(calls)
      /\ \A j \in DOMAIN calls : j # i => d[j] = calls[j]
      /\ d[i] = c
  <2>1. c \in Calls
    BY <1>2
  <2> QED BY <1>1, <2>1, Replaced
<1>5. calls' = d
  BY <1>3
<1> HIDE DEF d
<1>6. /\ calls' \in Seq(Calls) /\ Len(calls') = Len(calls)
      /\ \A j \in DOMAIN calls : j # i => calls'[j] = calls[j]
      /\ calls'[i] = c
  BY <1>4, <1>5, Zenon
<1> QED BY <1>2, <1>6 DEF Changed

-----------------------------------------------------------------------------
(* Counting *)

LEMMA PollsFinite ==
    ASSUME Shape, NEW k
    PROVE  /\ IsFiniteSet(Asked(k)) /\ IsFiniteSet(Done(k))
           /\ Cardinality(Asked(k)) \in 0..MaxCalls
           /\ Cardinality(Done(k)) \in 0..Cardinality(Asked(k))
<1>1. Len(calls) \in Nat /\ DOMAIN calls = 1..Len(calls) /\ Len(calls) <= MaxCalls
  BY DEF Shape
<1>2. IsFiniteSet(DOMAIN calls) /\ Cardinality(DOMAIN calls) = Len(calls)
  <2>1. \A n \in Nat : IsFiniteSet(1..n) /\ Cardinality(1..n) = n
    BY FS_Interval
  <2> QED BY <1>1, <2>1
<1>3. Asked(k) \in SUBSET DOMAIN calls /\ Done(k) \in SUBSET Asked(k)
  BY DEF Asked, Done, Polls, InFlight
<1>4. /\ IsFiniteSet(Asked(k)) /\ Cardinality(Asked(k)) <= Len(calls)
  BY <1>2, <1>3, FS_Subset
<1>5. /\ IsFiniteSet(Done(k)) /\ Cardinality(Done(k)) <= Cardinality(Asked(k))
  BY <1>3, <1>4, FS_Subset
<1>6. Cardinality(Asked(k)) \in Nat /\ Cardinality(Done(k)) \in Nat
  BY <1>4, <1>5, FS_CardinalityType
<1> QED BY <1>1, <1>4, <1>5, <1>6, RpcAssumption

\* What a call that goes on adds to the two sets of its client.
LEMMA ChangedCounts ==
    ASSUME Shape, NEW i \in DOMAIN calls, NEW p \in Phases, NEW a,
           p # "connecting", Changed(i, p, a), NEW k,
           p \in InFlight => calls[i].phase \in InFlight
    PROVE  /\ Cardinality(Asked(k)') =
                  IF i \in Polls(k) /\ calls[i].phase = "connecting"
                  THEN Cardinality(Asked(k)) + 1 ELSE Cardinality(Asked(k))
           /\ Cardinality(Done(k)') =
                  IF i \in Polls(k) /\ calls[i].phase \in InFlight /\ p \notin InFlight
                  THEN Cardinality(Done(k)) + 1 ELSE Cardinality(Done(k))
<1>1. DOMAIN calls' = DOMAIN calls
  BY DEF Changed, Shape
<1>2. \A j \in DOMAIN calls : j # i => calls'[j] = calls[j]
  BY DEF Changed
<1>3. /\ calls'[i].client = calls[i].client /\ calls'[i].kind = calls[i].kind
      /\ calls'[i].phase = p
  BY DEF Changed
<1>4. Asked(k)' = IF i \in Polls(k) THEN Asked(k) \cup {i} ELSE Asked(k)
  BY <1>1, <1>2, <1>3 DEF Asked, Polls
<1>5. Done(k)' = IF i \in Polls(k) /\ p \notin InFlight
                 THEN Done(k) \cup {i} ELSE Done(k)
  BY <1>1, <1>2, <1>3 DEF Done, Polls
<1>6. i \in Polls(k) => (i \in Asked(k) <=> calls[i].phase # "connecting")
  BY DEF Asked
<1>7. i \in Polls(k) => (i \in Done(k) <=> calls[i].phase \notin InFlight)
  BY DEF Done
<1>8. Cardinality(Asked(k) \cup {i}) =
          IF i \in Asked(k) THEN Cardinality(Asked(k)) ELSE Cardinality(Asked(k)) + 1
  BY PollsFinite, FS_AddElement
<1>9. Cardinality(Done(k) \cup {i}) =
          IF i \in Done(k) THEN Cardinality(Done(k)) ELSE Cardinality(Done(k)) + 1
  BY PollsFinite, FS_AddElement
<1>10. Cardinality(Asked(k)') =
           IF i \in Polls(k) /\ calls[i].phase = "connecting"
           THEN Cardinality(Asked(k)) + 1 ELSE Cardinality(Asked(k))
  BY <1>4, <1>6, <1>8
<1>11. Cardinality(Done(k)') =
           IF i \in Polls(k) /\ calls[i].phase \in InFlight /\ p \notin InFlight
           THEN Cardinality(Done(k)) + 1 ELSE Cardinality(Done(k))
  BY <1>5, <1>7, <1>9
<1> QED BY <1>10, <1>11

LEMMA ExtendedCounts ==
    ASSUME Shape, NEW kind, Extended(kind), NEW k
    PROVE  Asked(k)' = Asked(k) /\ Done(k)' = Done(k)
<1>1. DOMAIN calls \subseteq DOMAIN calls'
  BY DEF Extended, Shape
<1>2. \A j \in DOMAIN calls : calls'[j] = calls[j]
  BY DEF Extended
<1>3. \A j \in DOMAIN calls' : j \notin DOMAIN calls => calls'[j].phase = "connecting"
  BY DEF Extended
<1> QED BY <1>1, <1>2, <1>3 DEF Asked, Done, Polls, InFlight

LEMMA SameCounts ==
    ASSUME UNCHANGED calls, NEW k
    PROVE  Asked(k)' = Asked(k) /\ Done(k)' = Done(k)
  BY DEF Asked, Done, Polls

-----------------------------------------------------------------------------
(* IInv is inductive *)

LEMMA InitIInv == Init => IInv
<1> SUFFICES ASSUME Init PROVE IInv
  OBVIOUS
<1>1. Shape
  <2>1. /\ adds \in Seq(Tasks) /\ Len(adds) = 0
        /\ calls \in Seq(Calls) /\ Len(calls) = 0
        /\ stkeys \in Seq(Tasks)
    BY DEF Init
  <2>2. intime \in BOOLEAN
    BY DEF Init
  <2>3. status \in [Tasks -> Statuses]
    BY DEF Init, Statuses
  <2> QED BY <2>1, <2>2, <2>3, RpcAssumption DEF Init, Shape
<1>2. Owned
  BY DEF Init, Owned
<1>3. Current
  BY DEF Init, Current
<1>4. Counted
  <2> SUFFICES ASSUME NEW k \in 1..MaxAdds
               PROVE  /\ made[k] + conns[k] <= Cardinality(Asked(k))
                      /\ made[k] <= Cardinality(Done(k)) /\ made[k] = 0
    BY DEF Counted
  <2>1. made[k] = 0 /\ conns[k] = 0
    BY DEF Init
  <2> QED BY <1>1, <2>1, PollsFinite, RpcAssumption
<1> QED BY <1>1, <1>2, <1>3, <1>4 DEF IInv

LEMMA KeptCalls ==
    ASSUME IInv, UNCHANGED <<manager, calls, conns, made>>
    PROVE  Owned' /\ Current' /\ Counted'
<1>1. Owned'
  BY DEF IInv, Owned, manager, Latest
<1>2. Current'
  BY DEF IInv, Current, manager, Latest
<1>3. \A k : Asked(k)' = Asked(k) /\ Done(k)' = Done(k)
  BY SameCounts
<1>4. Counted'
  BY <1>3 DEF IInv, Counted, manager
<1> QED BY <1>1, <1>2, <1>4

LEMMA OwnedChanged ==
    ASSUME IInv, UNCHANGED manager, NEW i \in DOMAIN calls, NEW p, NEW a,
           Changed(i, p, a),
           p = "answered" /\ calls[i].kind = "add" => a \in {"gid", "rejected"}
    PROVE  Owned'
<1>1. DOMAIN calls' = DOMAIN calls
  BY DEF Changed, IInv, Shape
<1>2. Latest' = Latest /\ m_tasks' = m_tasks
  BY DEF manager, Latest
<1> SUFFICES ASSUME NEW j \in DOMAIN calls
             PROVE  /\ calls'[j].client \in 1..Latest
                    /\ calls'[j].task \in m_tasks
                    /\ calls'[j].phase = "answered" /\ calls'[j].kind = "add" =>
                           calls'[j].answer \in {"gid", "rejected"}
  BY <1>1, <1>2 DEF Owned
<1>3. CASE j = i
  BY <1>3 DEF Changed, IInv, Owned
<1>4. CASE j # i
  BY <1>4 DEF Changed, IInv, Owned
<1> QED BY <1>3, <1>4

\* Steps of a call that make no report and no connection.
LEMMA CountedChanged ==
    ASSUME IInv, UNCHANGED <<transport, made>>,
           NEW i \in DOMAIN calls, NEW p \in Phases, NEW a, Changed(i, p, a),
           p # "connecting", p \in InFlight => calls[i].phase \in InFlight,
           conns' \in [1..MaxAdds -> Nat],
           \A k \in 1..MaxAdds : conns'[k] <= conns[k]
    PROVE  Counted'
<1> SUFFICES ASSUME NEW k \in 1..MaxAdds
             PROVE  /\ transport = "json" =>
                           made[k] + conns'[k] <= Cardinality(Asked(k)')
                    /\ transport = "xml" => made[k] <= Cardinality(Done(k)')
                    /\ transport = "ws" => made[k] = 0
  BY DEF Counted
<1>1. Shape /\ Counted
  BY DEF IInv
<1>2. /\ Cardinality(Asked(k)) <= Cardinality(Asked(k)')
      /\ Cardinality(Done(k)) <= Cardinality(Done(k)')
      /\ Cardinality(Asked(k)') \in Nat /\ Cardinality(Done(k)') \in Nat
      /\ Cardinality(Asked(k)) \in Nat /\ Cardinality(Done(k)) \in Nat
  <2>1. Cardinality(Asked(k)) \in Nat /\ Cardinality(Done(k)) \in Nat
    BY <1>1, PollsFinite
  <2> QED BY <1>1, <2>1, ChangedCounts
<1>3. made[k] \in Nat /\ conns[k] \in Nat /\ conns'[k] \in Nat /\ conns'[k] <= conns[k]
  BY <1>1 DEF Shape
<1>4. /\ transport = "json" => made[k] + conns[k] <= Cardinality(Asked(k))
      /\ transport = "xml" => made[k] <= Cardinality(Done(k))
      /\ transport = "ws" => made[k] = 0
  BY <1>1 DEF Counted
<1> QED BY <1>2, <1>3, <1>4

-----------------------------------------------------------------------------
(* The manager adds calls *)

\* The order the timer polls in names tasks that were added.
LEMMA PollOrder ==
    ASSUME Shape
    PROVE  /\ Cardinality(m_tasks) \in Nat
           /\ SetToSeq(m_tasks) \in [1..Cardinality(m_tasks) -> m_tasks]
<1>1. IsFiniteSet(m_tasks)
  BY RpcAssumption, FS_Subset DEF Shape
<1>2. /\ Cardinality(m_tasks) \in Nat
      /\ ExistsBijection(1..Cardinality(m_tasks), m_tasks)
  BY <1>1, FS_CardinalityType
<1>3. \E f \in [1..Cardinality(m_tasks) -> m_tasks] : IsInjective(f)
  BY <1>2 DEF ExistsBijection, Bijection, Injection
<1> QED BY <1>2, <1>3 DEF SetToSeq

LEMMA ExtendedOwned ==
    ASSUME IInv, NEW kind, Extended(kind), UNCHANGED transport,
           Latest' \in Nat, Latest' # 0, Latest <= Latest', m_tasks \subseteq m_tasks'
    PROVE  Owned'
<1> SUFFICES ASSUME NEW j \in DOMAIN calls'
             PROVE  /\ calls'[j].client \in 1..Latest'
                    /\ calls'[j].task \in m_tasks'
                    /\ calls'[j].phase = "answered" /\ calls'[j].kind = "add" =>
                           calls'[j].answer \in {"gid", "rejected"}
  BY DEF Owned
<1>1. Latest \in Nat
  BY DEF IInv, Shape, Latest
<1>2. CASE j \in DOMAIN calls
  BY <1>1, <1>2 DEF Extended, IInv, Owned
<1>3. CASE j \notin DOMAIN calls
  <2>1. /\ calls'[j].client = Latest' /\ calls'[j].task \in m_tasks'
        /\ calls'[j].phase = "connecting"
    BY <1>3 DEF Extended
  <2>2. Latest' \in 1..Latest'
    OBVIOUS
  <2> QED BY <2>1, <2>2
<1> QED BY <1>2, <1>3

LEMMA ExtendedCounted ==
    ASSUME IInv, NEW kind, Extended(kind), UNCHANGED <<transport, made>>,
           conns' \in [1..MaxAdds -> Nat],
           \A k \in 1..MaxAdds : conns'[k] <= conns[k]
    PROVE  Counted'
<1> SUFFICES ASSUME NEW k \in 1..MaxAdds
             PROVE  /\ transport = "json" =>
                           made[k] + conns'[k] <= Cardinality(Asked(k)')
                    /\ transport = "xml" => made[k] <= Cardinality(Done(k)')
                    /\ transport = "ws" => made[k] = 0
  BY DEF Counted
<1>1. Shape /\ Counted
  BY DEF IInv
<1>2. Cardinality(Asked(k)) \in Nat
  BY <1>1, PollsFinite
<1>3. made[k] \in Nat /\ conns[k] \in Nat /\ conns'[k] \in Nat /\ conns'[k] <= conns[k]
  BY <1>1 DEF Shape
<1>4. /\ transport = "json" => made[k] + conns[k] <= Cardinality(Asked(k))
      /\ transport = "xml" => made[k] <= Cardinality(Done(k))
      /\ transport = "ws" => made[k] = 0
  BY <1>1 DEF Counted
<1>5. Asked(k)' = Asked(k) /\ Done(k)' = Done(k)
  BY <1>1, ExtendedCounts
<1> QED BY <1>2, <1>3, <1>4, <1>5

LEMMA AddTaskExtends ==
    ASSUME Shape, NEW t \in Tasks, AddTask(t)
    PROVE  /\ Extended("add") /\ Len(calls') <= MaxCalls
           /\ adds' \in Seq(Tasks) /\ Latest' = Latest + 1 /\ Latest' <= MaxAdds
           /\ \E j \in DOMAIN calls' : calls'[j].task = t /\ j \notin DOMAIN calls
           /\ Len(calls') = Len(calls) + 1
<1>1. adds \in Seq(Tasks) /\ Len(adds) \in Nat /\ Len(adds) < MaxAdds
  BY DEF Shape, AddTask
<1>2. adds' \in Seq(Tasks) /\ Len(adds') = Len(adds) + 1
  BY <1>1 DEF AddTask
<1>3. Latest' = Latest + 1 /\ Latest' <= MaxAdds /\ Latest + 1 \in 1..MaxAdds
  BY <1>1, <1>2, RpcAssumption DEF Latest
<1> DEFINE c == Call(Latest + 1, "add", t)
<1>4. /\ c \in Calls /\ c.client = Latest + 1 /\ c.kind = "add" /\ c.task = t
      /\ c.phase = "connecting"
  BY <1>3 DEF Call, Calls, Phases
<1>5. calls' = calls \o <<c>>
  BY DEF AddTask, AddCall
<1> HIDE DEF c
<1>6. calls \in Seq(Calls) /\ Len(calls) \in Nat /\ Len(calls) < MaxCalls
  BY DEF Shape, AddTask
<1>7. /\ calls' \in Seq(Calls) /\ Len(calls') = Len(calls) + 1
      /\ \A j \in DOMAIN calls : calls'[j] = calls[j]
      /\ calls'[Len(calls) + 1] = c
  BY <1>4, <1>5, <1>6
<1>8. \A j \in DOMAIN calls' : j \notin DOMAIN calls => j = Len(calls) + 1
  BY <1>6, <1>7
<1>9. t \in m_tasks'
  BY DEF AddTask
<1>10. Extended("add")
  BY <1>3, <1>4, <1>6, <1>7, <1>8, <1>9 DEF Extended
<1>11. Len(calls) + 1 \in DOMAIN calls' /\ Len(calls) + 1 \notin DOMAIN calls
  BY <1>6, <1>7
<1> QED BY <1>2, <1>3, <1>4, <1>6, <1>7, <1>10, <1>11, RpcAssumption

LEMMA AddTaskIInv ==
    ASSUME IInv, NEW t \in Tasks, AddTask(t)
    PROVE  IInv'
<1>1. Shape
  BY DEF IInv
<1>2. /\ Extended("add") /\ Len(calls') <= MaxCalls
      /\ adds' \in Seq(Tasks) /\ Latest' = Latest + 1 /\ Latest' <= MaxAdds
  BY <1>1, AddTaskExtends
<1>3. Latest \in Nat
  BY <1>1 DEF Shape, Latest
<1>4. conns' \in [1..MaxAdds -> Nat] /\ \A k \in 1..MaxAdds : conns'[k] = 0
  BY DEF AddTask
<1>5. Shape'
  <2>1. calls' \in Seq(Calls) /\ Len(adds') <= MaxAdds
    BY <1>2 DEF Extended, Latest
  <2>2. m_tasks' \subseteq Tasks
    BY <1>1 DEF AddTask, Shape
  <2>3. intime' \in BOOLEAN
    BY Zenon DEF AddTask
  <2> QED BY <1>1, <1>2, <1>4, <2>1, <2>2, <2>3 DEF AddTask, Shape, thread, aria2
<1>6. Owned'
  BY <1>2, <1>3, ExtendedOwned DEF AddTask
<1>7. Current'
  BY <1>4 DEF Current
<1>8. Counted'
  <2>1. \A k \in 1..MaxAdds : conns'[k] <= conns[k]
    BY <1>1, <1>4 DEF Shape
  <2> QED BY <1>2, <1>4, <2>1, ExtendedCounted DEF AddTask
<1> QED BY <1>5, <1>6, <1>7, <1>8 DEF IInv

LEMMA TickExtends ==
    ASSUME Shape, Tick
    PROVE  /\ Extended("poll") /\ Len(calls') <= MaxCalls
           /\ Len(calls') = Len(calls) + Cardinality(m_tasks)
<1> DEFINE order == SetToSeq(m_tasks)
           n == Cardinality(m_tasks)
           more == [i \in DOMAIN order |-> Call(Latest, "poll", order[i])]
<1>1. n \in Nat /\ order \in [1..n -> m_tasks]
  BY PollOrder
<1>2. calls' = calls \o more
  BY DEF Tick
<1>3. Latest \in 1..MaxAdds
  BY RpcAssumption DEF Shape, Tick, Latest
<1>4. \A t \in Tasks : Call(Latest, "poll", t) \in Calls
  BY <1>3 DEF Call, Calls, Phases
<1>5. /\ more \in Seq(Calls) /\ Len(more) = n
      /\ \A i \in 1..n : more[i] = Call(Latest, "poll", order[i])
  <2>1. DOMAIN more = 1..n /\ \A i \in 1..n : more[i] \in Calls
    BY <1>1, <1>4 DEF Shape
  <2> QED BY <1>1, <2>1
<1>6. \A i \in 1..n : order[i] \in m_tasks
  BY <1>1
<1>7. calls \in Seq(Calls) /\ Len(calls) \in Nat /\ Len(calls) + n <= MaxCalls
  BY DEF Shape, Tick
<1>11. n = Cardinality(m_tasks)
  OBVIOUS
<1> HIDE DEF order, n, more
<1>8. /\ calls' \in Seq(Calls) /\ Len(calls') = Len(calls) + n
      /\ \A j \in 1..Len(calls) : calls'[j] = calls[j]
      /\ \A j \in (Len(calls) + 1)..(Len(calls) + n) : calls'[j] = more[j - Len(calls)]
  BY <1>2, <1>5, <1>7, Joined
<1>9. Latest' = Latest /\ m_tasks' = m_tasks
  BY DEF Tick, manager, Latest
<1>10. ASSUME NEW j \in DOMAIN calls', j \notin DOMAIN calls
       PROVE  /\ calls'[j].client = Latest' /\ calls'[j].kind = "poll"
              /\ calls'[j].task \in m_tasks' /\ calls'[j].phase = "connecting"
  <2>1. j \in (Len(calls) + 1)..(Len(calls) + n) /\ j - Len(calls) \in 1..n
    BY <1>1, <1>7, <1>8, <1>10
  <2>2. calls'[j] = Call(Latest, "poll", order[j - Len(calls)])
    BY <1>5, <1>8, <2>1
  <2>3. order[j - Len(calls)] \in m_tasks
    BY <1>6, <2>1
  <2> QED BY <1>9, <2>2, <2>3 DEF Call
<1> QED BY <1>1, <1>7, <1>8, <1>10, <1>11 DEF Extended

LEMMA TickIInv ==
    ASSUME IInv, Tick
    PROVE  IInv'
<1>1. Shape
  BY DEF IInv
<1>2. Extended("poll") /\ Len(calls') <= MaxCalls
  BY <1>1, TickExtends
<1>3. Latest' = Latest /\ m_tasks' = m_tasks /\ Latest \in Nat /\ Latest # 0
  BY <1>1 DEF Tick, manager, Latest, Shape
<1>4. Shape'
  <2>1. calls' \in Seq(Calls)
    BY <1>2 DEF Extended
  <2>2. intime' \in BOOLEAN
    BY Zenon DEF Tick
  <2> QED BY <1>1, <1>2, <2>1, <2>2 DEF Tick, Shape, manager, thread, aria2
<1>5. Owned'
  BY <1>2, <1>3, ExtendedOwned DEF Tick, manager
<1>6. Current'
  <2>1. UNCHANGED <<transport, conns>>
    BY DEF Tick, manager
  <2> QED BY <1>3, <2>1 DEF IInv, Current
<1>7. Counted'
  <2>1. conns' \in [1..MaxAdds -> Nat] /\ \A k \in 1..MaxAdds : conns'[k] <= conns[k]
    BY <1>1, ConnsKept DEF Tick
  <2> QED BY <1>2, <2>1, ExtendedCounted DEF Tick, manager
<1> QED BY <1>4, <1>5, <1>6, <1>7 DEF IInv

-----------------------------------------------------------------------------
(* The calls go on *)

LEMMA ConnectIInv ==
    ASSUME IInv, NEW i \in DOMAIN calls, Connect(i)
    PROVE  IInv'
<1>1. Shape /\ Owned /\ Current /\ Counted
  BY DEF IInv
<1>2. calls[i].phase = "connecting" /\ Changed(i, "sent", calls[i].answer)
  <2>1. calls[i].phase = "connecting" /\ Moved(i, "sent")
    BY DEF Connect, PhaseOf
  <2> QED BY <1>1, <2>1, MovedChanges DEF Phases
<1>3. Latest' = Latest /\ UNCHANGED <<transport, made>>
  BY DEF Connect, manager, Latest
<1> DEFINE k0 == calls[i].client
           joins == transport = "json" /\ calls[i].kind = "poll" /\ ~DeadReceiver(calls[i])
<1>4. k0 \in 1..MaxAdds
  BY <1>1, CallType
<1>5. /\ joins => conns' = [conns EXCEPT ![k0] = @ + 1]
      /\ ~joins => conns' = conns
  BY DEF Connect
<1>6. conns \in [1..MaxAdds -> Nat] /\ made \in [1..MaxAdds -> Nat]
  BY <1>1 DEF Shape
<1>7. /\ conns' \in [1..MaxAdds -> Nat]
      /\ \A k \in 1..MaxAdds : joins /\ k = k0 => conns'[k] = conns[k] + 1
      /\ \A k \in 1..MaxAdds : ~(joins /\ k = k0) => conns'[k] = conns[k]
  <2> HIDE DEF joins, k0
  <2>1. CASE joins
    BY <1>4, <1>5, <1>6, <2>1
  <2>2. CASE ~joins
    BY <1>5, <1>6, <2>2
  <2> QED BY <2>1, <2>2
<1>8. Shape'
  <2>1. /\ fault' \in {"none", "deadReceiver", "badAnswer"}
        /\ UNCHANGED <<manager, made, thread, aria2, intime>>
    BY <1>1 DEF Connect, Shape
  <2>2. calls' \in Seq(Calls) /\ Len(calls') <= MaxCalls
    BY <1>1, <1>2 DEF Changed, Shape
  <2> QED BY <1>1, <1>7, <2>1, <2>2 DEF Shape, manager, thread, aria2
<1>9. Owned'
  BY <1>2, OwnedChanged DEF Connect
<1>10. Current'
  <2>1. joins => transport = "json" /\ k0 = Latest
    BY DEF DeadReceiver
  <2> HIDE DEF joins, k0
  <2> QED BY <1>1, <1>3, <1>7, <2>1 DEF Current
<1>11. Counted'
  <2> SUFFICES ASSUME NEW k \in 1..MaxAdds
               PROVE  /\ transport = "json" =>
                             made[k] + conns'[k] <= Cardinality(Asked(k)')
                      /\ transport = "xml" => made[k] <= Cardinality(Done(k)')
                      /\ transport = "ws" => made[k] = 0
    BY <1>3 DEF Counted
  <2>1. /\ Cardinality(Asked(k)') = IF i \in Polls(k)
                                    THEN Cardinality(Asked(k)) + 1 ELSE Cardinality(Asked(k))
        /\ Cardinality(Done(k)') = Cardinality(Done(k))
    BY <1>1, <1>2, ChangedCounts DEF Phases, InFlight
  <2>2. Cardinality(Asked(k)) \in Nat /\ Cardinality(Done(k)) \in Nat
    BY <1>1, PollsFinite
  <2>3. joins /\ k = k0 => i \in Polls(k)
    BY DEF Polls
  <2>4. /\ transport = "json" => made[k] + conns[k] <= Cardinality(Asked(k))
        /\ transport = "xml" => made[k] <= Cardinality(Done(k))
        /\ transport = "ws" => made[k] = 0
    BY <1>1 DEF Counted
  <2> HIDE DEF joins, k0
  <2>5. /\ conns'[k] = IF joins /\ k = k0 THEN conns[k] + 1 ELSE conns[k]
        /\ made[k] \in Nat /\ conns[k] \in Nat
    BY <1>6, <1>7
  <2> QED BY <2>1, <2>2, <2>3, <2>4, <2>5
<1> QED BY <1>8, <1>9, <1>10, <1>11 DEF IInv

\* A step of a call that makes no report and no connection.
LEMMA QuietIInv ==
    ASSUME IInv, NEW i \in DOMAIN calls, NEW p \in Phases, NEW a, Changed(i, p, a),
           UNCHANGED <<manager, made, stkeys, status>>, intime' \in BOOLEAN,
           conns' \in [1..MaxAdds -> Nat],
           \A k \in 1..MaxAdds : conns'[k] <= conns[k],
           disp' \in {"idle", "running", "leaving"},
           fault' \in {"none", "deadReceiver", "badAnswer"}, accepted' \subseteq Tasks,
           p # "connecting", p \in InFlight => calls[i].phase \in InFlight,
           p = "answered" /\ calls[i].kind = "add" => a \in {"gid", "rejected"}
    PROVE  IInv'
<1>1. Shape /\ Current
  BY DEF IInv
<1>2. Shape'
  <2>1. calls' \in Seq(Calls) /\ Len(calls') <= MaxCalls
    BY <1>1 DEF Changed, Shape
  <2> QED BY <1>1, <2>1 DEF Shape, manager
<1>3. Owned'
  BY OwnedChanged
<1>4. Current'
  <2>1. Latest' = Latest /\ transport' = transport
    BY DEF manager, Latest
  <2>2. \A k \in 1..MaxAdds : conns[k] = 0 => conns'[k] = 0
    <3>1. \A k \in 1..MaxAdds : conns'[k] \in Nat
      OBVIOUS
    <3> QED BY <3>1
  <2> QED BY <1>1, <2>1, <2>2 DEF Current
<1>5. Counted'
  BY CountedChanged DEF manager
<1> QED BY <1>2, <1>3, <1>4, <1>5 DEF IInv

\* Dropping connections makes none.
LEMMA DroppedConns ==
    ASSUME Shape, NEW k \in 1..MaxAdds
    PROVE  /\ Dropped(k) \in [1..MaxAdds -> Nat]
           /\ Dropped(k)[k] = 0
           /\ \A l \in 1..MaxAdds : l # k => Dropped(k)[l] = conns[l]
           /\ \A l \in 1..MaxAdds : Dropped(k)[l] <= conns[l]
<1>1. conns \in [1..MaxAdds -> Nat]
  BY DEF Shape
<1>2. Dropped(k) = [conns EXCEPT ![k] = 0]
  BY DEF Dropped
<1> QED BY <1>1, <1>2

LEMMA BreakIInv ==
    ASSUME IInv, NEW i \in DOMAIN calls, Break(i)
    PROVE  IInv'
<1>1. Shape
  BY DEF IInv
<1>2. /\ calls[i].phase \in {"connecting", "sent"} /\ calls[i].client \in 1..MaxAdds
      /\ UNCHANGED <<manager, made, thread, aria2>> /\ intime' \in BOOLEAN
  BY <1>1, CallType DEF Break, PhaseOf
<1>3. CASE UNCHANGED <<calls, conns>> /\ fault' = "deadReceiver"
  <2>1. Shape'
    BY <1>1, <1>2, <1>3 DEF Shape, manager, thread, aria2
  <2> QED BY <1>2, <1>3, <2>1, KeptCalls DEF IInv
<1>4. CASE /\ conns' = IF calls[i].kind = "poll" THEN Dropped(calls[i].client) ELSE conns
           /\ Moved(i, IF transport = "ws" THEN "dead" ELSE "gone")
           /\ UNCHANGED fault
  <2> DEFINE p == IF transport = "ws" THEN "dead" ELSE "gone"
  <2>1. p \in Phases /\ p \notin InFlight /\ p # "connecting" /\ p # "answered"
    BY DEF Phases, InFlight
  <2>2. Moved(i, p)
    BY <1>4
  <2> HIDE DEF p
  <2>3. Changed(i, p, calls[i].answer)
    BY <1>1, <2>1, <2>2, MovedChanges
  <2>4. conns' \in [1..MaxAdds -> Nat] /\ \A k \in 1..MaxAdds : conns'[k] <= conns[k]
    BY <1>1, <1>2, <1>4, DroppedConns, ConnsKept
  <2>5. /\ fault' \in {"none", "deadReceiver", "badAnswer"} /\ accepted' \subseteq Tasks
        /\ disp' \in {"idle", "running", "leaving"}
    BY <1>1, <1>2, <1>4 DEF Shape, thread, aria2
  <2>6. UNCHANGED <<manager, made, stkeys, status>> /\ intime' \in BOOLEAN
    BY <1>2 DEF thread, aria2
  <2> QED BY <2>1, <2>3, <2>4, <2>5, <2>6, QuietIInv
<1> QED BY <1>3, <1>4 DEF Break

\* The web socket's timer and the end of its thread.
LEMMA ClosingIInv ==
    ASSUME IInv, NEW i \in DOMAIN calls, LoopCycle(i) \/ SelfFinished(i)
    PROVE  IInv'
<1>1. Shape
  BY DEF IInv
<1>2. PICK p \in {"quitting", "gone"} : Moved(i, p)
  BY DEF LoopCycle, SelfFinished
<1>3. UNCHANGED <<manager, conns, made, fault, thread, aria2, intime>>
  BY DEF LoopCycle, SelfFinished
<1>4. p \in Phases /\ p \notin InFlight /\ p # "connecting" /\ p # "answered"
  BY DEF Phases, InFlight
<1>5. Changed(i, p, calls[i].answer)
  BY <1>1, <1>2, <1>4, MovedChanges
<1>6. conns' \in [1..MaxAdds -> Nat] /\ \A k \in 1..MaxAdds : conns'[k] <= conns[k]
  BY <1>1, <1>3, ConnsKept
<1>7. /\ fault' \in {"none", "deadReceiver", "badAnswer"} /\ accepted' \subseteq Tasks
      /\ disp' \in {"idle", "running", "leaving"}
  BY <1>1, <1>3 DEF Shape, thread, aria2
<1>8. UNCHANGED <<manager, made, stkeys, status>> /\ intime' \in BOOLEAN
  BY <1>1, <1>3 DEF Shape, thread, aria2
<1> QED BY <1>4, <1>5, <1>6, <1>7, <1>8, QuietIInv

LEMMA ServeIInv ==
    ASSUME IInv, NEW i \in DOMAIN calls, Serve(i)
    PROVE  IInv'
<1>1. Shape
  BY DEF IInv
<1>2. calls[i].phase = "sent" /\ calls[i].task \in Tasks /\ calls[i].kind \in {"add", "poll"}
  BY <1>1, CallType DEF Serve, PhaseOf
<1>3. UNCHANGED <<manager, conns, made, fault, thread, status>>
  BY DEF Serve
<1>4. PICK a \in Answers :
         /\ calls' = [calls EXCEPT ![i].phase = "answered", ![i].answer = a]
         /\ calls[i].kind = "add" => a \in {"gid", "rejected"}
         /\ accepted' \in {accepted, accepted \cup {calls[i].task}}
  <2>1. CASE calls[i].kind = "poll"
    <3>1. status[calls[i].task] \in Answers /\ {"unknownGid", "uneven"} \subseteq Answers
      BY <1>1, <1>2 DEF Shape, Answers
    <3> QED BY <2>1, <3>1 DEF Serve
  <2>2. CASE calls[i].kind = "add"
    BY <2>2 DEF Serve, Answers
  <2> QED BY <1>2, <2>1, <2>2
<1>5. Changed(i, "answered", a)
  BY <1>1, <1>4, AnswerChanges
<1>6. conns' \in [1..MaxAdds -> Nat] /\ \A k \in 1..MaxAdds : conns'[k] <= conns[k]
  BY <1>1, <1>3, ConnsKept
<1>7. /\ fault' \in {"none", "deadReceiver", "badAnswer"} /\ accepted' \subseteq Tasks
      /\ disp' \in {"idle", "running", "leaving"}
  BY <1>1, <1>2, <1>3, <1>4 DEF Shape, thread
<1>8. UNCHANGED <<manager, made, stkeys, status>> /\ intime' \in BOOLEAN
  <2>1. intime' = intime \/ intime' = (intime /\ calls[i].task \in accepted)
    BY DEF Serve
  <2>2. intime' \in BOOLEAN
    BY <1>1, <2>1, Zenon DEF Shape
  <2> QED BY <1>3, <2>2 DEF thread
<1>9. "answered" \in Phases /\ calls[i].phase \in InFlight
  BY <1>2 DEF Phases, InFlight
<1> QED BY <1>4, <1>5, <1>6, <1>7, <1>8, <1>9, QuietIInv

\* Only a poll of the latest client has receivers for a status.
LEMMA ReceiversOf ==
    ASSUME IInv, NEW i \in DOMAIN calls, calls[i].phase = "answered"
    PROVE  LET c == calls[i] IN
           /\ Receivers(c) \in Nat
           /\ transport = "json" => Receivers(c) <= conns[c.client]
           /\ transport = "xml" /\ Receivers(c) # 0 => c.kind = "poll" /\ Receivers(c) = 1
           /\ transport = "ws" => Receivers(c) = 0
           /\ DeadReceiver(c) => Receivers(c) = 0
           /\ Receivers(c) # 0 /\ Usable(c.answer) => c.kind = "poll"
<1> DEFINE c == calls[i]
<1>1. Shape /\ Owned /\ Current
  BY DEF IInv
<1>2. c.client \in 1..MaxAdds /\ c.kind \in {"add", "poll"} /\ conns[c.client] \in Nat
  BY <1>1, CallType, ConnsKept
<1>3. transport \in {"json", "xml", "ws"}
  BY <1>1, RpcAssumption DEF Shape
<1>4. c.kind = "add" => c.answer \in {"gid", "rejected"}
  BY <1>1 DEF Owned
<1>5. DeadReceiver(c) => c.client # Latest
  BY DEF DeadReceiver
<1>6. transport = "json" /\ c.client # Latest => conns[c.client] = 0
  BY <1>1, <1>2 DEF Current
<1> HIDE DEF c
<1>7. CASE transport = "json"
  <2>1. Receivers(c) = IF c.answer = "rejected" THEN 0 ELSE conns[c.client]
    BY <1>7 DEF Receivers
  <2>2. Usable(c.answer) => c.kind = "poll"
    BY <1>2, <1>4 DEF Usable, Statuses
  <2> QED BY <1>2, <1>5, <1>6, <1>7, <2>1, <2>2 DEF c
<1>8. CASE transport = "xml"
  <2>1. Receivers(c) = IF c.kind = "poll" /\ ~DeadReceiver(c) THEN 1 ELSE 0
    BY <1>8 DEF Receivers
  <2> QED BY <1>8, <2>1 DEF c
<1>9. CASE transport = "ws"
  <2>1. Receivers(c) = 0
    BY <1>9 DEF Receivers
  <2> QED BY <1>9, <2>1 DEF c
<1> QED BY <1>3, <1>7, <1>8, <1>9

\* The statistics of an answer.
LEMMA CollectedType ==
    ASSUME IInv, NEW i \in DOMAIN calls, NEW n \in Nat
    PROVE  stkeys \o Collected(calls[i], n) \in Seq(Tasks)
<1>1. Shape /\ Owned
  BY DEF IInv
<1>2. stkeys \in Seq(Tasks)
  BY <1>1 DEF Shape
<1>3. adds[calls[i].client] \in Tasks
  <2>1. calls[i].client \in 1..Len(adds) /\ adds \in Seq(Tasks)
    BY <1>1 DEF Owned, Latest, Shape
  <2> QED BY <2>1
<1>4. Collected(calls[i], n) \in Seq(Tasks)
  BY <1>3 DEF Collected
<1> HIDE DEF Collected
<1> QED BY <1>2, <1>4

\* A handled answer of a call: its n reports replace connections of the JSON
\* client, or belong to the call that ends.
LEMMA HandledCounted ==
    ASSUME IInv, UNCHANGED transport, NEW i \in DOMAIN calls, NEW n \in Nat,
           calls[i].phase = "answered", Changed(i, Handled, calls[i].answer),
           made' = [made EXCEPT ![calls[i].client] = @ + n],
           transport = "json" => n <= conns[calls[i].client],
           transport = "xml" /\ n # 0 => n = 1,
           transport = "ws" => n = 0,
           n # 0 => calls[i].kind = "poll",
           conns' = IF calls[i].kind = "poll" THEN Dropped(calls[i].client) ELSE conns
    PROVE  Counted'
<1> DEFINE k0 == calls[i].client
<1> SUFFICES ASSUME NEW k \in 1..MaxAdds
             PROVE  /\ transport = "json" =>
                           made'[k] + conns'[k] <= Cardinality(Asked(k)')
                    /\ transport = "xml" => made'[k] <= Cardinality(Done(k)')
                    /\ transport = "ws" => made'[k] = 0
  BY DEF Counted
<1>1. Shape /\ Counted
  BY DEF IInv
<1>2. k0 \in 1..MaxAdds /\ calls[i].kind \in {"add", "poll"}
  BY <1>1, CallType
<1>3. /\ made[k] \in Nat /\ conns[k] \in Nat
      /\ made'[k] = IF k = k0 THEN made[k] + n ELSE made[k]
  BY <1>1, <1>2 DEF Shape
<1>4. /\ conns'[k] = IF k = k0 /\ calls[i].kind = "poll" THEN 0 ELSE conns[k]
  BY <1>1, <1>2, DroppedConns
<1>5. Handled \in Phases /\ Handled \notin InFlight /\ Handled # "connecting"
  BY DEF Handled, Phases, InFlight
<1>6. i \in Polls(k) <=> k = k0 /\ calls[i].kind = "poll"
  BY DEF Polls
<1>7. "answered" \in InFlight
  BY DEF InFlight
<1>8. /\ Cardinality(Asked(k)') = Cardinality(Asked(k))
      /\ Cardinality(Done(k)') = IF i \in Polls(k)
                                 THEN Cardinality(Done(k)) + 1 ELSE Cardinality(Done(k))
  BY <1>1, <1>5, <1>7, ChangedCounts
<1>9. Cardinality(Asked(k)) \in Nat /\ Cardinality(Done(k)) \in Nat
  BY <1>1, PollsFinite
<1>10. /\ transport = "json" => made[k] + conns[k] <= Cardinality(Asked(k))
       /\ transport = "xml" => made[k] <= Cardinality(Done(k))
       /\ transport = "ws" => made[k] = 0
  BY <1>1 DEF Counted
<1>11. k = k0 => (transport = "json" => n <= conns[k])
  OBVIOUS
<1> HIDE DEF k0
<1>12. CASE transport = "json"
  BY <1>2, <1>3, <1>4, <1>8, <1>9, <1>10, <1>11, <1>12
<1>13. CASE transport = "xml"
  BY <1>2, <1>3, <1>6, <1>8, <1>9, <1>10, <1>13
<1>14. CASE transport = "ws"
  BY <1>3, <1>10, <1>14
<1> QED BY <1>12, <1>13, <1>14

LEMMA DeliverIInv ==
    ASSUME IInv, NEW i \in DOMAIN calls, Deliver(i)
    PROVE  IInv'
<1> DEFINE c == calls[i]
           n == Receivers(c)
<1>1. Shape
  BY DEF IInv
<1>2. c.phase = "answered" /\ UNCHANGED <<manager, aria2, intime>>
  BY DEF Deliver, PhaseOf
<1>3. /\ n \in Nat
      /\ transport = "json" => n <= conns[c.client]
      /\ transport = "xml" /\ n # 0 => c.kind = "poll" /\ n = 1
      /\ transport = "ws" => n = 0
      /\ DeadReceiver(c) => n = 0
      /\ n # 0 /\ Usable(c.answer) => c.kind = "poll"
  BY <1>2, ReceiversOf
<1>4. c.client \in 1..MaxAdds /\ c.kind \in {"add", "poll"}
  BY <1>1, CallType
<1>5. CASE fault' = "badAnswer" /\ UNCHANGED <<calls, conns, made, thread>>
  <2>1. Shape'
    BY <1>1, <1>2, <1>5 DEF Shape, manager, thread, aria2
  <2> QED BY <1>2, <1>5, <2>1, KeptCalls DEF IInv
<1>6. CASE /\ n > 0 => Usable(c.answer)
           /\ made' = [made EXCEPT ![c.client] = @ + n]
           /\ stkeys' = stkeys \o Collected(c, n)
           /\ disp' = IF n > 0 /\ disp = "idle" THEN "running" ELSE disp
           /\ \/ /\ transport # "xml" /\ DeadReceiver(c)
                 /\ fault' = "deadReceiver"
                 /\ UNCHANGED <<calls, conns>>
              \/ /\ conns' = IF c.kind = "poll" THEN Dropped(c.client) ELSE conns
                 /\ Moved(i, Handled)
                 /\ UNCHANGED fault
  <2>1. stkeys' \in Seq(Tasks) /\ disp' \in {"idle", "running", "leaving"}
    BY <1>1, <1>3, <1>6, CollectedType DEF Shape
  <2>2. made \in [1..MaxAdds -> Nat] /\ made' \in [1..MaxAdds -> Nat]
    <3> HIDE DEF c, n
    <3>1. made \in [1..MaxAdds -> Nat] /\ made[c.client] + n \in Nat
      BY <1>1, <1>3, <1>4 DEF Shape
    <3> QED BY <1>6, <3>1
  <2>3. CASE DeadReceiver(c) /\ fault' = "deadReceiver" /\ UNCHANGED <<calls, conns>>
    <3>1. made' = made
      <4>1. n = 0
        BY <1>3, <2>3
      <4> HIDE DEF c, n
      <4> QED BY <1>4, <1>6, <2>2, <4>1
    <3>2. Shape'
      BY <1>1, <1>2, <2>1, <2>3, <3>1 DEF Shape, manager, aria2
    <3> QED BY <1>2, <2>3, <3>1, <3>2, KeptCalls DEF IInv
  <2>4. CASE /\ conns' = IF c.kind = "poll" THEN Dropped(c.client) ELSE conns
             /\ Moved(i, Handled)
             /\ UNCHANGED fault
    <3>1. Handled \in Phases /\ Handled # "answered"
      BY DEF Handled, Phases
    <3>2. Changed(i, Handled, c.answer)
      BY <1>1, <2>4, <3>1, MovedChanges
    <3>3. /\ conns' \in [1..MaxAdds -> Nat]
          /\ \A k \in 1..MaxAdds : conns'[k] <= conns[k]
      BY <1>1, <1>4, <2>4, DroppedConns, ConnsKept
    <3>4. Shape'
      <4>1. calls' \in Seq(Calls) /\ Len(calls') <= MaxCalls
        BY <1>1, <3>2 DEF Changed, Shape
      <4> QED BY <1>1, <1>2, <2>1, <2>2, <2>4, <3>3, <4>1 DEF Shape, manager, aria2
    <3>5. Owned'
      BY <1>2, <3>1, <3>2, OwnedChanged
    <3>6. Current'
      <4>1. Latest' = Latest /\ transport' = transport
        BY <1>2 DEF manager, Latest
      <4>2. \A k \in 1..MaxAdds : conns[k] = 0 => conns'[k] = 0
        BY <1>1, <3>3, ConnsKept
      <4> QED BY <4>1, <4>2 DEF IInv, Current
    <3>7. Counted'
      <4>1. transport' = transport
        BY <1>2 DEF manager
      <4>2. n # 0 => c.kind = "poll"
        BY <1>3, <1>6
      <4> QED BY <1>2, <1>3, <1>6, <2>4, <3>2, <4>1, <4>2, HandledCounted
    <3> QED BY <3>4, <3>5, <3>6, <3>7 DEF IInv
  <2> QED BY <1>6, <2>3, <2>4
<1>7. \/ /\ n > 0 /\ ~Usable(c.answer)
         /\ fault' = "badAnswer"
         /\ UNCHANGED <<calls, conns, made, thread>>
      \/ /\ n > 0 => Usable(c.answer)
         /\ made' = [made EXCEPT ![c.client] = @ + n]
         /\ stkeys' = stkeys \o Collected(c, n)
         /\ disp' = IF n > 0 /\ disp = "idle" THEN "running" ELSE disp
         /\ \/ /\ transport # "xml" /\ DeadReceiver(c)
               /\ fault' = "deadReceiver"
               /\ UNCHANGED <<calls, conns>>
            \/ /\ transport # "xml" => ~DeadReceiver(c)
               /\ conns' = IF c.kind = "poll" THEN Dropped(c.client) ELSE conns
               /\ Moved(i, Handled)
               /\ UNCHANGED fault
  BY DEF Deliver
<1> HIDE DEF c, n
<1> QED BY <1>5, <1>6, <1>7

\* The manager's thread, and a download that is started, paused or ends.
LEMMA OtherIInv ==
    ASSUME IInv, Dispatch \/ SeeEmpty \/ Leave \/ \E t \in Tasks : Change(t)
    PROVE  IInv'
<1>1. Shape
  BY DEF IInv
<1>2. UNCHANGED <<manager, calls, conns, made, fault, intime>>
  BY DEF Dispatch, SeeEmpty, Leave, Change
<1>3. stkeys' \in Seq(Tasks)
  <2>1. stkeys \in Seq(Tasks)
    BY <1>1 DEF Shape
  <2>2. CASE Dispatch
    BY <2>1, <2>2 DEF Dispatch
  <2>3. CASE SeeEmpty \/ Leave \/ \E t \in Tasks : Change(t)
    BY <2>1, <2>3 DEF SeeEmpty, Leave, Change, thread
  <2> QED BY <2>2, <2>3
<1>4. disp' \in {"idle", "running", "leaving"}
  BY <1>1 DEF Shape, Dispatch, SeeEmpty, Leave, Change, thread
<1>5. accepted' \subseteq Tasks /\ status' \in [Tasks -> Statuses]
  <2>1. CASE \E t \in Tasks : Change(t)
    <3>1. PICK t \in Tasks, s \in Statuses : status' = [status EXCEPT ![t] = s]
      BY <2>1 DEF Change
    <3> QED BY <1>1, <2>1, <3>1 DEF Shape, Change
  <2>2. CASE Dispatch \/ SeeEmpty \/ Leave
    BY <1>1, <2>2 DEF Shape, Dispatch, SeeEmpty, Leave, aria2
  <2> QED BY <2>1, <2>2
<1>6. Shape'
  BY <1>1, <1>2, <1>3, <1>4, <1>5 DEF Shape, manager
<1> QED BY <1>2, <1>6, KeptCalls DEF IInv

LEMMA Inductive == IInv /\ [Next]_vars => IInv'
<1> SUFFICES ASSUME IInv, [Next]_vars PROVE IInv'
  OBVIOUS
<1>1. CASE UNCHANGED vars
  <2>1. Shape'
    BY <1>1 DEF IInv, Shape, vars, manager, thread, aria2
  <2> QED BY <1>1, <2>1, KeptCalls DEF IInv, vars
<1>2. CASE \E t \in Tasks : AddTask(t)
  BY <1>2, AddTaskIInv
<1>3. CASE Tick
  BY <1>3, TickIInv
<1>4. CASE \E i \in DOMAIN calls : Client(i) \/ Break(i) \/ Serve(i)
  BY <1>4, ConnectIInv, DeliverIInv, ClosingIInv, BreakIInv, ServeIInv DEF Client
<1>5. CASE Dispatch \/ SeeEmpty \/ Leave \/ \E t \in Tasks : Change(t)
  BY <1>5, OtherIInv
<1> QED BY <1>1, <1>2, <1>3, <1>4, <1>5 DEF Next

\* Polls are as few as calls, and reports and connections as few as polls.
LEMMA BoundsFromIInv == IInv => TypeOK /\ ReportsBounded
<1> SUFFICES ASSUME IInv PROVE TypeOK /\ ReportsBounded
  OBVIOUS
<1>1. Shape /\ Current /\ Counted
  BY DEF IInv
<1>2. transport \in {"json", "xml", "ws"}
  BY <1>1, RpcAssumption DEF Shape
<1>3. ASSUME NEW k \in 1..MaxAdds
      PROVE  /\ conns[k] \in 0..MaxCalls /\ made[k] \in 0..MaxCalls
             /\ made[k] + conns[k] <= Cardinality(Asked(k))
  <2>1. /\ Cardinality(Asked(k)) \in 0..MaxCalls
        /\ Cardinality(Done(k)) \in 0..Cardinality(Asked(k))
    BY <1>1, PollsFinite
  <2>2. made[k] \in Nat /\ conns[k] \in Nat
    BY <1>1, ConnsKept
  <2>3. /\ transport = "json" => made[k] + conns[k] <= Cardinality(Asked(k))
        /\ transport = "xml" => made[k] <= Cardinality(Done(k))
        /\ transport = "ws" => made[k] = 0
        /\ transport # "json" => conns[k] = 0
    BY <1>1 DEF Counted, Current
  <2> QED BY <1>2, <2>1, <2>2, <2>3, RpcAssumption
<1>4. conns \in [1..MaxAdds -> 0..MaxCalls] /\ made \in [1..MaxAdds -> 0..MaxCalls]
  BY <1>1, <1>3 DEF Shape
<1>5. TypeOK
  BY <1>1, <1>4 DEF Shape, TypeOK
<1>6. ReportsBounded
  BY <1>3 DEF ReportsBounded, Asked
<1> QED BY <1>5, <1>6

LEMMA Invariant == Spec => []IInv
<1> QED BY InitIInv, Inductive, PTL DEF Spec

\* Every variable keeps its type: the counters of reports and connections are
\* bounded by the calls made, whatever is lost, refused or answered late.
THEOREM TypeCorrect == Spec => []TypeOK
<1>1. IInv => TypeOK
  BY BoundsFromIInv
<1> QED BY <1>1, Invariant, PTL

\* For all three clients, any number of tasks, calls and failures: no client
\* makes more reports than it sent polls, although one answer of the JSON
\* client runs the receivers of every call that waits for one.
THEOREM Bounded == Spec => []ReportsBounded
<1>1. IInv => ReportsBounded
  BY BoundsFromIInv
<1> QED BY <1>1, Invariant, PTL

-----------------------------------------------------------------------------
(* Answers that come in time *)

\* The calls under way are of one kind, through the latest client.
OneBatch ==
    \A i \in DOMAIN calls : calls[i].phase \in InFlight =>
        /\ calls[i].client = Latest
        /\ \A j \in DOMAIN calls :
               calls[j].phase \in InFlight => calls[j].kind = calls[i].kind

\* aria2 has the download of a task, or will be asked for it before it answers.
Handed ==
    \A t \in m_tasks : t \in accepted \/
        \E i \in DOMAIN calls : /\ calls[i].kind = "add" /\ calls[i].task = t
                                /\ calls[i].phase \in {"connecting", "sent"}

\* How a download that aria2 knows stands.
Stands == Statuses \cup {"uneven"}

Known ==
    \A i \in DOMAIN calls :
        calls[i].phase = "answered" /\ calls[i].kind = "poll" => calls[i].answer \in Stands

\* A connection waits for a poll.
Awaited ==
    \A k \in 1..MaxAdds : conns[k] # 0 =>
        \E i \in Polls(k) : calls[i].phase \in InFlight

Exact ==
    \A k \in 1..MaxAdds :
        /\ transport = "json" => made[k] + conns[k] = Cardinality(Asked(k))
        /\ transport = "xml" => made[k] = Cardinality(Done(k))

\* What cannot be taken apart is a poll's answer.
Blame ==
    /\ fault # "deadReceiver"
    /\ fault = "badAnswer" =>
         \E i \in DOMAIN calls :
           /\ calls[i].kind = "poll" /\ calls[i].phase = "answered"
           /\ calls[i].answer \in {"waiting", "ended", "uneven"}

InTime == Blame /\ OneBatch /\ Handed /\ Known /\ Awaited /\ Exact

PInv == IInv /\ InTime

\* The invariant: it asks nothing of a run that was not in time.
TInv == IInv /\ (intime => InTime)

LEMMA InitInTime == Init => InTime
<1> SUFFICES ASSUME Init PROVE InTime
  OBVIOUS
<1>1. DOMAIN calls = {} /\ m_tasks = {} /\ fault = "none"
  BY DEF Init
<1>2. \A k \in 1..MaxAdds : conns[k] = 0 /\ made[k] = 0
  BY DEF Init
<1>3. \A k \in 1..MaxAdds : Cardinality(Asked(k)) = 0 /\ Cardinality(Done(k)) = 0
  <2>1. \A k \in 1..MaxAdds : Asked(k) = {} /\ Done(k) = {}
    BY <1>1 DEF Asked, Done, Polls
  <2> QED BY <2>1, FS_EmptySet
<1>4. Exact
  BY <1>2, <1>3 DEF Exact
<1> QED BY <1>1, <1>2, <1>4 DEF InTime, Blame, OneBatch, Handed, Known, Awaited

\* Between two batches of calls nothing is waited for.
LEMMA SettledInTime ==
    ASSUME PInv, Settled
    PROVE  /\ \A i \in DOMAIN calls : calls[i].phase \notin InFlight
           /\ m_tasks \subseteq accepted
           /\ \A k \in 1..MaxAdds : conns[k] = 0 /\ Asked(k) = Polls(k) /\ Done(k) = Polls(k)
<1>1. \A i \in DOMAIN calls : calls[i].phase \notin InFlight
  BY DEF Settled, InFlight
<1>2. m_tasks \subseteq accepted
  BY <1>1 DEF PInv, InTime, Handed, InFlight
<1>3. \A k \in 1..MaxAdds : conns[k] = 0
  BY <1>1 DEF PInv, InTime, Awaited, Polls
<1>4. \A k \in 1..MaxAdds : Asked(k) = Polls(k) /\ Done(k) = Polls(k)
  BY <1>1 DEF Asked, Done, Polls, InFlight
<1> QED BY <1>1, <1>2, <1>3, <1>4

\* A new batch.
LEMMA ExtendedInTime ==
    ASSUME PInv, Settled, NEW kind \in {"add", "poll"}, Extended(kind),
           UNCHANGED <<transport, made, fault>>, fault = "none",
           \A k \in 1..MaxAdds : conns'[k] = 0,
           Handed'
    PROVE  InTime'
<1>1. \A i \in DOMAIN calls : calls[i].phase \notin InFlight
  BY SettledInTime
<1>2. \A i \in DOMAIN calls' : calls'[i].phase \in InFlight =>
          /\ calls'[i].client = Latest' /\ calls'[i].kind = kind
          /\ calls'[i].phase = "connecting"
  BY <1>1 DEF Extended
<1>3. OneBatch'
  BY <1>2 DEF OneBatch
<1>4. Known'
  BY <1>2 DEF Known, InFlight
<1>5. Awaited'
  BY DEF Awaited
<1>6. Exact'
  <2>1. \A k \in 1..MaxAdds : conns[k] = 0
    BY SettledInTime
  <2>2. \A k : Asked(k)' = Asked(k) /\ Done(k)' = Done(k)
    BY ExtendedCounts DEF PInv, IInv
  <2> QED BY <2>1, <2>2 DEF PInv, InTime, Exact
<1> QED BY <1>3, <1>4, <1>5, <1>6 DEF InTime, Blame

LEMMA AddTaskInTime ==
    ASSUME PInv, NEW t \in Tasks, AddTask(t), intime'
    PROVE  InTime'
<1>1. /\ Settled /\ UNCHANGED <<transport, made, fault, accepted>> /\ fault = "none"
      /\ m_tasks' = m_tasks \cup {t}
  BY DEF AddTask, aria2
<1>2. \A k \in 1..MaxAdds : conns'[k] = 0
  BY DEF AddTask
<1>3. Extended("add") /\ \E j \in DOMAIN calls' : calls'[j].task = t /\ j \notin DOMAIN calls
  BY AddTaskExtends DEF PInv, IInv
<1>4. Handed'
  <2>1. \E j \in DOMAIN calls' : /\ calls'[j].kind = "add" /\ calls'[j].task = t
                                 /\ calls'[j].phase \in {"connecting", "sent"}
    BY <1>3 DEF Extended
  <2>2. m_tasks \subseteq accepted
    BY <1>1, SettledInTime
  <2> QED BY <1>1, <2>1, <2>2 DEF Handed
<1> QED BY <1>1, <1>2, <1>3, <1>4, ExtendedInTime

LEMMA TickInTime ==
    ASSUME PInv, Tick, intime'
    PROVE  InTime'
<1>1. /\ Settled /\ UNCHANGED <<transport, m_tasks, conns, made, fault, accepted>>
      /\ fault = "none"
  BY DEF Tick, manager, aria2
<1>2. m_tasks \subseteq accepted /\ \A k \in 1..MaxAdds : conns[k] = 0
  BY <1>1, SettledInTime
<1>3. Handed'
  BY <1>1, <1>2 DEF Handed
<1>4. Extended("poll")
  BY TickExtends DEF PInv, IInv
<1> QED BY <1>1, <1>2, <1>3, <1>4, ExtendedInTime

\* What a call that goes on keeps, whatever it reports.
LEMMA ChangedInTime ==
    ASSUME PInv, NEW i \in DOMAIN calls, NEW p \in Phases, NEW a, Changed(i, p, a),
           UNCHANGED manager,
           p \in InFlight => calls[i].phase \in InFlight,
           p = "answered" /\ calls[i].kind = "poll" => a \in Stands,
           accepted \subseteq accepted',
           calls[i].kind = "add" /\ calls[i].phase \in {"connecting", "sent"} =>
               p \in {"connecting", "sent"} \/ calls[i].task \in accepted',
           \A k \in 1..MaxAdds : conns'[k] # 0 =>
               \/ conns[k] # 0 /\ (calls[i].phase \in InFlight => p \in InFlight)
               \/ i \in Polls(k) /\ p \in InFlight
    PROVE  OneBatch' /\ Handed' /\ Known' /\ Awaited'
<1>1. DOMAIN calls' = DOMAIN calls
  BY DEF Changed, PInv, IInv, Shape
<1>2. Latest' = Latest /\ m_tasks' = m_tasks
  BY DEF manager, Latest
<1>3. \A j \in DOMAIN calls : j # i => calls'[j] = calls[j]
  BY DEF Changed
<1>4. /\ calls'[i].client = calls[i].client /\ calls'[i].kind = calls[i].kind
      /\ calls'[i].task = calls[i].task /\ calls'[i].phase = p /\ calls'[i].answer = a
  BY DEF Changed
<1>5. \A j \in DOMAIN calls : /\ calls'[j].client = calls[j].client
                              /\ calls'[j].kind = calls[j].kind
                              /\ calls'[j].phase \in InFlight => calls[j].phase \in InFlight
  BY <1>3, <1>4
<1>6. OneBatch'
  BY <1>1, <1>2, <1>5 DEF PInv, InTime, OneBatch
<1>7. Handed'
  <2> SUFFICES ASSUME NEW t \in m_tasks, t \notin accepted'
               PROVE  \E j \in DOMAIN calls :
                          /\ calls'[j].kind = "add" /\ calls'[j].task = t
                          /\ calls'[j].phase \in {"connecting", "sent"}
    BY <1>1, <1>2 DEF Handed
  <2>1. PICK j \in DOMAIN calls : /\ calls[j].kind = "add" /\ calls[j].task = t
                                  /\ calls[j].phase \in {"connecting", "sent"}
    BY DEF PInv, InTime, Handed
  <2>2. CASE j = i
    BY <1>4, <2>1, <2>2
  <2>3. CASE j # i
    BY <1>3, <2>1, <2>3
  <2> QED BY <2>2, <2>3
<1>8. Known'
  <2> SUFFICES ASSUME NEW j \in DOMAIN calls,
                      calls'[j].phase = "answered", calls'[j].kind = "poll"
               PROVE  calls'[j].answer \in Stands
    BY <1>1 DEF Known, Stands
  <2>1. CASE j = i
    BY <1>4, <2>1
  <2>2. CASE j # i
    BY <1>3, <2>2 DEF PInv, InTime, Known
  <2> QED BY <2>1, <2>2
<1>9. Awaited'
  <2> SUFFICES ASSUME NEW k \in 1..MaxAdds, conns'[k] # 0
               PROVE  \E j \in DOMAIN calls : /\ calls'[j].client = k /\ calls'[j].kind = "poll"
                                              /\ calls'[j].phase \in InFlight
    BY <1>1 DEF Awaited, Polls
  <2>1. CASE i \in Polls(k) /\ p \in InFlight
    BY <1>4, <2>1 DEF Polls
  <2>2. CASE conns[k] # 0 /\ (calls[i].phase \in InFlight => p \in InFlight)
    <3>1. PICK j \in Polls(k) : calls[j].phase \in InFlight
      BY <2>2 DEF PInv, InTime, Awaited
    <3>2. CASE j = i
      BY <1>4, <2>2, <3>1, <3>2 DEF Polls
    <3>3. CASE j # i
      BY <1>3, <3>1, <3>3 DEF Polls
    <3> QED BY <3>2, <3>3
  <2> QED BY <2>1, <2>2
<1> QED BY <1>6, <1>7, <1>8, <1>9

LEMMA ConnectInTime ==
    ASSUME PInv, NEW i \in DOMAIN calls, Connect(i)
    PROVE  InTime'
<1> DEFINE k0 == calls[i].client
           joins == transport = "json" /\ calls[i].kind = "poll"
<1>1. Shape /\ fault = "none"
  BY DEF PInv, IInv, Connect
<1>2. calls[i].phase = "connecting" /\ Changed(i, "sent", calls[i].answer)
  <2>1. calls[i].phase = "connecting" /\ Moved(i, "sent")
    BY DEF Connect, PhaseOf
  <2> QED BY <1>1, <2>1, MovedChanges DEF Phases
<1>3. ~DeadReceiver(calls[i])
  BY <1>2 DEF PInv, InTime, OneBatch, DeadReceiver, InFlight
<1>4. /\ UNCHANGED <<manager, made, accepted, fault>>
      /\ joins => conns' = [conns EXCEPT ![k0] = @ + 1]
      /\ ~joins => conns' = conns
  BY <1>1, <1>3 DEF Connect, aria2
<1>5. k0 \in 1..MaxAdds
  BY <1>1, CallType
<1>6. conns \in [1..MaxAdds -> Nat] /\ made \in [1..MaxAdds -> Nat]
  BY <1>1, ConnsKept
<1>7. \A k \in 1..MaxAdds : conns'[k] = IF joins /\ k = k0 THEN conns[k] + 1 ELSE conns[k]
  <2> HIDE DEF joins, k0
  <2>1. CASE joins
    BY <1>4, <1>5, <1>6, <2>1
  <2>2. CASE ~joins
    BY <1>4, <2>2
  <2> QED BY <2>1, <2>2
<1>8. "sent" \in Phases /\ "sent" \in InFlight /\ "connecting" \in InFlight
  BY DEF Phases, InFlight
<1>9. \A k \in 1..MaxAdds : conns'[k] # 0 => conns[k] # 0 \/ i \in Polls(k)
  BY <1>7 DEF Polls
<1>10. OneBatch' /\ Handed' /\ Known' /\ Awaited'
  <2>1. accepted \subseteq accepted' /\ "sent" # "answered" /\ "sent" \in {"connecting", "sent"}
    BY <1>4
  <2> QED BY <1>2, <1>4, <1>8, <1>9, <2>1, ChangedInTime
<1>11. Exact'
  <2> SUFFICES ASSUME NEW k \in 1..MaxAdds
               PROVE  /\ transport = "json" => made[k] + conns'[k] = Cardinality(Asked(k)')
                      /\ transport = "xml" => made[k] = Cardinality(Done(k)')
    BY <1>4 DEF Exact, manager
  <2>1. /\ Cardinality(Asked(k)') = IF i \in Polls(k)
                                    THEN Cardinality(Asked(k)) + 1 ELSE Cardinality(Asked(k))
        /\ Cardinality(Done(k)') = Cardinality(Done(k))
    BY <1>1, <1>2, <1>8, ChangedCounts
  <2>2. Cardinality(Asked(k)) \in Nat /\ Cardinality(Done(k)) \in Nat
    BY <1>1, PollsFinite
  <2>3. transport = "json" => (i \in Polls(k) <=> joins /\ k = k0)
    BY DEF Polls
  <2>4. /\ transport = "json" => made[k] + conns[k] = Cardinality(Asked(k))
        /\ transport = "xml" => made[k] = Cardinality(Done(k))
    BY DEF PInv, InTime, Exact
  <2> HIDE DEF joins, k0
  <2>5. made[k] \in Nat /\ conns[k] \in Nat
    BY <1>6
  <2> QED BY <1>7, <2>1, <2>2, <2>3, <2>4, <2>5
<1> QED BY <1>1, <1>4, <1>10, <1>11 DEF InTime, Blame

LEMMA ServeInTime ==
    ASSUME PInv, NEW i \in DOMAIN calls, Serve(i), intime'
    PROVE  InTime'
<1>1. Shape
  BY DEF PInv, IInv
<1>2. calls[i].phase = "sent" /\ calls[i].kind \in {"add", "poll"} /\ calls[i].task \in m_tasks
  BY <1>1, CallType DEF Serve, PhaseOf, PInv, IInv, Owned
<1>3. UNCHANGED <<manager, conns, made, fault>> /\ fault = "none"
  BY DEF Serve
<1>4. calls[i].kind = "poll" => calls[i].task \in accepted
  BY <1>2 DEF PInv, InTime, Handed, OneBatch, InFlight
<1>5. PICK a \in Answers :
         /\ calls' = [calls EXCEPT ![i].phase = "answered", ![i].answer = a]
         /\ calls[i].kind = "poll" => a \in Stands
         /\ accepted \subseteq accepted'
         /\ calls[i].kind = "add" => calls[i].task \in accepted'
  <2>1. CASE calls[i].kind = "poll"
    <3>1. status[calls[i].task] \in Statuses
      BY <1>1, <1>2 DEF Shape
    <3> QED BY <1>4, <2>1, <3>1 DEF Serve, Answers, Stands
  <2>2. CASE calls[i].kind = "add"
    BY <2>2 DEF Serve, Answers
  <2> QED BY <1>2, <2>1, <2>2
<1>6. Changed(i, "answered", a)
  BY <1>1, <1>5, AnswerChanges
<1>7. "answered" \in Phases /\ calls[i].phase \in InFlight /\ "answered" \in InFlight
  BY <1>2 DEF Phases, InFlight
<1>8. OneBatch' /\ Handed' /\ Known' /\ Awaited'
  BY <1>3, <1>5, <1>6, <1>7, ChangedInTime
<1>9. Exact'
  <2>1. \A k : /\ Cardinality(Asked(k)') = Cardinality(Asked(k))
               /\ Cardinality(Done(k)') = Cardinality(Done(k))
    BY <1>1, <1>2, <1>6, <1>7, ChangedCounts
  <2> QED BY <1>3, <2>1 DEF PInv, InTime, Exact, manager
<1> QED BY <1>3, <1>8, <1>9 DEF InTime, Blame

LEMMA ClosingInTime ==
    ASSUME PInv, NEW i \in DOMAIN calls, LoopCycle(i) \/ SelfFinished(i)
    PROVE  InTime'
<1>1. Shape
  BY DEF PInv, IInv
<1>2. PICK p \in {"quitting", "gone"} : Moved(i, p)
  BY DEF LoopCycle, SelfFinished
<1>3. UNCHANGED <<manager, conns, made, fault, aria2>> /\ fault = "none"
  BY DEF LoopCycle, SelfFinished
<1>4. calls[i].phase \notin InFlight /\ p \in Phases /\ p \notin InFlight
  BY DEF LoopCycle, SelfFinished, PhaseOf, Phases, InFlight
<1>5. Changed(i, p, calls[i].answer)
  BY <1>1, <1>2, <1>4, MovedChanges
<1>6. p # "answered" /\ p # "connecting" /\ calls[i].phase \notin {"connecting", "sent"}
  BY <1>4 DEF InFlight
<1>7. OneBatch' /\ Handed' /\ Known' /\ Awaited'
  BY <1>3, <1>4, <1>5, <1>6, ChangedInTime DEF aria2
<1>8. Exact'
  <2>1. \A k : /\ Cardinality(Asked(k)') = Cardinality(Asked(k))
               /\ Cardinality(Done(k)') = Cardinality(Done(k))
    BY <1>1, <1>4, <1>5, <1>6, ChangedCounts
  <2> QED BY <1>3, <2>1 DEF PInv, InTime, Exact, manager
<1> QED BY <1>3, <1>7, <1>8 DEF InTime, Blame

\* An answer calls every receiver there is: none of them waits on.
LEMMA DeliverInTime ==
    ASSUME PInv, NEW i \in DOMAIN calls, Deliver(i)
    PROVE  InTime'
<1> DEFINE c == calls[i]
           n == Receivers(c)
           k0 == c.client
<1>1. Shape /\ Current /\ Owned
  BY DEF PInv, IInv
<1>2. c.phase = "answered" /\ UNCHANGED <<manager, aria2, intime>>
  BY DEF Deliver, PhaseOf
<1>3. k0 \in 1..MaxAdds /\ c.kind \in {"add", "poll"}
  BY <1>1, CallType
<1>4. k0 = Latest /\ ~DeadReceiver(c)
  BY <1>2 DEF PInv, InTime, OneBatch, DeadReceiver, InFlight
<1>5. c.kind = "poll" => c.answer \in Stands
  BY <1>2 DEF PInv, InTime, Known
<1>6. c.kind = "add" => \A k \in 1..MaxAdds : conns[k] = 0
  BY <1>2 DEF PInv, InTime, OneBatch, Awaited, Polls, InFlight
<1>7. transport \in {"json", "xml", "ws"}
  BY <1>1, RpcAssumption DEF Shape
<1>8. /\ c.kind = "add" => n = 0
      /\ c.kind = "poll" /\ transport = "json" => n = conns[k0]
      /\ c.kind = "poll" /\ transport = "xml" => n = 1
      /\ transport = "ws" => n = 0
  BY <1>3, <1>4, <1>5, <1>6, <1>7 DEF Receivers, Stands, Statuses
<1>9. fault = "none"
  BY DEF Deliver
<1>10. CASE n > 0 /\ ~Usable(c.answer)
  <2>1. UNCHANGED <<manager, calls, conns, made, accepted>> /\ fault' = "badAnswer"
    <3>1. UNCHANGED <<calls, conns, made, thread>> /\ fault' = "badAnswer"
      BY <1>10 DEF Deliver
    <3> QED BY <1>2, <3>1 DEF aria2
  <2>2. c.kind = "poll" /\ c.answer \in {"waiting", "ended", "uneven"}
    BY <1>3, <1>5, <1>8, <1>10 DEF Stands, Statuses, Usable
  <2>3. Blame'
    BY <1>2, <2>1, <2>2 DEF Blame
  <2>4. OneBatch' /\ Handed' /\ Known' /\ Awaited'
    <3>1. UNCHANGED <<transport, m_tasks, adds, calls, conns, accepted>>
      BY <2>1 DEF manager
    <3>2. Latest' = Latest /\ \A k : Polls(k)' = Polls(k)
      BY <3>1 DEF Latest, Polls
    <3> QED BY <3>1, <3>2 DEF PInv, InTime, OneBatch, Handed, Known, Awaited, Stands
  <2>5. Exact'
    BY <2>1, SameCounts DEF PInv, InTime, Exact, manager
  <2> QED BY <2>3, <2>4, <2>5 DEF InTime
<1>11. CASE n > 0 => Usable(c.answer)
  <2>1. /\ made' = [made EXCEPT ![k0] = @ + n]
        /\ conns' = IF c.kind = "poll" THEN Dropped(k0) ELSE conns
        /\ Moved(i, Handled) /\ UNCHANGED fault
    BY <1>4, <1>11 DEF Deliver
  <2>2. Handled \in Phases /\ Handled \notin InFlight
    BY DEF Handled, Phases, InFlight
  <2>3. Changed(i, Handled, c.answer)
    BY <1>1, <2>1, <2>2, MovedChanges
  <2>4. \A k \in 1..MaxAdds : conns'[k] = 0
    <3>1. \A k \in 1..MaxAdds : k # k0 => conns[k] = 0
      BY <1>1, <1>4 DEF Current
    <3>2. CASE c.kind = "poll"
      BY <1>1, <1>3, <2>1, <3>1, <3>2, DroppedConns
    <3>3. CASE c.kind = "add"
      BY <1>6, <2>1, <3>3
    <3> QED BY <1>3, <3>2, <3>3
  <2>5. /\ Handled # "answered" /\ "answered" \in InFlight
        /\ "answered" \notin {"connecting", "sent"} /\ Handled # "connecting"
    BY <2>2 DEF InFlight
  <2>6. OneBatch' /\ Handed' /\ Known' /\ Awaited'
    BY <1>2, <2>2, <2>3, <2>4, <2>5, ChangedInTime DEF aria2
  <2>7. Exact'
    <3> SUFFICES ASSUME NEW k \in 1..MaxAdds
                 PROVE  /\ transport = "json" => made'[k] + conns'[k] = Cardinality(Asked(k)')
                        /\ transport = "xml" => made'[k] = Cardinality(Done(k)')
      BY <1>2 DEF Exact, manager
    <3>1. /\ Cardinality(Asked(k)') = Cardinality(Asked(k))
          /\ Cardinality(Done(k)') = IF i \in Polls(k)
                                     THEN Cardinality(Done(k)) + 1 ELSE Cardinality(Done(k))
      BY <1>1, <1>2, <2>2, <2>3, <2>5, ChangedCounts
    <3>2. Cardinality(Asked(k)) \in Nat /\ Cardinality(Done(k)) \in Nat
      BY <1>1, PollsFinite
    <3>3. i \in Polls(k) <=> c.kind = "poll" /\ k = k0
      BY DEF Polls
    <3>4. /\ transport = "json" => made[k] + conns[k] = Cardinality(Asked(k))
          /\ transport = "xml" => made[k] = Cardinality(Done(k))
      BY DEF PInv, InTime, Exact
    <3>5. made \in [1..MaxAdds -> Nat] /\ made[k] \in Nat /\ conns[k] \in Nat
      BY <1>1, ConnsKept
    <3>6. k # k0 => conns[k] = 0
      BY <1>1, <1>4 DEF Current
    <3>7. c.kind = "add" => conns[k] = 0
      BY <1>6
    <3> HIDE DEF c, n, k0
    <3>8. made'[k] = IF k = k0 THEN made[k] + n ELSE made[k]
      BY <1>3, <2>1, <3>5
    <3> QED BY <1>3, <1>8, <2>4, <3>1, <3>2, <3>3, <3>4, <3>5, <3>6, <3>7, <3>8
  <2> QED BY <1>9, <2>1, <2>6, <2>7 DEF InTime, Blame
<1> QED BY <1>10, <1>11

LEMMA OtherInTime ==
    ASSUME PInv,
           \/ Dispatch \/ SeeEmpty \/ Leave \/ UNCHANGED vars
           \/ \E t \in Tasks : Change(t)
    PROVE  InTime'
<1>1. UNCHANGED <<manager, calls, conns, made, fault, accepted>>
  BY DEF Dispatch, SeeEmpty, Leave, Change, vars, aria2
<1>2. UNCHANGED <<transport, m_tasks, adds, calls, conns, made, fault, accepted>>
  BY <1>1 DEF manager
<1>3. Latest' = Latest /\ \A k : Polls(k)' = Polls(k)
  BY <1>2 DEF Latest, Polls
<1>4. OneBatch' /\ Handed' /\ Known' /\ Awaited' /\ Blame'
  BY <1>2, <1>3 DEF PInv, InTime, OneBatch, Handed, Known, Awaited, Stands, Blame
<1>5. Exact'
  BY <1>2, SameCounts DEF PInv, InTime, Exact
<1> QED BY <1>4, <1>5 DEF InTime

LEMMA InductiveInTime == TInv /\ [Next]_vars => TInv'
<1> SUFFICES ASSUME TInv, [Next]_vars, intime' PROVE InTime'
  BY Inductive DEF TInv
<1>1. intime
  BY DEF Next, vars, AddTask, Change, Tick, Client, Connect, Deliver, LoopCycle,
         SelfFinished, Break, Serve, Dispatch, SeeEmpty, Leave
<1>2. PInv
  BY <1>1 DEF TInv, PInv
<1>3. CASE \E t \in Tasks : AddTask(t)
  BY <1>2, <1>3, AddTaskInTime
<1>4. CASE Tick
  BY <1>2, <1>4, TickInTime
<1>5. CASE \E i \in DOMAIN calls : Client(i) \/ Break(i) \/ Serve(i)
  <2>1. \A i \in DOMAIN calls : ~Break(i)
    BY DEF Break
  <2> QED BY <1>2, <1>5, <2>1, ConnectInTime, DeliverInTime, ClosingInTime, ServeInTime
          DEF Client
<1>6. CASE \/ Dispatch \/ SeeEmpty \/ Leave \/ UNCHANGED vars
           \/ \E t \in Tasks : Change(t)
  BY <1>2, <1>6, OtherInTime
<1> QED BY <1>3, <1>4, <1>5, <1>6 DEF Next

LEMMA InvariantInTime == Spec => []TInv
<1>1. Init => TInv
  BY InitIInv, InitInTime DEF TInv
<1>2. TInv /\ [Next]_vars => TInv'
  BY InductiveInTime
<1> QED BY <1>1, <1>2, PTL DEF Spec

\* Answers that come before the next tick and the next task always find the
\* collector they are for, and are those of polls, of downloads that aria2 has:
\* what still cannot be taken apart is the answer for one that is not active, or
\* whose files have fewer servers than there are files before them.
THEOREM AnswersAreSafe == Spec => []PromptFaultsAreOfPolls
<1>1. TInv => PromptFaultsAreOfPolls
  BY DEF TInv, InTime, Blame, PromptFaultsAreOfPolls
<1> QED BY <1>1, InvariantInTime, PTL

\* Then no poll is lost either: once a batch was answered, each poll of each
\* client has made its report, through whichever connection.
THEOREM NoPollLost == Spec => []EveryPollReports
<1>1. TInv => EveryPollReports
  <2> SUFFICES ASSUME TInv, intime, Settled, transport # "ws", NEW k \in 1..MaxAdds
               PROVE  made[k] = Cardinality(Polls(k))
    BY DEF EveryPollReports
  <2>0. PInv
    BY DEF TInv, PInv
  <2>1. Shape /\ made[k] \in Nat
    BY <2>0, ConnsKept DEF PInv, IInv
  <2>2. transport \in {"json", "xml"}
    BY <2>1, RpcAssumption DEF Shape
  <2>3. conns[k] = 0 /\ Asked(k) = Polls(k) /\ Done(k) = Polls(k)
    BY <2>0, SettledInTime
  <2> QED BY <2>0, <2>1, <2>2, <2>3 DEF PInv, InTime, Exact
<1> QED BY <1>1, InvariantInTime, PTL
=============================================================================
