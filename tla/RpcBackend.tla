----------------------------- MODULE RpcBackend -----------------------------
(***************************************************************************)
(* The backends that drive an aria2 process by remote calls: the managers  *)
(* Aria2JsonManager, Aria2XmlManager and Aria2WSJsonManager (the one the   *)
(* program creates, karia2.cpp:267), which are copies of one another, over *)
(* three clients that differ in how an answer finds its receiver.          *)
(*                                                                         *)
(*   json  one socket per call; the answer is a signal of the client, to   *)
(*         which every call connects its receiver once its socket is       *)
(*         connected, and from which it disconnects that receiver again    *)
(*   xml   one reply object per call, connected when the call is made      *)
(*   ws    one socket and one thread per call; nobody is connected to the  *)
(*         client's signal                                                 *)
(*                                                                         *)
(* Each addTask replaces the manager's client and its collector of         *)
(* statistics; a timer then polls every task ever added through the latest *)
(* client, for the latest collector.  Answers are pooled by the collector, *)
(* queued for the manager's thread, and emitted from there to the list of  *)
(* tasks.                                                                  *)
(***************************************************************************)
EXTENDS Integers, Sequences, FiniteSets, SequencesExt

CONSTANTS
    Tasks,
    Transports,  \* the clients to choose from
    NoAnswer,
    MaxAdds,     \* bound: calls of addTask
    MaxCalls     \* bound: remote calls

ASSUME RpcAssumption ==
    /\ IsFiniteSet(Tasks)
    /\ Transports \subseteq {"json", "xml", "ws"}
    /\ MaxAdds \in Nat /\ MaxCalls \in Nat

VARIABLES
    transport,  \* which manager the factory created
    \* GUI thread: the manager and its clients
    m_tasks,    \* ids the timer polls
    adds,       \* task of each addTask; the k-th made client and collector k
    calls,      \* all calls, in the order they were made
    conns,      \* json: connections of client k's aresponse to collector k
    made,       \* statistics made by collector k
    fault,      \* "none", or the undefined behaviour that ended the process
    \* the manager's thread
    stkeys,     \* its queue
    disp,       \* "idle", "running" or "leaving"
    \* aria2
    accepted,   \* downloads it has
    status,     \* how they stand
    \* history
    intime      \* every call was answered before the next tick and the next
                \* addTask, no connection broke, and aria2 rejected only a gid
                \* that it already had

manager == <<transport, m_tasks, adds>>
thread == <<stkeys, disp>>
aria2 == <<accepted, status>>
vars == <<manager, calls, conns, made, fault, thread, aria2, intime>>

\* waiting or paused; active; complete, removed or failed
Statuses == {"waiting", "active", "ended"}
Phases == {"connecting", "sent", "answered", "closed", "quitting", "gone", "dead"}
\* What comes back: of a poll the status, where "uneven" is the status active of
\* a download one of whose files has fewer servers than there are files before it.
Answers == Statuses \cup {"uneven", "gid", "rejected", "unknownGid"}
Calls == [client : 1..MaxAdds, kind : {"add", "poll"}, task : Tasks,
          phase : Phases, answer : Answers \cup {NoAnswer}]

TypeOK ==
    /\ transport \in Transports
    /\ m_tasks \subseteq Tasks
    /\ adds \in Seq(Tasks) /\ Len(adds) <= MaxAdds
    /\ calls \in Seq(Calls) /\ Len(calls) <= MaxCalls
    /\ conns \in [1..MaxAdds -> 0..MaxCalls]
    /\ made \in [1..MaxAdds -> 0..MaxCalls]
    /\ fault \in {"none", "deadReceiver", "badAnswer"}
    /\ stkeys \in Seq(Tasks)
    /\ disp \in {"idle", "running", "leaving"}
    /\ accepted \subseteq Tasks
    /\ status \in [Tasks -> Statuses]
    /\ intime \in BOOLEAN

\* The phase of the i-th call, "none" before it is made.
PhaseOf(i) == IF i \in DOMAIN calls THEN calls[i].phase ELSE "none"

\* No call is under way.
Settled == \A i \in DOMAIN calls :
               calls[i].phase \notin {"connecting", "sent", "answered"}

-----------------------------------------------------------------------------
(* The managers, in the GUI thread *)

\* The newest client and collector: mJsonRpc and statCalc_.
Latest == Len(adds)

\* A call to a client; the answer of a poll is for the client's collector.
Call(k, kind, t) ==
    [client |-> k, kind |-> kind, task |-> t, phase |-> "connecting",
     answer |-> NoAnswer]

\* Faulty: the download is put into m_tasks but not handed to aria2.
NotAddCall(k, t) == <<>>

\* aria2.addUri, aria2.addTorrent or aria2.addMetalink
AddCall(k, t) == <<Call(k, "add", t)>>

AddTask(t) ==
    /\ fault = "none"
    /\ Len(adds) < MaxAdds /\ Len(calls) < MaxCalls
    /\ intime' = (intime /\ Settled)
    /\ adds' = Append(adds, t)
    /\ m_tasks' = m_tasks \cup {t}
    /\ calls' = calls \o AddCall(Latest + 1, t)
    \* the collector replaced takes its connections with it
    /\ conns' = [k \in 1..MaxAdds |-> 0]
    /\ UNCHANGED <<transport, made, fault, thread, aria2>>

\* onAriaUpdaterTimeout: the timer runs from the first addTask on.
Tick ==
    /\ fault = "none"
    /\ adds # <<>>
    /\ Len(calls) + Cardinality(m_tasks) <= MaxCalls
    /\ intime' = (intime /\ Settled)
    /\ LET order == SetToSeq(m_tasks)
       IN  calls' = calls \o [i \in DOMAIN order |-> Call(Latest, "poll", order[i])]
    /\ UNCHANGED <<manager, conns, made, fault, thread, aria2>>

\* The receiver of a poll's answer was destroyed by a later addTask.
DeadReceiver(c) == c.kind = "poll" /\ c.client # Latest

\* What setBaseStat, setServersStat and setDownloadResultStat can take apart: the
\* three parts of a multicall, each of which succeeded.  aria2.getServers fails
\* for a download that is not active, and the servers of a file are looked up
\* under the number of the file.
Usable(a) == a = "active"

\* calculateStat, called n times with the answer of call c, by collector
\* c.client: the statistics carry the task id of the collector.
Collected(c, n) == [k \in 1..n |-> adds[c.client]]

\* Faulty: the connections are left as they are.
NotDropped(k) == conns

\* Faulty: a connection is taken away, whether there is one or not.
DroppedOnce(k) == [conns EXCEPT ![k] = @ - 1]

\* QObject::disconnect of one signal, receiver and slot drops every connection
\* between them, those of other calls included.
Dropped(k) == [conns EXCEPT ![k] = 0]

Moved(i, phase) == calls' = [calls EXCEPT ![i].phase = phase]

-----------------------------------------------------------------------------
(* The clients, in the GUI thread *)

\* A socket is connected, the request written.  json: the answer's receiver is
\* connected only now.
Connect(i) ==
    /\ fault = "none"
    /\ PhaseOf(i) = "connecting"
    /\ LET c == calls[i]
       IN  IF transport = "json" /\ c.kind = "poll"
           THEN IF DeadReceiver(c)
                THEN fault' = "deadReceiver" /\ UNCHANGED conns
                ELSE /\ conns' = [conns EXCEPT ![c.client] = @ + 1]
                     /\ UNCHANGED fault
           ELSE UNCHANGED <<conns, fault>>
    /\ Moved(i, "sent")
    /\ UNCHANGED <<manager, made, thread, aria2, intime>>

\* Faulty: an answer is given to one receiver.
OneReceiver(c) ==
    CASE transport = "json" -> IF conns[c.client] > 0 THEN 1 ELSE 0
      [] transport = "xml"  -> IF c.kind = "poll" /\ ~DeadReceiver(c) THEN 1 ELSE 0
      [] transport = "ws"   -> 0

\* Who receives the answer of call c: how often its collector is called.
Receivers(c) ==
    CASE transport = "json" -> IF c.answer = "rejected" THEN 0 ELSE conns[c.client]
      [] transport = "xml"  -> IF c.kind = "poll" /\ ~DeadReceiver(c) THEN 1 ELSE 0
      [] transport = "ws"   -> 0

\* Faulty: close() forgets to mark the socket closed.
StaysOpen == IF transport = "ws" THEN "answered" ELSE "gone"

\* The phase of a call whose answer was handled.  ws: close() only marks the
\* socket, for its timer to see.
Handled == IF transport = "ws" THEN "closed" ELSE "gone"

\* onMessageReceived, or replyFinished of the XML client.
Deliver(i) ==
    /\ fault = "none"
    /\ PhaseOf(i) = "answered"
    /\ LET c == calls[i]
           n == Receivers(c)
       IN  \/ /\ n > 0 /\ ~Usable(c.answer)
              /\ fault' = "badAnswer"
              /\ UNCHANGED <<calls, conns, made, thread>>
           \/ /\ n > 0 => Usable(c.answer)
              /\ made' = [made EXCEPT ![c.client] = @ + n]
              /\ stkeys' = stkeys \o Collected(c, n)
              /\ disp' = IF n > 0 /\ disp = "idle" THEN "running" ELSE disp
              /\ \/ /\ transport # "xml" /\ DeadReceiver(c)
                    /\ fault' = "deadReceiver"
                    /\ UNCHANGED <<calls, conns>>
                 \/ /\ transport # "xml" => ~DeadReceiver(c)
                    /\ conns' = IF c.kind = "poll" THEN Dropped(c.client) ELSE conns
                    /\ Moved(i, Handled)
                    /\ UNCHANGED fault
    /\ UNCHANGED <<manager, aria2, intime>>

\* A connection is refused or breaks.  json: onRawSocketConnectError, which
\* disconnects the receiver; ws: the callback only logs it.
Break(i) ==
    /\ fault = "none"
    /\ PhaseOf(i) \in {"connecting", "sent"}
    /\ LET c == calls[i]
       IN  \/ /\ transport = "json" /\ DeadReceiver(c)
              /\ fault' = "deadReceiver"
              /\ UNCHANGED <<calls, conns>>
           \/ /\ transport = "json" => ~DeadReceiver(c)
              /\ conns' = IF c.kind = "poll" THEN Dropped(c.client) ELSE conns
              /\ Moved(i, IF transport = "ws" THEN "dead" ELSE "gone")
              /\ UNCHANGED fault
    /\ intime' = FALSE
    /\ UNCHANGED <<manager, made, thread, aria2>>

\* ws: the socket's timer finds it closed, destroys its context and ends its
\* thread ...
LoopCycle(i) ==
    /\ fault = "none"
    /\ PhaseOf(i) = "closed"
    /\ Moved(i, "quitting")
    /\ UNCHANGED <<manager, conns, made, fault, thread, aria2, intime>>

\* ... whose end deletes it: onSelfFinished.
SelfFinished(i) ==
    /\ fault = "none"
    /\ PhaseOf(i) = "quitting"
    /\ Moved(i, "gone")
    /\ UNCHANGED <<manager, conns, made, fault, thread, aria2, intime>>

-----------------------------------------------------------------------------
(* The manager's thread *)

\* run(): one element is dequeued and emitted, as taskStatChanged.
Dispatch ==
    /\ fault = "none"
    /\ disp = "running" /\ stkeys # <<>>
    /\ stkeys' = Tail(stkeys)
    /\ UNCHANGED <<manager, calls, conns, made, fault, disp, aria2, intime>>

\* The queue is seen empty; isRunning() answers true until the thread ends.
SeeEmpty ==
    /\ fault = "none"
    /\ disp = "running" /\ stkeys = <<>>
    /\ disp' = "leaving"
    /\ UNCHANGED <<manager, calls, conns, made, fault, stkeys, aria2, intime>>

Leave ==
    /\ fault = "none"
    /\ disp = "leaving"
    /\ disp' = "idle"
    /\ UNCHANGED <<manager, calls, conns, made, fault, stkeys, aria2, intime>>

-----------------------------------------------------------------------------
(* aria2 *)

\* aria2 answers a request.
Serve(i) ==
    /\ fault = "none"
    /\ PhaseOf(i) = "sent"
    /\ LET c == calls[i]
           Answer(a) == calls' = [calls EXCEPT ![i].phase = "answered", ![i].answer = a]
       IN  \/ /\ c.kind = "add" /\ c.task \notin accepted
              /\ accepted' = accepted \cup {c.task}
              /\ Answer("gid")
              /\ UNCHANGED intime
           \/ /\ c.kind = "add"
              /\ Answer("rejected")
              /\ intime' = (intime /\ c.task \in accepted)
              /\ UNCHANGED accepted
           \/ /\ c.kind = "poll" /\ c.task \notin accepted
              /\ Answer("unknownGid")
              /\ UNCHANGED <<accepted, intime>>
           \/ /\ c.kind = "poll" /\ c.task \in accepted
              /\ \/ Answer(status[c.task])
                 \/ status[c.task] = "active" /\ Answer("uneven")
              /\ UNCHANGED <<accepted, intime>>
    /\ UNCHANGED <<manager, conns, made, fault, thread, status>>

\* A download is started, paused, or ends.
Change(t) ==
    /\ fault = "none"
    /\ t \in accepted /\ status[t] # "ended"
    /\ \E s \in Statuses \ {status[t]} : status' = [status EXCEPT ![t] = s]
    /\ UNCHANGED <<manager, calls, conns, made, fault, thread, accepted, intime>>

-----------------------------------------------------------------------------

Init ==
    /\ transport \in Transports
    /\ m_tasks = {} /\ adds = <<>> /\ calls = <<>>
    /\ conns = [k \in 1..MaxAdds |-> 0]
    /\ made = [k \in 1..MaxAdds |-> 0]
    /\ fault = "none"
    /\ stkeys = <<>> /\ disp = "idle"
    /\ accepted = {} /\ status = [t \in Tasks |-> "waiting"]
    /\ intime = TRUE

Client(i) == Connect(i) \/ Deliver(i) \/ LoopCycle(i) \/ SelfFinished(i)

Next ==
    \/ \E t \in Tasks : AddTask(t) \/ Change(t)
    \/ Tick
    \/ \E i \in DOMAIN calls : Client(i) \/ Break(i) \/ Serve(i)
    \/ Dispatch \/ SeeEmpty \/ Leave

Spec == Init /\ [][Next]_vars

\* The event loop of the GUI thread takes up every event of a socket or of its
\* timer.  Nothing is assumed of aria2, of the user or of the poll timer.
Fairness ==
    \A i \in 1..MaxCalls : WF_vars(Client(i))

LiveSpec == Spec /\ Fairness

-----------------------------------------------------------------------------
(* Properties *)

Polls(k) == {i \in DOMAIN calls : calls[i].client = k /\ calls[i].kind = "poll"}

\* However answers, failures and new tasks interleave, the polls of a client
\* lead to at most one report each: a connection to the client's signal is
\* gone once an answer came through it, and no call makes two.
ReportsBounded ==
    \A k \in 1..MaxAdds :
        made[k] + conns[k] <=
            Cardinality({i \in Polls(k) : calls[i].phase # "connecting"})

\* As long as the answers come before the next tick, no poll is lost either: the
\* answer that takes the connections of other calls also calls their
\* receivers.
EveryPollReports ==
    intime /\ Settled /\ fault = "none" /\ transport # "ws" =>
        \A k \in 1..MaxAdds : made[k] = Cardinality(Polls(k))

\* Answers that come in time find their receiver alive and belong to the call it
\* waits for: what cannot be taken apart (karia2statcalc.cpp:655, :710, :718) is
\* then the answer to a poll of a download that aria2 knows, but that is not
\* active, or has fewer servers for a file than files before it.
PromptFaultsAreOfPolls ==
    intime =>
      /\ fault # "deadReceiver"
      /\ fault = "badAnswer" =>
           \E i \in DOMAIN calls :
             /\ calls[i].kind = "poll" /\ calls[i].phase = "answered"
             /\ calls[i].answer \in {"waiting", "ended", "uneven"}

\* A call that was answered is released with its socket and its thread.
AnsweredIsReleased ==
    \A i \in 1..MaxCalls :
        PhaseOf(i) = "answered" ~> (fault # "none" \/ PhaseOf(i) = "gone")
=============================================================================
