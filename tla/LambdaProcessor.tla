-------------------------- MODULE LambdaProcessor --------------------------
(***************************************************************************)
(* The nodes that forward lambda requests (src/Edge/edgelambdaprocessor):  *)
(* an EdgeRouter with its two forwarding tables and local optimizers, or   *)
(* an EdgeDispatcher with an estimator of the processing time, and the     *)
(* ForwardingTableServer through which their tables are configured.        *)
(*                                                                         *)
(* A request is the stack of the process() calls that serve it: a node may *)
(* forward it to a computer or to another node, which pushes a call there. *)
(* One step of process() is what it does between two acquisitions of the   *)
(* mutex of a table.  Configuration commands, other requests and the       *)
(* optimizers take their steps in between.  A call to a computer may fail  *)
(* at any time: it crashes, restarts or answers with an error.             *)
(*                                                                         *)
(* Measurements are abstracted: an estimator may prefer any destination it *)
(* knows, and an optimizer may compute any positive weight.                *)
(*                                                                         *)
(* A node serves as many calls as its gRPC server has threads, and sends   *)
(* as many at a time to a destination as its pool has clients for it (see  *)
(* ClientPool: here a slot is free or it is not).  Both waits have no      *)
(* time-out, and a call that waits keeps the thread it runs in.            *)
(***************************************************************************)
EXTENDS ForwardingEntries, PtimeEstimators

CONSTANTS Nodes,      \* end-points of routers and dispatchers
          Computers,  \* end-points of edge computers
          Lambdas,
          Requests,   \* requests of the edge clients, one lambda each
          Weights,    \* the weights in commands and from measurements
          Scenarios,  \* initial configurations: records, see Init
          MaxHops,    \* 254 in the code
          Arrivals,   \* where the clients send which lambda: pairs
          Commands,   \* Commands[n]: the commands that are sent to node n
          MaxCommands \* bound on their number

Ends == Nodes \cup Computers
Tables == 1..2   \* 1 is theOverallTable, or the only table of a dispatcher

\* rpc::EdgeRouterConf, with the table it is applied to next.
EdgeRouterConf ==
  [action : {"CHANGE"}, l : Lambdas, d : Ends, w : Weights, final : BOOLEAN, i : Tables]
    \cup [action : {"REMOVE"}, l : Lambdas, d : Ends, i : Tables]
    \cup [action : {"FLUSH"}, i : Tables, todo : {None} \cup SUBSET Lambdas]

\* A command is applied to the first table first, FLUSH reads its lambdas then.
NewCommands == {c \in EdgeRouterConf : c.i = 1 /\ (c.action = "FLUSH" => c.todo = None)}

AsyncOptimizers == {"async", "asyncpf"}

\* pending: max-pending-clients, 0 for no limit; threads: of the gRPC server.
RouterKinds ==
  [node : {"router"}, fake : BOOLEAN, pending : Nat, threads : Nat \ {0},
   table : {"least-impedance", "round-robin", "proportional-fairness", "random"},
   optimizer : {"none", "trivial"} \cup AsyncOptimizers]

DispatcherKinds ==
  [node : {"dispatcher"}, fake : BOOLEAN, pending : Nat, threads : Nat \ {0},
   estimator : {"rtt", "util", "delay", "probe"}]

Kinds == RouterKinds \cup DispatcherKinds

\* The kinds of the nodes, and the CHANGE commands they have executed already.
IsScenario(s) ==
  /\ s.conf \in [Nodes -> Kinds]
  /\ s.changes \in [Nodes -> Seq({c \in NewCommands : c.action = "CHANGE" /\ c.w # 0})]

ASSUME InputsAssumption ==
  /\ \A n \in Nodes : Commands[n] \subseteq NewCommands
  /\ Arrivals \subseteq Nodes \X Lambdas
  /\ \A s \in Scenarios : IsScenario(s)
\* 1 is the weight of all the destinations of a dispatcher.
ASSUME BoundsAssumption ==
  MaxHops \in Nat /\ MaxCommands \in Nat /\ Weights \subseteq Nat /\ 1 \in Weights
ASSUME NamesAssumption == None \notin Ends
ASSUME NumbersAssumption == FltMax \in Int /\ Unit \in Nat

VARIABLES
  conf,      \* kind of each node, see Kinds
  tab,       \* tab[n][i]: forwarding tables, or PtimeEstimator::theTable
  est,       \* est[n]: the tables of the estimator, see PtimeEstimators
  estimates, \* estimates[n]: requests with an element in theEstimates
  latencies, \* latencies[n][i]: measurements of LocalOptimizerTrivial
  balancing, \* balancing[n][i]: measurements taken by the running update()
  stack,     \* stack[q]: process() calls of request q, innermost last
  answer,    \* answer[q]: return code the client received
  lost,      \* lost[n][d]: clients of n for d never given back to its pool
  command,   \* command[n]: the Configure call in progress, or None
  sent,      \* commands so far
  failed,    \* history: destinations a call to which has failed
  withdrawn, \* history: destinations removed by a command, per node
  told       \* history: removeComputer commands sent to the controller

tables == <<tab, est>>
optimizer == <<latencies, balancing>>
environment == <<command, sent, withdrawn>>
vars == <<conf, tab, est, estimates, latencies, balancing, stack,
          answer, lost, command, sent, failed, withdrawn, told>>

IsRouter(n) == conf[n].node = "router"

\* A call of process(): its request and what it does next.
Frame(n, l, forward) ==
  [node |-> n, l |-> l, forward |-> forward, pc |-> "arrive", d |-> None]
Top(q) == Last(stack[q])
At(q, pc) == stack[q] # <<>> /\ Top(q).pc = pc

(* Mutant: the hops are not counted. *)
hopsNotCounted(q) == 0

\* One hop more for each call of the client pool.
hops(q) == Len(stack[q]) - 1
Continue(q, pc) == stack' = [stack EXCEPT ![q][Len(stack[q])].pc = pc]

(***************************************************************************)
(* PtimeEstimator: theTable, and what the derived class does with it.      *)
(***************************************************************************)
EstimatorChange(n, l, d, final) ==
  IF Knows(tab[n][1], l, d) THEN UNCHANGED tables
  ELSE /\ tab' = [tab EXCEPT ![n][1] = TableChange(@, "random", l, d, 1, final)]
       /\ est' = [est EXCEPT ![n] = privateAdd(conf[n].estimator, @, l, {d})]

EstimatorRemove(n, l, d) ==
  IF Knows(tab[n][1], l, d)
  THEN /\ tab' = [tab EXCEPT ![n][1] = TableRemove(@, l, d)]
       /\ est' = [est EXCEPT ![n] = privateRemove(conf[n].estimator, @, l, {d})]
  ELSE UNCHANGED tables

EstimatorRemoveLambda(n, l) ==
  /\ tab' = [tab EXCEPT ![n][1] = WithoutLambda(@, l)]
  /\ est' = [est EXCEPT ![n] =
       privateRemove(conf[n].estimator, @, l, all(fullTable(tab[n][1]), l))]

Candidates(n, l) == PtimeEstimator(conf[n].estimator, est[n], l, {}).candidates

(***************************************************************************)
(* process(): a call returns to the one that made it, or to the client.    *)
(***************************************************************************)
Return(q, ok) ==
  LET calls == Front(stack[q])
  IN IF calls = <<>>
     THEN /\ stack' = [stack EXCEPT ![q] = <<>>]
          /\ answer' = [answer EXCEPT ![q] = IF ok THEN "OK" ELSE "error"]
          /\ UNCHANGED failed
     ELSE /\ stack' = [stack EXCEPT ![q] =
               [calls EXCEPT ![Len(calls)].pc = IF ok THEN "success" ELSE "failure"]]
          /\ failed' = IF ok THEN failed ELSE failed \cup {Last(calls).d}
          /\ UNCHANGED answer

\* An edge client sends a request, which is not marked as forwarded.
Send(q, n, l) ==
  /\ stack[q] = <<>> /\ answer[q] = None
  /\ stack' = [stack EXCEPT ![q] = <<Frame(n, l, FALSE)>>]
  /\ UNCHANGED <<conf, tables, estimates, optimizer, answer, environment, failed, told, lost>>

LoopDetected(q) ==
  /\ At(q, "select") /\ hops(q) > MaxHops
  /\ Return(q, FALSE)
  /\ UNCHANGED <<conf, tables, estimates, optimizer, environment, told, lost>>

\* The calls of process() at a node, and those in which a thread of its server is.
Calls(n) == UNION {{<<q, k>> : k \in {j \in DOMAIN stack[q] : stack[q][j].node = n}} : q \in Requests}
Frames(n, pcs) == {c \in Calls(n) : stack[c[1]][c[2]].pc \in pcs}
ThreadFree(n) ==
  Cardinality(Calls(n)) - Cardinality(Frames(n, {"arrive"})) < conf[n].threads

\* A thread of the gRPC server takes the call.
Accept(q) ==
  /\ At(q, "arrive") /\ ThreadFree(Top(q).node)
  /\ Continue(q, "select")
  /\ UNCHANGED <<conf, tables, estimates, optimizer, answer, environment, failed, told, lost>>

Chosen(q, d) ==
  stack' = [stack EXCEPT ![q][Len(stack[q])] = [@ EXCEPT !.pc = "getClient", !.d = d]]

\* EdgeRouter::destination: forwarded requests use the final table.
SelectRouter(q) ==
  /\ At(q, "select") /\ hops(q) <= MaxHops /\ IsRouter(Top(q).node)
  /\ LET n == Top(q).node
         l == Top(q).l
         i == IF Top(q).forward THEN 2 ELSE 1
         choices == TableSelectable(tab[n][i], l)
     IN \/ /\ choices = {}
           /\ Return(q, FALSE)
           /\ UNCHANGED tab
        \/ \E d \in choices :
             /\ tab' = [tab EXCEPT ![n][i][l] = AfterSelection(@, d)]
             /\ Chosen(q, d)
             /\ UNCHANGED <<answer, failed>>
  /\ UNCHANGED <<conf, est, estimates, optimizer, environment, told, lost>>

\* EdgeDispatcher::destination.  The probe estimator calls all the candidates
\* first: it throws if one of them cannot be reached (nothing is stored), and
\* returns an empty destination, having stored the estimate, if none of them
\* answers OK.
SelectDispatcher(q) ==
  /\ At(q, "select") /\ hops(q) <= MaxHops /\ ~ IsRouter(Top(q).node)
  /\ LET n == Top(q).node
         candidates == Candidates(n, Top(q).l)
         probes == conf[n].estimator = "probe"
         estimated == estimates' = [estimates EXCEPT ![n] = @ \cup {q}]
     IN \/ /\ candidates = {} \/ probes
           /\ Return(q, FALSE)
           /\ \/ probes /\ candidates # {} /\ estimated
              \/ UNCHANGED estimates
        \/ /\ \E d \in candidates : Chosen(q, d)
           /\ estimated
           /\ UNCHANGED <<answer, failed>>
  /\ UNCHANGED <<conf, tables, optimizer, environment, told, lost>>

\* theClientPool: the clients that are out, or were not given back, are busy.
\* A fake processor does not use the pool.
Busy(n, d) == {c \in Frames(n, {"call"}) : stack[c[1]][c[2]].d = d}

SlotFree(n, d) ==
  conf[n].pending = 0 \/ Cardinality(Busy(n, d)) + lost[n][d] < conf[n].pending

GetClient(q) ==
  /\ At(q, "getClient")
  /\ conf[Top(q).node].fake \/ SlotFree(Top(q).node, Top(q).d)
  /\ Continue(q, "call")
  /\ UNCHANGED <<conf, tables, estimates, optimizer, answer, environment, failed, told, lost>>

\* One hop more: the destination executes the request, answers with an error or
\* cannot be reached: RunLambda then throws, and the client is not given back.
CallComputer(q) ==
  /\ At(q, "call") /\ (Top(q).d \in Computers \/ conf[Top(q).node].fake)
  /\ LET n == Top(q).node
     IN \/ /\ Continue(q, "success")
           /\ UNCHANGED <<failed, lost>>
        \/ /\ ~ conf[n].fake
           /\ Continue(q, "failure")
           /\ failed' = failed \cup {Top(q).d}
           /\ \/ UNCHANGED lost
              \/ conf[n].pending # 0 /\ lost' = [lost EXCEPT ![n][Top(q).d] = @ + 1]
  /\ UNCHANGED <<conf, tables, estimates, optimizer, answer, environment, told>>

\* LambdaRequest(rpc::LambdaRequest) marks the request as forwarded.
CallNode(q) ==
  /\ At(q, "call") /\ Top(q).d \in Nodes /\ ~ conf[Top(q).node].fake
  /\ stack' = [stack EXCEPT ![q] = Append(@, Frame(Top(q).d, Top(q).l, TRUE))]
  /\ UNCHANGED <<conf, tables, estimates, optimizer, answer, environment, failed, told, lost>>

(***************************************************************************)
(* EdgeRouter::processSuccess: the optimizer of the table the request used *)
(* is told how long it took.                                               *)
(***************************************************************************)
LocalOptimizerNone(q) == Return(q, TRUE) /\ UNCHANGED <<tab, latencies>>

LocalOptimizerTrivial(q, n, i, l, d) ==
  /\ latencies' = [latencies EXCEPT ![n][i] = @ \cup {<<l, d>>}]
  /\ Return(q, TRUE)
  /\ UNCHANGED tab

\* The weight, smoothed or not, is changed at once.  The table throws if the
\* destination is not there any more, and process() goes on as if the call had
\* failed.
LocalOptimizerAsync(q, n, i, l, d) ==
  /\ IF Knows(tab[n][i], l, d)
     THEN /\ \E w \in Weights \ {0} :
               tab' = [tab EXCEPT ![n][i] = TableChangeWeight(@, l, d, w)]
          /\ Return(q, TRUE)
     ELSE Continue(q, "failure") /\ UNCHANGED <<tab, answer, failed>>
  /\ UNCHANGED latencies

SucceedRouter(q) ==
  /\ At(q, "success") /\ IsRouter(Top(q).node)
  /\ LET n == Top(q).node
         i == IF Top(q).forward THEN 2 ELSE 1
     IN \/ conf[n].optimizer = "none" /\ LocalOptimizerNone(q)
        \/ conf[n].optimizer = "trivial" /\ LocalOptimizerTrivial(q, n, i, Top(q).l, Top(q).d)
        \/ /\ conf[n].optimizer \in AsyncOptimizers
           /\ LocalOptimizerAsync(q, n, i, Top(q).l, Top(q).d)
  /\ UNCHANGED <<conf, est, estimates, balancing, environment, told, lost>>

\* EdgeDispatcher::processSuccess: the estimate is dropped, then the measurement
\* is added, which throws if the destination is not known any more.
SucceedDispatcher(q) ==
  /\ At(q, "success") /\ ~ IsRouter(Top(q).node)
  /\ LET n == Top(q).node
         stale == ~ PtimeEstimator(conf[n].estimator, est[n], Top(q).l, {Top(q).d}).processSuccess
     IN /\ estimates' = [estimates EXCEPT ![n] = @ \ {q}]
        /\ \/ stale /\ Continue(q, "failure") /\ UNCHANGED <<answer, failed>>
           \/ ~ stale /\ Return(q, TRUE)
  /\ UNCHANGED <<conf, tables, optimizer, environment, told, lost>>

\* processFailure removes the destination from the first table, ...
FailFirst(q) ==
  /\ At(q, "failure")
  /\ LET n == Top(q).node
     IN IF IsRouter(n)
        THEN /\ tab' = [tab EXCEPT ![n][1] = TableRemove(@, Top(q).l, Top(q).d)]
             /\ Continue(q, "failure2")
             /\ UNCHANGED <<est, estimates>>
        ELSE /\ EstimatorRemove(n, Top(q).l, Top(q).d)
             /\ estimates' = [estimates EXCEPT ![n] = @ \ {q}]
             /\ Continue(q, "tell")
  /\ UNCHANGED <<conf, optimizer, answer, environment, failed, told, lost>>

\* ... then from the second one, ...
FailSecond(q) ==
  /\ At(q, "failure2")
  /\ tab' = [tab EXCEPT ![Top(q).node][2] = TableRemove(@, Top(q).l, Top(q).d)]
  /\ Continue(q, "tell")
  /\ UNCHANGED <<conf, est, estimates, optimizer, answer, environment,
                 failed, told, lost>>

\* ... and sends removeComputer to the controller, whether or not it can be
\* reached.  The request starts again.
TellController(q) ==
  /\ At(q, "tell")
  /\ told' = told \cup {<<Top(q).node, Top(q).d>>}
  /\ stack' = [stack EXCEPT ![q][Len(stack[q])] = [@ EXCEPT !.pc = "select", !.d = None]]
  /\ UNCHANGED <<conf, tables, estimates, optimizer, answer, environment, failed, lost>>

(***************************************************************************)
(* ForwardingTableServer: Configure applies a command to a table at a time.*)
(* theTables of a dispatcher has one element.  CHANGE with weight 0 throws *)
(* at the first table of a router, the other one is not changed.           *)
(***************************************************************************)
Configure(n, c) ==
  /\ command[n] = None /\ sent < MaxCommands
  /\ command' = [command EXCEPT ![n] = c]
  /\ sent' = sent + 1
  /\ UNCHANGED <<conf, tables, estimates, optimizer, stack, answer, failed,
                 withdrawn, told, lost>>

Applied(n, i) ==
  command' = [command EXCEPT ![n] =
    IF IsRouter(n) /\ i = 1 THEN [@ EXCEPT !.i = 2] ELSE None]

Withdraw(n, ds) == withdrawn' = [withdrawn EXCEPT ![n] = @ \cup ds]

ApplyChange(n) ==
  /\ command[n] # None /\ command[n].action = "CHANGE"
  /\ LET c == command[n]
         skip == c.i = 2 /\ ~ c.final
     IN IF ~ IsRouter(n)
        THEN EstimatorChange(n, c.l, c.d, c.final) /\ Applied(n, c.i)
        ELSE /\ tab' = IF skip THEN tab
                       ELSE [tab EXCEPT ![n][c.i] = TableChange(@, conf[n].table,
                                                      c.l, c.d, c.w, c.final)]
             /\ IF c.w = 0 THEN command' = [command EXCEPT ![n] = None]
                ELSE Applied(n, c.i)
             /\ UNCHANGED est
  /\ UNCHANGED <<conf, estimates, optimizer, stack, answer, sent, failed, withdrawn,
                 told, lost>>

ApplyRemove(n) ==
  /\ command[n] # None /\ command[n].action = "REMOVE"
  /\ LET c == command[n]
     IN /\ IF IsRouter(n)
           THEN /\ tab' = [tab EXCEPT ![n][c.i] = TableRemove(@, c.l, c.d)]
                /\ UNCHANGED est
           ELSE EstimatorRemove(n, c.l, c.d)
        /\ Applied(n, c.i)
        /\ Withdraw(n, {c.d})
  /\ UNCHANGED <<conf, estimates, optimizer, stack, answer, sent, failed, told, lost>>

\* FLUSH reads lambdas(), then removes one lambda at a time.
ApplyFlush(n) ==
  /\ command[n] # None /\ command[n].action = "FLUSH"
  /\ LET c == command[n]
     IN \/ /\ c.todo = None
           /\ command' = [command EXCEPT ![n].todo = DOMAIN tab[n][c.i]]
           /\ UNCHANGED <<tables, withdrawn>>
        \/ /\ c.todo = {}
           /\ command' = [command EXCEPT ![n] = IF IsRouter(n) /\ c.i = 1
                           THEN [@ EXCEPT !.i = 2, !.todo = None] ELSE None]
           /\ UNCHANGED <<tables, withdrawn>>
        \/ /\ c.todo \notin {None, {}}
           /\ \E l \in c.todo :
                /\ IF IsRouter(n)
                   THEN /\ tab' = [tab EXCEPT ![n][c.i] = WithoutLambda(@, l)]
                        /\ UNCHANGED est
                   ELSE EstimatorRemoveLambda(n, l)
                /\ Withdraw(n, all(fullTable(tab[n][c.i]), l))
                /\ command' = [command EXCEPT ![n].todo = @ \ {l}]
  /\ UNCHANGED <<conf, estimates, optimizer, stack, answer, sent, failed, told, lost>>

(***************************************************************************)
(* LocalOptimizerTrivial: update() takes the measurements, then changes    *)
(* the weights one by one; it is left with an exception, and the rest of   *)
(* the measurements is lost, at the first destination that is not there.   *)
(***************************************************************************)
Update(n, i) ==
  /\ IsRouter(n) /\ conf[n].optimizer = "trivial" /\ balancing[n][i] = {} /\ latencies[n][i] # {}
  /\ balancing' = [balancing EXCEPT ![n][i] = latencies[n][i]]
  /\ latencies' = [latencies EXCEPT ![n][i] = {}]
  /\ UNCHANGED <<conf, tables, estimates, stack, answer, environment, failed, told, lost>>

Balance(n, i) ==
  /\ balancing[n][i] # {}
  /\ \E m \in balancing[n][i] :
       IF Knows(tab[n][i], m[1], m[2])
       THEN /\ \E w \in Weights \ {0} :
                 tab' = [tab EXCEPT ![n][i] = TableChangeWeight(@, m[1], m[2], w)]
            /\ balancing' = [balancing EXCEPT ![n][i] = @ \ {m}]
       ELSE balancing' = [balancing EXCEPT ![n][i] = {}] /\ UNCHANGED tab
  /\ UNCHANGED <<conf, est, estimates, latencies, stack, answer,
                 environment, failed, told, lost>>

\* Time passes: the stale timer of a destination expires.
StaleTimer(n, i) ==
  /\ \E l \in DOMAIN tab[n][i] :
       /\ tab[n][i][l].type = "round-robin"
       /\ \E d \in DOMAIN tab[n][i][l].aux.cache :
            /\ tab[n][i][l].aux.cache[d].timer = "running"
            /\ tab' = [tab EXCEPT ![n][i][l] = ExpireTimer(@, d)]
  /\ UNCHANGED <<conf, est, estimates, optimizer, stack, answer,
                 environment, failed, told, lost>>

-----------------------------------------------------------------------------
\* What one of the commands by which the tables of a scenario were filled does.
Fill(kind, s, c) ==
  IF kind.node = "dispatcher"
  THEN IF Knows(s.tab[1], c.l, c.d) THEN s
       ELSE [tab |-> [s.tab EXCEPT ![1] = TableChange(@, "random", c.l, c.d, 1, c.final)],
             est |-> privateAdd(kind.estimator, s.est, c.l, {c.d})]
  ELSE [s EXCEPT !.tab = [i \in Tables |->
         IF i = 2 /\ ~ c.final THEN @[i]
         ELSE TableChange(@[i], kind.table, c.l, c.d, c.w, c.final)]]

Filled(kind, changes) ==
  LET fill[k \in 0..Len(changes)] ==
        IF k = 0 THEN [tab |-> [i \in Tables |-> <<>>], est |-> NoEstimates]
        ELSE Fill(kind, fill[k - 1], changes[k])
  IN fill[Len(changes)]

Init ==
  \E s \in Scenarios :
    /\ conf = s.conf
    /\ tab = [n \in Nodes |-> Filled(s.conf[n], s.changes[n]).tab]
    /\ est = [n \in Nodes |-> Filled(s.conf[n], s.changes[n]).est]
    /\ estimates = [n \in Nodes |-> {}]
    /\ latencies = [n \in Nodes |-> [i \in Tables |-> {}]]
    /\ balancing = latencies
    /\ stack = [q \in Requests |-> <<>>]
    /\ answer = [q \in Requests |-> None]
    /\ lost = [n \in Nodes |-> [d \in Ends |-> 0]]
    /\ command = [n \in Nodes |-> None]
    /\ sent = 0
    /\ failed = {}
    /\ withdrawn = [n \in Nodes |-> {}]
    /\ told = {}

Process(q) ==
  \/ Accept(q) \/ LoopDetected(q) \/ SelectRouter(q) \/ SelectDispatcher(q)
  \/ GetClient(q) \/ CallComputer(q) \/ CallNode(q)
  \/ SucceedRouter(q) \/ SucceedDispatcher(q)
  \/ FailFirst(q) \/ FailSecond(q) \/ TellController(q)

Serve(n) == ApplyChange(n) \/ ApplyRemove(n) \/ ApplyFlush(n)

Next ==
  \/ \E q \in Requests : Process(q)
  \/ \E q \in Requests, a \in Arrivals : Send(q, a[1], a[2])
  \/ \E n \in Nodes : Serve(n) \/ \E c \in Commands[n] : Configure(n, c)
  \/ \E n \in Nodes, i \in Tables : Update(n, i) \/ Balance(n, i) \/ StaleTimer(n, i)

\* The thread that serves a request goes on when it can, and the calls it makes
\* return; nothing else is due to happen.
Spec == Init /\ [][Next]_vars /\ \A q \in Requests : WF_vars(Process(q))
-----------------------------------------------------------------------------
Pcs == {"arrive", "select", "getClient", "call", "success", "failure", "failure2", "tell"}

LambdaRequests ==
  [node : Nodes, l : Lambdas, forward : BOOLEAN, pc : Pcs, d : Ends \cup {None}]

LambdaResponses == {None, "OK", "error"}

TypeOK ==
  /\ conf \in [Nodes -> Kinds]
  /\ \A n \in Nodes, i \in Tables : IsTable(tab[n][i], Lambdas, Ends, Weights \ {0})
  /\ \A n \in Nodes : IsEstimator(est[n], Lambdas, Ends)
  /\ estimates \in [Nodes -> SUBSET Requests]
  /\ latencies \in [Nodes -> [Tables -> SUBSET (Lambdas \X Ends)]]
  /\ balancing \in [Nodes -> [Tables -> SUBSET (Lambdas \X Ends)]]
  /\ \A q \in Requests : stack[q] \in Seq(LambdaRequests)
  /\ answer \in [Requests -> LambdaResponses]
  /\ lost \in [Nodes -> [Ends -> Nat]]
  /\ command \in [Nodes -> EdgeRouterConf \cup {None}]
  /\ sent \in 0..MaxCommands
  /\ failed \subseteq Ends
  /\ withdrawn \in [Nodes -> SUBSET Ends]
  /\ told \subseteq Nodes \X Ends

(***************************************************************************)
(* What the classes derived from Entry and PtimeEstimator keep besides the *)
(* destinations never falls out of step with them, whatever commands,      *)
(* purges and weights come in whatever order: the least impedance entry    *)
(* points to a destination with the least weight, the round robin entry    *)
(* caches exactly the destinations and its active set holds all the good   *)
(* ones, hence one at least, the random entry draws below the sum of the   *)
(* inverse weights, and the estimators know the destinations of the table  *)
(* and all their computers (utilestimator.cpp:57 and 164 rely on it).  The *)
(* probe estimator is left out: its privateRemove adds.                    *)
(***************************************************************************)
EntryCoherent(e) ==
  /\ Cardinality(Destinations(e)) = Len(e.list)
  /\ e.type = "least-impedance" =>
       IF e.list = <<>> THEN e.aux = None
       ELSE /\ e.aux \in Destinations(e)
            /\ \A x \in Elements(e) : Element(e, e.aux).w <= x.w
  /\ e.type = "round-robin" =>
       /\ DOMAIN e.aux.cache = Destinations(e)
       /\ \A x \in Elements(e) : e.aux.cache[x.d].w = x.w
       /\ e.aux.queue \subseteq Destinations(e)
       /\ {x.d : x \in {y \in Elements(e) : good(e.aux.cache, y.d)}} \subseteq e.aux.queue
       /\ e.list # <<>> => e.aux.queue # {}
  /\ e.type = "proportional-fairness" => e.aux = Destinations(e)
  /\ e.type = "random" => e.aux = InvSum(e.list)

SelectionCoherent ==
  \A n \in Nodes :
    /\ \A i \in Tables : \A l \in DOMAIN tab[n][i] : EntryCoherent(tab[n][i][l])
    /\ ~ IsRouter(n) /\ conf[n].estimator # "probe" =>
         /\ \A l \in Lambdas :
              /\ Candidates(n, l) = all(fullTable(tab[n][1]), l)
              /\ Disappeared(est[n], l) = {}
         /\ ComputerDescriptors(est[n]) = {p[2] : p \in est[n].util.table}

(***************************************************************************)
(* A destination is withdrawn from the controller only if a call to it has *)
(* failed, or if a command has removed it from the tables of the node that *)
(* withdraws it: the optimizer or the estimator then throws although the   *)
(* call succeeded (edgelambdaprocessor.cpp:123).                           *)
(***************************************************************************)
PurgeHasCause == \A p \in told : p[2] \in failed \cup withdrawn[p[1]]

(***************************************************************************)
(* A request does not visit more nodes than the limit on its hops, also    *)
(* when the tables send it around in circles (edgelambdaprocessor.cpp:102).*)
(***************************************************************************)
HopsBounded == \A q \in Requests : Len(stack[q]) <= MaxHops + 2

(***************************************************************************)
(* The two ways in which a node may wait for ever: all the clients of a    *)
(* pool for a destination are lost (edgeclientpool.cpp:71-95, no client is *)
(* given back when RunLambda throws), or in a circle of nodes each one has *)
(* no client left for the next one, or no thread left to serve a call.     *)
(***************************************************************************)
PoolLost(n, d) == conf[n].pending # 0 /\ lost[n][d] >= conf[n].pending

WaitsFor(n, d) ==
  \/ ~ SlotFree(n, d)
  \/ ~ ThreadFree(n) /\ Busy(n, d) # {}

Starved ==
  \/ \E n \in Nodes, d \in Ends : PoolLost(n, d)
  \/ \E S \in SUBSET Nodes \ {{}} : \A n \in S : \E d \in S : WaitsFor(n, d)

(***************************************************************************)
(* Every request is answered, although each failure makes process() try    *)
(* again: failing destinations are purged, and but for the two ways above  *)
(* no node waits for ever for a thread, for a client or for another node.  *)
(* Dispatchers with the probe estimator are left out: their privateRemove  *)
(* adds the destination (ptimeestimatorprobe.cpp:120), which is never      *)
(* purged, and process() calls it for ever.                                *)
(***************************************************************************)
Probes == \E n \in Nodes : ~ IsRouter(n) /\ conf[n].estimator = "probe"

RequestEnds ==
  \A q \in Requests :
    <>[]Starved \/ (stack[q] # <<>> /\ ~ Probes ~> stack[q] = <<>>)
=============================================================================
