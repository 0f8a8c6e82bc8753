--------------------------- MODULE Workflow_proofs ---------------------------
(***************************************************************************)
(* Proofs about Workflow.  The requests in the queues and with the workers *)
(* are the tokens of a workflow.  While no router repeats an invocation, a *)
(* function has at most one token, and an invocation that a DAG has is     *)
(* made at most once: this, and what the counters of the invocations are   *)
(* at most, is the inductive invariant.                                    *)
(***************************************************************************)
EXTENDS Workflow, FiniteSetTheorems, TLAPS

Last(u) == Cardinality(Functions(u)) - 1
IsChainOf(u) == wf[u].kind = "chain"
Successors(u, p) == wf[u].successors[p]

(* Requests r and q are for the same function, or for the same chain.  *)
Rivals(r, q) == r.uuid = q.uuid /\ (IsChainOf(r.uuid) \/ r.index = q.index)

Positions(c) == 1..Len(theAsyncQueue[c])
Busy(w) == worker[w].pc # "idle"

Queued(u, f) ==
  \E c \in Computers : \E k \in Positions(c) :
    theAsyncQueue[c][k].uuid = u /\ theAsyncQueue[c][k].index = f
Working(u, f) ==
  \E w \in Workers :
    Busy(w) /\ worker[w].req.uuid = u /\ worker[w].req.index = f

(* The functions a worker has still to invoke are the last ones of the     *)
(* successors.                                                             *)
Left(u, p, left) ==
  /\ Len(left) > 0
  /\ IsChainOf(u) => left = <<p + 1>> /\ p + 1 \in Functions(u)
  /\ ~IsChainOf(u) =>
       /\ p \in DOMAIN wf[u].successors
       /\ Len(left) <= Len(Successors(u, p))
       /\ \A k \in 1..Len(left) :
            left[k] = Successors(u, p)[Len(Successors(u, p)) - Len(left) + k]
FunctionsLeft ==
  \A w \in Workers : worker[w].pc = "invoke" =>
    Left(worker[w].req.uuid, worker[w].req.index, worker[w].functions)

(* The state that a worker puts or deletes is one of those it has to move. *)
Chosen ==
  \A w \in Workers : worker[w].pc \in {"put", "del"} =>
    worker[w].state \in worker[w].states

(* There is one token for each function, and one only in a chain.  *)
UniqueTokens(u) ==
  /\ \A c, d \in Computers : \A j \in Positions(c), k \in Positions(d) :
       /\ theAsyncQueue[c][j].uuid = u
       /\ Rivals(theAsyncQueue[c][j], theAsyncQueue[d][k])
       => c = d /\ j = k
  /\ \A c \in Computers : \A j \in Positions(c) : \A w \in Workers :
       theAsyncQueue[c][j].uuid = u /\ Busy(w)
       => ~Rivals(theAsyncQueue[c][j], worker[w].req)
  /\ \A w, x \in Workers :
       /\ Busy(w) /\ Busy(x)
       /\ worker[w].req.uuid = u
       /\ Rivals(worker[w].req, worker[x].req)
       => w = x

(* A function is executed between when its token is popped and ended.  *)
TokensExecuted(u) ==
  /\ \A f \in Functions(u) : executed[u][f] <= 1
  /\ \A f \in Functions(u) : Queued(u, f) => executed[u][f] = 0
  /\ \A w \in Workers : Busy(w) /\ worker[w].req.uuid = u =>
       executed[u][worker[w].req.index]
         = IF worker[w].pc = "running" THEN 0 ELSE 1

(* The functions of a chain are executed in order.  *)
ChainInOrder(u) ==
  IsChainOf(u) =>
    /\ \A f, g \in Functions(u) :
         f < g /\ executed[u][g] > 0 => executed[u][f] > 0
    /\ \A f \in Functions(u) : Queued(u, f) \/ Working(u, f) =>
         \A g \in Functions(u) : /\ g < f => executed[u][g] > 0
                                 /\ g > f => executed[u][g] = 0

NotStarted(u) ==
  u \notin sent =>
    \A f \in Functions(u) :
      executed[u][f] = 0 /\ ~Queued(u, f) /\ ~Working(u, f)

(* Worker w may still make invocation e of the workflow.  *)
Holds(w, u, e) ==
  /\ Busy(w)
  /\ worker[w].req.uuid = u /\ worker[w].req.index = e[1]
  /\ worker[w].pc = "invoke" =>
       e[2] > Len(Successors(u, e[1])) - Len(worker[w].functions)

(* The invocation was made, or it was lost and will not be made.  *)
Gone(u, e) == executed[u][e[1]] > 0 /\ \A w \in Workers : ~Holds(w, u, e)
GoneInvocations(u, f) == {e \in Invocations(u, f) : Gone(u, e)}

(* A function of a DAG has a token when none of its invocations is left.  *)
JoinOnce(u) ==
  ~IsChainOf(u) =>
    \A f \in Functions(u) \ {0} :
      executed[u][f] > 0 \/ Queued(u, f) \/ Working(u, f) =>
        \A e \in Invocations(u, f) : Gone(u, e)

(* A computer has not counted more invocations than were made.  *)
CountsGone(u) ==
  ~IsChainOf(u) =>
    \A c \in Computers : \A f \in Functions(u) :
      theInvocations[c][<<f, u>>] <= Cardinality(GoneInvocations(u, f))

(* The callback is sent with the token of the last function.  *)
CalledBack(u) ==
  /\ Len(callbacks[u]) <= 1
  /\ callbacks[u] # <<>> =>
       /\ executed[u][Last(u)] > 0
       /\ ~Queued(u, Last(u)) /\ ~Working(u, Last(u))
       /\ IsChainOf(u) =>
            \A f \in Functions(u) : ~Queued(u, f) /\ ~Working(u, f)

TokensInv(u) ==
  /\ UniqueTokens(u)
  /\ TokensExecuted(u)
  /\ ChainInOrder(u)
  /\ NotStarted(u)
  /\ JoinOnce(u)
  /\ CountsGone(u)
  /\ CalledBack(u)

(* What a worker is moving: states that its function needs and that are    *)
(* elsewhere; the one to delete is on its server.                          *)
MovesRemote(w) ==
  worker[w].pc \in {"get", "put", "del"} =>
    worker[w].states \subseteq RemoteStates(w[1], worker[w].req)
PutBefore(w) ==
  LET u == worker[w].req.uuid
      s == worker[w].state IN
  worker[w].pc = "del" /\ u \notin resent /\ Unshared(u, s) =>
    <<u, s>> \in theStateRepo[w[1]]
Moving == \A w \in Workers : MovesRemote(w) /\ PutBefore(w)

(* A token of a chain says where the states are, which is with the client  *)
(* as long as the workflow is not started.                                 *)
Located(u, loc) == \A s \in States : <<u, s>> \in theStateRepo[loc[s]]
TokensLocate(u) ==
  IsChainOf(u) =>
    /\ \A c \in Computers : \A k \in Positions(c) :
         theAsyncQueue[c][k].uuid = u => Located(u, theAsyncQueue[c][k].location)
    /\ \A w \in Workers :
         Busy(w) /\ worker[w].req.uuid = u => Located(u, worker[w].req.location)
AtClient(u) ==
  u \notin sent => \A s \in States : <<u, s>> \in theStateRepo[Client]

ShapeOK == TypeOK /\ FunctionsLeft /\ Chosen
TInv == /\ ShapeOK
        /\ \A u \in Uuids \ resent : TokensInv(u)
SInv == /\ Moving
        /\ StateNeverLost
        /\ ChainLocatesStates
        /\ \A u \in Uuids \ resent : TokensLocate(u) /\ AtClient(u)

-----------------------------------------------------------------------------
(* Sequences: what Append adds, what Tail removes, and the empty one.  *)
LEMMA AppendOne ==
  ASSUME NEW S, NEW s \in Seq(S), NEW x \in S
  PROVE  /\ Append(s, x) \in Seq(S) /\ Len(s) \in Nat
         /\ Len(Append(s, x)) = Len(s) + 1
         /\ Append(s, x)[Len(s) + 1] = x
         /\ \A i \in 1..Len(s) : Append(s, x)[i] = s[i]
OBVIOUS

LEMMA TailOne ==
  ASSUME NEW S, NEW s \in Seq(S), s # <<>>
  PROVE  /\ Head(s) \in S /\ Head(s) = s[1]
         /\ Len(s) \in Nat \ {0} /\ Tail(s) \in Seq(S) /\ Len(Tail(s)) = Len(s) - 1
         /\ \A i \in 1..Len(s) - 1 : Tail(s)[i] = s[i + 1]
OBVIOUS

LEMMA EmptyOne ==
  ASSUME NEW S, NEW s \in Seq(S)
  PROVE  s = <<>> <=> Len(s) = 0
OBVIOUS

LEMMA WorkerComputer == \A w \in Workers : w[1] \in Computers
BY DEF Workers

(* What the constructors of chains and DAGs guarantee.  *)
LEMMA WorkflowFacts ==
  ASSUME TypeOK, NEW u \in Uuids
  PROVE  /\ Last(u) \in Nat /\ Functions(u) = 0..Last(u)
         /\ wf[u].kind \in {"chain", "dag"}
         /\ \A f \in Functions(u) : wf[u].names[f] \in Names
         /\ \A s \in States : wf[u].dependencies[s] \subseteq Names
         /\ ~IsChainOf(u) =>
              /\ DOMAIN wf[u].successors = 0..Last(u) - 1
              /\ \A p \in DOMAIN wf[u].successors :
                   Successors(u, p) \in Seq(1..Last(u))
<1>1. wf[u] \in Workflows
  BY DEF TypeOK
<1>2. IsWorkflow(wf[u])
  BY <1>1, WorkflowAssumption
<1>3. IsChain(wf[u]) /\ (wf[u].kind = "chain" \/ (wf[u].kind = "dag" /\ IsDag(wf[u])))
  BY <1>2 DEF IsWorkflow, IsDag
<1>4. /\ Last(u) \in Nat /\ Functions(u) = 0..Last(u)
      /\ \A f \in Functions(u) : wf[u].names[f] \in Names
  <2>1. PICK n : n = Cardinality(DOMAIN wf[u].names)
    OBVIOUS
  <2>2. n \in Nat \ {0} /\ wf[u].names \in [0..n - 1 -> Names]
    BY <1>3, <2>1 DEF IsChain
  <2>3. DOMAIN wf[u].names = 0..n - 1 /\ Last(u) = n - 1
    BY <2>1, <2>2 DEF Last, Functions
  <2>4. QED
    BY <2>2, <2>3 DEF Functions
<1>5. \A s \in States : wf[u].dependencies[s] \subseteq Names
  BY <1>3 DEF IsChain, Dependencies
<1>6. ASSUME ~IsChainOf(u)
      PROVE  /\ DOMAIN wf[u].successors = 0..Last(u) - 1
             /\ \A p \in DOMAIN wf[u].successors :
                  Successors(u, p) \in Seq(1..Last(u))
  <2>1. IsDag(wf[u])
    BY <1>3, <1>6 DEF IsChainOf
  <2>2. PICK n : n = Cardinality(DOMAIN wf[u].names)
    OBVIOUS
  <2>3. n \in Nat /\ Last(u) = n - 1
    BY <1>3, <2>2 DEF IsChain, Last, Functions
  <2>4. /\ DOMAIN wf[u].successors = 0..n - 2
        /\ \A p \in DOMAIN wf[u].successors : wf[u].successors[p] \in Seq(1..n - 1)
    BY <2>1, <2>2 DEF IsDag
  <2>5. n - 2 = Last(u) - 1
    BY <2>3
  <2>6. QED
    BY <2>3, <2>4, <2>5 DEF Successors
<1>7. QED
  BY <1>3, <1>4, <1>5, <1>6

LEMMA InitTypeOK == Init => TypeOK
<1> SUFFICES ASSUME Init PROVE TypeOK
  OBVIOUS
<1>1. Idle \in WorkerStates
  BY DEF Idle, WorkerStates
<1>2. worker \in [Workers -> WorkerStates]
  BY <1>1 DEF Init
<1>3. theInvocations \in [Computers -> [Hashes -> Nat]]
  BY DEF Init
<1>4. theStateRepo \in [Locations -> SUBSET (Uuids \X States)]
  BY DEF Init
<1>5. callbacks \in [Uuids -> Seq([States -> Locations])]
  BY DEF Init
<1>6. theAsyncQueue \in [Computers -> Seq(Requests)]
  BY DEF Init
<1>7. DOMAIN executed = Uuids /\ \A u \in Uuids : executed[u] \in [Functions(u) -> Nat]
  BY DEF Init
<1>8. \A w \in Workers : worker[w].pc = "idle" <=> worker[w].req = <<>>
  BY DEF Init, Idle
<1>9. QED
  BY <1>2, <1>3, <1>4, <1>5, <1>6, <1>7, <1>8, WorkflowAssumption DEF Init, TypeOK

-----------------------------------------------------------------------------
(* A workflow does not change, and neither do the sets built from it.  *)
LEMMA SameTypes ==
  ASSUME wf' = wf
  PROVE  /\ Requests' = Requests /\ WorkerStates' = WorkerStates
         /\ Hashes' = Hashes
         /\ \A u : Functions(u)' = Functions(u)
BY DEF Requests, WorkerStates, Hashes, Functions

LEMMA WorkerFields ==
  ASSUME TypeOK, NEW w \in Workers
  PROVE  /\ worker[w] \in WorkerStates
         /\ worker[w].states \subseteq States
         /\ worker[w].functions \in Seq(Nat)
         /\ worker[w].tried \subseteq Computers
         /\ worker[w].pc = "idle" <=> worker[w].req = <<>>
         /\ worker[w].pc # "idle" => worker[w].req \in Requests
BY DEF TypeOK, WorkerStates

LEMMA RequestFields ==
  ASSUME NEW r \in Requests
  PROVE  /\ r.uuid \in Uuids /\ r.index \in Functions(r.uuid)
         /\ r.location \in [States -> Locations]
BY DEF Requests

LEMMA MakeRequest ==
  ASSUME NEW r \in Requests, NEW i \in Functions(r.uuid), NEW loc \in [States -> Locations]
  PROVE  [uuid |-> r.uuid, index |-> i, location |-> loc] \in Requests
BY DEF Requests

(* What each step makes of its worker.  *)
LEMMA PopRequestWorker ==
  ASSUME TypeOK, NEW w \in Workers, PopRequest(w)
  PROVE  \E new \in WorkerStates :
           /\ worker' = [worker EXCEPT ![w] = new]
           /\ new.pc = "running" /\ new.req = Head(theAsyncQueue[w[1]])
           /\ new.req \in Requests
<1> DEFINE new == [Idle EXCEPT !.pc = "running", !.req = Head(theAsyncQueue[w[1]])]
<1>1. Head(theAsyncQueue[w[1]]) \in Requests
  BY WorkerComputer DEF TypeOK, PopRequest
<1>2. /\ new \in WorkerStates /\ new.pc = "running"
      /\ new.req = Head(theAsyncQueue[w[1]])
  <2>1. PICK r : r = Head(theAsyncQueue[w[1]])
    OBVIOUS
  <2>2. Idle \in WorkerStates
    BY DEF Idle, WorkerStates
  <2>3. /\ [Idle EXCEPT !.pc = "running", !.req = r] \in WorkerStates
        /\ [Idle EXCEPT !.pc = "running", !.req = r].pc = "running"
        /\ [Idle EXCEPT !.pc = "running", !.req = r].req = r
    BY <1>1, <2>1, <2>2 DEF WorkerStates
  <2>4. QED
    BY <2>1, <2>3
<1>3. worker' = [worker EXCEPT ![w] = new]
  BY DEF PopRequest
<1>4. QED
  BY <1>1, <1>2, <1>3

LEMMA ExecuteWorker ==
  ASSUME TypeOK, NEW w \in Workers, Execute(w)
  PROVE  \E new \in WorkerStates :
           /\ worker' = [worker EXCEPT ![w] = new]
           /\ new.pc \in {"finish", "get"} /\ new.req = worker[w].req
           /\ new.states = RemoteStates(w[1], worker[w].req)
<1> DEFINE remote == RemoteStates(w[1], worker[w].req)
           pc == IF remote = {} THEN "finish" ELSE "get"
           new == [worker[w] EXCEPT !.pc = pc, !.states = remote]
<1>1. remote \in SUBSET States /\ pc \in {"finish", "get"}
  BY DEF RemoteStates
<1>2. worker' = [worker EXCEPT ![w] = new]
  BY WorkerFields DEF Execute, TypeOK
<1>3. /\ new \in WorkerStates /\ new.pc = pc
      /\ new.req = worker[w].req /\ new.states = remote
  <2> HIDE DEF remote, pc
  <2> QED
    BY <1>1, WorkerFields DEF WorkerStates
<1>4. QED
  BY <1>1, <1>2, <1>3

LEMMA GetStateWorker ==
  ASSUME TypeOK, NEW w \in Workers, GetState(w)
  PROVE  \E new \in WorkerStates, s \in worker[w].states :
           /\ worker' = [worker EXCEPT ![w] = new]
           /\ new.pc = "put" /\ new.req = worker[w].req
           /\ new.state = s /\ new.states = worker[w].states
<1>1. PICK s \in worker[w].states :
        worker' = [worker EXCEPT ![w].pc = "put", ![w].state = s]
  BY DEF GetState
<1> DEFINE new == [worker[w] EXCEPT !.pc = "put", !.state = s]
<1>2. worker' = [worker EXCEPT ![w] = new]
  BY <1>1, WorkerFields DEF TypeOK
<1>3. /\ new \in WorkerStates /\ new.pc = "put" /\ new.req = worker[w].req
      /\ new.state = s /\ new.states = worker[w].states
  BY WorkerFields DEF WorkerStates
<1>4. QED
  BY <1>2, <1>3

LEMMA PutStateWorker ==
  ASSUME TypeOK, NEW w \in Workers, PutState(w)
  PROVE  \E new \in WorkerStates :
           /\ worker' = [worker EXCEPT ![w] = new]
           /\ new.pc = "del" /\ new.req = worker[w].req
           /\ new.state = worker[w].state /\ new.states = worker[w].states
<1> DEFINE new == [worker[w] EXCEPT !.pc = "del"]
<1>2. worker' = [worker EXCEPT ![w] = new]
  BY WorkerFields DEF TypeOK, PutState
<1>3. /\ new \in WorkerStates /\ new.pc = "del" /\ new.req = worker[w].req
      /\ new.state = worker[w].state /\ new.states = worker[w].states
  BY WorkerFields DEF WorkerStates
<1>4. QED
  BY <1>2, <1>3

LEMMA DelStateWorker ==
  ASSUME TypeOK, NEW w \in Workers, DelState(w)
  PROVE  \E new \in WorkerStates :
           /\ worker' = [worker EXCEPT ![w] = new]
           /\ new.pc \in {"finish", "get"} /\ new.states \subseteq worker[w].states
           /\ worker[w].state \notin new.states
           /\ new.req \in Requests
           /\ new.req.uuid = worker[w].req.uuid
           /\ new.req.index = worker[w].req.index
           /\ new.req.location = [worker[w].req.location EXCEPT ![worker[w].state] = w[1]]
<1> DEFINE s == worker[w].state
           rest == worker[w].states \ {s}
           pc == IF rest = {} THEN "finish" ELSE "get"
           req == Relocated(worker[w].req, s, w[1])
           new == [worker[w] EXCEPT !.pc = pc, !.states = rest, !.state = None,
                                    !.req = req]
<1>1. rest \in SUBSET States /\ pc \in {"finish", "get"} /\ s \notin rest
      /\ rest \subseteq worker[w].states
  BY WorkerFields
<1>2. worker[w].req \in Requests
  BY WorkerFields DEF DelState
<1>3. /\ req \in Requests /\ req.uuid = worker[w].req.uuid
      /\ req.index = worker[w].req.index
      /\ req.location = [worker[w].req.location EXCEPT ![s] = w[1]]
  BY <1>2, WorkerComputer DEF Relocated, Requests, Locations
<1>4. worker' = [worker EXCEPT ![w] = new]
  BY WorkerFields DEF TypeOK, DelState
<1>5. /\ new \in WorkerStates /\ new.pc = pc /\ new.states = rest
      /\ new.req = req
  <2> HIDE DEF rest, pc, req, s
  <2> QED
    BY <1>1, <1>3, WorkerFields DEF WorkerStates
<1>6. QED
  <2> HIDE DEF new, rest, pc, req, s
  <2> QED
    BY <1>1, <1>3, <1>4, <1>5 DEF s

LEMMA ForgetWorker ==
  ASSUME NEW w \in Workers, Forget(w)
  PROVE  Idle \in WorkerStates /\ worker' = [worker EXCEPT ![w] = Idle]
BY DEF Forget, Idle, WorkerStates

LEMMA LockCompanionWorker ==
  ASSUME TypeOK, NEW w \in Workers, LockCompanion(w)
  PROVE  \/ worker' = [worker EXCEPT ![w] = Idle]
         \/ \E new \in WorkerStates :
              /\ worker' = [worker EXCEPT ![w] = new]
              /\ new.pc = "invoke" /\ new.req = worker[w].req
              /\ new.functions = NextFunctions(worker[w].req)
              /\ NextFunctions(worker[w].req) # <<>>
<1>1. CASE NextFunctions(worker[w].req) = <<>>
  BY <1>1 DEF LockCompanion, Forget
<1>2. CASE NextFunctions(worker[w].req) # <<>>
  <2>1. PICK next : next = NextFunctions(worker[w].req)
    OBVIOUS
  <2> DEFINE new == [worker[w] EXCEPT !.pc = "invoke", !.functions = next]
  <2>2. worker[w].req \in Requests
    BY WorkerFields DEF LockCompanion
  <2>3. next \in Seq(Nat)
    <3>1. PICK u, p : /\ worker[w].req.uuid = u /\ worker[w].req.index = p
                      /\ u \in Uuids /\ p \in Functions(u)
      BY <2>2, RequestFields
    <3>2. p \in Nat
      BY <3>1, WorkflowFacts
    <3>3. CASE IsChainOf(u)
      <4>1. next = <<p + 1>>
        BY <2>1, <3>1, <3>3 DEF NextFunctions, IsChainOf
      <4>2. QED
        BY <4>1, <3>2
    <3>4. CASE ~IsChainOf(u) /\ p \in DOMAIN wf[u].successors
      <4>1. next = Successors(u, p)
        BY <2>1, <3>1, <3>4 DEF NextFunctions, IsChainOf, Successors
      <4>2. Successors(u, p) \in Seq(1..Last(u)) /\ Last(u) \in Nat
        BY <3>1, <3>4, WorkflowFacts
      <4>3. 1..Last(u) \subseteq Nat
        BY <4>2
      <4>4. QED
        BY <4>1, <4>2, <4>3
    <3>5. CASE ~IsChainOf(u) /\ p \notin DOMAIN wf[u].successors
      BY <1>2, <3>1, <3>5 DEF NextFunctions, IsChainOf
    <3>6. QED
      BY <3>3, <3>4, <3>5
  <2>4. worker' = [worker EXCEPT ![w] = new]
    BY <1>2, <2>1, WorkerFields DEF TypeOK, LockCompanion
  <2>5. /\ new \in WorkerStates /\ new.pc = "invoke" /\ new.req = worker[w].req
        /\ new.functions = next
    BY <2>3, WorkerFields DEF WorkerStates
  <2>6. QED
    BY <2>1, <2>4, <2>5, <1>2
<1>3. QED
  BY <1>1, <1>2

LEMMA InvokedWorker ==
  ASSUME TypeOK, NEW w \in Workers, Invoked(w), worker[w].pc = "invoke",
         Len(worker[w].functions) > 0
  PROVE  \/ /\ worker' = [worker EXCEPT ![w] = Idle]
            /\ Len(worker[w].functions) = 1
         \/ \E new \in WorkerStates :
              /\ worker' = [worker EXCEPT ![w] = new]
              /\ new.pc = "invoke" /\ new.req = worker[w].req
              /\ new.functions = Tail(worker[w].functions)
              /\ Len(worker[w].functions) > 1
<1>1. CASE Len(worker[w].functions) = 1
  BY <1>1 DEF Invoked, Forget
<1>2. CASE Len(worker[w].functions) # 1
  <2>1. PICK fs : fs = worker[w].functions
    OBVIOUS
  <2>2. fs \in Seq(Nat) /\ Len(fs) > 1 /\ Tail(fs) \in Seq(Nat)
    <3>1. fs \in Seq(Nat) /\ Len(fs) > 0 /\ Len(fs) # 1
      BY <1>2, <2>1, WorkerFields
    <3>2. Len(fs) \in Nat /\ Len(<<>>) = 0
      BY <3>1
    <3>3. Len(fs) > 1
      <4>1. PICK n : n = Len(fs)
        OBVIOUS
      <4>2. n \in Nat /\ n > 0 /\ n # 1
        BY <3>1, <3>2, <4>1
      <4>3. QED
        BY <4>1, <4>2
    <3>4. fs # <<>>
      BY <3>3
    <3>5. QED
      BY <3>1, <3>3, <3>4, TailOne
  <2>3. PICK tail : tail = Tail(fs)
    OBVIOUS
  <2> DEFINE new == [worker[w] EXCEPT !.functions = tail, !.tried = {}]
  <2>4. worker' = [worker EXCEPT ![w] = new]
    BY <1>2, <2>1, <2>3, WorkerFields DEF TypeOK, Invoked
  <2>5. /\ new \in WorkerStates /\ new.pc = "invoke" /\ new.req = worker[w].req
        /\ new.functions = tail
    BY <2>2, <2>3, WorkerFields DEF WorkerStates
  <2>6. QED
    BY <2>1, <2>2, <2>3, <2>4, <2>5
<1>3. QED
  BY <1>1, <1>2

(* The type of the workers after a step of one of them.  *)
LEMMA WorkerTyped ==
  ASSUME TypeOK, wf' = wf, NEW w \in Workers, NEW new \in WorkerStates,
         new.pc = "idle" <=> new.req = <<>>,
         worker' = [worker EXCEPT ![w] = new]
  PROVE  /\ worker' \in [Workers -> WorkerStates']
         /\ \A x \in Workers : worker'[x].pc = "idle" <=> worker'[x].req = <<>>
         /\ worker'[w] = new
         /\ \A x \in Workers \ {w} : worker'[x] = worker[x]
<1>1. worker \in [Workers -> WorkerStates]
  BY DEF TypeOK
<1>2. worker'[w] = new /\ \A x \in Workers \ {w} : worker'[x] = worker[x]
  BY <1>1
<1>3. worker' \in [Workers -> WorkerStates]
  BY <1>1
<1>4. \A x \in Workers : worker'[x].pc = "idle" <=> worker'[x].req = <<>>
  BY <1>2 DEF TypeOK
<1>5. QED
  BY <1>2, <1>3, <1>4, SameTypes

LEMMA ForgetTyped ==
  ASSUME TypeOK, wf' = wf, NEW w \in Workers, worker' = [worker EXCEPT ![w] = Idle]
  PROVE  /\ worker' \in [Workers -> WorkerStates']
         /\ \A x \in Workers : worker'[x].pc = "idle" <=> worker'[x].req = <<>>
         /\ worker'[w] = Idle
         /\ \A x \in Workers \ {w} : worker'[x] = worker[x]
<1>1. Idle \in WorkerStates /\ Idle.pc = "idle" /\ Idle.req = <<>>
  BY DEF Idle, WorkerStates
<1>2. QED
  BY <1>1, WorkerTyped

(* process() queues a request or counts an invocation.  *)
LEMMA ProcessEffect ==
  ASSUME TypeOK, wf' = wf, NEW c \in Computers, NEW r \in Requests, Process(c, r)
  PROVE  /\ theAsyncQueue' \in [Computers -> Seq(Requests')]
         /\ theInvocations' \in [Computers -> [Hashes' -> Nat]]
         /\ \/ /\ theAsyncQueue' = [theAsyncQueue EXCEPT ![c] = Append(@, r)]
               /\ NoPreconditions(r) /\ UNCHANGED theInvocations
            \/ /\ theAsyncQueue' = [theAsyncQueue EXCEPT ![c] = Append(@, r)]
               /\ ~NoPreconditions(r) /\ LastInvocation(c, r)
               /\ theInvocations' = [theInvocations EXCEPT
                    ![c] = [theInvocations[c] EXCEPT ![<<r.index, r.uuid>>] = 0]]
            \/ /\ UNCHANGED theAsyncQueue
               /\ ~NoPreconditions(r) /\ ~LastInvocation(c, r)
               /\ theInvocations' = [theInvocations EXCEPT
                    ![c] = [theInvocations[c] EXCEPT
                      ![<<r.index, r.uuid>>] = theInvocations[c][<<r.index, r.uuid>>] + 1]]
         /\ <<r.index, r.uuid>> \in Hashes
<1>1. <<r.index, r.uuid>> \in Hashes
  BY RequestFields DEF Hashes
<1>2. theAsyncQueue \in [Computers -> Seq(Requests)]
      /\ theInvocations \in [Computers -> [Hashes -> Nat]]
  BY DEF TypeOK
<1>3. Append(theAsyncQueue[c], r) \in Seq(Requests)
  BY <1>2
<1>4. Requests' = Requests /\ Hashes' = Hashes
  BY SameTypes
<1>5. CASE NoPreconditions(r)
  BY <1>1, <1>2, <1>3, <1>4, <1>5 DEF Process
<1>6. CASE ~NoPreconditions(r) /\ LastInvocation(c, r)
  <2>1. theInvocations' = [theInvocations EXCEPT
                    ![c] = [theInvocations[c] EXCEPT ![<<r.index, r.uuid>>] = 0]]
    BY <1>6 DEF Process, makeHash
  <2>2. [theInvocations[c] EXCEPT ![<<r.index, r.uuid>>] = 0] \in [Hashes -> Nat]
    BY <1>2
  <2>3. theInvocations' \in [Computers -> [Hashes -> Nat]]
    BY <1>2, <2>1, <2>2
  <2>4. QED
    BY <1>1, <1>2, <1>3, <1>4, <1>6, <2>1, <2>3 DEF Process
<1>7. CASE ~NoPreconditions(r) /\ ~LastInvocation(c, r)
  <2>1. theInvocations' = [theInvocations EXCEPT
                    ![c] = [theInvocations[c] EXCEPT
                      ![<<r.index, r.uuid>>] = theInvocations[c][<<r.index, r.uuid>>] + 1]]
    BY <1>7 DEF Process, makeHash
  <2>2. [theInvocations[c] EXCEPT
           ![<<r.index, r.uuid>>] = theInvocations[c][<<r.index, r.uuid>>] + 1]
        \in [Hashes -> Nat]
    BY <1>1, <1>2
  <2>3. theInvocations' \in [Computers -> [Hashes -> Nat]]
    BY <1>2, <2>1, <2>2
  <2>4. QED
    BY <1>1, <1>2, <1>4, <1>7, <2>1, <2>3 DEF Process
<1>8. QED
  BY <1>5, <1>6, <1>7

LEMMA FirstRequestTyped ==
  ASSUME TypeOK, NEW u \in Uuids
  PROVE  /\ FirstRequest(u) \in Requests
         /\ FirstRequest(u).uuid = u /\ FirstRequest(u).index = 0
         /\ FirstRequest(u).location = [s \in States |-> Client]
<1>1. 0 \in Functions(u)
  BY WorkflowFacts
<1>2. QED
  BY <1>1 DEF FirstRequest, Requests, Locations

(* A request invokes a function of its workflow, which is not the first.  *)
LEMMA RegenerateTyped ==
  ASSUME TypeOK, FunctionsLeft, NEW w \in Workers, worker[w].pc = "invoke"
  PROVE  /\ worker[w].req \in Requests
         /\ Regenerate(w) \in Requests
         /\ Regenerate(w).uuid = worker[w].req.uuid
         /\ Regenerate(w).index = Head(worker[w].functions)
         /\ Regenerate(w).index \in Functions(worker[w].req.uuid) \ {0}
         /\ Regenerate(w).location = worker[w].req.location
         /\ Destinations(w) \subseteq Computers
<1>1. PICK u, p, left :
        u = worker[w].req.uuid /\ p = worker[w].req.index /\ left = worker[w].functions
  OBVIOUS
<1>2. /\ worker[w].req \in Requests /\ u \in Uuids /\ p \in Functions(u)
      /\ left \in Seq(Nat) /\ Len(left) > 0
  <2>1. worker[w].req \in Requests
    BY WorkerFields
  <2>2. QED
    BY <1>1, <2>1, WorkerFields, RequestFields DEF FunctionsLeft, Left
<1>3. Head(left) \in Functions(u) \ {0}
  <2>1. CASE IsChainOf(u)
    <3>1. left = <<p + 1>> /\ p + 1 \in Functions(u)
      BY <1>1, <2>1 DEF FunctionsLeft, Left
    <3>2. p \in Nat
      BY <1>2, WorkflowFacts
    <3>3. QED
      BY <3>1, <3>2
  <2>2. CASE ~IsChainOf(u)
    <3>1. PICK succ : succ = Successors(u, p)
      OBVIOUS
    <3>2. /\ p \in DOMAIN wf[u].successors /\ Len(left) <= Len(succ)
          /\ \A k \in 1..Len(left) : left[k] = succ[Len(succ) - Len(left) + k]
      BY <1>1, <2>2, <3>1 DEF FunctionsLeft, Left
    <3>3. succ \in Seq(1..Last(u)) /\ Functions(u) = 0..Last(u) /\ Last(u) \in Nat
      BY <1>2, <2>2, <3>1, <3>2, WorkflowFacts
    <3>4. Head(left) = left[1] /\ 1 \in 1..Len(left)
      BY <1>2
    <3>5. Len(succ) - Len(left) + 1 \in 1..Len(succ)
      BY <1>2, <3>2, <3>3
    <3>6. succ[Len(succ) - Len(left) + 1] \in 1..Last(u)
      BY <3>3, <3>5
    <3>7. QED
      BY <3>2, <3>3, <3>4, <3>6
  <2>3. QED
    BY <2>1, <2>2
<1>4. /\ Regenerate(w) \in Requests /\ Regenerate(w).uuid = u
      /\ Regenerate(w).index = Head(left)
      /\ Regenerate(w).location = worker[w].req.location
  <2>1. PICK i : i = Head(left)
    OBVIOUS
  <2>2. PICK r : r = worker[w].req
    OBVIOUS
  <2>3. /\ [r EXCEPT !.index = i] \in Requests
        /\ [r EXCEPT !.index = i].uuid = r.uuid
        /\ [r EXCEPT !.index = i].index = i
        /\ [r EXCEPT !.index = i].location = r.location
    BY <1>1, <1>2, <1>3, <2>1, <2>2 DEF Requests
  <2>4. QED
    BY <1>1, <2>1, <2>2, <2>3 DEF Regenerate
<1>5. wf[u].names[Head(left)] \in Names
  BY <1>2, <1>3, WorkflowFacts
<1>6. Destinations(w) \subseteq Computers
  BY <1>1, <1>5, WorkflowAssumption DEF Destinations
<1>7. QED
  BY <1>1, <1>2, <1>3, <1>4, <1>6

-----------------------------------------------------------------------------
(* Types, the functions left to invoke and the states to move.  *)
LEMMA LeftSame ==
  ASSUME wf' = wf
  PROVE  \A u, p, left : Left(u, p, left)' <=> Left(u, p, left)
BY DEF Left, IsChainOf, Functions, Successors

LEMMA OneWorker ==
  ASSUME ShapeOK, wf' = wf, NEW w \in Workers, NEW new \in WorkerStates,
         new.pc = "idle" <=> new.req = <<>>,
         new.pc = "invoke" => Left(new.req.uuid, new.req.index, new.functions),
         new.pc \in {"put", "del"} => new.state \in new.states,
         worker' = [worker EXCEPT ![w] = new]
  PROVE  /\ worker' \in [Workers -> WorkerStates']
         /\ \A x \in Workers : worker'[x].pc = "idle" <=> worker'[x].req = <<>>
         /\ FunctionsLeft' /\ Chosen'
         /\ worker'[w] = new
         /\ \A x \in Workers \ {w} : worker'[x] = worker[x]
<1>1. /\ worker' \in [Workers -> WorkerStates']
      /\ \A x \in Workers : worker'[x].pc = "idle" <=> worker'[x].req = <<>>
      /\ worker'[w] = new
      /\ \A x \in Workers \ {w} : worker'[x] = worker[x]
  BY WorkerTyped DEF ShapeOK
<1>2. FunctionsLeft'
  BY <1>1, LeftSame DEF FunctionsLeft, ShapeOK
<1>3. Chosen'
  BY <1>1 DEF Chosen, ShapeOK
<1>4. QED
  BY <1>1, <1>2, <1>3

LEMMA IdleWorker ==
  ASSUME ShapeOK, wf' = wf, NEW w \in Workers, worker' = [worker EXCEPT ![w] = Idle]
  PROVE  /\ worker' \in [Workers -> WorkerStates']
         /\ \A x \in Workers : worker'[x].pc = "idle" <=> worker'[x].req = <<>>
         /\ FunctionsLeft' /\ Chosen'
         /\ worker'[w] = Idle
         /\ \A x \in Workers \ {w} : worker'[x] = worker[x]
<1>1. Idle \in WorkerStates /\ Idle.pc = "idle" /\ Idle.req = <<>>
  BY DEF Idle, WorkerStates
<1>2. QED
  BY <1>1, OneWorker

LEMMA NotEmptyRequest == \A r \in Requests : r # <<>>
<1> SUFFICES ASSUME NEW r \in Requests PROVE r # <<>>
  OBVIOUS
<1>1. "uuid" \in DOMAIN r
  BY DEF Requests
<1>2. DOMAIN <<>> = {}
  OBVIOUS
<1>3. QED
  BY <1>1, <1>2

LEMMA SendShape ==
  ASSUME ShapeOK, NEW u \in Uuids, Send(u)
  PROVE  ShapeOK'
<1>1. wf' = wf /\ worker' = worker
  BY DEF Send
<1>2. PICK c \in Computers : Process(c, FirstRequest(u))
  <2>1. wf[u].names[0] \in Names
    BY WorkflowFacts DEF ShapeOK
  <2>2. QED
    BY <2>1, WorkflowAssumption DEF Send
<1>3. /\ theAsyncQueue' \in [Computers -> Seq(Requests')]
      /\ theInvocations' \in [Computers -> [Hashes' -> Nat]]
  BY <1>1, <1>2, FirstRequestTyped, ProcessEffect DEF ShapeOK
<1>4. TypeOK'
  BY <1>1, <1>3, SameTypes DEF ShapeOK, TypeOK, Send
<1>5. FunctionsLeft' /\ Chosen'
  BY <1>1, LeftSame DEF ShapeOK, FunctionsLeft, Chosen
<1>6. QED
  BY <1>4, <1>5 DEF ShapeOK

LEMMA PopRequestShape ==
  ASSUME ShapeOK, NEW w \in Workers, PopRequest(w)
  PROVE  ShapeOK'
<1>1. PICK new \in WorkerStates :
        /\ worker' = [worker EXCEPT ![w] = new]
        /\ new.pc = "running" /\ new.req \in Requests
  BY PopRequestWorker DEF ShapeOK
<1>2. wf' = wf
  BY DEF PopRequest
<1>3. theAsyncQueue' \in [Computers -> Seq(Requests)]
  BY WorkerComputer, TailOne DEF ShapeOK, TypeOK, PopRequest
<1>4. /\ worker' \in [Workers -> WorkerStates']
      /\ \A x \in Workers : worker'[x].pc = "idle" <=> worker'[x].req = <<>>
      /\ FunctionsLeft' /\ Chosen'
  BY <1>1, <1>2, OneWorker, NotEmptyRequest
<1>5. TypeOK'
  BY <1>2, <1>3, <1>4, SameTypes DEF ShapeOK, TypeOK, PopRequest
<1>6. QED
  BY <1>4, <1>5 DEF ShapeOK

LEMMA ExecutedTyped ==
  ASSUME TypeOK, wf' = wf, NEW u \in Uuids, NEW p \in Functions(u),
         executed' = [executed EXCEPT ![u][p] = @ + 1]
  PROVE  /\ DOMAIN executed' = Uuids
         /\ \A v \in Uuids : executed'[v] \in [Functions(v)' -> Nat]
         /\ \A v \in Uuids \ {u} : executed'[v] = executed[v]
         /\ executed'[u] = [executed[u] EXCEPT ![p] = executed[u][p] + 1]
<1>1. /\ DOMAIN executed = Uuids
      /\ \A v \in Uuids : executed[v] \in [Functions(v) -> Nat]
  BY DEF TypeOK
<1>2. executed' = [executed EXCEPT ![u] = [executed[u] EXCEPT ![p] = executed[u][p] + 1]]
  OBVIOUS
<1>3. DOMAIN executed' = Uuids /\ \A v \in Uuids \ {u} : executed'[v] = executed[v]
  BY <1>1, <1>2
<1>4. executed'[u] = [executed[u] EXCEPT ![p] = executed[u][p] + 1]
  BY <1>1, <1>2
<1>5. executed[u] \in [Functions(u) -> Nat]
  BY <1>1
<1>6. executed'[u] \in [Functions(u) -> Nat]
  BY <1>4, <1>5
<1>7. QED
  BY <1>1, <1>3, <1>4, <1>6, SameTypes

LEMMA ExecuteShape ==
  ASSUME ShapeOK, NEW w \in Workers, Execute(w)
  PROVE  ShapeOK'
<1>1. PICK new \in WorkerStates :
        /\ worker' = [worker EXCEPT ![w] = new]
        /\ new.pc \in {"finish", "get"} /\ new.req = worker[w].req
  BY ExecuteWorker DEF ShapeOK
<1>2. worker[w].req \in Requests /\ new.req # <<>>
  BY <1>1, WorkerFields, NotEmptyRequest DEF ShapeOK, Execute
<1>3. PICK u, p : /\ u = worker[w].req.uuid /\ p = worker[w].req.index
                  /\ u \in Uuids /\ p \in Functions(u)
  BY <1>2, RequestFields
<1>4. wf' = wf /\ executed' = [executed EXCEPT ![u][p] = @ + 1]
  BY <1>3 DEF Execute
<1>5. /\ DOMAIN executed' = Uuids
      /\ \A v \in Uuids : executed'[v] \in [Functions(v)' -> Nat]
  BY <1>3, <1>4, ExecutedTyped DEF ShapeOK
<1>6. /\ worker' \in [Workers -> WorkerStates']
      /\ \A x \in Workers : worker'[x].pc = "idle" <=> worker'[x].req = <<>>
      /\ FunctionsLeft' /\ Chosen'
  BY <1>1, <1>2, <1>4, OneWorker
<1>7. TypeOK'
  BY <1>4, <1>5, <1>6, SameTypes DEF ShapeOK, TypeOK, Execute
<1>8. QED
  BY <1>6, <1>7 DEF ShapeOK

LEMMA GetStateShape ==
  ASSUME ShapeOK, NEW w \in Workers, GetState(w)
  PROVE  ShapeOK'
<1>1. PICK new \in WorkerStates, s \in worker[w].states :
        /\ worker' = [worker EXCEPT ![w] = new]
        /\ new.pc = "put" /\ new.req = worker[w].req
        /\ new.state = s /\ new.states = worker[w].states
  BY GetStateWorker DEF ShapeOK
<1>2. new.req # <<>> /\ wf' = wf
  BY <1>1, WorkerFields, NotEmptyRequest DEF ShapeOK, GetState
<1>3. /\ worker' \in [Workers -> WorkerStates']
      /\ \A x \in Workers : worker'[x].pc = "idle" <=> worker'[x].req = <<>>
      /\ FunctionsLeft' /\ Chosen'
  BY <1>1, <1>2, OneWorker
<1>4. TypeOK'
  BY <1>2, <1>3, SameTypes DEF ShapeOK, TypeOK, GetState
<1>5. QED
  BY <1>3, <1>4 DEF ShapeOK

LEMMA PutStateShape ==
  ASSUME ShapeOK, NEW w \in Workers, PutState(w)
  PROVE  ShapeOK'
<1>1. PICK new \in WorkerStates :
        /\ worker' = [worker EXCEPT ![w] = new]
        /\ new.pc = "del" /\ new.req = worker[w].req
        /\ new.state = worker[w].state /\ new.states = worker[w].states
  BY PutStateWorker DEF ShapeOK
<1>2. new.req # <<>> /\ wf' = wf
  BY <1>1, WorkerFields, NotEmptyRequest DEF ShapeOK, PutState
<1>3. /\ worker' \in [Workers -> WorkerStates']
      /\ \A x \in Workers : worker'[x].pc = "idle" <=> worker'[x].req = <<>>
      /\ FunctionsLeft' /\ Chosen'
  BY <1>1, <1>2, OneWorker DEF ShapeOK, Chosen, PutState
<1>4. theStateRepo' \in [Locations -> SUBSET (Uuids \X States)]
  <2>1. worker[w].state \in States
    BY WorkerFields DEF ShapeOK, Chosen, PutState
  <2>2. worker[w].req.uuid \in Uuids
    BY WorkerFields, RequestFields DEF ShapeOK, PutState
  <2>3. theStateRepo \in [Locations -> SUBSET (Uuids \X States)]
    BY DEF ShapeOK, TypeOK
  <2>4. PICK x \in Uuids \X States : x = <<worker[w].req.uuid, worker[w].state>>
    BY <2>1, <2>2
  <2>5. theStateRepo' = [theStateRepo EXCEPT ![w[1]] = theStateRepo[w[1]] \cup {x}]
    BY <2>4 DEF PutState, Put
  <2>6. theStateRepo[w[1]] \subseteq Uuids \X States
    BY <2>3, WorkerComputer DEF Locations
  <2>7. QED
    BY <2>3, <2>5, <2>6
<1>5. TypeOK'
  BY <1>2, <1>3, <1>4, SameTypes DEF ShapeOK, TypeOK, PutState
<1>6. QED
  BY <1>3, <1>5 DEF ShapeOK

LEMMA DelStateShape ==
  ASSUME ShapeOK, NEW w \in Workers, DelState(w)
  PROVE  ShapeOK'
<1>1. PICK new \in WorkerStates :
        /\ worker' = [worker EXCEPT ![w] = new]
        /\ new.pc \in {"finish", "get"} /\ new.req \in Requests
  BY DelStateWorker DEF ShapeOK
<1>2. wf' = wf
  BY DEF DelState
<1>3. /\ worker' \in [Workers -> WorkerStates']
      /\ \A x \in Workers : worker'[x].pc = "idle" <=> worker'[x].req = <<>>
      /\ FunctionsLeft' /\ Chosen'
  BY <1>1, <1>2, OneWorker, NotEmptyRequest
<1>4. theStateRepo' \in [Locations -> SUBSET (Uuids \X States)]
  BY DEF ShapeOK, TypeOK, DelState, Del
<1>5. TypeOK'
  BY <1>2, <1>3, <1>4, SameTypes DEF ShapeOK, TypeOK, DelState
<1>6. QED
  BY <1>3, <1>5 DEF ShapeOK

LEMMA ForgetShape ==
  ASSUME ShapeOK, NEW w \in Workers,
         GetStateFails(w) \/ CallThrows(w) \/ SendCallback(w)
  PROVE  ShapeOK'
<1>1. worker' = [worker EXCEPT ![w] = Idle] /\ wf' = wf
  BY DEF GetStateFails, CallThrows, SendCallback, Forget
<1>2. /\ worker' \in [Workers -> WorkerStates']
      /\ \A x \in Workers : worker'[x].pc = "idle" <=> worker'[x].req = <<>>
      /\ FunctionsLeft' /\ Chosen'
  BY <1>1, IdleWorker
<1>3. callbacks' \in [Uuids -> Seq([States -> Locations])]
  <2>1. CASE SendCallback(w)
    <3>1. callbacks \in [Uuids -> Seq([States -> Locations])]
      BY DEF ShapeOK, TypeOK
    <3>2. worker[w].req.uuid \in Uuids /\ worker[w].req.location \in [States -> Locations]
      BY <2>1, WorkerFields, RequestFields DEF ShapeOK, SendCallback
    <3>3. callbacks' = [callbacks EXCEPT ![worker[w].req.uuid] =
                          Append(callbacks[worker[w].req.uuid], worker[w].req.location)]
      BY <2>1 DEF SendCallback, ReceiveResponse
    <3>4. Append(callbacks[worker[w].req.uuid], worker[w].req.location)
            \in Seq([States -> Locations])
      BY <3>1, <3>2, AppendOne
    <3>5. QED
      BY <3>1, <3>3, <3>4
  <2>2. CASE GetStateFails(w) \/ CallThrows(w)
    BY <2>2 DEF GetStateFails, CallThrows, ShapeOK, TypeOK
  <2>3. QED
    BY <2>1, <2>2
<1>4. failures' \in 0..MaxFailures
  BY WorkflowAssumption
  DEF ShapeOK, TypeOK, GetStateFails, CallThrows, SendCallback
<1>5. TypeOK'
  BY <1>1, <1>2, <1>3, <1>4, SameTypes
  DEF ShapeOK, TypeOK, GetStateFails, CallThrows, SendCallback
<1>6. QED
  BY <1>2, <1>5 DEF ShapeOK

(* The functions that a worker locks the companion for are all left.  *)
LEMMA NextFunctionsLeft ==
  ASSUME TypeOK, NEW r \in Requests, ~LastFunction(r), NextFunctions(r) # <<>>
  PROVE  Left(r.uuid, r.index, NextFunctions(r))
<1>1. PICK u, p, next :
        /\ u = r.uuid /\ p = r.index /\ next = NextFunctions(r)
        /\ u \in Uuids /\ p \in Functions(u)
  BY RequestFields
<1>2. /\ Last(u) \in Nat /\ Functions(u) = 0..Last(u)
  BY <1>1, WorkflowFacts
<1>3. CASE IsChainOf(u)
  <2>1. next = <<p + 1>>
    BY <1>1, <1>3 DEF NextFunctions, IsChainOf
  <2>2. p # Last(u)
    BY <1>1, <1>3 DEF LastFunction, IsChainOf, Last
  <2>3. p + 1 \in Functions(u) /\ Len(<<p + 1>>) > 0
    BY <1>1, <1>2, <2>2
  <2>4. QED
    BY <1>1, <1>3, <2>1, <2>3 DEF Left
<1>4. CASE ~IsChainOf(u)
  <2>1. p \in DOMAIN wf[u].successors /\ next = Successors(u, p)
    BY <1>1, <1>4 DEF NextFunctions, IsChainOf, Successors
  <2>2. next \in Seq(1..Last(u)) /\ next # <<>>
    BY <1>1, <1>4, <2>1, WorkflowFacts
  <2>3. PICK n \in Nat : n = Len(next)
    BY <2>2
  <2>4. n > 0
    <3>1. Len(next) # 0
      BY <2>2, EmptyOne
    <3>2. QED
      BY <2>3, <3>1
  <2>5. \A k \in 1..n : next[k] = next[n - n + k]
    BY <2>3
  <2>6. QED
    BY <1>1, <1>4, <2>1, <2>3, <2>4, <2>5 DEF Left
<1>5. QED
  BY <1>3, <1>4

LEMMA LockCompanionShape ==
  ASSUME ShapeOK, NEW w \in Workers, LockCompanion(w)
  PROVE  ShapeOK'
<1>1. wf' = wf /\ worker[w].req \in Requests /\ ~LastFunction(worker[w].req)
  BY WorkerFields DEF LockCompanion, ShapeOK
<1>2. /\ worker' \in [Workers -> WorkerStates']
      /\ \A x \in Workers : worker'[x].pc = "idle" <=> worker'[x].req = <<>>
      /\ FunctionsLeft' /\ Chosen'
  <2>1. CASE worker' = [worker EXCEPT ![w] = Idle]
    BY <1>1, <2>1, IdleWorker
  <2>2. CASE worker' # [worker EXCEPT ![w] = Idle]
    <3>1. PICK new \in WorkerStates :
            /\ worker' = [worker EXCEPT ![w] = new]
            /\ new.pc = "invoke" /\ new.req = worker[w].req
            /\ new.functions = NextFunctions(worker[w].req)
            /\ NextFunctions(worker[w].req) # <<>>
      BY <2>2, LockCompanionWorker DEF ShapeOK
    <3>2. Left(new.req.uuid, new.req.index, new.functions)
      BY <1>1, <3>1, NextFunctionsLeft DEF ShapeOK
    <3>3. QED
      BY <1>1, <3>1, <3>2, OneWorker, NotEmptyRequest
  <2>3. QED
    BY <2>1, <2>2
<1>3. TypeOK'
  BY <1>1, <1>2, SameTypes DEF ShapeOK, TypeOK, LockCompanion
<1>4. QED
  BY <1>2, <1>3 DEF ShapeOK

LEMMA NullCompanionShape ==
  ASSUME ShapeOK, NEW w \in Workers, NullCompanion(w)
  PROVE  ShapeOK'
<1>1. wf' = wf
  BY DEF NullCompanion
<1>2. Idle \in WorkerStates /\ Idle.pc = "idle" /\ Idle.req = <<>>
  BY DEF Idle, WorkerStates
<1>3. worker' = [x \in Workers |-> IF x[1] = w[1] THEN Idle ELSE worker[x]]
  BY DEF NullCompanion
<1>4. \A x \in Workers : worker'[x] = Idle \/ worker'[x] = worker[x]
  BY <1>3
<1>5. worker' \in [Workers -> WorkerStates']
  BY <1>1, <1>2, <1>3, SameTypes DEF ShapeOK, TypeOK
<1>6. \A x \in Workers : worker'[x].pc = "idle" <=> worker'[x].req = <<>>
  BY <1>2, <1>4 DEF ShapeOK, TypeOK
<1>7. FunctionsLeft' /\ Chosen'
  BY <1>1, <1>2, <1>4, LeftSame DEF FunctionsLeft, Chosen, ShapeOK
<1>8. theInvocations' \in [Computers -> [Hashes -> Nat]]
  BY WorkerComputer DEF ShapeOK, TypeOK, NullCompanion
<1>9. theAsyncQueue' \in [Computers -> Seq(Requests)]
  BY WorkerComputer DEF ShapeOK, TypeOK, NullCompanion
<1>10. TypeOK'
  BY <1>1, <1>5, <1>6, <1>8, <1>9, SameTypes DEF ShapeOK, TypeOK, NullCompanion
<1>11. QED
  BY <1>7, <1>10 DEF ShapeOK

(* One function less is left.  *)
LEMMA TailLeft ==
  ASSUME TypeOK, NEW u \in Uuids, NEW p \in Functions(u), NEW left \in Seq(Nat),
         Left(u, p, left), Len(left) > 1
  PROVE  Left(u, p, Tail(left))
<1>1. PICK n \in Nat : n = Len(left)
  OBVIOUS
<1>2. left # <<>>
  BY EmptyOne
<1>3. /\ Tail(left) \in Seq(Nat) /\ Len(Tail(left)) = n - 1
      /\ \A i \in 1..n - 1 : Tail(left)[i] = left[i + 1]
  BY <1>1, <1>2, TailOne
<1>4. ~IsChainOf(u)
  <2> SUFFICES ASSUME IsChainOf(u) PROVE FALSE
    OBVIOUS
  <2>1. left = <<p + 1>>
    BY DEF Left
  <2>2. Len(<<p + 1>>) = 1
    OBVIOUS
  <2>3. QED
    BY <2>1, <2>2
<1>5. PICK succ : succ = Successors(u, p)
  OBVIOUS
<1>6. /\ p \in DOMAIN wf[u].successors /\ Len(left) <= Len(succ)
      /\ \A k \in 1..Len(left) : left[k] = succ[Len(succ) - Len(left) + k]
  BY <1>4, <1>5 DEF Left
<1>7. succ \in Seq(1..Last(u))
  BY <1>4, <1>5, <1>6, WorkflowFacts
<1>8. PICK m \in Nat : m = Len(succ)
  BY <1>7
<1>9. \A k \in 1..n - 1 : Tail(left)[k] = succ[m - (n - 1) + k]
  <2> SUFFICES ASSUME NEW k \in 1..n - 1
               PROVE  Tail(left)[k] = succ[m - (n - 1) + k]
    OBVIOUS
  <2>1. k + 1 \in 1..n /\ m - n + (k + 1) = m - (n - 1) + k
    BY <1>1, <1>8
  <2>2. QED
    BY <1>1, <1>3, <1>6, <1>8, <2>1
<1>10. n - 1 > 0 /\ n - 1 <= m
  BY <1>1, <1>6, <1>8
<1>11. QED
  BY <1>3, <1>4, <1>5, <1>6, <1>8, <1>9, <1>10 DEF Left

LEMMA InvokedTyped ==
  ASSUME ShapeOK, wf' = wf, NEW w \in Workers, worker[w].pc = "invoke", Invoked(w)
  PROVE  /\ worker' \in [Workers -> WorkerStates']
         /\ \A x \in Workers : worker'[x].pc = "idle" <=> worker'[x].req = <<>>
         /\ FunctionsLeft' /\ Chosen'
<1>1. Left(worker[w].req.uuid, worker[w].req.index, worker[w].functions)
  BY DEF ShapeOK, FunctionsLeft
<1>2. Len(worker[w].functions) > 0
  BY <1>1 DEF Left
<1>3. CASE worker' = [worker EXCEPT ![w] = Idle]
  BY <1>3, IdleWorker
<1>4. CASE worker' # [worker EXCEPT ![w] = Idle]
  <2>1. PICK new \in WorkerStates :
          /\ worker' = [worker EXCEPT ![w] = new]
          /\ new.pc = "invoke" /\ new.req = worker[w].req
          /\ new.functions = Tail(worker[w].functions)
          /\ Len(worker[w].functions) > 1
    BY <1>2, <1>4, InvokedWorker DEF ShapeOK
  <2>2. worker[w].req \in Requests /\ worker[w].functions \in Seq(Nat)
    BY WorkerFields DEF ShapeOK
  <2>3. worker[w].req.uuid \in Uuids
        /\ worker[w].req.index \in Functions(worker[w].req.uuid)
    BY <2>2, RequestFields
  <2>4. Left(new.req.uuid, new.req.index, new.functions)
    BY <1>1, <2>1, <2>2, <2>3, TailLeft DEF ShapeOK
  <2>5. QED
    BY <2>1, <2>2, <2>4, OneWorker, NotEmptyRequest
<1>5. QED
  BY <1>3, <1>4

LEMMA InvokeShape ==
  ASSUME ShapeOK, NEW w \in Workers, Invoke(w)
  PROVE  ShapeOK'
<1>1. wf' = wf /\ worker[w].pc = "invoke" /\ Invoked(w)
  BY DEF Invoke
<1>2. Regenerate(w) \in Requests /\ Destinations(w) \subseteq Computers
  BY <1>1, RegenerateTyped DEF ShapeOK
<1>3. PICK c \in Computers : Process(c, Regenerate(w))
  BY <1>2 DEF Invoke
<1>4. /\ theAsyncQueue' \in [Computers -> Seq(Requests')]
      /\ theInvocations' \in [Computers -> [Hashes' -> Nat]]
  BY <1>1, <1>2, <1>3, ProcessEffect DEF ShapeOK
<1>5. /\ worker' \in [Workers -> WorkerStates']
      /\ \A x \in Workers : worker'[x].pc = "idle" <=> worker'[x].req = <<>>
      /\ FunctionsLeft' /\ Chosen'
  BY <1>1, InvokedTyped
<1>6. TypeOK'
  BY <1>1, <1>4, <1>5, SameTypes DEF ShapeOK, TypeOK, Invoke
<1>7. QED
  BY <1>5, <1>6 DEF ShapeOK

LEMMA InvokeResentWorker ==
  ASSUME ShapeOK, NEW w \in Workers, InvokeResent(w)
  PROVE  \E c \in Computers, new \in WorkerStates :
           /\ Process(c, Regenerate(w))
           /\ worker' = [worker EXCEPT ![w] = new]
           /\ new.pc = "invoke" /\ new.req = worker[w].req
           /\ new.functions = worker[w].functions
<1>1. worker[w].pc = "invoke"
  BY DEF InvokeResent
<1>2. Destinations(w) \subseteq Computers
  BY <1>1, RegenerateTyped DEF ShapeOK
<1>3. PICK c \in Computers :
        /\ Process(c, Regenerate(w))
        /\ worker' = [worker EXCEPT ![w].tried = @ \cup {c}]
  BY <1>2 DEF InvokeResent
<1> DEFINE new == [worker[w] EXCEPT !.tried = worker[w].tried \cup {c}]
<1>4. worker' = [worker EXCEPT ![w] = new]
  BY <1>3, WorkerFields DEF ShapeOK, TypeOK
<1>5. /\ new \in WorkerStates /\ new.pc = "invoke" /\ new.req = worker[w].req
      /\ new.functions = worker[w].functions
  BY <1>1, WorkerFields DEF ShapeOK, WorkerStates
<1>6. QED
  BY <1>3, <1>4, <1>5

LEMMA InvokeResentShape ==
  ASSUME ShapeOK, NEW w \in Workers, InvokeResent(w)
  PROVE  ShapeOK'
<1>1. wf' = wf /\ worker[w].pc = "invoke"
  BY DEF InvokeResent
<1>2. Regenerate(w) \in Requests /\ worker[w].req \in Requests
  BY <1>1, RegenerateTyped DEF ShapeOK
<1>3. PICK c \in Computers, new \in WorkerStates :
        /\ Process(c, Regenerate(w))
        /\ worker' = [worker EXCEPT ![w] = new]
        /\ new.pc = "invoke" /\ new.req = worker[w].req
        /\ new.functions = worker[w].functions
  BY InvokeResentWorker
<1>4. /\ theAsyncQueue' \in [Computers -> Seq(Requests')]
      /\ theInvocations' \in [Computers -> [Hashes' -> Nat]]
  BY <1>1, <1>2, <1>3, ProcessEffect DEF ShapeOK
<1>5. Left(new.req.uuid, new.req.index, new.functions)
  BY <1>1, <1>3 DEF ShapeOK, FunctionsLeft
<1>6. /\ worker' \in [Workers -> WorkerStates']
      /\ \A x \in Workers : worker'[x].pc = "idle" <=> worker'[x].req = <<>>
      /\ FunctionsLeft' /\ Chosen'
  BY <1>1, <1>2, <1>3, <1>5, OneWorker, NotEmptyRequest
<1>7. failures' \in 0..MaxFailures /\ resent' \subseteq Uuids
  BY <1>2, WorkflowAssumption, RequestFields DEF ShapeOK, TypeOK, InvokeResent
<1>8. TypeOK'
  BY <1>1, <1>4, <1>6, <1>7, SameTypes DEF ShapeOK, TypeOK, InvokeResent
<1>9. QED
  BY <1>6, <1>8 DEF ShapeOK

LEMMA InvokeRefusedShape ==
  ASSUME ShapeOK, NEW w \in Workers, InvokeRefused(w)
  PROVE  ShapeOK'
<1>1. wf' = wf /\ worker[w].pc = "invoke" /\ Invoked(w)
  BY DEF InvokeRefused
<1>2. /\ worker' \in [Workers -> WorkerStates']
      /\ \A x \in Workers : worker'[x].pc = "idle" <=> worker'[x].req = <<>>
      /\ FunctionsLeft' /\ Chosen'
  BY <1>1, InvokedTyped
<1>3. TypeOK'
  BY <1>1, <1>2, SameTypes DEF ShapeOK, TypeOK, InvokeRefused
<1>4. QED
  BY <1>2, <1>3 DEF ShapeOK

LEMMA CompanionShape ==
  ASSUME ShapeOK, NEW c \in Computers, ClearCompanion(c) \/ SetCompanion(c)
  PROVE  ShapeOK'
<1>1. wf' = wf /\ worker' = worker
  BY DEF ClearCompanion, SetCompanion
<1>2. TypeOK'
  <2>1. theCompanion' \in [Computers -> BOOLEAN]
    BY DEF ShapeOK, TypeOK, ClearCompanion, SetCompanion
  <2>2. failures' \in 0..MaxFailures
    BY WorkflowAssumption DEF ShapeOK, TypeOK, ClearCompanion, SetCompanion
  <2>3. QED
    BY <1>1, <2>1, <2>2, SameTypes DEF ShapeOK, TypeOK, ClearCompanion, SetCompanion
<1>3. FunctionsLeft' /\ Chosen'
  BY <1>1, LeftSame DEF ShapeOK, FunctionsLeft, Chosen
<1>4. QED
  BY <1>2, <1>3 DEF ShapeOK

LEMMA StutterShape ==
  ASSUME ShapeOK, UNCHANGED vars
  PROVE  ShapeOK'
<1>1. wf' = wf /\ worker' = worker
  BY DEF vars
<1>2. TypeOK'
  BY <1>1, SameTypes DEF ShapeOK, TypeOK, vars
<1>3. FunctionsLeft' /\ Chosen'
  BY <1>1, LeftSame DEF ShapeOK, FunctionsLeft, Chosen
<1>4. QED
  BY <1>2, <1>3 DEF ShapeOK

LEMMA NextShape == ShapeOK /\ [Next]_vars => ShapeOK'
<1> SUFFICES ASSUME ShapeOK, [Next]_vars PROVE ShapeOK'
  OBVIOUS
<1>1. ASSUME NEW u \in Uuids, Send(u) PROVE ShapeOK'
  BY <1>1, SendShape
<1>2. ASSUME NEW w \in Workers, WorkerStep(w) \/ CallThrows(w) \/ InvokeResent(w)
      PROVE  ShapeOK'
  BY <1>2, PopRequestShape, ExecuteShape, GetStateShape, PutStateShape, DelStateShape,
     ForgetShape, LockCompanionShape, NullCompanionShape, InvokeShape,
     InvokeRefusedShape, InvokeResentShape DEF WorkerStep
<1>3. ASSUME NEW c \in Computers, ClearCompanion(c) \/ SetCompanion(c) PROVE ShapeOK'
  BY <1>3, CompanionShape
<1>4. CASE UNCHANGED vars
  BY <1>4, StutterShape
<1>5. QED
  BY <1>1, <1>2, <1>3, <1>4 DEF Next, Quiescent

LEMMA InitShape == Init => ShapeOK
<1> SUFFICES ASSUME Init PROVE ShapeOK
  OBVIOUS
<1>1. \A w \in Workers : worker[w].pc = "idle"
  BY DEF Init, Idle
<1>2. QED
  BY <1>1, InitTypeOK DEF ShapeOK, FunctionsLeft, Chosen

(* The requests that the computers and the workers have are for functions  *)
(* of their workflow, whose states are on servers that are there.          *)
THEOREM WorkflowTypeOK == Spec => []TypeOK
<1>1. ShapeOK => TypeOK
  BY DEF ShapeOK
<1>2. QED
  BY <1>1, InitShape, NextShape, PTL DEF Spec

-----------------------------------------------------------------------------
(* The invocations of a function are finitely many.  *)
LEMMA InvocationsFinite ==
  ASSUME TypeOK, NEW u \in Uuids, ~IsChainOf(u), NEW f
  PROVE  /\ IsFiniteSet(Invocations(u, f))
         /\ \A e \in Invocations(u, f) :
              /\ e[1] \in DOMAIN wf[u].successors /\ e[1] \in Functions(u)
              /\ e[2] \in 1..Len(Successors(u, e[1]))
              /\ Successors(u, e[1])[e[2]] = f
         /\ \A p, k : p \in DOMAIN wf[u].successors /\ k \in 1..Len(Successors(u, p))
                      /\ Successors(u, p)[k] = f => <<p, k>> \in Invocations(u, f)
<1> DEFINE succ == wf[u].successors
           D == DOMAIN succ
           g == [p \in D |-> {p} \X (1..Len(succ[p]))]
           T == {{p} \X (1..Len(succ[p])) : p \in D}
<1>1. D = 0..Last(u) - 1 /\ Last(u) \in Nat /\ Functions(u) = 0..Last(u)
      /\ \A p \in D : succ[p] \in Seq(1..Last(u))
  BY WorkflowFacts DEF Successors
<1>2. IsFiniteSet(D)
  BY <1>1, FS_Interval
<1>3. g \in Surjection(D, T)
  BY DEF Surjection
<1>4. IsFiniteSet(T)
  BY <1>2, <1>3, FS_Surjection
<1>5. \A p \in D : IsFiniteSet({p} \X (1..Len(succ[p])))
  <2> SUFFICES ASSUME NEW p \in D PROVE IsFiniteSet({p} \X (1..Len(succ[p])))
    OBVIOUS
  <2>1. Len(succ[p]) \in Int
    BY <1>1
  <2>2. IsFiniteSet({p})
    BY FS_Singleton
  <2>3. IsFiniteSet(1..Len(succ[p]))
    <3>1. PICK n \in Int : n = Len(succ[p])
      BY <2>1
    <3>2. QED
      BY <3>1, FS_Interval
  <2>4. QED
    BY <2>2, <2>3, FS_Product
<1>6. IsFiniteSet(UNION T)
  <2>1. \A X \in T : IsFiniteSet(X)
    BY <1>5
  <2>2. QED
    BY <1>4, <2>1, FS_UNION
<1>7. Invocations(u, f) = {e \in UNION T : succ[e[1]][e[2]] = f}
  BY DEF Invocations
<1>8. IsFiniteSet(Invocations(u, f))
  BY <1>6, <1>7, FS_Subset
<1>9. \A e \in UNION T : e[1] \in D /\ e[2] \in 1..Len(succ[e[1]])
  OBVIOUS
<1>10. \A p \in D : \A k \in 1..Len(succ[p]) : <<p, k>> \in UNION T
  OBVIOUS
<1>11. \A e \in Invocations(u, f) :
              /\ e[1] \in DOMAIN wf[u].successors
              /\ e[2] \in 1..Len(Successors(u, e[1]))
              /\ Successors(u, e[1])[e[2]] = f
  BY <1>7, <1>9 DEF Successors
<1>12. \A e \in Invocations(u, f) : e[1] \in Functions(u)
  BY <1>1, <1>11
<1>13. \A p, k : p \in DOMAIN wf[u].successors /\ k \in 1..Len(Successors(u, p))
                 /\ Successors(u, p)[k] = f => <<p, k>> \in Invocations(u, f)
  <2> SUFFICES ASSUME NEW p, NEW k, p \in D, k \in 1..Len(succ[p]), succ[p][k] = f
               PROVE  <<p, k>> \in Invocations(u, f)
    BY DEF Successors
  <2>1. <<p, k>> \in UNION T
    BY <1>10
  <2>2. succ[<<p, k>>[1]][<<p, k>>[2]] = f
    OBVIOUS
  <2>3. QED
    BY <1>7, <2>1, <2>2
<1>14. QED
  BY <1>8, <1>11, <1>12, <1>13

LEMMA SameInvocations ==
  ASSUME wf' = wf
  PROVE  \A u, f : /\ Invocations(u, f)' = Invocations(u, f)
                   /\ IsChainOf(u)' = IsChainOf(u) /\ Last(u)' = Last(u)
                   /\ Successors(u, f)' = Successors(u, f)
                   /\ Functions(u)' = Functions(u)
BY DEF Invocations, IsChainOf, Last, Successors, Functions

(* Fewer counted, more made: the counters stay below.  *)
LEMMA CountsBelow ==
  ASSUME ShapeOK, ShapeOK', wf' = wf, NEW u \in Uuids, CountsGone(u),
         \A f : \A e \in Invocations(u, f) : Gone(u, e) => Gone(u, e)',
         \A c \in Computers : \A f \in Functions(u) :
           theInvocations'[c][<<f, u>>] <= theInvocations[c][<<f, u>>]
  PROVE  CountsGone(u)'
<1> SUFFICES ASSUME ~IsChainOf(u), NEW c \in Computers, NEW f \in Functions(u)
             PROVE  theInvocations'[c][<<f, u>>] <= Cardinality(GoneInvocations(u, f)')
  BY SameInvocations DEF CountsGone
<1>1. IsFiniteSet(Invocations(u, f))
  BY InvocationsFinite DEF ShapeOK
<1>2. GoneInvocations(u, f)' = {e \in Invocations(u, f) : Gone(u, e)'}
  BY SameInvocations DEF GoneInvocations
<1>3. IsFiniteSet(GoneInvocations(u, f)') /\ IsFiniteSet(GoneInvocations(u, f))
  BY <1>1, <1>2, FS_Subset DEF GoneInvocations
<1>4. GoneInvocations(u, f) \subseteq GoneInvocations(u, f)'
  BY <1>2 DEF GoneInvocations
<1>5. PICK m, n : /\ m = Cardinality(GoneInvocations(u, f))
                  /\ n = Cardinality(GoneInvocations(u, f)')
  OBVIOUS
<1>6. m \in Nat /\ n \in Nat /\ m <= n
  BY <1>3, <1>4, <1>5, FS_Subset, FS_CardinalityType
<1>7. /\ theInvocations[c][<<f, u>>] \in Nat /\ theInvocations'[c][<<f, u>>] \in Nat
      /\ theInvocations[c][<<f, u>>] <= m
  <2>1. <<f, u>> \in Hashes
    BY DEF Hashes
  <2>2. /\ theInvocations \in [Computers -> [Hashes -> Nat]]
        /\ theInvocations' \in [Computers -> [Hashes -> Nat]]
    BY SameTypes DEF ShapeOK, TypeOK
  <2>3. QED
    BY <1>5, <2>1, <2>2 DEF CountsGone
<1>8. QED
  BY <1>5, <1>6, <1>7

(* What a step that does not start, execute or end a token of u does.  The *)
(* requests in a queue may move up by shift positions.                     *)
QuietQueues(u, shift) ==
  \A c \in Computers : \A k \in Positions(c)' :
    theAsyncQueue'[c][k].uuid = u =>
      /\ k + shift[c] \in Positions(c)
      /\ theAsyncQueue'[c][k] = theAsyncQueue[c][k + shift[c]]

QuietWorker(u, w) ==
  Busy(w)' /\ worker'[w].req.uuid = u =>
    /\ Busy(w) /\ worker[w].req.uuid = u
    /\ worker'[w].req.index = worker[w].req.index
    /\ worker'[w].pc = "running" <=> worker[w].pc = "running"
    /\ worker[w].pc = "invoke" =>
         /\ worker'[w].pc = "invoke"
         /\ Len(worker'[w].functions) <= Len(worker[w].functions)

Quiet(u, shift) ==
  /\ wf' = wf /\ (u \in sent => u \in sent')
  /\ shift \in [Computers -> Nat]
  /\ QuietQueues(u, shift)
  /\ \A w \in Workers : QuietWorker(u, w)
  /\ executed'[u] = executed[u]
  /\ \A c \in Computers : \A f \in Functions(u) :
       theInvocations'[c][<<f, u>>] <= theInvocations[c][<<f, u>>]

(* No worker has more invocations to make after such a step.  *)
LEMMA HoldsKept ==
  ASSUME ShapeOK, ShapeOK', wf' = wf, NEW u \in Uuids, ~IsChainOf(u),
         NEW f, NEW e \in Invocations(u, f),
         NEW w \in Workers, QuietWorker(u, w), Holds(w, u, e)'
  PROVE  Holds(w, u, e)
<1>1. /\ Busy(w)' /\ worker'[w].req.uuid = u /\ worker'[w].req.index = e[1]
  BY DEF Holds
<1>2. /\ Busy(w) /\ worker[w].req.uuid = u /\ worker[w].req.index = e[1]
  BY <1>1 DEF QuietWorker
<1>3. CASE worker[w].pc = "invoke"
  <2>1. PICK a, b, n : /\ a = Len(worker'[w].functions)
                       /\ b = Len(worker[w].functions)
                       /\ n = Len(Successors(u, e[1]))
    OBVIOUS
  <2>2. worker'[w].pc = "invoke" /\ a <= b
    BY <1>1, <1>3, <2>1 DEF QuietWorker
  <2>3. e[2] > n - a
    BY <2>1, <2>2, SameInvocations DEF Holds
  <2>4. a \in Nat /\ b \in Nat
    <3>1. worker[w].functions \in Seq(Nat) /\ worker'[w].functions \in Seq(Nat)
      BY WorkerFields, SameTypes DEF ShapeOK, TypeOK, WorkerStates
    <3>2. QED
      BY <2>1, <3>1
  <2>5. e[2] \in Nat /\ n \in Nat
    <3>1. /\ e[1] \in DOMAIN wf[u].successors
          /\ e[2] \in 1..Len(Successors(u, e[1]))
      BY InvocationsFinite DEF ShapeOK
    <3>2. Successors(u, e[1]) \in Seq(1..Last(u))
      BY <3>1, WorkflowFacts DEF ShapeOK
    <3>3. QED
      BY <2>1, <3>1, <3>2
  <2>6. e[2] > n - b
    BY <2>2, <2>3, <2>4, <2>5
  <2>7. QED
    BY <1>2, <2>1, <2>6 DEF Holds
<1>4. CASE worker[w].pc # "invoke"
  BY <1>2, <1>4 DEF Holds
<1>5. QED
  BY <1>3, <1>4

(* A token that is there after a quiet step was there before it.  *)
LEMMA QuietTokens ==
  ASSUME ShapeOK, ShapeOK', NEW u \in Uuids, NEW shift, Quiet(u, shift)
  PROVE  /\ \A f : (Queued(u, f)' => Queued(u, f)) /\ (Working(u, f)' => Working(u, f))
         /\ ~IsChainOf(u) => \A f : \A e \in Invocations(u, f) :
              Gone(u, e) => Gone(u, e)'
<1>1. \A f : Queued(u, f)' => Queued(u, f)
  BY DEF Quiet, QuietQueues, Queued
<1>2. \A f : Working(u, f)' => Working(u, f)
  BY DEF Quiet, QuietWorker, Working
<1>3. ASSUME ~IsChainOf(u), NEW f, NEW e \in Invocations(u, f),
             NEW w \in Workers, Holds(w, u, e)'
      PROVE  Holds(w, u, e)
  BY <1>3, HoldsKept DEF Quiet
<1>4. ASSUME ~IsChainOf(u), NEW f, NEW e \in Invocations(u, f), Gone(u, e)
      PROVE  Gone(u, e)'
  BY <1>3, <1>4 DEF Gone, Quiet
<1>5. QED
  BY <1>1, <1>2, <1>3, <1>4

(* What TokensInv says but for the callback, which only one step sends.  *)
TokensCore(u) ==
  /\ UniqueTokens(u)
  /\ TokensExecuted(u)
  /\ ChainInOrder(u)
  /\ NotStarted(u)
  /\ JoinOnce(u)
  /\ CountsGone(u)

(* The tokens stay where they are, or move up in their queue.  *)
KeepsToken(u, w) ==
  Busy(w)' /\ worker'[w].req.uuid = u =>
    /\ Busy(w) /\ worker[w].req.uuid = u
    /\ worker'[w].req.index = worker[w].req.index

LEMMA UniqueKept ==
  ASSUME ShapeOK, NEW u \in Uuids, NEW shift \in [Computers -> Nat],
         wf' = wf, QuietQueues(u, shift), \A w \in Workers : KeepsToken(u, w),
         UniqueTokens(u)
  PROVE  UniqueTokens(u)'
<1>0. \A r, q : Rivals(r, q)' <=> Rivals(r, q)
  BY SameInvocations DEF Rivals
<1>1. \A c, d \in Computers : \A j \in Positions(c)', k \in Positions(d)' :
        /\ theAsyncQueue'[c][j].uuid = u
        /\ Rivals(theAsyncQueue'[c][j], theAsyncQueue'[d][k])
        => c = d /\ j = k
  <2> SUFFICES ASSUME NEW c \in Computers, NEW d \in Computers,
                      NEW j \in Positions(c)', NEW k \in Positions(d)',
                      theAsyncQueue'[c][j].uuid = u,
                      Rivals(theAsyncQueue'[c][j], theAsyncQueue'[d][k])
               PROVE  c = d /\ j = k
    OBVIOUS
  <2>1. theAsyncQueue'[d][k].uuid = u
    BY DEF Rivals
  <2>2. /\ j + shift[c] \in Positions(c) /\ k + shift[d] \in Positions(d)
        /\ theAsyncQueue'[c][j] = theAsyncQueue[c][j + shift[c]]
        /\ theAsyncQueue'[d][k] = theAsyncQueue[d][k + shift[d]]
    BY <2>1 DEF QuietQueues
  <2>3. c = d /\ j + shift[c] = k + shift[d]
    BY <2>2 DEF UniqueTokens
  <2>4. j \in Int /\ k \in Int /\ shift[c] \in Int
    <3>1. Positions(c)' \subseteq Int /\ Positions(d)' \subseteq Int
      BY DEF Positions
    <3>2. QED
      BY <3>1
  <2>5. PICK n : n = shift[c]
    OBVIOUS
  <2>6. n \in Int /\ j + n = k + n
    BY <2>3, <2>4, <2>5
  <2>7. j = k
    BY <2>4, <2>6
  <2>8. QED
    BY <2>3, <2>7
<1>2. \A c \in Computers : \A j \in Positions(c)' : \A w \in Workers :
        theAsyncQueue'[c][j].uuid = u /\ Busy(w)'
        => ~Rivals(theAsyncQueue'[c][j], worker'[w].req)
  <2> SUFFICES ASSUME NEW c \in Computers, NEW j \in Positions(c)', NEW w \in Workers,
                      theAsyncQueue'[c][j].uuid = u, Busy(w)',
                      Rivals(theAsyncQueue'[c][j], worker'[w].req)
               PROVE  FALSE
    OBVIOUS
  <2>1. worker'[w].req.uuid = u
    BY DEF Rivals
  <2>2. /\ j + shift[c] \in Positions(c)
        /\ theAsyncQueue'[c][j] = theAsyncQueue[c][j + shift[c]]
        /\ Busy(w) /\ worker[w].req.uuid = u
        /\ worker'[w].req.index = worker[w].req.index
    BY <2>1 DEF QuietQueues, KeepsToken
  <2>3. Rivals(theAsyncQueue[c][j + shift[c]], worker[w].req)
    BY <2>1, <2>2 DEF Rivals
  <2>4. QED
    BY <2>2, <2>3 DEF UniqueTokens
<1>3. \A w, x \in Workers :
        /\ Busy(w)' /\ Busy(x)'
        /\ worker'[w].req.uuid = u
        /\ Rivals(worker'[w].req, worker'[x].req)
        => w = x
  <2> SUFFICES ASSUME NEW w \in Workers, NEW x \in Workers, Busy(w)', Busy(x)',
                      worker'[w].req.uuid = u,
                      Rivals(worker'[w].req, worker'[x].req)
               PROVE  w = x
    OBVIOUS
  <2>1. worker'[x].req.uuid = u
    BY DEF Rivals
  <2>2. /\ Busy(w) /\ worker[w].req.uuid = u /\ Busy(x) /\ worker[x].req.uuid = u
        /\ worker'[w].req.index = worker[w].req.index
        /\ worker'[x].req.index = worker[x].req.index
    BY <2>1 DEF KeepsToken
  <2>3. Rivals(worker[w].req, worker[x].req)
    BY <2>1, <2>2 DEF Rivals
  <2>4. QED
    BY <2>2, <2>3 DEF UniqueTokens
<1>4. QED
  BY <1>0, <1>1, <1>2, <1>3 DEF UniqueTokens

LEMMA QuietCore ==
  ASSUME ShapeOK, ShapeOK', NEW u \in Uuids, NEW shift, Quiet(u, shift), TokensCore(u)
  PROVE  TokensCore(u)'
<1>1. /\ \A f : (Queued(u, f)' => Queued(u, f)) /\ (Working(u, f)' => Working(u, f))
      /\ ~IsChainOf(u) => \A f : \A e \in Invocations(u, f) :
           Gone(u, e) => Gone(u, e)'
  BY QuietTokens
<1>2. /\ \A f, v : Invocations(v, f)' = Invocations(v, f)
      /\ \A v : IsChainOf(v)' = IsChainOf(v) /\ Functions(v)' = Functions(v)
  BY SameInvocations DEF Quiet
<1>3. \A r, q : Rivals(r, q)' <=> Rivals(r, q)
  BY <1>2 DEF Rivals
<1>4. UniqueTokens(u)'
  <2>1. \A w \in Workers : KeepsToken(u, w)
    BY DEF Quiet, QuietWorker, KeepsToken
  <2>2. QED
    BY <2>1, UniqueKept DEF Quiet, TokensCore
<1>5. TokensExecuted(u)'
  <2>1. \A w \in Workers : Busy(w)' /\ worker'[w].req.uuid = u =>
          executed'[u][worker'[w].req.index]
            = IF worker'[w].pc = "running" THEN 0 ELSE 1
    BY DEF Quiet, QuietWorker, TokensCore, TokensExecuted
  <2>2. QED
    BY <1>1, <1>2, <2>1 DEF TokensCore, TokensExecuted, Quiet
<1>6. ChainInOrder(u)'
  BY <1>1, <1>2 DEF TokensCore, ChainInOrder, Quiet
<1>7. NotStarted(u)'
  BY <1>1, <1>2 DEF TokensCore, NotStarted, Quiet
<1>8. JoinOnce(u)'
  BY <1>1, <1>2 DEF TokensCore, JoinOnce, Quiet
<1>9. CountsGone(u)'
  <2>1. CASE IsChainOf(u)
    BY <1>2, <2>1 DEF CountsGone
  <2>2. CASE ~IsChainOf(u)
    BY <1>1, <2>2, CountsBelow DEF TokensCore, Quiet
  <2>3. QED
    BY <2>1, <2>2
<1>10. QED
  BY <1>4, <1>5, <1>6, <1>7, <1>8, <1>9 DEF TokensCore

LEMMA QuietCalledBack ==
  ASSUME ShapeOK, ShapeOK', NEW u \in Uuids, NEW shift, Quiet(u, shift),
         CalledBack(u), callbacks'[u] = callbacks[u]
  PROVE  CalledBack(u)'
<1>1. \A f : (Queued(u, f)' => Queued(u, f)) /\ (Working(u, f)' => Working(u, f))
  BY QuietTokens
<1>2. IsChainOf(u)' = IsChainOf(u) /\ Functions(u)' = Functions(u) /\ Last(u)' = Last(u)
  BY SameInvocations DEF Quiet
<1>3. QED
  BY <1>1, <1>2 DEF CalledBack, Quiet

LEMMA TokensSplit == \A u : TokensInv(u) <=> TokensCore(u) /\ CalledBack(u)
BY DEF TokensInv, TokensCore

LEMMA QuietInv ==
  ASSUME ShapeOK, ShapeOK', NEW u \in Uuids, NEW shift, Quiet(u, shift),
         TokensInv(u), callbacks'[u] = callbacks[u]
  PROVE  TokensInv(u)'
BY QuietCore, QuietCalledBack DEF TokensInv, TokensCore

-----------------------------------------------------------------------------
NoShift == [c \in Computers |-> 0]

LEMMA SamePlace ==
  ASSUME ShapeOK, NEW c \in Computers, NEW k \in Positions(c)
  PROVE  k + NoShift[c] \in Positions(c) /\ k + NoShift[c] = k
<1>1. k \in Int
  BY DEF Positions
<1>2. QED
  BY <1>1 DEF NoShift

LEMMA SameQueues ==
  ASSUME ShapeOK, theAsyncQueue' = theAsyncQueue, NEW u
  PROVE  QuietQueues(u, NoShift)
BY SamePlace DEF QuietQueues, Positions

LEMMA SameCounts ==
  ASSUME ShapeOK, theInvocations' = theInvocations, NEW u \in Uuids
  PROVE  \A c \in Computers : \A f \in Functions(u) :
           theInvocations'[c][<<f, u>>] <= theInvocations[c][<<f, u>>]
<1> SUFFICES ASSUME NEW c \in Computers, NEW f \in Functions(u)
             PROVE  theInvocations'[c][<<f, u>>] <= theInvocations[c][<<f, u>>]
  OBVIOUS
<1>1. <<f, u>> \in Hashes
  BY DEF Hashes
<1>2. theInvocations[c][<<f, u>>] \in Nat
  BY <1>1 DEF ShapeOK, TypeOK
<1>3. QED
  BY <1>2

(* What is in the queues after a request was appended to one.  *)
AppendedTo(c, r) ==
  /\ \A d \in Computers : \A k \in Positions(d)' :
       \/ k \in Positions(d) /\ theAsyncQueue'[d][k] = theAsyncQueue[d][k]
       \/ /\ d = c /\ k = Len(theAsyncQueue[c]) + 1
          /\ theAsyncQueue'[d][k] = r
  /\ Len(theAsyncQueue[c]) + 1 \in Positions(c)'
  /\ theAsyncQueue'[c][Len(theAsyncQueue[c]) + 1] = r

LEMMA AppendedQueue ==
  ASSUME ShapeOK, NEW c \in Computers, NEW r \in Requests,
         theAsyncQueue' = [theAsyncQueue EXCEPT ![c] = Append(@, r)]
  PROVE  AppendedTo(c, r)
<1>1. theAsyncQueue \in [Computers -> Seq(Requests)]
  BY DEF ShapeOK, TypeOK
<1>2. PICK q \in Seq(Requests) : q = theAsyncQueue[c]
  BY <1>1
<1>3. theAsyncQueue'[c] = Append(q, r)
      /\ \A d \in Computers \ {c} : theAsyncQueue'[d] = theAsyncQueue[d]
  BY <1>1, <1>2
<1>4. /\ Len(q) \in Nat /\ Len(Append(q, r)) = Len(q) + 1
      /\ Append(q, r)[Len(q) + 1] = r
      /\ \A i \in 1..Len(q) : Append(q, r)[i] = q[i]
  BY AppendOne
<1>5. Positions(c)' = 1..Len(q) + 1 /\ Positions(c) = 1..Len(q)
      /\ \A d \in Computers \ {c} : Positions(d)' = Positions(d)
  BY <1>2, <1>3, <1>4 DEF Positions
<1>6. PICK n \in Nat : n = Len(q)
  BY <1>4
<1>7. \A k \in 1..n + 1 : k \in 1..n \/ k = n + 1
  OBVIOUS
<1>8. n + 1 \in 1..n + 1
  OBVIOUS
<1>9. QED
  BY <1>2, <1>3, <1>4, <1>5, <1>6, <1>7, <1>8 DEF AppendedTo

(* The other workflows do not see a request that is processed.  *)
LEMMA ForeignProcess ==
  ASSUME ShapeOK, wf' = wf, NEW c \in Computers, NEW r \in Requests, Process(c, r),
         NEW u \in Uuids, r.uuid # u
  PROVE  /\ QuietQueues(u, NoShift)
         /\ \A d \in Computers : \A f \in Functions(u) :
              theInvocations'[d][<<f, u>>] <= theInvocations[d][<<f, u>>]
<1>1. QuietQueues(u, NoShift)
  <2>1. CASE theAsyncQueue' = theAsyncQueue
    BY <2>1, SameQueues
  <2>2. CASE theAsyncQueue' = [theAsyncQueue EXCEPT ![c] = Append(@, r)]
    <3>1. \A d \in Computers : \A k \in Positions(d)' :
              \/ k \in Positions(d) /\ theAsyncQueue'[d][k] = theAsyncQueue[d][k]
              \/ theAsyncQueue'[d][k] = r
      <4>1. AppendedTo(c, r)
        BY <2>2, AppendedQueue
      <4>2. QED
        BY <4>1 DEF AppendedTo
    <3>2. QED
      BY <3>1, SamePlace DEF QuietQueues
  <2>3. QED
    BY <2>1, <2>2 DEF Process
<1>2. ASSUME NEW d \in Computers, NEW f \in Functions(u)
      PROVE  theInvocations'[d][<<f, u>>] <= theInvocations[d][<<f, u>>]
  <2>1. PICK h, g : h = <<r.index, r.uuid>> /\ g = <<f, u>>
    OBVIOUS
  <2>2. g \in Hashes /\ g # h /\ h \in Hashes
    BY <2>1, RequestFields DEF Hashes
  <2>3. theInvocations \in [Computers -> [Hashes -> Nat]]
    BY DEF ShapeOK, TypeOK
  <2>4. \/ theInvocations' = theInvocations
        \/ \E n : theInvocations' = [theInvocations EXCEPT
                                       ![c] = [theInvocations[c] EXCEPT ![h] = n]]
    BY <2>1, ProcessEffect DEF ShapeOK
  <2>5. theInvocations'[d][g] = theInvocations[d][g]
    BY <2>2, <2>3, <2>4
  <2>6. theInvocations[d][g] \in Nat
    BY <2>2, <2>3
  <2>7. QED
    BY <2>1, <2>5, <2>6
<1>3. QED
  BY <1>1, <1>2

(* One worker steps, and the step is quiet for u.  *)
LEMMA QuietOneWorker ==
  ASSUME ShapeOK, ShapeOK', NEW u, NEW w \in Workers, NEW new,
         worker' = [worker EXCEPT ![w] = new],
         \/ new.pc = "idle"
         \/ new.req.uuid # u
         \/ /\ Busy(w) /\ worker[w].req.uuid = u
            /\ new.req.index = worker[w].req.index
            /\ new.pc = "running" <=> worker[w].pc = "running"
            /\ worker[w].pc = "invoke" =>
                 /\ new.pc = "invoke"
                 /\ Len(new.functions) <= Len(worker[w].functions)
  PROVE  \A x \in Workers : QuietWorker(u, x)
<1>1. worker \in [Workers -> WorkerStates]
  BY DEF ShapeOK, TypeOK
<1>2. worker'[w] = new /\ \A x \in Workers \ {w} : worker'[x] = worker[x]
  BY <1>1
<1>3. QuietWorker(u, w)
  BY <1>2 DEF QuietWorker, Busy
<1>4. ASSUME NEW x \in Workers \ {w} PROVE QuietWorker(u, x)
  <2>1. worker[x].functions \in Seq(Nat)
    BY WorkerFields DEF ShapeOK
  <2>2. Len(worker[x].functions) <= Len(worker[x].functions)
    <3>1. PICK n : n = Len(worker[x].functions)
      OBVIOUS
    <3>2. n \in Nat
      BY <2>1, <3>1
    <3>3. QED
      BY <3>1, <3>2
  <2>3. worker'[x] = worker[x]
    BY <1>2
  <2>4. QED
    BY <2>2, <2>3 DEF QuietWorker, Busy
<1>5. QED
  BY <1>3, <1>4

LEMMA SameWorkers ==
  ASSUME ShapeOK, worker' = worker, NEW u
  PROVE  \A x \in Workers : QuietWorker(u, x)
<1> SUFFICES ASSUME NEW x \in Workers PROVE QuietWorker(u, x)
  OBVIOUS
<1>1. PICK n : n = Len(worker[x].functions)
  OBVIOUS
<1>2. worker[x].functions \in Seq(Nat)
  BY WorkerFields DEF ShapeOK
<1>3. n \in Nat
  BY <1>1, <1>2
<1>4. n <= n
  BY <1>3
<1>5. QED
  BY <1>1, <1>4 DEF QuietWorker, Busy

(* The steps of a worker that are quiet for every workflow.  *)
LEMMA QuietSteps ==
  ASSUME ShapeOK, ShapeOK', NEW w \in Workers, NEW u \in Uuids,
         \/ GetState(w) \/ PutState(w) \/ DelState(w) \/ GetStateFails(w)
         \/ CallThrows(w) \/ SendCallback(w) \/ LockCompanion(w) \/ InvokeRefused(w)
  PROVE  Quiet(u, NoShift)
<1>1. /\ wf' = wf /\ sent' = sent /\ theAsyncQueue' = theAsyncQueue
      /\ theInvocations' = theInvocations /\ executed' = executed
  BY DEF GetState, PutState, DelState, GetStateFails, CallThrows, SendCallback,
         LockCompanion, InvokeRefused
<1>2. TypeOK
  BY DEF ShapeOK
<1>3. \A x \in Workers : QuietWorker(u, x)
  <2>1. CASE worker' = [worker EXCEPT ![w] = Idle]
    <3>1. Idle.pc = "idle"
      BY DEF Idle
    <3>2. QED
      BY <2>1, <3>1, QuietOneWorker
  <2>2. CASE GetState(w)
    <3>1. PICK new : /\ worker' = [worker EXCEPT ![w] = new]
                     /\ new.pc = "put" /\ new.req = worker[w].req
      BY <1>2, <2>2, GetStateWorker
    <3>2. worker[w].pc = "get"
      BY <2>2 DEF GetState
    <3>3. QED
      BY <3>1, <3>2, QuietOneWorker DEF Busy
  <2>3. CASE PutState(w)
    <3>1. PICK new : /\ worker' = [worker EXCEPT ![w] = new]
                     /\ new.pc = "del" /\ new.req = worker[w].req
      BY <1>2, <2>3, PutStateWorker
    <3>2. worker[w].pc = "put"
      BY <2>3 DEF PutState
    <3>3. QED
      BY <3>1, <3>2, QuietOneWorker DEF Busy
  <2>4. CASE DelState(w)
    <3>1. PICK new : /\ worker' = [worker EXCEPT ![w] = new]
                     /\ new.pc \in {"finish", "get"}
                     /\ new.req.uuid = worker[w].req.uuid
                     /\ new.req.index = worker[w].req.index
      BY <1>2, <2>4, DelStateWorker
    <3>2. worker[w].pc = "del"
      BY <2>4 DEF DelState
    <3>3. QED
      BY <3>1, <3>2, QuietOneWorker DEF Busy
  <2>5. CASE LockCompanion(w)
    <3>1. CASE worker' # [worker EXCEPT ![w] = Idle]
      <4>1. PICK new : /\ worker' = [worker EXCEPT ![w] = new]
                       /\ new.pc = "invoke" /\ new.req = worker[w].req
        BY <1>2, <2>5, <3>1, LockCompanionWorker
      <4>2. worker[w].pc = "finish"
        BY <2>5 DEF LockCompanion
      <4>3. QED
        BY <4>1, <4>2, QuietOneWorker DEF Busy
    <3>2. QED
      BY <2>1, <3>1
  <2>6. CASE InvokeRefused(w)
    <3>1. CASE worker' # [worker EXCEPT ![w] = Idle]
      <4>1. worker[w].pc = "invoke" /\ Invoked(w) /\ Len(worker[w].functions) > 0
        BY <2>6 DEF InvokeRefused, ShapeOK, FunctionsLeft, Left
      <4>2. PICK new : /\ worker' = [worker EXCEPT ![w] = new]
                       /\ new.pc = "invoke" /\ new.req = worker[w].req
                       /\ new.functions = Tail(worker[w].functions)
        BY <1>2, <3>1, <4>1, InvokedWorker
      <4>3. PICK fs \in Seq(Nat) : fs = worker[w].functions
        BY <1>2, WorkerFields
      <4>4. fs # <<>>
        BY <4>1, <4>3, EmptyOne
      <4>5. Len(Tail(fs)) <= Len(fs)
        BY <4>3, <4>4, TailOne
      <4>6. QED
        BY <4>1, <4>2, <4>3, <4>5, QuietOneWorker DEF Busy
    <3>2. QED
      BY <2>1, <3>1
  <2>7. QED
    BY <2>1, <2>2, <2>3, <2>4, <2>5, <2>6
    DEF GetStateFails, CallThrows, SendCallback, Forget
<1>4. QED
  BY <1>1, <1>3, SameQueues, SameCounts DEF Quiet, NoShift

LEMMA QuietCrash ==
  ASSUME ShapeOK, ShapeOK', NEW w \in Workers, NEW u \in Uuids, NullCompanion(w)
  PROVE  Quiet(u, NoShift)
<1>1. wf' = wf /\ sent' = sent /\ executed' = executed
  BY DEF NullCompanion
<1>2. \A x \in Workers : QuietWorker(u, x)
  <2> SUFFICES ASSUME NEW x \in Workers PROVE QuietWorker(u, x)
    OBVIOUS
  <2>1. CASE worker'[x].pc = "idle"
    BY <2>1 DEF QuietWorker, Busy
  <2>2. CASE worker'[x] = worker[x]
    <3>1. PICK n : n = Len(worker[x].functions)
      OBVIOUS
    <3>2. worker[x].functions \in Seq(Nat)
      BY WorkerFields DEF ShapeOK
    <3>3. n <= n
      BY <3>1, <3>2
    <3>4. QED
      BY <2>2, <3>1, <3>3 DEF QuietWorker, Busy
  <2>3. QED
    BY <2>1, <2>2 DEF NullCompanion, Idle
<1>3. QuietQueues(u, NoShift)
  <2>1. \A d \in Computers : theAsyncQueue'[d] = <<>> \/ theAsyncQueue'[d] = theAsyncQueue[d]
    BY DEF NullCompanion, ShapeOK, TypeOK
  <2>2. ASSUME NEW d \in Computers, NEW k \in Positions(d)'
        PROVE  k \in Positions(d) /\ theAsyncQueue'[d][k] = theAsyncQueue[d][k]
    <3>1. CASE theAsyncQueue'[d] = <<>>
      <4>1. Positions(d)' = {}
        BY <3>1 DEF Positions
      <4>2. QED
        BY <2>2, <4>1
    <3>2. CASE theAsyncQueue'[d] = theAsyncQueue[d]
      BY <2>2, <3>2 DEF Positions
    <3>3. QED
      BY <2>1, <3>1, <3>2
  <2>3. QED
    BY <2>2, SamePlace DEF QuietQueues
<1>4. ASSUME NEW d \in Computers, NEW f \in Functions(u)
      PROVE  theInvocations'[d][<<f, u>>] <= theInvocations[d][<<f, u>>]
  <2>1. PICK g : g = <<f, u>>
    OBVIOUS
  <2>2. g \in Hashes
    BY <2>1 DEF Hashes
  <2>3. theInvocations \in [Computers -> [Hashes -> Nat]]
    BY DEF ShapeOK, TypeOK
  <2>4. theInvocations'[d][g] = 0 \/ theInvocations'[d][g] = theInvocations[d][g]
    BY <2>2, <2>3, WorkerComputer DEF NullCompanion
  <2>5. theInvocations[d][g] \in Nat
    BY <2>2, <2>3
  <2>6. QED
    BY <2>1, <2>4, <2>5
<1>5. QED
  BY <1>1, <1>2, <1>3, <1>4 DEF Quiet, NoShift

LEMMA QuietOther ==
  ASSUME ShapeOK, ShapeOK', NEW u \in Uuids,
         UNCHANGED <<wf, sent, theAsyncQueue, theInvocations, worker, executed>>
  PROVE  Quiet(u, NoShift)
BY SameWorkers, SameQueues, SameCounts DEF Quiet, NoShift

-----------------------------------------------------------------------------
(* A worker pops the first request of the queue.  *)
LEMMA PoppedQueue ==
  ASSUME ShapeOK, NEW w \in Workers, PopRequest(w), NEW u
  PROVE  /\ QuietQueues(u, [d \in Computers |-> IF d = w[1] THEN 1 ELSE 0])
         /\ 1 \in Positions(w[1])
         /\ theAsyncQueue[w[1]][1] = Head(theAsyncQueue[w[1]])
<1> DEFINE c == w[1]
           shift == [d \in Computers |-> IF d = c THEN 1 ELSE 0]
<1>1. /\ theAsyncQueue \in [Computers -> Seq(Requests)] /\ c \in Computers
      /\ theAsyncQueue[c] # <<>>
      /\ theAsyncQueue' = [theAsyncQueue EXCEPT ![c] = Tail(theAsyncQueue[c])]
  BY WorkerComputer DEF ShapeOK, TypeOK, PopRequest
<1>2. PICK q \in Seq(Requests) : q = theAsyncQueue[c]
  BY <1>1
<1>3. /\ Head(q) = q[1] /\ Len(q) \in Nat \ {0} /\ Len(Tail(q)) = Len(q) - 1
      /\ \A i \in 1..Len(q) - 1 : Tail(q)[i] = q[i + 1]
  BY <1>1, <1>2, TailOne
<1>4. theAsyncQueue'[c] = Tail(q)
      /\ \A d \in Computers \ {c} : theAsyncQueue'[d] = theAsyncQueue[d]
  BY <1>1, <1>2
<1>5. Positions(c)' = 1..Len(q) - 1 /\ Positions(c) = 1..Len(q)
  BY <1>2, <1>3, <1>4 DEF Positions
<1>6. ASSUME NEW d \in Computers, NEW k \in Positions(d)'
      PROVE  /\ k + shift[d] \in Positions(d)
             /\ theAsyncQueue'[d][k] = theAsyncQueue[d][k + shift[d]]
  <2>1. CASE d = c
    <3>1. k \in 1..Len(q) - 1 /\ shift[d] = 1
      BY <1>1, <1>5, <1>6, <2>1
    <3>2. k + 1 \in 1..Len(q)
      BY <1>3, <3>1
    <3>3. QED
      BY <1>2, <1>3, <1>4, <1>5, <2>1, <3>1, <3>2
  <2>2. CASE d # c
    <3>1. theAsyncQueue'[d] = theAsyncQueue[d] /\ shift[d] = 0
      BY <1>4, <2>2
    <3>2. k \in Positions(d) /\ k \in Int
      BY <1>6, <3>1 DEF Positions
    <3>3. k + 0 = k
      BY <3>2
    <3>4. QED
      BY <3>1, <3>2, <3>3
  <2>3. QED
    BY <2>1, <2>2
<1>7. 1 \in Positions(c)
  BY <1>3, <1>5
<1>8. QED
  BY <1>2, <1>3, <1>6, <1>7 DEF QuietQueues

LEMMA PopRequestTokens ==
  ASSUME ShapeOK, ShapeOK', NEW w \in Workers, PopRequest(w),
         NEW u \in Uuids, TokensInv(u)
  PROVE  TokensInv(u)'
<1>1. PICK new \in WorkerStates :
        /\ worker' = [worker EXCEPT ![w] = new]
        /\ new.pc = "running" /\ new.req = Head(theAsyncQueue[w[1]])
        /\ new.req \in Requests
  BY PopRequestWorker DEF ShapeOK
<1>2. /\ wf' = wf /\ sent' = sent /\ executed' = executed /\ callbacks' = callbacks
      /\ theInvocations' = theInvocations /\ worker[w].pc = "idle"
  BY DEF PopRequest
<1>3. PICK shift \in [Computers -> Nat] :
        shift = [d \in Computers |-> IF d = w[1] THEN 1 ELSE 0]
  OBVIOUS
<1>4. QuietQueues(u, shift)
  BY <1>3, PoppedQueue
<1>5. CASE new.req.uuid # u
  <2>1. Quiet(u, shift)
    BY <1>1, <1>2, <1>4, <1>5, QuietOneWorker, SameCounts DEF Quiet
  <2>2. QED
    BY <1>2, <2>1, QuietInv
<1>6. CASE new.req.uuid = u
  <2>1. PICK c, p, r : /\ c = w[1] /\ r = new.req /\ p = r.index
                       /\ c \in Computers /\ p \in Functions(u) /\ r \in Requests
    BY <1>1, <1>6, RequestFields, WorkerComputer
  <2>2. 1 \in Positions(c) /\ theAsyncQueue[c][1] = r /\ r.uuid = u
    BY <1>1, <1>6, <2>1, PoppedQueue
  <2>3. Queued(u, p) /\ executed[u][p] = 0
    <3>1. Queued(u, p)
      BY <2>1, <2>2 DEF Queued
    <3>2. QED
      BY <2>1, <3>1 DEF TokensInv, TokensExecuted
  <2>4. /\ worker'[w] = new
        /\ \A x \in Workers \ {w} : worker'[x] = worker[x]
    BY <1>1 DEF ShapeOK, TypeOK
  <2>5. \A f : Queued(u, f)' => Queued(u, f)
    BY <1>3, <1>4 DEF Queued, QuietQueues
  <2>6. \A f : Working(u, f)' => Working(u, f) \/ f = p
    BY <2>1, <2>4 DEF Working, Busy
  <2>7. /\ \A f, v : Invocations(v, f)' = Invocations(v, f)
        /\ \A v : /\ IsChainOf(v)' = IsChainOf(v) /\ Functions(v)' = Functions(v)
                  /\ Last(v)' = Last(v)
        /\ \A r1, r2 : Rivals(r1, r2)' <=> Rivals(r1, r2)
    BY <1>2, SameInvocations DEF Rivals
  <2>8. \A x \in Workers \ {w} : Busy(x)' <=> Busy(x)
    BY <2>4 DEF Busy
  <2>9. ~IsChainOf(u) => \A f : \A e \in Invocations(u, f) : Gone(u, e) => Gone(u, e)'
    <3> SUFFICES ASSUME ~IsChainOf(u), NEW e, Gone(u, e) PROVE Gone(u, e)'
      OBVIOUS
    <3>1. executed'[u][e[1]] > 0 /\ e[1] # p
      BY <1>2, <2>3 DEF Gone
    <3>2. ~Holds(w, u, e)'
      BY <2>1, <2>4, <3>1 DEF Holds
    <3>3. \A x \in Workers \ {w} : Holds(x, u, e)' <=> Holds(x, u, e)
      BY <1>2, <2>4, SameInvocations DEF Holds, Busy
    <3>4. QED
      BY <3>1, <3>2, <3>3 DEF Gone
  <2>10. UniqueTokens(u)'
    <3>1. \A d \in Computers : \A k \in Positions(d)' :
            theAsyncQueue'[d][k].uuid = u => ~Rivals(theAsyncQueue'[d][k], r)
      <4> SUFFICES ASSUME NEW d \in Computers, NEW k \in Positions(d)',
                          theAsyncQueue'[d][k].uuid = u,
                          Rivals(theAsyncQueue'[d][k], r)
                   PROVE  FALSE
        OBVIOUS
      <4>1. /\ k + shift[d] \in Positions(d)
            /\ theAsyncQueue'[d][k] = theAsyncQueue[d][k + shift[d]]
        BY <1>4 DEF QuietQueues
      <4>2. d = c /\ k + shift[d] = 1
        BY <2>1, <2>2, <4>1 DEF TokensInv, UniqueTokens
      <4>3. k \in 1..Len(theAsyncQueue'[d])
        BY DEF Positions
      <4>4. QED
        BY <1>3, <2>1, <4>2, <4>3
    <3>2. \A x \in Workers \ {w} : Busy(x) => ~Rivals(r, worker[x].req)
      BY <2>1, <2>2 DEF TokensInv, UniqueTokens
    <3>3. \A d, e \in Computers : \A j \in Positions(d)', k \in Positions(e)' :
            /\ theAsyncQueue'[d][j].uuid = u
            /\ Rivals(theAsyncQueue'[d][j], theAsyncQueue'[e][k])
            => d = e /\ j = k
      <4> SUFFICES ASSUME NEW d \in Computers, NEW e \in Computers,
                          NEW j \in Positions(d)', NEW k \in Positions(e)',
                          theAsyncQueue'[d][j].uuid = u,
                          Rivals(theAsyncQueue'[d][j], theAsyncQueue'[e][k])
                   PROVE  d = e /\ j = k
        OBVIOUS
      <4>1. theAsyncQueue'[e][k].uuid = u
        BY DEF Rivals
      <4>2. /\ j + shift[d] \in Positions(d) /\ k + shift[e] \in Positions(e)
            /\ theAsyncQueue'[d][j] = theAsyncQueue[d][j + shift[d]]
            /\ theAsyncQueue'[e][k] = theAsyncQueue[e][k + shift[e]]
        BY <1>4, <4>1 DEF QuietQueues
      <4>3. d = e /\ j + shift[d] = k + shift[e]
        BY <4>2 DEF TokensInv, UniqueTokens
      <4>4. Positions(d)' \subseteq Int /\ Positions(e)' \subseteq Int
        BY DEF Positions
      <4>5. PICK n : n = shift[d]
        OBVIOUS
      <4>6. n \in Int /\ j + n = k + n /\ j \in Int /\ k \in Int
        BY <4>3, <4>4, <4>5
      <4>7. j = k
        BY <4>6
      <4>8. QED
        BY <4>3, <4>7
    <3>4. \A d \in Computers : \A j \in Positions(d)' : \A x \in Workers :
            theAsyncQueue'[d][j].uuid = u /\ Busy(x)'
            => ~Rivals(theAsyncQueue'[d][j], worker'[x].req)
      <4> SUFFICES ASSUME NEW d \in Computers, NEW j \in Positions(d)', NEW x \in Workers,
                          theAsyncQueue'[d][j].uuid = u, Busy(x)'
                   PROVE  ~Rivals(theAsyncQueue'[d][j], worker'[x].req)
        OBVIOUS
      <4>1. CASE x = w
        BY <2>1, <2>4, <3>1, <4>1
      <4>2. CASE x # w
        <5>1. /\ j + shift[d] \in Positions(d)
              /\ theAsyncQueue'[d][j] = theAsyncQueue[d][j + shift[d]]
          BY <1>4 DEF QuietQueues
        <5>2. worker'[x] = worker[x] /\ Busy(x)
          BY <2>4, <2>8, <4>2
        <5>3. QED
          BY <5>1, <5>2 DEF TokensInv, UniqueTokens
      <4>3. QED
        BY <4>1, <4>2
    <3>5. \A y, x \in Workers :
            /\ Busy(y)' /\ Busy(x)'
            /\ worker'[y].req.uuid = u
            /\ Rivals(worker'[y].req, worker'[x].req)
            => y = x
      <4> SUFFICES ASSUME NEW y \in Workers, NEW x \in Workers, Busy(y)', Busy(x)',
                          worker'[y].req.uuid = u,
                          Rivals(worker'[y].req, worker'[x].req), y # x
                   PROVE  FALSE
        OBVIOUS
      <4>1. CASE y = w
        BY <2>1, <2>4, <2>8, <3>2, <4>1
      <4>2. CASE x = w
        <5>1. Rivals(r, worker[y].req)
          BY <2>1, <2>2, <2>4, <4>2 DEF Rivals
        <5>2. QED
          BY <2>8, <3>2, <4>2, <5>1
      <4>3. CASE x # w /\ y # w
        BY <2>4, <2>8, <4>3 DEF TokensInv, UniqueTokens
      <4>4. QED
        BY <4>1, <4>2, <4>3
    <3>6. QED
      BY <2>7, <3>3, <3>4, <3>5 DEF UniqueTokens
  <2>11. TokensExecuted(u)'
    <3>1. \A x \in Workers : Busy(x)' /\ worker'[x].req.uuid = u =>
            executed'[u][worker'[x].req.index]
              = IF worker'[x].pc = "running" THEN 0 ELSE 1
      BY <1>1, <1>2, <2>1, <2>3, <2>4, <2>8 DEF TokensInv, TokensExecuted
    <3>2. QED
      BY <1>2, <2>5, <2>7, <3>1 DEF TokensInv, TokensExecuted
  <2>12. ChainInOrder(u)'
    BY <1>2, <2>3, <2>5, <2>6, <2>7 DEF TokensInv, ChainInOrder
  <2>13. NotStarted(u)'
    BY <1>2, <2>1, <2>3 DEF TokensInv, NotStarted
  <2>14. JoinOnce(u)'
    BY <1>2, <2>3, <2>5, <2>6, <2>7, <2>9 DEF TokensInv, JoinOnce
  <2>15. CountsGone(u)'
    <3>1. CASE IsChainOf(u)
      BY <2>7, <3>1 DEF CountsGone
    <3>2. CASE ~IsChainOf(u)
      BY <1>2, <2>9, <3>2, CountsBelow, SameCounts DEF TokensInv
    <3>3. QED
      BY <3>1, <3>2
  <2>16. CalledBack(u)'
    BY <1>2, <2>1, <2>3, <2>5, <2>6, <2>7 DEF TokensInv, CalledBack
  <2>17. QED
    BY <2>10, <2>11, <2>12, <2>13, <2>14, <2>15, <2>16 DEF TokensInv
<1>7. QED
  BY <1>5, <1>6

(* A worker executes the function of its token.  *)
LEMMA ExecuteTokens ==
  ASSUME ShapeOK, ShapeOK', NEW w \in Workers, Execute(w),
         NEW u \in Uuids, TokensInv(u)
  PROVE  TokensInv(u)'
<1>1. PICK new \in WorkerStates :
        /\ worker' = [worker EXCEPT ![w] = new]
        /\ new.pc \in {"finish", "get"} /\ new.req = worker[w].req
  BY ExecuteWorker DEF ShapeOK
<1>2. PICK v, p : v = worker[w].req.uuid /\ p = worker[w].req.index
  OBVIOUS
<1>3. /\ wf' = wf /\ sent' = sent /\ callbacks' = callbacks
      /\ theInvocations' = theInvocations /\ theAsyncQueue' = theAsyncQueue
      /\ worker[w].pc = "running" /\ Busy(w)
      /\ executed' = [executed EXCEPT ![v][p] = @ + 1]
  BY <1>2 DEF Execute, Busy
<1>4. v \in Uuids /\ p \in Functions(v)
  BY <1>2, <1>3, WorkerFields, RequestFields DEF ShapeOK, Busy
<1>5. /\ \A x \in Uuids \ {v} : executed'[x] = executed[x]
      /\ executed'[v] = [executed[v] EXCEPT ![p] = executed[v][p] + 1]
  BY <1>3, <1>4, ExecutedTyped DEF ShapeOK
<1>6. QuietQueues(u, NoShift) /\ NoShift \in [Computers -> Nat]
  BY <1>3, SameQueues DEF NoShift
<1>7. CASE v # u
  <2>1. Quiet(u, NoShift)
    BY <1>1, <1>2, <1>3, <1>5, <1>6, <1>7, QuietOneWorker, SameCounts DEF Quiet
  <2>2. QED
    BY <1>3, <2>1, QuietInv
<1>8. CASE v = u
  <2>1. Working(u, p) /\ executed[u][p] = 0
    BY <1>2, <1>3, <1>8 DEF TokensInv, TokensExecuted, Working
  <2>2. executed[u] \in [Functions(u) -> Nat]
    BY DEF ShapeOK, TypeOK
  <2>3. /\ executed'[u][p] = 1
        /\ \A f \in Functions(u) \ {p} : executed'[u][f] = executed[u][f]
        /\ \A f \in Functions(u) : executed[u][f] > 0 => executed'[u][f] > 0
    BY <1>4, <1>5, <1>8, <2>1, <2>2
  <2>4. /\ worker'[w] = new
        /\ \A x \in Workers \ {w} : worker'[x] = worker[x]
    BY <1>1 DEF ShapeOK, TypeOK
  <2>5. /\ \A f, x : Invocations(x, f)' = Invocations(x, f)
        /\ \A x : /\ IsChainOf(x)' = IsChainOf(x) /\ Functions(x)' = Functions(x)
                  /\ Last(x)' = Last(x)
    BY <1>3, SameInvocations
  <2>6. \A x \in Workers : KeepsToken(u, x)
    BY <1>1, <1>3, <2>4 DEF KeepsToken, Busy
  <2>7. /\ \A f : (Queued(u, f)' <=> Queued(u, f)) /\ (Working(u, f)' => Working(u, f))
    BY <1>3, <2>6 DEF Queued, Working, KeepsToken, Positions
  <2>8. ~Queued(u, p) /\ (IsChainOf(u) => \A f : ~Queued(u, f))
    BY <1>2, <1>3, <1>8 DEF TokensInv, UniqueTokens, Queued, Rivals
  <2>9. \A x \in Workers \ {w} : Busy(x) /\ worker[x].req.uuid = u =>
          worker[x].req.index # p /\ ~IsChainOf(u)
    BY <1>2, <1>3, <1>8 DEF TokensInv, UniqueTokens, Rivals
  <2>10. ~IsChainOf(u) => \A f : \A e \in Invocations(u, f) : Gone(u, e) => Gone(u, e)'
    <3> SUFFICES ASSUME ~IsChainOf(u), NEW f, NEW e \in Invocations(u, f), Gone(u, e)
                 PROVE  Gone(u, e)'
      OBVIOUS
    <3>1. e[1] \in Functions(u) /\ executed[u][e[1]] > 0 /\ e[1] # p
      BY <2>1, InvocationsFinite DEF Gone, ShapeOK
    <3>2. ~Holds(w, u, e)'
      BY <1>1, <1>2, <2>4, <3>1 DEF Holds
    <3>3. \A x \in Workers \ {w} : Holds(x, u, e)' <=> Holds(x, u, e)
      BY <1>3, <2>4, SameInvocations DEF Holds, Busy
    <3>4. QED
      BY <2>3, <3>1, <3>2, <3>3 DEF Gone
  <2>11. UniqueTokens(u)'
    BY <1>3, <1>6, <2>6, UniqueKept DEF TokensInv
  <2>12. TokensExecuted(u)'
    <3>1. \A f \in Functions(u) : executed'[u][f] <= 1
      BY <2>3 DEF TokensInv, TokensExecuted
    <3>2. \A f \in Functions(u) : Queued(u, f)' => executed'[u][f] = 0
      BY <2>3, <2>7, <2>8 DEF TokensInv, TokensExecuted
    <3>3. ASSUME NEW x \in Workers, Busy(x)', worker'[x].req.uuid = u
          PROVE  executed'[u][worker'[x].req.index]
                   = IF worker'[x].pc = "running" THEN 0 ELSE 1
      <4>1. CASE x = w
        BY <1>1, <1>2, <2>3, <2>4, <4>1
      <4>2. CASE x # w
        <5>1. worker'[x] = worker[x] /\ Busy(x) /\ worker[x].req.uuid = u
          BY <2>4, <3>3, <4>2 DEF Busy
        <5>2. worker[x].req.index \in Functions(u) \ {p}
          BY <2>9, <4>2, <5>1, WorkerFields, RequestFields DEF ShapeOK, Busy
        <5>3. QED
          BY <2>3, <5>1, <5>2 DEF TokensInv, TokensExecuted
      <4>3. QED
        BY <4>1, <4>2
    <3>4. QED
      BY <2>5, <3>1, <3>2, <3>3 DEF TokensExecuted
  <2>13. ChainInOrder(u)'
    <3> SUFFICES ASSUME IsChainOf(u)
                 PROVE  /\ \A f, g \in Functions(u) :
                             f < g /\ executed'[u][g] > 0 => executed'[u][f] > 0
                        /\ \A f \in Functions(u) : Queued(u, f)' \/ Working(u, f)' =>
                             \A g \in Functions(u) : /\ g < f => executed'[u][g] > 0
                                                     /\ g > f => executed'[u][g] = 0
      BY <2>5 DEF ChainInOrder
    <3>1. \A f : Working(u, f) => f = p
      BY <1>2, <2>9 DEF Working
    <3>2. \A g \in Functions(u) : /\ g < p => executed[u][g] > 0
                                  /\ g > p => executed[u][g] = 0
      BY <1>4, <1>8, <2>1 DEF TokensInv, ChainInOrder
    <3>3. Functions(u) \subseteq Int
      BY WorkflowFacts DEF ShapeOK
    <3>4. \A f, g \in Functions(u) :
            f < g /\ executed'[u][g] > 0 => executed'[u][f] > 0
      BY <1>4, <1>8, <2>3, <3>2 DEF TokensInv, ChainInOrder
    <3>5. QED
      BY <1>4, <1>8, <2>3, <2>7, <2>8, <3>1, <3>2, <3>3, <3>4
  <2>14. NotStarted(u)'
    BY <1>3, <1>4, <1>8, <2>1 DEF TokensInv, NotStarted
  <2>15. JoinOnce(u)'
    BY <2>1, <2>3, <2>5, <2>7, <2>10 DEF TokensInv, JoinOnce
  <2>16. CountsGone(u)'
    <3>1. CASE IsChainOf(u)
      BY <2>5, <3>1 DEF CountsGone
    <3>2. CASE ~IsChainOf(u)
      BY <1>3, <2>10, <3>2, CountsBelow, SameCounts DEF TokensInv
    <3>3. QED
      BY <3>1, <3>2
  <2>17. CalledBack(u)'
    <3>1. Last(u) \in Functions(u)
      BY WorkflowFacts DEF ShapeOK
    <3>2. QED
      BY <1>3, <2>3, <2>5, <2>7, <3>1 DEF TokensInv, CalledBack
  <2>18. QED
    BY <2>11, <2>12, <2>13, <2>14, <2>15, <2>16, <2>17 DEF TokensInv
<1>9. QED
  BY <1>7, <1>8

(* A request is queued that has no rival: its token is unique.  *)
LEMMA UniqueAdded ==
  ASSUME ShapeOK, wf' = wf, NEW u \in Uuids, NEW c \in Computers,
         NEW r \in Requests, r.uuid = u,
         theAsyncQueue' = [theAsyncQueue EXCEPT ![c] = Append(@, r)],
         \A w \in Workers : KeepsToken(u, w),
         \A d \in Computers : \A k \in Positions(d) : ~Rivals(r, theAsyncQueue[d][k]),
         \A w \in Workers : Busy(w)' => ~Rivals(r, worker'[w].req),
         UniqueTokens(u)
  PROVE  UniqueTokens(u)'
<1>0. \A q, s : Rivals(q, s)' <=> Rivals(q, s)
  BY SameInvocations DEF Rivals
<1>1. \A d \in Computers : \A k \in Positions(d)' :
        \/ k \in Positions(d) /\ theAsyncQueue'[d][k] = theAsyncQueue[d][k]
        \/ /\ d = c /\ k = Len(theAsyncQueue[c]) + 1
           /\ theAsyncQueue'[d][k] = r
  <2>1. AppendedTo(c, r)
    BY AppendedQueue
  <2>2. QED
    BY <2>1 DEF AppendedTo
<1>2. \A d, e \in Computers : \A j \in Positions(d)', k \in Positions(e)' :
        /\ theAsyncQueue'[d][j].uuid = u
        /\ Rivals(theAsyncQueue[d][j], theAsyncQueue[e][k])'
        => d = e /\ j = k
  <2> TAKE d, e \in Computers
  <2> TAKE j \in Positions(d)', k \in Positions(e)'
  <2> HAVE /\ theAsyncQueue'[d][j].uuid = u
           /\ Rivals(theAsyncQueue[d][j], theAsyncQueue[e][k])'
  <2>0. Rivals(theAsyncQueue'[d][j], theAsyncQueue'[e][k])
    BY SameInvocations DEF Rivals
  <2>1. CASE /\ j \in Positions(d) /\ theAsyncQueue'[d][j] = theAsyncQueue[d][j]
             /\ k \in Positions(e) /\ theAsyncQueue'[e][k] = theAsyncQueue[e][k]
    <3>1. /\ theAsyncQueue[d][j].uuid = u
          /\ Rivals(theAsyncQueue[d][j], theAsyncQueue[e][k])
      BY <2>0, <2>1
    <3>2. \A q, s \in Computers : \A m \in Positions(q), n \in Positions(s) :
            /\ theAsyncQueue[q][m].uuid = u
            /\ Rivals(theAsyncQueue[q][m], theAsyncQueue[s][n])
            => q = s /\ m = n
      BY DEF UniqueTokens
    <3>3. QED
      BY <2>1, <3>1, <3>2
  <2>2. CASE theAsyncQueue'[d][j] = r /\ k \in Positions(e)
             /\ theAsyncQueue'[e][k] = theAsyncQueue[e][k]
    BY <2>0, <2>2
  <2>3. CASE theAsyncQueue'[e][k] = r /\ j \in Positions(d)
             /\ theAsyncQueue'[d][j] = theAsyncQueue[d][j]
    <3>1. Rivals(r, theAsyncQueue[d][j])
      BY <2>0, <2>3 DEF Rivals
    <3>2. QED
      BY <2>3, <3>1
  <2>4. PICK n : n = Len(theAsyncQueue[c]) + 1
    OBVIOUS
  <2>5. /\ \/ j \in Positions(d) /\ theAsyncQueue'[d][j] = theAsyncQueue[d][j]
           \/ d = c /\ j = n /\ theAsyncQueue'[d][j] = r
        /\ \/ k \in Positions(e) /\ theAsyncQueue'[e][k] = theAsyncQueue[e][k]
           \/ e = c /\ k = n /\ theAsyncQueue'[e][k] = r
    BY <1>1, <2>4
  <2>6. QED
    BY <2>1, <2>2, <2>3, <2>5
<1>3. \A d \in Computers : \A j \in Positions(d)' : \A w \in Workers :
        theAsyncQueue'[d][j].uuid = u /\ Busy(w)'
        => ~Rivals(theAsyncQueue'[d][j], worker'[w].req)
  <2> SUFFICES ASSUME NEW d \in Computers, NEW j \in Positions(d)', NEW w \in Workers,
                      theAsyncQueue'[d][j].uuid = u, Busy(w)',
                      Rivals(theAsyncQueue'[d][j], worker'[w].req),
                      j \in Positions(d) /\ theAsyncQueue'[d][j] = theAsyncQueue[d][j]
               PROVE  FALSE
    BY <1>1
  <2>1. /\ Busy(w) /\ worker[w].req.uuid = u
        /\ worker'[w].req.index = worker[w].req.index /\ worker'[w].req.uuid = u
    BY DEF KeepsToken, Rivals
  <2>2. Rivals(theAsyncQueue[d][j], worker[w].req)
    BY <2>1 DEF Rivals
  <2>3. QED
    BY <2>1, <2>2 DEF UniqueTokens
<1>4. \A w, x \in Workers :
        /\ Busy(w)' /\ Busy(x)'
        /\ worker'[w].req.uuid = u
        /\ Rivals(worker'[w].req, worker'[x].req)
        => w = x
  <2> SUFFICES ASSUME NEW w \in Workers, NEW x \in Workers, Busy(w)', Busy(x)',
                      worker'[w].req.uuid = u,
                      Rivals(worker'[w].req, worker'[x].req)
               PROVE  w = x
    OBVIOUS
  <2>1. /\ Busy(w) /\ worker[w].req.uuid = u /\ Busy(x) /\ worker[x].req.uuid = u
        /\ worker'[w].req.index = worker[w].req.index
        /\ worker'[x].req.index = worker[x].req.index
        /\ worker'[x].req.uuid = u
    BY DEF KeepsToken, Rivals
  <2>2. Rivals(worker[w].req, worker[x].req)
    BY <2>1 DEF Rivals
  <2>3. QED
    BY <2>1, <2>2 DEF UniqueTokens
<1>5. QED
  <2>1. \A d \in Computers : \A j \in Positions(d)' : \A w \in Workers :
          theAsyncQueue'[d][j].uuid = u /\ Busy(w)'
          => ~Rivals(theAsyncQueue[d][j], worker[w].req)'
    BY <1>0, <1>3
  <2>2. \A w, x \in Workers :
          /\ Busy(w)' /\ Busy(x)'
          /\ worker'[w].req.uuid = u
          /\ Rivals(worker[w].req, worker[x].req)'
          => w = x
    BY <1>0, <1>4
  <2>3. QED
    BY <1>2, <2>1, <2>2 DEF UniqueTokens

(* The client starts a workflow: its first function has the only token.  *)
LEMMA SendTokens ==
  ASSUME ShapeOK, ShapeOK', NEW v \in Uuids, Send(v),
         NEW u \in Uuids, TokensInv(u)
  PROVE  TokensInv(u)'
<1>1. /\ wf' = wf /\ sent' = sent \cup {v} /\ callbacks' = callbacks
      /\ executed' = executed /\ worker' = worker /\ v \notin sent
  BY DEF Send
<1>2. PICK r \in Requests : /\ r = FirstRequest(v) /\ r.uuid = v /\ r.index = 0
  BY FirstRequestTyped DEF ShapeOK
<1>3. PICK c \in Computers : Process(c, r)
  <2>1. wf[v].names[0] \in Names
    BY WorkflowFacts DEF ShapeOK
  <2>2. QED
    BY <1>2, <2>1, WorkflowAssumption DEF Send
<1>4. CASE v # u
  <2>1. Quiet(u, NoShift)
    BY <1>1, <1>2, <1>3, <1>4, ForeignProcess, SameWorkers DEF Quiet, NoShift
  <2>2. QED
    BY <1>1, <2>1, QuietInv
<1>5. CASE v = u
  <2>1. /\ theAsyncQueue' = [theAsyncQueue EXCEPT ![c] = Append(@, r)]
        /\ theInvocations' = theInvocations
    BY <1>2, <1>3 DEF Process, NoPreconditions
  <2>2. \A f \in Functions(u) : executed[u][f] = 0 /\ ~Queued(u, f) /\ ~Working(u, f)
    BY <1>1, <1>5 DEF TokensInv, NotStarted
  <2>3. /\ \A f, x : Invocations(x, f)' = Invocations(x, f)
        /\ \A x : /\ IsChainOf(x)' = IsChainOf(x) /\ Functions(x)' = Functions(x)
                  /\ Last(x)' = Last(x)
    BY <1>1, SameInvocations
  <2>4. \A d \in Computers : \A k \in Positions(d) : theAsyncQueue[d][k].uuid # u
    <3> SUFFICES ASSUME NEW d \in Computers, NEW k \in Positions(d),
                        theAsyncQueue[d][k].uuid = u
                 PROVE  FALSE
      OBVIOUS
    <3>1. theAsyncQueue[d][k] \in Requests
      BY DEF ShapeOK, TypeOK, Positions
    <3>2. theAsyncQueue[d][k].index \in Functions(u)
      BY <3>1, RequestFields
    <3>3. QED
      BY <2>2, <3>2 DEF Queued
  <2>5. \A x \in Workers : Busy(x) => worker[x].req.uuid # u
    <3> SUFFICES ASSUME NEW x \in Workers, Busy(x), worker[x].req.uuid = u
                 PROVE  FALSE
      OBVIOUS
    <3>1. worker[x].req.index \in Functions(u)
      BY WorkerFields, RequestFields DEF ShapeOK, Busy
    <3>2. QED
      BY <2>2, <3>1 DEF Working
  <2>6. \A f : (Queued(u, f)' => f = 0) /\ ~Working(u, f)'
    <3>1. \A d \in Computers : \A k \in Positions(d)' :
            theAsyncQueue'[d][k].uuid = u => theAsyncQueue'[d][k].index = 0
      <4>1. \A d \in Computers : \A k \in Positions(d)' :
              \/ k \in Positions(d) /\ theAsyncQueue'[d][k] = theAsyncQueue[d][k]
              \/ theAsyncQueue'[d][k] = r
        <5>1. AppendedTo(c, r)
          BY <2>1, AppendedQueue
        <5>2. QED
          BY <5>1 DEF AppendedTo
      <4>2. QED
        BY <1>2, <2>4, <4>1
    <3>2. QED
      BY <1>1, <2>5, <3>1 DEF Queued, Working, Busy
  <2>7. UniqueTokens(u)'
    <3>1. \A x \in Workers : KeepsToken(u, x)
      BY <1>1 DEF KeepsToken, Busy
    <3>2. \A d \in Computers : \A k \in Positions(d) : ~Rivals(r, theAsyncQueue[d][k])
      BY <1>2, <1>5, <2>4 DEF Rivals
    <3>3. \A x \in Workers : Busy(x)' => ~Rivals(r, worker'[x].req)
      BY <1>1, <1>2, <1>5, <2>5 DEF Rivals, Busy
    <3>4. QED
      BY <1>1, <1>2, <1>5, <2>1, <3>1, <3>2, <3>3, UniqueAdded DEF TokensInv
  <2>8. TokensExecuted(u)'
    BY <1>1, <2>2, <2>3, <2>5, <2>6 DEF TokensExecuted, Busy
  <2>9. ChainInOrder(u)'
    <3>1. Functions(u) = 0..Last(u) /\ Last(u) \in Nat
      BY WorkflowFacts DEF ShapeOK
    <3>2. QED
      BY <1>1, <2>2, <2>3, <2>6, <3>1 DEF ChainInOrder
  <2>10. NotStarted(u)'
    BY <1>1, <1>5 DEF NotStarted
  <2>11. JoinOnce(u)'
    BY <1>1, <2>2, <2>3, <2>6 DEF JoinOnce
  <2>12. CountsGone(u)'
    <3>1. CASE IsChainOf(u)
      BY <2>3, <3>1 DEF CountsGone
    <3>2. CASE ~IsChainOf(u)
      <4>1. \A e : Gone(u, e) => Gone(u, e)'
        BY <1>1, SameInvocations DEF Gone, Holds, Busy
      <4>2. QED
        BY <1>1, <2>1, <3>2, <4>1, CountsBelow, SameCounts DEF TokensInv
    <3>3. QED
      BY <3>1, <3>2
  <2>13. CalledBack(u)'
    <3>1. Last(u) \in Functions(u)
      BY WorkflowFacts DEF ShapeOK
    <3>2. callbacks[u] = <<>>
      BY <2>2, <3>1 DEF TokensInv, CalledBack
    <3>3. QED
      BY <1>1, <3>2 DEF TokensInv, CalledBack
  <2>14. QED
    BY <2>7, <2>8, <2>9, <2>10, <2>11, <2>12, <2>13 DEF TokensInv
<1>6. QED
  BY <1>4, <1>5

(* The last function calls back.  *)
LEMMA SendCallbackTokens ==
  ASSUME ShapeOK, ShapeOK', NEW w \in Workers, SendCallback(w),
         NEW u \in Uuids, TokensInv(u)
  PROVE  TokensInv(u)'
<1>1. Quiet(u, NoShift)
  BY QuietSteps
<1>2. TokensCore(u)'
  BY <1>1, QuietCore DEF TokensInv, TokensCore
<1>3. PICK v, r : v = r.uuid /\ r = worker[w].req
  OBVIOUS
<1>4. /\ callbacks' = [callbacks EXCEPT ![v] = Append(@, r.location)]
      /\ worker[w].pc = "finish" /\ Busy(w) /\ r.index = Last(v)
      /\ worker' = [worker EXCEPT ![w] = Idle] /\ wf' = wf
      /\ executed' = executed /\ theAsyncQueue' = theAsyncQueue
  BY <1>3 DEF SendCallback, ReceiveResponse, LastFunction, Last, Forget, Busy
<1>5. callbacks \in [Uuids -> Seq([States -> Locations])]
  BY DEF ShapeOK, TypeOK
<1>6. CASE v # u
  <2>1. callbacks'[u] = callbacks[u]
    BY <1>4, <1>5, <1>6
  <2>2. QED
    BY <1>1, <2>1, QuietInv
<1>7. CASE v = u
  <2>1. Working(u, Last(u)) /\ executed[u][Last(u)] = 1
    BY <1>3, <1>4, <1>7 DEF Working, TokensInv, TokensExecuted
  <2>2. callbacks[u] = <<>>
    BY <2>1 DEF TokensInv, CalledBack
  <2>3. callbacks'[u] = <<r.location>> /\ Len(<<r.location>>) = 1
    BY <1>4, <1>5, <1>7, <2>2
  <2>4. worker'[w] = Idle /\ \A x \in Workers \ {w} : worker'[x] = worker[x]
    BY <1>4 DEF ShapeOK, TypeOK
  <2>5. \A f : Queued(u, f)' <=> Queued(u, f)
    BY <1>4 DEF Queued, Positions
  <2>6. ~Queued(u, Last(u)) /\ (IsChainOf(u) => \A f : ~Queued(u, f))
    BY <1>3, <1>4, <1>7 DEF TokensInv, UniqueTokens, Queued, Rivals
  <2>7. \A x \in Workers \ {w} : Busy(x) /\ worker[x].req.uuid = u =>
          worker[x].req.index # Last(u) /\ ~IsChainOf(u)
    BY <1>3, <1>4, <1>7 DEF TokensInv, UniqueTokens, Rivals
  <2>8. ~Working(u, Last(u))' /\ (IsChainOf(u) => \A f : ~Working(u, f)')
    <3>1. ~Busy(w)'
      BY <2>4 DEF Busy, Idle
    <3>2. \A x \in Workers : Busy(x)' /\ worker'[x].req.uuid = u =>
            worker'[x].req.index # Last(u) /\ ~IsChainOf(u)
      BY <2>4, <2>7, <3>1 DEF Busy
    <3>3. Last(u)' = Last(u)
      BY <1>4, SameInvocations
    <3>4. QED
      BY <3>2, <3>3 DEF Working
  <2>9. CalledBack(u)'
    <3>1. Last(u)' = Last(u) /\ IsChainOf(u)' = IsChainOf(u)
      BY <1>4, SameInvocations
    <3>2. QED
      <4>1. Len(callbacks'[u]) <= 1
        BY <2>3
      <4>2. executed'[u][Last(u)] > 0
        BY <1>4, <2>1
      <4>3. QED
        BY <2>5, <2>6, <2>8, <3>1, <4>1, <4>2 DEF CalledBack
  <2>10. QED
    BY <1>2, <2>9 DEF TokensInv, TokensCore
<1>8. QED
  BY <1>6, <1>7

-----------------------------------------------------------------------------
(* All the elements but one are in a subset that is large enough.  *)
LEMMA AllButOne ==
  ASSUME NEW S, IsFiniteSet(S), NEW e \in S, NEW T, T \subseteq S, e \notin T,
         NEW n \in Nat, n + 1 = Cardinality(S), n <= Cardinality(T)
  PROVE  \A x \in S : x = e \/ x \in T
<1>1. PICK R : R = S \ {e}
  OBVIOUS
<1>2. PICK a, b : a = Cardinality(S) /\ b = Cardinality(R)
  OBVIOUS
<1>3. IsFiniteSet(R) /\ a \in Nat /\ b \in Nat /\ b = a - 1
  BY <1>1, <1>2, FS_RemoveElement, FS_CardinalityType
<1>4. T \in SUBSET R
  BY <1>1
<1>5. PICK c : c = Cardinality(T)
  OBVIOUS
<1>6. c <= b /\ c \in Nat /\ (b = c => R = T)
  BY <1>2, <1>3, <1>4, <1>5, FS_Subset, FS_CardinalityType
<1>7. R = T
  BY <1>2, <1>3, <1>5, <1>6
<1>8. QED
  BY <1>1, <1>7

(* What a worker that invokes the next function g of its token for p does  *)
(* to the tokens: its token loses an invocation or ends.                   *)
LEMMA InvokedQuiet ==
  ASSUME ShapeOK, ShapeOK', NEW w \in Workers, worker[w].pc = "invoke", Invoked(w),
         NEW u
  PROVE  \A x \in Workers : QuietWorker(u, x)
<1>1. Len(worker[w].functions) > 0
  BY DEF ShapeOK, FunctionsLeft, Left
<1>2. CASE worker' = [worker EXCEPT ![w] = Idle]
  <2>1. Idle.pc = "idle"
    BY DEF Idle
  <2>2. QED
    BY <1>2, <2>1, QuietOneWorker
<1>3. CASE worker' # [worker EXCEPT ![w] = Idle]
  <2>1. PICK new : /\ worker' = [worker EXCEPT ![w] = new]
                   /\ new.pc = "invoke" /\ new.req = worker[w].req
                   /\ new.functions = Tail(worker[w].functions)
    BY <1>1, <1>3, InvokedWorker DEF ShapeOK
  <2>2. PICK fs \in Seq(Nat) : fs = worker[w].functions
    BY WorkerFields DEF ShapeOK
  <2>3. fs # <<>>
    BY <1>1, <2>2, EmptyOne
  <2>4. Len(Tail(fs)) <= Len(fs)
    BY <2>3, TailOne
  <2>5. QED
    BY <2>1, <2>2, <2>4, QuietOneWorker DEF Busy
<1>4. QED
  BY <1>2, <1>3

(* In a DAG, it had invocation e of g to make and has it no more.  *)
LEMMA InvokedEdge ==
  ASSUME ShapeOK, ShapeOK', wf' = wf, NEW w \in Workers, worker[w].pc = "invoke",
         Invoked(w), NEW u \in Uuids, u = worker[w].req.uuid, ~IsChainOf(u),
         NEW g, g = Head(worker[w].functions)
  PROVE  \E e \in Invocations(u, g) :
           e[1] = worker[w].req.index /\ Holds(w, u, e) /\ ~Holds(w, u, e)'
<1>1. PICK p, left, succ : /\ p = worker[w].req.index /\ left = worker[w].functions
                           /\ succ = Successors(u, p)
  OBVIOUS
<1>2. /\ Len(left) > 0 /\ p \in DOMAIN wf[u].successors /\ Len(left) <= Len(succ)
      /\ \A k \in 1..Len(left) : left[k] = succ[Len(succ) - Len(left) + k]
  BY <1>1 DEF ShapeOK, FunctionsLeft, Left
<1>3. left \in Seq(Nat) /\ succ \in Seq(1..Last(u))
  BY <1>1, <1>2, WorkerFields, WorkflowFacts DEF ShapeOK
<1>4. left # <<>>
  BY <1>2, <1>3, EmptyOne
<1>5. PICK a, n : a = Len(left) /\ n = Len(succ)
  OBVIOUS
<1>6. /\ a \in Nat \ {0} /\ n \in Nat /\ a <= n /\ g = left[1] /\ Len(Tail(left)) = a - 1
  BY <1>1, <1>2, <1>3, <1>4, <1>5, TailOne
<1>7. PICK i : i = n - a + 1
  OBVIOUS
<1>8. i \in 1..n /\ i > n - a /\ ~(i > n - (a - 1))
  BY <1>6, <1>7
<1>9. succ[i] = g
  BY <1>2, <1>5, <1>6, <1>7
<1>10. PICK e : e = <<p, i>>
  OBVIOUS
<1>11. e[1] = p /\ e[2] = i
  BY <1>10
<1>12. e \in Invocations(u, g)
  BY <1>1, <1>2, <1>5, <1>8, <1>9, <1>10, InvocationsFinite DEF ShapeOK
<1>13. Holds(w, u, e)
  BY <1>1, <1>5, <1>8, <1>11 DEF Holds, Busy
<1>14. ~Holds(w, u, e)'
  <2>1. CASE worker' = [worker EXCEPT ![w] = Idle]
    <3>1. worker'[w] = Idle
      BY <2>1 DEF ShapeOK, TypeOK
    <3>2. QED
      BY <3>1 DEF Holds, Busy, Idle
  <2>2. CASE worker' # [worker EXCEPT ![w] = Idle]
    <3>1. PICK new : /\ worker' = [worker EXCEPT ![w] = new]
                     /\ new.pc = "invoke" /\ new.functions = Tail(left)
      BY <1>1, <1>2, <2>2, InvokedWorker DEF ShapeOK
    <3>2. worker'[w] = new
      BY <3>1 DEF ShapeOK, TypeOK
    <3>3. Len(worker'[w].functions) = a - 1
      BY <1>6, <3>1, <3>2
    <3>4. Successors(u, e[1])' = succ
      BY <1>1, <1>11, SameInvocations
    <3>5. QED
      BY <1>5, <1>8, <1>11, <3>1, <3>2, <3>3, <3>4 DEF Holds
  <2>3. QED
    BY <2>1, <2>2
<1>15. QED
  BY <1>1, <1>11, <1>12, <1>13, <1>14

(* The next function of a chain is queued: its token replaces the one of   *)
(* the function that was executed.                                         *)
LEMMA InvokeChainTokens ==
  ASSUME ShapeOK, ShapeOK', NEW w \in Workers, Invoke(w),
         NEW u \in Uuids, u = worker[w].req.uuid, IsChainOf(u), TokensInv(u)
  PROVE  TokensInv(u)'
<1>1. /\ wf' = wf /\ sent' = sent /\ callbacks' = callbacks /\ executed' = executed
      /\ worker[w].pc = "invoke" /\ Busy(w) /\ Invoked(w)
  BY DEF Invoke, Busy
<1>2. PICK r, p, g :
        /\ r \in Requests /\ r = Regenerate(w) /\ r.uuid = u /\ r.index = g /\ p = worker[w].req.index
        /\ g = Head(worker[w].functions) /\ g \in Functions(u)
  BY <1>1, RegenerateTyped DEF ShapeOK
<1>3. PICK c \in Computers : Process(c, r)
  BY <1>1, <1>2, RegenerateTyped DEF ShapeOK, Invoke
<1>4. /\ theAsyncQueue' = [theAsyncQueue EXCEPT ![c] = Append(@, r)]
      /\ theInvocations' = theInvocations
  BY <1>2, <1>3 DEF Process, NoPreconditions, IsChainOf
<1>5. p \in Functions(u) /\ Functions(u) \subseteq Int
  <2>1. p \in Functions(u)
    BY <1>1, <1>2, WorkerFields, RequestFields DEF ShapeOK, Busy
  <2>2. Functions(u) \subseteq Int
    BY WorkflowFacts DEF ShapeOK
  <2>3. QED
    BY <2>1, <2>2
<1>6. g = p + 1 /\ Len(worker[w].functions) = 1
  <2>1. worker[w].functions = <<p + 1>>
    BY <1>1, <1>2 DEF ShapeOK, FunctionsLeft, Left
  <2>2. QED
    BY <1>2, <2>1
<1>7. worker'[w] = Idle /\ \A x \in Workers \ {w} : worker'[x] = worker[x]
  BY <1>1, <1>6 DEF ShapeOK, TypeOK, Invoked, Forget
<1>8. Working(u, p) /\ executed[u][p] = 1
  BY <1>1, <1>2 DEF Working, TokensInv, TokensExecuted
<1>9. /\ \A f, x : Invocations(x, f)' = Invocations(x, f)
      /\ \A x : /\ IsChainOf(x)' = IsChainOf(x) /\ Functions(x)' = Functions(x)
                /\ Last(x)' = Last(x)
  BY <1>1, SameInvocations
<1>10. \A h \in Functions(u) : /\ h < g => executed[u][h] > 0
                               /\ h >= g => executed[u][h] = 0
  <2>1. \A h \in Functions(u) : /\ h < p => executed[u][h] > 0
                                /\ h > p => executed[u][h] = 0
    BY <1>5, <1>8 DEF TokensInv, ChainInOrder
  <2>2. QED
    BY <1>5, <1>6, <1>8, <2>1
<1>11. \A d \in Computers : \A k \in Positions(d) : theAsyncQueue[d][k].uuid # u
  BY <1>1 DEF TokensInv, UniqueTokens, Rivals
<1>12. \A x \in Workers : Busy(x)' => worker'[x].req.uuid # u
  <2>1. \A x \in Workers \ {w} : Busy(x) => worker[x].req.uuid # u
    BY <1>1 DEF TokensInv, UniqueTokens, Rivals
  <2>2. QED
    BY <1>7, <2>1 DEF Busy, Idle
<1>13. \A f : (Queued(u, f)' => f = g) /\ ~Working(u, f)'
  <2>1. \A d \in Computers : \A k \in Positions(d)' :
          \/ k \in Positions(d) /\ theAsyncQueue'[d][k] = theAsyncQueue[d][k]
          \/ theAsyncQueue'[d][k] = r
    <3>1. AppendedTo(c, r)
      BY <1>2, <1>4, AppendedQueue
    <3>2. QED
      BY <3>1 DEF AppendedTo
  <2>2. \A d \in Computers : \A k \in Positions(d)' :
          theAsyncQueue'[d][k].uuid = u => theAsyncQueue'[d][k].index = g
    BY <1>2, <1>11, <2>1
  <2>3. QED
    BY <1>12, <2>2 DEF Queued, Working
<1>14. UniqueTokens(u)'
  <2>1. \A x \in Workers : KeepsToken(u, x)
    BY <1>12 DEF KeepsToken
  <2>2. \A d \in Computers : \A k \in Positions(d) : ~Rivals(r, theAsyncQueue[d][k])
    BY <1>2, <1>11 DEF Rivals
  <2>3. \A x \in Workers : Busy(x)' => ~Rivals(r, worker'[x].req)
    BY <1>2, <1>12 DEF Rivals
  <2>4. QED
    BY <1>1, <1>2, <1>4, <2>1, <2>2, <2>3, UniqueAdded DEF TokensInv
<1>15. TokensExecuted(u)'
  <2>1. executed[u][g] = 0
    BY <1>2, <1>5, <1>10
  <2>2. QED
    BY <1>1, <1>9, <1>12, <1>13, <2>1 DEF TokensInv, TokensExecuted
<1>16. ChainInOrder(u)'
  <2>1. \A f \in Functions(u) : Queued(u, f)' \/ Working(u, f)' =>
          \A h \in Functions(u) : /\ h < f => executed'[u][h] > 0
                                  /\ h > f => executed'[u][h] = 0
    BY <1>1, <1>5, <1>10, <1>13
  <2>2. \A f, h \in Functions(u) :
          f < h /\ executed'[u][h] > 0 => executed'[u][f] > 0
    BY <1>1 DEF TokensInv, ChainInOrder
  <2>3. QED
    BY <1>9, <2>1, <2>2 DEF ChainInOrder
<1>17. NotStarted(u)'
  BY <1>1, <1>5, <1>8 DEF TokensInv, NotStarted
<1>18. JoinOnce(u)' /\ CountsGone(u)'
  BY <1>9 DEF JoinOnce, CountsGone
<1>19. CalledBack(u)'
  <2>1. callbacks[u] = <<>>
    BY <1>5, <1>8 DEF TokensInv, CalledBack
  <2>2. QED
    BY <1>1, <2>1 DEF TokensInv, CalledBack
<1>20. QED
  BY <1>14, <1>15, <1>16, <1>17, <1>18, <1>19 DEF TokensInv

(* An invocation of a DAG is processed: it is counted, or it is the last   *)
(* one and the function is queued.                                         *)
LEMMA InvokeDagTokens ==
  ASSUME ShapeOK, ShapeOK', NEW w \in Workers, Invoke(w),
         NEW u \in Uuids, u = worker[w].req.uuid, ~IsChainOf(u), TokensInv(u)
  PROVE  TokensInv(u)'
<1>1. /\ wf' = wf /\ sent' = sent /\ callbacks' = callbacks /\ executed' = executed
      /\ worker[w].pc = "invoke" /\ Busy(w) /\ Invoked(w)
  BY DEF Invoke, Busy
<1>2. PICK r, p, g :
        /\ r \in Requests /\ r = Regenerate(w) /\ r.uuid = u /\ r.index = g /\ p = worker[w].req.index
        /\ g = Head(worker[w].functions) /\ g \in Functions(u) \ {0}
  BY <1>1, RegenerateTyped DEF ShapeOK
<1>3. PICK c \in Computers : Process(c, r)
  BY <1>1, <1>2, RegenerateTyped DEF ShapeOK, Invoke
<1>4. Working(u, p) /\ executed[u][p] = 1 /\ p \in Functions(u)
  <2>1. p \in Functions(u)
    BY <1>1, <1>2, WorkerFields, RequestFields DEF ShapeOK, Busy
  <2>2. QED
    BY <1>1, <1>2, <2>1 DEF Working, TokensInv, TokensExecuted
<1>5. /\ \A f, x : Invocations(x, f)' = Invocations(x, f)
      /\ \A x : /\ IsChainOf(x)' = IsChainOf(x) /\ Functions(x)' = Functions(x)
                /\ Last(x)' = Last(x)
  BY <1>1, SameInvocations
<1>6. \A x \in Workers : QuietWorker(u, x)
  BY <1>1, InvokedQuiet
<1>7. \A f : Working(u, f)' => Working(u, f)
  BY <1>6 DEF Working, QuietWorker
<1>8. \A f : \A e \in Invocations(u, f) : \A x \in Workers :
        Holds(x, u, e)' => Holds(x, u, e)
  BY <1>1, <1>6, HoldsKept
<1>9. \A f : \A e \in Invocations(u, f) : Gone(u, e) => Gone(u, e)'
  BY <1>1, <1>8 DEF Gone
<1>10. PICK e \in Invocations(u, g) :
         e[1] = p /\ Holds(w, u, e) /\ ~Holds(w, u, e)'
  BY <1>1, <1>2, InvokedEdge
<1>11. ~Gone(u, e) /\ Gone(u, e)'
  <2>1. \A x \in Workers : Holds(x, u, e) => x = w
    BY <1>1, <1>2, <1>10 DEF Holds, TokensInv, UniqueTokens, Rivals
  <2>2. QED
    BY <1>1, <1>4, <1>8, <1>10, <2>1 DEF Gone
<1>12. executed[u][g] = 0 /\ ~Queued(u, g) /\ ~Working(u, g)
  <2>1. ~(executed[u][g] > 0 \/ Queued(u, g) \/ Working(u, g))
    BY <1>2, <1>10, <1>11 DEF TokensInv, JoinOnce
  <2>2. executed[u][g] \in Nat
    BY <1>2 DEF ShapeOK, TypeOK
  <2>3. QED
    BY <2>1, <2>2
<1>13. /\ theInvocations \in [Computers -> [Hashes -> Nat]]
       /\ <<g, u>> \in Hashes /\ theInvocations[c][<<g, u>>] \in Nat
       /\ theInvocations[c][<<g, u>>] <= Cardinality(GoneInvocations(u, g))
  <2>1. <<g, u>> \in Hashes
    BY <1>2 DEF Hashes
  <2>2. theInvocations \in [Computers -> [Hashes -> Nat]]
    BY DEF ShapeOK, TypeOK
  <2>3. theInvocations[c][<<g, u>>] <= Cardinality(GoneInvocations(u, g))
    BY <1>2 DEF TokensInv, CountsGone
  <2>4. QED
    BY <2>1, <2>2, <2>3
<1>14. /\ IsFiniteSet(Invocations(u, g))
       /\ GoneInvocations(u, g) \subseteq Invocations(u, g)
       /\ IsFiniteSet(GoneInvocations(u, g))
       /\ Cardinality(GoneInvocations(u, g)) \in Nat
       /\ e \notin GoneInvocations(u, g)
  <2>1. IsFiniteSet(Invocations(u, g)) /\ GoneInvocations(u, g) \subseteq Invocations(u, g)
    BY InvocationsFinite DEF ShapeOK, GoneInvocations
  <2>2. QED
    BY <1>11, <2>1, FS_Subset, FS_CardinalityType DEF GoneInvocations
<1> DEFINE Appended == theAsyncQueue' = [theAsyncQueue EXCEPT ![c] = Append(@, r)]
           h == <<g, u>>
<1>15. \/ Appended /\ NoPreconditions(r) /\ UNCHANGED theInvocations
       \/ /\ Appended /\ LastInvocation(c, r)
          /\ theInvocations' = [theInvocations EXCEPT
               ![c] = [theInvocations[c] EXCEPT ![h] = 0]]
       \/ /\ theAsyncQueue' = theAsyncQueue
          /\ theInvocations' = [theInvocations EXCEPT
               ![c] = [theInvocations[c] EXCEPT ![h] = theInvocations[c][h] + 1]]
  BY <1>1, <1>2, <1>3, ProcessEffect DEF ShapeOK
<1>16. Appended => \A d \in Invocations(u, g) : Gone(u, d)'
  <2> SUFFICES ASSUME Appended PROVE \A d \in Invocations(u, g) : Gone(u, d)'
    OBVIOUS
  <2>1. \E n \in Nat : n + 1 = Cardinality(Invocations(u, g))
                       /\ n <= Cardinality(GoneInvocations(u, g))
    <3>1. CASE NoPreconditions(r)
      <4>1. Cardinality(Invocations(u, g)) = 1
        BY <1>2, <3>1 DEF NoPreconditions, IsChainOf, Expected
      <4>2. 0 + 1 = 1 /\ 0 <= Cardinality(GoneInvocations(u, g))
        BY <1>14
      <4>3. QED
        BY <4>1, <4>2
    <3>2. CASE LastInvocation(c, r)
      BY <1>2, <1>13, <3>2 DEF LastInvocation, makeHash, Expected
    <3>3. CASE theAsyncQueue' = theAsyncQueue
      <4>1. PICK q \in Seq(Requests) : q = theAsyncQueue[c]
        BY DEF ShapeOK, TypeOK
      <4>2. Append(q, r) = q
        BY <3>3, <4>1 DEF ShapeOK, TypeOK
      <4>3. Len(q) \in Nat /\ Len(Append(q, r)) = Len(q) + 1
        BY AppendOne
      <4>4. QED
        BY <4>2, <4>3
    <3>4. QED
      BY <1>15, <3>1, <3>2, <3>3
  <2>2. \A d \in Invocations(u, g) : d = e \/ d \in GoneInvocations(u, g)
    BY <1>14, <2>1, AllButOne
  <2>3. QED
    BY <1>9, <1>11, <2>2 DEF GoneInvocations
<1>17. \A f : Queued(u, f)' => Queued(u, f) \/ (f = g /\ Appended)
  <2>1. CASE Appended
    <3>1. \A d \in Computers : \A k \in Positions(d)' :
            \/ k \in Positions(d) /\ theAsyncQueue'[d][k] = theAsyncQueue[d][k]
            \/ theAsyncQueue'[d][k] = r
      <4>1. AppendedTo(c, r)
        BY <1>2, <2>1, AppendedQueue
      <4>2. QED
        BY <4>1 DEF AppendedTo
    <3>2. QED
      BY <1>2, <2>1, <3>1 DEF Queued
  <2>2. CASE theAsyncQueue' = theAsyncQueue
    BY <2>2 DEF Queued, Positions
  <2>3. QED
    BY <1>15, <2>1, <2>2
<1>18. UniqueTokens(u)'
  <2>1. \A x \in Workers : KeepsToken(u, x)
    BY <1>6 DEF QuietWorker, KeepsToken
  <2>2. CASE Appended
    <3>1. \A d \in Computers : \A k \in Positions(d) : ~Rivals(r, theAsyncQueue[d][k])
      BY <1>2, <1>12 DEF Rivals, Queued
    <3>2. \A x \in Workers : Busy(x)' => ~Rivals(r, worker'[x].req)
      BY <1>2, <1>7, <1>12 DEF Rivals, Working
    <3>3. QED
      BY <1>1, <1>2, <2>1, <2>2, <3>1, <3>2, UniqueAdded DEF TokensInv
  <2>3. CASE theAsyncQueue' = theAsyncQueue
    <3>1. NoShift \in [Computers -> Nat] /\ QuietQueues(u, NoShift)
      BY <2>3, SameQueues DEF NoShift
    <3>2. QED
      BY <1>1, <2>1, <3>1, UniqueKept DEF TokensInv
  <2>4. QED
    BY <1>15, <2>2, <2>3
<1>19. TokensExecuted(u)'
  <2>1. \A x \in Workers : Busy(x)' /\ worker'[x].req.uuid = u =>
          executed'[u][worker'[x].req.index]
            = IF worker'[x].pc = "running" THEN 0 ELSE 1
    BY <1>1, <1>6 DEF QuietWorker, TokensInv, TokensExecuted
  <2>2. QED
    BY <1>1, <1>5, <1>12, <1>17, <2>1 DEF TokensInv, TokensExecuted
<1>20. ChainInOrder(u)'
  BY <1>5 DEF ChainInOrder
<1>21. NotStarted(u)'
  BY <1>1, <1>4 DEF TokensInv, NotStarted
<1>22. JoinOnce(u)'
  <2> SUFFICES ASSUME NEW f \in Functions(u) \ {0},
                      executed'[u][f] > 0 \/ Queued(u, f)' \/ Working(u, f)',
                      NEW d \in Invocations(u, f)
               PROVE  Gone(u, d)'
    BY <1>5 DEF JoinOnce
  <2>1. CASE executed[u][f] > 0 \/ Queued(u, f) \/ Working(u, f)
    BY <1>9, <2>1 DEF TokensInv, JoinOnce
  <2>2. CASE f = g /\ Appended
    BY <1>16, <2>2
  <2>3. QED
    BY <1>1, <1>7, <1>17, <2>1, <2>2
<1>23. CountsGone(u)'
  <2>1. CASE theInvocations' = theInvocations
    BY <1>1, <1>9, <2>1, CountsBelow, SameCounts DEF TokensInv
  <2>2. ASSUME NEW n \in Nat, n <= theInvocations[c][h] + 1,
               n <= Cardinality(GoneInvocations(u, g)'),
               theInvocations' = [theInvocations EXCEPT
                 ![c] = [theInvocations[c] EXCEPT ![h] = n]]
        PROVE  CountsGone(u)'
    <3> SUFFICES ASSUME NEW d \in Computers, NEW f \in Functions(u)
                 PROVE  theInvocations'[d][<<f, u>>] <= Cardinality(GoneInvocations(u, f)')
      BY <1>5 DEF CountsGone
    <3>1. CASE d = c /\ f = g
      BY <1>13, <2>2, <3>1
    <3>2. CASE ~(d = c /\ f = g)
      <4>1. <<f, u>> \in Hashes
        BY DEF Hashes
      <4>2. theInvocations'[d][<<f, u>>] = theInvocations[d][<<f, u>>]
        BY <1>13, <2>2, <3>2, <4>1
      <4>3. theInvocations[d][<<f, u>>] \in Nat
        BY <1>13, <4>1
      <4>4. theInvocations[d][<<f, u>>] <= Cardinality(GoneInvocations(u, f))
        BY DEF TokensInv, CountsGone
      <4>5. GoneInvocations(u, f) \in SUBSET GoneInvocations(u, f)'
        BY <1>5, <1>9 DEF GoneInvocations
      <4>6. IsFiniteSet(GoneInvocations(u, f)')
        <5>1. IsFiniteSet(Invocations(u, f))
          BY InvocationsFinite DEF ShapeOK
        <5>2. GoneInvocations(u, f)' \in SUBSET Invocations(u, f)
          BY <1>5 DEF GoneInvocations
        <5>3. QED
          BY <5>1, <5>2, FS_Subset
      <4>7. PICK a, b : /\ a = Cardinality(GoneInvocations(u, f))
                        /\ b = Cardinality(GoneInvocations(u, f)')
        OBVIOUS
      <4>8. a <= b /\ a \in Nat /\ b \in Nat
        BY <4>5, <4>6, <4>7, FS_Subset, FS_CardinalityType
      <4>9. QED
        BY <4>2, <4>3, <4>4, <4>7, <4>8
    <3>3. QED
      BY <3>1, <3>2
  <2>3. /\ IsFiniteSet(GoneInvocations(u, g)')
        /\ GoneInvocations(u, g) \cup {e} \subseteq GoneInvocations(u, g)'
    <3>1. GoneInvocations(u, g)' \in SUBSET Invocations(u, g)
      BY <1>5 DEF GoneInvocations
    <3>2. GoneInvocations(u, g) \cup {e} \subseteq GoneInvocations(u, g)'
      BY <1>5, <1>9, <1>10, <1>11 DEF GoneInvocations
    <3>3. QED
      BY <1>14, <3>1, <3>2, FS_Subset
  <2>4. PICK a, b, s : /\ a = Cardinality(GoneInvocations(u, g))
                       /\ b = Cardinality(GoneInvocations(u, g)')
                       /\ s = GoneInvocations(u, g) \cup {e}
    OBVIOUS
  <2>5. Cardinality(s) = a + 1 /\ a \in Nat
    BY <1>14, <2>4, FS_AddElement
  <2>6. Cardinality(s) <= b /\ b \in Nat
    BY <2>3, <2>4, FS_Subset, FS_CardinalityType
  <2>7. PICK m \in Nat : m = theInvocations[c][h] /\ m <= a
    BY <1>13, <2>4
  <2>8. 0 \in Nat /\ 0 <= m + 1 /\ 0 <= b /\ m + 1 \in Nat /\ m + 1 <= m + 1 /\ m + 1 <= b
    BY <2>5, <2>6, <2>7
  <2>9. QED
    BY <1>15, <2>1, <2>2, <2>4, <2>7, <2>8
<1>24. CalledBack(u)'
  <2>1. callbacks[u] # <<>> => g # Last(u)
    BY <1>12 DEF TokensInv, CalledBack
  <2>2. QED
    BY <1>1, <1>5, <1>7, <1>17, <2>1 DEF TokensInv, CalledBack
<1>25. QED
  BY <1>18, <1>19, <1>20, <1>21, <1>22, <1>23, <1>24 DEF TokensInv

LEMMA InvokeTokens ==
  ASSUME ShapeOK, ShapeOK', NEW w \in Workers, Invoke(w),
         NEW u \in Uuids, TokensInv(u)
  PROVE  TokensInv(u)'
<1>1. CASE u = worker[w].req.uuid
  BY <1>1, InvokeChainTokens, InvokeDagTokens
<1>2. CASE u # worker[w].req.uuid
  <2>1. /\ wf' = wf /\ sent' = sent /\ callbacks' = callbacks /\ executed' = executed
        /\ worker[w].pc = "invoke" /\ Invoked(w)
    BY DEF Invoke
  <2>2. PICK r \in Requests, c \in Computers :
          r.uuid = worker[w].req.uuid /\ Process(c, r)
    BY <2>1, RegenerateTyped DEF ShapeOK, Invoke
  <2>3. Quiet(u, NoShift)
    BY <1>2, <2>1, <2>2, ForeignProcess, InvokedQuiet DEF Quiet, NoShift
  <2>4. QED
    BY <2>1, <2>3, QuietInv
<1>3. QED
  BY <1>1, <1>2

(* A repeated invocation concerns its own workflow only.  *)
LEMMA InvokeResentTokens ==
  ASSUME ShapeOK, ShapeOK', NEW w \in Workers, InvokeResent(w),
         NEW u \in Uuids \ resent', TokensInv(u)
  PROVE  TokensInv(u)'
<1>1. /\ wf' = wf /\ sent' = sent /\ callbacks' = callbacks /\ executed' = executed
      /\ worker[w].pc = "invoke" /\ u # worker[w].req.uuid
  BY DEF InvokeResent
<1>2. PICK c \in Computers, new \in WorkerStates :
        /\ Process(c, Regenerate(w))
        /\ worker' = [worker EXCEPT ![w] = new] /\ new.req = worker[w].req
  BY InvokeResentWorker
<1>3. PICK r \in Requests : r = Regenerate(w) /\ r.uuid = worker[w].req.uuid
  BY <1>1, RegenerateTyped DEF ShapeOK
<1>4. Quiet(u, NoShift)
  BY <1>1, <1>2, <1>3, ForeignProcess, QuietOneWorker DEF Quiet, NoShift
<1>5. QED
  BY <1>1, <1>4, QuietInv

LEMMA InitTokens == Init => TInv
<1> SUFFICES ASSUME Init PROVE TInv
  OBVIOUS
<1>1. ShapeOK
  BY InitShape
<1> SUFFICES ASSUME NEW u \in Uuids PROVE TokensInv(u)
  BY <1>1 DEF TInv
<1>2. \A c \in Computers : Positions(c) = {}
  BY DEF Init, Positions
<1>3. \A w \in Workers : ~Busy(w)
  BY DEF Init, Busy, Idle
<1>4. \A f : ~Queued(u, f) /\ ~Working(u, f)
  BY <1>2, <1>3 DEF Queued, Working
<1>5. \A f \in Functions(u) : executed[u][f] = 0
  BY DEF Init
<1>6. callbacks[u] = <<>>
  BY DEF Init
<1>7. UniqueTokens(u)
  BY <1>2, <1>3 DEF UniqueTokens
<1>8. TokensExecuted(u) /\ ChainInOrder(u) /\ NotStarted(u) /\ JoinOnce(u)
  BY <1>3, <1>4, <1>5 DEF TokensExecuted, ChainInOrder, NotStarted, JoinOnce
<1>9. CountsGone(u)
  <2> SUFFICES ASSUME ~IsChainOf(u), NEW c \in Computers, NEW f \in Functions(u)
               PROVE  theInvocations[c][<<f, u>>] <= Cardinality(GoneInvocations(u, f))
    BY DEF CountsGone
  <2>1. IsFiniteSet(GoneInvocations(u, f))
    BY <1>1, InvocationsFinite, FS_Subset DEF ShapeOK, GoneInvocations
  <2>2. Cardinality(GoneInvocations(u, f)) \in Nat
    BY <2>1, FS_CardinalityType
  <2>3. <<f, u>> \in Hashes
    BY DEF Hashes
  <2>4. theInvocations[c][<<f, u>>] = 0
    BY <2>3 DEF Init
  <2>5. QED
    BY <2>2, <2>4
<1>10. CalledBack(u)
  BY <1>6 DEF CalledBack
<1>11. QED
  BY <1>7, <1>8, <1>9, <1>10 DEF TokensInv

LEMMA NextTokens == TInv /\ [Next]_vars => TInv'
<1> SUFFICES ASSUME TInv, [Next]_vars PROVE TInv'
  OBVIOUS
<1>1. ShapeOK /\ ShapeOK'
  BY NextShape DEF TInv
<1>2. resent \subseteq resent'
  <2>1. ASSUME NEW w \in Workers, WorkerStep(w) \/ CallThrows(w) \/ InvokeResent(w)
        PROVE  resent \subseteq resent'
    <3>1. CASE PopRequest(w) \/ Execute(w) \/ GetState(w) \/ GetStateFails(w)
      BY <3>1 DEF PopRequest, Execute, GetState, GetStateFails
    <3>2. CASE PutState(w) \/ DelState(w) \/ SendCallback(w) \/ LockCompanion(w)
      BY <3>2 DEF PutState, DelState, SendCallback, LockCompanion
    <3>3. CASE \/ NullCompanion(w) \/ Invoke(w) \/ InvokeRefused(w) \/ CallThrows(w)
               \/ InvokeResent(w)
      BY <3>3 DEF NullCompanion, Invoke, InvokeRefused, CallThrows, InvokeResent
    <3>4. QED
      BY <2>1, <3>1, <3>2, <3>3 DEF WorkerStep
  <2>2. CASE \/ \E v \in Uuids : Send(v)
             \/ \E c \in Computers : ClearCompanion(c) \/ SetCompanion(c)
    BY <2>2 DEF Send, ClearCompanion, SetCompanion
  <2>3. CASE UNCHANGED vars
    BY <2>3 DEF vars
  <2>4. QED
    BY <2>1, <2>2, <2>3 DEF Next, Quiescent
<1> SUFFICES ASSUME NEW u \in Uuids \ resent' PROVE TokensInv(u)'
  BY <1>1 DEF TInv, ShapeOK, TypeOK
<1>3. u \in Uuids /\ TokensInv(u)
  BY <1>2 DEF TInv
<1>4. CASE \E v \in Uuids : Send(v)
  BY <1>1, <1>3, <1>4, SendTokens
<1>5. ASSUME NEW w \in Workers, PopRequest(w) PROVE TokensInv(u)'
  BY <1>1, <1>3, <1>5, PopRequestTokens
<1>6. ASSUME NEW w \in Workers, Execute(w) PROVE TokensInv(u)'
  BY <1>1, <1>3, <1>6, ExecuteTokens
<1>7. ASSUME NEW w \in Workers,
             \/ GetState(w) \/ GetStateFails(w) \/ PutState(w) \/ DelState(w)
             \/ LockCompanion(w) \/ InvokeRefused(w) \/ CallThrows(w)
      PROVE  TokensInv(u)'
  <2>1. callbacks' = callbacks
    BY <1>7 DEF GetState, GetStateFails, PutState, DelState, LockCompanion,
                InvokeRefused, CallThrows
  <2>2. Quiet(u, NoShift)
    BY <1>1, <1>3, <1>7, QuietSteps
  <2>3. QED
    BY <1>1, <1>3, <2>1, <2>2, QuietInv
<1>8. ASSUME NEW w \in Workers, SendCallback(w) PROVE TokensInv(u)'
  BY <1>1, <1>3, <1>8, SendCallbackTokens
<1>9. ASSUME NEW w \in Workers, NullCompanion(w) PROVE TokensInv(u)'
  <2>1. callbacks' = callbacks
    BY <1>9 DEF NullCompanion
  <2>2. QED
    BY <1>1, <1>3, <1>9, <2>1, QuietCrash, QuietInv
<1>10. ASSUME NEW w \in Workers, Invoke(w) PROVE TokensInv(u)'
  BY <1>1, <1>3, <1>10, InvokeTokens
<1>11. ASSUME NEW w \in Workers, InvokeResent(w) PROVE TokensInv(u)'
  BY <1>1, <1>3, <1>11, InvokeResentTokens
<1>12. CASE \E c \in Computers : ClearCompanion(c) \/ SetCompanion(c)
  <2>1. UNCHANGED <<wf, sent, theAsyncQueue, theInvocations, worker, executed, callbacks>>
    BY <1>12 DEF ClearCompanion, SetCompanion
  <2>2. QED
    BY <1>1, <1>3, <2>1, QuietOther, QuietInv
<1>13. CASE UNCHANGED vars
  <2>1. UNCHANGED <<wf, sent, theAsyncQueue, theInvocations, worker, executed, callbacks>>
    BY <1>13 DEF vars
  <2>2. QED
    BY <1>1, <1>3, <2>1, QuietOther, QuietInv
<1>14. QED
  BY <1>4, <1>5, <1>6, <1>7, <1>8, <1>9, <1>10, <1>11, <1>12, <1>13
  DEF Next, WorkerStep, Quiescent

(* As long as no router repeats an invocation, each function of a workflow *)
(* has one token, with the client, in a queue, with a worker, or executed: *)
(* the invariant that the next two theorems rest on.                       *)
THEOREM WorkflowTokens == Spec => []TInv
BY InitTokens, NextTokens, PTL DEF Spec

-----------------------------------------------------------------------------
LEMMA TokensJoin == TInv => JoinComplete
<1> SUFFICES ASSUME TInv, NEW u \in Uuids \ resent, NEW f \in Functions(u),
                    Started(u, f), NEW p \in Predecessors(u, f)
             PROVE  executed[u][p] > 0
  BY DEF JoinComplete
<1>1. TypeOK /\ TokensInv(u) /\ u \in Uuids
  BY DEF TInv, ShapeOK
<1>2. executed[u][f] > 0 \/ Queued(u, f) \/ Working(u, f)
  <2>1. \A w : worker[w].pc = "running" => Busy(w)
    BY DEF Busy
  <2>2. QED
    BY <2>1 DEF Started, Queued, Working, Positions
<1>3. CASE IsChainOf(u)
  <2>1. p = f - 1 /\ p \in Functions(u)
    BY <1>3 DEF Predecessors, IsChainOf
  <2>2. p < f
    BY <1>1, <2>1, WorkflowFacts
  <2>3. QED
    BY <1>1, <1>2, <1>3, <2>1, <2>2 DEF TokensInv, ChainInOrder
<1>4. CASE ~IsChainOf(u)
  <2>1. PICK e \in Invocations(u, f) : p = e[1]
    BY <1>4 DEF Predecessors, IsChainOf
  <2>2. f # 0
    <3>1. /\ e[1] \in DOMAIN wf[u].successors /\ e[2] \in 1..Len(Successors(u, e[1]))
          /\ Successors(u, e[1])[e[2]] = f
      BY <1>1, <1>4, InvocationsFinite
    <3>2. Successors(u, e[1]) \in Seq(1..Last(u)) /\ Last(u) \in Nat
      BY <1>1, <1>4, <3>1, WorkflowFacts
    <3>3. f \in 1..Last(u)
      BY <3>1, <3>2
    <3>4. QED
      BY <3>2, <3>3
  <2>3. Gone(u, e)
    BY <1>1, <1>2, <1>4, <2>1, <2>2 DEF TokensInv, JoinOnce
  <2>4. QED
    BY <2>1, <2>3 DEF Gone
<1>5. QED
  BY <1>3, <1>4

(* checkPreconditions() starts a function only after all its predecessors  *)
(* were executed, for any DAG, number of computers and of failures, as     *)
(* long as no router repeats an invocation.                                *)
THEOREM WorkflowJoinComplete == Spec => []JoinComplete
BY WorkflowTokens, TokensJoin, PTL

LEMMA TokensOnce == TInv => ExecutedOnce
<1> SUFFICES ASSUME TInv, NEW u \in Uuids \ resent
             PROVE  /\ \A f \in Functions(u) : executed[u][f] <= 1
                    /\ Len(callbacks[u]) <= 1
                    /\ callbacks[u] # <<>> /\ LeadsToLast(u) =>
                         \A f \in Functions(u) : executed[u][f] = 1
  BY DEF ExecutedOnce
<1>1. TypeOK /\ TokensInv(u) /\ u \in Uuids /\ JoinComplete
  BY TokensJoin DEF TInv, ShapeOK
<1>2. (\A f \in Functions(u) : executed[u][f] <= 1) /\ Len(callbacks[u]) <= 1
  BY <1>1 DEF TokensInv, TokensExecuted, CalledBack
<1>3. ASSUME callbacks[u] # <<>>, LeadsToLast(u), NEW f \in Functions(u)
      PROVE  executed[u][f] = 1
  <2>1. PICK F : F = {g \in Functions(u) : executed[u][g] > 0}
    OBVIOUS
  <2>2. Last(u) \in F
    BY <1>1, <1>3, <2>1, WorkflowFacts DEF TokensInv, CalledBack
  <2>3. ASSUME NEW g \in F PROVE Predecessors(u, g) \subseteq F
    <3>1. \A p \in Predecessors(u, g) : executed[u][p] > 0
      BY <1>1, <2>1, <2>3 DEF JoinComplete, Started
    <3>2. Predecessors(u, g) \subseteq Functions(u)
      BY <1>1, InvocationsFinite DEF Predecessors, IsChainOf
    <3>3. QED
      BY <2>1, <3>1, <3>2
  <2>4. F = Functions(u)
    BY <1>3, <2>1, <2>2, <2>3 DEF LeadsToLast, Last
  <2>5. executed[u][f] > 0 /\ executed[u][f] \in Nat
    BY <1>1, <2>1, <2>4 DEF TypeOK
  <2>6. QED
    BY <1>2, <2>5
<1>4. QED
  BY <1>2, <1>3

(* No function is executed twice and the client is not called back twice,  *)
(* whatever fails; and a workflow that has called back is complete.        *)
THEOREM WorkflowExecutedOnce == Spec => []ExecutedOnce
BY WorkflowTokens, TokensOnce, PTL

-----------------------------------------------------------------------------
(* A step that deletes no state keeps what the tokens say.  *)
RepoGrows == \A l \in Locations : theStateRepo[l] \subseteq theStateRepo'[l]

LEMMA LocatedKept ==
  ASSUME RepoGrows, NEW u, NEW loc \in [States -> Locations], Located(u, loc)
  PROVE  Located(u, loc)'
BY DEF RepoGrows, Located

LEMMA SameRemote ==
  ASSUME wf' = wf
  PROVE  /\ \A c, r : RemoteStates(c, r)' = RemoteStates(c, r)
         /\ \A u, s : Unshared(u, s)' <=> Unshared(u, s)
BY DEF RemoteStates, Unshared, Functions

LEMMA MovingKept ==
  ASSUME Moving, wf' = wf, RepoGrows, resent \subseteq resent',
         \A x \in Workers : \/ worker'[x] = worker[x]
                            \/ worker'[x].pc \notin {"get", "put", "del"}
                            \/ MovesRemote(x)' /\ PutBefore(x)'
  PROVE  Moving'
<1> SUFFICES ASSUME NEW x \in Workers PROVE MovesRemote(x)' /\ PutBefore(x)'
  BY DEF Moving
<1>1. CASE worker'[x] = worker[x]
  <2>1. MovesRemote(x) /\ PutBefore(x) /\ x[1] \in Locations
    BY WorkerComputer DEF Moving, Locations
  <2>2. MovesRemote(x)'
    BY <1>1, <2>1, SameRemote DEF MovesRemote
  <2>3. PutBefore(x)'
    BY <1>1, <2>1, SameRemote DEF PutBefore, RepoGrows
  <2>4. QED
    BY <2>2, <2>3
<1>2. CASE worker'[x].pc \notin {"get", "put", "del"}
  BY <1>2 DEF MovesRemote, PutBefore
<1>3. QED
  BY <1>1, <1>2

LEMMA StatesKept ==
  ASSUME ShapeOK, ShapeOK', SInv, Moving', wf' = wf, RepoGrows, sent \subseteq sent',
         resent \subseteq resent',
         \A u \in Uuids \ resent' : IsChainOf(u) =>
           /\ \A c \in Computers : \A k \in Positions(c)' :
                theAsyncQueue'[c][k].uuid = u =>
                  Located(u, theAsyncQueue'[c][k].location)
           /\ \A w \in Workers : Busy(w)' /\ worker'[w].req.uuid = u =>
                Located(u, worker'[w].req.location)
           /\ \A k \in 1..Len(callbacks'[u]) : Located(u, callbacks'[u][k])
  PROVE  SInv'
<1>1. StateNeverLost'
  BY SameRemote DEF SInv, StateNeverLost, RepoGrows
<1>2. \A u : IsChainOf(u)' = IsChainOf(u) /\ (IsChainOf(u) <=> wf[u].kind = "chain")
  BY SameInvocations DEF IsChainOf
<1>3. ASSUME NEW u \in Uuids \ resent' PROVE TokensLocate(u)' /\ AtClient(u)'
  <2>1. AtClient(u)'
    BY <1>3 DEF SInv, AtClient, RepoGrows, Locations
  <2>2. ASSUME IsChainOf(u), NEW c \in Computers, NEW k \in Positions(c)',
               theAsyncQueue'[c][k].uuid = u
        PROVE  Located(u, theAsyncQueue[c][k].location)'
    <3>1. PICK r : r = theAsyncQueue'[c][k]
      OBVIOUS
    <3>2. r \in Requests
      BY <3>1, <2>2, SameTypes DEF ShapeOK, TypeOK, Positions
    <3>3. r.location \in [States -> Locations] /\ Located(u, r.location)
      BY <1>3, <2>2, <3>1, <3>2, RequestFields
    <3>4. QED
      BY <3>1, <3>3, LocatedKept DEF Located
  <2>3. ASSUME IsChainOf(u), NEW w \in Workers, Busy(w)', worker'[w].req.uuid = u
        PROVE  Located(u, worker[w].req.location)'
    <3>1. PICK r : r = worker'[w].req
      OBVIOUS
    <3>2. r \in Requests
      BY <3>1, <2>3, SameTypes DEF ShapeOK, TypeOK, WorkerStates, Busy
    <3>3. r.location \in [States -> Locations] /\ Located(u, r.location)
      BY <1>3, <2>3, <3>1, <3>2, RequestFields
    <3>4. QED
      BY <3>1, <3>3, LocatedKept DEF Located
  <2>4. TokensLocate(u)'
    BY <1>2, <2>2, <2>3 DEF TokensLocate, Located
  <2>5. QED
    BY <2>1, <2>4
<1>4. ChainLocatesStates'
  <2> SUFFICES ASSUME NEW u \in Uuids \ resent', IsChainOf(u),
                      NEW k \in 1..Len(callbacks'[u])
               PROVE  \A s \in States : <<u, s>> \in theStateRepo'[callbacks'[u][k][s]]
    BY <1>2 DEF ChainLocatesStates, LocatesStates
  <2>1. PICK loc : loc = callbacks'[u][k]
    OBVIOUS
  <2>2. loc \in [States -> Locations]
    BY <2>1 DEF ShapeOK, TypeOK
  <2>3. Located(u, loc)
    BY <2>1
  <2>4. Located(u, loc)'
    BY <2>2, <2>3, LocatedKept
  <2>5. QED
    BY <2>1, <2>4 DEF Located
<1>5. QED
  BY <1>1, <1>3, <1>4 DEF SInv

(* What the invariant says of the tokens and of the callbacks of a chain.  *)
LEMMA ChainLocated ==
  ASSUME SInv, NEW u \in Uuids \ resent, IsChainOf(u)
  PROVE  /\ \A c \in Computers : \A k \in Positions(c) :
              theAsyncQueue[c][k].uuid = u => Located(u, theAsyncQueue[c][k].location)
         /\ \A w \in Workers :
              Busy(w) /\ worker[w].req.uuid = u => Located(u, worker[w].req.location)
         /\ \A k \in 1..Len(callbacks[u]) : Located(u, callbacks[u][k])
BY DEF SInv, TokensLocate, ChainLocatesStates, LocatesStates, Located, IsChainOf

(* The steps that leave the tokens where they are.  *)
LEMMA StatesQuiet ==
  ASSUME ShapeOK, ShapeOK', SInv, Moving', wf' = wf, RepoGrows, sent' = sent,
         resent' = resent, callbacks' = callbacks,
         \A u \in Uuids : QuietQueues(u, NoShift),
         \A w \in Workers : Busy(w)' => Busy(w) /\ worker'[w].req = worker[w].req
  PROVE  SInv'
<1>1. ASSUME NEW u \in Uuids \ resent', IsChainOf(u)
      PROVE  /\ \A c \in Computers : \A k \in Positions(c)' :
                  theAsyncQueue'[c][k].uuid = u =>
                    Located(u, theAsyncQueue'[c][k].location)
             /\ \A w \in Workers : Busy(w)' /\ worker'[w].req.uuid = u =>
                  Located(u, worker'[w].req.location)
             /\ \A k \in 1..Len(callbacks'[u]) : Located(u, callbacks'[u][k])
  <2>1. u \in Uuids \ resent
    BY <1>1
  <2>2. /\ \A c \in Computers : \A k \in Positions(c) :
             theAsyncQueue[c][k].uuid = u => Located(u, theAsyncQueue[c][k].location)
        /\ \A w \in Workers :
             Busy(w) /\ worker[w].req.uuid = u => Located(u, worker[w].req.location)
        /\ \A k \in 1..Len(callbacks[u]) : Located(u, callbacks[u][k])
    BY <1>1, <2>1, ChainLocated
  <2>3. \A c \in Computers : \A k \in Positions(c)' : theAsyncQueue'[c][k].uuid = u =>
          \E j \in Positions(c) : theAsyncQueue'[c][k] = theAsyncQueue[c][j]
    BY <2>1 DEF QuietQueues
  <2>4. QED
    BY <2>2, <2>3
<1>2. QED
  BY <1>1, StatesKept

(* One worker steps and deletes nothing.  *)
LEMMA MovingOne ==
  ASSUME ShapeOK, Moving, wf' = wf, RepoGrows, resent \subseteq resent',
         NEW w \in Workers, NEW new, worker' = [worker EXCEPT ![w] = new],
         new.pc \in {"get", "put", "del"} => MovesRemote(w)' /\ PutBefore(w)'
  PROVE  Moving'
<1>1. worker'[w] = new /\ \A x \in Workers \ {w} : worker'[x] = worker[x]
  BY DEF ShapeOK, TypeOK
<1>2. QED
  BY <1>1, MovingKept

LEMMA QuietStates ==
  ASSUME ShapeOK, ShapeOK', SInv, NEW w \in Workers,
         \/ GetState(w) \/ PutState(w) \/ GetStateFails(w) \/ CallThrows(w)
         \/ LockCompanion(w) \/ InvokeRefused(w) \/ Execute(w)
  PROVE  SInv'
<1>1. /\ wf' = wf /\ sent' = sent /\ resent' = resent /\ callbacks' = callbacks
      /\ theAsyncQueue' = theAsyncQueue
  BY DEF GetState, PutState, GetStateFails, CallThrows, LockCompanion, InvokeRefused,
         Execute
<1>2. \A u \in Uuids : QuietQueues(u, NoShift)
  BY <1>1, SameQueues
<1>3. RepoGrows
  <2>1. CASE PutState(w)
    <3>1. theStateRepo \in [Locations -> SUBSET (Uuids \X States)]
      BY DEF ShapeOK, TypeOK
    <3>2. QED
      BY <2>1, <3>1 DEF PutState, Put, RepoGrows
  <2>2. CASE theStateRepo' = theStateRepo
    BY <2>2 DEF RepoGrows
  <2>3. QED
    BY <2>1, <2>2 DEF GetState, GetStateFails, CallThrows, LockCompanion,
                      InvokeRefused, Execute
<1>4. Moving /\ TypeOK
  BY DEF SInv, ShapeOK
<1>5. ASSUME NEW new, worker' = [worker EXCEPT ![w] = new],
             new.pc = "idle" \/ (Busy(w) /\ new.req = worker[w].req),
             new.pc \in {"get", "put", "del"} => MovesRemote(w)' /\ PutBefore(w)'
      PROVE  SInv'
  <2>1. Moving'
    BY <1>1, <1>3, <1>4, <1>5, MovingOne
  <2>2. worker'[w] = new /\ \A x \in Workers \ {w} : worker'[x] = worker[x]
    BY <1>5 DEF ShapeOK, TypeOK
  <2>3. \A x \in Workers : Busy(x)' => Busy(x) /\ worker'[x].req = worker[x].req
    BY <1>5, <2>2 DEF Busy
  <2>4. QED
    BY <1>1, <1>2, <1>3, <2>1, <2>3, StatesQuiet
<1>6. CASE worker' = [worker EXCEPT ![w] = Idle]
  <2>1. Idle.pc = "idle"
    BY DEF Idle
  <2>2. QED
    BY <1>5, <1>6, <2>1
<1>7. CASE GetState(w)
  <2>1. PICK new : /\ worker' = [worker EXCEPT ![w] = new]
                   /\ new.pc = "put" /\ new.req = worker[w].req
                   /\ new.states = worker[w].states
    BY <1>4, <1>7, GetStateWorker
  <2>2. worker[w].pc = "get"
    BY <1>7 DEF GetState
  <2>3. worker'[w] = new
    BY <2>1 DEF ShapeOK, TypeOK
  <2>4. MovesRemote(w)' /\ PutBefore(w)'
    <3>1. MovesRemote(w)'
      BY <1>1, <1>4, <2>1, <2>2, <2>3, SameRemote DEF Moving, MovesRemote
    <3>2. PutBefore(w)'
      BY <2>1, <2>3 DEF PutBefore
    <3>3. QED
      BY <3>1, <3>2
  <2>5. QED
    BY <1>5, <2>1, <2>2, <2>4 DEF Busy
<1>8. CASE PutState(w)
  <2>1. PICK new : /\ worker' = [worker EXCEPT ![w] = new]
                   /\ new.pc = "del" /\ new.req = worker[w].req
                   /\ new.state = worker[w].state /\ new.states = worker[w].states
    BY <1>4, <1>8, PutStateWorker
  <2>2. worker[w].pc = "put"
    BY <1>8 DEF PutState
  <2>3. worker'[w] = new
    BY <2>1 DEF ShapeOK, TypeOK
  <2>4. MovesRemote(w)'
    BY <1>1, <1>4, <2>1, <2>2, <2>3, SameRemote DEF Moving, MovesRemote
  <2>5. <<worker[w].req.uuid, worker[w].state>> \in theStateRepo'[w[1]]
    <3>1. w[1] \in Locations
      BY WorkerComputer DEF Locations
    <3>2. QED
      BY <1>8, <3>1 DEF PutState, Put, ShapeOK, TypeOK
  <2>6. PutBefore(w)'
    BY <2>1, <2>3, <2>5 DEF PutBefore
  <2>7. QED
    BY <1>5, <2>1, <2>2, <2>4, <2>6 DEF Busy
<1>9. CASE Execute(w)
  <2>1. PICK new : /\ worker' = [worker EXCEPT ![w] = new]
                   /\ new.pc \in {"finish", "get"} /\ new.req = worker[w].req
                   /\ new.states = RemoteStates(w[1], worker[w].req)
    BY <1>4, <1>9, ExecuteWorker
  <2>2. worker[w].pc = "running"
    BY <1>9 DEF Execute
  <2>3. worker'[w] = new
    BY <2>1 DEF ShapeOK, TypeOK
  <2>4. MovesRemote(w)' /\ PutBefore(w)'
    BY <1>1, <2>1, <2>3, SameRemote DEF MovesRemote, PutBefore
  <2>5. QED
    BY <1>5, <2>1, <2>2, <2>4 DEF Busy
<1>10. CASE LockCompanion(w) /\ worker' # [worker EXCEPT ![w] = Idle]
  <2>1. PICK new : /\ worker' = [worker EXCEPT ![w] = new]
                   /\ new.pc = "invoke" /\ new.req = worker[w].req
    BY <1>4, <1>10, LockCompanionWorker
  <2>2. Busy(w)
    BY <1>10 DEF LockCompanion, Busy
  <2>3. QED
    BY <1>5, <2>1, <2>2
<1>11. CASE InvokeRefused(w) /\ worker' # [worker EXCEPT ![w] = Idle]
  <2>1. worker[w].pc = "invoke" /\ Invoked(w) /\ Len(worker[w].functions) > 0
    BY <1>11 DEF InvokeRefused, ShapeOK, FunctionsLeft, Left
  <2>2. PICK new : /\ worker' = [worker EXCEPT ![w] = new]
                   /\ new.pc = "invoke" /\ new.req = worker[w].req
    BY <1>4, <1>11, <2>1, InvokedWorker
  <2>3. Busy(w)
    BY <2>1 DEF Busy
  <2>4. QED
    BY <1>5, <2>2, <2>3
<1>12. QED
  BY <1>6, <1>7, <1>8, <1>9, <1>10, <1>11 DEF GetStateFails, CallThrows, Forget

LEMMA CrashStates ==
  ASSUME ShapeOK, ShapeOK', SInv, NEW w \in Workers, NullCompanion(w)
  PROVE  SInv'
<1>1. /\ wf' = wf /\ sent' = sent /\ resent' = resent /\ callbacks' = callbacks
      /\ theStateRepo' = theStateRepo
  BY DEF NullCompanion
<1>2. \A u \in Uuids : QuietQueues(u, NoShift)
  BY QuietCrash DEF Quiet
<1>3. RepoGrows /\ Moving
  BY <1>1 DEF RepoGrows, SInv
<1>4. \A x \in Workers : worker'[x] = Idle \/ worker'[x] = worker[x]
  BY DEF NullCompanion
<1>5. Idle.pc = "idle"
  BY DEF Idle
<1>6. Moving'
  BY <1>1, <1>3, <1>4, <1>5, MovingKept
<1>7. \A x \in Workers : Busy(x)' => Busy(x) /\ worker'[x].req = worker[x].req
  BY <1>4, <1>5 DEF Busy
<1>8. QED
  BY <1>1, <1>2, <1>3, <1>6, <1>7, StatesQuiet

LEMMA OtherStates ==
  ASSUME ShapeOK, ShapeOK', SInv,
         UNCHANGED <<wf, sent, theAsyncQueue, worker, theStateRepo, callbacks, resent>>
  PROVE  SInv'
<1>1. RepoGrows /\ Moving
  BY DEF RepoGrows, SInv
<1>2. Moving'
  BY <1>1, MovingKept
<1>3. \A u \in Uuids : QuietQueues(u, NoShift)
  BY SameQueues
<1>4. QED
  BY <1>1, <1>2, <1>3, StatesQuiet DEF Busy

LEMMA PopRequestStates ==
  ASSUME ShapeOK, ShapeOK', SInv, NEW w \in Workers, PopRequest(w)
  PROVE  SInv'
<1>1. PICK new :
        /\ worker' = [worker EXCEPT ![w] = new]
        /\ new.pc = "running" /\ new.req = Head(theAsyncQueue[w[1]])
  BY PopRequestWorker DEF ShapeOK
<1>2. /\ wf' = wf /\ sent' = sent /\ resent' = resent /\ callbacks' = callbacks
      /\ theStateRepo' = theStateRepo
  BY DEF PopRequest
<1>3. RepoGrows /\ Moving
  BY <1>2 DEF RepoGrows, SInv
<1>4. Moving'
  BY <1>1, <1>2, <1>3, MovingOne
<1>5. worker'[w] = new /\ \A x \in Workers \ {w} : worker'[x] = worker[x]
  BY <1>1 DEF ShapeOK, TypeOK
<1>6. /\ w[1] \in Computers /\ 1 \in Positions(w[1])
      /\ theAsyncQueue[w[1]][1] = new.req
  BY <1>1, PoppedQueue, WorkerComputer
<1>7. ASSUME NEW u \in Uuids \ resent', IsChainOf(u)
      PROVE  /\ \A c \in Computers : \A k \in Positions(c)' :
                  theAsyncQueue'[c][k].uuid = u =>
                    Located(u, theAsyncQueue'[c][k].location)
             /\ \A x \in Workers : Busy(x)' /\ worker'[x].req.uuid = u =>
                  Located(u, worker'[x].req.location)
             /\ \A k \in 1..Len(callbacks'[u]) : Located(u, callbacks'[u][k])
  <2>1. u \in Uuids \ resent
    BY <1>2, <1>7
  <2>2. /\ \A c \in Computers : \A k \in Positions(c) :
             theAsyncQueue[c][k].uuid = u => Located(u, theAsyncQueue[c][k].location)
        /\ \A x \in Workers :
             Busy(x) /\ worker[x].req.uuid = u => Located(u, worker[x].req.location)
        /\ \A k \in 1..Len(callbacks[u]) : Located(u, callbacks[u][k])
    BY <1>7, <2>1, ChainLocated
  <2>3. \A c \in Computers : \A k \in Positions(c)' : theAsyncQueue'[c][k].uuid = u =>
          \E j \in Positions(c) : theAsyncQueue'[c][k] = theAsyncQueue[c][j]
    BY PoppedQueue DEF QuietQueues
  <2>4. \A x \in Workers : Busy(x)' /\ worker'[x].req.uuid = u =>
          Located(u, worker'[x].req.location)
    BY <1>5, <1>6, <2>2 DEF Busy
  <2>5. QED
    BY <1>2, <2>2, <2>3, <2>4
<1>8. QED
  BY <1>2, <1>3, <1>4, <1>7, StatesKept

LEMMA SendCallbackStates ==
  ASSUME ShapeOK, ShapeOK', SInv, NEW w \in Workers, SendCallback(w)
  PROVE  SInv'
<1>1. /\ wf' = wf /\ sent' = sent /\ resent' = resent
      /\ theStateRepo' = theStateRepo /\ theAsyncQueue' = theAsyncQueue
      /\ worker[w].pc = "finish" /\ worker' = [worker EXCEPT ![w] = Idle]
  BY DEF SendCallback, Forget
<1>2. RepoGrows /\ Moving
  BY <1>1 DEF RepoGrows, SInv
<1>3. Idle.pc = "idle"
  BY DEF Idle
<1>4. Moving'
  BY <1>1, <1>2, <1>3, MovingOne
<1>5. worker'[w] = Idle /\ \A x \in Workers \ {w} : worker'[x] = worker[x]
  BY <1>1 DEF ShapeOK, TypeOK
<1>6. PICK v, loc : v = worker[w].req.uuid /\ loc = worker[w].req.location
  OBVIOUS
<1>7. /\ callbacks' = [callbacks EXCEPT ![v] = Append(@, loc)]
      /\ v \in Uuids /\ loc \in [States -> Locations]
  BY <1>1, <1>6, WorkerFields, RequestFields DEF SendCallback, ReceiveResponse, ShapeOK
<1>8. ASSUME NEW u \in Uuids \ resent', IsChainOf(u)
      PROVE  /\ \A c \in Computers : \A k \in Positions(c)' :
                  theAsyncQueue'[c][k].uuid = u =>
                    Located(u, theAsyncQueue'[c][k].location)
             /\ \A x \in Workers : Busy(x)' /\ worker'[x].req.uuid = u =>
                  Located(u, worker'[x].req.location)
             /\ \A k \in 1..Len(callbacks'[u]) : Located(u, callbacks'[u][k])
  <2>1. u \in Uuids \ resent
    BY <1>1, <1>8
  <2>2. /\ \A c \in Computers : \A k \in Positions(c) :
             theAsyncQueue[c][k].uuid = u => Located(u, theAsyncQueue[c][k].location)
        /\ \A x \in Workers :
             Busy(x) /\ worker[x].req.uuid = u => Located(u, worker[x].req.location)
        /\ \A k \in 1..Len(callbacks[u]) : Located(u, callbacks[u][k])
    BY <1>8, <2>1, ChainLocated
  <2>3. \A x \in Workers : Busy(x)' /\ worker'[x].req.uuid = u =>
          Located(u, worker'[x].req.location)
    BY <1>3, <1>5, <2>2 DEF Busy
  <2>4. \A k \in 1..Len(callbacks'[u]) : Located(u, callbacks'[u][k])
    <3>1. PICK q \in Seq([States -> Locations]) : q = callbacks[u]
      BY DEF ShapeOK, TypeOK
    <3>2. CASE u # v
      <4>1. callbacks'[u] = callbacks[u]
        BY <1>7, <3>2 DEF ShapeOK, TypeOK
      <4>2. QED
        BY <2>2, <4>1
    <3>3. CASE u = v
      <4>1. callbacks'[u] = Append(q, loc)
        BY <1>7, <3>1, <3>3 DEF ShapeOK, TypeOK
      <4>2. Located(u, loc)
        BY <1>1, <1>6, <2>2, <3>3 DEF Busy
      <4>3. PICK n : n = Len(q)
        OBVIOUS
      <4>4. /\ n \in Nat /\ Len(Append(q, loc)) = n + 1 /\ Append(q, loc)[n + 1] = loc
            /\ \A i \in 1..n : Append(q, loc)[i] = q[i]
        BY <1>7, <4>3, AppendOne
      <4>5. \A k \in 1..n + 1 : k \in 1..n \/ k = n + 1
        BY <4>4
      <4>6. QED
        BY <2>2, <3>1, <4>1, <4>2, <4>3, <4>4, <4>5
    <3>4. QED
      BY <3>2, <3>3
  <2>5. QED
    BY <1>1, <2>2, <2>3, <2>4 DEF Positions
<1>9. QED
  BY <1>1, <1>2, <1>4, <1>8, StatesKept

(* A request is processed whose location is right.  *)
LEMMA ProcessStates ==
  ASSUME ShapeOK, ShapeOK', SInv, wf' = wf, sent \subseteq sent', resent \subseteq resent',
         callbacks' = callbacks, theStateRepo' = theStateRepo,
         NEW c \in Computers, NEW r \in Requests, Process(c, r),
         r.uuid \notin resent' /\ IsChainOf(r.uuid) => Located(r.uuid, r.location),
         \A x \in Workers : /\ Busy(x)' => Busy(x) /\ worker'[x].req = worker[x].req
                            /\ worker'[x] # worker[x] =>
                                 worker'[x].pc \notin {"get", "put", "del"}
  PROVE  SInv'
<1>1. RepoGrows /\ Moving
  BY DEF RepoGrows, SInv
<1>2. Moving'
  BY <1>1, MovingKept
<1>3. \A d \in Computers : \A k \in Positions(d)' :
        \/ \E j \in Positions(d) : theAsyncQueue'[d][k] = theAsyncQueue[d][j]
        \/ theAsyncQueue'[d][k] = r
  <2>1. CASE theAsyncQueue' = theAsyncQueue
    BY <2>1 DEF Positions
  <2>2. CASE theAsyncQueue' = [theAsyncQueue EXCEPT ![c] = Append(@, r)]
    <3>1. \A d \in Computers : \A k \in Positions(d)' :
              \/ k \in Positions(d) /\ theAsyncQueue'[d][k] = theAsyncQueue[d][k]
              \/ theAsyncQueue'[d][k] = r
      <4>1. AppendedTo(c, r)
        BY <2>2, AppendedQueue
      <4>2. QED
        BY <4>1 DEF AppendedTo
    <3>2. QED
      BY <3>1
  <2>3. QED
    BY <2>1, <2>2 DEF Process
<1>4. ASSUME NEW u \in Uuids \ resent', IsChainOf(u)
      PROVE  /\ \A d \in Computers : \A k \in Positions(d)' :
                  theAsyncQueue'[d][k].uuid = u =>
                    Located(u, theAsyncQueue'[d][k].location)
             /\ \A x \in Workers : Busy(x)' /\ worker'[x].req.uuid = u =>
                  Located(u, worker'[x].req.location)
             /\ \A k \in 1..Len(callbacks'[u]) : Located(u, callbacks'[u][k])
  <2>1. u \in Uuids \ resent
    BY <1>4
  <2>2. /\ \A d \in Computers : \A k \in Positions(d) :
             theAsyncQueue[d][k].uuid = u => Located(u, theAsyncQueue[d][k].location)
        /\ \A x \in Workers :
             Busy(x) /\ worker[x].req.uuid = u => Located(u, worker[x].req.location)
        /\ \A k \in 1..Len(callbacks[u]) : Located(u, callbacks[u][k])
    BY <1>4, <2>1, ChainLocated
  <2>3. QED
    BY <1>3, <1>4, <2>2
<1>5. QED
  BY <1>1, <1>2, <1>4, StatesKept

LEMMA SendStates ==
  ASSUME ShapeOK, ShapeOK', SInv, NEW v \in Uuids, Send(v)
  PROVE  SInv'
<1>1. /\ wf' = wf /\ sent' = sent \cup {v} /\ callbacks' = callbacks /\ resent' = resent
      /\ theStateRepo' = theStateRepo /\ worker' = worker /\ v \notin sent
  BY DEF Send
<1>2. PICK r \in Requests : /\ r = FirstRequest(v) /\ r.uuid = v
                            /\ r.location = [s \in States |-> Client]
  BY FirstRequestTyped DEF ShapeOK
<1>3. PICK c \in Computers : Process(c, r)
  <2>1. wf[v].names[0] \in Names
    BY WorkflowFacts DEF ShapeOK
  <2>2. QED
    BY <1>2, <2>1, WorkflowAssumption DEF Send
<1>4. v \notin resent => Located(v, r.location)
  BY <1>1, <1>2 DEF SInv, AtClient, Located
<1>5. QED
  BY <1>1, <1>2, <1>3, <1>4, ProcessStates DEF Busy

LEMMA InvokeStates ==
  ASSUME ShapeOK, ShapeOK', SInv, NEW w \in Workers, Invoke(w) \/ InvokeResent(w)
  PROVE  SInv'
<1>1. /\ wf' = wf /\ sent' = sent /\ callbacks' = callbacks /\ resent \subseteq resent'
      /\ theStateRepo' = theStateRepo /\ worker[w].pc = "invoke" /\ Busy(w)
  BY DEF Invoke, InvokeResent, Busy
<1>2. PICK r \in Requests : /\ r = Regenerate(w) /\ r.uuid = worker[w].req.uuid
                            /\ r.location = worker[w].req.location
  BY <1>1, RegenerateTyped DEF ShapeOK
<1>3. PICK c \in Computers : Process(c, r)
  BY <1>1, <1>2, RegenerateTyped DEF ShapeOK, Invoke, InvokeResent
<1>4. r.uuid \notin resent /\ IsChainOf(r.uuid) => Located(r.uuid, r.location)
  BY <1>1, <1>2, ChainLocated, RequestFields
<1>5. \A x \in Workers : /\ Busy(x)' => Busy(x) /\ worker'[x].req = worker[x].req
                         /\ worker'[x] # worker[x] =>
                              worker'[x].pc \notin {"get", "put", "del"}
  <2>1. CASE worker' = [worker EXCEPT ![w] = Idle]
    <3>1. worker'[w] = Idle /\ \A x \in Workers \ {w} : worker'[x] = worker[x]
      BY <2>1 DEF ShapeOK, TypeOK
    <3>2. Idle.pc = "idle"
      BY DEF Idle
    <3>3. QED
      BY <3>1, <3>2 DEF Busy
  <2>2. CASE worker' # [worker EXCEPT ![w] = Idle]
    <3>1. PICK new : /\ worker' = [worker EXCEPT ![w] = new]
                     /\ new.pc = "invoke" /\ new.req = worker[w].req
      <4>1. CASE InvokeResent(w)
        BY <4>1, InvokeResentWorker
      <4>2. CASE Invoke(w)
        <5>1. Invoked(w) /\ Len(worker[w].functions) > 0
          BY <1>1, <4>2 DEF Invoke, ShapeOK, FunctionsLeft, Left
        <5>2. QED
          BY <1>1, <2>2, <5>1, InvokedWorker DEF ShapeOK
      <4>3. QED
        BY <4>1, <4>2
    <3>2. worker'[w] = new /\ \A x \in Workers \ {w} : worker'[x] = worker[x]
      BY <3>1 DEF ShapeOK, TypeOK
    <3>3. QED
      BY <1>1, <3>1, <3>2 DEF Busy
  <2>3. QED
    BY <2>1, <2>2
<1>6. QED
  BY <1>1, <1>2, <1>3, <1>4, <1>5, ProcessStates

(* Only the worker that has put a state on its server deletes it from the  *)
(* other one: no worker else can need it when it is not shared.            *)
LEMMA DelStateStates ==
  ASSUME TInv, TInv', SInv, NEW w \in Workers, DelState(w)
  PROVE  SInv'
<1>0. ShapeOK /\ ShapeOK'
  BY DEF TInv
<1>1. PICK r, u, s, p : /\ r = worker[w].req /\ u = r.uuid /\ s = worker[w].state
                        /\ p = r.index
  OBVIOUS
<1>2. /\ wf' = wf /\ sent' = sent /\ callbacks' = callbacks /\ resent' = resent
      /\ theAsyncQueue' = theAsyncQueue /\ worker[w].pc = "del" /\ Busy(w)
      /\ theStateRepo' = [theStateRepo EXCEPT ![r.location[s]] =
                            theStateRepo[r.location[s]] \ {<<u, s>>}]
  BY <1>1 DEF DelState, Del, Busy
<1>3. PICK new : /\ worker' = [worker EXCEPT ![w] = new]
                 /\ new.pc \in {"finish", "get"} /\ new.states \subseteq worker[w].states
                 /\ s \notin new.states /\ new.req \in Requests
                 /\ new.req.uuid = u /\ new.req.index = p
                 /\ new.req.location = [r.location EXCEPT ![s] = w[1]]
  BY <1>0, <1>1, DelStateWorker DEF ShapeOK
<1>4. r \in Requests /\ u \in Uuids /\ p \in Functions(u) /\ r.location \in [States -> Locations]
  BY <1>0, <1>1, <1>2, WorkerFields, RequestFields DEF ShapeOK
<1>5. /\ s \in States /\ r.location[s] # w[1]
      /\ wf[u].names[p] \in wf[u].dependencies[s]
      /\ worker[w].states \subseteq RemoteStates(w[1], r)
  <2>1. s \in worker[w].states
    BY <1>0, <1>1, <1>2 DEF ShapeOK, Chosen
  <2>2. worker[w].states \subseteq RemoteStates(w[1], r)
    BY <1>1, <1>2 DEF SInv, Moving, MovesRemote
  <2>3. QED
    BY <1>1, <2>1, <2>2 DEF RemoteStates
<1>6. theStateRepo \in [Locations -> SUBSET (Uuids \X States)] /\ w[1] \in Locations
  BY <1>0, WorkerComputer DEF ShapeOK, TypeOK, Locations
<1>7. /\ \A l \in Locations : \A v, t :
           <<v, t>> # <<u, s>> /\ <<v, t>> \in theStateRepo[l] => <<v, t>> \in theStateRepo'[l]
      /\ theStateRepo'[w[1]] = theStateRepo[w[1]]
  BY <1>2, <1>4, <1>5, <1>6
<1>8. u \notin resent /\ Unshared(u, s) => <<u, s>> \in theStateRepo'[w[1]]
  BY <1>1, <1>2, <1>7 DEF SInv, Moving, PutBefore
<1>9. worker'[w] = new /\ \A x \in Workers \ {w} : worker'[x] = worker[x]
  BY <1>0, <1>3 DEF ShapeOK, TypeOK
<1>10. StateNeverLost'
  <2> SUFFICES ASSUME NEW v \in Uuids \ resent, NEW t \in States, Unshared(v, t)
               PROVE  \E l \in Locations : <<v, t>> \in theStateRepo'[l]
    BY <1>2, SameRemote DEF StateNeverLost
  <2>1. CASE v = u /\ t = s
    BY <1>6, <1>8, <2>1
  <2>2. CASE ~(v = u /\ t = s)
    <3>1. <<v, t>> # <<u, s>>
      BY <2>2
    <3>2. QED
      BY <1>7, <3>1 DEF SInv, StateNeverLost
  <2>3. QED
    BY <2>1, <2>2
<1>11. Moving'
  <2> SUFFICES ASSUME NEW x \in Workers PROVE MovesRemote(x)' /\ PutBefore(x)'
    BY DEF Moving
  <2>1. CASE x = w
    <3>1. PutBefore(w)'
      BY <1>3, <1>9 DEF PutBefore
    <3>2. new.states \subseteq RemoteStates(w[1], new.req)
      <4> SUFFICES ASSUME NEW t \in new.states PROVE t \in RemoteStates(w[1], new.req)
        OBVIOUS
      <4>1. t # s /\ t \in RemoteStates(w[1], r)
        BY <1>3, <1>5
      <4>2. new.req.location[t] = r.location[t]
        BY <1>3, <1>4, <4>1 DEF RemoteStates
      <4>3. QED
        BY <1>1, <1>3, <4>1, <4>2 DEF RemoteStates
    <3>3. MovesRemote(w)'
      BY <1>2, <1>9, <3>2, SameRemote DEF MovesRemote
    <3>4. QED
      BY <2>1, <3>1, <3>3
  <2>2. CASE x # w
    <3>1. worker'[x] = worker[x] /\ MovesRemote(x) /\ PutBefore(x)
      BY <1>9, <2>2 DEF SInv, Moving
    <3>2. MovesRemote(x)'
      BY <1>2, <3>1, SameRemote DEF MovesRemote
    <3>3. PutBefore(x)'
      <4>1. PICK v, t : v = worker[x].req.uuid /\ t = worker[x].state
        OBVIOUS
      <4> SUFFICES ASSUME worker[x].pc = "del", v \notin resent, Unshared(v, t)
                   PROVE  <<v, t>> \in theStateRepo'[x[1]]
        BY <1>2, <3>1, <4>1, SameRemote DEF PutBefore
      <4>2. <<v, t>> \in theStateRepo[x[1]] /\ x[1] \in Locations
        BY <3>1, <4>1, WorkerComputer DEF PutBefore, Locations
      <4>3. CASE <<v, t>> # <<u, s>>
        BY <1>7, <4>2, <4>3
      <4>4. CASE v = u /\ t = s
        <5>1. Busy(x) /\ worker[x].req \in Requests
          BY <1>0, WorkerFields DEF Busy, ShapeOK
        <5>2. PICK q : q = worker[x].req.index
          OBVIOUS
        <5>3. q \in Functions(u)
          BY <4>1, <4>4, <5>1, <5>2, RequestFields
        <5>4. wf[u].names[q] \in wf[u].dependencies[s]
          <6>1. t \in worker[x].states
            BY <1>0, <4>1 DEF ShapeOK, Chosen
          <6>2. worker[x].states \subseteq RemoteStates(x[1], worker[x].req)
            BY <3>1 DEF MovesRemote
          <6>3. QED
            BY <4>1, <4>4, <5>2, <6>1, <6>2 DEF RemoteStates
        <5>5. IsChainOf(u) \/ q = p
          BY <1>4, <1>5, <4>4, <5>3, <5>4 DEF Unshared, IsChainOf
        <5>6. Rivals(worker[w].req, worker[x].req)
          BY <1>1, <4>1, <4>4, <5>2, <5>5 DEF Rivals
        <5>7. TokensInv(u)
          BY <1>4, <4>4 DEF TInv
        <5>8. QED
          BY <1>1, <1>2, <2>2, <5>1, <5>6, <5>7 DEF TokensInv, UniqueTokens
      <4>5. QED
        BY <4>3, <4>4
    <3>4. QED
      BY <3>2, <3>3
  <2>3. QED
    BY <2>1, <2>2
<1>12. \A v \in Uuids : v # u => \A loc \in [States -> Locations] :
         Located(v, loc) => Located(v, loc)'
  <2> SUFFICES ASSUME NEW v \in Uuids, v # u, NEW loc \in [States -> Locations],
                      Located(v, loc), NEW t \in States
               PROVE  <<v, t>> \in theStateRepo'[loc[t]]
    BY DEF Located
  <2>1. <<v, t>> # <<u, s>> /\ <<v, t>> \in theStateRepo[loc[t]] /\ loc[t] \in Locations
    BY DEF Located
  <2>2. QED
    BY <1>7, <2>1
<1>13. \A v : IsChainOf(v)' = IsChainOf(v) /\ (IsChainOf(v) <=> wf[v].kind = "chain")
  BY <1>2, SameInvocations DEF IsChainOf
<1>14. ASSUME NEW v \in Uuids \ resent PROVE TokensLocate(v)'
  <2> SUFFICES ASSUME IsChainOf(v) PROVE TokensLocate(v)'
    BY <1>13 DEF TokensLocate
  <2>0. /\ \A c \in Computers : \A k \in Positions(c) :
             theAsyncQueue[c][k].uuid = v => Located(v, theAsyncQueue[c][k].location)
        /\ \A x \in Workers :
             Busy(x) /\ worker[x].req.uuid = v => Located(v, worker[x].req.location)
    BY <1>14, ChainLocated
  <2>1. CASE v # u
    <3>1. ASSUME NEW c \in Computers, NEW k \in Positions(c), theAsyncQueue[c][k].uuid = v
          PROVE  Located(v, theAsyncQueue[c][k].location)'
      <4>1. PICK loc : loc = theAsyncQueue[c][k].location
        OBVIOUS
      <4>2. theAsyncQueue[c][k] \in Requests
        BY <1>0 DEF ShapeOK, TypeOK, Positions
      <4>3. loc \in [States -> Locations] /\ Located(v, loc)
        BY <2>0, <3>1, <4>1, <4>2, RequestFields
      <4>4. Located(v, loc)'
        BY <1>12, <2>1, <4>3
      <4>5. QED
        BY <1>2, <4>1, <4>4 DEF Located
    <3>2. ASSUME NEW x \in Workers, Busy(x)', worker'[x].req.uuid = v
          PROVE  Located(v, worker[x].req.location)'
      <4>1. worker'[x] = worker[x] /\ Busy(x)
        BY <1>3, <1>9, <2>1, <3>2 DEF Busy
      <4>2. PICK loc : loc = worker[x].req.location
        OBVIOUS
      <4>3. worker[x].req \in Requests
        BY <1>0, <4>1, WorkerFields DEF Busy, ShapeOK
      <4>4. loc \in [States -> Locations] /\ Located(v, loc)
        BY <2>0, <3>2, <4>1, <4>2, <4>3, RequestFields
      <4>5. Located(v, loc)'
        BY <1>12, <2>1, <4>4
      <4>6. QED
        BY <4>1, <4>2, <4>5 DEF Located
    <3>3. QED
      BY <1>2, <3>1, <3>2 DEF TokensLocate, Positions
  <2>2. CASE v = u
    <3>0. UniqueTokens(u)
      BY <2>2 DEF TInv, TokensInv
    <3>1. \A c \in Computers : \A k \in Positions(c) : theAsyncQueue[c][k].uuid # u
      BY <1>1, <1>2, <2>2, <3>0 DEF UniqueTokens, Rivals
    <3>2. \A x \in Workers \ {w} : Busy(x) => worker[x].req.uuid # u
      BY <1>1, <1>2, <2>2, <3>0 DEF UniqueTokens, Rivals
    <3>3. Located(u, new.req.location)'
      <4> SUFFICES ASSUME NEW t \in States
                   PROVE  <<u, t>> \in theStateRepo'[new.req.location[t]]
        BY <1>9 DEF Located
      <4>1. CASE t = s
        BY <1>3, <1>4, <1>8, <1>14, <2>2, <4>1 DEF Unshared, IsChainOf
      <4>2. CASE t # s
        <5>1. <<u, t>> # <<u, s>> /\ new.req.location[t] = r.location[t]
              /\ r.location[t] \in Locations
          BY <1>3, <1>4, <4>2
        <5>2. <<u, t>> \in theStateRepo[r.location[t]]
          BY <1>1, <1>2, <2>0, <2>2 DEF Located
        <5>3. QED
          BY <1>7, <5>1, <5>2
      <4>3. QED
        BY <4>1, <4>2
    <3>4. \A x \in Workers : Busy(x)' /\ worker'[x].req.uuid = u =>
            Located(u, worker[x].req.location)'
      <4>1. \A x \in Workers : Busy(x)' /\ worker'[x].req.uuid = u => x = w
        BY <1>9, <3>2 DEF Busy
      <4>2. Located(u, worker[w].req.location)'
        BY <1>9, <3>3 DEF Located
      <4>3. QED
        BY <4>1, <4>2
    <3>5. QED
      BY <1>2, <2>2, <3>1, <3>4 DEF TokensLocate, Positions
  <2>3. QED
    BY <2>1, <2>2
<1>15. ASSUME NEW v \in Uuids \ resent PROVE AtClient(v)'
  <2>1. CASE v # u
    BY <1>2, <1>7, <1>15, <2>1 DEF SInv, AtClient, Locations
  <2>2. CASE v = u
    <3>1. Working(u, p)
      BY <1>1, <1>2 DEF Working
    <3>2. u \in sent
      BY <1>4, <1>15, <2>2, <3>1 DEF TInv, TokensInv, NotStarted
    <3>3. QED
      BY <1>2, <2>2, <3>2 DEF AtClient
  <2>3. QED
    BY <2>1, <2>2
<1>16. ChainLocatesStates'
  <2> SUFFICES ASSUME NEW v \in Uuids \ resent, IsChainOf(v), NEW k \in 1..Len(callbacks[v])
               PROVE  \A t \in States : <<v, t>> \in theStateRepo'[callbacks[v][k][t]]
    BY <1>2, <1>13 DEF ChainLocatesStates, LocatesStates
  <2>1. PICK q \in Seq([States -> Locations]) : q = callbacks[v]
    BY <1>0 DEF ShapeOK, TypeOK
  <2>2. v # u
    <3> SUFFICES ASSUME v = u PROVE FALSE
      OBVIOUS
    <3>1. Working(u, p)
      BY <1>1, <1>2 DEF Working
    <3>2. callbacks[u] = <<>>
      BY <1>4, <3>1 DEF TInv, TokensInv, CalledBack
    <3>3. QED
      BY <3>2
  <2>3. PICK loc \in [States -> Locations] : loc = callbacks[v][k]
    BY <2>1
  <2>4. Located(v, loc)
    BY <2>3, ChainLocated
  <2>5. Located(v, loc)'
    BY <1>12, <2>2, <2>3, <2>4
  <2>6. QED
    BY <2>3, <2>5 DEF Located
<1>17. QED
  BY <1>2, <1>10, <1>11, <1>14, <1>15, <1>16 DEF SInv

LEMMA InitStates == Init => SInv
<1> SUFFICES ASSUME Init PROVE SInv
  OBVIOUS
<1>1. \A c \in Computers : Positions(c) = {}
  BY DEF Init, Positions
<1>2. \A w \in Workers : worker[w].pc = "idle"
  BY DEF Init, Idle
<1>3. Moving
  BY <1>2 DEF Moving, MovesRemote, PutBefore
<1>4. Client \in Locations /\ theStateRepo[Client] = Uuids \X States
  BY DEF Init, Locations
<1>5. StateNeverLost
  BY <1>4 DEF StateNeverLost
<1>6. \A u \in Uuids : callbacks[u] = <<>>
  BY DEF Init
<1>7. ChainLocatesStates
  BY <1>6 DEF ChainLocatesStates, LocatesStates
<1>8. \A u \in Uuids : TokensLocate(u) /\ AtClient(u)
  BY <1>1, <1>2, <1>4 DEF TokensLocate, AtClient, Busy
<1>9. QED
  BY <1>3, <1>5, <1>7, <1>8 DEF SInv

LEMMA NextStates == TInv /\ TInv' /\ SInv /\ [Next]_vars => SInv'
<1> SUFFICES ASSUME TInv, TInv', SInv, [Next]_vars PROVE SInv'
  OBVIOUS
<1>1. ShapeOK /\ ShapeOK'
  BY DEF TInv
<1>2. CASE \E v \in Uuids : Send(v)
  BY <1>1, <1>2, SendStates
<1>3. ASSUME NEW w \in Workers, WorkerStep(w) \/ CallThrows(w) \/ InvokeResent(w)
      PROVE  SInv'
  BY <1>1, <1>3, PopRequestStates, QuietStates, DelStateStates, SendCallbackStates,
     CrashStates, InvokeStates DEF WorkerStep
<1>4. CASE \E c \in Computers : ClearCompanion(c) \/ SetCompanion(c)
  BY <1>1, <1>4, OtherStates DEF ClearCompanion, SetCompanion
<1>5. CASE UNCHANGED vars
  BY <1>1, <1>5, OtherStates DEF vars
<1>6. QED
  BY <1>2, <1>3, <1>4, <1>5 DEF Next, Quiescent

(* handleRemoteStates() moves only states that are at another computer,    *)
(* and the copy is at the new server before the old one is deleted; unless *)
(* an invocation was repeated, what travels with a chain, and what its     *)
(* client knows, says where the states are.                                *)
THEOREM WorkflowStates == Spec => []SInv
<1>1. Init => SInv
  BY InitStates
<1>2. TInv /\ TInv' /\ SInv /\ [Next]_vars => SInv'
  BY NextStates
<1>3. QED
  BY <1>1, <1>2, WorkflowTokens, PTL DEF Spec

(* handleRemoteStates() puts a state on the new server before it deletes   *)
(* it from the old one: no failure or crash loses a state that no two      *)
(* functions of a workflow can move at the same time.                      *)
THEOREM WorkflowStateNeverLost == Spec => []StateNeverLost
BY WorkflowStates, PTL DEF SInv

(* The locations in the response of a chain are where its states are.  *)
THEOREM WorkflowChainLocatesStates == Spec => []ChainLocatesStates
BY WorkflowStates, PTL DEF SInv
=============================================================================
