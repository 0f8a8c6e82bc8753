-------------------------- MODULE EdgeController ---------------------------
(***************************************************************************)
(* The edge controller of src/Edge (EdgeController): it is told of the     *)
(* computers and of the routers, and installs routes in the forwarding     *)
(* tables of the routers.  kind is the controller that the server calls:   *)
(*   flat  EdgeControllerFlat, every computer on every router;             *)
(*   hier  EdgeControllerHier, a computer on its home router, and that one *)
(*         on the others;                                                  *)
(*   etsi  EdgeControllerEtsiBalanced, associations in an LCM proxy.       *)
(* EdgeControllerServer::apply calls each subscribed controller in turn    *)
(* and catches what it throws: they share nothing, so one is modelled.     *)
(*                                                                         *)
(* A handler holds theMutex until it returns; stack is what it has left to *)
(* do, the call that runs first.  Each command to a router is a step, so   *)
(* routers crash and restart in the middle of a handler.  End-points,      *)
(* addresses, lambdas and clients are numbers: std::map visits them in     *)
(* their order.                                                            *)
(***************************************************************************)
EXTENDS HomeRouter, EtsiBalanced, SequencesExt

CONSTANTS Computers, Routers, Lambdas,
          address,       \* address of each end-point
          Topology,      \* matrix of distances, see HomeRouter
          ContextOf,     \* contexts of the proxy: id -> <<client, lambda>>
          Deployments,   \* records: kind, objective, routers, computers,
                         \* contexts, and offers, the lists of lambdas that a
                         \* computer may announce
          MaxPurged      \* bound on the rows that are purged at a time

Ends == Computers \cup Routers
ContainerLists == (SUBSET Lambdas) \ {{}}
Addresses == {address[e] : e \in Ends}
ASSUME EndsAssumption ==
  /\ Ends \subseteq Nat /\ Computers \cap Routers = {} /\ Lambdas \subseteq Nat
  /\ IsFiniteSet(Computers) /\ IsFiniteSet(Routers) /\ IsFiniteSet(Lambdas)
  /\ address \in [Ends -> Nat] /\ ContextOf \in [DOMAIN ContextOf -> Nat \X Nat]
  /\ \A d \in Deployments :
       /\ d.kind \in {"flat", "hier", "etsi"}
       /\ d.computers \subseteq Computers /\ d.offers \subseteq ContainerLists
ASSUME TopologyAssumption ==
  /\ IsFiniteSet(DOMAIN Topology)
  /\ Topology \in [DOMAIN Topology -> [DOMAIN Topology -> Nat]]
ASSUME PurgedAssumption == MaxPurged \in Nat

VARIABLES
  deployment,  \* kind of controller, and who may announce itself
  alive,       \* FALSE once an assertion of the controller has failed
  computers,   \* theComputers: lambdas of each computer, {} if unknown
  routers,     \* theRouters
  lambdas,     \* theLambdas: computers of each lambda
  addresses,   \* theRouterAddresses: end-points at each address
  closest,     \* theClosest: partial function on addresses
  announced,   \* theAnnouncedLambdas[router][lambda]: set of computers
  ft,          \* keys of theForwardingTableEndpoints
  etsi,        \* see EtsiBalanced
  stack,       \* calls of the handler that holds theMutex
  session,     \* of each router: "down", "starting", "running"
  rows,        \* what the commands have put in the table of each router
  purged       \* rows[r] that r has removed from its table since then

base == <<computers, routers, lambdas>>
hier == <<addresses, closest, announced, ft>>
network == <<session, rows, purged>>
vars == <<deployment, alive, computers, routers, lambdas, addresses, closest,
          announced, ft, etsi, stack, session, rows, purged>>

kind == deployment.kind
Idle == alive /\ stack = <<>>
Row(l, d, final) == [l |-> l, d |-> d, final |-> final]

\* The forwarding table of a router.
Table(r) == rows[r] \ purged[r]

(***************************************************************************)
(* Commands to routers (EdgeControllerRpc, ForwardingTableClient).  Each   *)
(* router has a lambda server and a forwarding table server, which have    *)
(* different end-points.  A command that is sent to another end-point than *)
(* that of the latter, or to a router that is down, fails.                 *)
(***************************************************************************)
Command(what, r, set) == [what |-> what, to |-> "table-server", router |-> r, rows |-> set]
Reaches(cmd) == cmd.to = "table-server" /\ session[cmd.router] # "down"
Overwritten(cmd, old) ==
  IF cmd.what = "flush" THEN old
  ELSE {x \in old : \E y \in cmd.rows : <<x.l, x.d>> = <<y.l, y.d>>}
Applied(cmd, old) ==
  CASE cmd.what = "change" ->
         {x \in old : \A y \in cmd.rows : <<x.l, x.d>> # <<y.l, y.d>>} \cup cmd.rows
    [] cmd.what = "remove" ->
         {x \in old : \A y \in cmd.rows : <<x.l, x.d>> # <<y.l, y.d>>}
    [] cmd.what = "flush" -> {}

ToEach(what, set, whom) ==
  LET order == Sorted(whom)
  IN IF set = {} THEN <<>> ELSE [i \in DOMAIN order |-> Command(what, order[i], set)]

\* A loop over commands, and what the function does after it.
Commands(list, then) == [op |-> "commands", list |-> list, then |-> then]
Done == [op |-> "done"]
Others == [op |-> "others"]  \* the loop over the routers that are not home

(***************************************************************************)
(* EdgeControllerFlat: all the lambdas of all the computers everywhere.    *)
(***************************************************************************)
FinalRows(c, set) == {Row(l, c, TRUE) : l \in set}

\* Computers::lambdas
Offered == UNION {FinalRows(c, computers[c]) : c \in Computers}

flat_privateAnnounceComputer(c) ==
  stack' = <<Commands(ToEach("change", FinalRows(c, computers[c]), routers), Done)>> \o Tail(stack)

flat_privateAnnounceRouter(r) == stack' = <<Commands(ToEach("change", Offered, {r}), Done)>>

flat_privateRemoveComputer(c, set) ==
  stack' = <<Commands(ToEach("remove", FinalRows(c, set), routers), Done)>> \o Tail(stack)

(***************************************************************************)
(* EdgeControllerHier.                                                     *)
(***************************************************************************)
\* reset(): the first loop.
Flush(whom) ==
  LET order == Sorted(whom)
  IN Commands([i \in DOMAIN order |-> Command("flush", order[i], {})], [op |-> "rebuild"])

RouterAddresses(where) == {a \in DOMAIN where : where[a] # {}}

\* A set of end-points that changes the set of addresses clears the cache.
Relocate(where) ==
  /\ addresses' = where
  /\ closest' = IF RouterAddresses(where) = RouterAddresses(addresses)
                THEN closest ELSE <<>>

(* Mutant: the router is not removed from theForwardingTableEndpoints. *)
hier_privateRemoveRouterNot(r) ==
  /\ Relocate([addresses EXCEPT ![address[r]] = @ \ {r}])
  /\ ft' = ft
  /\ stack' = <<Flush(ft)>> \o Tail(stack)

hier_privateRemoveRouter(r) ==
  /\ Relocate([addresses EXCEPT ![address[r]] = @ \ {r}])
  /\ ft' = ft \ {r}
  /\ stack' = <<Flush(ft \ {r})>> \o Tail(stack)

findClosest(a) ==
  IF a \in DOMAIN closest THEN closest[a]
  ELSE Closest(Topology, deployment.objective, RouterAddresses(addresses), a)

\* It throws for an address that is not in the topology.
Throws(a) == /\ a \notin DOMAIN closest
             /\ InvalidNodes(Topology, RouterAddresses(addresses) \cup {a})

\* It asserts that it did not know the router.
hier_privateAnnounceRouter(r) ==
  \/ /\ r \notin ft
     /\ Relocate([addresses EXCEPT ![address[r]] = @ \cup {r}])
     /\ ft' = ft \cup {r}
     /\ stack' = <<Flush(ft \cup {r})>>
     /\ UNCHANGED alive
  \/ /\ r \in ft
     /\ alive' = FALSE
     /\ UNCHANGED <<stack, addresses, closest, ft>>

\* One of the routers at the address, at random.
routerEndpoints(a) == addresses[a]

hier_privateAnnounceComputer(c) ==
  LET a == address[c]
      set == FinalRows(c, computers[c])
  IN \/ /\ RouterAddresses(addresses) = {}
        /\ stack' = Tail(stack)
        /\ UNCHANGED closest
     \/ /\ RouterAddresses(addresses) # {} /\ Throws(a)
        /\ stack' = <<>>
        /\ UNCHANGED closest
     \/ /\ RouterAddresses(addresses) # {} /\ ~Throws(a)
        /\ closest' = [x \in DOMAIN closest \cup {a} |-> IF x = a THEN findClosest(a) ELSE closest[x]]
        /\ \E home \in routerEndpoints(findClosest(a)) :
             stack' = <<Commands(IF home \in routers THEN ToEach("change", set, {home}) ELSE <<>>,
                                 [op |-> "home", c |-> c, router |-> home])>> \o Tail(stack)

\* After the home router: it is announced for the lambdas that it serves first.
AnnounceHome(c, home) ==
  LET new == {l \in computers[c] : announced[home][l] = {}}
  IN /\ announced' = [announced EXCEPT ![home] =
            [l \in Lambdas |-> IF l \in computers[c] THEN @[l] \cup {c} ELSE @[l]]]
     /\ stack' = <<Commands(ToEach("change", {Row(l, home, FALSE) : l \in new},
                                   routers \ {home}), Others)>> \o Tail(stack)

\* The router where <lambda, computer> is announced: the first one found.
HomeOf(c, l) == {r \in Routers : c \in announced[r][l]}
FirstHome(c, l) == CHOOSE r \in HomeOf(c, l) : \A o \in HomeOf(c, l) : r <= o

\* The command for the home router goes to the end-point of its lambda server
\* (edgecontrollerhier.cpp:253 takes ->first).
RemoveElems(c, l) ==
  LET home == FirstHome(c, l)
  IN IF HomeOf(c, l) = {} THEN <<>>
     ELSE <<[Command("remove", home, {Row(l, c, TRUE)}) EXCEPT !.to = "lambda-server"]>>
            \o (IF announced[home][l] = {c}
                THEN ToEach("remove", {Row(l, home, FALSE)}, ft \ {home}) ELSE <<>>)

hier_privateRemoveComputer(c, set) ==
  LET order == Sorted(set)
  IN /\ stack' = <<Commands(FlattenSeq([i \in DOMAIN order |-> RemoveElems(c, order[i])]),
                            Done)>> \o Tail(stack)
     /\ announced' = [r \in Routers |-> [l \in Lambdas |->
          IF l \in set /\ HomeOf(c, l) # {} /\ r = FirstHome(c, l)
          THEN announced[r][l] \ {c} ELSE announced[r][l]]]

(***************************************************************************)
(* EdgeController: the handlers.  A handler starts when theMutex is free.  *)
(***************************************************************************)
\* Calls to the virtual functions that only the ETSI controller overrides.
Hooks(list) == IF kind = "etsi" THEN list ELSE <<>>
ForEach(hook, set) ==
  LET order == Sorted(set) IN [i \in DOMAIN order |-> [op |-> hook, l |-> order[i]]]

\* Computers::add
AddStatus(c, set) ==
  CASE computers[c] = {} -> "NotPresent"
    [] computers[c] = set -> "AlreadyPresent"
    [] OTHER -> "ContainersChanged"

\* What follows Computers::add in announceComputer.
Insert(c, set, after) ==
  /\ computers' = [computers EXCEPT ![c] = set]
  /\ lambdas' = [l \in Lambdas |-> IF l \in set THEN lambdas[l] \cup {c} ELSE lambdas[l]]
  /\ stack' = Hooks(ForEach("addLambda", {l \in set : lambdas[l] = {}})
                      \o <<[op |-> "addComputer", c |-> c, set |-> set]>>)
                \o <<[op |-> "announce", c |-> c]>> \o after

(* Mutant: the computer stays in theLambdas. *)
WithdrawNotLambdas(c, after) ==
  LET set == computers[c]
  IN /\ computers' = [computers EXCEPT ![c] = {}]
     /\ UNCHANGED lambdas
     /\ stack' = <<[op |-> "withdraw", c |-> c, set |-> set]>> \o after

\* privateRemoveComputer(end-point): Computers::remove and theLambdas.
Withdraw(c, after) ==
  LET set == computers[c]
  IN /\ computers' = [computers EXCEPT ![c] = {}]
     /\ lambdas' = [l \in Lambdas |-> lambdas[l] \ {c}]
     /\ stack' = Hooks(ForEach("delLambda", {l \in set : lambdas[l] = {c}})
                         \o <<[op |-> "delComputer", c |-> c, set |-> set]>>)
                   \o <<[op |-> "withdraw", c |-> c, set |-> set]>> \o after

\* Nothing is done if the computer is AlreadyPresent.
announceComputer(c, set) ==
  /\ Idle /\ c \in deployment.computers /\ set \in deployment.offers
  /\ \/ AddStatus(c, set) = "NotPresent" /\ Insert(c, set, <<>>)
     \/ /\ AddStatus(c, set) = "ContainersChanged"
        /\ Withdraw(c, <<[op |-> "insert", c |-> c, set |-> set]>>)
  /\ UNCHANGED <<deployment, alive, routers, hier, etsi, network>>

\* From the computer itself, or from a router that failed to reach it: a command
\* that arrives at any time after Purge, or never (controllerCommand ignores that
\* the controller cannot be reached).  It does nothing if the end-point is not
\* that of a known computer, hence never for a router.
removeComputer(c) ==
  /\ Idle /\ computers[c] # {}
  /\ Withdraw(c, <<>>)
  /\ UNCHANGED <<deployment, alive, routers, hier, etsi, network>>

\* A router announces itself when it starts.
announceRouter(r) ==
  /\ Idle /\ session[r] = "starting"
  /\ session' = [session EXCEPT ![r] = "running"]
  /\ routers' = routers \cup {r}
  /\ \/ /\ kind = "flat" /\ flat_privateAnnounceRouter(r)
        /\ UNCHANGED <<alive, addresses, closest, ft>>
     \/ kind = "hier" /\ hier_privateAnnounceRouter(r)
     \/ /\ kind = "etsi"
        /\ UNCHANGED <<alive, stack, addresses, closest, ft>>
  /\ UNCHANGED <<deployment, computers, lambdas, announced, etsi, rows, purged>>

(***************************************************************************)
(* The steps of a handler.                                                 *)
(***************************************************************************)
Running(op) == alive /\ stack # <<>> /\ Head(stack).op = op

AddAgain ==
  /\ Running("insert")
  /\ Insert(Head(stack).c, Head(stack).set, Tail(stack))
  /\ UNCHANGED <<deployment, alive, routers, hier, etsi, network>>

privateAnnounceComputer ==
  /\ Running("announce")
  /\ LET c == Head(stack).c
     IN \/ kind = "flat" /\ flat_privateAnnounceComputer(c) /\ UNCHANGED closest
        \/ kind = "hier" /\ hier_privateAnnounceComputer(c)
        \/ kind = "etsi" /\ stack' = Tail(stack) /\ UNCHANGED closest
  /\ UNCHANGED <<deployment, alive, base, addresses, announced, ft, etsi, network>>

privateRemoveComputer ==
  /\ Running("withdraw")
  /\ LET c == Head(stack).c
         set == Head(stack).set
     IN \/ kind = "flat" /\ flat_privateRemoveComputer(c, set) /\ UNCHANGED announced
        \/ kind = "hier" /\ hier_privateRemoveComputer(c, set)
        \/ kind = "etsi" /\ stack' = Tail(stack) /\ UNCHANGED announced
  /\ UNCHANGED <<deployment, alive, base, addresses, closest, ft, etsi, network>>

Sending == Running("commands") /\ Head(stack).list # <<>>

CommandSucceeds ==
  /\ Sending
  /\ LET f == Head(stack)
         cmd == Head(f.list)
     IN /\ Reaches(cmd)
        /\ rows' = [rows EXCEPT ![cmd.router] = Applied(cmd, @)]
        /\ purged' = [purged EXCEPT ![cmd.router] = @ \ Overwritten(cmd, @)]
        /\ stack' = <<[f EXCEPT !.list = Tail(@)]>> \o Tail(stack)
  /\ UNCHANGED <<deployment, alive, base, hier, etsi, session>>

(* Mutant: a hierarchical controller goes on with the next router. *)
CommandFailsNoReset ==
  /\ Sending /\ ~Reaches(Head(Head(stack).list))
  /\ LET f == Head(stack)
         r == Head(f.list).router
     IN /\ routers' = routers \ {r}
        /\ addresses' = [addresses EXCEPT ![address[r]] = @ \ {r}]
        /\ closest' = <<>>
        /\ ft' = ft \ {r}
        /\ stack' = <<[f EXCEPT !.list = Tail(@)]>> \o Tail(stack)
  /\ UNCHANGED <<deployment, alive, computers, lambdas, announced, etsi, network>>

\* removeRouter().  A flat controller goes on with the next router; a
\* hierarchical one returns from the function after it has reset all tables.
\* In the loop over the other routers the argument is a reference to the key
\* that theRouters.remove() erases: what privateRemoveRouter() then reads is
\* still the end-point, or it is no end-point and address() throws, which ends
\* the handler (EdgeControllerServer::apply catches), or assertions fail.
CommandFails ==
  /\ Sending /\ ~Reaches(Head(Head(stack).list))
  /\ LET f == Head(stack)
         r == Head(f.list).router
     IN /\ routers' = routers \ {r}
        /\ \/ /\ kind = "flat"
              /\ stack' = <<[f EXCEPT !.list = Tail(@)]>> \o Tail(stack)
              /\ UNCHANGED <<alive, addresses, closest, ft>>
           \/ kind = "hier" /\ hier_privateRemoveRouter(r) /\ UNCHANGED alive
           \/ /\ kind = "hier" /\ f.then = Others
              /\ alive' \in BOOLEAN /\ stack' = <<>>
              /\ UNCHANGED <<addresses, closest, ft>>
  /\ UNCHANGED <<deployment, computers, lambdas, announced, etsi, network>>

\* All commands were accepted.
LoopEnds ==
  /\ Running("commands") /\ Head(stack).list = <<>>
  /\ LET then == Head(stack).then
     IN \/ /\ then \in {Done, Others}
           /\ stack' = Tail(stack)
           /\ UNCHANGED announced
        \/ then.op = "home" /\ AnnounceHome(then.c, then.router)
        \/ /\ then.op = "rebuild"
           /\ announced' = [r \in Routers |-> [l \in Lambdas |-> {}]]
           /\ LET order == Sorted({c \in Computers : computers[c] # {}})
              IN stack' = [i \in DOMAIN order |-> [op |-> "announce", c |-> order[i]]]
                            \o Tail(stack)
  /\ UNCHANGED <<deployment, alive, base, addresses, closest, ft, etsi, network>>

Hook ==
  /\ alive /\ stack # <<>>
  /\ LET f == Head(stack)
     IN \/ f.op = "addLambda" /\ etsi' = addLambda(etsi, f.l)
        \/ f.op = "delLambda" /\ etsi' = delLambda(etsi, f.l)
        \/ f.op = "addComputer" /\ etsi' = addComputer(etsi, f.c, f.set)
        \/ f.op = "delComputer" /\ etsi' = delComputer(etsi, f.c, f.set)
  /\ stack' = Tail(stack)
  /\ UNCHANGED <<deployment, alive, base, hier, network>>

Step == \/ AddAgain \/ privateAnnounceComputer \/ privateRemoveComputer
        \/ CommandSucceeds \/ CommandFails \/ LoopEnds \/ Hook

(***************************************************************************)
(* The routers, the LCM proxy with its clients, and the periodic task.     *)
(***************************************************************************)
\* The table of a router is lost with it.  What routers do after the controller
\* has died is of no interest.
Crash(r) ==
  /\ alive /\ session[r] # "down"
  /\ session' = [session EXCEPT ![r] = "down"]
  /\ rows' = [rows EXCEPT ![r] = {}]
  /\ purged' = [purged EXCEPT ![r] = {}]
  /\ UNCHANGED <<deployment, alive, base, hier, etsi, stack>>

Start(r) ==
  /\ alive /\ r \in deployment.routers /\ session[r] = "down"
  /\ session' = [session EXCEPT ![r] = "starting"]
  /\ UNCHANGED <<deployment, alive, base, hier, etsi, stack, rows, purged>>

PurgedRows == UNION {{r} \X purged[r] : r \in Routers}

\* A call to the destination of a row, be it a computer or a router, has failed:
\* the router removes the row, whatever the controller is doing.
Purge(r, x) ==
  /\ alive /\ session[r] = "running" /\ x \in Table(r)
  /\ Cardinality(PurgedRows) < MaxPurged
  /\ purged' = [purged EXCEPT ![r] = @ \cup {x}]
  /\ UNCHANGED <<deployment, alive, base, hier, etsi, stack, session, rows>>

optimizeTask ==
  /\ kind = "etsi" /\ alive
  /\ etsi.contexts # etsi.last
  /\ etsi' = optimize(etsi)
  /\ UNCHANGED <<deployment, alive, base, hier, stack, network>>

CreateContext(k) ==
  /\ kind = "etsi" /\ k \in deployment.contexts \ DOMAIN etsi.contexts
  /\ ContextOf[k][2] \in etsi.apps
  /\ etsi' = [etsi EXCEPT !.contexts =
        [x \in DOMAIN @ \cup {k} |-> ContextOf[x]]]
  /\ UNCHANGED <<deployment, alive, base, hier, stack, network>>

DeleteContext(k) ==
  /\ k \in DOMAIN etsi.contexts
  /\ etsi' = [etsi EXCEPT !.contexts = [x \in DOMAIN @ \ {k} |-> @[x]]]
  /\ UNCHANGED <<deployment, alive, base, hier, stack, network>>

Init ==
  /\ deployment \in Deployments
  /\ alive = TRUE
  /\ computers = [c \in Computers |-> {}]
  /\ routers = {}
  /\ lambdas = [l \in Lambdas |-> {}]
  /\ addresses = [a \in Addresses |-> {}]
  /\ closest = <<>>
  /\ announced = [r \in Routers |-> [l \in Lambdas |-> {}]]
  /\ ft = {}
  /\ etsi = EtsiInit
  /\ stack = <<>>
  /\ session = [r \in Routers |-> "down"]
  /\ rows = [r \in Routers |-> {}]
  /\ purged = [r \in Routers |-> {}]

Event ==
  \/ \E c \in Computers : \E set \in deployment.offers : announceComputer(c, set)
  \/ \E c \in Computers : removeComputer(c)
  \/ \E r \in Routers : announceRouter(r) \/ Crash(r) \/ Start(r)
  \/ \E r \in Routers : \E x \in rows[r] : Purge(r, x)
  \/ \E k \in DOMAIN ContextOf : CreateContext(k) \/ DeleteContext(k)
  \/ optimizeTask

Next == Step \/ Event
Spec == Init /\ [][Next]_vars /\ WF_vars(Step)

(***************************************************************************)
(* Properties.                                                             *)
(***************************************************************************)
Rows == {x \in [l : Lambdas, d : Ends, final : BOOLEAN] : x.final <=> x.d \in Computers}

\* The calls that a handler may have left to do.
CommandType == [what : {"change", "remove", "flush"}, to : {"table-server", "lambda-server"},
                router : Routers, rows : SUBSET Rows]
ThenType == {Done, Others, [op |-> "rebuild"]} \cup [op : {"home"}, c : Computers, router : Routers]
Calls ==
  [op : {"insert", "withdraw", "addComputer", "delComputer"}, c : Computers, set : ContainerLists]
    \cup [op : {"announce"}, c : Computers]
    \cup [op : {"commands"}, list : Seq(CommandType), then : ThenType]
    \cup [op : {"addLambda", "delLambda"}, l : Lambdas]

\* The state is well formed: a hierarchical controller has every router of
\* theRouters in theForwardingTableEndpoints (there may be others, see
\* CommandFails), with which the index by address agrees, theLambdas is the
\* inverse of theComputers, and in a table the computers, and they only, are
\* final destinations.
TypeOK ==
  /\ deployment \in Deployments /\ alive \in BOOLEAN
  /\ computers \in [Computers -> SUBSET Lambdas]
  /\ lambdas = [l \in Lambdas |-> {c \in Computers : l \in computers[c]}]
  /\ routers \subseteq Routers
  /\ kind = "hier" /\ alive =>
       /\ routers \subseteq ft
       /\ addresses = [a \in Addresses |-> {r \in ft : address[r] = a}]
  /\ announced \in [Routers -> [Lambdas -> SUBSET Computers]]
  /\ DOMAIN closest \subseteq Addresses
  /\ stack \in Seq(Calls)
  /\ session \in [Routers -> {"down", "starting", "running"}]
  /\ rows \in [Routers -> SUBSET Rows]
  /\ purged \in [Routers -> SUBSET Rows]

\* The rows that a router must have, according to the controller.
Expected(r) ==
  IF kind = "flat"
  THEN {x \in Rows : x.final /\ x.d \in Computers /\ x.l \in computers[x.d]}
  ELSE {x \in Rows : \/ x.final /\ x.d \in announced[r][x.l]
                     \/ ~x.final /\ x.d \in Routers \ {r} /\ announced[x.d][x.l] # {}}

\* No router was left in theForwardingTableEndpoints only, by address() when it
\* throws for a reference to an end-point that was erased.
NoneLost == kind = "hier" => routers = ft

\* When no handler is running, a router that the controller counts on and that
\* did not restart has the routes that the controller believes it has, but for
\* those that it has purged itself since they were installed, and no other,
\* whatever failed while they were installed (edgecontrollerflat.cpp,
\* edgecontrollerhier.cpp).  A hierarchical controller believes so of known
\* computers and routers only, and of all known computers if findClosest()
\* cannot throw for any computer.
RoutesInstalled ==
  Idle /\ kind # "etsi" /\ NoneLost =>
    /\ \A r \in routers :
         session[r] = "running" => rows[r] = Expected(r) /\ Table(r) = Expected(r) \ purged[r]
    /\ \A c \in Computers, l \in Lambdas :
         HomeOf(c, l) # {} => l \in computers[c] /\ HomeOf(c, l) \subseteq routers
    /\ (/\ kind = "hier" /\ routers # {}
        /\ ~InvalidNodes(Topology, {address[e] : e \in routers \cup deployment.computers}))
         => \A c \in Computers : \A l \in computers[c] : HomeOf(c, l) # {}

\* The home routers that a hierarchical controller remembers are those that it
\* would find now, among the routers it knows (theClosest is not stale); and if
\* distances are like numbers of hops, they are those that its objective
\* prefers (the weighted score orders as the documented pair of costs).
HomeIsClosest ==
  \A a \in DOMAIN closest :
    LET known == RouterAddresses(addresses)
    IN /\ closest[a] = Closest(Topology, deployment.objective, known, a)
       /\ HopCounts(Topology) => closest[a] \in Preferred(Topology, deployment.objective, known, a)

\* The LCM proxy knows exactly the lambdas that some computer serves, and
\* sends the clients of each by default to a computer that serves it.
DefaultServed ==
  Idle /\ kind = "etsi" =>
    LET served == {l \in Lambdas : lambdas[l] # {}}
    IN /\ etsi.apps = served /\ DOMAIN etsi.route = served
       /\ \A l \in served : etsi.route[l] \in lambdas[l]

\* The contexts are spread over the computers: each group is assigned to one
\* that serves its lambda, and none that serves it was used less when a
\* computer received its last group (edgecontrolleretsibalanced.cpp, "fit each
\* element in the least used computer that supports the lambda").
AssociationsBalanced ==
  LET groups == Groups(etsi.contexts)
      served == {i \in DOMAIN groups : groups[i].l \in DOMAIN etsi.desc}
      rs == table(etsi.contexts, etsi.desc)
      group(r) == CHOOSE i \in served : groups[i].l = r.l /\ groups[i].client = r.client
      weight == [i \in DOMAIN rs |-> groups[group(rs[i])].n]
      load(c) == MapThenSumSet(LAMBDA i : weight[i], {i \in DOMAIN rs : rs[i].c = c})
  IN /\ Len(rs) = Cardinality(served)
     /\ \A i \in DOMAIN rs : LET r == rs[i] IN
          /\ r.c \in etsi.desc[r.l].computers
          /\ \/ \E j \in i + 1..Len(rs) : rs[j].c = r.c
             \/ \A d \in etsi.desc[r.l].computers : load(r.c) - weight[i] <= load(d)

\* A handler releases theMutex: the mutual recursion of reset() and
\* privateAnnounceComputer() ends although routers fail meanwhile
\* (edgecontrollerhier.cpp, comment in reset()).
HandlerEnds == stack # <<>> ~> stack = <<>>

\* Only a router that does not answer is removed from the controller (comment
\* of EdgeController::removeRouter).
DroppedOnlyIfDown ==
  [][\A r \in routers \ routers' : session[r] = "down"]_vars
=============================================================================
