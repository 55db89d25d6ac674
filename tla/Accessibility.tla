---------------------------- MODULE Accessibility ----------------------------
(***************************************************************************)
(* hyprpilot-a11y and the a11y helpers of hyprpilot-daemon/src/server.rs:  *)
(* one cached connection to the accessibility bus, found or made under a   *)
(* mutex, and the bounded walk of an application's tree that each request  *)
(* makes over it.  Bus and applications are foreign: the bus may restart,  *)
(* which kills every connection to it, and an application may change its   *)
(* tree between any two reads, have a node that is its own descendant, or  *)
(* quit.                                                                   *)
(***************************************************************************)
EXTENDS Naturals, Sequences, FiniteSets, SequencesExt

CONSTANTS
    Client,       \* requests that may be under way at once
    Node,         \* object references
    Trees,        \* what the applications may publish: children by node
    Null,         \* the null reference
    Roots,        \* the registry's children in order: [root, pid]
    Asks,         \* requests: pid, max_nodes and the nodes the query matches
    MaxDepth,     \* WalkOpts::max_depth
    MaxRequests,  \* bound: requests made
    MaxRestarts,  \* bound: restarts of the bus
    MaxTreeChanges   \* bound: changes of the tree

VARIABLES
    bus,       \* is the bus up, and which incarnation is it
    cached,    \* State::a11y: the incarnation connected to, or NoConn
    lock,      \* who holds the mutex around it
    tree,      \* children of the nodes that exist
    req,       \* the request of each client
    made,      \* history: connections made to this incarnation
    unavail,   \* history: drops of the connection decided on since it came up,
               \* or still to be carried out then
    budget     \* what may still happen, by bound

a11yVars == <<bus, cached, lock, tree, req, made, unavail, budget>>

NoConn == 0
Unlocked == "nobody"

\* The elements of s that are in S, in their order.
Among(s, S) == FlattenSeq([i \in 1..Len(s) |-> IF s[i] \in S THEN <<s[i]>> ELSE <<>>])

ASSUME TreeAssumption ==
    /\ IsFiniteSet(Client) /\ Unlocked \notin Client
    /\ \A t \in Trees : DOMAIN t \subseteq Node /\ \A n \in DOMAIN t : t[n] \in Seq(Node)
    /\ Null \in Node /\ \A t \in Trees : Null \notin DOMAIN t
    /\ Roots \in Seq([root : Node, pid : STRING])
    /\ Asks \subseteq [pid : STRING, cap : Nat \ {0}, wanted : SUBSET Node]
    /\ MaxDepth \in Nat
    /\ MaxRequests \in Nat /\ MaxRestarts \in Nat /\ MaxTreeChanges \in Nat

Done(outcome) ==
    [pc |-> "done", ask |-> [pid |-> "none", cap |-> 1, wanted |-> {}], conn |-> NoConn,
     root |-> "none", stack |-> <<>>, out |-> <<>>, calm |-> FALSE, outcome |-> outcome]

\* Does a call over the connection reach the bus?
Alive(conn) == bus.up /\ conn = bus.gen

A11yInit ==
    /\ bus \in [up : BOOLEAN, gen : {1}]
    /\ cached = NoConn
    /\ lock = Unlocked
    /\ tree \in Trees
    /\ req = [c \in Client |-> Done("none")]
    /\ made = 0 /\ unavail = 0
    /\ budget = [requests |-> MaxRequests, restarts |-> MaxRestarts, changes |-> MaxTreeChanges]

-----------------------------------------------------------------------------
(* The handlers.                                                           *)

world == <<bus, tree, budget>>

\* a11y_tree and a11y_find, up to the pid: the caller's, or the one of the
\* focused window, if there is one and it can be read.
Submit(c, ask) ==
    /\ req[c].pc = "done" /\ budget.requests > 0
    /\ budget' = [budget EXCEPT !.requests = @ - 1]
    /\ req' = [req EXCEPT ![c] = [Done("none") EXCEPT !.pc = "conn", !.ask = ask]]
    /\ UNCHANGED <<bus, cached, lock, tree, made, unavail>>

NoFocus(c) ==
    /\ req[c].pc = "conn"
    /\ req' = [req EXCEPT ![c] = Done("no_app")]
    /\ UNCHANGED <<world, cached, lock, made, unavail>>

\* a11y_error_response: an error that is not Unavailable leaves the cached
\* connection alone.
Fail(c, kind) ==
    IF kind = "unavailable"
    THEN req' = [req EXCEPT ![c].pc = "drop"] /\ unavail' = unavail + 1
    ELSE req' = [req EXCEPT ![c] = Done(kind)] /\ UNCHANGED unavail

\* Unavailable drops it, under the mutex again: it may be another by now.
DropConn(c) ==
    /\ req[c].pc = "drop" /\ lock = Unlocked
    /\ cached' = NoConn
    /\ req' = [req EXCEPT ![c] = Done("unavailable")]
    /\ UNCHANGED <<world, lock, made, unavail>>

\* Faulty variant: the mutex is not held across the connect.
TakeShared(c) ==
    /\ req[c].pc = "conn"
    /\ IF cached = NoConn
       THEN req' = [req EXCEPT ![c].pc = "connect"]
       ELSE req' = [req EXCEPT ![c].pc = "find", ![c].conn = cached]
    /\ UNCHANGED <<world, cached, lock, made, unavail>>

\* a11y_conn: under the mutex, the cached connection or a new one.
Take(c) ==
    /\ req[c].pc = "conn" /\ lock = Unlocked
    /\ IF cached = NoConn
       THEN lock' = c /\ req' = [req EXCEPT ![c].pc = "connect"]
       ELSE UNCHANGED lock /\ req' = [req EXCEPT ![c].pc = "find", ![c].conn = cached]
    /\ UNCHANGED <<world, cached, made, unavail>>

\* Faulty variant: the mutex is kept when the connect fails.
ConnectLocked(c) ==
    /\ req[c].pc = "connect"
    /\ \/ /\ bus.up
          /\ lock' = Unlocked
          /\ cached' = bus.gen /\ made' = made + 1
          /\ req' = [req EXCEPT ![c].pc = "find", ![c].conn = bus.gen]
          /\ UNCHANGED unavail
       \/ Fail(c, "unavailable") /\ UNCHANGED <<cached, made, lock>>
    /\ UNCHANGED world

\* A11y::connect, which may fail on a bus that is up, too.
Connect(c) ==
    /\ req[c].pc = "connect"
    /\ lock' = Unlocked
    /\ \/ /\ bus.up
          /\ cached' = bus.gen /\ made' = made + 1
          /\ req' = [req EXCEPT ![c].pc = "find", ![c].conn = bus.gen]
          /\ UNCHANGED unavail
       \/ Fail(c, "unavailable") /\ UNCHANGED <<cached, made>>
    /\ UNCHANGED world

-----------------------------------------------------------------------------
(* The library.                                                            *)

\* find_app, its calls to the registry: any error is a Bus error.  Building
\* the D-Bus proxy is the one call behind it that reports Unavailable.
Find(c) ==
    /\ req[c].pc = "find"
    /\ \/ ~Alive(req[c].conn) /\ Fail(c, "bus")
       \/ Alive(req[c].conn) /\ req' = [req EXCEPT ![c].pc = "proxy"] /\ UNCHANGED unavail
    /\ UNCHANGED <<world, cached, lock, made>>

Proxy(c) ==
    /\ req[c].pc = "proxy"
    /\ \/ ~Alive(req[c].conn) /\ Fail(c, "unavailable")
       \/ req' = [req EXCEPT ![c].pc = "match"] /\ UNCHANGED unavail
    /\ UNCHANGED <<world, cached, lock, made>>

\* The first application of the pid; one whose pid cannot be asked is none.
Match(c) ==
    /\ req[c].pc = "match"
    /\ LET mine == {i \in 1..Len(Roots) : /\ Roots[i].pid = req[c].ask.pid
                                          /\ Roots[i].root \in DOMAIN tree
                                          /\ Alive(req[c].conn)}
       IN  \/ mine = {} /\ Fail(c, "no_app")
           \/ \E first \in mine :
                 /\ \A i \in mine : first <= i
                 /\ req' = [req EXCEPT ![c].pc = "walk", ![c].calm = TRUE,
                                       ![c].root = Roots[first].root,
                                       ![c].stack = <<[node |-> Roots[first].root, depth |-> 0]>>]
                 /\ UNCHANGED unavail
    /\ UNCHANGED <<world, cached, lock, made>>

Reads(c, n) == Alive(req[c].conn) /\ n \in DOMAIN tree

Item(top, known) == [node |-> top.node, depth |-> top.depth, known |-> known]

\* Faulty variant: the cap is looked at too late.
FullLate(r) == Len(r.out) > r.ask.cap

Full(r) == Len(r.out) >= r.ask.cap

\* One turn of the loop: the entry on top is dropped if it is too deep, null,
\* or cannot be opened.  One that opens but then does not answer is listed
\* without a role or a name.
Visit(c) ==
    LET r == req[c]
        top == r.stack[Len(r.stack)]
    IN  /\ r.pc = "walk" /\ r.stack # <<>> /\ ~Full(r)
        /\ \/ /\ top.depth > MaxDepth \/ top.node = Null \/ ~Reads(c, top.node)
              /\ req' = [req EXCEPT ![c].stack = Front(@)]
           \/ /\ top.depth <= MaxDepth /\ top.node # Null
              /\ req' = [req EXCEPT ![c].pc = "children",
                                    ![c].out = Append(@, Item(top, Reads(c, top.node)))]
        /\ UNCHANGED <<world, cached, lock, made, unavail>>

\* Faulty variant: the children are pushed as they come.
PushedInOrder(entries) == entries

\* Siblings come off the stack in document order.
Pushed(entries) == Reverse(entries)

\* get_children of the node just listed, whose entry is still on top.
Children(c) ==
    LET r == req[c]
        top == r.stack[Len(r.stack)]
        kids == IF Reads(c, top.node) THEN tree[top.node] ELSE <<>>
    IN  /\ r.pc = "children"
        /\ req' = [req EXCEPT ![c].pc = "walk",
                     ![c].stack = Front(@) \o Pushed([i \in 1..Len(kids) |->
                                     [node |-> kids[i], depth |-> top.depth + 1]])]
        /\ UNCHANGED <<world, cached, lock, made, unavail>>

\* filter_elements: a node without a name matches no query.
Hits(out, wanted) == Among(out, {e \in Range(out) : e.known /\ e.node \in wanted})

\* The walk ends with its stack, or at the cap; a cut is logged, not told.
AnswerWalk(c) ==
    LET r == req[c]
    IN  /\ r.pc = "walk"
        /\ r.stack = <<>> \/ Full(r)
        /\ req' = [req EXCEPT ![c] = [Done("ok") EXCEPT
                      !.out = IF r.ask.wanted = Node THEN r.out ELSE Hits(r.out, r.ask.wanted),
                      !.root = r.root, !.ask = r.ask, !.calm = r.calm]]
        /\ UNCHANGED <<world, cached, lock, made, unavail>>

-----------------------------------------------------------------------------
(* Bus and applications.                                                   *)

Disturbed == [c \in Client |-> [req[c] EXCEPT !.calm = FALSE]]

BusStops ==
    /\ bus.up /\ budget.restarts > 0
    /\ bus' = [bus EXCEPT !.up = FALSE]
    /\ budget' = [budget EXCEPT !.restarts = @ - 1]
    /\ req' = Disturbed
    /\ UNCHANGED <<cached, lock, tree, made, unavail>>

BusStarts ==
    /\ ~bus.up
    /\ bus' = [up |-> TRUE, gen |-> bus.gen + 1]
    /\ made' = 0 /\ unavail' = Cardinality({c \in Client : req[c].pc = "drop"})
    /\ UNCHANGED <<cached, lock, tree, req, budget>>

Change ==
    /\ budget.changes > 0
    /\ tree' \in Trees \ {tree}
    /\ budget' = [budget EXCEPT !.changes = @ - 1]
    /\ req' = Disturbed
    /\ UNCHANGED <<bus, cached, lock, made, unavail>>

Step(c) ==
    \/ Take(c) \/ Connect(c) \/ DropConn(c) \/ Find(c) \/ Proxy(c) \/ Match(c)
    \/ Visit(c) \/ Children(c) \/ AnswerWalk(c)

A11yNext ==
    \/ \E c \in Client :
          \/ \E ask \in Asks : Submit(c, ask)
          \/ NoFocus(c)
          \/ Step(c)
    \/ BusStops \/ BusStarts \/ Change

A11ySpec == A11yInit /\ [][A11yNext]_a11yVars

\* Handlers run, their calls to the bus end one way or another, and the mutex
\* goes to those who wait for it in turn.
A11yFairSpec ==
    A11ySpec /\ \A c \in Client : SF_a11yVars(Take(c) \/ DropConn(c)) /\ WF_a11yVars(Step(c))

-----------------------------------------------------------------------------
(* Properties.                                                             *)

Entry == [node : Node, depth : Nat]

\* Types: a request holds a connection only between taking and answering it.
A11yTypeOK ==
    /\ bus \in [up : BOOLEAN, gen : 1..MaxRestarts + 2]
    /\ cached \in 0..bus.gen
    /\ lock \in Client \union {Unlocked}
    /\ tree \in Trees
    /\ \A c \in Client :
          /\ req[c].pc \in {"conn", "connect", "drop", "find", "proxy", "match", "walk", "children", "done"}
          /\ req[c].stack \in Seq(Entry)
          /\ req[c].out \in Seq([node : Node, depth : Nat, known : BOOLEAN])
          /\ (lock = c) = (req[c].pc = "connect")

\* The part of tree t at and below node n at depth d, in document order, down
\* to the deepest level; below has it by the number of levels that are left.
Preorder(t, d, n) ==
    LET below[k \in 0..MaxDepth + 1] ==
            [m \in Node |->
                IF k = 0 \/ m \notin DOMAIN t THEN <<>>
                ELSE <<[node |-> m, depth |-> MaxDepth + 1 - k, known |-> TRUE]>>
                     \o FlattenSeq([i \in 1..Len(t[m]) |-> below[k - 1][t[m][i]]])]
    IN  below[MaxDepth + 1 - d][n]

\* What the entries of a stack still stand for, from the top.
Pending(t, stack) ==
    FlattenSeq([i \in 1..Len(stack) |->
        LET e == stack[Len(stack) + 1 - i] IN Preorder(t, e.depth, e.node)])

\* Nobody has a child that is gone.
Complete(t) == \A n \in DOMAIN t : Range(t[n]) \subseteq DOMAIN t \union {Null}

\* If bus and tree stay as they are, what has been listed and what the stack
\* still holds are together the tree in document order, cut at the depth (a
\* tree that contains itself is unrolled that far), and the answer is its
\* beginning up to the cap (A11y::walk).  A child that is gone may be listed
\* or not, as its opening goes: of a tree with such nothing is said.
WalkIsPreorder ==
    Complete(tree) =>
        \A c \in Client : req[c].calm =>
            LET r == req[c]
                all == Preorder(tree, 0, r.root)
                shown == SubSeq(all, 1, IF Len(all) < r.ask.cap THEN Len(all) ELSE r.ask.cap)
            IN  /\ r.pc = "walk" => r.out \o Pending(tree, r.stack) = all
                /\ r.pc = "done" =>
                      r.out = Among(shown, {e \in Range(shown) : e.node \in r.ask.wanted})

\* However the tree changes under the walk, its list stays within the cap and
\* the depth, and an element is at most one level below the one before it.
WalkBounded ==
    \A c \in Client :
        LET r == req[c]
        IN  r.pc # "done" =>
                /\ Len(r.out) <= r.ask.cap
                /\ \A i \in 1..Len(r.out) : r.out[i].depth <= MaxDepth
                /\ \A i \in 2..Len(r.out) : r.out[i].depth <= r.out[i - 1].depth + 1

\* The mutex around the cached connection: a bus is connected to once, and
\* once more at most for every failure that was taken for its absence, or for
\* that of the bus before it (a11y_error_response may drop a good connection).
ConnectsOnce == made <= 1 + unavail

\* Every request is answered, whatever becomes of bus and applications.
EveryRequestAnswered == \A c \in Client : []<>(req[c].pc = "done")
=============================================================================
