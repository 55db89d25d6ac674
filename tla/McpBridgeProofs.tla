---------------------------- MODULE McpBridgeProofs ----------------------------
(***************************************************************************)
(* Proofs about McpBridge, for any profiles, tools and layouts, and        *)
(* however often daemons die, connections break and others act.            *)
(***************************************************************************)
EXTENDS McpBridge, SequenceTheorems, FiniteSetTheorems, WellFoundedInduction, TLAPS

\* The agent's request, as its handler sees it, and its command to the worker.
Request == handler["mcp"]
Command == cmd["mcp"]

\* An effect of the call in progress.
Done(op) == \E i \in 1..Len(call.done) : call.done[i] = op

\* The stages of a plan are different.
OnceEach(todo) == \A i, j \in 1..Len(todo) : todo[i] = todo[j] => i = j

\* The types, as far as they matter.
CallShape == DOMAIN call = {"pc", "tool", "dry", "region", "todo", "x", "done", "calm", "outcome"}
RequestShape == DOMAIN handler = Client /\ DOMAIN Request = {"st", "op", "x", "dry", "ok"}
CommandShape == DOMAIN cmd = Client /\ DOMAIN Command = {"op", "x", "st"}

Shaped ==
    /\ CallShape /\ RequestShape /\ CommandShape
    /\ call.pc \in {"idle", "work", "asked"}
    /\ call.todo \in Seq(Stages) /\ call.done \in Seq(Stages)
    /\ inbox \in Seq(Client)

\* Of what the call has still to do nothing has been done, except perhaps the
\* stage whose request is out.
Ahead ==
    /\ OnceEach(call.todo)
    /\ \A i \in 1..Len(call.todo) : i > 1 => ~Done(call.todo[i])
    /\ call.pc # "idle" => call.todo # <<>>
    /\ call.pc = "work" => ~Done(call.todo[1])

\* A request or a command that may take effect has not, and is for that stage.
Pending ==
    /\ call.pc # "asked" => Request.st = "none"
    /\ Request.st = "received" => Request.op = call.todo[1] /\ ~Done(call.todo[1])
    /\ Command.st = "queued" =>
          Request.st = "pointer" /\ Command.op = call.todo[1] /\ ~Done(call.todo[1])

\* The worker has the agent's command once, and only while it is not answered.
Channel ==
    /\ \A i \in 1..Len(inbox) : inbox[i] = "mcp" => Command.st = "queued" /\ sent.who # "mcp"
    /\ \A i, j \in 1..Len(inbox) : inbox[i] = "mcp" /\ inbox[j] = "mcp" => i = j
    /\ sent.who = "mcp" => Command.st = "queued" /\ sent.op = Command.op

BridgeInv == Shaped /\ Ahead /\ Pending /\ Channel /\ AtMostOnce

-----------------------------------------------------------------------------
(* What the server does.                                                   *)

\* A step that changes of the call no more than whether it is calm.
SameCall ==
    /\ DOMAIN call' = DOMAIN call /\ call'.pc = call.pc
    /\ call'.todo = call.todo /\ call'.done = call.done

LEMMA CalmOnly ==
  ASSUME Shaped, NEW b, call' = [call EXCEPT !.calm = b]
  PROVE  SameCall
BY DEF Shaped, CallShape, SameCall

\* Stages one after the other that none of both has twice.
LEMMA JoinedIsOnceEach ==
  ASSUME NEW s \in Seq(Stages), NEW t \in Seq(Stages), OnceEach(s), OnceEach(t),
         \A i \in 1..Len(s), j \in 1..Len(t) : s[i] # t[j]
  PROVE  s \o t \in Seq(Stages) /\ OnceEach(s \o t)
<1>1. /\ s \o t \in Seq(Stages) /\ Len(s \o t) = Len(s) + Len(t)
      /\ Len(s) \in Nat /\ Len(t) \in Nat
      /\ \A i \in 1..Len(s) + Len(t) : (s \o t)[i] = IF i <= Len(s) THEN s[i] ELSE t[i - Len(s)]
  BY ConcatProperties, LenProperties
<1>2. SUFFICES ASSUME NEW i \in 1..Len(s \o t), NEW j \in 1..Len(s \o t),
                      (s \o t)[i] = (s \o t)[j]
               PROVE  i = j
  BY <1>1 DEF OnceEach
<1>3. CASE i <= Len(s) /\ j <= Len(s)
  BY <1>1, <1>2, <1>3 DEF OnceEach
<1>4. CASE i > Len(s) /\ j > Len(s)
  <2>1. i - Len(s) \in 1..Len(t) /\ j - Len(s) \in 1..Len(t)
    BY <1>1, <1>4
  <2>2. t[i - Len(s)] = t[j - Len(s)]
    BY <1>1, <1>2, <1>4
  <2>3. i - Len(s) = j - Len(s)
    BY <2>1, <2>2 DEF OnceEach
  <2>4. QED BY <1>1, <2>3
<1>5. CASE i <= Len(s) /\ j > Len(s)
  <2>1. i \in 1..Len(s) /\ j - Len(s) \in 1..Len(t)
    BY <1>1, <1>5
  <2>2. QED BY <1>1, <1>2, <1>5, <2>1
<1>6. CASE i > Len(s) /\ j <= Len(s)
  <2>1. j \in 1..Len(s) /\ i - Len(s) \in 1..Len(t)
    BY <1>1, <1>6
  <2>2. QED BY <1>1, <1>2, <1>6, <2>1
<1>7. QED BY <1>1, <1>3, <1>4, <1>5, <1>6

\* Plans of no, one and two stages.
Over(p, S) == p \in Seq(Stages) /\ OnceEach(p) /\ \A i \in 1..Len(p) : p[i] \in S

LEMMA NoStage == ASSUME NEW S PROVE Over(<<>>, S)
<1>1. <<>> \in Seq(Stages) /\ Len(<<>>) = 0
  BY EmptySeq
<1>2. QED BY <1>1 DEF Over, OnceEach

LEMMA OneStage == ASSUME NEW a \in Stages PROVE Over(<<a>>, {a})
<1>1. <<a>> \in Seq(Stages) /\ Len(<<a>>) = 1 /\ <<a>>[1] = a
  OBVIOUS
<1>2. \A i \in 1..1 : i = 1
  OBVIOUS
<1> DEFINE p == <<a>>
<1> HIDE DEF p
<1>3. p \in Seq(Stages) /\ Len(p) = 1 /\ p[1] = a
  BY <1>1 DEF p
<1>4. Over(p, {a})
  BY <1>2, <1>3 DEF Over, OnceEach
<1>5. QED BY <1>4 DEF p

LEMMA TwoStages == ASSUME NEW a \in Stages, NEW b \in Stages, a # b PROVE Over(<<a, b>>, {a, b})
<1>1. <<a, b>> \in Seq(Stages) /\ Len(<<a, b>>) = 2 /\ <<a, b>>[1] = a /\ <<a, b>>[2] = b
  OBVIOUS
<1>2. \A i \in 1..2 : i = 1 \/ i = 2
  OBVIOUS
<1> DEFINE p == <<a, b>>
<1> HIDE DEF p
<1>3. p \in Seq(Stages) /\ Len(p) = 2 /\ p[1] = a /\ p[2] = b
  BY <1>1 DEF p
<1>4. Over(p, {a, b})
  BY <1>2, <1>3 DEF Over, OnceEach
<1>5. QED BY <1>4 DEF p

\* Every plan has different stages.
LEMMA PlanIsOnceEach ==
  ASSUME NEW tool, NEW dry, NEW active
  PROVE  Plan(tool, dry, active) \in Seq(Stages) /\ OnceEach(Plan(tool, dry, active))
<1> DEFINE scope == IF active THEN <<"active">> ELSE <<>>
           press == IF dry THEN <<>> ELSE <<"abs", "click">>
           seen == <<"scan", "monitors">>
           found == <<"find", "clients">>
           scan == <<"scan">>
           Fine(p) == p \in Seq(Stages) /\ OnceEach(p)
<1>0. {"read", "mutate", "bind", "keys", "abs", "click", "scan", "active", "monitors", "find",
       "clients"} \subseteq Stages
  BY DEF Stages, Effects
<1>a. \A stage \in Stages : Over(<<stage>>, {stage})
  BY OneStage
<1>b. \A one, two \in Stages : one # two => Over(<<one, two>>, {one, two})
  BY TwoStages
<1>1. Over(scope, {"active"})
  BY <1>0, <1>a, NoStage
<1>2. Over(press, {"abs", "click"})
  <2>1. Over(<<"abs", "click">>, {"abs", "click"})
    BY <1>0, <1>b
  <2>2. QED BY <2>1, NoStage
<1>3. Over(seen, {"scan", "monitors"})
  BY <1>0, <1>b
<1>4. Over(found, {"find", "clients"})
  BY <1>0, <1>b
<1>5. Over(scan, {"scan"})
  BY <1>0, <1>a
<1>6. Plan(tool, dry, active) \in {<<>>, <<"read">>, <<"mutate">>, <<"bind">>, <<"keys">>,
         <<"abs">>, <<"click">>, scope \o seen \o press, found \o press, scope \o scan}
  BY DEF Plan
<1>7. \A p \in {<<>>, <<"read">>, <<"mutate">>, <<"bind">>, <<"keys">>, <<"abs">>, <<"click">>} :
         Fine(p)
  <2>1. \A stage \in Stages : Fine(<<stage>>)
    BY <1>a DEF Over
  <2>2. Fine(<<>>)
    BY NoStage DEF Over
  <2>3. QED BY <1>0, <2>1, <2>2
<1> HIDE DEF scope, press, seen, found, scan
<1>8. Fine(found \o press) /\ Fine(scope \o scan)
  BY <1>1, <1>2, <1>4, <1>5, JoinedIsOnceEach DEF Over
<1>9. Fine(scope \o seen)
  BY <1>1, <1>3, JoinedIsOnceEach DEF Over
<1>10. \A i \in 1..Len(scope \o seen) : (scope \o seen)[i] \in {"active", "scan", "monitors"}
  <2>1. /\ Len(scope \o seen) = Len(scope) + Len(seen)
        /\ Len(scope) \in Nat /\ Len(seen) \in Nat
        /\ \A i \in 1..Len(scope) + Len(seen) :
              (scope \o seen)[i] = IF i <= Len(scope) THEN scope[i] ELSE seen[i - Len(scope)]
    BY <1>1, <1>3, ConcatProperties, LenProperties DEF Over
  <2>2. SUFFICES ASSUME NEW i \in 1..Len(scope) + Len(seen)
                 PROVE  (scope \o seen)[i] \in {"active", "scan", "monitors"}
    BY <2>1
  <2>3. CASE i <= Len(scope)
    BY <1>1, <2>1, <2>3 DEF Over
  <2>4. CASE i > Len(scope)
    <3>1. i - Len(scope) \in 1..Len(seen)
      BY <2>1, <2>4
    <3>2. QED BY <1>3, <2>1, <2>4, <3>1 DEF Over
  <2>5. QED BY <2>1, <2>3, <2>4
<1>11. Fine(scope \o seen \o press)
  BY <1>2, <1>9, <1>10, JoinedIsOnceEach DEF Over
<1>12. QED BY <1>6, <1>7, <1>8, <1>11

-----------------------------------------------------------------------------
(* The call.                                                               *)

\* While a call is at work its first stage is one.
LEMMA FirstStage ==
  ASSUME BridgeInv, call.pc # "idle"
  PROVE  /\ Len(call.todo) \in Nat \ {0} /\ 1 \in 1..Len(call.todo)
         /\ Head(call.todo) = call.todo[1] /\ call.todo[1] \in Stages
<1>1. call.todo \in Seq(Stages) /\ call.todo # <<>>
  BY DEF BridgeInv, Shaped, Ahead
<1>2. Len(call.todo) \in Nat \ {0}
  BY <1>1, LenProperties, EmptySeq
<1>3. 1 \in 1..Len(call.todo)
  BY <1>2
<1>4. call.todo[1] \in Stages
  BY <1>1, <1>3, ElementOfSeq
<1>5. Head(call.todo) = call.todo[1]
  BY <1>1, HeadTailProperties
<1>6. QED BY <1>2, <1>3, <1>4, <1>5

\* A step that leaves the request and the command alone, and the call too.
LEMMA NothingHappens ==
  ASSUME BridgeInv, SameCall, Request' = Request, Command' = Command,
         DOMAIN handler' = Client, DOMAIN cmd' = Client, inbox' \in Seq(Client), Channel'
  PROVE  BridgeInv'
<1>1. Shaped'
  BY DEF BridgeInv, Shaped, SameCall, CallShape, RequestShape, CommandShape
<1>2. Ahead' /\ Pending' /\ AtMostOnce'
  BY DEF BridgeInv, SameCall, Ahead, Pending, AtMostOnce, Done
<1>3. QED BY <1>1, <1>2 DEF BridgeInv

\* A step after which neither the request nor the command may take effect.
LEMMA NothingWillHappen ==
  ASSUME BridgeInv, SameCall, call.pc = "asked",
         Request'.st # "received", Command'.st # "queued",
         RequestShape', CommandShape', inbox' \in Seq(Client), Channel'
  PROVE  BridgeInv'
<1>1. Shaped'
  BY DEF BridgeInv, Shaped, SameCall, CallShape
<1>2. Ahead' /\ Pending' /\ AtMostOnce'
  BY DEF BridgeInv, SameCall, Ahead, Pending, AtMostOnce, Done
<1>3. QED BY <1>1, <1>2 DEF BridgeInv

\* A stage ends with no request out: the call ends, or goes on to the next.
LEMMA StageEnds ==
  ASSUME BridgeInv, Command.st # "queued", UNCHANGED <<cmd, inbox, sent>>,
         RequestShape', Request'.st = "none",
         \/ \E outcome : Ends(outcome)
         \/ call.pc # "idle" /\ \E x, region : Advance(x, region)
  PROVE  BridgeInv'
<1>1. ASSUME NEW outcome, Ends(outcome) PROVE BridgeInv'
  <2>1. /\ CallShape' /\ call'.pc = "idle" /\ call'.todo = <<>> /\ call'.done = <<>>
    BY <1>1 DEF Ends, Idle, CallShape
  <2>2. Len(call'.todo) = 0 /\ Len(call'.done) = 0 /\ <<>> \in Seq(Stages)
    BY <2>1, EmptySeq
  <2>3. Shaped' /\ Ahead' /\ AtMostOnce'
    BY <2>1, <2>2 DEF BridgeInv, Shaped, CommandShape, Command, Ahead, OnceEach, AtMostOnce
  <2>4. Pending' /\ Channel'
    BY <2>1 DEF BridgeInv, Pending, Channel, Command
  <2>5. QED BY <2>3, <2>4 DEF BridgeInv
<1>2. ASSUME call.pc # "idle", NEW x, NEW region, Advance(x, region), Len(call.todo) # 1
      PROVE  BridgeInv'
  <2>1. /\ CallShape' /\ call'.pc = "work" /\ call'.todo = Tail(call.todo)
        /\ call'.done = call.done
    BY <1>2 DEF Advance, BridgeInv, Shaped, CallShape
  <2>2. /\ call.todo \in Seq(Stages) /\ Len(call.todo) \in Nat /\ Len(call.todo) > 1
    <3>1. Len(call.todo) \in Nat \ {0}
      BY <1>2, FirstStage
    <3>2. Len(call.todo) > 1
      <4>1. \A n \in Nat \ {0} : n # 1 => n > 1
        OBVIOUS
      <4>2. Len(call.todo) # 1
        BY <1>2
      <4>3. QED BY <3>1, <4>1, <4>2
    <3>3. QED BY <3>1, <3>2 DEF BridgeInv, Shaped
  <2>3. /\ call'.todo \in Seq(Stages) /\ Len(call'.todo) = Len(call.todo) - 1
        /\ \A i \in 1..Len(call'.todo) :
              i + 1 \in 1..Len(call.todo) /\ call'.todo[i] = call.todo[i + 1]
    <3>1. call.todo # <<>>
      BY <2>2
    <3>2. /\ Tail(call.todo) \in Seq(Stages) /\ Len(Tail(call.todo)) = Len(call.todo) - 1
          /\ \A i \in 1..Len(Tail(call.todo)) : Tail(call.todo)[i] = call.todo[i + 1]
      BY <2>2, <3>1, HeadTailProperties
    <3>3. QED BY <2>1, <2>2, <3>2
  <2>4. Shaped'
    BY <2>1, <2>3 DEF BridgeInv, Shaped, CommandShape, Command
  <2>5. \A i \in 1..Len(call'.todo) : ~Done(call.todo[i + 1])
    BY <2>2, <2>3 DEF BridgeInv, Ahead
  <2>6. OnceEach(call'.todo)
    <3>1. SUFFICES ASSUME NEW i \in 1..Len(call'.todo), NEW j \in 1..Len(call'.todo),
                          call'.todo[i] = call'.todo[j]
                   PROVE  i = j
      BY DEF OnceEach
    <3>2. i + 1 = j + 1
      BY <2>3, <3>1 DEF BridgeInv, Ahead, OnceEach
    <3>3. QED BY <2>2, <2>3, <3>2
  <2>7. call'.todo # <<>> /\ 1 \in 1..Len(call'.todo)
    BY <2>2, <2>3
  <2>8. Ahead'
    BY <2>1, <2>3, <2>5, <2>6, <2>7 DEF Ahead, Done
  <2>9. Pending' /\ Channel' /\ AtMostOnce'
    BY <2>1 DEF BridgeInv, Pending, Channel, AtMostOnce, Command
  <2>10. QED BY <2>4, <2>8, <2>9 DEF BridgeInv
<1>3. QED BY <1>1, <1>2 DEF Advance

\* The stage whose request or command is out has its effect: it was ahead, and
\* is not any more.
LEMMA EffectHappens ==
  ASSUME BridgeInv, call.pc = "asked", NEW op, op = call.todo[1], ~Done(op),
         CallShape', call'.pc = "asked", call'.todo = call.todo,
         call'.done = Append(call.done, op),
         Request'.st # "received", Command'.st # "queued",
         RequestShape', CommandShape', Channel', inbox' \in Seq(Client)
  PROVE  BridgeInv'
<1>1. /\ call.done \in Seq(Stages) /\ op \in Stages /\ Len(call.done) \in Nat
      /\ Len(call.todo) \in Nat
  BY FirstStage, LenProperties DEF BridgeInv, Shaped
<1>2. /\ call'.done \in Seq(Stages) /\ Len(call'.done) = Len(call.done) + 1
      /\ \A i \in 1..Len(call.done) : call'.done[i] = call.done[i]
      /\ call'.done[Len(call.done) + 1] = op
  BY <1>1, AppendProperties
<1>3. \A i \in 1..Len(call'.done) : i \in 1..Len(call.done) \/ i = Len(call.done) + 1
  BY <1>1, <1>2
<1>4. Shaped'
  BY <1>2 DEF BridgeInv, Shaped
<1>5. ASSUME NEW i \in 1..Len(call.todo), i > 1
      PROVE  ~\E j \in 1..Len(call'.done) : call'.done[j] = call.todo[i]
  <2>1. ~Done(call.todo[i]) /\ call.todo[i] # call.todo[1]
    BY <1>1, <1>5, FirstStage DEF BridgeInv, Ahead, OnceEach
  <2>2. QED BY <1>2, <1>3, <2>1 DEF Done
<1>6. Ahead'
  BY <1>5 DEF BridgeInv, Ahead, Done
<1>7. Pending'
  BY DEF Pending
<1>8. AtMostOnce'
  <2>1. SUFFICES ASSUME NEW i \in 1..Len(call'.done), NEW j \in 1..Len(call'.done),
                        call'.done[i] = call'.done[j]
                 PROVE  i = j
    BY DEF AtMostOnce
  <2>2. CASE i \in 1..Len(call.done) /\ j \in 1..Len(call.done)
    BY <1>2, <2>1, <2>2 DEF BridgeInv, AtMostOnce
  <2>3. CASE i = Len(call.done) + 1 \/ j = Len(call.done) + 1
    <3>1. \A k \in 1..Len(call.done) : call'.done[k] # op
      BY <1>2 DEF Done
    <3>2. QED BY <1>2, <1>3, <2>1, <2>3, <3>1
  <2>4. QED BY <1>3, <2>2, <2>3
<1>9. QED BY <1>4, <1>6, <1>7, <1>8 DEF BridgeInv

-----------------------------------------------------------------------------
(* The steps of the server.                                                *)

\* What the agent's next call does has not been done.
LEMMA CallStep ==
  ASSUME BridgeInv, NEW tool, NEW dry, NEW region, NEW active, NEW x,
         Call(tool, dry, region, active, x)
  PROVE  BridgeInv'
<1>1. /\ call.pc = "idle" /\ UNCHANGED <<cmd, inbox, sent, handler>>
      /\ Request.st = "none" /\ Command.st # "queued" /\ RequestShape'
  BY DEF Call, pvars, BridgeInv, Shaped, RequestShape, Request, Pending
<1>2. CASE \E outcome : Ends(outcome)
  <2>1. Request'.st = "none"
    BY <1>1 DEF Request
  <2>2. QED BY <1>1, <1>2, <2>1, StageEnds
<1>3. CASE /\ Plan(tool, dry, active) # <<>>
           /\ call' = [Idle("none") EXCEPT !.pc = "work", !.tool = tool, !.dry = dry,
                          !.region = region, !.todo = Plan(tool, dry, active), !.x = x]
  <2>1. /\ CallShape' /\ call'.pc = "work" /\ call'.todo = Plan(tool, dry, active)
        /\ call'.done = <<>>
    BY <1>3 DEF Idle, CallShape
  <2>2. /\ call'.todo \in Seq(Stages) /\ OnceEach(call'.todo) /\ call'.todo # <<>>
        /\ Len(call'.done) = 0 /\ call'.done \in Seq(Stages)
    BY <1>3, <2>1, PlanIsOnceEach, EmptySeq
  <2>3. Shaped'
    BY <1>1, <2>1, <2>2 DEF BridgeInv, Shaped, CommandShape, Command
  <2>4. Ahead' /\ AtMostOnce'
    BY <2>1, <2>2 DEF Ahead, AtMostOnce, Done
  <2>5. Pending' /\ Channel'
    BY <1>1, <2>1 DEF BridgeInv, Pending, Channel, Request, Command
  <2>6. QED BY <2>3, <2>4, <2>5 DEF BridgeInv
<1>4. QED BY <1>2, <1>3 DEF Call

LEMMA ScanStep == ASSUME BridgeInv, Scan PROVE BridgeInv'
<1>1. /\ call.pc = "work" /\ UNCHANGED <<cmd, inbox, sent, handler>>
      /\ Request.st = "none" /\ Command.st # "queued"
  BY DEF Scan, pvars, BridgeInv, Pending
<1>2. RequestShape' /\ Request'.st = "none"
  BY <1>1 DEF BridgeInv, Shaped, RequestShape, Request
<1>3. (\E outcome : Ends(outcome)) \/ (\E x, region : Advance(x, region))
  BY DEF Scan
<1>4. QED BY <1>1, <1>2, <1>3, StageEnds

\* The request that is sent is the next stage's.
LEMMA AskStep == ASSUME BridgeInv, Ask PROVE BridgeInv'
<1>1. /\ call.pc = "work" /\ UNCHANGED <<cmd, inbox, sent>>
      /\ handler' = [handler EXCEPT !["mcp"] = Asked(Head(call.todo), call.x, call.dry)]
      /\ call' = [call EXCEPT !.pc = "asked"]
  BY DEF Ask, pvars
<1>2. Head(call.todo) = call.todo[1]
  BY <1>1, FirstStage
<1>3. /\ CallShape' /\ call'.pc = "asked" /\ call'.todo = call.todo /\ call'.done = call.done
  BY <1>1 DEF BridgeInv, Shaped, CallShape
<1>4. /\ RequestShape' /\ Request'.st = "received" /\ Request'.op = call.todo[1]
  BY <1>1, <1>2, BridgeAssumption DEF BridgeInv, Shaped, RequestShape, Request, Asked
<1>5. Command' = Command /\ Command.st # "queued"
  BY <1>1 DEF BridgeInv, Pending, Command
<1>6. Shaped'
  BY <1>1, <1>3, <1>4 DEF BridgeInv, Shaped, CommandShape, Command
<1>7. Ahead' /\ AtMostOnce'
  BY <1>1, <1>3 DEF BridgeInv, Ahead, AtMostOnce, Done
<1>8. Pending' /\ Channel'
  BY <1>1, <1>3, <1>4, <1>5 DEF BridgeInv, Ahead, Pending, Channel, Done
<1>9. QED BY <1>6, <1>7, <1>8 DEF BridgeInv

\* A request that was lost is not sent again: the call ends.
LEMMA LostStep == ASSUME BridgeInv, Lost PROVE BridgeInv'
<1>1. /\ UNCHANGED <<cmd, inbox, sent, handler>> /\ Request.st = "none"
      /\ \E outcome : Ends(outcome)
  BY DEF Lost, Unanswered, pvars, BridgeInv, Pending, Request
<1>2. Command.st # "queued" /\ RequestShape' /\ Request'.st = "none"
  BY <1>1 DEF BridgeInv, Shaped, RequestShape, Request, Pending
<1>3. QED BY <1>1, <1>2, StageEnds

LEMMA ReceiveStep == ASSUME BridgeInv, Receive PROVE BridgeInv'
<1>1. /\ call.pc = "asked" /\ Request.st = "done" /\ UNCHANGED <<cmd, inbox, sent>>
      /\ handler' = [handler EXCEPT !["mcp"] = NoRequest]
  BY DEF Receive, pvars, Request
<1>2. Command.st # "queued" /\ RequestShape' /\ Request'.st = "none"
  BY <1>1, BridgeAssumption DEF BridgeInv, Shaped, RequestShape, Request, Pending, NoRequest
<1>3. (\E outcome : Ends(outcome)) \/ (\E x, region : Advance(x, region))
  BY DEF Receive
<1>4. QED BY <1>1, <1>2, <1>3, StageEnds

-----------------------------------------------------------------------------
(* The steps of the handlers and of the worker.                            *)

\* What becomes of the agent's request if a client's is answered.
LEMMA AnswerOf ==
  ASSUME BridgeInv, NEW c \in Client, NEW ok, NEW x, Answer(c, ok, x)
  PROVE  /\ DOMAIN handler' = Client /\ RequestShape'
         /\ c # "mcp" => Request' = Request
         /\ c = "mcp" => Request'.st = "done"
BY BridgeAssumption DEF Answer, BridgeInv, Shaped, RequestShape, Request

\* A request is received only while the agent's call waits for it.
LEMMA Waiting ==
  ASSUME BridgeInv, Request.st # "none"
  PROVE  call.pc = "asked"
BY DEF BridgeInv, Shaped, Pending

\* A client's request is answered without an effect.
LEMMA AnsweredInVain ==
  ASSUME BridgeInv, NEW c \in Client, NEW ok, NEW x, Answer(c, ok, x), SameCall,
         handler[c].st = "received", UNCHANGED <<cmd, inbox, sent>>
  PROVE  BridgeInv'
<1>1. Command' = Command /\ CommandShape' /\ inbox' \in Seq(Client) /\ Channel'
  BY DEF BridgeInv, Shaped, CommandShape, Command, Channel
<1>2. CASE c # "mcp"
  BY <1>1, <1>2, AnswerOf, NothingHappens DEF CommandShape
<1>3. CASE c = "mcp"
  <2>1. call.pc = "asked" /\ Command'.st # "queued"
    BY <1>1, <1>3, Waiting DEF Request, BridgeInv, Pending
  <2>2. QED BY <1>1, <1>3, <2>1, AnswerOf, NothingWillHappen
<1>4. QED BY <1>2, <1>3

\* A client's request has its effect.
LEMMA AnsweredWithEffect ==
  ASSUME BridgeInv, NEW c \in Client, NEW ok, NEW x, Answer(c, ok, x),
         handler[c].st = "received", UNCHANGED <<cmd, inbox, sent>>,
         c # "mcp" => SameCall,
         c = "mcp" => /\ CallShape' /\ call'.pc = call.pc /\ call'.todo = call.todo
                      /\ call'.done = Append(call.done, handler[c].op)
  PROVE  BridgeInv'
<1>1. CASE c # "mcp"
  BY <1>1, AnsweredInVain
<1>2. CASE c = "mcp"
  <2>1. /\ call.pc = "asked" /\ Command.st # "queued" /\ Request.op = call.todo[1]
        /\ ~Done(Request.op)
    BY <1>2, Waiting DEF Request, BridgeInv, Pending
  <2>2. /\ Command'.st # "queued" /\ CommandShape' /\ inbox' \in Seq(Client) /\ Channel'
    BY <2>1 DEF BridgeInv, Shaped, CommandShape, Command, Channel
  <2>3. RequestShape' /\ Request'.st # "received"
    BY <1>2, AnswerOf
  <2>4. call'.done = Append(call.done, Request.op)
    BY <1>2 DEF Request
  <2>5. QED BY <1>2, <2>1, <2>2, <2>3, <2>4, EffectHappens
<1>3. QED BY <1>1, <1>2

\* What an effect leaves of the call.
LEMMA HappenedTo ==
  ASSUME BridgeInv, NEW c, NEW op, Happened(c, op)
  PROVE  /\ c # "mcp" => SameCall
         /\ c = "mcp" => /\ CallShape' /\ call'.pc = call.pc /\ call'.todo = call.todo
                         /\ call'.done = Append(call.done, op)
<1>1. CASE c = "mcp"
  BY <1>1 DEF Happened, BridgeInv, Shaped, CallShape
<1>2. CASE c # "mcp"
  BY <1>2 DEF Happened, BridgeInv, Shaped, CallShape, SameCall
<1>3. QED BY <1>1, <1>2

LEMMA HandlerStep ==
  ASSUME BridgeInv, NEW c \in Client,
         \/ HandlerFails(c) \/ Lookup(c) \/ BindPreview(c)
         \/ \E ok \in BOOLEAN : Dispatch(c, ok) \/ \E x \in MouseAt : ByYdotool(c, x, ok)
  PROVE  BridgeInv'
<1>1. CASE HandlerFails(c)
  <2>1. SameCall
    BY <1>1 DEF HandlerFails, SameCall
  <2>2. QED BY <1>1, <2>1, AnsweredInVain DEF HandlerFails, pvars
<1>2. CASE Lookup(c)
  <2>1. SameCall
    BY <1>2 DEF Lookup, SameCall, BridgeInv, Shaped, CallShape
  <2>2. \E x : Answer(c, TRUE, x)
    BY <1>2 DEF Lookup
  <2>3. QED BY <1>2, <2>1, <2>2, AnsweredInVain DEF Lookup, Received, pvars
<1>3. CASE BindPreview(c)
  <2>1. SameCall
    BY <1>3 DEF BindPreview, SameCall
  <2>2. QED BY <1>3, <2>1, AnsweredInVain DEF BindPreview, Received, pvars
<1>4. ASSUME NEW ok \in BOOLEAN, Dispatch(c, ok) PROVE BridgeInv'
  <2>1. /\ Answer(c, ok, 0) /\ Happened(c, handler[c].op) /\ handler[c].st = "received"
        /\ UNCHANGED <<cmd, inbox, sent>>
    BY <1>4 DEF Dispatch, Received, pvars
  <2>2. QED BY <2>1, HappenedTo, AnsweredWithEffect
<1>5. ASSUME NEW ok \in BOOLEAN, NEW x \in MouseAt, ByYdotool(c, x, ok) PROVE BridgeInv'
  <2>1. /\ Answer(c, ok, 0) /\ handler[c].st = "received"
        /\ UNCHANGED <<cmd, inbox, sent>>
    BY <1>5 DEF ByYdotool, Received, pvars, PointerMovedTo
  <2>2. CASE c = "mcp"
    <3>1. /\ CallShape' /\ call'.pc = call.pc /\ call'.todo = call.todo
          /\ call'.done = Append(call.done, handler[c].op)
      BY <1>5, <2>2 DEF ByYdotool, BridgeInv, Shaped, CallShape
    <3>2. QED BY <2>1, <2>2, <3>1, AnsweredWithEffect
  <2>3. CASE c # "mcp"
    <3>1. Happened(c, handler[c].op)
      BY <1>5, <2>3 DEF ByYdotool
    <3>2. QED BY <2>1, <2>3, <3>1, HappenedTo, AnsweredWithEffect
  <2>4. QED BY <2>2, <2>3
<1>6. QED BY <1>1, <1>2, <1>3, <1>4, <1>5

\* The command is for the stage whose request has been received, and is put
\* in the channel once.
LEMMA ToPointerStep ==
  ASSUME BridgeInv, NEW c \in Client, NEW asked \in BOOLEAN, ToPointer(c, asked)
  PROVE  BridgeInv'
<1>1. PICK x : Submit(c, handler[c].op, x)
  BY DEF ToPointer
<1>2. /\ handler[c].st = "received" /\ UNCHANGED sent
      /\ handler' = [handler EXCEPT ![c].st = "pointer"]
      /\ cmd' = [cmd EXCEPT ![c] = [op |-> handler[c].op, x |-> x, st |-> "queued"]]
      /\ inbox' = Append(inbox, c)
  BY <1>1 DEF ToPointer, Received, Submit
<1>3. SameCall
  BY DEF ToPointer, SameCall, BridgeInv, Shaped, CallShape
<1>4. /\ inbox \in Seq(Client) /\ Len(inbox) \in Nat
      /\ inbox' \in Seq(Client) /\ Len(inbox') = Len(inbox) + 1
      /\ \A i \in 1..Len(inbox) : inbox'[i] = inbox[i]
      /\ inbox'[Len(inbox) + 1] = c
  BY <1>2, AppendProperties, LenProperties DEF BridgeInv, Shaped
<1>5. \A i \in 1..Len(inbox') : i \in 1..Len(inbox) \/ i = Len(inbox) + 1
  BY <1>4
<1>6. DOMAIN handler' = Client /\ DOMAIN cmd' = Client
  BY <1>2 DEF BridgeInv, Shaped, RequestShape, CommandShape
<1>7. CASE c # "mcp"
  <2>1. Request' = Request /\ Command' = Command
    BY <1>2, <1>7 DEF Request, Command
  <2>2. \A i \in 1..Len(inbox') : inbox'[i] = "mcp" => i \in 1..Len(inbox) /\ inbox[i] = "mcp"
    BY <1>4, <1>5, <1>7
  <2>3. Channel'
    BY <1>2, <2>1, <2>2 DEF BridgeInv, Channel
  <2>4. QED BY <1>3, <1>4, <1>6, <2>1, <2>3, NothingHappens
<1>8. CASE c = "mcp"
  <2>1. /\ call.pc = "asked" /\ Command.st # "queued" /\ Request.op = call.todo[1]
        /\ ~Done(Request.op)
    BY <1>2, <1>8, Waiting DEF Request, BridgeInv, Pending
  <2>2. /\ RequestShape' /\ Request'.st = "pointer" /\ Request'.op = Request.op
    BY <1>2, <1>6, <1>8 DEF Request, BridgeInv, Shaped, RequestShape
  <2>3. /\ CommandShape' /\ Command'.st = "queued" /\ Command'.op = Request.op
    BY <1>2, <1>6, <1>8 DEF Request, Command, BridgeInv, Shaped, CommandShape
  <2>4. \A i \in 1..Len(inbox) : inbox[i] # "mcp"
    BY <2>1 DEF BridgeInv, Channel
  <2>5. sent'.who # "mcp"
    BY <1>2, <2>1 DEF BridgeInv, Channel
  <2>6. \A i \in 1..Len(inbox') : inbox'[i] = "mcp" => i = Len(inbox) + 1
    BY <1>4, <1>5, <2>4
  <2>7. Channel'
    BY <2>3, <2>5, <2>6 DEF Channel
  <2>8. Pending'
    BY <1>3, <2>1, <2>2, <2>3 DEF Pending, SameCall, Done
  <2>9. Shaped' /\ Ahead' /\ AtMostOnce'
    BY <1>3, <1>4, <2>2, <2>3 DEF BridgeInv, Shaped, CallShape, SameCall, Ahead, AtMostOnce, Done
  <2>10. QED BY <2>7, <2>8, <2>9 DEF BridgeInv
<1>9. QED BY <1>7, <1>8

LEMMA PointerAnswersStep ==
  ASSUME BridgeInv, NEW c \in Client, PointerAnswers(c)
  PROVE  BridgeInv'
<1>1. /\ handler[c].st = "pointer" /\ cmd[c].st \in {"ok", "err"}
      /\ cmd' = [cmd EXCEPT ![c] = NoCmd] /\ UNCHANGED <<call, inbox, sent>>
      /\ \E ok : Answer(c, ok, 0)
  BY DEF PointerAnswers, Collect
<1>2. SameCall /\ inbox' \in Seq(Client)
  BY <1>1 DEF SameCall, BridgeInv, Shaped
<1>3. CASE c # "mcp"
  <2>1. Command' = Command /\ DOMAIN cmd' = Client /\ Channel'
    BY <1>1, <1>3 DEF Command, BridgeInv, Shaped, CommandShape, Channel
  <2>2. QED BY <1>1, <1>2, <1>3, <2>1, AnswerOf, NothingHappens
<1>4. CASE c = "mcp"
  <2>1. call.pc = "asked" /\ Command.st # "queued"
    BY <1>1, <1>4, Waiting DEF Request, Command
  <2>2. CommandShape' /\ Command'.st # "queued"
    BY <1>1, <1>4, BridgeAssumption DEF Command, BridgeInv, Shaped, CommandShape, NoCmd
  <2>3. Channel'
    BY <1>1, <2>1 DEF BridgeInv, Channel
  <2>4. QED BY <1>1, <1>2, <1>4, <2>1, <2>2, <2>3, AnswerOf, NothingWillHappen
<1>5. QED BY <1>3, <1>4

\* What the worker takes is not in the channel any more.
LEMMA WorkerTakesStep == ASSUME BridgeInv, WorkerTakes PROVE BridgeInv'
<1>1. /\ sent = Nothing /\ inbox # <<>> /\ inbox' = Tail(inbox) /\ UNCHANGED <<handler, cmd>>
      /\ sent'.who = Head(inbox) /\ sent'.op = cmd[Head(inbox)].op
  BY DEF WorkerTakes, Take
<1>2. SameCall
  BY DEF WorkerTakes, BridgeInv, Shaped, CallShape, SameCall
<1>3. /\ inbox \in Seq(Client) /\ Len(inbox) \in Nat \ {0}
      /\ Head(inbox) = inbox[1] /\ 1 \in 1..Len(inbox)
  <2>1. inbox \in Seq(Client)
    BY DEF BridgeInv, Shaped
  <2>2. Len(inbox) \in Nat \ {0} /\ Head(inbox) = inbox[1]
    BY <1>1, <2>1, LenProperties, EmptySeq, HeadTailProperties
  <2>3. QED BY <2>1, <2>2
<1>4. /\ inbox' \in Seq(Client)
      /\ \A i \in 1..Len(inbox') : i + 1 \in 1..Len(inbox) /\ i + 1 # 1 /\ inbox'[i] = inbox[i + 1]
  <2>1. /\ Tail(inbox) \in Seq(Client) /\ Len(Tail(inbox)) = Len(inbox) - 1
        /\ \A i \in 1..Len(Tail(inbox)) : Tail(inbox)[i] = inbox[i + 1]
    BY <1>1, <1>3, HeadTailProperties
  <2>2. QED BY <1>1, <1>3, <2>1
<1>5. Command' = Command /\ Request' = Request /\ DOMAIN handler' = Client /\ DOMAIN cmd' = Client
  BY <1>1 DEF Command, Request, BridgeInv, Shaped, RequestShape, CommandShape
<1>6. \A i \in 1..Len(inbox') : inbox'[i] = "mcp" => Command'.st = "queued" /\ sent'.who # "mcp"
  <2>1. SUFFICES ASSUME NEW i \in 1..Len(inbox'), inbox'[i] = "mcp"
                 PROVE  Command'.st = "queued" /\ sent'.who # "mcp"
    OBVIOUS
  <2>2. i + 1 \in 1..Len(inbox) /\ i + 1 # 1 /\ inbox[i + 1] = "mcp"
    BY <1>4, <2>1
  <2>3. Command.st = "queued" /\ inbox[1] # "mcp"
    BY <1>3, <2>2 DEF BridgeInv, Channel
  <2>4. QED BY <1>1, <1>3, <1>5, <2>3
<1>7. \A i, j \in 1..Len(inbox') : inbox'[i] = "mcp" /\ inbox'[j] = "mcp" => i = j
  <2>1. SUFFICES ASSUME NEW i \in 1..Len(inbox'), NEW j \in 1..Len(inbox'),
                        inbox'[i] = "mcp", inbox'[j] = "mcp"
                 PROVE  i = j
    OBVIOUS
  <2>2. i + 1 = j + 1
    BY <1>4, <2>1 DEF BridgeInv, Channel
  <2>3. QED BY <2>2
<1>8. sent'.who = "mcp" => Command'.st = "queued" /\ sent'.op = Command'.op
  BY <1>1, <1>3, <1>5 DEF BridgeInv, Channel, Command
<1>9. Channel'
  BY <1>6, <1>7, <1>8 DEF Channel
<1>10. QED BY <1>2, <1>4, <1>5, <1>9, NothingHappens

\* What has been sent takes effect, or is found to have failed.
LEMMA WorkerAnswersStep == ASSUME BridgeInv, WorkerAnswers PROVE BridgeInv'
<1>1. PICK st \in {"ok", "err"} :
         /\ cmd' = [cmd EXCEPT ![sent.who].st = st] /\ sent' = Nothing
         /\ Happened(sent.who, sent.op) \/ UNCHANGED call
         /\ UNCHANGED <<inbox, handler>>
  BY DEF WorkerAnswers, Roundtrip, RoundtripFails, Reply
<1>2. /\ CommandShape' /\ inbox' \in Seq(Client) /\ RequestShape'
      /\ Request' = Request /\ DOMAIN handler' = Client /\ DOMAIN cmd' = Client
  BY <1>1 DEF BridgeInv, Shaped, RequestShape, Request, CommandShape, Command
<1>3. CASE sent.who # "mcp"
  <2>1. Command' = Command
    BY <1>1, <1>3 DEF Command
  <2>2. Channel'
    BY <1>1, <2>1 DEF BridgeInv, Channel, Nothing
  <2>3. SameCall
    BY <1>1, <1>3, HappenedTo DEF SameCall
  <2>4. QED BY <1>2, <2>1, <2>2, <2>3, NothingHappens
<1>4. CASE sent.who = "mcp"
  <2>1. /\ Command.st = "queued" /\ sent.op = Command.op /\ Request.st = "pointer"
        /\ sent.op = call.todo[1] /\ ~Done(sent.op) /\ call.pc = "asked"
    BY <1>4, Waiting DEF BridgeInv, Channel, Pending
  <2>2. Command'.st # "queued" /\ Request'.st # "received"
    BY <1>1, <1>2, <1>4, <2>1, BridgeAssumption DEF Command, BridgeInv, Shaped, CommandShape
  <2>3. Channel'
    BY <1>1, <1>4 DEF BridgeInv, Channel, Nothing
  <2>4. CASE Happened(sent.who, sent.op)
    BY <1>2, <1>4, <2>1, <2>2, <2>3, <2>4, HappenedTo, EffectHappens
  <2>5. CASE UNCHANGED call
    BY <1>2, <2>1, <2>2, <2>3, <2>5, NothingWillHappen DEF SameCall
  <2>6. QED BY <1>1, <2>4, <2>5
<1>5. QED BY <1>3, <1>4

-----------------------------------------------------------------------------
(* The steps of the daemon's process and of everybody else.                *)

\* The daemon takes the request, the channel and the command with it.
LEMMA DaemonDiesStep == ASSUME BridgeInv, DaemonDies PROVE BridgeInv'
<1>1. /\ handler' = [c \in Client |-> NoRequest] /\ cmd' = [c \in Client |-> NoCmd]
      /\ inbox' = <<>> /\ sent' = Nothing
      /\ UNCHANGED call \/ Happened(sent.who, sent.op)
  BY DEF DaemonDies, WorkerEnds
<1>2. Len(inbox') = 0 /\ inbox' \in Seq(Client)
  BY <1>1, EmptySeq
<1>3. /\ RequestShape' /\ Request'.st = "none" /\ CommandShape' /\ Command'.st # "queued"
  BY <1>1, BridgeAssumption DEF RequestShape, Request, CommandShape, Command, NoRequest, NoCmd
<1>4. Channel'
  BY <1>1, <1>2 DEF Channel, Nothing
<1>5. CASE sent.who = "mcp" /\ Happened(sent.who, sent.op)
  <2>1. /\ sent.op = call.todo[1] /\ ~Done(sent.op) /\ call.pc = "asked"
    BY <1>5, Waiting DEF BridgeInv, Channel, Pending
  <2>2. QED BY <1>2, <1>3, <1>4, <1>5, <2>1, HappenedTo, EffectHappens
<1>6. CASE SameCall
  <2>1. Shaped' /\ Ahead' /\ Pending' /\ AtMostOnce'
    BY <1>2, <1>3, <1>6 DEF BridgeInv, SameCall, Shaped, CallShape, Ahead, Pending, AtMostOnce, Done
  <2>2. QED BY <1>4, <2>1 DEF BridgeInv
<1>7. \/ SameCall
      \/ sent.who = "mcp" /\ Happened(sent.who, sent.op)
  BY <1>1, HappenedTo DEF SameCall
<1>8. QED BY <1>5, <1>6, <1>7

\* The agent's request, command and call are left alone.
LEMMA OthersStep ==
  ASSUME BridgeInv,
         \/ WaylandBreaks \/ CliReads \/ \E input \in Inputs : DaemonStarts(input)
         \/ \E x \in MouseAt : UserMovesPointer(x)
         \/ \E op \in {"abs", "rel", "click"}, x \in MouseAt : CliAsks(op, x)
         \/ \E w \in WinAt : UserMovesWindow(w)
         \/ \E l \in Layouts, w \in WinAt : UserChangesLayout(l, w)
  PROVE  BridgeInv'
<1>1. /\ UNCHANGED <<cmd, inbox, sent>>
      /\ UNCHANGED handler \/ \E r : handler' = [handler EXCEPT !["cli"] = r]
  BY DEF WaylandBreaks, ConnectionBreaks, CliReads, DaemonStarts, WorkerStarts, UserMovesPointer,
         PointerMovedTo, CliAsks, UserMovesWindow, UserChangesLayout, LayoutChanges, pvars
<1>2. SameCall
  <2>1. \/ UNCHANGED call
        \/ Happened("cli", "abs")
        \/ call' = [call EXCEPT !.calm = FALSE]
    BY DEF WaylandBreaks, CliReads, DaemonStarts, UserMovesPointer, CliAsks, UserMovesWindow,
           UserChangesLayout
  <2>2. QED BY <2>1, HappenedTo, CalmOnly DEF BridgeInv, SameCall
<1>3. Request' = Request /\ Command' = Command /\ DOMAIN handler' = Client /\ DOMAIN cmd' = Client
  <2>1. DOMAIN handler = Client /\ DOMAIN cmd = Client /\ "mcp" \in Client
    BY BridgeAssumption DEF BridgeInv, Shaped, RequestShape, CommandShape
  <2>2. CASE UNCHANGED handler
    BY <1>1, <2>1, <2>2 DEF Request, Command
  <2>3. ASSUME NEW r, handler' = [handler EXCEPT !["cli"] = r]
        PROVE  handler'["mcp"] = handler["mcp"] /\ DOMAIN handler' = Client
    BY <2>1, <2>3
  <2>4. QED BY <1>1, <2>1, <2>2, <2>3 DEF Request, Command
<1>4. Channel' /\ inbox' \in Seq(Client)
  BY <1>1, <1>3 DEF BridgeInv, Shaped, Channel
<1>5. QED BY <1>2, <1>3, <1>4, NothingHappens

-----------------------------------------------------------------------------
LEMMA BridgeInit == ASSUME Init PROVE BridgeInv
<1>1. /\ call = Idle("ok") /\ handler = [c \in Client |-> NoRequest]
      /\ cmd = [c \in Client |-> NoCmd] /\ inbox = <<>> /\ sent = Nothing
  BY DEF Init, PointerInit
<1>2. Len(<<>>) = 0 /\ <<>> \in Seq(Stages) /\ <<>> \in Seq(Client)
  BY EmptySeq
<1>3. CallShape /\ call.pc = "idle" /\ call.todo = <<>> /\ call.done = <<>>
  BY <1>1 DEF Idle, CallShape
<1>4. /\ RequestShape /\ CommandShape /\ Request.st = "none" /\ Command.st = "none"
  BY <1>1, BridgeAssumption DEF RequestShape, Request, CommandShape, Command, NoRequest, NoCmd
<1>5. Shaped /\ Ahead /\ AtMostOnce
  <2>1. Len(call.todo) = 0 /\ Len(call.done) = 0
    BY <1>2, <1>3
  <2>2. Shaped
    BY <1>1, <1>2, <1>3, <1>4 DEF Shaped
  <2>3. Ahead /\ AtMostOnce
    BY <1>3, <2>1 DEF Ahead, OnceEach, AtMostOnce
  <2>4. QED BY <2>2, <2>3
<1>6. Pending /\ Channel
  BY <1>1, <1>2, <1>4 DEF Pending, Channel, Nothing
<1>7. QED BY <1>5, <1>6 DEF BridgeInv

LEMMA BridgeStep == ASSUME BridgeInv, [Next]_vars PROVE BridgeInv'
<1>1. CASE Server
  BY <1>1, CallStep, ScanStep, AskStep, LostStep, ReceiveStep DEF Server
<1>2. CASE Worker
  BY <1>2, WorkerTakesStep, WorkerAnswersStep DEF Worker
<1>3. CASE Others
  BY <1>3, DaemonDiesStep, OthersStep DEF Others
<1>4. CASE CliReads \/ \E input \in Inputs : DaemonStarts(input)
  BY <1>4, OthersStep
<1>5. CASE \E c \in Client : Handler(c)
  <2>1. PICK c \in Client : Handler(c)
    BY <1>5
  <2>2. QED BY <2>1, HandlerStep, ToPointerStep, PointerAnswersStep DEF Handler
<1>6. CASE UNCHANGED vars
  <2>1. /\ SameCall /\ Request' = Request /\ Command' = Command
        /\ DOMAIN handler' = Client /\ DOMAIN cmd' = Client
        /\ inbox' \in Seq(Client) /\ Channel'
    BY <1>6 DEF vars, pvars, bridge, SameCall, Request, Command, BridgeInv, Shaped, RequestShape,
                CommandShape, Channel
  <2>2. QED BY <2>1, NothingHappens
<1>7. QED BY <1>1, <1>2, <1>3, <1>4, <1>5, <1>6 DEF Next

\* A request of the agent takes effect at most once in its call, whatever dies
\* before it is answered, for every tool and plan: what a call has yet to do
\* has not been done, and of a stage there is one request, one command and one
\* place where it may still take effect (Server::forward, virtual_pointer.rs).
THEOREM NothingHappensTwice == Spec => []AtMostOnce
<1>1. Init => BridgeInv
  BY BridgeInit
<1>2. BridgeInv /\ [Next]_vars => BridgeInv'
  BY BridgeStep
<1>3. BridgeInv => AtMostOnce
  BY DEF BridgeInv
<1>4. QED BY <1>1, <1>2, <1>3, PTL DEF Spec

-----------------------------------------------------------------------------
(* The two layers of restraint.                                            *)

\* The agent's tool may have this effect; of a bind the daemon decides.
Permitted(tool, dry, op) ==
    /\ Registry[tool].mutating
    /\ Registry[tool].hasDry /\ dry => op = "bind"
    /\ Registry[tool].group = "input" => op \in {"keys", "abs", "click"}

Allowed == Allows(call.tool)

\* The profile allows the call in progress, and what it has yet to do of
\* effects it may do.
Gated ==
    call.pc # "idle" =>
        /\ Allowed
        /\ \A i \in 1..Len(call.todo) :
              call.todo[i] \in Effects => Permitted(call.tool, call.dry, call.todo[i])

\* The daemon that has the agent's request is up and knows the argument
\* dry_run; the one that has the command has a virtual pointer.
Known ==
    /\ conn = "live" => daemon.up
    /\ Request.st # "none" => daemon.up /\ Request.dry = call.dry
    /\ Request.st = "pointer" => daemon.input = "pointer"
    /\ Command.st = "queued" => Command.op \in {"abs", "rel", "click"}

GateInv == Gated /\ Known

\* The inner part of BothGatesAgree.
Agree ==
    /\ call.tool \notin profile.deny_tools
    /\ call.tool \in profile.allow_tools \/ Registry[call.tool].group \in profile.allow
    /\ Registry[call.tool].mutating
    /\ Registry[call.tool].hasDry => ~call.dry
    /\ Registry[call.tool].group = "input" => daemon.input # "closed"

\* Of every plan the effects are those its tool may have.
Only(p, S) == p \in Seq(Stages) /\ \A i \in 1..Len(p) : p[i] \in S

LEMMA JoinedOnly ==
  ASSUME NEW s, NEW t, NEW S, Only(s, S), Only(t, S)
  PROVE  Only(s \o t, S)
<1>1. /\ s \o t \in Seq(Stages) /\ Len(s \o t) = Len(s) + Len(t)
      /\ Len(s) \in Nat /\ Len(t) \in Nat
      /\ \A i \in 1..Len(s) + Len(t) : (s \o t)[i] = IF i <= Len(s) THEN s[i] ELSE t[i - Len(s)]
  BY ConcatProperties, LenProperties DEF Only
<1>2. SUFFICES ASSUME NEW i \in 1..Len(s) + Len(t) PROVE (s \o t)[i] \in S
  BY <1>1 DEF Only
<1>3. CASE i <= Len(s)
  BY <1>1, <1>3 DEF Only
<1>4. CASE i > Len(s)
  <2>1. i - Len(s) \in 1..Len(t)
    BY <1>1, <1>4
  <2>2. QED BY <1>1, <1>4, <2>1 DEF Only
<1>5. QED BY <1>1, <1>3, <1>4

LEMMA PlanIsPermitted ==
  ASSUME NEW tool \in Tools, NEW dry, NEW active, NEW i \in 1..Len(Plan(tool, dry, active)),
         Plan(tool, dry, active)[i] \in Effects
  PROVE  Permitted(tool, dry, Plan(tool, dry, active)[i])
<1> DEFINE scope == IF active THEN <<"active">> ELSE <<>>
           press == IF dry THEN <<>> ELSE <<"abs", "click">>
           plan == Plan(tool, dry, active)
           Looks == {"read", "active", "scan", "monitors", "find", "clients"}
           Presses == IF dry THEN Looks ELSE Looks \union {"abs", "click"}
<1>1. \A stage \in Stages : Only(<<stage>>, {stage})
  BY OneStage DEF Over, Only
<1>2. \A S : Only(<<>>, S)
  BY NoStage DEF Over, Only
<1>3. Looks \subseteq Stages /\ Effects \subseteq Stages /\ Looks \intersect Effects = {}
  BY DEF Stages, Effects
<1>4. \A S : \A stage \in Stages \intersect S : Only(<<stage>>, S)
  BY <1>1 DEF Only
<1>5. Only(scope, Looks) /\ Only(scope, Presses)
  BY <1>2, <1>3, <1>4
<1>6. Only(<<"scan", "monitors">>, Presses) /\ Only(<<"find", "clients">>, Presses)
  <2>1. \A one, two \in Stages : one # two => Over(<<one, two>>, {one, two})
    BY TwoStages
  <2>2. QED BY <1>3, <2>1 DEF Over, Only
<1>7. Only(press, Presses)
  <2>1. CASE dry
    BY <1>2, <2>1
  <2>2. CASE ~dry
    <3>1. "abs" \in Stages /\ "click" \in Stages
      BY DEF Stages, Effects
    <3>2. Over(<<"abs", "click">>, {"abs", "click"})
      BY <3>1, TwoStages
    <3>3. QED BY <2>2, <3>2 DEF Over, Only
  <2>3. QED BY <2>1, <2>2
<1>8. tool \in DOMAIN Registry
  BY ToolsAssumption
<1>9. CASE tool \in {"query_clients", "find_text"}
  <2>1. plan \in {<<"read">>, scope \o <<"scan">>}
    BY <1>9 DEF Plan
  <2>2. Only(<<"read">>, Looks) /\ Only(scope \o <<"scan">>, Looks)
    BY <1>3, <1>4, <1>5, JoinedOnly
  <2>3. QED BY <1>3, <2>1, <2>2 DEF Only
<1>10. CASE tool \in {"click_text", "a11y_click"}
  <2>1. plan \in {scope \o <<"scan", "monitors">> \o press, <<"find", "clients">> \o press}
    BY <1>10 DEF Plan
  <2>2. Only(plan, Presses)
    <3> HIDE DEF scope, press, plan, Presses
    <3>1. Only(<<"find", "clients">> \o press, Presses)
      BY <1>6, <1>7, JoinedOnly
    <3>2. Only(scope \o <<"scan", "monitors">>, Presses)
      BY <1>5, <1>6, JoinedOnly
    <3>3. Only(scope \o <<"scan", "monitors">> \o press, Presses)
      BY <1>7, <3>2, JoinedOnly
    <3>4. QED BY <2>1, <3>1, <3>3
  <2>3. plan[i] \in {"abs", "click"} /\ ~dry
    BY <1>3, <2>2 DEF Only, Effects
  <2>4. QED BY <1>10, <2>3 DEF Permitted, Registry, Tool
<1>11. CASE tool \in {"snapshot_save", "snapshot_restore", "run_bind"}
  <2>1. /\ plan \in {<<"read">>, <<"mutate">>, <<"bind">>}
        /\ tool = "snapshot_restore" /\ dry => plan = <<"read">>
        /\ tool = "run_bind" => plan = <<"bind">>
    BY <1>11 DEF Plan
  <2>2. Len(plan) = 1 /\ plan[1] \in {"read", "mutate", "bind"}
    BY <2>1
  <2>3. i = 1
    BY <2>2
  <2>4. plan[i] \in Effects /\ plan[i] # "read"
    BY <1>3
  <2>5. tool = "snapshot_restore" => ~dry
    BY <2>1, <2>3, <2>4
  <2>6. tool = "run_bind" => plan[i] = "bind"
    BY <2>1, <2>3
  <2>7. QED BY <1>11, <2>5, <2>6 DEF Permitted, Registry, Tool
<1>12. CASE tool \in {"move_active", "exec", "input_keys", "input_mouse_move", "input_mouse_click"}
  <2>1. /\ dry => plan = <<>>
        /\ plan \in {<<>>, <<"mutate">>, <<"keys">>, <<"abs">>, <<"click">>}
        /\ tool \in {"input_keys", "input_mouse_move", "input_mouse_click"} =>
              plan \in {<<>>, <<"keys">>, <<"abs">>, <<"click">>}
    BY <1>12 DEF Plan
  <2>2. plan # <<>>
    <3>1. Len(<<>>) = 0
      OBVIOUS
    <3>2. QED BY <3>1
  <2>3. i = 1 /\ plan[1] \in {"mutate", "keys", "abs", "click"}
    BY <2>1, <2>2
  <2>4. tool \in {"input_keys", "input_mouse_move", "input_mouse_click"} =>
           plan[i] \in {"keys", "abs", "click"}
    BY <2>1, <2>2, <2>3
  <2>5. QED BY <1>12, <2>1, <2>2, <2>4 DEF Permitted, Registry, Tool
<1>13. QED BY <1>8, <1>9, <1>10, <1>11, <1>12 DEF Registry

-----------------------------------------------------------------------------
\* A step that leaves the call's tool and what it has yet to do.
SameTool == call'.tool = call.tool /\ call'.dry = call.dry /\ UNCHANGED profile

LEMMA StillGated ==
  ASSUME Gated, SameTool, call'.todo = call.todo, call'.pc # "idle" => call.pc # "idle"
  PROVE  Gated'
BY DEF Gated, SameTool, Allowed, Allows

\* Whatever ends a stage.
LEMMA StageEndsGated ==
  ASSUME BridgeInv, Gated, UNCHANGED profile,
         \/ \E outcome : Ends(outcome)
         \/ call.pc # "idle" /\ \E x, region : Advance(x, region)
  PROVE  Gated' /\ Len(call'.done) <= Len(call.done)
<1>1. Len(call.done) \in Nat
  BY LenProperties DEF BridgeInv, Shaped
<1>2. ASSUME NEW outcome, Ends(outcome)
      PROVE  Gated' /\ Len(call'.done) <= Len(call.done)
  <2>1. call'.pc = "idle" /\ call'.done = <<>>
    BY <1>2 DEF Ends, Idle
  <2>2. Len(call'.done) = 0
    BY <2>1
  <2>3. QED BY <1>1, <2>1, <2>2 DEF Gated
<1>3. ASSUME call.pc # "idle", NEW x, NEW region, Advance(x, region), Len(call.todo) # 1
      PROVE  Gated' /\ Len(call'.done) <= Len(call.done)
  <2>1. /\ call'.todo = Tail(call.todo) /\ call'.done = call.done
        /\ call'.tool = call.tool /\ call'.dry = call.dry
    BY <1>3 DEF Advance, BridgeInv, Shaped, CallShape
  <2>2. call.todo \in Seq(Stages) /\ Len(call.todo) \in Nat \ {0} /\ call.todo # <<>>
    BY <1>3, FirstStage DEF BridgeInv, Shaped, Ahead
  <2>3. \A i \in 1..Len(call'.todo) :
           i + 1 \in 1..Len(call.todo) /\ call'.todo[i] = call.todo[i + 1]
    <3>1. /\ Len(Tail(call.todo)) = Len(call.todo) - 1
          /\ \A i \in 1..Len(Tail(call.todo)) : Tail(call.todo)[i] = call.todo[i + 1]
      BY <2>2, HeadTailProperties
    <3>2. QED BY <2>1, <2>2, <3>1
  <2>4. /\ Allowed
        /\ \A i \in 1..Len(call.todo) :
              call.todo[i] \in Effects => Permitted(call.tool, call.dry, call.todo[i])
    BY <1>3 DEF Gated
  <2>5. \A i \in 1..Len(call'.todo) :
           call'.todo[i] \in Effects => Permitted(call.tool, call.dry, call'.todo[i])
    BY <2>3, <2>4
  <2>6. Allowed'
    BY <1>3, <2>1, <2>4 DEF Allowed, Allows
  <2>7. QED BY <1>1, <2>1, <2>5, <2>6 DEF Gated
<1>4. QED BY <1>2, <1>3 DEF Advance

\* A call begins if the profile allows its tool, with the tool's plan.
LEMMA CallGated ==
  ASSUME BridgeInv, GateInv, NEW tool \in Tools, NEW dry, NEW region, NEW active, NEW x,
         Call(tool, dry, region, active, x)
  PROVE  GateInv' /\ Len(call'.done) <= Len(call.done)
<1>1. /\ call.pc = "idle" /\ UNCHANGED <<profile, cmd, handler, conn, daemon>>
      /\ Request.st = "none"
  BY DEF Call, pvars, BridgeInv, Pending
<1>2. Known'
  BY <1>1 DEF GateInv, Known, Request, Command
<1>3. CASE \E outcome : Ends(outcome)
  BY <1>1, <1>2, <1>3, StageEndsGated DEF GateInv
<1>4. CASE /\ Allows(tool)
           /\ call' = [Idle("none") EXCEPT !.pc = "work", !.tool = tool, !.dry = dry,
                          !.region = region, !.todo = Plan(tool, dry, active), !.x = x]
  <2>1. /\ call'.tool = tool /\ call'.dry = dry /\ call'.todo = Plan(tool, dry, active)
        /\ call'.done = <<>>
    BY <1>4 DEF Idle
  <2>2. \A i \in 1..Len(call'.todo) :
           call'.todo[i] \in Effects => Permitted(tool, dry, call'.todo[i])
    BY <2>1, PlanIsPermitted
  <2>3. Allowed'
    BY <1>1, <1>4, <2>1 DEF Allowed, Allows
  <2>4. Gated'
    BY <2>1, <2>2, <2>3 DEF Gated
  <2>5. Len(call'.done) = 0 /\ Len(call.done) \in Nat
    BY <2>1, LenProperties DEF BridgeInv, Shaped
  <2>6. QED BY <1>2, <2>4, <2>5 DEF GateInv
<1>5. QED BY <1>3, <1>4 DEF Call

\* What a step may do to the call.
Restrained == Len(call'.done) > Len(call.done) => Agree

LEMMA NothingDone ==
  ASSUME BridgeInv, call'.done = call.done \/ Len(call'.done) <= Len(call.done)
  PROVE  Restrained
<1>1. Len(call.done) \in Nat
  BY LenProperties DEF BridgeInv, Shaped
<1>2. CASE call'.done = call.done
  BY <1>1, <1>2 DEF Restrained
<1>3. CASE Len(call'.done) <= Len(call.done)
  <2>1. call'.done = <<>> \/ ~(Len(call'.done) > Len(call.done))
    BY <1>1, <1>3
  <2>2. Len(<<>>) = 0
    OBVIOUS
  <2>3. QED BY <1>1, <2>1, <2>2 DEF Restrained
<1>4. QED BY <1>2, <1>3

LEMMA ServerGated ==
  ASSUME BridgeInv, GateInv, Scan \/ Ask \/ Lost \/ Receive
  PROVE  GateInv' /\ Restrained
<1>1. CASE Ask
  <2>1. /\ call.pc = "work" /\ call' = [call EXCEPT !.pc = "asked"] /\ conn' = "live" /\ daemon.up
        /\ UNCHANGED <<profile, daemon, cmd>>
        /\ handler' = [handler EXCEPT !["mcp"] = Asked(Head(call.todo), call.x, call.dry)]
    BY <1>1 DEF Ask, pvars, GateInv, Known
  <2>2. SameTool /\ call'.todo = call.todo /\ call'.done = call.done
    BY <2>1 DEF SameTool, BridgeInv, Shaped, CallShape
  <2>3. Request'.st = "received" /\ Request'.dry = call'.dry
    BY <2>1, <2>2, BridgeAssumption DEF SameTool, Request, BridgeInv, Shaped, RequestShape, Asked
  <2>4. Gated'
    BY <2>1, <2>2, StillGated DEF GateInv
  <2>5. Known'
    BY <2>1, <2>3 DEF GateInv, Known, Command
  <2>6. QED BY <2>2, <2>4, <2>5, NothingDone DEF GateInv
<1>2. CASE Scan \/ Lost \/ Receive
  <2>1. /\ UNCHANGED <<profile, daemon, cmd>> /\ conn' \in {conn, "none"}
        /\ \/ \E outcome : Ends(outcome)
           \/ call.pc # "idle" /\ \E x, region : Advance(x, region)
    BY <1>2 DEF Scan, Lost, Receive, pvars
  <2>2. Request'.st = "none"
    <3>1. CASE Scan \/ Lost
      BY <3>1 DEF Scan, Lost, Unanswered, BridgeInv, Pending, Request
    <3>2. CASE Receive
      BY <3>2, BridgeAssumption DEF Receive, BridgeInv, Shaped, RequestShape, Request, NoRequest
    <3>3. QED BY <1>2, <3>1, <3>2
  <2>3. Gated' /\ Len(call'.done) <= Len(call.done)
    BY <2>1, StageEndsGated DEF GateInv
  <2>4. Known'
    BY <2>1, <2>2 DEF GateInv, Known, Command
  <2>5. QED BY <2>3, <2>4, NothingDone DEF GateInv
<1>3. QED BY <1>1, <1>2

\* A step in which the call at most has an effect.
LEMMA CallStillGated ==
  ASSUME BridgeInv, GateInv, SameTool, call'.todo = call.todo, call'.pc = call.pc, Known',
         call'.done = call.done \/ Agree
  PROVE  GateInv' /\ Restrained
<1>1. Gated'
  BY StillGated DEF GateInv
<1>2. Restrained
  BY NothingDone DEF Restrained
<1>3. QED BY <1>1, <1>2 DEF GateInv

LEMMA HappenedToTool ==
  ASSUME BridgeInv, NEW c, NEW op, Happened(c, op)
  PROVE  call'.tool = call.tool /\ call'.dry = call.dry
BY DEF Happened, BridgeInv, Shaped, CallShape

\* The effect of the stage that is out is one the agent may have, if a bind is
\* not a preview and the input has not gone to a daemon whose gate is closed.
LEMMA EffectAgrees ==
  ASSUME BridgeInv, GateInv, call.pc = "asked", NEW op, op = call.todo[1],
         op \in Effects,
         op = "bind" => ~call.dry,
         op \in {"keys", "abs", "click"} => daemon.input # "closed"
  PROVE  Agree
<1>1. 1 \in 1..Len(call.todo)
  BY FirstStage
<1>2. Allows(call.tool) /\ Permitted(call.tool, call.dry, op)
  BY <1>1 DEF GateInv, Gated, Allowed
<1>3. QED BY <1>2 DEF Agree, Allows, Permitted

\* The agent's requests are for stages, and "rel" is none.
LEMMA AskedForEffect ==
  ASSUME BridgeInv, call.pc = "asked", NEW op, op = call.todo[1],
         op \in {"mutate", "bind", "keys", "abs", "rel", "click"}
  PROVE  op \in Effects /\ op # "rel"
<1>1. op \in Stages
  BY FirstStage
<1>2. QED BY <1>1 DEF Stages, Effects

LEMMA AnsweredKnown ==
  ASSUME BridgeInv, GateInv, NEW c \in Client, NEW ok, NEW x, Answer(c, ok, x), SameTool,
         handler[c].st # "none", UNCHANGED <<conn, daemon>>,
         Command' = Command \/ Command'.st # "queued"
  PROVE  Known'
<1>1. CASE c # "mcp"
  <2>1. Request' = Request
    BY <1>1, AnswerOf
  <2>2. QED BY <2>1 DEF GateInv, Known, SameTool
<1>2. CASE c = "mcp"
  <2>1. Request'.st = "done" /\ Request.st # "none"
    BY <1>2, AnswerOf DEF Request
  <2>2. Request'.dry = Request.dry
    BY <1>2, BridgeAssumption DEF Answer, BridgeInv, Shaped, RequestShape, Request
  <2>3. QED BY <2>1, <2>2 DEF GateInv, Known, SameTool
<1>3. QED BY <1>1, <1>2

LEMMA HandlerGated ==
  ASSUME BridgeInv, GateInv, NEW c \in Client,
         \/ HandlerFails(c) \/ Lookup(c) \/ BindPreview(c) \/ PointerAnswers(c)
         \/ \E ok \in BOOLEAN : Dispatch(c, ok) \/ \E x \in MouseAt : ByYdotool(c, x, ok)
  PROVE  GateInv' /\ Restrained
<1>1. CASE HandlerFails(c) \/ Lookup(c) \/ BindPreview(c) \/ PointerAnswers(c)
  <2>1. /\ \E ok, x : Answer(c, ok, x)
        /\ handler[c].st # "none" /\ UNCHANGED <<conn, daemon, profile>>
    BY <1>1 DEF HandlerFails, Lookup, BindPreview, PointerAnswers, Received
  <2>2. SameTool /\ call'.todo = call.todo /\ call'.pc = call.pc /\ call'.done = call.done
    BY <1>1 DEF HandlerFails, Lookup, BindPreview, PointerAnswers, SameTool, BridgeInv, Shaped,
                CallShape
  <2>3. Command' = Command \/ Command'.st # "queued"
    <3>1. CASE PointerAnswers(c)
      BY <3>1, BridgeAssumption DEF PointerAnswers, Collect, NoCmd, Command, BridgeInv, Shaped,
         CommandShape
    <3>2. CASE HandlerFails(c) \/ Lookup(c) \/ BindPreview(c)
      BY <3>2 DEF HandlerFails, Lookup, BindPreview, pvars, Command
    <3>3. QED BY <1>1, <3>1, <3>2
  <2>4. Known'
    BY <2>1, <2>2, <2>3, AnsweredKnown
  <2>5. QED BY <2>2, <2>4, CallStillGated
<1>2. ASSUME NEW ok \in BOOLEAN, Dispatch(c, ok) PROVE GateInv' /\ Restrained
  <2>1. /\ Answer(c, ok, 0) /\ Happened(c, handler[c].op) /\ handler[c].st = "received"
        /\ UNCHANGED <<cmd, conn, daemon, profile>>
        /\ handler[c].op \in {"mutate", "bind", "keys"}
        /\ handler[c].op = "bind" => ~handler[c].dry
        /\ handler[c].op = "keys" => daemon.input # "closed"
    BY <1>2 DEF Dispatch, Received, IsPreview, pvars
  <2>2. SameTool
    BY <2>1, HappenedToTool DEF SameTool
  <2>3. Known'
    BY <2>1, <2>2, AnsweredKnown DEF Command
  <2>4. CASE c # "mcp"
    BY <2>1, <2>2, <2>3, <2>4, HappenedTo, CallStillGated DEF SameCall
  <2>5. CASE c = "mcp"
    <3>1. call.pc = "asked" /\ handler[c].op = call.todo[1] /\ handler[c].dry = call.dry
      BY <2>1, <2>5, Waiting DEF Request, BridgeInv, Pending, GateInv, Known
    <3>2. Agree
      BY <2>1, <3>1, AskedForEffect, EffectAgrees
    <3>3. QED BY <2>1, <2>2, <2>3, <2>5, <3>2, HappenedTo, CallStillGated
  <2>6. QED BY <2>4, <2>5
<1>3. ASSUME NEW ok \in BOOLEAN, NEW x \in MouseAt, ByYdotool(c, x, ok)
      PROVE  GateInv' /\ Restrained
  <2>1. /\ Answer(c, ok, 0) /\ handler[c].st = "received" /\ daemon.input = "ydotool"
        /\ UNCHANGED <<cmd, conn, daemon, profile>>
        /\ handler[c].op \in {"abs", "rel", "click"}
        /\ c # "mcp" => Happened(c, handler[c].op)
    BY <1>3 DEF ByYdotool, Received, pvars, PointerMovedTo
  <2>2. c = "mcp" => /\ call'.tool = call.tool /\ call'.dry = call.dry
                     /\ call'.todo = call.todo /\ call'.pc = call.pc
    BY <1>3 DEF ByYdotool, BridgeInv, Shaped, CallShape
  <2>3. SameTool
    BY <2>1, <2>2, HappenedToTool DEF SameTool
  <2>4. Known'
    BY <2>1, <2>3, AnsweredKnown DEF Command
  <2>5. CASE c # "mcp"
    BY <2>1, <2>3, <2>4, <2>5, HappenedTo, CallStillGated DEF SameCall
  <2>6. CASE c = "mcp"
    <3>1. call.pc = "asked" /\ handler[c].op = call.todo[1]
      BY <2>1, <2>6, Waiting DEF Request, BridgeInv, Pending
    <3>2. Agree
      BY <2>1, <3>1, AskedForEffect, EffectAgrees
    <3>3. QED BY <2>2, <2>3, <2>4, <2>6, <3>2, CallStillGated
  <2>7. QED BY <2>5, <2>6
<1>4. QED BY <1>1, <1>2, <1>3

LEMMA PointerGated ==
  ASSUME BridgeInv, GateInv, NEW c \in Client, NEW asked \in BOOLEAN, ToPointer(c, asked)
  PROVE  GateInv' /\ Restrained
<1>1. /\ handler[c].st = "received" /\ handler[c].op \in {"abs", "rel", "click"}
      /\ daemon.input = "pointer" /\ UNCHANGED <<conn, daemon, profile>>
      /\ handler' = [handler EXCEPT ![c].st = "pointer"]
      /\ \E x : cmd' = [cmd EXCEPT ![c] = [op |-> handler[c].op, x |-> x, st |-> "queued"]]
  BY DEF ToPointer, Received, Submit
<1>2. SameTool /\ call'.todo = call.todo /\ call'.pc = call.pc /\ call'.done = call.done
  BY DEF ToPointer, SameTool, BridgeInv, Shaped, CallShape
<1>3. CASE c # "mcp"
  <2>1. Request' = Request /\ Command' = Command
    BY <1>1, <1>3 DEF Request, Command
  <2>2. Known'
    BY <1>1, <1>2, <2>1 DEF GateInv, Known, SameTool
  <2>3. QED BY <1>2, <2>2, CallStillGated
<1>4. CASE c = "mcp"
  <2>1. Request.st # "none" /\ Request'.st = "pointer" /\ Request'.dry = Request.dry
    BY <1>1, <1>4 DEF Request, BridgeInv, Shaped, RequestShape
  <2>2. Command'.op \in {"abs", "rel", "click"}
    BY <1>1, <1>4 DEF Command, BridgeInv, Shaped, CommandShape
  <2>3. Known'
    BY <1>1, <1>2, <2>1, <2>2 DEF GateInv, Known, SameTool
  <2>4. QED BY <1>2, <2>3, CallStillGated
<1>5. QED BY <1>3, <1>4

\* What the worker has sent for the agent may take effect.
LEMMA SentAgrees ==
  ASSUME BridgeInv, GateInv, sent.who = "mcp"
  PROVE  Agree
<1>1. /\ sent.op = call.todo[1] /\ call.pc = "asked" /\ daemon.input = "pointer"
      /\ sent.op \in {"abs", "rel", "click"}
  BY Waiting DEF BridgeInv, Channel, Pending, GateInv, Known
<1>2. QED BY <1>1, AskedForEffect, EffectAgrees

LEMMA WorkerGated ==
  ASSUME BridgeInv, GateInv, WorkerTakes \/ WorkerAnswers
  PROVE  GateInv' /\ Restrained
<1>1. UNCHANGED <<conn, daemon, profile, handler>>
  BY DEF WorkerTakes, WorkerAnswers
<1>2. CASE WorkerTakes
  <2>1. /\ SameTool /\ call'.todo = call.todo /\ call'.pc = call.pc /\ call'.done = call.done
        /\ UNCHANGED cmd
    BY <1>2 DEF WorkerTakes, Take, SameTool, BridgeInv, Shaped, CallShape
  <2>2. Known'
    BY <1>1, <2>1 DEF GateInv, Known, SameTool, Request, Command
  <2>3. QED BY <2>1, <2>2, CallStillGated
<1>3. CASE WorkerAnswers
  <2>1. PICK st \in {"ok", "err"} :
           /\ cmd' = [cmd EXCEPT ![sent.who].st = st]
           /\ Happened(sent.who, sent.op) \/ UNCHANGED call
    BY <1>3 DEF WorkerAnswers, Roundtrip, RoundtripFails, Reply
  <2>2. SameTool
    BY <1>1, <2>1, HappenedToTool DEF SameTool
  <2>3. Command' = Command \/ Command'.st # "queued"
    BY <2>1, BridgeAssumption DEF BridgeInv, Shaped, CommandShape, Command
  <2>4. Known'
    BY <1>1, <2>2, <2>3 DEF GateInv, Known, SameTool, Request
  <2>5. call'.todo = call.todo /\ call'.pc = call.pc
    BY <2>1, HappenedTo DEF SameCall
  <2>6. call'.done = call.done \/ sent.who = "mcp"
    BY <2>1, HappenedTo DEF SameCall
  <2>7. QED BY <2>2, <2>4, <2>5, <2>6, SentAgrees, CallStillGated
<1>4. QED BY <1>2, <1>3

LEMMA DaemonGated ==
  ASSUME BridgeInv, GateInv, DaemonDies \/ \E input \in Inputs : DaemonStarts(input)
  PROVE  GateInv' /\ Restrained
<1>1. CASE DaemonDies
  <2>1. /\ conn' # "live" /\ UNCHANGED profile
        /\ handler' = [c \in Client |-> NoRequest] /\ cmd' = [c \in Client |-> NoCmd]
        /\ UNCHANGED call \/ Happened(sent.who, sent.op)
    BY <1>1 DEF DaemonDies, WorkerEnds
  <2>2. Known'
    BY <2>1, BridgeAssumption DEF Known, Request, Command, NoRequest, NoCmd
  <2>3. SameTool
    BY <2>1, HappenedToTool DEF SameTool
  <2>4. call'.todo = call.todo /\ call'.pc = call.pc
    BY <2>1, HappenedTo DEF SameCall
  <2>5. call'.done = call.done \/ sent.who = "mcp"
    BY <2>1, HappenedTo DEF SameCall
  <2>6. QED BY <2>2, <2>3, <2>4, <2>5, SentAgrees, CallStillGated
<1>2. CASE \E input \in Inputs : DaemonStarts(input)
  <2>1. /\ ~daemon.up /\ daemon'.up /\ UNCHANGED <<conn, cmd, handler, call, profile>>
    BY <1>2 DEF DaemonStarts, WorkerStarts
  <2>2. Known'
    BY <2>1 DEF GateInv, Known, BridgeInv, Pending, Request, Command
  <2>3. QED BY <2>1, <2>2, CallStillGated DEF SameTool
<1>3. QED BY <1>1, <1>2

LEMMA OthersGated ==
  ASSUME BridgeInv, GateInv,
         \/ WaylandBreaks \/ CliReads
         \/ \E x \in MouseAt : UserMovesPointer(x)
         \/ \E op \in {"abs", "rel", "click"}, x \in MouseAt : CliAsks(op, x)
         \/ \E w \in WinAt : UserMovesWindow(w)
         \/ \E l \in Layouts, w \in WinAt : UserChangesLayout(l, w)
  PROVE  GateInv' /\ Restrained
<1>1. /\ UNCHANGED <<cmd, conn, daemon, profile>>
      /\ UNCHANGED handler \/ \E r : handler' = [handler EXCEPT !["cli"] = r]
      /\ \/ UNCHANGED call
         \/ Happened("cli", "abs")
         \/ call' = [call EXCEPT !.calm = FALSE]
  BY DEF WaylandBreaks, ConnectionBreaks, CliReads, UserMovesPointer, PointerMovedTo, CliAsks,
         UserMovesWindow, UserChangesLayout, LayoutChanges, pvars
<1>2. SameTool
  <2>1. CASE call' = [call EXCEPT !.calm = FALSE]
    BY <1>1, <2>1 DEF SameTool, BridgeInv, Shaped, CallShape
  <2>2. QED BY <1>1, <2>1, HappenedToTool DEF SameTool
<1>3. call'.todo = call.todo /\ call'.pc = call.pc /\ call'.done = call.done
  BY <1>1, HappenedTo, CalmOnly DEF BridgeInv, SameCall
<1>4. Request' = Request
  <2>1. DOMAIN handler = Client
    BY DEF BridgeInv, Shaped, RequestShape
  <2>2. ASSUME NEW r, handler' = [handler EXCEPT !["cli"] = r]
        PROVE  handler'["mcp"] = handler["mcp"]
    BY <2>1, <2>2, BridgeAssumption
  <2>3. QED BY <1>1, <2>2 DEF Request
<1>5. Known'
  BY <1>1, <1>2, <1>4 DEF GateInv, Known, SameTool, Command
<1>6. QED BY <1>2, <1>3, <1>5, CallStillGated

LEMMA GateInit == ASSUME Init PROVE GateInv
<1>1. /\ call.pc = "idle" /\ conn = "none" /\ Request.st = "none" /\ Command.st = "none"
  BY BridgeAssumption DEF Init, PointerInit, Idle, Request, Command, NoRequest, NoCmd
<1>2. QED BY <1>1 DEF GateInv, Gated, Known

LEMMA GateStep == ASSUME BridgeInv, GateInv, [Next]_vars PROVE GateInv' /\ Restrained
<1>1. CASE Server
  BY <1>1, CallGated, NothingDone, ServerGated DEF Server
<1>2. CASE Worker
  BY <1>2, WorkerGated DEF Worker
<1>3. CASE Others
  BY <1>3, DaemonGated, OthersGated DEF Others
<1>4. CASE CliReads \/ \E input \in Inputs : DaemonStarts(input)
  BY <1>4, DaemonGated, OthersGated
<1>5. CASE \E c \in Client : Handler(c)
  <2>1. PICK c \in Client : Handler(c)
    BY <1>5
  <2>2. QED BY <2>1, HandlerGated, PointerGated DEF Handler
<1>6. CASE UNCHANGED vars
  <2>1. Known'
    BY <1>6 DEF vars, pvars, bridge, GateInv, Known, Request, Command
  <2>2. QED BY <1>6, <2>1, CallStillGated DEF vars, bridge, SameTool
<1>7. QED BY <1>1, <1>2, <1>3, <1>4, <1>5, <1>6 DEF Next

\* No tool of the agent has an effect that the profile, dry_run or the gate of
\* the input forbids, for every profile: the daemon that has the request is the
\* one whose gate counts, and knows the argument as the agent gave it
\* (handle_call_tool, the handle_* functions of tools.rs, input_disabled).
THEOREM RestraintHolds == Spec => BothGatesAgree
<1>1. Init => BridgeInv /\ GateInv
  BY BridgeInit, GateInit
<1>2. BridgeInv /\ GateInv /\ [Next]_vars => BridgeInv' /\ GateInv'
  BY BridgeStep, GateStep
<1>3. BridgeInv /\ GateInv /\ [Next]_vars =>
         [Len(call'.done) > Len(call.done) =>
             /\ call.tool \notin profile.deny_tools
             /\ call.tool \in profile.allow_tools \/ Registry[call.tool].group \in profile.allow
             /\ Registry[call.tool].mutating
             /\ Registry[call.tool].hasDry => ~call.dry
             /\ Registry[call.tool].group = "input" => daemon.input # "closed"]_vars
  BY GateStep DEF Restrained, Agree
<1>4. QED BY <1>1, <1>2, <1>3, PTL DEF Spec, BothGatesAgree

-----------------------------------------------------------------------------
(* What a restart of the daemon costs.                                     *)

\* A connection, or a daemon, that will not answer has broken since the last
\* request.
Loss ==
    /\ ~daemon.up => broke
    /\ conn = "stale" => broke
    /\ call.pc = "asked" /\ Request.st = "none" => broke
    /\ Request.st # "none" => conn = "live"

\* The calls that are lost.
LostHasACause == call.outcome # "lost" /\ call'.outcome = "lost" => broke

LEMMA NotLost ==
  ASSUME call'.outcome = call.outcome \/ call'.outcome # "lost"
  PROVE  LostHasACause
BY DEF LostHasACause

LEMMA CallEndsNotLost ==
  ASSUME BridgeInv, \/ Ends("ok") \/ Ends("failed") \/ \E x, region : Advance(x, region)
  PROVE  LostHasACause /\ call'.pc # "asked"
<1>1. ASSUME NEW outcome \in {"ok", "failed"}, Ends(outcome)
      PROVE  call'.outcome # "lost" /\ call'.pc # "asked"
  BY <1>1 DEF Ends, Idle
<1>2. ASSUME NEW x, NEW region, Advance(x, region)
      PROVE  /\ call'.outcome = call.outcome \/ call'.outcome # "lost"
             /\ call'.pc # "asked"
  <2>1. CASE Len(call.todo) = 1
    BY <1>1, <1>2, <2>1 DEF Advance
  <2>2. CASE Len(call.todo) # 1
    BY <1>2, <2>2 DEF Advance, BridgeInv, Shaped, CallShape
  <2>3. QED BY <2>1, <2>2
<1>3. QED BY <1>1, <1>2, NotLost

LEMMA ServerLoss ==
  ASSUME BridgeInv, Loss, GateInv, Server
  PROVE  Loss' /\ LostHasACause
<1>1. ASSUME NEW tool, NEW dry, NEW region, NEW active, NEW x, Call(tool, dry, region, active, x)
      PROVE  Loss' /\ LostHasACause
  <2>1. /\ UNCHANGED <<daemon, conn, handler, broke>> /\ Request.st = "none"
    BY <1>1 DEF Call, BridgeInv, Pending
  <2>2. call'.pc # "asked" /\ call'.outcome # "lost"
    <3>1. CASE \E outcome \in {"denied", "invalid", "preview"} : Ends(outcome)
      BY <3>1 DEF Ends, Idle
    <3>2. CASE call' = [Idle("none") EXCEPT !.pc = "work", !.tool = tool, !.dry = dry,
                          !.region = region, !.todo = Plan(tool, dry, active), !.x = x]
      BY <3>2 DEF Idle
    <3>3. QED BY <1>1, <3>1, <3>2 DEF Call
  <2>3. QED BY <2>1, <2>2, NotLost DEF Loss, Request
<1>2. CASE Scan
  <2>1. /\ UNCHANGED <<daemon, conn, handler, broke>> /\ Request.st = "none"
        /\ Ends("failed") \/ \E x, region : Advance(x, region)
    BY <1>2 DEF Scan, BridgeInv, Pending
  <2>2. QED BY <2>1, CallEndsNotLost DEF Loss, Request
<1>3. CASE Ask
  <2>1. /\ UNCHANGED <<daemon, broke>> /\ conn' = "live"
        /\ handler' = [handler EXCEPT !["mcp"] = Asked(Head(call.todo), call.x, call.dry)]
        /\ call'.outcome = call.outcome
    BY <1>3 DEF Ask, BridgeInv, Shaped, CallShape
  <2>2. Request'.st # "none"
    BY <2>1, BridgeAssumption DEF Request, BridgeInv, Shaped, RequestShape, Asked
  <2>3. QED BY <2>1, <2>2, NotLost DEF Loss
<1>4. CASE Lost
  <2>1. /\ Unanswered /\ UNCHANGED <<daemon, handler>> /\ conn' = "none" /\ broke' = ~daemon.up
        /\ call'.pc = "idle" /\ Request.st = "none"
    BY <1>4 DEF Lost, Ends, Idle, Unanswered, BridgeInv, Pending, Request
  <2>2. broke
    BY <2>1 DEF Unanswered, Loss, Request
  <2>3. QED BY <2>1, <2>2 DEF Loss, LostHasACause, Request
<1>5. CASE Receive
  <2>1. /\ call.pc = "asked" /\ Request.st = "done" /\ conn = "live" /\ daemon.up
        /\ conn' \in {conn, "none"} /\ UNCHANGED daemon
        /\ Ends("failed") \/ \E x, region : Advance(x, region)
    BY <1>5 DEF Receive, Request, Loss, GateInv, Known
  <2>2. Request'.st = "none"
    BY <1>5, BridgeAssumption DEF Receive, Request, BridgeInv, Shaped, RequestShape, NoRequest
  <2>3. QED BY <2>1, <2>2, CallEndsNotLost DEF Loss
<1>6. QED BY <1>1, <1>2, <1>3, <1>4, <1>5 DEF Server

\* Steps of others but the daemon's process, which answer a request at most.
LEMMA OthersLoss ==
  ASSUME BridgeInv, Loss, UNCHANGED <<daemon, conn, broke>>,
         call'.pc = call.pc, call'.outcome = call.outcome,
         Request'.st = Request.st \/ (Request.st # "none" /\ Request'.st # "none")
  PROVE  Loss' /\ LostHasACause
BY NotLost DEF Loss

LEMMA HappenedToOutcome ==
  ASSUME BridgeInv, NEW c, NEW op, Happened(c, op)
  PROVE  call'.outcome = call.outcome /\ call'.pc = call.pc
BY DEF Happened, BridgeInv, Shaped, CallShape

LEMMA HandlerLoss ==
  ASSUME BridgeInv, Loss, NEW c \in Client, Handler(c)
  PROVE  Loss' /\ LostHasACause
<1>1. /\ UNCHANGED <<daemon, conn, broke>> /\ handler[c].st # "none"
      /\ \/ \E ok, x : Answer(c, ok, x)
         \/ handler' = [handler EXCEPT ![c].st = "pointer"]
  BY DEF Handler, HandlerFails, Lookup, BindPreview, Dispatch, ByYdotool, ToPointer,
         PointerAnswers, Received
<1>2. call'.outcome = call.outcome /\ call'.pc = call.pc
  <2>1. CASE \/ HandlerFails(c) \/ Lookup(c) \/ BindPreview(c) \/ PointerAnswers(c)
             \/ \E asked \in BOOLEAN : ToPointer(c, asked)
    BY <2>1 DEF HandlerFails, Lookup, BindPreview, PointerAnswers, ToPointer, BridgeInv, Shaped,
                CallShape
  <2>2. ASSUME NEW ok \in BOOLEAN, Dispatch(c, ok)
        PROVE  call'.outcome = call.outcome /\ call'.pc = call.pc
    BY <2>2, HappenedToOutcome DEF Dispatch
  <2>3. ASSUME NEW ok \in BOOLEAN, NEW x \in MouseAt, ByYdotool(c, x, ok)
        PROVE  call'.outcome = call.outcome /\ call'.pc = call.pc
    <3>1. CASE c = "mcp"
      BY <2>3, <3>1 DEF ByYdotool, BridgeInv, Shaped, CallShape
    <3>2. CASE c # "mcp"
      BY <2>3, <3>2, HappenedToOutcome DEF ByYdotool
    <3>3. QED BY <3>1, <3>2
  <2>4. QED BY <2>1, <2>2, <2>3 DEF Handler
<1>3. Request'.st = Request.st \/ (Request.st # "none" /\ Request'.st # "none")
  <2>1. CASE \E ok, x : Answer(c, ok, x)
    BY <1>1, <2>1, AnswerOf DEF Request
  <2>2. CASE handler' = [handler EXCEPT ![c].st = "pointer"]
    BY <1>1, <2>2 DEF Request, BridgeInv, Shaped, RequestShape
  <2>3. QED BY <1>1, <2>1, <2>2
<1>4. QED BY <1>1, <1>2, <1>3, OthersLoss

LEMMA WorkerLoss ==
  ASSUME BridgeInv, Loss, Worker
  PROVE  Loss' /\ LostHasACause
<1>1. UNCHANGED <<daemon, conn, broke, handler>>
  BY DEF Worker, WorkerTakes, WorkerAnswers
<1>2. call'.outcome = call.outcome /\ call'.pc = call.pc
  <2>1. CASE WorkerTakes
    BY <2>1 DEF WorkerTakes, BridgeInv, Shaped, CallShape
  <2>2. CASE WorkerAnswers
    BY <2>2, HappenedToOutcome DEF WorkerAnswers
  <2>3. QED BY <2>1, <2>2 DEF Worker
<1>3. QED BY <1>1, <1>2, OthersLoss DEF Request

LEMMA RestLoss ==
  ASSUME BridgeInv, Loss, Others \/ CliReads \/ \E input \in Inputs : DaemonStarts(input)
  PROVE  Loss' /\ LostHasACause
<1>1. CASE DaemonDies
  <2>1. /\ broke' /\ conn' # "live" /\ handler' = [c \in Client |-> NoRequest]
        /\ UNCHANGED call \/ Happened(sent.who, sent.op)
    BY <1>1 DEF DaemonDies
  <2>2. Request'.st = "none"
    BY <2>1, BridgeAssumption DEF Request, NoRequest
  <2>3. QED BY <2>1, <2>2, HappenedToOutcome, NotLost DEF Loss
<1>2. CASE \E input \in Inputs : DaemonStarts(input)
  BY <1>2, NotLost DEF DaemonStarts, Loss, Request
<1>3. CASE \/ WaylandBreaks \/ CliReads
           \/ \E x \in MouseAt : UserMovesPointer(x)
           \/ \E op \in {"abs", "rel", "click"}, x \in MouseAt : CliAsks(op, x)
           \/ \E w \in WinAt : UserMovesWindow(w)
           \/ \E l \in Layouts, w \in WinAt : UserChangesLayout(l, w)
  <2>1. /\ UNCHANGED <<daemon, conn, broke>>
        /\ UNCHANGED handler \/ \E r : handler' = [handler EXCEPT !["cli"] = r]
        /\ \/ UNCHANGED call
           \/ Happened("cli", "abs")
           \/ call' = [call EXCEPT !.calm = FALSE]
    BY <1>3 DEF WaylandBreaks, CliReads, UserMovesPointer, CliAsks, UserMovesWindow,
                UserChangesLayout
  <2>2. call'.outcome = call.outcome /\ call'.pc = call.pc
    <3>1. CASE call' = [call EXCEPT !.calm = FALSE]
      BY <3>1 DEF BridgeInv, Shaped, CallShape
    <3>2. QED BY <2>1, <3>1, HappenedToOutcome
  <2>3. Request' = Request
    <3>1. ASSUME NEW r, handler' = [handler EXCEPT !["cli"] = r]
          PROVE  handler'["mcp"] = handler["mcp"]
      BY <3>1, BridgeAssumption DEF BridgeInv, Shaped, RequestShape
    <3>2. QED BY <2>1, <3>1 DEF Request
  <2>4. QED BY <2>1, <2>2, <2>3, OthersLoss
<1>4. QED BY <1>1, <1>2, <1>3 DEF Others

LEMMA LossStep ==
  ASSUME BridgeInv, GateInv, Loss, [Next]_vars
  PROVE  Loss' /\ LostHasACause
<1>1. CASE UNCHANGED vars
  BY <1>1, OthersLoss DEF vars, bridge, Request
<1>2. CASE \E c \in Client : Handler(c)
  BY <1>2, HandlerLoss
<1>3. QED BY <1>1, <1>2, ServerLoss, WorkerLoss, RestLoss DEF Next

\* A call of the agent is lost only if the daemon has been down since the
\* request before, however the agent, its calls and the daemons alternate
\* (Server::daemon connects anew, Server::forward drops a failed client).
THEOREM RestartsAreCheap == Spec => RestartCostsOneCall
<1>1. Init => BridgeInv /\ GateInv /\ Loss
  <2>1. Init => conn = "none" /\ call.pc = "idle" /\ Request.st = "none"
    BY BridgeAssumption DEF Init, Idle, Request, NoRequest
  <2>2. Init => daemon.up
    BY DEF Init
  <2>3. QED BY <2>1, <2>2, BridgeInit, GateInit DEF Loss
<1>2. BridgeInv /\ GateInv /\ Loss /\ [Next]_vars => BridgeInv' /\ GateInv' /\ Loss'
  BY BridgeStep, GateStep, LossStep
<1>3. BridgeInv /\ GateInv /\ Loss /\ [Next]_vars =>
         [call.outcome # "lost" /\ call'.outcome = "lost" => broke]_vars
  BY LossStep DEF LostHasACause
<1>4. QED BY <1>1, <1>2, <1>3, PTL DEF Spec, RestartCostsOneCall

-----------------------------------------------------------------------------
(* Coordinates: rounding, and where a device coordinate is.                *)

LEMMA DivBounds ==
  ASSUME NEW a \in Int, NEW b \in Nat \ {0}
  PROVE  a \div b \in Int /\ b * (a \div b) <= a /\ a < b * (a \div b) + b
OBVIOUS

\* What is rounded is no further than one half from the quotient.
LEMMA RoundBounds ==
  ASSUME NEW n \in Nat, NEW d \in Nat \ {0}
  PROVE  /\ Round(n, d) \in Nat
         /\ 2 * (d * Round(n, d)) <= 2 * n + d
         /\ 2 * n < 2 * (d * Round(n, d)) + d
<1> DEFINE r == (2 * n + d) \div (2 * d)
<1>1. Round(n, d) = r
  BY DEF Round
<1>2. r \in Int /\ (2 * d) * r <= 2 * n + d /\ 2 * n + d < (2 * d) * r + 2 * d
  <2>1. 2 * n + d \in Int /\ 2 * d \in Nat \ {0}
    OBVIOUS
  <2>2. QED BY <2>1, DivBounds
<1> HIDE DEF r
<1>3. (2 * d) * r = 2 * (d * r)
  BY <1>2
<1>4. r >= 0
  <2>1. SUFFICES ASSUME r <= -1 PROVE FALSE
    BY <1>2
  <2>2. (2 * d) * r <= -(2 * d)
    BY <1>2, <2>1
  <2>3. QED BY <1>2, <2>2
<1>5. QED BY <1>1, <1>2, <1>3, <1>4

LEMMA RoundHalves ==
  ASSUME NEW n \in Nat
  PROVE  /\ Round(n, 2) \in Nat
         /\ 2 * Round(n, 2) <= n + 1
         /\ n <= 2 * Round(n, 2) + 1
<1> DEFINE x == Round(n, 2)
<1>1. x \in Nat /\ 4 * x <= 2 * n + 2 /\ 2 * n < 4 * x + 2
  BY RoundBounds
<1> HIDE DEF x
<1>2. x \in Nat /\ 2 * x <= n + 1 /\ n <= 2 * x + 1
  BY <1>1
<1>3. QED BY <1>2 DEF x

\* Rounding finds the integer that is less than one half away.
LEMMA RoundFinds ==
  ASSUME NEW n \in Nat, NEW d \in Nat \ {0}, NEW r \in Nat,
         2 * (d * r) < 2 * n + d, 2 * n < 2 * (d * r) + d
  PROVE  Round(n, d) = r
<1> DEFINE q == Round(n, d)
<1>1. q \in Nat /\ 2 * (d * q) <= 2 * n + d /\ 2 * n < 2 * (d * q) + d
  BY RoundBounds
<1> HIDE DEF q
<1>2. d * q < d * r + d /\ d * r < d * q + d
  BY <1>1
<1>3. q < r + 1
  <2>1. SUFFICES ASSUME q >= r + 1 PROVE FALSE
    BY <1>1
  <2>2. d * q >= d * (r + 1)
    BY <1>1, <2>1
  <2>3. QED BY <1>1, <1>2, <2>2
<1>4. r < q + 1
  <2>1. SUFFICES ASSUME r >= q + 1 PROVE FALSE
    BY <1>1
  <2>2. d * r >= d * (q + 1)
    BY <1>1, <2>1
  <2>3. QED BY <1>1, <1>2, <2>2
<1>5. QED BY <1>1, <1>3, <1>4 DEF q

\* From logical to device coordinates and back, at a scale of one or more:
\* nothing is lost (scale in halves).
LEMMA ThereAndBack ==
  ASSUME NEW p \in Nat, NEW s \in Nat, s >= 2
  PROVE  Round(2 * Round(p * s, 2), s) = p
<1> DEFINE x == Round(p * s, 2)
<1>1. p * s \in Nat
  OBVIOUS
<1>2. x \in Nat /\ 4 * x <= 2 * (p * s) + 2 /\ 2 * (p * s) < 4 * x + 2
  BY <1>1, RoundBounds
<1> HIDE DEF x
<1>3. CASE s = 2
  <2>1. x = p
    BY <1>2, <1>3
  <2>2. 2 * (2 * p) < 2 * (2 * p) + 2
    OBVIOUS
  <2>3. 2 * x \in Nat /\ 2 * (2 * p) < 2 * (2 * x) + 2 /\ 2 * (2 * x) < 2 * (2 * p) + 2
    BY <2>1
  <2>4. Round(2 * x, 2) = p
    BY <2>3, RoundFinds
  <2>5. QED BY <1>3, <2>4 DEF x
<1>4. CASE s > 2
  <2>1. p * s = s * p
    OBVIOUS
  <2>2. 2 * x \in Nat /\ 2 * (s * p) < 2 * (2 * x) + s /\ 2 * (2 * x) < 2 * (s * p) + s
    BY <1>1, <1>2, <1>4, <2>1
  <2>3. QED BY <1>4, <2>2, RoundFinds DEF x
<1>5. QED BY <1>3, <1>4

\* On one output of width w and scale s, L logical pixels wide: a device
\* coordinate x that stands for the logical p is met by the pointer at less
\* than one pixel from p.
LEMMA OneOutputHits ==
  ASSUME NEW p \in Nat, NEW s \in Nat, NEW w \in Nat \ {0}, s >= 2, p >= 1,
         p + 1 <= Round(2 * w, s)
  PROVE  LET x == Round(p * s, 2)
             L == Round(2 * w, s)
         IN  /\ x \in Nat /\ x <= w
             /\ (p - 1) * w <= x * L
             /\ x * L < (p + 1) * w
<1> DEFINE x == Round(p * s, 2)
           L == Round(2 * w, s)
<1>1. p * s \in Nat /\ 2 * w \in Nat /\ s \in Nat \ {0}
  OBVIOUS
<1>2. x \in Nat /\ 2 * x <= p * s + 1 /\ p * s <= 2 * x + 1
  BY <1>1, RoundHalves
<1>3. L \in Nat /\ 2 * (s * L) <= 4 * w + s /\ 4 * w < 2 * (s * L) + s
  BY <1>1, RoundBounds
<1>4. p + 1 <= L
  OBVIOUS
<1> HIDE DEF x, L
<1>5. s * (p + 1) <= s * L
  BY <1>3, <1>4
<1>6. s * (p + 1) = p * s + s
  OBVIOUS
<1>7. 2 * (p * s) + s <= 4 * w
  BY <1>1, <1>3, <1>5, <1>6
<1>8. 4 * x <= 4 * w /\ x <= w
  BY <1>1, <1>2, <1>7
<1> DEFINE A == p * s
           B == s * L
           C == x * L
<1>9. A \in Nat /\ B \in Nat /\ C \in Nat
  BY <1>2, <1>3
<1>10. x * (2 * B) = (2 * s) * C
  BY <1>2, <1>3
<1>11. (2 * s) * C <= x * (4 * w + s) /\ x * (4 * w) <= (2 * s) * C + x * s
  <2>1. x * (2 * B) <= x * (4 * w + s)
    BY <1>2, <1>3
  <2>2. x * (4 * w) <= x * (2 * B + s)
    BY <1>2, <1>3
  <2>3. x * (2 * B + s) = x * (2 * B) + x * s
    BY <1>2, <1>9
  <2>4. QED BY <1>10, <2>1, <2>2, <2>3
<1>12. x * s <= w * s
  BY <1>2, <1>8
<1>13. (2 * x) * (2 * w) <= (A + 1) * (2 * w) /\ A * (2 * w) <= (2 * x + 1) * (2 * w)
  BY <1>2
<1>14. (2 * x) * (2 * w) = x * (4 * w) /\ w * s \in Nat /\ A * (2 * w) \in Nat
  BY <1>2, <1>9
<1>15. (A + 1) * (2 * w) = A * (2 * w) + 2 * w /\ (2 * x + 1) * (2 * w) = x * (4 * w) + 2 * w
  BY <1>2, <1>9, <1>14
<1>16. x * (4 * w + s) = x * (4 * w) + x * s /\ x * (4 * w) \in Nat /\ x * s \in Nat
  BY <1>2
<1>17. (2 * s) * C <= A * (2 * w) + 2 * w + w * s
  BY <1>9, <1>11, <1>12, <1>13, <1>14, <1>15, <1>16
<1>18. A * (2 * w) <= (2 * s) * C + 2 * w + w * s
  BY <1>9, <1>11, <1>12, <1>13, <1>14, <1>15, <1>16
<1>19. /\ (2 * s) * ((p + 1) * w) = A * (2 * w) + 2 * (w * s)
       /\ (2 * s) * ((p - 1) * w) = A * (2 * w) - 2 * (w * s)
  OBVIOUS
<1>20. (p - 1) * w <= C
  <2>1. 2 * w <= w * s
    OBVIOUS
  <2>2. (2 * s) * ((p - 1) * w) <= (2 * s) * C
    BY <1>9, <1>14, <1>18, <1>19, <2>1
  <2> HIDE DEF C
  <2>3. SUFFICES ASSUME (p - 1) * w > C PROVE FALSE
    BY <1>9
  <2>4. (2 * s) * ((p - 1) * w) > (2 * s) * C
    BY <1>9, <2>3
  <2>5. QED BY <1>9, <2>2, <2>4
<1>21. C < (p + 1) * w
  <2>1. CASE s > 2
    <3>1. 2 * w < w * s
      BY <2>1
    <3>2. (2 * s) * C < (2 * s) * ((p + 1) * w)
      BY <1>9, <1>14, <1>17, <1>19, <3>1
    <3> HIDE DEF C
    <3>3. SUFFICES ASSUME C >= (p + 1) * w PROVE FALSE
      BY <1>9
    <3>4. (2 * s) * C >= (2 * s) * ((p + 1) * w)
      BY <1>9, <3>3
    <3>5. QED BY <1>9, <3>2, <3>4
  <2>2. CASE s = 2
    <3>1. x = p /\ L = w
      BY <1>2, <1>3, <2>2
    <3>2. QED BY <3>1
  <2>3. QED BY <2>1, <2>2
<1>22. QED BY <1>2, <1>8, <1>20, <1>21 DEF x, L

-----------------------------------------------------------------------------
LEMMA LeastExists ==
    ASSUME NEW S \in SUBSET Nat, S # {}
    PROVE  \E x \in S : \A y \in S : x <= y
<1> DEFINE R == OpToRel(<, Nat)
<1>1. PICK x \in S : \A y \in S : <<y, x>> \notin R
  BY NatLessThanWellFounded, WFMin
<1>2. SUFFICES ASSUME NEW y \in S, ~(x <= y) PROVE FALSE
  OBVIOUS
<1>3. y < x /\ <<y, x>> \in Nat \X Nat
  BY <1>2
<1>4. <<y, x>> \in R
  BY <1>3 DEF OpToRel
<1>5. QED BY <1>1, <1>4

\* A function on a finite set has a greatest value: a smallest set without one
\* would have one when an element is taken away.
LEMMA GreatestValue ==
  ASSUME NEW S, IsFiniteSet(S), S # {}, NEW f \in [S -> Int]
  PROVE  \E m \in S : \A y \in S : f[y] <= f[m]
<1> DEFINE Tops(T) == \E m \in T : \A y \in T : f[y] <= f[m]
           Bad == {T \in SUBSET S : T # {} /\ ~Tops(T)}
           Sizes == {Cardinality(T) : T \in Bad}
<1>1. SUFFICES ASSUME Bad # {} PROVE FALSE
  OBVIOUS
<1>2. \A T \in SUBSET S : IsFiniteSet(T) /\ Cardinality(T) \in Nat
  BY FS_Subset, FS_CardinalityType
<1>3. Sizes \in SUBSET Nat /\ Sizes # {}
  BY <1>1, <1>2
<1>4. PICK n \in Sizes : \A k \in Sizes : n <= k
  BY <1>3, LeastExists
<1>5. PICK T \in Bad : Cardinality(T) = n
  BY <1>4
<1>6. PICK t \in T : TRUE
  OBVIOUS
<1> DEFINE Less == T \ {t}
<1>7. Cardinality(Less) = Cardinality(T) - 1
  BY <1>2, <1>5, <1>6, FS_RemoveElement
<1>8. Less \in SUBSET S /\ Less \notin Bad
  <2>1. Less \in SUBSET S
    OBVIOUS
  <2>2. Cardinality(Less) < n /\ n \in Nat /\ Cardinality(Less) \in Nat
    BY <1>2, <1>5, <1>7, <2>1
  <2>3. Cardinality(Less) \notin Sizes
    BY <1>4, <2>2
  <2>4. QED BY <2>1, <2>3
<1>9. f[t] \in Int
  BY <1>6
<1>10. CASE Less = {}
  <2>1. T = {t}
    BY <1>6, <1>10
  <2>2. Tops(T)
    BY <1>9, <2>1
  <2>3. QED BY <2>2
<1>11. CASE Less # {}
  <2>1. PICK m \in Less : \A y \in Less : f[y] <= f[m]
    BY <1>8, <1>11
  <2>2. f[m] \in Int /\ m \in T /\ \A y \in T : y = t \/ y \in Less
    BY <1>5, <2>1
  <2>3. CASE f[t] <= f[m]
    BY <2>1, <2>2, <2>3
  <2>4. CASE f[m] < f[t]
    <3>1. \A y \in T : f[y] \in Int
      BY <1>5
    <3>2. \A y \in T : f[y] <= f[t]
      BY <1>9, <2>1, <2>2, <2>4, <3>1
    <3>3. QED BY <1>6, <3>2
  <2>5. QED BY <1>9, <2>2, <2>3, <2>4
<1>12. QED BY <1>10, <1>11

LEMMA MaxIs ==
  ASSUME NEW S \in SUBSET Int, NEW m \in S, \A y \in S : m >= y
  PROVE  Max(S) = m
<1> DEFINE c == CHOOSE x \in S : \A y \in S : x >= y
<1>1. \E x \in S : \A y \in S : x >= y
  OBVIOUS
<1>2. c \in S /\ \A y \in S : c >= y
  BY <1>1
<1>3. Max(S) = c
  BY DEF Max
<1> HIDE DEF c
<1>4. QED BY <1>2, <1>3

\* Where no output is scaled, the worker's extent is the compositor's width.
LEMMA UnscaledExtent ==
  ASSUME NEW l \in Layouts, \A o \in DOMAIN l.outs : l.outs[o].scale = 2
  PROVE  UnionExtent(l.outs) = Width(l) /\ Width(l) \in Nat \ {0}
<1> DEFINE S == DOMAIN l.outs
           f == [o \in S |-> l.outs[o].x + l.outs[o].width]
<1>1. /\ IsFiniteSet(S) /\ S # {}
      /\ \A o \in S : l.outs[o].x \in Nat /\ l.outs[o].width \in Nat \ {0}
  BY LayoutAssumption
<1>2. f \in [S -> Int] /\ \A o \in S : f[o] \in Nat \ {0}
  BY <1>1
<1>3. PICK m \in S : \A y \in S : f[y] <= f[m]
  BY <1>1, <1>2, GreatestValue
<1>4. \A o \in S : LogicalWidth(l.outs[o]) = l.outs[o].width
  <2>1. SUFFICES ASSUME NEW w \in Nat \ {0} PROVE Round(2 * w, 2) = w
    BY <1>1 DEF LogicalWidth
  <2>2. 2 * w \in Nat /\ 2 * (2 * w) < 2 * (2 * w) + 2
    OBVIOUS
  <2>3. QED BY <2>2, RoundFinds
<1>5. Width(l) = f[m]
  <2>1. {l.outs[o].x + LogicalWidth(l.outs[o]) : o \in S} = {f[o] : o \in S}
    BY <1>4
  <2>2. Max({f[o] : o \in S}) = f[m]
    <3>1. {f[o] : o \in S} \in SUBSET Int /\ \A y \in {f[o] : o \in S} : f[m] >= y
      BY <1>2, <1>3
    <3>2. QED BY <3>1, MaxIs
  <2>3. QED BY <2>1, <2>2 DEF Width
<1>6. UnionExtent(l.outs) = f[m]
  <2>1. {l.outs[o].x + l.outs[o].width : o \in S} = {f[o] : o \in S}
    OBVIOUS
  <2>2. Max({1} \union {f[o] : o \in S}) = f[m]
    <3> DEFINE T == {1} \union {f[o] : o \in S}
    <3>1. T \in SUBSET Int /\ f[m] \in T /\ \A y \in T : f[m] >= y
      <4>1. f[m] \in Nat \ {0} /\ \A o \in S : f[o] \in Int
        BY <1>2
      <4> HIDE DEF f
      <4>2. T \in SUBSET Int /\ f[m] \in T
        BY <4>1
      <4>3. \A y \in T : f[m] >= y
        BY <1>3, <4>1
      <4>4. QED BY <4>2, <4>3
    <3> HIDE DEF T
    <3>2. Max(T) = f[m]
      BY <3>1, MaxIs
    <3>3. QED BY <3>2 DEF T
  <2>3. QED BY <2>1, <2>2 DEF UnionExtent
<1>7. QED BY <1>2, <1>5, <1>6

\* The scale at a point is that of an output.
LEMMA ScaleIsOfOutput ==
  ASSUME NEW l \in Layouts, NEW x
  PROVE  \E o \in DOMAIN l.outs : ScaleAt(l, x) = l.outs[o].scale
BY LayoutAssumption DEF ScaleAt

\* No output is scaled down.
ScalesUp == \A l \in Layouts : \A o \in DOMAIN l.outs : l.outs[o].scale >= 2

\* What the worker makes of a coordinate.
Clipped(x, extent) == Min({Max({x, 0}), extent})

LEMMA ClippedIs ==
  ASSUME NEW x \in Nat, NEW extent \in Nat, x <= extent
  PROVE  Clipped(x, extent) = x
<1>1. Max({x, 0}) = x
  BY MaxIs
<1>2. QED BY <1>1 DEF Clipped, Min

\* The middle of an element, converted to device coordinates and sent to the
\* pointer, is on the element.
LEMMA MiddleIsHit ==
  ASSUME ScalesUp, NEW l \in Layouts, Exact(l), NEW w \in Nat, w + 2 <= Width(l)
  PROVE  LET extent == UnionExtent(l.outs)
             x == Clipped(ToDevice(l, w + 1), extent)
         IN  w * extent <= x * Width(l) /\ x * Width(l) < (w + 2) * extent
<1> DEFINE extent == UnionExtent(l.outs)
           x == Clipped(ToDevice(l, w + 1), extent)
<1>1. w + 1 \in Nat /\ (w + 1) - 1 = w /\ (w + 1) + 1 = w + 2
  OBVIOUS
<1>2. ASSUME NEW o \in DOMAIN l.outs, DOMAIN l.outs = {o}, l.outs[o].x = 0
      PROVE  w * extent <= x * Width(l) /\ x * Width(l) < (w + 2) * extent
  <2> DEFINE s == l.outs[o].scale
             d == l.outs[o].width
             L == Round(2 * d, s)
             y == Round((w + 1) * s, 2)
  <2>1. s \in Nat /\ s >= 2 /\ d \in Nat \ {0}
    BY LayoutAssumption DEF ScalesUp
  <2>2. ScaleAt(l, w + 1) = s
    BY <1>2, ScaleIsOfOutput
  <2>3. ToDevice(l, w + 1) = y
    BY <2>2 DEF ToDevice
  <2>4. L \in Nat
    <3>1. 2 * d \in Nat /\ s \in Nat \ {0}
      BY <2>1
    <3>2. QED BY <3>1, RoundBounds
  <2>5. Width(l) = L
    <3>1. {l.outs[p].x + LogicalWidth(l.outs[p]) : p \in DOMAIN l.outs} = {L}
      BY <1>2, <2>4 DEF LogicalWidth
    <3>2. Max({L}) = L
      BY <2>4, MaxIs
    <3>3. QED BY <3>1, <3>2 DEF Width
  <2>6. extent = d
    <3>1. {1} \union {l.outs[p].x + l.outs[p].width : p \in DOMAIN l.outs} = {1, d}
      BY <1>2, <2>1
    <3>2. Max({1, d}) = d
      <4> HIDE DEF d
      <4>1. {1, d} \in SUBSET Int /\ \A n \in {1, d} : d >= n
        BY <2>1
      <4>2. QED BY <4>1, MaxIs
    <3>3. QED BY <3>1, <3>2 DEF UnionExtent
  <2>7. (w + 1) + 1 <= L
    BY <2>4, <2>5
  <2>8. /\ y \in Nat /\ y <= d
        /\ ((w + 1) - 1) * d <= y * L /\ y * L < ((w + 1) + 1) * d
    <3> HIDE DEF s, d
    <3>1. w + 1 \in Nat /\ w + 1 >= 1
      OBVIOUS
    <3>2. QED BY <2>1, <2>7, <3>1, OneOutputHits
  <2>9. x = y
    BY <2>1, <2>3, <2>6, <2>8, ClippedIs
  <2>10. QED BY <1>1, <2>5, <2>6, <2>8, <2>9
<1>3. ASSUME \A o \in DOMAIN l.outs : l.outs[o].scale = 2
      PROVE  w * extent <= x * Width(l) /\ x * Width(l) < (w + 2) * extent
  <2> DEFINE W == Width(l)
  <2>1. extent = W /\ W \in Nat \ {0}
    BY <1>3, UnscaledExtent
  <2>2. ScaleAt(l, w + 1) = 2
    BY <1>3, ScaleIsOfOutput
  <2>3. Round((w + 1) * 2, 2) = w + 1
    <3>1. (w + 1) * 2 \in Nat /\ 2 * (2 * (w + 1)) < 2 * ((w + 1) * 2) + 2
          /\ 2 * ((w + 1) * 2) < 2 * (2 * (w + 1)) + 2
      OBVIOUS
    <3>2. QED BY <1>1, <3>1, RoundFinds
  <2>4. x = w + 1
    <3>1. w + 1 <= W
      BY <2>1
    <3>2. QED BY <1>1, <2>1, <2>2, <2>3, <3>1, ClippedIs DEF ToDevice
  <2> HIDE DEF W
  <2>5. w * W <= (w + 1) * W /\ (w + 1) * W < (w + 2) * W
    BY <2>1
  <2>6. QED BY <2>1, <2>4, <2>5 DEF W
<1>4. QED BY <1>2, <1>3 DEF Exact

\* The image of the element's middle, divided by the scale, is the middle.
LEMMA ImageIsMiddle ==
  ASSUME ScalesUp, NEW l \in Layouts, Exact(l), NEW w \in Nat, NEW o \in DOMAIN l.outs
  PROVE  Round(2 * Round((w + 1) * ScaleAt(l, w), 2), l.outs[o].scale) = w + 1
<1>1. ScaleAt(l, w) = l.outs[o].scale
  BY ScaleIsOfOutput DEF Exact
<1>2. l.outs[o].scale \in Nat /\ l.outs[o].scale >= 2 /\ w + 1 \in Nat
  BY LayoutAssumption DEF ScalesUp
<1>3. QED BY <1>1, <1>2, ThereAndBack

-----------------------------------------------------------------------------
(* Where a click lands.                                                    *)

Clicking == call.tool \in ClickTools
Clicks == {"active", "scan", "monitors", "find", "clients", "abs", "click"}

\* Which stage a click tool's plan has after which.
Then == {<<"active", "scan">>, <<"scan", "monitors">>, <<"monitors", "abs">>,
         <<"find", "clients">>, <<"clients", "abs">>, <<"abs", "click">>}

InTurn(p) ==
    /\ \A i \in 1..Len(p) : p[i] \in Clicks
    /\ \A i, j \in 1..Len(p) : j = i + 1 => <<p[i], p[j]>> \in Then

\* The stages of a click come in turn, and before it has seen the element the
\* call is not calm; an element is found at 1 beyond the window's corner.
Planned ==
    Clicking =>
        /\ call.pc # "idle" /\ call.todo \in Seq(Stages) /\ InTurn(call.todo)
        /\ call.calm => call.todo[1] \in {"clients", "monitors", "abs", "click"}
        /\ call.todo[1] = "clients" => call.x = 1

\* The command line only moves the pointer.
CliMoves == "op" \in DOMAIN handler["cli"] /\ handler["cli"].op # "clients"

\* A request is the first stage's, and a command a request's.
Told ==
    /\ Request.st # "none" => Request.op = call.todo[1] /\ Request.op # "scan"
    /\ Request.st = "pointer" => Request.op \in {"abs", "rel", "click"}
    /\ Command.st # "none" => Request.st = "pointer"
    /\ Request.st = "done" /\ Request.ok /\ Request.op = "find" => Request.x = 1

\* The button is not pressed before the pointer has been moved.
MovedFirst ==
    Clicking =>
        /\ call.todo[1] = "abs" /\ (Command.st = "ok" \/ (Request.st = "done" /\ Request.ok))
              => Done("abs")
        /\ call.todo[1] = "click" => Done("abs")
        /\ Done("click") => Done("abs")
        /\ Done("abs") => call.todo[1] \in {"abs", "click"}

Placed == layout \in Layouts /\ win \in Nat /\ win + 2 <= Width(layout)

\* The calls of which ClickLandsOnTarget speaks, before and after the press.
Trusted == Clicking /\ call.calm /\ Exact(layout) /\ call.region.x = 0

\* What a call has seen is where the window is, in an image at the scale there.
Sees ==
    /\ call.todo[1] = "clients" =>
          call.pc = "asked" /\ Request.st \in {"none", "done"} /\ (Request.st = "done" => Request.x = win)
    /\ call.todo[1] = "monitors" =>
          /\ call.x = Round((win + 1) * ScaleAt(layout, win), 2)
          /\ Request.st = "done" /\ Request.ok =>
                \E o \in DOMAIN layout.outs : Request.x = layout.outs[o].scale

\* What it moves the pointer to is the middle of the element, and what the
\* worker has sent is that in device coordinates.
Heads ==
    call.todo[1] = "abs" =>
        /\ call.x = win + 1
        /\ Request.st = "received" => Request.x = win + 1
        /\ Command.st = "queued" => Command.x = ToDevice(layout, win + 1)
        /\ sent.who = "mcp" => /\ sent.extent = UnionExtent(layout.outs)
                               /\ sent.x = Clipped(ToDevice(layout, win + 1), sent.extent)

Aim == Sees /\ Heads /\ (Done("abs") => OnElement)

ClickInv == Planned /\ CliMoves /\ Told /\ MovedFirst /\ Placed /\ (Trusted => Aim)

-----------------------------------------------------------------------------
LEMMA JoinedInTurn ==
  ASSUME NEW s \in Seq(Stages), NEW t \in Seq(Stages), InTurn(s), InTurn(t), s # <<>>,
         t # <<>> => <<s[Len(s)], t[1]>> \in Then
  PROVE  InTurn(s \o t) /\ (s \o t)[1] = s[1] /\ s \o t \in Seq(Stages)
<1>1. /\ Len(s \o t) = Len(s) + Len(t) /\ Len(s) \in Nat /\ Len(t) \in Nat
      /\ \A i \in 1..Len(s) + Len(t) : (s \o t)[i] = IF i <= Len(s) THEN s[i] ELSE t[i - Len(s)]
      /\ s \o t \in Seq(Stages) /\ Len(s) # 0
  BY ConcatProperties, LenProperties, EmptySeq
<1> DEFINE p == s \o t
<1>2. \A i \in 1..Len(s) : i \in 1..Len(s) + Len(t) /\ p[i] = s[i]
  BY <1>1
<1>3. \A i \in 1..Len(t) : Len(s) + i \in 1..Len(s) + Len(t) /\ p[Len(s) + i] = t[i]
  BY <1>1
<1>4. \A i \in 1..Len(s) + Len(t) : i \in 1..Len(s) \/ \E k \in 1..Len(t) : i = Len(s) + k
  <2>1. SUFFICES ASSUME NEW i \in 1..Len(s) + Len(t), i > Len(s)
                 PROVE  \E k \in 1..Len(t) : i = Len(s) + k
    BY <1>1
  <2>2. i - Len(s) \in 1..Len(t) /\ i = Len(s) + (i - Len(s))
    BY <1>1, <2>1
  <2>3. QED BY <2>2
<1> HIDE DEF p
<1>5. \A i \in 1..Len(s) + Len(t) : p[i] \in Clicks
  BY <1>2, <1>3, <1>4 DEF InTurn
<1>6. ASSUME NEW i \in 1..Len(s) + Len(t), NEW j \in 1..Len(s) + Len(t), j = i + 1
      PROVE  <<p[i], p[j]>> \in Then
  <2>1. CASE j \in 1..Len(s)
    <3>1. i \in 1..Len(s)
      BY <1>1, <1>6, <2>1
    <3>2. QED BY <1>2, <1>6, <2>1, <3>1 DEF InTurn
  <2>2. ASSUME NEW k \in 1..Len(t), j = Len(s) + k, k # 1 PROVE <<p[i], p[j]>> \in Then
    <3>1. k - 1 \in 1..Len(t) /\ i = Len(s) + (k - 1) /\ k = (k - 1) + 1
      BY <1>1, <1>6, <2>2
    <3>2. QED BY <1>3, <2>2, <3>1 DEF InTurn
  <2>3. CASE j = Len(s) + 1
    <3>1. i = Len(s) /\ i \in 1..Len(s) /\ 1 \in 1..Len(t) /\ t # <<>>
      BY <1>1, <1>6, <2>3, EmptySeq
    <3>2. QED BY <1>2, <1>3, <2>3, <3>1
  <2>4. QED BY <1>4, <2>1, <2>2, <2>3
<1>7. p[1] = s[1]
  BY <1>1, <1>2
<1>8. QED BY <1>1, <1>5, <1>6, <1>7 DEF InTurn, p

\* The plans of the click tools.
LEMMA PlanInTurn ==
  ASSUME NEW tool \in ClickTools, NEW dry, NEW active
  PROVE  /\ InTurn(Plan(tool, dry, active))
         /\ Plan(tool, dry, active)[1] \in {"active", "scan", "find"}
<1> DEFINE scope == IF active THEN <<"active">> ELSE <<>>
           press == IF dry THEN <<>> ELSE <<"abs", "click">>
<1>1. \A a \in Clicks : <<a>> \in Seq(Stages) /\ InTurn(<<a>>)
  <2> TAKE a \in Clicks
  <2>1. <<a>> \in Seq(Stages) /\ Len(<<a>>) = 1 /\ <<a>>[1] = a
    BY DEF Clicks, Stages, Effects
  <2> DEFINE p == <<a>>
  <2>2. p \in Seq(Stages) /\ Len(p) = 1 /\ p[1] = a
    BY <2>1
  <2> HIDE DEF p
  <2>3. InTurn(p)
    BY <2>2 DEF InTurn
  <2>4. QED BY <2>2, <2>3 DEF p
<1>2. \A a, b \in Clicks : <<a, b>> \in Then =>
         <<a, b>> \in Seq(Stages) /\ InTurn(<<a, b>>) /\ Len(<<a, b>>) = 2
  <2> SUFFICES ASSUME NEW a \in Clicks, NEW b \in Clicks, <<a, b>> \in Then
               PROVE  <<a, b>> \in Seq(Stages) /\ InTurn(<<a, b>>) /\ Len(<<a, b>>) = 2
    OBVIOUS
  <2>1. <<a, b>> \in Seq(Stages) /\ Len(<<a, b>>) = 2 /\ <<a, b>>[1] = a /\ <<a, b>>[2] = b
    BY DEF Clicks, Stages, Effects
  <2> DEFINE p == <<a, b>>
  <2>2. p \in Seq(Stages) /\ Len(p) = 2 /\ p[1] = a /\ p[2] = b /\ <<p[1], p[2]>> \in Then
    BY <2>1
  <2> HIDE DEF p
  <2>3. InTurn(p)
    <3>1. \A i \in 1..2 : i = 1 \/ i = 2
      OBVIOUS
    <3>2. QED BY <2>2, <3>1 DEF InTurn
  <2>4. QED BY <2>2, <2>3 DEF p
<1>3. <<>> \in Seq(Stages) /\ InTurn(<<>>)
  <2>1. Len(<<>>) = 0 /\ <<>> \in Seq(Stages)
    BY EmptySeq
  <2> DEFINE p == <<>>
  <2>2. Len(p) = 0
    BY <2>1
  <2> HIDE DEF p
  <2>3. InTurn(p)
    BY <2>2 DEF InTurn
  <2>4. QED BY <2>1, <2>3 DEF p
<1>4. press \in Seq(Stages) /\ InTurn(press) /\ (press # <<>> => press[1] = "abs")
  <2>1. <<"abs", "click">> \in Seq(Stages) /\ InTurn(<<"abs", "click">>) /\ <<"abs", "click">>[1] = "abs"
    BY <1>2 DEF Clicks, Then
  <2>2. QED BY <1>3, <2>1
<1> DEFINE find == <<"find", "clients">>
           scan == <<"scan", "monitors">>
<1>5. /\ find \in Seq(Stages) /\ InTurn(find) /\ Len(find) = 2 /\ find[1] = "find" /\ find[2] = "clients"
      /\ scan \in Seq(Stages) /\ InTurn(scan) /\ Len(scan) = 2 /\ scan[1] = "scan" /\ scan[2] = "monitors"
      /\ find # <<>> /\ scan # <<>>
  BY <1>2 DEF Clicks, Then
<1> HIDE DEF find, scan, press
<1>6. InTurn(find \o press) /\ (find \o press)[1] = "find"
  <2>1. press # <<>> => <<find[Len(find)], press[1]>> \in Then
    BY <1>4, <1>5 DEF Then
  <2>2. QED BY <1>4, <1>5, <2>1, JoinedInTurn
<1>7. InTurn(scan \o press) /\ (scan \o press)[1] = "scan" /\ scan \o press \in Seq(Stages)
  <2>1. press # <<>> => <<scan[Len(scan)], press[1]>> \in Then
    BY <1>4, <1>5 DEF Then
  <2>2. QED BY <1>4, <1>5, <2>1, JoinedInTurn
<1>8. /\ InTurn((scope \o scan) \o press)
      /\ ((scope \o scan) \o press)[1] \in {"active", "scan"}
  <2>1. CASE ~active
    <3>1. scope \o scan = scan
      BY <1>5, <2>1, ConcatEmptySeq
    <3>2. QED BY <1>7, <3>1
  <2>2. CASE active
    <3> DEFINE look == <<"active">>
    <3>1. /\ look \in Seq(Stages) /\ InTurn(look) /\ look # <<>> /\ Len(look) = 1
          /\ look[1] = "active" /\ scope = look
      BY <1>1, <2>2 DEF Clicks
    <3> HIDE DEF look, scope
    <3>2. <<look[Len(look)], scan[1]>> \in Then
      BY <1>5, <3>1 DEF Then
    <3>3. InTurn(look \o scan) /\ (look \o scan)[1] = "active" /\ look \o scan \in Seq(Stages)
      BY <1>5, <3>1, <3>2, JoinedInTurn
    <3>4. look \o scan # <<>> /\ (press # <<>> => <<(look \o scan)[Len(look \o scan)], press[1]>> \in Then)
      <4>1. Len(look \o scan) = 3 /\ (look \o scan)[3] = scan[2]
        <5>1. /\ Len(look \o scan) = Len(look) + Len(scan)
              /\ \A i \in 1..Len(look) + Len(scan) :
                    (look \o scan)[i] = IF i <= Len(look) THEN look[i] ELSE scan[i - Len(look)]
          BY <1>5, <3>1, ConcatProperties
        <5>2. 3 \in 1..1 + 2 /\ ~(3 <= 1) /\ 3 - 1 = 2
          OBVIOUS
        <5>3. QED BY <1>5, <3>1, <5>1, <5>2
      <4>2. QED BY <1>4, <1>5, <4>1, EmptySeq DEF Then
    <3>5. QED BY <1>4, <3>1, <3>3, <3>4, JoinedInTurn
  <2>3. QED BY <2>1, <2>2
<1>9. /\ tool = "click_text" => Plan(tool, dry, active) = (scope \o scan) \o press
      /\ tool = "a11y_click" => Plan(tool, dry, active) = find \o press
  BY DEF Plan, scan, find, press
<1>10. QED BY <1>6, <1>8, <1>9 DEF ClickTools

\* The parts of the call a step of somebody else leaves alone.
SameWork == SameCall /\ call'.tool = call.tool /\ call'.x = call.x /\ call'.region = call.region

\* A step of the call changes these at most of what others see.
Still == UNCHANGED <<layout, win, pointer>> /\ CliMoves'

LEMMA CalmWork ==
  ASSUME Shaped, NEW b, call' = [call EXCEPT !.calm = b]
  PROVE  SameWork /\ call'.calm = b
BY DEF Shaped, CallShape, SameWork, SameCall

LEMMA NotAClick ==
  ASSUME ~Clicking', CliMoves', Told', Placed'
  PROVE  ClickInv'
BY DEF ClickInv, Planned, MovedFirst, Trusted

\* Others may take the request or the command away, and disturb a call only if
\* it is not calm any more.
LEMMA Elsewhere ==
  ASSUME BridgeInv, ClickInv, SameWork, CliMoves', Placed',
         call'.calm => call.calm,
         Request' = Request \/ (Request'.st = "none" /\ Command'.st = "none"),
         Command' = Command \/ Command'.st = "none",
         sent'.who = "mcp" => sent' = sent,
         Clicking /\ call'.calm => /\ UNCHANGED <<layout, win>>
                                   /\ UNCHANGED pointer \/ ~Done("abs")
  PROVE  ClickInv'
<1>1. /\ Clicking' <=> Clicking
      /\ \A op : Done(op)' <=> Done(op)
      /\ call'.todo = call.todo /\ call'.pc = call.pc /\ call'.x = call.x
      /\ call'.region = call.region
  BY DEF SameWork, SameCall, Clicking, Done
<1>2. Planned'
  BY <1>1 DEF ClickInv, Planned
<1>3. Told'
  BY <1>1 DEF ClickInv, Told
<1>4. MovedFirst'
  <2>1. Done("abs")' <=> Done("abs")
    BY <1>1
  <2>2. Done("click")' <=> Done("click")
    BY <1>1
  <2>3. QED BY <1>1, <2>1, <2>2 DEF ClickInv, MovedFirst
<1>5. ASSUME Trusted' PROVE Aim'
  <2>1. /\ Clicking /\ call.calm /\ UNCHANGED <<layout, win>>
        /\ UNCHANGED pointer \/ ~Done("abs")
    BY <1>1, <1>5 DEF Trusted
  <2>2. Aim
    BY <1>1, <1>5, <2>1 DEF Trusted, ClickInv
  <2>3. Sees'
    BY <1>1, <2>1, <2>2 DEF Aim, Sees
  <2>4. Heads'
    BY <1>1, <2>1, <2>2 DEF Aim, Heads
  <2>5. Done("abs")' => OnElement'
    <3>1. Done("abs")' <=> Done("abs")
      BY <1>1
    <3>2. QED BY <2>1, <2>2, <3>1 DEF Aim, OnElement
  <2>6. QED BY <2>3, <2>4, <2>5 DEF Aim
<1>6. QED BY <1>2, <1>3, <1>4, <1>5 DEF ClickInv

-----------------------------------------------------------------------------
(* The steps of a click.                                                   *)

\* A call ends: what is left is the command line's.
LEMMA EndsClick ==
  ASSUME ClickInv, NEW outcome, Ends(outcome), Request'.st = "none", Command'.st = "none", Still
  PROVE  ClickInv'
<1>1. ~Clicking'
  BY DEF Ends, Idle, Clicking, ClickTools
<1>2. Told' /\ Placed'
  BY DEF Told, Placed, Still, ClickInv
<1>3. QED BY <1>1, <1>2, NotAClick DEF Still

\* A call goes on to its next stage.
LEMMA NextStage ==
  ASSUME BridgeInv, ClickInv, call.pc # "idle", NEW x, NEW region, Advance(x, region),
         Len(call.todo) # 1
  PROVE  /\ call'.tool = call.tool /\ call'.pc = "work" /\ call'.x = x
         /\ call'.region = region /\ call'.done = call.done
         /\ call'.calm => call.calm \/ call.todo[1] = "scan"
         /\ Clicking => /\ call'.todo \in Seq(Stages) /\ InTurn(call'.todo)
                        /\ <<call.todo[1], call'.todo[1]>> \in Then
<1>1. call' = [call EXCEPT !.pc = "work", !.todo = Tail(@), !.x = x, !.region = region,
                           !.calm = @ \/ Head(call.todo) = "scan"]
  BY DEF Advance
<1>2. /\ call'.tool = call.tool /\ call'.pc = "work" /\ call'.x = x
      /\ call'.region = region /\ call'.done = call.done /\ call'.todo = Tail(call.todo)
  BY <1>1 DEF BridgeInv, Shaped, CallShape
<1>3. call'.calm = (call.calm \/ Head(call.todo) = "scan")
  BY <1>1 DEF BridgeInv, Shaped, CallShape
<1>4. Len(call.todo) \in Nat \ {0} /\ Head(call.todo) = call.todo[1] /\ 1 \in 1..Len(call.todo)
  BY FirstStage
<1>5. /\ call'.todo \in Seq(Stages) /\ Len(call'.todo) = Len(call.todo) - 1
      /\ \A i \in 1..Len(call'.todo) :
            i + 1 \in 1..Len(call.todo) /\ call'.todo[i] = call.todo[i + 1]
  <2>1. call.todo \in Seq(Stages) /\ call.todo # <<>>
    BY DEF BridgeInv, Shaped, Ahead
  <2>2. /\ Tail(call.todo) \in Seq(Stages) /\ Len(Tail(call.todo)) = Len(call.todo) - 1
        /\ \A i \in 1..Len(Tail(call.todo)) : Tail(call.todo)[i] = call.todo[i + 1]
    BY <2>1, HeadTailProperties
  <2>3. QED BY <1>2, <1>4, <2>2
<1>6. ASSUME Clicking PROVE InTurn(call'.todo) /\ <<call.todo[1], call'.todo[1]>> \in Then
  <2>1. InTurn(call.todo)
    BY <1>6 DEF ClickInv, Planned
  <2>2. \A i \in 1..Len(call'.todo) : call'.todo[i] \in Clicks
    BY <1>5, <2>1 DEF InTurn
  <2>3. ASSUME NEW i \in 1..Len(call'.todo), NEW j \in 1..Len(call'.todo), j = i + 1
        PROVE  <<call'.todo[i], call'.todo[j]>> \in Then
    <3>1. i + 1 \in 1..Len(call.todo) /\ j + 1 \in 1..Len(call.todo) /\ j + 1 = (i + 1) + 1
      BY <1>5, <2>3
    <3>2. <<call.todo[i + 1], call.todo[j + 1]>> \in Then
      BY <2>1, <3>1 DEF InTurn
    <3>3. QED BY <1>5, <3>2
  <2>4. 1 \in 1..Len(call'.todo) /\ 2 \in 1..Len(call.todo) /\ call'.todo[1] = call.todo[2]
    <3>1. 1 \in 1..Len(call'.todo)
      <4>1. \A n \in Nat \ {0} : n # 1 => 1 \in 1..n - 1
        OBVIOUS
      <4>2. Len(call.todo) # 1
        OBVIOUS
      <4>3. 1 \in 1..Len(call.todo) - 1
        BY <1>4, <4>1, <4>2
      <4>4. QED BY <1>5, <4>3
    <3>2. 1 + 1 = 2
      OBVIOUS
    <3>3. QED BY <1>5, <3>1, <3>2
  <2>5. <<call.todo[1], call.todo[2]>> \in Then
    <3>1. 2 = 1 + 1
      OBVIOUS
    <3>2. QED BY <1>4, <2>1, <2>4, <3>1 DEF InTurn
  <2>6. QED BY <2>2, <2>3, <2>4, <2>5 DEF InTurn
<1>7. QED BY <1>2, <1>3, <1>4, <1>5, <1>6

\* A call that begins is not calm.
LEMMA CallClick ==
  ASSUME BridgeInv, ClickInv, NEW tool, NEW dry, NEW region, NEW active, NEW x,
         Call(tool, dry, region, active, x)
  PROVE  ClickInv'
<1>1. /\ call.pc = "idle" /\ UNCHANGED <<cmd, sent, handler, layout, win, pointer>>
      /\ Request.st = "none" /\ Command.st = "none"
  BY DEF Call, pvars, BridgeInv, Pending, Request, ClickInv, Told
<1>2. Still /\ Request'.st = "none" /\ Command'.st = "none"
  BY <1>1 DEF Still, CliMoves, ClickInv, Request, Command
<1>3. CASE \E outcome : Ends(outcome)
  BY <1>2, <1>3, EndsClick
<1>4. CASE /\ Plan(tool, dry, active) # <<>>
           /\ call' = [Idle("none") EXCEPT !.pc = "work", !.tool = tool, !.dry = dry,
                          !.region = region, !.todo = Plan(tool, dry, active), !.x = x]
  <2>1. /\ call'.pc = "work" /\ call'.todo = Plan(tool, dry, active) /\ call'.tool = tool
        /\ call'.done = <<>> /\ call'.calm = FALSE
    BY <1>4 DEF Idle
  <2>2. Len(call'.done) = 0
    BY <2>1, EmptySeq
  <2>3. Told' /\ Placed'
    BY <1>1, <1>2 DEF Told, Placed, ClickInv
  <2>4. ASSUME tool \in ClickTools
        PROVE  Planned' /\ MovedFirst' /\ ~Trusted'
    <3>1. /\ call'.todo \in Seq(Stages) /\ InTurn(call'.todo)
          /\ call'.todo[1] \in {"active", "scan", "find"}
      BY <2>1, <2>4, PlanInTurn, PlanIsOnceEach
    <3>2. Planned'
      BY <2>1, <3>1 DEF Planned
    <3>3. MovedFirst'
      BY <2>2, <3>1 DEF MovedFirst, Done
    <3>4. QED BY <2>1, <3>2, <3>3 DEF Trusted
  <2>5. CASE tool \in ClickTools
    BY <1>2, <2>3, <2>4, <2>5 DEF ClickInv, Still
  <2>6. CASE tool \notin ClickTools
    <3>1. ~Clicking'
      BY <2>1, <2>6 DEF Clicking
    <3>2. QED BY <1>2, <2>3, <3>1, NotAClick DEF Still
  <2>7. QED BY <2>5, <2>6
<1>5. QED BY <1>3, <1>4 DEF Call

\* The next stage of a call whose answer has been read.
LEMMA NextClick ==
  ASSUME BridgeInv, ClickInv, call.pc # "idle", Still,
         Request'.st = "none", Command'.st = "none", sent' = sent, Command.st = "none",
         NEW x, NEW region, Advance(x, region),
         Clicking => /\ call.todo[1] = "abs" => Done("abs")
                     /\ call.todo[1] = "find" => x = 1
                     /\ call.todo[1] = "active" \/ region = call.region,
         Clicking /\ Exact(layout) /\ region.x = 0 =>
            /\ call.todo[1] = "scan" => x = Round((win + 1) * ScaleAt(layout, win), 2)
            /\ call.calm /\ call.todo[1] \in {"clients", "monitors"} => x = win + 1
  PROVE  ClickInv'
<1>1. CASE Len(call.todo) = 1
  BY <1>1, EndsClick DEF Advance
<1>2. CASE Len(call.todo) # 1
  <2>1. /\ call'.tool = call.tool /\ call'.pc = "work" /\ call'.x = x
        /\ call'.region = region /\ call'.done = call.done
        /\ call'.calm => call.calm \/ call.todo[1] = "scan"
        /\ Clicking => /\ call'.todo \in Seq(Stages) /\ InTurn(call'.todo)
                       /\ <<call.todo[1], call'.todo[1]>> \in Then
    BY <1>2, NextStage
  <2>2. Told' /\ Placed' /\ CliMoves'
    BY DEF Told, Placed, Still, ClickInv
  <2>3. (Clicking' <=> Clicking) /\ (Done("abs")' <=> Done("abs"))
        /\ (Done("click")' <=> Done("click"))
    BY <2>1 DEF Clicking, Done
  <2>4. CASE ~Clicking
    BY <2>2, <2>3, <2>4, NotAClick
  <2>5. CASE Clicking
    <3>1. \/ call.todo[1] = "active" /\ call'.todo[1] = "scan"
          \/ call.todo[1] = "scan" /\ call'.todo[1] = "monitors"
          \/ call.todo[1] = "monitors" /\ call'.todo[1] = "abs"
          \/ call.todo[1] = "find" /\ call'.todo[1] = "clients"
          \/ call.todo[1] = "clients" /\ call'.todo[1] = "abs"
          \/ call.todo[1] = "abs" /\ call'.todo[1] = "click"
      BY <2>1, <2>5 DEF Then
    <3>2. Planned'
      BY <2>1, <2>3, <2>5, <3>1 DEF ClickInv, Planned
    <3>3. MovedFirst'
      BY <2>3, <2>5, <3>1 DEF ClickInv, MovedFirst
    <3>4. ASSUME Trusted' PROVE Aim'
      <4>1. /\ Exact(layout) /\ region.x = 0 /\ call'.calm /\ UNCHANGED <<layout, win, pointer>>
        BY <2>1, <3>4 DEF Trusted, Still
      <4>2. sent'.who # "mcp"
        BY DEF BridgeInv, Channel
      <4>3. CASE call'.todo[1] = "monitors"
        BY <2>1, <2>3, <2>5, <3>1, <4>1, <4>3 DEF Aim, Sees, Heads, ClickInv, MovedFirst
      <4>4. CASE call'.todo[1] = "abs"
        <5>1. call.calm
          BY <2>1, <3>1, <4>1, <4>4
        <5>2. x = win + 1
          BY <2>5, <3>1, <4>1, <4>4, <5>1
        <5>3. ~Done("abs")'
          BY <2>3, <2>5, <3>1, <4>4 DEF ClickInv, MovedFirst
        <5>4. QED BY <2>1, <4>1, <4>2, <4>4, <5>2, <5>3 DEF Aim, Sees, Heads
      <4>5. CASE call'.todo[1] = "click"
        <5>1. call.calm /\ call.region.x = 0
          BY <2>1, <2>5, <3>1, <4>1, <4>5
        <5>2. Aim
          BY <2>5, <4>1, <5>1 DEF Trusted, ClickInv
        <5>3. QED BY <2>3, <4>1, <4>5, <5>2 DEF Aim, Sees, Heads, OnElement
      <4>6. call'.todo[1] # "scan" /\ call'.todo[1] # "clients"
        BY <2>1, <2>5, <3>1, <4>1 DEF ClickInv, Planned
      <4>7. QED BY <3>1, <4>3, <4>4, <4>5, <4>6
    <3>5. QED BY <2>2, <3>2, <3>3, <3>4 DEF ClickInv
  <2>6. QED BY <2>4, <2>5
<1>3. QED BY <1>1, <1>2

\* Where the label is in an image that starts at the origin.
LEMMA PixelFromOrigin ==
  ASSUME NEW l \in Layouts, NEW w \in Nat
  PROVE  Round((w + 1 - 0) * ScaleAt(l, w), 2) + 0 = Round((w + 1) * ScaleAt(l, w), 2)
<1>1. ScaleAt(l, w) \in Nat
  BY ScaleIsOfOutput, LayoutAssumption
<1>2. (w + 1) * ScaleAt(l, w) \in Nat /\ w + 1 - 0 = w + 1
  BY <1>1
<1>3. Round((w + 1) * ScaleAt(l, w), 2) \in Nat
  BY <1>2, RoundHalves
<1>4. \A n \in Nat : n + 0 = n
  OBVIOUS
<1>5. QED BY <1>2, <1>3, <1>4

LEMMA ScanClick == ASSUME BridgeInv, ClickInv, Scan PROVE ClickInv'
<1>1. /\ call.pc = "work" /\ Head(call.todo) = "scan" /\ Still
      /\ UNCHANGED <<cmd, sent, handler>>
  BY DEF Scan, pvars, Still, CliMoves, ClickInv
<1>2. /\ Request.st = "none" /\ Command.st = "none" /\ Request'.st = "none"
      /\ Command'.st = "none" /\ call.todo[1] = "scan"
  BY <1>1, FirstStage DEF BridgeInv, Pending, ClickInv, Told, Request, Command
<1>3. CASE \E outcome : Ends(outcome)
  BY <1>1, <1>2, <1>3, EndsClick
<1>4. CASE Advance(Pixel(call.region.x) + call.region.x, call.region)
  <2>1. call.region.x = 0 =>
           Pixel(call.region.x) + call.region.x = Round((win + 1) * ScaleAt(layout, win), 2)
    BY PixelFromOrigin DEF Pixel, ClickInv, Placed
  <2>2. QED BY <1>1, <1>2, <1>4, <2>1, NextClick
<1>5. QED BY <1>3, <1>4 DEF Scan

\* What is asked is what the call has come to.
LEMMA AskClick == ASSUME BridgeInv, ClickInv, Ask PROVE ClickInv'
<1>1. /\ call.pc = "work" /\ Head(call.todo) # "scan"
      /\ UNCHANGED <<cmd, sent, layout, win, pointer>>
      /\ handler' = [handler EXCEPT !["mcp"] = Asked(Head(call.todo), call.x, call.dry)]
      /\ call' = [call EXCEPT !.pc = "asked"]
  BY DEF Ask, pvars
<1>2. Request.st = "none" /\ Command.st = "none" /\ Command' = Command
  BY <1>1 DEF BridgeInv, Pending, ClickInv, Told, Request, Command
<1>3. /\ call'.pc = "asked" /\ call'.todo = call.todo /\ call'.done = call.done
      /\ call'.tool = call.tool /\ call'.x = call.x /\ call'.region = call.region
      /\ call'.calm = call.calm
  BY <1>1 DEF BridgeInv, Shaped, CallShape
<1>4. /\ Request'.st = "received" /\ Request'.op = call.todo[1] /\ Request'.x = call.x
      /\ call.todo[1] # "scan" /\ CliMoves'
  BY <1>1, FirstStage, BridgeAssumption
     DEF BridgeInv, Shaped, RequestShape, Request, Asked, ClickInv, CliMoves
<1>5. (Clicking' <=> Clicking) /\ (Done("abs")' <=> Done("abs")) /\ (Done("click")' <=> Done("click"))
  BY <1>3 DEF Clicking, Done
<1>6. Planned'
  BY <1>3, <1>5 DEF ClickInv, Planned
<1>7. Told' /\ Placed'
  BY <1>1, <1>2, <1>3, <1>4 DEF ClickInv, Told, Placed
<1>8. MovedFirst'
  BY <1>2, <1>3, <1>4, <1>5 DEF ClickInv, MovedFirst
<1>9. ASSUME Trusted' PROVE Aim'
  <2>1. Trusted /\ Aim
    BY <1>1, <1>3, <1>5, <1>9 DEF Trusted, ClickInv
  <2>2. Sees' /\ Heads'
    BY <1>1, <1>2, <1>3, <1>4, <2>1 DEF Aim, Sees, Heads, BridgeInv, Channel
  <2>3. QED BY <1>1, <1>5, <2>1, <2>2 DEF Aim, OnElement
<1>10. QED BY <1>4, <1>6, <1>7, <1>8, <1>9 DEF ClickInv

LEMMA LostClick == ASSUME BridgeInv, ClickInv, Lost PROVE ClickInv'
<1>1. /\ UNCHANGED <<cmd, handler>> /\ Still /\ Request.st = "none" /\ Ends("lost")
  BY DEF Lost, Unanswered, pvars, BridgeInv, Pending, Request, Still, CliMoves, ClickInv
<1>2. Request'.st = "none" /\ Command'.st = "none"
  BY <1>1 DEF ClickInv, Told, Request, Command
<1>3. QED BY <1>1, <1>2, EndsClick

\* The answers put together are the middle of the element.
LEMMA ReceiveClick == ASSUME ScalesUp, BridgeInv, ClickInv, Receive PROVE ClickInv'
<1>1. /\ call.pc = "asked" /\ Request.st = "done" /\ UNCHANGED <<cmd, sent, layout, win, pointer>>
      /\ handler' = [handler EXCEPT !["mcp"] = NoRequest]
  BY DEF Receive, pvars, Request
<1>2. /\ Command.st = "none" /\ Command'.st = "none" /\ Request'.st = "none" /\ Still
      /\ Request.op = call.todo[1] /\ Request.op # "scan"
  BY <1>1, BridgeAssumption DEF ClickInv, Told, Request, Command, BridgeInv, Shaped, RequestShape,
        NoRequest, Still, CliMoves
<1>3. CASE \E outcome : Ends(outcome)
  BY <1>2, <1>3, EndsClick
<1> DEFINE r == call.region
<1>4. ASSUME Request.ok, NEW x, NEW region, Advance(x, region),
             r.x = 0 /\ Request.op = "monitors" => x = Round(2 * call.x, Request.x) + r.x,
             Request.op = "clients" => x = Request.x + call.x,
             Request.op = "find" => x = Request.x,
             Request.op = "active" \/ region = r
      PROVE  ClickInv'
  <2>1. Clicking /\ call.todo[1] = "abs" => Done("abs")
    BY <1>1, <1>4 DEF ClickInv, MovedFirst
  <2>2. Clicking /\ call.todo[1] = "find" => x = 1
    BY <1>1, <1>2, <1>4 DEF ClickInv, Told
  <2>3. ASSUME Clicking, Exact(layout), region.x = 0, call.calm,
               call.todo[1] \in {"clients", "monitors"}
        PROVE  x = win + 1
    <3>1. region = r /\ Aim
      BY <1>2, <1>4, <2>3 DEF ClickInv, Trusted
    <3>2. CASE call.todo[1] = "clients"
      <4>1. Request.x = win /\ call.x = 1
        BY <1>1, <2>3, <3>1, <3>2 DEF Aim, Sees, ClickInv, Planned
      <4>2. QED BY <1>2, <1>4, <3>2, <4>1
    <3>3. CASE call.todo[1] = "monitors"
      <4>1. PICK o \in DOMAIN layout.outs : Request.x = layout.outs[o].scale
        BY <1>1, <1>4, <3>1, <3>3 DEF Aim, Sees
      <4>2. call.x = Round((win + 1) * ScaleAt(layout, win), 2)
        BY <3>1, <3>3 DEF Aim, Sees
      <4>3. Round(2 * call.x, Request.x) = win + 1
        BY <2>3, <4>1, <4>2, ImageIsMiddle DEF ClickInv, Placed
      <4>4. x = (win + 1) + 0
        BY <1>2, <1>4, <2>3, <3>1, <3>3, <4>3
      <4>5. QED BY <4>4 DEF ClickInv, Placed
    <3>4. QED BY <2>3, <3>2, <3>3
  <2>4. QED BY <1>1, <1>2, <1>4, <2>1, <2>2, <2>3, NextClick
<1>5. \/ \E outcome : Ends(outcome)
      \/ Request.ok /\ CASE Request.op = "active"   -> Advance(0, [x |-> Request.x, w |-> 2])
                         [] Request.op = "monitors" -> Advance(Round(2 * call.x, Request.x) + r.x, r)
                         [] Request.op = "clients"  -> Advance(Request.x + call.x, r)
                         [] Request.op = "find"     -> Advance(Request.x, r)
                         [] OTHER                   -> Advance(call.x, r)
  BY DEF Receive, Request
<1>6. QED BY <1>3, <1>4, <1>5

\* A client's answer leaves the command line's request what it is.
LEMMA AnswerIs ==
  ASSUME BridgeInv, ClickInv, NEW c \in Client, NEW ok, NEW x, Answer(c, ok, x)
  PROVE  /\ CliMoves'
         /\ c # "mcp" => Request' = Request
         /\ c = "mcp" => /\ Request'.st = "done" /\ Request'.ok = ok /\ Request'.x = x
                         /\ Request'.op = Request.op
BY BridgeAssumption DEF Answer, BridgeInv, Shaped, RequestShape, Request, ClickInv, CliMoves

\* The agent's request is answered, and nothing has happened but that the call
\* may be calm now.
LEMMA AnsweredClick ==
  ASSUME BridgeInv, ClickInv, NEW ok, NEW x, Answer("mcp", ok, x), SameWork,
         UNCHANGED <<layout, win, pointer, sent>>,
         Request.st \in {"received", "pointer"}, Command'.st = "none",
         call'.calm => call.calm \/ Request.op = "clients",
         Clicking /\ ok /\ Request.op = "abs" => Done("abs"),
         ok /\ Request.op = "find" => x = 1,
         Trusted' /\ Request.op = "clients" => x = win,
         ok /\ Request.op = "monitors" => \E o \in DOMAIN layout.outs : x = layout.outs[o].scale
  PROVE  ClickInv'
<1>1. /\ CliMoves' /\ Request'.st = "done" /\ Request'.ok = ok /\ Request'.x = x
      /\ Request'.op = Request.op /\ Request.op = call.todo[1] /\ Request.op # "scan"
      /\ call.pc = "asked"
  BY AnswerIs, Waiting, BridgeAssumption DEF ClickInv, Told
<1>2. /\ Clicking' <=> Clicking
      /\ Done("abs")' <=> Done("abs")
      /\ Done("click")' <=> Done("click")
      /\ call'.todo = call.todo /\ call'.pc = call.pc /\ call'.x = call.x
      /\ call'.region = call.region
  BY DEF SameWork, SameCall, Clicking, Done
<1>3. Planned'
  BY <1>1, <1>2 DEF ClickInv, Planned
<1>4. Told' /\ Placed'
  BY <1>1, <1>2 DEF ClickInv, Told, Placed
<1>5. MovedFirst'
  BY <1>1, <1>2 DEF ClickInv, MovedFirst
<1>6. ASSUME Trusted' PROVE Aim'
  <2>1. /\ Clicking /\ Exact(layout) /\ call.region.x = 0
        /\ call.calm \/ call.todo[1] = "clients"
    BY <1>1, <1>2, <1>6 DEF Trusted
  <2>2. CASE call.todo[1] = "clients"
    <3>1. ~Done("abs")'
      BY <1>2, <2>1, <2>2 DEF ClickInv, MovedFirst
    <3>2. x = win
      BY <1>1, <1>6, <2>2
    <3>3. QED BY <1>1, <1>2, <2>2, <3>1, <3>2 DEF Aim, Sees, Heads
  <2>3. CASE call.todo[1] # "clients"
    <3>1. Aim
      BY <2>1, <2>3 DEF ClickInv, Trusted
    <3>2. Sees' /\ Heads'
      BY <1>1, <1>2, <2>3, <3>1 DEF Aim, Sees, Heads
    <3>3. QED BY <1>2, <3>1, <3>2 DEF Aim, OnElement
  <2>4. QED BY <2>2, <2>3
<1>7. QED BY <1>1, <1>3, <1>4, <1>5, <1>6 DEF ClickInv

\* The command line's request is answered.
LEMMA CliAnswered ==
  ASSUME BridgeInv, ClickInv, NEW c \in Client, c # "mcp", NEW ok, NEW x, Answer(c, ok, x),
         SameWork, Command' = Command, UNCHANGED <<layout, win, sent>>,
         call'.calm => call.calm,
         call'.calm => UNCHANGED pointer \/ ~Done("abs")
  PROVE  ClickInv'
<1>1. CliMoves' /\ Request' = Request /\ Placed'
  BY AnswerIs DEF ClickInv, Placed
<1>2. QED BY <1>1, Elsewhere

\* An effect of the command line's, or the user's, is what a call in progress
\* cannot be calm about.
LEMMA HappenedElsewhere ==
  ASSUME BridgeInv, NEW c, c # "mcp", NEW op, Happened(c, op)
  PROVE  SameWork /\ (call'.calm => call.calm /\ (op # "click" => ~Done("abs")))
<1>1. CASE op # "click" /\ "abs" \in {call.done[i] : i \in 1..Len(call.done)}
  <2>1. call' = [call EXCEPT !.calm = FALSE]
    BY <1>1 DEF Happened
  <2>2. QED BY <2>1, CalmWork DEF BridgeInv
<1>2. CASE ~(op # "click" /\ "abs" \in {call.done[i] : i \in 1..Len(call.done)})
  <2>1. call' = call
    BY <1>2 DEF Happened
  <2>2. op # "click" => ~Done("abs")
    BY <1>2 DEF Done
  <2>3. QED BY <2>1, <2>2 DEF SameWork, SameCall
<1>3. QED BY <1>1, <1>2

\* What has been done when one thing more has.
LEMMA DoneAppended ==
  ASSUME BridgeInv, NEW op \in Stages, call'.done = Append(call.done, op)
  PROVE  \A p : (Done(p)' <=> Done(p) \/ p = op)
<1>1. call.done \in Seq(Stages) /\ Len(call.done) \in Nat
  BY LenProperties DEF BridgeInv, Shaped
<1>2. /\ Len(call'.done) = Len(call.done) + 1
      /\ \A i \in 1..Len(call.done) : call'.done[i] = call.done[i]
      /\ call'.done[Len(call.done) + 1] = op
  BY <1>1, AppendProperties
<1>3. \A i : i \in 1..Len(call'.done) <=> i \in 1..Len(call.done) \/ i = Len(call.done) + 1
  BY <1>1, <1>2
<1>4. TAKE p
<1>5. Done(p)' <=> \E i \in 1..Len(call'.done) : call'.done[i] = p
  BY DEF Done
<1>6. QED BY <1>2, <1>3, <1>5 DEF Done

LEMMA HandlerFailsClick ==
  ASSUME BridgeInv, ClickInv, NEW c \in Client, HandlerFails(c)
  PROVE  ClickInv'
<1>1. /\ handler[c].st = "received" /\ Answer(c, FALSE, 0) /\ SameWork /\ call'.calm = call.calm
      /\ UNCHANGED <<cmd, layout, win, pointer, sent>> /\ Command' = Command
  BY DEF HandlerFails, pvars, SameWork, SameCall, Command
<1>2. CASE c = "mcp"
  <2>1. Request.st = "received" /\ Command'.st = "none"
    BY <1>1, <1>2 DEF Request, ClickInv, Told
  <2>2. ~(Trusted' /\ Request.op = "clients")
    <3>1. Trusted' => Trusted
      BY <1>1 DEF Trusted, Clicking, SameWork
    <3>2. QED BY <2>1, <3>1 DEF ClickInv, Told, Aim, Sees
  <2>3. QED BY <1>1, <1>2, <2>1, <2>2, AnsweredClick
<1>3. CASE c # "mcp"
  BY <1>1, <1>3, CliAnswered
<1>4. QED BY <1>2, <1>3

LEMMA LookupClick ==
  ASSUME BridgeInv, ClickInv, NEW c \in Client, Lookup(c)
  PROVE  ClickInv'
<1>1. PICK x : /\ Answer(c, TRUE, x)
               /\ handler[c].op \in {"active", "clients"} => x = win
               /\ handler[c].op = "find" => x = 1
               /\ handler[c].op = "monitors" =>
                     x \in {layout.outs[layout.focused].scale, ScaleAt(layout, call.region.x)}
  BY DEF Lookup
<1>2. /\ handler[c].st = "received" /\ UNCHANGED <<cmd, layout, win, pointer, sent>>
      /\ handler[c].op \in {"read", "active", "monitors", "find", "clients"} /\ Command' = Command
      /\ call' = [call EXCEPT !.calm = @ \/ handler[c].op = "clients"]
  BY DEF Lookup, Received, pvars, Command
<1>3. SameWork /\ (call'.calm => call.calm \/ handler[c].op = "clients")
  BY <1>2 DEF BridgeInv, Shaped, CallShape, SameWork, SameCall
<1>4. CASE c = "mcp"
  <2>1. Request.st = "received" /\ Command'.st = "none" /\ Request = handler[c]
    BY <1>2, <1>4 DEF Request, ClickInv, Told
  <2>2. Request.op = "monitors" => \E o \in DOMAIN layout.outs : x = layout.outs[o].scale
    BY <1>1, <2>1, ScaleIsOfOutput, LayoutAssumption DEF ClickInv, Placed
  <2>3. Request.op \notin {"abs", "click"}
    BY <1>2, <2>1
  <2>4. QED BY <1>1, <1>2, <1>3, <1>4, <2>1, <2>2, <2>3, AnsweredClick
<1>5. CASE c # "mcp"
  <2>1. handler[c].op # "clients"
    BY <1>5, BridgeAssumption DEF ClickInv, CliMoves
  <2>2. QED BY <1>1, <1>2, <1>3, <1>5, <2>1, CliAnswered
<1>6. QED BY <1>4, <1>5

\* What click tools ask for is none of this.
LEMMA OtherEffects ==
  ASSUME BridgeInv, ClickInv, NEW c \in Client, NEW ok \in BOOLEAN,
         BindPreview(c) \/ Dispatch(c, ok)
  PROVE  ClickInv'
<1>1. /\ handler[c].st = "received" /\ UNCHANGED <<cmd, layout, win, pointer, sent>>
      /\ handler[c].op \in {"mutate", "bind", "keys"} /\ Command' = Command
      /\ \E done : Answer(c, done, 0)
      /\ UNCHANGED call \/ Happened(c, handler[c].op)
  BY DEF BindPreview, Dispatch, Received, pvars, Command
<1>2. CASE c = "mcp"
  <2>1. Request.st = "received" /\ Command'.st = "none" /\ Request = handler[c]
        /\ Request.op = call.todo[1] /\ call.pc = "asked"
    BY <1>1, <1>2, Waiting DEF Request, ClickInv, Told
  <2>2. ~Clicking
    BY <1>1, <2>1, FirstStage DEF ClickInv, Planned, InTurn, Clicks
  <2>3. call'.tool = call.tool /\ call'.todo = call.todo
    BY <1>1, <1>2 DEF Happened, BridgeInv, Shaped, CallShape
  <2>4. /\ CliMoves' /\ Request'.st = "done" /\ Request'.op = Request.op
    BY <1>1, <1>2, AnswerIs
  <2>5. Told' /\ Placed' /\ ~Clicking'
    BY <1>1, <2>1, <2>2, <2>3, <2>4 DEF Told, Placed, Clicking, ClickInv
  <2>6. QED BY <2>4, <2>5, NotAClick
<1>3. CASE c # "mcp"
  <2>1. SameWork /\ (call'.calm => call.calm)
    BY <1>1, <1>3, HappenedElsewhere DEF SameWork, SameCall
  <2>2. QED BY <1>1, <1>3, <2>1, CliAnswered
<1>4. QED BY <1>2, <1>3

\* ydotool moves the pointer of a call that is not calm any more.
LEMMA ByYdotoolClick ==
  ASSUME BridgeInv, ClickInv, NEW c \in Client, NEW x, NEW ok \in BOOLEAN, ByYdotool(c, x, ok)
  PROVE  ClickInv'
<1>1. /\ handler[c].st = "received" /\ UNCHANGED <<cmd, layout, win, sent>> /\ Command' = Command
      /\ handler[c].op \in {"abs", "rel", "click"} /\ Answer(c, ok, 0)
      /\ handler[c].op = "click" => UNCHANGED pointer
  BY DEF ByYdotool, Received, pvars, PointerMovedTo, Command
<1>2. CASE c = "mcp"
  <2>1. Request.st = "received" /\ Command'.st = "none" /\ Request = handler[c]
        /\ Request.op = call.todo[1] /\ call.pc = "asked"
    BY <1>1, <1>2, Waiting DEF Request, ClickInv, Told
  <2>2. call' = [call EXCEPT !.done = Append(@, Request.op), !.calm = FALSE]
    BY <1>2, <2>1 DEF ByYdotool
  <2>3. call'.tool = call.tool /\ call'.todo = call.todo /\ call'.x = call.x /\ ~call'.calm
        /\ call'.pc = call.pc /\ call'.done = Append(call.done, Request.op)
    BY <2>2 DEF BridgeInv, Shaped, CallShape
  <2>4. /\ CliMoves' /\ Request'.st = "done" /\ Request'.op = Request.op
    BY <1>1, <1>2, AnswerIs
  <2>5. Told' /\ Placed' /\ ~Trusted' /\ (Clicking' <=> Clicking)
    BY <1>1, <2>1, <2>3, <2>4 DEF Told, Placed, Clicking, ClickInv, Trusted
  <2>6. Planned'
    BY <2>3, <2>5 DEF ClickInv, Planned
  <2>7. MovedFirst'
    <3>1. \A p : (Done(p)' <=> Done(p) \/ p = call.todo[1])
      BY <2>1, <2>3, FirstStage, DoneAppended
    <3>2. Done("abs")' <=> Done("abs") \/ call.todo[1] = "abs"
      BY <3>1
    <3>3. Done("click")' <=> Done("click") \/ call.todo[1] = "click"
      BY <3>1
    <3>4. QED BY <2>3, <2>5, <3>2, <3>3 DEF ClickInv, MovedFirst
  <2>8. QED BY <2>4, <2>5, <2>6, <2>7 DEF ClickInv
<1>3. CASE c # "mcp"
  <2>1. Happened(c, handler[c].op)
    BY <1>3 DEF ByYdotool
  <2>2. QED BY <1>1, <1>3, <2>1, HappenedElsewhere, CliAnswered
<1>4. QED BY <1>2, <1>3

\* A calm call's command is to move to the element's middle.
LEMMA ToPointerClick ==
  ASSUME BridgeInv, ClickInv, NEW c \in Client, NEW asked \in BOOLEAN, ToPointer(c, asked)
  PROVE  ClickInv'
<1> DEFINE req == handler[c]
           exact == req.op = "abs" => asked \/ ToDevice(layout, req.x) = req.x
           there == IF req.op = "abs" /\ asked THEN ToDevice(layout, req.x) ELSE req.x
<1>1. /\ req.st = "received" /\ req.op \in {"abs", "rel", "click"}
      /\ handler' = [handler EXCEPT ![c].st = "pointer"]
      /\ cmd' = [cmd EXCEPT ![c] = [op |-> req.op, x |-> there, st |-> "queued"]]
      /\ UNCHANGED <<layout, win, pointer, sent>>
  BY DEF ToPointer, Received, Submit
<1>2. SameWork /\ (call'.calm => call.calm /\ (c = "mcp" => exact))
  <2>1. call' = [call EXCEPT !.calm = @ /\ (c = "mcp" => exact)]
    BY DEF ToPointer
  <2> HIDE DEF exact
  <2>2. call'.calm = (call.calm /\ (c = "mcp" => exact))
    BY <2>1 DEF BridgeInv, Shaped, CallShape
  <2>3. QED BY <2>1, <2>2 DEF BridgeInv, Shaped, CallShape, SameWork, SameCall
<1> HIDE DEF exact, there
<1>3. CliMoves' /\ Placed'
  BY <1>1 DEF BridgeInv, Shaped, RequestShape, ClickInv, CliMoves, Placed
<1>4. CASE c = "mcp"
  <2>1. /\ Request = req /\ Command.st = "none" /\ req.op = call.todo[1] /\ call.pc = "asked"
    BY <1>1, <1>4, Waiting DEF Request, ClickInv, Told
  <2>2. /\ Request'.st = "pointer" /\ Request'.op = req.op
        /\ Command' = [op |-> req.op, x |-> there, st |-> "queued"]
    BY <1>1, <1>4 DEF Request, Command, BridgeInv, Shaped, RequestShape, CommandShape
  <2>3. sent'.who # "mcp"
    BY <1>1, <2>1 DEF BridgeInv, Channel
  <2>4. /\ Clicking' <=> Clicking
        /\ Done("abs")' <=> Done("abs")
        /\ Done("click")' <=> Done("click")
        /\ call'.todo = call.todo /\ call'.pc = call.pc /\ call'.x = call.x
        /\ call'.region = call.region
    BY <1>2 DEF SameWork, SameCall, Clicking, Done
  <2>5. Planned'
    BY <1>2, <2>4 DEF ClickInv, Planned
  <2>6. Told'
    BY <1>1, <2>1, <2>2, <2>4 DEF Told
  <2>7. MovedFirst'
    BY <2>2, <2>4 DEF ClickInv, MovedFirst
  <2>8. ASSUME Trusted' PROVE Aim'
    <3>1. Trusted /\ Aim /\ exact
      BY <1>1, <1>2, <1>4, <2>4, <2>8 DEF Trusted, ClickInv
    <3>2. req.op = "abs" => there = ToDevice(layout, win + 1)
      <4>1. req.op = "abs" => req.x = win + 1
        BY <1>1, <2>1, <3>1 DEF Aim, Heads
      <4>2. QED BY <3>1, <4>1 DEF exact, there
    <3>3. Sees' /\ Heads'
      BY <1>1, <2>1, <2>2, <2>3, <2>4, <3>1, <3>2 DEF Aim, Sees, Heads
    <3>4. QED BY <1>1, <2>4, <3>1, <3>3 DEF Aim, OnElement
  <2>9. QED BY <1>3, <2>5, <2>6, <2>7, <2>8 DEF ClickInv
<1>5. CASE c # "mcp"
  <2>1. Request' = Request /\ Command' = Command
    BY <1>1, <1>5 DEF Request, Command
  <2>2. QED BY <1>1, <1>2, <1>3, <2>1, Elsewhere
<1>6. QED BY <1>4, <1>5

\* The handler answers what the worker did.
LEMMA PointerAnswersClick ==
  ASSUME BridgeInv, ClickInv, NEW c \in Client, PointerAnswers(c)
  PROVE  ClickInv'
<1>1. /\ handler[c].st = "pointer" /\ cmd' = [cmd EXCEPT ![c] = NoCmd] /\ SameWork
      /\ call'.calm = call.calm /\ UNCHANGED <<layout, win, pointer, sent>>
      /\ Answer(c, cmd[c].st = "ok", 0)
  BY DEF PointerAnswers, Collect, SameWork, SameCall
<1>2. CASE c = "mcp"
  <2>1. /\ Request.st = "pointer" /\ Request.op \in {"abs", "rel", "click"}
        /\ Request.op = call.todo[1] /\ Command'.st = "none"
    BY <1>1, <1>2, BridgeAssumption
       DEF Request, Command, ClickInv, Told, BridgeInv, Shaped, CommandShape, NoCmd
  <2> DEFINE ok == cmd[c].st = "ok"
  <2>2. Clicking /\ ok /\ Request.op = "abs" => Done("abs")
    BY <1>2, <2>1 DEF ClickInv, MovedFirst, Command
  <2>3. QED BY <1>1, <1>2, <2>1, <2>2, AnsweredClick
<1>3. CASE c # "mcp"
  <2>1. Command' = Command
    BY <1>1, <1>3 DEF Command
  <2>2. QED BY <1>1, <1>3, <2>1, CliAnswered
<1>4. QED BY <1>2, <1>3

\* What the worker sends of a calm call spans the outputs there are.
LEMMA WorkerTakesClick == ASSUME BridgeInv, ClickInv, WorkerTakes PROVE ClickInv'
<1> DEFINE c == Head(inbox)
<1>1. /\ inbox # <<>> /\ UNCHANGED <<cmd, handler, layout, win, pointer>>
      /\ sent'.who = c /\ sent'.op = cmd[c].op /\ sent'.extent = UnionExtent(known)
      /\ cmd[c].op = "abs" => sent'.x = Clipped(cmd[c].x, sent'.extent)
  BY DEF WorkerTakes, Take, Clipped
<1>2. SameWork /\ (call'.calm => call.calm /\ (sent'.who = "mcp" /\ sent'.op = "abs"
                                                  => sent'.extent = UnionExtent(layout.outs)))
  <2> DEFINE upToDate == sent'.who = "mcp" /\ sent'.op = "abs" => sent'.extent = UnionExtent(layout.outs)
  <2>1. call' = [call EXCEPT !.calm = @ /\ upToDate]
    BY DEF WorkerTakes
  <2> HIDE DEF upToDate
  <2>2. call'.calm = (call.calm /\ upToDate)
    BY <2>1 DEF BridgeInv, Shaped, CallShape
  <2>3. SameWork
    BY <2>1 DEF BridgeInv, Shaped, CallShape, SameWork, SameCall
  <2>4. QED BY <2>2, <2>3 DEF upToDate
<1>3. Request' = Request /\ Command' = Command /\ CliMoves' /\ Placed'
  BY <1>1 DEF Request, Command, ClickInv, CliMoves, Placed
<1>4. CASE c # "mcp"
  BY <1>1, <1>2, <1>3, <1>4, Elsewhere
<1>5. CASE c = "mcp"
  <2>1. Command.st = "queued" /\ Command.op = call.todo[1] /\ Command = cmd[c]
    <3>1. inbox \in Seq(Client) /\ 1 \in 1..Len(inbox) /\ c = inbox[1]
      <4>1. inbox \in Seq(Client)
        BY DEF BridgeInv, Shaped
      <4>2. Len(inbox) \in Nat \ {0} /\ Head(inbox) = inbox[1]
        BY <1>1, <4>1, LenProperties, EmptySeq, HeadTailProperties
      <4>3. QED BY <4>1, <4>2
    <3>2. Command.st = "queued"
      BY <1>5, <3>1 DEF BridgeInv, Channel
    <3>3. QED BY <1>5, <3>2 DEF BridgeInv, Pending, Command
  <2> HIDE DEF c
  <2>2. /\ Clicking' <=> Clicking
        /\ Done("abs")' <=> Done("abs")
        /\ Done("click")' <=> Done("click")
        /\ call'.todo = call.todo /\ call'.pc = call.pc /\ call'.x = call.x
        /\ call'.region = call.region
    BY <1>2 DEF SameWork, SameCall, Clicking, Done
  <2>3. Planned' /\ Told' /\ MovedFirst'
    BY <1>2, <1>3, <2>2 DEF ClickInv, Planned, Told, MovedFirst
  <2>4. ASSUME Trusted' PROVE Aim'
    <3>1. Trusted /\ Aim
      BY <1>1, <1>2, <2>2, <2>4 DEF Trusted, ClickInv
    <3>2. call.todo[1] = "abs" => /\ sent'.extent = UnionExtent(layout.outs)
                                  /\ sent'.x = Clipped(ToDevice(layout, win + 1), sent'.extent)
      <4>1. ASSUME call.todo[1] = "abs"
            PROVE  /\ sent'.extent = UnionExtent(layout.outs)
                   /\ sent'.x = Clipped(cmd[c].x, sent'.extent)
        BY <1>1, <1>2, <1>5, <2>1, <2>4, <4>1 DEF Trusted
      <4>2. QED BY <2>1, <3>1, <4>1 DEF Aim, Heads
    <3>3. Sees' /\ Heads'
      BY <1>1, <1>3, <2>2, <3>1, <3>2 DEF Aim, Sees, Heads
    <3>4. QED BY <1>1, <2>2, <3>1, <3>3 DEF Aim, OnElement
  <2>5. QED BY <1>3, <2>3, <2>4 DEF ClickInv
<1>6. QED BY <1>4, <1>5

\* What the agent's command comes to: the pointer lands on the element.
LEMMA EffectLands ==
  ASSUME ScalesUp, BridgeInv, ClickInv, sent.who = "mcp", Happened("mcp", sent.op),
         pointer' = Reached, UNCHANGED <<layout, win>>, CliMoves', sent'.who # "mcp",
         \/ Request' = Request /\ Command'.st \in {"ok", "err"}
         \/ Request'.st = "none" /\ Command'.st = "none"
  PROVE  ClickInv'
<1>1. /\ Command.st = "queued" /\ sent.op = Command.op /\ Request.st = "pointer"
      /\ sent.op = call.todo[1] /\ Request.op = call.todo[1] /\ ~Done(sent.op)
      /\ call.pc = "asked" /\ call.todo[1] \in Stages
  BY Waiting, FirstStage DEF BridgeInv, Channel, Pending, ClickInv, Told
<1>2. /\ call'.tool = call.tool /\ call'.todo = call.todo /\ call'.x = call.x
      /\ call'.pc = call.pc /\ call'.done = Append(call.done, sent.op)
      /\ call'.calm = call.calm /\ call'.region = call.region
  BY DEF Happened, BridgeInv, Shaped, CallShape
<1>3. \A p : (Done(p)' <=> Done(p) \/ p = call.todo[1])
  BY <1>1, <1>2, DoneAppended
<1>4. /\ Clicking' <=> Clicking
      /\ Done("abs")' <=> Done("abs") \/ call.todo[1] = "abs"
      /\ Done("click")' <=> Done("click") \/ call.todo[1] = "click"
  <2>1. Done("abs")' <=> Done("abs") \/ call.todo[1] = "abs"
    BY <1>3
  <2>2. Done("click")' <=> Done("click") \/ call.todo[1] = "click"
    BY <1>3
  <2>3. QED BY <1>2, <2>1, <2>2 DEF Clicking
<1>5. Planned'
  BY <1>2, <1>4 DEF ClickInv, Planned
<1>6. Told' /\ Placed'
  BY <1>1, <1>2 DEF ClickInv, Told, Placed
<1>7. MovedFirst'
  BY <1>2, <1>4 DEF ClickInv, MovedFirst
<1>8. ASSUME Trusted' PROVE Aim'
  <2>1. Trusted /\ Aim
    BY <1>2, <1>4, <1>8 DEF Trusted, ClickInv
  <2>2. call.todo[1] \in {"abs", "rel", "click"}
    BY <1>1 DEF ClickInv, Told
  <2>3. call'.todo[1] \notin {"clients", "monitors"} /\ Sees'
    BY <1>2, <2>2 DEF Sees
  <2>4. Heads'
    <3>1. Request'.st # "received" /\ Command'.st # "queued"
      BY <1>1
    <3>2. QED BY <1>2, <2>1, <3>1 DEF Aim, Heads
  <2>5. CASE call.todo[1] = "abs"
    <3> DEFINE extent == UnionExtent(layout.outs)
               x == Clipped(ToDevice(layout, win + 1), extent)
    <3>1. sent.extent = extent /\ sent.x = x
      BY <1>1, <2>1, <2>5 DEF Aim, Heads
    <3>2. pointer' = [num |-> x * Width(layout), den |-> extent]
      BY <1>1, <2>5, <3>1 DEF Reached
    <3>3. win * extent <= x * Width(layout) /\ x * Width(layout) < (win + 2) * extent
      BY <2>1, MiddleIsHit DEF ClickInv, Placed, Trusted
    <3> HIDE DEF x, extent
    <3>4. OnElement'
      BY <3>2, <3>3 DEF OnElement
    <3>5. QED BY <2>3, <2>4, <3>4 DEF Aim
  <2>6. CASE call.todo[1] # "abs"
    <3>1. Clicking /\ call.todo[1] = "click"
      BY <1>1, <2>1, <2>2, <2>6, FirstStage DEF Trusted, ClickInv, Planned, InTurn, Clicks
    <3>2. Done("abs") /\ pointer' = pointer
      BY <1>1, <3>1 DEF ClickInv, MovedFirst, Reached
    <3>3. OnElement'
      BY <2>1, <3>2 DEF Aim, OnElement
    <3>4. QED BY <2>3, <2>4, <3>3 DEF Aim
  <2>7. QED BY <2>5, <2>6
<1>9. QED BY <1>5, <1>6, <1>7, <1>8 DEF ClickInv

\* The worker's command was the agent's, or the command line's, or has come to
\* nothing.
LEMMA WorkerAnswersClick == ASSUME ScalesUp, BridgeInv, ClickInv, WorkerAnswers PROVE ClickInv'
<1>1. PICK st \in {"ok", "err"} :
         /\ cmd' = [cmd EXCEPT ![sent.who].st = st] /\ sent' = Nothing
         /\ \/ Happened(sent.who, sent.op) /\ pointer' = Reached
            \/ UNCHANGED <<call, pointer>> /\ st = "err"
         /\ UNCHANGED <<handler, layout, win>>
  BY DEF WorkerAnswers, Roundtrip, RoundtripFails, Reply
<1>2. Request' = Request /\ CliMoves' /\ Placed' /\ sent'.who # "mcp"
  BY <1>1 DEF Request, ClickInv, CliMoves, Placed, Nothing
<1>3. CASE sent.who # "mcp"
  <2>1. Command' = Command
    BY <1>1, <1>3 DEF Command
  <2>2. CASE Happened(sent.who, sent.op) /\ pointer' = Reached
    <3>1. sent.op = "click" => pointer' = pointer
      BY <2>2 DEF Reached
    <3>2. SameWork /\ (call'.calm => call.calm /\ (sent.op # "click" => ~Done("abs")))
      BY <1>3, <2>2, HappenedElsewhere
    <3>3. QED BY <1>1, <1>2, <2>1, <3>1, <3>2, Elsewhere
  <2>3. CASE UNCHANGED <<call, pointer>>
    <3>1. SameWork /\ call'.calm = call.calm
      BY <2>3 DEF SameWork, SameCall
    <3>2. QED BY <1>1, <1>2, <2>1, <2>3, <3>1, Elsewhere
  <2>4. QED BY <1>1, <2>2, <2>3
<1>4. CASE sent.who = "mcp"
  <2>1. Command'.st = st
    BY <1>1, <1>4, BridgeAssumption DEF Command, BridgeInv, Shaped, CommandShape
  <2>2. CASE Happened(sent.who, sent.op) /\ pointer' = Reached
    BY <1>1, <1>2, <1>4, <2>1, <2>2, EffectLands
  <2>3. CASE UNCHANGED <<call, pointer>> /\ st = "err"
    <3>1. Command'.st = "err" /\ Request.st = "pointer"
      BY <1>4, <2>1, <2>3 DEF BridgeInv, Channel, Pending
    <3>2. Told' /\ Planned' /\ MovedFirst'
      BY <1>2, <2>3, <3>1 DEF ClickInv, Told, Planned, MovedFirst, Clicking, Done
    <3>3. ASSUME Trusted' PROVE Aim'
      <4>1. Trusted /\ Aim
        BY <1>1, <2>3, <3>3 DEF Trusted, Clicking, ClickInv
      <4>2. QED BY <1>1, <1>2, <2>3, <3>1, <4>1 DEF Aim, Sees, Heads, OnElement, Done
    <3>4. QED BY <1>2, <3>2, <3>3 DEF ClickInv
  <2>4. QED BY <1>1, <2>2, <2>3
<1>5. QED BY <1>3, <1>4

\* The daemon's end takes request and command; what was sent may come to pass.
LEMMA DaemonDiesClick == ASSUME ScalesUp, BridgeInv, ClickInv, DaemonDies PROVE ClickInv'
<1>1. /\ handler' = [c \in Client |-> NoRequest] /\ cmd' = [c \in Client |-> NoCmd]
      /\ sent' = Nothing /\ UNCHANGED <<layout, win>>
      /\ \/ Happened(sent.who, sent.op) /\ pointer' = Reached
         \/ UNCHANGED <<call, pointer>>
  BY DEF DaemonDies, WorkerEnds
<1>2. /\ Request'.st = "none" /\ Command'.st = "none" /\ CliMoves' /\ Placed'
      /\ sent'.who # "mcp"
  BY <1>1, BridgeAssumption
     DEF Request, Command, NoRequest, NoCmd, Nothing, CliMoves, ClickInv, Placed
<1>3. CASE Happened(sent.who, sent.op) /\ pointer' = Reached
  <2>1. CASE sent.who = "mcp"
    BY <1>1, <1>2, <1>3, <2>1, EffectLands
  <2>2. CASE sent.who # "mcp"
    <3>1. sent.op = "click" => pointer' = pointer
      BY <1>3 DEF Reached
    <3>2. SameWork /\ (call'.calm => call.calm /\ (sent.op # "click" => ~Done("abs")))
      BY <1>3, <2>2, HappenedElsewhere
    <3>3. QED BY <1>1, <1>2, <3>1, <3>2, Elsewhere
  <2>3. QED BY <2>1, <2>2
<1>4. CASE UNCHANGED <<call, pointer>>
  <2>1. SameWork /\ call'.calm = call.calm
    BY <1>4 DEF SameWork, SameCall
  <2>2. QED BY <1>1, <1>2, <1>4, <2>1, Elsewhere
<1>5. QED BY <1>1, <1>3, <1>4

\* What everybody else does.
LEMMA OthersClick ==
  ASSUME BridgeInv, ClickInv,
         \/ WaylandBreaks \/ CliReads \/ \E input \in Inputs : DaemonStarts(input)
         \/ \E x \in MouseAt : UserMovesPointer(x)
         \/ \E op \in {"abs", "rel", "click"}, x \in MouseAt : CliAsks(op, x)
         \/ \E w \in WinAt : UserMovesWindow(w)
         \/ \E l \in Layouts, w \in WinAt : UserChangesLayout(l, w)
  PROVE  ClickInv'
<1>1. /\ UNCHANGED <<cmd, sent>>
      /\ UNCHANGED handler \/ \E r : /\ handler' = [handler EXCEPT !["cli"] = r]
                                    /\ "op" \in DOMAIN r /\ r.op # "clients"
  <2>1. UNCHANGED <<cmd, sent>>
    BY DEF WaylandBreaks, ConnectionBreaks, CliReads, DaemonStarts, WorkerStarts, UserMovesPointer,
           PointerMovedTo, CliAsks, UserMovesWindow, UserChangesLayout, LayoutChanges, pvars
  <2>2. ASSUME CliReads
        PROVE  \E r : /\ handler' = [handler EXCEPT !["cli"] = r]
                      /\ "op" \in DOMAIN r /\ r.op # "clients"
    <3>1. "op" \in DOMAIN NoRequest /\ NoRequest.op # "clients"
      BY DEF NoRequest
    <3>2. QED BY <2>2, <3>1 DEF CliReads
  <2>3. ASSUME NEW op \in {"abs", "rel", "click"}, NEW x \in MouseAt, CliAsks(op, x)
        PROVE  \E r : /\ handler' = [handler EXCEPT !["cli"] = r]
                      /\ "op" \in DOMAIN r /\ r.op # "clients"
    <3>1. "op" \in DOMAIN Asked(op, x, FALSE) /\ Asked(op, x, FALSE).op # "clients"
      BY DEF Asked
    <3>2. QED BY <2>3, <3>1 DEF CliAsks
  <2>4. QED BY <2>1, <2>2, <2>3 DEF WaylandBreaks, DaemonStarts, UserMovesPointer, UserMovesWindow,
               UserChangesLayout
<1>2. /\ Command' = Command /\ Request' = Request /\ CliMoves'
  <2>1. DOMAIN handler = Client /\ "cli" \in Client
    BY BridgeAssumption DEF BridgeInv, Shaped, RequestShape
  <2>2. ASSUME NEW r, handler' = [handler EXCEPT !["cli"] = r], "op" \in DOMAIN r, r.op # "clients"
        PROVE  handler'["mcp"] = handler["mcp"] /\ CliMoves'
    BY <2>1, <2>2 DEF CliMoves
  <2>3. UNCHANGED handler => CliMoves'
    BY DEF ClickInv, CliMoves
  <2>4. QED BY <1>1, <2>2, <2>3 DEF Command, Request
<1>3. /\ SameWork /\ Placed' /\ (call'.calm => call.calm)
      /\ call'.calm => UNCHANGED <<layout, win>> /\ (UNCHANGED pointer \/ ~Done("abs"))
  <2>1. CASE WaylandBreaks \/ CliReads \/ (\E input \in Inputs : DaemonStarts(input))
             \/ \E op \in {"abs", "rel", "click"}, x \in MouseAt : CliAsks(op, x)
    BY <2>1 DEF WaylandBreaks, ConnectionBreaks, CliReads, DaemonStarts, WorkerStarts, CliAsks,
                pvars, SameWork, SameCall, ClickInv, Placed
  <2>2. ASSUME NEW x \in MouseAt, UserMovesPointer(x)
        PROVE  /\ SameWork /\ Placed' /\ (call'.calm => call.calm)
               /\ call'.calm => UNCHANGED <<layout, win>> /\ (UNCHANGED pointer \/ ~Done("abs"))
    <3>1. UNCHANGED <<layout, win>> /\ Happened("cli", "abs")
      BY <2>2 DEF UserMovesPointer, PointerMovedTo
    <3>2. QED BY <3>1, HappenedElsewhere DEF ClickInv, Placed
  <2>3. CASE \/ \E w \in WinAt : UserMovesWindow(w)
             \/ \E l \in Layouts, w \in WinAt : UserChangesLayout(l, w)
    <3>1. call' = [call EXCEPT !.calm = FALSE]
      BY <2>3 DEF UserMovesWindow, UserChangesLayout
    <3>2. layout' \in Layouts /\ win' \in Nat /\ win' + 2 <= Width(layout')
      BY <2>3, BridgeAssumption DEF UserMovesWindow, UserChangesLayout, LayoutChanges, pvars,
            ClickInv, Placed
    <3>3. SameWork /\ call'.calm = FALSE
      BY <3>1, CalmWork DEF BridgeInv
    <3>4. QED BY <3>2, <3>3 DEF Placed
  <2>4. QED BY <2>1, <2>2, <2>3
<1>4. QED BY <1>1, <1>2, <1>3, Elsewhere

\* Nothing is clicked at the start.
LEMMA ClickInit == ASSUME Init PROVE ClickInv
<1>1. /\ call = Idle("ok") /\ handler = [c \in Client |-> NoRequest]
      /\ cmd = [c \in Client |-> NoCmd]
  BY DEF Init, PointerInit
<1>2. ~Clicking
  BY <1>1 DEF Clicking, ClickTools, Idle
<1>3. CliMoves /\ Told
  BY <1>1, BridgeAssumption DEF CliMoves, Told, Request, Command, NoRequest, NoCmd
<1>4. Placed
  BY BridgeAssumption DEF Init, PointerInit, Placed
<1>5. QED BY <1>2, <1>3, <1>4 DEF ClickInv, Planned, MovedFirst, Trusted

LEMMA ClickStep ==
  ASSUME ScalesUp, BridgeInv, ClickInv, [Next]_vars
  PROVE  ClickInv'
<1>1. CASE Server
  BY <1>1, CallClick, ScanClick, AskClick, LostClick, ReceiveClick DEF Server
<1>2. CASE Worker
  BY <1>2, WorkerTakesClick, WorkerAnswersClick DEF Worker
<1>3. CASE Others
  BY <1>3, DaemonDiesClick, OthersClick DEF Others
<1>4. CASE CliReads \/ \E input \in Inputs : DaemonStarts(input)
  BY <1>4, OthersClick
<1>5. CASE \E c \in Client : Handler(c)
  <2>1. PICK c \in Client : Handler(c)
    BY <1>5
  <2>2. QED BY <2>1, HandlerFailsClick, LookupClick, OtherEffects, ByYdotoolClick, ToPointerClick,
               PointerAnswersClick DEF Handler
<1>6. CASE UNCHANGED vars
  <2>1. /\ SameWork /\ call'.calm = call.calm /\ Request' = Request /\ Command' = Command
        /\ CliMoves' /\ Placed' /\ sent' = sent /\ UNCHANGED <<layout, win, pointer>>
    BY <1>6 DEF vars, pvars, bridge, SameWork, SameCall, Request, Command, ClickInv, CliMoves, Placed
  <2>2. QED BY <2>1, Elsewhere
<1>7. QED BY <1>1, <1>2, <1>3, <1>4, <1>5, <1>6 DEF Next

-----------------------------------------------------------------------------
\* click_text and a11y_click press the button on the element they have found,
\* wherever it is, for every arrangement of outputs no one of which is scaled
\* down, and whatever the daemon, the worker, the command line and the user do
\* in between that leaves the call calm (handle_click_text, handle_a11y_click,
\* logical_to_device, virtual_pointer.rs).  Below a scale of one two pixels of
\* the element may share a device pixel, and rounding may miss it.
THEOREM ClicksLand == ASSUME ScalesUp PROVE Spec => []ClickLandsOnTarget
<1>1. Init => BridgeInv /\ ClickInv
  BY BridgeInit, ClickInit
<1>2. BridgeInv /\ ClickInv /\ [Next]_vars => BridgeInv' /\ ClickInv'
  BY BridgeStep, ClickStep
<1>3. ClickInv => ClickLandsOnTarget
  <2>1. SUFFICES ASSUME ClickInv, Clicked, call.region.x = 0 PROVE OnElement
    BY DEF ClickLandsOnTarget
  <2>2. Trusted /\ Done("click")
    BY <2>1 DEF Clicked, Trusted, Clicking, Done
  <2>3. QED BY <2>1, <2>2 DEF ClickInv, MovedFirst, Trusted, Aim
<1>4. QED BY <1>1, <1>2, <1>3, PTL DEF Spec
=============================================================================
