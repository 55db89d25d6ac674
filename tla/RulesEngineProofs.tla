------------------------- MODULE RulesEngineProofs -------------------------
(***************************************************************************)
(* The reentrance guard of RulesEngine, for every rules file, decay,       *)
(* timeout, set of classes and number of events.                           *)
(*                                                                         *)
(* Sound is inductive and shows that the depth is always accounted for.    *)
(* With echoes that come sooner than the decay Guarded is inductive        *)
(* as well: an echo on its way finds the guard up, and the engine reads it *)
(* before the decrement is due.                                            *)
(***************************************************************************)
EXTENDS RulesEngine, SequenceLemmas, FiniteSetTheorems, SequenceTheorems, TLAPS

Seen == [kind : Kind, class : Class, origin : {"user", "echo"}, age : Nat]
Coming == [kind : Kind, age : Nat, lag : Nat]
Resting == [pc : {"new", "failed", "empty", "idle", "stopped"}]
Busy == [pc : {"acting"}, rule : Nat, step : Nat \ {0}, effect : BOOLEAN,
         age : Nat, trigger : Seen]

Typed ==
    /\ rules \in Seq(Rule)
    /\ engine \in Resting \union Busy
    /\ decays \in Seq(0..Decay)
    /\ inbox \in Seq(Seen)
    /\ flight \in Seq(Coming)

RuleChosen == engine.pc = "acting" => engine.rule \in 1..Len(rules)

Compiled ==
    Connected => \A i \in 1..Len(rules) : \A j \in 1..Len(rules[i].do) :
                     Parses(rules[i].do[j])

Counted ==
    /\ depth = Len(decays) + IF engine.pc = "acting" THEN 1 ELSE 0
    /\ depth <= 1

Sound == Typed /\ RuleChosen /\ Compiled /\ Counted

-----------------------------------------------------------------------------
(* Facts about the operators the model is built from.                      *)

\* ... which is its minimum.
LEMMA MinIsMember ==
    ASSUME NEW S \in SUBSET Nat, S # {}
    PROVE  Min(S) \in S
BY LeastExists DEF Min

\* A finite set listed as a sequence is a sequence over the set.
LEMMA ListedIsSeq ==
    ASSUME NEW S, IsFiniteSet(S)
    PROVE  SetToSeq(S) \in Seq(S)
<1>1. Cardinality(S) \in Nat /\ ExistsBijection(1..Cardinality(S), S)
  BY FS_CardinalityType
<1>2. PICK f \in Bijection(1..Cardinality(S), S) : TRUE
  BY <1>1 DEF ExistsBijection
<1>3. f \in [1..Cardinality(S) -> S] /\ IsInjective(f)
  BY <1>2 DEF Bijection, Injection, IsInjective
<1>4. SetToSeq(S) \in [1..Cardinality(S) -> S]
  BY <1>3 DEF SetToSeq
<1>5. QED BY <1>1, <1>4

\* Removing an entry of a sequence leaves a sequence of other entries of it.
LEMMA RemovedIsSeq ==
    ASSUME NEW T, NEW s \in Seq(T), NEW i \in 1..Len(s)
    PROVE  /\ RemoveAt(s, i) \in Seq(T)
           /\ \A k \in 1..Len(RemoveAt(s, i)) :
                 \E j \in 1..Len(s) : RemoveAt(s, i)[k] = s[j]
<1> DEFINE a == SubSeq(s, 1, i - 1)
           b == SubSeq(s, i + 1, Len(s))
<1>1. /\ a \in Seq(T)
      /\ Len(a) = i - 1
      /\ \A k \in 1..Len(a) : a[k] = s[k]
  <2>1. \A k \in 1..i - 1 : s[k] \in T
    OBVIOUS
  <2>2. QED BY <2>1, SubSeqProperties
<1>2. /\ b \in Seq(T)
      /\ Len(b) = Len(s) - i
      /\ \A k \in 1..Len(b) : b[k] = s[i + k]
  <2>1. \A k \in i + 1..Len(s) : s[k] \in T
    OBVIOUS
  <2>2. QED BY <2>1, SubSeqProperties
<1>3. RemoveAt(s, i) = a \o b
  BY DEF RemoveAt
<1> HIDE DEF a, b
<1>4. /\ a \o b \in Seq(T)
      /\ Len(a \o b) = Len(s) - 1
      /\ \A k \in 1..Len(a) + Len(b) :
            (a \o b)[k] = IF k <= Len(a) THEN a[k] ELSE b[k - Len(a)]
  <2>1. Len(a) + Len(b) = Len(s) - 1
    BY <1>1, <1>2
  <2>2. QED BY <1>1, <1>2, <2>1, ConcatProperties
<1>5. ASSUME NEW k \in 1..Len(s) - 1
      PROVE  \E j \in 1..Len(s) : (a \o b)[k] = s[j]
  <2>1. CASE k <= i - 1
    <3>1. (a \o b)[k] = s[k]
      BY <1>1, <1>2, <1>4, <2>1
    <3>2. QED BY <3>1
  <2>2. CASE k > i - 1
    <3>1. (a \o b)[k] = s[k + 1]
      <4>1. k - Len(a) \in 1..Len(b) /\ i + (k - Len(a)) = k + 1
        BY <1>1, <1>2, <2>2
      <4>2. (a \o b)[k] = b[k - Len(a)]
        BY <1>1, <1>2, <1>4, <2>2
      <4>3. QED BY <1>2, <4>1, <4>2
    <3>2. QED BY <3>1
  <2>3. QED
    <3>1. k <= i - 1 \/ k > i - 1
      OBVIOUS
    <3>2. QED BY <2>1, <2>2, <3>1, Zenon
<1>6. QED BY <1>3, <1>4, <1>5

\* The echoes of a verb are kinds of event, and finitely many.
LEMMA EchoesAreKinds ==
    ASSUME NEW v \in Verb
    PROVE  Echoes[v] \subseteq Kind /\ IsFiniteSet(Echoes[v])
<1>1. Echoes[v] \subseteq Kind
  BY DEF Kind
<1>2. PICK x, y : Echoes[v] = {x, y} \/ Echoes[v] = {x} \/ Echoes[v] = {}
  BY DEF Echoes
<1>3. IsFiniteSet({}) /\ IsFiniteSet({x})
  BY FS_EmptySet, FS_Singleton
<1>4. IsFiniteSet({x, y})
  <2>1. IsFiniteSet({x} \union {y})
    BY <1>3, FS_AddElement
  <2>2. {x} \union {y} = {x, y}
    OBVIOUS
  <2>3. QED BY <2>1, <2>2
<1>5. QED BY <1>1, <1>2, <1>3, <1>4

\* An action that parses has a verb.
LEMMA ParsedHasVerb ==
    ASSUME NEW a, Parses(a)
    PROVE  a.verb \in Verb
BY DEF Parses, Verb

\* What an effect announces is a sequence of echoes that are on their way,
\* each as late as the lag of the verb.
LEMMA AnnouncedIsSeq ==
    ASSUME NEW v \in Verb
    PROVE  SetToSeq({[kind |-> k, age |-> 0, lag |-> Lag[v]] : k \in Echoes[v]})
             \in Seq({c \in Coming : c.age = 0 /\ c.lag = Lag[v]})
<1> DEFINE S == {[kind |-> k, age |-> 0, lag |-> Lag[v]] : k \in Echoes[v]}
           C == {c \in Coming : c.age = 0 /\ c.lag = Lag[v]}
<1>1. Lag[v] \in Nat
  BY RulesAssumption
<1>2. S \subseteq C
  BY <1>1, EchoesAreKinds DEF Coming
<1>3. IsFiniteSet(S)
  <2>1. IsFiniteSet(Echoes[v])
    BY EchoesAreKinds
  <2>2. [k \in Echoes[v] |-> [kind |-> k, age |-> 0, lag |-> Lag[v]]]
          \in Surjection(Echoes[v], S)
    BY DEF Surjection
  <2>3. QED BY <2>1, <2>2, FS_Surjection
<1>4. SetToSeq(S) \in Seq(S)
  BY <1>3, ListedIsSeq
<1> HIDE DEF S, C
<1>5. SetToSeq(S) \in Seq(C)
  BY <1>2, <1>4
<1>6. QED BY <1>5 DEF S, C
-----------------------------------------------------------------------------
(* The guard is accounted for.                                             *)

\* The constants of the model are what RulesAssumption says.
LEMMA Durations == Decay \in Nat /\ ActionTime \in Nat /\ Configs \subseteq Seq(Rule)
BY RulesAssumption

LEMMA SoundInit == Init => Sound
<1> SUFFICES ASSUME Init PROVE Sound
  OBVIOUS
<1>1. engine \in Resting /\ engine.pc = "new"
  BY DEF Init, Resting
<1>2. Typed
  BY <1>1, Durations DEF Init, Typed
<1>3. RuleChosen /\ Compiled
  BY <1>1 DEF RuleChosen, Compiled, Connected
<1>4. Counted
  BY <1>1 DEF Init, Counted
<1>5. QED BY <1>2, <1>3, <1>4 DEF Sound

\* Reading an event leaves a sequence of events, and gives an event.
LEMMA ReadEvent ==
    ASSUME Sound, Read
    PROVE  /\ Head(inbox) \in Seen
           /\ inbox' \in Seq(Seen)
           /\ engine.pc = "idle"
BY HeadTailProperties DEF Sound, Typed, Read

\* What is announced, or caused by the user, is a sequence of events.
LEMMA SentIsSeq ==
    ASSUME NEW e \in Seen, Typed, Send(e)
    PROVE  inbox' \in Seq(Seen)
BY DEF Typed, Send

LEMMA CompileSound == Sound /\ Compile => Sound'
<1> SUFFICES ASSUME Sound, Compile PROVE Sound'
  OBVIOUS
<1>1. /\ engine' \in Resting
      /\ engine'.pc \in {"failed", "empty", "idle"}
      /\ engine.pc = "new"
  BY DEF Compile, Resting
<1>2. Typed'
  BY <1>1 DEF Sound, Typed, Compile
<1>3. RuleChosen'
  BY <1>1 DEF RuleChosen
<1>4. Compiled'
  BY DEF Compile, Compiled, Connected
<1>5. Counted'
  BY <1>1 DEF Sound, Counted, Compile
<1>6. QED BY <1>2, <1>3, <1>4, <1>5 DEF Sound

LEMMA DroppedSound == Sound /\ (Inhibited \/ Unmatched) => Sound'
<1> SUFFICES ASSUME Sound, Inhibited \/ Unmatched PROVE Sound'
  OBVIOUS
<1>1. Read /\ UNCHANGED <<rules, engine, depth, decays, flight>>
  BY DEF Inhibited, Unmatched, Read
<1>2. inbox' \in Seq(Seen)
  BY <1>1, ReadEvent
<1>3. QED
  BY <1>1, <1>2 DEF Sound, Typed, RuleChosen, Compiled, Connected, Counted

LEMMA FireSound == Sound /\ Fire => Sound'
<1> SUFFICES ASSUME Sound, Fire PROVE Sound'
  OBVIOUS
<1>1. Read /\ UNCHANGED <<rules, flight, decays>> /\ depth = 0 /\ depth' = 1
  BY DEF Fire, Read
<1>2. Head(inbox) \in Seen /\ inbox' \in Seq(Seen) /\ engine.pc = "idle"
  BY <1>1, ReadEvent
<1>3. Min(Matching(Head(inbox))) \in 1..Len(rules)
  <2>1. Matching(Head(inbox)) \subseteq 1..Len(rules)
    BY DEF Matching
  <2>2. 1..Len(rules) \subseteq Nat
    BY DEF Sound, Typed
  <2>3. Min(Matching(Head(inbox))) \in Matching(Head(inbox))
    BY <2>1, <2>2, MinIsMember DEF Fire
  <2>4. QED BY <2>1, <2>3
<1>4. /\ engine' \in Busy
      /\ engine'.pc = "acting"
      /\ engine'.rule \in 1..Len(rules)
  BY <1>2, <1>3 DEF Fire, Busy
<1>5. Typed'
  BY <1>1, <1>2, <1>4 DEF Sound, Typed
<1>6. RuleChosen'
  BY <1>1, <1>4 DEF RuleChosen
<1>7. Compiled'
  BY <1>1, <1>2 DEF Sound, Compiled, Connected
<1>8. Counted'
  BY <1>1, <1>2, <1>4 DEF Sound, Typed, Counted
<1>9. QED BY <1>5, <1>6, <1>7, <1>8 DEF Sound

\* The current action of a running rule has a verb: the file compiled.
LEMMA CurrentHasVerb ==
    ASSUME Sound, engine.pc = "acting", engine.step <= Len(Actions)
    PROVE  Actions[engine.step].verb \in Verb
<1>1. engine \in Busy /\ engine.rule \in 1..Len(rules)
  BY DEF Sound, Typed, RuleChosen, Resting
<1>2. engine.step \in 1..Len(Actions)
  <2>1. rules[engine.rule] \in Rule
    BY <1>1 DEF Sound, Typed
  <2>2. Len(Actions) \in Nat
    BY <2>1 DEF Actions, Rule
  <2>3. QED BY <1>1, <2>2 DEF Busy
<1>3. Parses(Actions[engine.step])
  BY <1>1, <1>2 DEF Sound, Compiled, Connected, Actions
<1>4. QED BY <1>3, ParsedHasVerb

\* What an effect adds to the echoes on their way.
LEMMA EffectAnnounces ==
    ASSUME Sound, Effect
    PROVE  \E v \in Verb : \E s \in Seq({c \in Coming : c.age = 0 /\ c.lag = Lag[v]}) :
               flight' = flight \o s
<1>1. Actions[engine.step].verb \in Verb
  BY CurrentHasVerb DEF Effect
<1>2. QED BY <1>1, AnnouncedIsSeq DEF Effect

LEMMA EffectSound == Sound /\ Effect => Sound'
<1> SUFFICES ASSUME Sound, Effect PROVE Sound'
  OBVIOUS
<1>1. engine \in Busy
  BY DEF Sound, Typed, Resting, Effect
<1>2. /\ engine' \in Busy
      /\ engine.pc = "acting" /\ engine'.pc = "acting"
      /\ engine'.rule = engine.rule
      /\ UNCHANGED <<rules, depth, decays, inbox>>
  BY <1>1 DEF Effect, Busy
<1>3. flight' \in Seq(Coming)
  <2>1. PICK v \in Verb : \E s \in Seq({c \in Coming : c.age = 0 /\ c.lag = Lag[v]}) :
                flight' = flight \o s
    BY EffectAnnounces
  <2>2. PICK s \in Seq({c \in Coming : c.age = 0 /\ c.lag = Lag[v]}) : flight' = flight \o s
    BY <2>1
  <2>3. s \in Seq(Coming) /\ flight \in Seq(Coming)
    BY DEF Sound, Typed
  <2>4. QED BY <2>2, <2>3, ConcatProperties
<1>4. QED
  BY <1>2, <1>3 DEF Sound, Typed, RuleChosen, Compiled, Connected, Counted

LEMMA ActionEndsSound == Sound /\ ActionEnds => Sound'
<1> SUFFICES ASSUME Sound, ActionEnds PROVE Sound'
  OBVIOUS
<1>1. engine \in Busy
  BY DEF Sound, Typed, Resting, ActionEnds
<1>2. engine.step + 1 \in Nat \ {0}
  BY <1>1 DEF Busy
<1>3. /\ engine' \in Busy
      /\ engine.pc = "acting" /\ engine'.pc = "acting"
      /\ engine'.rule = engine.rule
      /\ UNCHANGED <<rules, depth, decays, inbox, flight>>
  BY <1>1, <1>2 DEF ActionEnds, Busy
<1>4. QED
  BY <1>3 DEF Sound, Typed, RuleChosen, Compiled, Connected, Counted

\* While a rule runs nothing is scheduled: it fired with the guard down.
LEMMA ActingAlone ==
    ASSUME Sound
    PROVE  /\ engine.pc = "acting" => decays = <<>>
           /\ depth > 0 /\ engine.pc # "acting" => Len(decays) = 1
           /\ Len(decays) <= 1
<1>1. Len(decays) \in Nat /\ (decays = <<>> <=> Len(decays) = 0)
  BY EmptySeq DEF Sound, Typed
<1>2. depth <= 1
  BY DEF Sound, Counted
<1>3. CASE engine.pc = "acting"
  <2>1. depth = Len(decays) + 1
    BY <1>3 DEF Sound, Counted
  <2>2. QED BY <1>1, <1>2, <1>3, <2>1
<1>4. CASE engine.pc # "acting"
  <2>1. depth = Len(decays)
    BY <1>1, <1>4 DEF Sound, Counted
  <2>2. QED BY <1>1, <1>2, <1>4, <2>1
<1>5. QED BY <1>3, <1>4

LEMMA RuleEndsSound == Sound /\ RuleEnds => Sound'
<1> SUFFICES ASSUME Sound, RuleEnds PROVE Sound'
  OBVIOUS
<1>1. decays = <<>> /\ decays' = <<0>>
  BY ActingAlone DEF RuleEnds
<1>2. engine.pc = "acting" /\ engine' = [pc |-> "idle"]
  BY DEF RuleEnds
<1>3. UNCHANGED <<rules, depth, inbox, flight>>
  BY DEF RuleEnds
<1>4. Typed'
  BY <1>1, <1>2, <1>3, Durations DEF Sound, Typed, Resting
<1>5. Compiled'
  BY <1>2, <1>3 DEF Sound, Compiled, Connected
<1>6. QED
  BY <1>1, <1>2, <1>3, <1>4, <1>5 DEF Sound, RuleChosen, Counted

LEMMA DecrementSound == Sound /\ Decrement => Sound'
<1> SUFFICES ASSUME Sound, Decrement PROVE Sound'
  OBVIOUS
<1>1. UNCHANGED <<rules, engine, inbox, flight>> /\ depth' = depth - 1
  BY DEF Decrement
<1>2. decays' \in Seq(0..Decay) /\ Len(decays') = Len(decays) - 1
  BY HeadTailProperties DEF Sound, Typed, Decrement
<1>3. QED
  BY <1>1, <1>2 DEF Sound, Typed, RuleChosen, Compiled, Connected, Counted

LEMMA StopSound == Sound /\ Stop => Sound'
<1> SUFFICES ASSUME Sound, Stop PROVE Sound'
  OBVIOUS
<1>1. engine' = [pc |-> "stopped"] /\ inbox' = <<>> /\ engine.pc # "acting"
  BY DEF Stop
<1>2. QED
  BY <1>1 DEF Stop, Sound, Typed, Resting, RuleChosen, Compiled, Connected, Counted

LEMMA AnnounceSound == Sound /\ Announce => Sound'
<1> SUFFICES ASSUME Sound, Announce PROVE Sound'
  OBVIOUS
<1>1. PICK i \in 1..Len(flight), c \in Class :
          /\ Send(Event(flight[i].kind, c, "echo"))
          /\ flight' = RemoveAt(flight, i)
  BY DEF Announce
<1>2. Event(flight[i].kind, c, "echo") \in Seen
  <2>1. flight[i] \in Coming
    BY DEF Sound, Typed
  <2>2. QED BY <2>1 DEF Event, Seen, Coming
<1>3. inbox' \in Seq(Seen)
  BY <1>1, <1>2, SentIsSeq DEF Sound
<1>4. flight' \in Seq(Coming)
  BY <1>1, RemovedIsSeq DEF Sound, Typed
<1>5. UNCHANGED <<rules, engine, depth, decays>>
  BY DEF Announce
<1>6. QED
  BY <1>3, <1>4, <1>5 DEF Sound, Typed, RuleChosen, Compiled, Connected, Counted

LEMMA UserSound == Sound /\ User => Sound'
<1> SUFFICES ASSUME Sound, User PROVE Sound'
  OBVIOUS
<1>1. PICK k \in UserKinds, c \in Class : Send(Event(k, c, "user"))
  BY DEF User
<1>2. Event(k, c, "user") \in Seen
  BY DEF Event, Seen, Kind
<1>3. inbox' \in Seq(Seen)
  BY <1>1, <1>2, SentIsSeq DEF Sound
<1>4. UNCHANGED <<rules, engine, depth, decays, flight>>
  BY DEF User
<1>5. QED
  BY <1>3, <1>4 DEF Sound, Typed, RuleChosen, Compiled, Connected, Counted

LEMMA TickSound == Sound /\ Tick => Sound'
<1> SUFFICES ASSUME Sound, Tick PROVE Sound'
  OBVIOUS
<1>1. UNCHANGED <<rules, depth>>
  BY DEF Tick
<1>2. /\ engine' \in Resting \union Busy
      /\ engine'.pc = engine.pc
      /\ engine.pc = "acting" => engine'.rule = engine.rule
  <2>1. CASE engine.pc = "acting"
    <3>1. engine \in Busy
      BY <2>1 DEF Sound, Typed, Resting
    <3>2. QED BY <2>1, <3>1 DEF Tick, Busy
  <2>2. CASE engine.pc # "acting"
    BY <2>2 DEF Sound, Typed, Tick
  <2>3. QED BY <2>1, <2>2
<1>3. decays' \in Seq(0..Decay) /\ Len(decays') = Len(decays)
  <2>1. \A i \in 1..Len(decays) : decays[i] + 1 \in 0..Decay
    BY Durations DEF Tick, Sound, Typed
  <2>2. QED BY <2>1 DEF Tick, Sound, Typed
<1>4. inbox' \in Seq(Seen)
  <2>1. \A i \in 1..Len(inbox) : [inbox[i] EXCEPT !.age = @ + 1] \in Seen
    <3>1. \A e \in Seen : [e EXCEPT !.age = @ + 1] \in Seen
      BY DEF Seen
    <3>2. QED BY <3>1 DEF Sound, Typed
  <2>2. inbox' = [i \in 1..Len(inbox) |-> [inbox[i] EXCEPT !.age = @ + 1]]
    BY DEF Tick, Aged
  <2>3. Len(inbox) \in Nat
    BY DEF Sound, Typed
  <2>4. QED BY <2>1, <2>2, <2>3
<1>5. flight' \in Seq(Coming)
  <2>1. \A i \in 1..Len(flight) : [flight[i] EXCEPT !.age = @ + 1] \in Coming
    <3>1. \A c \in Coming : [c EXCEPT !.age = @ + 1] \in Coming
      BY DEF Coming
    <3>2. QED BY <3>1 DEF Sound, Typed
  <2>2. QED BY <2>1 DEF Tick, Aged, Sound, Typed
<1>6. QED
  BY <1>1, <1>2, <1>3, <1>4, <1>5
  DEF Sound, Typed, RuleChosen, Compiled, Connected, Counted

LEMMA SoundStep == Sound /\ [Next]_vars => Sound'
<1> SUFFICES ASSUME Sound, [Next]_vars PROVE Sound'
  OBVIOUS
<1>1. CASE UNCHANGED vars
  BY <1>1 DEF vars, Sound, Typed, RuleChosen, Compiled, Connected, Counted
<1>2. CASE Next
  BY <1>2, CompileSound, DroppedSound, FireSound, EffectSound, ActionEndsSound,
     RuleEndsSound, DecrementSound, StopSound, AnnounceSound, UserSound, TickSound
  DEF Next, Engine
<1>3. QED BY <1>1, <1>2

\* The guard is always what the running rule and the scheduled decrements
\* account for, and never above one (engine.rs ReentranceGuard, BumpGuard).
THEOREM GuardAlwaysBalanced == Spec => []GuardBalanced
<1>1. Sound => GuardBalanced
  <2> SUFFICES ASSUME Sound PROVE GuardBalanced
    OBVIOUS
  <2>1. Cardinality({e \in {engine} : e.pc = "acting"})
          = IF engine.pc = "acting" THEN 1 ELSE 0
    <3>1. CASE engine.pc = "acting"
      <4>1. {e \in {engine} : e.pc = "acting"} = {engine}
        BY <3>1
      <4>2. QED BY <3>1, <4>1, FS_Singleton
    <3>2. CASE engine.pc # "acting"
      <4>1. {e \in {engine} : e.pc = "acting"} = {}
        BY <3>2
      <4>2. QED BY <3>2, <4>1, FS_EmptySet
    <3>3. QED BY <3>1, <3>2
  <2>2. QED BY <2>1 DEF Sound, Counted, GuardBalanced
<1>2. QED BY <1>1, SoundInit, SoundStep, PTL DEF Spec

-----------------------------------------------------------------------------
(* Echoes fire nothing.                                                    *)

EchoesInTime == \A v \in Verb : Lag[v] < Decay

\* An echo on its way is announced before the decay, and the guard stays up
\* at least until then.
OnTheirWay ==
    \A i \in 1..Len(flight) :
        /\ flight[i].age <= flight[i].lag
        /\ flight[i].lag < Decay
        /\ engine.pc # "acting" => decays # <<>> /\ decays[1] <= flight[i].age

\* An echo that waits to be read finds the guard up, and no decrement due.
Announced ==
    \A i \in 1..Len(inbox) :
        inbox[i].origin = "echo" /\ engine.pc # "acting"
            => decays # <<>> /\ decays[1] < Decay

OnlyReadersHaveMail == ~Connected => inbox = <<>>

Guarded ==
    /\ Sound /\ OnTheirWay /\ Announced /\ OnlyReadersHaveMail /\ EchoesFireNothing

LEMMA GuardedInit == Init => Guarded
<1> SUFFICES ASSUME Init PROVE Guarded
  OBVIOUS
<1>1. Sound
  BY SoundInit
<1>2. inbox = <<>> /\ flight = <<>> /\ engine.pc = "new"
  BY DEF Init
<1>3. QED
  BY <1>1, <1>2
  DEF Guarded, OnTheirWay, Announced, OnlyReadersHaveMail, EchoesFireNothing

\* A step that neither fires a rule, nor ends one, nor sends, nor lets time
\* pass only takes events away.
LEMMA CompileGuarded == Guarded /\ Compile => Guarded'
<1> SUFFICES ASSUME Guarded, Compile PROVE Guarded'
  OBVIOUS
<1>1. Sound'
  BY CompileSound DEF Guarded
<1>2. /\ engine.pc = "new" /\ engine'.pc \in {"failed", "empty", "idle"}
      /\ inbox' = <<>>
      /\ UNCHANGED <<decays, flight>>
  BY DEF Compile, Guarded, OnlyReadersHaveMail, Connected
<1>3. QED
  BY <1>1, <1>2
  DEF Guarded, OnTheirWay, Announced, OnlyReadersHaveMail, EchoesFireNothing

\* What is left to be read was there to be read before.
LEMMA ReadLeaves ==
    ASSUME Sound, Read
    PROVE  \A i \in 1..Len(inbox') : \E j \in 1..Len(inbox) : inbox'[i] = inbox[j]
<1>1. inbox \in Seq(Seen) /\ inbox # <<>> /\ inbox' = Tail(inbox)
  BY DEF Sound, Typed, Read
<1>2. QED BY <1>1, HeadTailProperties

LEMMA DroppedGuarded == Guarded /\ (Inhibited \/ Unmatched) => Guarded'
<1> SUFFICES ASSUME Guarded, Inhibited \/ Unmatched PROVE Guarded'
  OBVIOUS
<1>1. Sound'
  BY DroppedSound DEF Guarded
<1>2. Read /\ UNCHANGED <<engine, decays, flight>> /\ engine.pc = "idle"
  BY DEF Inhibited, Unmatched, Read
<1>3. Announced'
  BY <1>2, ReadLeaves DEF Guarded, Announced
<1>4. QED
  BY <1>1, <1>2, <1>3
  DEF Guarded, OnTheirWay, OnlyReadersHaveMail, EchoesFireNothing, Connected

\* The event that fires a rule is no echo: one would have found the guard up.
LEMMA FireGuarded == Guarded /\ Fire => Guarded'
<1> SUFFICES ASSUME Guarded, Fire PROVE Guarded'
  OBVIOUS
<1>1. Sound'
  BY FireSound DEF Guarded
<1>2. Read /\ depth = 0 /\ engine.pc = "idle" /\ UNCHANGED <<decays, flight>>
  BY DEF Fire, Read
<1>3. engine'.pc = "acting" /\ engine'.trigger = Head(inbox)
  BY DEF Fire
<1>4. decays = <<>>
  <2>1. depth = Len(decays)
    BY <1>2 DEF Guarded, Sound, Typed, Counted
  <2>2. QED BY <1>2, <2>1, EmptySeq DEF Guarded, Sound, Typed
<1>5. Head(inbox).origin = "user"
  <2>1. Head(inbox) \in Seen
    BY <1>2, ReadEvent DEF Guarded
  <2>2. Head(inbox) = inbox[1] /\ 1 \in 1..Len(inbox)
    BY <1>2 DEF Guarded, Sound, Typed, Read
  <2>3. Head(inbox).origin # "echo"
    BY <1>2, <1>4, <2>2 DEF Guarded, Announced
  <2>4. QED BY <2>1, <2>3 DEF Seen
<1>6. QED
  BY <1>1, <1>2, <1>3, <1>5
  DEF Guarded, OnTheirWay, Announced, OnlyReadersHaveMail, EchoesFireNothing, Connected

LEMMA EffectGuarded == EchoesInTime /\ Guarded /\ Effect => Guarded'
<1> SUFFICES ASSUME EchoesInTime, Guarded, Effect PROVE Guarded'
  OBVIOUS
<1>1. Sound'
  BY EffectSound DEF Guarded
<1>2. /\ engine.pc = "acting" /\ engine'.pc = "acting"
      /\ engine'.trigger = engine.trigger
      /\ UNCHANGED inbox
  <2>1. engine \in Busy
    BY DEF Guarded, Sound, Typed, Resting, Effect
  <2>2. QED BY <2>1 DEF Effect, Busy
<1>3. OnTheirWay'
  <2>1. PICK v \in Verb : \E s \in Seq({c \in Coming : c.age = 0 /\ c.lag = Lag[v]}) :
                flight' = flight \o s
    BY EffectAnnounces DEF Guarded
  <2>2. PICK s \in Seq({c \in Coming : c.age = 0 /\ c.lag = Lag[v]}) : flight' = flight \o s
    BY <2>1
  <2>3. Lag[v] \in Nat /\ Lag[v] < Decay
    BY RulesAssumption DEF EchoesInTime
  <2>4. \A i \in 1..Len(s) : s[i].age <= s[i].lag /\ s[i].lag < Decay
    BY <2>3
  <2>5. s \in Seq(Coming) /\ flight \in Seq(Coming)
    BY DEF Guarded, Sound, Typed
  <2>6. SUFFICES ASSUME NEW i \in 1..Len(flight')
                 PROVE  flight'[i].age <= flight'[i].lag /\ flight'[i].lag < Decay
    BY <1>2 DEF OnTheirWay
  <2>7. CASE i <= Len(flight)
    <3>1. flight'[i] = flight[i] /\ i \in 1..Len(flight)
      BY <2>2, <2>5, <2>7, ConcatProperties
    <3>2. QED BY <3>1 DEF Guarded, OnTheirWay
  <2>8. CASE i > Len(flight)
    <3>1. flight'[i] = s[i - Len(flight)] /\ i - Len(flight) \in 1..Len(s)
      BY <2>2, <2>5, <2>8, ConcatProperties
    <3>2. QED BY <2>4, <3>1
  <2>9. QED BY <2>5, <2>7, <2>8
<1>4. QED
  BY <1>1, <1>2, <1>3
  DEF Guarded, Announced, OnlyReadersHaveMail, EchoesFireNothing, Connected

LEMMA ActionEndsGuarded == Guarded /\ ActionEnds => Guarded'
<1> SUFFICES ASSUME Guarded, ActionEnds PROVE Guarded'
  OBVIOUS
<1>1. Sound'
  BY ActionEndsSound DEF Guarded
<1>2. /\ engine.pc = "acting" /\ engine'.pc = "acting"
      /\ engine'.trigger = engine.trigger
      /\ UNCHANGED <<decays, inbox, flight>>
  <2>1. engine \in Busy
    BY DEF Guarded, Sound, Typed, Resting, ActionEnds
  <2>2. QED BY <2>1 DEF ActionEnds, Busy
<1>3. QED
  BY <1>1, <1>2
  DEF Guarded, OnTheirWay, Announced, OnlyReadersHaveMail, EchoesFireNothing, Connected

\* The decrement is scheduled when every echo of the rule is under way at most.
LEMMA RuleEndsGuarded == EchoesInTime /\ Guarded /\ RuleEnds => Guarded'
<1> SUFFICES ASSUME EchoesInTime, Guarded, RuleEnds PROVE Guarded'
  OBVIOUS
<1>1. Sound'
  BY RuleEndsSound DEF Guarded
<1>2. decays' = <<0>> /\ engine'.pc = "idle" /\ UNCHANGED <<inbox, flight>>
  BY ActingAlone DEF Guarded, RuleEnds
<1>3. 0 < Decay
  <2>1. "exec" \in Verb
    BY DEF Verb, Argument
  <2>2. Lag["exec"] \in Nat /\ Lag["exec"] < Decay
    BY <2>1, RulesAssumption DEF EchoesInTime
  <2>3. QED BY <2>2, Durations
<1>4. decays' # <<>> /\ decays'[1] = 0
  BY <1>2
<1>5. OnTheirWay'
  <2>1. \A i \in 1..Len(flight) : flight[i].age >= 0
    <3>1. \A i \in 1..Len(flight) : flight[i] \in Coming
      BY DEF Guarded, Sound, Typed
    <3>2. QED BY <3>1 DEF Coming
  <2>2. QED BY <1>2, <1>4, <2>1 DEF Guarded, OnTheirWay
<1>6. Announced'
  BY <1>3, <1>4 DEF Announced
<1>7. QED
  BY <1>1, <1>2, <1>5, <1>6
  DEF Guarded, OnlyReadersHaveMail, EchoesFireNothing, Connected

\* A decrement that is due finds no echo on its way and none to be read.
LEMMA DecrementGuarded == Guarded /\ Decrement => Guarded'
<1> SUFFICES ASSUME Guarded, Decrement PROVE Guarded'
  OBVIOUS
<1>1. Sound'
  BY DecrementSound DEF Guarded
<1>2. decays # <<>> /\ decays[1] = Decay /\ engine.pc # "acting"
  BY ActingAlone DEF Guarded, Decrement
<1>3. flight = <<>>
  <2>1. \A i \in 1..Len(flight) : FALSE
    <3>1. \A i \in 1..Len(flight) : flight[i] \in Coming
      BY DEF Guarded, Sound, Typed
    <3>2. QED BY <1>2, <3>1, Durations DEF Guarded, OnTheirWay, Coming
  <2>2. flight \in Seq(Coming)
    BY DEF Guarded, Sound, Typed
  <2>3. Len(flight) = 0
    BY <2>1, <2>2
  <2>4. QED BY <2>2, <2>3, EmptySeq
<1>4. \A i \in 1..Len(inbox) : inbox[i].origin # "echo"
  BY <1>2, Durations DEF Guarded, Announced
<1>5. UNCHANGED <<engine, inbox, flight>>
  BY DEF Decrement
<1>6. QED
  BY <1>1, <1>3, <1>4, <1>5
  DEF Guarded, OnTheirWay, Announced, OnlyReadersHaveMail, EchoesFireNothing, Connected

LEMMA StopGuarded == Guarded /\ Stop => Guarded'
<1> SUFFICES ASSUME Guarded, Stop PROVE Guarded'
  OBVIOUS
<1>1. Sound'
  BY StopSound DEF Guarded
<1>2. /\ engine.pc # "acting" /\ engine'.pc = "stopped"
      /\ inbox' = <<>> /\ UNCHANGED <<decays, flight>>
  BY DEF Stop
<1>3. QED
  BY <1>1, <1>2
  DEF Guarded, OnTheirWay, Announced, OnlyReadersHaveMail, EchoesFireNothing

\* Nothing is sent but to a reader, and what is sent is last.
LEMMA SendAppends ==
    ASSUME Sound, NEW e \in Seen, Send(e)
    PROVE  /\ ~Connected => inbox' = inbox
           /\ \A i \in 1..Len(inbox') :
                 (\E j \in 1..Len(inbox) : inbox'[i] = inbox[j]) \/ inbox'[i] = e
<1>1. inbox \in Seq(Seen)
  BY DEF Sound, Typed
<1>2. CASE Connected
  <2>1. inbox' = Append(inbox, e)
    BY <1>2 DEF Send
  <2>2. QED BY <1>1, <1>2, <2>1
<1>3. CASE ~Connected
  BY <1>3 DEF Send
<1>4. QED BY <1>2, <1>3

\* An echo is announced while the guard is up and no decrement is due.
LEMMA AnnounceGuarded == Guarded /\ Announce => Guarded'
<1> SUFFICES ASSUME Guarded, Announce PROVE Guarded'
  OBVIOUS
<1>1. Sound'
  BY AnnounceSound DEF Guarded
<1>2. PICK i \in 1..Len(flight), c \in Class :
          /\ Send(Event(flight[i].kind, c, "echo"))
          /\ flight' = RemoveAt(flight, i)
  BY DEF Announce
<1>3. flight[i] \in Coming /\ flight \in Seq(Coming)
  BY DEF Guarded, Sound, Typed
<1>4. Event(flight[i].kind, c, "echo") \in Seen
  BY <1>3 DEF Event, Seen, Coming
<1>5. UNCHANGED <<engine, decays>>
  BY DEF Announce
<1>6. engine.pc # "acting" => decays # <<>> /\ decays[1] < Decay
  <2>1. SUFFICES ASSUME engine.pc # "acting" PROVE decays # <<>> /\ decays[1] < Decay
    OBVIOUS
  <2>2. /\ flight[i].age <= flight[i].lag /\ flight[i].lag < Decay
        /\ decays # <<>> /\ decays[1] <= flight[i].age
    BY <2>1 DEF Guarded, OnTheirWay
  <2>3. decays[1] \in 0..Decay
    <3>1. decays \in Seq(0..Decay) /\ decays # <<>>
      BY <2>2 DEF Guarded, Sound, Typed
    <3>2. 1 \in 1..Len(decays)
      BY <3>1, EmptySeq
    <3>3. \A k \in 1..Len(decays) : decays[k] \in 0..Decay
      BY <3>1, Durations
    <3>4. QED BY <3>2, <3>3, Zenon
  <2>4. QED BY <1>3, <2>2, <2>3, Durations DEF Coming
<1>7. OnTheirWay'
  <2>1. \A k \in 1..Len(flight') : \E j \in 1..Len(flight) : flight'[k] = flight[j]
    BY <1>2, <1>3, RemovedIsSeq
  <2>2. QED BY <1>5, <2>1 DEF Guarded, OnTheirWay
<1>8. Announced'
  <2>1. \A k \in 1..Len(inbox') : engine.pc # "acting" => decays # <<>> /\ decays[1] < Decay
    BY <1>6
  <2>2. QED BY <1>5, <2>1 DEF Announced
<1>9. OnlyReadersHaveMail'
  BY <1>2, <1>4, <1>5, SendAppends DEF Guarded, OnlyReadersHaveMail, Connected
<1>10. QED
  BY <1>1, <1>5, <1>7, <1>8, <1>9 DEF Guarded, EchoesFireNothing

LEMMA UserGuarded == Guarded /\ User => Guarded'
<1> SUFFICES ASSUME Guarded, User PROVE Guarded'
  OBVIOUS
<1>1. Sound'
  BY UserSound DEF Guarded
<1>2. PICK k \in UserKinds, c \in Class : Send(Event(k, c, "user"))
  BY DEF User
<1>3. Event(k, c, "user") \in Seen /\ Event(k, c, "user").origin # "echo"
  BY DEF Event, Seen, Kind
<1>4. UNCHANGED <<engine, decays, flight>>
  BY DEF User
<1>5. Announced'
  BY <1>2, <1>3, <1>4, SendAppends DEF Guarded, Announced
<1>6. OnlyReadersHaveMail'
  BY <1>2, <1>3, <1>4, SendAppends DEF Guarded, OnlyReadersHaveMail, Connected
<1>7. QED
  BY <1>1, <1>4, <1>5, <1>6 DEF Guarded, OnTheirWay, EchoesFireNothing

\* Time makes echoes and the decrement older alike, and does not go on while
\* the engine has something to read.
LEMMA TickGuarded == Guarded /\ Tick => Guarded'
<1> SUFFICES ASSUME Guarded, Tick PROVE Guarded'
  OBVIOUS
<1>1. Sound'
  BY TickSound DEF Guarded
<1>2. /\ engine'.pc = engine.pc
      /\ engine.pc = "acting" => engine'.trigger = engine.trigger
  <2>1. CASE engine.pc = "acting"
    <3>1. engine \in Busy
      BY <2>1 DEF Guarded, Sound, Typed, Resting
    <3>2. QED BY <2>1, <3>1 DEF Tick, Busy
  <2>2. CASE engine.pc # "acting"
    BY <2>2 DEF Tick
  <2>3. QED BY <2>1, <2>2
<1>3. engine.pc # "acting" => inbox = <<>> /\ inbox' = <<>>
  <2>1. SUFFICES ASSUME engine.pc # "acting" PROVE inbox = <<>> /\ inbox' = <<>>
    OBVIOUS
  <2>2. inbox = <<>>
    BY <2>1 DEF Tick, Guarded, OnlyReadersHaveMail, Connected
  <2>3. QED BY <2>2 DEF Tick, Aged
<1>4. OnTheirWay'
  <2>1. flight' = [i \in 1..Len(flight) |-> [flight[i] EXCEPT !.age = @ + 1]]
    BY DEF Tick, Aged
  <2>2. flight \in Seq(Coming) /\ decays \in Seq(0..Decay)
    BY DEF Guarded, Sound, Typed
  <2>3. Len(flight') = Len(flight)
    BY <2>1, <2>2
  <2>4. SUFFICES ASSUME NEW i \in 1..Len(flight)
                 PROVE  /\ flight'[i].age <= flight'[i].lag
                        /\ flight'[i].lag < Decay
                        /\ engine.pc # "acting"
                              => decays' # <<>> /\ decays'[1] <= flight'[i].age
    BY <1>2, <2>3 DEF OnTheirWay
  <2>5. /\ flight[i] \in Coming
        /\ flight'[i].age = flight[i].age + 1
        /\ flight'[i].lag = flight[i].lag
    <3>1. flight[i] \in Coming /\ flight'[i] = [flight[i] EXCEPT !.age = @ + 1]
      BY <2>1, <2>2
    <3>2. \A c \in Coming : /\ [c EXCEPT !.age = @ + 1].age = c.age + 1
                            /\ [c EXCEPT !.age = @ + 1].lag = c.lag
      BY DEF Coming
    <3>3. QED BY <3>1, <3>2
  <2>6. flight[i].age < flight[i].lag /\ flight[i].lag < Decay
    BY DEF Tick, Guarded, OnTheirWay
  <2>7. ASSUME engine.pc # "acting"
        PROVE  decays' # <<>> /\ decays'[1] <= flight'[i].age
    <3>1. decays # <<>> /\ decays[1] <= flight[i].age
      BY <2>7 DEF Guarded, OnTheirWay
    <3>2. decays' # <<>> /\ decays'[1] = decays[1] + 1 /\ decays[1] \in Int
      <4>1. 1 \in 1..Len(decays)
        BY <2>2, <3>1, EmptySeq
      <4>2. decays' = [k \in 1..Len(decays) |-> decays[k] + 1]
        BY DEF Tick
      <4>3. \A k \in 1..Len(decays) :
               decays'[k] = decays[k] + 1 /\ decays[k] \in 0..Decay
        BY <2>2, <4>2, Durations
      <4>4. decays'[1] = decays[1] + 1 /\ decays[1] \in 0..Decay
        BY <4>1, <4>3, Zenon
      <4>5. decays' # <<>>
        BY <4>1, <4>2
      <4>6. QED BY <4>4, <4>5
    <3>3. QED BY <2>5, <3>1, <3>2 DEF Coming
  <2>8. QED BY <2>5, <2>6, <2>7, Durations DEF Coming
<1>5. Announced'
  BY <1>2, <1>3 DEF Announced
<1>6. OnlyReadersHaveMail'
  BY <1>2, <1>3 DEF OnlyReadersHaveMail, Connected
<1>7. QED
  BY <1>1, <1>2, <1>4, <1>5, <1>6 DEF Guarded, EchoesFireNothing

LEMMA GuardedStep == EchoesInTime /\ Guarded /\ [Next]_vars => Guarded'
<1> SUFFICES ASSUME EchoesInTime, Guarded, [Next]_vars PROVE Guarded'
  OBVIOUS
<1>1. CASE UNCHANGED vars
  <2>1. Sound'
    BY <1>1, SoundStep DEF Guarded
  <2>2. QED
    BY <1>1, <2>1
    DEF vars, Guarded, OnTheirWay, Announced, OnlyReadersHaveMail, EchoesFireNothing,
        Connected
<1>2. CASE Next
  BY <1>2, CompileGuarded, DroppedGuarded, FireGuarded, EffectGuarded,
     ActionEndsGuarded, RuleEndsGuarded, DecrementGuarded, StopGuarded,
     AnnounceGuarded, UserGuarded, TickGuarded
  DEF Next, Engine
<1>3. QED BY <1>1, <1>2

\* If every echo comes sooner than the decay, no rule is ever fired by what a
\* rule has done (engine.rs ReentranceGuard, DEFAULT_DECAY_MS).
THEOREM NoRuleFeedsARule == ASSUME EchoesInTime PROVE Spec => []EchoesFireNothing
<1>1. Guarded => EchoesFireNothing
  BY DEF Guarded
<1>2. Guarded /\ [Next]_vars => Guarded'
  BY GuardedStep
<1>3. QED BY <1>1, <1>2, GuardedInit, PTL DEF Spec

-----------------------------------------------------------------------------
(* What is dropped has a cause.                                            *)

\* A list of numbers has a bound.
LEMMA ListIsBounded ==
    ASSUME NEW n \in Nat, NEW f, \A i \in 1..n : f[i] \in Nat
    PROVE  \E b \in Nat : \A i \in 1..n : f[i] <= b
<1> DEFINE Bounded(k) == \E b \in Nat : \A i \in 1..k : f[i] <= b
           Bad == {k \in 0..n : ~Bounded(k)}
<1>1. SUFFICES ASSUME Bad # {} PROVE FALSE
  <2>1. n \in 0..n
    OBVIOUS
  <2>2. QED BY <1>1, <2>1
<1>2. PICK k \in Bad : \A j \in Bad : k <= j
  <2>1. Bad \in SUBSET Nat
    OBVIOUS
  <2> HIDE DEF Bad
  <2>2. QED BY <1>1, <2>1, LeastExists
<1>3. k # 0
  <2>1. Bounded(0)
    OBVIOUS
  <2>2. QED BY <2>1
<1>4. Bounded(k - 1) /\ k \in 1..n
  <2>1. k \in 1..n /\ k - 1 \in 0..n /\ ~(k <= k - 1)
    BY <1>3
  <2>2. k - 1 \notin Bad
    <3> HIDE DEF Bad
    <3>1. QED BY <1>2, <2>1
  <2>3. QED BY <2>1, <2>2
<1> HIDE DEF Bad
<1>5. PICK b \in Nat : \A i \in 1..(k - 1) : f[i] <= b
  BY <1>4
<1>6. PICK m \in Nat : b <= m /\ f[k] <= m
  <2>1. f[k] \in Nat /\ (b <= f[k] \/ f[k] <= b)
    BY <1>4
  <2>2. QED BY <2>1
<1>7. \A i \in 1..k : f[i] <= m
  <2>1. \A i \in 1..k : i = k \/ i \in 1..(k - 1)
    BY <1>4
  <2>2. \A i \in 1..(k - 1) : f[i] \in Nat /\ f[i] <= b
    BY <1>4, <1>5
  <2>3. \A i \in 1..(k - 1) : f[i] <= m
    BY <1>6, <2>2
  <2>4. QED BY <1>6, <2>1, <2>3
<1>8. Bounded(k)
  BY <1>6, <1>7
<1>9. QED BY <1>8 DEF Bad

\* A set of natural numbers with a bound has its maximum.
LEMMA MaxIsBound ==
    ASSUME NEW S \in SUBSET Nat, NEW x \in S, NEW b \in Nat, \A y \in S : y <= b
    PROVE  Max(S) \in S /\ \A y \in S : y <= Max(S)
<1> DEFINE Bounds == {m \in Nat : \A y \in S : y <= m}
<1>1. PICK m \in Bounds : \A n \in Bounds : m <= n
  <2>1. Bounds \in SUBSET Nat /\ b \in Bounds
    OBVIOUS
  <2> HIDE DEF Bounds
  <2>2. QED BY <2>1, LeastExists
<1>2. m \in S
  <2>1. SUFFICES ASSUME m \notin S PROVE FALSE
    OBVIOUS
  <2>2. \A y \in S : y < m
    BY <2>1
  <2>3. m - 1 \in Nat /\ \A y \in S : y <= m - 1
    BY <2>2
  <2>4. QED BY <1>1, <2>3
<1>3. \A y \in S : m >= y
  OBVIOUS
<1>4. Max(S) \in S /\ \A y \in S : Max(S) >= y
  BY <1>2, <1>3 DEF Max
<1>5. QED BY <1>4

\* No rule is longer than the longest.
LEMMA LongestIsBound ==
    ASSUME rules \in Seq(Rule)
    PROVE  Longest \in Nat /\ \A i \in 1..Len(rules) : Len(rules[i].do) <= Longest
<1> DEFINE S == {Len(rules[i].do) : i \in 1..Len(rules)} \union {0}
           f == [i \in 1..Len(rules) |-> Len(rules[i].do)]
<1>1. Len(rules) \in Nat /\ \A i \in 1..Len(rules) : f[i] \in Nat /\ f[i] = Len(rules[i].do)
  BY DEF Rule
<1>2. S \subseteq Nat /\ 0 \in S
  BY <1>1
<1>3. \A y \in S : y = 0 \/ \E i \in 1..Len(rules) : y = f[i]
  BY <1>1
<1> HIDE DEF f
<1>4. PICK b \in Nat : \A i \in 1..Len(rules) : f[i] <= b
  BY <1>1, ListIsBounded
<1>5. \A y \in S : y <= b
  BY <1>3, <1>4
<1>6. \A i \in 1..Len(rules) : Len(rules[i].do) \in S
  OBVIOUS
<1>7. Longest = Max(S)
  BY DEF Longest
<1> HIDE DEF S
<1>8. Max(S) \in S /\ \A y \in S : y <= Max(S)
  BY <1>2, <1>5, MaxIsBound
<1>9. QED BY <1>2, <1>6, <1>7, <1>8

\* A rule has been running since it fired, and for no longer than its actions
\* so far may take.
Running ==
    engine.pc = "acting" =>
        /\ engine.age <= ActionTime /\ engine.step <= Len(Actions) + 1
        /\ last.fired <= (engine.step - 1) * ActionTime + engine.age

\* No event that waits is older than the last firing, and while no decrement
\* is new all of them were caused just now; the decrement is as old as the end
\* of its rule.
Waiting ==
    /\ \A i \in 1..Len(inbox) : inbox[i].age <= last.fired
    /\ engine.pc = "idle" =>
          /\ decays = <<>> \/ decays[1] > 0 => \A i \in 1..Len(inbox) : inbox[i].age = 0
          /\ decays # <<>> => last.over = decays[1]

Paced ==
    /\ Sound /\ OnlyReadersHaveMail
    /\ last \in [fired : Nat, over : Nat]
    /\ engine.pc = "new" => decays = <<>>
    /\ Running /\ Waiting

\* When one more action ends, a rule has not run for longer than its actions take.
LEMMA OneMoreAction ==
    ASSUME NEW s \in Nat, NEW a \in Nat, NEW t \in Nat, NEW f \in Nat,
           f <= (s - 1) * a + t, t <= a
    PROVE  \A next \in Nat, now \in Nat :
               next = s + 1 /\ now = 0 => f <= (next - 1) * a + now
<1> DEFINE x == (s - 1) * a
<1>1. x \in Int /\ s * a = x + a
  OBVIOUS
<1> HIDE DEF x
<1>2. f <= x + t
  BY DEF x
<1>3. f <= x + a
  BY <1>1, <1>2
<1>4. f <= s * a /\ s * a \in Int
  BY <1>1, <1>3
<1>5. \A next \in Nat : next = s + 1 => next - 1 = s
  OBVIOUS
<1>6. QED BY <1>4, <1>5

\* How long ago is long ago.
LEMMA LongAgoTyped ==
    ASSUME rules \in Seq(Rule)
    PROVE  /\ LongAgo \in Nat /\ Decay < LongAgo
           /\ \A i \in 1..Len(rules), n \in Nat :
                 n <= Len(rules[i].do) => n * ActionTime < LongAgo
<1>1. Longest \in Nat /\ ActionTime \in Nat /\ Decay \in Nat
  BY LongestIsBound, Durations
<1> DEFINE most == ActionTime * Longest
<1>2. most \in Nat
  BY <1>1
<1>3. LongAgo = Decay + most + 1
  BY DEF LongAgo
<1>4. ASSUME NEW i \in 1..Len(rules), NEW n \in Nat, n <= Len(rules[i].do)
      PROVE  n * ActionTime <= most /\ n * ActionTime \in Nat
  <2>1. Len(rules[i].do) \in Nat /\ Len(rules[i].do) <= Longest
    BY LongestIsBound DEF Rule
  <2>2. n <= Longest
    BY <1>1, <1>4, <2>1
  <2>3. \A p, q, r \in Nat : p <= q => p * r <= r * q
    OBVIOUS
  <2>4. QED BY <1>1, <2>2, <2>3
<1> HIDE DEF most
<1>5. QED BY <1>1, <1>2, <1>3, <1>4

LEMMA PacedInit == Init => Paced
<1> SUFFICES ASSUME Init PROVE Paced
  OBVIOUS
<1>1. Sound
  BY SoundInit
<1>2. inbox = <<>> /\ decays = <<>> /\ engine.pc = "new"
  BY DEF Init
<1>3. LongAgo \in Nat
  BY <1>1, LongAgoTyped DEF Sound, Typed
<1>4. last \in [fired : Nat, over : Nat]
  BY <1>3 DEF Init
<1>5. QED
  BY <1>1, <1>2, <1>4 DEF Paced, OnlyReadersHaveMail, Running, Waiting

\* Compiling finds no event, dropping one leaves the others.
LEMMA CompileOrDropPaced == Paced /\ (Compile \/ Inhibited \/ Unmatched) => Paced'
<1> SUFFICES ASSUME Paced, Compile \/ Inhibited \/ Unmatched PROVE Paced'
  OBVIOUS
<1>1. Sound' /\ UNCHANGED <<rules, decays, last>>
  BY CompileSound, DroppedSound DEF Paced, Compile, Inhibited, Unmatched, Read
<1>2. CASE Compile
  <2>1. /\ engine.pc = "new" /\ engine'.pc \in {"failed", "empty", "idle"}
        /\ inbox' = <<>> /\ decays' = <<>>
    BY <1>1, <1>2 DEF Compile, Paced, OnlyReadersHaveMail, Connected
  <2>2. QED BY <1>1, <2>1 DEF Paced, OnlyReadersHaveMail, Running, Waiting
<1>3. CASE Inhibited \/ Unmatched
  <2>1. Read /\ engine.pc = "idle" /\ engine' = engine
    BY <1>3 DEF Inhibited, Unmatched, Read
  <2>2. \A i \in 1..Len(inbox') : \E j \in 1..Len(inbox) : inbox'[i] = inbox[j]
    BY <2>1, ReadLeaves DEF Paced
  <2>3. Waiting' /\ Running' /\ OnlyReadersHaveMail'
    BY <1>1, <2>1, <2>2 DEF Paced, Waiting, Running, OnlyReadersHaveMail, Connected
  <2>4. QED BY <1>1, <2>1, <2>3 DEF Paced
<1>4. QED BY <1>2, <1>3

\* When a rule fires the other events that wait were caused just now.
LEMMA FirePaced == Paced /\ Fire => Paced'
<1> SUFFICES ASSUME Paced, Fire PROVE Paced'
  OBVIOUS
<1>1. Sound' /\ Read /\ depth = 0 /\ engine.pc = "idle" /\ UNCHANGED <<rules, decays>>
  BY FireSound DEF Paced, Fire, Read
<1>2. /\ engine'.pc = "acting" /\ engine'.step = 1 /\ engine'.age = 0
      /\ last' = [last EXCEPT !.fired = 0]
  BY DEF Fire
<1>3. last' \in [fired : Nat, over : Nat] /\ last'.fired = 0
  BY <1>2 DEF Paced
<1>4. decays = <<>>
  BY <1>1, ActingAlone, EmptySeq DEF Paced, Sound, Typed, Counted
<1>5. \A i \in 1..Len(inbox') : inbox'[i].age = 0
  BY <1>1, <1>4, ReadLeaves DEF Paced, Waiting
<1>6. Running'
  <2>1. engine'.rule \in 1..Len(rules') /\ rules' \in Seq(Rule)
    BY <1>1, <1>2 DEF Sound, Typed, RuleChosen
  <2>2. Len(Actions') \in Nat
    BY <2>1 DEF Actions, Rule
  <2>3. QED BY <1>2, <1>3, <2>2, Durations DEF Running
<1>7. QED
  BY <1>1, <1>2, <1>3, <1>5, <1>6 DEF Paced, Waiting, OnlyReadersHaveMail, Connected

\* An effect costs no time; an action that ends leaves its time to the next.
LEMMA ActionPaced == Paced /\ (Effect \/ ActionEnds) => Paced'
<1> SUFFICES ASSUME Paced, Effect \/ ActionEnds PROVE Paced'
  OBVIOUS
<1>1. Sound' /\ UNCHANGED <<rules, decays, inbox, last>> /\ engine.pc = "acting"
  BY EffectSound, ActionEndsSound DEF Paced, Effect, ActionEnds
<1>2. engine \in Busy /\ engine.step <= Len(Actions) /\ Len(Actions) \in Nat
  <2>1. engine \in Busy /\ rules[engine.rule] \in Rule
    BY <1>1 DEF Paced, Sound, Typed, RuleChosen, Resting
  <2>2. Len(Actions) \in Nat
    BY <2>1 DEF Actions, Rule
  <2>3. engine.step <= Len(Actions)
    BY DEF Effect, ActionEnds
  <2>4. QED BY <2>1, <2>2, <2>3
<1>3. engine'.pc = "acting" /\ engine'.rule = engine.rule
  BY <1>1, <1>2 DEF Effect, ActionEnds, Busy
<1>4. Running'
  <2>1. Actions' = Actions
    BY <1>1, <1>3 DEF Actions
  <2>2. last.fired <= (engine.step - 1) * ActionTime + engine.age /\ engine.age <= ActionTime
    BY <1>1 DEF Paced, Running
  <2>3. CASE Effect
    <3>1. engine'.step = engine.step /\ engine'.age = engine.age
      BY <1>2, <2>3 DEF Effect, Busy
    <3>2. QED BY <1>1, <1>3, <2>1, <2>2, <3>1 DEF Paced, Running
  <2>4. CASE ActionEnds
    <3>1. engine'.step = engine.step + 1 /\ engine'.age = 0
      BY <1>2, <2>4 DEF ActionEnds, Busy
    <3>2. engine.step \in Nat /\ engine.age \in Nat /\ ActionTime \in Nat /\ last.fired \in Nat
      BY <1>2, Durations DEF Busy, Paced
    <3>3. engine'.step \in Nat /\ engine'.age \in Nat
      BY <3>1, <3>2
    <3>4. last.fired <= (engine'.step - 1) * ActionTime + engine'.age
      BY <2>2, <3>1, <3>2, <3>3, OneMoreAction
    <3>5. QED BY <1>1, <1>2, <1>3, <2>1, <3>1, <3>2, <3>4 DEF Running
  <2>5. QED BY <2>3, <2>4
<1>5. QED
  BY <1>1, <1>3, <1>4 DEF Paced, Waiting, OnlyReadersHaveMail, Connected

\* A decrement that is scheduled has an age.
LEMMA FirstDecrement ==
    ASSUME decays \in Seq(0..Decay), decays # <<>>
    PROVE  1 \in 1..Len(decays) /\ decays[1] \in 0..Decay
<1>1. Len(decays) \in Nat \ {0}
  BY EmptySeq
<1>2. 1 \in 1..Len(decays)
  BY <1>1
<1>3. decays[1] \in 0..Decay
  BY <1>2, ElementOfSeq
<1>4. QED BY <1>2, <1>3

\* The end of a rule and its decrement are announced to nobody else.
LEMMA RuleEndsPaced == Paced /\ RuleEnds => Paced'
<1> SUFFICES ASSUME Paced, RuleEnds PROVE Paced'
  OBVIOUS
<1>1. Sound' /\ UNCHANGED <<rules, inbox>> /\ engine.pc = "acting" /\ engine'.pc = "idle"
  BY RuleEndsSound DEF Paced, RuleEnds
<1>2. decays' = <<0>>
  BY ActingAlone DEF Paced, RuleEnds
<1>3. /\ last' \in [fired : Nat, over : Nat]
      /\ last'.over = 0 /\ last'.fired = last.fired
  BY DEF Paced, RuleEnds
<1>4. Waiting'
  BY <1>1, <1>2, <1>3 DEF Paced, Waiting
<1>5. QED
  BY <1>1, <1>3, <1>4 DEF Paced, Running, OnlyReadersHaveMail, Connected

LEMMA DecrementPaced == Decay # 0 /\ Paced /\ Decrement => Paced'
<1> SUFFICES ASSUME Decay # 0, Paced, Decrement PROVE Paced'
  OBVIOUS
<1>1. Sound' /\ UNCHANGED <<rules, engine, inbox, last>>
  BY DecrementSound DEF Paced, Decrement
<1>2. decays \in Seq(0..Decay) /\ decays # <<>> /\ decays[1] = Decay /\ decays' = Tail(decays)
  BY DEF Paced, Sound, Typed, Decrement
<1>3. decays' = <<>>
  <2>1. Len(decays) <= 1 /\ Len(decays) \in Nat \ {0}
    BY <1>2, ActingAlone, EmptySeq DEF Paced
  <2>2. decays' \in Seq(0..Decay) /\ Len(decays') = Len(decays) - 1
    BY <1>2, HeadTailProperties
  <2>3. Len(decays) = 1
    <3>1. \A n \in Nat \ {0} : n <= 1 => n = 1
      OBVIOUS
    <3>2. QED BY <2>1, <3>1
  <2>4. QED BY <2>2, <2>3, EmptySeq
<1>4. Waiting'
  BY <1>1, <1>2, <1>3, Durations DEF Paced, Waiting
<1>5. Running'
  <2>1. Actions' = Actions
    BY <1>1 DEF Actions
  <2>2. QED BY <1>1, <2>1 DEF Paced, Running
<1>6. QED
  BY <1>1, <1>3, <1>4, <1>5 DEF Paced, OnlyReadersHaveMail, Connected

LEMMA StopPaced == Paced /\ Stop => Paced'
<1> SUFFICES ASSUME Paced, Stop PROVE Paced'
  OBVIOUS
<1>1. Sound' /\ engine'.pc = "stopped" /\ inbox' = <<>> /\ UNCHANGED <<decays, last>>
  BY StopSound DEF Paced, Stop
<1>2. QED
  BY <1>1 DEF Paced, Running, Waiting, OnlyReadersHaveMail

\* An event is as young as can be when it is sent.
LEMMA SentPaced ==
    ASSUME Paced, NEW e \in Seen, e.age = 0, Send(e), Sound',
           UNCHANGED <<rules, engine, decays, last>>
    PROVE  Paced'
<1>1. inbox \in Seq(Seen)
  BY DEF Paced, Sound, Typed
<1>2. \A i \in 1..Len(inbox') :
          \/ inbox'[i].age = 0
          \/ i \in 1..Len(inbox) /\ inbox'[i] = inbox[i]
  <2>1. CASE Connected
    <3>1. inbox' = Append(inbox, e)
      BY <2>1 DEF Send
    <3>2. /\ Len(inbox') = Len(inbox) + 1 /\ Len(inbox) \in Nat
          /\ \A i \in 1..Len(inbox) : inbox'[i] = inbox[i]
          /\ inbox'[Len(inbox) + 1] = e
      BY <1>1, <3>1, AppendProperties
    <3>3. \A i \in 1..Len(inbox') : i \in 1..Len(inbox) \/ i = Len(inbox) + 1
      BY <3>2
    <3>4. QED BY <3>2, <3>3
  <2>2. CASE ~Connected
    <3>1. inbox' = inbox
      BY <2>2 DEF Send
    <3>2. QED BY <3>1
  <2>3. QED BY <2>1, <2>2
<1>3. last.fired \in Nat
  BY DEF Paced
<1>4. Waiting'
  BY <1>2, <1>3 DEF Paced, Waiting
<1>5. Running'
  <2>1. Actions' = Actions
    BY DEF Actions
  <2>2. QED BY <2>1 DEF Paced, Running
<1>6. OnlyReadersHaveMail'
  BY DEF Paced, OnlyReadersHaveMail, Connected, Send
<1>7. QED
  BY <1>4, <1>5, <1>6 DEF Paced

LEMMA MailPaced == Paced /\ (Announce \/ User) => Paced'
<1> SUFFICES ASSUME Paced, Announce \/ User PROVE Paced'
  OBVIOUS
<1>1. Sound' /\ UNCHANGED <<rules, engine, decays, last>>
  BY AnnounceSound, UserSound DEF Paced, Announce, User
<1>2. \E e \in Seen : e.age = 0 /\ Send(e)
  <2>1. CASE Announce
    <3>1. PICK i \in 1..Len(flight), c \in Class : Send(Event(flight[i].kind, c, "echo"))
      BY <2>1 DEF Announce
    <3>2. flight[i] \in Coming
      BY DEF Paced, Sound, Typed
    <3>3. /\ Event(flight[i].kind, c, "echo") \in Seen
          /\ Event(flight[i].kind, c, "echo").age = 0
      BY <3>2 DEF Event, Seen, Coming
    <3>4. QED BY <3>1, <3>3
  <2>2. CASE User
    <3>1. PICK k \in UserKinds, c \in Class : Send(Event(k, c, "user"))
      BY <2>2 DEF User
    <3>2. Event(k, c, "user") \in Seen /\ Event(k, c, "user").age = 0
      BY DEF Event, Seen, Kind
    <3>3. QED BY <3>1, <3>2
  <2>3. QED BY <2>1, <2>2
<1>3. QED BY <1>1, <1>2, SentPaced

\* Time goes on for the events that wait as for the rule that keeps them
\* waiting: that rule fired too recently for its time to be cut off.
LEMMA TickPaced == Paced /\ Tick => Paced'
<1> SUFFICES ASSUME Paced, Tick PROVE Paced'
  OBVIOUS
<1>1. Sound' /\ UNCHANGED rules
  BY TickSound DEF Paced, Tick
<1>2. LongAgo \in Nat /\ Decay < LongAgo
  BY LongAgoTyped DEF Paced, Sound, Typed
<1>3. LongAgo' = LongAgo
  BY <1>1 DEF LongAgo, Longest
<1>4. /\ last' = [last EXCEPT !.fired = Older(@), !.over = Older(@)]
      /\ last \in [fired : Nat, over : Nat]
  BY DEF Paced, Tick
<1>5. /\ last' \in [fired : Nat, over : Nat]
      /\ last'.fired = Older(last.fired) /\ last'.over = Older(last.over)
  <2>1. Older(last.fired) \in Nat /\ Older(last.over) \in Nat
    BY <1>4 DEF Older
  <2>2. QED BY <1>4, <2>1
<1>6. CASE engine.pc = "acting"
  <2>1. engine \in Busy /\ engine.rule \in 1..Len(rules) /\ rules[engine.rule] \in Rule
    BY <1>6 DEF Paced, Sound, Typed, RuleChosen, Resting
  <2>2. /\ engine' = [engine EXCEPT !.age = @ + 1] /\ engine.age < ActionTime
        /\ engine.step <= Len(Actions) /\ inbox' = Aged(inbox)
    BY <1>6 DEF Tick
  <2>3. /\ engine'.pc = "acting" /\ engine'.rule = engine.rule
        /\ engine'.step = engine.step /\ engine'.age = engine.age + 1
    BY <1>6, <2>1, <2>2 DEF Busy
  <2>4. Actions' = Actions
    BY <1>1, <2>3 DEF Actions
  <2>5. /\ engine.step \in Nat \ {0} /\ engine.age \in Nat /\ ActionTime \in Nat
        /\ last.fired <= (engine.step - 1) * ActionTime + engine.age
    BY <1>6, <2>1, Durations DEF Busy, Paced, Running
  <2>6. last.fired < LongAgo
    <3>1. engine.step * ActionTime < LongAgo
      BY <2>1, <2>2, <2>5, LongAgoTyped DEF Actions, Paced, Sound, Typed
    <3>2. /\ engine.step * ActionTime = (engine.step - 1) * ActionTime + ActionTime
          /\ (engine.step - 1) * ActionTime \in Int /\ engine.step * ActionTime \in Int
      BY <2>5
    <3> DEFINE x == (engine.step - 1) * ActionTime
               y == engine.step * ActionTime
    <3>3. y < LongAgo /\ y = x + ActionTime /\ x \in Int /\ last.fired <= x + engine.age
      BY <2>5, <3>1, <3>2
    <3> HIDE DEF x, y
    <3>4. QED BY <1>2, <1>4, <2>2, <2>5, <3>3
  <2>7. last'.fired = last.fired + 1
    BY <1>5, <2>6 DEF Older
  <2>8. Running'
    <3> DEFINE x == (engine.step - 1) * ActionTime
    <3>1. x \in Int /\ last.fired <= x + engine.age
      BY <2>5
    <3>2. (engine'.step - 1) * ActionTime = x
      BY <2>3
    <3> HIDE DEF x
    <3>3. last'.fired <= x + engine'.age
      BY <1>4, <2>3, <2>5, <2>7, <3>1
    <3>4. last'.fired <= (engine'.step - 1) * ActionTime' + engine'.age
      BY <3>2, <3>3
    <3>5. QED BY <2>2, <2>3, <2>4, <2>5, <3>4 DEF Paced, Running
  <2>9. \A i \in 1..Len(inbox') : inbox'[i].age <= last'.fired
    <3>1. inbox \in Seq(Seen) /\ \A i \in 1..Len(inbox) : inbox[i].age <= last.fired
      BY DEF Paced, Sound, Typed, Waiting
    <3>2. /\ Len(inbox) \in Nat
          /\ inbox' = [i \in 1..Len(inbox) |-> [inbox[i] EXCEPT !.age = @ + 1]]
      BY <2>2, <3>1 DEF Aged
    <3>3. Len(inbox') = Len(inbox)
      BY <3>2
    <3>4. \A i \in 1..Len(inbox) : inbox'[i].age = inbox[i].age + 1 /\ inbox[i].age \in Nat
      <4>1. ASSUME NEW e \in Seen
            PROVE  [e EXCEPT !.age = @ + 1].age = e.age + 1 /\ e.age \in Nat
        BY DEF Seen
      <4>2. \A i \in 1..Len(inbox) : inbox[i] \in Seen
        BY <3>1
      <4>3. QED BY <3>2, <4>1, <4>2
    <3>5. QED BY <1>4, <2>7, <3>1, <3>3, <3>4
  <2>10. QED
    BY <1>1, <1>5, <1>6, <2>3, <2>8, <2>9 DEF Paced, Waiting, OnlyReadersHaveMail, Connected
<1>7. CASE engine.pc # "acting"
  <2>1. engine' = engine /\ inbox = <<>>
    BY <1>7 DEF Tick, Paced, OnlyReadersHaveMail, Connected
  <2>2. inbox' = <<>>
    BY <2>1 DEF Tick, Aged
  <2>3. decays' = [i \in 1..Len(decays) |-> decays[i] + 1] /\ decays \in Seq(0..Decay)
    BY DEF Tick, Paced, Sound, Typed
  <2>4. decays = <<>> <=> decays' = <<>>
    BY <2>3
  <2>5. decays # <<>> => decays'[1] = decays[1] + 1 /\ decays[1] \in Nat /\ decays[1] < Decay
    <3> SUFFICES ASSUME decays # <<>>
                 PROVE  decays'[1] = decays[1] + 1 /\ decays[1] \in Nat /\ decays[1] < Decay
      OBVIOUS
    <3>1. 1 \in 1..Len(decays) /\ decays[1] \in 0..Decay
      BY <2>3, FirstDecrement
    <3>2. decays[1] < Decay
      BY <3>1 DEF Tick
    <3>3. QED BY <2>3, <3>1, <3>2, Durations
  <2>6. engine.pc = "idle" /\ decays # <<>> => last'.over = decays'[1]
    BY <1>2, <1>5, <2>5, Durations DEF Paced, Waiting, Older
  <2>7. QED
    BY <1>1, <1>5, <1>7, <2>1, <2>2, <2>4, <2>6
    DEF Paced, Waiting, Running, OnlyReadersHaveMail
<1>8. QED BY <1>6, <1>7

LEMMA PacedStep == Decay # 0 /\ Paced /\ [Next]_vars => Paced'
<1> SUFFICES ASSUME Decay # 0, Paced, [Next]_vars PROVE Paced'
  OBVIOUS
<1>1. CASE UNCHANGED vars
  <2>1. UNCHANGED <<rules, engine, depth, decays, inbox, flight, last>> /\ Sound'
    BY <1>1, SoundStep DEF Paced, vars
  <2>2. Actions' = Actions
    BY <2>1 DEF Actions
  <2>3. QED
    BY <2>1, <2>2 DEF Paced, Running, Waiting, OnlyReadersHaveMail, Connected
<1>2. CASE Next
  BY <1>2, CompileOrDropPaced, FirePaced, ActionPaced, RuleEndsPaced, DecrementPaced,
     StopPaced, MailPaced, TickPaced
  DEF Next, Engine
<1>3. QED BY <1>1, <1>2

\* With a decay that takes time, the guard swallows an event only on account
\* of a rule that fired no later than the event was caused and that is over
\* for no longer than the decay (engine.rs handle_event, BumpGuard).
THEOREM NothingElseIsDropped == ASSUME Decay # 0 PROVE Spec => DropsHaveACause
<1>1. Paced /\ depth > 0 /\ engine.pc = "idle" /\ inbox # <<>>
        => Head(inbox).age <= last.fired /\ last.over <= Decay
  <2> SUFFICES ASSUME Paced, depth > 0, engine.pc = "idle", inbox # <<>>
               PROVE  Head(inbox).age <= last.fired /\ last.over <= Decay
    OBVIOUS
  <2>1. inbox \in Seq(Seen) /\ decays \in Seq(0..Decay)
    BY DEF Paced, Sound, Typed
  <2>2. Head(inbox) = inbox[1] /\ 1 \in 1..Len(inbox)
    BY <2>1
  <2>3. Len(decays) = 1
    BY ActingAlone DEF Paced
  <2>4. decays # <<>> /\ decays[1] <= Decay
    <3>1. decays # <<>>
      BY <2>3
    <3>2. QED BY <2>1, <3>1, FirstDecrement, Durations
  <2>5. QED BY <2>2, <2>4 DEF Paced, Waiting
<1>2. Paced /\ [Next]_vars => Paced'
  BY PacedStep
<1>3. QED BY <1>1, <1>2, PacedInit, PTL DEF Spec, DropsHaveACause
=============================================================================
