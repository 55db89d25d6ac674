-------------------------- MODULE AgentSurfaceProofs --------------------------
(***************************************************************************)
(* Proofs about the parts of AgentSurface, each for any values of its      *)
(* constants: the calls of an agent, its chords, its snapshot files, the   *)
(* text it looks for, the names it uses.  The parts share no state, so     *)
(* each has an invariant of its own, which the steps of the others leave   *)
(* alone.                                                                  *)
(***************************************************************************)
EXTENDS AgentSurface, SequenceLemmas, SequenceTheorems, TLAPS

-----------------------------------------------------------------------------
(* Calls.                                                                  *)

\* The registry, group by group.
LEMMA Registered ==
  /\ \A t \in QueryTools : t \in Tools /\ Registry[t] = Def("read", FALSE)
  /\ \A t \in WindowTools : t \in Tools /\ Registry[t] = Def("window", TRUE)
  /\ \A t \in WorkspaceTools : t \in Tools /\ Registry[t] = Def("workspace", TRUE)
  /\ \A t \in ClosingTools : t \in Tools /\ Registry[t] = Def("destructive", TRUE)
  /\ \A t \in ProcessTools : t \in Tools /\ Registry[t] = Def("process", TRUE)
  /\ \A t \in UndoTools : t \in Tools /\ Registry[t] = Def("undo", t = "undo")
  /\ \A t \in SnapshotTools : t \in Tools /\ Registry[t] = Def("snapshot", t \notin {"snapshot_list", "snapshot_diff"})
  /\ \A t \in RulesTools : t \in Tools /\ Registry[t] = Def("rules", FALSE)
  /\ \A t \in InputTools \union {"click_text", "a11y_click"} : t \in Tools /\ Registry[t] = Def("input", TRUE)
  /\ \A t \in VisionTools \ {"click_text"} : t \in Tools /\ Registry[t] = Def("vision", FALSE)
  /\ \A t \in AccessTools \ {"a11y_click"} : t \in Tools /\ Registry[t] = Def("a11y", FALSE)
  /\ \A t \in BindTools : t \in Tools /\ Registry[t] = Def("binds", TRUE)
<1>1. ASSUME NEW t \in QueryTools PROVE t \in Tools /\ Registry[t] = Def("read", FALSE)
  <2>1. t \in Tools
    BY DEF Tools, QueryTools
  <2>2. QED
    BY <2>1 DEF Registry, QueryTools, WindowTools, WorkspaceTools, ClosingTools, ProcessTools,
           UndoTools, SnapshotTools, RulesTools, InputTools, VisionTools, AccessTools, BindTools
<1>2. ASSUME NEW t \in WindowTools PROVE t \in Tools /\ Registry[t] = Def("window", TRUE)
  <2>1. t \in Tools
    BY DEF Tools, WindowTools
  <2>2. QED
    BY <2>1 DEF Registry, QueryTools, WindowTools, WorkspaceTools, ClosingTools, ProcessTools,
           UndoTools, SnapshotTools, RulesTools, InputTools, VisionTools, AccessTools, BindTools
<1>3. ASSUME NEW t \in WorkspaceTools PROVE t \in Tools /\ Registry[t] = Def("workspace", TRUE)
  <2>1. t \in Tools
    BY DEF Tools, WorkspaceTools
  <2>2. QED
    BY <2>1 DEF Registry, QueryTools, WindowTools, WorkspaceTools, ClosingTools, ProcessTools,
           UndoTools, SnapshotTools, RulesTools, InputTools, VisionTools, AccessTools, BindTools
<1>4. ASSUME NEW t \in ClosingTools PROVE t \in Tools /\ Registry[t] = Def("destructive", TRUE)
  <2>1. t \in Tools
    BY DEF Tools, ClosingTools
  <2>2. QED
    BY <2>1 DEF Registry, QueryTools, WindowTools, WorkspaceTools, ClosingTools, ProcessTools,
           UndoTools, SnapshotTools, RulesTools, InputTools, VisionTools, AccessTools, BindTools
<1>5. ASSUME NEW t \in ProcessTools PROVE t \in Tools /\ Registry[t] = Def("process", TRUE)
  <2>1. t \in Tools
    BY DEF Tools, ProcessTools
  <2>2. QED
    BY <2>1 DEF Registry, QueryTools, WindowTools, WorkspaceTools, ClosingTools, ProcessTools,
           UndoTools, SnapshotTools, RulesTools, InputTools, VisionTools, AccessTools, BindTools
<1>6. ASSUME NEW t \in UndoTools PROVE t \in Tools /\ Registry[t] = Def("undo", t = "undo")
  <2>1. t \in Tools
    BY DEF Tools, UndoTools
  <2>2. QED
    BY <2>1 DEF Registry, QueryTools, WindowTools, WorkspaceTools, ClosingTools, ProcessTools,
           UndoTools, SnapshotTools, RulesTools, InputTools, VisionTools, AccessTools, BindTools
<1>7. ASSUME NEW t \in SnapshotTools PROVE t \in Tools /\ Registry[t] = Def("snapshot", t \notin {"snapshot_list", "snapshot_diff"})
  <2>1. t \in Tools
    BY DEF Tools, SnapshotTools
  <2>2. QED
    BY <2>1 DEF Registry, QueryTools, WindowTools, WorkspaceTools, ClosingTools, ProcessTools,
           UndoTools, SnapshotTools, RulesTools, InputTools, VisionTools, AccessTools, BindTools
<1>8. ASSUME NEW t \in RulesTools PROVE t \in Tools /\ Registry[t] = Def("rules", FALSE)
  <2>1. t \in Tools
    BY DEF Tools, RulesTools
  <2>2. QED
    BY <2>1 DEF Registry, QueryTools, WindowTools, WorkspaceTools, ClosingTools, ProcessTools,
           UndoTools, SnapshotTools, RulesTools, InputTools, VisionTools, AccessTools, BindTools
<1>9. ASSUME NEW t \in InputTools \union {"click_text", "a11y_click"} PROVE t \in Tools /\ Registry[t] = Def("input", TRUE)
  <2>1. t \in Tools
    BY DEF Tools, InputTools, VisionTools, AccessTools
  <2>2. QED
    BY <2>1 DEF Registry, QueryTools, WindowTools, WorkspaceTools, ClosingTools, ProcessTools,
           UndoTools, SnapshotTools, RulesTools, InputTools, VisionTools, AccessTools, BindTools
<1>10. ASSUME NEW t \in VisionTools \ {"click_text"} PROVE t \in Tools /\ Registry[t] = Def("vision", FALSE)
  <2>1. t \in Tools
    BY DEF Tools, VisionTools
  <2>2. QED
    BY <2>1 DEF Registry, QueryTools, WindowTools, WorkspaceTools, ClosingTools, ProcessTools,
           UndoTools, SnapshotTools, RulesTools, InputTools, VisionTools, AccessTools, BindTools
<1>11. ASSUME NEW t \in AccessTools \ {"a11y_click"} PROVE t \in Tools /\ Registry[t] = Def("a11y", FALSE)
  <2>1. t \in Tools
    BY DEF Tools, AccessTools
  <2>2. QED
    BY <2>1 DEF Registry, QueryTools, WindowTools, WorkspaceTools, ClosingTools, ProcessTools,
           UndoTools, SnapshotTools, RulesTools, InputTools, VisionTools, AccessTools, BindTools
<1>12. ASSUME NEW t \in BindTools PROVE t \in Tools /\ Registry[t] = Def("binds", TRUE)
  <2>1. t \in Tools
    BY DEF Tools, BindTools
  <2>2. QED
    BY <2>1 DEF Registry, QueryTools, WindowTools, WorkspaceTools, ClosingTools, ProcessTools,
           UndoTools, SnapshotTools, RulesTools, InputTools, VisionTools, AccessTools, BindTools
<1>13. QED
  BY <1>1, <1>2, <1>3, <1>4, <1>5, <1>6, <1>7, <1>8, <1>9, <1>10, <1>11, <1>12

\* What a call may bring about: what its group is for, or the program a close
\* has ended.
Fits(tool, args, e) ==
    /\ \/ e \in Contract[Registry[tool].group]
       \/ tool = "undo" /\ e = "spawn" /\ Newest = "close"
    /\ e \in Changes => /\ Registry[tool].mutating
                        /\ tool \in TakesDryRun => args.dry = "false"

\* ... and it brings about nothing else, whatever its arguments are.
LEMMA BringsWhatItMay ==
  ASSUME NEW tool \in Tools, NEW args, NEW e \in Brings(tool, args)
  PROVE  Fits(tool, args, e)
<1> USE Registered
        DEF Def, Fits, Contract, Changes, Brings, Requests, ForwardOrPreview, Forward, Preview,
            Looks, DryRun, Does, WindowTools, WorkspaceTools, ClosingTools, InputTools,
            VisionTools, AccessTools, SnapshotTools
<1>1. CASE tool \in QueryTools
  BY <1>1 DEF QueryTools
<1>2. CASE tool \in WindowTools
  BY <1>2
<1>3. CASE tool \in WorkspaceTools
  BY <1>3
<1>4. CASE tool \in ClosingTools
  BY <1>4
<1>5. CASE tool \in ProcessTools
  BY <1>5 DEF ProcessTools
<1>6. CASE tool \in UndoTools
  <2>1. CASE tool = "undo_list"
    BY <1>6, <2>1
  <2>2. CASE tool = "undo"
    <3>1. Looks(tool) = {} /\ Requests(tool, args) \subseteq {"undo"}
      BY <2>2
    <3>2. e \in Does("undo", args, Newest, open)
      BY <3>1
    <3>3. /\ e \in {"spawn", "workspace", "focus"}
          /\ e = "spawn" => Newest = "close"
      BY <3>2
    <3>4. tool \in TakesDryRun => args.dry = "false"
      BY <2>2, <3>1, <3>2
    <3>5. Registry[tool] = Def("undo", TRUE)
      BY <1>6, <2>2
    <3>6. QED BY <2>2, <3>3, <3>4, <3>5
  <2>3. QED BY <1>6, <2>1, <2>2 DEF UndoTools
<1>7. CASE tool \in RulesTools
  BY <1>7 DEF RulesTools
<1>8. CASE tool \in InputTools
  <2>1. Looks(tool) = {} /\ Requests(tool, args) \subseteq {tool}
    BY <1>8 DEF InputRequests
  <2>2. e \in Does(tool, args, Newest, open)
    BY <2>1
  <2>3. e = "input"
    BY <1>8, <2>2
  <2>4. tool \in TakesDryRun => args.dry = "false"
    BY <1>8, <2>1, <2>2 DEF InputRequests
  <2>5. QED BY <1>8, <2>3, <2>4
<1>9. CASE tool \in BindTools
  BY <1>9 DEF BindTools
<1>10. CASE tool \in SnapshotTools
  <2>1. /\ Looks(tool) = {}
        /\ Requests(tool, args) = SnapshotRequests(tool, args)
    BY <1>10
  <2>2. Registry[tool] = Def("snapshot", tool \notin {"snapshot_list", "snapshot_diff"})
    BY <1>10
  <2>3. CASE tool \in {"snapshot_save", "snapshot_delete"}
    <3>1. e \in Does(tool, args, Newest, open)
      BY <2>1, <2>3 DEF SnapshotRequests
    <3>2. e = "file"
      BY <2>3, <3>1
    <3>3. tool \notin TakesDryRun
      BY <2>3 DEF TakesDryRun
    <3>4. (tool \notin {"snapshot_list", "snapshot_diff"}) = TRUE
      BY <2>3
    <3>5. Registry[tool] = Def("snapshot", TRUE)
      BY <2>2, <3>4
    <3>6. QED BY <2>3, <3>2, <3>3, <3>5
  <2>4. CASE tool \in {"snapshot_list", "snapshot_diff"}
    <3>1. e \in Does(tool, args, Newest, open)
      BY <2>1, <2>4 DEF SnapshotRequests
    <3>2. FALSE
      BY <2>4, <3>1
    <3>3. QED BY <3>2
  <2>5. CASE tool = "snapshot_restore"
    <3>1. Does("snapshot_preview", args, Newest, open) = {}
      OBVIOUS
    <3>2. ~DryRun(tool, args) /\ e \in Does(tool, args, Newest, open)
      BY <2>1, <2>5, <3>1 DEF SnapshotRequests
    <3>3. e \in {"file", "window", "workspace", "focus"}
      BY <2>5, <3>2
    <3>4. (tool \notin {"snapshot_list", "snapshot_diff"}) = TRUE
      BY <2>5
    <3>5. Registry[tool] = Def("snapshot", TRUE)
      BY <2>2, <3>4
    <3>6. tool \in TakesDryRun => args.dry = "false"
      BY <3>2
    <3>7. QED BY <2>5, <3>3, <3>5, <3>6
  <2>6. QED BY <1>10, <2>3, <2>4, <2>5 DEF SnapshotTools
<1>11. CASE tool \in VisionTools
  BY <1>11 DEF VisionRequests, Scope, PressAt
<1>12. CASE tool \in AccessTools
  BY <1>12 DEF AccessRequests, PressAt
<1>13. QED BY <1>1, <1>2, <1>3, <1>4, <1>5, <1>6, <1>7, <1>8, <1>9, <1>10, <1>11, <1>12 DEF Tools

\* How the MCP server may have been started.
Started == [name : {"unrestricted", "work"}, file : {"missing", "broken", "read"},
            profile : Profiles]

\* A window that was closed was closed by an agent that may, or by others.
ClosesAreGranted ==
    (\E i \in DOMAIN recorded : recorded[i] = "close") => closed \/ "destructive" \in Granted

\* The properties of calls, and why an undo may start a program again.
AgentInv ==
    /\ started \in Started
    /\ recorded \in Seq({"move", "close"})
    /\ closed \in BOOLEAN
    /\ ClosesAreGranted
    /\ PrivilegeIsGranted
    /\ OnlyAskedForChanges

\* What the profile lets an agent call is in a group the operator asked for.
LEMMA AllowedIsGranted ==
  ASSUME AgentInv, NEW tool \in Tools, Allows(ResolveProfile(started), tool)
  PROVE  Registry[tool].group \in Granted
<1>1. Registry[tool].group \in Groups
  BY DEF Groups
<1>2. CASE started.name = "unrestricted"
  BY <1>1, <1>2 DEF Granted
<1>3. CASE started.name # "unrestricted" /\ started.file # "read"
  <2>1. started.file \in {"missing", "broken"}
    BY <1>3 DEF AgentInv, Started
  <2>2. ResolveProfile(started) = DefaultSafe
    BY <1>3, <2>1 DEF ResolveProfile
  <2>3. Registry[tool].group \in DefaultSafe.allow
    BY <2>2 DEF Allows, DefaultSafe
  <2>4. QED BY <1>3, <2>3 DEF Granted
<1>4. CASE started.name # "unrestricted" /\ started.file = "read"
  <2>1. ResolveProfile(started) = started.profile
    BY <1>4 DEF ResolveProfile
  <2>2. tool \in started.profile.allow_tools \/ Registry[tool].group \in started.profile.allow
    BY <2>1 DEF Allows
  <2>3. Granted = started.profile.allow \union {Registry[t].group : t \in started.profile.allow_tools}
    BY <1>4 DEF Granted
  <2>4. QED BY <2>2, <2>3
<1>5. QED BY <1>2, <1>3, <1>4

\* No call was made, and nothing was recorded.
LEMMA AgentAtFirst == AgentInit => AgentInv
<1> SUFFICES ASSUME AgentInit PROVE AgentInv
  OBVIOUS
<1>1. started \in Started
  BY DEF AgentInit, Started
<1>2. recorded \in Seq({"move", "close"}) /\ DOMAIN recorded = {}
  BY EmptySeq DEF AgentInit
<1>3. PrivilegeIsGranted /\ OnlyAskedForChanges
  BY DEF AgentInit, NoCall, PrivilegeIsGranted, OnlyAskedForChanges
<1>4. QED BY <1>1, <1>2, <1>3 DEF AgentInit, AgentInv, ClosesAreGranted

\* The agent calls a tool.
LEMMA AgentMakesCall ==
  ASSUME AgentInv, NEW tool \in Tools, NEW args, Call(tool, args)
  PROVE  AgentInv'
<1> DEFINE requests == Requests(tool, args)
           pushed == IF tool \in requests THEN Records(tool) ELSE <<>>
           End(outcome, effects) ==
               last' = [tool |-> tool, dry |-> args.dry, outcome |-> outcome, effects |-> effects]
<1>1. UNCHANGED <<started, open, closed>> /\ Granted' = Granted
  BY DEF Call, Granted
<1>2. Len(recorded) \in Nat /\ recorded \in Seq({"move", "close"})
  BY LenProperties DEF AgentInv
<1>3. ASSUME NEW outcome, End(outcome, {}), UNCHANGED recorded
      PROVE  AgentInv'
  <2>1. last'.effects = {}
    BY <1>3
  <2>2. PrivilegeIsGranted' /\ OnlyAskedForChanges'
    BY <2>1 DEF PrivilegeIsGranted, OnlyAskedForChanges
  <2>3. QED BY <1>1, <1>3, <2>2 DEF AgentInv, ClosesAreGranted
<1>4. CASE /\ Allows(ResolveProfile(started), tool)
           /\ End("ok", Brings(tool, args))
           /\ recorded' = IF "undo" \in requests /\ recorded # <<>>
                          THEN SubSeq(recorded, 1, Len(recorded) - 1)
                          ELSE recorded \o pushed
  <2>1. Registry[tool].group \in Granted
    BY <1>4, AllowedIsGranted
  <2>2. /\ last'.effects = Brings(tool, args) /\ last'.tool = tool
        /\ last'.dry = args.dry /\ last'.outcome = "ok"
    BY <1>4
  <2>3. Newest = "close" => closed \/ "destructive" \in Granted
    <3>1. ASSUME recorded # <<>> PROVE Len(recorded) \in DOMAIN recorded
      BY <1>2, <3>1, EmptySeq, LenProperties
    <3>2. QED BY <3>1 DEF Newest, AgentInv, ClosesAreGranted
  <2>4. \A e \in Brings(tool, args) : Fits(tool, args, e)
    BY BringsWhatItMay
  <2>5. PrivilegeIsGranted'
    <3> SUFFICES ASSUME NEW e \in last'.effects
                 PROVE  \/ \E g \in Granted : e \in Contract[g]
                        \/ /\ last'.tool = "undo" /\ e = "spawn"
                           /\ closed \/ "destructive" \in Granted
      BY <1>1 DEF PrivilegeIsGranted
    <3>1. Fits(tool, args, e)
      BY <2>2, <2>4
    <3>2. QED BY <2>1, <2>2, <2>3, <3>1 DEF Fits
  <2>6. OnlyAskedForChanges'
    <3> SUFFICES ASSUME NEW e \in last'.effects \intersect Changes
                 PROVE  /\ last'.outcome = "ok"
                        /\ Registry[last'.tool].mutating
                        /\ last'.tool \in TakesDryRun => last'.dry = "false"
      BY DEF OnlyAskedForChanges
    <3>1. Fits(tool, args, e)
      BY <2>2, <2>4
    <3>2. QED BY <2>2, <3>1 DEF Fits
  <2>7. /\ pushed \in Seq({"move", "close"})
        /\ (\E i \in DOMAIN pushed : pushed[i] = "close") => "destructive" \in Granted
    <3>1. /\ <<>> \in Seq({"move", "close"})
          /\ <<"move">> \in Seq({"move", "close"}) /\ DOMAIN <<"move">> = {1}
          /\ <<"close">> \in Seq({"move", "close"})
      OBVIOUS
    <3>2. CASE tool \in ClosingTools
      <4>1. "destructive" \in Granted
        BY <2>1, <3>2, Registered DEF Def
      <4>2. pushed = <<>> \/ pushed = <<"close">>
        BY <3>2 DEF Records, ClosingTools
      <4>3. QED BY <3>1, <4>1, <4>2
    <3>3. CASE tool \notin ClosingTools
      <4>1. pushed = <<>> \/ pushed = <<"move">>
        BY <3>3 DEF Records
      <4> HIDE DEF pushed
      <4>2. CASE pushed = <<>>
        BY <3>1, <4>2
      <4>3. CASE pushed = <<"move">>
        BY <3>1, <4>3
      <4>4. QED BY <4>1, <4>2, <4>3
    <3>4. QED BY <3>2, <3>3
  <2>8. recorded' \in Seq({"move", "close"}) /\ ClosesAreGranted'
    <3> HIDE DEF pushed
    <3>1. CASE "undo" \in requests /\ recorded # <<>>
      <4> DEFINE n == Len(recorded) - 1
      <4>1. recorded' = SubSeq(recorded, 1, n) /\ n \in Nat
        BY <1>2, <1>4, <3>1, EmptySeq
      <4>2. \A i \in 1..n : i \in DOMAIN recorded /\ recorded[i] \in {"move", "close"}
        BY <1>2, <4>1, LenProperties, ElementOfSeq
      <4>3. /\ recorded' \in Seq({"move", "close"}) /\ Len(recorded') = n
            /\ \A i \in 1..n : recorded'[i] = recorded[i]
        <5>1. /\ SubSeq(recorded, 1, n) \in Seq({"move", "close"})
              /\ Len(SubSeq(recorded, 1, n)) = IF 1 <= n THEN n - 1 + 1 ELSE 0
              /\ \A i \in 1..n - 1 + 1 : SubSeq(recorded, 1, n)[i] = recorded[1 + i - 1]
          <6>1. 1 \in Int /\ n \in Int
            BY <4>1
          <6> HIDE DEF n
          <6>2. QED BY <6>1, <4>2, SubSeqProperties
        <5>2. n - 1 + 1 = n /\ \A i \in 1..n : 1 + i - 1 = i
          BY <4>1
        <5>3. QED BY <4>1, <5>1, <5>2
      <4>4. \A i \in DOMAIN recorded' : i \in DOMAIN recorded /\ recorded'[i] = recorded[i]
        BY <4>2, <4>3, LenProperties
      <4>5. QED BY <1>1, <4>3, <4>4 DEF AgentInv, ClosesAreGranted
    <3>2. CASE ~("undo" \in requests /\ recorded # <<>>)
      <4>1. recorded' = recorded \o pushed
        BY <1>4, <3>2
      <4>2. recorded' \in Seq({"move", "close"}) /\ Range(recorded') = Range(recorded) \union Range(pushed)
        BY <1>2, <2>7, <4>1, ConcatProperties, RangeConcatenation
      <4>3. \A i \in DOMAIN recorded' : \/ \E j \in DOMAIN recorded : recorded[j] = recorded'[i]
                                        \/ \E j \in DOMAIN pushed : pushed[j] = recorded'[i]
        BY <4>2 DEF Range
      <4>4. QED BY <1>1, <2>7, <4>2, <4>3 DEF AgentInv, ClosesAreGranted
    <3>3. QED BY <3>1, <3>2
  <2>9. QED BY <1>1, <2>5, <2>6, <2>8 DEF AgentInv
<1>5. QED BY <1>3, <1>4 DEF Call

\* Somebody else records a move or a close.
LEMMA OthersMakeCall ==
  ASSUME AgentInv, NEW what \in {"move", "close"}, OthersCall(what)
  PROVE  AgentInv'
<1>1. /\ UNCHANGED <<started, open, last>> /\ Granted' = Granted
      /\ recorded' = Append(recorded, what) /\ closed' = (closed \/ what = "close")
  BY DEF OthersCall, Granted
<1>2. recorded \in Seq({"move", "close"}) /\ Len(recorded) \in Nat
  BY LenProperties DEF AgentInv
<1>3. /\ recorded' \in Seq({"move", "close"}) /\ Len(recorded') = Len(recorded) + 1
      /\ \A i \in 1..Len(recorded) : recorded'[i] = recorded[i]
      /\ recorded'[Len(recorded) + 1] = what
  BY <1>1, <1>2, AppendProperties
<1>4. closed' \in BOOLEAN /\ (closed => closed') /\ (what = "close" => closed')
  BY <1>1
<1>5. ClosesAreGranted'
  <2> SUFFICES ASSUME NEW i \in DOMAIN recorded', recorded'[i] = "close"
               PROVE  closed' \/ "destructive" \in Granted'
    BY DEF ClosesAreGranted
  <2>1. i \in 1..Len(recorded) \/ i = Len(recorded) + 1
    BY <1>2, <1>3, LenProperties
  <2>2. CASE i = Len(recorded) + 1
    BY <1>3, <1>4, <2>2
  <2>3. CASE i \in 1..Len(recorded)
    <3>1. i \in DOMAIN recorded /\ recorded[i] = "close"
      BY <1>2, <1>3, <2>3, LenProperties
    <3>2. closed \/ "destructive" \in Granted
      BY <3>1 DEF AgentInv, ClosesAreGranted
    <3>3. QED BY <1>1, <1>4, <3>2
  <2>4. QED BY <2>1, <2>2, <2>3
<1>6. PrivilegeIsGranted' /\ OnlyAskedForChanges'
  BY <1>1, <1>4 DEF AgentInv, PrivilegeIsGranted, OnlyAskedForChanges
<1>7. QED BY <1>1, <1>3, <1>4, <1>5, <1>6 DEF AgentInv

\* The answer is read.
LEMMA AgentAnswered ==
  ASSUME AgentInv, Answered
  PROVE  AgentInv'
<1>1. UNCHANGED <<started, open, recorded, closed>> /\ Granted' = Granted /\ last' = NoCall
  BY DEF Answered, Granted
<1>2. PrivilegeIsGranted' /\ OnlyAskedForChanges'
  BY <1>1 DEF NoCall, PrivilegeIsGranted, OnlyAskedForChanges
<1>3. QED BY <1>1, <1>2 DEF AgentInv, ClosesAreGranted

\* The steps of the other parts.
LEMMA AgentRests ==
  ASSUME AgentInv, UNCHANGED agentVars
  PROVE  AgentInv'
<1>1. UNCHANGED <<started, open, recorded, closed, last>> /\ Granted' = Granted
  BY DEF agentVars, Granted
<1>2. QED BY <1>1 DEF AgentInv, ClosesAreGranted, PrivilegeIsGranted, OnlyAskedForChanges

-----------------------------------------------------------------------------
(* Chords.                                                                 *)

\* The codes of the modifiers, which no key has.
ModCodes == {29, 42, 56, 125}

\* Each modifier has a code of its own.
LEMMA CodesOfModifiers ==
  /\ \A m \in Modifiers : ModifierCode[m] \in ModCodes
  /\ \A m, k \in Modifiers : ModifierCode[m] = ModifierCode[k] => m = k
  /\ {ModifierCode[m] : m \in Modifiers} = ModCodes
<1>1. \A m \in Modifiers : ModifierCode[m] \in ModCodes
  BY DEF Modifiers, ModifierCode, ModCodes
<1>2. \A m, k \in Modifiers : ModifierCode[m] = ModifierCode[k] => m = k
  BY DEF Modifiers, ModifierCode
<1>3. {ModifierCode[m] : m \in Modifiers} = ModCodes
  BY DEF Modifiers, ModifierCode, ModCodes
<1>4. QED BY <1>1, <1>2, <1>3

\* A row that holds no modifier's code has none among its keys.
LEMMA RowHasItsOwn ==
  ASSUME NEW first \in Nat, NEW n \in Nat, NEW keys, DOMAIN keys = 1..n,
         \A c \in ModCodes : c < first \/ c > first - 1 + n,
         NEW k \in DOMAIN Row(first, keys)
  PROVE  Row(first, keys)[k] \in Nat \ ModCodes
<1> DEFINE at == CHOOSE i \in DOMAIN keys : keys[i] = k
<1>1. at \in DOMAIN keys
  BY DEF Row, ToSet
<1>2. Row(first, keys)[k] = first - 1 + at
  BY DEF Row
<1> HIDE DEF at
<1>3. first - 1 + at \in Nat /\ first - 1 + at \in first..(first - 1 + n)
  BY <1>1
<1>4. QED BY <1>2, <1>3 DEF ModCodes

\* No key of the table has the code of a modifier.
LEMMA KeysHaveTheirOwn ==
  ASSUME NEW r \in LetterCode \union NamedCode, NEW k \in DOMAIN r
  PROVE  r[k] \in Nat \ ModCodes
<1>1. CASE r = Row(16, <<"q", "w", "e", "r", "t", "y", "u", "i", "o", "p">>)
  <2>1. DOMAIN <<"q", "w", "e", "r", "t", "y", "u", "i", "o", "p">> = 1..10
    OBVIOUS
  <2>2. \A c \in ModCodes : c < 16 \/ c > 16 - 1 + 10
    BY DEF ModCodes
  <2>3. QED BY <1>1, <2>1, <2>2, RowHasItsOwn
<1>2. CASE r = Row(30, <<"a", "s", "d", "f", "g", "h", "j", "k", "l">>)
  <2>1. DOMAIN <<"a", "s", "d", "f", "g", "h", "j", "k", "l">> = 1..9
    OBVIOUS
  <2>2. \A c \in ModCodes : c < 30 \/ c > 30 - 1 + 9
    BY DEF ModCodes
  <2>3. QED BY <1>2, <2>1, <2>2, RowHasItsOwn
<1>3. CASE r = Row(44, <<"z", "x", "c", "v", "b", "n", "m">>)
  <2>1. DOMAIN <<"z", "x", "c", "v", "b", "n", "m">> = 1..7
    OBVIOUS
  <2>2. \A c \in ModCodes : c < 44 \/ c > 44 - 1 + 7
    BY DEF ModCodes
  <2>3. QED BY <1>3, <2>1, <2>2, RowHasItsOwn
<1>4. CASE r = Row(2, <<"1", "2", "3", "4", "5", "6", "7", "8", "9", "0">>)
  <2>1. DOMAIN <<"1", "2", "3", "4", "5", "6", "7", "8", "9", "0">> = 1..10
    OBVIOUS
  <2>2. \A c \in ModCodes : c < 2 \/ c > 2 - 1 + 10
    BY DEF ModCodes
  <2>3. QED BY <1>4, <2>1, <2>2, RowHasItsOwn
<1>5. CASE r = Row(12, <<"minus", "equal", "backspace", "tab">>)
  <2>1. DOMAIN <<"minus", "equal", "backspace", "tab">> = 1..4
    OBVIOUS
  <2>2. \A c \in ModCodes : c < 12 \/ c > 12 - 1 + 4
    BY DEF ModCodes
  <2>3. QED BY <1>5, <2>1, <2>2, RowHasItsOwn
<1>6. CASE r = Row(39, <<"semicolon", "apostrophe", "grave">>)
  <2>1. DOMAIN <<"semicolon", "apostrophe", "grave">> = 1..3
    OBVIOUS
  <2>2. \A c \in ModCodes : c < 39 \/ c > 39 - 1 + 3
    BY DEF ModCodes
  <2>3. QED BY <1>6, <2>1, <2>2, RowHasItsOwn
<1>7. CASE r = Row(51, <<"comma", "period", "slash">>)
  <2>1. DOMAIN <<"comma", "period", "slash">> = 1..3
    OBVIOUS
  <2>2. \A c \in ModCodes : c < 51 \/ c > 51 - 1 + 3
    BY DEF ModCodes
  <2>3. QED BY <1>7, <2>1, <2>2, RowHasItsOwn
<1>8. CASE r = Row(59, <<"f1", "f2", "f3", "f4", "f5", "f6", "f7", "f8", "f9", "f10">>)
  <2>1. DOMAIN <<"f1", "f2", "f3", "f4", "f5", "f6", "f7", "f8", "f9", "f10">> = 1..10
    OBVIOUS
  <2>2. \A c \in ModCodes : c < 59 \/ c > 59 - 1 + 10
    BY DEF ModCodes
  <2>3. QED BY <1>8, <2>1, <2>2, RowHasItsOwn
<1>9. CASE r = Row(87, <<"f11", "f12">>)
  <2>1. DOMAIN <<"f11", "f12">> = 1..2
    OBVIOUS
  <2>2. \A c \in ModCodes : c < 87 \/ c > 87 - 1 + 2
    BY DEF ModCodes
  <2>3. QED BY <1>9, <2>1, <2>2, RowHasItsOwn
<1>10. CASE r = Row(102, <<"home", "up", "page_up", "left", "right", "end", "down", "page_down", "insert", "delete">>)
  <2>1. DOMAIN <<"home", "up", "page_up", "left", "right", "end", "down", "page_down", "insert", "delete">> = 1..10
    OBVIOUS
  <2>2. \A c \in ModCodes : c < 102 \/ c > 102 - 1 + 10
    BY DEF ModCodes
  <2>3. QED BY <1>10, <2>1, <2>2, RowHasItsOwn
<1>11. CASE r = [return |-> 28, space |-> 57, escape |-> 1, bracketleft |-> 26,
                bracketright |-> 27, backslash |-> 43]
  BY <1>11 DEF ModCodes
<1>12. QED
  BY <1>1, <1>2, <1>3, <1>4, <1>5, <1>6, <1>7, <1>8, <1>9, <1>10, <1>11 DEF LetterCode, NamedCode

\* The code of a key, 0 if it has none, is not that of a modifier.
LEMMA KeyIsNoModifier == \A key : Evdev(key) \in Nat \ ModCodes
<1>1. ASSUME NEW name PROVE CodeOf(name) \in Nat \ ModCodes
  <2> DEFINE rows == {r \in LetterCode \union NamedCode : name \in DOMAIN r}
  <2>1. CASE rows = {}
    BY <2>1 DEF CodeOf, ModCodes
  <2>2. CASE rows # {}
    <3>1. (CHOOSE r \in rows : TRUE) \in rows
      BY <2>2
    <3>2. CodeOf(name) = (CHOOSE r \in rows : TRUE)[name]
      BY <2>2 DEF CodeOf
    <3>3. QED BY <3>1, <3>2, KeysHaveTheirOwn
  <2>3. QED BY <2>1, <2>2
<1>2. QED BY <1>1 DEF Evdev

\* What is written into the kernel: a code, and 1 for down or 0 for up.
Events == Nat \X {0, 1}

\* ConcatProperties for sequences of known lengths.
LEMMA Joined ==
  ASSUME NEW S, NEW s \in Seq(S), NEW t \in Seq(S), NEW m \in Nat, NEW k \in Nat,
         Len(s) = m, Len(t) = k
  PROVE  /\ s \o t \in Seq(S) /\ Len(s \o t) = m + k
         /\ \A i \in 1..m + k : (s \o t)[i] = IF i <= m THEN s[i] ELSE t[i - m]
<1>1. /\ s \o t \in Seq(S)
      /\ Len(s \o t) = Len(s) + Len(t)
      /\ \A i \in 1..Len(s) + Len(t) : (s \o t)[i] = IF i <= Len(s) THEN s[i] ELSE t[i - Len(s)]
  BY ConcatProperties
<1>2. QED BY <1>1

\* InOrder lists the modifiers it is given.
LEMMA InOrderIs ==
  ASSUME NEW mods \in SUBSET Modifiers
  PROVE  InOrder(mods) \in Seq(Modifiers) /\ ToSet(InOrder(mods)) = mods
<1> DEFINE One(m) == IF m \in mods THEN <<m>> ELSE <<>>
<1>1. ASSUME NEW m \in Modifiers
      PROVE  One(m) \in Seq(Modifiers) /\ ToSet(One(m)) = {m} \intersect mods
  BY <1>1 DEF ToSet
<1>2. ASSUME NEW s \in Seq(Modifiers), NEW t \in Seq(Modifiers)
      PROVE  s \o t \in Seq(Modifiers) /\ ToSet(s \o t) = ToSet(s) \union ToSet(t)
  <2>1. s \o t \in Seq(Modifiers)
    BY ConcatProperties
  <2>2. Range(s \o t) = Range(s) \union Range(t)
    BY RangeConcatenation
  <2>3. QED BY <2>1, <2>2 DEF Range, ToSet
<1>3. InOrder(mods) = One("ctrl") \o One("shift") \o One("alt") \o One("super")
  BY DEF InOrder
<1> HIDE DEF One
<1>4. /\ "ctrl" \in Modifiers /\ "shift" \in Modifiers /\ "alt" \in Modifiers /\ "super" \in Modifiers
      /\ \A m \in mods : m \in {"ctrl", "shift", "alt", "super"}
  BY DEF Modifiers
<1> DEFINE two == One("ctrl") \o One("shift")
           three == two \o One("alt")
<1>5. two \in Seq(Modifiers) /\ ToSet(two) = mods \intersect {"ctrl", "shift"}
  <2>1. two \in Seq(Modifiers) /\ ToSet(two) = ToSet(One("ctrl")) \union ToSet(One("shift"))
    BY <1>1, <1>2, <1>4
  <2>2. QED BY <2>1, <1>1, <1>4
<1> HIDE DEF two
<1>6. three \in Seq(Modifiers) /\ ToSet(three) = mods \intersect {"ctrl", "shift", "alt"}
  <2>1. three \in Seq(Modifiers) /\ ToSet(three) = ToSet(two) \union ToSet(One("alt"))
    BY <1>1, <1>2, <1>4, <1>5
  <2>2. QED BY <2>1, <1>1, <1>4, <1>5
<1>7. InOrder(mods) = three \o One("super")
  BY <1>3 DEF two
<1> HIDE DEF three
<1>8. /\ InOrder(mods) \in Seq(Modifiers)
      /\ ToSet(InOrder(mods)) = ToSet(three) \union ToSet(One("super"))
  BY <1>1, <1>2, <1>4, <1>6, <1>7
<1>9. QED BY <1>1, <1>4, <1>6, <1>8

\* The events of a chord, one by one.
LEMMA EncodeIs ==
  ASSUME NEW combo, combo.mods \in SUBSET Modifiers
  PROVE  LET e == Encode(combo)
             mods == InOrder(combo.mods)
             n == Len(mods)
         IN  /\ n \in Nat /\ DOMAIN mods = 1..n
             /\ e \in Seq(Events) /\ Len(e) = 2 * n + 2
             /\ \A i \in 1..n : e[i] = <<ModifierCode[mods[i]], 1>>
             /\ e[n + 1] = <<Evdev(combo.key), 1>>
             /\ e[n + 2] = <<Evdev(combo.key), 0>>
             /\ \A i \in n + 3..2 * n + 2 : e[i] = <<ModifierCode[mods[2 * n + 3 - i]], 0>>
<1> DEFINE mods == InOrder(combo.mods)
           n == Len(mods)
           codes == [i \in DOMAIN mods |-> ModifierCode[mods[i]]]
           Event(state) == [i \in DOMAIN codes |-> <<codes[i], state>>]
           key == << <<Evdev(combo.key), 1>>, <<Evdev(combo.key), 0>> >>
<1>1. mods \in Seq(Modifiers) /\ n \in Nat /\ DOMAIN mods = 1..n
  BY InOrderIs, LenProperties
<1>2. Encode(combo) = Event(1) \o key \o Reverse(Event(0))
  BY DEF Encode
<1> HIDE DEF mods
<1>3. \A i \in 1..n : ModifierCode[mods[i]] \in Nat
  BY <1>1, CodesOfModifiers DEF ModCodes
<1>4. ASSUME NEW state \in {0, 1}
      PROVE  /\ Event(state) \in Seq(Events) /\ Len(Event(state)) = n
             /\ \A i \in 1..n : Event(state)[i] = <<ModifierCode[mods[i]], state>>
  <2>1. Event(state) = [i \in 1..n |-> <<ModifierCode[mods[i]], state>>]
    BY <1>1
  <2>2. \A i \in 1..n : <<ModifierCode[mods[i]], state>> \in Events
    BY <1>3 DEF Events
  <2>3. [i \in 1..n |-> <<ModifierCode[mods[i]], state>>] \in Seq(Events)
    BY <1>1, <2>2, IsASeq
  <2>4. QED BY <1>1, <2>1, <2>3
<1>5. Event(1) \in Seq(Events) /\ Event(0) \in Seq(Events) /\ Len(Event(1)) = n /\ Len(Event(0)) = n
  BY <1>4
<1>6. /\ \A i \in 1..n : Event(1)[i] = <<ModifierCode[mods[i]], 1>>
      /\ \A i \in 1..n : Event(0)[i] = <<ModifierCode[mods[i]], 0>>
  BY <1>4
<1> DEFINE first == Event(1)
           releases == Event(0)
           back == Reverse(releases)
<1>7. /\ key \in Seq(Events) /\ Len(key) = 2
      /\ key[1] = <<Evdev(combo.key), 1>> /\ key[2] = <<Evdev(combo.key), 0>>
  BY KeyIsNoModifier DEF Events
<1> HIDE DEF Event, key
<1>8. /\ back \in Seq(Events) /\ Len(back) = n
      /\ \A i \in 1..n : back[i] = <<ModifierCode[mods[n - i + 1]], 0>>
  <2>1. back = [i \in 1..n |-> releases[(n - i) + 1]]
    BY <1>5 DEF Reverse
  <2>2. \A i \in 1..n : releases[(n - i) + 1] \in Events
    BY <1>5, <1>1, ElementOfSeq
  <2>3. [i \in 1..n |-> releases[(n - i) + 1]] \in Seq(Events)
    BY <1>1, <2>2, IsASeq
  <2>4. Len(back) = n
    BY <1>1, <2>1
  <2>5. ASSUME NEW i \in 1..n PROVE back[i] = <<ModifierCode[mods[n - i + 1]], 0>>
    <3>1. n - i + 1 \in 1..n
      BY <1>1
    <3>2. QED BY <3>1, <2>1, <1>6
  <2>6. QED BY <2>1, <2>3, <2>4, <2>5
<1> HIDE DEF back, first, releases
<1> DEFINE front == first \o key
<1>9. /\ front \in Seq(Events) /\ Len(front) = n + 2
      /\ \A i \in 1..n + 2 : front[i] = IF i <= n THEN first[i] ELSE key[i - n]
  <2>1. first \in Seq(Events) /\ Len(first) = n
    BY <1>5 DEF first
  <2>2. /\ front \in Seq(Events)
        /\ Len(front) = Len(first) + Len(key)
        /\ \A i \in 1..Len(first) + Len(key) :
              front[i] = IF i <= Len(first) THEN first[i] ELSE key[i - Len(first)]
    BY <2>1, <1>7, ConcatProperties
  <2>3. QED BY <2>1, <2>2, <1>7
<1> DEFINE e == front \o back
<1>10. Encode(combo) = e
  BY <1>2 DEF first, releases, back, key
<1>11. front[n + 1] = <<Evdev(combo.key), 1>> /\ front[n + 2] = <<Evdev(combo.key), 0>>
  <2>1. front[n + 1] = key[n + 1 - n] /\ front[n + 2] = key[n + 2 - n]
    <3>1. n + 1 \in 1..n + 2 /\ n + 2 \in 1..n + 2 /\ ~(n + 1 <= n) /\ ~(n + 2 <= n)
      BY <1>1
    <3>2. QED BY <3>1, <1>9
  <2>2. n + 1 - n = 1 /\ n + 2 - n = 2
    BY <1>1
  <2>3. QED BY <2>1, <2>2, <1>7
<1>12. \A i \in 1..n : front[i] = <<ModifierCode[mods[i]], 1>>
  BY <1>1, <1>6, <1>9 DEF first
<1> HIDE DEF front
<1>13. /\ e \in Seq(Events) /\ Len(e) = 2 * n + 2
       /\ \A i \in 1..2 * n + 2 : e[i] = IF i <= n + 2 THEN front[i] ELSE back[i - (n + 2)]
  <2>1. /\ e \in Seq(Events) /\ Len(e) = n + 2 + n
        /\ \A i \in 1..(n + 2 + n) : e[i] = IF i <= n + 2 THEN front[i] ELSE back[i - (n + 2)]
    BY <1>1, <1>8, <1>9, Joined
  <2>2. n + 2 + n = 2 * n + 2
    BY <1>1
  <2>3. QED BY <2>1, <2>2
<1> HIDE DEF e
<1>14. ASSUME NEW i \in n + 3..2 * n + 2
       PROVE  e[i] = <<ModifierCode[mods[2 * n + 3 - i]], 0>>
  <2>1. i - (n + 2) \in 1..n /\ i \in 1..2 * n + 2 /\ i > n + 2 /\ n - (i - (n + 2)) + 1 = 2 * n + 3 - i
    BY <1>1
  <2>2. e[i] = back[i - (n + 2)]
    BY <1>1, <2>1, <1>13
  <2>3. back[i - (n + 2)] = <<ModifierCode[mods[n - (i - (n + 2)) + 1]], 0>>
    BY <2>1, <1>8
  <2>4. QED BY <2>1, <2>2, <2>3
<1>15. /\ \A i \in 1..n : e[i] = <<ModifierCode[mods[i]], 1>>
       /\ e[n + 1] = <<Evdev(combo.key), 1>>
       /\ e[n + 2] = <<Evdev(combo.key), 0>>
  <2>1. \A i \in 1..n + 2 : e[i] = front[i]
    BY <1>1, <1>13
  <2>2. QED BY <2>1, <1>1, <1>11, <1>12
<1>16. QED BY <1>1, <1>10, <1>13, <1>14, <1>15 DEF mods

\* The chords there can be.
Combos == [mods : SUBSET Modifiers, key : {Last(c) : c \in Chords} \union {""}]

KeyTypes ==
    /\ pressing \in [Hands -> [combo : Combos, todo : Seq(Events), alone : BOOLEAN]]
    /\ \A h \in Hands : pressing[h] = NoPress \/ pressing[h].todo # <<>>
    /\ down \subseteq Nat /\ held \subseteq Modifiers
    /\ heard \in [combo : Combos, mods : SUBSET Modifiers, fired : SUBSET DOMAIN Binds,
                  alone : BOOLEAN]

\* Every press is followed by its release.
Paired(todo) ==
    \A i \in DOMAIN todo : todo[i][2] = 1 =>
        \E j \in DOMAIN todo : j > i /\ todo[j] = <<todo[i][1], 0>>

\* Somebody is yet to release every key that is down.
Owed ==
    /\ \A h \in Hands : Paired(pressing[h].todo)
    /\ \A c \in down : \E h \in Hands : \E j \in DOMAIN pressing[h].todo :
          pressing[h].todo[j] = <<c, 0>>

\* The key is yet to be pressed, and the modifiers that are down by then are
\* those of the chord; or only releases are left.
Ahead(combo, todo, codes) ==
    \/ \A i \in DOMAIN todo : todo[i][2] = 0
    \/ \E p \in DOMAIN todo :
           /\ todo[p] = <<Evdev(combo.key), 1>>
           /\ \A i \in 1..p - 1 : todo[i][2] = 1 /\ todo[i][1] \in ModCodes
           /\ \A i \in DOMAIN todo : i > p => todo[i][2] = 0
           /\ \A m \in Modifiers :
                 m \in combo.mods <=>
                     ModifierCode[m] \in codes \/ \E i \in 1..p - 1 : todo[i][1] = ModifierCode[m]

\* A chord that is alone has the keyboard for itself.
AloneIsWhole ==
    \A h \in Hands : pressing[h] # NoPress /\ pressing[h].alone =>
        /\ held = {}
        /\ \A k \in Hands : k # h => pressing[k] = NoPress
        /\ Ahead(pressing[h].combo, pressing[h].todo, down)

\* The binds that fired are those of the chord that was pressed.
HeardIsWhole ==
    heard.alone =>
        /\ heard.mods = heard.combo.mods
        /\ heard.fired = {i \in DOMAIN Binds : Fires(Binds[i], Evdev(heard.combo.key), heard.mods)}

KeyInv == KeyTypes /\ Owed /\ AloneIsWhole /\ HeardIsWhole

\* What a chord is turned into is all of that when nothing is down.
LEMMA EncodeIsWhole ==
  ASSUME NEW combo \in Combos
  PROVE  /\ Encode(combo) \in Seq(Events) /\ Encode(combo) # <<>>
         /\ Paired(Encode(combo))
         /\ Ahead(combo, Encode(combo), {})
<1> DEFINE e == Encode(combo)
           mods == InOrder(combo.mods)
           n == Len(mods)
           key == Evdev(combo.key)
<1>1. combo.mods \in SUBSET Modifiers
  BY DEF Combos
<1>2. /\ n \in Nat /\ DOMAIN mods = 1..n
      /\ e \in Seq(Events) /\ Len(e) = 2 * n + 2
      /\ \A i \in 1..n : e[i] = <<ModifierCode[mods[i]], 1>>
      /\ e[n + 1] = <<key, 1>>
      /\ e[n + 2] = <<key, 0>>
      /\ \A i \in n + 3..2 * n + 2 : e[i] = <<ModifierCode[mods[2 * n + 3 - i]], 0>>
  BY <1>1, EncodeIs
<1>3. mods \in Seq(Modifiers) /\ ToSet(mods) = combo.mods
  BY <1>1, InOrderIs
<1>4. DOMAIN e = 1..2 * n + 2
  BY <1>2, LenProperties
<1> HIDE DEF e, mods, n, key
<1>5. Paired(e)
  <2> SUFFICES ASSUME NEW i \in DOMAIN e, e[i][2] = 1
               PROVE  \E j \in DOMAIN e : j > i /\ e[j] = <<e[i][1], 0>>
    BY DEF Paired
  <2>1. CASE i \in 1..n
    <3>1. 2 * n + 3 - i \in n + 3..2 * n + 2 /\ 2 * n + 3 - i > i /\ 2 * n + 3 - (2 * n + 3 - i) = i
      BY <1>2, <2>1
    <3>2. e[2 * n + 3 - i] = <<ModifierCode[mods[i]], 0>>
      BY <1>2, <3>1
    <3>3. e[i] = <<ModifierCode[mods[i]], 1>>
      BY <1>2, <2>1
    <3>4. 2 * n + 3 - i \in DOMAIN e
      BY <1>2, <1>4, <3>1
    <3>5. QED BY <3>1, <3>2, <3>3, <3>4
  <2>2. CASE i = n + 1
    <3>1. n + 2 \in DOMAIN e /\ n + 2 > i
      BY <1>2, <1>4, <2>2
    <3>2. e[n + 2] = <<e[i][1], 0>>
      BY <1>2, <2>2
    <3>3. QED BY <3>1, <3>2
  <2>3. CASE i = n + 2
    BY <1>2, <2>3
  <2>4. CASE i \in n + 3..2 * n + 2
    BY <1>2, <2>4
  <2>5. QED BY <1>2, <1>4, <2>1, <2>2, <2>3, <2>4
<1>6. Ahead(combo, e, {})
  <2>1. n + 1 \in DOMAIN e
    BY <1>2, <1>4
  <2>2. n + 1 - 1 = n
    BY <1>2
  <2>3. \A i \in 1..n : e[i][2] = 1 /\ e[i][1] = ModifierCode[mods[i]] /\ mods[i] \in Modifiers
    BY <1>2, <1>3, ElementOfSeq DEF n
  <2>4. \A i \in 1..n : e[i][1] \in ModCodes
    BY <2>3, CodesOfModifiers
  <2>5. ASSUME NEW i \in DOMAIN e, i > n + 1 PROVE e[i][2] = 0
    <3>1. i = n + 2 \/ i \in n + 3..2 * n + 2
      BY <1>2, <1>4, <2>5
    <3>2. QED BY <1>2, <3>1
  <2>6. ASSUME NEW m \in Modifiers
        PROVE  m \in combo.mods <=> \E i \in 1..n : e[i][1] = ModifierCode[m]
    <3>1. m \in combo.mods <=> \E i \in 1..n : mods[i] = m
      BY <1>2, <1>3 DEF ToSet
    <3>2. QED BY <2>3, <3>1, CodesOfModifiers
  <2>7. QED
    <3> DEFINE p == n + 1
    <3>1. /\ e[p] = <<Evdev(combo.key), 1>>
          /\ \A i \in 1..p - 1 : e[i][2] = 1 /\ e[i][1] \in ModCodes
          /\ \A i \in DOMAIN e : i > p => e[i][2] = 0
          /\ \A m \in Modifiers :
                m \in combo.mods <=>
                    ModifierCode[m] \in {} \/ \E i \in 1..p - 1 : e[i][1] = ModifierCode[m]
      BY <1>2, <2>2, <2>3, <2>4, <2>5, <2>6 DEF key
    <3>2. p \in DOMAIN e
      BY <2>1
    <3> HIDE DEF p
    <3>3. QED BY <3>1, <3>2 DEF Ahead
<1>7. e # <<>>
  BY <1>2
<1>8. QED BY <1>2, <1>5, <1>6, <1>7 DEF e

\* A chord that is parsed is one.
LEMMA ParsedIsCombo ==
  ASSUME NEW chord \in Chords, Parses(chord)
  PROVE  Combo(chord) \in Combos
<1>1. \A m \in DOMAIN ModifierOf : ModifierOf[m] \in Modifiers
  BY DEF ModifierOf, Modifiers
<1>2. {ModifierOf[m] : m \in ToSet(Front(chord))} \subseteq Modifiers
  BY <1>1 DEF Parses
<1>3. QED BY <1>2 DEF Combo, Combos

\* A handler at rest has nothing to write.
LEMMA NoPressIsNothing ==
  /\ NoPress \in [combo : Combos, todo : Seq(Events), alone : BOOLEAN]
  /\ NoPress.todo = <<>> /\ DOMAIN NoPress.todo = {} /\ Paired(NoPress.todo)
<1>1. NoPress.todo = <<>>
  BY DEF NoPress
<1>2. DOMAIN NoPress.todo = {}
  BY <1>1
<1>3. [mods |-> {}, key |-> ""] \in Combos /\ <<>> \in Seq(Events)
  BY EmptySeq DEF Combos
<1>4. NoPress \in [combo : Combos, todo : Seq(Events), alone : BOOLEAN]
  BY <1>3 DEF NoPress
<1>5. QED BY <1>1, <1>2, <1>4 DEF Paired

\* No chord is being pressed at first.
LEMMA KeysAtFirst == KeyInit => KeyInv
<1> SUFFICES ASSUME KeyInit PROVE KeyInv
  OBVIOUS
<1>1. NoPress.combo \in Combos
  BY NoPressIsNothing
<1>2. KeyTypes
  BY <1>1, NoPressIsNothing DEF KeyInit, KeyTypes
<1>3. Owed
  BY NoPressIsNothing DEF KeyInit, Owed
<1>4. AloneIsWhole
  BY DEF KeyInit, AloneIsWhole
<1>5. HeardIsWhole
  BY DEF KeyInit, HeardIsWhole
<1>6. QED BY <1>2, <1>3, <1>4, <1>5 DEF KeyInv

\* When nobody presses a chord, nothing is down.
LEMMA IdleMeansUp == KeyInv => NothingStaysDown
BY NoPressIsNothing DEF KeyInv, Owed, NothingStaysDown, Busy

\* A chord is begun: those that were being pressed are no longer alone.
LEMMA KeysPress ==
  ASSUME KeyInv, NEW h \in Hands, NEW c \in Chords, PressYdotool(h, c)
  PROVE  KeyInv'
<1> DEFINE combo == Combo(c)
           e == Encode(combo)
           alone == Busy = {} /\ held = {}
<1>1. /\ combo \in Combos /\ e \in Seq(Events) /\ e # <<>>
      /\ Paired(e) /\ Ahead(combo, e, {})
  BY ParsedIsCombo, EncodeIsWhole DEF PressYdotool
<1>2. /\ pressing[h] = NoPress
      /\ pressing' = [k \in Hands |->
                IF k = h THEN [combo |-> combo, todo |-> e, alone |-> alone]
                ELSE IF k \in Busy THEN [pressing[k] EXCEPT !.alone = FALSE]
                ELSE NoPress]
      /\ UNCHANGED <<down, held, heard>>
  BY DEF PressYdotool
<1> HIDE DEF combo, e
<1>0. alone \in BOOLEAN /\ (alone => Busy = {} /\ held = {})
  OBVIOUS
<1> HIDE DEF alone
<1>3. pressing \in [Hands -> [combo : Combos, todo : Seq(Events), alone : BOOLEAN]]
  BY DEF KeyInv, KeyTypes
<1>4. pressing'[h] = [combo |-> combo, todo |-> e, alone |-> alone]
  BY <1>2
<1>5. ASSUME NEW k \in Hands, k # h
      PROVE  \/ k \in Busy /\ pressing'[k] = [pressing[k] EXCEPT !.alone = FALSE]
             \/ k \notin Busy /\ pressing'[k] = NoPress /\ pressing[k] = NoPress
  BY <1>2, <1>5 DEF Busy
<1>6. \A k \in Hands : k # h => pressing'[k].todo = pressing[k].todo
  BY <1>3, <1>5
<1>7. KeyTypes'
  <2>1. NoPress \in [combo : Combos, todo : Seq(Events), alone : BOOLEAN]
    BY NoPressIsNothing
  <2>2. pressing'[h] \in [combo : Combos, todo : Seq(Events), alone : BOOLEAN]
    BY <1>0, <1>1, <1>4
  <2>3. \A k \in Hands : pressing'[k] \in [combo : Combos, todo : Seq(Events), alone : BOOLEAN]
    BY <1>3, <1>5, <2>1, <2>2
  <2>4. ASSUME NEW k \in Hands
        PROVE  pressing'[k] = NoPress \/ pressing'[k].todo # <<>>
    <3>1. CASE k = h
      BY <1>1, <1>4, <3>1
    <3>2. CASE k # h
      <4>1. pressing[k] = NoPress \/ pressing[k].todo # <<>>
        BY DEF KeyInv, KeyTypes
      <4>2. QED BY <1>5, <1>6, <3>2, <4>1 DEF Busy
    <3>3. QED BY <3>1, <3>2
  <2>5. pressing' \in [Hands -> [combo : Combos, todo : Seq(Events), alone : BOOLEAN]]
    BY <1>2, <2>3
  <2>6. QED BY <1>2, <2>4, <2>5 DEF KeyInv, KeyTypes
<1>8. Owed'
  <2>1. \A k \in Hands : Paired(pressing'[k].todo)
    BY <1>1, <1>4, <1>6 DEF KeyInv, Owed
  <2>2. ASSUME NEW x \in down
        PROVE  \E k \in Hands : \E j \in DOMAIN pressing'[k].todo : pressing'[k].todo[j] = <<x, 0>>
    <3>1. PICK k \in Hands : \E j \in DOMAIN pressing[k].todo : pressing[k].todo[j] = <<x, 0>>
      BY DEF KeyInv, Owed
    <3>2. k # h
      BY <1>2, <3>1, NoPressIsNothing
    <3>3. QED BY <1>6, <3>1, <3>2
  <2>3. QED BY <1>2, <2>1, <2>2 DEF Owed, Paired
<1>9. AloneIsWhole'
  <2> SUFFICES ASSUME NEW k \in Hands, pressing'[k] # NoPress, pressing'[k].alone
               PROVE  /\ held' = {}
                      /\ \A l \in Hands : l # k => pressing'[l] = NoPress
                      /\ Ahead(pressing'[k].combo, pressing'[k].todo, down')
    BY DEF AloneIsWhole, Ahead
  <2>1. k = h
    BY <1>3, <1>5
  <2>2. Busy = {} /\ held = {}
    <3>1. pressing'[h].alone = alone
      BY <1>4
    <3>2. alone
      BY <2>1, <3>1
    <3>3. QED BY <1>0, <3>2
  <2>3. down = {}
    BY <2>2, IdleMeansUp DEF NothingStaysDown
  <2>4. \A l \in Hands : l # k => pressing'[l] = NoPress
    BY <1>5, <2>1, <2>2
  <2>5. Ahead(pressing'[k].combo, pressing'[k].todo, {})
    BY <1>1, <1>4, <2>1
  <2>6. QED BY <1>2, <2>2, <2>3, <2>4, <2>5
<1>10. HeardIsWhole'
  BY <1>2 DEF KeyInv, HeardIsWhole, Fires
<1>11. QED BY <1>7, <1>8, <1>9, <1>10 DEF KeyInv

\* The user's own keys: nobody is alone any longer.
LEMMA KeysHold ==
  ASSUME KeyInv, NEW m \in Modifiers, UserHolds(m)
  PROVE  KeyInv'
<1>1. /\ pressing' = [h \in Hands |-> IF h \in Busy THEN [pressing[h] EXCEPT !.alone = FALSE]
                                      ELSE NoPress]
      /\ UNCHANGED <<down, heard>>
  BY DEF UserHolds
<1>2. pressing \in [Hands -> [combo : Combos, todo : Seq(Events), alone : BOOLEAN]]
  BY DEF KeyInv, KeyTypes
<1>3. ASSUME NEW k \in Hands
      PROVE  \/ k \in Busy /\ pressing'[k] = [pressing[k] EXCEPT !.alone = FALSE]
             \/ k \notin Busy /\ pressing'[k] = NoPress /\ pressing[k] = NoPress
  BY <1>1 DEF Busy
<1>4. \A k \in Hands : pressing'[k].todo = pressing[k].todo
  BY <1>2, <1>3
<1>5. KeyTypes'
  <2>1. \A k \in Hands : pressing'[k] \in [combo : Combos, todo : Seq(Events), alone : BOOLEAN]
    BY <1>2, <1>3
  <2>2. \A k \in Hands : pressing'[k] = NoPress \/ pressing'[k].todo # <<>>
    BY <1>3, <1>4 DEF KeyInv, KeyTypes, Busy
  <2>3. pressing' \in [Hands -> [combo : Combos, todo : Seq(Events), alone : BOOLEAN]]
    BY <1>1, <2>1
  <2>4. held' \subseteq Modifiers
    BY DEF KeyInv, KeyTypes, UserHolds
  <2>5. QED BY <1>1, <2>2, <2>3, <2>4 DEF KeyInv, KeyTypes
<1>6. Owed'
  <2>1. \A k \in Hands : Paired(pressing'[k].todo)
    BY <1>4 DEF KeyInv, Owed
  <2>2. \A x \in down : \E k \in Hands : \E j \in DOMAIN pressing'[k].todo :
            pressing'[k].todo[j] = <<x, 0>>
    BY <1>4 DEF KeyInv, Owed
  <2>3. QED BY <1>1, <2>1, <2>2 DEF Owed, Paired
<1>7. AloneIsWhole'
  <2>1. \A k \in Hands : pressing'[k] = NoPress \/ ~pressing'[k].alone
    BY <1>2, <1>3
  <2>2. QED BY <2>1 DEF AloneIsWhole
<1>8. HeardIsWhole'
  BY <1>1 DEF KeyInv, HeardIsWhole, Fires
<1>9. QED BY <1>5, <1>6, <1>7, <1>8 DEF KeyInv
\* ydotool's next event: what is down is still owed, and a chord that is alone
\* gets nearer to its key, presses it with its own modifiers, or is past it.
LEMMA KeysEmit ==
  ASSUME KeyInv, NEW h \in Hands, Emit(h)
  PROVE  KeyInv'
<1> DEFINE todo == pressing[h].todo
           code == todo[1][1]
           state == todo[1][2]
           rest == Tail(todo)
<1>1. /\ pressing \in [Hands -> [combo : Combos, todo : Seq(Events), alone : BOOLEAN]]
      /\ pressing[h] # NoPress /\ todo \in Seq(Events) /\ todo # <<>>
  BY DEF KeyInv, KeyTypes, Emit, Busy
<1>2. /\ Len(todo) \in Nat \ {0} /\ DOMAIN todo = 1..Len(todo)
      /\ todo[1] \in Events /\ todo[1] = <<code, state>> /\ Head(todo) = todo[1]
      /\ code \in Nat /\ state \in {0, 1}
  <2>1. Len(todo) \in Nat \ {0} /\ DOMAIN todo = 1..Len(todo)
    BY <1>1, EmptySeq, LenProperties
  <2>2. todo[1] \in Events /\ Head(todo) = todo[1]
    BY <1>1, <2>1, ElementOfSeq
  <2>3. QED BY <2>1, <2>2 DEF Events
<1>3. /\ rest \in Seq(Events) /\ Len(rest) = Len(todo) - 1 /\ DOMAIN rest = 1..Len(todo) - 1
      /\ \A i \in 1..Len(todo) - 1 : rest[i] = todo[i + 1]
  <2>1. /\ rest \in Seq(Events) /\ Len(rest) = Len(todo) - 1
        /\ \A i \in 1..Len(rest) : rest[i] = todo[i + 1]
    BY <1>1, HeadTailProperties
  <2>2. QED BY <2>1, LenProperties
<1>4. /\ down' = IF state = 1 THEN down \union {code} ELSE down \ {code}
      /\ heard' = IF state = 1 /\ code \notin ModCodes
                  THEN [combo |-> pressing[h].combo, mods |-> HeldMods,
                        fired |-> {i \in DOMAIN Binds : Fires(Binds[i], code, HeldMods)},
                        alone |-> pressing[h].alone]
                  ELSE heard
      /\ pressing' = [pressing EXCEPT ![h] = IF Len(todo) = 1 THEN NoPress
                                             ELSE [pressing[h] EXCEPT !.todo = rest]]
      /\ UNCHANGED held
  <2>1. down' = IF Head(todo)[2] = 1 THEN down \union {Head(todo)[1]} ELSE down \ {Head(todo)[1]}
    BY DEF Emit
  <2>2. heard' = IF Head(todo)[2] = 1 /\ Head(todo)[1] \notin {ModifierCode[m] : m \in Modifiers}
                 THEN [combo |-> pressing[h].combo, mods |-> HeldMods,
                       fired |-> {i \in DOMAIN Binds : Fires(Binds[i], Head(todo)[1], HeldMods)},
                       alone |-> pressing[h].alone]
                 ELSE heard
    BY DEF Emit
  <2>3. pressing' = [pressing EXCEPT ![h] = IF Len(todo) = 1 THEN NoPress
                                            ELSE [pressing[h] EXCEPT !.todo = rest]]
    BY <1>1 DEF Emit
  <2>4. UNCHANGED held
    BY DEF Emit
  <2>5. {ModifierCode[m] : m \in Modifiers} = ModCodes /\ Head(todo)[1] = code /\ Head(todo)[2] = state
    BY <1>2, CodesOfModifiers
  <2> HIDE DEF todo, code, state, rest
  <2>6. QED BY <2>1, <2>2, <2>3, <2>4, <2>5
<1> HIDE DEF todo, code, state, rest
<1>5. ASSUME NEW k \in Hands, k # h PROVE pressing'[k] = pressing[k]
  BY <1>1, <1>4, <1>5
<1>6. /\ pressing'[h].todo = IF Len(todo) = 1 THEN <<>> ELSE rest
      /\ Len(todo) # 1 => pressing'[h] = [pressing[h] EXCEPT !.todo = rest]
      /\ Len(todo) = 1 => pressing'[h] = NoPress
  BY <1>1, <1>4, NoPressIsNothing
<1>7. pressing'[h].todo = rest
  <2>1. Len(todo) = 1 => Len(rest) = 0 /\ rest = <<>>
    BY <1>2, <1>3, EmptySeq
  <2>2. QED BY <1>6, <2>1
<1>8. KeyTypes'
  <2>1. pressing'[h] \in [combo : Combos, todo : Seq(Events), alone : BOOLEAN]
    BY <1>1, <1>3, <1>6, NoPressIsNothing
  <2>2. pressing' \in [Hands -> [combo : Combos, todo : Seq(Events), alone : BOOLEAN]]
    BY <1>1, <1>4, <1>6, <2>1
  <2>3. pressing'[h] = NoPress \/ pressing'[h].todo # <<>>
    <3>1. Len(todo) # 1 => rest # <<>>
      BY <1>2, <1>3
    <3>2. QED BY <1>6, <1>7, <3>1
  <2>4. \A k \in Hands : pressing'[k] = NoPress \/ pressing'[k].todo # <<>>
    BY <1>5, <2>3 DEF KeyInv, KeyTypes
  <2>5. down' \subseteq Nat
    BY <1>2, <1>4 DEF KeyInv, KeyTypes
  <2>6. heard' \in [combo : Combos, mods : SUBSET Modifiers, fired : SUBSET DOMAIN Binds,
                    alone : BOOLEAN]
    <3>1. HeldMods \in SUBSET Modifiers
      <4>1. held \subseteq Modifiers
        BY DEF KeyInv, KeyTypes
      <4>2. QED BY <4>1 DEF HeldMods
    <3>2. QED BY <1>1, <1>4, <3>1 DEF KeyInv, KeyTypes
  <2>7. QED BY <1>4, <2>2, <2>4, <2>5, <2>6 DEF KeyTypes, KeyInv
<1>9. Owed'
  <2>1. Paired(todo)
    BY DEF KeyInv, Owed, todo
  <2>2. Paired(rest)
    <3> SUFFICES ASSUME NEW i \in DOMAIN rest, rest[i][2] = 1
                 PROVE  \E j \in DOMAIN rest : j > i /\ rest[j] = <<rest[i][1], 0>>
      BY DEF Paired
    <3>1. i + 1 \in DOMAIN todo /\ todo[i + 1] = rest[i]
      BY <1>2, <1>3
    <3>2. PICK j \in DOMAIN todo : j > i + 1 /\ todo[j] = <<todo[i + 1][1], 0>>
      BY <2>1, <3>1 DEF Paired
    <3>3. j - 1 \in DOMAIN rest /\ j - 1 > i /\ rest[j - 1] = todo[j]
      BY <1>2, <1>3, <3>1, <3>2
    <3>4. QED BY <3>1, <3>2, <3>3
  <2>3. \A k \in Hands : Paired(pressing'[k].todo)
    BY <1>5, <1>7, <2>2 DEF KeyInv, Owed
  <2>4. ASSUME NEW c \in down'
        PROVE  \E k \in Hands : \E j \in DOMAIN pressing'[k].todo : pressing'[k].todo[j] = <<c, 0>>
    <3>1. ASSUME NEW j \in DOMAIN todo, j # 1, todo[j] = <<c, 0>>
          PROVE  \E i \in DOMAIN rest : rest[i] = <<c, 0>>
      <4>1. j - 1 \in DOMAIN rest /\ rest[j - 1] = todo[j]
        BY <1>2, <1>3, <3>1
      <4>2. QED BY <3>1, <4>1
    <3>2. CASE state = 1 /\ c = code
      <4>1. 1 \in DOMAIN todo /\ todo[1][2] = 1 /\ todo[1][1] = c
        BY <1>2, <3>2 DEF code, state
      <4>2. PICK j \in DOMAIN todo : j > 1 /\ todo[j] = <<c, 0>>
        BY <2>1, <4>1 DEF Paired
      <4>3. \E i \in DOMAIN rest : rest[i] = <<c, 0>>
        BY <3>1, <4>2
      <4>4. QED BY <1>7, <4>3
    <3>3. CASE ~(state = 1 /\ c = code)
      <4>1. c \in down /\ todo[1] # <<c, 0>>
        BY <1>2, <1>4, <3>3
      <4>2. PICK k \in Hands : \E j \in DOMAIN pressing[k].todo : pressing[k].todo[j] = <<c, 0>>
        BY <4>1 DEF KeyInv, Owed
      <4>3. CASE k = h
        <5>1. PICK j \in DOMAIN todo : todo[j] = <<c, 0>>
          BY <4>2, <4>3 DEF todo
        <5>2. \E i \in DOMAIN rest : rest[i] = <<c, 0>>
          BY <3>1, <4>1, <5>1
        <5>3. QED BY <1>7, <5>2
      <4>4. CASE k # h
        BY <1>5, <4>2, <4>4
      <4>5. QED BY <4>3, <4>4
    <3>4. QED BY <3>2, <3>3
  <2>5. QED BY <2>3, <2>4 DEF Owed, Paired
<1> DEFINE combo == pressing[h].combo
<1>10. pressing[h].alone => held = {} /\ (\A k \in Hands : k # h => pressing[k] = NoPress)
                               /\ Ahead(combo, todo, down)
  BY <1>1 DEF KeyInv, AloneIsWhole, todo
<1>11. combo \in Combos /\ combo.mods \subseteq Modifiers
  BY <1>1 DEF Combos
<1>12. ASSUME NEW p \in DOMAIN todo,
              todo[p] = <<Evdev(combo.key), 1>>,
              \A i \in 1..p - 1 : todo[i][2] = 1 /\ todo[i][1] \in ModCodes,
              \A i \in DOMAIN todo : i > p => todo[i][2] = 0,
              \A m \in Modifiers : m \in combo.mods <=>
                  ModifierCode[m] \in down \/ \E i \in 1..p - 1 : todo[i][1] = ModifierCode[m],
              p # 1
       PROVE  state = 1 /\ code \in ModCodes /\ Ahead(combo, rest, down')
  <2>1. p \in 2..Len(todo) /\ 1 \in 1..p - 1
    BY <1>2, <1>12
  <2>2. state = 1 /\ code \in ModCodes
    BY <1>12, <2>1 DEF state, code
  <2>3. down' = down \union {code}
    BY <1>4, <2>2
  <2> DEFINE q == p - 1
  <2>4. /\ q \in DOMAIN rest /\ rest[q] = todo[p] /\ q \in Nat \ {0}
        /\ \A i \in DOMAIN rest : i + 1 \in DOMAIN todo /\ rest[i] = todo[i + 1]
        /\ \A i \in 1..q - 1 : i + 1 \in 1..p - 1 /\ rest[i] = todo[i + 1]
        /\ \A i \in DOMAIN rest : i > q => i + 1 > p
        /\ \A i \in 1..p - 1 : i = 1 \/ (i - 1 \in 1..q - 1 /\ rest[i - 1] = todo[i])
    <3>1. p \in Nat /\ p >= 2 /\ p <= Len(todo)
      BY <1>2, <2>1
    <3>2. q \in DOMAIN rest /\ q \in Nat \ {0} /\ q + 1 = p
      BY <1>2, <1>3, <3>1
    <3>3. rest[q] = todo[p]
      BY <1>3, <3>2
    <3>4. \A i \in DOMAIN rest : i + 1 \in DOMAIN todo /\ rest[i] = todo[i + 1]
      BY <1>2, <1>3
    <3>5. \A i \in 1..q - 1 : i \in DOMAIN rest /\ i + 1 \in 1..p - 1
      BY <1>2, <1>3, <3>1, <3>2
    <3>6. \A i \in DOMAIN rest : i > q => i + 1 > p
      BY <1>2, <1>3, <3>2
    <3>7. ASSUME NEW i \in 1..p - 1
          PROVE  i = 1 \/ (i - 1 \in 1..q - 1 /\ rest[i - 1] = todo[i])
      <4>1. i # 1 => i - 1 \in 1..q - 1 /\ i - 1 \in DOMAIN rest /\ i - 1 + 1 = i
        BY <1>2, <1>3, <3>1, <3>2
      <4>2. QED BY <3>4, <4>1
    <3> HIDE DEF q
    <3>8. QED BY <3>2, <3>3, <3>4, <3>5, <3>6, <3>7
  <2> HIDE DEF q
  <2>5. ASSUME NEW m \in Modifiers
        PROVE  m \in combo.mods <=>
                  ModifierCode[m] \in down' \/ \E i \in 1..q - 1 : rest[i][1] = ModifierCode[m]
    <3>1. ASSUME m \in combo.mods
          PROVE  ModifierCode[m] \in down' \/ \E i \in 1..q - 1 : rest[i][1] = ModifierCode[m]
      <4>1. CASE ModifierCode[m] \in down
        BY <2>3, <4>1
      <4>2. CASE \E i \in 1..p - 1 : todo[i][1] = ModifierCode[m]
        <5>1. PICK i \in 1..p - 1 : todo[i][1] = ModifierCode[m]
          BY <4>2
        <5>2. CASE i = 1
          BY <2>3, <5>1, <5>2 DEF code
        <5>3. CASE i # 1
          BY <2>4, <5>1, <5>3
        <5>4. QED BY <5>2, <5>3
      <4>3. QED BY <1>12, <3>1, <4>1, <4>2
    <3>2. ASSUME ModifierCode[m] \in down' \/ \E i \in 1..q - 1 : rest[i][1] = ModifierCode[m]
          PROVE  m \in combo.mods
      <4>1. CASE ModifierCode[m] \in down
        BY <1>12, <4>1
      <4>2. CASE ModifierCode[m] = code
        BY <1>12, <2>1, <4>2 DEF code
      <4>3. CASE \E i \in 1..q - 1 : rest[i][1] = ModifierCode[m]
        <5>1. \E i \in 1..p - 1 : todo[i][1] = ModifierCode[m]
          BY <2>4, <4>3
        <5>2. QED BY <1>12, <5>1
      <4>4. QED BY <2>3, <3>2, <4>1, <4>2, <4>3
    <3>3. QED BY <3>1, <3>2
  <2>6. \A i \in 1..q - 1 : rest[i][2] = 1 /\ rest[i][1] \in ModCodes
    BY <1>12, <2>4
  <2>7. \A i \in DOMAIN rest : i > q => rest[i][2] = 0
    BY <1>12, <2>4
  <2>8. rest[q] = <<Evdev(combo.key), 1>>
    BY <1>12, <2>4
  <2>9. Ahead(combo, rest, down')
    BY <2>4, <2>5, <2>6, <2>7, <2>8 DEF Ahead
  <2>10. QED BY <2>2, <2>9
<1>13. ASSUME Ahead(combo, todo, down)
       PROVE  \/ state = 1 /\ code \in ModCodes /\ Ahead(combo, rest, down')
              \/ /\ state = 1 /\ code = Evdev(combo.key)
                 /\ \A m \in Modifiers : m \in combo.mods <=> ModifierCode[m] \in down
                 /\ \A i \in DOMAIN rest : rest[i][2] = 0
              \/ state = 0 /\ \A i \in DOMAIN rest : rest[i][2] = 0
  <2>1. \A i \in DOMAIN rest : i + 1 \in DOMAIN todo /\ i + 1 > 1 /\ rest[i] = todo[i + 1]
    BY <1>2, <1>3
  <2>2. CASE \A i \in DOMAIN todo : todo[i][2] = 0
    BY <1>2, <2>1, <2>2 DEF state
  <2>3. CASE ~ \A i \in DOMAIN todo : todo[i][2] = 0
    <3>1. PICK p \in DOMAIN todo :
            /\ todo[p] = <<Evdev(combo.key), 1>>
            /\ \A i \in 1..p - 1 : todo[i][2] = 1 /\ todo[i][1] \in ModCodes
            /\ \A i \in DOMAIN todo : i > p => todo[i][2] = 0
            /\ \A m \in Modifiers : m \in combo.mods <=>
                  ModifierCode[m] \in down \/ \E i \in 1..p - 1 : todo[i][1] = ModifierCode[m]
      BY <1>13, <2>3 DEF Ahead
    <3>2. CASE p # 1
      BY <1>12, <3>1, <3>2
    <3>3. CASE p = 1
      <4>1. 1..p - 1 = {}
        BY <3>3
      <4>2. state = 1 /\ code = Evdev(combo.key)
        BY <3>1, <3>3 DEF state, code
      <4>3. \A m \in Modifiers : m \in combo.mods <=> ModifierCode[m] \in down
        BY <3>1, <4>1
      <4>4. \A i \in DOMAIN rest : rest[i][2] = 0
        BY <2>1, <3>1, <3>3
      <4>5. QED BY <4>2, <4>3, <4>4
    <3>4. QED BY <3>2, <3>3
  <2>4. QED BY <2>2, <2>3
<1>14. AloneIsWhole'
  <2> SUFFICES ASSUME NEW k \in Hands, pressing'[k] # NoPress, pressing'[k].alone
               PROVE  /\ held' = {}
                      /\ \A l \in Hands : l # k => pressing'[l] = NoPress
                      /\ Ahead(pressing'[k].combo, pressing'[k].todo, down')
    BY DEF AloneIsWhole, Ahead
  <2>1. k = h
    <3>1. ASSUME k # h PROVE FALSE
      <4>1. pressing[k] # NoPress /\ pressing[k].alone
        BY <1>5, <3>1
      <4>2. pressing[h] = NoPress
        BY <3>1, <4>1 DEF KeyInv, AloneIsWhole
      <4>3. QED BY <1>1, <4>2
    <3>2. QED BY <3>1
  <2>2. pressing'[h] = [pressing[h] EXCEPT !.todo = rest]
    BY <1>6, <2>1
  <2>3. pressing[h].alone /\ pressing'[h].combo = combo
    BY <1>1, <2>1, <2>2
  <2>4. Ahead(combo, rest, down')
    BY <1>10, <1>13, <2>3 DEF Ahead
  <2>5. QED BY <1>4, <1>5, <1>7, <1>10, <2>1, <2>3, <2>4
<1>15. HeardIsWhole'
  <2>1. CASE state = 1 /\ code \notin ModCodes
    <3> SUFFICES ASSUME heard'.alone
                 PROVE  /\ heard'.mods = heard'.combo.mods
                        /\ heard'.fired = {i \in DOMAIN Binds :
                              Fires(Binds[i], Evdev(heard'.combo.key), heard'.mods)}
      BY DEF HeardIsWhole, Fires
    <3>1. heard' = [combo |-> combo, mods |-> HeldMods,
                    fired |-> {i \in DOMAIN Binds : Fires(Binds[i], code, HeldMods)},
                    alone |-> pressing[h].alone]
      BY <1>4, <2>1
    <3>2. /\ code = Evdev(combo.key)
          /\ \A m \in Modifiers : m \in combo.mods <=> ModifierCode[m] \in down
      BY <1>10, <1>13, <2>1, <3>1
    <3>3. HeldMods = combo.mods
      BY <1>10, <1>11, <3>1, <3>2 DEF HeldMods
    <3>4. QED BY <3>1, <3>2, <3>3
  <2>2. CASE ~(state = 1 /\ code \notin ModCodes)
    <3>1. heard' = heard
      BY <1>4, <2>2
    <3>2. QED BY <3>1 DEF KeyInv, HeardIsWhole, Fires
  <2>3. QED BY <2>1, <2>2
<1>16. QED BY <1>8, <1>9, <1>14, <1>15 DEF KeyInv

\* Every step with the keyboard keeps the invariant.
LEMMA KeysGoOn == KeyInv /\ [KeyNext]_keyVars => KeyInv'
<1> SUFFICES ASSUME KeyInv, [KeyNext]_keyVars PROVE KeyInv'
  OBVIOUS
<1>1. ASSUME UNCHANGED <<down, held, pressing, heard>> PROVE KeyInv'
  <2>1. KeyTypes'
    BY <1>1 DEF KeyInv, KeyTypes
  <2>2. Owed'
    BY <1>1 DEF KeyInv, Owed, Paired
  <2>3. AloneIsWhole'
    BY <1>1 DEF KeyInv, AloneIsWhole, Ahead
  <2>4. HeardIsWhole'
    BY <1>1 DEF KeyInv, HeardIsWhole, Fires
  <2>5. QED BY <2>1, <2>2, <2>3, <2>4 DEF KeyInv
<1>2. ASSUME NEW h \in Hands, NEW c \in Chords, PressYdotool(h, c) PROVE KeyInv'
  BY <1>2, KeysPress
<1>3. ASSUME NEW h \in Hands, NEW c \in Chords, PressWtype(h, c) PROVE KeyInv'
  BY <1>1, <1>3 DEF PressWtype
<1>4. ASSUME NEW h \in Hands, Emit(h) PROVE KeyInv'
  BY <1>4, KeysEmit
<1>5. CASE UserHolds("shift")
  <2>1. "shift" \in Modifiers
    BY DEF Modifiers
  <2>2. QED BY <1>5, <2>1, KeysHold
<1>6. CASE SocketChanges
  BY <1>1, <1>6 DEF SocketChanges
<1>7. CASE UNCHANGED keyVars
  BY <1>1, <1>7 DEF keyVars
<1>8. QED BY <1>2, <1>3, <1>4, <1>5, <1>6, <1>7 DEF KeyNext

\* Hyprland lists no bind with a modifier that decode_mods does not know.
PlainBinds == \A i \in DOMAIN Binds : Binds[i].mask \subseteq Modifiers

\* The bind that is picked has the key and the modifiers that are pressed.
LEMMA PickedFires ==
  ASSUME KeyInv, PlainBinds
  PROVE  RunBindIsThePress
<1> DEFINE combo == heard.combo
           r == Resolve(combo)
           found == {i \in DOMAIN Binds : BindMatches(Binds[i], combo)}
<1> SUFFICES ASSUME heard.alone, r # 0 PROVE r \in heard.fired
  BY DEF RunBindIsThePress
<1>1. /\ heard.mods = combo.mods
      /\ heard.fired = {i \in DOMAIN Binds : Fires(Binds[i], Evdev(combo.key), heard.mods)}
  BY DEF KeyInv, HeardIsWhole
<1>2. found # {} /\ r = Min(found)
  BY DEF Resolve
<1>3. found \in SUBSET Nat
  <2>1. DOMAIN Binds = 1..Len(Binds) /\ Len(Binds) \in Nat
    BY KeyAssumption, LenProperties
  <2>2. QED BY <2>1
<1>4. r \in found
  BY <1>2, <1>3, LeastExists DEF Min
<1> DEFINE bind == Binds[r]
<1>5. /\ r \in DOMAIN Binds /\ ~bind.mouse /\ bind.submap \in {"", "global"}
      /\ Lower(bind.key) = Lower(combo.key)
      /\ DecodeMods(bind.mask) = combo.mods
  BY <1>4 DEF BindMatches
<1>6. bind.mask = combo.mods
  BY <1>5 DEF PlainBinds, DecodeMods
<1>7. Evdev(bind.key) = Evdev(combo.key)
  BY <1>5 DEF Evdev
<1>8. Fires(bind, Evdev(combo.key), heard.mods)
  BY <1>1, <1>5, <1>6, <1>7 DEF Fires
<1>9. QED BY <1>1, <1>5, <1>8

-----------------------------------------------------------------------------
(* Snapshot files.                                                         *)

\* A save that a handler is at.
Save == [pc : {"write", "rename"}, name : Names, file : Nat \ {0}, save : Nat \ {0}, alone : BOOLEAN]

\* A save under way.
At(c) == saving[c] # NotSaving

\* The types, with files that exist.
FileTypes ==
    /\ disk \in Seq(Nat)
    /\ json \in [Names -> 0..Len(disk)]
    /\ tmp \in [Names -> 0..Len(disk)]
    /\ saving \in [Savers -> Save \union {NotSaving}]
    /\ \A c \in Savers : At(c) => saving[c].file \in 1..Len(disk)
    /\ saves \in Nat
    /\ DOMAIN kept = Names

\* No two names share a file, nor does a handler hold one of another name.
Apart ==
    /\ \A n, m \in Names : json[n] # 0 => json[n] # tmp[m] /\ (json[n] = json[m] => n = m)
    /\ \A n, m \in Names : tmp[n] # 0 /\ tmp[n] = tmp[m] => n = m
    /\ \A c \in Savers, n \in Names :
          At(c) /\ saving[c].name # n => saving[c].file \notin {json[n], tmp[n]}

\* A save that no other of its name overlaps has the temporary file for itself:
\* it is empty until it is written, and then what was saved.
AloneOwns ==
    \A c \in Savers : At(c) /\ saving[c].alone =>
        /\ \A d \in Savers : At(d) /\ saving[d].name = saving[c].name => d = c
        /\ tmp[saving[c].name] = saving[c].file
        /\ disk[saving[c].file] = IF saving[c].pc = "write" THEN Torn ELSE saving[c].save

\* What a load should find is there, and no handler holds its file.
Keeps ==
    \A n \in Names :
        \/ kept[n] = Unsure
        \/ kept[n] = Missing /\ json[n] = 0
        \/ /\ json[n] # 0 /\ disk[json[n]] # Torn
           /\ kept[n] = Answer("ok", disk[json[n]])
           /\ \A c \in Savers : At(c) => saving[c].file # json[n]

FileInv == FileTypes /\ Apart /\ AloneOwns /\ Keeps

\* Nothing is stored at first.
LEMMA FilesAtFirst == FileInit => FileInv
<1> SUFFICES ASSUME FileInit PROVE FileInv
  OBVIOUS
<1>1. FileTypes
  <2>1. disk \in Seq(Nat) /\ Len(disk) = 0
    BY EmptySeq DEF FileInit
  <2>2. QED BY <2>1 DEF FileInit, FileTypes, At
<1>2. Apart /\ AloneOwns
  BY DEF FileInit, Apart, AloneOwns, At
<1>3. Keeps
  BY DEF FileInit, Keeps
<1>4. QED BY <1>1, <1>2, <1>3 DEF FileInv

\* What opening does to the disk: one file is empty, the others stay.
LEMMA OpenedDisk ==
  ASSUME FileTypes, NEW c \in Savers, NEW n \in Names, Open(c, n)
  PROVE  LET file == IF tmp[n] = 0 THEN Len(disk) + 1 ELSE tmp[n]
         IN  /\ disk' \in Seq(Nat) /\ Len(disk') >= Len(disk) /\ file \in 1..Len(disk')
             /\ Len(disk') \in Nat
             /\ disk'[file] = Torn
             /\ \A i \in 1..Len(disk) : i # file => disk'[i] = disk[i]
<1> DEFINE file == IF tmp[n] = 0 THEN Len(disk) + 1 ELSE tmp[n]
<1>1. Len(disk) \in Nat /\ tmp[n] \in 0..Len(disk) /\ file \in 1..Len(disk) + 1
  BY LenProperties DEF FileTypes
<1>2. disk' = IF file > Len(disk) THEN Append(disk, Torn) ELSE [disk EXCEPT ![file] = Torn]
  BY DEF Open, Opens
<1> HIDE DEF file
<1>3. CASE file > Len(disk)
  <2>1. file = Len(disk) + 1 /\ Torn \in Nat
    BY <1>1, <1>3 DEF Torn
  <2>2. /\ disk' \in Seq(Nat) /\ Len(disk') = Len(disk) + 1
        /\ \A i \in 1..Len(disk) : disk'[i] = disk[i]
        /\ disk'[Len(disk) + 1] = Torn
    BY <1>2, <1>3, <2>1, AppendProperties DEF FileTypes
  <2>3. QED BY <1>1, <2>1, <2>2 DEF file
<1>4. CASE file <= Len(disk)
  <2>1. file \in 1..Len(disk) /\ Torn \in Nat
    BY <1>1, <1>4 DEF Torn
  <2>2. /\ disk' \in Seq(Nat) /\ Len(disk') = Len(disk)
        /\ \A i \in 1..Len(disk) : disk'[i] = IF i = file THEN Torn ELSE disk[i]
    BY <1>1, <1>2, <1>4, <2>1, ExceptSeq DEF FileTypes
  <2>3. QED BY <1>1, <2>1, <2>2 DEF file
<1>5. QED BY <1>1, <1>3, <1>4

\* A handler opens a file: the one that no handler of another name holds.
LEMMA OpenKeeps ==
  ASSUME FileInv, NEW c \in Savers, NEW n \in Names, Open(c, n)
  PROVE  FileInv'
<1> DEFINE file == IF tmp[n] = 0 THEN Len(disk) + 1 ELSE tmp[n]
<1>1. /\ disk' \in Seq(Nat) /\ Len(disk') >= Len(disk) /\ file \in 1..Len(disk')
      /\ Len(disk') \in Nat
      /\ disk'[file] = Torn
      /\ \A i \in 1..Len(disk) : i # file => disk'[i] = disk[i]
  BY OpenedDisk DEF FileInv
<1>2. Len(disk) \in Nat
  BY LenProperties DEF FileInv, FileTypes
<1>3. /\ saving[c] = NotSaving /\ saves' = saves + 1
      /\ saving' = [d \in Savers |->
            IF d = c THEN [pc |-> "write", name |-> n, file |-> file, save |-> saves',
                           alone |-> Writers(n) = {}]
            ELSE IF d \in Writers(n) THEN [saving[d] EXCEPT !.alone = FALSE]
            ELSE saving[d]]
      /\ tmp' = [tmp EXCEPT ![n] = file] /\ UNCHANGED <<json, kept>>
  BY DEF Open, Opens
<1>4. /\ ~At(c) /\ At(c)'
      /\ saving'[c].name = n /\ saving'[c].file = file /\ saving'[c].pc = "write"
      /\ saving'[c].alone = (Writers(n) = {})
      /\ saving'[c] \in Save
  BY <1>1, <1>3 DEF At, NotSaving, Save, FileInv, FileTypes
<1>5. \A d \in Savers \ {c} :
         /\ saving'[d] \in Save \union {NotSaving}
         /\ At(d)' <=> At(d)
         /\ At(d) => /\ saving'[d].name = saving[d].name /\ saving'[d].file = saving[d].file
                     /\ saving'[d].pc = saving[d].pc /\ saving'[d].save = saving[d].save
                     /\ saving'[d].alone => saving[d].alone /\ saving[d].name # n
  <2> SUFFICES ASSUME NEW d \in Savers \ {c}
               PROVE  /\ saving'[d] \in Save \union {NotSaving}
                      /\ At(d)' <=> At(d)
                      /\ At(d) => /\ saving'[d].name = saving[d].name
                                  /\ saving'[d].file = saving[d].file
                                  /\ saving'[d].pc = saving[d].pc
                                  /\ saving'[d].save = saving[d].save
                                  /\ saving'[d].alone => saving[d].alone /\ saving[d].name # n
    OBVIOUS
  <2>1. saving[d] \in Save \union {NotSaving}
    BY DEF FileInv, FileTypes
  <2>2. CASE d \in Writers(n)
    BY <1>3, <2>1, <2>2 DEF Writers, At, Save, NotSaving
  <2>3. CASE d \notin Writers(n)
    BY <1>3, <2>1, <2>3 DEF Writers, At
  <2>4. QED BY <2>2, <2>3
<1>6. /\ \A m \in Names : json[m] \in 0..Len(disk) /\ tmp[m] \in 0..Len(disk)
      /\ \A d \in Savers : At(d) => saving[d].file \in 1..Len(disk) /\ saving[d].name \in Names
  BY DEF FileInv, FileTypes, At, Save
<1>7. /\ \A m \in Names : json[m] # file
      /\ \A m \in Names \ {n} : tmp[m] # file
      /\ \A d \in Savers : At(d) /\ saving[d].name # n => saving[d].file # file
  BY <1>2, <1>6 DEF FileInv, Apart
<1> HIDE DEF file
<1>8. FileTypes'
  <2>1. json' \in [Names -> 0..Len(disk')] /\ tmp' \in [Names -> 0..Len(disk')]
    BY <1>1, <1>2, <1>3, <1>6 DEF FileInv, FileTypes
  <2>2. saving' \in [Savers -> Save \union {NotSaving}]
    BY <1>3, <1>4, <1>5
  <2>3. \A d \in Savers : At(d)' => saving'[d].file \in 1..Len(disk')
    BY <1>1, <1>2, <1>4, <1>5, <1>6
  <2>4. QED BY <1>1, <1>3, <2>1, <2>2, <2>3 DEF FileInv, FileTypes, At
<1>9. Apart'
  <2>1. \A m \in Names : tmp'[m] = IF m = n THEN file ELSE tmp[m]
    BY <1>3 DEF FileInv, FileTypes
  <2>2. \A m, k \in Names :
           json'[m] # 0 => json'[m] # tmp'[k] /\ (json'[m] = json'[k] => m = k)
    BY <1>3, <1>7, <2>1 DEF FileInv, Apart
  <2>3. \A m, k \in Names : tmp'[m] # 0 /\ tmp'[m] = tmp'[k] => m = k
    BY <1>7, <2>1 DEF FileInv, Apart
  <2>4. ASSUME NEW d \in Savers, NEW m \in Names, At(d)', saving'[d].name # m
        PROVE  saving'[d].file \notin {json'[m], tmp'[m]}
    <3>1. CASE d = c
      <4>1. m \in Names \ {n} /\ saving'[d].file = file
        BY <1>4, <2>4, <3>1
      <4>2. json'[m] # file /\ tmp'[m] # file
        BY <1>3, <1>7, <2>1, <4>1
      <4>3. QED BY <4>1, <4>2
    <3>2. CASE d # c
      <4>1. At(d) /\ saving[d].name # m /\ saving'[d].file = saving[d].file
        BY <1>5, <2>4, <3>2
      <4>2. saving[d].file # json[m] /\ saving[d].file # tmp[m]
        BY <4>1 DEF FileInv, Apart
      <4>3. m = n => saving[d].file # file
        BY <1>7, <4>1
      <4>4. QED BY <1>3, <2>1, <4>1, <4>2, <4>3
    <3>3. QED BY <3>1, <3>2
  <2>5. QED BY <2>2, <2>3, <2>4 DEF Apart, At
<1>10. AloneOwns'
  <2> SUFFICES ASSUME NEW d \in Savers, At(d)', saving'[d].alone
               PROVE  /\ \A e \in Savers : At(e)' /\ saving'[e].name = saving'[d].name => e = d
                      /\ tmp'[saving'[d].name] = saving'[d].file
                      /\ disk'[saving'[d].file] =
                            IF saving'[d].pc = "write" THEN Torn ELSE saving'[d].save
    BY DEF AloneOwns, At
  <2>1. CASE d = c
    <3>1. \A e \in Savers \ {c} : At(e) => saving[e].name # n
      BY <1>4, <2>1 DEF Writers, At
    <3>2. QED BY <1>1, <1>3, <1>4, <1>5, <2>1, <3>1 DEF FileInv, FileTypes
  <2>2. CASE d # c
    <3>1. At(d) /\ saving[d].alone /\ saving[d].name # n /\ saving[d].name \in Names
      BY <1>5, <1>6, <2>2
    <3>2. tmp'[saving[d].name] = tmp[saving[d].name]
      BY <1>3, <3>1 DEF FileInv, FileTypes
    <3>3. disk'[saving[d].file] = disk[saving[d].file]
      BY <1>1, <1>6, <1>7, <3>1
    <3>4. QED BY <1>4, <1>5, <2>2, <3>1, <3>2, <3>3 DEF FileInv, AloneOwns
  <2>3. QED BY <2>1, <2>2
<1>11. Keeps'
  <2> SUFFICES ASSUME NEW m \in Names
               PROVE  \/ kept'[m] = Unsure
                      \/ kept'[m] = Missing /\ json'[m] = 0
                      \/ /\ json'[m] # 0 /\ disk'[json'[m]] # Torn
                         /\ kept'[m] = Answer("ok", disk'[json'[m]])
                         /\ \A d \in Savers : At(d)' => saving'[d].file # json'[m]
    BY DEF Keeps, At
  <2>1. json[m] # 0 => disk'[json[m]] = disk[json[m]]
    BY <1>1, <1>6, <1>7
  <2>2. (\A d \in Savers : At(d) => saving[d].file # json[m])
           => \A d \in Savers : At(d)' => saving'[d].file # json[m]
    BY <1>4, <1>5, <1>7
  <2>3. QED BY <1>3, <2>1, <2>2 DEF FileInv, Keeps
<1>12. QED BY <1>8, <1>9, <1>10, <1>11 DEF FileInv

\* A handler writes its file, which is nobody else's snapshot.
LEMMA WriteKeeps ==
  ASSUME FileInv, NEW c \in Savers, Write(c)
  PROVE  FileInv'
<1> DEFINE file == saving[c].file
<1>1. /\ At(c) /\ saving[c] \in Save /\ saving[c].pc = "write" /\ file \in 1..Len(disk)
      /\ saving' = [saving EXCEPT ![c].pc = "rename"]
      /\ UNCHANGED <<json, tmp, saves, kept>>
  BY DEF Write, At, NotSaving, FileInv, FileTypes
<1>2. PICK contents \in {saving[c].save} \union (IF disk[file] = Torn THEN {} ELSE {Torn}) :
         disk' = [disk EXCEPT ![file] = contents]
  BY DEF Write
<1>3. contents \in Nat
  BY <1>1, <1>2 DEF Save, Torn
<1>4. /\ disk' \in Seq(Nat) /\ Len(disk') = Len(disk)
      /\ \A i \in 1..Len(disk) : disk'[i] = IF i = file THEN contents ELSE disk[i]
  BY <1>1, <1>2, <1>3, ExceptSeq DEF FileInv, FileTypes
<1>5. \A d \in Savers :
         /\ saving'[d] \in Save \union {NotSaving}
         /\ At(d)' <=> At(d)
         /\ At(d) => /\ saving'[d].name = saving[d].name /\ saving'[d].file = saving[d].file
                     /\ saving'[d].alone = saving[d].alone /\ saving'[d].save = saving[d].save
                     /\ saving'[d].pc = IF d = c THEN "rename" ELSE saving[d].pc
  <2> SUFFICES ASSUME NEW d \in Savers
               PROVE  /\ saving'[d] \in Save \union {NotSaving}
                      /\ At(d)' <=> At(d)
                      /\ At(d) => /\ saving'[d].name = saving[d].name
                                  /\ saving'[d].file = saving[d].file
                                  /\ saving'[d].alone = saving[d].alone
                                  /\ saving'[d].save = saving[d].save
                                  /\ saving'[d].pc = IF d = c THEN "rename" ELSE saving[d].pc
    OBVIOUS
  <2>1. CASE d = c
    BY <1>1, <2>1 DEF Save, At, NotSaving, FileInv, FileTypes
  <2>2. CASE d # c
    BY <1>1, <2>2 DEF At, FileInv, FileTypes
  <2>3. QED BY <2>1, <2>2
<1>6. /\ \A m \in Names : json[m] \in 0..Len(disk) /\ tmp[m] \in 0..Len(disk)
      /\ \A d \in Savers : At(d) => saving[d].file \in 1..Len(disk) /\ saving[d].name \in Names
  BY DEF FileInv, FileTypes, At, Save
<1> HIDE DEF file
<1>7. FileTypes'
  <2>1. saving' \in [Savers -> Save \union {NotSaving}]
    BY <1>1, <1>5 DEF FileInv, FileTypes
  <2>2. QED BY <1>1, <1>4, <1>5, <2>1 DEF FileInv, FileTypes, At
<1>8. Apart'
  BY <1>1, <1>5 DEF FileInv, Apart, At
<1>9. AloneOwns'
  <2> SUFFICES ASSUME NEW d \in Savers, At(d), saving[d].alone
               PROVE  disk'[saving[d].file] =
                         IF saving'[d].pc = "write" THEN Torn ELSE saving[d].save
    BY <1>1, <1>5 DEF FileInv, AloneOwns, At
  <2>1. CASE d = c
    <3>1. disk[file] = Torn
      BY <1>1, <2>1 DEF FileInv, AloneOwns, file
    <3>2. contents = saving[c].save
      BY <1>2, <3>1
    <3>3. QED BY <1>4, <1>5, <1>6, <2>1, <3>2 DEF file
  <2>2. CASE d # c
    <3>1. saving[c].name # saving[d].name
      BY <1>1, <2>2 DEF FileInv, AloneOwns
    <3>2. saving[d].file # file
      BY <1>1, <1>6, <3>1 DEF FileInv, Apart, AloneOwns, file
    <3>3. disk[saving[d].file] = IF saving[d].pc = "write" THEN Torn ELSE saving[d].save
      BY DEF FileInv, AloneOwns
    <3>4. QED BY <1>4, <1>5, <1>6, <2>2, <3>2, <3>3
  <2>3. QED BY <2>1, <2>2
<1>10. Keeps'
  <2> SUFFICES ASSUME NEW m \in Names
               PROVE  \/ kept'[m] = Unsure
                      \/ kept'[m] = Missing /\ json'[m] = 0
                      \/ /\ json'[m] # 0 /\ disk'[json'[m]] # Torn
                         /\ kept'[m] = Answer("ok", disk'[json'[m]])
                         /\ \A d \in Savers : At(d)' => saving'[d].file # json'[m]
    BY DEF Keeps, At
  <2>1. CASE /\ json[m] # 0 /\ disk[json[m]] # Torn
             /\ kept[m] = Answer("ok", disk[json[m]])
             /\ \A d \in Savers : At(d) => saving[d].file # json[m]
    <3>1. disk'[json[m]] = disk[json[m]]
      BY <1>1, <1>4, <1>6, <2>1 DEF file
    <3>2. QED BY <1>1, <1>5, <2>1, <3>1
  <2>2. QED BY <1>1, <2>1 DEF FileInv, Keeps
<1>11. QED BY <1>7, <1>8, <1>9, <1>10 DEF FileInv

\* A handler gives up its save, or all of them do.
LEMMA EndKeeps ==
  ASSUME FileInv, saving' \in [Savers -> Save \union {NotSaving}],
         \A d \in Savers : saving'[d] \in {saving[d], NotSaving},
         UNCHANGED <<disk, json, tmp, saves, kept>>
  PROVE  FileInv'
<1>1. \A d \in Savers : At(d)' => At(d) /\ saving'[d] = saving[d]
  BY DEF At
<1>2. FileTypes'
  BY <1>1 DEF FileInv, FileTypes, At
<1>3. Apart'
  BY <1>1 DEF FileInv, Apart, At
<1>4. AloneOwns'
  BY <1>1 DEF FileInv, AloneOwns, At
<1>5. Keeps'
  BY <1>1 DEF FileInv, Keeps, At
<1>6. QED BY <1>2, <1>3, <1>4, <1>5 DEF FileInv

\* The temporary file becomes the snapshot; if its handler was alone, whole.
LEMMA RenameKeeps ==
  ASSUME FileInv, NEW c \in Savers, Rename(c)
  PROVE  FileInv'
<1> DEFINE n == saving[c].name
<1>1. /\ At(c) /\ saving[c] \in Save /\ saving[c].pc = "rename" /\ n \in Names
      /\ saving' = [saving EXCEPT ![c] = NotSaving]
      /\ UNCHANGED <<disk, saves>>
  BY DEF Rename, At, NotSaving, FileInv, FileTypes, Save
<1>2. /\ saving' \in [Savers -> Save \union {NotSaving}]
      /\ \A d \in Savers : saving'[d] = IF d = c THEN NotSaving ELSE saving[d]
  BY <1>1 DEF FileInv, FileTypes
<1>3. CASE tmp[n] = 0
  BY <1>1, <1>2, <1>3, EndKeeps DEF Rename
<1>4. CASE tmp[n] # 0
  <2>1. /\ json' = [json EXCEPT ![n] = tmp[n]]
        /\ tmp' = [tmp EXCEPT ![n] = 0]
        /\ kept' = [kept EXCEPT ![n] = IF saving[c].alone
                                       THEN Answer("ok", saving[c].save) ELSE Unsure]
    BY <1>4 DEF Rename
  <2>2. /\ \A m \in Names : /\ json'[m] = IF m = n THEN tmp[n] ELSE json[m]
                            /\ tmp'[m] = IF m = n THEN 0 ELSE tmp[m]
                            /\ m # n => kept'[m] = kept[m]
        /\ kept'[n] = IF saving[c].alone THEN Answer("ok", saving[c].save) ELSE Unsure
    BY <1>1, <2>1 DEF FileInv, FileTypes
  <2>3. \A d \in Savers : At(d)' => d # c /\ At(d) /\ saving'[d] = saving[d]
    BY <1>2 DEF At
  <2>4. FileTypes'
    <3>1. /\ json' \in [Names -> 0..Len(disk')] /\ tmp' \in [Names -> 0..Len(disk')]
      BY <1>1, <2>1, LenProperties DEF FileInv, FileTypes
    <3>2. QED BY <1>1, <1>2, <2>1, <2>3, <3>1 DEF FileInv, FileTypes, At
  <2>5. Apart'
    <3>1. \A m, k \in Names :
             json'[m] # 0 => json'[m] # tmp'[k] /\ (json'[m] = json'[k] => m = k)
      BY <1>1, <1>4, <2>2 DEF FileInv, Apart
    <3>2. \A m, k \in Names : tmp'[m] # 0 /\ tmp'[m] = tmp'[k] => m = k
      BY <2>2 DEF FileInv, Apart
    <3>3. ASSUME NEW d \in Savers, NEW m \in Names, At(d)', saving'[d].name # m
          PROVE  saving'[d].file \notin {json'[m], tmp'[m]}
      <4>1. /\ At(d) /\ saving[d].name # m /\ saving'[d].file = saving[d].file
            /\ saving[d].file # 0 /\ saving[d].file \notin {json[m], tmp[m]}
        BY <2>3, <3>3, LenProperties DEF FileInv, FileTypes, Apart
      <4>2. QED BY <2>2, <4>1
    <3>4. QED BY <3>1, <3>2, <3>3 DEF Apart, At
  <2>6. AloneOwns'
    <3> SUFFICES ASSUME NEW d \in Savers, At(d)', saving'[d].alone
                 PROVE  /\ \A e \in Savers : At(e)' /\ saving'[e].name = saving'[d].name
                                                => e = d
                        /\ tmp'[saving'[d].name] = saving'[d].file
                        /\ disk'[saving'[d].file] =
                              IF saving'[d].pc = "write" THEN Torn ELSE saving'[d].save
      BY DEF AloneOwns, At
    <3>1. /\ d # c /\ At(d) /\ saving'[d] = saving[d] /\ saving[d].name \in Names
      BY <2>3 DEF FileInv, FileTypes, At, Save
    <3>2. saving[d].name # n
      BY <1>1, <3>1 DEF FileInv, AloneOwns
    <3>3. QED BY <1>1, <2>2, <2>3, <3>1, <3>2 DEF FileInv, AloneOwns
  <2>7. Keeps'
    <3> SUFFICES ASSUME NEW m \in Names
                 PROVE  \/ kept'[m] = Unsure
                        \/ kept'[m] = Missing /\ json'[m] = 0
                        \/ /\ json'[m] # 0 /\ disk'[json'[m]] # Torn
                           /\ kept'[m] = Answer("ok", disk'[json'[m]])
                           /\ \A d \in Savers : At(d)' => saving'[d].file # json'[m]
      BY DEF Keeps, At
    <3>1. CASE m # n
      BY <1>1, <2>2, <2>3, <3>1 DEF FileInv, Keeps
    <3>2. CASE m = n /\ ~saving[c].alone
      BY <2>2, <3>2
    <3>3. CASE m = n /\ saving[c].alone
      <4>1. tmp[n] = saving[c].file /\ disk[tmp[n]] = saving[c].save
        BY <1>1, <3>3 DEF FileInv, AloneOwns
      <4>2. saving[c].save # Torn
        BY <1>1 DEF Save, Torn
      <4>3. \A d \in Savers : At(d)' => saving'[d].file # tmp[n]
        BY <1>1, <2>3, <3>3 DEF FileInv, AloneOwns, Apart
      <4>4. QED BY <1>1, <1>4, <2>2, <3>3, <4>1, <4>2, <4>3
    <3>4. QED BY <3>1, <3>2, <3>3
  <2>8. QED BY <2>4, <2>5, <2>6, <2>7 DEF FileInv
<1>5. QED BY <1>3, <1>4

\* Every step keeps the files apart and the snapshots whole.
LEMMA FilesStep == FileInv /\ [FileNext]_fileVars => FileInv'
<1> SUFFICES ASSUME FileInv, [FileNext]_fileVars PROVE FileInv'
  OBVIOUS
<1>1. ASSUME NEW c \in Savers, SaveFails(c) PROVE FileInv'
  BY <1>1, EndKeeps DEF SaveFails, FileInv, FileTypes
<1>2. CASE Crash
  BY <1>2, EndKeeps DEF Crash
<1>3. ASSUME NEW n \in Names, Delete(n) PROVE FileInv'
  <2>1. /\ \A m \in Names : /\ json'[m] = IF m = n THEN 0 ELSE json[m]
                            /\ kept'[m] = IF m = n THEN Missing ELSE kept[m]
        /\ UNCHANGED <<disk, tmp, saving, saves>>
    BY <1>3 DEF Delete, FileInv, FileTypes
  <2>2. FileTypes'
    <3>1. json' \in [Names -> 0..Len(disk)]
      BY <1>3, LenProperties DEF Delete, FileInv, FileTypes
    <3>2. QED BY <1>3, <3>1 DEF Delete, FileInv, FileTypes, At
  <2>3. Apart'
    <3>1. \A d \in Savers : At(d) => saving[d].file # 0
      BY LenProperties DEF FileInv, FileTypes
    <3>2. QED BY <2>1, <3>1 DEF FileInv, Apart, At
  <2>4. AloneOwns'
    BY <2>1 DEF FileInv, AloneOwns, At
  <2>5. Keeps'
    BY <2>1 DEF FileInv, Keeps, At
  <2>6. QED BY <2>2, <2>3, <2>4, <2>5 DEF FileInv
<1>4. CASE UNCHANGED fileVars
  BY <1>4 DEF fileVars, FileInv, FileTypes, Apart, AloneOwns, Keeps, At
<1>5. QED
  BY <1>1, <1>2, <1>3, <1>4, OpenKeeps, WriteKeeps, RenameKeeps DEF FileNext

\* What is stored is what a load answers with.
LEMMA StoredIsLoaded == FileInv => SavedIsKept
<1> SUFFICES ASSUME FileInv, NEW n \in Names, Legal(n), kept[n] # Unsure
               PROVE  LoadNamed(n) = kept[n] /\ (n \in ListNames <=> kept[n] # Missing)
  BY DEF SavedIsKept
<1>1. CASE kept[n] = Missing /\ json[n] = 0
  BY <1>1 DEF LoadNamed, ListNames
<1>2. CASE json[n] # 0 /\ disk[json[n]] # Torn /\ kept[n] = Answer("ok", disk[json[n]])
  <2>1. kept[n] # Missing
    <3>1. kept[n].outcome = "ok" /\ Missing.outcome = "not found"
      BY <1>2 DEF Answer, Missing
    <3>2. QED BY <3>1
  <2>2. LoadNamed(n) = Answer("ok", disk[json[n]])
    BY <1>2 DEF LoadNamed
  <2>3. QED BY <1>2, <2>1, <2>2 DEF ListNames
<1>3. QED BY <1>1, <1>2 DEF FileInv, Keeps

-----------------------------------------------------------------------------
(* Names.                                                                  *)

\* What was named is a workspace or a window.
NameInv ==
    \/ named.of = "workspace" /\ (named.ref \in Workspaces \/ named = NotNamed)
    \/ named.of = "window" /\ named.ref \in Windows

\* Every workspace a request may name comes back as itself.
LEMMA WorkspacesSurvive == \A r \in Workspaces : WorkspaceSurvives(r)
<1> SUFFICES ASSUME NEW r \in Workspaces, r.kind = "id" => r.value >= 0
             PROVE  ParseWorkspace(EncodeWorkspace(r)) = r
  BY DEF WorkspaceSurvives
<1>1. /\ r = Ref(r.kind, r.value)
      /\ CASE r.kind \in {"id", "relative"} -> r.value \in Int
           [] r.kind \in {"name", "special"} -> TRUE
           [] r.kind \in {"prev", "next", "empty"} -> r.value = ""
           [] OTHER -> FALSE
  BY NamesAssumption
<1> DEFINE kind == r.kind
           value == r.value
<1>2. r = Ref(kind, value)
  BY <1>1
<1> HIDE DEF kind, value
<1>3. CASE kind = "id"
  <2>1. value \in Int /\ value >= 0
    BY <1>1, <1>3 DEF kind, value
  <2>2. EncodeWorkspace(r) = Number(value)
    BY <1>3 DEF EncodeWorkspace, kind, value
  <2>3. Number(value) = Text("", value)
    <3>1. (value < 0) = FALSE
      BY <2>1
    <3>2. QED BY <3>1 DEF Number, Abs
  <2>4. ParseWorkspace(Text("", value)) = Ref("id", value)
    BY DEF ParseWorkspace, Text
  <2>5. QED BY <1>2, <1>3, <2>2, <2>3, <2>4
<1>4. CASE kind = "relative"
  <2>1. value \in Int
    BY <1>1, <1>4 DEF kind, value
  <2>2. CASE value >= 0
    <3>1. EncodeWorkspace(r) = Text("+", value)
      BY <1>4, <2>2 DEF EncodeWorkspace, kind, value
    <3>2. ParseWorkspace(Text("+", value)) = Ref("relative", value)
      BY DEF ParseWorkspace, Text
    <3>3. QED BY <1>2, <1>4, <3>1, <3>2
  <2>3. CASE value < 0
    <3>1. EncodeWorkspace(r) = Text("-", -value)
      BY <1>4, <2>1, <2>3 DEF EncodeWorkspace, Number, Abs, kind, value
    <3>2. ParseWorkspace(Text("-", -value)) = Ref("relative", -(-value))
      BY DEF ParseWorkspace, Text
    <3>3. -(-value) = value
      BY <2>1
    <3>4. QED BY <1>2, <1>4, <3>1, <3>2, <3>3
  <2>4. QED BY <2>1, <2>2, <2>3
<1>5. CASE kind = "name"
  <2>1. EncodeWorkspace(r) = Text("name:", value)
    BY <1>5 DEF EncodeWorkspace, kind, value
  <2>2. ParseWorkspace(Text("name:", value)) = Ref("name", value)
    BY DEF ParseWorkspace, Text
  <2>3. QED BY <1>2, <1>5, <2>1, <2>2
<1>6. CASE kind = "special"
  <2>1. EncodeWorkspace(r) = IF value = "" THEN Text("special", "") ELSE Text("special:", value)
    BY <1>6 DEF EncodeWorkspace, kind, value
  <2>2. /\ ParseWorkspace(Text("special:", value)) = Ref("special", value)
        /\ ParseWorkspace(Text("special", "")) = Ref("special", "")
    BY DEF ParseWorkspace, Text
  <2>3. QED BY <1>2, <1>6, <2>1, <2>2
<1>7. CASE kind \in {"prev", "next", "empty"}
  <2>1. value = "" /\ EncodeWorkspace(r) = Text(kind, "")
    BY <1>1, <1>7 DEF EncodeWorkspace, kind, value
  <2>2. ParseWorkspace(Text(kind, "")) = Ref(kind, "")
    BY <1>7 DEF ParseWorkspace, Text
  <2>3. QED BY <1>2, <2>1, <2>2
<1>8. QED BY <1>1, <1>3, <1>4, <1>5, <1>6, <1>7 DEF kind

\* ... and so does every window.
LEMMA WindowsSurvive == \A w \in Windows : WindowSurvives(w)
<1> SUFFICES ASSUME NEW w \in Windows PROVE SameWindow(w, ParseWindow(EncodeWindow(w)))
  BY DEF WindowSurvives
<1>1. /\ w = Ref(w.kind, w.value)
      /\ CASE w.kind = "address" -> w.value = Address(w.value.digits, w.value.hex)
           [] w.kind \in {"pid", "class", "title", "tag"} -> TRUE
           [] w.kind = "active" -> w.value = ""
           [] OTHER -> FALSE
  BY NamesAssumption
<1>2. CASE w.kind = "address"
  <2>1. EncodeWindow(w) = Text("address:", Address(w.value.digits, TRUE))
    BY <1>2 DEF EncodeWindow
  <2>2. ParseWindow(EncodeWindow(w)) = Ref("address", Address(w.value.digits, TRUE))
    BY <2>1 DEF ParseWindow, Text
  <2>3. QED BY <1>2, <2>2 DEF SameWindow, Ref, Address
<1>3. CASE w.kind \in {"pid", "class", "title", "tag"}
  <2>1. EncodeWindow(w) \in {Text("pid:", w.value), Text("class:", w.value),
                             Text("title:", w.value), Text("tag:", w.value)}
    BY <1>3 DEF EncodeWindow
  <2>2. ParseWindow(EncodeWindow(w)) = Ref(w.kind, w.value)
    BY <1>3 DEF EncodeWindow, ParseWindow, Text
  <2>3. QED BY <1>3, <2>2 DEF SameWindow, Ref
<1>4. CASE w.kind = "active"
  BY <1>1, <1>4 DEF SameWindow, EncodeWindow, ParseWindow, Text, Ref
<1>5. QED BY <1>1, <1>2, <1>3, <1>4

\* Hence what is named last comes back.
LEMMA NamedSurvives == NameInv => NamesSurvive
<1>1. WorkspaceSurvives(Ref("empty", ""))
  <2>1. EncodeWorkspace(Ref("empty", "")) = Text("empty", "")
    BY DEF EncodeWorkspace, Ref
  <2>2. ParseWorkspace(Text("empty", "")) = Ref("empty", "")
    BY DEF ParseWorkspace, Text
  <2>3. QED BY <2>1, <2>2 DEF WorkspaceSurvives
<1>2. NotNamed.of = "workspace" /\ NotNamed.ref = Ref("empty", "")
  BY DEF NotNamed
<1>3. CASE named.of = "workspace" /\ (named.ref \in Workspaces \/ named = NotNamed)
  BY <1>1, <1>2, <1>3, WorkspacesSurvive DEF NamesSurvive
<1>4. CASE named.of = "window" /\ named.ref \in Windows
  <2>1. named.of # "workspace"
    BY <1>4
  <2>2. QED BY <1>4, <2>1, WindowsSurvive DEF NamesSurvive
<1>5. QED BY <1>3, <1>4 DEF NameInv

-----------------------------------------------------------------------------
(* Text.                                                                   *)

PixelBox == [x : Int, y : Int, w : Nat, h : Nat]
AnyLine == [cols : Int, level : Int, conf : Int, text : STRING, numeric : BOOLEAN, box : PixelBox]
Word == {w \in AnyLine : IsWord(w) /\ w.box.h > 0}

\* The words of a table are some of its lines.
LEMMA WordsAreLines ==
    ASSUME NEW lines, Table(lines)
    PROVE  ParseTsv(lines) \in Seq(Word)
<1> DEFINE parts == [i \in 1..Len(lines) |-> IF IsWord(lines[i]) THEN <<lines[i]>> ELSE <<>>]
<1>1. lines \in Seq(AnyLine) /\ Len(lines) \in Nat /\ \A i \in 1..Len(lines) : lines[i] \in AnyLine
  <2>1. lines \in Seq(AnyLine)
    BY DEF Table, AnyLine, PixelBox
  <2>2. QED BY <2>1, ElementOfSeq
<1>2. \A i \in 1..Len(lines) : IsWord(lines[i]) => lines[i] \in Word
  BY <1>1 DEF Table, Word
<1>3. \A i \in 1..Len(lines) : parts[i] \in Seq(Word)
  BY <1>2
<1>4. parts \in Seq(Seq(Word))
  BY <1>1, <1>3
<1> HIDE DEF parts
<1>5. FlattenSeq(parts) \in Seq(Word)
  BY <1>4, FlattenOfTyped
<1>6. QED BY <1>5 DEF ParseTsv, parts

\* Lines that are all words stand next to each other among the words.
LEMMA WordsStayTogether ==
    ASSUME NEW lines, Table(lines), NEW a \in Nat \ {0}, NEW n \in Nat,
           a + n - 1 <= Len(lines), \A k \in 1..n : IsWord(lines[a + k - 1])
    PROVE  \E i \in Nat \ {0} :
              /\ i + n - 1 <= Len(ParseTsv(lines))
              /\ \A k \in 1..n : ParseTsv(lines)[i + k - 1] = lines[a + k - 1]
<1> DEFINE parts == [i \in 1..Len(lines) |-> IF IsWord(lines[i]) THEN <<lines[i]>> ELSE <<>>]
           N == Len(lines)
           words == FlattenSeq(parts)
<1>1. lines \in Seq(AnyLine) /\ N \in Nat /\ \A i \in 1..N : lines[i] \in AnyLine
  <2>1. lines \in Seq(AnyLine)
    BY DEF Table, AnyLine, PixelBox
  <2>2. QED BY <2>1, ElementOfSeq
<1>2. parts \in Seq(Seq(AnyLine)) /\ Len(parts) = N
  <2>1. \A i \in 1..N : parts[i] \in Seq(AnyLine)
    BY <1>1
  <2>2. QED BY <1>1, <2>1
<1>3. \A i \in 1..N : IsWord(lines[i]) => Len(parts[i]) = 1 /\ parts[i][1] = lines[i]
  OBVIOUS
<1>4. \A i \in 1..N : Len(parts[i]) \in Nat
  BY <1>2
<1> HIDE DEF parts
<1>5. PICK off \in [0..N -> Nat] :
         /\ off[N] = Len(words)
         /\ \A i \in 1..N : off[i] = off[i - 1] + Len(parts[i])
         /\ \A i \in 1..N : \A k \in 1..Len(parts[i]) : words[off[i - 1] + k] = parts[i][k]
  <2>1. \E off \in [0..Len(parts) -> Nat] :
           /\ off[0] = 0 /\ off[Len(parts)] = Len(FlattenSeq(parts))
           /\ \A i \in 1..Len(parts) : off[i] = off[i - 1] + Len(parts[i])
           /\ \A i \in 1..Len(parts) : \A k \in 1..Len(parts[i]) :
                 FlattenSeq(parts)[off[i - 1] + k] = parts[i][k]
    BY <1>2, FlattenPlaces
  <2> HIDE DEF N
  <2>2. QED BY <1>2, <2>1 DEF words
<1>6. \A k \in 1..n : /\ a + k - 1 \in 1..N /\ a + k - 1 - 1 \in 0..N
                      /\ IsWord(lines[a + k - 1])
  <2>1. \A k \in 1..n : a + k - 1 \in 1..N /\ a + k - 1 - 1 \in 0..N
    BY <1>1
  <2>2. QED BY <2>1
<1> HIDE DEF words, N
<1> DEFINE i == off[a - 1] + 1
           S == {k \in 0..n : off[a + k - 1] = off[a - 1] + k}
<1>7. a - 1 \in 0..N /\ off[a - 1] \in Nat
  BY <1>1 DEF N
<1>8. \A k \in 0..n : k \in S
  <2>1. 0 \in S
    BY <1>7
  <2>2. ASSUME NEW k \in 1..n, k - 1 \in S PROVE k \in S
    <3> DEFINE m == a + k - 1
    <3>0. m \in 1..N /\ IsWord(lines[m])
      BY <1>6
    <3> HIDE DEF m
    <3>1. off[m] = off[m - 1] + Len(parts[m])
      BY <1>5, <3>0
    <3>2. Len(parts[m]) = 1
      BY <1>3, <3>0
    <3>3. off[a + k - 1 - 1] = off[a - 1] + (k - 1)
      <4>1. a + (k - 1) - 1 = a + k - 1 - 1
        OBVIOUS
      <4>2. QED BY <2>2, <4>1
    <3>4. off[m - 1] = off[a - 1] + (k - 1)
      BY <3>3 DEF m
    <3>5. off[m] = off[a - 1] + k
      BY <1>7, <3>1, <3>2, <3>4
    <3>6. QED BY <3>5 DEF m
  <2> HIDE DEF S
  <2>3. QED BY <2>1, <2>2, UpTo
<1>9. \A j \in 0..N : off[j] <= off[N]
  <2> DEFINE T == {d \in 0..N : off[N - d] <= off[N]}
  <2>1. 0 \in T
    BY <1>1, <1>5
  <2>2. ASSUME NEW d \in 1..N, d - 1 \in T PROVE d \in T
    <3>1. N - (d - 1) \in 1..N /\ N - (d - 1) - 1 = N - d /\ N - d \in 0..N /\ N \in 0..N /\ N - (d - 1) \in 0..N
      BY <1>1
    <3>2. off[N - (d - 1)] = off[N - d] + Len(parts[N - (d - 1)])
      BY <1>5, <3>1
    <3>3. Len(parts[N - (d - 1)]) \in Nat
      BY <1>4, <3>1 DEF N
    <3>4. off[N - (d - 1)] <= off[N]
      BY <2>2
    <3>5. off[N - d] \in Nat /\ off[N] \in Nat /\ off[N - (d - 1)] \in Nat
      BY <3>1
    <3>6. QED BY <3>2, <3>3, <3>4, <3>5
  <2>3. \A d \in 0..N : d \in T
    <3> HIDE DEF T
    <3>1. QED BY <1>1, <2>1, <2>2, UpTo
  <2>4. \A j \in 0..N : N - j \in 0..N /\ N - (N - j) = j
    BY <1>1
  <2>5. QED BY <2>3, <2>4
<1>10. i \in Nat \ {0} /\ i + n - 1 <= Len(words)
  <2>1. n \in S /\ a + n - 1 \in 0..N
    BY <1>1, <1>8 DEF N
  <2>2. off[a + n - 1] = off[a - 1] + n /\ off[a + n - 1] <= off[N]
    BY <1>9, <2>1
  <2>3. QED BY <1>5, <1>7, <2>2
<1>11. ASSUME NEW k \in 1..n PROVE words[i + k - 1] = lines[a + k - 1]
  <2> DEFINE m == a + k - 1
  <2>0. m \in 1..N /\ IsWord(lines[m])
    BY <1>6
  <2>1. words[off[m - 1] + 1] = parts[m][1]
    <3> HIDE DEF m
    <3>1. Len(parts[m]) = 1
      BY <1>3, <2>0
    <3>2. 1 \in 1..Len(parts[m])
      BY <3>1
    <3>3. QED BY <1>5, <2>0, <3>2
  <2>2. off[a + k - 1 - 1] = off[a - 1] + (k - 1)
    <3>1. k - 1 \in 0..n /\ a + (k - 1) - 1 = a + k - 1 - 1
      OBVIOUS
    <3>2. QED BY <1>8, <3>1
  <2>3. off[a + k - 1 - 1] + 1 = i + k - 1
    BY <1>7, <2>2
  <2>4. parts[m][1] = lines[m]
    <3> HIDE DEF m
    <3>1. QED BY <1>3, <2>0
  <2>5. QED BY <2>1, <2>3, <2>4
<1>12. words = ParseTsv(lines)
  BY DEF words, parts, ParseTsv
<1> HIDE DEF i
<1>13. QED BY <1>10, <1>11, <1>12

\* What is found is a run of words that spells the query, and every such is found.
LEMMA RunsAreFound ==
    ASSUME NEW words \in Seq(Word), NEW query \in Seq(STRING), query # <<>>, NEW exact,
           Len(query) <= Len(words)
    PROVE  LET ends == Len(words) - Len(query) + 1
               found == FindWordRuns(words, query, exact)
               Run(i) == Match(SubSeq(words, i, i + Len(query) - 1))
           IN  /\ \A n \in DOMAIN found :
                     \E i \in 1..ends : Spells(words, i, query, exact) /\ found[n] = Run(i)
               /\ \A i \in 1..ends :
                     Spells(words, i, query, exact) => \E n \in DOMAIN found : found[n] = Run(i)
<1> DEFINE ends == Len(words) - Len(query) + 1
           found == FindWordRuns(words, query, exact)
           Run(i) == Match(SubSeq(words, i, i + Len(query) - 1))
           V == {Run(i) : i \in 1..ends}
           parts == [i \in 1..ends |-> IF Spells(words, i, query, exact) THEN <<Run(i)>> ELSE <<>>]
<1>1. Len(words) \in Nat /\ Len(query) \in Nat /\ ends \in Nat
  OBVIOUS
<1>2. found = FlattenSeq(parts)
  BY <1>1 DEF FindWordRuns
<1> HIDE DEF ends, found, Run
<1>3. parts \in Seq(Seq(V)) /\ Len(parts) = ends
  <2>1. \A i \in 1..ends : <<Run(i)>> \in Seq(V) /\ <<>> \in Seq(V)
    OBVIOUS
  <2>2. \A i \in 1..ends : parts[i] \in Seq(V)
    <3> HIDE DEF V
    <3>1. QED BY <2>1
  <2> HIDE DEF V
  <2>3. QED BY <1>1, <2>2
<1>4. \A i \in 1..ends : \A v : v \in Range(parts[i]) <=> Spells(words, i, query, exact) /\ v = Run(i)
  <2>1. \A v, x : v \in Range(<<x>>) <=> v = x
    BY DEF Range
  <2>2. \A v : v \notin Range(<<>>)
    BY DEF Range
  <2>3. QED BY <2>1, <2>2
<1> HIDE DEF V, parts
<1>5. \A v : v \in Range(found) <=> \E i \in 1..ends : v \in Range(parts[i])
  BY <1>2, <1>3, FlattenRange
<1>6. ASSUME NEW n \in DOMAIN found
      PROVE  \E i \in 1..ends : Spells(words, i, query, exact) /\ found[n] = Run(i)
  <2>1. found[n] \in Range(found)
    BY DEF Range
  <2>2. QED BY <1>4, <1>5, <2>1
<1>7. ASSUME NEW i \in 1..ends, Spells(words, i, query, exact)
      PROVE  \E n \in DOMAIN found : found[n] = Run(i)
  <2>1. Run(i) \in Range(found)
    BY <1>4, <1>5, <1>7
  <2>2. QED BY <2>1 DEF Range
<1>8. QED BY <1>6, <1>7 DEF ends, found, Run

\* The box around two boxes reaches exactly as far as the outer one does.
LEMMA UnionIs ==
    ASSUME NEW a \in PixelBox, NEW b \in PixelBox
    PROVE  /\ UnionBox(a, b) \in PixelBox
           /\ UnionBox(a, b).x <= a.x /\ UnionBox(a, b).x <= b.x
           /\ UnionBox(a, b).y <= a.y /\ UnionBox(a, b).y <= b.y
           /\ Right(a) <= Right(UnionBox(a, b)) /\ Right(b) <= Right(UnionBox(a, b))
           /\ Bottom(a) <= Bottom(UnionBox(a, b)) /\ Bottom(b) <= Bottom(UnionBox(a, b))
           /\ UnionBox(a, b).y \in {a.y, b.y}
           /\ Bottom(UnionBox(a, b)) \in {Bottom(a), Bottom(b)}
<1>1. ASSUME NEW i \in Int, NEW j \in Int
      PROVE  /\ Min({i, j}) \in {i, j} /\ Min({i, j}) <= i /\ Min({i, j}) <= j
             /\ Max({i, j}) \in {i, j} /\ Max({i, j}) >= i /\ Max({i, j}) >= j
  <2>1. \E m \in {i, j} : \A n \in {i, j} : m <= n
    OBVIOUS
  <2>2. \E m \in {i, j} : \A n \in {i, j} : m >= n
    OBVIOUS
  <2>3. Min({i, j}) \in {i, j} /\ \A n \in {i, j} : Min({i, j}) <= n
    BY <2>1 DEF Min
  <2>4. Max({i, j}) \in {i, j} /\ \A n \in {i, j} : Max({i, j}) >= n
    BY <2>2 DEF Max
  <2>5. QED BY <2>3, <2>4
<1>2. /\ a.x \in Int /\ a.y \in Int /\ a.w \in Nat /\ a.h \in Nat
      /\ b.x \in Int /\ b.y \in Int /\ b.w \in Nat /\ b.h \in Nat
  BY DEF PixelBox
<1> DEFINE x == Min({a.x, b.x})
           y == Min({a.y, b.y})
           r == Max({Right(a), Right(b)})
           d == Max({Bottom(a), Bottom(b)})
<1>3. UnionBox(a, b) = [x |-> x, y |-> y, w |-> r - x, h |-> d - y]
  BY DEF UnionBox, BBox
<1>4. Right(a) \in Int /\ Right(b) \in Int /\ Bottom(a) \in Int /\ Bottom(b) \in Int
  BY <1>2 DEF Right, Bottom
<1>5. /\ x \in {a.x, b.x} /\ x <= a.x /\ x <= b.x
      /\ y \in {a.y, b.y} /\ y <= a.y /\ y <= b.y
  BY <1>1, <1>2
<1>6. /\ r \in {Right(a), Right(b)} /\ r >= Right(a) /\ r >= Right(b)
      /\ d \in {Bottom(a), Bottom(b)} /\ d >= Bottom(a) /\ d >= Bottom(b)
  BY <1>1, <1>4
<1> HIDE DEF x, y, r, d
<1>7. x \in Int /\ y \in Int /\ r \in Int /\ d \in Int /\ x <= r /\ y <= d
  BY <1>2, <1>4, <1>5, <1>6 DEF Right, Bottom
<1>8. r - x \in Nat /\ d - y \in Nat /\ x + (r - x) = r /\ y + (d - y) = d
  BY <1>7
<1>9. /\ UnionBox(a, b) \in PixelBox
      /\ UnionBox(a, b).x = x /\ UnionBox(a, b).y = y
      /\ Right(UnionBox(a, b)) = r /\ Bottom(UnionBox(a, b)) = d
  BY <1>3, <1>7, <1>8 DEF PixelBox, Right, Bottom
<1>10. QED BY <1>5, <1>6, <1>9

\* The box of a run is put together word by word.
LEMMA BoxIs ==
    ASSUME NEW run \in Seq(Word), run # <<>>
    PROVE  \E f \in [1..Len(run) -> PixelBox] :
              /\ f[1] = run[1].box /\ Match(run).box = f[Len(run)]
              /\ \A k \in 2..Len(run) : f[k] = UnionBox(f[k - 1], run[k].box)
<1> DEFINE N == Len(run)
           Grown(k, b) == IF k = 1 THEN run[1].box ELSE UnionBox(b, run[k].box)
           step == [p \in (1..N) \X PixelBox |-> Grown(p[1], p[2])]
<1>1. N \in Nat \ {0} /\ 1 \in 1..N /\ \A k \in 1..N : run[k].box \in PixelBox
  <2>1. N \in Nat \ {0} /\ 1 \in 1..N
    OBVIOUS
  <2>2. \A k \in 1..N : run[k] \in Word
    BY ElementOfSeq
  <2>3. QED BY <2>1, <2>2 DEF Word, AnyLine
<1>2. \A k \in 1..N, b \in PixelBox : Grown(k, b) \in PixelBox
  <2>1. \A a, b \in PixelBox : UnionBox(a, b) \in PixelBox
    BY UnionIs
  <2>2. QED BY <1>1, <2>1
<1> HIDE DEF N, Grown
<1>3. step \in Steps(N, PixelBox)
  BY <1>2 DEF Steps
<1>4. PICK f : Runs(f, N, PixelBox, run[1].box, step)
  <2> HIDE DEF step
  <2>1. QED BY <1>1, <1>3, StepsExist
<1>5. f \in [0..N -> PixelBox] /\ \A k \in 1..N : f[k] = Grown(k, f[k - 1])
  <2>1. f \in [0..N -> PixelBox] /\ \A k \in 1..N : f[k] = step[<<k, f[k - 1]>>]
    BY <1>4 DEF Runs
  <2>2. \A k \in 1..N : <<k, f[k - 1]>> \in (1..N) \X PixelBox
    <3>1. \A k \in 1..N : k - 1 \in 0..N
      BY <1>1
    <3>2. QED BY <2>1, <3>1
  <2>3. QED BY <2>1, <2>2
<1> DEFINE Solves(g) == g = [k \in 1..Len(run) |->
                              IF k = 1 THEN run[1].box ELSE UnionBox(g[k - 1], run[k].box)]
           h == [k \in 1..N |-> f[k]]
           box == CHOOSE g : Solves(g)
<1>6. Solves(h)
  <2>1. SUFFICES ASSUME NEW k \in 1..N
                 PROVE  h[k] = IF k = 1 THEN run[1].box ELSE UnionBox(h[k - 1], run[k].box)
    BY DEF N
  <2>2. CASE k = 1
    BY <1>5, <2>2 DEF Grown
  <2>3. CASE k # 1
    <3>1. k - 1 \in 1..N /\ h[k - 1] = f[k - 1]
      BY <1>1, <2>3
    <3>2. QED BY <1>5, <2>3, <3>1 DEF Grown
  <2>4. QED BY <2>2, <2>3
<1>7. Solves(box)
  <2> HIDE DEF Solves, h
  <2>1. QED BY <1>6
<1>8. Match(run).box = box[Len(run)]
  BY DEF Match
<1> HIDE DEF box
<1>9. \A k \in 1..N : box[k] = IF k = 1 THEN run[1].box ELSE UnionBox(box[k - 1], run[k].box)
  BY <1>7 DEF N
<1> DEFINE S == {k \in 0..N : k = 0 \/ box[k] = f[k]}
<1>10. \A k \in 0..N : k \in S
  <2>1. 0 \in S
    BY <1>1
  <2>2. ASSUME NEW k \in 1..N, k - 1 \in S PROVE k \in S
    <3>1. CASE k = 1
      BY <1>1, <1>5, <1>9, <3>1 DEF Grown
    <3>2. CASE k # 1
      <4>1. box[k - 1] = f[k - 1]
        BY <2>2, <3>2
      <4>2. box[k] = UnionBox(f[k - 1], run[k].box) /\ f[k] = UnionBox(f[k - 1], run[k].box)
        BY <1>5, <1>9, <3>2, <4>1 DEF Grown
      <4>3. QED BY <1>1, <4>2
    <3>3. QED BY <3>1, <3>2
  <2> HIDE DEF S
  <2>3. QED BY <1>1, <2>1, <2>2, UpTo
<1>11. h \in [1..N -> PixelBox] /\ \A k \in 1..N : h[k] = f[k] /\ h[k] = box[k]
  <2>1. \A k \in 1..N : k \in 0..N /\ k # 0
    BY <1>1
  <2>2. QED BY <1>5, <1>10, <2>1
<1> HIDE DEF h
<1>12. \A k \in 2..N : k \in 1..N /\ k - 1 \in 1..N /\ k # 1
  BY <1>1
<1>13. \A k \in 2..N : h[k] = UnionBox(h[k - 1], run[k].box)
  BY <1>9, <1>11, <1>12
<1>14. h[1] = run[1].box /\ Match(run).box = h[N]
  <2>1. N \in 1..N
    BY <1>1
  <2>2. QED BY <1>1, <1>8, <1>9, <1>11, <2>1 DEF N
<1>15. QED BY <1>11, <1>13, <1>14 DEF N

\* A run that stays on its row can be clicked: the box holds its words, and
\* every height of it is a height of one of them.
LEMMA RunClickable ==
    ASSUME NEW run \in Seq(Word), run # <<>>,
           \A k \in 2..Len(run) : SameRow(run[k - 1].box, run[k].box)
    PROVE  Clickable(Match(run))
<1> DEFINE N == Len(run)
           Covers(b, k) == \A z \in Int : b.y <= z /\ z < Bottom(b) =>
                              \E j \in 1..k : run[j].box.y <= z /\ z < Bottom(run[j].box)
           Holds(b, c) == /\ b.x <= c.x /\ Right(c) <= Right(b)
                          /\ b.y <= c.y /\ Bottom(c) <= Bottom(b)
<1>1. /\ N \in Nat \ {0} /\ 1 \in 1..N /\ N \in 1..N
      /\ \A k \in 1..N : /\ run[k].box \in PixelBox /\ run[k].box.h > 0
                         /\ run[k].conf \in Nat
  <2>1. N \in Nat \ {0} /\ 1 \in 1..N /\ N \in 1..N
    OBVIOUS
  <2>2. \A k \in 1..N : run[k] \in Word
    BY ElementOfSeq
  <2>3. ASSUME NEW w \in Word PROVE w.box \in PixelBox /\ w.box.h > 0 /\ w.conf \in Nat
    <3>1. w \in AnyLine /\ IsWord(w) /\ w.box.h > 0
      BY DEF Word
    <3>2. w.box \in PixelBox /\ w.conf \in Int
      BY <3>1 DEF AnyLine
    <3>3. w.conf >= 0
      BY <3>1 DEF IsWord
    <3>4. QED BY <3>1, <3>2, <3>3
  <2>4. QED BY <2>1, <2>2, <2>3
<1>2. PICK f \in [1..N -> PixelBox] :
         /\ f[1] = run[1].box /\ Match(run).box = f[N]
         /\ \A k \in 2..N : f[k] = UnionBox(f[k - 1], run[k].box)
  BY BoxIs
<1> HIDE DEF N
<1> DEFINE S == {k \in 0..N : k = 0 \/ /\ f[k].y < Bottom(f[k]) /\ Covers(f[k], k)
                                       /\ \A j \in 1..k : Holds(f[k], run[j].box)}
<1>3. \A b \in PixelBox : /\ b.x \in Int /\ b.y \in Int /\ b.w \in Nat /\ b.h \in Nat
                          /\ Right(b) \in Int /\ Bottom(b) \in Int /\ Bottom(b) = b.y + b.h
  BY DEF PixelBox, Right, Bottom
<1>4. ASSUME NEW k \in 1..N, k - 1 \in S PROVE k \in S
  <2>1. CASE k = 1
    <3>1. f[1] = run[1].box /\ f[1] \in PixelBox /\ f[1].h > 0
      BY <1>1, <1>2
    <3>2. f[1].y < Bottom(f[1])
      BY <1>3, <3>1
    <3>3. Covers(f[1], 1)
      BY <3>1
    <3>4. Holds(f[1], run[1].box)
      BY <1>3, <3>1
    <3> HIDE DEF Covers, Holds
    <3>5. \A j \in 1..1 : j = 1
      OBVIOUS
    <3>6. \A j \in 1..1 : Holds(f[1], run[j].box)
      BY <3>4, <3>5
    <3>7. QED BY <1>1, <2>1, <3>2, <3>3, <3>6
  <2>2. CASE k # 1
    <3> DEFINE b == f[k - 1]
               r == run[k].box
               p == run[k - 1].box
               u == f[k]
    <3>1. k - 1 \in 1..N /\ k \in 2..N /\ k - 1 # 0 /\ k - 1 \in 1..(k - 1)
      BY <1>1, <2>2
    <3>2. /\ b \in PixelBox /\ r \in PixelBox /\ p \in PixelBox /\ u \in PixelBox
          /\ u = UnionBox(b, r) /\ SameRow(p, r)
      BY <1>1, <1>2, <3>1 DEF N
    <3>3. /\ b.y < Bottom(b) /\ Covers(b, k - 1)
          /\ \A j \in 1..(k - 1) : Holds(b, run[j].box)
      BY <1>4, <3>1
    <3>4. Holds(b, p)
      <4> HIDE DEF Covers, Holds
      <4>1. QED BY <3>1, <3>3
    <3> HIDE DEF b, r, p, u
    <3>5. /\ u.x <= b.x /\ u.x <= r.x /\ u.y <= b.y /\ u.y <= r.y
          /\ Right(b) <= Right(u) /\ Right(r) <= Right(u)
          /\ Bottom(b) <= Bottom(u) /\ Bottom(r) <= Bottom(u)
          /\ u.y \in {b.y, r.y} /\ Bottom(u) \in {Bottom(b), Bottom(r)}
      BY <3>2, UnionIs
    <3>6. /\ b.x \in Int /\ b.y \in Int /\ Right(b) \in Int /\ Bottom(b) \in Int
          /\ r.x \in Int /\ r.y \in Int /\ Right(r) \in Int /\ Bottom(r) \in Int
          /\ p.x \in Int /\ p.y \in Int /\ Right(p) \in Int /\ Bottom(p) \in Int
          /\ u.x \in Int /\ u.y \in Int /\ Right(u) \in Int /\ Bottom(u) \in Int
      BY <1>3, <3>2
    <3>7. p.y < Bottom(r) /\ r.y < Bottom(p)
      BY <3>2 DEF SameRow
    <3>8. u.y < Bottom(u)
      BY <3>3, <3>5, <3>6
    <3>9. Covers(u, k)
      <4>1. SUFFICES ASSUME NEW z \in Int, u.y <= z, z < Bottom(u)
                     PROVE  \E j \in 1..k : run[j].box.y <= z /\ z < Bottom(run[j].box)
        OBVIOUS
      <4>2. (b.y <= z /\ z < Bottom(b)) \/ (r.y <= z /\ z < Bottom(r))
        <5>1. /\ u.y = b.y \/ u.y = r.y
              /\ Bottom(u) = Bottom(b) \/ Bottom(u) = Bottom(r)
          BY <3>5
        <5>2. r.y < Bottom(b) /\ b.y < Bottom(r)
          <6>1. r.y < Bottom(p) /\ Bottom(p) <= Bottom(b)
            BY <3>4, <3>7
          <6>2. b.y <= p.y /\ p.y < Bottom(r)
            BY <3>4, <3>7
          <6>3. QED BY <3>6, <6>1, <6>2
        <5>3. /\ b.y \in Int /\ r.y \in Int /\ Bottom(b) \in Int /\ Bottom(r) \in Int
          BY <3>6
        <5>4. b.y <= z \/ r.y <= z
          BY <4>1, <5>1
        <5>5. z < Bottom(b) \/ z < Bottom(r)
          BY <4>1, <5>1
        <5>6. QED BY <5>2, <5>3, <5>4, <5>5
      <4>3. CASE b.y <= z /\ z < Bottom(b)
        <5>1. PICK j \in 1..(k - 1) : run[j].box.y <= z /\ z < Bottom(run[j].box)
          BY <3>3, <4>3
        <5>2. j \in 1..k
          BY <3>1
        <5>3. QED BY <5>1, <5>2
      <4>4. CASE r.y <= z /\ z < Bottom(r)
        BY <4>4 DEF r
      <4>5. QED BY <4>2, <4>3, <4>4
    <3>10. ASSUME NEW j \in 1..k PROVE Holds(u, run[j].box)
      <4>1. CASE j = k
        BY <3>5, <4>1 DEF r
      <4>2. CASE j # k
        <5>1. j \in 1..(k - 1) /\ j \in 1..N
          BY <1>1, <4>2
        <5>2. Holds(b, run[j].box) /\ run[j].box \in PixelBox
          BY <1>1, <3>3, <5>1 DEF N
        <5> DEFINE c == run[j].box
        <5>3. Holds(b, c) /\ c.x \in Int /\ c.y \in Int /\ Right(c) \in Int /\ Bottom(c) \in Int
          BY <1>3, <5>2
        <5> HIDE DEF c
        <5>6. u.x <= c.x /\ u.y <= c.y
          <6>1. u.x <= b.x /\ b.x <= c.x /\ u.x \in Int /\ b.x \in Int /\ c.x \in Int
            BY <3>5, <3>6, <5>3
          <6>2. u.y <= b.y /\ b.y <= c.y /\ u.y \in Int /\ b.y \in Int /\ c.y \in Int
            BY <3>5, <3>6, <5>3
          <6>3. QED BY <6>1, <6>2
        <5>7. Right(c) <= Right(u) /\ Bottom(c) <= Bottom(u)
          <6>1. /\ Right(c) <= Right(b) /\ Right(b) <= Right(u)
                /\ Right(c) \in Int /\ Right(b) \in Int /\ Right(u) \in Int
            BY <3>5, <3>6, <5>3
          <6>2. /\ Bottom(c) <= Bottom(b) /\ Bottom(b) <= Bottom(u)
                /\ Bottom(c) \in Int /\ Bottom(b) \in Int /\ Bottom(u) \in Int
            BY <3>5, <3>6, <5>3
          <6>3. QED BY <6>1, <6>2
        <5>8. Holds(u, c)
          BY <5>6, <5>7
        <5>5. QED BY <5>8 DEF c
      <4>3. QED BY <4>1, <4>2
    <3> HIDE DEF Covers, Holds
    <3>11. k \in 0..N
      OBVIOUS
    <3>12. QED BY <3>8, <3>9, <3>10, <3>11 DEF u
  <2>3. QED BY <2>1, <2>2
<1>5. N \in S
  <2>1. 0 \in S
    BY <1>1
  <2> HIDE DEF S
  <2>2. \A k \in 0..N : k \in S
    BY <1>1, <1>4, <2>1, UpTo DEF N
  <2>3. QED BY <1>1, <2>2 DEF N
<1> DEFINE box == f[N]
           c == Centre(box).y
<1>6. /\ N \in Nat \ {0} /\ box \in PixelBox /\ box.y < Bottom(box) /\ Covers(box, N)
      /\ \A j \in 1..N : Holds(box, run[j].box)
  <2>1. N \in Nat \ {0} /\ N \in 1..N
    BY <1>1 DEF N
  <2> HIDE DEF Covers, Holds
  <2>2. QED BY <1>2, <1>5, <2>1
<1>7. c \in Int /\ box.y <= c /\ c < Bottom(box)
  <2> HIDE DEF box
  <2>1. /\ box.y \in Int /\ box.h \in Nat /\ Bottom(box) = box.y + box.h /\ box.h > 0
    BY <1>3, <1>6
  <2>2. c = box.y + box.h \div 2
    BY DEF Centre
  <2>3. \A h \in Nat : h > 0 => h \div 2 \in Int /\ 0 <= h \div 2 /\ h \div 2 < h
    OBVIOUS
  <2>4. QED BY <2>1, <2>2, <2>3
<1> DEFINE m == Match(run)
           C == {run[k].conf : k \in 1..N}
<1>8. m.at = run /\ m.box = box /\ m.conf = Min(C)
  <2>1. m.at = run /\ m.conf = Min(C)
    BY DEF Match, N
  <2>2. QED BY <1>2, <2>1
<1> HIDE DEF box, c, m
<1>9. \A k \in 1..N : run[k].conf >= Min(C)
  <2>1. C \in SUBSET Nat /\ C # {}
    BY <1>1 DEF N
  <2>2. \A k \in 1..N : run[k].conf \in C
    OBVIOUS
  <2> HIDE DEF C
  <2>3. \E x \in C : \A y \in C : x <= y
    BY <2>1, LeastExists
  <2>4. Min(C) \in C /\ \A y \in C : Min(C) <= y
    BY <2>3 DEF Min
  <2>5. QED BY <2>1, <2>2, <2>4
<1> HIDE DEF C
<1>10. DOMAIN run = 1..N
  BY DEF N
<1>11. \E j \in 1..N : run[j].box.y <= c /\ c < Bottom(run[j].box)
  BY <1>6, <1>7
<1>12. Centre(m.box).y = c
  BY <1>8 DEF c
<1>13. QED BY <1>6, <1>8, <1>10, <1>9, <1>11, <1>12 DEF Clickable, m

\* What the words of a run are, one by one.
LEMMA SubSeqIs ==
    ASSUME NEW V, NEW s \in Seq(V), NEW i \in Nat \ {0}, NEW n \in Nat, i + n - 1 <= Len(s)
    PROVE  /\ SubSeq(s, i, i + n - 1) \in Seq(V) /\ Len(SubSeq(s, i, i + n - 1)) = n
           /\ \A k \in 1..n : SubSeq(s, i, i + n - 1)[k] = s[i + k - 1]
<1>1. /\ SubSeq(s, i, i + n - 1) \in Seq(V)
      /\ Len(SubSeq(s, i, i + n - 1)) = n
  OBVIOUS
<1>2. ASSUME NEW k \in 1..n PROVE SubSeq(s, i, i + n - 1)[k] = s[i + k - 1]
  OBVIOUS
<1>3. QED BY <1>1, <1>2

\* Whatever is searched for, each match can be clicked, and nothing that is
\* spelled out on the page is missed.
LEMMA SearchIsRight ==
    ASSUME NEW page, Table(page), NEW query \in Seq(STRING), NEW exact
    PROVE  LET found == FindWordRuns(ParseTsv(page), query, exact)
           IN  /\ \A n \in DOMAIN found : Clickable(found[n])
               /\ query # <<>> =>
                      \A a \in DOMAIN page :
                          SpelledOut(page, a, query, exact) =>
                              \E n \in DOMAIN found :
                                  found[n].at = SubSeq(page, a, a + Len(query) - 1)
<1> DEFINE words == ParseTsv(page)
           L == Len(query)
           ends == Len(words) - L + 1
           found == FindWordRuns(words, query, exact)
           Run(i) == SubSeq(words, i, i + L - 1)
<1>1. words \in Seq(Word) /\ page \in Seq(AnyLine) /\ Len(page) \in Nat /\ L \in Nat /\ Len(words) \in Nat
  <2>1. page \in Seq(AnyLine)
    BY DEF Table, AnyLine, PixelBox
  <2>2. words \in Seq(Word)
    BY WordsAreLines
  <2> HIDE DEF words
  <2>3. QED BY <2>1, <2>2
<1>2. CASE query = <<>> \/ Len(words) < L
  <2>1. found = <<>>
    BY <1>2 DEF FindWordRuns
  <2>2. ASSUME query # <<>>, NEW a \in DOMAIN page, SpelledOut(page, a, query, exact) PROVE FALSE
    <3>1. a \in Nat \ {0} /\ a + L - 1 <= Len(page) /\ \A k \in 1..L : IsWord(page[a + k - 1])
      BY <1>1, <2>2 DEF SpelledOut
    <3>2. \E i \in Nat \ {0} : i + L - 1 <= Len(ParseTsv(page))
      BY <1>1, <3>1, WordsStayTogether
    <3>3. QED BY <1>1, <1>2, <2>2, <3>2
  <2> HIDE DEF found
  <2>3. DOMAIN found = {}
    BY <2>1
  <2>4. QED BY <2>2, <2>3 DEF found
<1>3. CASE query # <<>> /\ L <= Len(words)
  <2>0. L \in Nat \ {0} /\ ends \in Nat
    BY <1>1, <1>3
  <2>1. /\ \A n \in DOMAIN found :
             \E i \in 1..ends : Spells(words, i, query, exact) /\ found[n] = Match(Run(i))
        /\ \A i \in 1..ends :
             Spells(words, i, query, exact) => \E n \in DOMAIN found : found[n] = Match(Run(i))
    <3> HIDE DEF words
    <3>1. QED BY <1>1, <1>3, RunsAreFound
  <2> HIDE DEF words, found
  <2>2. ASSUME NEW i \in 1..ends
        PROVE  /\ Run(i) \in Seq(Word) /\ Len(Run(i)) = L
               /\ \A k \in 1..L : Run(i)[k] = words[i + k - 1]
    <3>1. i \in Nat \ {0} /\ i + L - 1 <= Len(words)
      BY <1>1, <2>0
    <3>2. words \in Seq(Word) /\ L \in Nat
      BY <1>1
    <3> HIDE DEF L, ends
    <3>3. QED BY <3>1, <3>2, SubSeqIs
  <2>3. ASSUME NEW n \in DOMAIN found PROVE Clickable(found[n])
    <3>1. PICK i \in 1..ends : Spells(words, i, query, exact) /\ found[n] = Match(Run(i))
      BY <2>1
    <3> DEFINE run == Run(i)
    <3>2. run \in Seq(Word) /\ Len(run) = L /\ \A k \in 1..L : run[k] = words[i + k - 1]
      BY <2>2
    <3>3. ASSUME NEW k \in 2..L PROVE SameRow(run[k - 1].box, run[k].box)
      <4>1. k \in 1..L /\ k > 1 /\ k - 1 \in 1..L /\ i + (k - 1) - 1 = i + k - 2
        BY <2>0
      <4>2. SameRow(words[i + k - 2].box, words[i + k - 1].box)
        BY <3>1, <4>1 DEF Spells
      <4>3. run[k] = words[i + k - 1] /\ run[k - 1] = words[i + (k - 1) - 1]
        <5> HIDE DEF run
        <5>1. QED BY <3>2, <4>1
      <4>4. QED BY <4>1, <4>2, <4>3
    <3> HIDE DEF run
    <3>4. run # <<>>
      BY <2>0, <3>2
    <3>5. Clickable(Match(run))
      BY <3>2, <3>3, <3>4, RunClickable
    <3>6. QED BY <3>1, <3>5 DEF run
  <2>4. ASSUME NEW a \in DOMAIN page, SpelledOut(page, a, query, exact)
        PROVE  \E n \in DOMAIN found : found[n].at = SubSeq(page, a, a + L - 1)
    <3>1. a \in Nat \ {0} /\ a + L - 1 <= Len(page) /\ \A k \in 1..L : IsWord(page[a + k - 1])
      BY <1>1, <2>4 DEF SpelledOut
    <3>2. PICK i \in Nat \ {0} :
             i + L - 1 <= Len(words) /\ \A k \in 1..L : words[i + k - 1] = page[a + k - 1]
      BY <1>1, <3>1, WordsStayTogether DEF words
    <3>3. i \in 1..ends
      BY <1>1, <2>0, <3>2
    <3>4. Spells(words, i, query, exact)
      <4>1. SUFFICES ASSUME NEW k \in 1..L
                     PROVE  /\ Normalize(words[i + k - 1].text, exact) = Normalize(query[k], exact)
                            /\ k > 1 => SameRow(words[i + k - 2].box, words[i + k - 1].box)
        BY DEF Spells
      <4>2. /\ Normalize(page[a + k - 1].text, exact) = Normalize(query[k], exact)
            /\ k > 1 => SameRow(page[a + k - 2].box, page[a + k - 1].box)
        BY <2>4 DEF SpelledOut, Spells
      <4>3. words[i + k - 1] = page[a + k - 1]
        BY <3>2
      <4>4. ASSUME k > 1 PROVE words[i + k - 2] = page[a + k - 2]
        <5>1. k - 1 \in 1..L /\ i + (k - 1) - 1 = i + k - 2 /\ a + (k - 1) - 1 = a + k - 2
          BY <2>0, <3>1, <4>4
        <5>2. words[i + (k - 1) - 1] = page[a + (k - 1) - 1]
          BY <3>2, <5>1
        <5>3. QED BY <5>1, <5>2
      <4>5. QED BY <4>2, <4>3, <4>4
    <3>5. PICK n \in DOMAIN found : found[n] = Match(Run(i))
      BY <2>1, <3>3, <3>4
    <3> DEFINE run == Run(i)
               lines == SubSeq(page, a, a + L - 1)
    <3>6. found[n].at = run
      BY <3>5 DEF Match
    <3>7. run \in Seq(Word) /\ Len(run) = L /\ \A k \in 1..L : run[k] = words[i + k - 1]
      BY <2>2, <3>3
    <3>8. /\ lines \in Seq(AnyLine) /\ Len(lines) = L
          /\ \A k \in 1..L : lines[k] = page[a + k - 1]
      <4>1. page \in Seq(AnyLine) /\ L \in Nat
        BY <1>1
      <4> HIDE DEF L
      <4>2. QED BY <3>1, <4>1, SubSeqIs
    <3> HIDE DEF run, lines
    <3>9. \A k \in 1..L : run[k] = lines[k]
      BY <3>2, <3>7, <3>8
    <3>10. run = lines
      BY <3>7, <3>8, <3>9
    <3>11. QED BY <3>6, <3>10 DEF lines
  <2>5. QED BY <2>3, <2>4 DEF found, words
<1>4. QED BY <1>1, <1>2, <1>3

\* What is looked at is what a search of one of the pages has found.
TextInv ==
    \/ looked = NotLooked
    \/ \E page \in Pages, query \in Queries, exact \in BOOLEAN :
           looked = [page |-> page, query |-> query, exact |-> exact,
                     found |-> FindWordRuns(ParseTsv(page), query, exact)]

\* A search that was looked up like this is right.
LEMMA TextFound == TextInv => TextIsFound
<1>1. CASE looked = NotLooked
  <2>1. looked.found = <<>> /\ looked.query = <<>>
    BY <1>1 DEF NotLooked
  <2>2. DOMAIN looked.found = {}
    BY <2>1
  <2>3. QED BY <2>1, <2>2 DEF TextIsFound
<1>2. ASSUME NEW page \in Pages, NEW query \in Queries, NEW exact \in BOOLEAN,
             looked = [page |-> page, query |-> query, exact |-> exact,
                       found |-> FindWordRuns(ParseTsv(page), query, exact)]
      PROVE  TextIsFound
  <2>1. Table(page) /\ query \in Seq(STRING)
    BY PagesAssumption
  <2> DEFINE found == FindWordRuns(ParseTsv(page), query, exact)
  <2>2. /\ \A n \in DOMAIN found : Clickable(found[n])
        /\ query # <<>> =>
               \A a \in DOMAIN page :
                   SpelledOut(page, a, query, exact) =>
                       \E n \in DOMAIN found :
                           found[n].at = SubSeq(page, a, a + Len(query) - 1)
    BY <2>1, SearchIsRight
  <2> HIDE DEF found
  <2>3. /\ looked.page = page /\ looked.query = query /\ looked.exact = exact
        /\ looked.found = found
    BY <1>2 DEF found
  <2>4. QED BY <2>2, <2>3 DEF TextIsFound
<1>3. QED BY <1>1, <1>2 DEF TextInv

-----------------------------------------------------------------------------
(* The parts together.                                                     *)

SurfaceInv == AgentInv /\ KeyInv /\ FileInv /\ TextInv /\ NameInv

\* Every part starts in its invariant, and the steps of each keep its own and
\* leave the others' variables alone.
LEMMA SurfaceStep ==
  /\ Init => SurfaceInv
  /\ SurfaceInv /\ [Next]_vars => SurfaceInv'
<1>1. Init => SurfaceInv
  <2>1. Init => NameInv
    <3>1. NotNamed.of = "workspace"
      BY DEF NotNamed
    <3>2. QED BY <3>1 DEF Init, NameInv
  <2>2. Init => AgentInit /\ KeyInit /\ FileInit /\ TextInv
    BY DEF Init, TextInv
  <2>3. QED BY <2>1, <2>2, AgentAtFirst, KeysAtFirst, FilesAtFirst DEF SurfaceInv
<1>2. ASSUME SurfaceInv, [Next]_vars PROVE SurfaceInv'
  <2>1. AgentInv /\ KeyInv /\ FileInv /\ TextInv /\ NameInv
    BY <1>2 DEF SurfaceInv
  <2>2. UNCHANGED agentVars => AgentInv'
    BY <2>1, AgentRests
  <2>3. UNCHANGED keyVars => KeyInv'
    BY <2>1, KeysGoOn
  <2>4. UNCHANGED fileVars => FileInv'
    BY <2>1, FilesStep
  <2>5. UNCHANGED named => NameInv'
    BY <2>1 DEF NameInv
  <2>0. UNCHANGED looked => TextInv'
    BY <2>1 DEF TextInv
  <2>6. CASE Calls
    <3>1. UNCHANGED <<keyVars, fileVars, looked, named>>
      BY <2>6 DEF Calls
    <3>2. AgentInv'
      BY <2>1, <2>6, AgentMakesCall, AgentAnswered, OthersMakeCall DEF Calls
    <3>3. QED BY <2>0, <2>3, <2>4, <2>5, <3>1, <3>2 DEF SurfaceInv
  <2>7. CASE Keys
    <3>1. KeyInv'
      BY <2>1, <2>7, KeysGoOn DEF Keys
    <3>2. QED BY <2>0, <2>2, <2>4, <2>5, <2>7, <3>1 DEF Keys, SurfaceInv
  <2>8. CASE Files
    <3>1. FileInv'
      BY <2>1, <2>8, FilesStep DEF Files
    <3>2. QED BY <2>0, <2>2, <2>3, <2>5, <2>8, <3>1 DEF Files, SurfaceInv
  <2>9. ASSUME NEW p \in Pages, NEW q \in Queries, NEW exact \in BOOLEAN, FindText(p, q, exact)
        PROVE  SurfaceInv'
    <3>1. TextInv'
      BY <2>9 DEF FindText, TextInv
    <3>2. UNCHANGED <<agentVars, keyVars, fileVars, named>>
      BY <2>9 DEF FindText
    <3>3. QED BY <2>2, <2>3, <2>4, <2>5, <3>1, <3>2 DEF SurfaceInv
  <2>10. CASE PutAway
    <3>1. TextInv'
      BY <2>10 DEF PutAway, TextInv, NotLooked
    <3>2. QED BY <2>2, <2>3, <2>4, <2>5, <2>10, <3>1 DEF PutAway, SurfaceInv
  <2>11. ASSUME NEW r \in Workspaces, Name("workspace", r) PROVE SurfaceInv'
    BY <2>0, <2>2, <2>3, <2>4, <2>11 DEF Name, NameInv, SurfaceInv
  <2>12. ASSUME NEW w \in Windows, Name("window", w) PROVE SurfaceInv'
    BY <2>0, <2>2, <2>3, <2>4, <2>12 DEF Name, NameInv, SurfaceInv
  <2>13. CASE UNCHANGED vars
    BY <2>0, <2>2, <2>3, <2>4, <2>5, <2>13 DEF vars, SurfaceInv
  <2>14. QED
    BY <1>2, <2>6, <2>7, <2>8, <2>9, <2>10, <2>11, <2>12, <2>13 DEF Next
<1>3. QED BY <1>1, <1>2

\* All of it holds for ever.
LEMMA SurfaceAlways == Spec => []SurfaceInv
BY SurfaceStep, PTL DEF Spec

\* Over any sequence of calls, by the agent and by others through the same
\* daemon, a call brings about nothing that no group it was granted is for
\* (Profile::allows, handle_request).
THEOREM PrivilegeHolds == Spec => []PrivilegeIsGranted
<1>1. SurfaceInv => PrivilegeIsGranted
  BY DEF SurfaceInv, AgentInv
<1>2. QED BY <1>1, SurfaceAlways, PTL

\* A call that changes something is of a tool that says it does, and was not a
\* dry run (registry, forward_or_preview).
THEOREM ChangesAreAskedFor == Spec => []OnlyAskedForChanges
<1>1. SurfaceInv => OnlyAskedForChanges
  BY DEF SurfaceInv, AgentInv
<1>2. QED BY <1>1, SurfaceAlways, PTL

\* Every key that a chord has pressed is released by the time no chord is being
\* pressed, whatever chords ran into each other (encode_ydotool_key).
THEOREM NothingIsLeftDown == Spec => []NothingStaysDown
<1>1. SurfaceInv => NothingStaysDown
  BY IdleMeansUp DEF SurfaceInv
<1>2. QED BY <1>1, SurfaceAlways, PTL

\* A chord that nobody's keys came between reaches Hyprland's binds with exactly
\* its own modifiers (encode_ydotool_key).
THEOREM ChordsArriveWhole == Spec => []ChordIsWhole
<1>1. SurfaceInv => ChordIsWhole
  BY DEF SurfaceInv, KeyInv, HeardIsWhole, ChordIsWhole
<1>2. QED BY <1>1, SurfaceAlways, PTL

\* The bind run_bind picks for a chord is one that pressing it fires, unless
\* Hyprland lists a bind with a modifier that decode_mods does not know
\* (bind_matches).
THEOREM PickedBindFires ==
  ASSUME PlainBinds
  PROVE  Spec => []RunBindIsThePress
<1>1. SurfaceInv => RunBindIsThePress
  BY PickedFires DEF SurfaceInv
<1>2. QED BY <1>1, SurfaceAlways, PTL

\* A load finds what the last save renamed into place has written, whole, and it
\* is listed, whatever fails, dies or overlaps on the way (Snapshot::save).
THEOREM SnapshotsAreKept == Spec => []SavedIsKept
<1>1. SurfaceInv => SavedIsKept
  BY StoredIsLoaded DEF SurfaceInv
<1>2. QED BY <1>1, SurfaceAlways, PTL

\* Whatever page is searched for whatever query, the centre of every match is at
\* the height of one of its words, and the words of the query, read with
\* confidence and on one row, are found wherever they stand (find_word_runs).
THEOREM TextIsAlwaysFound == Spec => []TextIsFound
<1>1. SurfaceInv => TextIsFound
  BY TextFound DEF SurfaceInv
<1>2. QED BY <1>1, SurfaceAlways, PTL

\* Every workspace and window is read back from its encoding as what it was,
\* negative workspace numbers aside (WorkspaceRef, WindowSelector).
THEOREM NamesComeBack == Spec => []NamesSurvive
<1>1. SurfaceInv => NamesSurvive
  BY NamedSurvives DEF SurfaceInv
<1>2. QED BY <1>1, SurfaceAlways, PTL
=============================================================================
