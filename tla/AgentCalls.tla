------------------------------- MODULE AgentCalls -------------------------------
(***************************************************************************)
(* What an agent can bring about through hyprpilot-mcp, over all tools and *)
(* any sequence of calls: the profile that is loaded when the server       *)
(* starts (bin/mcp.rs, capability.rs), tools/call (server.rs) with         *)
(* ToolTable, and the undo stack of the daemon, which an agent shares with *)
(* the user's command line.  How a call fails or is repeated is McpBridge. *)
(***************************************************************************)
EXTENDS ToolTable, Naturals, Sequences

CONSTANTS
    Profiles,      \* capability profiles that files may hold
    MaxRecorded    \* bound on the entries of the undo stack

VARIABLES
    started,       \* --profile: the name asked for, its file, what that holds
    open,          \* HYPRPILOT_DANGEROUS_INPUT_OK at the daemon
    recorded,      \* the undo stack: what each entry records
    closed,        \* history: did anybody but the agent close a window?
    last           \* history: the last call and what it brought about

agentVars == <<started, open, recorded, closed, last>>

Profile == [allow : SUBSET Groups, allow_tools : SUBSET Tools, deny_tools : SUBSET Tools]

ASSUME AgentAssumption == MaxRecorded \in Nat /\ Profiles \subseteq Profile

Everything == [allow |-> Groups, allow_tools |-> {}, deny_tools |-> {}]
DefaultSafe ==
    [allow |-> {"read", "window", "workspace", "undo", "snapshot", "rules"},
     allow_tools |-> {}, deny_tools |-> {}]

\* Faulty variant: a profile that cannot be loaded restricts nothing.
ResolveOpen(asked) ==
    IF asked.name = "unrestricted" \/ asked.file # "read" THEN Everything ELSE asked.profile

\* resolve_profile: "unrestricted" is built in, any other name is a file, which
\* load_from finds missing or broken, or reads.
ResolveProfile(asked) ==
    CASE asked.name = "unrestricted" -> Everything
      [] asked.name # "unrestricted" /\ asked.file \in {"missing", "broken"} -> DefaultSafe
      [] OTHER -> asked.profile

Allows(profile, tool) ==
    /\ tool \notin profile.deny_tools
    /\ tool \in profile.allow_tools \/ Registry[tool].group \in profile.allow

NoCall == [tool |-> "none", dry |-> "absent", outcome |-> "none", effects |-> {}]

AgentInit ==
    /\ started \in [name : {"unrestricted", "work"}, file : {"missing", "broken", "read"},
                   profile : Profiles]
    /\ open \in BOOLEAN
    /\ recorded = <<>>
    /\ closed = FALSE
    /\ last = NoCall

Newest == IF recorded = <<>> THEN "none" ELSE recorded[Len(recorded)]

Brings(tool, args) ==
    Looks(tool) \union UNION {Does(r, args, Newest, open) : r \in Requests(tool, args)}

\* handle_call_tool: the profile, then the arguments, then what dispatch says.
\* run_stdio reads the next line only when this one is answered.
Call(tool, args) ==
    LET End(outcome, effects) ==
            last' = [tool |-> tool, dry |-> args.dry, outcome |-> outcome,
                     effects |-> effects]
        requests == Requests(tool, args)
        pushed == IF tool \in requests THEN Records(tool) ELSE <<>>
    IN  /\ last = NoCall
        /\ Len(recorded \o pushed) <= MaxRecorded
        /\ \/ /\ ~Allows(ResolveProfile(started), tool)
              /\ End("denied", {})
              /\ UNCHANGED recorded
           \/ /\ Allows(ResolveProfile(started), tool)
              /\ ~Accepted(tool, args)
              /\ End("invalid", {})
              /\ UNCHANGED recorded
           \/ /\ Allows(ResolveProfile(started), tool)
              /\ Accepted(tool, args)
              /\ End("ok", Brings(tool, args))
              /\ recorded' = IF "undo" \in requests /\ recorded # <<>>
                             THEN SubSeq(recorded, 1, Len(recorded) - 1)
                             ELSE recorded \o pushed
        /\ UNCHANGED <<started, open, closed>>

Answered ==
    /\ last # NoCall
    /\ last' = NoCall
    /\ UNCHANGED <<started, open, recorded, closed>>

\* The user's command line moves or closes a window through the same daemon.
OthersCall(what) ==
    /\ Len(recorded) < MaxRecorded
    /\ recorded' = Append(recorded, what)
    /\ closed' = (closed \/ what = "close")
    /\ UNCHANGED <<started, open, last>>

-----------------------------------------------------------------------------
(* Properties.                                                             *)

\* What capability.rs says of each group; the composite click tools read the
\* screen or the fields of an application as well (tools.rs:1102-1107).
Contract ==
    [read |-> {}, window |-> {"focus", "window"}, workspace |-> {"workspace"},
     destructive |-> {"close"}, process |-> {"spawn"}, undo |-> {"workspace", "focus"},
     snapshot |-> {"file", "window", "workspace", "focus"}, rules |-> {},
     input |-> {"input", "screen", "fields"}, vision |-> {"screen"}, a11y |-> {"fields"},
     binds |-> {"bound"}]

\* The groups the operator has asked for, whatever has become of the file.
Granted ==
    IF started.name = "unrestricted" THEN Groups
    ELSE IF started.file # "read" THEN DefaultSafe.allow
    ELSE started.profile.allow \union {Registry[t].group : t \in started.profile.allow_tools}

\* Whatever an agent does, in whatever order: a call brings about nothing that
\* no group it was granted is for.  An undo starts a program again only if the
\* agent may close windows, or somebody else had closed one.
PrivilegeIsGranted ==
    \A e \in last.effects :
        \/ \E g \in Granted : e \in Contract[g]
        \/ /\ last.tool = "undo" /\ e = "spawn"
           /\ closed \/ "destructive" \in Granted

\* A call changes something only if its tool is marked mutating and, where the
\* tool has a dry run, if dry_run was set to false in so many words.
OnlyAskedForChanges ==
    last.effects \intersect Changes # {} =>
        /\ last.outcome = "ok"
        /\ Registry[last.tool].mutating
        /\ last.tool \in TakesDryRun => last.dry = "false"
=============================================================================
