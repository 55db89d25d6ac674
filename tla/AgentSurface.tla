------------------------------ MODULE AgentSurface ------------------------------
(***************************************************************************)
(* Parts of HyprPilot that an agent meets behind a single tool, looked at  *)
(* one at a time since they share no state: the calls an agent may make    *)
(* (AgentCalls), the chords it presses (Keyboard), the text it looks for   *)
(* (TextSearch), the snapshots it keeps (SnapshotFiles) and the names it   *)
(* and the daemon give windows and workspaces (Selectors).                 *)
(***************************************************************************)
EXTENDS AgentCalls, Keyboard, TextSearch, SnapshotFiles, Selectors

CONSTANTS
    Parts,         \* of "calls", "keys", "text", "files", "names"
    Pages,         \* tables tesseract may answer with
    Queries,       \* queries, each the sequence of its words
    Workspaces,    \* references to workspaces
    Windows        \* selectors of windows

\* A reference has the value that its kind goes with; windows are named in one
\* of the ways encode knows.
ASSUME NamesAssumption ==
    /\ \A r \in Workspaces :
          /\ r = Ref(r.kind, r.value)
          /\ CASE r.kind \in {"id", "relative"} -> r.value \in Int
               [] r.kind \in {"name", "special"} -> TRUE
               [] r.kind \in {"prev", "next", "empty"} -> r.value = ""
               [] OTHER -> FALSE
    /\ \A w \in Windows :
          /\ w = Ref(w.kind, w.value)
          /\ CASE w.kind = "address" -> w.value = Address(w.value.digits, w.value.hex)
               [] w.kind \in {"pid", "class", "title", "tag"} -> TRUE
               [] w.kind = "active" -> w.value = ""
               [] OTHER -> FALSE

\* Tesseract boxes a word by at least one row of pixels.
ASSUME PagesAssumption == (\A p \in Pages : Table(p)) /\ Queries \subseteq Seq(STRING)

VARIABLES
    part,          \* the part that is looked at
    looked,        \* the last search: the page, the query, what was found
    named          \* the reference last encoded

vars == <<part, agentVars, keyVars, fileVars, looked, named>>

NotLooked == [page |-> <<>>, query |-> <<>>, exact |-> FALSE, found |-> <<>>]
NotNamed == [of |-> "workspace", ref |-> Ref("empty", "")]

\* What a part does not look at is fixed.
Init ==
    /\ part \in Parts
    /\ AgentInit
    /\ part # "calls" => open /\ started = [name |-> "unrestricted", file |-> "missing",
                                            profile |-> CHOOSE p \in Profiles : TRUE]
    /\ KeyInit
    /\ part # "keys" => tools = [wtype |-> TRUE, ydotool |-> TRUE, socket |-> TRUE]
    /\ FileInit
    /\ looked = NotLooked
    /\ named = NotNamed

\* Arguments with every field that is required, with one too few, with one
\* that does not parse, with a region or a part of one.
Given(tool) ==
    {Required[tool], Required[tool] \union Box, Required[tool] \union {"x"}}
        \union {Required[tool] \ {f} : f \in Required[tool]}
Bad(tool) == {{}} \union {{f} : f \in Required[tool] \union Optional[tool]}
Arguments(tool) ==
    [given : Given(tool), bad : Bad(tool), dry : {"absent", "true", "false", "garbled"}, active : BOOLEAN]

\* scan_for_matches: the words of the capture, and the runs of them.
FindText(page, query, exact) ==
    /\ looked' = [page |-> page, query |-> query, exact |-> exact,
                  found |-> FindWordRuns(ParseTsv(page), query, exact)]
    /\ UNCHANGED <<part, agentVars, keyVars, fileVars, named>>

PutAway == looked # NotLooked /\ looked' = NotLooked /\ UNCHANGED <<part, agentVars, keyVars, fileVars, named>>

Name(of, ref) ==
    /\ named' = [of |-> of, ref |-> ref]
    /\ UNCHANGED <<part, agentVars, keyVars, fileVars, looked>>

Calls ==
    /\ part = "calls"
    /\ \/ \E tool \in Tools : \E args \in Arguments(tool) : Call(tool, args)
       \/ Answered
       \/ \E what \in {"move", "close"} : OthersCall(what)
    /\ UNCHANGED <<part, keyVars, fileVars, looked, named>>

Keys == part = "keys" /\ KeyNext /\ UNCHANGED <<part, agentVars, fileVars, looked, named>>

Files == part = "files" /\ FileNext /\ UNCHANGED <<part, agentVars, keyVars, looked, named>>

Next ==
    \/ Calls
    \/ Keys
    \/ Files
    \/ /\ part = "text"
       /\ looked = NotLooked
       /\ \E p \in Pages, q \in Queries, exact \in BOOLEAN : FindText(p, q, exact)
    \/ PutAway
    \/ part = "names" /\ \E r \in Workspaces : Name("workspace", r)
    \/ part = "names" /\ \E s \in Windows : Name("window", s)

Spec == Init /\ [][Next]_vars

-----------------------------------------------------------------------------
(* Properties; those of calls, keys and files are in their modules.        *)

\* Every match can be clicked, and a query that stands on the page, read with
\* confidence and on one row, is found (ocr.rs:234-239).
TextIsFound ==
    /\ \A n \in DOMAIN looked.found : Clickable(looked.found[n])
    /\ looked.query # <<>> =>
           \A a \in DOMAIN looked.page :
               SpelledOut(looked.page, a, looked.query, looked.exact) =>
                   \E n \in DOMAIN looked.found :
                       looked.found[n].at = SubSeq(looked.page, a, a + Len(looked.query) - 1)

\* A name that encode gives out is read back as what it was given for
\* (selector.rs:4-6 "getting it wrong silently mis-targets a different window").
NamesSurvive ==
    IF named.of = "workspace" THEN WorkspaceSurvives(named.ref) ELSE WindowSurvives(named.ref)
=============================================================================
