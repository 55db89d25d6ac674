------------------------------ MODULE UndoStack ------------------------------
(***************************************************************************)
(* hyprpilot-daemon/src/undo.rs: the bounded undo stack and its mirror on  *)
(* disk.  A push or a pop changes the VecDeque and then, still under the   *)
(* stack's mutex, rewrites undo.json through a temporary file and a        *)
(* rename.  The daemon's process may be killed between any two of these    *)
(* steps; the next daemon loads whatever undo.json then holds.             *)
(*                                                                         *)
(* A pop of an empty stack and undo_list change nothing and are left to    *)
(* stuttering.  Power loss is not modelled: write() does not fsync, so     *)
(* what a machine that loses power keeps is up to its file system.         *)
(***************************************************************************)
EXTENDS Naturals, Sequences, SequencesExt

CONSTANTS
    Entry,          \* the operations that may be recorded (UndoEntry)
    Capacity,       \* UNDO_CAPACITY
    InitialFiles    \* what undo.json may hold before the first start

\* The content of a file: absent, cut short, or a complete list of entries.
Missing == [kind |-> "missing", entries |-> <<>>]
Torn    == [kind |-> "torn", entries |-> <<>>]
Doc(s)  == [kind |-> "json", entries |-> s]
File    == [kind : {"missing", "torn", "json"}, entries : Seq(Entry)]

Distinct(s) == \A i, j \in 1..Len(s) : s[i] = s[j] => i = j

ASSUME UndoStackAssumption ==
    /\ Capacity \in Nat \ {0}
    /\ InitialFiles \subseteq File
    /\ \A f \in InitialFiles : Distinct(f.entries)

VARIABLES
    up,        \* is a daemon running?
    entries,   \* UndoStack::entries, oldest first
    op,        \* the push or pop that holds the mutex, and how far it got
    tmp,       \* undo.json.tmp
    file,      \* undo.json
    known,     \* history: entries recorded so far (each record is a new one)
    given,     \* history: entries pop has returned to undo()
    failed,    \* history: has persisting ever failed?
    promise    \* history: stack and entries undone as last persisted, up to
               \* the first failure

vars == <<up, entries, op, tmp, file, known, given, failed, promise>>
history == <<failed, promise>>

Idle == [kind |-> "idle"]
Step == {"mutated", "writing", "written"}
Mutation == [kind : {"push", "pop"}, entry : Entry, step : Step]

\* The loop that drops the oldest entries of an oversized file.
Newest(s) ==
    IF Len(s) > Capacity THEN SubSeq(s, Len(s) - Capacity + 1, Len(s)) ELSE s

\* The stack enable_persistence leaves: empty unless the file parses.
Restored(f) == Newest(f.entries)

\* Faulty variant: the newest entry gives way.
PushedOverNewest(s, e) == Append(IF Len(s) = Capacity THEN Front(s) ELSE s, e)

Pushed(s, e) == Append(IF Len(s) = Capacity THEN Tail(s) ELSE s, e)

Init ==
    /\ up = FALSE
    /\ entries = <<>>
    /\ op = Idle
    /\ tmp = Missing
    /\ file \in InitialFiles
    /\ known = Range(file.entries)
    /\ given = {}
    /\ failed = FALSE
    /\ promise = [hist |-> Restored(file), undone |-> {}]

\* with_capacity and enable_persistence, at daemon start.
Start ==
    /\ ~up
    /\ up' = TRUE
    /\ entries' = Restored(file)
    /\ UNCHANGED <<op, tmp, file, known, given, history>>

Push(e) ==
    /\ up /\ op = Idle
    /\ e \notin known
    /\ entries' = Pushed(entries, e)
    /\ op' = [kind |-> "push", entry |-> e, step |-> "mutated"]
    /\ known' = known \union {e}
    /\ UNCHANGED <<up, tmp, file, given, history>>

\* Faulty variant: the pop is not persisted.
PopInMemory ==
    /\ up /\ op = Idle
    /\ entries # <<>>
    /\ entries' = Front(entries)
    /\ given' = given \union {Last(entries)}
    /\ UNCHANGED <<up, op, tmp, file, known, history>>

Pop ==
    /\ up /\ op = Idle
    /\ entries # <<>>
    /\ entries' = Front(entries)
    /\ op' = [kind |-> "pop", entry |-> Last(entries), step |-> "mutated"]
    /\ UNCHANGED <<up, tmp, file, known, given, history>>

At(step) == op # Idle /\ op.step = step

\* The push or pop returns and the mutex is released; a pop hands out its entry.
Return ==
    /\ op' = Idle
    /\ given' = given \union (IF op.kind = "pop" THEN {op.entry} ELSE {})

\* Faulty variant: undo.json is rewritten in place.
OpenInPlace ==
    /\ At("mutated")
    /\ tmp' = Torn /\ file' = Torn
    /\ op' = [op EXCEPT !.step = "writing"]
    /\ UNCHANGED <<up, entries, known, given, history>>

\* fs::write truncates the temporary file before it fills it.
OpenTmp ==
    /\ At("mutated")
    /\ tmp' = Torn
    /\ op' = [op EXCEPT !.step = "writing"]
    /\ UNCHANGED <<up, entries, file, known, given, history>>

FillTmp ==
    /\ At("writing")
    /\ tmp' = Doc(entries)
    /\ op' = [op EXCEPT !.step = "written"]
    /\ UNCHANGED <<up, entries, file, known, given, history>>

Rename ==
    /\ At("written")
    /\ file' = tmp
    /\ tmp' = Missing
    /\ Return
    /\ promise' = IF failed THEN promise ELSE [hist |-> Restored(file'), undone |-> given']
    /\ UNCHANGED <<up, entries, known, failed>>

\* create_dir_all, fs::write or rename fails; persist logs it and goes on.
PersistFails ==
    /\ op # Idle
    /\ Return
    /\ failed' = TRUE
    /\ UNCHANGED <<up, entries, tmp, file, known, promise>>

\* The daemon's process ends, wherever it is; only the files are left.
Crash ==
    /\ up
    /\ up' = FALSE
    /\ entries' = <<>>
    /\ op' = Idle
    /\ UNCHANGED <<tmp, file, known, given, history>>

Next ==
    \/ Start
    \/ \E e \in Entry : Push(e)
    \/ Pop
    \/ OpenTmp
    \/ FillTmp
    \/ Rename
    \/ PersistFails
    \/ Crash

Spec == Init /\ [][Next]_vars

-----------------------------------------------------------------------------
\* Type invariant of the stack, its files and its history variables.
TypeOK ==
    /\ up \in BOOLEAN
    /\ entries \in Seq(Entry)
    /\ op \in {Idle} \union Mutation
    /\ tmp \in File
    /\ file \in File
    /\ known \subseteq Entry
    /\ given \subseteq Entry
    /\ failed \in BOOLEAN
    /\ promise \in [hist : Seq(Entry), undone : SUBSET Entry]

\* The stack never holds more than UNDO_CAPACITY entries, whatever the file
\* a daemon was started on held (undo.rs push and enable_persistence).
CapacityOK == Len(entries) <= Capacity

\* As long as persisting has not failed, between two operations undo.json
\* restores to exactly the stack in memory, so a restart loses nothing a
\* client was told of (undo.rs persist).
MirrorsMemory == up /\ op = Idle /\ ~failed => Restored(file) = entries

\* As long as persisting has not failed, an entry handed to undo() is gone for
\* good: it is neither on the stack nor in the file a restarted daemon will
\* load, so its inverse runs only once (undo.rs pop persists before it returns).
UndoneOnce == ~failed => given \cap (Range(entries) \union Range(file.entries)) = {}

\* No step of the daemon, a crash included, replaces undo.json by a file cut
\* short (undo.rs write: temporary file, then rename).
FileIntact == [][file' = Torn => file = Torn]_vars

\* Up to the first failure of the disk the stack with its file implements the
\* atomic, crash-proof history of DurableStack; an operation takes effect when
\* undo.json is renamed.
Durable == INSTANCE DurableStack WITH hist <- promise.hist, undone <- promise.undone
ImplementsDurableStack == Durable!AbstractSpec
=============================================================================
