----------------------------- MODULE SnapshotFiles -----------------------------
(***************************************************************************)
(* The files of hyprpilot-core/src/snapshot.rs under the handlers of the   *)
(* daemon, which run on several threads: validate_name, save (a temporary  *)
(* file that is renamed into place), load, delete and list.                *)
(*                                                                         *)
(* A name is the sequence of its characters, a file its contents: the      *)
(* number of the save that wrote it, or Torn.  Reading or removing a file  *)
(* is one step; that it is there is looked up right before.                *)
(***************************************************************************)
EXTENDS Naturals, Sequences, SequencesExt

CONSTANTS
    Savers,      \* connections to the daemon
    Names,       \* names they give to snapshots
    MaxName,     \* the longest name that is allowed
    MaxSaves     \* bound on the saves

VARIABLES
    disk,        \* the contents of each file there ever was
    json, tmp,   \* by name: its snapshot and temporary file, 0 if there is none
    saving,      \* the save each handler is at
    saves,       \* how many saves there were, up to MaxSaves
    kept         \* history: by name, what a load should find, Unsure if its
                 \* last save overlapped another one of that name

fileVars == <<disk, json, tmp, saving, saves, kept>>

Torn == 0
Answer(outcome, save) == [outcome |-> outcome, save |-> save]
Missing == Answer("not found", 0)
Unsure == Answer("unsure", 0)

\* validate_name: letters, digits, "_", "-" and ".", the last not in front.
Legal(name) ==
    /\ name # <<>>
    /\ Len(name) <= MaxName
    /\ ToSet(name) \subseteq {"a", "_", "."}
    /\ Head(name) # "."

NotSaving == [pc |-> "idle", name |-> <<>>]

FileInit ==
    /\ disk = <<>>
    /\ json = [n \in Names |-> 0]
    /\ tmp = [n \in Names |-> 0]
    /\ saving = [c \in Savers |-> NotSaving]
    /\ saves = 0
    /\ kept = [n \in Names |-> Missing]

Writers(n) == {c \in Savers : saving[c] # NotSaving /\ saving[c].name = n}

\* A handler that has opened file; other saves of the name are not alone now.
Opens(c, n, file) ==
    /\ saves < MaxSaves
    /\ saves' = saves + 1
    /\ saving[c] = NotSaving
    /\ disk' = IF file > Len(disk) THEN Append(disk, Torn) ELSE [disk EXCEPT ![file] = Torn]
    /\ saving' = [d \in Savers |->
            IF d = c THEN [pc |-> "write", name |-> n, file |-> file, save |-> saves',
                           alone |-> Writers(n) = {}]
            ELSE IF d \in Writers(n) THEN [saving[d] EXCEPT !.alone = FALSE]
            ELSE saving[d]]

\* Faulty variant: the snapshot itself is opened, and keeps its name.
OpenInPlace(c, n) ==
    LET file == IF json[n] = 0 THEN Len(disk) + 1 ELSE json[n]
    IN  /\ Legal(n)
        /\ Opens(c, n, file)
        /\ tmp' = [tmp EXCEPT ![n] = file]
        /\ UNCHANGED <<json, kept>>

\* fs::write creates the temporary file, or truncates the one that is there.
Open(c, n) ==
    LET file == IF tmp[n] = 0 THEN Len(disk) + 1 ELSE tmp[n]
    IN  /\ Legal(n)
        /\ Opens(c, n, file)
        /\ tmp' = [tmp EXCEPT ![n] = file]
        /\ UNCHANGED <<json, kept>>

\* It writes from the start of the file: what another handler has written there
\* is covered, or shows behind it.
Write(c) ==
    /\ saving[c].pc = "write"
    /\ \E contents \in {saving[c].save} \union
                       (IF disk[saving[c].file] = Torn THEN {} ELSE {Torn}) :
          disk' = [disk EXCEPT ![saving[c].file] = contents]
    /\ saving' = [saving EXCEPT ![c].pc = "rename"]
    /\ UNCHANGED <<json, tmp, saves, kept>>

\* The temporary file takes the name; if another handler has renamed it the
\* answer is an error.
Rename(c) ==
    LET n == saving[c].name
    IN  /\ saving[c].pc = "rename"
        /\ saving' = [saving EXCEPT ![c] = NotSaving]
        /\ IF tmp[n] = 0
           THEN UNCHANGED <<json, tmp, kept>>
           ELSE /\ json' = [json EXCEPT ![n] = tmp[n]]
                /\ tmp' = [tmp EXCEPT ![n] = 0]
                /\ kept' = [kept EXCEPT ![n] = IF saving[c].alone
                                               THEN Answer("ok", saving[c].save) ELSE Unsure]
        /\ UNCHANGED <<disk, saves>>

\* The disk is full or the directory gone: the temporary file stays behind.
SaveFails(c) ==
    /\ saving[c] # NotSaving
    /\ saving' = [saving EXCEPT ![c] = NotSaving]
    /\ UNCHANGED <<disk, json, tmp, saves, kept>>

\* delete_named, which finds nothing wrong with a name that is not there.
Delete(n) ==
    /\ Legal(n)
    /\ json' = [json EXCEPT ![n] = 0]
    /\ kept' = [kept EXCEPT ![n] = Missing]
    /\ UNCHANGED <<disk, tmp, saving, saves>>

Crash ==
    /\ saving' = [c \in Savers |-> NotSaving]
    /\ UNCHANGED <<disk, json, tmp, saves, kept>>

FileNext ==
    \/ \E c \in Savers, n \in Names : Open(c, n)
    \/ \E c \in Savers : Write(c) \/ Rename(c) \/ SaveFails(c)
    \/ \E n \in Names : Delete(n)
    \/ Crash

LoadNamed(n) ==
    CASE ~Legal(n) -> Answer("invalid name", 0)
      [] Legal(n) /\ json[n] = 0 -> Missing
      [] Legal(n) /\ json[n] # 0 /\ disk[json[n]] = Torn -> Answer("not JSON", 0)
      [] OTHER -> Answer("ok", disk[json[n]])

\* The names of the files that end in .json, which a temporary file does not.
ListNames == {n \in Names : json[n] # 0}

-----------------------------------------------------------------------------
(* Properties.                                                             *)

\* A load finds what the last save that was renamed into place has written,
\* whole, and list_names names it, whatever becomes of later saves: they fail,
\* the daemon dies, they overlap each other (snapshot.rs:729 "Atomic write").
\* It need not if two saves of one name overlapped and one of them ended.
SavedIsKept ==
    \A n \in Names : Legal(n) /\ kept[n] # Unsure =>
        /\ LoadNamed(n) = kept[n]
        /\ n \in ListNames <=> kept[n] # Missing
=============================================================================
