--------------------------- MODULE RecordingStore ---------------------------
(***************************************************************************)
(* The directory of diagnostic recordings (internal/server/recordings.go): *)
(* Save() creates and writes a temporary file, renames it and prunes the   *)
(* directory.  Several requests do so at once, and nothing but the file    *)
(* system orders them.                                                     *)
(***************************************************************************)
EXTENDS Naturals, FiniteSets

CONSTANTS
    Uploads,     \* requests with a recording
    Limit        \* RecordingStore.limit, 20

ASSUME RecordingAssumption == Limit \in Nat \ {0}

VARIABLES
    dir,         \* the files of the directory
    modified,    \* when each upload's file was last created or written
    clock,       \* the time of the last modification
    saving,      \* how far each upload's Save() has come
    condemned    \* what its prune() has listed and is still to remove

times == <<modified, clock>>
storeVars == <<dir, times, saving, condemned>>

Temp(u) == [upload |-> u, kind |-> "temp"]
Recording(u) == [upload |-> u, kind |-> "recording"]

\* os.FileInfo: what prune() lists of a file and sorts by.
Info(f) == [name |-> f, time |-> modified[f.upload]]

StoreInit ==
    /\ dir = {} /\ modified = [u \in Uploads |-> 0] /\ clock = 0
    /\ saving = [u \in Uploads |-> "no"]
    /\ condemned = [u \in Uploads |-> {}]

Saves(u, from, to) == saving[u] = from /\ saving' = [saving EXCEPT ![u] = to]

\* The file system gives a file it creates or writes the time.
Touch(u) == clock' = clock + 1 /\ modified' = [modified EXCEPT ![u] = clock + 1]

\* os.CreateTemp()
Create(u) ==
    /\ Saves(u, "begun", "created")
    /\ dir' = dir \union {Temp(u)} /\ Touch(u)
    /\ UNCHANGED condemned

\* The write sets the time; it succeeds on a file that was removed meanwhile.
Write(u) ==
    /\ Saves(u, "created", "written") /\ Touch(u)
    /\ UNCHANGED <<dir, condemned>>

\* The file cannot be created, written or renamed; the deferred call removes it.
SaveFails(u) ==
    /\ \E from \in {"begun", "created", "written"} : Saves(u, from, "failed")
    /\ dir' = dir \ {Temp(u)}
    /\ UNCHANGED <<times, condemned>>

\* A file that is renamed keeps its time.  Another prune may have removed it.
Rename(u) ==
    /\ Temp(u) \in dir /\ Saves(u, "written", "renamed")
    /\ dir' = (dir \ {Temp(u)}) \union {Recording(u)}
    /\ UNCHANGED <<times, condemned>>
RenameFindsNothing(u) ==
    /\ Temp(u) \notin dir /\ Saves(u, "written", "failed")
    /\ UNCHANGED <<dir, times, condemned>>

\* As a slip would do it: the newest are removed.
Surplus_Newest(files) ==
    {i \in files : Cardinality({j \in files : j.time < i.time}) >= Limit}

\* files[:len(files)-s.limit], the files sorted by time: those with Limit newer ones.
Surplus(files) ==
    {i \in files : Cardinality({j \in files : j.time > i.time}) >= Limit}

\* As a slip would do it: a directory that is over its limit by one is left.
List_OneMore(u) ==
    LET surplus == IF Cardinality(dir) <= Limit + 1 THEN {}
                   ELSE Surplus({Info(f) : f \in dir})
    IN  /\ Saves(u, "renamed", IF surplus = {} THEN "saved" ELSE "pruning")
        /\ condemned' = [condemned EXCEPT ![u] = surplus]
        /\ UNCHANGED <<dir, times>>

\* prune() lists the directory, temporary files of others included.
List(u) ==
    LET surplus == IF Cardinality(dir) <= Limit THEN {}
                   ELSE Surplus({Info(f) : f \in dir})
    IN  /\ Saves(u, "renamed", IF surplus = {} THEN "saved" ELSE "pruning")
        /\ condemned' = [condemned EXCEPT ![u] = surplus]
        /\ UNCHANGED <<dir, times>>

\* The oldest first.  A file that is gone, or has another name by now, is no error.
RemoveOldest(u) == \E i \in condemned[u] :
    /\ \A j \in condemned[u] : i.time <= j.time
    /\ dir' = dir \ {i.name}
    /\ condemned' = [condemned EXCEPT ![u] = @ \ {i}]
    /\ Saves(u, "pruning", IF condemned[u] = {i} THEN "saved" ELSE "pruning")
    /\ UNCHANGED times

\* The listing or a removal fails: the recording is there, but not reported.
PruneFails(u) ==
    /\ \E from \in {"renamed", "pruning"} : Saves(u, from, "unpruned")
    /\ condemned' = [condemned EXCEPT ![u] = {}]
    /\ UNCHANGED <<dir, times>>

Save(u) ==
    \/ Create(u) \/ Write(u) \/ SaveFails(u) \/ Rename(u) \/ RenameFindsNothing(u)
    \/ List(u) \/ RemoveOldest(u) \/ PruneFails(u)

Returned == {"saved", "failed", "unpruned"}

\* The process is killed: what it had begun stays in the directory.
StoreCrash ==
    /\ saving' = [u \in Uploads |->
           IF saving[u] \in {"no"} \union Returned THEN saving[u] ELSE "killed"]
    /\ condemned' = [u \in Uploads |-> {}]
    /\ UNCHANGED <<dir, times>>

\* Find() matches the recording's name only.
Find(u) == Recording(u) \in dir

-----------------------------------------------------------------------------
Files == {Temp(u) : u \in Uploads} \union {Recording(u) : u \in Uploads}

TouchedSince(u) == {v \in Uploads : modified[v] > modified[u]}

\* A recording that was saved, and so one an event refers to, is found until
\* Limit others have been created or written after it, whatever the other saves
\* do, fail at or leave behind (Save(), prune(), Find()).
SavedIsFound == \A u \in Uploads :
    saving[u] \in {"renamed", "pruning", "saved", "unpruned"}
        => Find(u) \/ Cardinality(TouchedSince(u)) >= Limit

\* Beyond its limit the directory holds at most one file for each save that is
\* on its way, was killed or could not prune, whatever the order of the prunes.
DirectoryBounded ==
    Cardinality(dir) <= Limit
        + Cardinality({u \in Uploads : saving[u] \notin {"no", "saved", "failed"}})
=============================================================================
