------------------------------ MODULE FileIndex ------------------------------
(***************************************************************************)
(* The metadata index of approved folders: the scan and the two files of   *)
(* src/src/dashboard/private_index.py, the agent that repeats it           *)
(* (private_index_agent.py) and the dashboard's cache of what it read      *)
(* (_load_private_file_graph of src/src/dashboard/kaya_web.py).            *)
(*                                                                         *)
(* One root, one agent.  Entries come and go while it scans; the order of  *)
(* visits is left open.  An edition is one index as written: its number    *)
(* stands for the mtime and size that the summary and the cache compare.   *)
(* Definitions marked "variant" belong to no specification; each is the    *)
(* definition it precedes with a plausible defect.                         *)
(***************************************************************************)
EXTENDS Integers, FiniteSets, Sequences

CONSTANTS
  Root, Entries,  \* the root and everything that may be under it
  Above,          \* the folder each entry is in
  Folders,        \* the entries that are folders
  Skipped,        \* links, and folders whose name is excluded
  Missing,        \* no count
  MaxMoves,       \* bound on entries that come, go or are locked
  MaxScans,       \* bound on passes of the agent
  MaxReadFaults   \* bound on reads by the dashboard that fail

ASSUME FileIndexAssumption ==
  /\ Root \notin Entries /\ Above \in [Entries -> Folders \cup {Root}]
  /\ {MaxMoves, MaxScans, MaxReadFaults} \subseteq Nat

VARIABLES
  present, locked,  \* what is on disk; the folders scandir refuses
  moves,
  indexing,         \* "idle", "scan", "index" or "summary"
  scans,
  toVisit,          \* entries listed and not visited yet
  found, flawed,    \* the items so far; whether there is a diagnostic
  steady,           \* entries on disk ever since this scan began
  editions,         \* every index written: [items, status, steady]
  summary,          \* the summary file: [of, count]; of is 0 until there is one
  cache,            \* what the dashboard shows: [sig, count, spoilt]
  loading,          \* the load in progress: what comes next and [sig, read, count]
  readFaults

folderVars == <<present, locked, moves>>
agentVars  == <<indexing, scans, toVisit, found, flawed, steady>>
filesVars  == <<editions, summary>>
viewVars   == <<cache, loading, readFaults>>
indexVars  == <<folderVars, agentVars, filesVars, viewVars>>

NoSummary == [of |-> 0, count |-> 0]
NoLoad    == [at |-> "idle", sig |-> <<0, 0>>, read |-> NoSummary,
              count |-> Missing, spoilt |-> FALSE]

FileIndexInit ==
  /\ present = Entries /\ locked = {} /\ moves = 0
  /\ indexing = "idle" /\ scans = 0 /\ toVisit = {}
  /\ found = {} /\ flawed = FALSE /\ steady = {}
  /\ editions = <<>> /\ summary = NoSummary
  /\ cache = [sig |-> <<0, 0>>, count |-> Missing, spoilt |-> FALSE]
  /\ loading = NoLoad /\ readFaults = 0

-----------------------------------------------------------------------------
(* The folder *)

Within(e) == {x \in present : Above[x] = e}

EntryGoes(e) ==
  /\ e \in present /\ Within(e) = {}
  /\ present' = present \ {e} /\ steady' = steady \ {e}
  /\ UNCHANGED locked

EntryComes(e) ==
  /\ e \notin present /\ Above[e] \in present \cup {Root}
  /\ present' = present \cup {e}
  /\ UNCHANGED <<locked, steady>>

FolderLocks(e) ==
  /\ e \in present \cap Folders
  /\ locked' = IF e \in locked THEN locked \ {e} ELSE locked \cup {e}
  /\ UNCHANGED <<present, steady>>

FolderMoves ==
  /\ moves < MaxMoves /\ moves' = moves + 1
  /\ \E e \in Entries : EntryGoes(e) \/ EntryComes(e) \/ FolderLocks(e)
  /\ UNCHANGED <<indexing, scans, toVisit, found, flawed, filesVars, viewVars>>

-----------------------------------------------------------------------------
(* scan_authorized_roots, and main of the agent *)

ScanBegins ==
  /\ indexing = "idle" /\ scans < MaxScans
  /\ scans' = scans + 1 /\ indexing' = "scan"
  /\ toVisit' = Within(Root) /\ found' = {Root} /\ flawed' = FALSE
  /\ steady' = present
  /\ UNCHANGED <<folderVars, filesVars, viewVars>>

(* visit: what cannot be looked at leaves a diagnostic and no item. *)
Visits(e) ==
  /\ indexing = "scan" /\ e \in toVisit
  /\ UNCHANGED <<folderVars, indexing, scans, steady, filesVars, viewVars>>

VisitsGone(e) ==
  /\ Visits(e) /\ e \notin present
  /\ flawed' = TRUE /\ toVisit' = toVisit \ {e}
  /\ UNCHANGED found

VisitsSkipped(e) ==
  /\ Visits(e) /\ e \in present \cap Skipped
  /\ toVisit' = toVisit \ {e}
  /\ UNCHANGED <<found, flawed>>

(* Variant: a folder that cannot be listed is kept, as an empty one. *)
KeptAsEmpty(e) == found' = found \cup {e} /\ UNCHANGED flawed

LeftWithDiagnostic(e) == flawed' = TRUE /\ UNCHANGED found

VisitsLocked(e) ==
  /\ Visits(e) /\ e \in (present \cap locked) \ Skipped
  /\ LeftWithDiagnostic(e) /\ toVisit' = toVisit \ {e}

VisitsKept(e) ==
  /\ Visits(e) /\ e \in present \ (Skipped \cup locked)
  /\ found' = found \cup {e}
  /\ toVisit' = (toVisit \ {e}) \cup (IF e \in Folders THEN Within(e) ELSE {})
  /\ UNCHANGED flawed

VisitsOne ==
  \E e \in Entries : VisitsGone(e) \/ VisitsSkipped(e) \/ VisitsLocked(e) \/ VisitsKept(e)

ScanEnds ==
  /\ indexing = "scan" /\ toVisit = {}
  /\ indexing' = "index"
  /\ UNCHANGED <<folderVars, scans, toVisit, found, flawed, steady, filesVars, viewVars>>

(* write_private_index_atomic: the new file replaces the old one whole. *)
WritesIndex ==
  /\ indexing = "index"
  /\ editions' = Append(editions, [items |-> found, steady |-> steady,
                                   status |-> IF flawed THEN "partial" ELSE "indexed"])
  /\ indexing' = "summary"
  /\ UNCHANGED <<folderVars, scans, toVisit, found, flawed, steady, summary, viewVars>>

(* write_private_index_summary_atomic stats the index it summarises. *)
WritesSummary ==
  /\ indexing = "summary"
  /\ summary' = [of |-> Len(editions), count |-> Cardinality(found)]
  /\ indexing' = "idle"
  /\ UNCHANGED <<folderVars, scans, toVisit, found, flawed, steady, editions, viewVars>>

AgentDies ==
  /\ indexing # "idle" /\ scans < MaxScans
  /\ indexing' = "idle" /\ toVisit' = {}
  /\ UNCHANGED <<folderVars, scans, found, flawed, steady, filesVars, viewVars>>

-----------------------------------------------------------------------------
(* _load_private_file_graph, for a request that finds the cache out of date *)

Signature == <<Len(editions), summary.of>>

Loads(at, next) ==
  /\ loading.at = at /\ loading' = [next EXCEPT !.at = @]
  /\ UNCHANGED <<folderVars, agentVars, filesVars, cache>>

(* Variant: a graph is loaded once. *)
NeverLoaded == cache.sig = <<0, 0>>

OutOfDate == cache.sig # Signature

LoadBegins ==
  /\ Len(editions) > 0 /\ OutOfDate
  /\ Loads("idle", [NoLoad EXCEPT !.at = "summary", !.sig = Signature])
  /\ UNCHANGED readFaults

(* The summary is read first, and its stamp compared with the index after. *)
ReadsSummary ==
  /\ Loads("summary", [loading EXCEPT !.at = "compare", !.read = summary])
  /\ UNCHANGED readFaults

(* Variant: a summary is believed as long as there is one. *)
AnySummary(s) == s # NoSummary

OfThisIndex(s) == s.of = Len(editions)

TakesSummary ==
  /\ OfThisIndex(loading.read)
  /\ Loads("compare", [loading EXCEPT !.at = "keep", !.count = loading.read.count])
  /\ UNCHANGED readFaults

RefusesSummary ==
  /\ ~OfThisIndex(loading.read)
  /\ Loads("compare", [loading EXCEPT !.at = "index"])
  /\ UNCHANGED readFaults

ReadsIndex ==
  /\ Loads("index", [loading EXCEPT !.at = "keep",
                                    !.count = Cardinality(editions[Len(editions)].items)])
  /\ UNCHANGED readFaults

(* A read refused for a moment: the index is left out of this graph, and   *)
(* the graph is cached all the same.                                       *)
FileReadFails ==
  /\ readFaults < MaxReadFaults /\ readFaults' = readFaults + 1
  /\ Loads("index", [loading EXCEPT !.at = "keep", !.spoilt = TRUE])

KeepsLoad ==
  /\ loading.at = "keep"
  /\ cache' = [sig |-> loading.sig, count |-> loading.count, spoilt |-> loading.spoilt]
  /\ loading' = NoLoad
  /\ UNCHANGED <<folderVars, agentVars, filesVars, readFaults>>

AgentStep == ScanBegins \/ VisitsOne \/ ScanEnds \/ WritesIndex \/ WritesSummary
LoadStep  ==
  LoadBegins \/ ReadsSummary \/ TakesSummary \/ RefusesSummary \/ ReadsIndex \/ KeepsLoad

FileIndexNext == FolderMoves \/ AgentDies \/ FileReadFails \/ AgentStep \/ LoadStep
FileIndexSpec ==
  /\ FileIndexInit /\ [][FileIndexNext]_indexVars
  /\ WF_indexVars(AgentStep) /\ WF_indexVars(LoadStep)

-----------------------------------------------------------------------------

FileIndexTypeOK ==
  /\ present \subseteq Entries /\ locked \subseteq Folders /\ moves \in 0..MaxMoves
  /\ indexing \in {"idle", "scan", "index", "summary"} /\ scans \in 0..MaxScans
  /\ toVisit \subseteq Entries /\ found \subseteq Entries \cup {Root}
  /\ flawed \in BOOLEAN /\ steady \subseteq Entries
  /\ editions \in Seq([items : SUBSET (Entries \cup {Root}), steady : SUBSET Entries,
                       status : {"indexed", "partial"}])
  /\ summary.of \in 0..Len(editions)
  /\ loading.at \in {"idle", "summary", "compare", "index", "keep"}
  /\ readFaults \in 0..MaxReadFaults

(* An index that says "indexed" lists everything that was there from the   *)
(* beginning of its scan to the end, under every folder it lists; and no   *)
(* item without the folder it is in, which validate_private_index refuses. *)
IndexedIsWhole ==
  \A k \in 1..Len(editions) :
    LET ed == editions[k] IN
    /\ \A e \in ed.items \ {Root} : Above[e] \in ed.items
    /\ ed.status = "indexed" =>
         \A e \in ed.steady \ Skipped : Above[e] \in ed.items => e \in ed.items

(* A graph shown for the files as they are is the graph of the index as it *)
(* is: a summary is taken with the index it describes or not at all, and   *)
(* an index replaced during the load is loaded again.  A load whose read   *)
(* failed is the exception: it is kept until a file changes.               *)
ShownIsCurrent ==
  (cache.sig = Signature /\ Len(editions) > 0 /\ ~cache.spoilt) =>
    cache.count = Cardinality(editions[Len(editions)].items)

(* However the agent's writes and the dashboard's reads interleave, the    *)
(* last index is shown in the end.                                         *)
LastIndexIsShown ==
  <>[](cache.sig = Signature)

(* An index says what was there, and the dashboard shows what it says. *)
IndexIsTrue == IndexedIsWhole /\ ShownIsCurrent
=============================================================================
