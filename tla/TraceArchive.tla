----------------------------- MODULE TraceArchive -----------------------------
(***************************************************************************)
(* The trace files of an application (util/html_trace.py).  The owner of a *)
(* trace writes entries to its active file, moves the file aside when it   *)
(* is full or of another day, under a name no archive has, and deletes the *)
(* oldest archives.  The archive manager, a thread of the Telescope        *)
(* Manager's process, which is another process than most owners', claims   *)
(* archives in the same directory by renaming them, compresses them and    *)
(* puts back what an interrupted run left behind.  Only the file system    *)
(* stands between the two.                                                 *)
(*                                                                         *)
(* Files are those of one application and one day: their names differ in   *)
(* the numbers appended.  A trace is the number of the active file it was  *)
(* written to, and also the time of its last entry.                        *)
(***************************************************************************)
EXTENDS Integers, FiniteSetsExt, Sequences

CONSTANTS Backups,       \* backup_count
          MaxTraces,     \* bound on active files
          MaxAccidents   \* bound on failed compressions and ends of the manager

ASSUME TraceAssumption ==
    /\ Backups \in Nat \ {0} /\ {MaxTraces, MaxAccidents} \subseteq Nat

VARIABLES
    files,      \* what is in the directory, but for the active file
    active,     \* the trace that is being written
    entries,    \* _message_count # 0: the active file has entries
    owner,      \* what the owner is at: "log", or a step of _rollover
    name,       \* the name it considers
    listed,     \* archives it has listed, or is about to delete
    manager,    \* what the manager is at
    todo,       \* names of archives it has listed
    job,        \* what it compresses: the name claimed, the name aimed at
    accidents,  \* accidents so far (bounds them)
    givenBack   \* a name was given back while the owner was looking at it

ownerVars == <<active, entries, owner, name, listed>>
managerVars == <<manager, todo, job, accidents>>
traceVars == <<files, ownerVars, managerVars, givenBack>>

File(n, form, trace, time) == [name |-> n, form |-> form, trace |-> trace, time |-> time]

Named(n, form) == {f \in files : f.name = n /\ f.form = form}
Exists(n, form) == Named(n, form) # {}

\* Path.replace: the file of name n becomes another form, and what was there is gone.
Renamed(n, form, to) ==
    (files \ (Named(n, form) \cup Named(n, to))) \cup {[f EXCEPT !.form = to] : f \in Named(n, form)}

TraceInit ==
    /\ files = {}
    /\ active = 1 /\ entries = FALSE /\ owner = "log" /\ name = <<>> /\ listed = {}
    /\ manager = "recover" /\ todo = {} /\ job = [from |-> <<>>, to |-> <<>>]
    /\ accidents = 0 /\ givenBack = FALSE

-----------------------------------------------------------------------------
(* The owner, under the lock of its trace. *)

\* log_message and its like append an entry.
Log ==
    /\ owner = "log" /\ ~entries
    /\ entries' = TRUE
    /\ UNCHANGED <<files, active, owner, name, listed, managerVars, givenBack>>

\* The entry that would make the file too large, or is of a later day,
\* ends the file first.
Rollover ==
    /\ owner = "log" /\ entries /\ active < MaxTraces
    /\ owner' = "html" /\ name' = <<>>
    /\ UNCHANGED <<files, active, entries, listed, managerVars, givenBack>>

\* Mutant: a claimed archive does not take its name.
UsedFormsUnclaimed == <<"html", "gz">>

\* _archive_path_in_use looks for these forms of an archive, one by one.
UsedForms == <<"html", "gz", "claimed">>

Look(i) ==
    /\ owner = UsedForms[i]
    /\ IF Exists(name, UsedForms[i])
         THEN /\ owner' = "html"
              /\ name' = IF name = <<>> THEN <<1>> ELSE <<name[1] + 1>>
         ELSE /\ owner' = IF i = Len(UsedForms) THEN "move" ELSE UsedForms[i + 1]
              /\ name' = name
    /\ UNCHANGED <<files, active, entries, listed, managerVars, givenBack>>

\* The file gets the name, and a new one is opened when the rest is done.
MoveAside ==
    /\ owner = "move"
    /\ files' = (files \ Named(name, "html")) \cup {File(name, "html", active, active)}
    /\ owner' = "list html"
    /\ UNCHANGED <<active, entries, name, listed, managerVars, givenBack>>

\* _remove_expired_archives lists archives, and then compressed ones.
ListArchives ==
    /\ \/ /\ owner = "list html" /\ owner' = "list gz"
          /\ listed' = {<<f.name, f.form>> : f \in {g \in files : g.form = "html"}}
       \/ /\ owner = "list gz" /\ owner' = "sort"
          /\ listed' = listed
                \cup {<<f.name, f.form>> : f \in {g \in files : g.form = "gz"}}
    /\ UNCHANGED <<files, active, entries, name, managerVars, givenBack>>

Found == {f \in files : <<f.name, f.form>> \in listed}

\* Mutant: one archive too few is kept.
SpareLess(kept) == Cardinality(kept) = Backups - 1

Spare(kept) == Cardinality(kept) = Backups

\* Those still there are sorted by time; the latest stay.
SortArchives ==
    /\ owner = "sort"
    /\ \/ /\ Cardinality(Found) <= Backups
          /\ listed' = {}
       \/ \E kept \in SUBSET Found :
             /\ Cardinality(Found) > Backups /\ Spare(kept)
             /\ \A f \in kept, g \in Found \ kept : f.time >= g.time
             /\ listed' = {<<g.name, g.form>> : g \in Found \ kept}
    /\ owner' = "unlink"
    /\ UNCHANGED <<files, active, entries, name, managerVars, givenBack>>

\* The others are deleted, and the next file is opened and written to.
DeleteArchives ==
    /\ owner = "unlink"
    /\ files' = files \ Found
    /\ listed' = {} /\ owner' = "log" /\ active' = active + 1 /\ entries' = FALSE
    /\ UNCHANGED <<name, managerVars, givenBack>>

-----------------------------------------------------------------------------
(* The archive manager. *)

\* Half-written files are removed.
Recover ==
    /\ manager = "recover"
    /\ files' = {f \in files : f.form # "tmp"}
    /\ manager' = "restore"
    /\ UNCHANGED <<ownerVars, todo, job, accidents, givenBack>>

Restorable == {f.name : f \in {g \in files : g.form = "claimed" /\ ~Exists(g.name, "html")}}

\* The owner has found the name free of archives, and not yet used it.
Considered(n) == owner \in {"gz", "claimed", "move"} /\ name = n

\* A claimed archive gets its name back, unless an archive has it.
Restore ==
    /\ manager = "restore"
    /\ \E n \in Restorable :
          /\ files' = Renamed(n, "claimed", "html")
          /\ givenBack' = (givenBack \/ Considered(n))
    /\ UNCHANGED <<ownerVars, managerVars>>

Scan ==
    /\ manager = "restore" /\ Restorable = {}
    /\ todo' = {f.name : f \in {g \in files : g.form = "html"}}
    /\ manager' = "claim"
    /\ UNCHANGED <<files, ownerVars, job, accidents, givenBack>>

\* _next_compressed_path: the first name no compressed archive has.
NextFree(n) ==
    LET Taken(m) == Exists(m, "gz") \/ Exists(m, "tmp")
        free == {k \in 1..(Cardinality(files) + 1) : ~Taken(Append(n, k))}
    IN IF Taken(n) THEN Append(n, Min(free)) ELSE n

\* _compress_archive renames the archive, if it is still there, and picks
\* a name for the compressed one.
Claim ==
    /\ manager = "claim"
    /\ \E n \in todo :
          /\ todo' = todo \ {n}
          /\ IF Exists(n, "html")
               THEN /\ files' = Renamed(n, "html", "claimed")
                    /\ job' = [from |-> n, to |-> NextFree(n)]
                    /\ manager' = "write"
               ELSE UNCHANGED <<files, job, manager>>
    /\ UNCHANGED <<ownerVars, accidents, givenBack>>

Source == CHOOSE f \in files : f.name = job.from /\ f.form = "claimed"

Write ==
    /\ manager = "write"
    /\ files' = files \cup {File(job.to, "tmp", Source.trace, active)}
    /\ manager' = "publish"
    /\ UNCHANGED <<ownerVars, todo, job, accidents, givenBack>>

\* The whole file gets its name, then the time of its source, and the
\* source goes.
Publish ==
    /\ manager = "publish"
    /\ files' = Renamed(job.to, "tmp", "gz")
    /\ manager' = "stamp"
    /\ UNCHANGED <<ownerVars, todo, job, accidents, givenBack>>

Stamp ==
    /\ manager = "stamp" /\ Exists(job.to, "gz")
    /\ files' = (files \ Named(job.to, "gz"))
                   \cup {[f EXCEPT !.time = Source.time] : f \in Named(job.to, "gz")}
    /\ manager' = "drop"
    /\ UNCHANGED <<ownerVars, todo, job, accidents, givenBack>>

Drop ==
    /\ manager = "drop"
    /\ files' = files \ Named(job.from, "claimed")
    /\ manager' = "claim"
    /\ UNCHANGED <<ownerVars, todo, job, accidents, givenBack>>

\* After an error what was written goes, and the source gets its name back,
\* unless another archive has it.
GiveBack ==
    /\ IF Exists(job.from, "html")
         THEN files' = files \ Named(job.to, "tmp") /\ UNCHANGED givenBack
         ELSE /\ files' = Renamed(job.from, "claimed", "html") \ Named(job.to, "tmp")
              /\ givenBack' = (givenBack \/ Considered(job.from))
    /\ manager' = "claim"
    /\ UNCHANGED <<ownerVars, todo, job>>

\* The owner has deleted the compressed file before it got its time.
StampFails ==
    /\ manager = "stamp" /\ ~Exists(job.to, "gz")
    /\ GiveBack /\ UNCHANGED accidents

\* Compression fails.
Fail ==
    /\ manager \in {"write", "publish", "stamp", "drop"} /\ accidents < MaxAccidents
    /\ GiveBack /\ accidents' = accidents + 1

\* The next scan.
Wait ==
    /\ manager = "claim" /\ todo = {}
    /\ manager' = "recover"
    /\ UNCHANGED <<files, ownerVars, todo, job, accidents, givenBack>>

\* The Telescope Manager ends, at any point, and is started again.
Crash ==
    /\ manager # "down" /\ accidents < MaxAccidents
    /\ manager' = "down" /\ todo' = {} /\ accidents' = accidents + 1
    /\ UNCHANGED <<files, ownerVars, job, givenBack>>

Restart ==
    /\ manager = "down" /\ manager' = "recover"
    /\ UNCHANGED <<files, ownerVars, todo, job, accidents, givenBack>>

TraceNext ==
    \/ Log \/ Rollover \/ (\E i \in DOMAIN UsedForms : Look(i)) \/ MoveAside
    \/ ListArchives \/ SortArchives \/ DeleteArchives
    \/ Recover \/ Restore \/ Scan \/ Claim \/ Write \/ Publish \/ Stamp \/ Drop
    \/ StampFails \/ Wait \/ Fail \/ Crash \/ Restart

-----------------------------------------------------------------------------
(* Properties *)

\* The claimed source of a compressed file that has its name is not counted.
Archives ==
    {f \in files :
        \/ f.form \in {"html", "gz"}
        \/ f.form = "claimed" /\ (f.name = job.from => manager \notin {"stamp", "drop"})}

Kept == {f.trace : f \in Archives}

\* An interrupted compression has left a trace twice.
Doubled == \E f, g \in Archives : f # g /\ f.trace = g.trace

\* A trace that was moved aside is never lost: not when the manager ends or
\* fails half way, and not when the owner looks for a name while files are
\* being renamed.  Only the owner's own limit removes traces, and it leaves
\* as many as it says, unless an interrupted compression has left one twice.
\* One case is left out, in which the code does lose a trace: the manager
\* gives a name back after the owner has seen that no archive has it.
TracesKept ==
    [][\A t \in Kept \ Kept' :
          \/ owner = "unlink" /\ (Cardinality(Kept') >= Backups \/ Doubled)
          \/ givenBack]_traceVars
=============================================================================
