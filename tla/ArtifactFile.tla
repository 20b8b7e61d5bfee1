---------------------------- MODULE ArtifactFile ----------------------------
(***************************************************************************)
(* How artifacts reach their paths: the sinks of tailtriage-core           *)
(* (sink.rs) and the completed-span JSONL writer of tailtriage-tracing     *)
(* (recorder.rs).  Both file writers fill a temporary file made with       *)
(* create_new and rename it over the target.  The sink tries one name,     *)
(* syncs, and removes that name after any error; the JSONL writer goes     *)
(* through several names, does not sync, and removes only a file it made.  *)
(*                                                                         *)
(* A directory maps paths to files; every writer makes at most one file.   *)
(* Any operation may fail, the removal of a temporary file included, a     *)
(* writer's process may crash between any two, and the power may fail      *)
(* once.                                                                   *)
(***************************************************************************)
EXTENDS Integers, Sequences, FiniteSets

CONSTANTS
    Writers,
    Kind,      \* [Writers -> {"json", "jsonl", "memory", "discard"}]
    Target,    \* [Writers -> path]
    Names,     \* [Writers -> sequence of temporary paths to try]
    MaxReads   \* bound: calls of take_run and clear

FileWriters == {w \in Writers : Kind[w] \in {"json", "jsonl"}}
Sinks == {w \in FileWriters : Kind[w] = "json"}
Targets == {Target[w] : w \in FileWriters}
Temps == UNION {{Names[w][k] : k \in DOMAIN Names[w]} : w \in FileWriters}
Paths == Targets \cup Temps

NoFile == "none"
Previous == "previous"     \* the artifact of an earlier run

\* The names of the sink (".F.tmp-pid-nanos") and of the JSONL writer
\* (".F.tailtriage-tmp-pid-nanos-attempt") never meet; nothing keeps two
\* sinks, or two JSONL writers, from choosing one name.
ASSUME FileAssumption ==
    /\ {NoFile, Previous} \cap Writers = {}
    /\ Targets \cap Temps = {}
    /\ \A w \in FileWriters : Names[w] \in Seq(Temps) /\ Len(Names[w]) > 0
    /\ \A v \in Sinks, w \in FileWriters \ Sinks :
           Names[v][1] \notin {Names[w][k] : k \in DOMAIN Names[w]}

VARIABLES
    dir,      \* [Paths -> file, or NoFile]
    data,     \* [files -> "empty", "partial", "whole" or "synced"]
    writer,   \* [Writers -> [pc, attempt, file]]
    memory,   \* MemorySink: the set of the one run it holds, if any
    reads,    \* calls of take_run and clear so far
    power     \* has the power failed?

vars == <<dir, data, writer, memory, reads, power>>

Init ==
    /\ dir = [p \in Paths |-> IF p \in Targets THEN Previous ELSE NoFile]
    /\ data = [f \in FileWriters \cup {Previous} |-> IF f = Previous THEN "synced" ELSE "empty"]
    /\ writer = [w \in Writers |-> [pc |-> "begin", attempt |-> 1, file |-> NoFile]]
    /\ memory = {}
    /\ reads = 0
    /\ power = "on"

----------------------------------------------------------------------------
Temp(w) == Names[w][writer[w].attempt]
At(w, pc) == writer[w].pc = pc
Goto(w, pc) == writer' = [writer EXCEPT ![w].pc = pc]

Rest == <<memory, reads, power>>

\* RunSink::write of DiscardSink and MemorySink.
WriteMemory(w) ==
    /\ Kind[w] \in {"memory", "discard"} /\ At(w, "begin")
    /\ memory' = IF Kind[w] = "memory" THEN {w} ELSE memory
    /\ Goto(w, "ok")
    /\ UNCHANGED <<dir, data, reads, power>>

\* take_run and clear; last_run changes nothing.
TakeRun ==
    /\ reads < MaxReads /\ reads' = reads + 1
    /\ memory' = {}
    /\ UNCHANGED <<dir, data, writer, power>>

\* create_output_parent_dir, for the JSONL writer only.
Begin(w) ==
    /\ w \in FileWriters /\ At(w, "begin")
    /\ \/ Goto(w, "create")
       \/ Kind[w] = "jsonl" /\ Goto(w, "failed")
    /\ UNCHANGED <<dir, data, Rest>>

\* Mutant: the temporary file is opened with create and truncate.
Bug_OpenExisting(w) ==
    LET file == IF dir[Temp(w)] = NoFile THEN w ELSE dir[Temp(w)]
    IN  /\ At(w, "create")
        /\ dir' = [dir EXCEPT ![Temp(w)] = file]
        /\ data' = [data EXCEPT ![file] = "empty"]
        /\ writer' = [writer EXCEPT ![w].pc = "write", ![w].file = file]
        /\ UNCHANGED Rest

\* OpenOptions::create_new.
CreateTemp(w) ==
    /\ At(w, "create") /\ dir[Temp(w)] = NoFile
    /\ dir' = [dir EXCEPT ![Temp(w)] = w]
    /\ writer' = [writer EXCEPT ![w].pc = "write", ![w].file = w]
    /\ UNCHANGED <<data, Rest>>

\* The name is taken: the JSONL writer tries the next one, if there is one.
NameTaken(w) ==
    /\ At(w, "create") /\ dir[Temp(w)] # NoFile
    /\ IF Kind[w] = "json"
       THEN Goto(w, "cleanup")
       ELSE IF writer[w].attempt < Len(Names[w])
            THEN writer' = [writer EXCEPT ![w].attempt = @ + 1]
            ELSE Goto(w, "failed")
    /\ UNCHANGED <<dir, data, Rest>>

\* Any other error of create_new.
CreateFails(w) ==
    /\ At(w, "create")
    /\ Goto(w, IF Kind[w] = "json" THEN "cleanup" ELSE "failed")
    /\ UNCHANGED <<dir, data, Rest>>

\* Serialization into the file, then the flush of its last bytes; the sink
\* syncs as well.
WriteRecords(w) ==
    /\ At(w, "write")
    /\ data' = [data EXCEPT ![writer[w].file] = "partial"]
    /\ Goto(w, "flush")
    /\ UNCHANGED <<dir, Rest>>

Flush(w) ==
    /\ At(w, "flush")
    /\ data' = [data EXCEPT ![writer[w].file] = "whole"]
    /\ Goto(w, IF Kind[w] = "json" THEN "sync" ELSE "rename")
    /\ UNCHANGED <<dir, Rest>>

Sync(w) ==
    /\ At(w, "sync")
    /\ data' = [data EXCEPT ![writer[w].file] = "synced"]
    /\ Goto(w, "rename")
    /\ UNCHANGED <<dir, Rest>>

\* A write, a flush, a sync or a rename that fails.
StepFails(w) ==
    /\ writer[w].pc \in {"write", "flush", "sync", "rename"}
    /\ Goto(w, "cleanup")
    /\ UNCHANGED <<dir, data, Rest>>

\* rename(temp, target) of whatever the name stands for by now.
Rename(w) ==
    /\ At(w, "rename") /\ dir[Temp(w)] # NoFile
    /\ dir' = [dir EXCEPT ![Target[w]] = dir[Temp(w)], ![Temp(w)] = NoFile]
    /\ Goto(w, "ok")
    /\ UNCHANGED <<data, Rest>>

\* Mutant: an error is returned at once, the file stays.
Bug_NoCleanup(w) ==
    /\ At(w, "cleanup")
    /\ Goto(w, "failed")
    /\ UNCHANGED <<dir, data, Rest>>

\* remove_file(temp), whatever writer's file the name leads to by now, and
\* the error is returned.
Cleanup(w) ==
    /\ At(w, "cleanup")
    /\ dir' = [dir EXCEPT ![Temp(w)] = NoFile]
    /\ Goto(w, "failed")
    /\ UNCHANGED <<data, Rest>>

\* The error of remove_file is discarded: the first one is returned as above,
\* and the name stays.
CleanupFails(w) ==
    /\ At(w, "cleanup")
    /\ Goto(w, "left")
    /\ UNCHANGED <<dir, data, Rest>>

\* "left" is "failed" with a temporary file that could not be removed.
Finished == {"ok", "failed", "left", "crashed"}

\* The writer's process dies; what it wrote so far is in the page cache.
Crash(w) ==
    /\ w \in FileWriters /\ writer[w].pc \notin Finished
    /\ Goto(w, "crashed")
    /\ UNCHANGED <<dir, data, Rest>>

\* Everything stops, and what was not synced is lost.  (The directory is taken
\* to keep its renames: neither writer syncs it.)
PowerFails ==
    /\ power = "on" /\ power' = "failed"
    /\ writer' = [w \in Writers |-> IF writer[w].pc \in Finished THEN writer[w]
                                    ELSE [writer[w] EXCEPT !.pc = "crashed"]]
    /\ data' = [f \in DOMAIN data |-> IF data[f] = "synced" THEN "synced" ELSE "partial"]
    /\ memory' = {}
    /\ UNCHANGED <<dir, reads>>

Next ==
    \/ \E w \in Writers :
          \/ WriteMemory(w) \/ Begin(w) \/ CreateTemp(w) \/ NameTaken(w) \/ CreateFails(w)
          \/ WriteRecords(w) \/ Flush(w) \/ Sync(w) \/ StepFails(w) \/ Rename(w) \/ Cleanup(w)
          \/ CleanupFails(w) \/ Crash(w)
    \/ TakeRun \/ PowerFails

Spec == Init /\ [][Next]_vars

----------------------------------------------------------------------------
SameName(v, w) == Names[v][1] = Names[w][1]

\* Three sinks chose one name, and one of them writes to this target: one
\* creates the file, one removes it, having met it, and one creates it anew
\* for the first to rename.
Crowded(t) ==
    \E u, v, w \in Sinks :
        /\ u # v /\ v # w /\ u # w
        /\ SameName(u, w) /\ SameName(v, w) /\ Target[w] = t

\* A reader of a target path finds a file, at any time, and a whole artifact:
\* the previous one or one that a writer finished, whatever failed or crashed
\* meanwhile, however many JSONL writers try the same names, and even if two
\* sinks chose one name.  With three (Crowded) the sink's removal of a file
\* it did not create lets it be unfinished.  A synced Run JSON survives a
\* power failure; the span JSONL, never synced, may not.
TargetWhole ==
    \A t \in Targets :
        /\ dir[t] # NoFile
        /\ \/ Crowded(t) \/ data[dir[t]] \in {"whole", "synced"}
           \/ power = "failed" /\ Kind[dir[t]] = "jsonl"

\* Another sink that chose the same name met it, removed it and returned its
\* error.
Robbed(w) == w \in Sinks /\ \E v \in Sinks \ {w} : SameName(v, w) /\ writer[v].pc = "failed"

\* A writer that succeeded leaves no temporary name that leads to its file,
\* nor does one that failed unless the file could not be removed.  While it
\* is at work nobody takes its name away but a sink that chose the same one
\* and failed; nobody does that to a JSONL writer.
TempsKept ==
    \A w \in FileWriters :
        /\ writer[w].pc \in {"ok", "failed"} => \A p \in Temps : dir[p] # w
        /\ writer[w].pc \in {"write", "flush", "sync", "rename"} => dir[Temp(w)] = w \/ Robbed(w)

\* A writer keeps what it returns: besides the above, one that failed has not
\* replaced its target, and a target that somebody succeeded in writing holds
\* the file of one who did, unless three sinks chose one name.
ResultsTrue ==
    /\ TempsKept
    /\ \A w \in FileWriters :
           writer[w].pc \in {"failed", "left"} => dir[Target[w]] # w \/ Crowded(Target[w])
    /\ \A t \in Targets :
           (\E w \in FileWriters : Target[w] = t /\ writer[w].pc = "ok") =>
               Crowded(t) \/ \E w \in FileWriters : dir[t] = w /\ writer[w].pc = "ok"
=============================================================================
