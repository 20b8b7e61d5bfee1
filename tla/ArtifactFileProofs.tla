------------------------- MODULE ArtifactFileProofs -------------------------
(***************************************************************************)
(* Proofs about ArtifactFile, for any number of sinks and JSONL writers,   *)
(* any targets and any candidate names that satisfy FileAssumption: sinks  *)
(* may share names with sinks, and JSONL writers with JSONL writers.       *)
(***************************************************************************)
EXTENDS ArtifactFile, TLAPS

Working == {"write", "flush", "sync", "rename"}
Holding == Working \cup {"cleanup", "left", "crashed"}   \* may still have a file
Files == FileWriters \cup {Previous}

\* What the variables hold.
FileType ==
    /\ dir \in [Paths -> Files \cup {NoFile}]
    /\ data \in [Files -> {"empty", "partial", "whole", "synced"}]
    /\ writer \in [Writers -> [pc : {"begin", "create", "cleanup"} \cup Working \cup Finished,
                               attempt : Nat, file : FileWriters \cup {NoFile}]]

\* Only a file writer leaves its begin for a file operation, with a name to
\* try; the sink has one, and only the sink syncs.
InRange ==
    \A w \in Writers :
        /\ w \in FileWriters => writer[w].attempt \in 1 .. Len(Names[w])
        /\ Kind[w] = "json" => writer[w].attempt = 1
        /\ writer[w].pc = "sync" => Kind[w] = "json"
        /\ writer[w].pc \notin {"begin"} \cup Finished => w \in FileWriters

\* A temporary name leads nowhere or to the file of the one writer that
\* created it under that name and has neither renamed nor removed it.
TempsOwned ==
    \A p \in Temps :
        \/ dir[p] = NoFile
        \/ \E w \in FileWriters :
              /\ dir[p] = w /\ Temp(w) = p
              /\ writer[w].pc \in Holding

\* What a writer works on is its own file under its own name, unless it was
\* robbed of the name, filled as far as the writer has come; a JSONL writer
\* cleans up its own file only.
WorkOwned ==
    \A w \in FileWriters :
        /\ writer[w].pc \in Working => writer[w].file = w
        /\ writer[w].pc \in Working => dir[Temp(w)] = w \/ Robbed(w)
        /\ writer[w].pc = "cleanup" /\ Kind[w] = "jsonl" => dir[Temp(w)] = w
        /\ writer[w].pc = "rename" => data[w] = IF Kind[w] = "json" THEN "synced" ELSE "whole"

\* A target holds the previous artifact or a writer's, one that succeeded
\* unless three sinks chose one name, and the previous one only until a
\* writer of that target succeeds.
TargetsOwned ==
    /\ \A t \in Targets :
           \/ dir[t] = Previous
           \/ dir[t] \in FileWriters /\ (Crowded(t) \/ writer[dir[t]].pc = "ok")
    /\ \A w \in FileWriters : writer[w].pc = "ok" => dir[Target[w]] # Previous

\* What was returned as written is whole, and synced if it is a Run JSON.
Kept ==
    /\ data[Previous] = "synced"
    /\ \A w \in FileWriters : writer[w].pc = "ok" =>
           \/ Kind[w] = "json" /\ data[w] = "synced"
           \/ Kind[w] = "jsonl" /\ (data[w] = "whole" \/ power = "failed")

\* The inductive invariant.
FileInv == FileType /\ InRange /\ TempsOwned /\ WorkOwned /\ TargetsOwned /\ Kept

----------------------------------------------------------------------------
(* Names.                                                                  *)

\* The name that a file writer tries is one of the temporary paths, and its
\* target is none of them.
LEMMA NameOf ==
    ASSUME FileType, InRange, NEW w \in FileWriters
    PROVE  /\ Temp(w) \in Temps /\ Temp(w) \in Paths
           /\ Target[w] \in Targets /\ Target[w] \in Paths
           /\ Target[w] # Temp(w)
<1>1. w \in Writers
  BY DEF FileWriters
<1>2. writer[w].attempt \in 1 .. Len(Names[w]) /\ Names[w] \in Seq(Temps)
  BY <1>1, FileAssumption DEF InRange
<1>3. Temp(w) \in Temps
  BY <1>2 DEF Temp
<1>4. Target[w] \in Targets
  BY DEF Targets
<1> QED
  BY <1>3, <1>4, FileAssumption DEF Paths

\* A sink's name leads nowhere or to the file of a sink that chose it, never
\* to a JSONL writer's.
LEMMA SinkName ==
    ASSUME FileType, InRange, TempsOwned, NEW w \in Sinks, dir[Temp(w)] # NoFile
    PROVE  dir[Temp(w)] \in Sinks /\ SameName(dir[Temp(w)], w)
<1>0. w \in FileWriters /\ w \in Writers
  BY DEF Sinks, FileWriters
<1>1. PICK v \in FileWriters : dir[Temp(w)] = v /\ Temp(v) = Temp(w)
  BY <1>0, NameOf DEF TempsOwned
<1>2. v \in Writers /\ writer[v].attempt \in 1 .. Len(Names[v]) /\ Names[v] \in Seq(Temps)
  BY FileAssumption DEF InRange, FileWriters
<1>3. Temp(v) \in {Names[v][k] : k \in DOMAIN Names[v]}
  <2>1. writer[v].attempt \in DOMAIN Names[v]
    BY <1>2
  <2> QED
    BY <2>1 DEF Temp
<1>4. Temp(w) = Names[w][1]
  BY <1>0 DEF InRange, Temp, Sinks
<1>5. v \in Sinks
  BY <1>1, <1>3, <1>4, FileAssumption
<1>6. Temp(v) = Names[v][1]
  BY <1>2, <1>5 DEF InRange, Temp, Sinks
<1> QED
  BY <1>1, <1>4, <1>5, <1>6 DEF SameName

----------------------------------------------------------------------------
(* Steps.                                                                  *)

\* Every step keeps the variables in their types.
LEMMA StepFileType ==
    FileInv /\ [Next]_vars => FileType'
<1> SUFFICES ASSUME FileInv, [Next]_vars
             PROVE  FileType'
  OBVIOUS
<1> USE DEF FileInv, FileType, At, Goto, Rest, Working, Finished
<1>1. CASE UNCHANGED vars
  BY <1>1 DEF vars
<1>2. ASSUME NEW w \in Writers, WriteMemory(w)
      PROVE  FileType'
  BY <1>2 DEF WriteMemory
<1>3. ASSUME NEW w \in Writers, Begin(w)
      PROVE  FileType'
  BY <1>3 DEF Begin
<1>4. ASSUME NEW w \in Writers, CreateTemp(w)
      PROVE  FileType'
  <2>1. w \in FileWriters
    BY <1>4 DEF CreateTemp, InRange
  <2>2. dir' \in [Paths -> Files \cup {NoFile}]
    BY <1>4, <2>1 DEF CreateTemp, Files
  <2> QED
    BY <1>4, <2>1, <2>2 DEF CreateTemp
<1>5. ASSUME NEW w \in Writers, NameTaken(w)
      PROVE  FileType'
  <2>0. UNCHANGED <<dir, data>>
    BY <1>5 DEF NameTaken
  <2>1. CASE Kind[w] = "json"
    BY <1>5, <2>1 DEF NameTaken
  <2>2. CASE Kind[w] # "json" /\ writer[w].attempt < Len(Names[w])
    <3>1. writer' = [writer EXCEPT ![w].attempt = writer[w].attempt + 1]
      BY <1>5, <2>2, Zenon DEF NameTaken
    <3> QED
      BY <2>0, <3>1
  <2>3. CASE Kind[w] # "json" /\ ~(writer[w].attempt < Len(Names[w]))
    <3>1. writer' = [writer EXCEPT ![w].pc = "failed"]
      BY <1>5, <2>3, Zenon DEF NameTaken
    <3> QED
      BY <2>0, <3>1
  <2> QED
    BY <2>1, <2>2, <2>3
<1>6. ASSUME NEW w \in Writers, CreateFails(w)
      PROVE  FileType'
  BY <1>6 DEF CreateFails
<1>7. ASSUME NEW w \in Writers, WriteRecords(w)
      PROVE  FileType'
  BY <1>7 DEF WriteRecords
<1>8. ASSUME NEW w \in Writers, Flush(w)
      PROVE  FileType'
  BY <1>8 DEF Flush
<1>9. ASSUME NEW w \in Writers, Sync(w)
      PROVE  FileType'
  BY <1>9 DEF Sync
<1>10. ASSUME NEW w \in Writers, StepFails(w)
       PROVE  FileType'
  BY <1>10 DEF StepFails
<1>11. ASSUME NEW w \in Writers, Rename(w)
       PROVE  FileType'
  <2>1. w \in FileWriters
    BY <1>11 DEF Rename, InRange
  <2>2. dir[Temp(w)] \in Files \cup {NoFile}
    BY <2>1, NameOf
  <2> QED
    BY <1>11, <2>2 DEF Rename
<1>12. ASSUME NEW w \in Writers, Cleanup(w)
       PROVE  FileType'
  BY <1>12 DEF Cleanup
<1>13. ASSUME NEW w \in Writers, CleanupFails(w) \/ Crash(w)
       PROVE  FileType'
  BY <1>13 DEF CleanupFails, Crash
<1>14. CASE TakeRun
  BY <1>14 DEF TakeRun
<1>15. CASE PowerFails
  BY <1>15 DEF PowerFails
<1> QED
  BY <1>1, <1>2, <1>3, <1>4, <1>5, <1>6, <1>7, <1>8, <1>9, <1>10, <1>11, <1>12, <1>13,
     <1>14, <1>15 DEF Next

\* A step that touches no file and moves one writer on, without letting it
\* start on a file or return success, keeps the invariant, provided that a
\* writer which has a file only goes to its cleanup or crashes, under the
\* same name (StepFails and Crash; the other such steps have no file yet).
LEMMA MoveInv ==
    ASSUME FileInv, FileType', NEW w \in Writers,
           dir' = dir, data' = data, power' = power,
           \A v \in Writers \ {w} : writer'[v] = writer[v],
           InRange',
           w \in FileWriters => writer[w].pc \notin {"ok", "failed"} /\ writer'[w].pc # "ok",
           writer'[w].pc \notin Working,
           writer'[w].pc = "cleanup" /\ Kind[w] = "jsonl" => writer[w].pc \in Working,
           writer[w].pc \in Holding =>
               /\ writer'[w].attempt = writer[w].attempt
               /\ writer'[w].pc \in {"cleanup", "left", "crashed"}
    PROVE  FileInv'
<1> USE DEF FileInv
<1>1. FileWriters \subseteq Writers
  BY DEF FileWriters
<1>2. \A v \in FileWriters : v # w \/ writer'[w].attempt = writer[w].attempt => Temp(v)' = Temp(v)
  BY <1>1 DEF Temp
<1>a. \A v \in FileWriters : Robbed(v) => Robbed(v)'
  BY <1>1 DEF Robbed, Sinks, SameName
<1>3. TempsOwned'
  <2> SUFFICES ASSUME NEW p \in Temps, dir[p] # NoFile
               PROVE  \E v \in FileWriters :
                         /\ dir'[p] = v /\ Temp(v)' = p
                         /\ writer'[v].pc \in Holding
    BY DEF TempsOwned
  <2>1. PICK v \in FileWriters :
            /\ dir[p] = v /\ Temp(v) = p
            /\ writer[v].pc \in Holding
    BY DEF TempsOwned
  <2>2. Temp(v)' = Temp(v)
    BY <1>2, <2>1
  <2>3. writer'[v].pc \in Holding
    BY <1>1, <2>1 DEF Holding
  <2> QED
    BY <2>1, <2>2, <2>3
<1>4. WorkOwned'
  <2> SUFFICES ASSUME NEW v \in FileWriters
               PROVE  /\ writer'[v].pc \in Working => writer'[v].file = v
                      /\ writer'[v].pc \in Working => dir[Temp(v)'] = v \/ Robbed(v)'
                      /\ writer'[v].pc = "cleanup" /\ Kind[v] = "jsonl" => dir[Temp(v)'] = v
                      /\ writer'[v].pc = "rename" => data[v] = IF Kind[v] = "json" THEN "synced" ELSE "whole"
    BY DEF WorkOwned
  <2>1. CASE v = w
    BY <2>1, <1>2 DEF WorkOwned, Working, Holding, Robbed, Sinks
  <2>2. CASE v # w
    BY <2>2, <1>1, <1>2, <1>a DEF WorkOwned
  <2> QED
    BY <2>1, <2>2
<1>5. TargetsOwned'
  BY <1>1 DEF TargetsOwned
<1>6. Kept'
  BY <1>1 DEF Kept
<1> QED
  BY <1>3, <1>4, <1>5, <1>6

\* A step that fills the file of one writer and moves that writer on within
\* its work keeps the invariant (WriteRecords, Flush and Sync).
LEMMA FillInv ==
    ASSUME FileInv, FileType', NEW w \in FileWriters, NEW content,
           NEW pc \in Working,
           writer[w].pc \in Working,
           writer' = [writer EXCEPT ![w].pc = pc],
           data' = [data EXCEPT ![w] = content],
           dir' = dir, power' = power,
           pc = "sync" => Kind[w] = "json",
           pc = "rename" => content = IF Kind[w] = "json" THEN "synced" ELSE "whole"
    PROVE  FileInv'
<1> USE DEF FileInv
<1>0. w \in Writers /\ w # Previous /\ FileWriters \subseteq Writers
  BY FileAssumption DEF FileWriters
<1>1. /\ writer'[w].pc = pc /\ writer'[w].attempt = writer[w].attempt /\ writer'[w].file = writer[w].file
      /\ \A v \in Writers \ {w} : writer'[v] = writer[v]
  BY <1>0 DEF FileType
<1>2. data'[w] = content /\ \A f \in Files \ {w} : data'[f] = data[f]
  BY DEF FileType, Files
<1>3. \A v \in FileWriters : Temp(v)' = Temp(v)
  BY <1>0, <1>1 DEF Temp
<1>a. \A v \in FileWriters : Robbed(v) => Robbed(v)'
  BY <1>0, <1>1 DEF Robbed, Sinks, SameName, Working
<1>4. InRange'
  BY <1>1 DEF InRange
<1>5. TempsOwned'
  <2> SUFFICES ASSUME NEW p \in Temps, dir[p] # NoFile
               PROVE  \E v \in FileWriters :
                         /\ dir'[p] = v /\ Temp(v)' = p
                         /\ writer'[v].pc \in Holding
    BY DEF TempsOwned
  <2>1. PICK v \in FileWriters :
            /\ dir[p] = v /\ Temp(v) = p
            /\ writer[v].pc \in Holding
    BY DEF TempsOwned
  <2> QED
    BY <1>0, <1>1, <1>3, <2>1 DEF Holding
<1>6. WorkOwned'
  <2> SUFFICES ASSUME NEW v \in FileWriters
               PROVE  /\ writer'[v].pc \in Working => writer'[v].file = v
                      /\ writer'[v].pc \in Working => dir[Temp(v)'] = v \/ Robbed(v)'
                      /\ writer'[v].pc = "cleanup" /\ Kind[v] = "jsonl" => dir[Temp(v)'] = v
                      /\ writer'[v].pc = "rename" => data'[v] = IF Kind[v] = "json" THEN "synced" ELSE "whole"
    BY DEF WorkOwned
  <2>1. CASE v = w
    BY <2>1, <1>1, <1>2, <1>3, <1>a DEF WorkOwned, Working
  <2>2. CASE v # w
    BY <2>2, <1>0, <1>1, <1>2, <1>3, <1>a DEF WorkOwned, Files
  <2> QED
    BY <2>1, <2>2
<1>7. TargetsOwned'
  BY <1>0, <1>1 DEF TargetsOwned, Working
<1>8. Kept'
  BY <1>0, <1>1, <1>2 DEF Kept, Working, Files
<1> QED
  BY <1>4, <1>5, <1>6, <1>7, <1>8

\* create_new gives the name to this writer alone: it was nobody's.
LEMMA CreateInv ==
    ASSUME FileInv, FileType', NEW w \in Writers, CreateTemp(w)
    PROVE  FileInv'
<1> USE DEF FileInv
<1>0. w \in FileWriters /\ FileWriters \subseteq Writers
  BY DEF CreateTemp, At, InRange, Finished, FileWriters
<1>1. /\ writer'[w].pc = "write" /\ writer'[w].attempt = writer[w].attempt /\ writer'[w].file = w
      /\ \A v \in Writers \ {w} : writer'[v] = writer[v]
      /\ writer[w].pc = "create" /\ data' = data /\ power' = power
  BY DEF FileType, CreateTemp, At, Rest
<1>2. \A v \in FileWriters : Temp(v)' = Temp(v)
  BY <1>0, <1>1 DEF Temp
<1>3. Temp(w) \in Temps /\ Temp(w) \in Paths /\ Temp(w) \notin Targets
  BY <1>0, NameOf, FileAssumption
<1>4. dir[Temp(w)] = NoFile /\ dir'[Temp(w)] = w /\ \A p \in Paths \ {Temp(w)} : dir'[p] = dir[p]
  BY <1>3 DEF CreateTemp, FileType
<1>a. \A v \in FileWriters : Robbed(v) => Robbed(v)'
  BY <1>0, <1>1 DEF Robbed, Sinks, SameName
<1>5. InRange'
  BY <1>0, <1>1 DEF InRange
<1>6. TempsOwned'
  <2> SUFFICES ASSUME NEW p \in Temps, dir'[p] # NoFile
               PROVE  \E v \in FileWriters :
                         /\ dir'[p] = v /\ Temp(v)' = p
                         /\ writer'[v].pc \in Holding
    BY DEF TempsOwned
  <2>1. CASE p = Temp(w)
    BY <2>1, <1>0, <1>1, <1>2, <1>4 DEF Working, Holding
  <2>2. CASE p # Temp(w)
    <3>1. dir'[p] = dir[p]
      BY <2>2, <1>4 DEF Paths
    <3>2. PICK v \in FileWriters :
              /\ dir[p] = v /\ Temp(v) = p
              /\ writer[v].pc \in Holding
      BY <3>1 DEF TempsOwned
    <3> QED
      BY <1>0, <1>1, <1>2, <3>1, <3>2 DEF Working, Holding
  <2> QED
    BY <2>1, <2>2
<1>7. WorkOwned'
  <2> SUFFICES ASSUME NEW v \in FileWriters
               PROVE  /\ writer'[v].pc \in Working => writer'[v].file = v
                      /\ writer'[v].pc \in Working => dir'[Temp(v)'] = v \/ Robbed(v)'
                      /\ writer'[v].pc = "cleanup" /\ Kind[v] = "jsonl" => dir'[Temp(v)'] = v
                      /\ writer'[v].pc = "rename" => data'[v] = IF Kind[v] = "json" THEN "synced" ELSE "whole"
    BY DEF WorkOwned
  <2>1. CASE v = w
    BY <2>1, <1>1, <1>2, <1>4
  <2>2. CASE v # w
    <3>1. writer'[v] = writer[v] /\ Temp(v)' = Temp(v) /\ Temp(v) \in Paths
      BY <2>2, <1>0, <1>1, <1>2, NameOf
    <3>2. dir[Temp(v)] = v => dir'[Temp(v)] = v
      <4>1. v # NoFile
        BY <1>0, FileAssumption
      <4> QED
        BY <3>1, <1>4, <4>1
    <3> QED
      BY <3>1, <3>2, <1>1, <1>a DEF WorkOwned
  <2> QED
    BY <2>1, <2>2
<1>8. \A t \in Targets : dir'[t] = dir[t]
  BY <1>3, <1>4 DEF Paths
<1>9. TargetsOwned'
  <2>1. \A v \in FileWriters : Target[v] \in Targets
    BY DEF Targets
  <2> QED
    BY <2>1, <1>0, <1>1, <1>8 DEF TargetsOwned
<1>10. Kept'
  BY <1>0, <1>1 DEF Kept
<1> QED
  BY <1>5, <1>6, <1>7, <1>9, <1>10

\* rename moves the file that its name leads to: the writer's own, whole, or,
\* if the writer was robbed, that of a third sink which chose the name.
LEMMA RenameInv ==
    ASSUME FileInv, FileType', NEW w \in Writers, Rename(w)
    PROVE  FileInv'
<1> USE DEF FileInv
<1>0. w \in FileWriters /\ FileWriters \subseteq Writers /\ w # Previous /\ w # NoFile
  BY FileAssumption DEF Rename, At, InRange, Finished, FileWriters
<1>1. /\ writer'[w].pc = "ok" /\ writer'[w].attempt = writer[w].attempt /\ writer'[w].file = writer[w].file
      /\ \A v \in Writers \ {w} : writer'[v] = writer[v]
      /\ writer[w].pc = "rename" /\ data' = data /\ power' = power
  BY DEF FileType, Rename, At, Goto, Rest
<1>2. \A v \in FileWriters : Temp(v)' = Temp(v)
  BY <1>0, <1>1 DEF Temp
<1>3. /\ Temp(w) \in Temps /\ Temp(w) \in Paths /\ Temp(w) \notin Targets
      /\ Target[w] \in Targets /\ Target[w] \in Paths /\ Target[w] \notin Temps
  BY <1>0, NameOf, FileAssumption
<1> DEFINE f == dir[Temp(w)]
<1>4. data[w] = IF Kind[w] = "json" THEN "synced" ELSE "whole"
  BY <1>0, <1>1 DEF WorkOwned
<1>a. f \in FileWriters /\ f # NoFile /\ f # Previous /\ writer[f].pc \in Holding
  BY <1>3, FileAssumption DEF Rename, TempsOwned, FileWriters
<1>b. ASSUME f # w
      PROVE  /\ f \in Sinks /\ w \in Sinks
             /\ \E u \in Sinks \ {f, w} : SameName(u, w) /\ SameName(u, f) /\ writer[u].pc = "failed"
             /\ Crowded(Target[w])
  <2>1. Robbed(w)
    BY <1>0, <1>1, <1>b DEF WorkOwned, Working
  <2>2. f \in Sinks /\ SameName(f, w)
    BY <2>1, <1>a, SinkName DEF Robbed
  <2>3. PICK u \in Sinks \ {w} : SameName(u, w) /\ writer[u].pc = "failed"
    BY <2>1 DEF Robbed
  <2>4. u # f
    BY <1>a, <2>3 DEF Holding, Working
  <2>5. SameName(u, f)
    BY <2>2, <2>3 DEF SameName
  <2>6. Crowded(Target[w])
    BY <2>1, <2>2, <2>3, <2>4, <1>b DEF Crowded, Robbed
  <2> QED
    BY <2>1, <2>2, <2>3, <2>4, <2>5, <2>6 DEF Robbed
<1>5. /\ dir'[Temp(w)] = NoFile /\ dir'[Target[w]] = f
      /\ \A p \in Paths \ {Temp(w), Target[w]} : dir'[p] = dir[p]
  BY <1>3, <1>a DEF Rename, FileType
<1>c. \A v \in FileWriters : Robbed(v) => Robbed(v)'
  BY <1>0, <1>1 DEF Robbed, Sinks, SameName
<1> HIDE DEF f
<1>6. InRange'
  BY <1>0, <1>1 DEF InRange, Finished
<1>7. TempsOwned'
  <2> SUFFICES ASSUME NEW p \in Temps, dir'[p] # NoFile
               PROVE  \E v \in FileWriters :
                         /\ dir'[p] = v /\ Temp(v)' = p
                         /\ writer'[v].pc \in Holding
    BY DEF TempsOwned
  <2>1. p # Temp(w) /\ p # Target[w] /\ p \in Paths
    BY <1>3, <1>5 DEF Paths
  <2>2. dir'[p] = dir[p]
    BY <2>1, <1>5
  <2>3. PICK v \in FileWriters :
            /\ dir[p] = v /\ Temp(v) = p
            /\ writer[v].pc \in Holding
    BY <2>2 DEF TempsOwned
  <2>4. v # w
    BY <2>1, <2>3
  <2> QED
    BY <2>2, <2>3, <2>4, <1>0, <1>1, <1>2
<1>8. WorkOwned'
  <2> SUFFICES ASSUME NEW v \in FileWriters
               PROVE  /\ writer'[v].pc \in Working => writer'[v].file = v
                      /\ writer'[v].pc \in Working => dir'[Temp(v)'] = v \/ Robbed(v)'
                      /\ writer'[v].pc = "cleanup" /\ Kind[v] = "jsonl" => dir'[Temp(v)'] = v
                      /\ writer'[v].pc = "rename" => data'[v] = IF Kind[v] = "json" THEN "synced" ELSE "whole"
    BY DEF WorkOwned
  <2>1. CASE v = w
    BY <2>1, <1>1 DEF Working
  <2>2. CASE v # w
    <3>1. writer'[v] = writer[v] /\ Temp(v)' = Temp(v) /\ Temp(v) \in Temps /\ Temp(v) \in Paths
      BY <2>2, <1>0, <1>1, <1>2, NameOf
    <3>2. CASE Temp(v) # Temp(w) \/ dir[Temp(v)] # v
      <4>1. dir[Temp(v)] = v => dir'[Temp(v)] = v
        BY <3>1, <3>2, <1>3, <1>5
      <4> QED
        BY <3>1, <4>1, <1>1, <1>c DEF WorkOwned
    <3>3. CASE Temp(v) = Temp(w) /\ dir[Temp(v)] = v
      <4>1. f = v
        BY <3>3 DEF f
      <4>2. v \in Sinks /\ Robbed(v)'
        <5>1. PICK u \in Sinks \ {v, w} : SameName(u, v) /\ writer[u].pc = "failed"
          BY <4>1, <2>2, <1>b
        <5>2. writer'[u].pc = "failed"
          BY <5>1, <1>0, <1>1 DEF Sinks
        <5> QED
          BY <4>1, <5>1, <5>2, <2>2, <1>b DEF Robbed, Sinks, SameName
      <4> QED
        BY <3>1, <4>2, <1>1 DEF WorkOwned, Sinks
    <3> QED
      BY <3>2, <3>3
  <2> QED
    BY <2>1, <2>2
<1>9. TargetsOwned'
  <2>1. ASSUME NEW t \in Targets
        PROVE  \/ dir'[t] = Previous
               \/ dir'[t] \in FileWriters /\ (Crowded(t) \/ writer'[dir'[t]].pc = "ok")
    <3>1. CASE t = Target[w]
      BY <3>1, <1>0, <1>1, <1>5, <1>a, <1>b
    <3>2. CASE t # Target[w]
      <4>1. dir'[t] = dir[t]
        BY <3>2, <1>3, <1>5 DEF Paths
      <4> QED
        BY <4>1, <1>0, <1>1 DEF TargetsOwned
    <3> QED
      BY <3>1, <3>2
  <2>2. ASSUME NEW v \in FileWriters, writer'[v].pc = "ok"
        PROVE  dir'[Target[v]] # Previous
    <3>1. CASE Target[v] = Target[w]
      BY <3>1, <1>5, <1>a
    <3>2. CASE Target[v] # Target[w]
      <4>1. dir'[Target[v]] = dir[Target[v]]
        BY <3>2, <1>3, <1>5 DEF Paths, Targets
      <4> QED
        BY <4>1, <2>2, <3>2, <1>0, <1>1 DEF TargetsOwned
    <3> QED
      BY <3>1, <3>2
  <2> QED
    BY <2>1, <2>2 DEF TargetsOwned
<1>10. Kept'
  <2>1. Kind[w] \in {"json", "jsonl"}
    BY <1>0 DEF FileWriters
  <2> QED
    BY <2>1, <1>0, <1>1, <1>4 DEF Kept
<1> QED
  BY <1>6, <1>7, <1>8, <1>9, <1>10

\* remove_file takes away a JSONL writer's own file, or whatever file a sink's
\* name leads to: none, its own, or that of another sink, which is robbed.
LEMMA CleanupInv ==
    ASSUME FileInv, FileType', NEW w \in Writers, Cleanup(w)
    PROVE  FileInv'
<1> USE DEF FileInv
<1>0. w \in FileWriters /\ FileWriters \subseteq Writers /\ w # NoFile
  BY FileAssumption DEF Cleanup, At, InRange, Finished, FileWriters
<1>1. /\ writer'[w].pc = "failed" /\ writer'[w].attempt = writer[w].attempt
      /\ \A v \in Writers \ {w} : writer'[v] = writer[v]
      /\ writer[w].pc = "cleanup" /\ data' = data /\ power' = power
  BY DEF FileType, Cleanup, At, Goto, Rest
<1>2. \A v \in FileWriters : Temp(v)' = Temp(v)
  BY <1>0, <1>1 DEF Temp
<1>3. Temp(w) \in Temps /\ Temp(w) \in Paths /\ Temp(w) \notin Targets
  BY <1>0, NameOf, FileAssumption
<1>4. ASSUME NEW v \in FileWriters, v # w, dir[Temp(w)] = v
      PROVE  v \in Sinks /\ w \in Sinks /\ SameName(w, v)
  <2>1. Kind[w] # "jsonl"
    BY <1>0, <1>1, <1>4 DEF WorkOwned
  <2>2. w \in Sinks /\ v # NoFile
    BY <2>1, <1>0, FileAssumption DEF FileWriters, Sinks
  <2> QED
    BY <1>4, <2>2, SinkName DEF SameName
<1>5. dir'[Temp(w)] = NoFile /\ \A p \in Paths \ {Temp(w)} : dir'[p] = dir[p]
  BY <1>3 DEF Cleanup, FileType
<1>a. \A v \in FileWriters : Robbed(v) => Robbed(v)'
  BY <1>0, <1>1 DEF Robbed, Sinks, SameName
<1>6. InRange'
  BY <1>0, <1>1 DEF InRange, Finished
<1>7. TempsOwned'
  <2> SUFFICES ASSUME NEW p \in Temps, dir'[p] # NoFile
               PROVE  \E v \in FileWriters :
                         /\ dir'[p] = v /\ Temp(v)' = p
                         /\ writer'[v].pc \in Holding
    BY DEF TempsOwned
  <2>1. p # Temp(w) /\ p \in Paths
    BY <1>5 DEF Paths
  <2>2. dir'[p] = dir[p]
    BY <2>1, <1>5
  <2>3. PICK v \in FileWriters :
            /\ dir[p] = v /\ Temp(v) = p
            /\ writer[v].pc \in Holding
    BY <2>2 DEF TempsOwned
  <2>4. v # w
    BY <2>1, <2>3
  <2> QED
    BY <2>2, <2>3, <2>4, <1>0, <1>1, <1>2
<1>8. WorkOwned'
  <2> SUFFICES ASSUME NEW v \in FileWriters
               PROVE  /\ writer'[v].pc \in Working => writer'[v].file = v
                      /\ writer'[v].pc \in Working => dir'[Temp(v)'] = v \/ Robbed(v)'
                      /\ writer'[v].pc = "cleanup" /\ Kind[v] = "jsonl" => dir'[Temp(v)'] = v
                      /\ writer'[v].pc = "rename" => data'[v] = IF Kind[v] = "json" THEN "synced" ELSE "whole"
    BY DEF WorkOwned
  <2>1. CASE v = w
    BY <2>1, <1>1 DEF Working
  <2>2. CASE v # w
    <3>1. writer'[v] = writer[v] /\ Temp(v)' = Temp(v) /\ Temp(v) \in Paths /\ v # NoFile
      BY <2>2, <1>0, <1>1, <1>2, NameOf, FileAssumption
    <3>2. CASE Temp(v) # Temp(w) \/ dir[Temp(v)] # v
      <4>1. dir[Temp(v)] = v => dir'[Temp(v)] = v
        BY <3>1, <3>2, <1>5
      <4> QED
        BY <3>1, <4>1, <1>1, <1>a DEF WorkOwned
    <3>3. CASE Temp(v) = Temp(w) /\ dir[Temp(v)] = v
      <4>1. v \in Sinks /\ Robbed(v)'
        BY <2>2, <3>3, <1>1, <1>4 DEF Robbed, Sinks, SameName
      <4> QED
        BY <3>1, <4>1, <1>1 DEF WorkOwned, Sinks
    <3> QED
      BY <3>2, <3>3
  <2> QED
    BY <2>1, <2>2
<1>9. TargetsOwned'
  <2>1. \A v \in FileWriters : Target[v] \in Targets
    BY DEF Targets
  <2>2. \A t \in Targets : dir'[t] = dir[t]
    BY <1>3, <1>5 DEF Paths
  <2> QED
    BY <2>1, <2>2, <1>0, <1>1 DEF TargetsOwned
<1>10. Kept'
  BY <1>0, <1>1 DEF Kept
<1> QED
  BY <1>6, <1>7, <1>8, <1>9, <1>10

\* A power failure stops every writer and loses what was not synced: what was
\* synced and renamed stays.
LEMMA PowerInv ==
    ASSUME FileInv, FileType', PowerFails
    PROVE  FileInv'
<1> USE DEF FileInv
<1>0. FileWriters \subseteq Writers
  BY DEF FileWriters
<1>1. ASSUME NEW v \in Writers
      PROVE  /\ writer'[v].attempt = writer[v].attempt
             /\ writer'[v].pc \in Finished
             /\ writer'[v].pc = writer[v].pc \/ (writer[v].pc \notin Finished /\ writer'[v].pc = "crashed")
  BY <1>1 DEF FileType, PowerFails, Finished
<1>2. \A v \in FileWriters : Temp(v)' = Temp(v)
  BY <1>0, <1>1 DEF Temp
<1>3. dir' = dir /\ power' = "failed"
  BY DEF PowerFails
<1>4. InRange'
  BY <1>1 DEF InRange
<1>5. TempsOwned'
  <2> SUFFICES ASSUME NEW p \in Temps, dir'[p] # NoFile
               PROVE  \E v \in FileWriters :
                         /\ dir'[p] = v /\ Temp(v)' = p
                         /\ writer'[v].pc \in Holding
    BY DEF TempsOwned
  <2>1. PICK v \in FileWriters :
            /\ dir[p] = v /\ Temp(v) = p
            /\ writer[v].pc \in Holding
    BY <1>3 DEF TempsOwned
  <2> QED
    BY <2>1, <1>0, <1>1, <1>2, <1>3 DEF Holding, Working, Finished
<1>6. WorkOwned'
  BY <1>0, <1>1 DEF WorkOwned, Working, Finished
<1>7. TargetsOwned'
  BY <1>0, <1>1, <1>3 DEF TargetsOwned, Finished
<1>8. Kept'
  <2>1. \A f \in Files : data[f] = "synced" => data'[f] = "synced"
    BY DEF PowerFails, FileType
  <2>2. data'[Previous] = "synced"
    BY <2>1 DEF Kept, Files
  <2>3. ASSUME NEW v \in FileWriters, writer'[v].pc = "ok"
        PROVE  \/ Kind[v] = "json" /\ data'[v] = "synced"
               \/ Kind[v] = "jsonl" /\ (data'[v] = "whole" \/ power' = "failed")
    <3>1. writer[v].pc = "ok"
      BY <2>3, <1>0, <1>1
    <3> QED
      BY <3>1, <2>1, <1>3 DEF Kept, Files
  <2> QED
    BY <2>2, <2>3 DEF Kept
<1> QED
  BY <1>4, <1>5, <1>6, <1>7, <1>8

----------------------------------------------------------------------------
(* The invariant.                                                          *)

\* The state before any writer begins satisfies the invariant.
LEMMA InitFileInv == Init => FileInv
<1> SUFFICES ASSUME Init
             PROVE  FileInv
  OBVIOUS
<1> USE DEF Init
<1>1. Previous \notin FileWriters /\ NoFile \notin Files /\ FileWriters \subseteq Writers
  BY FileAssumption DEF Files, Previous, NoFile, FileWriters
<1>2. FileType
  BY DEF FileType, Files
<1>3. InRange
  <2>1. \A w \in FileWriters : Len(Names[w]) \in Nat /\ Len(Names[w]) > 0
    BY FileAssumption
  <2> QED
    BY <2>1 DEF InRange, FileWriters
<1>4. TempsOwned
  BY FileAssumption DEF TempsOwned, Paths
<1>5. WorkOwned
  BY <1>1 DEF WorkOwned, Working
<1>6. TargetsOwned
  BY <1>1 DEF TargetsOwned, Paths
<1>7. Kept
  BY <1>1 DEF Kept, Files
<1> QED
  BY <1>2, <1>3, <1>4, <1>5, <1>6, <1>7 DEF FileInv

\* Every operation of a writer, every failure and every crash keeps it.
LEMMA StepFileInv == FileInv /\ [Next]_vars => FileInv'
<1> SUFFICES ASSUME FileInv, [Next]_vars
             PROVE  FileInv'
  OBVIOUS
<1>0. FileType' /\ FileType /\ InRange
  BY StepFileType DEF FileInv
<1>1. CASE UNCHANGED vars
  BY <1>1 DEF vars, FileInv, FileType, InRange, TempsOwned, WorkOwned, TargetsOwned, Kept, Temp, Robbed
<1>2. ASSUME NEW w \in Writers, WriteMemory(w)
      PROVE  FileInv'
  <2>1. w \notin FileWriters
    BY <1>2 DEF WriteMemory, FileWriters
  <2>2. /\ writer[w].pc = "begin" /\ writer'[w].pc = "ok" /\ writer'[w].attempt = writer[w].attempt
        /\ \A v \in Writers \ {w} : writer'[v] = writer[v]
        /\ dir' = dir /\ data' = data /\ power' = power
    BY <1>0, <1>2 DEF WriteMemory, At, Goto, FileType
  <2>3. InRange'
    BY <1>0, <2>1, <2>2 DEF InRange, Finished
  <2> QED
    BY <1>0, <2>1, <2>2, <2>3, MoveInv DEF Working, Holding
<1>3. ASSUME NEW w \in Writers, Begin(w)
      PROVE  FileInv'
  <2>1. /\ w \in FileWriters /\ writer[w].pc = "begin" /\ writer'[w].pc \in {"create", "failed"}
        /\ writer'[w].attempt = writer[w].attempt
        /\ \A v \in Writers \ {w} : writer'[v] = writer[v]
        /\ dir' = dir /\ data' = data /\ power' = power
    BY <1>0, <1>3 DEF Begin, At, Goto, FileType, Rest
  <2>2. InRange'
    BY <1>0, <2>1 DEF InRange
  <2> QED
    BY <1>0, <2>1, <2>2, MoveInv DEF Working, Holding
<1>4. ASSUME NEW w \in Writers, CreateTemp(w)
      PROVE  FileInv'
  BY <1>0, <1>4, CreateInv
<1>5. ASSUME NEW w \in Writers, NameTaken(w)
      PROVE  FileInv'
  <2>1. writer[w].pc = "create" /\ dir' = dir /\ data' = data /\ power' = power
    BY <1>5 DEF NameTaken, At, Rest
  <2>2. w \in FileWriters /\ writer[w].attempt \in 1 .. Len(Names[w]) /\ Len(Names[w]) \in Nat
    BY <1>0, <2>1, FileAssumption DEF InRange, Finished
  <2>3. CASE Kind[w] = "json" \/ ~(writer[w].attempt < Len(Names[w]))
    <3>1. \/ Kind[w] = "json" /\ writer' = [writer EXCEPT ![w].pc = "cleanup"]
          \/ Kind[w] # "json" /\ writer' = [writer EXCEPT ![w].pc = "failed"]
      BY <1>5, <2>3, Zenon DEF NameTaken, Goto
    <3>2. /\ writer'[w].pc \in {"cleanup", "failed"} /\ (writer'[w].pc = "cleanup" => Kind[w] = "json")
          /\ writer'[w].attempt = writer[w].attempt
          /\ \A v \in Writers \ {w} : writer'[v] = writer[v]
      BY <1>0, <3>1 DEF FileType
    <3>3. InRange'
      BY <1>0, <2>2, <3>2 DEF InRange
    <3> QED
      BY <1>0, <2>1, <3>2, <3>3, MoveInv DEF Working, Holding
  <2>4. CASE Kind[w] # "json" /\ writer[w].attempt < Len(Names[w])
    <3>1. writer' = [writer EXCEPT ![w].attempt = writer[w].attempt + 1]
      BY <1>5, <2>4, Zenon DEF NameTaken
    <3>2. /\ writer'[w].pc = "create" /\ writer'[w].attempt = writer[w].attempt + 1
          /\ \A v \in Writers \ {w} : writer'[v] = writer[v]
      BY <1>0, <2>1, <3>1 DEF FileType
    <3>3. writer'[w].attempt \in 1 .. Len(Names[w])
      BY <2>2, <2>4, <3>2
    <3>4. InRange'
      BY <1>0, <2>2, <2>4, <3>2, <3>3 DEF InRange
    <3> QED
      BY <1>0, <2>1, <3>2, <3>4, MoveInv DEF Working, Holding
  <2> QED
    BY <2>3, <2>4
<1>6. ASSUME NEW w \in Writers, CreateFails(w)
      PROVE  FileInv'
  <2>1. /\ writer[w].pc = "create" /\ writer'[w].pc = IF Kind[w] = "json" THEN "cleanup" ELSE "failed"
        /\ writer'[w].attempt = writer[w].attempt
        /\ \A v \in Writers \ {w} : writer'[v] = writer[v]
        /\ dir' = dir /\ data' = data /\ power' = power
    BY <1>0, <1>6 DEF CreateFails, At, Goto, FileType, Rest
  <2>2. InRange'
    BY <1>0, <2>1 DEF InRange, Finished
  <2> QED
    BY <1>0, <2>1, <2>2, MoveInv DEF Working, Holding
<1>7. ASSUME NEW w \in Writers, WriteRecords(w) \/ Flush(w) \/ Sync(w)
      PROVE  FileInv'
  <2>1. writer[w].pc \in Working /\ w \in FileWriters
    BY <1>0, <1>7 DEF WriteRecords, Flush, Sync, At, Working, InRange, Finished
  <2>2. writer[w].file = w /\ dir' = dir /\ power' = power
    BY <1>7, <2>1 DEF WriteRecords, Flush, Sync, Rest, FileInv, WorkOwned
  <2>3. CASE WriteRecords(w)
    BY <1>0, <2>1, <2>2, <2>3, FillInv DEF WriteRecords, Goto, Working
  <2>4. CASE Flush(w)
    BY <1>0, <2>1, <2>2, <2>4, FillInv DEF Flush, Goto, Working
  <2>5. CASE Sync(w)
    <3>1. Kind[w] = "json"
      BY <1>0, <2>5 DEF Sync, At, InRange
    <3> QED
      BY <1>0, <2>1, <2>2, <2>5, <3>1, FillInv DEF Sync, Goto, Working
  <2> QED
    BY <1>7, <2>3, <2>4, <2>5
<1>8. ASSUME NEW w \in Writers, StepFails(w)
      PROVE  FileInv'
  <2>1. /\ writer[w].pc \in Working /\ writer'[w].pc = "cleanup"
        /\ writer'[w].attempt = writer[w].attempt
        /\ \A v \in Writers \ {w} : writer'[v] = writer[v]
        /\ dir' = dir /\ data' = data /\ power' = power
    BY <1>0, <1>8 DEF StepFails, Goto, FileType, Rest, Working
  <2>2. InRange'
    BY <1>0, <2>1 DEF InRange, Working, Finished
  <2> QED
    BY <1>0, <2>1, <2>2, MoveInv DEF Working, Holding
<1>9. ASSUME NEW w \in Writers, Rename(w)
      PROVE  FileInv'
  BY <1>0, <1>9, RenameInv
<1>10. ASSUME NEW w \in Writers, Cleanup(w)
       PROVE  FileInv'
  BY <1>0, <1>10, CleanupInv
<1>11. ASSUME NEW w \in Writers, Crash(w)
       PROVE  FileInv'
  <2>1. /\ w \in FileWriters /\ writer[w].pc \notin Finished /\ writer'[w].pc = "crashed"
        /\ writer'[w].attempt = writer[w].attempt
        /\ \A v \in Writers \ {w} : writer'[v] = writer[v]
        /\ dir' = dir /\ data' = data /\ power' = power
    BY <1>0, <1>11 DEF Crash, Goto, FileType, Rest
  <2>2. InRange'
    BY <1>0, <2>1 DEF InRange, Finished
  <2> QED
    BY <1>0, <2>1, <2>2, MoveInv DEF Working, Holding, Finished
<1>12. ASSUME NEW w \in Writers, CleanupFails(w)
       PROVE  FileInv'
  <2>1. /\ writer[w].pc = "cleanup" /\ writer'[w].pc = "left"
        /\ writer'[w].attempt = writer[w].attempt
        /\ \A v \in Writers \ {w} : writer'[v] = writer[v]
        /\ dir' = dir /\ data' = data /\ power' = power
    BY <1>0, <1>12 DEF CleanupFails, At, Goto, FileType, Rest
  <2>2. InRange'
    BY <1>0, <2>1 DEF InRange, Finished
  <2> QED
    BY <1>0, <2>1, <2>2, MoveInv DEF Working, Holding
<1>13. CASE TakeRun
  BY <1>13 DEF TakeRun, FileInv, FileType, InRange, TempsOwned, WorkOwned, TargetsOwned, Kept, Temp, Robbed
<1>14. CASE PowerFails
  BY <1>0, <1>14, PowerInv
<1> QED
  BY <1>1, <1>2, <1>3, <1>4, <1>5, <1>6, <1>7, <1>8, <1>9, <1>10, <1>11, <1>12, <1>13, <1>14 DEF Next

\* The inductive invariant holds throughout, for any sinks and JSONL writers.
THEOREM FileInvariance == Spec => []FileInv
<1> QED
  BY InitFileInv, StepFileInv, PTL DEF Spec

\* A reader of a target path finds a file at any time, and a whole artifact
\* unless three sinks chose one name, whatever fails or crashes between
\* create_new, write, sync and rename (sink.rs and the JSONL writer of
\* recorder.rs); a synced Run JSON survives a power failure as well.
THEOREM TargetWholeHolds == Spec => []TargetWhole
<1>1. FileInv => TargetWhole
  <2> SUFFICES ASSUME FileInv, NEW t \in Targets
               PROVE  /\ dir[t] # NoFile
                      /\ \/ Crowded(t) \/ data[dir[t]] \in {"whole", "synced"}
                         \/ power = "failed" /\ Kind[dir[t]] = "jsonl"
    BY DEF TargetWhole
  <2>1. NoFile # Previous /\ NoFile \notin FileWriters
    BY FileAssumption DEF NoFile, Previous, FileWriters
  <2>2. CASE dir[t] = Previous
    BY <2>1, <2>2 DEF FileInv, Kept
  <2>3. CASE dir[t] \in FileWriters /\ (Crowded(t) \/ writer[dir[t]].pc = "ok")
    BY <2>1, <2>3 DEF FileInv, Kept
  <2> QED
    BY <2>2, <2>3 DEF FileInv, TargetsOwned
<1> QED
  BY <1>1, FileInvariance, PTL

\* A writer keeps what it returns: one that returned left no temporary file
\* behind unless remove_file failed as well, its name is taken from it only
\* by a failed sink of the same name, one that failed has not replaced the
\* target, and once one has succeeded the target holds the artifact of one
\* that did; the last two unless three sinks chose one name.
THEOREM ResultsTrueHolds == Spec => []ResultsTrue
<1>1. FileInv => ResultsTrue
  <2> SUFFICES ASSUME FileInv
               PROVE  ResultsTrue
    OBVIOUS
  <2>1. ASSUME NEW w \in FileWriters, writer[w].pc \in {"ok", "failed"}, NEW p \in Temps
        PROVE  dir[p] # w
    <3>1. w # NoFile
      BY FileAssumption DEF FileWriters
    <3> QED
      BY <2>1, <3>1 DEF FileInv, TempsOwned, Holding, Working
  <2>2. ASSUME NEW w \in FileWriters, writer[w].pc \in Working
        PROVE  dir[Temp(w)] = w \/ Robbed(w)
    BY <2>2 DEF FileInv, WorkOwned
  <2>3. TempsKept
    BY <2>1, <2>2 DEF TempsKept, Working
  <2>4. ASSUME NEW w \in FileWriters, writer[w].pc \in {"failed", "left"}
        PROVE  dir[Target[w]] # w \/ Crowded(Target[w])
    <3>1. w # Previous /\ Target[w] \in Targets
      BY FileAssumption DEF FileWriters, Targets
    <3> QED
      BY <2>4, <3>1 DEF FileInv, TargetsOwned
  <2>5. ASSUME NEW t \in Targets, NEW w \in FileWriters, Target[w] = t, writer[w].pc = "ok"
        PROVE  Crowded(t) \/ \E v \in FileWriters : dir[t] = v /\ writer[v].pc = "ok"
    BY <2>5 DEF FileInv, TargetsOwned
  <2> QED
    BY <2>3, <2>4, <2>5 DEF ResultsTrue
<1> QED
  BY <1>1, FileInvariance, PTL
=============================================================================
