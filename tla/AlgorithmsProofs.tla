-------------------------- MODULE AlgorithmsProofs --------------------------
(***************************************************************************)
(* Theorems about the pure parts of the system, for inputs of any size and *)
(* any constants: strict validation decides what normalization would       *)
(* change, every loss is reported where it happened, the bounded JSONL     *)
(* reader returns the lines of a stream however it is cut into buffers, a  *)
(* lenient import accounts for its spans and can be repeated, a built run  *)
(* is accounted for and accepted, and configuration replays.               *)
(***************************************************************************)
EXTENDS MCAlgorithms, TracingImportProofs

----------------------------------------------------------------------------
(* An input stays in its family.                                           *)

\* What the inputs of every family share.
HasFamily(i) == i = [f \in DOMAIN i |-> i[f]] /\ "family" \in DOMAIN i

\* What a controller starts with: it was built from a file.
StartsFrom(i, built, file) ==
    i = [family |-> "template", ctl |-> built.ctl, files |-> <<file, File(Omitted)>>,
         last |-> "build", before |-> built.ctl.template, paths |-> Artifacts(built.ctl),
         steps |-> 0]

LEMMA TemplateStarts ==
    ASSUME NEW i \in TemplateInputs
    PROVE  \E builder \in Builders, file \in Files :
               /\ BuildController(builder, file, TRUE).error = "none"
               /\ StartsFrom(i, BuildController(builder, file, TRUE), file)
<1> DEFINE Built(p) == BuildController(p[1], p[2], TRUE)
           Start(built, file) ==
               [family |-> "template", ctl |-> built.ctl, files |-> <<file, File(Omitted)>>,
                last |-> "build", before |-> built.ctl.template, paths |-> Artifacts(built.ctl),
                steps |-> 0]
<1>1. TemplateInputs = {Start(Built(pair), pair[2]) :
                           pair \in {p \in Builders \X Files : Built(p).error = "none"}}
  BY Zenon DEF TemplateInputs
<1>2. PICK pair \in Builders \X Files : Built(pair).error = "none" /\ i = Start(Built(pair), pair[2])
  <2> HIDE DEF Built, Start
  <2>1. QED
    BY <1>1
<1>3. pair[1] \in Builders /\ pair[2] \in Files
  OBVIOUS
<1>4. QED
  BY <1>2, <1>3, Zenon DEF StartsFrom

\* Initial inputs have a family and come from its inputs.
LEMMA InputFamilies ==
    ASSUME NEW i \in Inputs
    PROVE  /\ HasFamily(i)
           /\ i.family = "run" => i \in RunInputs
           /\ i.family = "reader" => i \in ReaderInputs
           /\ i.family = "import" => i = [family |-> "import", lines |-> <<>>]
           /\ i.family = "built" => i \in BuilderInputs
           /\ i.family = "options" => i \in OptionInputs
           /\ i.family = "template" => i \in TemplateInputs
<1>1. CASE i \in RunInputs
  BY <1>1 DEF RunInputs, HasFamily
<1>2. CASE i \in ReaderInputs
  BY <1>2 DEF ReaderInputs, HasFamily
<1>3. CASE i \in AnalysisInputs
  BY <1>3 DEF AnalysisInputs, HasFamily
<1>4. CASE i \in OptionInputs
  BY <1>4 DEF OptionInputs, HasFamily
<1>5. CASE i \in BuilderInputs
  BY <1>5 DEF BuilderInputs, HasFamily
<1>6. CASE i \in {[family |-> "import", lines |-> <<>>], [family |-> "intervals", events |-> <<>>],
                  [family |-> "gauge", samples |-> <<>>]}
  BY <1>6 DEF HasFamily
<1>7. CASE i \in IncidentInputs
  BY <1>7 DEF IncidentInputs, HasFamily
<1>8. CASE i \in TemplateInputs
  <2>1. PICK built, file : StartsFrom(i, built, file)
    BY <1>8, TemplateStarts, Zenon
  <2>2. QED
    BY <1>8, <2>1 DEF HasFamily, StartsFrom
<1>9. QED
  BY <1>1, <1>2, <1>3, <1>4, <1>5, <1>6, <1>7, <1>8 DEF Inputs

\* A step of a family changes an input of that family, and leaves it there.
LEMMA StepInFamily ==
    ASSUME HasFamily(input), Next
    PROVE  /\ HasFamily(input') /\ input'.family = input.family
           /\ Is("run") => (\E sec \in EventSections : AddEvent(sec)) \/ AddSample
           /\ Is("reader") => Read \/ ReachEnd
           /\ Is("import") => AddLine
           /\ Is("built") => PushEvent
           /\ Is("options") => AddSet
           /\ Is("template") => EditFile \/ ReloadFile \/ ReloadDirect \/ Arm \/ Disarm \/ ShutDown
<1> USE DEF HasFamily, Is
<1>1. CASE \E sec \in EventSections : AddEvent(sec)
  BY <1>1 DEF AddEvent
<1>2. CASE AddSample
  BY <1>2 DEF AddSample
<1>3. CASE AddLine
  BY <1>3 DEF AddLine
<1>4. CASE Read
  BY <1>4 DEF Read
<1>5. CASE ReachEnd
  BY <1>5 DEF ReachEnd
<1>6. CASE AddInterval
  BY <1>6 DEF AddInterval
<1>7. CASE AddGaugeSample
  BY <1>7 DEF AddGaugeSample
<1>8. CASE AddSet
  BY <1>8 DEF AddSet
<1>9. CASE PushEvent
  <2>1. input.family = "built"
    BY <1>9 DEF PushEvent
  <2>2. HasFamily(input') /\ input'.family = input.family
    BY <1>9 DEF PushEvent
  <2>3. QED
    BY <1>9, <2>1, <2>2
<1>10. ASSUME NEW last, NEW ctl, NEW files, Step(last, ctl, files)
       PROVE  /\ HasFamily(input') /\ input'.family = input.family /\ input.family = "template"
  BY <1>10 DEF Step
<1>11. CASE EditFile \/ ReloadFile \/ ReloadDirect \/ Arm \/ Disarm \/ ShutDown
  BY <1>10, <1>11 DEF EditFile, ReloadFile, ReloadDirect, Arm, Disarm, ShutDown
<1>12. QED
  BY <1>1, <1>2, <1>3, <1>4, <1>5, <1>6, <1>7, <1>8, <1>9, <1>11 DEF Next

----------------------------------------------------------------------------
(* Runs to validate.                                                       *)

\* The inductive invariant of the runs: their evidence is well formed.
ValidatedRun(run) ==
    /\ EvidenceRun(run) /\ {"meta", "finalized"} \subseteq DOMAIN run
    /\ run.finalized \in {"ok", "inverted"}

RunInv ==
    /\ HasFamily(input)
    /\ Is("run") => "run" \in DOMAIN input /\ ValidatedRun(input.run)

\* A section stays one when an event is added.
LEMMA AppendedSection ==
    ASSUME NEW s, IsSection(s), NEW x
    PROVE  /\ IsSection(Append(s, x))
           /\ \A i \in DOMAIN Append(s, x) : Append(s, x)[i] = x \/ (i \in DOMAIN s /\ Append(s, x)[i] = s[i])
<1> DEFINE S == {s[i] : i \in DOMAIN s}
           T == S \cup {x}
<1>1. s \in Seq(S)
  BY DEF IsSection
<1> HIDE DEF S
<1>2. s \in Seq(T) /\ x \in T
  BY <1>1
<1> HIDE DEF T
<1>3. Append(s, x) \in Seq(T)
  BY <1>2
<1>4. IsSection(Append(s, x))
  BY <1>3, SequenceIsSection
<1>5. \A i \in DOMAIN Append(s, x) : Append(s, x)[i] = x \/ (i \in DOMAIN s /\ Append(s, x)[i] = s[i])
  BY <1>2
<1>6. QED
  BY <1>4, <1>5

\* The runs that validation starts from are empty.
LEMMA EmptyRuns ==
    ASSUME NEW i \in RunInputs
    PROVE  "run" \in DOMAIN i /\ ValidatedRun(i.run)
<1>1. PICK fin \in {"ok", "inverted"}, bad \in {{}, {"run_id"}, {"schema_version", "service_name"}} :
          i = [family |-> "run",
               run |-> [requests |-> <<>>, stages |-> <<>>, queues |-> <<>>, inflight |-> <<>>,
                        runtime |-> <<>>, finalized |-> fin, meta |-> bad]]
  BY DEF RunInputs
<1>2. <<>> \in Seq({}) /\ DOMAIN <<>> = {}
  OBVIOUS
<1>3. IsSection(<<>>)
  BY <1>2, SequenceIsSection
<1>4. EventSection(<<>>)
  BY <1>2, <1>3 DEF EventSection
<1> DEFINE rn == [requests |-> <<>>, stages |-> <<>>, queues |-> <<>>, inflight |-> <<>>,
                  runtime |-> <<>>, finalized |-> fin, meta |-> bad]
<1>5. /\ rn = [f \in DOMAIN rn |-> rn[f]] /\ RunSections \subseteq DOMAIN rn
      /\ {"meta", "finalized"} \subseteq DOMAIN rn /\ rn.finalized = fin
      /\ rn.requests = <<>> /\ rn.stages = <<>> /\ rn.queues = <<>>
      /\ rn.inflight = <<>> /\ rn.runtime = <<>>
  BY DEF RunSections
<1>6. i.run = rn /\ "run" \in DOMAIN i
  BY <1>1
<1> HIDE DEF rn
<1>7. ValidatedRun(rn)
  BY <1>2, <1>3, <1>4, <1>5 DEF ValidatedRun, EvidenceRun
<1>8. QED
  BY <1>6, <1>7

\* The events that are added to a run are well formed.
LEMMA RunEventsFormed ==
    ASSUME NEW ev \in RunEvents
    PROVE  WellFormed(ev)
<1>1. PICK id, shape, s, e, dur : /\ ev = [id |-> id, shape |-> shape, s |-> s, e |-> e, dur |-> dur]
                                  /\ shape \in EventShapes
  BY DEF RunEvents, EventShapes
<1>2. QED
  BY <1>1 DEF WellFormed, EventFields

\* A run stays well formed when one section grows.
LEMMA GrownRun ==
    ASSUME NEW rn, ValidatedRun(rn), NEW sec \in RunSections, NEW x,
           sec \in EventSections => WellFormed(x),
           sec = "runtime" => x \in {"ok", "zero_workers"}
    PROVE  ValidatedRun([rn EXCEPT ![sec] = Append(@, x)])
<1> DEFINE new == Append(rn[sec], x)
           out == [rn EXCEPT ![sec] = new]
<1>1. RunSections \subseteq DOMAIN rn /\ {"meta", "finalized"} \subseteq DOMAIN rn
  BY DEF ValidatedRun, EvidenceRun
<1>2. \A f \in RunSections : IsSection(rn[f])
  BY DEF ValidatedRun, EvidenceRun, RunSections, EventSection
<1>3. \A f \in EventSections : \A i \in DOMAIN rn[f] : WellFormed(rn[f][i])
  BY DEF ValidatedRun, EvidenceRun, EventSections, ChildSections, EventSection
<1>4. /\ IsSection(new)
      /\ \A i \in DOMAIN new : new[i] = x \/ (i \in DOMAIN rn[sec] /\ new[i] = rn[sec][i])
  BY <1>2, AppendedSection
<1>5. \A i \in DOMAIN rn.runtime : rn.runtime[i] \in {"ok", "zero_workers"}
  BY DEF ValidatedRun, EvidenceRun
<1> HIDE DEF new
<1>6. /\ out = [f \in DOMAIN out |-> out[f]] /\ DOMAIN out = DOMAIN rn
      /\ out[sec] = new /\ \A f \in DOMAIN rn \ {sec} : out[f] = rn[f]
  BY <1>1
<1> HIDE DEF out
<1>7. \A f \in RunSections : IsSection(out[f])
  BY <1>1, <1>2, <1>4, <1>6
<1>8. EventSections \subseteq RunSections
  BY DEF EventSections, ChildSections, RunSections
<1>9. \A f \in EventSections : \A i \in DOMAIN out[f] : WellFormed(out[f][i])
  BY <1>1, <1>3, <1>4, <1>6, <1>8
<1>10. \A i \in DOMAIN out.runtime : out.runtime[i] \in {"ok", "zero_workers"}
  <2>1. CASE sec = "runtime"
    BY <1>4, <1>5, <1>6, <2>1
  <2>2. CASE sec # "runtime"
    BY <1>1, <1>5, <1>6, <2>2 DEF RunSections
  <2>3. QED
    BY <2>1, <2>2
<1>11. out.finalized \in {"ok", "inverted"}
  BY <1>1, <1>6 DEF ValidatedRun, RunSections
<1>12. \A f \in EventSections : EventSection(out[f])
  BY <1>7, <1>8, <1>9 DEF EventSection
<1>13. EvidenceRun(out)
  BY <1>1, <1>6, <1>7, <1>10, <1>12 DEF EvidenceRun, EventSections, ChildSections, RunSections
<1>14. ValidatedRun(out)
  BY <1>1, <1>6, <1>11, <1>13 DEF ValidatedRun
<1>15. QED
  BY <1>14 DEF out, new

\* The invariant holds, whatever is added and in whatever order.
LEMMA RunsValidated == Spec => []RunInv
<1>1. Init => RunInv
  BY InputFamilies, EmptyRuns DEF Init, RunInv, Is
<1>2. RunInv /\ [Next]_input => RunInv'
  <2> SUFFICES ASSUME RunInv, [Next]_input PROVE RunInv'
    OBVIOUS
  <2>1. CASE UNCHANGED input
    BY <2>1 DEF RunInv, Is
  <2>2. CASE Next /\ ~Is("run")
    BY <2>2, StepInFamily DEF RunInv, Is
  <2>3. CASE Next /\ Is("run")
    <3>1. HasFamily(input') /\ input'.family = input.family
      BY <2>3, StepInFamily DEF RunInv
    <3>2. "run" \in DOMAIN input /\ ValidatedRun(input.run)
      BY <2>3 DEF RunInv
    <3>3. ASSUME NEW sec \in RunSections, NEW x,
                 sec \in EventSections => WellFormed(x),
                 sec = "runtime" => x \in {"ok", "zero_workers"},
                 input' = [input EXCEPT !.run[sec] = Append(@, x)]
          PROVE  "run" \in DOMAIN input' /\ ValidatedRun(input'.run)
      <4>1. ValidatedRun([input.run EXCEPT ![sec] = Append(@, x)])
        BY <3>2, <3>3, GrownRun
      <4>2. "run" \in DOMAIN input' /\ input'.run = [input.run EXCEPT ![sec] = Append(@, x)]
        BY <3>2, <3>3
      <4>3. QED
        BY <4>1, <4>2
    <3>4. CASE \E sec \in EventSections : AddEvent(sec)
      <4>1. PICK sec \in EventSections : AddEvent(sec)
        BY <3>4
      <4>2. PICK ev \in RunEvents : input' = [input EXCEPT !.run[sec] = Append(@, ev)]
        BY <4>1 DEF AddEvent
      <4>3. sec \in RunSections /\ sec # "runtime" /\ WellFormed(ev)
        BY RunEventsFormed DEF EventSections, ChildSections, RunSections
      <4>4. QED
        BY <3>1, <3>3, <4>2, <4>3 DEF RunInv, Is
    <3>5. CASE AddSample
      <4>1. CASE \E g \in {0, 1} : input' = [input EXCEPT !.run.inflight = Append(@, [gauge |-> g])]
        <5>1. PICK g \in {0, 1} : input' = [input EXCEPT !.run.inflight = Append(@, [gauge |-> g])]
          BY <4>1
        <5>2. "inflight" \in RunSections /\ "inflight" \notin EventSections
          BY DEF RunSections, EventSections, ChildSections
        <5>3. QED
          BY <3>1, <3>3, <5>1, <5>2 DEF RunInv, Is
      <4>2. CASE \E w \in {"ok", "zero_workers"} : input' = [input EXCEPT !.run.runtime = Append(@, w)]
        <5>1. PICK w \in {"ok", "zero_workers"} : input' = [input EXCEPT !.run.runtime = Append(@, w)]
          BY <4>2
        <5>2. "runtime" \in RunSections /\ "runtime" \notin EventSections
          BY DEF RunSections, EventSections, ChildSections
        <5>3. QED
          BY <3>1, <3>3, <5>1, <5>2 DEF RunInv, Is
      <4>3. QED
        BY <3>5, <4>1, <4>2 DEF AddSample
    <3>6. QED
      BY <2>3, <3>4, <3>5, StepInFamily DEF RunInv
  <2>4. QED
    BY <2>1, <2>2, <2>3
<1>3. QED
  BY <1>1, <1>2, PTL DEF Spec

\* Strict validation accepts exactly the runs with sound metadata that
\* normalization leaves alone, and finds no error in what it returns.
THEOREM ReportDecidesHolds == Spec => []ReportDecides
<1>1. RunInv => ReportDecides
  <2> SUFFICES ASSUME RunInv, Is("run") PROVE ReportDecides
    BY DEF ReportDecides
  <2> DEFINE rn == input.run
  <2>1. EvidenceRun(rn) /\ {"meta", "finalized"} \subseteq DOMAIN rn /\ rn.finalized \in {"ok", "inverted"}
    BY DEF RunInv, ValidatedRun
  <2>2. ValidateStrict(rn) <=> rn.meta = {} /\ rn.finalized = "ok" /\ NormalizeRun(rn) = rn
    BY <2>1, StrictDecides
  <2>3. ValidateStrict([NormalizeRun(rn) EXCEPT !.meta = {}, !.finalized = "ok"])
    BY <2>1, NormalizedStrict
  <2>4. QED
    BY <2>2, <2>3 DEF ReportDecides
<1>2. QED
  BY <1>1, RunsValidated, PTL

\* Every disposition is true, and a durable lifecycle warning is written
\* exactly when normalization changed the run.
THEOREM LossesReportedHolds == Spec => []LossesReported
<1>1. RunInv => LossesReported
  <2> SUFFICES ASSUME RunInv, Is("run") PROVE LossesReported
    BY DEF LossesReported
  <2> DEFINE rn == input.run
  <2>1. EvidenceRun(rn)
    BY DEF RunInv, ValidatedRun
  <2>2. LifecycleSummary(rn) # {} <=> NormalizeRun(rn) # rn
    BY <2>1, ChangeIsTold
  <2>3. ASSUME NEW sec \in EventSections
        PROVE  LET kept == {i \in DOMAIN rn[sec] : ~Excluded(Report(rn), sec, i)}
               IN  /\ Cardinality(kept) = Len(NormalizeRun(rn)[sec])
                   /\ \A i \in kept :
                          /\ OutputIndex(Report(rn), sec, i) \in DOMAIN NormalizeRun(rn)[sec]
                          /\ NormalizeRun(rn)[sec][OutputIndex(Report(rn), sec, i)] = ClearBad(rn[sec][i])
    BY <2>1, DispositionsTrue
  <2>4. QED
    BY <2>2, <2>3 DEF LossesReported
<1>2. QED
  BY <1>1, RunsValidated, PTL

----------------------------------------------------------------------------
(* The bounded reader of JSONL lines.                                      *)

Stream(st) == st \in Seq({"x", "nl"})

\* The lines start at finitely many places.
LEMMA StartsFinite ==
    ASSUME NEW st, Stream(st)
    PROVE  LineStarts(st) \in SUBSET Nat /\ IsFiniteSet(LineStarts(st))
<1> DEFINE n == Len(st)
<1>1. n \in Nat
  BY DEF Stream
<1>2. LineStarts(st) \subseteq 1..n
  BY DEF LineStarts
<1> HIDE DEF n
<1>3. IsFiniteSet(1..n)
  BY <1>1, FS_Interval, 1 \in Int, n \in Int
<1>4. IsFiniteSet(LineStarts(st))
  BY <1>2, <1>3, FS_Subset
<1>5. LineStarts(st) \in SUBSET Nat
  BY <1>1, <1>2
<1>6. QED
  BY <1>4, <1>5

\* The ends that LineLength takes the first of.
Ends(st, b) == {j \in b..(Len(st) + 1) : j = Len(st) + 1 \/ st[j] = "nl"}

\* A line that starts at b without a newline before e is at least e - b long,
\* and just that when it ends there.
LEMMA LineEnd ==
    ASSUME NEW st, Stream(st), NEW b \in Nat, NEW e \in b..(Len(st) + 1),
           \A j \in b..(e - 1) : st[j] # "nl"
    PROVE  /\ LineLength(st, b) \in Nat /\ LineLength(st, b) >= e - b
           /\ e = Len(st) + 1 \/ st[e] = "nl" => LineLength(st, b) = e - b
<1> DEFINE n == Len(st)
           E == Ends(st, b)
<1>1. n \in Nat
  BY DEF Stream
<1>2. LineLength(st, b) = Min(E) - b
  BY DEF LineLength, Ends
<1>3. E \subseteq b..(n + 1) /\ n + 1 \in E
  BY <1>1 DEF Ends
<1>4. \A j \in E : j >= e
  <2>1. ASSUME NEW j \in E, j < e PROVE FALSE
    <3>1. j \in b..(n + 1) /\ (j = n + 1 \/ st[j] = "nl")
      BY DEF Ends
    <3> HIDE DEF n, E
    <3>2. j \in b..(e - 1) /\ j # n + 1
      BY <1>1, <2>1, <3>1 DEF n
    <3>3. QED
      BY <3>1, <3>2
  <2> HIDE DEF E
  <2>2. \A j \in E : j \in Int
    BY <1>1, <1>3
  <2>3. QED
    BY <1>1, <2>1, <2>2
<1>5. e = n + 1 \/ st[e] = "nl" => e \in E
  BY DEF Ends
<1>6. e \in Nat /\ e <= n + 1
  BY <1>1
<1> HIDE DEF n, E
<1>7. E \in SUBSET Nat /\ IsFiniteSet(E) /\ E # {}
  <2>1. IsFiniteSet(b..(n + 1))
    BY <1>1, FS_Interval, b \in Int, n + 1 \in Int
  <2>2. IsFiniteSet(E)
    BY <1>3, <2>1, FS_Subset
  <2>3. E \in SUBSET Nat
    BY <1>1, <1>3
  <2>4. QED
    BY <1>3, <2>2, <2>3
<1>8. Min(E) \in E /\ \A y \in E : Min(E) <= y
  BY <1>7, MinExists
<1>9. Min(E) \in Nat /\ Min(E) >= e
  BY <1>4, <1>7, <1>8
<1>10. e = n + 1 \/ st[e] = "nl" => Min(E) = e
  BY <1>5, <1>6, <1>8, <1>9
<1>11. QED
  BY <1>2, <1>6, <1>9, <1>10 DEF n

----------------------------------------------------------------------------
(* What the reader is to return.                                           *)

Size(st, n) == LineLength(st, Index(LineStarts(st), n))
Count(st) == Cardinality(LineStarts(st))
Over(st) == {n \in 1..Count(st) : Size(st, n) > RecordLimit}
Good(st) == IF Over(st) = {} THEN Count(st) ELSE Min(Over(st)) - 1
Lines(st, n) == [i \in 1..n |-> <<"line", i, Size(st, i)>>]
Refusal(st) == IF Over(st) = {} THEN <<>> ELSE << <<"too_large", Min(Over(st))>> >>
Expected(st) == Lines(st, Good(st)) \o Refusal(st)

\* Where the reader stands while it reads: within a line that starts at b,
\* which has no newline yet, having returned every line before it.
LineBegin(r) == r.pos - r.record + 1
StartsBefore(st, b) == {k \in LineStarts(st) : k < b}

AtLine(st, r) ==
    /\ r.pos \in 0..Len(st) /\ r.record \in 0..r.pos /\ r.record <= RecordLimit
    /\ LineBegin(r) = 1 \/ st[LineBegin(r) - 1] = "nl"
    /\ \A j \in LineBegin(r)..r.pos : st[j] # "nl"
    /\ r.line = Cardinality(StartsBefore(st, LineBegin(r))) + 1
    /\ r.out = Lines(st, r.line - 1)
    /\ \A n \in 1..(r.line - 1) : Size(st, n) <= RecordLimit

ReaderFields == {"pos", "record", "line", "done", "out"}

ReaderOk(st, r) ==
    /\ Stream(st) /\ r = [f \in ReaderFields |-> r[f]] /\ r.done \in BOOLEAN
    /\ IF r.done THEN r.out = Expected(st) ELSE AtLine(st, r)

\* The inductive invariant of the reader.
ReaderInv ==
    /\ HasFamily(input)
    /\ Is("reader") => {"stream", "reader"} \subseteq DOMAIN input /\ ReaderOk(input.stream, input.reader)

\* The line that the reader is in, if there is one, is the next one.
LEMMA CurrentLine ==
    ASSUME NEW st, Stream(st), NEW r, AtLine(st, r)
    PROVE  /\ LineBegin(r) \in 1..(Len(st) + 1) /\ Count(st) \in Nat
           /\ r.line - 1 \in 0..Count(st) /\ r.line \in Nat
           /\ LineBegin(r) <= Len(st) =>
                  /\ LineBegin(r) \in LineStarts(st)
                  /\ r.line \in 1..Count(st) /\ Index(LineStarts(st), r.line) = LineBegin(r)
<1> DEFINE n == Len(st)
           b == LineBegin(r)
           S == LineStarts(st)
           B == StartsBefore(st, b)
<1>1. n \in Nat
  BY DEF Stream
<1>2. b \in 1..(n + 1)
  <2> HIDE DEF n
  <2>1. r.pos \in 0..n /\ r.record \in 0..r.pos
    BY DEF AtLine, n
  <2>2. QED
    BY <1>1, <2>1 DEF LineBegin
<1>3. S \in SUBSET Nat /\ IsFiniteSet(S) /\ Cardinality(S) \in Nat
  BY StartsFinite, FS_CardinalityType
<1>4. B \subseteq S /\ b \notin B
  BY <1>1, <1>2 DEF StartsBefore
<1>5. IsFiniteSet(B) /\ Cardinality(B) \in Nat /\ Cardinality(B) <= Cardinality(S)
  BY <1>3, <1>4, FS_Subset, FS_CardinalityType
<1>6. r.line = Cardinality(B) + 1
  BY DEF AtLine
<1>7. ASSUME b <= n
      PROVE  b \in S /\ r.line \in 1..Cardinality(S) /\ Index(S, r.line) = b
  <2>1. b \in S
    BY <1>1, <1>2, <1>7 DEF LineStarts, AtLine
  <2>2. {j \in S : j <= b} = B \cup {b}
    <3>1. \A j \in S : j <= b <=> j < b \/ j = b
      BY <1>2, <1>3
    <3>2. QED
      BY <2>1, <3>1 DEF StartsBefore
  <2> HIDE DEF b, S, B
  <2>3. Cardinality(B \cup {b}) = Cardinality(B) + 1
    BY <1>4, <1>5, FS_AddElement
  <2>4. Rank(S, b) = r.line
    BY <1>6, <2>2, <2>3 DEF Rank
  <2>5. r.line \in 1..Cardinality(S)
    BY <1>3, <2>1, <2>4, RankBijective
  <2>6. Index(S, r.line) \in S /\ Rank(S, Index(S, r.line)) = r.line
    BY <1>3, <2>5, RankBijective DEF Index
  <2>7. Index(S, r.line) = b
    BY <1>3, <2>1, <2>4, IndexOfRank
  <2>8. QED
    BY <2>1, <2>5, <2>7
<1> HIDE DEF n, b, S, B
<1>8. r.line - 1 \in 0..Cardinality(S) /\ r.line \in Nat
  BY <1>3, <1>5, <1>6
<1>9. QED
  BY <1>2, <1>3, <1>7, <1>8 DEF Count, n, b, S

\* What a line number stands for.
LEMMA LinesBefore ==
    ASSUME NEW st, NEW n \in Nat
    PROVE  /\ DOMAIN Lines(st, n) = 1..n /\ Len(Lines(st, n)) = n
           /\ \A i \in 1..n : Lines(st, n)[i] = <<"line", i, Size(st, i)>>
           /\ Lines(st, n) \in Seq({Lines(st, n)[i] : i \in 1..n})
<1> DEFINE s == Lines(st, n)
           S == {s[i] : i \in 1..n}
<1>1. DOMAIN s = 1..n /\ s = [i \in 1..n |-> s[i]]
  BY DEF Lines
<1>2. \A i \in 1..n : s[i] = <<"line", i, Size(st, i)>>
  BY DEF Lines
<1>3. \A i \in 1..n : s[i] \in S
  OBVIOUS
<1> HIDE DEF s, S
<1>4. s \in [1..n -> S]
  BY <1>1, <1>3
<1>5. s \in Seq(S) /\ Len(s) = n
  BY <1>4
<1>6. QED
  BY <1>1, <1>2, <1>5 DEF s, S

\* One more line.
LEMMA LinesAppend ==
    ASSUME NEW st, NEW n \in Nat, NEW x, x = <<"line", n + 1, Size(st, n + 1)>>
    PROVE  Append(Lines(st, n), x) = Lines(st, n + 1)
<1> DEFINE s == Lines(st, n)
           t == Lines(st, n + 1)
<1>1. DOMAIN s = 1..n /\ Len(s) = n /\ \A i \in 1..n : s[i] = <<"line", i, Size(st, i)>>
  BY LinesBefore
<1>2. t = [i \in 1..(n + 1) |-> <<"line", i, Size(st, i)>>]
  BY DEF Lines
<1>3. Append(s, x) = [i \in 1..(n + 1) |-> IF i = n + 1 THEN x ELSE s[i]]
  <2>1. Append(s, x) = [i \in 1..(Len(s) + 1) |-> IF i \in 1..Len(s) THEN s[i] ELSE x]
    <3> DEFINE T == {s[i] : i \in 1..n}
    <3>1. s \in Seq(T)
      BY LinesBefore
    <3> HIDE DEF T, s
    <3>2. s \in Seq(T \cup {x}) /\ x \in T \cup {x}
      BY <3>1
    <3>3. QED
      BY <3>2
  <2>2. QED
    BY <1>1, <2>1
<1> HIDE DEF s, t
<1>4. \A i \in 1..(n + 1) : (IF i = n + 1 THEN x ELSE s[i]) = <<"line", i, Size(st, i)>>
  BY <1>1
<1>5. QED
  BY <1>2, <1>3, <1>4 DEF s, t

\* Lines have a length.
LEMMA SizeNat ==
    ASSUME NEW st, Stream(st), NEW n \in 1..Count(st)
    PROVE  Size(st, n) \in Nat
<1> DEFINE b == Index(LineStarts(st), n)
<1>1. b \in LineStarts(st)
  BY StartsFinite, RankBijective DEF Index, Count
<1>2. b \in Nat /\ b \in 1..Len(st) /\ Len(st) \in Nat
  BY <1>1 DEF LineStarts, Stream
<1> HIDE DEF b
<1>3. b \in b..(Len(st) + 1) /\ \A j \in b..(b - 1) : st[j] # "nl"
  BY <1>2
<1>4. LineLength(st, b) \in Nat
  BY <1>2, <1>3, LineEnd
<1>5. QED
  BY <1>4 DEF Size, b

\* The reader refuses a stream at the first line over the limit.
LEMMA RefusedLine ==
    ASSUME NEW st, Stream(st), NEW r, AtLine(st, r), LineBegin(r) <= Len(st),
           LineLength(st, LineBegin(r)) > RecordLimit
    PROVE  Append(r.out, <<"too_large", r.line>>) = Expected(st)
<1> DEFINE k == r.line
           x == <<"too_large", k>>
<1>1. k \in 1..Count(st) /\ Index(LineStarts(st), k) = LineBegin(r) /\ Count(st) \in Nat
  BY CurrentLine
<1>2. r.out = Lines(st, k - 1) /\ \A n \in 1..(k - 1) : Size(st, n) <= RecordLimit
  BY DEF AtLine
<1>3. Size(st, k) > RecordLimit
  BY <1>1 DEF Size
<1> HIDE DEF k
<1>4. k \in Over(st)
  BY <1>1, <1>3 DEF Over
<1>5. \A n \in Over(st) : k <= n
  <2>1. ASSUME NEW n \in Over(st), n < k PROVE FALSE
    <3>1. n \in 1..Count(st) /\ Size(st, n) > RecordLimit
      BY DEF Over
    <3>2. n \in 1..(k - 1)
      BY <1>1, <2>1, <3>1
    <3>3. Size(st, n) <= RecordLimit /\ Size(st, n) \in Nat
      BY <1>2, <3>1, <3>2, SizeNat
    <3>4. QED
      BY <3>1, <3>3, RecordLimitAssumption
  <2>2. \A n \in Over(st) : n \in Nat
    BY <1>1 DEF Over
  <2>3. QED
    BY <1>1, <2>1, <2>2
<1>6. Min(Over(st)) = k
  <2>1. Over(st) \in SUBSET Int
    BY <1>1 DEF Over
  <2>2. QED
    BY <1>4, <1>5, <2>1, LeastIsMin
<1>7. Over(st) # {}
  BY <1>4
<1>8. Good(st) = k - 1 /\ Refusal(st) = <<x>>
  BY <1>6, <1>7 DEF Good, Refusal
<1>9. Expected(st) = Lines(st, k - 1) \o <<x>>
  BY <1>8 DEF Expected
<1>10. Lines(st, k - 1) \o <<x>> = Append(Lines(st, k - 1), x)
  <2> DEFINE s == Lines(st, k - 1)
             T == {s[i] : i \in 1..(k - 1)}
  <2>1. k - 1 \in Nat
    BY <1>1
  <2>2. s \in Seq(T)
    BY <2>1, LinesBefore
  <2> HIDE DEF s, T, x
  <2>3. s \in Seq(T \cup {x}) /\ x \in T \cup {x}
    BY <2>2
  <2>4. s \o <<x>> = Append(s, x)
    BY <2>3
  <2>5. QED
    BY <2>4 DEF s
<1>11. QED
  BY <1>2, <1>9, <1>10 DEF k

\* A stream whose lines were all returned, and fit, is done.
LEMMA AllLines ==
    ASSUME NEW st, Stream(st), \A n \in 1..Count(st) : Size(st, n) <= RecordLimit
    PROVE  Expected(st) = Lines(st, Count(st))
<1>1. Over(st) = {}
  BY SizeNat, RecordLimitAssumption DEF Over
<1>2. Expected(st) = Lines(st, Count(st)) \o <<>>
  BY <1>1 DEF Expected, Good, Refusal
<1> DEFINE n == Count(st)
           s == Lines(st, n)
           S == {s[i] : i \in 1..n}
<1>3. n \in Nat
  BY StartsFinite, FS_CardinalityType DEF Count
<1> HIDE DEF n
<1>4. s \in Seq(S)
  BY <1>3, LinesBefore
<1> HIDE DEF s, S
<1>5. s \o <<>> = s
  BY <1>4
<1>6. QED
  BY <1>2, <1>5 DEF s, n

\* What the reader is to return: some of the lines, and then the refusal.
LEMMA ExpectedSequence ==
    ASSUME NEW st, Stream(st)
    PROVE  /\ Count(st) \in Nat /\ Good(st) \in 0..Count(st)
           /\ IsSection(Lines(st, Good(st))) /\ IsSection(Refusal(st)) /\ IsSection(Expected(st))
<1> DEFINE s == Lines(st, Good(st))
           t == Refusal(st)
<1>1. Count(st) \in Nat
  BY StartsFinite, FS_CardinalityType DEF Count
<1>2. Good(st) \in 0..Count(st)
  <2>1. CASE Over(st) = {}
    BY <1>1, <2>1 DEF Good
  <2>2. CASE Over(st) # {}
    <3> DEFINE V == Over(st)
    <3>1. V \subseteq 1..Count(st)
      BY DEF Over
    <3> HIDE DEF V
    <3>2. V \in SUBSET Nat
      BY <1>1, <3>1
    <3>3. IsFiniteSet(V)
      <4>1. IsFiniteSet(1..Count(st))
        BY <1>1, FS_Interval, 1 \in Int, Count(st) \in Int
      <4>2. QED
        BY <3>1, <4>1, FS_Subset
    <3>4. Min(V) \in V
      BY <2>2, <3>2, <3>3, MinExists DEF V
    <3>5. Min(V) \in 1..Count(st)
      BY <3>1, <3>4
    <3>6. Good(st) = Min(V) - 1
      BY <2>2 DEF Good, V
    <3>7. QED
      BY <1>1, <3>5, <3>6
  <2>3. QED
    BY <2>1, <2>2
<1>3. IsSection(s)
  <2>1. Good(st) \in Nat
    BY <1>1, <1>2
  <2>2. s \in Seq({s[i] : i \in 1..Good(st)}) /\ DOMAIN s = 1..Good(st)
    BY <2>1, LinesBefore
  <2> HIDE DEF s
  <2>3. QED
    BY <2>2 DEF IsSection
<1>4. IsSection(t)
  <2> DEFINE x == <<"too_large", Min(Over(st))>>
  <2>1. t = <<>> \/ t = <<x>>
    BY DEF Refusal
  <2> HIDE DEF t, x
  <2> DEFINE X == {x}
  <2>2. x \in X
    OBVIOUS
  <2> HIDE DEF X
  <2>3. <<>> \in Seq(X) /\ <<x>> \in Seq(X)
    BY <2>2
  <2>4. t \in Seq(X)
    BY <2>1, <2>3, Zenon
  <2>5. QED
    BY <2>4, SequenceIsSection
<1>5. IsSection(s \o t)
  <2> DEFINE A == {s[i] : i \in DOMAIN s}
             B == {t[i] : i \in DOMAIN t}
  <2>1. s \in Seq(A) /\ t \in Seq(B)
    BY <1>3, <1>4 DEF IsSection
  <2> HIDE DEF A, B, s, t
  <2>2. s \in Seq(A \cup B) /\ t \in Seq(A \cup B)
    BY <2>1
  <2>3. s \o t \in Seq(A \cup B)
    BY <2>2
  <2>4. QED
    BY <2>3, SequenceIsSection
<1>6. QED
  BY <1>1, <1>2, <1>3, <1>4, <1>5 DEF Expected

\* While it reads, the reader has returned a prefix of what it is to return.
LEMMA PrefixReturned ==
    ASSUME NEW st, Stream(st), NEW r, AtLine(st, r)
    PROVE  Len(r.out) <= Len(Expected(st)) /\ SubSeq(Expected(st), 1, Len(r.out)) = r.out
<1> DEFINE m == r.line - 1
           g == Good(st)
<1>1. m \in 0..Count(st) /\ Count(st) \in Nat
  BY CurrentLine
<1>2. r.out = Lines(st, m) /\ \A n \in 1..m : Size(st, n) <= RecordLimit
  BY DEF AtLine
<1> HIDE DEF m
<1>3. g \in Nat /\ m <= g
  <2>1. g \in 0..Count(st)
    BY ExpectedSequence
  <2>2. CASE Over(st) = {}
    BY <1>1, <2>2 DEF Good
  <2>3. CASE Over(st) # {}
    <3> DEFINE V == Over(st)
    <3>1. V \subseteq 1..Count(st) /\ \A n \in V : Size(st, n) > RecordLimit
      BY DEF Over
    <3>2. g = Min(V) - 1
      BY <2>3 DEF Good
    <3>3. Min(V) \in V
      <4>1. IsFiniteSet(1..Count(st))
        BY <1>1, FS_Interval, 1 \in Int, Count(st) \in Int
      <4>2. IsFiniteSet(V)
        BY <3>1, <4>1, FS_Subset
      <4>3. V \in SUBSET Nat
        BY <1>1, <3>1
      <4> HIDE DEF V
      <4>4. QED
        BY <2>3, <4>2, <4>3, MinExists DEF V
    <3> HIDE DEF V, g
    <3>4. Min(V) \in 1..Count(st)
      BY <3>1, <3>3
    <3>5. ASSUME Min(V) <= m PROVE FALSE
      <4>1. Min(V) \in 1..m
        BY <1>1, <3>4, <3>5
      <4>2. Size(st, Min(V)) \in Nat
        BY <3>4, SizeNat
      <4>3. QED
        BY <1>2, <3>1, <3>3, <4>1, <4>2, RecordLimitAssumption
    <3>6. QED
      BY <1>1, <3>2, <3>4, <3>5
  <2>4. QED
    BY <2>2, <2>3
<1> HIDE DEF g
<1> DEFINE s == Lines(st, g)
           t == Refusal(st)
           T == {s[i] : i \in 1..g} \cup {t[i] : i \in DOMAIN t}
<1>4. DOMAIN s = 1..g /\ Len(s) = g /\ \A i \in 1..g : s[i] = <<"line", i, Size(st, i)>>
  BY <1>3, LinesBefore
<1>5. IsSection(s) /\ IsSection(t)
  BY ExpectedSequence DEF g
<1>7. s \in Seq(T) /\ t \in Seq(T)
  <2> DEFINE A == {s[i] : i \in DOMAIN s}
             B == {t[i] : i \in DOMAIN t}
  <2>1. s \in Seq(A) /\ t \in Seq(B)
    BY <1>5 DEF IsSection
  <2>2. T = A \cup B
    BY <1>4
  <2> HIDE DEF A, B, T, s, t
  <2>3. s \in Seq(A \cup B) /\ t \in Seq(A \cup B)
    BY <2>1
  <2>4. QED
    BY <2>2, <2>3
<1>8. Expected(st) = s \o t
  BY DEF Expected, g
<1>9. Len(r.out) = m /\ r.out = [i \in 1..m |-> <<"line", i, Size(st, i)>>]
  <2>1. m \in Nat
    BY <1>1
  <2>2. QED
    BY <1>2, <2>1, LinesBefore DEF Lines
<1> HIDE DEF s, t, T
<1>10. Len(s \o t) = g + Len(t) /\ Len(t) \in Nat /\ \A i \in 1..g : (s \o t)[i] = s[i]
  <2>1. /\ Len(s \o t) = Len(s) + Len(t) /\ Len(t) \in Nat
        /\ \A i \in 1..Len(s) : (s \o t)[i] = s[i]
    BY <1>7
  <2>2. QED
    BY <1>4, <2>1
<1>11. m <= Len(s \o t)
  BY <1>1, <1>3, <1>10
<1>12. SubSeq(s \o t, 1, m) = [i \in 1..m |-> (s \o t)[i]]
  <2>1. s \o t \in Seq(T)
    BY <1>7
  <2> DEFINE u == s \o t
  <2> HIDE DEF u
  <2>2. SubSeq(u, 1, m) = [i \in 1..m |-> u[i]]
    <3>1. SubSeq(u, 1, m) = [i \in 1..(m - 1 + 1) |-> u[i + 1 - 1]]
      BY <1>1, <1>11, <2>1 DEF u
    <3>2. m \in Int /\ m - 1 + 1 = m /\ \A i \in 1..m : i + 1 - 1 = i
      BY <1>1
    <3>3. QED
      BY <3>1, <3>2
  <2>3. QED
    BY <2>2 DEF u
<1>13. \A i \in 1..m : (s \o t)[i] = <<"line", i, Size(st, i)>>
  BY <1>1, <1>3, <1>4, <1>10
<1>14. SubSeq(s \o t, 1, m) = r.out
  BY <1>9, <1>12, <1>13
<1>15. QED
  BY <1>8, <1>9, <1>11, <1>14

\* The starts up to the end of the reader's line are its own and those before.
LEMMA StartsWithin ==
    ASSUME NEW st, Stream(st), NEW r, AtLine(st, r), LineBegin(r) <= Len(st),
           NEW e \in LineBegin(r)..(Len(st) + 1), \A j \in LineBegin(r)..(e - 1) : st[j] # "nl"
    PROVE  Cardinality(StartsBefore(st, e + 1)) = r.line
<1> DEFINE n == Len(st)
           b == LineBegin(r)
           S == LineStarts(st)
           B == StartsBefore(st, b)
           E == StartsBefore(st, e + 1)
<1>1. n \in Nat
  BY DEF Stream
<1>2. b \in 1..(n + 1) /\ b \in S
  BY CurrentLine
<1>3. S \in SUBSET Nat /\ IsFiniteSet(S)
  BY StartsFinite
<1>4. \A k \in S : k = 1 \/ st[k - 1] = "nl"
  BY DEF LineStarts
<1>5. b \in Int /\ e \in Int /\ b <= e /\ b >= 1
  BY <1>1, <1>2
<1>6. \A k \in S : k < e + 1 <=> k < b \/ k = b
  <2>1. ASSUME NEW k \in S, k < e + 1, ~(k < b), k # b PROVE FALSE
    <3>1. k - 1 \in b..(e - 1) /\ k # 1
      <4> HIDE DEF b, S
      <4>1. k \in Nat
        BY <1>3
      <4>2. QED
        BY <1>5, <2>1, <4>1
    <3>2. QED
      BY <1>4, <3>1
  <2> HIDE DEF b, S
  <2>2. ASSUME NEW k \in S, k < b \/ k = b PROVE k < e + 1
    BY <1>3, <1>5, <2>2
  <2>3. QED
    BY <2>1, <2>2
<1>7. E = B \cup {b}
  BY <1>2, <1>6 DEF StartsBefore
<1>8. B \subseteq S /\ b \notin B
  BY <1>5 DEF StartsBefore
<1>9. r.line = Cardinality(B) + 1
  BY DEF AtLine
<1> HIDE DEF b, S, B, E
<1>10. IsFiniteSet(B)
  BY <1>3, <1>8, FS_Subset
<1>11. Cardinality(B \cup {b}) = Cardinality(B) + 1
  BY <1>8, <1>10, FS_AddElement
<1>12. QED
  BY <1>7, <1>9, <1>11 DEF E

\* The bytes of the reader's line, from its start to the last byte read.
LEMMA LineSoFar ==
    ASSUME NEW st, Stream(st), NEW r, AtLine(st, r), NEW e \in (r.pos + 1)..(Len(st) + 1),
           \A j \in (r.pos + 1)..(e - 1) : st[j] # "nl"
    PROVE  /\ LineBegin(r) \in Nat /\ e \in LineBegin(r)..(Len(st) + 1)
           /\ \A j \in LineBegin(r)..(e - 1) : st[j] # "nl"
           /\ r.record \in Nat /\ r.pos \in Nat /\ e - LineBegin(r) = r.record + (e - r.pos - 1)
<1> DEFINE n == Len(st)
           p == r.pos
           c == r.record
           b == p - c + 1
<1>1. n \in Nat
  BY DEF Stream
<1>2. p \in 0..n /\ c \in 0..p /\ LineBegin(r) = b /\ \A j \in b..p : st[j] # "nl"
  BY DEF AtLine, LineBegin
<1>3. e \in (p + 1)..(n + 1) /\ \A j \in (p + 1)..(e - 1) : st[j] # "nl"
  OBVIOUS
<1> HIDE DEF n, p, c
<1>4. b \in Nat /\ e \in b..(n + 1) /\ c \in Nat /\ p \in Nat /\ e - b = c + (e - p - 1)
  BY <1>1, <1>2, <1>3
<1>5. ASSUME NEW j \in b..(e - 1) PROVE st[j] # "nl"
  <2>1. j \in b..p \/ j \in (p + 1)..(e - 1)
    BY <1>1, <1>2, <1>3
  <2>2. QED
    BY <1>2, <1>3, <2>1
<1>6. QED
  BY <1>2, <1>4, <1>5 DEF n, p, c

\* A newline at e ends the line; the next one starts behind it.
LEMMA LineReturned ==
    ASSUME NEW st, Stream(st), NEW r, AtLine(st, r), NEW e \in (r.pos + 1)..Len(st), st[e] = "nl",
           \A j \in (r.pos + 1)..(e - 1) : st[j] # "nl", e - LineBegin(r) <= RecordLimit,
           NEW q, q.pos = e, q.record = 0, q.line = r.line + 1,
           q.out = Append(r.out, <<"line", r.line, e - LineBegin(r)>>)
    PROVE  AtLine(st, q)
<1> DEFINE n == Len(st)
           b == LineBegin(r)
           k == r.line
<1>1. n \in Nat /\ e \in 1..n
  <2>1. n \in Nat /\ r.pos \in 0..n
    BY DEF Stream, AtLine
  <2>2. QED
    BY <2>1
<1>2. e \in (r.pos + 1)..(n + 1)
  <2>1. r.pos \in Nat
    BY DEF AtLine, Stream
  <2>2. QED
    BY <1>1, <2>1
<1>3. b \in Nat /\ e \in b..(n + 1) /\ \A j \in b..(e - 1) : st[j] # "nl"
  BY <1>2, LineSoFar
<1>4. b <= n
  BY <1>1, <1>3
<1>5. k \in 1..Count(st) /\ Index(LineStarts(st), k) = b /\ Count(st) \in Nat
  BY <1>4, CurrentLine
<1>6. LineLength(st, b) = e - b
  BY <1>3, LineEnd
<1>7. Size(st, k) = e - b
  BY <1>5, <1>6 DEF Size
<1>8. Cardinality(StartsBefore(st, e + 1)) = k
  BY <1>3, <1>4, StartsWithin
<1>9. r.out = Lines(st, k - 1) /\ \A i \in 1..(k - 1) : Size(st, i) <= RecordLimit
  BY DEF AtLine
<1>10. LineBegin(q) = e + 1
  BY <1>1 DEF LineBegin
<1> HIDE DEF b, k
<1>11. q.out = Lines(st, k)
  <2>1. k - 1 \in Nat /\ (k - 1) + 1 = k
    BY <1>5
  <2>2. q.out = Append(Lines(st, k - 1), <<"line", k, Size(st, k)>>)
    BY <1>7, <1>9 DEF k, b
  <2>3. Append(Lines(st, k - 1), <<"line", k, Size(st, k)>>) = Lines(st, k)
    BY <2>1, LinesAppend
  <2>4. QED
    BY <2>2, <2>3
<1>12. q.line = k + 1 /\ q.line - 1 = k
  BY <1>5 DEF k
<1>13. \A i \in 1..k : Size(st, i) <= RecordLimit
  <2>1. \A i \in 1..k : i \in 1..(k - 1) \/ i = k
    BY <1>5
  <2>2. Size(st, k) <= RecordLimit
    BY <1>7 DEF b
  <2>3. QED
    BY <1>9, <2>1, <2>2
<1>14. q.pos \in 0..n /\ q.record \in 0..q.pos /\ q.record <= RecordLimit
  BY <1>1, RecordLimitAssumption
<1>15. st[LineBegin(q) - 1] = "nl" /\ \A j \in LineBegin(q)..q.pos : st[j] # "nl"
  BY <1>1, <1>10
<1>16. QED
  BY <1>8, <1>10, <1>11, <1>12, <1>13, <1>14, <1>15 DEF AtLine

\* Bytes without a newline belong to the same line.
LEMMA BytesCollected ==
    ASSUME NEW st, Stream(st), NEW r, AtLine(st, r), NEW buf \in 1..(Len(st) - r.pos),
           \A j \in (r.pos + 1)..(r.pos + buf) : st[j] # "nl", r.record + buf <= RecordLimit,
           NEW q, q.pos = r.pos + buf, q.record = r.record + buf, q.line = r.line, q.out = r.out
    PROVE  AtLine(st, q)
<1> DEFINE n == Len(st)
           p == r.pos
           c == r.record
<1>1. n \in Nat /\ p \in 0..n /\ c \in 0..p
  BY DEF Stream, AtLine
<1>2. buf \in 1..(n - p) /\ q.pos = p + buf /\ q.record = c + buf /\ c + buf <= RecordLimit
  OBVIOUS
<1>3. LineBegin(r) = p - c + 1 /\ LineBegin(q) = (p + buf) - (c + buf) + 1
  BY DEF LineBegin
<1>4. \A j \in (p - c + 1)..p : st[j] # "nl"
  BY DEF AtLine, LineBegin
<1>5. \A j \in (p + 1)..(p + buf) : st[j] # "nl"
  OBVIOUS
<1> HIDE DEF n, p, c
<1>6. LineBegin(q) = p - c + 1
  BY <1>1, <1>2, <1>3
<1>7. q.pos \in 0..n /\ q.record \in 0..q.pos /\ q.record <= RecordLimit
  BY <1>1, <1>2
<1>8. ASSUME NEW j \in (p - c + 1)..(p + buf) PROVE st[j] # "nl"
  <2>1. j \in (p - c + 1)..p \/ j \in (p + 1)..(p + buf)
    BY <1>1, <1>2
  <2>2. QED
    BY <1>4, <1>5, <2>1
<1>9. LineBegin(q) = LineBegin(r)
  BY <1>3, <1>6
<1>10. QED
  BY <1>2, <1>6, <1>7, <1>8, <1>9 DEF AtLine, n

\* At the end of the stream every line was returned, but for the last one
\* when it has no newline.
LEMMA EndReached ==
    ASSUME NEW st, Stream(st), NEW r, AtLine(st, r), r.pos = Len(st)
    PROVE  /\ r.record = 0 => r.out = Expected(st)
           /\ r.record # 0 => Append(r.out, <<"line", r.line, r.record>>) = Expected(st)
<1> DEFINE n == Len(st)
           b == LineBegin(r)
           k == r.line
<1>1. n \in Nat /\ r.record \in 0..n
  BY DEF Stream, AtLine
<1>2. b = n - r.record + 1
  BY DEF LineBegin
<1>3. r.out = Lines(st, k - 1) /\ \A i \in 1..(k - 1) : Size(st, i) <= RecordLimit
  BY DEF AtLine
<1>4. \A e \in {n + 1, n + 2} : StartsBefore(st, e) = LineStarts(st)
  <2>1. \A j \in LineStarts(st) : j \in 1..n
    BY DEF LineStarts
  <2>2. \A j \in LineStarts(st) : \A e \in {n + 1, n + 2} : j < e
    <3> HIDE DEF n
    <3>1. QED
      BY <1>1, <2>1
  <2>3. QED
    BY <2>2 DEF StartsBefore
<1>5. k = Cardinality(StartsBefore(st, b)) + 1 /\ k \in Nat /\ Count(st) \in Nat
  BY CurrentLine DEF AtLine
<1>6. CASE r.record = 0
  <2>1. b = n + 1
    BY <1>1, <1>2, <1>6
  <2>2. k - 1 = Count(st)
    BY <1>4, <1>5, <2>1 DEF Count
  <2>3. QED
    BY <1>3, <1>6, <2>2, AllLines
<1>7. CASE r.record # 0
  <2>1. b \in Nat /\ b <= n /\ b >= 1
    BY <1>1, <1>2, <1>7
  <2>2. \A j \in b..n : st[j] # "nl"
    BY DEF AtLine
  <2> DEFINE e == n + 1
  <2>3. e \in b..(n + 1) /\ e - 1 = n /\ e - b = r.record
    BY <1>1, <1>2, <2>1
  <2>4. \A j \in b..(e - 1) : st[j] # "nl"
    BY <2>2, <2>3
  <2> HIDE DEF e
  <2>5. Cardinality(StartsBefore(st, e + 1)) = k
    BY <2>1, <2>3, <2>4, StartsWithin
  <2>6. Count(st) = k
    <3>1. e + 1 = n + 2
      BY <1>1 DEF e
    <3>2. QED
      BY <1>4, <2>5, <3>1 DEF Count
  <2>7. LineLength(st, b) = r.record
    BY <2>1, <2>3, <2>4, LineEnd DEF e
  <2>8. k \in 1..Count(st) /\ Index(LineStarts(st), k) = b
    BY <2>1, CurrentLine
  <2>9. Size(st, k) = r.record
    BY <2>7, <2>8 DEF Size
  <2> HIDE DEF k, b
  <2>10. k - 1 \in Nat /\ (k - 1) + 1 = k
    BY <1>5, <2>8
  <2>11. Append(Lines(st, k - 1), <<"line", k, r.record>>) = Lines(st, k)
    BY <2>9, <2>10, LinesAppend
  <2>12. r.record <= RecordLimit
    BY DEF AtLine
  <2>13. \A i \in 1..k : Size(st, i) <= RecordLimit
    <3>1. \A i \in 1..k : i \in 1..(k - 1) \/ i = k
      BY <1>5
    <3>2. QED
      BY <1>3, <2>9, <2>12, <3>1 DEF k
  <2>14. Expected(st) = Lines(st, k)
    BY <2>6, <2>13, AllLines
  <2>15. QED
    BY <1>3, <1>7, <2>11, <2>14 DEF k
<1>8. QED
  BY <1>6, <1>7

\* A turn of the loop keeps the reader at a line, or ends it where it should.
LEMMA ReadKeeps ==
    ASSUME NEW st, NEW r, ReaderOk(st, r), ~r.done, NEW buf \in 1..(Len(st) - r.pos)
    PROVE  ReaderOk(st, ReadBuffer(r, st, buf))
<1> DEFINE p == r.pos
           n == Len(st)
           nls == {i \in 1..buf : st[p + i] = "nl"}
           take == IF nls = {} THEN buf ELSE Min(nls) - 1
           large == [r EXCEPT !.done = TRUE, !.out = Append(@, <<"too_large", r.line>>)]
           more == [r EXCEPT !.pos = @ + take, !.record = @ + take]
           next == [r EXCEPT !.pos = @ + take + 1, !.record = 0, !.line = @ + 1,
                             !.out = Append(@, <<"line", r.line, r.record + take>>)]
<1>1. /\ Stream(st) /\ r = [f \in ReaderFields |-> r[f]] /\ AtLine(st, r)
  BY DEF ReaderOk
<1>2. n \in Nat /\ p \in 0..n /\ r.record \in 0..p /\ buf \in 1..(n - p) /\ buf \in Nat
  <2>1. n \in Nat
    BY <1>1 DEF Stream
  <2>2. p \in 0..n /\ r.record \in 0..p
    BY <1>1 DEF AtLine
  <2>3. QED
    BY <2>1, <2>2
<1>3. ReadBuffer(r, st, buf) = IF r.record + take > RecordLimit THEN large
                               ELSE IF nls = {} THEN more ELSE next
  BY DEF ReadBuffer
<1>4. DOMAIN r = ReaderFields
  BY <1>1
<1> HIDE DEF p, n
<1>5. /\ take \in 0..buf
      /\ \A j \in (p + 1)..(p + take) : st[j] # "nl"
      /\ nls = {} => take = buf
      /\ nls # {} => take + 1 \in 1..buf /\ st[p + take + 1] = "nl"
  <2>1. CASE nls = {}
    <3>1. \A i \in 1..buf : st[p + i] # "nl"
      BY <2>1
    <3>2. ASSUME NEW j \in (p + 1)..(p + buf) PROVE st[j] # "nl"
      <4>1. j - p \in 1..buf /\ p + (j - p) = j
        BY <1>2
      <4>2. QED
        BY <3>1, <4>1
    <3>3. take = buf
      BY <2>1
    <3> HIDE DEF take, nls
    <3>4. QED
      BY <1>2, <2>1, <3>2, <3>3
  <2>2. CASE nls # {}
    <3>1. nls \subseteq 1..buf /\ \A i \in 1..buf : st[p + i] = "nl" => i \in nls
      OBVIOUS
    <3>2. \A i \in nls : st[p + i] = "nl"
      OBVIOUS
    <3>3. take = Min(nls) - 1
      BY <2>2
    <3> HIDE DEF take, nls
    <3>4. nls \in SUBSET Nat /\ IsFiniteSet(nls)
      <4>1. IsFiniteSet(1..buf)
        BY <1>2, FS_Interval, 1 \in Int, buf \in Int
      <4>2. IsFiniteSet(nls)
        BY <3>1, <4>1, FS_Subset
      <4>3. QED
        BY <3>1, <4>2
    <3>5. Min(nls) \in nls /\ \A y \in nls : Min(nls) <= y
      BY <2>2, <3>4, MinExists
    <3>6. Min(nls) \in 1..buf
      BY <3>1, <3>5
    <3>7. take \in 0..buf /\ take + 1 \in 1..buf /\ take + 1 = Min(nls) /\ p + take + 1 = p + Min(nls)
      BY <1>2, <3>3, <3>6
    <3>8. ASSUME NEW j \in (p + 1)..(p + take), st[j] = "nl" PROVE FALSE
      <4>1. j - p \in 1..buf /\ p + (j - p) = j /\ j - p < Min(nls)
        BY <1>2, <3>7
      <4>2. j - p \in nls
        BY <3>1, <3>8, <4>1
      <4>3. QED
        BY <3>5, <3>6, <4>1, <4>2
    <3>9. QED
      BY <2>2, <3>2, <3>5, <3>7, <3>8
  <2>3. QED
    BY <2>1, <2>2
<1> DEFINE e == p + take + 1
<1> HIDE DEF take, nls
<1>6. e \in (p + 1)..(n + 1) /\ e - 1 = p + take /\ e - p - 1 = take /\ (nls # {} => e \in (p + 1)..n)
  BY <1>2, <1>5
<1>7. \A j \in (p + 1)..(e - 1) : st[j] # "nl"
  BY <1>5, <1>6
<1> HIDE DEF e
<1> USE DEF p, n
<1>8. /\ LineBegin(r) \in Nat /\ e \in LineBegin(r)..(n + 1)
      /\ \A j \in LineBegin(r)..(e - 1) : st[j] # "nl"
      /\ e - LineBegin(r) = r.record + take
  <2>1. e - LineBegin(r) = r.record + (e - r.pos - 1)
    BY <1>1, <1>6, <1>7, LineSoFar
  <2>2. QED
    BY <1>1, <1>6, <1>7, <2>1, LineSoFar
<1>9. CASE r.record + take > RecordLimit
  <2>1. LineLength(st, LineBegin(r)) \in Nat /\ LineLength(st, LineBegin(r)) >= r.record + take
    BY <1>1, <1>8, LineEnd
  <2>2. LineLength(st, LineBegin(r)) > RecordLimit
    BY <1>2, <1>5, <1>9, <2>1, RecordLimitAssumption
  <2>3. LineBegin(r) <= n
    <3>1. LineBegin(r) = p - r.record + 1
      BY DEF LineBegin
    <3>2. CASE p < n
      BY <1>2, <3>1, <3>2
    <3>3. CASE p = n
      BY <1>2, <3>3
    <3>4. QED
      BY <1>2, <3>2, <3>3
  <2>4. Append(r.out, <<"too_large", r.line>>) = Expected(st)
    BY <1>1, <2>2, <2>3, RefusedLine
  <2>5. /\ large = [f \in ReaderFields |-> large[f]] /\ large.done = TRUE
        /\ large.out = Append(r.out, <<"too_large", r.line>>)
    BY <1>4 DEF ReaderFields
  <2>6. ReadBuffer(r, st, buf) = large
    BY <1>3, <1>9
  <2> HIDE DEF large
  <2>7. QED
    BY <1>1, <2>4, <2>5, <2>6 DEF ReaderOk
<1>10. CASE ~(r.record + take > RecordLimit) /\ nls = {}
  <2>1. r.record + buf <= RecordLimit /\ take = buf
    BY <1>2, <1>5, <1>10, RecordLimitAssumption
  <2>2. /\ more = [f \in ReaderFields |-> more[f]] /\ more.done = r.done
        /\ more.pos = r.pos + take /\ more.record = r.record + take
        /\ more.line = r.line /\ more.out = r.out
    BY <1>4 DEF ReaderFields
  <2>3. ReadBuffer(r, st, buf) = more
    BY <1>3, <1>10
  <2> HIDE DEF more
  <2>4. \A j \in (r.pos + 1)..(r.pos + buf) : st[j] # "nl"
    BY <1>5, <2>1
  <2>5. AtLine(st, more)
    BY <1>1, <1>2, <2>1, <2>2, <2>4, BytesCollected
  <2>6. QED
    BY <1>1, <2>2, <2>3, <2>5 DEF ReaderOk
<1>11. CASE ~(r.record + take > RecordLimit) /\ nls # {}
  <2>1. e - LineBegin(r) <= RecordLimit
    BY <1>2, <1>5, <1>8, <1>11, RecordLimitAssumption
  <2>2. /\ next = [f \in ReaderFields |-> next[f]] /\ next.done = r.done
        /\ next.pos = e /\ next.record = 0 /\ next.line = r.line + 1
        /\ next.out = Append(r.out, <<"line", r.line, r.record + take>>)
    BY <1>4 DEF ReaderFields, e
  <2>3. ReadBuffer(r, st, buf) = next
    BY <1>3, <1>11
  <2> HIDE DEF next
  <2>4. next.out = Append(r.out, <<"line", r.line, e - LineBegin(r)>>)
    BY <1>8, <2>2
  <2>5. e \in (r.pos + 1)..Len(st) /\ st[e] = "nl"
    BY <1>5, <1>6, <1>11 DEF e
  <2>6. AtLine(st, next)
    BY <1>1, <1>7, <2>1, <2>2, <2>4, <2>5, LineReturned
  <2>7. QED
    BY <1>1, <2>2, <2>3, <2>6 DEF ReaderOk
<1>12. QED
  BY <1>9, <1>10, <1>11

\* The end of the input ends the reader with every line returned.
LEMMA EofKeeps ==
    ASSUME NEW st, NEW r, ReaderOk(st, r), ~r.done, r.pos = Len(st)
    PROVE  ReaderOk(st, ReadEof(r))
<1> DEFINE last == IF r.record = 0 THEN r.out ELSE Append(r.out, <<"line", r.line, r.record>>)
           q == [r EXCEPT !.done = TRUE, !.record = 0, !.out = last]
<1>1. Stream(st) /\ r = [f \in ReaderFields |-> r[f]] /\ AtLine(st, r)
  BY DEF ReaderOk
<1>2. ReadEof(r) = q
  BY DEF ReadEof
<1>3. last = Expected(st)
  BY <1>1, EndReached
<1> HIDE DEF last
<1>4. q = [f \in ReaderFields |-> q[f]] /\ q.done = TRUE /\ q.out = last
  BY <1>1 DEF ReaderFields
<1> HIDE DEF q
<1>5. QED
  BY <1>1, <1>2, <1>3, <1>4 DEF ReaderOk

\* The invariant holds, however the stream is cut into buffers.
LEMMA ReadersOk == Spec => []ReaderInv
<1>1. Init => ReaderInv
  <2> SUFFICES ASSUME Init, Is("reader")
               PROVE  {"stream", "reader"} \subseteq DOMAIN input /\ ReaderOk(input.stream, input.reader)
    BY InputFamilies DEF Init, ReaderInv
  <2>1. input \in ReaderInputs
    BY InputFamilies DEF Init, Is
  <2>2. PICK st \in UNION {[1..n -> {"x", "nl"}] : n \in 0..MaxBytes} :
            input = [family |-> "reader", stream |-> st, reader |-> ReaderStart]
    BY <2>1 DEF ReaderInputs
  <2>3. Stream(st)
    <3>1. PICK n \in 0..MaxBytes : st \in [1..n -> {"x", "nl"}]
      OBVIOUS
    <3>2. QED
      BY <3>1, BoundsAssumption DEF Stream
  <2>4. AtLine(st, ReaderStart)
    <3> DEFINE r == ReaderStart
    <3>1. r.pos = 0 /\ r.record = 0 /\ r.line = 1 /\ r.out = <<>>
      BY DEF ReaderStart
    <3> HIDE DEF r
    <3>2. LineBegin(r) = 1 /\ Len(st) \in Nat
      BY <2>3, <3>1 DEF LineBegin, Stream
    <3>3. StartsBefore(st, 1) = {}
      BY DEF StartsBefore, LineStarts
    <3>4. Cardinality(StartsBefore(st, 1)) = 0
      BY <3>3, FS_EmptySet
    <3>5. Lines(st, 0) = <<>>
      BY DEF Lines
    <3>6. AtLine(st, r)
      BY <3>1, <3>2, <3>4, <3>5, RecordLimitAssumption DEF AtLine
    <3>7. QED
      BY <3>6 DEF r
  <2>5. ReaderStart = [f \in ReaderFields |-> ReaderStart[f]] /\ ReaderStart.done = FALSE
    BY DEF ReaderStart, ReaderFields
  <2>6. ReaderOk(st, ReaderStart)
    BY <2>3, <2>4, <2>5 DEF ReaderOk
  <2>7. QED
    BY <2>2, <2>6
<1>2. ReaderInv /\ [Next]_input => ReaderInv'
  <2> SUFFICES ASSUME ReaderInv, [Next]_input PROVE ReaderInv'
    OBVIOUS
  <2>1. CASE UNCHANGED input
    BY <2>1 DEF ReaderInv, Is
  <2>2. CASE Next /\ ~Is("reader")
    BY <2>2, StepInFamily DEF ReaderInv, Is
  <2>3. CASE Next /\ Is("reader")
    <3> DEFINE st == input.stream
               r == input.reader
    <3>1. HasFamily(input') /\ input'.family = input.family
      BY <2>3, StepInFamily DEF ReaderInv
    <3>2. {"stream", "reader"} \subseteq DOMAIN input /\ ReaderOk(st, r)
      BY <2>3 DEF ReaderInv
    <3>3. ASSUME NEW q, ReaderOk(st, q), input' = [input EXCEPT !.reader = q]
          PROVE  ReaderInv'
      <4>1. /\ {"stream", "reader"} \subseteq DOMAIN input'
            /\ input'.stream = st /\ input'.reader = q
        BY <3>2, <3>3
      <4>2. QED
        BY <3>1, <3>3, <4>1 DEF ReaderInv
    <3>4. CASE Read
      <4>1. PICK buf \in 1..(Len(st) - r.pos) : input' = [input EXCEPT !.reader = ReadBuffer(r, st, buf)]
        BY <3>4 DEF Read
      <4>2. ~r.done
        BY <3>4 DEF Read
      <4>3. QED
        BY <3>2, <3>3, <4>1, <4>2, ReadKeeps
    <3>5. CASE ReachEnd
      <4>1. ~r.done /\ r.pos = Len(st) /\ input' = [input EXCEPT !.reader = ReadEof(r)]
        BY <3>5 DEF ReachEnd
      <4>2. QED
        BY <3>2, <3>3, <4>1, EofKeeps
    <3>6. QED
      BY <2>3, <3>4, <3>5, StepInFamily DEF ReaderInv
  <2>4. QED
    BY <2>1, <2>2, <2>3
<1>3. QED
  BY <1>1, <1>2, PTL DEF Spec

\* Whatever the sizes of the buffers, the reader returns the lines of the
\* stream in order and ends with an error at the first one over the limit.
THEOREM LinesExactHolds == Spec => []LinesExact
<1>1. ASSUME NEW st, NEW r, ReaderOk(st, r) PROVE ReadsExactly(st, r)
  <2> DEFINE starts == LineStarts(st)
             start == [n \in 1..Cardinality(starts) |->
                          CHOOSE k \in starts : Cardinality({j \in starts : j <= k}) = n]
             over == {n \in DOMAIN start : LineLength(st, start[n]) > RecordLimit}
             good == IF over = {} THEN Cardinality(starts) ELSE Min(over) - 1
             expected == [n \in 1..good |-> <<"line", n, LineLength(st, start[n])>>]
                         \o (IF over = {} THEN <<>> ELSE << <<"too_large", Min(over)>> >>)
  <2>1. Stream(st) /\ r.done \in BOOLEAN /\ (r.done => r.out = Expected(st)) /\ (~r.done => AtLine(st, r))
    BY <1>1 DEF ReaderOk
  <2>2. Count(st) \in Nat /\ Good(st) \in 0..Count(st) /\ IsSection(Expected(st))
    BY <2>1, ExpectedSequence
  <2>3. DOMAIN start = 1..Count(st) /\ \A n \in 1..Count(st) : start[n] = Index(starts, n)
    BY DEF Count, Index, Rank
  <2>4. ReadsExactly(st, r) <=> /\ Len(r.out) <= Len(expected)
                                /\ SubSeq(expected, 1, Len(r.out)) = r.out
                                /\ r.done => r.out = expected
    BY Zenon DEF ReadsExactly
  <2> HIDE DEF start
  <2>5. \A n \in 1..Count(st) : LineLength(st, start[n]) = Size(st, n)
    BY <2>3 DEF Size
  <2>6. over = Over(st)
    BY <2>3, <2>5 DEF Over
  <2> HIDE DEF over
  <2>7. good = Good(st)
    BY <2>6 DEF Good, Count
  <2>8. expected = Expected(st)
    <3>1. \A n \in 1..good : n \in 1..Count(st)
      BY <2>2, <2>7
    <3> HIDE DEF good
    <3>2. [n \in 1..good |-> <<"line", n, LineLength(st, start[n])>>] = Lines(st, good)
      BY <2>5, <3>1 DEF Lines
    <3>3. QED
      BY <2>6, <2>7, <3>2 DEF Expected, Refusal
  <2> HIDE DEF expected
  <2>9. CASE r.done
    <3> DEFINE x == Expected(st)
               S == {x[i] : i \in DOMAIN x}
    <3>1. x \in Seq(S)
      BY <2>2 DEF IsSection
    <3> HIDE DEF x, S
    <3>2. Len(x) <= Len(x) /\ SubSeq(x, 1, Len(x)) = x
      BY <3>1
    <3>3. QED
      BY <2>1, <2>4, <2>8, <2>9, <3>2 DEF x
  <2>10. CASE ~r.done
    BY <2>1, <2>4, <2>8, <2>10, PrefixReturned
  <2>11. QED
    BY <2>9, <2>10
<1>2. ReaderInv => LinesExact
  BY <1>1 DEF ReaderInv, LinesExact
<1>3. QED
  BY <1>2, ReadersOk, PTL

----------------------------------------------------------------------------
(* Runs that RunBuilder assembles.                                         *)

\* A sample that RunBuilder takes.
SoundSample(s) == s = [f \in DOMAIN s |-> s[f]] /\ "workers" \in DOMAIN s /\ s.workers # 0

\* A run whose events were all checked when they were pushed.
AssembledRun(rn) ==
    /\ rn = [f \in DOMAIN rn |-> rn[f]]
    /\ RunSections \cup {"meta", "finalized", "dropped", "limitsHit"} \subseteq DOMAIN rn
    /\ \A sec \in EventSections : EventSection(rn[sec])
    /\ IsSection(rn.inflight) /\ \A i \in DOMAIN rn.inflight : rn.inflight[i].gauge \notin BlankGauges
    /\ IsSection(rn.runtime) /\ \A i \in DOMAIN rn.runtime : SoundSample(rn.runtime[i])
    /\ rn.finalized = "ok" /\ rn.dropped \in [RunSections -> Nat]

\* As many sound samples as a run has, to validation.
AllOk(rn) == [i \in DOMAIN rn.runtime |-> "ok"]

\* What validation sees of an assembled run.
LEMMA ViewFormed ==
    ASSUME NEW rn, AssembledRun(rn)
    PROVE  /\ ValidationView(rn) = [rn EXCEPT !.runtime = AllOk(rn)]
           /\ EvidenceRun(ValidationView(rn))
<1> DEFINE rt == AllOk(rn)
           view == [rn EXCEPT !.runtime = rt]
<1>1. ValidationView(rn) = view
  <2>1. \A i \in DOMAIN rn.runtime : rn.runtime[i].workers # 0
    BY DEF AssembledRun, SoundSample
  <2>2. [i \in DOMAIN rn.runtime |-> IF rn.runtime[i].workers = 0 THEN "zero_workers" ELSE "ok"] = rt
    BY <2>1 DEF AllOk
  <2>3. QED
    BY <2>2 DEF ValidationView, Map
<1>2. IsSection(rt) /\ \A i \in DOMAIN rt : rt[i] = "ok"
  <2> DEFINE n == Len(rn.runtime)
  <2>1. n \in Nat /\ DOMAIN rn.runtime = 1..n
    BY DEF IsSection, AssembledRun
  <2> HIDE DEF n
  <2>2. rt \in [1..n -> {"ok"}]
    BY <2>1 DEF AllOk
  <2>3. rt \in Seq({"ok"})
    BY <2>1, <2>2
  <2>4. QED
    BY <2>2, <2>3, SequenceIsSection
<1> HIDE DEF rt
<1>3. /\ view = [f \in DOMAIN view |-> view[f]] /\ DOMAIN view = DOMAIN rn /\ view.runtime = rt
      /\ \A f \in DOMAIN rn \ {"runtime"} : view[f] = rn[f]
  BY DEF AssembledRun, RunSections
<1> HIDE DEF view
<1>4. /\ view.requests = rn.requests /\ view.stages = rn.stages /\ view.queues = rn.queues
      /\ view.inflight = rn.inflight /\ RunSections \subseteq DOMAIN rn
  BY <1>3 DEF AssembledRun, RunSections
<1>5. EventSection(rn.requests) /\ EventSection(rn.stages) /\ EventSection(rn.queues)
  BY DEF AssembledRun, EventSections, ChildSections
<1>6. EvidenceRun(view)
  BY <1>2, <1>3, <1>4, <1>5 DEF EvidenceRun, AssembledRun
<1>7. QED
  BY <1>1, <1>6 DEF view, rt

\* Normalizing an assembled run leaves its samples alone, and nothing but
\* its sections changes.
LEMMA NormalizedParts ==
    ASSUME NEW rn, AssembledRun(rn)
    PROVE  LET nr == Normalized(rn)
               out == NormalizeRun(ValidationView(rn))
           IN  /\ nr = [f \in DOMAIN nr |-> nr[f]] /\ DOMAIN nr = DOMAIN rn
               /\ nr.runtime = rn.runtime /\ nr.inflight = rn.inflight
               /\ \A sec \in EventSections : nr[sec] = out[sec]
               /\ \A f \in DOMAIN rn \ RunSections : nr[f] = rn[f]
               /\ out = [nr EXCEPT !.runtime = AllOk(nr)]
<1> DEFINE nr == Normalized(rn)
           view == ValidationView(rn)
           out == NormalizeRun(view)
           rt == AllOk(rn)
<1>1. view = [rn EXCEPT !.runtime = rt] /\ EvidenceRun(view)
  BY ViewFormed
<1>2. /\ rn = [f \in DOMAIN rn |-> rn[f]] /\ RunSections \subseteq DOMAIN rn
      /\ IsSection(rn.inflight) /\ \A i \in DOMAIN rn.inflight : rn.inflight[i].gauge \notin BlankGauges
      /\ IsSection(rn.runtime) /\ \A i \in DOMAIN rn.runtime : SoundSample(rn.runtime[i])
  BY DEF AssembledRun
<1>3. /\ DOMAIN view = DOMAIN rn /\ view.runtime = rt
      /\ \A f \in DOMAIN rn \ {"runtime"} : view[f] = rn[f]
  BY <1>1, <1>2 DEF RunSections
<1>4. rn.runtime = [i \in DOMAIN rn.runtime |->
                       [rn.runtime[i] EXCEPT !.workers = IF @ = 0 THEN None ELSE @]]
  <2>1. ASSUME NEW i \in DOMAIN rn.runtime
        PROVE  rn.runtime[i] = [rn.runtime[i] EXCEPT !.workers = IF @ = 0 THEN None ELSE @]
    BY <1>2 DEF SoundSample
  <2>2. rn.runtime = [i \in DOMAIN rn.runtime |-> rn.runtime[i]]
    BY <1>2 DEF IsSection
  <2>3. QED
    BY <2>1, <2>2
<1>5. nr = [out EXCEPT !.runtime = rn.runtime]
  BY <1>4 DEF Normalized, Map
<1> HIDE DEF view
<1>6. /\ out = [f \in DOMAIN out |-> out[f]] /\ DOMAIN out = DOMAIN rn
      /\ out.inflight = AtIndices(view.inflight, KeptGauges(view.inflight))
      /\ out.runtime = [i \in DOMAIN view.runtime |-> "ok"]
      /\ \A f \in DOMAIN rn \ RunSections : out[f] = view[f]
  BY <1>1, <1>3, SectionsOut
<1>7. out.inflight = rn.inflight
  <2>1. view.inflight = rn.inflight
    BY <1>2, <1>3 DEF RunSections
  <2>2. KeptGauges(rn.inflight) = DOMAIN rn.inflight
    BY <1>2 DEF KeptGauges
  <2> DEFINE S == {rn.inflight[i] : i \in DOMAIN rn.inflight}
  <2>3. rn.inflight \in Seq(S)
    BY <1>2 DEF IsSection
  <2> HIDE DEF S
  <2>4. AtIndices(rn.inflight, DOMAIN rn.inflight) = rn.inflight
    BY <2>3, KeepAll
  <2>5. QED
    BY <1>6, <2>1, <2>2, <2>4
<1>8. out.runtime = rt
  BY <1>3, <1>6 DEF AllOk
<1> HIDE DEF out, nr, rt
<1>9. /\ nr = [f \in DOMAIN nr |-> nr[f]] /\ DOMAIN nr = DOMAIN rn /\ nr.runtime = rn.runtime
      /\ \A f \in DOMAIN rn \ {"runtime"} : nr[f] = out[f]
  BY <1>2, <1>5, <1>6 DEF RunSections
<1>10. AllOk(nr) = rt
  BY <1>9 DEF AllOk, rt
<1>11. out = [nr EXCEPT !.runtime = AllOk(nr)]
  BY <1>2, <1>6, <1>8, <1>9, <1>10 DEF RunSections
<1>12. nr.inflight = rn.inflight
  BY <1>2, <1>7, <1>9 DEF RunSections
<1>13. \A sec \in EventSections : nr[sec] = out[sec]
  BY <1>2, <1>9 DEF RunSections, EventSections, ChildSections
<1>14. \A f \in DOMAIN rn \ RunSections : nr[f] = rn[f]
  BY <1>3, <1>6, <1>9 DEF RunSections
<1>15. QED
  BY <1>9, <1>11, <1>12, <1>13, <1>14 DEF nr, out, view

\* The normalized run is assembled, its evidence is valid, and normalizing it
\* again changes nothing.
LEMMA NormalizedAgain ==
    ASSUME NEW rn, AssembledRun(rn)
    PROVE  LET nr == Normalized(rn)
           IN  /\ AssembledRun(nr) /\ Normalized(nr) = nr
               /\ EvidenceRun(ValidationView(nr)) /\ EvidenceValid(ValidationView(nr))
<1> DEFINE nr == Normalized(rn)
           out == NormalizeRun(ValidationView(rn))
<1>1. /\ nr = [f \in DOMAIN nr |-> nr[f]] /\ DOMAIN nr = DOMAIN rn
      /\ nr.runtime = rn.runtime /\ nr.inflight = rn.inflight
      /\ \A sec \in EventSections : nr[sec] = out[sec]
      /\ \A f \in DOMAIN rn \ RunSections : nr[f] = rn[f]
      /\ out = [nr EXCEPT !.runtime = AllOk(nr)]
  BY NormalizedParts
<1>2. EvidenceRun(out) /\ EvidenceValid(out)
  BY ViewFormed, NormalizedValid
<1>3. NormalizeRun(out) = out
  BY <1>2, ValidIsFixed
<1> HIDE DEF nr, out
<1>4. AssembledRun(nr)
  <2>1. \A sec \in EventSections : EventSection(nr[sec])
    BY <1>1, <1>2 DEF EvidenceRun, EventSections, ChildSections
  <2>2. nr.finalized = rn.finalized /\ nr.dropped = rn.dropped
    BY <1>1 DEF AssembledRun, RunSections
  <2>3. QED
    BY <1>1, <2>1, <2>2 DEF AssembledRun
<1>5. ValidationView(nr) = out
  BY <1>1, <1>4, ViewFormed
<1>6. Normalized(nr) = nr
  <2> DEFINE nn == Normalized(nr)
  <2>1. /\ nn = [f \in DOMAIN nn |-> nn[f]] /\ DOMAIN nn = DOMAIN nr
        /\ nn.runtime = nr.runtime /\ nn.inflight = nr.inflight
        /\ \A sec \in EventSections : nn[sec] = out[sec]
        /\ \A f \in DOMAIN nr \ RunSections : nn[f] = nr[f]
    BY <1>3, <1>4, <1>5, NormalizedParts
  <2> HIDE DEF nn
  <2>2. \A f \in DOMAIN nr : nn[f] = nr[f]
    BY <1>1, <2>1 DEF RunSections, EventSections, ChildSections
  <2>3. nn = nr
    BY <1>1, <2>1, <2>2
  <2>4. QED
    BY <2>3 DEF nn
<1>7. QED
  BY <1>2, <1>4, <1>5, <1>6 DEF nr

\* Strict `analyze` takes a normalized run exactly when its metadata is sound
\* and a request is left.
LEMMA BuiltVerdict ==
    ASSUME NEW rn, AssembledRun(rn), NEW warnings
    PROVE  AcceptError(Artifact(Normalized(rn), warnings), FALSE)
               = IF rn.meta # {} THEN "strict"
                 ELSE IF Normalized(rn).requests = <<>> THEN "no_requests" ELSE "none"
<1> DEFINE nr == Normalized(rn)
           view == ValidationView(nr)
           art == Artifact(nr, warnings)
<1>1. /\ AssembledRun(nr) /\ Normalized(nr) = nr /\ EvidenceRun(view) /\ EvidenceValid(view)
  BY NormalizedAgain
<1>2. nr.meta = rn.meta
  BY NormalizedParts DEF AssembledRun, RunSections
<1> HIDE DEF nr
<1>3. view = [nr EXCEPT !.runtime = AllOk(nr)]
  BY <1>1, ViewFormed
<1>4. view.meta = nr.meta /\ view.finalized = "ok"
  BY <1>1, <1>3 DEF AssembledRun
<1> HIDE DEF view
<1>5. ValidateStrict(view) <=> nr.meta = {}
  BY <1>1, <1>4, StrictDecides, ValidIsFixed
<1>6. art.file = "ok" /\ art.schema = "supported" /\ art.run = nr
  BY DEF Artifact
<1> HIDE DEF art
<1>7. LoadError(art) = "none"
  <2>1. DecodeError(art) = "none"
    BY <1>6 DEF DecodeError
  <2>2. QED
    BY <1>1, <1>6, <2>1 DEF LoadError, AssembledRun
<1>8. AcceptError(art, FALSE) = IF nr.meta # {} THEN "strict"
                                ELSE IF nr.requests = <<>> THEN "no_requests" ELSE "none"
  BY <1>1, <1>5, <1>6, <1>7 DEF AcceptError, view
<1>9. QED
  BY <1>2, <1>8 DEF art, nr

\* Of the run as it was captured, the segments use the samples alone.
LEMMA SegmentsUseSamples ==
    ASSUME NEW canonical, NEW a, NEW b, a.runtime = b.runtime, a.inflight = b.inflight, NEW o
    PROVE  Temporal(canonical, a, o) = Temporal(canonical, b, o)
<1>1. ASSUME NEW ids, NEW w
      PROVE  Slice(canonical, a, ids, w) = Slice(canonical, b, ids, w)
  BY Zenon DEF Slice
<1>2. ASSUME NEW w
      PROVE  WallClockFallback(a, w) = WallClockFallback(b, w)
  BY Zenon DEF WallClockFallback
<1>3. ASSUME NEW requests
      PROVE  Segment(canonical, a, requests, o) = Segment(canonical, b, requests, o)
  BY <1>1, <1>2, Zenon DEF Segment, SegmentIn, WarnSegment, AnalyzeSlice
<1> DEFINE requests == Chronological(canonical.requests)
           split == Len(canonical.requests) \div 2
           early == SubSeq(requests, 1, split)
           late == SubSeq(requests, split + 1, Len(requests))
<1>4. /\ Segment(canonical, a, early, o) = Segment(canonical, b, early, o)
      /\ Segment(canonical, a, late, o) = Segment(canonical, b, late, o)
  BY <1>3, Zenon
<1> HIDE DEF requests, split
<1>5. Halves(canonical, a, requests, split, o) = Halves(canonical, b, requests, split, o)
  BY <1>4, Zenon DEF Halves
<1>6. QED
  BY <1>5, Zenon DEF Temporal, requests, split

\* Whether validation found something is no part of the findings.
LEMMA FindingsApart ==
    ASSUME NEW run, NEW evidence, NEW trend, NEW suspects, NEW o, NEW partial, NEW x, NEW y,
           NEW routes, NEW temporal
    PROVE  LET report == ReportOf(run, evidence, trend, suspects, o)
           IN  SameFindings(Finish(report, partial, x, routes, temporal, o),
                            Finish(report, partial, y, routes, temporal, o))
<1> DEFINE report == ReportOf(run, evidence, trend, suspects, o)
<1>1. ASSUME NEW z
      PROVE  LET done == Finish(report, partial, z, routes, temporal, o)
             IN  /\ done.suspects = report.suspects /\ done.p95 = report.p95
                 /\ done.routes = routes.breakdowns /\ done.segments = temporal.segments
  <2> DEFINE warned == Dedup(Tag(z, "validation") \o report.warnings
                           \o Tag(partial, "partial_lower_bounds")
                           \o Tag(routes.warn, "route_divergence") \o temporal.warnings)
             limited == report.evidence.limitations \o Tag(z, "validation")
             config == NonDefaultOverrides(o)
  <2>1. Finish(report, partial, z, routes, temporal, o)
            = [report EXCEPT !.warnings = warned, !.evidence.limitations = limited,
                             !.routes = routes.breakdowns, !.segments = temporal.segments,
                             !.config = config]
    BY DEF Finish
  <2>2. DOMAIN report = {"requestIds", "p50", "p95", "p99", "queueShare", "serviceShare", "trend",
                         "evidence", "suspects", "warnings", "routes", "segments", "config"}
    BY DEF ReportOf
  <2> HIDE DEF warned, limited, config, report
  <2>3. QED
    BY <2>1, <2>2
<1> HIDE DEF report
<1>2. QED
  BY <1>1 DEF SameFindings, report

\* The analysis of what RunBuilder built finds what that of the events as they
\* were pushed does.
LEMMA BuiltFindings ==
    ASSUME NEW rn, AssembledRun(rn), NEW o
    PROVE  SameFindings(AnalyzeRun(Normalized(rn), o), AnalyzeRun(rn, o))
<1> DEFINE nr == Normalized(rn)
           report == AnalyzeInternal(nr, WorkerEvidence(rn.runtime), o)
           X(run) == AnalyzerSummary(ValidationView(run)) # {}
           routes == Routes(nr, report.p95, o)
<1>1. Normalized(nr) = nr
  BY NormalizedAgain
<1>2. nr.runtime = rn.runtime /\ nr.inflight = rn.inflight
  BY NormalizedParts
<1> HIDE DEF nr
<1>3. Temporal(nr, nr, o) = Temporal(nr, rn, o)
  BY <1>2, SegmentsUseSamples
<1>4. AnalyzeRun(nr, o) = Finish(report, HasPartial(nr), X(nr), routes, Temporal(nr, rn, o), o)
  BY <1>1, <1>2, <1>3, Zenon DEF AnalyzeRun, AnalyzeCanonical, AnalyzeParts
<1>5. AnalyzeRun(rn, o) = Finish(report, HasPartial(nr), X(rn), routes, Temporal(nr, rn, o), o)
  BY Zenon DEF AnalyzeRun, AnalyzeCanonical, AnalyzeParts, nr
<1>6. PICK run, evidence, trend, suspects : report = ReportOf(run, evidence, trend, suspects, o)
  BY Zenon DEF AnalyzeInternal, Diagnose
<1> HIDE DEF report, X, routes
<1>7. SameFindings(Finish(report, HasPartial(nr), X(nr), routes, Temporal(nr, rn, o), o),
                   Finish(report, HasPartial(nr), X(rn), routes, Temporal(nr, rn, o), o))
  BY <1>6, FindingsApart
<1>8. QED
  BY <1>4, <1>5, <1>7, Zenon DEF nr

\* An event that normalization left out is covered by a durable warning of its
\* section.
LEMMA ExclusionWarned ==
    ASSUME NEW rn, EvidenceRun(rn), NEW sec \in EventSections,
           Len(NormalizeRun(rn)[sec]) # Len(rn[sec])
    PROVE  \E w \in LifecycleSummary(rn) : w.section = sec /\ w.action = "excluded"
<1> DEFINE report == Report(rn)
           K == {i \in DOMAIN rn[sec] : ~Excluded(report, sec, i)}
           n == Len(rn[sec])
<1>1. IsSection(rn[sec]) /\ Len(NormalizeRun(rn)[sec]) = Cardinality(K)
  BY EventSectionOut
<1>2. DOMAIN rn[sec] = 1..n /\ n \in Nat
  BY <1>1 DEF IsSection
<1>3. PICK i \in DOMAIN rn[sec] : Excluded(report, sec, i)
  <2> SUFFICES ASSUME \A i \in DOMAIN rn[sec] : ~Excluded(report, sec, i) PROVE FALSE
    OBVIOUS
  <2>1. K = DOMAIN rn[sec]
    OBVIOUS
  <2> HIDE DEF K, n
  <2>2. Cardinality(1..n) = IF 1 > n THEN 0 ELSE n - 1 + 1
    BY <1>2, FS_Interval, 1 \in Int, n \in Int
  <2>3. QED
    BY <1>1, <1>2, <2>1, <2>2 DEF n
<1>4. QED
  BY <1>3, ExcludedWarned

\* The inductive invariant of the builder: the run is assembled, and an event
\* that was taken is in it or was counted at the limit.
Accounted(builder, taken) ==
    /\ builder = [f \in DOMAIN builder |-> builder[f]] /\ "run" \in DOMAIN builder
    /\ AssembledRun(builder.run) /\ taken \in [RunSections -> Nat]
    /\ \A sec \in RunSections : taken[sec] = Len(builder.run[sec]) + builder.run.dropped[sec]

BuiltInv ==
    /\ HasFamily(input)
    /\ Is("built") => /\ {"builder", "taken"} \subseteq DOMAIN input
                      /\ Accounted(input.builder, input.taken)

\* A new builder is empty.
LEMMA NewAccounted ==
    ASSUME NEW i \in BuilderInputs
    PROVE  {"builder", "taken"} \subseteq DOMAIN i /\ Accounted(i.builder, i.taken)
<1>1. PICK options : i = [family |-> "built", builder |-> NewRunBuilder(options), taken |-> NoDrops]
  BY DEF BuilderInputs
<1> DEFINE b == NewRunBuilder(options)
           limits == EffectiveLimits(options.mode, options.limits, <<>>)
           meta == IF options.run_id = "blank" THEN {"run_id"} ELSE {}
           none == [sec \in RunSections |-> 0]
           rn == [requests |-> <<>>, stages |-> <<>>, queues |-> <<>>, inflight |-> <<>>,
                  runtime |-> <<>>, finalized |-> "ok", meta |-> meta, dropped |-> none,
                  limitsHit |-> FALSE]
<1>2. Sections = RunSections
  BY DEF Sections, RunSections
<1>3. b = [run |-> rn, limits |-> limits, warnings |-> <<>>, reason |-> options.reason] /\ NoDrops = none
  BY <1>2 DEF NewRunBuilder, NoDrops
<1>4. <<>> \in Seq({}) /\ DOMAIN <<>> = {} /\ Len(<<>>) = 0
  OBVIOUS
<1>5. IsSection(<<>>)
  BY <1>4, SequenceIsSection
<1>6. EventSection(<<>>)
  BY <1>4, <1>5 DEF EventSection
<1> HIDE DEF limits, meta, none
<1>7. /\ rn = [f \in DOMAIN rn |-> rn[f]]
      /\ RunSections \cup {"meta", "finalized", "dropped", "limitsHit"} \subseteq DOMAIN rn
      /\ \A sec \in RunSections : rn[sec] = <<>>
      /\ rn.finalized = "ok" /\ rn.dropped = none
  BY DEF RunSections
<1> HIDE DEF rn
<1>8. none \in [RunSections -> Nat] /\ \A sec \in RunSections : none[sec] = 0
  BY DEF none
<1>9. \A sec \in EventSections \cup {"inflight", "runtime"} : rn[sec] = <<>>
  BY <1>7 DEF RunSections, EventSections, ChildSections
<1>10. AssembledRun(rn)
  <2>1. \A sec \in EventSections : EventSection(rn[sec])
    BY <1>6, <1>9
  <2>2. /\ IsSection(rn.inflight) /\ \A k \in DOMAIN rn.inflight : rn.inflight[k].gauge \notin BlankGauges
        /\ IsSection(rn.runtime) /\ \A k \in DOMAIN rn.runtime : SoundSample(rn.runtime[k])
    BY <1>4, <1>5, <1>9
  <2>3. QED
    BY <1>7, <1>8, <2>1, <2>2 DEF AssembledRun
<1>11. b = [f \in DOMAIN b |-> b[f]] /\ "run" \in DOMAIN b /\ b.run = rn
  BY <1>3
<1> HIDE DEF b
<1>12. Accounted(b, none)
  BY <1>4, <1>7, <1>8, <1>10, <1>11 DEF Accounted
<1>13. i.builder = b /\ i.taken = none /\ {"builder", "taken"} \subseteq DOMAIN i
  BY <1>1, <1>3 DEF b
<1>14. QED
  BY <1>12, <1>13

\* An event that may be pushed into a section.
Formed(sec, ev) ==
    /\ sec \in RunSections
    /\ sec \in EventSections => WellFormed(ev)
    /\ sec = "runtime" => ev = [f \in DOMAIN ev |-> ev[f]] /\ "workers" \in DOMAIN ev

\* Sound requests and children are well formed, and stay so when their
\* times change.
LEMMA EventsFormed ==
    /\ \A i, route, dur, precise : WellFormed(Req(i, route, dur, precise))
    /\ \A i, dur, completed, name, depth : WellFormed(Child(i, dur, completed, name, depth))
    /\ \A ev, v : WellFormed(ev) => /\ WellFormed([ev EXCEPT !.dur = v])
                                    /\ WellFormed([ev EXCEPT !.s = v])
                                    /\ WellFormed([ev EXCEPT !.e = v])
    /\ \A ev : WellFormed(ev) => WellFormed([ev EXCEPT !.shape = "inverted"])
<1>1. ASSUME NEW i, NEW route, NEW dur, NEW precise
      PROVE  WellFormed(Req(i, route, dur, precise))
  BY DEF Req, WellFormed, EventFields, EventShapes
<1>2. ASSUME NEW i, NEW dur, NEW completed, NEW name, NEW depth
      PROVE  WellFormed(Child(i, dur, completed, name, depth))
  BY DEF Child, WellFormed, EventFields, EventShapes
<1>3. ASSUME NEW ev, WellFormed(ev), NEW v
      PROVE  /\ WellFormed([ev EXCEPT !.dur = v]) /\ WellFormed([ev EXCEPT !.s = v])
             /\ WellFormed([ev EXCEPT !.e = v])
  BY <1>3 DEF WellFormed, EventFields
<1>4. ASSUME NEW ev, WellFormed(ev)
      PROVE  WellFormed([ev EXCEPT !.shape = "inverted"])
  BY <1>4 DEF WellFormed, EventFields, EventShapes
<1>5. QED
  BY <1>1, <1>2, <1>3, <1>4, Zenon

\* The events that are pushed are formed.
LEMMA PushesFormed ==
    ASSUME NEW p \in Pushes
    PROVE  Formed(p[1], p[2])
<1>1. \A ev : WellFormed(ev) => Formed("requests", ev) /\ Formed("stages", ev) /\ Formed("queues", ev)
  BY DEF Formed, RunSections
<1>2. \A ev : Formed("inflight", ev)
  BY DEF Formed, RunSections, EventSections, ChildSections
<1>3. \A us, ms, blocking, local, global, workers :
          Formed("runtime", Sample(us, ms, blocking, local, global, workers))
  BY DEF Formed, RunSections, EventSections, ChildSections, Sample
<1>4. \E sec, ev : Formed(sec, ev) /\ p = <<sec, ev>>
  BY <1>1, <1>2, <1>3, EventsFormed, ZenonT(60) DEF Pushes
<1>5. QED
  BY <1>4

\* A push below the limit appends, one at the limit counts.
LEMMA BoundedPush ==
    ASSUME NEW rn, AssembledRun(rn), NEW limits, NEW sec, NEW ev, Formed(sec, ev), ~Impossible(sec, ev)
    PROVE  LET out == PushBounded(rn, limits, sec, ev)
           IN  /\ AssembledRun(out)
               /\ \A f \in RunSections \ {sec} : out[f] = rn[f] /\ out.dropped[f] = rn.dropped[f]
               /\ Len(out[sec]) + out.dropped[sec] = Len(rn[sec]) + rn.dropped[sec] + 1
<1> DEFINE out == PushBounded(rn, limits, sec, ev)
<1>1. /\ rn = [f \in DOMAIN rn |-> rn[f]] /\ RunSections \subseteq DOMAIN rn
      /\ {"meta", "finalized", "dropped", "limitsHit"} \subseteq DOMAIN rn
      /\ \A f \in RunSections : IsSection(rn[f])
      /\ rn.dropped \in [RunSections -> Nat] /\ sec \in RunSections
  BY DEF AssembledRun, RunSections, EventSections, ChildSections, EventSection, Formed
<1>2. Len(rn[sec]) \in Nat
  BY <1>1 DEF IsSection
<1>3. CASE Len(rn[sec]) >= limits[sec]
  <2> DEFINE drops == [rn.dropped EXCEPT ![sec] = @ + 1]
  <2>1. out = [rn EXCEPT !.dropped = drops, !.limitsHit = TRUE]
    BY <1>3 DEF PushBounded
  <2>2. /\ drops \in [RunSections -> Nat] /\ drops[sec] = rn.dropped[sec] + 1
        /\ \A f \in RunSections \ {sec} : drops[f] = rn.dropped[f]
    BY <1>1
  <2> HIDE DEF out, drops
  <2>3. /\ out = [f \in DOMAIN out |-> out[f]] /\ DOMAIN out = DOMAIN rn
        /\ out.dropped = drops /\ \A f \in DOMAIN rn \ {"dropped", "limitsHit"} : out[f] = rn[f]
    BY <1>1, <2>1
  <2>4. \A f \in RunSections \cup EventSections : out[f] = rn[f]
    BY <1>1, <2>3 DEF RunSections, EventSections, ChildSections
  <2>5. out.inflight = rn.inflight /\ out.runtime = rn.runtime /\ out.finalized = rn.finalized
    BY <1>1, <2>3, <2>4 DEF RunSections
  <2>6. AssembledRun(out)
    BY <2>2, <2>3, <2>4, <2>5 DEF AssembledRun
  <2>7. Len(out[sec]) + out.dropped[sec] = Len(rn[sec]) + rn.dropped[sec] + 1
    BY <1>1, <1>2, <2>2, <2>3, <2>4
  <2>8. QED
    BY <2>2, <2>3, <2>4, <2>6, <2>7 DEF out
<1>4. CASE ~(Len(rn[sec]) >= limits[sec])
  <2> DEFINE new == Append(rn[sec], ev)
  <2>1. out = [rn EXCEPT ![sec] = new]
    BY <1>4 DEF PushBounded
  <2>2. /\ IsSection(new)
        /\ \A i \in DOMAIN new : new[i] = ev \/ (i \in DOMAIN rn[sec] /\ new[i] = rn[sec][i])
    BY <1>1, AppendedSection
  <2>3. Len(new) = Len(rn[sec]) + 1
    <3> DEFINE old == rn[sec]
               S == {old[i] : i \in DOMAIN old}
    <3>1. old \in Seq(S)
      BY <1>1 DEF IsSection
    <3> HIDE DEF S, old
    <3>2. Len(Append(old, ev)) = Len(old) + 1
      BY <3>1
    <3>3. QED
      BY <3>2 DEF old
  <2> HIDE DEF out, new
  <2>4. /\ out = [f \in DOMAIN out |-> out[f]] /\ DOMAIN out = DOMAIN rn
        /\ out[sec] = new /\ \A f \in DOMAIN rn \ {sec} : out[f] = rn[f]
    BY <1>1, <2>1
  <2>5. out.dropped = rn.dropped /\ out.finalized = rn.finalized
    BY <1>1, <2>4 DEF RunSections
  <2>6. \A f \in EventSections : EventSection(out[f])
    <3>1. \A f \in EventSections : EventSection(rn[f])
      BY DEF AssembledRun
    <3>2. ASSUME NEW f \in EventSections PROVE EventSection(out[f])
      <4>1. CASE f = sec
        BY <2>2, <2>4, <3>1, <4>1 DEF EventSection, Formed
      <4>2. CASE f # sec
        <5>1. f \in DOMAIN rn
          BY <1>1 DEF RunSections, EventSections, ChildSections
        <5>2. QED
          BY <2>4, <3>1, <4>2, <5>1
      <4>3. QED
        BY <4>1, <4>2
    <3>3. QED
      BY <3>2
  <2>7. IsSection(out.inflight) /\ \A i \in DOMAIN out.inflight : out.inflight[i].gauge \notin BlankGauges
    <3>1. IsSection(rn.inflight) /\ \A i \in DOMAIN rn.inflight : rn.inflight[i].gauge \notin BlankGauges
      BY DEF AssembledRun
    <3>2. CASE sec = "inflight"
      <4>1. ev.gauge \notin BlankGauges
        BY <3>2 DEF Impossible
      <4>2. QED
        BY <2>2, <2>4, <3>1, <3>2, <4>1
    <3>3. CASE sec # "inflight"
      BY <1>1, <2>4, <3>1, <3>3 DEF RunSections
    <3>4. QED
      BY <3>2, <3>3
  <2>8. IsSection(out.runtime) /\ \A i \in DOMAIN out.runtime : SoundSample(out.runtime[i])
    <3>1. IsSection(rn.runtime) /\ \A i \in DOMAIN rn.runtime : SoundSample(rn.runtime[i])
      BY DEF AssembledRun
    <3>2. CASE sec = "runtime"
      <4>1. SoundSample(ev)
        BY <3>2 DEF Impossible, SoundSample, Formed
      <4>2. QED
        BY <2>2, <2>4, <3>1, <3>2, <4>1
    <3>3. CASE sec # "runtime"
      BY <1>1, <2>4, <3>1, <3>3 DEF RunSections
    <3>4. QED
      BY <3>2, <3>3
  <2>9. AssembledRun(out)
    BY <1>1, <2>4, <2>5, <2>6, <2>7, <2>8 DEF AssembledRun
  <2>10. Len(out[sec]) + out.dropped[sec] = Len(rn[sec]) + rn.dropped[sec] + 1
    BY <1>1, <1>2, <2>3, <2>4, <2>5
  <2>11. QED
    BY <1>1, <2>4, <2>5, <2>9, <2>10 DEF out
<1>5. QED
  BY <1>3, <1>4

\* A push keeps the account.
LEMMA PushAccounted ==
    ASSUME NEW b, NEW t, Accounted(b, t), NEW sec, NEW ev, Formed(sec, ev)
    PROVE  Accounted(Push(b, sec, ev), [t EXCEPT ![sec] = IF Impossible(sec, ev) THEN @ ELSE @ + 1])
<1> DEFINE u == [t EXCEPT ![sec] = IF Impossible(sec, ev) THEN @ ELSE @ + 1]
<1>1. /\ b = [f \in DOMAIN b |-> b[f]] /\ "run" \in DOMAIN b
      /\ AssembledRun(b.run) /\ t \in [RunSections -> Nat]
      /\ \A f \in RunSections : t[f] = Len(b.run[f]) + b.run.dropped[f]
      /\ sec \in RunSections
  BY DEF Accounted, Formed
<1>2. CASE Impossible(sec, ev)
  <2>1. u = t
    BY <1>1, <1>2
  <2>2. Push(b, sec, ev) = b
    BY <1>2 DEF Push
  <2>3. QED
    BY <2>1, <2>2
<1>3. CASE ~Impossible(sec, ev)
  <2> DEFINE rn == b.run
             out == PushBounded(rn, b.limits, sec, ev)
             c == Push(b, sec, ev)
  <2>1. /\ AssembledRun(out)
        /\ \A f \in RunSections \ {sec} : out[f] = rn[f] /\ out.dropped[f] = rn.dropped[f]
        /\ Len(out[sec]) + out.dropped[sec] = Len(rn[sec]) + rn.dropped[sec] + 1
    BY <1>1, <1>3, BoundedPush
  <2>2. c = [b EXCEPT !.run = out]
    BY <1>3 DEF Push
  <2> HIDE DEF out, c
  <2>3. c = [f \in DOMAIN c |-> c[f]] /\ "run" \in DOMAIN c /\ c.run = out
    BY <1>1, <2>2
  <2>4. u \in [RunSections -> Nat] /\ u[sec] = t[sec] + 1 /\ \A f \in RunSections \ {sec} : u[f] = t[f]
    BY <1>1, <1>3
  <2> HIDE DEF u
  <2>5. \A f \in RunSections : u[f] = Len(out[f]) + out.dropped[f]
    BY <1>1, <2>1, <2>4
  <2>6. Accounted(c, u)
    BY <2>1, <2>3, <2>4, <2>5 DEF Accounted
  <2>7. QED
    BY <2>6 DEF c, u
<1>4. QED
  BY <1>2, <1>3

\* The account is right whatever is pushed and in whatever order.
LEMMA BuildersAccounted == Spec => []BuiltInv
<1>1. Init => BuiltInv
  BY InputFamilies, NewAccounted DEF Init, BuiltInv, Is
<1>2. BuiltInv /\ [Next]_input => BuiltInv'
  <2> SUFFICES ASSUME BuiltInv, [Next]_input PROVE BuiltInv'
    OBVIOUS
  <2>1. CASE UNCHANGED input
    BY <2>1 DEF BuiltInv, Is
  <2>2. CASE Next /\ ~Is("built")
    BY <2>2, StepInFamily DEF BuiltInv, Is
  <2>3. CASE Next /\ Is("built")
    <3>1. HasFamily(input') /\ input'.family = input.family /\ PushEvent
      BY <2>3, StepInFamily DEF BuiltInv
    <3>2. {"builder", "taken"} \subseteq DOMAIN input /\ Accounted(input.builder, input.taken)
      BY <2>3 DEF BuiltInv
    <3>3. PICK p \in Pushes :
              input' = [input EXCEPT !.builder = Push(@, p[1], p[2]),
                                     !.taken[p[1]] = IF Impossible(p[1], p[2]) THEN @ ELSE @ + 1]
      BY <3>1, Zenon DEF PushEvent
    <3> DEFINE c == Push(input.builder, p[1], p[2])
               u == [input.taken EXCEPT ![p[1]] = IF Impossible(p[1], p[2]) THEN @ ELSE @ + 1]
    <3>4. Accounted(c, u)
      BY <3>2, PushesFormed, PushAccounted
    <3>5. input' = [input EXCEPT !.builder = c, !.taken = u]
      BY <3>2, <3>3
    <3> HIDE DEF c, u
    <3>6. {"builder", "taken"} \subseteq DOMAIN input' /\ input'.builder = c /\ input'.taken = u
      BY <3>2, <3>5
    <3>7. QED
      BY <3>1, <3>4, <3>6 DEF BuiltInv, Is
  <2>4. QED
    BY <2>1, <2>2, <2>3
<1>3. QED
  BY <1>1, <1>2, PTL DEF Spec

\* What RunBuilder builds is accepted by strict `analyze` when it has a run id
\* and a request, is analyzed as the events that were pushed would be, and has
\* lost no event that is neither counted nor covered by a warning.
THEOREM BuiltAcceptedHolds == Spec => []BuiltAccepted
<1>1. BuiltInv => BuiltAccepted
  <2> SUFFICES ASSUME BuiltInv, Is("built") PROVE BuiltAccepted
    BY DEF BuiltAccepted
  <2> DEFINE b == input.builder
             rn == b.run
             view == ValidationView(rn)
             nr == Normalized(rn)
             built == Build(b)
  <2>1. /\ AssembledRun(rn)
        /\ \A sec \in RunSections : input.taken[sec] = Len(rn[sec]) + rn.dropped[sec]
    BY DEF BuiltInv, Accounted
  <2>2. built.run = nr /\ \A w \in LifecycleSummary(view) : w \in built.warnings
    BY DEF Build
  <2>3. AcceptError(BuiltArtifact(built), FALSE)
            = IF rn.meta # {} THEN "strict" ELSE IF nr.requests = <<>> THEN "no_requests" ELSE "none"
    <3> HIDE DEF rn, nr, built
    <3>1. BuiltArtifact(built) = Artifact(nr, built.warnings)
      BY <2>2, Zenon DEF BuiltArtifact
    <3>2. QED
      BY <2>1, <3>1, BuiltVerdict, Zenon DEF nr
  <2>4. SameFindings(AnalyzeRun(nr, AnalysisOptions), AnalyzeRun(rn, AnalysisOptions))
    BY <2>1, BuiltFindings
  <2>5. JudgedRight(rn, nr, AcceptError(BuiltArtifact(built), FALSE))
    BY <2>3, <2>4, Zenon DEF JudgedRight
  <2>6. ASSUME NEW sec \in Sections
        PROVE  \/ input.taken[sec] = Len(built.run[sec]) + built.run.dropped[sec]
               \/ \E w \in built.warnings : w.section = sec /\ w.action = "excluded"
    <3>1. sec \in RunSections
      BY DEF Sections, RunSections
    <3>2. /\ nr.runtime = rn.runtime /\ nr.inflight = rn.inflight
          /\ \A f \in EventSections : nr[f] = NormalizeRun(view)[f]
          /\ nr.dropped = rn.dropped
      <4>1. /\ nr.runtime = rn.runtime /\ nr.inflight = rn.inflight
            /\ \A f \in EventSections : nr[f] = NormalizeRun(view)[f]
            /\ \A f \in DOMAIN rn \ RunSections : nr[f] = rn[f]
        BY <2>1, NormalizedParts, Zenon
      <4>2. "dropped" \in DOMAIN rn \ RunSections
        BY <2>1 DEF AssembledRun, RunSections
      <4>3. QED
        BY <4>1, <4>2, Zenon
    <3> HIDE DEF nr, view, built
    <3>3. CASE sec \in EventSections
      <4>1. EvidenceRun(view) /\ view = [rn EXCEPT !.runtime = AllOk(rn)]
        BY <2>1, ViewFormed DEF view
      <4>2. view[sec] = rn[sec]
        <5>1. sec \in DOMAIN rn /\ sec # "runtime"
          BY <2>1, <3>1, <3>3 DEF AssembledRun, EventSections, ChildSections
        <5> HIDE DEF rn
        <5>2. QED
          BY <4>1, <5>1
      <4>3. CASE Len(nr[sec]) = Len(rn[sec])
        BY <2>1, <2>2, <3>1, <3>2, <4>3
      <4>4. CASE Len(nr[sec]) # Len(rn[sec])
        BY <2>2, <3>2, <3>3, <4>1, <4>2, <4>4, ExclusionWarned
      <4>5. QED
        BY <4>3, <4>4
    <3>4. CASE sec \in {"inflight", "runtime"}
      BY <2>1, <2>2, <3>1, <3>2, <3>4
    <3>5. QED
      BY <3>1, <3>3, <3>4 DEF RunSections, EventSections, ChildSections
  <2>7. PushesAccounted(built)
    BY <2>6 DEF PushesAccounted
  <2>8. QED
    BY <2>2, <2>5, <2>7 DEF BuiltAccepted
<1>2. QED
  BY <1>1, BuildersAccounted, PTL

----------------------------------------------------------------------------
(* The analyzer's options.                                                 *)

\* One round of the loop over the overrides.
Round(r, raw) == IF r.error # "none" THEN r ELSE ApplyOverride(r.options, raw)

\* The results of the loop, and that a function is the list of the first m.
Results(o, raws, m, f) == f = [n \in 0..m |-> IF n = 0 THEN Ok(o) ELSE Round(f[n - 1], raws[n])]

\* The loop has results.
LEMMA LoopResults ==
    ASSUME NEW o, NEW raws, Len(raws) \in Nat
    PROVE  Results(o, raws, Len(raws), Applied(o, raws))
<1> DEFINE N == Len(raws)
           F == {m \in 0..N : ~\E f : Results(o, raws, m, f)}
<1>1. ASSUME NEW k \in F
      PROVE  k # 0 /\ k - 1 \in F
  <2>1. k # 0
    <3> SUFFICES ASSUME k = 0 PROVE \E f : Results(o, raws, k, f)
      OBVIOUS
    <3> DEFINE f == [n \in 0..0 |-> Ok(o)]
    <3>1. f = [n \in 0..0 |-> IF n = 0 THEN Ok(o) ELSE Round(f[n - 1], raws[n])]
      OBVIOUS
    <3>2. QED
      BY <3>1 DEF Results
  <2>2. ASSUME NEW f, Results(o, raws, k - 1, f)
        PROVE  \E g : Results(o, raws, k, g)
    <3> DEFINE g == [n \in 0..k |-> IF n = k THEN Round(f[k - 1], raws[k]) ELSE f[n]]
    <3>1. k \in Nat /\ k > 0
      BY <2>1
    <3>2. ASSUME NEW n \in 0..k
          PROVE  g[n] = IF n = 0 THEN Ok(o) ELSE Round(g[n - 1], raws[n])
      <4>1. CASE n = 0
        BY <2>2, <3>1, <4>1 DEF Results
      <4>2. CASE n = k
        <5>1. g[n] = Round(f[k - 1], raws[k]) /\ g[n - 1] = f[k - 1]
          BY <3>1, <4>2
        <5>2. QED
          BY <3>1, <4>2, <5>1
      <4>3. CASE n # 0 /\ n # k
        <5>1. n \in 0..(k - 1) /\ n - 1 \in 0..k /\ n - 1 # k
          BY <3>1, <4>3
        <5>2. g[n] = f[n] /\ g[n - 1] = f[n - 1]
          BY <4>3, <5>1
        <5>3. f[n] = Round(f[n - 1], raws[n])
          BY <2>2, <4>3, <5>1 DEF Results
        <5>4. QED
          BY <4>3, <5>2, <5>3
      <4>4. QED
        BY <4>1, <4>2, <4>3
    <3>3. g = [n \in 0..k |-> g[n]]
      OBVIOUS
    <3> HIDE DEF g
    <3>4. Results(o, raws, k, g)
      BY <3>2, <3>3 DEF Results
    <3>5. QED
      BY <3>4
  <2>3. k - 1 \in 0..N
    BY <2>1
  <2>4. QED
    BY <2>1, <2>2, <2>3
<1>2. F \in SUBSET (0..N) /\ N \in Nat
  OBVIOUS
<1> HIDE DEF F, N
<1>3. F = {}
  BY <1>1, <1>2, NoFirstFailure
<1>4. \E f : Results(o, raws, N, f)
  <2>1. N \in 0..N /\ N \notin F
    BY <1>2, <1>3
  <2>2. QED
    BY <2>1 DEF F
<1>5. Applied(o, raws) = CHOOSE f : Results(o, raws, N, f)
  BY Zenon DEF Applied, Results, Round, N
<1>6. QED
  BY <1>4, <1>5, Zenon DEF N

\* Checks of which none fails.
Passing(s) == IsSection(s) /\ \A i \in DOMAIN s : s[i][2] = FALSE

\* Two lists that pass make one that does.
LEMMA PassingBoth ==
    ASSUME NEW s, NEW t, Passing(s), Passing(t)
    PROVE  Passing(s \o t)
<1> DEFINE A == {s[i] : i \in DOMAIN s}
           B == {t[i] : i \in DOMAIN t}
           C == A \cup B
<1>1. s \in Seq(A) /\ t \in Seq(B)
  BY DEF Passing, IsSection
<1>2. \A c \in C : c[2] = FALSE
  BY DEF Passing
<1> HIDE DEF A, B
<1>3. s \in Seq(C) /\ t \in Seq(C)
  BY <1>1
<1> HIDE DEF C
<1>4. s \o t \in Seq(C)
  BY <1>3
<1> DEFINE u == s \o t
<1> HIDE DEF u
<1>5. u \in Seq(C)
  BY <1>4 DEF u
<1>6. \A i \in DOMAIN u : u[i] \in C
  BY <1>5
<1>7. IsSection(u)
  BY <1>5, SequenceIsSection
<1>8. QED
  BY <1>2, <1>6, <1>7 DEF Passing, u

\* Options of which no check fails are valid.
LEMMA PassingValid ==
    ASSUME NEW o, Passing(Checks(o))
    PROVE  Validate(o) = "ok"
<1> DEFINE s == Checks(o)
<1>1. \A i \in DOMAIN s : ~s[i][2]
  BY DEF Passing
<1> HIDE DEF s
<1>2. SelectInSeq(s, LAMBDA c : c[2]) = 0
  BY <1>1 DEF SelectInSeq
<1>3. QED
  BY <1>2, Zenon DEF Validate, s

\* A sequence over checks that do not fail passes.
LEMMA PassingOver ==
    ASSUME NEW S, NEW s \in Seq(S), \A c \in S : c[2] = FALSE
    PROVE  Passing(s)
<1>1. IsSection(s)
  BY SequenceIsSection
<1>2. \A i \in DOMAIN s : s[i] \in S
  OBVIOUS
<1>3. QED
  BY <1>1, <1>2 DEF Passing

\* Tuples of checks that do not fail pass.
LEMMA PassingTuples ==
    /\ \A a, b : a[2] = FALSE /\ b[2] = FALSE => Passing(<<a, b>>)
    /\ \A a, b, c : a[2] = FALSE /\ b[2] = FALSE /\ c[2] = FALSE => Passing(<<a, b, c>>)
<1>1. ASSUME NEW S, NEW a \in S, NEW b \in S, NEW c \in S
      PROVE  <<a, b>> \in Seq(S) /\ <<a, b, c>> \in Seq(S)
  OBVIOUS
<1>2. ASSUME NEW a, NEW b, NEW c, a[2] = FALSE, b[2] = FALSE, c[2] = FALSE
      PROVE  Passing(<<a, b>>) /\ Passing(<<a, b, c>>)
  <2> DEFINE S == {a, b, c}
  <2>1. a \in S /\ b \in S /\ c \in S /\ \A z \in S : z[2] = FALSE
    BY <1>2, Zenon
  <2> HIDE DEF S
  <2>2. <<a, b>> \in Seq(S) /\ <<a, b, c>> \in Seq(S)
    BY <1>1, <2>1, Zenon
  <2>3. QED
    BY <2>1, <2>2, PassingOver, Zenon
<1>3. QED
  BY <1>2, Zenon

\* A ratio of at least one passes.
LEMMA RatioPasses ==
    ASSUME NEW num, NEW den, NEW n \in Nat, NEW d \in Nat, d # 0, n >= d
    PROVE  Passing(RatioChecks(num, den, n, d))
<1>1. (n = 0) = FALSE /\ (d = 0) = FALSE /\ (n < d) = FALSE
  OBVIOUS
<1>2. <<num, n = 0>>[2] = FALSE /\ <<den, d = 0>>[2] = FALSE /\ <<num, n < d>>[2] = FALSE
  BY <1>1, Zenon
<1>3. QED
  BY <1>2, PassingTuples, Zenon DEF RatioChecks

\* The defaults are valid.
LEMMA DefaultsValid == Validate(Defaults) = "ok"
<1> DEFINE o == Defaults
           q == <<"queueing.trigger_permille", o.queueing.trigger_permille > 1000>>
           bl == <<"blocking.strong_nonzero_share_permille",
                   o.blocking.strong_nonzero_share_permille > 1000>>
           cm == <<"confidence.medium_score_threshold",
                   o.confidence.medium_score_threshold > o.confidence.high_score_threshold>>
           ch == <<"confidence.high_score_threshold", o.confidence.high_score_threshold > 100>>
           ca == <<"confidence.ambiguity_min_score", o.confidence.ambiguity_min_score > 100>>
           cg == <<"confidence.ambiguity_score_gap", o.confidence.ambiguity_score_gap > 100>>
           dm == <<"downstream.blocking_correlation_score_margin",
                   o.downstream.blocking_correlation_score_margin > 100>>
           rb == <<"route.breakdown_limit", o.route.breakdown_limit = 0>>
           r1 == RatioChecks("route.slowest_to_fastest_p95_ratio_numerator",
                             "route.slowest_to_fastest_p95_ratio_denominator",
                             o.route.slowest_to_fastest_p95_ratio_numerator,
                             o.route.slowest_to_fastest_p95_ratio_denominator)
           r2 == RatioChecks("route.slowest_to_global_p95_ratio_numerator",
                             "route.slowest_to_global_p95_ratio_denominator",
                             o.route.slowest_to_global_p95_ratio_numerator,
                             o.route.slowest_to_global_p95_ratio_denominator)
           ts == <<"temporal.min_segment_request_count", o.temporal.min_segment_request_count = 0>>
           tm == <<"temporal.min_segment_request_count",
                   o.temporal.min_segment_request_count * 2 > o.temporal.min_request_count>>
           tp == <<"temporal.share_shift_permille", o.temporal.share_shift_permille > 1000>>
           r3 == RatioChecks("temporal.p95_shift_ratio_numerator", "temporal.p95_shift_ratio_denominator",
                             o.temporal.p95_shift_ratio_numerator, o.temporal.p95_shift_ratio_denominator)
           patterns == o.downstream.blocking_correlated_stage_patterns
           pe == <<"downstream.blocking_correlated_stage_patterns", patterns = <<>> >>
           pb == <<"downstream.blocking_correlated_stage_patterns", BlankPattern \in ToSet(patterns)>>
<1>1. Checks(Defaults)
          = <<q, bl, cm, ch, ca, cg, dm, rb>> \o r1 \o r2 \o <<ts, tm, tp>> \o r3 \o <<pe, pb>>
  BY Zenon DEF Checks
<1>2. q[2] = FALSE /\ bl[2] = FALSE /\ cm[2] = FALSE /\ ch[2] = FALSE
  <2>1. /\ (o.queueing.trigger_permille > 1000) = FALSE
        /\ (o.blocking.strong_nonzero_share_permille > 1000) = FALSE
        /\ (o.confidence.medium_score_threshold > o.confidence.high_score_threshold) = FALSE
        /\ (o.confidence.high_score_threshold > 100) = FALSE
    BY DEF Defaults
  <2>2. QED
    BY <2>1, Zenon
<1>3. ca[2] = FALSE /\ cg[2] = FALSE /\ dm[2] = FALSE /\ rb[2] = FALSE
  <2>1. /\ (o.confidence.ambiguity_min_score > 100) = FALSE
        /\ (o.confidence.ambiguity_score_gap > 100) = FALSE
        /\ (o.downstream.blocking_correlation_score_margin > 100) = FALSE
        /\ (o.route.breakdown_limit = 0) = FALSE
    BY DEF Defaults
  <2>2. QED
    BY <2>1, Zenon
<1>4. Passing(r1) /\ Passing(r2) /\ Passing(r3)
  <2>1. /\ o.route.slowest_to_fastest_p95_ratio_numerator = 3
        /\ o.route.slowest_to_fastest_p95_ratio_denominator = 2
        /\ o.route.slowest_to_global_p95_ratio_numerator = 5
        /\ o.route.slowest_to_global_p95_ratio_denominator = 4
        /\ o.temporal.p95_shift_ratio_numerator = 3 /\ o.temporal.p95_shift_ratio_denominator = 2
    BY DEF Defaults
  <2>2. \A num, den : /\ Passing(RatioChecks(num, den, 3, 2))
                      /\ Passing(RatioChecks(num, den, 5, 4))
    BY RatioPasses
  <2>3. QED
    BY <2>1, <2>2, Zenon
<1>5. ts[2] = FALSE /\ tm[2] = FALSE /\ tp[2] = FALSE
  <2>1. /\ (o.temporal.min_segment_request_count = 0) = FALSE
        /\ (o.temporal.min_segment_request_count * 2 > o.temporal.min_request_count) = FALSE
        /\ (o.temporal.share_shift_permille > 1000) = FALSE
    BY DEF Defaults
  <2>2. QED
    BY <2>1, Zenon
<1>6. pe[2] = FALSE /\ pb[2] = FALSE
  <2>1. patterns = <<"spawn_blocking", "blocking_path", "blocking">>
    BY DEF Defaults
  <2>2. (patterns = <<>>) = FALSE /\ (BlankPattern \in ToSet(patterns)) = FALSE
    BY <2>1 DEF BlankPattern, ToSet
  <2>3. QED
    BY <2>2, Zenon
<1> HIDE DEF o, q, bl, cm, ch, ca, cg, dm, rb, r1, r2, ts, tm, tp, r3, pe, pb
<1>7. Passing(<<q, bl, cm, ch, ca, cg, dm, rb>>)
  <2> DEFINE S == {q, bl, cm, ch, ca, cg, dm, rb}
  <2>1. /\ q \in S /\ bl \in S /\ cm \in S /\ ch \in S
        /\ ca \in S /\ cg \in S /\ dm \in S /\ rb \in S
        /\ \A c \in S : c[2] = FALSE
    BY <1>2, <1>3, Zenon
  <2> HIDE DEF S
  <2>2. <<q, bl, cm, ch, ca, cg, dm, rb>> \in Seq(S)
    BY <2>1
  <2>3. QED
    BY <2>1, <2>2, PassingOver, Zenon
<1>8. Passing(<<ts, tm, tp>>) /\ Passing(<<pe, pb>>)
  BY <1>5, <1>6, PassingTuples, Zenon
<1> DEFINE c1 == <<q, bl, cm, ch, ca, cg, dm, rb>>
           c2 == <<ts, tm, tp>>
           c3 == <<pe, pb>>
<1>9. Passing(c1 \o r1 \o r2 \o c2 \o r3 \o c3)
  <2> HIDE DEF c1, c2, c3
  <2>1. Passing(c1) /\ Passing(c2) /\ Passing(c3)
    BY <1>7, <1>8 DEF c1, c2, c3
  <2>2. Passing(c1 \o r1)
    BY <1>4, <2>1, PassingBoth
  <2>3. Passing(c1 \o r1 \o r2)
    BY <1>4, <2>2, PassingBoth
  <2>4. Passing(c1 \o r1 \o r2 \o c2)
    BY <2>1, <2>3, PassingBoth
  <2>5. Passing(c1 \o r1 \o r2 \o c2 \o r3)
    BY <1>4, <2>4, PassingBoth
  <2>6. QED
    BY <2>1, <2>5, PassingBoth
<1>10. QED
  BY <1>1, <1>9, PassingValid, Zenon

\* Options with the groups and fields of the defaults.
Shaped(o) ==
    /\ o = [g \in DOMAIN Defaults |-> o[g]]
    /\ \A g \in DOMAIN Defaults : o[g] = [f \in DOMAIN Defaults[g] |-> o[g][f]]

Sound(o) == Shaped(o) /\ Validate(o) = "ok"

\* The defaults are sound.
LEMMA DefaultsSound == Sound(Defaults)
<1>1. Defaults = [g \in DOMAIN Defaults |-> Defaults[g]]
  BY DEF Defaults
<1>2. ASSUME NEW g \in DOMAIN Defaults
      PROVE  Defaults[g] = [f \in DOMAIN Defaults[g] |-> Defaults[g][f]]
  <2>1. g \in {"queueing", "blocking", "executor", "downstream", "confidence", "evidence", "route", "temporal"}
    BY DEF Defaults
  <2>2. CASE g = "queueing"
    BY <2>2 DEF Defaults
  <2>3. CASE g = "blocking"
    BY <2>3 DEF Defaults
  <2>4. CASE g = "executor"
    BY <2>4 DEF Defaults
  <2>5. CASE g = "downstream"
    BY <2>5 DEF Defaults
  <2>6. CASE g = "confidence"
    BY <2>6 DEF Defaults
  <2>7. CASE g = "evidence"
    BY <2>7 DEF Defaults
  <2>8. CASE g = "route"
    BY <2>8 DEF Defaults
  <2>9. CASE g = "temporal"
    BY <2>9 DEF Defaults
  <2>10. QED
    BY <2>1, <2>2, <2>3, <2>4, <2>5, <2>6, <2>7, <2>8, <2>9
<1>3. QED
  BY <1>1, <1>2, DefaultsValid DEF Sound, Shaped

\* A path names a group and a field of it.
LEMMA PathParts ==
    ASSUME NEW p
    PROVE  p \in Paths <=> \E g \in DOMAIN Defaults : \E f \in DOMAIN Defaults[g] : p = <<g, f>>
BY DEF Paths

\* Setting an option keeps the shape.
LEMMA SetShaped ==
    ASSUME NEW o, Shaped(o), NEW p \in Paths, NEW v
    PROVE  Shaped(Set(o, p, v))
<1>1. PICK g \in DOMAIN Defaults : \E f \in DOMAIN Defaults[g] : p = <<g, f>>
  BY PathParts
<1>2. PICK f \in DOMAIN Defaults[g] : p = <<g, f>>
  BY <1>1
<1> DEFINE D == DOMAIN Defaults
           new == [o[g] EXCEPT ![f] = v]
           u == Set(o, p, v)
<1>3. u = [o EXCEPT ![g] = new]
  BY <1>2 DEF Set
<1>4. new = [h \in DOMAIN Defaults[g] |-> new[h]]
  BY DEF Shaped
<1> HIDE DEF new, u
<1>5. u = [h \in D |-> u[h]] /\ u[g] = new /\ \A h \in D \ {g} : u[h] = o[h]
  BY <1>3 DEF Shaped
<1>6. ASSUME NEW h \in D
      PROVE  u[h] = [k \in DOMAIN Defaults[h] |-> u[h][k]]
  <2>1. CASE h = g
    BY <1>4, <1>5, <2>1
  <2>2. CASE h # g
    BY <1>5, <2>2 DEF Shaped
  <2>3. QED
    BY <2>1, <2>2
<1>7. QED
  BY <1>5, <1>6 DEF Shaped, u

\* An override that succeeds keeps the options sound.
LEMMA OverrideSound ==
    ASSUME NEW o, Sound(o), NEW raw, ApplyOverride(o, raw).error = "none"
    PROVE  /\ Sound(ApplyOverride(o, raw).options)
           /\ ApplyOverride(o, raw) = Ok(ApplyOverride(o, raw).options)
<1> DEFINE r == ApplyOverride(o, raw)
           candidate == Set(o, raw.path, raw.value)
<1>1. \A kind : Err(kind, o).error = kind
  BY DEF Err
<1>2. raw.syntax /\ raw.path \in Paths /\ r = IF Validate(candidate) = "ok" THEN Ok(candidate) ELSE Err("invalid", o)
  <2>1. CASE ~raw.syntax
    BY <1>1, <2>1 DEF ApplyOverride
  <2>2. CASE raw.syntax /\ raw.path \notin Paths
    BY <1>1, <2>2 DEF ApplyOverride
  <2>3. CASE raw.syntax /\ raw.path \in Paths /\ ~Accepts(raw.path, raw.kind)
    BY <1>1, <2>3 DEF ApplyOverride
  <2>4. CASE raw.syntax /\ raw.path \in Paths /\ Accepts(raw.path, raw.kind)
    BY <2>4 DEF ApplyOverride
  <2>5. QED
    BY <2>1, <2>2, <2>3, <2>4
<1>3. Validate(candidate) = "ok" /\ r = Ok(candidate)
  BY <1>1, <1>2
<1>4. Sound(candidate)
  BY <1>2, <1>3, SetShaped DEF Sound
<1> HIDE DEF r, candidate
<1>5. QED
  BY <1>3, <1>4 DEF Ok, r

\* What the overrides lead to is sound, or an error.
LEMMA LoopSound ==
    ASSUME NEW o, Sound(o), NEW raws, Len(raws) \in Nat
    PROVE  LET r == Applied(o, raws)[Len(raws)]
           IN  r.error = "none" => Sound(r.options) /\ r = Ok(r.options)
<1> DEFINE N == Len(raws)
           f == Applied(o, raws)
           Fine(r) == r.error = "none" => Sound(r.options) /\ r = Ok(r.options)
           F == {m \in 0..N : ~Fine(f[m])}
<1>1. f = [n \in 0..N |-> IF n = 0 THEN Ok(o) ELSE Round(f[n - 1], raws[n])]
  BY LoopResults DEF Results
<1> HIDE DEF f, N
<1>2. Fine(Ok(o))
  BY DEF Ok
<1>3. ASSUME NEW r, Fine(r), NEW raw
      PROVE  Fine(Round(r, raw))
  <2>1. CASE r.error # "none"
    BY <1>3, <2>1 DEF Round
  <2>2. CASE r.error = "none"
    BY <1>3, <2>2, OverrideSound DEF Round
  <2>3. QED
    BY <2>1, <2>2
<1> HIDE DEF Fine
<1>4. N \in Nat
  BY DEF N
<1>5. ASSUME NEW k \in F
      PROVE  k # 0 /\ k - 1 \in F
  <2>1. k \in 0..N /\ ~Fine(f[k])
    OBVIOUS
  <2>2. k # 0
    BY <1>1, <1>2, <1>4, <2>1
  <2>3. f[k] = Round(f[k - 1], raws[k]) /\ k - 1 \in 0..N
    BY <1>1, <1>4, <2>1, <2>2
  <2>4. ~Fine(f[k - 1])
    BY <1>3, <2>1, <2>3
  <2>5. QED
    BY <2>2, <2>3, <2>4
<1>6. F \in SUBSET (0..N)
  OBVIOUS
<1>7. N \notin F
  <2> HIDE DEF F
  <2>1. QED
    BY <1>4, <1>5, <1>6, NoFirstFailure
<1>8. Fine(f[N])
  BY <1>4, <1>7
<1>9. QED
  BY <1>8, Zenon DEF Fine, f, N

\* The kind that a value is written with is one that its option accepts.
LEMMA KindAccepted ==
    ASSUME NEW p
    PROVE  Accepts(p, KindOf(p)) /\ KindOf(p) # "blank_list"
<1>1. CASE p \in BoolPaths
  BY <1>1 DEF Accepts, KindOf
<1>2. CASE p \notin BoolPaths /\ p \in ListPaths
  BY <1>2 DEF Accepts, KindOf
<1>3. CASE p \notin BoolPaths /\ p \notin ListPaths /\ p \in U8Paths
  BY <1>3 DEF Accepts, KindOf
<1>4. CASE p \notin BoolPaths /\ p \notin ListPaths /\ p \notin U8Paths
  BY <1>4 DEF Accepts, KindOf
<1>5. QED
  BY <1>1, <1>2, <1>3, <1>4

\* The summary of sound options, read as TOML, gives them back.
LEMMA SummaryReplays ==
    ASSUME NEW o, Sound(o)
    PROVE  MergeToml(Defaults, Document(NonDefaultOverrides(o))) = Ok(o)
<1> DEFINE fields == NonDefaultOverrides(o)
           doc == Document(fields)
           given == {u.path : u \in fields}
           Value(p) == (CHOOSE u \in fields : u.path = p).value
           merged == Updates(Defaults, fields)
<1>1. \A u \in fields : /\ u.path \in Paths /\ u.kind = KindOf(u.path)
                        /\ u.value = o[u.path[1]][u.path[2]]
  BY DEF NonDefaultOverrides
<1>2. ASSUME NEW p \in Paths, o[p[1]][p[2]] # Defaults[p[1]][p[2]]
      PROVE  p \in given
  <2> DEFINE u == [syntax |-> TRUE, path |-> p, kind |-> KindOf(p), value |-> o[p[1]][p[2]]]
  <2>1. u \in fields
    BY <1>2 DEF NonDefaultOverrides
  <2>2. u.path = p
    OBVIOUS
  <2> HIDE DEF u, fields
  <2>3. QED
    BY <2>1, <2>2
<1>3. doc.parses = TRUE /\ doc.table = TRUE /\ doc.version = "supported" /\ doc.fields = fields
  BY DEF Document
<1> HIDE DEF fields, doc
<1>4. Decodes(fields)
  BY <1>1, KindAccepted DEF Decodes
<1>5. ASSUME NEW g \in DOMAIN Defaults, NEW f \in DOMAIN Defaults[g]
      PROVE  (IF <<g, f>> \in given THEN Value(<<g, f>>) ELSE Defaults[g][f]) = o[g][f]
  <2> DEFINE p == <<g, f>>
  <2>1. p \in Paths /\ p[1] = g /\ p[2] = f
    BY PathParts
  <2> HIDE DEF p
  <2>2. CASE p \in given
    <3>1. PICK u \in fields : u.path = p
      BY <2>2
    <3>2. (CHOOSE w \in fields : w.path = p) \in fields /\ (CHOOSE w \in fields : w.path = p).path = p
      BY <3>1
    <3>3. Value(p) = o[g][f]
      BY <1>1, <2>1, <3>2
    <3>4. QED
      BY <2>2, <3>3 DEF p
  <2>3. CASE p \notin given
    <3>1. o[g][f] = Defaults[g][f]
      BY <1>2, <2>1, <2>3
    <3>2. QED
      BY <2>3, <3>1 DEF p
  <2>4. QED
    BY <2>2, <2>3
<1>6. merged = [g \in DOMAIN Defaults |-> [f \in DOMAIN Defaults[g] |->
                   IF <<g, f>> \in given THEN Value(<<g, f>>) ELSE Defaults[g][f]]]
  BY Zenon DEF Updates
<1> HIDE DEF given, Value, merged
<1>7. ASSUME NEW g \in DOMAIN Defaults PROVE merged[g] = o[g]
  <2>1. o[g] = [f \in DOMAIN Defaults[g] |-> o[g][f]]
    BY DEF Sound, Shaped
  <2>2. merged[g] = [f \in DOMAIN Defaults[g] |->
                   IF <<g, f>> \in given THEN Value(<<g, f>>) ELSE Defaults[g][f]]
    BY <1>6
  <2>3. QED
    BY <1>5, <2>1, <2>2
<1>8. merged = o
  BY <1>6, <1>7 DEF Sound, Shaped
<1>9. QED
  BY <1>3, <1>4, <1>8 DEF MergeToml, Sound, merged, doc, fields

\* What a TOML document leads to is sound, or an error.
LEMMA TomlSound ==
    ASSUME NEW doc, MergeToml(Defaults, doc).error = "none"
    PROVE  /\ Sound(MergeToml(Defaults, doc).options)
           /\ MergeToml(Defaults, doc) = Ok(MergeToml(Defaults, doc).options)
<1> DEFINE r == MergeToml(Defaults, doc)
           fields == doc.fields
           merged == Updates(Defaults, fields)
           given == {u.path : u \in fields}
           Value(p) == (CHOOSE u \in fields : u.path = p).value
<1>1. \A kind, o : Err(kind, o).error = kind
  BY DEF Err
<1>2. Validate(merged) = "ok" /\ r = Ok(merged)
  BY <1>1 DEF MergeToml
<1>3. merged = [g \in DOMAIN Defaults |-> [f \in DOMAIN Defaults[g] |->
                   IF <<g, f>> \in given THEN Value(<<g, f>>) ELSE Defaults[g][f]]]
  BY Zenon DEF Updates
<1> HIDE DEF r, merged, given, Value
<1>4. Shaped(merged)
  <2>1. merged = [g \in DOMAIN Defaults |-> merged[g]]
    BY <1>3
  <2>2. ASSUME NEW g \in DOMAIN Defaults
        PROVE  merged[g] = [f \in DOMAIN Defaults[g] |-> merged[g][f]]
    <3>1. merged[g] = [f \in DOMAIN Defaults[g] |->
                   IF <<g, f>> \in given THEN Value(<<g, f>>) ELSE Defaults[g][f]]
      BY <1>3
    <3>2. QED
      BY <3>1
  <2>3. QED
    BY <2>1, <2>2 DEF Shaped
<1>5. QED
  BY <1>2, <1>4 DEF Sound, Ok, r

\* However options are built, they replay.
LEMMA BuiltReplay ==
    ASSUME NEW config, NEW sets, Len(sets) \in Nat
    PROVE  OptionsReplay(ApplyOverrides(Defaults, sets), BuildOptions(config, sets))
<1> DEFINE direct == ApplyOverrides(Defaults, sets)
           result == BuildOptions(config, sets)
           base == IF config = <<>> THEN Ok(Defaults) ELSE MergeToml(Defaults, config[1])
<1>1. ASSUME NEW o, Sound(o), ApplyOverrides(o, sets).error = "none"
      PROVE  /\ Sound(ApplyOverrides(o, sets).options)
             /\ ApplyOverrides(o, sets) = Ok(ApplyOverrides(o, sets).options)
  <2> DEFINE r == Applied(o, sets)[Len(sets)]
  <2>1. r.error = "none" => Sound(r.options) /\ r = Ok(r.options)
    BY <1>1, LoopSound
  <2>2. ApplyOverrides(o, sets) = IF r.error = "none" THEN r ELSE Err(r.error, o)
    BY Zenon DEF ApplyOverrides
  <2> HIDE DEF r
  <2>3. r.error = "none"
    BY <1>1, <2>2 DEF Err
  <2>4. QED
    BY <2>1, <2>2, <2>3
<1>2. direct.error # "none" => direct.options = Defaults
  <2> DEFINE r == Applied(Defaults, sets)[Len(sets)]
  <2>1. direct = IF r.error = "none" THEN r ELSE Err(r.error, Defaults)
    BY Zenon DEF ApplyOverrides
  <2> HIDE DEF r, direct
  <2>2. QED
    BY <2>1 DEF Err
<1>3. ASSUME result.error = "none"
      PROVE  Sound(result.options) /\ result = Ok(result.options)
  <2>1. result = IF base.error # "none" THEN base ELSE ApplyOverrides(base.options, sets)
    BY Zenon DEF BuildOptions
  <2>2. base.error = "none" => Sound(base.options)
    <3>1. CASE config = <<>>
      BY <3>1, DefaultsSound DEF Ok
    <3>2. CASE config # <<>>
      BY <3>2, TomlSound
    <3>3. QED
      BY <3>1, <3>2
  <2> HIDE DEF base, result
  <2>3. base.error = "none" /\ result = ApplyOverrides(base.options, sets)
    BY <1>3, <2>1
  <2>4. QED
    BY <1>1, <1>3, <2>2, <2>3
<1> HIDE DEF direct, result
<1>4. result.error = "none" =>
          /\ Validate(result.options) = "ok"
          /\ MergeToml(Defaults, Document(NonDefaultOverrides(result.options))) = result
  BY <1>3, SummaryReplays DEF Sound
<1>5. QED
  BY <1>2, <1>4, Zenon DEF OptionsReplay, direct, result

\* The inductive invariant of the options: the overrides are a sequence.
OptionInv ==
    /\ HasFamily(input)
    /\ Is("options") => {"config", "sets"} \subseteq DOMAIN input /\ IsSection(input.sets)

LEMMA OptionsOk == Spec => []OptionInv
<1>1. Init => OptionInv
  <2> SUFFICES ASSUME Init, Is("options")
               PROVE  {"config", "sets"} \subseteq DOMAIN input /\ IsSection(input.sets)
    BY InputFamilies DEF Init, OptionInv
  <2>1. input \in OptionInputs
    BY InputFamilies DEF Init, Is
  <2>2. PICK doc \in Documents : input = [family |-> "options", config |-> doc, sets |-> <<>>]
    BY <2>1 DEF OptionInputs
  <2>3. IsSection(<<>>)
    BY DEF IsSection
  <2>4. QED
    BY <2>2, <2>3
<1>2. OptionInv /\ [Next]_input => OptionInv'
  <2> SUFFICES ASSUME OptionInv, [Next]_input PROVE OptionInv'
    OBVIOUS
  <2>1. CASE UNCHANGED input
    BY <2>1 DEF OptionInv, Is
  <2>2. CASE Next
    <3>1. HasFamily(input') /\ input'.family = input.family /\ (Is("options") => AddSet)
      BY <2>2, StepInFamily DEF OptionInv
    <3>2. CASE ~Is("options")
      BY <3>1, <3>2 DEF OptionInv, Is
    <3>3. CASE Is("options")
      <4>1. PICK raw : input' = [input EXCEPT !.sets = Append(input.sets, raw)]
        BY <3>1, <3>3 DEF AddSet
      <4>2. IsSection(Append(input.sets, raw))
        BY <3>3, AppendedSection DEF OptionInv
      <4>3. {"config", "sets"} \subseteq DOMAIN input' /\ input'.sets = Append(input.sets, raw)
        BY <3>3, <4>1 DEF OptionInv, HasFamily
      <4>4. QED
        BY <3>1, <4>2, <4>3 DEF OptionInv
    <3>4. QED
      BY <3>2, <3>3
  <2>3. QED
    BY <2>1, <2>2
<1>3. QED
  BY <1>1, <1>2, PTL DEF Spec

----------------------------------------------------------------------------
(* A controller's configuration.                                           *)

ConfigPaths == {Absent, <<1>>, <<2>>}

\* What a builder, a decoded file and a document have.
BuilderFields == {"service", "config", "enabled", "output", "mode", "limits", "strict", "sampler", "policy"}
FileFields == BuilderFields \ {"config"}
DocFields == {"readable", "toml", "keys", "no_enabled", "fields"}

BuilderOk(b) ==
    /\ b = [f \in DOMAIN b |-> b[f]] /\ BuilderFields \subseteq DOMAIN b
    /\ b.config \in ConfigPaths

DocOk(doc) ==
    /\ doc = [f \in DOMAIN doc |-> doc[f]] /\ DocFields \subseteq DOMAIN doc
    /\ doc.fields = [f \in DOMAIN doc.fields |-> doc.fields[f]] /\ FileFields \subseteq DOMAIN doc.fields

\* A template that validate_public_template accepts.
TemplateOk(t) ==
    /\ t = [f \in DOMAIN t |-> t[f]] /\ {"service", "config", "output"} \subseteq DOMAIN t
    /\ t.config \in ConfigPaths /\ TemplateError(t) = "none"

ControllerOk(c) ==
    /\ c = [f \in DOMAIN c |-> c[f]]
    /\ {"base", "template", "next", "active", "shutdown"} \subseteq DOMAIN c
    /\ BuilderOk(c.base) /\ TemplateOk(c.template) /\ c.next \in Nat \ {0}

\* The files that the operator edits are documents.
LEMMA FilesOk == \A doc \in Files : DocOk(doc)
<1> DEFINE Filled(fields) == fields = [f \in DOMAIN fields |-> fields[f]] /\ FileFields \subseteq DOMAIN fields
<1>1. \A fields : Filled(fields) => DocOk(File(fields))
  BY DEF File, DocOk, DocFields
<1>2. Filled(Omitted)
  BY DEF Omitted, FileFields, BuilderFields
<1>3. \A v : Filled([Omitted EXCEPT !.service = v])
  BY DEF Omitted, FileFields, BuilderFields
<1>4. \A v, w : Filled([Omitted EXCEPT !.output = v, !.mode = w])
  BY DEF Omitted, FileFields, BuilderFields
<1>5. \A v, w : Filled([Omitted EXCEPT !.output = v, !.enabled = w])
  BY DEF Omitted, FileFields, BuilderFields
<1>6. DocOk(FullFile)
  <2>1. ASSUME NEW a1, NEW a2, NEW a3, NEW a4, NEW a5, NEW a6, NEW a7, NEW a8
        PROVE  Filled([service |-> a1, enabled |-> a2, output |-> a3, mode |-> a4, limits |-> a5,
                       strict |-> a6, sampler |-> a7, policy |-> a8])
    BY DEF FileFields, BuilderFields
  <2> HIDE DEF Filled
  <2>2. QED
    BY <1>1, <2>1, Zenon DEF FullFile
<1> HIDE DEF Filled
<1>7. ASSUME NEW v
      PROVE  /\ DocOk([FullFile EXCEPT !.readable = v]) /\ DocOk([FullFile EXCEPT !.toml = v])
             /\ DocOk([FullFile EXCEPT !.keys = v]) /\ DocOk([FullFile EXCEPT !.no_enabled = v])
  <2> DEFINE full == FullFile
  <2>1. DocOk(full)
    BY <1>6
  <2> HIDE DEF full
  <2>2. /\ DocOk([full EXCEPT !.readable = v]) /\ DocOk([full EXCEPT !.toml = v])
        /\ DocOk([full EXCEPT !.keys = v]) /\ DocOk([full EXCEPT !.no_enabled = v])
    BY <2>1 DEF DocOk, DocFields
  <2>3. QED
    BY <2>2 DEF full
<1>8. ASSUME NEW v, NEW w
      PROVE  /\ DocOk(File(Omitted)) /\ DocOk(File([Omitted EXCEPT !.service = v]))
             /\ DocOk(File([Omitted EXCEPT !.output = v, !.mode = w]))
             /\ DocOk(File([Omitted EXCEPT !.output = v, !.enabled = w]))
  BY <1>1, <1>2, <1>3, <1>4, <1>5, Zenon
<1>9. ASSUME NEW doc \in Files PROVE DocOk(doc)
  <2>1. \/ doc = FullFile \/ doc = File(Omitted)
        \/ \E v : \/ doc = File([Omitted EXCEPT !.service = v])
                  \/ doc = [FullFile EXCEPT !.readable = v] \/ doc = [FullFile EXCEPT !.toml = v]
                  \/ doc = [FullFile EXCEPT !.keys = v] \/ doc = [FullFile EXCEPT !.no_enabled = v]
        \/ \E v, w : \/ doc = File([Omitted EXCEPT !.output = v, !.mode = w])
                     \/ doc = File([Omitted EXCEPT !.output = v, !.enabled = w])
    BY <1>9, Zenon DEF Files
  <2>2. CASE \E v : \/ doc = File([Omitted EXCEPT !.service = v])
                     \/ doc = [FullFile EXCEPT !.readable = v] \/ doc = [FullFile EXCEPT !.toml = v]
                     \/ doc = [FullFile EXCEPT !.keys = v] \/ doc = [FullFile EXCEPT !.no_enabled = v]
    <3>1. PICK v : \/ doc = File([Omitted EXCEPT !.service = v])
                   \/ doc = [FullFile EXCEPT !.readable = v] \/ doc = [FullFile EXCEPT !.toml = v]
                   \/ doc = [FullFile EXCEPT !.keys = v] \/ doc = [FullFile EXCEPT !.no_enabled = v]
      BY <2>2, Zenon
    <3>2. /\ DocOk([FullFile EXCEPT !.readable = v]) /\ DocOk([FullFile EXCEPT !.toml = v])
          /\ DocOk([FullFile EXCEPT !.keys = v]) /\ DocOk([FullFile EXCEPT !.no_enabled = v])
      BY <1>7, Zenon
    <3>3. DocOk(File([Omitted EXCEPT !.service = v]))
      BY <1>8, Zenon
    <3>4. QED
      BY <3>1, <3>2, <3>3, Zenon
  <2>3. CASE \E v, w : \/ doc = File([Omitted EXCEPT !.output = v, !.mode = w])
                        \/ doc = File([Omitted EXCEPT !.output = v, !.enabled = w])
    BY <1>8, <2>3, Zenon
  <2>4. DocOk(File(Omitted))
    BY <1>8, Zenon
  <2>5. QED
    BY <1>6, <2>1, <2>2, <2>3, <2>4, Zenon
<1>10. QED
  BY <1>9

\* The builders that a controller is made from.
LEMMA BuildersOk == \A b \in Builders : BuilderOk(b)
<1> SUFFICES ASSUME NEW b \in Builders PROVE BuilderOk(b)
  OBVIOUS
<1>1. PICK output, config, enabled : config \in {Absent, <<1>>} /\ b = Configured(output, config, enabled)
  BY DEF Builders
<1>2. BuilderFields \subseteq DOMAIN NewBuilder("svc")
  BY DEF NewBuilder, BuilderFields
<1>3. b = [f \in DOMAIN b |-> b[f]] /\ DOMAIN b = DOMAIN NewBuilder("svc") /\ b.config = config
  BY <1>1, <1>2 DEF BuilderFields, Configured
<1>4. QED
  BY <1>1, <1>2, <1>3 DEF BuilderOk, ConfigPaths

\* What is resolved is a sound template, with the path it had.
LEMMA ResolvedOk ==
    ASSUME NEW base, NEW current, NEW loaded, Resolve(base, current, loaded).error = "none",
           NEW config \in ConfigPaths,
           config = IF current = <<>> THEN base.config ELSE current[1].config
    PROVE  /\ TemplateOk(Resolve(base, current, loaded).template)
           /\ Resolve(base, current, loaded).template.config = config
<1> DEFINE service == IF current = <<>> THEN base.service ELSE current[1].service
           output == Given(base.output, EmptyPath)
           template ==
               IF loaded = <<>> THEN Template(service, config, [base EXCEPT !.output = output])
               ELSE Template(Given(loaded[1].service, service), config,
                             Activation(loaded[1], output, base.mode))
           r == Resolve(base, current, loaded)
<1>1. r = IF TemplateError(template) # "none" THEN Refused(TemplateError(template))
          ELSE [error |-> "none", template |-> template]
  BY Zenon DEF Resolve
<1>2. \E s, a : template = Template(s, config, a)
  OBVIOUS
<1> HIDE DEF template, r
<1>3. TemplateError(template) = "none" /\ r.template = template
  BY <1>1 DEF Refused, r
<1>4. template = [f \in DOMAIN template |-> template[f]] /\ template.config = config
      /\ {"service", "config", "output"} \subseteq DOMAIN template
  BY <1>2 DEF Template
<1>5. QED
  BY <1>3, <1>4 DEF TemplateOk, r

\* The artifacts so far: as many as there were generations, each with the
\* number of its generation in its name.
PathsOk(next, artifacts, paths) ==
    /\ IsFiniteSet(paths) /\ artifacts \subseteq paths
    /\ \A p \in paths : p.stem[2] \in 1..(next - 1)
    /\ Cardinality(paths) = next - 1

\* Steps that begin no generation add no artifact.
LEMMA PathsKept ==
    ASSUME NEW next, NEW old, NEW paths, PathsOk(next, old, paths), NEW artifacts, artifacts \subseteq old
    PROVE  PathsOk(next, artifacts, paths \cup artifacts)
<1>1. artifacts \subseteq paths /\ paths \cup artifacts = paths
  BY DEF PathsOk
<1>2. QED
  BY <1>1 DEF PathsOk

\* enable() gives a sound controller and at most one artifact, a new one.
LEMMA EnabledOk ==
    ASSUME NEW c, ControllerOk(c), NEW paths, PathsOk(c.next, Artifacts(c), paths), NEW inRuntime
    PROVE  LET d == EnableConfigured(c, inRuntime)
           IN  ControllerOk(d) /\ PathsOk(d.next, Artifacts(d), paths \cup Artifacts(d))
<1> DEFINE r == EnableResult(c, inRuntime)
           d == EnableConfigured(c, inRuntime)
<1>1. d = IF r.error # "none" THEN c ELSE [c EXCEPT !.active = <<r>>, !.next = @ + 1]
  BY Zenon DEF EnableConfigured
<1>2. r.error = "none" => r.path = ArtifactPath(c.template.output, c.next)
  BY DEF EnableResult, ConstructGeneration, Refused
<1> HIDE DEF r, d
<1>3. CASE r.error # "none"
  BY <1>1, <1>3, PathsKept DEF d
<1>4. CASE r.error = "none"
  <2>1. d = [c EXCEPT !.active = <<r>>, !.next = c.next + 1]
    BY <1>1, <1>4
  <2>2. d = [f \in DOMAIN d |-> d[f]] /\ DOMAIN d = DOMAIN c
    BY <2>1
  <2>3. /\ d.base = c.base /\ d.template = c.template /\ d.next = c.next + 1 /\ d.active = <<r>>
    BY <2>1 DEF ControllerOk
  <2>4. ControllerOk(d)
    BY <2>2, <2>3 DEF ControllerOk
  <2>5. Artifacts(d) = {r.path}
    BY <2>3 DEF Artifacts
  <2>6. r.path.stem[2] = c.next
    <3>1. ASSUME NEW output, NEW g PROVE ArtifactPath(output, g).stem = <<output.stem, g>>
      BY DEF ArtifactPath
    <3>2. r.path.stem = <<c.template.output.stem, c.next>>
      BY <1>2, <1>4, <3>1
    <3>3. QED
      BY <3>2
  <2> DEFINE p == r.path
             n == c.next
  <2>7. n \in Nat \ {0}
    BY DEF ControllerOk
  <2>8. PathsOk(n, Artifacts(c), paths)
    OBVIOUS
  <2>9. p.stem[2] = n
    BY <2>6
  <2> HIDE DEF n, p
  <2>10. p \notin paths
    BY <2>7, <2>8, <2>9 DEF PathsOk
  <2>11. IsFiniteSet(paths \cup {p}) /\ Cardinality(paths \cup {p}) = (n + 1) - 1
    BY <2>7, <2>8, <2>10, FS_AddElement DEF PathsOk
  <2>12. \A q \in paths \cup {p} : q.stem[2] \in 1..((n + 1) - 1)
    BY <2>7, <2>8, <2>9 DEF PathsOk
  <2>13. PathsOk(n + 1, {p}, paths \cup {p})
    BY <2>11, <2>12 DEF PathsOk
  <2>14. QED
    BY <2>3, <2>4, <2>5, <2>13 DEF n, p, d
<1>5. QED
  BY <1>3, <1>4

\* A controller starts sound, and with the artifacts of its generations.
LEMMA BuiltOk ==
    ASSUME NEW b, BuilderOk(b), NEW doc, NEW inRuntime,
           BuildController(b, doc, inRuntime).error = "none"
    PROVE  LET c == BuildController(b, doc, inRuntime).ctl
           IN  ControllerOk(c) /\ PathsOk(c.next, Artifacts(c), Artifacts(c))
<1> DEFINE fileError == IF b.config = Absent THEN "none" ELSE FileError(doc)
           loaded == IF b.config = Absent \/ fileError # "none" THEN <<>> ELSE <<doc.fields>>
           resolved == Resolve(b, <<>>, loaded)
           enabled == IF loaded = <<>> THEN b.enabled ELSE Given(loaded[1].enabled, b.enabled)
           ctl == [base |-> b, template |-> resolved.template, next |-> 1, active |-> <<>>, shutdown |-> FALSE]
           built == BuildController(b, doc, inRuntime)
<1>1. built = IF fileError # "none" THEN Refused("ConfigLoad")
              ELSE IF resolved.error # "none" THEN resolved
              ELSE IF enabled /\ EnableResult(ctl, inRuntime).error # "none" THEN Refused("InitialEnable")
              ELSE [error |-> "none", ctl |-> IF enabled THEN EnableConfigured(ctl, inRuntime) ELSE ctl]
  BY Zenon DEF BuildController
<1>2. ctl = [f \in DOMAIN ctl |-> ctl[f]] /\ {"base", "template", "next", "active", "shutdown"} \subseteq DOMAIN ctl
      /\ ctl.base = b /\ ctl.template = resolved.template /\ ctl.next = 1 /\ ctl.active = <<>>
  OBVIOUS
<1> HIDE DEF fileError, enabled, ctl, built, resolved
<1>3. resolved.error = "none" /\ \/ built.ctl = ctl
                                 \/ built.ctl = EnableConfigured(ctl, inRuntime)
  BY <1>1 DEF Refused, built
<1>4. TemplateOk(resolved.template)
  <2>1. b.config \in ConfigPaths
    BY DEF BuilderOk
  <2>2. QED
    BY <1>3, <2>1, ResolvedOk DEF resolved
<1>5. ControllerOk(ctl)
  BY <1>2, <1>4 DEF ControllerOk
<1>6. Artifacts(ctl) = {}
  BY <1>2 DEF Artifacts
<1>7. PathsOk(ctl.next, Artifacts(ctl), {})
  BY <1>2, <1>6, FS_EmptySet DEF PathsOk
<1>8. CASE built.ctl = ctl
  BY <1>5, <1>6, <1>7, <1>8 DEF built
<1>9. CASE built.ctl = EnableConfigured(ctl, inRuntime)
  <2> DEFINE d == EnableConfigured(ctl, inRuntime)
  <2>1. ControllerOk(d) /\ PathsOk(d.next, Artifacts(d), {} \cup Artifacts(d))
    BY <1>5, <1>7, EnabledOk
  <2>2. {} \cup Artifacts(d) = Artifacts(d)
    OBVIOUS
  <2>3. QED
    BY <1>9, <2>1, <2>2 DEF built
<1>10. QED
  BY <1>3, <1>8, <1>9

\* A resolution with a file, spelled out.
LEMMA ResolvedFile ==
    ASSUME NEW base, NEW current, NEW fields, NEW service, NEW config,
           service = IF current = <<>> THEN base.service ELSE current[1].service,
           config = IF current = <<>> THEN base.config ELSE current[1].config
    PROVE  LET template == Template(Given(fields.service, service), config,
                                    Activation(fields, Given(base.output, EmptyPath), base.mode))
           IN  Resolve(base, current, <<fields>>) =
                   IF TemplateError(template) # "none" THEN Refused(TemplateError(template))
                   ELSE [error |-> "none", template |-> template]
<1> DEFINE loaded == <<fields>>
           output == Given(base.output, EmptyPath)
           template == IF loaded = <<>> THEN Template(service, config, [base EXCEPT !.output = output])
                       ELSE Template(Given(loaded[1].service, service), config,
                                     Activation(loaded[1], output, base.mode))
<1>1. Resolve(base, current, loaded) =
          IF TemplateError(template) # "none" THEN Refused(TemplateError(template))
          ELSE [error |-> "none", template |-> template]
  BY Zenon DEF Resolve
<1>2. loaded # <<>> /\ loaded[1] = fields
  OBVIOUS
<1> HIDE DEF loaded
<1>3. template = Template(Given(fields.service, service), config, Activation(fields, output, base.mode))
  BY <1>2
<1> HIDE DEF template
<1>4. QED
  BY <1>1, <1>3, Zenon DEF loaded

\* A reload of a file resolves to what a new controller's build would.
LEMMA FreshReplays ==
    ASSUME NEW base, BuilderOk(base), NEW T, TemplateOk(T), T.config # Absent, NEW doc, DocOk(doc),
           NEW r, r = IF FileError(doc) # "none" THEN Refused("Load")
                      ELSE Resolve(base, <<T>>, <<doc.fields>>),
           NEW t, t = (IF r.error # "none" THEN T ELSE r.template), t.config = T.config
    PROVE  ReloadReplays(t, T, doc, LoadConfig(doc), FreshController(base, t, T, doc))
<1> DEFINE b == [base EXCEPT !.config = t.config, !.service = T.service]
           new == [doc EXCEPT !.fields.enabled = <<FALSE>>]
           fields == doc.fields
           newFields == new.fields
           output == Given(base.output, EmptyPath)
           fresh == FreshController(base, t, T, doc)
           loaded == LoadConfig(doc)
<1>1. b.config = T.config /\ b.service = T.service /\ b.output = base.output /\ b.mode = base.mode
  BY DEF BuilderOk, BuilderFields
<1>2. /\ new.readable = doc.readable /\ new.toml = doc.toml /\ new.keys = doc.keys
      /\ new.no_enabled = doc.no_enabled
      /\ newFields = [fields EXCEPT !.enabled = <<FALSE>>]
  BY DEF DocOk, DocFields
<1>3. /\ newFields.service = fields.service /\ newFields.output = fields.output
      /\ newFields.mode = fields.mode /\ newFields.limits = fields.limits
      /\ newFields.strict = fields.strict /\ newFields.sampler = fields.sampler
      /\ newFields.policy = fields.policy /\ newFields.enabled = <<FALSE>>
  <2> HIDE DEF newFields, fields
  <2>1. fields = [f \in DOMAIN fields |-> fields[f]] /\ FileFields \subseteq DOMAIN fields
    BY DEF DocOk, fields
  <2>2. QED
    BY <1>2, <2>1 DEF FileFields, BuilderFields
<1>4. fresh = BuildController(b, new, FALSE)
  BY Zenon DEF FreshController
<1> HIDE DEF b, new, fields, newFields, output, fresh, loaded
<1>5. FileError(new) = FileError(doc)
  BY <1>2 DEF FileError
<1>6. \A m : Activation(newFields, output, m) = Activation(fields, output, m)
  BY <1>3 DEF Activation
<1> DEFINE template == Template(Given(fields.service, T.service), T.config,
                                Activation(fields, output, base.mode))
           resolved == IF TemplateError(template) # "none" THEN Refused(TemplateError(template))
                       ELSE [error |-> "none", template |-> template]
<1>7. Resolve(base, <<T>>, <<fields>>) = resolved
  <2>1. <<T>> # <<>> /\ <<T>>[1] = T
    OBVIOUS
  <2>2. T.service = (IF <<T>> = <<>> THEN base.service ELSE <<T>>[1].service)
        /\ T.config = (IF <<T>> = <<>> THEN base.config ELSE <<T>>[1].config)
    BY <2>1
  <2>3. QED
    BY <2>2, ResolvedFile, Zenon DEF output
<1>8. Resolve(b, <<>>, <<newFields>>) = resolved
  <2>1. T.service = (IF <<>> = <<>> THEN b.service ELSE <<>>[1].service)
        /\ T.config = (IF <<>> = <<>> THEN b.config ELSE <<>>[1].config)
    BY <1>1
  <2> DEFINE other == Template(Given(newFields.service, T.service), T.config,
                               Activation(newFields, Given(b.output, EmptyPath), b.mode))
  <2>2. Resolve(b, <<>>, <<newFields>>) =
            IF TemplateError(other) # "none" THEN Refused(TemplateError(other))
            ELSE [error |-> "none", template |-> other]
    BY <2>1, ResolvedFile, Zenon
  <2>3. other = template
    <3>1. Given(b.output, EmptyPath) = output /\ b.mode = base.mode
      BY <1>1 DEF output
    <3>2. QED
      BY <1>3, <1>6, <3>1
  <2> HIDE DEF other, template
  <2>4. QED
    BY <2>2, <2>3, Zenon
<1> HIDE DEF template
<1>9. resolved.error = "none" => resolved.template = template
  BY DEF Refused
<1>10. r = IF FileError(doc) # "none" THEN Refused("Load") ELSE resolved
  BY <1>7 DEF fields
<1>11. CASE FileError(doc) # "none"
  <2>1. t = T
    BY <1>10, <1>11 DEF Refused
  <2>2. fresh = Refused("ConfigLoad")
    BY <1>1, <1>4, <1>5, <1>11 DEF BuildController
  <2>3. fresh.error # "none"
    BY <2>2 DEF Refused
  <2>4. QED
    BY <2>1, <2>3, Zenon DEF ReloadReplays, fresh
<1>12. CASE FileError(doc) = "none"
  <2>1. t = IF resolved.error # "none" THEN T ELSE resolved.template
    BY <1>10, <1>12
  <2> DEFINE ctl == [base |-> b, template |-> resolved.template, next |-> 1, active |-> <<>>,
                     shutdown |-> FALSE]
  <2>2. fresh = IF resolved.error # "none" THEN resolved ELSE [error |-> "none", ctl |-> ctl]
    <3> DEFINE fileError == IF b.config = Absent THEN "none" ELSE FileError(new)
               file == IF b.config = Absent \/ fileError # "none" THEN <<>> ELSE <<new.fields>>
               found == Resolve(b, <<>>, file)
               enabled == IF file = <<>> THEN b.enabled ELSE Given(file[1].enabled, b.enabled)
               c == [base |-> b, template |-> found.template, next |-> 1, active |-> <<>>, shutdown |-> FALSE]
    <3>1. fresh = IF fileError # "none" THEN Refused("ConfigLoad")
                  ELSE IF found.error # "none" THEN found
                  ELSE IF enabled /\ EnableResult(c, FALSE).error # "none" THEN Refused("InitialEnable")
                  ELSE [error |-> "none", ctl |-> IF enabled THEN EnableConfigured(c, FALSE) ELSE c]
      BY <1>4, Zenon DEF BuildController
    <3>2. fileError = "none"
      BY <1>5, <1>12
    <3>3. file = <<newFields>>
      BY <1>1, <3>2 DEF newFields
    <3> HIDE DEF fileError, file
    <3>4. enabled = FALSE
      <4>1. file # <<>> /\ file[1] = newFields
        BY <3>3
      <4>2. Given(newFields.enabled, b.enabled) = FALSE
        BY <1>3 DEF Given, Absent
      <4>3. QED
        BY <4>1, <4>2
    <3>5. found = resolved
      BY <1>8, <3>3
    <3> HIDE DEF enabled, found, resolved
    <3>6. QED
      BY <3>1, <3>2, <3>4, <3>5
  <2> HIDE DEF resolved
  <2>3. CASE resolved.error # "none"
    <3>1. t = T /\ fresh.error # "none"
      BY <2>1, <2>2, <2>3
    <3>2. QED
      BY <3>1, Zenon DEF ReloadReplays, fresh
  <2>4. CASE resolved.error = "none"
    <3>1. t = template /\ fresh.error = "none" /\ fresh.ctl.template = template
      BY <1>9, <2>1, <2>2, <2>4
    <3>2. ASSUME loaded.error = "none", doc.fields.mode # Absent
          PROVE  \A key \in DOMAIN loaded.activation : t[key] = loaded.activation[key]
      <4> DEFINE act == Activation(fields, EmptyPath, "light")
                 mine == Activation(fields, output, base.mode)
      <4>1. fields.output # Absent /\ loaded.activation = act
        BY <3>2 DEF LoadConfig, Refused, loaded, fields
      <4>2. DOMAIN act = {"output", "mode", "limits", "strict", "sampler", "policy"} /\ mine = act
        BY <3>2, <4>1 DEF Activation, Given, fields
      <4> HIDE DEF act, mine
      <4>3. \A key \in DOMAIN act : template[key] = mine[key]
        BY <4>2 DEF template, Template, mine
      <4>4. QED
        BY <3>1, <4>1, <4>2, <4>3
    <3>3. QED
      BY <3>1, <3>2, Zenon DEF ReloadReplays, fresh, loaded
  <2>5. QED
    BY <2>3, <2>4
<1>13. QED
  BY <1>11, <1>12

\* reload_config changes the template as a controller that is built from the
\* file now would have it, or not at all.
LEMMA ReloadedOk ==
    ASSUME NEW c, ControllerOk(c), NEW files, \A i \in {1, 2} : DocOk(files[i])
    PROVE  LET d == ReloadConfig(c, files)
               file == files[d.template.config[1]]
           IN  /\ ControllerOk(d) /\ d.next = c.next /\ d.active = c.active
               /\ ~d.shutdown /\ d.template.config # Absent =>
                      ReloadReplays(d.template, c.template, file, LoadConfig(file),
                                    FreshController(d.base, d.template, c.template, file))
<1> DEFINE T == c.template
           base == c.base
           doc == files[T.config[1]]
           r == ReloadConfigResult(c, files)
           d == ReloadConfig(c, files)
           file == files[d.template.config[1]]
<1>1. d = IF r.error # "none" THEN c ELSE [c EXCEPT !.template = r.template]
  BY Zenon DEF ReloadConfig
<1>2. r.error = "none" => /\ T.config # Absent /\ FileError(doc) = "none"
                          /\ r = Resolve(base, <<T>>, <<doc.fields>>)
  BY DEF ReloadConfigResult, Refused
<1>3. T.config \in ConfigPaths /\ TemplateOk(T) /\ BuilderOk(base)
  BY DEF ControllerOk, TemplateOk
<1>4. r.error = "none" => TemplateOk(r.template) /\ r.template.config = T.config
  <2> DEFINE R == Resolve(base, <<T>>, <<doc.fields>>)
  <2>1. ASSUME R.error = "none" PROVE TemplateOk(R.template) /\ R.template.config = T.config
    <3>1. T.config = IF <<T>> = <<>> THEN base.config ELSE <<T>>[1].config
      OBVIOUS
    <3> HIDE DEF T, base, doc
    <3>2. QED
      BY <1>3, <2>1, <3>1, ResolvedOk
  <2> HIDE DEF R, r
  <2>2. QED
    BY <1>2, <2>1 DEF R
<1> HIDE DEF r, d
<1>5. d = [f \in DOMAIN d |-> d[f]] /\ DOMAIN d = DOMAIN c
  BY <1>1 DEF ControllerOk
<1>6. /\ d.base = base /\ d.next = c.next /\ d.active = c.active /\ d.shutdown = c.shutdown
      /\ d.template = IF r.error # "none" THEN T ELSE r.template
  BY <1>1 DEF ControllerOk
<1>7. ControllerOk(d) /\ d.template.config = T.config
  BY <1>3, <1>4, <1>5, <1>6 DEF ControllerOk
<1>8. ASSUME ~c.shutdown, T.config # Absent
      PROVE  r = IF FileError(doc) # "none" THEN Refused("Load") ELSE Resolve(base, <<T>>, <<doc.fields>>)
  BY <1>8 DEF r, ReloadConfigResult
<1> HIDE DEF T, base
<1>9. ASSUME ~d.shutdown, d.template.config # Absent
      PROVE  ReloadReplays(d.template, T, doc, LoadConfig(doc), FreshController(base, d.template, T, doc))
  <2> DEFINE t == d.template
  <2>1. T.config # Absent /\ t.config = T.config /\ ~c.shutdown
    BY <1>6, <1>7, <1>9
  <2>2. DocOk(doc)
    BY <1>3, <2>1 DEF ConfigPaths
  <2> HIDE DEF doc, t
  <2>3. r = IF FileError(doc) # "none" THEN Refused("Load") ELSE Resolve(base, <<T>>, <<doc.fields>>)
    BY <1>8, <2>1, Zenon DEF doc
  <2>4. t = IF r.error # "none" THEN T ELSE r.template
    BY <1>6 DEF t
  <2>5. QED
    BY <1>3, <2>1, <2>2, <2>3, <2>4, FreshReplays DEF t
<1>10. QED
  BY <1>6, <1>7, <1>9 DEF d, T, base, doc

\* The inductive invariant of a controller's configuration.
DocsOk(files) == {1, 2} \subseteq DOMAIN files /\ \A i \in {1, 2} : DocOk(files[i])

Replayed(ctl, files, last, before) ==
    LET file == files[ctl.template.config[1]]
    IN  last = "config" /\ ~ctl.shutdown /\ ctl.template.config # Absent =>
            ReloadReplays(ctl.template, before, file, LoadConfig(file),
                          FreshController(ctl.base, ctl.template, before, file))

TemplateState(ctl, files, last, before, paths) ==
    /\ ControllerOk(ctl) /\ DocsOk(files) /\ PathsOk(ctl.next, Artifacts(ctl), paths)
    /\ Replayed(ctl, files, last, before)

TemplateInv ==
    /\ HasFamily(input)
    /\ Is("template") =>
           /\ {"ctl", "files", "last", "steps", "before", "paths"} \subseteq DOMAIN input
           /\ TemplateState(input.ctl, input.files, input.last, input.before, input.paths)

\* It says what the property does.
LEMMA StateReplays ==
    ASSUME NEW ctl, NEW files, NEW last, NEW before, NEW paths,
           TemplateState(ctl, files, last, before, paths)
    PROVE  TemplateReplays(ctl, files, last, before, paths)
<1> DEFINE template == ctl.template
           file == files[template.config[1]]
           made == ConstructGeneration(template, ctl.next, TRUE)
<1>1. made.error \in {"none", "StartRuntimeSampler"}
  <2>1. template.service # "blank"
    BY DEF TemplateState, ControllerOk, TemplateOk, TemplateError
  <2>2. CollectorBuildError(template.service, "file") = "none"
    BY <2>1 DEF CollectorBuildError
  <2>3. SamplerError(template.sampler, TRUE) \in {"none", "StartRuntimeSampler"}
    BY DEF SamplerError
  <2> HIDE DEF template
  <2>4. CASE SamplerError(template.sampler, TRUE) # "none"
    BY <2>2, <2>3, <2>4 DEF ConstructGeneration, Refused
  <2>5. CASE SamplerError(template.sampler, TRUE) = "none"
    BY <2>2, <2>5 DEF ConstructGeneration
  <2>6. QED
    BY <2>4, <2>5
<1>2. Cardinality(paths) = ctl.next - 1
  BY DEF TemplateState, PathsOk
<1>3. Replayed(ctl, files, last, before)
  BY DEF TemplateState
<1>4. QED
  BY <1>1, <1>2, <1>3, Zenon DEF TemplateReplays, Replayed

\* A step with a sound controller and sound files keeps the invariant.
LEMMA StepOk ==
    ASSUME TemplateInv, NEW last, NEW ctl, NEW files, Step(last, ctl, files),
           ControllerOk(ctl), DocsOk(files),
           PathsOk(ctl.next, Artifacts(ctl), input.paths \cup Artifacts(ctl)),
           Replayed(ctl, files, last, input.ctl.template)
    PROVE  TemplateInv'
<1> DEFINE before == input.ctl.template
           paths == input.paths \cup Artifacts(ctl)
           steps == input.steps + 1
<1>1. Is("template") /\ input' = [input EXCEPT !.ctl = ctl, !.files = files, !.last = last, !.steps = steps,
                                               !.before = before, !.paths = paths]
  BY DEF Step
<1>2. HasFamily(input) /\ {"ctl", "files", "last", "steps", "before", "paths"} \subseteq DOMAIN input
  BY <1>1 DEF TemplateInv
<1>3. TemplateState(ctl, files, last, before, paths)
  BY DEF TemplateState
<1> HIDE DEF before, paths, steps
<1>4. /\ HasFamily(input') /\ DOMAIN input' = DOMAIN input
      /\ input'.ctl = ctl /\ input'.files = files /\ input'.last = last
      /\ input'.before = before /\ input'.paths = paths
  BY <1>1, <1>2 DEF HasFamily
<1>5. QED
  BY <1>2, <1>3, <1>4 DEF TemplateInv

\* A controller that differs in its template, or has no generation.
LEMMA ChangedController ==
    ASSUME NEW c, ControllerOk(c), NEW paths, PathsOk(c.next, Artifacts(c), paths), NEW d,
           ControllerOk(d), d.next = c.next, d.active \in {c.active, <<>>}
    PROVE  PathsOk(d.next, Artifacts(d), paths \cup Artifacts(d))
<1>1. Artifacts(d) \subseteq Artifacts(c)
  BY DEF Artifacts
<1>2. QED
  BY <1>1, PathsKept

\* A template that reload_template takes over is sound.
LEMMA DirectOk ==
    ASSUME NEW c, ControllerOk(c), NEW t, t = [f \in DOMAIN t |-> t[f]],
           {"service", "config", "output"} \subseteq DOMAIN t, t.config \in ConfigPaths
    PROVE  LET d == ReloadTemplate(c, t)
           IN  ControllerOk(d) /\ d.next = c.next /\ d.active = c.active
<1> DEFINE d == ReloadTemplate(c, t)
<1>1. CASE d = c
  BY <1>1
<1>2. CASE d # c
  <2>1. d = [c EXCEPT !.template = t] /\ TemplateError(t) = "none"
    BY <1>2 DEF ReloadTemplate
  <2> HIDE DEF d
  <2>2. TemplateOk(t)
    BY <2>1 DEF TemplateOk
  <2>3. ControllerOk(d) /\ d.next = c.next /\ d.active = c.active
    BY <2>1, <2>2 DEF ControllerOk
  <2>4. QED
    BY <2>3 DEF d
<1>3. QED
  BY <1>1, <1>2

LEMMA TemplatesOk == Spec => []TemplateInv
<1>1. Init => TemplateInv
  <2> SUFFICES ASSUME Init, Is("template")
               PROVE  /\ {"ctl", "files", "last", "steps", "before", "paths"} \subseteq DOMAIN input
                      /\ TemplateState(input.ctl, input.files, input.last, input.before, input.paths)
    BY InputFamilies DEF Init, TemplateInv
  <2>1. input \in TemplateInputs
    BY InputFamilies DEF Init, Is
  <2>2. PICK builder \in Builders, doc \in Files :
            /\ BuildController(builder, doc, TRUE).error = "none"
            /\ StartsFrom(input, BuildController(builder, doc, TRUE), doc)
    BY <2>1, TemplateStarts, Zenon
  <2> DEFINE c == BuildController(builder, doc, TRUE).ctl
             files == <<doc, File(Omitted)>>
  <2>3. ControllerOk(c) /\ PathsOk(c.next, Artifacts(c), Artifacts(c))
    <3>1. BuilderOk(builder)
      BY BuildersOk
    <3>2. QED
      BY <2>2, <3>1, BuiltOk
  <2>4. DocsOk(files)
    <3>1. DocOk(doc) /\ DocOk(File(Omitted))
      BY FilesOk DEF Files
    <3>2. QED
      BY <3>1 DEF DocsOk
  <2>5. input = [family |-> "template", ctl |-> c, files |-> files, last |-> "build",
                 before |-> c.template, paths |-> Artifacts(c), steps |-> 0]
    BY <2>2, Zenon DEF StartsFrom
  <2> HIDE DEF c, files
  <2>6. Replayed(c, files, "build", c.template)
    BY DEF Replayed
  <2>7. TemplateState(c, files, "build", c.template, Artifacts(c))
    BY <2>3, <2>4, <2>6 DEF TemplateState
  <2>8. QED
    BY <2>5, <2>7
<1>2. TemplateInv /\ [Next]_input => TemplateInv'
  <2> SUFFICES ASSUME TemplateInv, [Next]_input PROVE TemplateInv'
    OBVIOUS
  <2>1. CASE UNCHANGED input
    BY <2>1 DEF TemplateInv, Is
  <2>2. CASE Next /\ ~Is("template")
    BY <2>2, StepInFamily DEF TemplateInv, Is
  <2>3. CASE Next /\ Is("template")
    <3> DEFINE c == input.ctl
               files == input.files
               paths == input.paths
               T == c.template
    <3>1. EditFile \/ ReloadFile \/ ReloadDirect \/ Arm \/ Disarm \/ ShutDown
      BY <2>3, StepInFamily DEF TemplateInv
    <3>2. ControllerOk(c) /\ DocsOk(files) /\ PathsOk(c.next, Artifacts(c), paths)
      BY <2>3 DEF TemplateInv, TemplateState
    <3>3. \A d, fs, last : last # "config" => Replayed(d, fs, last, T)
      BY DEF Replayed
    <3>4. ASSUME NEW d, ControllerOk(d), d.next = c.next, d.active \in {c.active, <<>>}
          PROVE  PathsOk(d.next, Artifacts(d), paths \cup Artifacts(d))
      BY <3>2, <3>4, ChangedController
    <3>5. CASE EditFile
      <4>1. PICK p \in {1, 2}, file \in Files : Step("edit", c, [files EXCEPT ![p] = file])
        BY <3>5 DEF EditFile
      <4> DEFINE edited == [files EXCEPT ![p] = file]
      <4>2. DocsOk(edited)
        BY <3>2, FilesOk DEF DocsOk
      <4>3. PathsOk(c.next, Artifacts(c), paths \cup Artifacts(c))
        BY <3>2, <3>4
      <4> HIDE DEF edited
      <4>4. Replayed(c, edited, "edit", T)
        BY <3>3
      <4>5. Step("edit", c, edited)
        BY <4>1 DEF edited
      <4>6. QED
        BY <3>2, <4>2, <4>3, <4>4, <4>5, StepOk
    <3>6. CASE ReloadFile
      <4> DEFINE d == ReloadConfig(c, files)
      <4>1. /\ ControllerOk(d) /\ d.next = c.next /\ d.active = c.active
            /\ Replayed(d, files, "config", T)
        BY <3>2, ReloadedOk DEF DocsOk, Replayed
      <4>2. Step("config", d, files)
        BY <3>6, Zenon DEF ReloadFile
      <4> HIDE DEF d
      <4>3. PathsOk(d.next, Artifacts(d), paths \cup Artifacts(d))
        BY <3>4, <4>1
      <4>4. QED
        BY <3>2, <4>1, <4>2, <4>3, StepOk
    <3>7. CASE ReloadDirect
      <4>1. PICK t \in {[T EXCEPT !.config = <<2>>], [T EXCEPT !.service = "direct", !.output = Out("b", "")],
                        [T EXCEPT !.service = "blank"], [T EXCEPT !.output = EmptyPath]} :
                Step("template", ReloadTemplate(c, t), files)
        BY <3>7, Zenon DEF ReloadDirect
      <4> DEFINE d == ReloadTemplate(c, t)
      <4>2. /\ t = [f \in DOMAIN t |-> t[f]] /\ {"service", "config", "output"} \subseteq DOMAIN t
            /\ t.config \in ConfigPaths
        <5>1. TemplateOk(T)
          BY <3>2 DEF ControllerOk
        <5> HIDE DEF T
        <5>2. QED
          BY <4>1, <5>1 DEF TemplateOk, ConfigPaths
      <4>3. ControllerOk(d) /\ d.next = c.next /\ d.active = c.active
        BY <3>2, <4>2, DirectOk
      <4> HIDE DEF d
      <4>4. PathsOk(d.next, Artifacts(d), paths \cup Artifacts(d))
        BY <3>4, <4>3
      <4>5. Replayed(d, files, "template", T)
        BY <3>3
      <4>6. Step("template", d, files)
        BY <4>1 DEF d
      <4>7. QED
        BY <3>2, <4>3, <4>4, <4>5, <4>6, StepOk
    <3>8. CASE Arm
      <4>1. PICK inRuntime \in BOOLEAN : Step("enable", EnableConfigured(c, inRuntime), files)
        BY <3>8, Zenon DEF Arm
      <4> DEFINE d == EnableConfigured(c, inRuntime)
      <4>2. ControllerOk(d) /\ PathsOk(d.next, Artifacts(d), paths \cup Artifacts(d))
        BY <3>2, EnabledOk
      <4> HIDE DEF d
      <4>3. Replayed(d, files, "enable", T)
        BY <3>3
      <4>4. Step("enable", d, files)
        BY <4>1 DEF d
      <4>5. QED
        BY <3>2, <4>2, <4>3, <4>4, StepOk
    <3>9. ASSUME NEW d, NEW last, last # "config", Step(last, d, files),
                 d = [f \in DOMAIN d |-> d[f]], DOMAIN d = DOMAIN c,
                 d.base = c.base, d.template = T, d.next = c.next, d.active = <<>>
          PROVE  TemplateInv'
      <4>1. ControllerOk(d)
        BY <3>2, <3>9 DEF ControllerOk
      <4>2. PathsOk(d.next, Artifacts(d), paths \cup Artifacts(d))
        BY <3>4, <3>9, <4>1
      <4>3. Replayed(d, files, last, T)
        BY <3>3, <3>9
      <4>4. QED
        BY <3>2, <3>9, <4>1, <4>2, <4>3, StepOk
    <3>10. CASE Disarm
      <4> DEFINE d == [c EXCEPT !.active = <<>>]
      <4>1. /\ d = [f \in DOMAIN d |-> d[f]] /\ DOMAIN d = DOMAIN c
            /\ d.base = c.base /\ d.template = T /\ d.next = c.next /\ d.active = <<>>
        BY <3>2 DEF ControllerOk
      <4>2. Step("disable", d, files)
        BY <3>10, Zenon DEF Disarm
      <4> HIDE DEF d
      <4>3. QED
        BY <3>9, <4>1, <4>2
    <3>11. CASE ShutDown
      <4> DEFINE d == [c EXCEPT !.active = <<>>, !.shutdown = TRUE]
      <4>1. /\ d = [f \in DOMAIN d |-> d[f]] /\ DOMAIN d = DOMAIN c
            /\ d.base = c.base /\ d.template = T /\ d.next = c.next /\ d.active = <<>>
        BY <3>2 DEF ControllerOk
      <4>2. Step("shutdown", d, files)
        BY <3>11, Zenon DEF ShutDown
      <4> HIDE DEF d
      <4>3. QED
        BY <3>9, <4>1, <4>2
    <3>12. QED
      BY <3>1, <3>5, <3>6, <3>7, <3>8, <3>10, <3>11
  <2>4. QED
    BY <2>1, <2>2, <2>3
<1>3. QED
  BY <1>1, <1>2, PTL DEF Spec

\* Configuration is all or nothing and does not depend on its history, for
\* any number of overrides and of edits, reloads and generations: a failing
\* override changes no analyzer option and what succeeds is valid and
\* replays from the report's summary; a controller's template stays usable,
\* a reload gives what a build from the file would, and no two generations
\* share an artifact (tailtriage-analyzer/src/options, and reload_config,
\* reload_template and enable of the controller).
THEOREM ConfigurationReplaysHolds == Spec => []ConfigurationReplays
<1>1. OptionInv /\ TemplateInv => ConfigurationReplays
  <2> SUFFICES ASSUME OptionInv, TemplateInv PROVE ConfigurationReplays
    OBVIOUS
  <2>1. ASSUME Is("options")
        PROVE  OptionsReplay(ApplyOverrides(Defaults, input.sets), BuildOptions(input.config, input.sets))
    <3>1. Len(input.sets) \in Nat
      BY <2>1 DEF OptionInv, IsSection
    <3>2. QED
      BY <3>1, BuiltReplay
  <2>2. ASSUME Is("template")
        PROVE  TemplateReplays(input.ctl, input.files, input.last, input.before, input.paths)
    BY <2>2, StateReplays DEF TemplateInv
  <2>3. QED
    BY <2>1, <2>2, Zenon DEF ConfigurationReplays
<1>2. QED
  BY <1>1, OptionsOk, TemplatesOk, PTL
----------------------------------------------------------------------------
(* A lenient import.                                                       *)

\* What a lenient import returns with the warnings of its parser.
LEMMA ImportReturns ==
    ASSUME NEW spans, NEW pw
    PROVE  LET imported == WithParseWarnings(Imported(spans), pw)
               ws == ConversionWarnings(spans)
               candidates == CandidateRun(spans)
           IN  /\ imported.error = "none" /\ imported.run = NormalizeRun(candidates)
               /\ imported.bounds = MetadataBounds(EventSet(imported.run))
               /\ imported.sources = RetainedSources(spans)
               /\ imported.lifecycle = LifecycleWarnings(ws, candidates) \cup pw
               /\ imported.warnings = CappedWarnings(Len(ws) + Cardinality(AnalyzerSummary(candidates)))
                                      + Cardinality(pw)
               /\ imported.dropped = [sec \in EventSections |-> DroppedAtLimit(spans, sec)]
<1> DEFINE ws == ConversionWarnings(spans)
           candidates == CandidateRun(spans)
           run == NormalizeRun(candidates)
           bounds == MetadataBounds(EventSet(run))
           lifecycle == LifecycleWarnings(ws, candidates)
           warnings == CappedWarnings(Len(ws) + Cardinality(AnalyzerSummary(candidates)))
           dropped == [sec \in EventSections |-> DroppedAtLimit(spans, sec)]
           hit == \E sec \in EventSections : DroppedAtLimit(spans, sec) > 0
           sources == RetainedSources(spans)
           n == Cardinality(pw)
           one == Imported(spans)
           two == WithParseWarnings(one, pw)
<1>1. one = [error |-> "none", run |-> run, bounds |-> bounds, lifecycle |-> lifecycle,
             warnings |-> warnings, dropped |-> dropped, limitsHit |-> hit, sources |-> sources]
  BY Zenon DEF Imported, ImportedOf
<1>2. two = IF one.error # "none" THEN one
            ELSE [one EXCEPT !.lifecycle = @ \cup pw, !.warnings = @ + n]
  BY Zenon DEF WithParseWarnings
<1> HIDE DEF ws, candidates, run, bounds, lifecycle, warnings, dropped, hit, sources, n, one, two
<1>3. /\ two.error = "none" /\ two.run = run /\ two.bounds = bounds /\ two.sources = sources
      /\ two.lifecycle = lifecycle \cup pw /\ two.warnings = warnings + n /\ two.dropped = dropped
  BY <1>1, <1>2
<1>4. QED
  BY <1>3, Zenon DEF ws, candidates, run, bounds, lifecycle, warnings, dropped, sources, n, one, two

\* A lenient import accounts for every span that is a candidate.
LEMMA ImportAccounted ==
    ASSUME NEW R, NEW spans \in Seq(R), NEW pw, Cardinality(pw) \in Nat
    PROVE  SpansAccounted(WithParseWarnings(Imported(spans), pw), spans, RetainedIndices(spans))
<1> DEFINE imported == WithParseWarnings(Imported(spans), pw)
           ws == ConversionWarnings(spans)
           candidates == CandidateRun(spans)
           summary == Cardinality(AnalyzerSummary(candidates))
<1>1. /\ imported.lifecycle = LifecycleWarnings(ws, candidates) \cup pw
      /\ imported.warnings = CappedWarnings(Len(ws) + summary) + Cardinality(pw)
      /\ imported.dropped = [sec \in EventSections |-> DroppedAtLimit(spans, sec)]
  BY ImportReturns, Zenon
<1>2. summary \in Nat
  BY SummariesCounted
<1>3. /\ Len(ws) \in Nat
      /\ \A i \in DOMAIN spans : Violations(spans[i]) # <<>> =>
             \E k \in 1..Len(ws) : "source" \in DOMAIN ws[k] /\ ws[k].source = i
  BY WarningsNamed, Zenon
<1> HIDE DEF imported, ws, candidates, summary
<1> SUFFICES ASSUME NEW i \in DOMAIN spans, spans[i].kind # "foreign"
             PROVE  \/ i \in RetainedIndices(spans) \/ Named(spans[i], i, imported.lifecycle)
                    \/ KnownKind(spans[i]) /\ imported.dropped[SectionOf[spans[i].kind]] > 0
                    \/ Violations(spans[i]) # <<>> /\ imported.warnings >= MaxWarnings
  BY Zenon DEF SpansAccounted, imported
<1>4. CASE Violations(spans[i]) # <<>>
  <2>1. PICK k \in 1..Len(ws) : "source" \in DOMAIN ws[k] /\ ws[k].source = i
    BY <1>3, <1>4
  <2>2. CASE imported.warnings >= MaxWarnings
    BY <1>4, <2>2
  <2>3. CASE ~(imported.warnings >= MaxWarnings)
    <3>1. k \in 1..CappedWarnings(Len(ws))
      BY <1>1, <1>2, <1>3, <2>3, ImportAssumption DEF CappedWarnings
    <3>2. ws[k] \in imported.lifecycle
      BY <1>1, <3>1, Zenon DEF LifecycleWarnings
    <3>3. QED
      BY <2>1, <3>2, Zenon DEF Named
  <2>4. QED
    BY <2>2, <2>3
<1>5. CASE Violations(spans[i]) = <<>>
  <2>1. KnownKind(spans[i])
    BY <1>5 DEF Violations
  <2> DEFINE sec == SectionOf[spans[i].kind]
  <2>2. sec \in EventSections
    BY <2>1 DEF KnownKind, SectionOf, EventSections, ChildSections
  <2>3. i \in OfSection(spans, sec)
    BY <1>5, <2>1 DEF OfSection, Accepted
  <2> HIDE DEF sec
  <2>4. DroppedAtLimit(spans, sec) \in Nat
    BY <2>2, ProvenancePrefix
  <2>5. CASE DroppedAtLimit(spans, sec) # 0
    BY <1>1, <2>1, <2>2, <2>4, <2>5 DEF sec
  <2>6. CASE DroppedAtLimit(spans, sec) = 0
    <3>1. PICK k \in DOMAIN Provenance(spans, sec) : Provenance(spans, sec)[k] = i
      BY <2>2, <2>3, <2>6, ProvenancePrefix
    <3>2. CASE Excluded(Report(candidates), sec, k)
      <4>1. PICK w \in LifecycleSummary(candidates) :
                w.section = sec /\ w.action = "excluded" /\ "source" \notin DOMAIN w
        BY <2>2, <3>2, ExcludedWarned
      <4>2. w \in imported.lifecycle
        BY <1>1, <4>1, Zenon DEF LifecycleWarnings
      <4>3. QED
        BY <2>1, <4>1, <4>2, Zenon DEF Named, sec
    <3>3. CASE ~Excluded(Report(candidates), sec, k)
      <4>1. k \in DOMAIN CandidateRun(spans)[sec]
        BY <2>2, CandidateDomain
      <4>2. k \in Unexcluded(spans, sec)
        BY <3>3, <4>1, Zenon DEF Unexcluded, candidates
      <4>3. QED
        BY <2>2, <3>1, <4>2, RetainedBySection
    <3>4. QED
      BY <3>2, <3>3
  <2>7. QED
    BY <2>5, <2>6
<1>6. QED
  BY <1>4, <1>5
\* What a lenient import makes of lines that all parse.
LEMMA LinesImported ==
    ASSUME NEW lines, IsSection(lines), ImportJsonl(lines, FALSE).error = "none"
    PROVE  LET spans == ReadSpans(lines, FALSE).spans
           IN  /\ ImportJsonl(lines, FALSE) = WithParseWarnings(Imported(spans), ParseWarnings(lines))
               /\ spans \in Seq({lines[j].span : j \in {k \in DOMAIN lines : LineResult(lines[k], FALSE) = "span"}})
               /\ Cardinality(ParseWarnings(lines)) \in Nat
<1> DEFINE all == [j \in DOMAIN lines |-> lines[j].span]
           failing == {j \in DOMAIN lines : LineResult(lines[j], FALSE) \notin {"skip", "span"}}
           K == {j \in DOMAIN lines : LineResult(lines[j], FALSE) = "span"}
           S == {lines[j].span : j \in DOMAIN lines}
           R == {lines[j].span : j \in K}
           n == Len(lines)
           read == ReadSpans(lines, FALSE)
           warnings == ParseWarnings(lines)
<1>1. n \in Nat /\ DOMAIN lines = 1..n
  BY DEF IsSection
<1>2. Cardinality(warnings) \in Nat
  <2> HIDE DEF n
  <2>1. IsFiniteSet(DOMAIN lines)
    BY <1>1, FS_Interval, 1 \in Int, n \in Int
  <2>2. QED
    BY <2>1, ParseWarningsCounted
<1>3. read.error = "none"
  <2>1. ImportRead(read, warnings, FALSE).error = "none"
    BY Zenon DEF ImportJsonl
  <2> HIDE DEF read, warnings
  <2>2. SUFFICES ASSUME read.error # "none" PROVE FALSE
    OBVIOUS
  <2>3. ImportRead(read, warnings, FALSE) = Failed(read.error)
    BY <2>2 DEF ImportRead
  <2>4. Failed(read.error).error = read.error
    BY DEF Failed
  <2>5. QED
    BY <2>1, <2>2, <2>3, <2>4, Zenon
<1>4. failing = {}
  <2> DEFINE Spans(ks) == AtIndices(all, {j \in ks : LineResult(lines[j], FALSE) = "span"})
             m == Min(failing)
  <2>1. SUFFICES ASSUME failing # {} PROVE FALSE
    OBVIOUS
  <2>2. read = [spans |-> Spans(1..m - 1), error |-> LineResult(lines[m], FALSE)]
    BY <2>1, Zenon DEF ReadSpans
  <2>3. failing \in SUBSET Nat /\ IsFiniteSet(failing)
    <3> HIDE DEF n
    <3>1. IsFiniteSet(1..n)
      BY <1>1, FS_Interval, 1 \in Int, n \in Int
    <3>2. failing \subseteq 1..n
      BY <1>1
    <3>3. 1..n \subseteq Nat
      BY <1>1
    <3> HIDE DEF failing
    <3>4. QED
      BY <3>1, <3>2, <3>3, FS_Subset
  <2>4. m \in failing
    <3> HIDE DEF failing
    <3>1. QED
      BY <2>1, <2>3, MinExists
  <2>5. LineResult(lines[m], FALSE) # "none"
    BY DEF LineResult, ParseRecord
  <2>6. read.error = LineResult(lines[m], FALSE)
    <3> HIDE DEF read, Spans, m
    <3>1. QED
      BY <2>2
  <2>7. QED
    BY <1>3, <2>5, <2>6
<1>5. read = [spans |-> AtIndices(all, K), error |-> "none"]
  BY <1>4, Zenon DEF ReadSpans
<1>6. read.spans = AtIndices(all, K)
  <2> HIDE DEF read, all, K
  <2>1. QED
    BY <1>5
<1>7. all \in Seq(S) /\ DOMAIN all = DOMAIN lines
  <2> HIDE DEF n
  <2>1. all \in [1..n -> S]
    BY <1>1
  <2> HIDE DEF S, all
  <2>2. QED
    BY <1>1, <2>1
<1>8. AtIndices(all, K) \in Seq(R)
  <2> HIDE DEF n
  <2>1. K \in SUBSET DOMAIN all
    BY <1>7
  <2> DEFINE kept == AtIndices(all, K)
             c == Cardinality(K)
  <2>2. K \in SUBSET Nat /\ IsFiniteSet(K) /\ kept \in Seq(S)
    <3> HIDE DEF K, all, S
    <3>1. QED
      BY <1>7, <2>1, KeptSection
  <2>3. DOMAIN kept = 1..c /\ \A k \in DOMAIN kept : Index(K, k) \in K /\ kept[k] = all[Index(K, k)]
    <3> HIDE DEF K, all
    <3>1. QED
      BY <2>2, KeptEvents
  <2>4. \A k \in DOMAIN kept : kept[k] \in R
    <3> HIDE DEF kept, c
    <3>1. QED
      BY <2>3
  <2>5. kept \in Seq(R)
    <3> HIDE DEF kept, c, R, S, K, all
    <3>1. QED
      BY <2>2, <2>4
  <2>6. QED
    BY <2>5
<1>9. ImportRead(read, warnings, FALSE) = WithParseWarnings(Imported(read.spans), warnings)
  <2> HIDE DEF read, warnings
  <2>1. QED
    BY <1>3 DEF ImportRead, RunFromSpanRecords
<1>10. QED
  BY <1>2, <1>6, <1>8, <1>9, Zenon DEF ImportJsonl

\* Nothing that was read is too long to write.
LEMMA KeptWritten ==
    ASSUME NEW R, NEW sources \in Seq(R), \A x \in R : x.name # "long" /\ 1 <= RecordLimit
    PROVE  WriteJsonl(sources).error = "none"
<1>1. \A k \in DOMAIN sources : sources[k] \in R
  OBVIOUS
<1>2. ~\E k \in DOMAIN sources : SpanBytes(sources[k]) > RecordLimit
  BY <1>1, RecordLimitAssumption DEF SpanBytes
<1>3. QED
  BY <1>2 DEF WriteJsonl

\* The candidates of an import are well formed.
LEMMA CandidatesFormed ==
    ASSUME NEW R, NEW spans \in Seq(R)
    PROVE  EvidenceRun(CandidateRun(spans))
<1> DEFINE rn == CandidateRun(spans)
           rq == CandidateEvents(spans, "requests")
           st == CandidateEvents(spans, "stages")
           qu == CandidateEvents(spans, "queues")
<1>1. ASSUME NEW sec \in EventSections
      PROVE  EventSection(rn[sec])
  <2>1. IsSection(rn[sec])
    <3>1. rn[sec] \in Seq(Range(rn[sec]))
      BY CandidateSection
    <3> HIDE DEF rn
    <3>2. QED
      BY <3>1, SequenceIsSection
  <2>2. ASSUME NEW k \in DOMAIN rn[sec]
        PROVE  WellFormed(rn[sec][k])
    <3>1. k \in DOMAIN Provenance(spans, sec)
      BY CandidateDomain
    <3>2. rn[sec][k] = EventOf(spans[Provenance(spans, sec)[k]])
      BY <3>1, CandidateEvent
    <3> HIDE DEF rn
    <3>3. QED
      BY <3>2 DEF WellFormed, EventOf, EventFields, EventShapes
  <2>3. QED
    BY <2>1, <2>2 DEF EventSection
<1>2. rn = [requests |-> rq, stages |-> st, queues |-> qu, inflight |-> <<>>, runtime |-> <<>>,
            finalized |-> "ok", meta |-> {}]
  BY Zenon DEF CandidateRun
<1>3. <<>> \in Seq({}) /\ DOMAIN <<>> = {}
  OBVIOUS
<1>4. IsSection(<<>>)
  BY <1>3, SequenceIsSection
<1>5. EventSection(rn.requests) /\ EventSection(rn.stages) /\ EventSection(rn.queues)
  BY <1>1 DEF EventSections, ChildSections
<1> HIDE DEF rn, rq, st, qu
<1>6. /\ rn = [f \in DOMAIN rn |-> rn[f]] /\ RunSections \subseteq DOMAIN rn
      /\ rn.inflight = <<>> /\ rn.runtime = <<>>
  BY <1>2 DEF RunSections
<1>7. EvidenceRun(rn)
  BY <1>3, <1>4, <1>5, <1>6 DEF EvidenceRun
<1>8. QED
  BY <1>7 DEF rn

\* A run without samples looks the same to validation, and normalization
\* treats it alike.
LEMMA NoSamples ==
    ASSUME NEW rn, rn = [f \in DOMAIN rn |-> rn[f]], "runtime" \in DOMAIN rn, rn.runtime = <<>>
    PROVE  ValidationView(rn) = rn
<1>1. [i \in DOMAIN rn.runtime |-> IF rn.runtime[i].workers = 0 THEN "zero_workers" ELSE "ok"] = <<>>
  OBVIOUS
<1>2. ValidationView(rn) = [rn EXCEPT !.runtime = <<>>]
  BY <1>1 DEF ValidationView, Map
<1>3. QED
  BY <1>2

\* The artifact of an imported run is one that strict `analyze` takes.
LEMMA ImportedVerdict ==
    ASSUME NEW R, NEW spans \in Seq(R), NEW lifecycle,
           NormalizeRun(CandidateRun(spans)).requests # <<>>
    PROVE  AcceptError(Artifact(NormalizeRun(CandidateRun(spans)), lifecycle), FALSE) = "none"
<1> DEFINE rn == CandidateRun(spans)
           nr == NormalizeRun(rn)
           art == Artifact(nr, lifecycle)
<1>1. EvidenceRun(rn)
  BY CandidatesFormed
<1>2. rn.runtime = <<>> /\ rn.meta = {} /\ rn.finalized = "ok" /\ {"runtime", "meta", "finalized"} \subseteq DOMAIN rn
  BY DEF CandidateRun
<1> HIDE DEF rn
<1>3. /\ nr = [f \in DOMAIN nr |-> nr[f]] /\ DOMAIN nr = DOMAIN rn
      /\ nr.runtime = [i \in DOMAIN rn.runtime |-> "ok"]
      /\ \A f \in DOMAIN rn \ RunSections : nr[f] = rn[f]
  BY <1>1, SectionsOut
<1>4. EvidenceRun(nr) /\ EvidenceValid(nr)
  BY <1>1, NormalizedValid
<1> HIDE DEF nr
<1>5. nr.runtime = <<>> /\ nr.meta = {} /\ nr.finalized = "ok"
  BY <1>2, <1>3 DEF RunSections
<1>6. NormalizeRun(nr) = nr
  BY <1>4, ValidIsFixed
<1>7. ValidateStrict(nr)
  BY <1>4, <1>5, <1>6, StrictDecides
<1>8. ValidationView(nr) = nr
  BY <1>2, <1>3, <1>5, NoSamples
<1>9. Normalized(nr) = nr
  <2>1. [i \in DOMAIN nr.runtime |-> [nr.runtime[i] EXCEPT !.workers = IF @ = 0 THEN None ELSE @]] = <<>>
    BY <1>5
  <2>2. Normalized(nr) = [nr EXCEPT !.runtime = <<>>]
    BY <1>6, <1>8, <2>1 DEF Normalized, Map
  <2>3. QED
    BY <1>2, <1>3, <1>5, <2>2
<1>10. art.file = "ok" /\ art.schema = "supported" /\ art.run = nr
  BY DEF Artifact
<1> HIDE DEF art
<1>11. LoadError(art) = "none"
  <2>1. DecodeError(art) = "none"
    BY <1>10 DEF DecodeError
  <2>2. QED
    BY <1>5, <1>10, <2>1 DEF LoadError
<1>12. nr.requests # <<>>
  BY DEF nr, rn
<1>13. AcceptError(art, FALSE) = "none"
  BY <1>7, <1>8, <1>9, <1>10, <1>11, <1>12 DEF AcceptError
<1>14. QED
  BY <1>13 DEF art, nr, rn
\* The inductive invariant of the imports: a line takes a byte at least, and
\* no name is long.
LineFormed(l) == l.size \in Nat /\ 1 <= l.size /\ l.span.name # "long"

ImportInv ==
    /\ HasFamily(input)
    /\ Is("import") => /\ "lines" \in DOMAIN input /\ IsSection(input.lines)
                       /\ \A j \in DOMAIN input.lines : LineFormed(input.lines[j])

\* The lines that are added are formed.
LEMMA LinesFormed ==
    ASSUME NEW l \in GoodLines \cup BadLines
    PROVE  LineFormed(l)
<1>1. ASSUME NEW kind, NEW id, NEW s, NEW e, NEW dur
      PROVE  Span(kind, id, s, e, dur).name = "n"
  BY DEF Span
<1>2. SoundSpan.name = "n"
  BY <1>1 DEF SoundSpan
<1>3. \A x \in TimedSpans : x.name = "n"
  <2>1. ASSUME NEW x \in TimedSpans
        PROVE  x = SoundSpan \/ \E kind, id, s, e, dur : x = Span(kind, id, s, e, dur)
    BY Zenon DEF TimedSpans
  <2>2. ASSUME NEW x, NEW kind, NEW id, NEW s, NEW e, NEW dur, x = Span(kind, id, s, e, dur)
        PROVE  x.name = "n"
    BY <2>2 DEF Span
  <2>3. QED
    BY <1>2, <2>1, <2>2
<1>4. \A x \in RefusedSpans : x.name # "long"
  <2> DEFINE sound == SoundSpan
  <2>1. sound = [kind |-> "request", id |-> "r1", name |-> "n", opt |-> "absent",
                 ws |-> 1, wf |-> 2, s |-> 0, e |-> 6, dur |-> 6]
    BY DEF SoundSpan, Span
  <2>2. ASSUME NEW x \in {[sound EXCEPT !.kind = k] : k \in {"foreign", "missing", "unknown", "malformed"}}
        PROVE  x.name # "long"
    BY <2>1, <2>2
  <2>3. ASSUME NEW x \in {[sound EXCEPT !.ws = 3],
                          [sound EXCEPT !.id = "blank", !.name = "not_string"],
                          [sound EXCEPT !.opt = "nat"],
                          [sound EXCEPT !.kind = "stage", !.opt = "text"],
                          [sound EXCEPT !.kind = "stage", !.opt = "bool", !.ws = 0],
                          [sound EXCEPT !.kind = "queue", !.opt = "negative"],
                          [sound EXCEPT !.kind = "queue", !.opt = "nat", !.wf = 5]}
        PROVE  x.name # "long"
    BY <2>1, <2>3
  <2>4. QED
    BY <2>2, <2>3, Zenon DEF RefusedSpans
<1>5. RecordLimit + 1 \in Nat /\ 1 <= RecordLimit + 1
  BY RecordLimitAssumption
<1>6. PICK form, size, span : /\ l = Line(form, size, span) /\ size \in {1, RecordLimit + 1}
                              /\ span \in TimedSpans \cup RefusedSpans \cup {SoundSpan}
  BY Zenon DEF GoodLines, BadLines
<1>7. span.name # "long"
  BY <1>2, <1>3, <1>4, <1>6
<1>8. size \in Nat /\ 1 <= size
  BY <1>5, <1>6
<1>9. l.size = size /\ l.span = span
  BY <1>6 DEF Line
<1>10. QED
  BY <1>7, <1>8, <1>9 DEF LineFormed

LEMMA ImportsOk == Spec => []ImportInv
<1>1. Init => ImportInv
  <2> SUFFICES ASSUME Init PROVE ImportInv
    OBVIOUS
  <2>1. /\ HasFamily(input)
        /\ Is("import") => input = [family |-> "import", lines |-> <<>>]
    BY InputFamilies DEF Init, Is
  <2>2. <<>> \in Seq({}) /\ DOMAIN <<>> = {}
    OBVIOUS
  <2>3. IsSection(<<>>)
    BY <2>2, SequenceIsSection
  <2>4. ASSUME Is("import") PROVE "lines" \in DOMAIN input /\ input.lines = <<>>
    BY <2>1, <2>4
  <2>5. QED
    BY <2>1, <2>2, <2>3, <2>4, Zenon DEF ImportInv
<1>2. ImportInv /\ [Next]_input => ImportInv'
  <2> SUFFICES ASSUME ImportInv, [Next]_input PROVE ImportInv'
    OBVIOUS
  <2>1. CASE UNCHANGED input
    BY <2>1 DEF ImportInv, Is
  <2>2. CASE Next /\ ~Is("import")
    BY <2>2, StepInFamily DEF ImportInv, Is
  <2>3. CASE Next /\ Is("import")
    <3>1. HasFamily(input') /\ input'.family = input.family /\ AddLine
      BY <2>3, StepInFamily DEF ImportInv
    <3>2. /\ "lines" \in DOMAIN input /\ IsSection(input.lines)
          /\ \A j \in DOMAIN input.lines : LineFormed(input.lines[j])
      BY <2>3 DEF ImportInv
    <3>3. PICK l \in GoodLines \cup BadLines : input' = [input EXCEPT !.lines = Append(@, l)]
      BY <3>1, Zenon DEF AddLine
    <3> DEFINE more == Append(input.lines, l)
    <3>4. IsSection(more) /\ \A j \in DOMAIN more : LineFormed(more[j])
      BY <3>2, AppendedSection, LinesFormed
    <3>5. "lines" \in DOMAIN input' /\ input'.lines = more
      BY <3>2, <3>3
    <3> HIDE DEF more
    <3>6. QED
      BY <3>1, <3>4, <3>5 DEF ImportInv, Is
  <2>4. QED
    BY <2>1, <2>2, <2>3
<1>3. QED
  BY <1>1, <1>2, PTL DEF Spec

\* A lenient import of any lines that parse: every candidate span is in the
\* run or accounted for, the spans that are kept give the same run, bounds and
\* sources when they are written and imported again, and strict `analyze`
\* accepts the artifact that the import command writes.
THEOREM ImportLosslessHolds == Spec => []ImportLossless
<1>1. ImportInv => ImportLossless
  <2> DEFINE lines == input.lines
             imported == ImportJsonl(lines, FALSE)
             spans == ReadSpans(lines, FALSE).spans
             pw == ParseWarnings(lines)
             R == {lines[j].span : j \in {k \in DOMAIN lines : LineResult(lines[k], FALSE) = "span"}}
  <2> SUFFICES ASSUME ImportInv, Is("import"), imported.error = "none"
               PROVE  /\ SpansAccounted(imported, spans, RetainedIndices(spans))
                      /\ SameImport(ImportJsonl(WriteJsonl(imported.sources).lines, FALSE), imported)
                      /\ Analyzable(ImportCommand(lines, 2, FALSE))
    BY Zenon DEF ImportLossless, Lossless
  <2>1. IsSection(lines) /\ \A j \in DOMAIN lines : LineFormed(lines[j])
    BY DEF ImportInv
  <2>2. imported = WithParseWarnings(Imported(spans), pw) /\ spans \in Seq(R) /\ Cardinality(pw) \in Nat
    BY <2>1, LinesImported, Zenon
  <2>3. \A x \in R : x.name # "long" /\ 1 <= RecordLimit
    <3>1. ASSUME NEW j \in DOMAIN lines, LineResult(lines[j], FALSE) = "span"
          PROVE  lines[j].span.name # "long" /\ 1 <= RecordLimit
      <4>1. ~(lines[j].size > RecordLimit)
        BY <3>1 DEF LineResult
      <4>2. QED
        BY <2>1, <4>1, RecordLimitAssumption DEF LineFormed
    <3>2. QED
      BY <3>1
  <2>4. /\ imported.run = NormalizeRun(CandidateRun(spans))
        /\ imported.bounds = MetadataBounds(EventSet(imported.run))
        /\ imported.sources = RetainedSources(spans)
    <3> HIDE DEF imported, spans, pw, R
    <3> DEFINE full == WithParseWarnings(Imported(spans), pw)
    <3>1. /\ full.run = NormalizeRun(CandidateRun(spans))
          /\ full.bounds = MetadataBounds(EventSet(full.run)) /\ full.sources = RetainedSources(spans)
      BY ImportReturns, Zenon
    <3>2. imported = full
      BY <2>2
    <3> HIDE DEF full
    <3>3. QED
      BY <3>1, <3>2
  <2> HIDE DEF imported, spans, pw, R
  <2>5. SpansAccounted(imported, spans, RetainedIndices(spans))
    BY <2>2, ImportAccounted
  <2>6. SameImport(ImportJsonl(WriteJsonl(imported.sources).lines, FALSE), imported)
    <3> DEFINE sources == RetainedSources(spans)
               again == ImportJsonl(WriteJsonl(sources).lines, FALSE)
    <3>1. sources \in Seq(R)
      BY <2>2, SourcesKept, Zenon
    <3>2. WriteJsonl(sources).error = "none"
      BY <2>3, <3>1, KeptWritten
    <3>3. /\ again.run = NormalizeRun(CandidateRun(sources))
          /\ again.bounds = MetadataBounds(EventSet(again.run))
          /\ again.sources = RetainedSources(sources)
      BY <3>1, <3>2, ReadBack, Zenon
    <3>4. RetainedSources(sources) = sources
      BY <2>2, RetainedAgain
    <3>5. NormalizeRun(CandidateRun(sources)) = NormalizeRun(CandidateRun(spans))
      BY <2>2, RunAgain
    <3>6. QED
      BY <2>4, <3>3, <3>4, <3>5, Zenon DEF SameImport
  <2>7. Analyzable(ImportCommand(lines, 2, FALSE))
    <3> DEFINE command == WriteImported(imported)
               art == Artifact(imported.run, imported.lifecycle)
    <3>1. ImportCommand(lines, 2, FALSE) = command
      BY DEF ImportCommand, imported
    <3>2. SUFFICES ASSUME command.error = "none" PROVE AcceptError(command.artifact, FALSE) = "none"
      BY <3>1, Zenon DEF Analyzable
    <3>3. imported.run.requests # <<>>
      <4>1. Failed("no_requests").error # "none"
        BY DEF Failed
      <4>2. QED
        BY <3>2, <4>1, Zenon DEF WriteImported
    <3>4. command = [error |-> "none", artifact |-> art]
      BY <3>3, Zenon DEF WriteImported
    <3> HIDE DEF command
    <3>5. command.artifact = art
      BY <3>4
    <3>6. AcceptError(art, FALSE) = "none"
      BY <2>2, <2>4, <3>3, ImportedVerdict
    <3>7. QED
      BY <3>5, <3>6
  <2>8. QED
    BY <2>5, <2>6, <2>7
<1>2. QED
  BY <1>1, ImportsOk, PTL
============================================================================
