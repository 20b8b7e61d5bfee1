------------------------ MODULE TracingImportProofs ------------------------
(***************************************************************************)
(* What the conversion of span records (TracingImport) and their JSONL     *)
(* (TracingJsonl) do to any sequence of records: which candidates an       *)
(* import retains, what it says of the others, and that importing what it  *)
(* retained gives the same run.                                            *)
(***************************************************************************)
EXTENDS TracingJsonl, NormalizationProofs, SequenceTheorems

----------------------------------------------------------------------------
(* Strict validation and what an import retains.                           *)

Graded(issue) ==
    issue.severity = IF issue.code = "precise_interval_validation_unavailable"
                     THEN "warning" ELSE "error"

\* The severity of one issue follows from its code.
LEMMA IssueGraded ==
    ASSUME NEW section, NEW index, NEW field, NEW code
    PROVE  Graded(Issue(section, index, field, code))
BY DEF Graded, Issue

\* The code of an issue decides its severity, in every part of a report.
LEMMA ReportGraded ==
    ASSUME NEW rn, NEW issue \in Report(rn)
    PROVE  Graded(issue)
<1>1. ASSUME NEW sec, NEW i, NEW ev, issue \in EventIssues(sec, i, ev)
      PROVE  Graded(issue)
  BY <1>1, IssueGraded DEF EventIssues
<1>2. ASSUME NEW sec, NEW i, NEW c, issue \in ChildPolicy(rn.requests, sec, i, c)
      PROVE  Graded(issue)
  BY <1>2, IssueGraded DEF ChildPolicy
<1>3. issue \in MetadataIssues(rn) => Graded(issue)
  BY IssueGraded DEF MetadataIssues
<1>4. issue \in DuplicateIssues(rn.requests) => Graded(issue)
  BY IssueGraded DEF DuplicateIssues
<1>5. issue \in GaugeIssues(rn) => Graded(issue)
  BY IssueGraded DEF GaugeIssues
<1>6. issue \in WorkerIssues(rn) => Graded(issue)
  BY IssueGraded DEF WorkerIssues
<1>7. issue \in AllEventIssues(rn) => Graded(issue)
  BY <1>1 DEF AllEventIssues
<1>8. issue \in AllChildIssues(rn) => Graded(issue)
  BY <1>2 DEF AllChildIssues
<1>9. QED
  BY <1>3, <1>4, <1>5, <1>6, <1>7, <1>8 DEF Report

\* A run that validates strictly has no event to exclude.
LEMMA StrictExcludesNothing ==
    ASSUME NEW rn, ValidateStrict(rn), NEW sec, NEW i
    PROVE  ~Excluded(Report(rn), sec, i)
<1>1. ASSUME NEW issue \in Report(rn) PROVE ~Excludes(issue)
  <2>1. issue.severity # "error"
    BY DEF ValidateStrict
  <2>2. issue.code = "precise_interval_validation_unavailable"
    BY <2>1, ReportGraded DEF Graded
  <2>3. QED
    BY <2>2 DEF Excludes, Clearing
<1>2. QED
  BY <1>1 DEF Excluded, ExclusionCodes

\* The source indices of a section's candidates.
OfSection(spans, sec) ==
    {i \in 1..Len(spans) : Accepted(spans[i]) /\ SectionOf[spans[i].kind] = sec}

\* The source indices of a section are finitely many.
LEMMA SectionFinite ==
    ASSUME NEW R, NEW spans \in Seq(R), NEW sec
    PROVE  /\ OfSection(spans, sec) \in SUBSET Nat /\ IsFiniteSet(OfSection(spans, sec))
           /\ Cardinality(OfSection(spans, sec)) \in Nat
<1>1. Len(spans) \in Nat
  OBVIOUS
<1>2. IsFiniteSet(1..Len(spans))
  BY <1>1, FS_Interval
<1>3. OfSection(spans, sec) \subseteq 1..Len(spans)
  BY DEF OfSection
<1>4. IsFiniteSet(OfSection(spans, sec))
  BY <1>2, <1>3, FS_Subset
<1>5. QED
  BY <1>1, <1>3, <1>4, FS_CardinalityType

\* Every accepted span of a section is one of its source indices.
LEMMA SourcesListed ==
    ASSUME NEW R, NEW spans \in Seq(R), NEW sec
    PROVE  /\ SourceIndices(spans, sec) \in Seq(Nat)
           /\ \A k \in 1..Len(SourceIndices(spans, sec)) :
                  SourceIndices(spans, sec)[k] \in OfSection(spans, sec)
           /\ \A i \in OfSection(spans, sec) :
                  \E n \in 1..Len(SourceIndices(spans, sec)) : SourceIndices(spans, sec)[n] = i
           /\ \A n, m \in 1..Len(SourceIndices(spans, sec)) :
                  SourceIndices(spans, sec)[n] = SourceIndices(spans, sec)[m] => n = m
<1> DEFINE K   == OfSection(spans, sec)
           ids == [i \in 1..Len(spans) |-> i]
           all == AtIndices(ids, K)
           c   == Cardinality(K)
<1>1. SourceIndices(spans, sec) = all
  BY DEF SourceIndices, OfSection
<1>2. K \in SUBSET Nat /\ IsFiniteSet(K) /\ c \in Nat /\ K \subseteq 1..Len(spans)
  BY SectionFinite DEF OfSection
<1>3. \A i \in K : ids[i] = i
  BY <1>2
<1> HIDE DEF ids
<1>4. /\ DOMAIN all = 1..c
      /\ \A n \in DOMAIN all : Index(K, n) \in K /\ all[n] = ids[Index(K, n)]
      /\ \A k \in K : \E n \in DOMAIN all : Index(K, n) = k
      /\ \A n, m \in DOMAIN all : Index(K, n) = Index(K, m) => n = m
  BY <1>2, KeptEvents
<1>5. all = [n \in 1..c |-> all[n]]
  BY <1>4 DEF AtIndices
<1> HIDE DEF K, c
<1>6. \A n \in 1..c : all[n] \in K
  BY <1>3, <1>4
<1>7. \A i \in K : \E n \in 1..c : all[n] = i
  BY <1>3, <1>4
<1>8. \A n, m \in 1..c : all[n] = all[m] => n = m
  BY <1>3, <1>4
<1> HIDE DEF all
<1>9. all \in [1..c -> Nat]
  BY <1>2, <1>5, <1>6
<1>10. all \in Seq(Nat) /\ Len(all) = c
  BY <1>2, <1>9
<1>11. QED
  BY <1>1, <1>6, <1>7, <1>8, <1>10 DEF K

\* A section's candidates are a prefix of its source indices, and all of them
\* when none was dropped at the limit.
LEMMA ProvenancePrefix ==
    ASSUME NEW R, NEW spans \in Seq(R), NEW sec \in EventSections
    PROVE  /\ Provenance(spans, sec) \in Seq(Nat)
           /\ \A k \in DOMAIN Provenance(spans, sec) :
                  Provenance(spans, sec)[k] \in OfSection(spans, sec)
           /\ \A k, l \in DOMAIN Provenance(spans, sec) :
                  Provenance(spans, sec)[k] = Provenance(spans, sec)[l] => k = l
           /\ DroppedAtLimit(spans, sec) \in Nat
           /\ DroppedAtLimit(spans, sec) = 0 =>
                  \A i \in OfSection(spans, sec) :
                      \E k \in DOMAIN Provenance(spans, sec) : Provenance(spans, sec)[k] = i
<1> DEFINE all == SourceIndices(spans, sec)
           prov == Provenance(spans, sec)
           limit == Limits[sec]
<1>1. limit \in Nat
  BY ImportAssumption
<1>2. /\ all \in Seq(Nat)
      /\ \A k \in 1..Len(all) : all[k] \in OfSection(spans, sec)
      /\ \A i \in OfSection(spans, sec) : \E n \in 1..Len(all) : all[n] = i
      /\ \A n, m \in 1..Len(all) : all[n] = all[m] => n = m
  BY SourcesListed
<1> DEFINE n == IF Len(all) > limit THEN limit ELSE Len(all)
<1>3. prov = SubSeq(all, 1, n)
  BY DEF Provenance
<1>4. DroppedAtLimit(spans, sec) = Len(all) - Len(prov)
  BY DEF DroppedAtLimit
<1> HIDE DEF all, prov, limit
<1>5. PICK m \in Nat : m = Len(all)
  BY <1>2
<1>6. n \in Nat /\ n <= m /\ (n # m => n < m)
  BY <1>1, <1>5
<1> HIDE DEF n
<1>7. \A k \in 1..n : all[k] \in Nat
  BY <1>2, <1>5, <1>6, ElementOfSeq
<1>8. /\ prov \in Seq(Nat)
      /\ Len(prov) = IF 1 <= n THEN n - 1 + 1 ELSE 0
      /\ \A k \in 1..n - 1 + 1 : prov[k] = all[1 + k - 1]
  BY <1>3, <1>6, <1>7, SubSeqProperties
<1>9. Len(prov) = n /\ \A k \in 1..n : prov[k] = all[k]
  BY <1>6, <1>8
<1>10. DOMAIN prov = 1..n
  BY <1>8, <1>9
<1>11. \A k \in 1..n : prov[k] \in OfSection(spans, sec)
  BY <1>2, <1>5, <1>6, <1>9
<1>12. DroppedAtLimit(spans, sec) = m - n
  BY <1>4, <1>5, <1>9
<1>13. DroppedAtLimit(spans, sec) \in Nat /\ (DroppedAtLimit(spans, sec) = 0 => n = m)
  BY <1>6, <1>12
<1>14. n = m => \A i \in OfSection(spans, sec) : \E k \in 1..n : prov[k] = i
  BY <1>2, <1>5, <1>9
<1>15. \A k, l \in 1..n : prov[k] = prov[l] => k = l
  BY <1>2, <1>5, <1>6, <1>9
<1>16. QED
  BY <1>8, <1>10, <1>11, <1>13, <1>14, <1>15 DEF prov

\* The events of a candidate run are those of its provenance.
LEMMA CandidateDomain ==
    ASSUME NEW R, NEW spans \in Seq(R), NEW sec \in EventSections
    PROVE  DOMAIN CandidateRun(spans)[sec] = DOMAIN Provenance(spans, sec)
<1>1. CandidateRun(spans)[sec] = CandidateEvents(spans, sec)
  BY DEF CandidateRun, EventSections, ChildSections
<1>2. QED
  BY <1>1 DEF CandidateEvents

\* Every retained source index is the index of a span.
LEMMA RetainedFinite ==
    ASSUME NEW R, NEW spans \in Seq(R)
    PROVE  /\ RetainedIndices(spans) \in SUBSET Nat /\ IsFiniteSet(RetainedIndices(spans))
           /\ RetainedIndices(spans) \subseteq 1..Len(spans)
<1>1. ASSUME NEW sec \in EventSections, NEW k \in DOMAIN CandidateRun(spans)[sec]
      PROVE  Provenance(spans, sec)[k] \in 1..Len(spans)
  <2>1. Provenance(spans, sec)[k] \in OfSection(spans, sec)
    BY CandidateDomain, ProvenancePrefix
  <2>2. QED
    BY <2>1 DEF OfSection
<1>2. RetainedIndices(spans) \subseteq 1..Len(spans)
  BY <1>1 DEF RetainedIndices, JoinSources
<1>3. Len(spans) \in Nat /\ IsFiniteSet(1..Len(spans))
  BY FS_Interval
<1>4. QED
  BY <1>2, <1>3, FS_Subset

\* A retained source is where its index says.
LEMMA SourceRetained ==
    ASSUME NEW R, NEW spans \in Seq(R), NEW i \in RetainedIndices(spans)
    PROVE  \E j \in DOMAIN RetainedSources(spans) : RetainedSources(spans)[j] = spans[i]
<1> DEFINE K == RetainedIndices(spans)
<1>1. K \in SUBSET Nat /\ IsFiniteSet(K)
  BY RetainedFinite
<1>2. RetainedSources(spans) = AtIndices(spans, K)
  BY DEF RetainedSources
<1> HIDE DEF K
<1>3. /\ \A n \in DOMAIN AtIndices(spans, K) : AtIndices(spans, K)[n] = spans[Index(K, n)]
      /\ \A k \in K : \E n \in DOMAIN AtIndices(spans, K) : Index(K, n) = k
  BY <1>1, KeptEvents
<1>4. QED
  BY <1>2, <1>3 DEF K

\* In a candidate run that is strictly valid, every accepted span of a section
\* without drops is a retained source.
LEMMA StrictRetainsAll ==
    ASSUME NEW R, NEW spans \in Seq(R), ValidateStrict(CandidateRun(spans)),
           NEW sec \in EventSections, DroppedAtLimit(spans, sec) = 0,
           NEW i \in OfSection(spans, sec)
    PROVE  i \in RetainedIndices(spans)
<1> DEFINE rn == CandidateRun(spans)
<1>1. PICK k \in DOMAIN Provenance(spans, sec) : Provenance(spans, sec)[k] = i
  BY ProvenancePrefix
<1>2. k \in DOMAIN rn[sec]
  BY CandidateDomain
<1>3. ~Excluded(Report(rn), sec, k)
  BY StrictExcludesNothing
<1>4. RetainedIndices(spans) = JoinSources(spans, rn, Report(rn))
  BY DEF RetainedIndices
<1> HIDE DEF rn
<1>5. QED
  BY <1>1, <1>2, <1>3, <1>4 DEF JoinSources

\* The events of a candidate run, one by one.
LEMMA CandidateEvent ==
    ASSUME NEW R, NEW spans \in Seq(R), NEW sec \in EventSections,
           NEW k \in DOMAIN Provenance(spans, sec)
    PROVE  /\ k \in DOMAIN CandidateRun(spans)[sec]
           /\ CandidateRun(spans)[sec][k] = EventOf(spans[Provenance(spans, sec)[k]])
<1>1. CandidateRun(spans)[sec] = CandidateEvents(spans, sec)
  BY DEF CandidateRun, EventSections, ChildSections
<1>2. QED
  BY <1>1 DEF CandidateEvents

----------------------------------------------------------------------------
(* Importing the retained sources again.                                   *)

\* The source indices of a section are in order.
LEMMA SourcesInOrder ==
    ASSUME NEW R, NEW spans \in Seq(R), NEW sec
    PROVE  /\ SourceIndices(spans, sec) \in Seq(Nat)
           /\ Len(SourceIndices(spans, sec)) = Cardinality(OfSection(spans, sec))
           /\ \A m \in 1..Cardinality(OfSection(spans, sec)) :
                  SourceIndices(spans, sec)[m] = Index(OfSection(spans, sec), m)
<1> DEFINE K   == OfSection(spans, sec)
           ids == [i \in 1..Len(spans) |-> i]
           all == AtIndices(ids, K)
           c   == Cardinality(K)
<1>1. SourceIndices(spans, sec) = all
  BY DEF SourceIndices, OfSection
<1>2. K \in SUBSET Nat /\ IsFiniteSet(K) /\ c \in Nat /\ K \subseteq 1..Len(spans)
  BY SectionFinite DEF OfSection
<1>3. \A i \in K : ids[i] = i
  BY <1>2
<1> HIDE DEF ids
<1>4. DOMAIN all = 1..c /\ \A m \in DOMAIN all : Index(K, m) \in K /\ all[m] = ids[Index(K, m)]
  BY <1>2, KeptEvents
<1>5. all \in Seq(Nat)
  BY <1>1, SourcesListed
<1> HIDE DEF K, c, all
<1>6. \A m \in 1..c : all[m] = Index(K, m)
  BY <1>3, <1>4
<1>7. Len(all) = c
  BY <1>2, <1>4, <1>5
<1>8. QED
  BY <1>1, <1>5, <1>6, <1>7 DEF K, c

\* A section's candidates are its first sources, all of them if they fit.
LEMMA ProvenanceInOrder ==
    ASSUME NEW R, NEW spans \in Seq(R), NEW sec \in EventSections
    PROVE  LET O == OfSection(spans, sec)
               n == Len(Provenance(spans, sec))
           IN  /\ DOMAIN Provenance(spans, sec) = 1..n
               /\ n \in Nat /\ n <= Cardinality(O) /\ n <= Limits[sec]
               /\ Cardinality(O) <= Limits[sec] => n = Cardinality(O)
               /\ \A m \in 1..n : Provenance(spans, sec)[m] = Index(O, m)
<1> DEFINE all   == SourceIndices(spans, sec)
           prov  == Provenance(spans, sec)
           limit == Limits[sec]
           O     == OfSection(spans, sec)
           c     == Cardinality(O)
           n     == IF Len(all) > limit THEN limit ELSE Len(all)
<1>1. limit \in Nat
  BY ImportAssumption
<1>2. all \in Seq(Nat) /\ Len(all) = c /\ \A m \in 1..c : all[m] = Index(O, m)
  BY SourcesInOrder
<1>3. c \in Nat
  BY SectionFinite
<1>4. prov = SubSeq(all, 1, n)
  BY DEF Provenance
<1> HIDE DEF all, prov, limit, c
<1>5. n \in Nat /\ n <= c /\ n <= limit /\ (c <= limit => n = c) /\ n <= Len(all)
  BY <1>1, <1>2, <1>3
<1> HIDE DEF n
<1>6. \A k \in 1..n : all[k] \in Nat
  BY <1>2, <1>3, <1>5, ElementOfSeq
<1>7. /\ prov \in Seq(Nat)
      /\ Len(prov) = IF 1 <= n THEN n - 1 + 1 ELSE 0
      /\ \A k \in 1..n - 1 + 1 : prov[k] = all[1 + k - 1]
  BY <1>4, <1>5, <1>6, SubSeqProperties
<1>8. Len(prov) = n /\ \A k \in 1..n : prov[k] = all[k]
  BY <1>5, <1>7
<1>9. DOMAIN prov = 1..n
  BY <1>7, <1>8
<1>10. \A k \in 1..n : prov[k] = Index(O, k)
  BY <1>2, <1>3, <1>5, <1>8
<1>11. QED
  BY <1>5, <1>8, <1>9, <1>10 DEF prov, limit, c

\* The candidates of a section that the report does not exclude.
Unexcluded(spans, sec) ==
    {k \in DOMAIN CandidateRun(spans)[sec] : ~Excluded(Report(CandidateRun(spans)), sec, k)}

\* The retained source indices by section: an index of one section is none of
\* another's.
LEMMA RetainedBySection ==
    ASSUME NEW R, NEW spans \in Seq(R), NEW sec \in EventSections, NEW i
    PROVE  i \in RetainedIndices(spans) /\ Accepted(spans[i]) /\ SectionOf[spans[i].kind] = sec
           <=> \E k \in Unexcluded(spans, sec) : i = Provenance(spans, sec)[k]
<1>1. RetainedIndices(spans) =
        UNION {{Provenance(spans, s)[k] : k \in Unexcluded(spans, s)} : s \in EventSections}
  BY DEF RetainedIndices, JoinSources, Unexcluded
<1>2. ASSUME NEW s \in EventSections, NEW k \in Unexcluded(spans, s)
      PROVE  /\ Accepted(spans[Provenance(spans, s)[k]])
             /\ SectionOf[spans[Provenance(spans, s)[k]].kind] = s
  <2>1. k \in DOMAIN Provenance(spans, s)
    BY CandidateDomain DEF Unexcluded
  <2>2. Provenance(spans, s)[k] \in OfSection(spans, s)
    BY <2>1, ProvenancePrefix
  <2>3. QED
    BY <2>2 DEF OfSection
<1>3. ASSUME i \in RetainedIndices(spans), SectionOf[spans[i].kind] = sec
      PROVE  \E k \in Unexcluded(spans, sec) : i = Provenance(spans, sec)[k]
  <2>1. PICK s \in EventSections : i \in {Provenance(spans, s)[k] : k \in Unexcluded(spans, s)}
    BY <1>1, <1>3
  <2>2. PICK k \in Unexcluded(spans, s) : i = Provenance(spans, s)[k]
    BY <2>1
  <2>3. s = sec
    BY <1>2, <1>3, <2>2
  <2>4. QED
    BY <2>2, <2>3
<1>4. ASSUME NEW k \in Unexcluded(spans, sec), i = Provenance(spans, sec)[k]
      PROVE  i \in RetainedIndices(spans) /\ Accepted(spans[i]) /\ SectionOf[spans[i].kind] = sec
  BY <1>1, <1>2, <1>4
<1>5. QED
  BY <1>3, <1>4

\* The retained sources are span records, in the order of their indices.
LEMMA SourcesKept ==
    ASSUME NEW R, NEW spans \in Seq(R)
    PROVE  LET K == RetainedIndices(spans)
           IN  /\ RetainedSources(spans) \in Seq(R)
               /\ Cardinality(K) \in Nat /\ Len(RetainedSources(spans)) = Cardinality(K)
               /\ \A m \in 1..Cardinality(K) :
                      /\ Index(K, m) \in K /\ Index(K, m) \in Nat
                      /\ RetainedSources(spans)[m] = spans[Index(K, m)]
               /\ \A l, m \in 1..Cardinality(K) : l < m => Index(K, l) < Index(K, m)
<1> DEFINE K == RetainedIndices(spans)
           c == Cardinality(K)
           sources == AtIndices(spans, K)
<1>1. K \in SUBSET Nat /\ IsFiniteSet(K) /\ K \in SUBSET DOMAIN spans
  BY RetainedFinite
<1>2. RetainedSources(spans) = sources
  BY DEF RetainedSources
<1> HIDE DEF K
<1>3. sources \in Seq(R) /\ Len(sources) = c
  BY <1>1, KeptSection
<1>4. c \in Nat
  BY <1>1, FS_CardinalityType
<1>5. DOMAIN sources = 1..c
  BY <1>1, KeptEvents
<1>6. \A m \in DOMAIN sources : Index(K, m) \in K /\ sources[m] = spans[Index(K, m)]
  BY <1>1, KeptEvents
<1>7. \A l, m \in 1..c : l < m => Index(K, l) < Index(K, m)
  BY <1>1, IndexOrder
<1> HIDE DEF sources, c
<1>8. \A m \in 1..c : Index(K, m) \in K /\ Index(K, m) \in Nat /\ sources[m] = spans[Index(K, m)]
  BY <1>1, <1>5, <1>6
<1>9. QED
  BY <1>2, <1>3, <1>4, <1>7, <1>8 DEF K, c

\* Importing the retained sources again makes the events that the report does
\* not exclude the candidates, in the same order, and no limit is hit.
LEMMA ReimportEvents ==
    ASSUME NEW R, NEW spans \in Seq(R), NEW sec \in EventSections
    PROVE  /\ CandidateRun(RetainedSources(spans))[sec] =
                  AtIndices(CandidateRun(spans)[sec], Unexcluded(spans, sec))
           /\ Cardinality(OfSection(RetainedSources(spans), sec)) <= Limits[sec]
<1> DEFINE K       == RetainedIndices(spans)
           c       == Cardinality(K)
           sources == RetainedSources(spans)
           prov    == Provenance(spans, sec)
           n       == Len(prov)
           U       == Unexcluded(spans, sec)
           S       == OfSection(sources, sec)
           f       == [m \in 1..c |-> Index(K, m)]
           g       == [m \in 1..n |-> prov[m]]
           O       == OfSection(spans, sec)
<1>1. /\ sources \in Seq(R) /\ c \in Nat /\ Len(sources) = c
      /\ \A m \in 1..c : Index(K, m) \in K /\ Index(K, m) \in Nat /\ sources[m] = spans[Index(K, m)]
      /\ \A l, m \in 1..c : l < m => Index(K, l) < Index(K, m)
  BY SourcesKept
<1>2. /\ DOMAIN prov = 1..n /\ n \in Nat /\ n <= Cardinality(O) /\ n <= Limits[sec]
      /\ \A m \in 1..n : prov[m] = Index(O, m)
  BY ProvenanceInOrder
<1>3. U \in SUBSET (1..n)
  BY <1>2, CandidateDomain DEF Unexcluded
<1>4. S \in SUBSET (1..c) /\ \A m \in 1..c : m \in S <=>
          Accepted(spans[Index(K, m)]) /\ SectionOf[spans[Index(K, m)].kind] = sec
  BY <1>1 DEF OfSection
<1>5. f \in [1..c -> Nat] /\ \A m \in 1..c : f[m] = Index(K, m)
  BY <1>1
<1>6. \A l, m \in 1..c : l < m => f[l] < f[m]
  BY <1>1, <1>5
<1>7. g \in [1..n -> Nat] /\ (\A l, m \in 1..n : l < m => g[l] < g[m]) /\ \A m \in 1..n : g[m] = prov[m]
  <2>1. O \in SUBSET Nat /\ IsFiniteSet(O) /\ Cardinality(O) \in Nat
    BY SectionFinite
  <2>2. \A m \in 1..n : m \in 1..Cardinality(O)
    BY <1>2, <2>1
  <2>3. \A m \in 1..Cardinality(O) : Index(O, m) \in O
    BY <2>1, RankBijective DEF Index
  <2>4. \A l, m \in 1..Cardinality(O) : l < m => Index(O, l) < Index(O, m)
    BY <2>1, IndexOrder
  <2> HIDE DEF O, n, prov
  <2>5. \A m \in 1..n : prov[m] \in Nat
    BY <1>2, <2>1, <2>2, <2>3
  <2>6. QED
    BY <1>2, <2>2, <2>4, <2>5
<1>8. {f[m] : m \in S} = {g[m] : m \in U}
  <2>1. \A i : i \in K /\ Accepted(spans[i]) /\ SectionOf[spans[i].kind] = sec
               <=> \E k \in U : i = prov[k]
    BY RetainedBySection
  <2>2. \A i \in K : \E m \in 1..c : Index(K, m) = i
    <3>1. K \in SUBSET Nat /\ IsFiniteSet(K)
      BY RetainedFinite
    <3>2. DOMAIN AtIndices(spans, K) = 1..c
      BY <3>1, KeptEvents
    <3>3. \A k \in K : \E m \in DOMAIN AtIndices(spans, K) : Index(K, m) = k
      BY <3>1, KeptEvents
    <3>4. QED
      BY <3>2, <3>3
  <2> HIDE DEF K, c, sources, prov, n, U, S, f, g
  <2>3. ASSUME NEW m \in S PROVE \E k \in U : f[m] = g[k]
    <3>1. m \in 1..c /\ f[m] = Index(K, m) /\ f[m] \in K
      BY <1>1, <1>4, <1>5
    <3>2. \E k \in U : f[m] = prov[k]
      BY <1>4, <2>1, <3>1
    <3>3. QED
      BY <1>3, <1>7, <3>2
  <2>4. ASSUME NEW k \in U PROVE \E m \in S : f[m] = g[k]
    <3>1. k \in 1..n /\ g[k] = prov[k]
      BY <1>3, <1>7
    <3>2. g[k] \in K /\ Accepted(spans[g[k]]) /\ SectionOf[spans[g[k]].kind] = sec
      BY <2>1, <3>1
    <3>3. PICK m \in 1..c : Index(K, m) = g[k]
      BY <2>2, <3>2
    <3>4. QED
      BY <1>4, <1>5, <3>2, <3>3
  <2>5. QED
    BY <2>3, <2>4
<1> DEFINE T == {f[m] : m \in S}
<1> HIDE DEF K, c, sources, prov, n, U, S, f, g, O
<1>9. /\ Cardinality(T) = Cardinality(S)
      /\ \A m \in 1..Cardinality(S) : Index(T, m) = f[Index(S, m)]
  BY <1>1, <1>4, <1>5, <1>6, ImageInOrder
<1>10. /\ U \in SUBSET Nat /\ IsFiniteSet(U) /\ Cardinality(T) = Cardinality(U)
       /\ \A m \in 1..Cardinality(U) : Index(T, m) = g[Index(U, m)]
  <2> DEFINE V == {g[m] : m \in U}
  <2>1. /\ U \in SUBSET Nat /\ IsFiniteSet(U) /\ Cardinality(V) = Cardinality(U)
        /\ \A m \in 1..Cardinality(U) : Index(V, m) = g[Index(U, m)]
    BY <1>2, <1>3, <1>7, ImageInOrder
  <2>2. T = V
    BY <1>8
  <2> HIDE DEF T, V
  <2>3. QED
    BY <2>1, <2>2
<1> DEFINE u == Cardinality(U)
<1>11. u \in Nat /\ u <= n
  <2>1. IsFiniteSet(1..n) /\ Cardinality(1..n) = IF 1 > n THEN 0 ELSE n - 1 + 1
    BY <1>2, FS_Interval, 1 \in Int, n \in Int
  <2>2. Cardinality(U) <= Cardinality(1..n) /\ Cardinality(U) \in Nat
    BY <1>3, <2>1, FS_Subset, FS_CardinalityType
  <2>3. QED
    BY <1>2, <2>1, <2>2
<1> HIDE DEF u, T
<1>12. Cardinality(S) = u /\ u <= Limits[sec] /\ Limits[sec] \in Nat
  BY <1>2, <1>9, <1>10, <1>11, ImportAssumption DEF u
<1> DEFINE again == Provenance(sources, sec)
<1>13. DOMAIN again = 1..u /\ \A m \in 1..u : again[m] = Index(S, m)
  <2>1. /\ DOMAIN again = 1..Len(again)
        /\ Cardinality(S) <= Limits[sec] => Len(again) = Cardinality(S)
        /\ \A m \in 1..Len(again) : again[m] = Index(S, m)
    BY <1>1, ProvenanceInOrder DEF S
  <2>2. QED
    BY <1>12, <2>1
<1> DEFINE events == CandidateRun(spans)[sec]
           new    == CandidateRun(sources)[sec]
<1>14. \A k \in 1..n : events[k] = EventOf(spans[prov[k]])
  BY <1>2, CandidateEvent DEF prov
<1>15. DOMAIN new = 1..u /\ \A m \in 1..u : new[m] = EventOf(sources[again[m]])
  <2>1. DOMAIN new = DOMAIN again
    BY <1>1, CandidateDomain
  <2>2. \A m \in DOMAIN again : new[m] = EventOf(sources[again[m]])
    BY <1>1, CandidateEvent
  <2>3. QED
    BY <1>13, <2>1, <2>2
<1>16. new = [m \in 1..u |-> new[m]]
  <2>1. new = CandidateEvents(sources, sec)
    BY DEF CandidateRun, EventSections, ChildSections
  <2>2. new = [k \in DOMAIN again |-> EventOf(sources[again[k]])]
    BY <2>1 DEF CandidateEvents
  <2>3. QED
    BY <1>13, <2>2
<1> HIDE DEF new, events, again
<1>17. /\ DOMAIN AtIndices(events, U) = 1..u
       /\ \A m \in DOMAIN AtIndices(events, U) : AtIndices(events, U)[m] = events[Index(U, m)]
  BY <1>10, KeptEvents DEF u
<1>18. AtIndices(events, U) = [m \in 1..u |-> AtIndices(events, U)[m]]
  BY <1>17 DEF AtIndices
<1>19. ASSUME NEW m \in 1..u PROVE new[m] = AtIndices(events, U)[m]
  <2>1. Index(S, m) \in S /\ Index(U, m) \in U
    <3>1. S \in SUBSET Nat /\ IsFiniteSet(S)
      BY <1>1, SectionFinite DEF S
    <3>2. Index(S, m) \in S
      BY <1>12, <3>1, RankBijective DEF Index
    <3>3. Index(U, m) \in U
      BY <1>10, RankBijective DEF Index, u
    <3>4. QED
      BY <3>2, <3>3
  <2>2. Index(K, Index(S, m)) = prov[Index(U, m)]
    <3>1. f[Index(S, m)] = g[Index(U, m)]
      BY <1>9, <1>10, <1>12 DEF u
    <3>2. QED
      BY <1>3, <1>4, <1>5, <1>7, <2>1, <3>1
  <2>3. sources[again[m]] = spans[prov[Index(U, m)]]
    BY <1>1, <1>4, <1>13, <2>1, <2>2
  <2>4. QED
    BY <1>3, <1>14, <1>15, <1>17, <2>1, <2>3
<1>20. Cardinality(S) <= Limits[sec]
  BY <1>12
<1>21. QED
  BY <1>16, <1>18, <1>19, <1>20 DEF new, events, U, S, sources

\* Candidates are sections of events with a sound shape.
LEMMA CandidateSection ==
    ASSUME NEW R, NEW spans \in Seq(R), NEW sec \in EventSections
    PROVE  /\ CandidateRun(spans)[sec] \in Seq(Range(CandidateRun(spans)[sec]))
           /\ \A k \in DOMAIN CandidateRun(spans)[sec] : CandidateRun(spans)[sec][k].shape \in EventShapes
<1> DEFINE events == CandidateRun(spans)[sec]
           prov   == Provenance(spans, sec)
           n      == Len(prov)
<1>1. DOMAIN prov = 1..n /\ n \in Nat
  BY ProvenanceInOrder
<1>2. DOMAIN events = 1..n
  BY <1>1, CandidateDomain
<1>3. \A k \in 1..n : events[k] = EventOf(spans[prov[k]])
  BY <1>1, CandidateEvent
<1>4. events = [k \in 1..n |-> events[k]]
  <2>1. events = CandidateEvents(spans, sec)
    BY DEF CandidateRun, EventSections, ChildSections
  <2>2. events = [k \in DOMAIN prov |-> EventOf(spans[prov[k]])]
    BY <2>1 DEF CandidateEvents
  <2>3. QED
    BY <1>1, <2>2
<1> HIDE DEF events, n, prov
<1>5. events \in [1..n -> Range(events)]
  BY <1>2, <1>4 DEF Range
<1>6. \A k \in 1..n : events[k].shape \in EventShapes
  <2>1. ASSUME NEW r PROVE EventOf(r).shape = "ok"
    BY DEF EventOf
  <2>2. QED
    BY <1>3, <2>1 DEF EventShapes
<1>7. QED
  BY <1>1, <1>2, <1>5, <1>6 DEF events

\* What the report leaves is what normalization retains.
LEMMA UnexcludedKept ==
    ASSUME NEW R, NEW spans \in Seq(R)
    PROVE  LET rn == CandidateRun(spans)
           IN  /\ Unexcluded(spans, "requests") = KeptRequests(rn.requests)
               /\ \A sec \in ChildSections : Unexcluded(spans, sec) = KeptChildren(rn.requests, rn[sec])
<1> DEFINE rn == CandidateRun(spans)
<1>1. "requests" \in EventSections /\ rn["requests"] = rn.requests
  BY DEF EventSections
<1>2. \A k \in DOMAIN rn.requests : rn.requests[k].shape \in EventShapes
  BY <1>1, CandidateSection
<1>3. ASSUME NEW sec \in ChildSections PROVE \A k \in DOMAIN rn[sec] : rn[sec][k].shape \in EventShapes
  <2>1. sec \in EventSections
    BY DEF EventSections
  <2>2. QED
    BY <2>1, CandidateSection
<1>4. /\ Unexcluded(spans, "requests") = {k \in DOMAIN rn.requests : ~Excluded(Report(rn), "requests", k)}
      /\ \A sec \in ChildSections : Unexcluded(spans, sec) = {k \in DOMAIN rn[sec] : ~Excluded(Report(rn), sec, k)}
  BY DEF Unexcluded
<1> HIDE DEF rn
<1>5. Unexcluded(spans, "requests") = KeptRequests(rn.requests)
  BY <1>2, <1>4, RequestExclusion DEF KeptRequests
<1>6. ASSUME NEW sec \in ChildSections PROVE Unexcluded(spans, sec) = KeptChildren(rn.requests, rn[sec])
  <2>1. \A k \in DOMAIN rn[sec] : Excluded(Report(rn), sec, k) <=> ~ChildRetained(rn.requests, rn[sec][k])
    BY <1>3, ChildExclusion
  <2>2. QED
    BY <1>4, <2>1 DEF KeptChildren
<1>7. QED
  BY <1>5, <1>6 DEF rn

\* The sections of a normalized candidate run.
LEMMA NormalizedSections ==
    ASSUME NEW spans
    PROVE  LET rn == CandidateRun(spans)
               out == NormalizeRun(rn)
           IN  /\ out.requests = RetainedRequests(rn.requests)
               /\ \A sec \in ChildSections : out[sec] = RetainedChildren(rn.requests, rn[sec])
               /\ EventSections \cup {"runtime"} \subseteq DOMAIN out
<1> DEFINE rn  == CandidateRun(spans)
           out == NormalizeRun(rn)
<1>1. DOMAIN rn = {"requests", "stages", "queues", "inflight", "runtime", "finalized", "meta"}
  BY DEF CandidateRun
<1> HIDE DEF rn
<1>2. /\ out.requests = RetainedRequests(rn.requests)
      /\ out.stages = RetainedChildren(rn.requests, rn.stages)
      /\ out.queues = RetainedChildren(rn.requests, rn.queues)
      /\ DOMAIN out = DOMAIN rn
  BY <1>1 DEF NormalizeRun
<1> HIDE DEF out
<1>3. EventSections \cup {"runtime"} \subseteq DOMAIN out
  BY <1>1, <1>2 DEF EventSections, ChildSections
<1>4. \A sec \in ChildSections : sec = "stages" \/ sec = "queues"
  BY DEF ChildSections
<1>5. QED
  BY <1>2, <1>3, <1>4 DEF rn, out

\* Importing the retained sources again normalizes to the same requests,
\* stages and queues.
THEOREM ReimportRun ==
    ASSUME NEW R, NEW spans \in Seq(R), NEW sec \in EventSections
    PROVE  NormalizeRun(CandidateRun(RetainedSources(spans)))[sec] = NormalizeRun(CandidateRun(spans))[sec]
<1> DEFINE rn    == CandidateRun(spans)
           again == CandidateRun(RetainedSources(spans))
           reqs  == rn.requests
           cs    == rn[sec]
           kept  == AtIndices(reqs, KeptRequests(reqs))
           left  == AtIndices(cs, KeptChildren(reqs, cs))
<1>1. "requests" \in EventSections
  BY DEF EventSections
<1>2. again.requests = kept
  BY <1>1, ReimportEvents, UnexcludedKept
<1>3. /\ NormalizeRun(again).requests = RetainedRequests(again.requests)
      /\ NormalizeRun(rn).requests = RetainedRequests(reqs)
  BY NormalizedSections
<1>4. reqs \in Seq(Range(reqs)) /\ cs \in Seq(Range(cs))
  BY <1>1, CandidateSection
<1>5. CASE sec \in ChildSections
  <2>1. again[sec] = left
    BY <1>5, ReimportEvents, UnexcludedKept
  <2>2. /\ NormalizeRun(again)[sec] = RetainedChildren(again.requests, again[sec])
        /\ NormalizeRun(rn)[sec] = RetainedChildren(reqs, cs)
    BY <1>5, NormalizedSections
  <2> HIDE DEF reqs, cs, again, rn
  <2>3. RetainedChildren(kept, left) = RetainedChildren(reqs, cs)
    BY <1>4, ChildrenAgain
  <2> HIDE DEF kept, left
  <2>4. NormalizeRun(again)[sec] = NormalizeRun(rn)[sec]
    BY <1>2, <2>1, <2>2, <2>3
  <2>5. QED
    BY <2>4 DEF again, rn
<1>6. CASE sec = "requests"
  <2> HIDE DEF reqs, again, rn
  <2>1. RetainedRequests(kept) = RetainedRequests(reqs)
    BY <1>4, RequestsAgain
  <2> HIDE DEF kept
  <2>2. NormalizeRun(again).requests = NormalizeRun(rn).requests
    BY <1>2, <1>3, <2>1
  <2>3. QED
    BY <1>6, <2>2 DEF again, rn
<1>7. QED
  BY <1>5, <1>6 DEF EventSections

\* The candidates of the retained sources are all retained.
LEMMA AgainUnexcluded ==
    ASSUME NEW R, NEW spans \in Seq(R), NEW sec \in EventSections
    PROVE  LET sources == RetainedSources(spans)
           IN  Unexcluded(sources, sec) = DOMAIN CandidateRun(sources)[sec]
<1> DEFINE rn      == CandidateRun(spans)
           sources == RetainedSources(spans)
           again   == CandidateRun(sources)
           reqs    == rn.requests
           cs      == rn[sec]
           kept    == AtIndices(reqs, KeptRequests(reqs))
           left    == AtIndices(cs, KeptChildren(reqs, cs))
<1>1. "requests" \in EventSections /\ sources \in Seq(R)
  BY SourcesKept DEF EventSections
<1>2. again.requests = kept
  BY <1>1, ReimportEvents, UnexcludedKept
<1>3. reqs \in Seq(Range(reqs)) /\ cs \in Seq(Range(cs))
  BY <1>1, CandidateSection
<1>4. /\ Unexcluded(sources, "requests") = KeptRequests(again.requests)
      /\ \A s \in ChildSections : Unexcluded(sources, s) = KeptChildren(again.requests, again[s])
  BY <1>1, UnexcludedKept
<1>5. CASE sec \in ChildSections
  <2>1. again[sec] = left
    BY <1>5, ReimportEvents, UnexcludedKept
  <2> HIDE DEF reqs, cs, again, rn, sources
  <2>2. KeptChildren(kept, left) = DOMAIN left
    BY <1>3, ChildrenAgain
  <2> HIDE DEF kept, left
  <2>3. Unexcluded(sources, sec) = DOMAIN again[sec]
    BY <1>2, <1>4, <1>5, <2>1, <2>2
  <2>4. QED
    BY <2>3 DEF again, sources
<1>6. CASE sec = "requests"
  <2> HIDE DEF reqs, again, rn, sources
  <2>1. KeptRequests(kept) = DOMAIN kept
    BY <1>3, RequestsAgain
  <2> HIDE DEF kept
  <2>2. Unexcluded(sources, sec) = DOMAIN again[sec]
    BY <1>2, <1>4, <1>6, <2>1
  <2>3. QED
    BY <2>2 DEF again, sources
<1>7. QED
  BY <1>5, <1>6 DEF EventSections

\* A retained source is a candidate of some section.
LEMMA RetainedCandidate ==
    ASSUME NEW R, NEW spans \in Seq(R), NEW i \in RetainedIndices(spans)
    PROVE  \E sec \in EventSections : i \in OfSection(spans, sec)
<1>1. PICK sec \in EventSections : \E k \in DOMAIN CandidateRun(spans)[sec] : i = Provenance(spans, sec)[k]
  BY DEF RetainedIndices, JoinSources
<1>2. i \in OfSection(spans, sec)
  BY <1>1, CandidateDomain, ProvenancePrefix
<1>3. QED
  BY <1>2

\* Importing the retained sources again retains all of them.
LEMMA RetainedAgain ==
    ASSUME NEW R, NEW spans \in Seq(R)
    PROVE  RetainedSources(RetainedSources(spans)) = RetainedSources(spans)
<1> DEFINE K       == RetainedIndices(spans)
           sources == RetainedSources(spans)
           c       == Cardinality(K)
<1>1. /\ sources \in Seq(R) /\ c \in Nat /\ Len(sources) = c
      /\ \A m \in 1..c : Index(K, m) \in K /\ sources[m] = spans[Index(K, m)]
  BY SourcesKept
<1>2. \A sec \in EventSections : /\ Cardinality(OfSection(sources, sec)) <= Limits[sec]
                               /\ Unexcluded(sources, sec) = DOMAIN CandidateRun(sources)[sec]
  BY ReimportEvents, AgainUnexcluded
<1>3. \A i \in K : \E sec \in EventSections : i \in OfSection(spans, sec)
  BY RetainedCandidate
<1> HIDE DEF K, c, sources
<1>4. ASSUME NEW m \in 1..c PROVE m \in RetainedIndices(sources)
  <2>1. PICK sec \in EventSections : Index(K, m) \in OfSection(spans, sec)
    BY <1>1, <1>3
  <2>2. m \in OfSection(sources, sec)
    BY <1>1, <2>1 DEF OfSection
  <2>3. DroppedAtLimit(sources, sec) = 0
    <3>1. /\ Len(Provenance(sources, sec)) = Cardinality(OfSection(sources, sec))
          /\ Len(Provenance(sources, sec)) \in Nat
      BY <1>1, <1>2, ProvenanceInOrder
    <3>2. Len(SourceIndices(sources, sec)) = Cardinality(OfSection(sources, sec))
      BY <1>1, SourcesInOrder
    <3>3. QED
      BY <3>1, <3>2 DEF DroppedAtLimit
  <2>4. PICK k \in DOMAIN Provenance(sources, sec) : Provenance(sources, sec)[k] = m
    BY <1>1, <2>2, <2>3, ProvenancePrefix
  <2>5. k \in Unexcluded(sources, sec)
    BY <1>1, <1>2, CandidateDomain
  <2>6. QED
    BY <1>1, <2>4, <2>5, RetainedBySection
<1>5. RetainedIndices(sources) \subseteq 1..c
  BY <1>1, RetainedFinite
<1>6. RetainedIndices(sources) = DOMAIN sources
  <2>1. DOMAIN sources = 1..c
    BY <1>1
  <2>2. QED
    BY <1>4, <1>5, <2>1
<1>7. AtIndices(sources, DOMAIN sources) = sources
  BY <1>1, KeepAll
<1>8. QED
  BY <1>6, <1>7 DEF RetainedSources, sources

\* Importing the retained sources again gives the same run.
LEMMA RunAgain ==
    ASSUME NEW R, NEW spans \in Seq(R)
    PROVE  NormalizeRun(CandidateRun(RetainedSources(spans))) = NormalizeRun(CandidateRun(spans))
<1> DEFINE Whole(out) == [requests |-> out.requests, stages |-> out.stages, queues |-> out.queues,
                          inflight |-> AtIndices(<<>>, {}), runtime |-> <<>>, finalized |-> "ok", meta |-> {}]
<1>1. ASSUME NEW any PROVE NormalizeRun(CandidateRun(any)) = Whole(NormalizeRun(CandidateRun(any)))
  <2> DEFINE rn == CandidateRun(any)
  <2>1. /\ rn = [requests |-> rn.requests, stages |-> rn.stages, queues |-> rn.queues,
                 inflight |-> <<>>, runtime |-> <<>>, finalized |-> "ok", meta |-> {}]
        /\ rn.inflight = <<>> /\ rn.runtime = <<>>
    BY DEF CandidateRun
  <2> DEFINE rq == RetainedRequests(rn.requests)
             st == RetainedChildren(rn.requests, rn.stages)
             qu == RetainedChildren(rn.requests, rn.queues)
             fl == AtIndices(<<>>, {})
             rt == <<>>
  <2>2. NormalizeRun(rn) = [rn EXCEPT !.requests = rq, !.stages = st, !.queues = qu,
                                      !.inflight = fl, !.runtime = rt]
    <3>1. AtIndices(rn.inflight, {i \in DOMAIN rn.inflight : rn.inflight[i].gauge \notin BlankGauges}) = fl
      <4>1. DOMAIN rn.inflight = {}
        BY <2>1
      <4>2. {i \in DOMAIN rn.inflight : rn.inflight[i].gauge \notin BlankGauges} = {}
        BY <4>1
      <4>3. QED
        BY <2>1, <4>2
    <3>2. [i \in DOMAIN rn.runtime |-> "ok"] = rt
      BY <2>1
    <3>3. QED
      BY <3>1, <3>2 DEF NormalizeRun
  <2> DEFINE a == rn.requests
             b == rn.stages
             d == rn.queues
  <2> HIDE DEF rq, st, qu, fl, rt
  <2>3. NormalizeRun(rn) = [requests |-> rq, stages |-> st, queues |-> qu, inflight |-> fl, runtime |-> rt,
                            finalized |-> "ok", meta |-> {}]
    <3>1. rn = [requests |-> a, stages |-> b, queues |-> d,
                inflight |-> <<>>, runtime |-> <<>>, finalized |-> "ok", meta |-> {}]
      BY <2>1
    <3>2. NormalizeRun(rn) = [rn EXCEPT !.requests = rq, !.stages = st, !.queues = qu,
                                        !.inflight = fl, !.runtime = rt]
      BY <2>2
    <3> DEFINE out == NormalizeRun(rn)
    <3> HIDE DEF rn, a, b, d, out
    <3>3. out = [rn EXCEPT !.requests = rq, !.stages = st, !.queues = qu, !.inflight = fl, !.runtime = rt]
      BY <3>2 DEF out
    <3>4. out = [requests |-> rq, stages |-> st, queues |-> qu, inflight |-> fl, runtime |-> rt,
                 finalized |-> "ok", meta |-> {}]
      BY <3>1, <3>3
    <3>5. QED
      BY <3>4 DEF out
  <2> DEFINE out == NormalizeRun(rn)
  <2> HIDE DEF out, rn
  <2>4. out = [requests |-> out.requests, stages |-> out.stages, queues |-> out.queues,
               inflight |-> fl, runtime |-> rt, finalized |-> "ok", meta |-> {}]
    BY <2>3 DEF out
  <2>5. QED
    BY <2>4 DEF out, rn, fl, rt
<1>2. \A sec \in {"requests", "stages", "queues"} :
          NormalizeRun(CandidateRun(RetainedSources(spans)))[sec] = NormalizeRun(CandidateRun(spans))[sec]
  BY ReimportRun DEF EventSections, ChildSections
<1>3. Whole(NormalizeRun(CandidateRun(RetainedSources(spans)))) = Whole(NormalizeRun(CandidateRun(spans)))
  BY <1>2
<1>4. QED
  BY <1>1, <1>3

\* A written span JSONL reads back as its sources, and imports to what they
\* normalize to.
LEMMA ReadBack ==
    ASSUME NEW R, NEW sources \in Seq(R), WriteJsonl(sources).error = "none"
    PROVE  LET again == ImportJsonl(WriteJsonl(sources).lines, FALSE)
           IN  /\ again.error = "none" /\ again.run = NormalizeRun(CandidateRun(sources))
               /\ again.bounds = MetadataBounds(EventSet(again.run))
               /\ again.sources = RetainedSources(sources)
<1> DEFINE lines == WriteJsonl(sources).lines
           line(k) == [form |-> "span", size |-> SpanBytes(sources[k]), span |-> sources[k]]
           read  == ReadSpans(lines, FALSE)
           full  == Imported(sources)
           warnings == ParseWarnings(lines)
<1>1. \A k \in DOMAIN sources : ~(SpanBytes(sources[k]) > RecordLimit)
  <2>1. Failed("too_large").error # "none"
    BY DEF Failed
  <2>2. QED
    BY <2>1 DEF WriteJsonl
<1>2. WriteJsonl(sources) = [error |-> "none", lines |-> [k \in DOMAIN sources |-> line(k)]]
  BY <1>1 DEF WriteJsonl
<1>3. lines = [k \in DOMAIN sources |-> line(k)]
  BY <1>2
<1> HIDE DEF lines
<1>4. DOMAIN lines = DOMAIN sources
  BY <1>3
<1>5. ASSUME NEW k \in DOMAIN lines
      PROVE  lines[k].span = sources[k] /\ LineResult(lines[k], FALSE) = "span"
  <2>1. lines[k].form = "span" /\ lines[k].size = SpanBytes(sources[k]) /\ lines[k].span = sources[k]
    BY <1>3
  <2>2. ~(lines[k].size > RecordLimit)
    BY <1>1, <1>4, <2>1
  <2>3. QED
    BY <2>1, <2>2 DEF LineResult, ParseRecord
<1>6. [j \in DOMAIN lines |-> lines[j].span] = sources
  <2>1. [j \in DOMAIN sources |-> sources[j]] = sources
    OBVIOUS
  <2>2. [j \in DOMAIN lines |-> lines[j].span] = [j \in DOMAIN sources |-> sources[j]]
    BY <1>4, <1>5
  <2>3. QED
    BY <2>1, <2>2
<1>7. {j \in DOMAIN lines : LineResult(lines[j], FALSE) \notin {"skip", "span"}} = {}
  BY <1>5
<1>8. {j \in DOMAIN lines : LineResult(lines[j], FALSE) = "span"} = DOMAIN sources
  BY <1>4, <1>5
<1>9. read = [spans |-> AtIndices(sources, DOMAIN sources), error |-> "none"]
  BY <1>6, <1>7, <1>8, Zenon DEF ReadSpans
<1> HIDE DEF read, warnings
<1>10. read.spans = sources /\ read.error = "none"
  <2>1. AtIndices(sources, DOMAIN sources) = sources
    BY KeepAll
  <2>2. QED
    BY <1>9, <2>1
<1>11. ImportRead(read, warnings, FALSE) = WithParseWarnings(full, warnings)
  BY <1>10 DEF ImportRead, RunFromSpanRecords
<1>12. /\ full.error = "none" /\ full.run = NormalizeRun(CandidateRun(sources))
       /\ full.bounds = MetadataBounds(EventSet(full.run)) /\ full.sources = RetainedSources(sources)
       /\ {"error", "run", "lifecycle", "warnings", "bounds", "sources"} \subseteq DOMAIN full
  BY DEF Imported, ImportedOf
<1> HIDE DEF full
<1>13. WithParseWarnings(full, warnings) =
         [full EXCEPT !.lifecycle = full.lifecycle \cup warnings,
                      !.warnings  = full.warnings + Cardinality(warnings)]
  BY <1>12 DEF WithParseWarnings
<1>14. /\ ImportRead(read, warnings, FALSE).error = "none"
       /\ ImportRead(read, warnings, FALSE).run = full.run
       /\ ImportRead(read, warnings, FALSE).bounds = full.bounds
       /\ ImportRead(read, warnings, FALSE).sources = full.sources
  BY <1>11, <1>12, <1>13
<1>15. QED
  BY <1>12, <1>14 DEF ImportJsonl, read, warnings, lines
----------------------------------------------------------------------------
(* What an import says of the spans it leaves out.                         *)

\* A least member is the minimum.
LEMMA LeastIsMin ==
    ASSUME NEW S \in SUBSET Int, NEW m \in S, \A y \in S : m <= y
    PROVE  Min(S) = m
<1>1. \A x \in S : (\A y \in S : x <= y) => x = m
  OBVIOUS
<1>2. QED
  BY <1>1 DEF Min

\* A finite set of numbers has a minimum.
LEMMA MinExists ==
    ASSUME NEW S \in SUBSET Nat, IsFiniteSet(S), S # {}
    PROVE  Min(S) \in S /\ \A y \in S : Min(S) <= y
<1> DEFINE c == Cardinality(S)
           m == Index(S, 1)
<1>1. c \in Nat /\ c # 0
  BY FS_CardinalityType, FS_EmptySet
<1>2. 1 \in 1..c
  BY <1>1
<1>3. m \in S
  BY <1>2, RankBijective DEF Index
<1>4. ASSUME NEW y \in S PROVE m <= y
  <2>1. Rank(S, y) \in 1..c /\ Index(S, Rank(S, y)) = y
    BY IndexOfRank
  <2>2. CASE Rank(S, y) = 1
    BY <1>3, <2>1, <2>2
  <2>3. CASE 1 < Rank(S, y)
    <3>1. Index(S, 1) < Index(S, Rank(S, y))
      BY <1>2, <2>1, <2>3, IndexOrder
    <3>2. m < y /\ m \in Nat /\ y \in Nat
      BY <1>3, <2>1, <3>1
    <3> HIDE DEF m
    <3>3. QED
      BY <3>2
  <2>4. QED
    BY <1>1, <2>1, <2>2, <2>3
<1> HIDE DEF m
<1>5. S \in SUBSET Int
  OBVIOUS
<1>6. Min(S) = m
  BY <1>3, <1>4, <1>5, LeastIsMin
<1>7. QED
  BY <1>3, <1>4, <1>6

\* Natural numbers without a first one that fails do not fail.
LEMMA NoFirstFailure ==
    ASSUME NEW n \in Nat, NEW F \in SUBSET (0..n), \A k \in F : k # 0 /\ k - 1 \in F
    PROVE  F = {}
<1> SUFFICES ASSUME F # {} PROVE FALSE
  OBVIOUS
<1>1. IsFiniteSet(0..n)
  BY FS_Interval, 0 \in Int, n \in Int
<1>2. IsFiniteSet(F)
  BY <1>1, FS_Subset
<1>3. F \in SUBSET Nat
  OBVIOUS
<1>4. Min(F) \in F /\ \A k \in F : Min(F) <= k
  BY <1>2, <1>3, MinExists
<1>5. PICK k \in F : k = Min(F)
  BY <1>4
<1>6. k # 0 /\ k - 1 \in F /\ k <= k - 1
  BY <1>4, <1>5
<1>7. QED
  BY <1>3, <1>6

\* f is what flattening has after each of the first m sequences.
Flattened(seqs, m, f) == f = [i \in 1..m |-> IF i = 1 THEN seqs[i] ELSE f[i - 1] \o seqs[i]]

\* Flattening goes through all sequences.
LEMMA FlattenSteps ==
    ASSUME NEW seqs, NEW n \in Nat, Len(seqs) = n, n # 0
    PROVE  \E f : Flattened(seqs, n, f) /\ FlattenSeq(seqs) = f[n]
<1> DEFINE F == {m \in 0..n : ~\E f : Flattened(seqs, m, f)}
<1>1. ASSUME NEW k \in F
      PROVE  k # 0 /\ k - 1 \in F
  <2>1. k # 0
    <3> SUFFICES ASSUME k = 0 PROVE \E f : Flattened(seqs, k, f)
      OBVIOUS
    <3> DEFINE f == [i \in 1..0 |-> 0]
    <3>1. f = [i \in 1..0 |-> IF i = 1 THEN seqs[i] ELSE f[i - 1] \o seqs[i]]
      OBVIOUS
    <3>2. QED
      BY <3>1 DEF Flattened
  <2>2. ASSUME NEW f, Flattened(seqs, k - 1, f)
        PROVE  \E g : Flattened(seqs, k, g)
    <3> DEFINE last == IF k = 1 THEN seqs[k] ELSE f[k - 1] \o seqs[k]
               g == [i \in 1..k |-> IF i = k THEN last ELSE f[i]]
    <3>1. k \in Nat /\ k > 0
      BY <2>1
    <3>2. ASSUME NEW i \in 1..k
          PROVE  g[i] = IF i = 1 THEN seqs[i] ELSE g[i - 1] \o seqs[i]
      <4>1. CASE i = k /\ k = 1
        BY <3>1, <4>1
      <4>2. CASE i = k /\ k # 1
        <5>1. g[i] = f[k - 1] \o seqs[k]
          BY <4>2
        <5>2. k - 1 \in 1..k /\ k - 1 # k
          BY <3>1, <4>2
        <5>3. g[k - 1] = f[k - 1]
          BY <5>2
        <5> HIDE DEF g
        <5>4. QED
          BY <4>2, <5>1, <5>3
      <4>3. CASE i # k
        <5>1. i \in 1..(k - 1)
          BY <3>1, <4>3
        <5>2. g[i] = f[i]
          BY <4>3
        <5>3. f[i] = IF i = 1 THEN seqs[i] ELSE f[i - 1] \o seqs[i]
          BY <2>2, <5>1 DEF Flattened
        <5>4. CASE i = 1
          BY <5>2, <5>3, <5>4
        <5>5. CASE i # 1
          <6>1. i - 1 \in 1..k /\ i - 1 # k
            BY <3>1, <4>3, <5>5
          <6>2. g[i - 1] = f[i - 1]
            BY <6>1
          <6> HIDE DEF g
          <6>3. QED
            BY <5>2, <5>3, <5>5, <6>2
        <5>6. QED
          BY <5>4, <5>5
      <4>4. QED
        BY <4>1, <4>2, <4>3
    <3>3. g = [i \in 1..k |-> g[i]]
      OBVIOUS
    <3> HIDE DEF g
    <3>4. Flattened(seqs, k, g)
      BY <3>2, <3>3 DEF Flattened
    <3>5. QED
      BY <3>4
  <2>3. k - 1 \in 0..n
    BY <2>1
  <2>4. QED
    BY <2>1, <2>2, <2>3
<1>2. F \in SUBSET (0..n)
  OBVIOUS
<1> HIDE DEF F
<1>3. F = {}
  BY <1>1, <1>2, NoFirstFailure
<1>4. \E f : Flattened(seqs, n, f)
  <2>1. n \in 0..n /\ n \notin F
    BY <1>3
  <2>2. QED
    BY <2>1 DEF F
<1>5. FlattenSeq(seqs) = (CHOOSE f : Flattened(seqs, n, f))[n]
  BY Zenon DEF FlattenSeq, Flattened
<1>6. QED
  BY <1>4, <1>5, Zenon

\* Flattening loses nothing.
LEMMA FlattenKeeps ==
    ASSUME NEW M, NEW seqs \in Seq(Seq(M))
    PROVE  /\ FlattenSeq(seqs) \in Seq(M)
           /\ \A i \in DOMAIN seqs : \A k \in DOMAIN seqs[i] :
                  \E m \in DOMAIN FlattenSeq(seqs) : FlattenSeq(seqs)[m] = seqs[i][k]
<1> DEFINE n == Len(seqs)
<1>1. n \in Nat /\ DOMAIN seqs = 1..n /\ \A i \in 1..n : seqs[i] \in Seq(M)
  OBVIOUS
<1>2. CASE n = 0
  <2>1. FlattenSeq(seqs) = seqs
    BY <1>2, Zenon DEF FlattenSeq
  <2>2. seqs = <<>> /\ DOMAIN seqs = {}
    BY <1>2
  <2>3. QED
    BY <2>1, <2>2
<1>3. CASE n # 0
  <2> HIDE DEF n
  <2>1. PICK f : Flattened(seqs, n, f) /\ FlattenSeq(seqs) = f[n]
    BY <1>1, <1>3, FlattenSteps DEF n
  <2> DEFINE Has(m) == /\ f[m] \in Seq(M)
                       /\ \A i \in 1..m : \A k \in DOMAIN seqs[i] : \E l \in DOMAIN f[m] : f[m][l] = seqs[i][k]
             F == {m \in 0..n : m # 0 /\ ~Has(m)}
  <2>2. ASSUME NEW m \in F PROVE m # 0 /\ m - 1 \in F
    <3>1. m \in 1..n /\ ~Has(m)
      BY <1>1
    <3>2. f[m] = IF m = 1 THEN seqs[m] ELSE f[m - 1] \o seqs[m]
      BY <2>1, <3>1 DEF Flattened
    <3>3. CASE m = 1
      <4>1. f[m] = seqs[m] /\ 1..m = {m}
        BY <3>2, <3>3
      <4> HIDE DEF n
      <4>2. Has(m)
        BY <1>1, <3>1, <4>1
      <4>3. QED
        BY <3>1, <4>2
    <3>4. CASE m # 1
      <4> SUFFICES ASSUME Has(m - 1) PROVE Has(m)
        BY <1>1, <3>1, <3>4
      <4> DEFINE a == f[m - 1]
                 b == seqs[m]
                 c == f[m]
      <4>1. a \in Seq(M) /\ b \in Seq(M) /\ c = a \o b
        BY <1>1, <3>1, <3>2, <3>4
      <4>2. \A i \in 1..(m - 1) : \A k \in DOMAIN seqs[i] : \E l \in DOMAIN a : a[l] = seqs[i][k]
        OBVIOUS
      <4> HIDE DEF a, b, c
      <4>3. /\ c \in Seq(M) /\ Len(a) \in Nat /\ Len(b) \in Nat
            /\ DOMAIN a = 1..Len(a) /\ DOMAIN b = 1..Len(b) /\ DOMAIN c = 1..(Len(a) + Len(b))
            /\ \A l \in 1..Len(a) : c[l] = a[l]
            /\ \A l \in 1..Len(b) : c[Len(a) + l] = b[l]
        BY <4>1
      <4>4. ASSUME NEW i \in 1..m, NEW k \in DOMAIN seqs[i] PROVE \E l \in DOMAIN c : c[l] = seqs[i][k]
        <5>1. CASE i = m
          <6>1. k \in 1..Len(b) /\ b[k] = seqs[i][k]
            BY <4>3, <5>1 DEF b
          <6>2. Len(a) + k \in DOMAIN c /\ c[Len(a) + k] = b[k]
            BY <4>3, <6>1
          <6>3. QED
            BY <6>1, <6>2
        <5>2. CASE i # m
          <6>1. i \in 1..(m - 1)
            BY <3>1, <5>2
          <6>2. PICK l \in DOMAIN a : a[l] = seqs[i][k]
            BY <4>2, <6>1
          <6>3. l \in DOMAIN c /\ c[l] = a[l]
            BY <4>3
          <6>4. QED
            BY <6>2, <6>3
        <5>3. QED
          BY <5>1, <5>2
      <4>5. QED
        BY <4>3, <4>4 DEF c
    <3>5. QED
      BY <3>1, <3>3, <3>4
  <2>3. F \in SUBSET (0..n)
    OBVIOUS
  <2> HIDE DEF F
  <2>4. F = {}
    BY <1>1, <2>2, <2>3, NoFirstFailure
  <2> HIDE DEF Has
  <2>5. n \in 0..n
    BY <1>1
  <2>6. Has(n)
    BY <1>3, <2>4, <2>5 DEF F
  <2>7. QED
    BY <1>1, <2>1, <2>6 DEF Has
<1>4. QED
  BY <1>2, <1>3
\* A message that is raised or not is a short sequence.
LEMMA RaisedListed ==
    ASSUME NEW S, NEW m \in S, NEW c
    PROVE  Raised(c, m) \in Seq(S)
<1>1. <<m>> \in Seq(S) /\ <<>> \in Seq(S)
  OBVIOUS
<1>2. QED
  BY <1>1 DEF Raised

\* What the conversion may say.
Texts == {"kind", "inverted", "id", "name", "optional", "requests", "stages"}

\* The messages of a span are texts.
LEMMA ViolationsListed ==
    ASSUME NEW span
    PROVE  Violations(span) \in Seq(Texts)
<1>1. "id" \in Texts /\ "name" \in Texts /\ "optional" \in Texts /\ "kind" \in Texts /\ "inverted" \in Texts
  BY DEF Texts
<1>2. RequiredBad(span) \in Seq(Texts)
  <2> DEFINE a == Raised(span.id \in BadStrings, "id")
             b == Raised(span.name \in BadStrings, "name")
  <2>1. a \in Seq(Texts) /\ b \in Seq(Texts)
    BY <1>1, RaisedListed
  <2> HIDE DEF a, b
  <2>2. a \o b \in Seq(Texts)
    BY <2>1
  <2>3. QED
    BY <2>2 DEF RequiredBad, a, b
<1>3. Raised(~OptionalValid(span), "optional") \in Seq(Texts)
  BY <1>1, RaisedListed
<1> DEFINE kind == <<"kind">>
           inverted == <<"inverted">>
<1>4. <<>> \in Seq(Texts) /\ kind \in Seq(Texts) /\ inverted \in Seq(Texts)
  BY <1>1
<1> HIDE DEF kind, inverted
<1>5. QED
  BY <1>2, <1>3, <1>4, Zenon DEF Violations, kind, inverted

\* Every span with a violation has a message among the conversion's, which
\* names it.
LEMMA WarningsNamed ==
    ASSUME NEW R, NEW spans \in Seq(R)
    PROVE  LET ws == ConversionWarnings(spans)
           IN  /\ Len(ws) \in Nat
               /\ \A i \in DOMAIN spans : Violations(spans[i]) # <<>> =>
                      \E k \in 1..Len(ws) : "source" \in DOMAIN ws[k] /\ ws[k].source = i
<1> DEFINE M    == [source : Nat, what : Texts]
           n    == Len(spans)
           seqs == [i \in 1..n |-> Messages(i, Violations(spans[i]))]
           a    == FlattenSeq(seqs)
           b    == Raised(Defaulted(spans, "requests"), [source |-> 0, what |-> "requests"])
           c    == Raised(Defaulted(spans, "stages"), [source |-> 0, what |-> "stages"])
<1>1. n \in Nat /\ DOMAIN spans = 1..n
  OBVIOUS
<1>2. ASSUME NEW i \in 1..n
      PROVE  /\ seqs[i] \in Seq(M) /\ DOMAIN seqs[i] = DOMAIN Violations(spans[i])
             /\ \A k \in DOMAIN seqs[i] : seqs[i][k].source = i
  <2> DEFINE said == Violations(spans[i])
  <2>1. said \in Seq(Texts)
    BY ViolationsListed
  <2>2. seqs[i] = Messages(i, said)
    OBVIOUS
  <2> HIDE DEF said
  <2>3. Messages(i, said) = [k \in DOMAIN said |-> [source |-> i, what |-> said[k]]]
    BY DEF Messages
  <2>4. i \in Nat /\ \A k \in DOMAIN said : [source |-> i, what |-> said[k]] \in M
    BY <1>1, <2>1
  <2>5. \A k \in DOMAIN said : Messages(i, said)[k] = [source |-> i, what |-> said[k]]
    BY <2>3
  <2>6. Messages(i, said) \in Seq(M)
    <3> HIDE DEF M
    <3>1. DOMAIN said = 1..Len(said) /\ Len(said) \in Nat
      BY <2>1
    <3>2. Messages(i, said) \in [1..Len(said) -> M]
      BY <2>3, <2>4, <3>1
    <3>3. QED
      BY <3>1, <3>2
  <2>7. DOMAIN Messages(i, said) = DOMAIN said
    BY <2>3
  <2>8. ASSUME NEW k \in DOMAIN said PROVE Messages(i, said)[k].source = i
    <3> DEFINE what == said[k]
    <3>1. Messages(i, said)[k] = [source |-> i, what |-> what]
      BY <2>5
    <3> HIDE DEF what
    <3>2. QED
      BY <3>1
  <2>9. QED
    BY <2>2, <2>6, <2>7, <2>8 DEF said
<1>3. DOMAIN seqs = 1..n /\ seqs = [i \in 1..n |-> seqs[i]]
  OBVIOUS
<1>4. b \in Seq(M) /\ c \in Seq(M)
  <2> DEFINE x == [source |-> 0, what |-> "requests"]
             y == [source |-> 0, what |-> "stages"]
  <2>1. x \in M /\ y \in M
    <3>1. "requests" \in Texts /\ "stages" \in Texts
      BY DEF Texts
    <3>2. QED
      BY <3>1
  <2> HIDE DEF M, x, y
  <2>2. Raised(Defaulted(spans, "requests"), x) \in Seq(M) /\ Raised(Defaulted(spans, "stages"), y) \in Seq(M)
    BY <2>1, RaisedListed
  <2>3. QED
    BY <2>2 DEF x, y
<1>5. ConversionWarnings(spans) = a \o b \o c
  BY DEF ConversionWarnings
<1>6. ASSUME NEW m \in M PROVE "source" \in DOMAIN m
  BY <1>6
<1> HIDE DEF seqs, M, n, a, b, c
<1>7. seqs \in Seq(Seq(M))
  <2>1. seqs \in [1..n -> Seq(M)]
    BY <1>2, <1>3
  <2>2. QED
    BY <1>1, <2>1
<1>8. /\ a \in Seq(M)
      /\ \A i \in DOMAIN seqs : \A k \in DOMAIN seqs[i] : \E m \in DOMAIN a : a[m] = seqs[i][k]
  BY <1>7, FlattenKeeps DEF a
<1> DEFINE ws == a \o b \o c
<1>9. /\ Len(ws) \in Nat /\ \A m \in DOMAIN a : m \in 1..Len(ws) /\ ws[m] = a[m] /\ a[m] \in M
  BY <1>4, <1>8
<1> HIDE DEF ws
<1>10. ASSUME NEW i \in DOMAIN spans, Violations(spans[i]) # <<>>
       PROVE  \E k \in 1..Len(ws) : "source" \in DOMAIN ws[k] /\ ws[k].source = i
  <2>1. i \in 1..n
    BY <1>1
  <2>2. 1 \in DOMAIN Violations(spans[i])
    <3> DEFINE said == Violations(spans[i])
    <3>1. said \in Seq(Texts) /\ said # <<>>
      BY <1>10, ViolationsListed
    <3> HIDE DEF said
    <3>2. 1 \in DOMAIN said
      BY <3>1
    <3>3. QED
      BY <3>2 DEF said
  <2>3. 1 \in DOMAIN seqs[i] /\ seqs[i][1].source = i
    BY <1>2, <2>1, <2>2
  <2>4. PICK m \in DOMAIN a : a[m] = seqs[i][1]
    BY <1>3, <1>8, <2>1, <2>3
  <2>5. QED
    BY <1>6, <1>9, <2>3, <2>4
<1>11. QED
  BY <1>5, <1>9, <1>10 DEF ws

\* An exclusion is covered by a durable warning of its section.
LEMMA ExcludedWarned ==
    ASSUME NEW rn, NEW sec \in EventSections, NEW i, Excluded(Report(rn), sec, i)
    PROVE  \E w \in LifecycleSummary(rn) :
               w.section = sec /\ w.action = "excluded" /\ "source" \notin DOMAIN w
<1> DEFINE report == Report(rn)
           durable == {k \in report :
               /\ k.code # "precise_interval_validation_unavailable"
               /\ SummaryAction(report, k) \in {"excluded", "worker_count_cleared", "offsets_cleared"}}
<1>1. PICK k \in report : k.section = sec /\ k.index = i /\ Excludes(k)
  BY DEF Excluded, ExclusionCodes
<1>2. SummaryAction(report, k) = "excluded"
  BY <1>1 DEF SummaryAction, EventSections, ChildSections
<1>3. k \in durable
  BY <1>1, <1>2 DEF Excludes, Clearing
<1>4. LifecycleSummary(rn) = Summaries(report, durable)
  BY DEF LifecycleSummary, DurableSummaries
<1> HIDE DEF durable, report
<1> DEFINE count == Cardinality({o \in durable : /\ o.code = k.code /\ o.section = k.section
                                                 /\ SummaryAction(report, o) = SummaryAction(report, k)})
           w == [code |-> k.code, section |-> k.section, action |-> SummaryAction(report, k),
                 count |-> count]
<1>5. w \in Summaries(report, durable)
  BY <1>3 DEF Summaries
<1> HIDE DEF count
<1>6. w.section = k.section /\ w.action = SummaryAction(report, k) /\ "source" \notin DOMAIN w
  OBVIOUS
<1> HIDE DEF w
<1>7. QED
  BY <1>1, <1>2, <1>4, <1>5, <1>6
----------------------------------------------------------------------------
(* A report and its summaries are finite, so that warnings can be counted.  *)

\* The image of a finite set is finite.
LEMMA FiniteImage ==
    ASSUME NEW S, IsFiniteSet(S), NEW f
    PROVE  IsFiniteSet({f[x] : x \in S})
<1> DEFINE T == {f[x] : x \in S}
           g == [x \in S |-> f[x]]
<1>1. g \in Surjection(S, T)
  BY DEF Surjection
<1> HIDE DEF g, T
<1>2. IsFiniteSet(T)
  BY <1>1, FS_Surjection
<1>3. QED
  BY <1>2 DEF T

\* So is the union of finitely many finite sets.
LEMMA FiniteUnion ==
    ASSUME NEW S, IsFiniteSet(S), NEW f, \A x \in S : IsFiniteSet(f[x])
    PROVE  IsFiniteSet(UNION {f[x] : x \in S})
<1> DEFINE T == {f[x] : x \in S}
<1>1. IsFiniteSet(T)
  BY FiniteImage
<1>2. \A t \in T : IsFiniteSet(t)
  OBVIOUS
<1> HIDE DEF T
<1>3. IsFiniteSet(UNION T)
  BY <1>1, <1>2, FS_UNION
<1>4. QED
  BY <1>3 DEF T

\* The issues of one event are finitely many.
LEMMA EventIssuesFinite ==
    ASSUME NEW sec, NEW i, NEW ev
    PROVE  IsFiniteSet(EventIssues(sec, i, ev))
<1> DEFINE C == ShapeCodes(ev)
           f == [c \in C |-> Issue(sec, i, c[1], c[2])]
           A == {Issue(sec, i, c[1], c[2]) : c \in C}
           B == IF PrecisionCode(ev) = "sound" THEN {} ELSE {Issue(sec, i, NoField, PrecisionCode(ev))}
<1>1. IsFiniteSet(C)
  <2>1. \A x : IsFiniteSet({x})
    BY FS_Singleton
  <2>2. IsFiniteSet({})
    BY FS_EmptySet
  <2>3. QED
    BY <2>1, <2>2 DEF ShapeCodes
<1>2. IsFiniteSet(A)
  <2>1. A = {f[c] : c \in C}
    OBVIOUS
  <2> HIDE DEF f, A, C
  <2>2. QED
    BY <1>1, <2>1, FiniteImage
<1>3. IsFiniteSet(B)
  BY FS_Singleton, FS_EmptySet, Zenon
<1>4. EventIssues(sec, i, ev) = A \cup B
  BY DEF EventIssues
<1> HIDE DEF A, B
<1>5. QED
  BY <1>2, <1>3, <1>4, FS_Union

\* A child raises at most one issue about its parent.
LEMMA PolicyFinite ==
    ASSUME NEW reqs, NEW sec, NEW i, NEW c
    PROVE  IsFiniteSet(ChildPolicy(reqs, sec, i, c))
<1>1. \A x : IsFiniteSet({x})
  BY FS_Singleton
<1>2. IsFiniteSet({})
  BY FS_EmptySet
<1>3. QED
  BY <1>1, <1>2, Zenon DEF ChildPolicy

\* The report on a run is finite.
LEMMA ReportFinite ==
    ASSUME NEW rn, IsFiniteSet(rn.meta), IsFiniteSet(DOMAIN rn.inflight), IsFiniteSet(DOMAIN rn.runtime),
           \A sec \in EventSections : IsFiniteSet(DOMAIN rn[sec])
    PROVE  IsFiniteSet(Report(rn))
<1>1. IsFiniteSet(MetadataIssues(rn))
  <2> DEFINE code(f) == IF f = "schema_version" THEN "unsupported_schema_version" ELSE "empty_required_field"
             g == [f \in rn.meta |-> Issue("metadata", NoIndex, f, code(f))]
             A == {Issue("metadata", NoIndex, f, code(f)) : f \in rn.meta}
             B == IF rn.finalized = "inverted"
                  THEN {Issue("metadata", NoIndex, "finalized_at_unix_ms", "inverted_interval")} ELSE {}
  <2>1. A = {g[f] : f \in rn.meta}
    OBVIOUS
  <2>2. IsFiniteSet(B)
    BY FS_Singleton, FS_EmptySet, Zenon
  <2>3. MetadataIssues(rn) = A \cup B
    BY DEF MetadataIssues
  <2> HIDE DEF g, A, B
  <2>4. IsFiniteSet(A)
    BY <2>1, FiniteImage
  <2>5. QED
    BY <2>2, <2>3, <2>4, FS_Union
<1>2. IsFiniteSet(EventSections) /\ IsFiniteSet(ChildSections)
  <2>1. IsFiniteSet({"requests"}) /\ IsFiniteSet({"stages"}) /\ IsFiniteSet({"queues"})
    BY FS_Singleton
  <2>2. ChildSections = {"stages"} \cup {"queues"} /\ EventSections = {"requests"} \cup ChildSections
    BY DEF ChildSections, EventSections
  <2>3. IsFiniteSet(ChildSections)
    BY <2>1, <2>2, FS_Union
  <2>4. QED
    BY <2>1, <2>2, <2>3, FS_Union
<1>3. IsFiniteSet(AllEventIssues(rn))
  <2> DEFINE at(sec) == [i \in DOMAIN rn[sec] |-> EventIssues(sec, i, rn[sec][i])]
             U(sec) == UNION {EventIssues(sec, i, rn[sec][i]) : i \in DOMAIN rn[sec]}
             h == [sec \in EventSections |-> U(sec)]
  <2>1. ASSUME NEW sec \in EventSections PROVE IsFiniteSet(U(sec))
    <3> DEFINE D == DOMAIN rn[sec]
               f == at(sec)
    <3>1. IsFiniteSet(D) /\ \A i \in D : IsFiniteSet(f[i])
      BY EventIssuesFinite
    <3>2. U(sec) = UNION {f[i] : i \in D}
      OBVIOUS
    <3> HIDE DEF D, f
    <3>3. IsFiniteSet(UNION {f[i] : i \in D})
      BY <3>1, FiniteUnion
    <3>4. QED
      BY <3>2, <3>3
  <2>2. AllEventIssues(rn) = UNION {U(sec) : sec \in EventSections}
    BY Zenon DEF AllEventIssues
  <2> HIDE DEF U
  <2>3. \A sec \in EventSections : h[sec] = U(sec)
    OBVIOUS
  <2>4. AllEventIssues(rn) = UNION {h[sec] : sec \in EventSections}
    BY <2>2, <2>3
  <2> HIDE DEF h
  <2>5. \A sec \in EventSections : IsFiniteSet(h[sec])
    BY <2>1, <2>3
  <2>6. IsFiniteSet(UNION {h[sec] : sec \in EventSections})
    BY <1>2, <2>5, FiniteUnion
  <2>7. QED
    BY <2>4, <2>6
<1>4. IsFiniteSet(AllChildIssues(rn))
  <2> DEFINE at(sec) == [i \in DOMAIN rn[sec] |-> ChildPolicy(rn.requests, sec, i, rn[sec][i])]
             U(sec) == UNION {ChildPolicy(rn.requests, sec, i, rn[sec][i]) : i \in DOMAIN rn[sec]}
             h == [sec \in ChildSections |-> U(sec)]
  <2>1. ASSUME NEW sec \in ChildSections PROVE IsFiniteSet(U(sec))
    <3> DEFINE D == DOMAIN rn[sec]
               f == at(sec)
    <3>1. IsFiniteSet(D) /\ \A i \in D : IsFiniteSet(f[i])
      BY PolicyFinite DEF EventSections
    <3>2. U(sec) = UNION {f[i] : i \in D}
      OBVIOUS
    <3> HIDE DEF D, f
    <3>3. IsFiniteSet(UNION {f[i] : i \in D})
      BY <3>1, FiniteUnion
    <3>4. QED
      BY <3>2, <3>3
  <2>2. AllChildIssues(rn) = UNION {U(sec) : sec \in ChildSections}
    BY Zenon DEF AllChildIssues
  <2> HIDE DEF U
  <2>3. \A sec \in ChildSections : h[sec] = U(sec)
    OBVIOUS
  <2>4. AllChildIssues(rn) = UNION {h[sec] : sec \in ChildSections}
    BY <2>2, <2>3
  <2> HIDE DEF h
  <2>5. \A sec \in ChildSections : IsFiniteSet(h[sec])
    BY <2>1, <2>3
  <2>6. IsFiniteSet(UNION {h[sec] : sec \in ChildSections})
    BY <1>2, <2>5, FiniteUnion
  <2>7. QED
    BY <2>4, <2>6
<1>5. ASSUME NEW S, NEW K \in SUBSET S, IsFiniteSet(S), NEW section, NEW field, NEW code
      PROVE  IsFiniteSet({Issue(section, i, field, code) : i \in K})
  <2> DEFINE f == [i \in K |-> Issue(section, i, field, code)]
  <2>1. IsFiniteSet(K)
    BY <1>5, FS_Subset
  <2>2. {Issue(section, i, field, code) : i \in K} = {f[i] : i \in K}
    OBVIOUS
  <2> HIDE DEF f
  <2>3. QED
    BY <2>1, <2>2, FiniteImage
<1>6. IsFiniteSet(DuplicateIssues(rn.requests))
  <2> DEFINE K == {k \in DOMAIN rn.requests : rn.requests[k].id \in DupIds(rn.requests)}
  <2>1. K \in SUBSET DOMAIN rn.requests /\ IsFiniteSet(DOMAIN rn.requests)
    BY DEF EventSections
  <2>2. DuplicateIssues(rn.requests) =
            {Issue("requests", i, "request_id", "duplicate_completed_request_id") : i \in K}
    BY DEF DuplicateIssues
  <2> HIDE DEF K
  <2>3. QED
    BY <1>5, <2>1, <2>2
<1>7. IsFiniteSet(GaugeIssues(rn))
  <2> DEFINE K == {k \in DOMAIN rn.inflight : rn.inflight[k].gauge \in BlankGauges}
  <2>1. K \in SUBSET DOMAIN rn.inflight
    OBVIOUS
  <2>2. GaugeIssues(rn) = {Issue("inflight", i, "gauge", "empty_required_field") : i \in K}
    BY DEF GaugeIssues
  <2> HIDE DEF K
  <2>3. QED
    BY <1>5, <2>1, <2>2
<1>8. IsFiniteSet(WorkerIssues(rn))
  <2> DEFINE K == {k \in DOMAIN rn.runtime : rn.runtime[k] = "zero_workers"}
  <2>1. K \in SUBSET DOMAIN rn.runtime
    OBVIOUS
  <2>2. WorkerIssues(rn) = {Issue("runtime", i, "worker_count", "invalid_worker_count") : i \in K}
    BY DEF WorkerIssues
  <2> HIDE DEF K
  <2>3. QED
    BY <1>5, <2>1, <2>2
<1>9. QED
  <2> DEFINE a == MetadataIssues(rn)
             b == AllEventIssues(rn)
             c == DuplicateIssues(rn.requests)
             d == AllChildIssues(rn)
             e == GaugeIssues(rn)
             f == WorkerIssues(rn)
  <2>1. Report(rn) = a \cup b \cup c \cup d \cup e \cup f
    BY DEF Report
  <2>2. IsFiniteSet(a) /\ IsFiniteSet(b) /\ IsFiniteSet(c) /\ IsFiniteSet(d) /\ IsFiniteSet(e) /\ IsFiniteSet(f)
    BY <1>1, <1>3, <1>4, <1>6, <1>7, <1>8
  <2> HIDE DEF a, b, c, d, e, f
  <2>3. IsFiniteSet(a \cup b)
    BY <2>2, FS_Union
  <2>4. IsFiniteSet(a \cup b \cup c)
    BY <2>2, <2>3, FS_Union
  <2>5. IsFiniteSet(a \cup b \cup c \cup d)
    BY <2>2, <2>4, FS_Union
  <2>6. IsFiniteSet(a \cup b \cup c \cup d \cup e)
    BY <2>2, <2>5, FS_Union
  <2>7. IsFiniteSet(a \cup b \cup c \cup d \cup e \cup f)
    BY <2>2, <2>6, FS_Union
  <2>8. QED
    BY <2>1, <2>7

\* The summaries on an imported run can be counted.
LEMMA SummariesCounted ==
    ASSUME NEW R, NEW spans \in Seq(R)
    PROVE  Cardinality(AnalyzerSummary(CandidateRun(spans))) \in Nat
<1> DEFINE rn == CandidateRun(spans)
           report == Report(rn)
           said(k) == [code |-> k.code, section |-> k.section, action |-> SummaryAction(report, k),
                       count |-> Cardinality({o \in report : /\ o.code = k.code /\ o.section = k.section
                                                             /\ SummaryAction(report, o) = SummaryAction(report, k)})]
           f == [k \in report |-> said(k)]
<1>1. rn.meta = {} /\ rn.inflight = <<>> /\ rn.runtime = <<>>
  BY DEF CandidateRun
<1>2. ASSUME NEW sec \in EventSections PROVE IsFiniteSet(DOMAIN rn[sec])
  <2> DEFINE n == Len(Provenance(spans, sec))
  <2>1. DOMAIN rn[sec] = 1..n /\ n \in Nat
    BY CandidateDomain, ProvenanceInOrder
  <2> HIDE DEF n
  <2>2. IsFiniteSet(1..n)
    BY <2>1, FS_Interval, 1 \in Int, n \in Int
  <2>3. QED
    BY <2>1, <2>2
<1>3. IsFiniteSet(rn.meta) /\ IsFiniteSet(DOMAIN rn.inflight) /\ IsFiniteSet(DOMAIN rn.runtime)
  <2>1. DOMAIN rn.inflight = {} /\ DOMAIN rn.runtime = {}
    BY <1>1
  <2>2. QED
    BY <1>1, <2>1, FS_EmptySet
<1> HIDE DEF rn
<1>4. IsFiniteSet(report)
  BY <1>2, <1>3, ReportFinite
<1>5. AnalyzerSummary(rn) = {said(k) : k \in report}
  BY Zenon DEF AnalyzerSummary, AllSummaries, Summaries
<1> HIDE DEF report, said
<1>6. {said(k) : k \in report} = {f[k] : k \in report}
  OBVIOUS
<1> HIDE DEF f
<1>7. AnalyzerSummary(rn) = {f[k] : k \in report}
  BY <1>5, <1>6
<1>8. IsFiniteSet({f[k] : k \in report})
  BY <1>4, FiniteImage
<1>9. QED
  BY <1>7, <1>8, FS_CardinalityType DEF rn

\* So can the warnings on lines that do not parse.
LEMMA ParseWarningsCounted ==
    ASSUME NEW lines, IsFiniteSet(DOMAIN lines)
    PROVE  Cardinality(ParseWarnings(lines)) \in Nat
<1> DEFINE bad == {j \in DOMAIN lines : lines[j].form = "bad_span"}
           K == {j \in bad : Cardinality({i \in bad : i <= j}) <= MaxWarnings}
           f == [k \in K |-> [source |-> k, what |-> "bad_span"]]
<1>1. ParseWarnings(lines) = {[source |-> k, what |-> "bad_span"] : k \in K}
  BY DEF ParseWarnings
<1>2. K \in SUBSET DOMAIN lines
  OBVIOUS
<1> HIDE DEF K
<1>3. {[source |-> k, what |-> "bad_span"] : k \in K} = {f[k] : k \in K}
  OBVIOUS
<1> HIDE DEF f
<1>4. IsFiniteSet(K)
  BY <1>2, FS_Subset
<1>5. IsFiniteSet(ParseWarnings(lines))
  BY <1>1, <1>3, <1>4, FiniteImage
<1>6. QED
  BY <1>5, FS_CardinalityType
============================================================================
