------------------------ MODULE NormalizationProofs ------------------------
(***************************************************************************)
(* What Normalization's selection of events returns, for any section: the  *)
(* facts that the proofs about runs and imports rest on.                   *)
(***************************************************************************)
EXTENDS RunValidation, FiniteSetTheorems, TLAPS

----------------------------------------------------------------------------
(* Normalization: how the kept events of a section relate to its input.    *)

\* The number of kept indices up to k.
Rank(K, k) == Cardinality({j \in K : j <= k})

Index(K, n) == CHOOSE k \in K : Rank(K, k) = n

\* Ranks number the kept indices from 1, without gaps or repetitions.
LEMMA RankBijective ==
    ASSUME NEW K \in SUBSET Nat, IsFiniteSet(K)
    PROVE  /\ Cardinality(K) \in Nat
           /\ \A k \in K : Rank(K, k) \in 1 .. Cardinality(K)
           /\ \A n \in 1 .. Cardinality(K) : \E k \in K : Rank(K, k) = n
           /\ \A k, l \in K : Rank(K, k) = Rank(K, l) => k = l
<1> DEFINE upto(k) == {j \in K : j <= k}
           rank == [k \in K |-> Cardinality(upto(k))]
           ranks == 1 .. Cardinality(K)
<1>1. Cardinality(K) \in Nat  BY FS_CardinalityType
<1>2. ASSUME NEW k \in K
      PROVE  /\ IsFiniteSet(upto(k)) /\ Cardinality(upto(k)) \in Nat
             /\ Cardinality(upto(k)) # 0
             /\ Cardinality(upto(k)) <= Cardinality(K)
  <2>1. upto(k) \in SUBSET K /\ k \in upto(k)  OBVIOUS
  <2> HIDE DEF upto
  <2> QED BY <2>1, FS_Subset, FS_CardinalityType, FS_EmptySet
<1>3. ASSUME NEW k \in K, NEW l \in K, k < l
      PROVE  Cardinality(upto(k)) # Cardinality(upto(l))
  <2>0. \A j \in K : j \in Nat  OBVIOUS
  <2>1. upto(k) \in SUBSET upto(l) /\ l \in upto(l) /\ l \notin upto(k)
    <3>1. \A j \in K : j <= k => j <= l  BY <1>3, <2>0
    <3>2. l <= l /\ ~(l <= k)  BY <1>3, <2>0
    <3> QED BY <3>1, <3>2
  <2>2. IsFiniteSet(upto(l))  BY <1>2
  <2> HIDE DEF upto
  <2> QED BY <2>1, <2>2, FS_Subset
<1>4. rank \in Injection(K, ranks)
  <2>1. \A k, l \in K : rank[k] = rank[l] => k = l
    <3> SUFFICES ASSUME NEW k \in K, NEW l \in K, rank[k] = rank[l], k # l PROVE FALSE
      OBVIOUS
    <3>1. k < l \/ l < k  OBVIOUS
    <3>2. Cardinality(upto(k)) = Cardinality(upto(l))  OBVIOUS
    <3> QED BY <1>3, <3>1, <3>2
  <2>2. \A k \in K : Cardinality(upto(k)) \in ranks
    <3> SUFFICES ASSUME NEW k \in K PROVE Cardinality(upto(k)) \in ranks  OBVIOUS
    <3> HIDE DEF upto
    <3> QED BY <1>1, <1>2
  <2>3. rank \in [K -> ranks]  BY <2>2
  <2> HIDE DEF rank, ranks
  <2>4. DOMAIN rank = K  BY <2>3
  <2> QED BY <2>1, <2>3, <2>4 DEF Injection, IsInjective
<1>5. IsFiniteSet(ranks) /\ Cardinality(ranks) = Cardinality(K)
  BY <1>1, FS_Interval
<1>6. rank \in Surjection(K, ranks)
  <2> HIDE DEF rank, ranks
  <2> QED BY <1>4, <1>5, FS_Injection
<1>7. \A k \in K : rank[k] = Rank(K, k)  BY DEF Rank
<1> HIDE DEF rank, ranks
<1>8. \A k \in K : rank[k] \in ranks  BY <1>4 DEF Injection
<1>9. \A n \in ranks : \E k \in K : rank[k] = n  BY <1>6 DEF Surjection
<1>10. \A k, l \in K : rank[k] = rank[l] => k = l  BY <1>4 DEF Injection, IsInjective
<1> QED BY <1>1, <1>7, <1>8, <1>9, <1>10, Zenon DEF ranks

\* Index is the inverse of Rank.
LEMMA IndexOfRank ==
    ASSUME NEW K \in SUBSET Nat, IsFiniteSet(K), NEW k \in K
    PROVE  Rank(K, k) \in 1 .. Cardinality(K) /\ Index(K, Rank(K, k)) = k
<1>1. Rank(K, k) \in 1 .. Cardinality(K)
  BY RankBijective
<1>2. Index(K, Rank(K, k)) \in K /\ Rank(K, Index(K, Rank(K, k))) = Rank(K, k)
  BY <1>1, RankBijective DEF Index
<1>3. \A l \in K : Rank(K, l) = Rank(K, k) => l = k
  BY RankBijective
<1>4. QED
  BY <1>1, <1>2, <1>3, Zenon

\* The kept events are those at the kept indices, each from one index.
LEMMA KeptEvents ==
    ASSUME NEW s, NEW K \in SUBSET Nat, IsFiniteSet(K)
    PROVE  /\ DOMAIN AtIndices(s, K) = 1 .. Cardinality(K)
           /\ \A n \in DOMAIN AtIndices(s, K) :
                  Index(K, n) \in K /\ AtIndices(s, K)[n] = s[Index(K, n)]
           /\ \A n, m \in DOMAIN AtIndices(s, K) : Index(K, n) = Index(K, m) => n = m
           /\ \A k \in K : \E n \in DOMAIN AtIndices(s, K) : Index(K, n) = k
<1>1. AtIndices(s, K) = [n \in 1 .. Cardinality(K) |-> s[Index(K, n)]]
  BY DEF AtIndices, Index, Rank
<1>2. \A n \in 1 .. Cardinality(K) : Index(K, n) \in K /\ Rank(K, Index(K, n)) = n
  BY RankBijective DEF Index
<1>3. \A k \in K : Rank(K, k) \in 1 .. Cardinality(K) /\ Index(K, Rank(K, k)) = k
  BY IndexOfRank
<1>4. DOMAIN AtIndices(s, K) = 1 .. Cardinality(K)  BY <1>1
<1>5. \A n \in 1 .. Cardinality(K) : AtIndices(s, K)[n] = s[Index(K, n)]  BY <1>1
<1>6. \A n, m \in 1 .. Cardinality(K) : Index(K, n) = Index(K, m) => n = m
  BY <1>2, Zenon
<1>7. \A k \in K : \E n \in 1 .. Cardinality(K) : Index(K, n) = k  BY <1>3, Zenon
<1> QED BY <1>2, <1>4, <1>5, <1>6, <1>7, Zenon

----------------------------------------------------------------------------
(* The report and normalization agree on every event.                      *)

EventShapes == {"ok", "blank", "inverted"}

\* The place of an issue.
LEMMA IssuePlace ==
    ASSUME NEW section, NEW index, NEW field, NEW code
    PROVE  /\ Issue(section, index, field, code).section = section
           /\ Issue(section, index, field, code).index = index
           /\ Issue(section, index, field, code).field = field
           /\ Issue(section, index, field, code).code = code
BY DEF Issue

\* An event's own issues exclude it exactly when its shape is not sound.
LEMMA OwnExclusion ==
    ASSUME NEW section, NEW i, NEW ev, ev.shape \in EventShapes
    PROVE  /\ \A issue \in EventIssues(section, i, ev) : issue.section = section /\ issue.index = i
           /\ (\E issue \in EventIssues(section, i, ev) : Excludes(issue)) <=> ev.shape # "ok"
<1>1. \A issue \in EventIssues(section, i, ev) : issue.section = section /\ issue.index = i
  BY IssuePlace DEF EventIssues
<1>2. ~Excludes(Issue(section, i, NoField, PrecisionCode(ev))) \/ PrecisionCode(ev) = "sound"
  BY IssuePlace DEF Excludes, Clearing, PrecisionCode
<1>3. CASE ev.shape = "ok"
  <2>1. ShapeCodes(ev) = {}
    BY <1>3 DEF ShapeCodes
  <2>2. \A issue \in EventIssues(section, i, ev) : ~Excludes(issue)
    BY <1>2, <2>1 DEF EventIssues
  <2>3. QED
    BY <1>1, <1>3, <2>2
<1>4. CASE ev.shape = "blank"
  <2> DEFINE issue == Issue(section, i, "string", "empty_required_field")
  <2>1. ShapeCodes(ev) = {<<"string", "empty_required_field">>}
    BY <1>4 DEF ShapeCodes
  <2>2. issue \in EventIssues(section, i, ev)
    BY <2>1 DEF EventIssues
  <2>3. Excludes(issue)
    BY IssuePlace DEF Excludes, Clearing
  <2>4. QED
    BY <1>1, <1>4, <2>2, <2>3
<1>5. CASE ev.shape = "inverted"
  <2> DEFINE issue == Issue(section, i, "end_unix_ms", "inverted_interval")
  <2>1. ShapeCodes(ev) = {<<"end_unix_ms", "inverted_interval">>}
    BY <1>5 DEF ShapeCodes
  <2>2. issue \in EventIssues(section, i, ev)
    BY <2>1 DEF EventIssues
  <2>3. Excludes(issue)
    BY IssuePlace DEF Excludes, Clearing, NoField
  <2>4. QED
    BY <1>1, <1>5, <2>2, <2>3
<1>6. QED
  BY <1>3, <1>4, <1>5 DEF EventShapes

\* The policy excludes a child exactly when it has no parent to stay with.
LEMMA PolicyExclusion ==
    ASSUME NEW reqs, NEW section, NEW i, NEW c
    PROVE  /\ \A issue \in ChildPolicy(reqs, section, i, c) : /\ issue.section = section
                                                              /\ issue.index = i /\ Excludes(issue)
           /\ ChildPolicy(reqs, section, i, c) = {} <=>
                  ParentState(reqs, c.id) = "unique" /\ ~OutsideParent(reqs, ClearBad(c))
<1> DEFINE parent == ParentState(reqs, c.id)
           out    == OutsideParent(reqs, ClearBad(c))
<1>1. parent \in {"ambiguous", "unique", "excluded", "orphan"}
  BY DEF ParentState
<1> HIDE DEF parent, out
<1>2. ChildPolicy(reqs, section, i, c) =
        IF parent = "orphan" THEN {Issue(section, i, "request_id", "orphan_request_scoped_event")}
        ELSE IF parent = "ambiguous"
             THEN {Issue(section, i, "request_id", "ambiguous_parent_request_id")}
        ELSE IF parent = "excluded" THEN {Issue(section, i, "request_id", "parent_request_excluded")}
        ELSE IF out THEN {Issue(section, i, NoField, "child_interval_outside_request")}
        ELSE {}
  BY DEF ChildPolicy, parent, out
<1>3. \A issue \in ChildPolicy(reqs, section, i, c) : /\ issue.section = section
                                                     /\ issue.index = i /\ Excludes(issue)
  BY <1>2, IssuePlace DEF Excludes, Clearing
<1>4. ChildPolicy(reqs, section, i, c) = {} <=> parent = "unique" /\ ~out
  BY <1>1, <1>2
<1>5. QED
  BY <1>3, <1>4 DEF parent, out

\* The parts of a report that are about no request, stage or queue.
LEMMA OtherIssues ==
    ASSUME NEW rn, NEW issue \in MetadataIssues(rn) \cup GaugeIssues(rn) \cup WorkerIssues(rn)
    PROVE  issue.section \notin EventSections
BY IssuePlace DEF MetadataIssues, GaugeIssues, WorkerIssues, EventSections, ChildSections

\* The report excludes the requests that normalization does not retain.
LEMMA RequestExclusion ==
    ASSUME NEW rn, NEW i \in DOMAIN rn.requests, rn.requests[i].shape \in EventShapes
    PROVE  Excluded(Report(rn), "requests", i) <=> ~RequestRetained(rn.requests, rn.requests[i])
<1> DEFINE reqs == rn.requests
           ev   == reqs[i]
           here(issue) == issue.section = "requests" /\ issue.index = i
<1>1. Excluded(Report(rn), "requests", i) <=> \E issue \in Report(rn) : here(issue) /\ Excludes(issue)
  BY DEF Excluded, ExclusionCodes
<1>2. "requests" \in EventSections /\ "requests" \notin ChildSections
  BY DEF EventSections, ChildSections
<1>3. \A issue \in EventIssues("requests", i, ev) : issue \in Report(rn) /\ here(issue)
  BY <1>2, OwnExclusion DEF Report, AllEventIssues
<1>4. ASSUME NEW issue \in AllEventIssues(rn), here(issue)
      PROVE  issue \in EventIssues("requests", i, ev)
  <2>1. PICK sec \in EventSections : \E k \in DOMAIN rn[sec] : issue \in EventIssues(sec, k, rn[sec][k])
    BY <1>4 DEF AllEventIssues
  <2>2. PICK k \in DOMAIN rn[sec] : issue \in EventIssues(sec, k, rn[sec][k])
    BY <2>1
  <2>3. issue.section = sec /\ issue.index = k
    BY <2>2, IssuePlace DEF EventIssues
  <2>4. QED
    BY <1>4, <2>2, <2>3
<1>5. ASSUME NEW issue \in AllChildIssues(rn) PROVE ~here(issue)
  <2>1. PICK sec \in ChildSections : \E k \in DOMAIN rn[sec] :
            issue \in ChildPolicy(rn.requests, sec, k, rn[sec][k])
    BY <1>5 DEF AllChildIssues
  <2>2. issue.section = sec
    BY <2>1, PolicyExclusion
  <2>3. QED
    BY <1>2, <2>1, <2>2
<1>6. (\E issue \in DuplicateIssues(reqs) : here(issue) /\ Excludes(issue)) <=> ev.id \in DupIds(reqs)
  <2>1. \A k : here(Issue("requests", k, "request_id", "duplicate_completed_request_id")) <=> k = i
    BY IssuePlace
  <2>2. Excludes(Issue("requests", i, "request_id", "duplicate_completed_request_id"))
    BY IssuePlace DEF Excludes, Clearing
  <2> HIDE DEF here
  <2>3. QED
    BY <2>1, <2>2 DEF DuplicateIssues
<1>7. \A issue \in MetadataIssues(rn) \cup GaugeIssues(rn) \cup WorkerIssues(rn) : ~here(issue)
  BY <1>2, OtherIssues
<1>8. (\E issue \in EventIssues("requests", i, ev) : Excludes(issue)) <=> ev.shape # "ok"
  BY OwnExclusion
<1>9. DuplicateIssues(reqs) \subseteq Report(rn)
  BY DEF Report
<1> HIDE DEF here
<1>10. (\E issue \in Report(rn) : here(issue) /\ Excludes(issue))
         <=> ev.shape # "ok" \/ ev.id \in DupIds(reqs)
  <2>1. ASSUME NEW issue \in Report(rn), here(issue), Excludes(issue)
        PROVE  ev.shape # "ok" \/ ev.id \in DupIds(reqs)
    <3>1. \/ issue \in AllEventIssues(rn) \/ issue \in AllChildIssues(rn)
          \/ issue \in DuplicateIssues(reqs)
          \/ issue \in MetadataIssues(rn) \cup GaugeIssues(rn) \cup WorkerIssues(rn)
      BY <2>1 DEF Report
    <3>2. QED
      BY <1>4, <1>5, <1>6, <1>7, <1>8, <2>1, <3>1
  <2>2. ev.shape # "ok" => \E issue \in Report(rn) : here(issue) /\ Excludes(issue)
    BY <1>3, <1>8
  <2>3. ev.id \in DupIds(reqs) => \E issue \in Report(rn) : here(issue) /\ Excludes(issue)
    BY <1>6, <1>9
  <2>4. QED
    BY <2>1, <2>2, <2>3
<1>11. QED
  BY <1>1, <1>10 DEF RequestRetained

\* The report excludes the children that normalization does not retain.
LEMMA ChildExclusion ==
    ASSUME NEW rn, NEW sec \in ChildSections, NEW i \in DOMAIN rn[sec], rn[sec][i].shape \in EventShapes
    PROVE  Excluded(Report(rn), sec, i) <=> ~ChildRetained(rn.requests, rn[sec][i])
<1> DEFINE reqs == rn.requests
           ev   == rn[sec][i]
           here(issue) == issue.section = sec /\ issue.index = i
<1>1. Excluded(Report(rn), sec, i) <=> \E issue \in Report(rn) : here(issue) /\ Excludes(issue)
  BY DEF Excluded, ExclusionCodes
<1>2. sec \in EventSections /\ sec # "requests"
  BY DEF EventSections, ChildSections
<1>3. \A issue \in EventIssues(sec, i, ev) : issue \in Report(rn) /\ here(issue)
  BY <1>2, OwnExclusion DEF Report, AllEventIssues
<1>4. ASSUME NEW issue \in AllEventIssues(rn), here(issue)
      PROVE  issue \in EventIssues(sec, i, ev)
  <2>1. PICK s \in EventSections : \E k \in DOMAIN rn[s] : issue \in EventIssues(s, k, rn[s][k])
    BY <1>4 DEF AllEventIssues
  <2>2. PICK k \in DOMAIN rn[s] : issue \in EventIssues(s, k, rn[s][k])
    BY <2>1
  <2>3. issue.section = s /\ issue.index = k
    BY <2>2, IssuePlace DEF EventIssues
  <2>4. QED
    BY <1>4, <2>2, <2>3
<1>5. \A issue \in ChildPolicy(reqs, sec, i, ev) : issue \in Report(rn) /\ here(issue) /\ Excludes(issue)
  <2>1. \A issue \in ChildPolicy(reqs, sec, i, ev) : issue \in AllChildIssues(rn)
    BY DEF AllChildIssues
  <2>2. QED
    BY <2>1, PolicyExclusion DEF Report
<1>6. ASSUME NEW issue \in AllChildIssues(rn), here(issue)
      PROVE  issue \in ChildPolicy(reqs, sec, i, ev)
  <2>1. PICK s \in ChildSections : \E k \in DOMAIN rn[s] :
            issue \in ChildPolicy(rn.requests, s, k, rn[s][k])
    BY <1>6 DEF AllChildIssues
  <2>2. PICK k \in DOMAIN rn[s] : issue \in ChildPolicy(rn.requests, s, k, rn[s][k])
    BY <2>1
  <2>3. issue.section = s /\ issue.index = k
    BY <2>2, PolicyExclusion
  <2>4. QED
    BY <1>6, <2>2, <2>3
<1>7. ASSUME NEW issue \in DuplicateIssues(reqs) PROVE ~here(issue)
  BY <1>2, IssuePlace DEF DuplicateIssues
<1>8. \A issue \in MetadataIssues(rn) \cup GaugeIssues(rn) \cup WorkerIssues(rn) : ~here(issue)
  BY <1>2, OtherIssues
<1>9. (\E issue \in EventIssues(sec, i, ev) : Excludes(issue)) <=> ev.shape # "ok"
  BY OwnExclusion
<1> HIDE DEF here
<1>10. (\E issue \in Report(rn) : here(issue) /\ Excludes(issue))
         <=> ev.shape # "ok" \/ ChildPolicy(reqs, sec, i, ev) # {}
  <2>1. ASSUME NEW issue \in Report(rn), here(issue), Excludes(issue)
        PROVE  ev.shape # "ok" \/ ChildPolicy(reqs, sec, i, ev) # {}
    <3>1. \/ issue \in AllEventIssues(rn) \/ issue \in AllChildIssues(rn)
          \/ issue \in DuplicateIssues(reqs)
          \/ issue \in MetadataIssues(rn) \cup GaugeIssues(rn) \cup WorkerIssues(rn)
      BY <2>1 DEF Report
    <3>2. QED
      BY <1>4, <1>6, <1>7, <1>8, <1>9, <2>1, <3>1
  <2>2. ev.shape # "ok" => \E issue \in Report(rn) : here(issue) /\ Excludes(issue)
    BY <1>3, <1>9
  <2>3. ChildPolicy(reqs, sec, i, ev) # {} => \E issue \in Report(rn) : here(issue) /\ Excludes(issue)
    BY <1>5
  <2>4. QED
    BY <2>1, <2>2, <2>3
<1>11. QED
  BY <1>1, <1>10, PolicyExclusion DEF ChildRetained

----------------------------------------------------------------------------
(* Selections in order, and selections of selections.                      *)

\* The indices that a section keeps are taken in order.
LEMMA IndexOrder ==
    ASSUME NEW K \in SUBSET Nat, IsFiniteSet(K),
           NEW n \in 1..Cardinality(K), NEW m \in 1..Cardinality(K), n < m
    PROVE  Index(K, n) < Index(K, m)
<1> DEFINE k == Index(K, n)
           l == Index(K, m)
<1>1. Cardinality(K) \in Nat
  BY RankBijective
<1>2. k \in K /\ l \in K /\ Rank(K, k) = n /\ Rank(K, l) = m
  BY RankBijective DEF Index
<1> HIDE DEF k, l
<1>3. k \in Nat /\ l \in Nat
  BY <1>2
<1>4. ASSUME l <= k PROVE FALSE
  <2>1. {j \in K : j <= l} \subseteq {j \in K : j <= k} /\ {j \in K : j <= k} \subseteq K
    <3>1. \A j \in K : j <= l => j <= k
      BY <1>3, <1>4
    <3>2. QED
      BY <3>1
  <2>2. IsFiniteSet({j \in K : j <= k})
    BY <2>1, FS_Subset
  <2>3. Cardinality({j \in K : j <= l}) <= Cardinality({j \in K : j <= k})
    BY <2>1, <2>2, FS_Subset
  <2>4. m <= n
    BY <1>2, <2>3 DEF Rank
  <2>5. QED
    BY <1>1, <2>4
<1>5. QED
  BY <1>3, <1>4 DEF k, l

\* Whatever lists a set of indices in order lists it as Index does.
LEMMA InOrder ==
    ASSUME NEW K \in SUBSET Nat, IsFiniteSet(K), NEW n \in Nat, NEW f \in [1..n -> K],
           \A k \in K : \E m \in 1..n : f[m] = k,
           \A l, m \in 1..n : l < m => f[l] < f[m]
    PROVE  Cardinality(K) = n /\ \A m \in 1..n : Index(K, m) = f[m]
<1>1. \A m \in 1..n : f[m] \in K /\ f[m] \in Nat
  OBVIOUS
<1>2. \A l, m \in 1..n : f[l] = f[m] => l = m
  <2>1. ASSUME NEW l \in 1..n, NEW m \in 1..n, f[l] = f[m], l # m PROVE FALSE
    <3>1. l < m \/ m < l
      BY <2>1
    <3>2. f[l] < f[m] \/ f[m] < f[l]
      BY <3>1
    <3>3. QED
      BY <1>1, <2>1, <3>2
  <2>2. QED
    BY <2>1
<1>3. \A l, m \in 1..n : f[l] <= f[m] <=> l <= m
  <2>1. ASSUME NEW l \in 1..n, NEW m \in 1..n PROVE f[l] <= f[m] <=> l <= m
    <3>1. l < m \/ m < l \/ l = m
      OBVIOUS
    <3>2. f[l] \in Nat /\ f[m] \in Nat
      BY <1>1
    <3>3. CASE l < m
      BY <3>2, <3>3
    <3>4. CASE m < l
      BY <3>2, <3>4
    <3>5. CASE l = m
      BY <3>2, <3>5
    <3>6. QED
      BY <3>1, <3>3, <3>4, <3>5
  <2>2. QED
    BY <2>1
<1>4. ASSUME NEW m \in 0..n, NEW T, \A t \in T : \E l \in 1..m : f[l] = t, \A l \in 1..m : f[l] \in T
      PROVE  Cardinality(T) = m
  <2> DEFINE g == [l \in 1..m |-> f[l]]
  <2>1. \A l \in 1..m : l \in 1..n
    OBVIOUS
  <2>2. g \in [1..m -> T] /\ \A l \in 1..m : g[l] = f[l]
    BY <1>4
  <2> HIDE DEF g
  <2>3. g \in Injection(1..m, T)
    BY <1>2, <2>1, <2>2 DEF Injection, IsInjective
  <2>4. g \in Surjection(1..m, T)
    BY <1>4, <2>2 DEF Surjection
  <2>5. ExistsBijection(1..m, T)
    BY <2>3, <2>4 DEF ExistsBijection, Bijection
  <2>6. QED
    BY <2>5, FS_CountingElements
<1>5. Cardinality(K) = n
  BY <1>1, <1>4, n \in 0..n
<1>6. ASSUME NEW m \in 1..n PROVE Index(K, m) = f[m]
  <2> DEFINE T == {j \in K : j <= f[m]}
  <2>1. \A t \in T : \E l \in 1..m : f[l] = t
    <3>1. ASSUME NEW t \in T PROVE \E l \in 1..m : f[l] = t
      <4>1. PICK l \in 1..n : f[l] = t
        OBVIOUS
      <4>2. l <= m
        BY <1>3, <4>1
      <4>3. QED
        BY <4>1, <4>2
    <3>2. QED
      BY <3>1
  <2>2. \A l \in 1..m : f[l] \in T
    <3>1. ASSUME NEW l \in 1..m PROVE f[l] \in T
      <4>1. l \in 1..n /\ l <= m
        OBVIOUS
      <4>2. QED
        BY <1>1, <1>3, <4>1
    <3>2. QED
      BY <3>1
  <2> HIDE DEF T
  <2>3. m \in 0..n
    OBVIOUS
  <2>4. Cardinality(T) = m
    BY <1>4, <2>1, <2>2, <2>3
  <2>5. Rank(K, f[m]) = m
    BY <2>4 DEF Rank, T
  <2>6. \A k, l \in K : Rank(K, k) = Rank(K, l) => k = l
    BY RankBijective
  <2>7. Index(K, m) \in K /\ Rank(K, Index(K, m)) = m
    BY <1>1, <2>5 DEF Index
  <2>8. QED
    BY <1>1, <2>5, <2>6, <2>7
<1>7. QED
  BY <1>5, <1>6

\* A section that keeps every index is kept as it is.
LEMMA KeepAll ==
    ASSUME NEW S, NEW s \in Seq(S)
    PROVE  AtIndices(s, DOMAIN s) = s
<1> DEFINE n == Len(s)
           f == [m \in 1..n |-> m]
<1>1. n \in Nat /\ DOMAIN s = 1..n /\ s = [m \in 1..n |-> s[m]]
  OBVIOUS
<1> HIDE DEF n
<1> DEFINE K == 1..n
<1>2. K \in SUBSET Nat /\ IsFiniteSet(K) /\ Cardinality(K) = n
  <2>1. IsFiniteSet(K) /\ Cardinality(K) = IF 1 > n THEN 0 ELSE n - 1 + 1
    BY <1>1, FS_Interval, 1 \in Int, n \in Int
  <2>2. K \in SUBSET Nat
    BY <1>1
  <2>3. QED
    BY <1>1, <2>1, <2>2
<1>3. \A m \in 1..n : Index(K, m) = m
  <2>1. /\ f \in [1..n -> K] /\ \A k \in K : \E m \in 1..n : f[m] = k
        /\ \A l, m \in 1..n : l < m => f[l] < f[m]
    BY <1>1
  <2>2. \A m \in 1..n : f[m] = m
    OBVIOUS
  <2> HIDE DEF f, K
  <2>3. QED
    BY <1>1, <1>2, <2>1, <2>2, InOrder
<1>4. DOMAIN s = K /\ K = 1..n
  BY <1>1
<1> HIDE DEF K
<1>5. /\ DOMAIN AtIndices(s, K) = 1..n
      /\ \A m \in 1..n : AtIndices(s, K)[m] = s[Index(K, m)]
  <2>1. /\ DOMAIN AtIndices(s, K) = 1..Cardinality(K)
        /\ \A m \in DOMAIN AtIndices(s, K) : AtIndices(s, K)[m] = s[Index(K, m)]
    BY <1>2, KeptEvents
  <2>2. QED
    BY <1>2, <2>1
<1>6. AtIndices(s, K) = [m \in 1..n |-> AtIndices(s, K)[m]]
  BY <1>5 DEF AtIndices
<1>7. QED
  BY <1>1, <1>3, <1>4, <1>5, <1>6

\* What is kept of a section is a section.
LEMMA KeptSection ==
    ASSUME NEW S, NEW s \in Seq(S), NEW K \in SUBSET DOMAIN s
    PROVE  /\ K \in SUBSET Nat /\ IsFiniteSet(K)
           /\ AtIndices(s, K) \in Seq(S) /\ Len(AtIndices(s, K)) = Cardinality(K)
<1> DEFINE n    == Len(s)
           kept == AtIndices(s, K)
           c    == Cardinality(K)
<1>1. n \in Nat /\ DOMAIN s = 1..n /\ \A m \in 1..n : s[m] \in S
  OBVIOUS
<1> HIDE DEF n
<1>2. IsFiniteSet(1..n) /\ K \subseteq 1..n
  BY <1>1, FS_Interval, 1 \in Int, n \in Int
<1>3. K \in SUBSET Nat /\ IsFiniteSet(K) /\ c \in Nat
  <2>1. IsFiniteSet(K)
    BY <1>2, FS_Subset
  <2>2. K \in SUBSET Nat
    BY <1>2
  <2>3. QED
    BY <2>1, <2>2, FS_CardinalityType
<1>4. /\ DOMAIN kept = 1..c
      /\ \A m \in DOMAIN kept : Index(K, m) \in K /\ kept[m] = s[Index(K, m)]
  BY <1>3, KeptEvents
<1>5. kept = [m \in 1..c |-> kept[m]]
  BY <1>4 DEF AtIndices
<1> HIDE DEF kept, c
<1>6. \A m \in 1..c : kept[m] \in S
  BY <1>1, <1>2, <1>4
<1>7. kept \in [1..c -> S]
  BY <1>5, <1>6
<1>8. kept \in Seq(S) /\ Len(kept) = c
  BY <1>3, <1>7
<1>9. QED
  BY <1>3, <1>8 DEF kept, c

\* The indices of the requests, and of the children, that normalization keeps.
KeptRequests(reqs) == {i \in DOMAIN reqs : RequestRetained(reqs, reqs[i])}
KeptChildren(reqs, cs) == {i \in DOMAIN cs : ChildRetained(reqs, cs[i])}

\* Retained requests have ids of their own.
LEMMA RetainedIds ==
    ASSUME NEW reqs, NEW i \in KeptRequests(reqs), NEW j \in KeptRequests(reqs), reqs[i].id = reqs[j].id
    PROVE  i = j
BY DEF KeptRequests, RequestRetained, DupIds

\* Keeping the retained requests, and them alone, leaves nothing to exclude,
\* and every child with the parent it had.
LEMMA RequestsAgain ==
    ASSUME NEW S, NEW reqs \in Seq(S)
    PROVE  LET kept == AtIndices(reqs, KeptRequests(reqs))
           IN  /\ kept \in Seq(S) /\ KeptRequests(kept) = DOMAIN kept
               /\ RetainedRequests(kept) = RetainedRequests(reqs)
               /\ \A id : ParentState(reqs, id) = "unique" =>
                      ParentState(kept, id) = "unique" /\ ParentOf(kept, id) = ParentOf(reqs, id)
<1> DEFINE R    == KeptRequests(reqs)
           kept == AtIndices(reqs, R)
<1>1. R \in SUBSET DOMAIN reqs /\ \A i \in R : RequestRetained(reqs, reqs[i])
  BY DEF KeptRequests
<1>2. R \in SUBSET Nat /\ IsFiniteSet(R) /\ kept \in Seq(S)
  BY <1>1, KeptSection
<1>3. /\ \A n \in DOMAIN kept : Index(R, n) \in R /\ kept[n] = reqs[Index(R, n)]
      /\ \A n, m \in DOMAIN kept : Index(R, n) = Index(R, m) => n = m
      /\ \A k \in R : \E n \in DOMAIN kept : Index(R, n) = k
  BY <1>2, KeptEvents
<1>4. \A i, j \in R : reqs[i].id = reqs[j].id => i = j
  BY RetainedIds
<1>5. RetainedRequests(reqs) = [n \in DOMAIN kept |-> ClearBad(kept[n])]
  BY DEF RetainedRequests, KeptRequests
<1> HIDE DEF kept, R
<1>6. \A n, m \in DOMAIN kept : kept[n].id = kept[m].id => n = m
  BY <1>3, <1>4
<1>7. DupIds(kept) = {}
  BY <1>6 DEF DupIds
<1>8. \A n \in DOMAIN kept : kept[n].shape = "ok"
  BY <1>1, <1>3 DEF RequestRetained
<1>9. \A n \in DOMAIN kept : RequestRetained(kept, kept[n])
  BY <1>7, <1>8 DEF RequestRetained
<1>10. KeptRequests(kept) = DOMAIN kept
  BY <1>9 DEF KeptRequests
<1>11. RetainedRequests(kept) = RetainedRequests(reqs)
  <2>1. AtIndices(kept, DOMAIN kept) = kept
    BY <1>2, KeepAll
  <2>2. RetainedRequests(kept) = [n \in DOMAIN kept |-> ClearBad(kept[n])]
    BY <1>10, <2>1 DEF RetainedRequests, KeptRequests
  <2>3. QED
    BY <1>5, <2>2
<1>12. ASSUME NEW id, ParentState(reqs, id) = "unique"
       PROVE  ParentState(kept, id) = "unique" /\ ParentOf(kept, id) = ParentOf(reqs, id)
  <2>1. PICK i \in DOMAIN reqs : reqs[i].id = id /\ RequestRetained(reqs, reqs[i])
    BY <1>12 DEF ParentState
  <2>2. i \in R
    BY <2>1 DEF R, KeptRequests
  <2>3. PICK n \in DOMAIN kept : kept[n] = reqs[i]
    BY <1>3, <2>2
  <2>4. ParentState(kept, id) = "unique"
    BY <1>7, <1>9, <2>1, <2>3 DEF ParentState
  <2>5. (CHOOSE r \in {reqs[j] : j \in DOMAIN reqs} : r.id = id /\ RequestRetained(reqs, r)) = reqs[i]
    <3>1. ASSUME NEW j \in DOMAIN reqs, reqs[j].id = id, RequestRetained(reqs, reqs[j])
          PROVE  reqs[j] = reqs[i]
      BY <1>4, <2>1, <2>2, <3>1 DEF R, KeptRequests
    <3>2. \A r \in {reqs[j] : j \in DOMAIN reqs} : r.id = id /\ RequestRetained(reqs, r) => r = reqs[i]
      BY <3>1
    <3>3. reqs[i] \in {reqs[j] : j \in DOMAIN reqs}
      OBVIOUS
    <3>4. QED
      BY <2>1, <3>2, <3>3
  <2>6. (CHOOSE r \in {kept[j] : j \in DOMAIN kept} : r.id = id /\ RequestRetained(kept, r)) = reqs[i]
    <3>1. \A r \in {kept[j] : j \in DOMAIN kept} : r.id = id => r = reqs[i]
      BY <1>6, <2>1, <2>3
    <3>2. reqs[i] \in {kept[j] : j \in DOMAIN kept} /\ reqs[i].id = id /\ RequestRetained(kept, reqs[i])
      BY <1>9, <2>1, <2>3
    <3>3. QED
      BY <3>1, <3>2
  <2>7. QED
    BY <2>4, <2>5, <2>6 DEF ParentOf
<1>13. QED
  BY <1>2, <1>10, <1>11, <1>12 DEF kept, R

\* The same for the children of a section.
LEMMA ChildrenAgain ==
    ASSUME NEW S, NEW reqs \in Seq(S), NEW T, NEW cs \in Seq(T)
    PROVE  LET kept == AtIndices(reqs, KeptRequests(reqs))
               left == AtIndices(cs, KeptChildren(reqs, cs))
           IN  /\ left \in Seq(T) /\ KeptChildren(kept, left) = DOMAIN left
               /\ RetainedChildren(kept, left) = RetainedChildren(reqs, cs)
<1> DEFINE kept == AtIndices(reqs, KeptRequests(reqs))
           K    == KeptChildren(reqs, cs)
           left == AtIndices(cs, K)
<1>1. K \in SUBSET DOMAIN cs /\ \A i \in K : ChildRetained(reqs, cs[i])
  BY DEF KeptChildren
<1>2. K \in SUBSET Nat /\ IsFiniteSet(K) /\ left \in Seq(T)
  BY <1>1, KeptSection
<1>3. \A n \in DOMAIN left : Index(K, n) \in K /\ left[n] = cs[Index(K, n)]
  BY <1>2, KeptEvents
<1>4. RetainedChildren(reqs, cs) = [n \in DOMAIN left |-> ClearBad(left[n])]
  BY DEF RetainedChildren, KeptChildren
<1>5. \A id : ParentState(reqs, id) = "unique" =>
          ParentState(kept, id) = "unique" /\ ParentOf(kept, id) = ParentOf(reqs, id)
  BY RequestsAgain
<1> HIDE DEF kept, left, K
<1>6. ASSUME NEW c, ChildRetained(reqs, c) PROVE ChildRetained(kept, c)
  <2>1. ClearBad(c).id = c.id
    BY DEF ClearBad
  <2>2. /\ c.shape = "ok" /\ ParentState(reqs, c.id) = "unique"
        /\ ~OutsideParent(reqs, ClearBad(c))
    BY <1>6 DEF ChildRetained
  <2>3. ~OutsideParent(kept, ClearBad(c))
    BY <1>5, <2>1, <2>2 DEF OutsideParent
  <2>4. QED
    BY <1>5, <2>2, <2>3 DEF ChildRetained
<1>7. \A n \in DOMAIN left : ChildRetained(kept, left[n])
  BY <1>1, <1>3, <1>6
<1>8. KeptChildren(kept, left) = DOMAIN left
  BY <1>7 DEF KeptChildren
<1>9. AtIndices(left, DOMAIN left) = left
  BY <1>2, KeepAll
<1>10. RetainedChildren(kept, left) = RetainedChildren(reqs, cs)
  BY <1>4, <1>8, <1>9 DEF RetainedChildren, KeptChildren
<1>11. QED
  BY <1>2, <1>8, <1>10 DEF kept, left, K

\* A selection from a list in order is listed in order.
LEMMA ImageInOrder ==
    ASSUME NEW n \in Nat, NEW f \in [1..n -> Nat], \A l, m \in 1..n : l < m => f[l] < f[m],
           NEW S \in SUBSET (1..n)
    PROVE  LET T == {f[s] : s \in S}
           IN  /\ S \in SUBSET Nat /\ IsFiniteSet(S)
               /\ T \in SUBSET Nat /\ IsFiniteSet(T) /\ Cardinality(T) = Cardinality(S)
               /\ \A m \in 1..Cardinality(S) : Index(T, m) = f[Index(S, m)]
<1> DEFINE T == {f[s] : s \in S}
           c == Cardinality(S)
           g == [m \in 1..c |-> f[Index(S, m)]]
<1>1. S \in SUBSET Nat /\ IsFiniteSet(S) /\ c \in Nat
  <2>1. IsFiniteSet(1..n)
    BY FS_Interval, 1 \in Int, n \in Int
  <2>2. IsFiniteSet(S)
    BY <2>1, FS_Subset
  <2>3. S \in SUBSET Nat
    OBVIOUS
  <2>4. QED
    BY <2>2, <2>3, FS_CardinalityType
<1>2. T \in SUBSET Nat /\ IsFiniteSet(T)
  <2>1. T \in SUBSET Nat
    OBVIOUS
  <2>2. [s \in S |-> f[s]] \in Surjection(S, T)
    BY DEF Surjection
  <2>3. IsFiniteSet(T)
    BY <1>1, <2>2, FS_Surjection
  <2>4. QED
    BY <2>1, <2>3
<1>3. \A m \in 1..c : Index(S, m) \in S
  BY <1>1, RankBijective DEF Index
<1>4. ASSUME NEW s \in S PROVE \E m \in 1..c : Index(S, m) = s
  <2> DEFINE kept == AtIndices(f, S)
  <2>1. DOMAIN kept = 1..c
    BY <1>1, KeptEvents
  <2>2. \A k \in S : \E m \in DOMAIN kept : Index(S, m) = k
    BY <1>1, KeptEvents
  <2> HIDE DEF kept
  <2>3. QED
    BY <2>1, <2>2
<1>5. \A l, m \in 1..c : l < m => Index(S, l) < Index(S, m)
  BY <1>1, IndexOrder
<1> HIDE DEF c
<1>6. g \in [1..c -> T] /\ \A m \in 1..c : g[m] = f[Index(S, m)]
  BY <1>3
<1>7. \A t \in T : \E m \in 1..c : g[m] = t
  BY <1>4, <1>6
<1>8. \A l, m \in 1..c : l < m => g[l] < g[m]
  BY <1>3, <1>5, <1>6
<1> HIDE DEF g, T
<1>9. Cardinality(T) = c /\ \A m \in 1..c : Index(T, m) = g[m]
  BY <1>1, <1>2, <1>6, <1>7, <1>8, InOrder
<1>10. QED
  BY <1>1, <1>2, <1>6, <1>9 DEF T, c

----------------------------------------------------------------------------
(* Well-formed sections: what normalization and validation rely on.        *)

EventFields == {"id", "shape", "s", "e", "dur"}

WellFormed(ev) ==
    /\ ev = [f \in DOMAIN ev |-> ev[f]] /\ EventFields \subseteq DOMAIN ev
    /\ ev.shape \in EventShapes

IsSection(s) == s \in Seq({s[i] : i \in DOMAIN s})
EventSection(s) == IsSection(s) /\ \A i \in DOMAIN s : WellFormed(s[i])

\* A sequence over any set is a section.
LEMMA SequenceIsSection ==
    ASSUME NEW S, NEW s \in Seq(S)
    PROVE  IsSection(s)
<1> DEFINE R == {s[i] : i \in DOMAIN s}
           n == Len(s)
<1>1. n \in Nat /\ s \in [1..n -> S]
  OBVIOUS
<1> HIDE DEF n
<1>2. \A i \in 1..n : s[i] \in R
  BY <1>1
<1> HIDE DEF R
<1>3. s \in [1..n -> R]
  BY <1>1, <1>2
<1>4. s \in Seq(R)
  BY <1>1, <1>3
<1>5. QED
  BY <1>4 DEF IsSection, R

\* Clearing unusable offsets changes nothing else, leaves usable ones alone
\* and has nothing left to do the second time.
LEMMA Cleared ==
    ASSUME NEW ev, WellFormed(ev)
    PROVE  /\ ClearBad(ev).id = ev.id
           /\ ClearBad(ev).shape = ev.shape
           /\ ~PrecisionBad(ClearBad(ev))
           /\ ClearBad(ClearBad(ev)) = ClearBad(ev)
           /\ ~PrecisionBad(ev) <=> ClearBad(ev) = ev
           /\ WellFormed(ClearBad(ev))
<1>1. CASE ~PrecisionBad(ev)
  BY <1>1 DEF ClearBad
<1>2. CASE PrecisionBad(ev)
  <2> DEFINE cl == [ev EXCEPT !.s = NoOffset, !.e = NoOffset]
  <2>1. cl.s = NoOffset /\ cl.e = NoOffset /\ cl.id = ev.id /\ cl.shape = ev.shape
    BY DEF WellFormed, EventFields
  <2>2. ClearBad(ev) = cl
    BY <1>2 DEF ClearBad
  <2>3. DOMAIN cl = DOMAIN ev /\ cl = [f \in DOMAIN cl |-> cl[f]]
    BY DEF WellFormed
  <2> HIDE DEF cl
  <2>4. ~PrecisionBad(cl)
    BY <2>1 DEF PrecisionBad
  <2>5. ClearBad(cl) = cl
    BY <2>4 DEF ClearBad
  <2>6. WellFormed(cl)
    BY <2>1, <2>3 DEF WellFormed
  <2>7. cl # ev
    BY <1>2, <2>4
  <2>8. QED
    BY <1>2, <2>1, <2>2, <2>4, <2>5, <2>6, <2>7
<1>3. QED
  BY <1>1, <1>2

\* An output request is the cleared input request of its index, and no two
\* have one index.
LEMMA RequestsKept ==
    ASSUME NEW reqs, IsSection(reqs)
    PROVE  LET K == KeptRequests(reqs)
               out == RetainedRequests(reqs)
           IN  /\ K \in SUBSET Nat /\ IsFiniteSet(K)
               /\ IsSection(out) /\ Len(out) = Cardinality(K)
               /\ \A n \in DOMAIN out : Index(K, n) \in K /\ out[n] = ClearBad(reqs[Index(K, n)])
               /\ \A n, m \in DOMAIN out : Index(K, n) = Index(K, m) => n = m
               /\ \A k \in K : \E n \in DOMAIN out : Index(K, n) = k
<1> DEFINE K == KeptRequests(reqs)
           S == {reqs[i] : i \in DOMAIN reqs}
           kept == AtIndices(reqs, K)
           out == RetainedRequests(reqs)
<1>1. reqs \in Seq(S) /\ K \in SUBSET DOMAIN reqs
  BY DEF IsSection, KeptRequests
<1> HIDE DEF S
<1>2. out = [n \in DOMAIN kept |-> ClearBad(kept[n])]
  BY DEF RetainedRequests, KeptRequests
<1>3. DOMAIN out = DOMAIN kept /\ \A n \in DOMAIN kept : out[n] = ClearBad(kept[n])
  BY <1>2
<1> HIDE DEF K
<1>4. K \in SUBSET Nat /\ IsFiniteSet(K) /\ kept \in Seq(S) /\ Len(kept) = Cardinality(K)
  BY <1>1, KeptSection
<1>5. /\ \A n \in DOMAIN kept : Index(K, n) \in K /\ kept[n] = reqs[Index(K, n)]
      /\ \A n, m \in DOMAIN kept : Index(K, n) = Index(K, m) => n = m
      /\ \A k \in K : \E n \in DOMAIN kept : Index(K, n) = k
  BY <1>4, KeptEvents
<1>6. IsSection(out) /\ Len(out) = Cardinality(K)
  <2> DEFINE c == Len(kept)
             T == {out[n] : n \in DOMAIN out}
  <2>1. c \in Nat /\ DOMAIN kept = 1..c
    BY <1>4
  <2> HIDE DEF c, kept
  <2>2. out = [n \in 1..c |-> out[n]] /\ \A n \in 1..c : out[n] \in T
    BY <1>2, <1>3, <2>1
  <2> HIDE DEF T, out
  <2>3. out \in [1..c -> T]
    BY <2>2
  <2>4. out \in Seq(T) /\ Len(out) = c
    BY <2>1, <2>3
  <2>5. QED
    BY <1>4, <2>4 DEF c, T, IsSection
<1> HIDE DEF kept, out
<1>7. \A n \in DOMAIN out : Index(K, n) \in K /\ out[n] = ClearBad(reqs[Index(K, n)])
  BY <1>3, <1>5, Zenon
<1>8. QED
  BY <1>3, <1>4, <1>5, <1>6, <1>7, Zenon DEF K, out

\* The same of the children of a section.
LEMMA ChildrenKept ==
    ASSUME NEW reqs, NEW cs, IsSection(cs)
    PROVE  LET K == KeptChildren(reqs, cs)
               out == RetainedChildren(reqs, cs)
           IN  /\ K \in SUBSET Nat /\ IsFiniteSet(K)
               /\ IsSection(out) /\ Len(out) = Cardinality(K)
               /\ \A n \in DOMAIN out : Index(K, n) \in K /\ out[n] = ClearBad(cs[Index(K, n)])
               /\ \A n, m \in DOMAIN out : Index(K, n) = Index(K, m) => n = m
               /\ \A k \in K : \E n \in DOMAIN out : Index(K, n) = k
<1> DEFINE K == KeptChildren(reqs, cs)
           S == {cs[i] : i \in DOMAIN cs}
           kept == AtIndices(cs, K)
           out == RetainedChildren(reqs, cs)
<1>1. cs \in Seq(S) /\ K \in SUBSET DOMAIN cs
  BY DEF IsSection, KeptChildren
<1> HIDE DEF S
<1>2. out = [n \in DOMAIN kept |-> ClearBad(kept[n])]
  BY DEF RetainedChildren, KeptChildren
<1>3. DOMAIN out = DOMAIN kept /\ \A n \in DOMAIN kept : out[n] = ClearBad(kept[n])
  BY <1>2
<1> HIDE DEF K
<1>4. K \in SUBSET Nat /\ IsFiniteSet(K) /\ kept \in Seq(S) /\ Len(kept) = Cardinality(K)
  BY <1>1, KeptSection
<1>5. /\ \A n \in DOMAIN kept : Index(K, n) \in K /\ kept[n] = cs[Index(K, n)]
      /\ \A n, m \in DOMAIN kept : Index(K, n) = Index(K, m) => n = m
      /\ \A k \in K : \E n \in DOMAIN kept : Index(K, n) = k
  BY <1>4, KeptEvents
<1>6. IsSection(out) /\ Len(out) = Cardinality(K)
  <2> DEFINE c == Len(kept)
             T == {out[n] : n \in DOMAIN out}
  <2>1. c \in Nat /\ DOMAIN kept = 1..c
    BY <1>4
  <2> HIDE DEF c, kept
  <2>2. out = [n \in 1..c |-> out[n]] /\ \A n \in 1..c : out[n] \in T
    BY <1>2, <1>3, <2>1
  <2> HIDE DEF T, out
  <2>3. out \in [1..c -> T]
    BY <2>2
  <2>4. out \in Seq(T) /\ Len(out) = c
    BY <2>1, <2>3
  <2>5. QED
    BY <1>4, <2>4 DEF c, T, IsSection
<1> HIDE DEF kept, out
<1>7. \A n \in DOMAIN out : Index(K, n) \in K /\ out[n] = ClearBad(cs[Index(K, n)])
  BY <1>3, <1>5, Zenon
<1>8. QED
  BY <1>3, <1>4, <1>5, <1>6, <1>7, Zenon DEF K, out

\* No id is ambiguous among the output requests, so each is retained again.
LEMMA RequestsStayRetained ==
    ASSUME NEW reqs, EventSection(reqs)
    PROVE  LET out == RetainedRequests(reqs)
           IN  /\ DupIds(out) = {}
               /\ \A n \in DOMAIN out : RequestRetained(out, out[n]) /\ ~PrecisionBad(out[n])
               /\ EventSection(out)
<1> DEFINE K == KeptRequests(reqs)
           out == RetainedRequests(reqs)
<1>0. IsSection(reqs)
  BY DEF EventSection
<1>1. /\ \A n \in DOMAIN out : Index(K, n) \in K /\ out[n] = ClearBad(reqs[Index(K, n)])
      /\ \A n, m \in DOMAIN out : Index(K, n) = Index(K, m) => n = m
      /\ IsSection(out)
  BY <1>0, RequestsKept
<1>2. \A k \in K : k \in DOMAIN reqs /\ WellFormed(reqs[k]) /\ RequestRetained(reqs, reqs[k])
  BY DEF KeptRequests, EventSection
<1>3. ASSUME NEW n \in DOMAIN out
      PROVE  /\ out[n].id = reqs[Index(K, n)].id /\ WellFormed(out[n])
             /\ out[n].shape = "ok" /\ ~PrecisionBad(out[n])
  <2> HIDE DEF K, out
  <2>1. WellFormed(reqs[Index(K, n)]) /\ reqs[Index(K, n)].shape = "ok"
    BY <1>1, <1>2 DEF RequestRetained
  <2>2. QED
    BY <1>1, <2>1, Cleared
<1>4. \A n, m \in DOMAIN out : out[n].id = out[m].id => n = m
  <2> SUFFICES ASSUME NEW n \in DOMAIN out, NEW m \in DOMAIN out, out[n].id = out[m].id
               PROVE  n = m
    OBVIOUS
  <2>1. reqs[Index(K, n)].id = reqs[Index(K, m)].id
    BY <1>3
  <2>2. Index(K, n) \in K /\ Index(K, m) \in K
    BY <1>1
  <2>3. Index(K, n) = Index(K, m)
    BY <2>1, <2>2, RetainedIds
  <2>4. QED
    BY <1>1, <2>3
<1> HIDE DEF out
<1>5. DupIds(out) = {}
  BY <1>4 DEF DupIds
<1>6. QED
  BY <1>1, <1>3, <1>5 DEF RequestRetained, EventSection, out

\* A retained request is the one parent of its id, with its cleared offsets.
LEMMA UniqueParent ==
    ASSUME NEW reqs, NEW i \in KeptRequests(reqs)
    PROVE  /\ ParentState(reqs, reqs[i].id) = "unique"
           /\ ParentOf(reqs, reqs[i].id) = ClearBad(reqs[i])
<1> DEFINE id == reqs[i].id
           range == {reqs[k] : k \in DOMAIN reqs}
           pick == CHOOSE r \in range : r.id = id /\ RequestRetained(reqs, r)
<1>1. i \in DOMAIN reqs /\ RequestRetained(reqs, reqs[i])
  BY DEF KeptRequests
<1>2. id \notin DupIds(reqs)
  BY <1>1 DEF RequestRetained
<1>3. ParentState(reqs, id) = "unique"
  BY <1>1, <1>2 DEF ParentState
<1>4. reqs[i] \in range /\ reqs[i].id = id
  BY <1>1
<1>5. pick \in range /\ pick.id = id /\ RequestRetained(reqs, pick)
  <2> HIDE DEF range, id
  <2>1. QED
    BY <1>1, <1>4
<1>6. PICK k \in DOMAIN reqs : pick = reqs[k]
  BY <1>5
<1>7. k \in KeptRequests(reqs) /\ reqs[k].id = reqs[i].id
  <2> HIDE DEF pick
  <2>1. QED
    BY <1>5, <1>6 DEF KeptRequests
<1>8. k = i
  BY <1>7, RetainedIds
<1>9. ParentOf(reqs, id) = ClearBad(pick)
  BY DEF ParentOf
<1>10. QED
  BY <1>3, <1>6, <1>8, <1>9

\* Only a retained request makes an id's parent unique.
LEMMA ParentRetained ==
    ASSUME NEW reqs, NEW id, ParentState(reqs, id) = "unique"
    PROVE  \E i \in KeptRequests(reqs) : reqs[i].id = id
BY DEF ParentState, KeptRequests

\* Normalizing the requests changes neither who is a parent nor its interval.
LEMMA SameParent ==
    ASSUME NEW reqs, EventSection(reqs), NEW id, ParentState(reqs, id) = "unique"
    PROVE  /\ ParentState(RetainedRequests(reqs), id) = "unique"
           /\ ParentOf(RetainedRequests(reqs), id) = ParentOf(reqs, id)
<1> DEFINE K == KeptRequests(reqs)
           out == RetainedRequests(reqs)
<1>1. PICK i \in K : reqs[i].id = id
  BY ParentRetained
<1>2. ParentOf(reqs, id) = ClearBad(reqs[i])
  BY <1>1, UniqueParent
<1>3. IsSection(reqs) /\ WellFormed(reqs[i])
  BY DEF EventSection, KeptRequests
<1>4. PICK n \in DOMAIN out : Index(K, n) = i
  BY <1>3, RequestsKept
<1>5. out[n] = ClearBad(reqs[i])
  BY <1>3, <1>4, RequestsKept
<1>6. out[n].id = id /\ ClearBad(out[n]) = ClearBad(reqs[i])
  BY <1>1, <1>3, <1>5, Cleared
<1>7. n \in KeptRequests(out)
  BY RequestsStayRetained DEF KeptRequests
<1>8. ParentState(out, id) = "unique" /\ ParentOf(out, id) = ClearBad(out[n])
  BY <1>6, <1>7, UniqueParent
<1>9. QED
  BY <1>2, <1>6, <1>8

\* A retained child is retained again under the normalized requests.
LEMMA ChildrenStayRetained ==
    ASSUME NEW reqs, EventSection(reqs), NEW cs, EventSection(cs)
    PROVE  LET out == RetainedChildren(reqs, cs)
           IN  /\ \A n \in DOMAIN out :
                      ChildRetained(RetainedRequests(reqs), out[n]) /\ ~PrecisionBad(out[n])
               /\ EventSection(out)
<1> DEFINE K == KeptChildren(reqs, cs)
           out == RetainedChildren(reqs, cs)
<1>0. IsSection(cs)
  BY DEF EventSection
<1>1. /\ IsSection(out)
      /\ \A n \in DOMAIN out : Index(K, n) \in K /\ out[n] = ClearBad(cs[Index(K, n)])
  BY <1>0, ChildrenKept
<1>2. \A k \in K : WellFormed(cs[k]) /\ ChildRetained(reqs, cs[k])
  BY DEF KeptChildren, EventSection
<1> HIDE DEF K, out
<1>3. ASSUME NEW n \in DOMAIN out
      PROVE  /\ ChildRetained(RetainedRequests(reqs), out[n]) /\ ~PrecisionBad(out[n])
             /\ WellFormed(out[n])
  <2> DEFINE k == Index(K, n)
             c == out[n]
  <2>1. WellFormed(cs[k]) /\ ChildRetained(reqs, cs[k]) /\ c = ClearBad(cs[k])
    BY <1>1, <1>2
  <2> HIDE DEF c, k
  <2>2. /\ c.id = cs[k].id /\ c.shape = cs[k].shape /\ ~PrecisionBad(c)
        /\ ClearBad(c) = c /\ WellFormed(c)
    BY <2>1, Cleared
  <2>3. /\ cs[k].shape = "ok" /\ ParentState(reqs, cs[k].id) = "unique"
        /\ ~OutsideParent(reqs, ClearBad(cs[k]))
    BY <2>1 DEF ChildRetained
  <2>4. /\ ParentState(RetainedRequests(reqs), c.id) = "unique"
        /\ ParentOf(RetainedRequests(reqs), c.id) = ParentOf(reqs, c.id)
    BY <2>2, <2>3, SameParent
  <2>5. ~OutsideParent(RetainedRequests(reqs), c)
    <3>1. ~OutsideParent(reqs, c)
      BY <2>1, <2>3
    <3>2. QED
      BY <2>4, <3>1 DEF OutsideParent
  <2>6. ChildRetained(RetainedRequests(reqs), c)
    BY <2>2, <2>3, <2>4, <2>5 DEF ChildRetained
  <2>7. QED
    BY <2>2, <2>6 DEF c
<1>4. QED
  BY <1>1, <1>3 DEF EventSection, out

----------------------------------------------------------------------------
(* Normalization of a whole run.                                           *)

RunSections == {"requests", "stages", "queues", "inflight", "runtime"}

\* The evidence of a run as Normalization describes it.
EvidenceRun(rn) ==
    /\ rn = [f \in DOMAIN rn |-> rn[f]] /\ RunSections \subseteq DOMAIN rn
    /\ EventSection(rn.requests) /\ EventSection(rn.stages) /\ EventSection(rn.queues)
    /\ IsSection(rn.inflight)
    /\ IsSection(rn.runtime) /\ \A i \in DOMAIN rn.runtime : rn.runtime[i] \in {"ok", "zero_workers"}

KeptGauges(fl) == {i \in DOMAIN fl : fl[i].gauge \notin BlankGauges}

\* The sections of a normalized run; nothing else changes.
LEMMA SectionsOut ==
    ASSUME NEW rn, EvidenceRun(rn)
    PROVE  LET out == NormalizeRun(rn)
           IN  /\ out = [f \in DOMAIN out |-> out[f]] /\ DOMAIN out = DOMAIN rn
               /\ out.requests = RetainedRequests(rn.requests)
               /\ out.stages = RetainedChildren(rn.requests, rn.stages)
               /\ out.queues = RetainedChildren(rn.requests, rn.queues)
               /\ out.inflight = AtIndices(rn.inflight, KeptGauges(rn.inflight))
               /\ out.runtime = [i \in DOMAIN rn.runtime |-> "ok"]
               /\ \A f \in DOMAIN rn \ RunSections : out[f] = rn[f]
<1> DEFINE rq == RetainedRequests(rn.requests)
           st == RetainedChildren(rn.requests, rn.stages)
           qu == RetainedChildren(rn.requests, rn.queues)
           fl == AtIndices(rn.inflight, KeptGauges(rn.inflight))
           rt == [i \in DOMAIN rn.runtime |-> "ok"]
<1>1. NormalizeRun(rn) = [rn EXCEPT !.requests = rq, !.stages = st, !.queues = qu,
                                    !.inflight = fl, !.runtime = rt]
  BY DEF NormalizeRun, KeptGauges
<1> HIDE DEF rq, st, qu, fl, rt
<1>2. RunSections \subseteq DOMAIN rn
  BY DEF EvidenceRun
<1>3. QED
  BY <1>1, <1>2 DEF RunSections, rq, st, qu, fl, rt

\* Whatever a run recorded, its normalization passes strict evidence
\* validation: no request or child would be excluded, no offsets cleared, no
\* sample dropped or repaired by a second pass.
THEOREM NormalizedValid ==
    ASSUME NEW rn, EvidenceRun(rn)
    PROVE  EvidenceRun(NormalizeRun(rn)) /\ EvidenceValid(NormalizeRun(rn))
<1> DEFINE out == NormalizeRun(rn)
           K == KeptGauges(rn.inflight)
<1>0. /\ EventSection(rn.requests) /\ EventSection(rn.stages) /\ EventSection(rn.queues)
      /\ IsSection(rn.inflight) /\ IsSection(rn.runtime) /\ RunSections \subseteq DOMAIN rn
  BY DEF EvidenceRun
<1>1. /\ out.requests = RetainedRequests(rn.requests)
      /\ out.stages = RetainedChildren(rn.requests, rn.stages)
      /\ out.queues = RetainedChildren(rn.requests, rn.queues)
      /\ out.inflight = AtIndices(rn.inflight, K)
      /\ out.runtime = [i \in DOMAIN rn.runtime |-> "ok"]
      /\ out = [f \in DOMAIN out |-> out[f]] /\ DOMAIN out = DOMAIN rn
  BY SectionsOut
<1> HIDE DEF out
<1>2. /\ EventSection(out.requests)
      /\ \A i \in DOMAIN out.requests :
             RequestRetained(out.requests, out.requests[i]) /\ ~PrecisionBad(out.requests[i])
  BY <1>0, <1>1, RequestsStayRetained
<1>3. /\ EventSection(out.stages)
      /\ \A i \in DOMAIN out.stages :
             ChildRetained(out.requests, out.stages[i]) /\ ~PrecisionBad(out.stages[i])
  BY <1>0, <1>1, ChildrenStayRetained
<1>4. /\ EventSection(out.queues)
      /\ \A i \in DOMAIN out.queues :
             ChildRetained(out.requests, out.queues[i]) /\ ~PrecisionBad(out.queues[i])
  BY <1>0, <1>1, ChildrenStayRetained
<1>5. /\ IsSection(out.inflight)
      /\ \A i \in DOMAIN out.inflight : out.inflight[i].gauge \notin BlankGauges
  <2> DEFINE S == {rn.inflight[i] : i \in DOMAIN rn.inflight}
  <2>1. rn.inflight \in Seq(S) /\ K \in SUBSET DOMAIN rn.inflight
    BY <1>0 DEF IsSection, KeptGauges
  <2>2. \A k \in K : rn.inflight[k].gauge \notin BlankGauges
    BY DEF KeptGauges
  <2> HIDE DEF K, S
  <2>3. K \in SUBSET Nat /\ IsFiniteSet(K) /\ out.inflight \in Seq(S)
    BY <1>1, <2>1, KeptSection
  <2>4. \A n \in DOMAIN out.inflight : Index(K, n) \in K /\ out.inflight[n] = rn.inflight[Index(K, n)]
    BY <1>1, <2>3, KeptEvents
  <2>5. IsSection(out.inflight)
    BY <2>3, SequenceIsSection
  <2>6. QED
    BY <2>2, <2>4, <2>5
<1>6. /\ IsSection(out.runtime)
      /\ \A i \in DOMAIN out.runtime : out.runtime[i] = "ok"
  <2> DEFINE n == Len(rn.runtime)
  <2>1. n \in Nat /\ DOMAIN rn.runtime = 1..n
    BY <1>0 DEF IsSection
  <2> HIDE DEF n
  <2>2. out.runtime \in [1..n -> {"ok"}]
    BY <1>1, <2>1
  <2>3. out.runtime \in Seq({"ok"})
    BY <2>1, <2>2
  <2>4. QED
    BY <2>2, <2>3, SequenceIsSection
<1>7. EvidenceRun(out)
  BY <1>0, <1>1, <1>2, <1>3, <1>4, <1>5, <1>6 DEF EvidenceRun
<1>8. EvidenceValid(out)
  BY <1>2, <1>3, <1>4, <1>5, <1>6 DEF EvidenceValid
<1>9. QED
  BY <1>7, <1>8 DEF out

----------------------------------------------------------------------------
(* Strict validation, and what the lifecycle warnings say.                 *)

\* The one code that is no error: a run without precise intervals.
Silent(issue) == issue.code = "precise_interval_validation_unavailable"

\* An issue is an error unless it is silent.
LEMMA Severity ==
    ASSUME NEW section, NEW index, NEW field, NEW code
    PROVE  Issue(section, index, field, code).severity # "error"
               <=> Silent(Issue(section, index, field, code))
BY DEF Issue, Silent

EvidenceIssues(rn) ==
    AllEventIssues(rn) \cup DuplicateIssues(rn.requests) \cup AllChildIssues(rn)
    \cup GaugeIssues(rn) \cup WorkerIssues(rn)

\* The parts of a report: what the metadata and what the evidence is told of.
LEMMA ReportParts ==
    ASSUME NEW rn
    PROVE  /\ Report(rn) = MetadataIssues(rn) \cup EvidenceIssues(rn)
           /\ \A issue \in MetadataIssues(rn) : issue.section = "metadata" /\ ~Silent(issue)
           /\ \A issue \in EvidenceIssues(rn) : issue.section # "metadata"
           /\ \A issue \in Report(rn) : issue.severity # "error" <=> Silent(issue)
<1>1. Report(rn) = MetadataIssues(rn) \cup EvidenceIssues(rn)
  BY DEF Report, EvidenceIssues
<1>2. ASSUME NEW issue \in MetadataIssues(rn)
      PROVE  /\ issue.section = "metadata" /\ ~Silent(issue)
             /\ issue.severity # "error" <=> Silent(issue)
  <2>1. PICK field, code : /\ issue = Issue("metadata", NoIndex, field, code)
                           /\ code # "precise_interval_validation_unavailable"
    BY <1>2 DEF MetadataIssues
  <2>2. QED
    BY <2>1, IssuePlace, Severity DEF Silent
<1>3. ASSUME NEW issue \in EvidenceIssues(rn)
      PROVE  \E section, i, field, code : issue = Issue(section, i, field, code) /\ section # "metadata"
  <2>1. CASE issue \in AllEventIssues(rn)
    <3>1. PICK sec \in EventSections : \E i \in DOMAIN rn[sec] : issue \in EventIssues(sec, i, rn[sec][i])
      BY <2>1 DEF AllEventIssues
    <3>2. sec # "metadata"
      BY DEF EventSections, ChildSections
    <3>3. QED
      BY <3>1, <3>2 DEF EventIssues
  <2>2. CASE issue \in DuplicateIssues(rn.requests)
    BY <2>2 DEF DuplicateIssues
  <2>3. CASE issue \in AllChildIssues(rn)
    <3>1. PICK sec \in ChildSections : \E i \in DOMAIN rn[sec] :
              issue \in ChildPolicy(rn.requests, sec, i, rn[sec][i])
      BY <2>3 DEF AllChildIssues
    <3>2. sec # "metadata"
      BY DEF ChildSections
    <3>3. PICK i \in DOMAIN rn[sec] : issue \in ChildPolicy(rn.requests, sec, i, rn[sec][i])
      BY <3>1
    <3>4. \E field, code : issue = Issue(sec, i, field, code)
      BY <3>3 DEF ChildPolicy
    <3>5. QED
      BY <3>2, <3>4
  <2>4. CASE issue \in GaugeIssues(rn) \cup WorkerIssues(rn)
    BY <2>4 DEF GaugeIssues, WorkerIssues
  <2>5. QED
    BY <1>3, <2>1, <2>2, <2>3, <2>4 DEF EvidenceIssues
<1>4. ASSUME NEW issue \in EvidenceIssues(rn)
      PROVE  issue.section # "metadata" /\ (issue.severity # "error" <=> Silent(issue))
  <2>1. PICK section, i, field, code : issue = Issue(section, i, field, code) /\ section # "metadata"
    BY <1>3
  <2>2. QED
    BY <2>1, IssuePlace, Severity
<1>5. QED
  BY <1>1, <1>2, <1>4

\* The code of an event's offsets says whether they can be kept.
LEMMA PrecisionCodes ==
    ASSUME NEW ev
    PROVE  PrecisionCode(ev) \in {"sound", "precise_interval_validation_unavailable"}
               <=> ~PrecisionBad(ev)
BY DEF PrecisionCode, PrecisionBad, Precise

\* An event alone raises no error exactly when it is kept as it is.
LEMMA OwnErrors ==
    ASSUME NEW section, NEW i, NEW ev, ev.shape \in EventShapes
    PROVE  (\A issue \in EventIssues(section, i, ev) : Silent(issue))
               <=> ev.shape = "ok" /\ ~PrecisionBad(ev)
<1>1. (\A c \in ShapeCodes(ev) : Silent(Issue(section, i, c[1], c[2]))) <=> ev.shape = "ok"
  <2>1. CASE ev.shape = "ok"
    <3>1. ShapeCodes(ev) = {}
      BY <2>1 DEF ShapeCodes
    <3>2. QED
      BY <2>1, <3>1
  <2>2. CASE ev.shape = "blank"
    <3>1. <<"string", "empty_required_field">> \in ShapeCodes(ev)
      BY <2>2 DEF ShapeCodes
    <3>2. ~Silent(Issue(section, i, "string", "empty_required_field"))
      BY IssuePlace DEF Silent
    <3>3. QED
      BY <2>2, <3>1, <3>2
  <2>3. CASE ev.shape = "inverted"
    <3>1. <<"end_unix_ms", "inverted_interval">> \in ShapeCodes(ev)
      BY <2>3 DEF ShapeCodes
    <3>2. ~Silent(Issue(section, i, "end_unix_ms", "inverted_interval"))
      BY IssuePlace DEF Silent
    <3>3. QED
      BY <2>3, <3>1, <3>2
  <2>4. QED
    BY <2>1, <2>2, <2>3 DEF EventShapes
<1>2. Silent(Issue(section, i, NoField, PrecisionCode(ev)))
          <=> PrecisionCode(ev) = "precise_interval_validation_unavailable"
  BY IssuePlace DEF Silent
<1>3. (\A issue \in EventIssues(section, i, ev) : Silent(issue))
          <=> /\ \A c \in ShapeCodes(ev) : Silent(Issue(section, i, c[1], c[2]))
              /\ PrecisionCode(ev) = "sound" \/ Silent(Issue(section, i, NoField, PrecisionCode(ev)))
  BY DEF EventIssues
<1>4. QED
  BY <1>1, <1>2, <1>3, PrecisionCodes

\* The evidence raises no error exactly when it is valid: nothing would be
\* excluded, cleared or repaired.
LEMMA ErrorsInEvidence ==
    ASSUME NEW rn, EvidenceRun(rn)
    PROVE  (\A issue \in EvidenceIssues(rn) : Silent(issue)) <=> EvidenceValid(rn)
<1> DEFINE reqs == rn.requests
           Sound(ev) == ev.shape = "ok" /\ ~PrecisionBad(ev)
           AllSound(s) == \A i \in DOMAIN s : Sound(s[i])
           Parented(s) == \A i \in DOMAIN s : /\ ParentState(reqs, s[i].id) = "unique"
                                              /\ ~OutsideParent(reqs, ClearBad(s[i]))
<1>1. \A sec \in EventSections : \A i \in DOMAIN rn[sec] : rn[sec][i].shape \in EventShapes
  BY DEF EvidenceRun, EventSection, WellFormed, EventSections, ChildSections
<1>2. (\A issue \in AllEventIssues(rn) : Silent(issue))
          <=> AllSound(rn.requests) /\ AllSound(rn.stages) /\ AllSound(rn.queues)
  <2>1. \A sec \in EventSections : \A i \in DOMAIN rn[sec] :
            (\A issue \in EventIssues(sec, i, rn[sec][i]) : Silent(issue)) <=> Sound(rn[sec][i])
    BY <1>1, OwnErrors
  <2> HIDE DEF Sound
  <2>2. (\A issue \in AllEventIssues(rn) : Silent(issue))
            <=> \A sec \in EventSections : \A i \in DOMAIN rn[sec] :
                    \A issue \in EventIssues(sec, i, rn[sec][i]) : Silent(issue)
    BY DEF AllEventIssues
  <2>3. (\A issue \in AllEventIssues(rn) : Silent(issue))
            <=> \A sec \in EventSections : AllSound(rn[sec])
    BY <2>1, <2>2
  <2>4. QED
    BY <2>3 DEF EventSections, ChildSections
<1>3. (\A issue \in DuplicateIssues(reqs) : Silent(issue))
          <=> \A i \in DOMAIN reqs : reqs[i].id \notin DupIds(reqs)
  <2>1. \A i : ~Silent(Issue("requests", i, "request_id", "duplicate_completed_request_id"))
    BY IssuePlace DEF Silent
  <2>2. QED
    BY <2>1 DEF DuplicateIssues
<1>4. (\A issue \in AllChildIssues(rn) : Silent(issue)) <=> Parented(rn.stages) /\ Parented(rn.queues)
  <2>1. ASSUME NEW sec, NEW i, NEW c
        PROVE  (\A issue \in ChildPolicy(reqs, sec, i, c) : Silent(issue))
                   <=> ParentState(reqs, c.id) = "unique" /\ ~OutsideParent(reqs, ClearBad(c))
    <3>1. \A issue \in ChildPolicy(reqs, sec, i, c) : ~Silent(issue)
      BY PolicyExclusion DEF Excludes, Clearing, Silent
    <3>2. (\A issue \in ChildPolicy(reqs, sec, i, c) : Silent(issue)) <=> ChildPolicy(reqs, sec, i, c) = {}
      BY <3>1
    <3>3. QED
      BY <3>2, PolicyExclusion
  <2>2. (\A issue \in AllChildIssues(rn) : Silent(issue))
            <=> \A sec \in ChildSections : \A i \in DOMAIN rn[sec] :
                    \A issue \in ChildPolicy(reqs, sec, i, rn[sec][i]) : Silent(issue)
    BY DEF AllChildIssues
  <2>3. (\A issue \in AllChildIssues(rn) : Silent(issue)) <=> \A sec \in ChildSections : Parented(rn[sec])
    BY <2>1, <2>2
  <2>4. QED
    BY <2>3 DEF ChildSections
<1>5. (\A issue \in GaugeIssues(rn) : Silent(issue))
          <=> \A i \in DOMAIN rn.inflight : rn.inflight[i].gauge \notin BlankGauges
  <2>1. \A i : ~Silent(Issue("inflight", i, "gauge", "empty_required_field"))
    BY IssuePlace DEF Silent
  <2>2. QED
    BY <2>1 DEF GaugeIssues
<1>6. (\A issue \in WorkerIssues(rn) : Silent(issue))
          <=> \A i \in DOMAIN rn.runtime : rn.runtime[i] # "zero_workers"
  <2>1. \A i : ~Silent(Issue("runtime", i, "worker_count", "invalid_worker_count"))
    BY IssuePlace DEF Silent
  <2>2. QED
    BY <2>1 DEF WorkerIssues
<1>7. EvidenceValid(rn)
          <=> /\ AllSound(rn.requests) /\ AllSound(rn.stages) /\ AllSound(rn.queues)
              /\ \A i \in DOMAIN reqs : reqs[i].id \notin DupIds(reqs)
              /\ Parented(rn.stages) /\ Parented(rn.queues)
              /\ \A i \in DOMAIN rn.inflight : rn.inflight[i].gauge \notin BlankGauges
              /\ \A i \in DOMAIN rn.runtime : rn.runtime[i] # "zero_workers"
  BY DEF EvidenceValid, RequestRetained, ChildRetained
<1> HIDE DEF AllSound, Parented
<1>8. QED
  BY <1>2, <1>3, <1>4, <1>5, <1>6, <1>7 DEF EvidenceIssues

\* Valid evidence is what normalization leaves alone.
LEMMA ValidIsFixed ==
    ASSUME NEW rn, EvidenceRun(rn)
    PROVE  EvidenceValid(rn) <=> NormalizeRun(rn) = rn
<1> DEFINE out == NormalizeRun(rn)
<1>1. /\ out = [f \in DOMAIN out |-> out[f]] /\ DOMAIN out = DOMAIN rn
      /\ out.requests = RetainedRequests(rn.requests)
      /\ out.stages = RetainedChildren(rn.requests, rn.stages)
      /\ out.queues = RetainedChildren(rn.requests, rn.queues)
      /\ out.inflight = AtIndices(rn.inflight, KeptGauges(rn.inflight))
      /\ out.runtime = [i \in DOMAIN rn.runtime |-> "ok"]
      /\ \A f \in DOMAIN rn \ RunSections : out[f] = rn[f]
  BY SectionsOut
<1> HIDE DEF out
<1>2. /\ EventSection(rn.requests) /\ EventSection(rn.stages) /\ EventSection(rn.queues)
      /\ IsSection(rn.inflight) /\ IsSection(rn.runtime)
      /\ \A i \in DOMAIN rn.runtime : rn.runtime[i] \in {"ok", "zero_workers"}
      /\ rn = [f \in DOMAIN rn |-> rn[f]]
  BY DEF EvidenceRun
<1>3. ASSUME NEW s, IsSection(s) PROVE AtIndices(s, DOMAIN s) = s /\ s = [i \in DOMAIN s |-> s[i]]
  <2> DEFINE S == {s[i] : i \in DOMAIN s}
  <2>1. s \in Seq(S)
    BY <1>3 DEF IsSection
  <2> HIDE DEF S
  <2>2. AtIndices(s, DOMAIN s) = s
    BY <2>1, KeepAll
  <2>3. s = [i \in DOMAIN s |-> s[i]]
    BY <2>1
  <2>4. QED
    BY <2>2, <2>3
<1>4. ASSUME NEW s, EventSection(s), \A i \in DOMAIN s : ~PrecisionBad(s[i])
      PROVE  s = [i \in DOMAIN s |-> ClearBad(s[i])]
  <2>1. \A i \in DOMAIN s : ClearBad(s[i]) = s[i]
    BY <1>4, Cleared DEF EventSection
  <2>2. s = [i \in DOMAIN s |-> s[i]]
    BY <1>3, <1>4 DEF EventSection
  <2>3. QED
    BY <2>1, <2>2
<1>5. ASSUME EvidenceValid(rn) PROVE out = rn
  <2>1. out.requests = rn.requests
    <3>1. KeptRequests(rn.requests) = DOMAIN rn.requests
      BY <1>5 DEF EvidenceValid, KeptRequests
    <3>2. AtIndices(rn.requests, KeptRequests(rn.requests)) = rn.requests
      BY <1>2, <1>3, <3>1 DEF EventSection
    <3>3. RetainedRequests(rn.requests) = [i \in DOMAIN rn.requests |-> ClearBad(rn.requests[i])]
      BY <3>2 DEF RetainedRequests, KeptRequests
    <3>4. \A i \in DOMAIN rn.requests : ~PrecisionBad(rn.requests[i])
      BY <1>5 DEF EvidenceValid
    <3>5. QED
      BY <1>1, <1>2, <1>4, <3>3, <3>4
  <2>2. ASSUME NEW cs \in {rn.stages, rn.queues} PROVE RetainedChildren(rn.requests, cs) = cs
    <3>1. KeptChildren(rn.requests, cs) = DOMAIN cs
      BY <1>5 DEF EvidenceValid, KeptChildren
    <3>2. EventSection(cs)
      BY <1>2
    <3>3. AtIndices(cs, KeptChildren(rn.requests, cs)) = cs
      BY <1>3, <3>1, <3>2 DEF EventSection
    <3>4. RetainedChildren(rn.requests, cs) = [i \in DOMAIN cs |-> ClearBad(cs[i])]
      BY <3>3 DEF RetainedChildren, KeptChildren
    <3>5. \A i \in DOMAIN cs : ~PrecisionBad(cs[i])
      BY <1>5 DEF EvidenceValid
    <3>6. QED
      BY <1>4, <3>2, <3>4, <3>5
  <2>3. out.inflight = rn.inflight
    <3>1. KeptGauges(rn.inflight) = DOMAIN rn.inflight
      BY <1>5 DEF EvidenceValid, KeptGauges
    <3>2. QED
      BY <1>1, <1>2, <1>3, <3>1
  <2>4. out.runtime = rn.runtime
    <3>1. \A i \in DOMAIN rn.runtime : rn.runtime[i] = "ok"
      BY <1>2, <1>5 DEF EvidenceValid
    <3>2. rn.runtime = [i \in DOMAIN rn.runtime |-> rn.runtime[i]]
      BY <1>2, <1>3
    <3>3. QED
      BY <1>1, <3>1, <3>2
  <2>5. out.stages = rn.stages /\ out.queues = rn.queues
    BY <1>1, <2>2
  <2>6. \A f \in DOMAIN rn : out[f] = rn[f]
    <3>1. ASSUME NEW f \in RunSections PROVE out[f] = rn[f]
      BY <2>1, <2>3, <2>4, <2>5 DEF RunSections
    <3>2. QED
      BY <1>1, <3>1
  <2>7. QED
    BY <1>1, <1>2, <2>6
<1>6. ASSUME out = rn PROVE EvidenceValid(rn)
  BY <1>6, NormalizedValid DEF out
<1>7. QED
  BY <1>5, <1>6 DEF out

\* The metadata raises no error exactly when nothing is wrong with it.
LEMMA MetadataErrors ==
    ASSUME NEW rn
    PROVE  MetadataIssues(rn) = {} <=> rn.meta = {} /\ rn.finalized # "inverted"
BY DEF MetadataIssues

\* Strict validation accepts exactly the runs with sound metadata that
\* normalization would leave alone.
THEOREM StrictDecides ==
    ASSUME NEW rn, EvidenceRun(rn)
    PROVE  ValidateStrict(rn) <=> rn.meta = {} /\ rn.finalized # "inverted" /\ NormalizeRun(rn) = rn
<1>1. ValidateStrict(rn) <=> \A issue \in Report(rn) : Silent(issue)
  BY ReportParts DEF ValidateStrict
<1>2. (\A issue \in Report(rn) : Silent(issue))
          <=> MetadataIssues(rn) = {} /\ \A issue \in EvidenceIssues(rn) : Silent(issue)
  BY ReportParts
<1>3. QED
  BY <1>1, <1>2, MetadataErrors, ErrorsInEvidence, ValidIsFixed

\* What normalization returns has no error left once its metadata is sound.
THEOREM NormalizedStrict ==
    ASSUME NEW rn, EvidenceRun(rn), {"meta", "finalized"} \subseteq DOMAIN rn
    PROVE  ValidateStrict([NormalizeRun(rn) EXCEPT !.meta = {}, !.finalized = "ok"])
<1> DEFINE out == NormalizeRun(rn)
           fixed == [out EXCEPT !.meta = {}, !.finalized = "ok"]
<1>1. EvidenceRun(out) /\ EvidenceValid(out)
  BY NormalizedValid
<1>2. DOMAIN out = DOMAIN rn
  BY SectionsOut
<1> HIDE DEF out
<1>3. /\ fixed = [f \in DOMAIN fixed |-> fixed[f]] /\ DOMAIN fixed = DOMAIN out
      /\ fixed.meta = {} /\ fixed.finalized = "ok"
      /\ fixed.requests = out.requests /\ fixed.stages = out.stages /\ fixed.queues = out.queues
      /\ fixed.inflight = out.inflight /\ fixed.runtime = out.runtime
  BY <1>1, <1>2 DEF EvidenceRun, RunSections
<1> HIDE DEF fixed
<1>4. EvidenceRun(fixed)
  BY <1>1, <1>3 DEF EvidenceRun
<1>5. EvidenceValid(fixed)
  BY <1>1, <1>3 DEF EvidenceValid
<1>6. ValidateStrict(fixed)
  BY <1>3, <1>4, <1>5, StrictDecides, ValidIsFixed
<1>7. QED
  BY <1>6 DEF fixed, out

\* The lifecycle warnings tell of exactly the runs that normalization changes.
THEOREM ChangeIsTold ==
    ASSUME NEW rn, EvidenceRun(rn)
    PROVE  LifecycleSummary(rn) # {} <=> NormalizeRun(rn) # rn
<1> DEFINE report == Report(rn)
           durable == {k \in report :
               /\ k.code # "precise_interval_validation_unavailable"
               /\ SummaryAction(report, k) \in {"excluded", "worker_count_cleared", "offsets_cleared"}}
<1>1. LifecycleSummary(rn) # {} <=> durable # {}
  <2>1. LifecycleSummary(rn) = Summaries(report, durable)
    BY DEF LifecycleSummary, DurableSummaries
  <2> HIDE DEF durable, report
  <2>2. QED
    BY <2>1 DEF Summaries
<1>2. \A k \in report : k \in durable <=> k.section # "metadata" /\ ~Silent(k)
  BY DEF SummaryAction, Silent
<1>3. durable # {} <=> \E k \in EvidenceIssues(rn) : ~Silent(k)
  <2> HIDE DEF durable
  <2>1. \A k \in durable : k \in report
    BY DEF durable
  <2>2. QED
    BY <1>2, <2>1, ReportParts
<1>4. QED
  BY <1>1, <1>3, ErrorsInEvidence, ValidIsFixed

\* The section that normalization makes of a section of events.
LEMMA EventSectionOut ==
    ASSUME NEW rn, EvidenceRun(rn), NEW sec \in EventSections
    PROVE  LET K == {i \in DOMAIN rn[sec] : ~Excluded(Report(rn), sec, i)}
               out == NormalizeRun(rn)[sec]
           IN  /\ K \in SUBSET Nat /\ IsFiniteSet(K)
               /\ IsSection(rn[sec]) /\ IsSection(out) /\ Len(out) = Cardinality(K)
               /\ \A n \in DOMAIN out : Index(K, n) \in K /\ out[n] = ClearBad(rn[sec][Index(K, n)])
               /\ \A k \in K : \E n \in DOMAIN out : Index(K, n) = k
<1> DEFINE K == {i \in DOMAIN rn[sec] : ~Excluded(Report(rn), sec, i)}
           out == NormalizeRun(rn)[sec]
<1>1. EventSection(rn[sec])
  BY DEF EvidenceRun, EventSections, ChildSections
<1>2. IsSection(rn[sec]) /\ \A i \in DOMAIN rn[sec] : rn[sec][i].shape \in EventShapes
  BY <1>1 DEF EventSection, WellFormed
<1>3. CASE sec = "requests"
  <2>1. K = KeptRequests(rn.requests)
    BY <1>2, <1>3, RequestExclusion DEF KeptRequests
  <2>2. out = RetainedRequests(rn.requests)
    BY <1>3, SectionsOut
  <2> HIDE DEF K, out
  <2>3. /\ K \in SUBSET Nat /\ IsFiniteSet(K)
        /\ IsSection(out) /\ Len(out) = Cardinality(K)
        /\ \A n \in DOMAIN out : Index(K, n) \in K /\ out[n] = ClearBad(rn[sec][Index(K, n)])
        /\ \A k \in K : \E n \in DOMAIN out : Index(K, n) = k
    BY <1>2, <1>3, <2>1, <2>2, RequestsKept
  <2>4. QED
    BY <1>2, <2>3 DEF K, out
<1>4. CASE sec \in ChildSections
  <2>1. K = KeptChildren(rn.requests, rn[sec])
    BY <1>2, <1>4, ChildExclusion DEF KeptChildren
  <2>2. out = RetainedChildren(rn.requests, rn[sec])
    <3>1. sec = "stages" \/ sec = "queues"
      BY <1>4 DEF ChildSections
    <3>2. QED
      BY <3>1, SectionsOut
  <2> HIDE DEF K, out
  <2>3. /\ K \in SUBSET Nat /\ IsFiniteSet(K)
        /\ IsSection(out) /\ Len(out) = Cardinality(K)
        /\ \A n \in DOMAIN out : Index(K, n) \in K /\ out[n] = ClearBad(rn[sec][Index(K, n)])
        /\ \A k \in K : \E n \in DOMAIN out : Index(K, n) = k
    BY <1>2, <2>1, <2>2, ChildrenKept
  <2>4. QED
    BY <1>2, <2>3 DEF K, out
<1>5. QED
  BY <1>3, <1>4 DEF EventSections

\* A retained event is at the index that its disposition gives, with at most
\* its offsets cleared, and nothing else is in the section.
THEOREM DispositionsTrue ==
    ASSUME NEW rn, EvidenceRun(rn), NEW sec \in EventSections
    PROVE  LET kept == {i \in DOMAIN rn[sec] : ~Excluded(Report(rn), sec, i)}
               out == NormalizeRun(rn)[sec]
           IN  /\ Cardinality(kept) = Len(out)
               /\ \A i \in kept :
                      /\ OutputIndex(Report(rn), sec, i) \in DOMAIN out
                      /\ out[OutputIndex(Report(rn), sec, i)] = ClearBad(rn[sec][i])
<1> DEFINE K == {i \in DOMAIN rn[sec] : ~Excluded(Report(rn), sec, i)}
           out == NormalizeRun(rn)[sec]
<1>1. /\ K \in SUBSET Nat /\ IsFiniteSet(K)
      /\ IsSection(rn[sec]) /\ IsSection(out) /\ Len(out) = Cardinality(K)
      /\ \A n \in DOMAIN out : Index(K, n) \in K /\ out[n] = ClearBad(rn[sec][Index(K, n)])
      /\ \A k \in K : \E n \in DOMAIN out : Index(K, n) = k
  BY EventSectionOut
<1>2. ASSUME NEW i \in K
      PROVE  /\ OutputIndex(Report(rn), sec, i) \in DOMAIN out
             /\ out[OutputIndex(Report(rn), sec, i)] = ClearBad(rn[sec][i])
  <2>1. OutputIndex(Report(rn), sec, i) = Rank(K, i)
    <3> DEFINE n == Len(rn[sec])
    <3>1. n \in Nat /\ DOMAIN rn[sec] = 1..n
      BY <1>1 DEF IsSection
    <3> HIDE DEF n
    <3>2. i \in 1..n
      BY <3>1
    <3>3. {k \in 1..i : ~Excluded(Report(rn), sec, k)} = {j \in K : j <= i}
      BY <3>1, <3>2
    <3>4. QED
      BY <3>3 DEF OutputIndex, Rank
  <2>2. PICK n \in DOMAIN out : Index(K, n) = i
    BY <1>1
  <2>3. DOMAIN out = 1..Cardinality(K)
    BY <1>1 DEF IsSection
  <2> HIDE DEF K, out
  <2>4. Rank(K, Index(K, n)) = n
    BY <1>1, <2>3, RankBijective DEF Index
  <2>5. QED
    BY <1>1, <2>1, <2>2, <2>4
<1>3. QED
  BY <1>1, <1>2
============================================================================
