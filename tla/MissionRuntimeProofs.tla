------------------------ MODULE MissionRuntimeProofs ------------------------
(***************************************************************************)
(* Proofs about MissionRuntime for every answer the model, the judge and   *)
(* the critic may give, every tool result, and every number of calls,      *)
(* processes, turns and hypotheses.                                        *)
(***************************************************************************)
EXTENDS MissionRuntime, MissionControlProofs, SequenceTheorems, FiniteSetTheorems

-----------------------------------------------------------------------------
(***************************************************************************)
(* What the passed gates of a board rest on: the source types that were    *)
(* seen by tools or vouched for by the critic, whether the critic vouched  *)
(* for a tested hypothesis, and whether a tool executed something.         *)
(***************************************************************************)
Grounded(b, types, marked, executed) ==
  /\ b \in Board
  /\ b.passed \subseteq GateIds(b.domain)
  /\ b.types \subseteq types
  /\ b.layers \cap {"artifact", "verification"} # {} => executed
  /\ \A h \in Hyps(b) : VerifiedArtifact(h) => marked
  /\ "G3" \in b.passed => marked \/ executed
  /\ "G2" \in b.passed => Sufficient(types)

\* A later board of the same mission: no gate is reopened.
Follows(b, c) == c.domain = b.domain /\ b.passed \subseteq c.passed

LEMMA MoreTypesSuffice ==
  ASSUME NEW S \in SUBSET SourceTypes, NEW T \in SUBSET SourceTypes, S \subseteq T, Sufficient(S)
  PROVE  Sufficient(T)
<1> DEFINE E == ExternalTypes \cup {"benchmark"}
<1>1. IsFiniteSet(SourceTypes)
  <2>1. IsFiniteSet({"paper"} \cup {"github"} \cup {"web"})
    BY FS_Singleton, FS_AddElement
  <2>2. IsFiniteSet({"paper"} \cup {"github"} \cup {"web"} \cup {"docs"})
    BY <2>1, FS_AddElement
  <2>3. IsFiniteSet({"paper"} \cup {"github"} \cup {"web"} \cup {"docs"} \cup {"benchmark"})
    BY <2>2, FS_AddElement
  <2>4. IsFiniteSet(SourceTypes \cup {"local"})
    <3>1. SourceTypes \cup {"local"} =
            ({"paper"} \cup {"github"} \cup {"web"} \cup {"docs"} \cup {"benchmark"}) \cup {"local"}
      BY DEF SourceTypes
    <3> QED
      BY <2>3, <3>1, FS_AddElement
  <2> QED
    BY <2>4, FS_Subset
<1>2. IsFiniteSet(T \cap E) /\ S \cap E \subseteq T \cap E
  BY <1>1, FS_Subset
<1>3. Cardinality(S \cap E) <= Cardinality(T \cap E)
  BY <1>2, FS_Subset
<1>4. Cardinality(S \cap E) \in Nat /\ Cardinality(T \cap E) \in Nat
  BY <1>2, FS_Subset, FS_CardinalityType
<1> QED
  BY <1>3, <1>4 DEF Sufficient

LEMMA SyncedGrounded ==
  ASSUME NEW types, NEW marked \in BOOLEAN, NEW executed \in BOOLEAN,
         NEW b, Grounded(b, types, marked, executed)
  PROVE  Grounded(Synced(b), types, marked, executed) /\ Follows(b, Synced(b))
<1>1. CASE b.types \cap ExternalTypes = {}
  BY <1>1 DEF Synced, Follows
<1>2. CASE b.types \cap ExternalTypes # {}
  <2> DEFINE s == [b EXCEPT !.layers = @ \cup {"external_prior"}]
  <2>1. b \in Board
    BY DEF Grounded
  <2>2. /\ s \in Board
        /\ s.domain = b.domain /\ s.passed = b.passed /\ s.types = b.types /\ s.hyps = b.hyps
        /\ s.layers \cap {"artifact", "verification"} = b.layers \cap {"artifact", "verification"}
    BY <2>1 DEF Board, Layers
  <2>3. Synced(b) = s
    BY <1>2 DEF Synced
  <2> HIDE DEF s
  <2> QED
    BY <2>2, <2>3 DEF Grounded, Follows, Hyps
<1> QED
  BY <1>1, <1>2

\* Evaluating the gates grounds them on what the board holds.
LEMMA UpdateGatesGrounded ==
  ASSUME NEW types \in SUBSET SourceTypes, NEW marked \in BOOLEAN, NEW executed \in BOOLEAN,
         NEW b, Grounded(b, types, marked, executed)
  PROVE  Grounded(UpdateGates(b), types, marked, executed) /\ Follows(b, UpdateGates(b))
<1> DEFINE s == Synced(b)
           P == {g \in GateIds(s.domain) : KeepsPassed(s, g) \/ Holds(s, g)}
           u == [s EXCEPT !.passed = P]
<1>1. Grounded(s, types, marked, executed) /\ Follows(b, s)
  BY SyncedGrounded
<1>2. UpdateGates(b) = u
  BY DEF UpdateGates
<1> HIDE DEF s
<1>3. s.passed \subseteq P
  BY <1>1 DEF Grounded, KeepsPassed
<1>4. "G3" \in P => "G3" \in s.passed \/ ExecutionEvidence(s)
  BY DEF KeepsPassed, Holds
<1>5. "G2" \in P => "G2" \in s.passed \/ Sufficient(s.types)
  BY DEF KeepsPassed, Holds
<1>6. P \subseteq GateIds(s.domain) /\ s \in Board
  BY <1>1 DEF Grounded
<1>7. P \subseteq GateIds("strategy")
  BY <1>6 DEF GateIds
<1> HIDE DEF P
<1>8. /\ u \in Board
      /\ u.domain = s.domain /\ u.passed = P /\ u.types = s.types
      /\ u.hyps = s.hyps /\ u.layers = s.layers
  BY <1>6, <1>7 DEF Board
<1>9. "G3" \in P => marked \/ executed
  BY <1>1, <1>4 DEF Grounded, ExecutionEvidence
<1>10. "G2" \in P => Sufficient(types)
  BY <1>1, <1>5, <1>6, MoreTypesSuffice DEF Grounded, Board
<1> HIDE DEF u
<1>11. Grounded(u, types, marked, executed)
  BY <1>1, <1>6, <1>8, <1>9, <1>10 DEF Grounded, Hyps
<1> QED
  BY <1>1, <1>2, <1>3, <1>8, <1>11 DEF Follows

-----------------------------------------------------------------------------
(***************************************************************************)
(* Projection.                                                             *)
(***************************************************************************)
LEMMA FailurePolicyGrounded ==
  ASSUME NEW types, NEW marked \in BOOLEAN, NEW executed \in BOOLEAN,
         NEW b, Grounded(b, types, marked, executed)
  PROVE  Grounded(FailurePolicy(b), types, marked, executed) /\ Follows(b, FailurePolicy(b))
<1> DEFINE n == b.noEdge \/ Cardinality({i \in DOMAIN b.hyps : b.hyps[i].status = "failed"}) >= FailuresToStop
           f == [b EXCEPT !.noEdge = n]
<1>1. FailurePolicy(b) = f
  BY DEF FailurePolicy
<1>2. n \in BOOLEAN
  OBVIOUS
<1> HIDE DEF n
<1>3. b \in Board
  BY DEF Grounded
<1>4. /\ f \in Board
      /\ f.domain = b.domain /\ f.passed = b.passed /\ f.types = b.types
      /\ f.hyps = b.hyps /\ f.layers = b.layers
  BY <1>2, <1>3 DEF Board
<1> HIDE DEF f
<1> QED
  BY <1>1, <1>4 DEF Grounded, Follows, Hyps

LEMMA ProjectedGrounded ==
  ASSUME NEW types \in SUBSET SourceTypes, NEW marked \in BOOLEAN, NEW executed \in BOOLEAN,
         NEW b, Grounded(b, types, marked, executed),
         NEW refs \in SUBSET EvidenceRefs,
         \A ref \in refs : Executes(ref) => executed,
         \A ref \in refs : Trusted(ref) => FindingTypes(ref) \subseteq types,
         NEW action \in {"unknown", "infra", "other"}
  PROVE  /\ Grounded(Projected(b, refs, action), types, marked, executed)
         /\ Follows(b, Projected(b, refs, action))
<1> DEFINE trusted == {ref \in refs : Trusted(ref)}
           L == b.layers \cup {LayerOf(ref) : ref \in trusted}
           T == b.types \cup UNION {FindingTypes(ref) : ref \in trusted}
           A == IF action = "unknown" THEN b.action ELSE action
           fed == [b EXCEPT !.layers = L, !.types = T, !.action = A]
<1>1. Projected(b, refs, action) = UpdateGates(FailurePolicy(fed))
  BY DEF Projected
<1>2. b \in Board
  BY DEF Grounded
<1>3. L \subseteq Layers
  BY <1>2 DEF Board, Layers, LayerOf
<1>4. T \subseteq types
  BY DEF Grounded
<1>5. A \in {"unknown", "infra", "other"}
  BY <1>2 DEF Board
<1>6. L \cap {"artifact", "verification"} # {} => executed
  BY DEF Grounded, Executes
<1> HIDE DEF L, T, A
<1>7. /\ fed \in Board
      /\ fed.domain = b.domain /\ fed.passed = b.passed /\ fed.types = T
      /\ fed.hyps = b.hyps /\ fed.layers = L
  BY <1>2, <1>3, <1>4, <1>5 DEF Board
<1> HIDE DEF fed
<1>8. Grounded(fed, types, marked, executed) /\ Follows(b, fed)
  BY <1>4, <1>6, <1>7 DEF Grounded, Follows, Hyps
<1> DEFINE f == FailurePolicy(fed)
<1>9. Grounded(f, types, marked, executed) /\ Follows(fed, f)
  BY <1>8, FailurePolicyGrounded
<1> HIDE DEF f
<1>10. Grounded(UpdateGates(f), types, marked, executed) /\ Follows(f, UpdateGates(f))
  BY <1>9, UpdateGatesGrounded
<1> QED
  BY <1>1, <1>8, <1>9, <1>10 DEF Follows, f

-----------------------------------------------------------------------------
(***************************************************************************)
(* The critic and the final report.                                        *)
(***************************************************************************)
\* The portfolio cap drops hypotheses and invents none.
LEMMA MergedHypothesesFrom ==
  ASSUME NEW hyps \in Seq(Hypothesis), NEW new \in Seq(Hypothesis)
  PROVE  /\ MergedHypotheses(hyps, new) \in Seq(Hypothesis)
         /\ \A i \in DOMAIN MergedHypotheses(hyps, new) :
              \/ \E j \in DOMAIN hyps : MergedHypotheses(hyps, new)[i] = hyps[j]
              \/ \E j \in DOMAIN new : MergedHypotheses(hyps, new)[i] = new[j]
<1> DEFINE all == hyps \o new
<1>1. /\ all \in Seq(Hypothesis)
      /\ \A i \in 1..Len(all) :
           \/ \E j \in DOMAIN hyps : all[i] = hyps[j]
           \/ \E j \in DOMAIN new : all[i] = new[j]
  OBVIOUS
<1> HIDE DEF all
<1>2. CASE Len(all) <= PortfolioCap
  <2>1. MergedHypotheses(hyps, new) = all
    BY <1>2 DEF MergedHypotheses, all
  <2>2. DOMAIN all = 1..Len(all)
    BY <1>1
  <2> QED
    BY <1>1, <2>1, <2>2
<1>3. CASE ~(Len(all) <= PortfolioCap)
  <2> DEFINE first == Len(all) - PortfolioCap + 1
             kept == SubSeq(all, first, Len(all))
  <2>1. MergedHypotheses(hyps, new) = kept
    BY <1>3 DEF MergedHypotheses, all
  <2>2. Len(all) \in Nat /\ PortfolioCap \in Nat /\ PortfolioCap > 0
    BY <1>1, BoardAssumption
  <2>3. first \in 1..Len(all) /\ first \in Int
    BY <1>3, <2>2
  <2> HIDE DEF first
  <2>4. /\ kept \in Seq(Hypothesis)
        /\ Len(kept) = Len(all) - first + 1
        /\ \A i \in 1..(Len(all) - first + 1) : kept[i] = all[first + i - 1]
    BY <1>1, <2>2, <2>3, SubSeqProperties
  <2>5. ASSUME NEW i \in DOMAIN kept PROVE kept[i] = all[first + i - 1] /\ first + i - 1 \in 1..Len(all)
    <3>1. i \in 1..(Len(all) - first + 1)
      BY <2>4
    <3> QED
      BY <2>2, <2>3, <2>4, <3>1
  <2> HIDE DEF kept
  <2> QED
    BY <1>1, <2>1, <2>4, <2>5
<1> QED
  BY <1>2, <1>3

\* Knowing more never unsettles a board.
LEMMA GroundedGrows ==
  ASSUME NEW S \in SUBSET SourceTypes, NEW T \in SUBSET SourceTypes, S \subseteq T,
         NEW marked \in BOOLEAN, NEW executed \in BOOLEAN,
         NEW more \in BOOLEAN, NEW later \in BOOLEAN, marked => more, executed => later,
         NEW b, Grounded(b, S, marked, executed)
  PROVE  Grounded(b, T, more, later)
  BY MoreTypesSuffice DEF Grounded

Vouches(data) == \E i \in DOMAIN data.hyps : VerifiedArtifact(data.hyps[i])

LEMMA CriticAppliedGrounded ==
  ASSUME NEW types \in SUBSET SourceTypes, NEW marked \in BOOLEAN, NEW executed \in BOOLEAN,
         NEW b, Grounded(b, types, marked, executed),
         NEW data, IsCriticAnswer(data), data.types \subseteq types, Vouches(data) => marked,
         NEW inertia \in BOOLEAN
  PROVE  /\ Grounded(CriticApplied(b, data, inertia), types, marked, executed)
         /\ Follows(b, CriticApplied(b, data, inertia))
<1> DEFINE H == MergedHypotheses(b.hyps, data.hyps)
           raw == [b EXCEPT !.types = @ \cup data.types, !.hyps = H, !.noEdge = @ \/ data.noEdge]
           merged == UpdateGates(raw)
           told == [merged EXCEPT !.action = data.action, !.blockers = @ \cup data.blockers]
           directed == UpdateGates(told)
           guarded == [directed EXCEPT !.noEdge = @ \/ (inertia /\ MayReportNoEdge(directed))]
<1>1. b \in Board /\ b.hyps \in Seq(Hypothesis) /\ data.hyps \in Seq(Hypothesis)
  BY DEF Grounded, Board, IsCriticAnswer
<1>2. CriticApplied(b, data, inertia) = guarded
  BY DEF CriticApplied
<1>3. /\ H \in Seq(Hypothesis)
      /\ \A i \in DOMAIN H : (\E j \in DOMAIN b.hyps : H[i] = b.hyps[j])
                            \/ (\E j \in DOMAIN data.hyps : H[i] = data.hyps[j])
  BY <1>1, MergedHypothesesFrom
<1>4. \A i \in DOMAIN H : VerifiedArtifact(H[i]) => marked
  BY <1>3 DEF Grounded, Hyps, Vouches
<1> HIDE DEF H
<1>5. /\ raw \in Board
      /\ raw.domain = b.domain /\ raw.passed = b.passed /\ raw.types = b.types \cup data.types
      /\ raw.hyps = H /\ raw.layers = b.layers
  BY <1>1, <1>3 DEF Board, IsCriticAnswer
<1> HIDE DEF raw
<1>6. Grounded(raw, types, marked, executed) /\ Follows(b, raw)
  BY <1>4, <1>5 DEF Grounded, Hyps, Follows
<1>7. Grounded(merged, types, marked, executed) /\ Follows(raw, merged)
  BY <1>6, UpdateGatesGrounded
<1> HIDE DEF merged
<1>8. /\ told \in Board
      /\ told.domain = merged.domain /\ told.passed = merged.passed /\ told.types = merged.types
      /\ told.hyps = merged.hyps /\ told.layers = merged.layers
  BY <1>7 DEF Grounded, Board, IsCriticAnswer
<1> HIDE DEF told
<1>9. Grounded(told, types, marked, executed) /\ Follows(merged, told)
  BY <1>7, <1>8 DEF Grounded, Hyps, Follows
<1>10. Grounded(directed, types, marked, executed) /\ Follows(told, directed)
  BY <1>9, UpdateGatesGrounded
<1> HIDE DEF directed
<1>11. /\ guarded \in Board
       /\ guarded.domain = directed.domain /\ guarded.passed = directed.passed
       /\ guarded.types = directed.types /\ guarded.hyps = directed.hyps
       /\ guarded.layers = directed.layers
  <2> DEFINE n == directed.noEdge \/ (inertia /\ MayReportNoEdge(directed))
  <2>1. n \in BOOLEAN
    OBVIOUS
  <2> HIDE DEF n
  <2>2. directed \in Board
    BY <1>10 DEF Grounded
  <2>3. guarded = [directed EXCEPT !.noEdge = n]
    BY DEF n
  <2> QED
    BY <2>1, <2>2, <2>3 DEF Board
<1> HIDE DEF guarded
<1> QED
  BY <1>2, <1>6, <1>7, <1>9, <1>10, <1>11 DEF Grounded, Hyps, Follows

LEMMA ReconciledGrounded ==
  ASSUME NEW types \in SUBSET SourceTypes, NEW marked \in BOOLEAN, NEW executed \in BOOLEAN,
         NEW b, Grounded(b, types, marked, executed), NEW finalReport \in BOOLEAN
  PROVE  /\ Grounded(Reconciled(b, finalReport), types, marked, executed)
         /\ Follows(b, Reconciled(b, finalReport))
<1> DEFINE P == b.passed \cup {"G1", "G4"} \cup (IF ExecutionEvidence(b) THEN {"G3"} ELSE {})
           r == [b EXCEPT !.passed = P]
<1>1. CASE ~finalReport
  BY <1>1 DEF Reconciled, Follows
<1>2. CASE finalReport
  <2>1. Reconciled(b, finalReport) = r
    BY <1>2 DEF Reconciled
  <2>2. b \in Board
    BY DEF Grounded
  <2>3. /\ P \subseteq GateIds(b.domain)
        /\ P \subseteq GateIds("strategy")
        /\ b.passed \subseteq P
        /\ "G2" \in P => "G2" \in b.passed
        /\ "G3" \in P => "G3" \in b.passed \/ ExecutionEvidence(b)
    BY DEF Grounded, GateIds
  <2> HIDE DEF P
  <2>4. /\ r \in Board
        /\ r.domain = b.domain /\ r.passed = P /\ r.types = b.types
        /\ r.hyps = b.hyps /\ r.layers = b.layers
    BY <2>2, <2>3 DEF Board
  <2> HIDE DEF r
  <2>5. ExecutionEvidence(b) => marked \/ executed
    BY DEF Grounded, ExecutionEvidence
  <2> QED
    BY <2>1, <2>3, <2>4, <2>5 DEF Grounded, Follows, Hyps
<1> QED
  BY <1>1, <1>2

-----------------------------------------------------------------------------
(***************************************************************************)
(* The inductive invariant.                                                *)
(***************************************************************************)
Seen == vouched.types \cup SitesSeen
Executed == \E ref \in evidence : Executes(ref)

FromWeb(ref) == ref.source \in {"web_source", "github_source"}

\* Evidence of the web names a site, and is trusted only if the call succeeded.
EvidenceInv ==
  \A ref \in evidence : FromWeb(ref) => ref.site \in ExternalTypes /\ (Trusted(ref) => ref.ok)

GroundsInv == Bound => Grounded(board, Seen, vouched.marked, Executed)

\* An active mission has a turn left that its budget or a resume has paid for;
\* past TurnBound, which exists for TLC only, resumes are no longer counted.
Affordable(c, paid) ==
  /\ c.turns <= TurnBound
  /\ \/ paid >= TurnBound
     \/ c.turns <= MaxTurns + paid /\ (c.status = "active" => c.turns < MaxTurns + paid)

BudgetInv == Bound => Affordable(control, overdrafts)

IInv == TypeOK /\ EvidenceInv /\ GroundsInv /\ BudgetInv /\ DoneMeansAccepted

LEMMA SeenTypes ==
  ASSUME TypeOK, EvidenceInv
  PROVE  Seen \in SUBSET SourceTypes
  BY DEF TypeOK, EvidenceInv, Seen, SitesSeen, FromWeb, ExternalTypes, SourceTypes

LEMMA ProjectionSources ==
  ASSUME TypeOK, EvidenceInv
  PROVE  /\ evidence \in SUBSET EvidenceRefs
         /\ \A ref \in evidence : Executes(ref) => Executed
         /\ \A ref \in evidence : Trusted(ref) => FindingTypes(ref) \subseteq Seen
  BY DEF TypeOK, EvidenceInv, Seen, SitesSeen, FromWeb, FindingTypes, Executed

\* Verdict, reason, blockers and the like are no grounds of a gate.
LEMMA SameGrounds ==
  ASSUME NEW types, NEW marked \in BOOLEAN, NEW executed \in BOOLEAN,
         NEW b, Grounded(b, types, marked, executed), NEW c \in Board,
         c.domain = b.domain, c.passed = b.passed, c.types = b.types,
         c.hyps = b.hyps, c.layers = b.layers
  PROVE  Grounded(c, types, marked, executed) /\ Follows(b, c)
  BY DEF Grounded, Hyps, Follows

\* Only after_turn asks the evaluators: every other step leaves their part alone.
LEMMA SameEvidenceSameGrounds ==
  ASSUME UNCHANGED <<evidence, vouched>>
  PROVE  Seen' = Seen /\ Executed' = Executed /\ (EvidenceInv => EvidenceInv')
  BY DEF Seen, SitesSeen, Executed, EvidenceInv

-----------------------------------------------------------------------------
(***************************************************************************)
(* Start and the commands.                                                 *)
(***************************************************************************)
LEMMA StartStep ==
  ASSUME IInv, NEW domain \in Goals, Start(domain)
  PROVE  /\ IInv' /\ (Bound => Follows(board, board'))
         /\ mission' \in [control : Control, board : Board]
<1> DEFINE b == EmptyBoard(domain)
           u == UpdateGates(b)
<1>1. domain \in Domains /\ UNCHANGED <<evidence, claimed, lastClass, doneEvents, alive, vouched, overdrafts>>
  BY EnvironmentAssumption DEF Start, ledger, history
<1>2. Grounded(b, Seen, vouched.marked, Executed)
  <2>1. b \in Board
    BY <1>1 DEF EmptyBoard, Board
  <2>2. b.passed = {} /\ b.types = {} /\ b.layers = {} /\ b.hyps = <<>>
    BY DEF EmptyBoard
  <2> HIDE DEF b
  <2> QED
    BY <2>1, <2>2 DEF Grounded, Hyps
<1> HIDE DEF b
<1>3. vouched.marked \in BOOLEAN /\ Executed \in BOOLEAN
  BY DEF IInv, TypeOK, Executed
<1>4. Grounded(u, Seen, vouched.marked, Executed)
  BY <1>2, <1>3, UpdateGatesGrounded, SeenTypes DEF IInv
<1>5. mission' = [control |-> Started, board |-> u] /\ ~Bound
  BY DEF Start, b
<1> HIDE DEF u
<1>6. u \in Board /\ Started \in Control /\ Started.status = "active" /\ Started.turns = 0
  BY <1>4 DEF Grounded, Started, Control, Statuses
<1>7. control' = Started /\ board' = u
  BY <1>5 DEF control, board
<1>8. TypeOK'
  BY <1>1, <1>5, <1>6 DEF IInv, TypeOK
<1>9. EvidenceInv' /\ GroundsInv'
  BY <1>1, <1>4, <1>7, SameEvidenceSameGrounds DEF IInv, GroundsInv
<1>10. BudgetInv'
  <2>1. Affordable(Started, overdrafts)
    <3>1. MaxTurns \in Nat /\ MaxTurns # 0 /\ overdrafts \in Nat /\ TurnBound \in Nat
      BY MaxTurnsAssumption, TurnBoundAssumption DEF IInv, TypeOK
    <3> QED
      BY <1>6, <3>1 DEF Affordable
  <2> QED
    BY <1>1, <1>7, <2>1 DEF BudgetInv
<1>11. DoneMeansAccepted'
  BY <1>6, <1>7 DEF DoneMeansAccepted
<1> QED
  BY <1>5, <1>6, <1>8, <1>9, <1>10, <1>11 DEF IInv

\* A command stores another control record and leaves the board alone.
LEMMA SaveControlStep ==
  ASSUME IInv, Bound, NEW c \in Control, SaveControl(c),
         c.turns = control.turns,
         c.status \in {control.status, "paused", "cleared"}
  PROVE  IInv' /\ (Bound => Follows(board, board'))
<1>1. /\ mission' = [mission EXCEPT !.control = c]
      /\ UNCHANGED <<evidence, claimed, lastClass, doneEvents, alive, vouched, overdrafts>>
  BY DEF SaveControl, ledger, history
<1>2. mission \in [control : Control, board : Board]
  BY DEF IInv, TypeOK, Bound
<1>3. control' = c /\ board' = board /\ mission' \in [control : Control, board : Board]
  BY <1>1, <1>2 DEF control, board
<1>4. TypeOK'
  BY <1>1, <1>3 DEF IInv, TypeOK
<1>5. EvidenceInv' /\ GroundsInv'
  BY <1>1, <1>3, SameEvidenceSameGrounds DEF IInv, GroundsInv
<1>6. BudgetInv'
  BY <1>1, <1>3 DEF IInv, BudgetInv, Affordable
<1>7. DoneMeansAccepted'
  BY <1>3 DEF IInv, DoneMeansAccepted
<1>8. Follows(board, board')
  BY <1>3 DEF Follows
<1> QED
  BY <1>4, <1>5, <1>6, <1>7, <1>8 DEF IInv

LEMMA CommandStep ==
  ASSUME IInv,
         Pause \/ Clear \/ Unwait \/ (\E pid \in Pids : Wait(pid))
           \/ (\E message \in {"synthetic", "user"}, interrupted \in BOOLEAN :
                 Preempt(message, interrupted))
  PROVE  IInv' /\ (Bound => Follows(board, board'))
<1>1. Bound => control \in Control
  BY DEF IInv, TypeOK, Bound, control
<1>2. CASE Pause \/ \E message \in {"synthetic", "user"}, interrupted \in BOOLEAN :
                     Preempt(message, interrupted)
  <2>1. Bound /\ SaveControl(Paused(control))
    BY <1>2 DEF Pause, Preempt
  <2>2. Paused(control) \in Control /\ Paused(control).turns = control.turns
        /\ Paused(control).status = "paused"
    BY <1>1, <2>1 DEF Paused, Control, Statuses
  <2> QED
    BY <2>1, <2>2, SaveControlStep
<1>3. CASE Clear
  <2>1. Bound /\ SaveControl(Cleared(control))
    BY <1>3 DEF Clear
  <2>2. Cleared(control) \in Control /\ Cleared(control).turns = control.turns
        /\ Cleared(control).status = "cleared"
    BY <1>1, <2>1 DEF Cleared, Control, Statuses
  <2> QED
    BY <2>1, <2>2, SaveControlStep
<1>4. CASE Unwait
  <2>1. Bound /\ SaveControl(Unwaited(control))
    BY <1>4 DEF Unwait
  <2>2. Unwaited(control) \in Control /\ Unwaited(control).turns = control.turns
        /\ Unwaited(control).status = control.status
    BY <1>1, <2>1 DEF Unwaited, Control
  <2> QED
    BY <2>1, <2>2, SaveControlStep
<1>5. ASSUME NEW pid \in Pids, Wait(pid) PROVE IInv' /\ (Bound => Follows(board, board'))
  <2>1. Bound /\ SaveControl(Waiting(control, pid))
    BY <1>5 DEF Wait
  <2>2. Waiting(control, pid) \in Control /\ Waiting(control, pid).turns = control.turns
        /\ Waiting(control, pid).status = control.status
    BY <1>1, <2>1 DEF Waiting, Control
  <2> QED
    BY <2>1, <2>2, SaveControlStep
<1> QED
  BY <1>2, <1>3, <1>4, <1>5

\* A resume of a used-up mission pays for one more turn.
LEMMA ResumeStep ==
  ASSUME IInv, Resume
  PROVE  /\ IInv' /\ (Bound => Follows(board, board'))
         /\ mission' \in [control : Control, board : Board]
<1> DEFINE u == UpdateGates(board)
           c == Resumed(control)
<1>1. /\ Bound /\ control.status \notin {"done", "cleared"}
      /\ mission' = [control |-> c, board |-> u]
      /\ UNCHANGED <<evidence, claimed, lastClass, doneEvents, alive, vouched>>
  BY DEF Resume, ResumeAccepts, ledger
<1>2. vouched.marked \in BOOLEAN /\ Executed \in BOOLEAN /\ control \in Control
  BY <1>1 DEF IInv, TypeOK, Executed, Bound, control
<1>3. Grounded(u, Seen, vouched.marked, Executed) /\ Follows(board, u)
  BY <1>1, <1>2, UpdateGatesGrounded, SeenTypes DEF IInv, GroundsInv
<1> HIDE DEF u
<1>4. /\ c \in Control /\ c.turns = control.turns /\ c.status = "active"
      /\ control' = c /\ board' = u /\ u \in Board
  BY <1>1, <1>2, <1>3 DEF Resumed, Control, Statuses, Grounded, control, board
<1> DEFINE more == IF control.turns >= MaxTurns /\ overdrafts < TurnBound
                   THEN overdrafts + 1 ELSE overdrafts
<1>5. overdrafts' = more
  BY DEF Resume
<1>6. overdrafts \in Nat /\ MaxTurns \in Nat /\ TurnBound \in Nat /\ control.turns \in Nat
  BY <1>2, MaxTurnsAssumption, TurnBoundAssumption DEF IInv, TypeOK, Control
<1>7. more \in Nat /\ Affordable(c, more)
  <2>1. Affordable(control, overdrafts)
    BY <1>1 DEF IInv, BudgetInv
  <2> HIDE DEF c
  <2> QED
    BY <1>4, <1>6, <2>1 DEF Affordable
<1> HIDE DEF c, more
<1>8. TypeOK'
  BY <1>1, <1>4, <1>5, <1>7 DEF IInv, TypeOK
<1>9. EvidenceInv' /\ GroundsInv'
  BY <1>1, <1>3, <1>4, SameEvidenceSameGrounds DEF IInv, GroundsInv
<1>10. BudgetInv' /\ DoneMeansAccepted'
  BY <1>4, <1>5, <1>7 DEF BudgetInv, DoneMeansAccepted
<1> QED
  BY <1>1, <1>3, <1>4, <1>8, <1>9, <1>10 DEF IInv

-----------------------------------------------------------------------------
(***************************************************************************)
(* Tool evidence and processes.                                            *)
(***************************************************************************)
LEMMA EvidenceOK ==
  ASSUME NEW call \in Calls, NEW result \in ToolResults
  PROVE  /\ Evidence(call, result) \in EvidenceRefs
         /\ FromWeb(Evidence(call, result))
              => /\ Evidence(call, result).site \in ExternalTypes
                 /\ Trusted(Evidence(call, result)) => Evidence(call, result).ok
<1>1. /\ result.tool \in Tools /\ result.ok \in BOOLEAN
      /\ result.site \in ExternalTypes \cup {"none"}
      /\ result.tool = "web" <=> result.site # "none"
  BY EnvironmentAssumption DEF ToolResult
<1>2. /\ SourceOf(result) \in {"web_source", "github_source", "file_artifact", "test_run", "tool_call"}
      /\ SourceOf(result) \in {"web_source", "github_source"} => result.tool = "web"
  BY <1>1 DEF SourceOf
<1>3. TrustOf(result) \in {"claim", "observed", "verified"}
  BY <1>1 DEF TrustOf
<1>4. result.tool = "web" /\ ~result.ok => TrustOf(result) = "claim"
  BY <1>1 DEF TrustOf
<1>5. Evidence(call, result) \in EvidenceRefs
  BY <1>1, <1>2, <1>3 DEF Evidence, EvidenceRefs
<1> QED
  BY <1>1, <1>2, <1>4, <1>5 DEF Evidence, FromWeb, Trusted

LEMMA PostToolCallStep ==
  ASSUME IInv, NEW call \in Calls, NEW result \in ToolResults, PostToolCall(call, result)
  PROVE  IInv' /\ (Bound => Follows(board, board'))
<1> DEFINE ref == Evidence(call, result)
<1>1. /\ UNCHANGED <<mission, claimed, lastClass, doneEvents, alive, vouched, overdrafts>>
      /\ evidence' = evidence \cup {ref} /\ Bound
  BY DEF PostToolCall, history
<1>2. /\ ref \in EvidenceRefs
      /\ FromWeb(ref) => ref.site \in ExternalTypes /\ (Trusted(ref) => ref.ok)
  BY EvidenceOK
<1> HIDE DEF ref
<1>3. TypeOK' /\ EvidenceInv'
  BY <1>1, <1>2 DEF IInv, TypeOK, EvidenceInv
<1>4. Seen \subseteq Seen' /\ (Executed => Executed')
  BY <1>1 DEF Seen, SitesSeen, Executed
<1>5. Seen \in SUBSET SourceTypes /\ Seen' \in SUBSET SourceTypes
  BY <1>3, SeenTypes DEF IInv, TypeOK, EvidenceInv, Seen, SitesSeen, FromWeb, ExternalTypes, SourceTypes
<1>6. board' = board /\ control' = control
  BY <1>1 DEF board, control
<1>7. GroundsInv'
  <2>1. vouched'.marked \in BOOLEAN /\ vouched'.marked = vouched.marked
        /\ Executed \in BOOLEAN /\ Executed' \in BOOLEAN
    BY <1>1 DEF IInv, TypeOK, Executed
  <2>2. Grounded(board, Seen, vouched.marked, Executed)
    BY <1>1 DEF IInv, GroundsInv
  <2>3. Grounded(board, Seen', vouched.marked, Executed')
    BY <1>4, <1>5, <2>1, <2>2, GroundedGrows
  <2> QED
    BY <1>6, <2>1, <2>3 DEF GroundsInv
<1>8. BudgetInv' /\ DoneMeansAccepted' /\ Follows(board, board')
  BY <1>1, <1>6 DEF IInv, BudgetInv, DoneMeansAccepted, Follows, Bound
<1> QED
  BY <1>3, <1>7, <1>8 DEF IInv

LEMMA QuietStep ==
  ASSUME IInv, UNCHANGED <<mission, evidence, claimed, lastClass, doneEvents, vouched, overdrafts>>,
         alive' \subseteq Pids
  PROVE  IInv' /\ (Bound => Follows(board, board'))
<1>1. board' = board /\ control' = control /\ (Bound' <=> Bound)
  BY DEF board, control, Bound
<1>2. TypeOK' /\ EvidenceInv' /\ GroundsInv'
  BY <1>1, SameEvidenceSameGrounds DEF IInv, TypeOK, GroundsInv
<1>3. BudgetInv' /\ DoneMeansAccepted' /\ Follows(board, board')
  BY <1>1 DEF IInv, BudgetInv, DoneMeansAccepted, Follows
<1> QED
  BY <1>2, <1>3 DEF IInv

-----------------------------------------------------------------------------
(***************************************************************************)
(* A turn that is evaluated: its stages, one by one.                       *)
(***************************************************************************)
LEMMA ObservedGrounded ==
  ASSUME IInv, Bound, NEW response \in Responses
  PROVE  /\ Grounded(Observed(response), Seen, vouched.marked, Executed)
         /\ Follows(board, Observed(response))
<1> DEFINE action == IF response.class # "unknown" THEN response.class ELSE lastClass
<1>1. /\ Grounded(board, Seen, vouched.marked, Executed)
      /\ vouched.marked \in BOOLEAN /\ Executed \in BOOLEAN /\ Seen \in SUBSET SourceTypes
  BY SeenTypes DEF IInv, GroundsInv, TypeOK, Executed
<1>2. action \in {"unknown", "infra", "other"}
  BY EnvironmentAssumption DEF Response, IInv, TypeOK
<1> HIDE DEF action
<1>3. CASE response.observes
  <2>1. /\ Grounded(Projected(board, evidence, action), Seen, vouched.marked, Executed)
        /\ Follows(board, Projected(board, evidence, action))
    BY <1>1, <1>2, ProjectedGrounded, ProjectionSources DEF IInv
  <2> QED
    BY <1>3, <2>1 DEF Observed, action
<1>4. CASE ~response.observes
  BY <1>1, <1>4, UpdateGatesGrounded DEF Observed
<1> QED
  BY <1>3, <1>4

LEMMA JudgedGrounded ==
  ASSUME NEW types, NEW marked \in BOOLEAN, NEW executed \in BOOLEAN,
         NEW b, Grounded(b, types, marked, executed), NEW judge \in Judgements
  PROVE  /\ Grounded(Judged(b, judge), types, marked, executed)
         /\ Follows(b, Judged(b, judge))
<1> DEFINE j == Judged(b, judge)
<1>1. b \in Board /\ judge \in Judgement
  BY EnvironmentAssumption DEF Grounded
<1>2. /\ j \in Board
      /\ j.domain = b.domain /\ j.passed = b.passed /\ j.types = b.types
      /\ j.hyps = b.hyps /\ j.layers = b.layers
  BY <1>1 DEF Judged, Board, Judgement
<1> HIDE DEF j
<1>3. Grounded(j, types, marked, executed) /\ Follows(b, j)
  BY <1>2, SameGrounds
<1> QED
  BY <1>3 DEF j

LEMMA CriticisedGrounded ==
  ASSUME NEW types \in SUBSET SourceTypes, NEW marked \in BOOLEAN, NEW executed \in BOOLEAN,
         NEW b, Grounded(b, types, marked, executed),
         NEW critic \in CriticAnswers \cup {NoAnswer}, NEW inertia \in BOOLEAN,
         critic # NoAnswer => critic.types \subseteq types /\ (Vouches(critic) => marked)
  PROVE  /\ Grounded(Criticised(b, critic, inertia), types, marked, executed)
         /\ Follows(b, Criticised(b, critic, inertia))
<1>1. CASE critic = NoAnswer
  BY <1>1, UpdateGatesGrounded DEF Criticised
<1>2. CASE critic # NoAnswer
  <2>1. IsCriticAnswer(critic)
    BY <1>2, EnvironmentAssumption
  <2> QED
    BY <1>2, <2>1, CriticAppliedGrounded DEF Criticised
<1> QED
  BY <1>1, <1>2

LEMMA FollowsTransitive ==
  ASSUME NEW a, NEW b, NEW c, Follows(a, b), Follows(b, c)
  PROVE  Follows(a, c)
  BY DEF Follows

\* Counting a turn and the verdict on it keep the budget.
LEMMA CountedOK ==
  ASSUME NEW c \in Control, NEW paid \in Nat, Affordable(c, paid), c.status = "active",
         c.turns < TurnBound, NEW terminal \in BOOLEAN, NEW complete \in BOOLEAN
  PROVE  LET counted == Counted(c, alive)
             verdict == Verdict(counted, terminal, complete)
             d == [counted EXCEPT !.status = StatusAfter(verdict)]
         IN  /\ d \in Control /\ Affordable(d, paid)
             /\ d.status = "done" => complete
<1> DEFINE counted == Counted(c, alive)
           verdict == Verdict(counted, terminal, complete)
           d == [counted EXCEPT !.status = StatusAfter(verdict)]
<1>1. counted \in Control /\ counted.turns = c.turns + 1
  BY DEF Counted, Released, Unwaited, Control
<1> HIDE DEF counted
<1>2. /\ verdict \in {"blocked", "done", "budget", "continue"}
      /\ verdict = "continue" => ~(counted.turns >= MaxTurns)
      /\ verdict = "done" => complete
  BY DEF Verdict
<1>3. /\ StatusAfter(verdict) \in Statuses
      /\ StatusAfter(verdict) = "active" => verdict = "continue"
      /\ StatusAfter(verdict) = "done" => verdict = "done"
  BY <1>2 DEF StatusAfter, Statuses
<1> HIDE DEF verdict
<1>4. d \in Control /\ d.turns = c.turns + 1 /\ d.status = StatusAfter(verdict)
  BY <1>1, <1>3 DEF Control
<1>5. c.turns \in Nat /\ MaxTurns \in Nat /\ TurnBound \in Nat
  BY MaxTurnsAssumption, TurnBoundAssumption DEF Control
<1> HIDE DEF d
<1>6. Affordable(d, paid)
  BY <1>1, <1>2, <1>3, <1>4, <1>5 DEF Affordable
<1> QED
  BY <1>2, <1>3, <1>4, <1>6 DEF d, verdict, counted

LEMMA EvaluateStep ==
  ASSUME IInv, NEW response \in Responses, NEW judge \in Judgements,
         NEW critic \in CriticAnswers \cup {NoAnswer}, NEW inertia \in BOOLEAN,
         Evaluate(response, judge, critic, inertia)
  PROVE  /\ IInv' /\ (Bound => Follows(board, board'))
         /\ mission' \in [control : Control, board : Board]
         /\ RecordMoves(control, control')
<1> DEFINE counted   == Counted(control, alive)
           observed  == Observed(response)
           judged    == Judged(observed, judge)
           assessed  == Criticised(judged, critic, inertia)
           terminal  == TerminalText(judge.markers \cup response.markers)
           attempted == ~terminal /\ AttemptsDone(response, judge)
           settled   == IF attempted
                        THEN UpdateGates(Reconciled(assessed, response.finalReport))
                        ELSE assessed
           complete  == attempted /\ OpenBlocking(settled) = {}
           verdict   == Verdict(counted, terminal, complete)
           reason    == IF judge.verdict = "done" THEN judge.markers ELSE {}
           final     == IF complete THEN [settled EXCEPT !.verdict = "done", !.reason = reason]
                        ELSE settled
           stored    == [counted EXCEPT !.status = StatusAfter(verdict)]
           types     == Seen'
           marked    == vouched'.marked
<1>1. /\ Bound /\ control.status = "active" /\ control.turns < TurnBound
      /\ UNCHANGED <<evidence, alive, overdrafts>>
  BY DEF Evaluate, Ignores
<1>2. mission' = [control |-> stored, board |-> final]
  BY DEF Evaluate
<1>3. /\ claimed' = (claimed \/ response.verifies)
      /\ lastClass' = (IF response.class # "unknown" THEN response.class ELSE lastClass)
      /\ doneEvents' = (IF verdict = "done" THEN doneEvents + 1 ELSE doneEvents)
      /\ vouched' = (IF critic = NoAnswer THEN vouched
                     ELSE [types |-> vouched.types \cup critic.types,
                           marked |-> vouched.marked \/ Vouches(critic)])
  BY DEF Evaluate, Vouches
<1>4. response \in Response /\ judge \in Judgement /\ (critic # NoAnswer => IsCriticAnswer(critic))
  BY EnvironmentAssumption
<1>5. /\ vouched' \in [types : SUBSET SourceTypes, marked : BOOLEAN]
      /\ Seen \subseteq types
      /\ vouched.marked => marked
      /\ critic # NoAnswer => critic.types \subseteq types /\ (Vouches(critic) => marked)
  <2>1. vouched \in [types : SUBSET SourceTypes, marked : BOOLEAN] /\ SitesSeen' = SitesSeen
    BY <1>1 DEF IInv, TypeOK, SitesSeen
  <2>2. CASE critic = NoAnswer
    BY <1>3, <2>1, <2>2 DEF Seen
  <2>3. CASE critic # NoAnswer
    <3>1. critic.types \subseteq SourceTypes
      BY <1>4, <2>3 DEF IsCriticAnswer
    <3>2. vouched.marked \/ Vouches(critic) \in BOOLEAN
      BY <2>1 DEF Vouches
    <3>3. vouched' = [types |-> vouched.types \cup critic.types,
                      marked |-> vouched.marked \/ Vouches(critic)]
      BY <1>3, <2>3
    <3> QED
      BY <2>1, <2>3, <3>1, <3>2, <3>3 DEF Seen
  <2> QED
    BY <2>2, <2>3
<1>6. /\ EvidenceInv' /\ Executed' = Executed
      /\ Seen \in SUBSET SourceTypes /\ types \in SUBSET SourceTypes
      /\ vouched.marked \in BOOLEAN /\ marked \in BOOLEAN /\ Executed \in BOOLEAN
  <2>1. EvidenceInv' /\ Executed' = Executed
    BY <1>1 DEF IInv, EvidenceInv, Executed
  <2>2. Seen \in SUBSET SourceTypes
    BY SeenTypes DEF IInv
  <2>3. types \in SUBSET SourceTypes
    BY <1>1, <1>5, <2>2 DEF Seen, SitesSeen
  <2> QED
    BY <1>5, <2>1, <2>2, <2>3 DEF IInv, TypeOK, Executed
<1> HIDE DEF types, marked
<1>7. Grounded(observed, types, marked, Executed) /\ Follows(board, observed)
  BY <1>1, <1>5, <1>6, ObservedGrounded, GroundedGrows
<1> HIDE DEF observed
<1>8. Grounded(judged, types, marked, Executed) /\ Follows(observed, judged)
  BY <1>6, <1>7, JudgedGrounded
<1> HIDE DEF judged
<1>9. Grounded(assessed, types, marked, Executed) /\ Follows(judged, assessed)
  BY <1>5, <1>6, <1>8, CriticisedGrounded
<1> HIDE DEF assessed
<1>10. Grounded(settled, types, marked, Executed) /\ Follows(assessed, settled)
  <2>1. CASE attempted
    <3> DEFINE r == Reconciled(assessed, response.finalReport)
    <3>1. response.finalReport \in BOOLEAN
      BY <1>4 DEF Response
    <3>2. Grounded(r, types, marked, Executed) /\ Follows(assessed, r)
      BY <1>6, <1>9, <3>1, ReconciledGrounded
    <3> HIDE DEF r
    <3>3. Grounded(UpdateGates(r), types, marked, Executed) /\ Follows(r, UpdateGates(r))
      BY <1>6, <3>2, UpdateGatesGrounded
    <3> QED
      BY <2>1, <3>2, <3>3, FollowsTransitive DEF r
  <2>2. CASE ~attempted
    BY <1>9, <2>2 DEF Follows
  <2> QED
    BY <2>1, <2>2
<1>11. complete => OpenBlocking(settled) = {}
  OBVIOUS
<1>12. terminal \in BOOLEAN /\ complete \in BOOLEAN
  BY DEF TerminalText
<1> HIDE DEF settled, complete
<1>13. /\ Grounded(final, types, marked, Executed) /\ Follows(settled, final)
       /\ complete => OpenBlocking(final) = {}
  <2>1. CASE complete
    <3> DEFINE f == [settled EXCEPT !.verdict = "done", !.reason = reason]
    <3>1. settled \in Board /\ reason \in SUBSET Markers
      BY <1>4, <1>10 DEF Grounded, Judgement
    <3>2. /\ f \in Board
          /\ f.domain = settled.domain /\ f.passed = settled.passed /\ f.types = settled.types
          /\ f.hyps = settled.hyps /\ f.layers = settled.layers
      BY <3>1 DEF Board
    <3> HIDE DEF f
    <3>3. Grounded(f, types, marked, Executed) /\ Follows(settled, f)
      BY <1>6, <1>10, <3>2, SameGrounds
    <3>4. OpenBlocking(f) = {}
      BY <1>11, <2>1, <3>2 DEF OpenBlocking
    <3> QED
      BY <2>1, <3>3, <3>4 DEF f
  <2>2. CASE ~complete
    BY <1>10, <2>2 DEF Follows
  <2> QED
    BY <2>1, <2>2
<1>14. control \in Control /\ overdrafts \in Nat /\ Affordable(control, overdrafts)
  BY <1>1 DEF IInv, TypeOK, BudgetInv, Bound, control
<1>15. /\ stored \in Control /\ Affordable(stored, overdrafts)
       /\ stored.status = "done" => complete
       /\ RecordMoves(control, stored)
  BY <1>1, <1>12, <1>14, CountedOK, EvaluatedMoves DEF Ignores
<1> HIDE DEF final, stored
<1>16. control' = stored /\ board' = final /\ final \in Board
  BY <1>2, <1>13 DEF control, board, Grounded
<1>17. TypeOK'
  <2>1. /\ claimed' \in BOOLEAN
        /\ lastClass' \in {"unknown", "infra", "other"}
        /\ doneEvents' \in Nat
    BY <1>3, <1>4 DEF IInv, TypeOK, Response
  <2> QED
    BY <1>1, <1>2, <1>5, <1>15, <1>16, <2>1 DEF IInv, TypeOK
<1>18. GroundsInv'
  BY <1>6, <1>13, <1>16 DEF GroundsInv, types, marked
<1>19. BudgetInv' /\ DoneMeansAccepted'
  BY <1>1, <1>13, <1>15, <1>16 DEF BudgetInv, DoneMeansAccepted
<1>20. Follows(board, board')
  BY <1>7, <1>8, <1>9, <1>10, <1>13, <1>16 DEF Follows
<1> QED
  BY <1>2, <1>6, <1>15, <1>16, <1>17, <1>18, <1>19, <1>20 DEF IInv

-----------------------------------------------------------------------------
LEMMA InitIInv == Init => IInv
<1> SUFFICES ASSUME Init PROVE IInv
  OBVIOUS
<1>1. mission = NoMission /\ ~Bound
  BY DEF Init, Bound
<1>2. TypeOK /\ EvidenceInv
  BY DEF Init, TypeOK, EvidenceInv
<1>3. GroundsInv /\ BudgetInv /\ DoneMeansAccepted
  BY <1>1 DEF GroundsInv, BudgetInv, DoneMeansAccepted
<1> QED
  BY <1>2, <1>3 DEF IInv

LEMMA NextStep == IInv /\ [Next]_vars => IInv' /\ (Bound => Follows(board, board'))
<1> DEFINE Goal == IInv' /\ (Bound => Follows(board, board'))
<1> SUFFICES ASSUME IInv, [Next]_vars PROVE Goal
  OBVIOUS
<1>1. ASSUME NEW domain \in Goals, Start(domain) PROVE Goal
  BY <1>1, StartStep
<1>2. CASE Pause \/ Clear \/ Unwait \/ \E pid \in Pids : Wait(pid)
  BY <1>2, CommandStep
<1>3. CASE Resume
  BY <1>3, ResumeStep
<1>4. CASE AfterTurn
  BY <1>4, CommandStep, EvaluateStep DEF AfterTurn
<1>5. ASSUME NEW call \in Calls, NEW result \in ToolResults, PostToolCall(call, result) PROVE Goal
  BY <1>5, PostToolCallStep
<1>6. ASSUME NEW pid \in Pids, ProcessExits(pid) PROVE Goal
  <2>1. /\ UNCHANGED <<mission, evidence, claimed, lastClass, doneEvents, vouched, overdrafts>>
        /\ alive' \subseteq Pids
    BY <1>6 DEF ProcessExits, ledger, history, IInv, TypeOK
  <2> QED
    BY <2>1, QuietStep
<1>7. CASE UNCHANGED vars
  BY <1>7, QuietStep DEF vars, IInv, TypeOK
<1> QED
  BY <1>1, <1>2, <1>3, <1>4, <1>5, <1>6, <1>7 DEF Next

\* The inductive invariant holds of every mission.
THEOREM InductiveInvariant == Spec => []IInv
<1>1. IInv /\ [Next]_vars => IInv'
  BY NextStep
<1> QED
  BY InitIInv, <1>1, PTL DEF Spec

\* The record and the ledger keep their shape.
THEOREM TypeCorrect == Spec => []TypeOK
<1>1. IInv => TypeOK
  BY DEF IInv
<1> QED
  BY InductiveInvariant, <1>1, PTL

\* Nothing but a trusted tool event or a tested hypothesis with a verifier
\* marker passes the execution gate, for any answers of the evaluators
\* (gates.py, has_verified_execution_evidence).
THEOREM ExecutionNeedsWitness == Spec => []ExecutionGateWitnessed
<1>1. IInv => ExecutionGateWitnessed
  BY DEF IInv, GroundsInv, Grounded, Executed, ExecutionGateWitnessed
<1> QED
  BY InductiveInvariant, <1>1, PTL

\* The research gate passes only on sources that successful web calls have
\* shown or the critic has vouched for (gates.py, evaluate_gates).
THEOREM ResearchNeedsWitness == Spec => []ResearchGateWitnessed
<1>1. IInv => ResearchGateWitnessed
  BY DEF IInv, GroundsInv, Grounded, Seen, ResearchGateWitnessed
<1> QED
  BY InductiveInvariant, <1>1, PTL

\* The gates veto every false DONE: no interleaving of turns, tool events,
\* pauses and resumes leaves a mission done with a blocking gate open
\* (runtime.py, after_turn; gates.py, first_blocking_failure).
THEOREM DoneIsAccepted == Spec => []DoneMeansAccepted
<1>1. IInv => DoneMeansAccepted
  BY DEF IInv
<1> QED
  BY InductiveInvariant, <1>1, PTL

\* Each turn past the budget was paid for by a resume (runtime.py, after_turn).
THEOREM BudgetHolds == Spec => []BudgetOverdrawnByResumeOnly
<1>1. IInv => BudgetOverdrawnByResumeOnly
  <2> SUFFICES ASSUME IInv, Bound PROVE control.turns <= MaxTurns + overdrafts
    BY DEF BudgetOverdrawnByResumeOnly
  <2>1. Affordable(control, overdrafts)
    BY DEF IInv, BudgetInv
  <2>2. control.turns \in Nat /\ MaxTurns \in Nat /\ TurnBound \in Nat /\ overdrafts \in Nat
    BY MaxTurnsAssumption, TurnBoundAssumption DEF IInv, TypeOK, Bound, control, Control
  <2> QED
    BY <2>1, <2>2 DEF Affordable
<1> QED
  BY InductiveInvariant, <1>1, PTL

\* No handler reopens a gate (gates.py, set_gate_open).
THEOREM GatesNeverReopen == Spec => GatesStayPassed
<1>1. IInv /\ [Next]_vars => [Bound => board.passed \subseteq board'.passed]_vars
  BY NextStep DEF Follows
<1> QED
  BY InductiveInvariant, <1>1, PTL DEF Spec, GatesStayPassed

-----------------------------------------------------------------------------
(***************************************************************************)
(* What a step does to the control record.                                 *)
(***************************************************************************)
LEMMA ControlTyped == IInv /\ Bound => control \in Control /\ mission \in [control : Control, board : Board]
  BY DEF IInv, TypeOK, Bound, control

\* The status after a step that is neither a resume nor an evaluated turn.
LEMMA SavedControl ==
  ASSUME IInv, Bound, NEW c, SaveControl(c)
  PROVE  control' = c /\ board' = board
  BY ControlTyped DEF SaveControl, control, board

LEMMA CommandControl ==
  ASSUME IInv, Bound,
         Pause \/ Clear \/ Unwait \/ (\E pid \in Pids : Wait(pid))
           \/ (\E message \in {"synthetic", "user"}, interrupted \in BOOLEAN :
                 Preempt(message, interrupted))
  PROVE  /\ board' = board /\ control'.turns = control.turns
         /\ control'.status \in {control.status, "paused", "cleared"}
         /\ control.status = "cleared" => control'.status = "cleared"
<1>1. control \in Control
  BY ControlTyped
<1>2. CASE Pause
  BY <1>1, <1>2, SavedControl DEF Pause, PauseAccepts, Paused, Control
<1>3. CASE Clear
  BY <1>1, <1>3, SavedControl DEF Clear, ClearAccepts, Cleared, Control
<1>4. CASE Unwait
  BY <1>1, <1>4, SavedControl DEF Unwait, Unwaited, Control
<1>5. ASSUME NEW pid \in Pids, Wait(pid)
      PROVE  /\ board' = board /\ control'.turns = control.turns
             /\ control'.status = control.status
  BY <1>1, <1>5, SavedControl DEF Wait, Waiting, Control
<1>6. CASE \E message \in {"synthetic", "user"}, interrupted \in BOOLEAN :
             Preempt(message, interrupted)
  BY <1>1, <1>6, SavedControl DEF Preempt, Ignores, Paused, Control
<1> QED
  BY <1>2, <1>3, <1>4, <1>5, <1>6

\* How a step of a bound mission may change its control record.
ControlStep ==
  \/ /\ board' = board /\ control'.turns = control.turns
     /\ control'.status \in {control.status, "paused", "cleared"}
     /\ control.status = "cleared" => control'.status = "cleared"
  \/ /\ control.status \notin {"done", "cleared"} /\ control'.status = "active"
     /\ control'.turns = control.turns
  \/ control.status = "active" /\ ~Barred(control, alive)

LEMMA NextControl ==
  ASSUME IInv, Bound, [Next]_vars
  PROVE  ControlStep
<1>1. CASE \/ Pause \/ Clear \/ Unwait \/ \E pid \in Pids : Wait(pid)
           \/ \E message \in {"synthetic", "user"}, interrupted \in BOOLEAN :
                 Preempt(message, interrupted)
  BY <1>1, CommandControl DEF ControlStep
<1>2. CASE Resume
  BY <1>2, ControlTyped DEF Resume, ResumeAccepts, Resumed, Control, control, ControlStep
<1>3. ASSUME NEW response \in Responses, NEW judge \in Judgements,
             NEW critic \in CriticAnswers \cup {NoAnswer}, NEW inertia \in BOOLEAN,
             Evaluate(response, judge, critic, inertia)
      PROVE  ControlStep
  BY <1>3 DEF Evaluate, Ignores, ControlStep
<1>4. CASE UNCHANGED mission
  BY <1>4 DEF control, board, ControlStep
<1>5. ASSUME NEW domain \in Goals, Start(domain) PROVE ControlStep
  BY <1>5 DEF Start
<1> QED
  BY <1>1, <1>2, <1>3, <1>4, <1>5 DEF Next, AfterTurn, PostToolCall, ProcessExits, vars

\* Late turns, tool calls and commands do not move a mission that is not
\* running (runtime.py, the early returns of after_turn).
THEOREM StoppedMakesNoProgress == Spec => NoProgressUnlessActive
<1>1. IInv /\ [Next]_vars
        => [Bound /\ control.status # "active" /\ control'.status # "active"
              => control'.turns = control.turns /\ board' = board]_vars
  BY NextControl DEF ControlStep
<1> QED
  BY InductiveInvariant, <1>1, PTL DEF Spec, NoProgressUnlessActive

\* Behind the PID barrier no turn is counted and no mission completes
\* (runtime.py, is_waiting).
THEOREM BarrierIsKept == Spec => BarrierHolds
<1>1. IInv /\ [Next]_vars
        => [Bound /\ control.waitingOn \in alive
              => /\ control'.turns = control.turns
                 /\ control'.status = "done" => control.status = "done"]_vars
  BY NextControl DEF ControlStep, Barred
<1> QED
  BY InductiveInvariant, <1>1, PTL DEF Spec, BarrierHolds

\* Nothing revives a cleared mission (runtime.py, resume and after_turn).
THEOREM ClearedStaysCleared == Spec => ClearedIsFinal
<1>1. IInv /\ [Next]_vars
        => [Bound /\ control.status = "cleared" => control'.status = "cleared"]_vars
  BY NextControl DEF ControlStep
<1> QED
  BY InductiveInvariant, <1>1, PTL DEF Spec, ClearedIsFinal

-----------------------------------------------------------------------------
(***************************************************************************)
(* The mission implements MissionLifecycle.                                *)
(***************************************************************************)
LifeStatus(m) == IF m = NoMission THEN "none" ELSE m.control.status
LifeTurns(m) == IF m = NoMission THEN 0 ELSE m.control.turns

LifeMoves(m, n) == Moves(LifeStatus(m), LifeTurns(m), LifeStatus(n), LifeTurns(n))

LEMMA SavedMoves ==
  ASSUME IInv, Bound, NEW c \in Control, SaveControl(c), RecordMoves(control, c)
  PROVE  LifeMoves(mission, mission')
<1>1. mission \in [control : Control, board : Board] /\ mission' = [mission EXCEPT !.control = c]
  BY ControlTyped DEF SaveControl
<1>2. mission' \in [control : Control, board : Board] /\ mission'.control = c
  BY <1>1
<1> QED
  BY <1>1, <1>2, NoMissionAssumption DEF RecordMoves, LifeMoves, LifeStatus, LifeTurns, Bound, control

LEMMA ReplacedMoves ==
  ASSUME IInv, Bound, mission' \in [control : Control, board : Board], RecordMoves(control, control')
  PROVE  LifeMoves(mission, mission')
BY NoMissionAssumption DEF RecordMoves, LifeMoves, LifeStatus, LifeTurns, Bound, control

LEMMA LifeStep ==
  ASSUME IInv, [Next]_vars
  PROVE  LifeMoves(mission, mission')
<1>1. Bound => control \in Control
  BY ControlTyped
<1>2. CASE UNCHANGED mission
  BY <1>2 DEF LifeMoves, Moves
<1>3. ASSUME NEW domain \in Goals, Start(domain) PROVE LifeMoves(mission, mission')
  <2>1. mission' \in [control : Control, board : Board] /\ ~Bound /\ mission'.control = Started
    BY <1>3, StartStep DEF Start
  <2> QED
    BY <2>1, NoMissionAssumption, StartedTyped DEF LifeMoves, LifeStatus, LifeTurns, Moves, Bound
<1>4. ASSUME Pause \/ Clear \/ Unwait \/ (\E pid \in Pids : Wait(pid))
               \/ (\E message \in {"synthetic", "user"}, interrupted \in BOOLEAN :
                     Preempt(message, interrupted))
      PROVE  LifeMoves(mission, mission')
  <2>1. \E c \in Control : Bound /\ SaveControl(c) /\ RecordMoves(control, c)
    BY <1>1, <1>4, CommandMoves, WaitingMoves DEF Pause, Clear, Unwait, Wait, Preempt
  <2> QED
    BY <2>1, SavedMoves
<1>5. CASE Resume
  <2>1. Bound /\ ResumeAccepts(control) /\ control' = Resumed(control)
    BY <1>5 DEF Resume, control
  <2>2. RecordMoves(control, control')
    BY <1>1, <2>1, CommandMoves
  <2> QED
    BY <1>5, <2>1, <2>2, ResumeStep, ReplacedMoves
<1>6. ASSUME NEW response \in Responses, NEW judge \in Judgements,
             NEW critic \in CriticAnswers \cup {NoAnswer}, NEW inertia \in BOOLEAN,
             Evaluate(response, judge, critic, inertia)
      PROVE  LifeMoves(mission, mission')
  <2>1. Bound
    BY <1>6 DEF Evaluate
  <2> QED
    BY <1>6, <2>1, EvaluateStep, ReplacedMoves
<1>7. ASSUME UNCHANGED vars \/ (\E pid \in Pids : ProcessExits(pid))
               \/ (\E call \in Calls, result \in ToolResults : PostToolCall(call, result))
      PROVE  UNCHANGED mission
  BY <1>7 DEF vars, ProcessExits, PostToolCall
<1> QED
  BY <1>2, <1>3, <1>4, <1>5, <1>6, <1>7 DEF Next, AfterTurn

LEMMA LifecycleStep ==
  LifeMoves(mission, mission') => [Lifecycle!Next]_Lifecycle!vars
  BY DEF LifeMoves, LifeStatus, LifeTurns, Moves, Lifecycle!Next, Lifecycle!vars,
     Lifecycle!Begin, Lifecycle!Work, Lifecycle!Suspend, Lifecycle!Resume, Lifecycle!Abandon

\* Whatever the model, the judge and the critic answer, a mission keeps to its
\* lifecycle and its budget (runtime.py, RuntimeManager).
THEOREM StaysOnLifecycle == Spec => ImplementsLifecycle
<1>1. Init => Lifecycle!Init
  BY DEF Init, Lifecycle!Init
<1>2. IInv /\ [Next]_vars => [Lifecycle!Next]_Lifecycle!vars
  BY LifeStep, LifecycleStep
<1> QED
  BY <1>1, <1>2, InductiveInvariant, PTL DEF Spec, ImplementsLifecycle, Lifecycle!Spec
=============================================================================
