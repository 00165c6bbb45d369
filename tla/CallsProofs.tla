------------------------------ MODULE CallsProofs ------------------------------
(***************************************************************************)
(* Proofs about the calls of the endpoint and the archive they are         *)
(* recorded in, for any number of callers, requests, outcomes of a post,   *)
(* failures and synchronizations.                                          *)
(***************************************************************************)
EXTENDS NebiusCalls, WellFoundedInduction, TLAPS

-----------------------------------------------------------------------------
(* The index *)

IndexInv == (\E S : index \in Seq(S)) /\ RegisteredOnce

LEMMA RegisterKeepsIndex ==
    ASSUME IndexInv, NEW r, index' = Registered(r)
    PROVE  IndexInv'
<1>1. CASE IsRegistered(r) BY <1>1 DEF IndexInv, RegisteredOnce, Registered
<1>2. CASE ~IsRegistered(r)
    <2>1. PICK S : index \in Seq(S) BY DEF IndexInv
    <2>2. index \in Seq(S \cup {r}) BY <2>1
    <2>3. index' = Append(index, r) BY <1>2 DEF Registered
    <2>4. /\ index' \in Seq(S \cup {r}) /\ Len(index') = Len(index) + 1 /\ Len(index) \in Nat
          /\ \A i \in 1 .. Len(index) : index'[i] = index[i]
          /\ index'[Len(index) + 1] = r
        BY <2>2, <2>3
    <2>5. \A i \in 1 .. Len(index) : index[i] # r BY <1>2, <2>1 DEF IsRegistered
    <2>6. DOMAIN index = 1 .. Len(index) /\ DOMAIN index' = 1 .. Len(index) + 1 BY <2>2, <2>4
    <2>7. ASSUME NEW i \in DOMAIN index', NEW j \in DOMAIN index', index'[i] = index'[j] PROVE i = j
        <3>1. CASE i \in 1 .. Len(index) /\ j \in 1 .. Len(index)
            BY <2>4, <2>6, <2>7, <3>1 DEF IndexInv, RegisteredOnce
        <3>2. CASE i = Len(index) + 1 \/ j = Len(index) + 1 BY <2>4, <2>5, <2>6, <2>7, <3>2
        <3> QED BY <2>4, <2>6, <3>1, <3>2
    <2> QED BY <2>4, <2>7 DEF IndexInv, RegisteredOnce
<1> QED BY <1>1, <1>2

\* A record is registered once, by its recorder or by a synchronization: both
\* read the index and add the row while nobody else does.
THEOREM RecordsRegisteredOnce == Spec => []RegisteredOnce
<1>1. Init => IndexInv
    <2> SUFFICES ASSUME Init PROVE IndexInv OBVIOUS
    <2>1. index = <<>> BY DEF Init, ArchiveInit
    <2>2. index \in Seq({}) /\ DOMAIN index = {} BY <2>1
    <2> QED BY <2>2 DEF IndexInv, RegisteredOnce
<1>2. IndexInv /\ [Next]_vars => IndexInv'
    <2> SUFFICES ASSUME IndexInv, [Next]_vars PROVE IndexInv' OBVIOUS
    <2>1. ASSUME UNCHANGED index PROVE IndexInv' BY <2>1 DEF IndexInv, RegisteredOnce
    <2>2. ASSUME NEW c \in Callers, Begin(c) \/ Post(c) \/ Direct(c) PROVE IndexInv'
        BY <2>1, <2>2 DEF Begin, Post, Direct, archiveVars
    <2>3. ASSUME NEW c \in Callers, Write(c) \/ Upload(c) PROVE IndexInv'
        BY <2>1, <2>3 DEF Write, Upload, UploadError, WriteRecord, DiskFails, UploadDone, UploadFails, UploadTimesOut
    <2>4. ASSUME NEW c \in Callers, Enter(c) PROVE IndexInv'
        BY <2>4, RegisterKeepsIndex DEF Enter, RegisterRecord, Register
    <2>5. ASSUME NEW s \in Syncs, StartSync(s) \/ Synchronizes(s) PROVE IndexInv'
        <3>1. CASE SyncBegin(s) \/ SyncFails(s) \/ SyncDownload(s) \/ SyncList(s)
            BY <2>1, <3>1 DEF SyncBegin, SyncFails, SyncDownload, SyncList
        <3>2. ASSUME NEW r \in Records, SyncUpload(s, r) \/ SyncConfirm(s, r) PROVE IndexInv'
            BY <2>1, <3>2 DEF SyncUpload, SyncConfirm
        <3>3. ASSUME NEW r \in Records, SyncRegister(s, r) PROVE IndexInv'
            BY <3>3, RegisterKeepsIndex DEF SyncRegister, Register
        <3> QED BY <2>5, <3>1, <3>2, <3>3 DEF StartSync, Synchronizes, SyncStep
    <2>6. CASE UNCHANGED vars BY <2>1, <2>6 DEF vars, archiveVars
    <2> QED BY <2>2, <2>3, <2>4, <2>5, <2>6 DEF Next, Step
<1>3. IndexInv => RegisteredOnce BY DEF IndexInv
<1> QED BY <1>1, <1>2, <1>3, PTL DEF Spec

-----------------------------------------------------------------------------
(* Records with fields that are looked up by name *)

IsRecord(a) == a = [f \in DOMAIN a |-> a[f]]

LEMMA WithFields ==
    ASSUME NEW a, NEW b
    PROVE  /\ IsRecord(With(a, b)) /\ DOMAIN With(a, b) = DOMAIN a \cup DOMAIN b
           /\ \A f \in DOMAIN a : With(a, b)[f] = a[f]
           /\ \A f \in DOMAIN b : f \notin DOMAIN a => With(a, b)[f] = b[f]
BY DEF With, IsRecord

-----------------------------------------------------------------------------
(* Who wrote an answer of the endpoint *)

HonestResult(r, outcome) ==
    \/ r.mode = "local_vllm" /\ r.payload = outcome /\ r.reason = None
       /\ outcome.kind \in {"valid", "wrong_shape"}
    \/ r.mode = "deterministic_fallback" /\ r.payload = None /\ r.reason \in Reasons

\* An answer of the endpoint tells who wrote it, and if it was not the model, why.
Tells(a, outcome) ==
    /\ IsRecord(a) /\ {"content", "model", "reason", "asked"} \subseteq DOMAIN a
    /\ \/ /\ a.model = "local_vllm" /\ a.reason = None
          /\ outcome.kind = "valid" /\ a.content = FromModel(outcome).content
       \/ a.content = "template" /\ a.model = "deterministic_fallback" /\ a.reason \in Reasons

LEMMA FallbackIsHonest ==
    ASSUME NEW reason \in Reasons, NEW outcome
    PROVE  /\ HonestResult(Fallback(reason), outcome)
           /\ \A b : HonestResult([Fallback(reason) EXCEPT !.asked = b], outcome)
<1>1. Fallback(reason).mode = "deterministic_fallback" /\ Fallback(reason).payload = None /\ Fallback(reason).reason = reason
    BY DEF Fallback
<1>2. ASSUME NEW b PROVE HonestResult([Fallback(reason) EXCEPT !.asked = b], outcome)
    BY DEF Fallback, HonestResult
<1> QED BY <1>1, <1>2 DEF HonestResult

LEMMA ModelResultIsHonest ==
    ASSUME NEW outcome \in ModelOutcomes
    PROVE  HonestResult(ModelResult(outcome), outcome)
<1>1. outcome.kind \in {"valid", "wrong_shape", "no_object", "failed"}
    BY NebiusCallsAssumption DEF ModelOutcomes
<1>s. {"mock_mode", "unsupported_endpoint_mode", "local_vllm_failed", "invalid_model_json"} \subseteq Reasons BY DEF Reasons
<1>2. CASE EndpointMode # "local_vllm"
    <2>1. PICK reason \in Reasons : ModelResult(outcome) = Fallback(reason) BY <1>s, <1>2 DEF ModelResult
    <2> QED BY <2>1, FallbackIsHonest
<1>3. CASE EndpointMode = "local_vllm"
    <2>1. CASE outcome.kind \in {"failed", "no_object"}
        <3>1. PICK reason \in Reasons : ModelResult(outcome) = [Fallback(reason) EXCEPT !.asked = TRUE]
            BY <1>s, <1>3, <2>1 DEF ModelResult
        <3> QED BY <3>1, FallbackIsHonest
    <2>3. CASE outcome.kind \in {"valid", "wrong_shape"}
        <3>1. ModelResult(outcome) = [asked |-> TRUE, payload |-> outcome, mode |-> "local_vllm", reason |-> None]
            BY <1>3, <2>3 DEF ModelResult
        <3> QED BY <2>3, <3>1 DEF HonestResult
    <2> QED BY <1>1, <2>1, <2>3
<1> QED BY <1>2, <1>3

LEMMA AnalysisIsHonest ==
    ASSUME NEW e, NEW operation, NEW outcome \in ModelOutcomes
    PROVE  HonestResult(Analysis(e, operation, outcome), outcome)
<1>1. {"llm_not_triggered", "prompt_budget_exceeded"} \subseteq Reasons BY DEF Reasons
<1>2. \/ \E reason \in Reasons : Analysis(e, operation, outcome) = Fallback(reason)
      \/ Analysis(e, operation, outcome) = ModelResult(outcome)
    BY <1>1 DEF Analysis
<1> QED BY <1>2, FallbackIsHonest, ModelResultIsHonest

\* What the model said is used only with its mode, and the template never.
LEMMA ReportedTells ==
    ASSUME NEW outcome, NEW r, HonestResult(r, outcome), NEW deterministic, NEW merged,
           IsRecord(deterministic), {"content", "model", "reason", "asked"} \subseteq DOMAIN deterministic,
           deterministic.content = "template",
           IsRecord(merged), {"content", "model", "reason", "asked"} \subseteq DOMAIN merged,
           merged.content = FromModel(outcome).content
    PROVE  /\ Tells(Reported(r, deterministic, merged), outcome)
           /\ LET a == Reported(r, deterministic, merged)
              IN  IF a.model = "deterministic_fallback"
                  THEN /\ DOMAIN a = DOMAIN deterministic
                       /\ \A f \in DOMAIN a \ {"content", "model", "reason", "asked"} : a[f] = deterministic[f]
                  ELSE /\ DOMAIN a = DOMAIN merged
                       /\ \A f \in DOMAIN a \ {"content", "model", "reason", "asked"} : a[f] = merged[f]
<1> DEFINE a == Reported(r, deterministic, merged)
<1>1. CASE Parsed(r) = None
    <2> DEFINE q == FallbackModelResult(r)
    <2>1. q.mode = "deterministic_fallback" /\ q.reason \in Reasons
        <3> DEFINE x == r.asked
        <3>1. CASE r.mode = "deterministic_fallback" BY <3>1 DEF HonestResult, FallbackModelResult
        <3>2. CASE r.mode # "deterministic_fallback"
            <4>1. q = [Fallback("invalid_model_json") EXCEPT !.asked = x] BY <3>2 DEF FallbackModelResult
            <4> HIDE DEF x, q
            <4>2. q.mode = "deterministic_fallback" /\ q.reason = "invalid_model_json" BY <4>1 DEF Fallback
            <4> QED BY <4>2 DEF Reasons
        <3> QED BY <3>1, <3>2
    <2>2. a = [deterministic EXCEPT !.model = q.mode, !.reason = q.reason, !.asked = q.asked]
        BY <1>1 DEF Reported, WithMetadata
    <2> HIDE DEF a, q
    <2>3. IsRecord(a) /\ DOMAIN a = DOMAIN deterministic BY <2>2 DEF IsRecord
    <2>4. a.content = "template" /\ a.model = q.mode /\ a.reason = q.reason BY <2>2
    <2>5. \A f \in DOMAIN a \ {"content", "model", "reason", "asked"} : a[f] = deterministic[f] BY <2>2
    <2>6. Tells(a, outcome) BY <2>1, <2>3, <2>4 DEF Tells
    <2> QED BY <2>1, <2>3, <2>4, <2>5, <2>6 DEF a
<1>2. CASE Parsed(r) # None
    <2>1. r.mode = "local_vllm" /\ r.reason = None /\ outcome.kind = "valid" BY <1>2 DEF Parsed, HonestResult
    <2>2. a = [merged EXCEPT !.model = r.mode, !.reason = r.reason, !.asked = r.asked]
        BY <1>2 DEF Reported, WithMetadata
    <2> HIDE DEF a
    <2>3. IsRecord(a) /\ DOMAIN a = DOMAIN merged BY <2>2 DEF IsRecord
    <2>4. a.content = FromModel(outcome).content /\ a.model = "local_vllm" /\ a.reason = None
        <3> DEFINE c == FromModel(outcome).content
        <3>1. merged.content = c OBVIOUS
        <3> HIDE DEF c
        <3> QED BY <2>1, <2>2, <3>1
    <2>5. \A f \in DOMAIN a \ {"content", "model", "reason", "asked"} : a[f] = merged[f] BY <2>2
    <2>6. Tells(a, outcome) BY <2>1, <2>3, <2>4 DEF Tells
    <2> QED BY <2>3, <2>4, <2>5, <2>6 DEF a
<1> QED BY <1>1, <1>2

Provenance == {"content", "model", "reason", "asked"}

\* What a handler makes of its texts: a record with the provenance of the texts.
Texts(a, content) == IsRecord(a) /\ Provenance \subseteq DOMAIN a /\ a.content = content

LEMMA TextsOf ==
    ASSUME NEW a, DOMAIN a \cap Provenance = {}, NEW b, DOMAIN b = Provenance, NEW content, b["content"] = content
    PROVE  /\ Texts(With(a, b), content) /\ DOMAIN With(a, b) = DOMAIN a \cup Provenance
           /\ \A f \in DOMAIN a : With(a, b)[f] = a[f]
<1>1. "content" \in Provenance /\ "content" \notin DOMAIN a BY DEF Provenance
<1>2. /\ IsRecord(With(a, b)) /\ DOMAIN With(a, b) = DOMAIN a \cup DOMAIN b
      /\ \A f \in DOMAIN a : With(a, b)[f] = a[f]
      /\ \A f \in DOMAIN b : f \notin DOMAIN a => With(a, b)[f] = b[f]
    BY WithFields
<1>3. With(a, b)["content"] = content BY <1>1, <1>2
<1> QED BY <1>2, <1>3 DEF Texts

LEMMA TemplateTexts ==
    ASSUME NEW a, DOMAIN a \cap Provenance = {}
    PROVE  /\ Texts(With(a, Template), "template") /\ DOMAIN With(a, Template) = DOMAIN a \cup Provenance
           /\ \A f \in DOMAIN a : With(a, Template)[f] = a[f]
<1>1. DOMAIN Template = Provenance /\ Template["content"] = "template" BY DEF Template, Provenance
<1> QED BY <1>1, TextsOf

LEMMA ModelTexts ==
    ASSUME NEW a, DOMAIN a \cap Provenance = {}, NEW outcome
    PROVE  /\ Texts(With(a, FromModel(outcome)), FromModel(outcome).content)
           /\ DOMAIN With(a, FromModel(outcome)) = DOMAIN a \cup Provenance
           /\ \A f \in DOMAIN a : With(a, FromModel(outcome))[f] = a[f]
<1> DEFINE b == FromModel(outcome)
           content == FromModel(outcome).content
<1>1. DOMAIN b = Provenance BY DEF FromModel, Template, Provenance
<1>2. b["content"] = content OBVIOUS
<1> HIDE DEF b, content
<1>3. /\ Texts(With(a, b), content) /\ DOMAIN With(a, b) = DOMAIN a \cup Provenance
      /\ \A f \in DOMAIN a : With(a, b)[f] = a[f]
    BY <1>1, <1>2, TextsOf
<1> QED BY <1>3 DEF b, content

LEMMA BareTexts ==
    ASSUME NEW outcome
    PROVE  Texts(Template, "template") /\ Texts(FromModel(outcome), FromModel(outcome).content)
<1>1. IsRecord(Template) /\ Provenance \subseteq DOMAIN Template /\ Template.content = "template"
    BY DEF Template, IsRecord, Provenance
<1>2. IsRecord(FromModel(outcome)) /\ Provenance \subseteq DOMAIN FromModel(outcome) BY <1>1 DEF FromModel, IsRecord
<1> QED BY <1>1, <1>2 DEF Texts

LEMMA HandlerTells ==
    ASSUME NEW outcome, NEW r, HonestResult(r, outcome), NEW deterministic, Texts(deterministic, "template"),
           NEW merged, Texts(merged, FromModel(outcome).content)
    PROVE  Tells(Reported(r, deterministic, merged), outcome)
BY ReportedTells DEF Texts, Provenance

LEMMA AlertTells ==
    ASSUME NEW w, NEW outcome \in ModelOutcomes
    PROVE  Tells(OrderbookAlert(w, outcome), outcome)
<1> DEFINE d == [suspicion |-> Screened(w).score, pattern |-> Screened(w).pattern, confidence |-> Screened(w).score]
           m == [suspicion |-> Larger(Screened(w).score, outcome.confidence), pattern |-> Or(outcome.class, Screened(w).pattern),
                 confidence |-> outcome.confidence]
<1>1. DOMAIN d \cap Provenance = {} /\ DOMAIN m \cap Provenance = {} BY DEF Provenance
<1>2. DeterministicAlert(w) = With(d, Template) /\ MergedAlert(w, outcome) = With(m, FromModel(outcome))
    BY DEF DeterministicAlert, MergedAlert
<1> HIDE DEF d, m
<1>3. Texts(DeterministicAlert(w), "template") /\ Texts(MergedAlert(w, outcome), FromModel(outcome).content)
    <2>1. Texts(With(d, Template), "template") BY <1>1, TemplateTexts
    <2>2. Texts(With(m, FromModel(outcome)), FromModel(outcome).content) BY <1>1, ModelTexts
    <2> QED BY <1>2, <2>1, <2>2
<1> QED BY <1>3, AnalysisIsHonest, HandlerTells DEF OrderbookAlert

LEMMA ToldTells ==
    ASSUME NEW e, NEW operation, NEW outcome \in ModelOutcomes
    PROVE  Tells(Told(e, operation, outcome), outcome)
BY BareTexts, AnalysisIsHonest, HandlerTells DEF Told

TeamFields == {"risk", "confidence", "agents"}

\* The answer about a team, and what it says of the risk when no model wrote it.
LEMMA TeamTells ==
    ASSUME NEW e, NEW w, NEW outcome \in ModelOutcomes
    PROVE  LET a == InvestigationTeam(e, w, outcome)
           IN  /\ Tells(a, outcome) /\ DOMAIN a = TeamFields \cup Provenance
               /\ a.model = "deterministic_fallback" => a.risk = InvestigationRisk(e, w)
<1> DEFINE risk == InvestigationRisk(e, w)
           confidence == Bounded(Highest(IF RowSet(e) = {} THEN {risk} ELSE {r.score : r \in RowSet(e)}))
           d == [risk |-> risk, confidence |-> confidence, agents |-> TeamOf(risk, confidence)]
           m == [risk |-> SeverityScore[outcome.severity], confidence |-> outcome.confidence,
                 agents |-> [i \in 1 .. 5 |-> <<TeamOf(0, 0)[i][1], outcome.confidence>>]]
           r == Analysis(e, "episode_analysis", outcome)
           a == InvestigationTeam(e, w, outcome)
<1>1. /\ DOMAIN d = TeamFields /\ DOMAIN m = TeamFields /\ TeamFields \cap Provenance = {}
      /\ d["risk"] = risk
    BY DEF Provenance, TeamFields
<1>2. DeterministicTeam(e, w) = With(d, Template) /\ MergedTeam(e, w, outcome) = With(m, FromModel(outcome))
    BY DEF DeterministicTeam, MergedTeam
<1> HIDE DEF d, m, risk, confidence
<1>3. /\ Texts(DeterministicTeam(e, w), "template") /\ DOMAIN DeterministicTeam(e, w) = TeamFields \cup Provenance
      /\ Texts(MergedTeam(e, w, outcome), FromModel(outcome).content) /\ DOMAIN MergedTeam(e, w, outcome) = TeamFields \cup Provenance
      /\ DeterministicTeam(e, w)["risk"] = risk
    <2>1. "risk" \in DOMAIN d BY <1>1 DEF TeamFields
    <2>2. /\ Texts(With(d, Template), "template") /\ DOMAIN With(d, Template) = DOMAIN d \cup Provenance
          /\ \A f \in DOMAIN d : With(d, Template)[f] = d[f]
        BY <1>1, TemplateTexts
    <2>3. /\ Texts(With(m, FromModel(outcome)), FromModel(outcome).content)
          /\ DOMAIN With(m, FromModel(outcome)) = DOMAIN m \cup Provenance
        BY <1>1, ModelTexts
    <2> QED BY <1>1, <1>2, <2>1, <2>2, <2>3
<1>4. HonestResult(r, outcome) BY AnalysisIsHonest
<1>5. a = Reported(r, DeterministicTeam(e, w), MergedTeam(e, w, outcome)) BY DEF InvestigationTeam
<1> HIDE DEF a, r
<1>6. Tells(a, outcome) BY <1>3, <1>4, <1>5, HandlerTells
<1>7. /\ DOMAIN a = TeamFields \cup Provenance
      /\ a.model = "deterministic_fallback" =>
            \A f \in DOMAIN a \ Provenance : a[f] = DeterministicTeam(e, w)[f]
    BY <1>3, <1>4, <1>5, ReportedTells DEF Texts, Provenance
<1>8. "risk" \in DOMAIN a \ Provenance BY <1>7 DEF TeamFields, Provenance
<1>9. a.model = "deterministic_fallback" => a.risk = risk BY <1>3, <1>7, <1>8
<1> QED BY <1>6, <1>7, <1>9 DEF a, risk

LEMMA RedTeamTells ==
    ASSUME NEW request, NEW outcome \in ModelOutcomes
    PROVE  Tells(GenerateScenario(request, outcome), outcome)
<1> DEFINE d == [type |-> NormalizedType(Or(request.type, "spoofing_like_wall")),
                 risk |-> ScenarioRisk(Or(request.goal, "obvious"))]
           m == [type |-> NormalizedType(Or(outcome.type, DeterministicScenario(request).type)),
                 risk |-> Clamp(0, 100, outcome.risk)]
<1>1. DOMAIN d \cap Provenance = {} /\ DOMAIN m \cap Provenance = {} BY DEF Provenance
<1>2. /\ DeterministicScenario(request) = With(d, Template)
      /\ MergedDraft(request, outcome) = With(m, FromModel(outcome))
    BY DEF DeterministicScenario, MergedDraft
<1> HIDE DEF d, m
<1>3. /\ Texts(DeterministicScenario(request), "template")
      /\ Texts(MergedDraft(request, outcome), FromModel(outcome).content)
    <2>1. Texts(With(d, Template), "template") BY <1>1, TemplateTexts
    <2>2. Texts(With(m, FromModel(outcome)), FromModel(outcome).content) BY <1>1, ModelTexts
    <2> QED BY <1>2, <2>1, <2>2
<1> QED BY <1>3, ModelResultIsHonest, HandlerTells DEF GenerateScenario

ScenarioFields ==
    {"type", "difficulty", "liquidity", "volatility", "duration", "truth", "events", "behaviour", "source"}

TemplateTruth(req) ==
    [label |-> req.type, window |-> <<TemplateStart(req.duration), TemplateEnd(req.duration)>>,
     targets |-> TemplateSignals(req.type), positives |-> FirstTwo(TemplateEvents(req))]

TemplateBehaviour(req) ==
    [signals |-> TemplateSignals(req.type), risk |-> TemplateRisk(req.difficulty, req.volatility),
     falsePositives |-> CASE req.difficulty = "adversarial" -> "high"
                          [] req.difficulty = "hard" -> "medium" [] OTHER -> "low"]

\* A generated scenario says itself whether the model gave the texts; the rest
\* is the template's whoever gave them.
LEMMA AbuseTells ==
    ASSUME NEW req, NEW outcome \in ModelOutcomes
    PROVE  LET a == GenerateMarketAbuse(req, outcome)
           IN  /\ Tells(a, outcome) /\ DOMAIN a = ScenarioFields \cup Provenance
               /\ a.source = (IF a.model = "deterministic_fallback" THEN "mock" ELSE "nebius")
               /\ a.type = req.type /\ a.difficulty = req.difficulty /\ a.liquidity = req.liquidity
               /\ a.volatility = req.volatility /\ a.duration = req.duration
               /\ a.truth = TemplateTruth(req) /\ a.events = TemplateEvents(req)
               /\ a.behaviour = TemplateBehaviour(req)
<1> DEFINE body ==
        [type |-> req.type, difficulty |-> req.difficulty, liquidity |-> req.liquidity,
         volatility |-> req.volatility, duration |-> req.duration,
         truth |-> TemplateTruth(req), events |-> TemplateEvents(req), behaviour |-> TemplateBehaviour(req),
         source |-> "mock"]
           t == TemplateScenario(req)
           m == MergedScenario(req, outcome)
           r == ModelResult(outcome)
           c == FromModel(outcome).content
           a == GenerateMarketAbuse(req, outcome)
<1>1. /\ DOMAIN body = ScenarioFields /\ ScenarioFields \cap Provenance = {}
      /\ body["type"] = req.type /\ body["difficulty"] = req.difficulty /\ body["liquidity"] = req.liquidity
      /\ body["volatility"] = req.volatility /\ body["duration"] = req.duration
      /\ body["events"] = TemplateEvents(req) /\ body["source"] = "mock"
      /\ body["truth"] = TemplateTruth(req) /\ body["behaviour"] = TemplateBehaviour(req)
    BY DEF ScenarioFields, Provenance
<1>2. t = With(body, Template) BY DEF TemplateScenario, TemplateTruth, TemplateBehaviour
<1> HIDE DEF body
<1>3. /\ Texts(t, "template") /\ DOMAIN t = ScenarioFields \cup Provenance
      /\ \A f \in ScenarioFields : t[f] = body[f]
    BY <1>1, <1>2, TemplateTexts
<1>4. m = [t EXCEPT !.content = c, !.source = "nebius"] BY DEF MergedScenario
<1>5. a = Reported(r, t, m) BY DEF GenerateMarketAbuse
<1>6. HonestResult(r, outcome) BY ModelResultIsHonest
<1> HIDE DEF t, m, r, a, c
<1>7. /\ IsRecord(m) /\ DOMAIN m = DOMAIN t /\ m.content = c /\ m.source = "nebius"
      /\ \A f \in DOMAIN t \ {"content", "source"} : m[f] = t[f]
    BY <1>3, <1>4 DEF IsRecord, Provenance, ScenarioFields
<1>8. Texts(m, FromModel(outcome).content) BY <1>3, <1>7 DEF Texts, c
<1>9. Tells(a, outcome) BY <1>3, <1>5, <1>6, <1>8, HandlerTells
<1>10. /\ DOMAIN a = ScenarioFields \cup Provenance
       /\ IF a.model = "deterministic_fallback" THEN \A f \in DOMAIN a \ Provenance : a[f] = t[f]
          ELSE \A f \in DOMAIN a \ Provenance : a[f] = m[f]
    BY <1>3, <1>5, <1>6, <1>7, <1>8, ReportedTells DEF Texts, Provenance
<1>11. \A f \in ScenarioFields : f \in DOMAIN a \ Provenance BY <1>1, <1>10
<1>12. \A f \in ScenarioFields \ {"source"} : a[f] = t[f]
    <2> SUFFICES ASSUME NEW f \in ScenarioFields \ {"source"} PROVE a[f] = t[f] OBVIOUS
    <2>1. f \in DOMAIN a \ Provenance BY <1>11
    <2>2. f \in DOMAIN t \ {"content", "source"} BY <1>1, <1>3 DEF Provenance
    <2>3. m[f] = t[f] BY <1>7, <2>2
    <2> QED BY <1>10, <2>1, <2>3
<1>13. "source" \in ScenarioFields BY DEF ScenarioFields
<1>14. a.source = (IF a.model = "deterministic_fallback" THEN "mock" ELSE "nebius")
    <2>1. t["source"] = "mock" BY <1>1, <1>3, <1>13
    <2>2. "source" \in DOMAIN a \ Provenance BY <1>11, <1>13
    <2> QED BY <1>7, <1>10, <2>1, <2>2
<1>15. /\ a.type = req.type /\ a.difficulty = req.difficulty /\ a.liquidity = req.liquidity
       /\ a.volatility = req.volatility /\ a.duration = req.duration /\ a.events = TemplateEvents(req)
    BY <1>1, <1>3, <1>12 DEF ScenarioFields
<1>16. a.truth = TemplateTruth(req) /\ a.behaviour = TemplateBehaviour(req)
    BY <1>1, <1>3, <1>12 DEF ScenarioFields
<1> QED BY <1>9, <1>10, <1>14, <1>15, <1>16 DEF a, t

\* The other routes.
LEMMA RouteTells ==
    ASSUME NEW call, call.route \in Routes, NEW outcome \in ModelOutcomes
    PROVE  Tells(Answered(call, outcome), outcome)
<1>1. CASE call.route = "explain" BY <1>1, ToldTells DEF Answered, ExplainEvent
<1>2. CASE call.route = "report" BY <1>2, ToldTells DEF Answered, InvestigationReport
<1>3. CASE call.route = "team" BY <1>3, TeamTells DEF Answered
<1>4. CASE call.route = "alert" BY <1>4, AlertTells DEF Answered
<1>5. CASE call.route = "red_team" BY <1>5, RedTeamTells DEF Answered
<1>6. CASE call.route = "market_abuse" BY <1>6, AbuseTells DEF Answered
<1> QED BY <1>1, <1>2, <1>3, <1>4, <1>5, <1>6 DEF Routes

-----------------------------------------------------------------------------
(* What a caller gets *)

LEMMA MockIsHonest ==
    ASSUME NEW call, call.op \in Routes, NEW reason, reason # None
    PROVE  Honest(call, Mock(call, reason))
<1> DEFINE IsMock(a) == a.client = "mock" /\ a.reason = reason /\ a.model = None /\ a.content = "template"
<1>1. ASSUME NEW a, DOMAIN a \cap {"client", "reason", "model", "content"} = {} PROVE IsMock(With(a, Mocked(reason)))
    <2> DEFINE b == Mocked(reason)
    <2>1. /\ DOMAIN b = {"client", "reason", "model", "content"}
          /\ b["client"] = "mock" /\ b["reason"] = reason /\ b["model"] = None /\ b["content"] = "template"
        BY DEF Mocked
    <2> HIDE DEF b
    <2>2. \A f \in DOMAIN b : f \notin DOMAIN a => With(a, b)[f] = b[f] BY WithFields
    <2>3. With(a, b).client = "mock" /\ With(a, b).reason = reason /\ With(a, b).model = None /\ With(a, b).content = "template"
        BY <1>1, <2>1, <2>2
    <2> QED BY <2>3 DEF b
<1>2. IsMock(Mocked(reason)) BY DEF Mocked
<1>3. ASSUME NEW w PROVE IsMock(MockAlert(w, reason)) BY <1>1 DEF MockAlert
<1>4. ASSUME NEW r PROVE IsMock(MockRedTeam(r, reason)) BY <1>1 DEF MockRedTeam
<1>5. ASSUME NEW e, NEW w PROVE IsMock(MockTeam(e, w, reason)) BY <1>1 DEF MockTeam
<1>6. ASSUME NEW r PROVE IsMock(MockScenario(r, reason)) BY DEF MockScenario
<1> HIDE DEF IsMock
<1>7. IsMock(Mock(call, reason))
    <2>1. CASE call.op = "alert" BY <1>3, <2>1 DEF Mock
    <2>2. CASE call.op = "red_team" BY <1>4, <2>2 DEF Mock
    <2>3. CASE call.op = "market_abuse" BY <1>6, <2>3 DEF Mock
    <2>4. CASE call.op = "team" BY <1>5, <2>4 DEF Mock
    <2>5. CASE call.op \in {"explain", "report"} BY <1>2, <2>5 DEF Mock
    <2> QED BY <2>1, <2>2, <2>3, <2>4, <2>5 DEF Routes
<1>8. None # "local_vllm" BY NebiusCallsAssumption DEF Words
<1> QED BY <1>7, <1>8 DEF IsMock, Honest

\* A route that is not made for market abuse is asked only in place of the one that is.
RouteFits(call) ==
    /\ call.op \in Routes
    /\ IF call.op = "market_abuse" THEN call.route \in {"market_abuse", "red_team", "alert"} ELSE call.route = call.op

LEMMA ParsedIsHonest ==
    ASSUME NEW call, RouteFits(call), NEW outcome \in ModelOutcomes, call.outcome = outcome
    PROVE  Honest(call, ParsedAnswer(call, Answered(call, outcome)))
<1> DEFINE answer == Answered(call, outcome)
           a == ParsedAnswer(call, answer)
<1>1. Tells(answer, outcome) BY RouteTells DEF RouteFits, Routes
<1>2. None \notin Reasons /\ None # "mock" BY NebiusCallsAssumption DEF Words
<1>t. outcome.kind = "valid" /\ FromModel(outcome).content = "template" => outcome.text = None
    <2> SUFFICES ASSUME outcome.kind = "valid", FromModel(outcome).content = "template" PROVE outcome.text = None
        OBVIOUS
    <2>1. outcome \in Assessments BY DEF ModelOutcomes
    <2>2. outcome.text \in {"model", "both", None} BY <2>1, NebiusCallsAssumption DEF Wrote
    <2>3. FromModel(outcome).content = Or(outcome.text, "template") BY DEF FromModel, Template
    <2> QED BY <2>2, <2>3 DEF Or
<1>3. CASE call.op # "market_abuse"
    <2> DEFINE told == IF call.op = "team" THEN ParsedTeam(answer) ELSE answer
    <2>1. /\ {"content", "model", "reason"} \subseteq DOMAIN told
          /\ told.content = answer.content /\ told.model = answer.model /\ told.reason = answer.reason
        <3>1. CASE call.op = "team"
            <4>1. DOMAIN ParsedTeam(answer) = DOMAIN answer BY DEF ParsedTeam
            <4>2. /\ ParsedTeam(answer).content = answer.content /\ ParsedTeam(answer).model = answer.model
                  /\ ParsedTeam(answer).reason = answer.reason
                BY <1>1 DEF ParsedTeam, Tells
            <4> QED BY <1>1, <3>1, <4>1, <4>2 DEF Tells
        <3>2. CASE call.op # "team" BY <1>1, <3>2 DEF Tells
        <3> QED BY <3>1, <3>2
    <2>2. a = With([client |-> "nebius"], told) BY <1>3 DEF ParsedAnswer
    <2> DEFINE b == [client |-> "nebius"]
    <2>3. DOMAIN b = {"client"} /\ b["client"] = "nebius" OBVIOUS
    <2>4. a = With(b, told) BY <2>2
    <2> HIDE DEF a, b, told, answer
    <2>5. /\ \A f \in DOMAIN b : With(b, told)[f] = b[f]
          /\ \A f \in DOMAIN told : f \notin DOMAIN b => With(b, told)[f] = told[f]
        BY WithFields
    <2>6. a.client = "nebius" /\ a.content = answer.content /\ a.model = answer.model /\ a.reason = answer.reason
        BY <2>1, <2>3, <2>4, <2>5
    <2> QED BY <1>1, <1>2, <1>t, <2>6 DEF Tells, Honest, a, answer
<1>4. CASE call.op = "market_abuse"
    <2> DEFINE response == IF call.route = "market_abuse" THEN answer ELSE TextsOnly(answer)
               mode == IF response.source = "mock" \/ response.model = "deterministic_fallback" THEN "mock" ELSE "nebius"
               reason == IF call.route = "alert" THEN None ELSE response.reason
    <2>1. response.content = answer.content /\ response.model = answer.model /\ response.reason = answer.reason
        BY DEF TextsOnly
    <2>2. a = Normalized(response, call.request, mode, reason) BY <1>4 DEF ParsedAnswer, ParsedScenario
    <2>3. answer.model = "local_vllm" => response.source # "mock"
        <3>1. CASE call.route = "market_abuse"
            <4>1. answer = GenerateMarketAbuse(call.request, outcome) BY <3>1 DEF Answered
            <4>2. answer.source = (IF answer.model = "deterministic_fallback" THEN "mock" ELSE "nebius")
                BY <4>1, AbuseTells
            <4> QED BY <3>1, <4>2
        <3>2. CASE call.route # "market_abuse" BY <1>2, <3>2 DEF TextsOnly
        <3> QED BY <3>1, <3>2
    <2> HIDE DEF a, response, answer
    <2>4. a.client = mode /\ a.reason = reason /\ a.model = response.model /\ a.content = response.content
        BY <2>2 DEF Normalized
    <2>5. a.model = "local_vllm" =>
             /\ a.client # "mock" /\ a.reason = None /\ outcome.kind = "valid"
             /\ a.content = FromModel(outcome).content
        BY <1>1, <2>1, <2>3, <2>4 DEF Tells
    <2>6. a.model # "local_vllm" => a.content = "template"
        BY <1>1, <2>1, <2>4 DEF Tells
    <2>7. a.model # "local_vllm" => a.reason # None \/ ByAlert(call)
        BY <1>1, <1>2, <1>4, <2>1, <2>4 DEF Tells, ByAlert
    <2> QED BY <1>t, <2>5, <2>6, <2>7 DEF Honest, a, answer
<1> QED BY <1>3, <1>4

\* The two routes that are asked directly keep the mode of the model.
LEMMA DirectIsHonest ==
    ASSUME NEW call, call.op \in DirectRoutes, call.route = call.op, call.outcome \in ModelOutcomes
    PROVE  Honest(call, With([client |-> None], Answered(call, call.outcome)))
<1> DEFINE outcome == call.outcome
           answer == Answered(call, outcome)
           b == [client |-> None]
           a == With(b, answer)
<1>1. PICK operation : answer = Summarized(call.episode, operation, outcome)
    BY DEF Answered, DirectRoutes, ExplainSimulation, GenerateIncidentReport
<1> DEFINE r == Analysis(call.episode, operation, outcome)
           text == IF Parsed(r) = None THEN Template ELSE [Template EXCEPT !.content = "model"]
<1>2. HonestResult(r, outcome) BY AnalysisIsHonest
<1>3. answer = [text EXCEPT !.model = r.mode, !.reason = r.reason, !.asked = r.asked]
    BY <1>1 DEF Summarized, WithMetadata
<1>4. DOMAIN text = {"content", "model", "reason", "asked"}
      /\ text.content = (IF Parsed(r) = None THEN "template" ELSE "model")
    BY DEF Template
<1>5. Parsed(r) # None => r.mode = "local_vllm" /\ outcome.kind = "valid" BY <1>2 DEF Parsed, HonestResult
<1>6. r.mode = "local_vllm" /\ outcome.kind = "valid" => Parsed(r) # None
    <2>1. CASE r.mode = "local_vllm" /\ outcome.kind = "valid"
        <3>1. r.payload = outcome BY <1>2, <2>1 DEF HonestResult
        <3>2. outcome \in Assessments BY <2>1 DEF ModelOutcomes
        <3>3. outcome # None BY <3>2, NebiusCallsAssumption
        <3> QED BY <2>1, <3>1, <3>3 DEF Parsed
    <2> QED BY <2>1
<1> HIDE DEF text, r, answer
<1>7. /\ DOMAIN answer = {"content", "model", "reason", "asked"} /\ answer.content = text.content
      /\ answer.model = r.mode /\ answer.reason = r.reason
    BY <1>3, <1>4
<1>8. DOMAIN b = {"client"} /\ b["client"] = None OBVIOUS
<1> HIDE DEF b
<1>f. /\ \A f \in DOMAIN b : With(b, answer)[f] = b[f]
      /\ \A f \in DOMAIN answer : f \notin DOMAIN b => With(b, answer)[f] = answer[f]
    BY WithFields
<1>9. a.client = None /\ a.content = answer.content /\ a.model = answer.model /\ a.reason = answer.reason
    BY <1>7, <1>8, <1>f
<1>10. None # "mock" /\ None \notin Reasons BY NebiusCallsAssumption DEF Words
<1>11. a.model = "local_vllm" =>
          /\ a.client # "mock" /\ a.reason = None
          /\ \/ outcome.kind = "valid" /\ a.content = "model"
             \/ outcome.kind = "wrong_shape"
    BY <1>2, <1>4, <1>6, <1>7, <1>9, <1>10 DEF HonestResult
<1>12. a.model # "local_vllm" => a.content = "template" /\ a.reason # None
    BY <1>2, <1>4, <1>5, <1>7, <1>9, <1>10 DEF HonestResult
<1> HIDE DEF a
<1>13. Honest(call, a) BY <1>11, <1>12 DEF Honest
<1> QED BY <1>13 DEF a, b, answer

-----------------------------------------------------------------------------
(* The calls that are under way *)

Outcomes == PostOutcomes \cup {[kind |-> None]}

\* A direct request is asked once, and done when the endpoint has answered.
DirectFits(call) ==
    call.route = call.op /\ call.pc \in {"posting", "done"} /\ (call.pc = "done" => call.outcome \in ModelOutcomes)

\* What a call has of its request, and where it may be.
IsCall(call) ==
    /\ IsRecord(call) /\ {"pc", "op", "route", "attempt", "outcome"} \subseteq DOMAIN call
    /\ call.outcome \in Outcomes
    /\ call.pc # "idle" =>
          /\ IF call.op \in DirectRoutes THEN DirectFits(call) ELSE RouteFits(call)
          /\ call.op = "market_abuse" => "request" \in DOMAIN call /\ call.request \in Requests
          /\ call.op = "team" =>
                {"episode", "window"} \subseteq DOMAIN call /\ IsEpisode(call.episode) /\ IsWindow(call.window)

CallsInv ==
    /\ calls = [c \in Callers |-> calls[c]]
    /\ \A c \in Callers : IsCall(calls[c])

\* A call changes by its step, its outcome and its route.
LEMMA CallChanges ==
    ASSUME NEW call, IsCall(call), call.pc # "idle", NEW next, IsRecord(next), DOMAIN next = DOMAIN call,
           \A f \in DOMAIN call \ {"pc", "outcome", "route", "attempt"} : next[f] = call[f],
           next.outcome \in Outcomes,
           next.route # call.route => call.op = "market_abuse" /\ next.route \in {"red_team", "alert"},
           call.op \in DirectRoutes => DirectFits(next)
    PROVE  IsCall(next)
<1>1. next.op = call.op BY DEF IsCall
<1>2. IF next.op \in DirectRoutes THEN DirectFits(next) ELSE RouteFits(next) BY <1>1 DEF IsCall, RouteFits
<1>3. call.op = "market_abuse" => "request" \in DOMAIN next /\ next.request = call.request
    BY DEF IsCall
<1>4. call.op = "team" => {"episode", "window"} \subseteq DOMAIN next /\ next.episode = call.episode /\ next.window = call.window
    BY DEF IsCall
<1> QED BY <1>1, <1>2, <1>3, <1>4 DEF IsCall

LEMMA BeginKeepsCalls ==
    ASSUME CallsInv, NEW c \in Callers, Begin(c)
    PROVE  CallsInv'
<1>1. PICK request \in CallsOf[c] :
        LET call == With([op |-> request.op, route |-> request.op, pc |-> "posting", attempt |-> 1], With(request, Fresh))
        IN  calls' = [calls EXCEPT ![c] =
                IF request.op \in Configured \cup DirectRoutes THEN call ELSE [call EXCEPT !.pc = "done"]]
    BY DEF Begin
<1> DEFINE first == [op |-> request.op, route |-> request.op, pc |-> "posting", attempt |-> 1]
           rest == With(request, Fresh)
           call == With(first, rest)
<1>2. IsRequest(request) BY NebiusCallsAssumption
<1>3. /\ DOMAIN first = {"op", "route", "pc", "attempt"}
      /\ first["op"] = request.op /\ first["route"] = request.op /\ first["pc"] = "posting"
    OBVIOUS
<1>4. /\ DOMAIN Fresh = {"pc", "op", "route", "attempt", "outcome"} /\ Fresh["outcome"] = [kind |-> None]
    BY DEF Fresh
<1>5. calls' = [calls EXCEPT ![c] =
                IF request.op \in Configured \cup DirectRoutes THEN call ELSE [call EXCEPT !.pc = "done"]]
    BY <1>1
<1>6. /\ DOMAIN rest = DOMAIN request \cup DOMAIN Fresh
      /\ \A f \in DOMAIN request : rest[f] = request[f]
      /\ \A f \in DOMAIN Fresh : f \notin DOMAIN request => rest[f] = Fresh[f]
    BY WithFields
<1> HIDE DEF first, rest
<1>7. /\ IsRecord(call) /\ DOMAIN call = DOMAIN first \cup DOMAIN rest
      /\ \A f \in DOMAIN first : call[f] = first[f]
      /\ \A f \in DOMAIN rest : f \notin DOMAIN first => call[f] = rest[f]
    BY WithFields
<1> HIDE DEF call, Fresh
<1>8. /\ {"pc", "op", "route", "attempt", "outcome"} \subseteq DOMAIN call
      /\ call.op = request.op /\ call.route = request.op
    BY <1>3, <1>4, <1>6, <1>7
<1>9. call.outcome = [kind |-> None]
    <2>1. "outcome" \in DOMAIN Fresh /\ "outcome" \notin DOMAIN request BY <1>2, <1>4 DEF IsRequest
    <2>2. rest["outcome"] = [kind |-> None] /\ "outcome" \in DOMAIN rest BY <1>4, <1>6, <2>1
    <2>3. "outcome" \notin DOMAIN first BY <1>3
    <2> QED BY <1>7, <2>2, <2>3
<1>10. ASSUME NEW f \in DOMAIN request, f \notin {"op", "route", "pc", "attempt"}
       PROVE  f \in DOMAIN call /\ call[f] = request[f]
    BY <1>3, <1>6, <1>7, <1>10
<1>11. request.op = "market_abuse" => "request" \in DOMAIN call /\ call.request \in Requests
    <2>1. CASE request.op = "market_abuse"
        <3>1. "request" \in DOMAIN request /\ request.request \in Requests BY <1>2, <2>1 DEF IsRequest
        <3>2. "request" \in DOMAIN call /\ call["request"] = request["request"] BY <1>10, <3>1
        <3> QED BY <3>1, <3>2
    <2> QED BY <2>1
<1>12. request.op = "team" =>
          {"episode", "window"} \subseteq DOMAIN call /\ IsEpisode(call.episode) /\ IsWindow(call.window)
    <2>1. CASE request.op = "team"
        <3>1. /\ "episode" \in DOMAIN request /\ "window" \in DOMAIN request
              /\ IsEpisode(request.episode) /\ IsWindow(request.window)
            BY <1>2, <2>1 DEF IsRequest
        <3>2. "episode" \in DOMAIN call /\ call["episode"] = request["episode"] BY <1>10, <3>1
        <3>3. "window" \in DOMAIN call /\ call["window"] = request["window"] BY <1>10, <3>1
        <3> QED BY <3>1, <3>2, <3>3
    <2> QED BY <2>1
<1>13. /\ call.op \in DirectRoutes => DirectFits(call)
       /\ call.op \notin DirectRoutes => RouteFits(call)
    <2>1. request.op \in Routes \cup DirectRoutes BY <1>2 DEF IsRequest
    <2>2. "pc" \in DOMAIN first /\ call.pc = "posting" BY <1>3, <1>7
    <2> QED BY <1>8, <2>1, <2>2 DEF RouteFits, DirectFits
<1>14. [kind |-> None] \in Outcomes BY DEF Outcomes
<1>15. IsCall(call) BY <1>7, <1>8, <1>9, <1>11, <1>12, <1>13, <1>14 DEF IsCall
<1>16. request.op \notin DirectRoutes => IsCall([call EXCEPT !.pc = "done"])
    <2> SUFFICES ASSUME request.op \notin DirectRoutes PROVE IsCall([call EXCEPT !.pc = "done"]) OBVIOUS
    <2> DEFINE next == [call EXCEPT !.pc = "done"]
    <2>1. /\ IsRecord(next) /\ DOMAIN next = DOMAIN call
          /\ \A f \in DOMAIN call \ {"pc"} : next[f] = call[f]
        BY DEF IsRecord
    <2> HIDE DEF next
    <2>2. /\ next.op = call.op /\ next.route = call.route /\ next.outcome = call.outcome
          /\ "request" \in DOMAIN call => next.request = call.request
          /\ "episode" \in DOMAIN call => next.episode = call.episode
          /\ "window" \in DOMAIN call => next.window = call.window
        BY <1>8, <2>1
    <2>3. IsCall(next) BY <1>8, <1>9, <1>11, <1>12, <1>13, <1>14, <2>1, <2>2 DEF IsCall, RouteFits
    <2> QED BY <2>3 DEF next
<1>17. /\ calls'[c] = call \/ (request.op \notin DirectRoutes /\ calls'[c] = [call EXCEPT !.pc = "done"])
       /\ \A d \in Callers : d # c => calls'[d] = calls[d]
    BY <1>5 DEF CallsInv
<1>18. calls' = [d \in Callers |-> calls'[d]] BY <1>5 DEF CallsInv
<1> QED BY <1>15, <1>16, <1>17, <1>18 DEF CallsInv

\* One call changes at a time.
LEMMA OneCallChanges ==
    ASSUME CallsInv, NEW c \in Callers, NEW next, calls' = [calls EXCEPT ![c] = next], IsCall(next)
    PROVE  CallsInv'
<1>1. calls'[c] = next /\ \A d \in Callers : d # c => calls'[d] = calls[d] BY DEF CallsInv
<1>2. calls' = [d \in Callers |-> calls'[d]] BY DEF CallsInv
<1> QED BY <1>1, <1>2 DEF CallsInv

LEMMA GoesKeepsCalls ==
    ASSUME CallsInv, NEW c \in Callers, calls[c].pc \in {"writing", "uploading", "registering"}, NEW pc, Goes(c, pc)
    PROVE  CallsInv'
<1>1. PICK call : call = calls[c] OBVIOUS
<1>2. IsCall(call) /\ call.pc # "idle" /\ call.op \notin DirectRoutes BY <1>1 DEF CallsInv, IsCall, DirectFits
<1> DEFINE next == [call EXCEPT !.pc = pc]
<1>3. calls' = [calls EXCEPT ![c] = next] BY <1>1 DEF Goes, CallsInv
<1>4. /\ IsRecord(next) /\ DOMAIN next = DOMAIN call
      /\ \A f \in DOMAIN call \ {"pc"} : next[f] = call[f]
    BY DEF IsRecord
<1> HIDE DEF next
<1>5. next.outcome = call.outcome /\ next.route = call.route BY <1>2, <1>4 DEF IsCall
<1>6. IsCall(next) BY <1>2, <1>4, <1>5, CallChanges DEF IsCall
<1> QED BY <1>3, <1>6, OneCallChanges

LEMMA OutcomeKeepsCalls ==
    ASSUME CallsInv, NEW c \in Callers, calls[c].pc # "idle", NEW pc, NEW outcome \in Outcomes,
           calls[c].op \in DirectRoutes => pc = "done" /\ outcome \in ModelOutcomes,
           calls' = [calls EXCEPT ![c].pc = pc, ![c].outcome = outcome]
    PROVE  CallsInv'
<1>1. PICK call : call = calls[c] OBVIOUS
<1>2. IsCall(call) /\ call.pc # "idle" BY <1>1 DEF CallsInv
<1> DEFINE next == [call EXCEPT !.pc = pc, !.outcome = outcome]
<1>3. calls' = [calls EXCEPT ![c] = next] BY <1>1 DEF CallsInv
<1>4. /\ IsRecord(next) /\ DOMAIN next = DOMAIN call
      /\ \A f \in DOMAIN call \ {"pc", "outcome"} : next[f] = call[f]
    BY DEF IsRecord
<1>5. next.outcome = outcome /\ next.pc = pc BY <1>2 DEF IsCall
<1> HIDE DEF next
<1>6. next.route = call.route BY <1>2, <1>4 DEF IsCall
<1>7. call.op \in DirectRoutes => DirectFits(next)
    <2>1. next.op = call.op BY <1>2, <1>4 DEF IsCall
    <2> QED BY <1>1, <1>2, <1>5, <1>6, <2>1 DEF DirectFits, IsCall
<1>8. IsCall(next) BY <1>2, <1>4, <1>5, <1>6, <1>7, CallChanges
<1> QED BY <1>3, <1>8, OneCallChanges

LEMMA ResumeKeepsCalls ==
    ASSUME CallsInv, NEW c \in Callers, calls[c].pc \in {"writing", "uploading", "registering"}, Resume(c)
    PROVE  CallsInv'
<1>1. PICK call : call = calls[c] OBVIOUS
<1>2. IsCall(call) /\ call.pc # "idle" /\ call.op \notin DirectRoutes BY <1>1 DEF CallsInv, IsCall, DirectFits
<1>3. calls' = [calls EXCEPT ![c] = Resumed(call)] BY <1>1 DEF Resume, CallsInv
<1>4. ASSUME NEW pc PROVE IsCall([call EXCEPT !.pc = pc])
    <2> DEFINE next == [call EXCEPT !.pc = pc]
    <2>1. /\ IsRecord(next) /\ DOMAIN next = DOMAIN call
          /\ \A f \in DOMAIN call \ {"pc"} : next[f] = call[f]
        BY DEF IsRecord
    <2> HIDE DEF next
    <2>2. next.outcome = call.outcome /\ next.route = call.route BY <1>2, <2>1 DEF IsCall
    <2>3. IsCall(next) BY <1>2, <2>1, <2>2, CallChanges DEF IsCall
    <2> QED BY <2>3 DEF next
<1>5. CASE Resumed(call) = [call EXCEPT !.pc = "posting", !.route = NextRoute(call), !.attempt = @ + 1]
            /\ NextRoute(call) # None
    <2> DEFINE next == [call EXCEPT !.pc = "posting", !.route = NextRoute(call), !.attempt = @ + 1]
    <2>1. /\ IsRecord(next) /\ DOMAIN next = DOMAIN call
          /\ \A f \in DOMAIN call \ {"pc", "route", "attempt"} : next[f] = call[f]
        BY DEF IsRecord
    <2>2. next.route = NextRoute(call) BY <1>2 DEF IsCall
    <2> HIDE DEF next
    <2>3. next.outcome = call.outcome BY <1>2, <2>1 DEF IsCall
    <2>4. call.op = "market_abuse" /\ NextRoute(call) \in {"red_team", "alert"} BY <1>5 DEF NextRoute
    <2>5. IsCall(next) BY <1>2, <2>1, <2>2, <2>3, <2>4, CallChanges DEF IsCall
    <2>6. calls' = [calls EXCEPT ![c] = next] BY <1>3, <1>5 DEF next
    <2> QED BY <2>5, <2>6, OneCallChanges
<1>6. CASE \E pc : Resumed(call) = [call EXCEPT !.pc = pc] BY <1>3, <1>4, <1>6, OneCallChanges
<1>7. \/ Resumed(call) = [call EXCEPT !.pc = "done"]
      \/ Resumed(call) = [call EXCEPT !.pc = "raised"]
      \/ /\ Resumed(call) = [call EXCEPT !.pc = "posting", !.route = NextRoute(call), !.attempt = @ + 1]
         /\ NextRoute(call) # None
    BY DEF Resumed
<1> QED BY <1>5, <1>6, <1>7

\* A call keeps its request, and is on a route that its request may take.
LEMMA CallsKept == Init /\ [][Next]_vars => []CallsInv
<1>1. Init => CallsInv
    <2> SUFFICES ASSUME Init PROVE CallsInv OBVIOUS
    <2>1. calls = [c \in Callers |-> Fresh] BY DEF Init
    <2>2. IsRecord(Fresh) /\ DOMAIN Fresh = {"pc", "op", "route", "attempt", "outcome"}
          /\ Fresh.outcome \in Outcomes /\ Fresh.pc = "idle"
        BY DEF Fresh, IsRecord, Outcomes
    <2>3. IsCall(Fresh) BY <2>2 DEF IsCall
    <2> QED BY <2>1, <2>3 DEF CallsInv
<1>2. CallsInv /\ [Next]_vars => CallsInv'
    <2> SUFFICES ASSUME CallsInv, [Next]_vars PROVE CallsInv' OBVIOUS
    <2>1. ASSUME UNCHANGED calls PROVE CallsInv' BY <2>1 DEF CallsInv
    <2>2. ASSUME NEW c \in Callers, Begin(c) PROVE CallsInv' BY <2>2, BeginKeepsCalls
    <2>3. ASSUME NEW c \in Callers, Post(c) PROVE CallsInv'
        <3>1. PICK outcome \in OutcomesOf[c] : calls' = [calls EXCEPT ![c].pc = "writing", ![c].outcome = outcome]
            BY <2>3 DEF Post
        <3>2. outcome \in Outcomes BY NebiusCallsAssumption DEF Outcomes
        <3>3. calls[c].pc # "idle" /\ calls[c].op \notin DirectRoutes BY <2>3 DEF Post
        <3> QED BY <3>1, <3>2, <3>3, OutcomeKeepsCalls
    <2>4. ASSUME NEW c \in Callers, Direct(c) PROVE CallsInv'
        <3>1. PICK outcome \in OutcomesOf[c] \cap ModelOutcomes :
                  calls' = [calls EXCEPT ![c].pc = "done", ![c].outcome = outcome]
            BY <2>4 DEF Direct
        <3>2. outcome \in Outcomes BY NebiusCallsAssumption DEF Outcomes
        <3>3. calls[c].pc # "idle" BY <2>4 DEF Direct
        <3> QED BY <3>1, <3>2, <3>3, OutcomeKeepsCalls
    <2>5. ASSUME NEW c \in Callers, Write(c) PROVE CallsInv'
        BY <2>5, GoesKeepsCalls, ResumeKeepsCalls DEF Write
    <2>6. ASSUME NEW c \in Callers, Upload(c) PROVE CallsInv'
        BY <2>6, GoesKeepsCalls DEF Upload, UploadError
    <2>7. ASSUME NEW c \in Callers, Enter(c) PROVE CallsInv'
        BY <2>7, ResumeKeepsCalls DEF Enter
    <2>8. CASE UNCHANGED vars BY <2>1, <2>8 DEF vars
    <2> QED BY <2>1, <2>2, <2>3, <2>4, <2>5, <2>6, <2>7, <2>8 DEF Next, Step, StartSync, Synchronizes
<1> QED BY <1>1, <1>2, PTL

\* Whatever route was asked and whatever failed on the way, an answer reports the
\* model only if the model answered, in the asked shape but on the two direct routes,
\* and is the template's then only where the model left every string empty; any other
\* answer holds none of the model's words, and says why unless it came by the alert.
THEOREM AnswersTellTheirAuthor == Spec => []HonestProvenance
<1>1. CallsInv => HonestProvenance
    <2> SUFFICES ASSUME CallsInv, NEW c \in Callers, calls[c].pc = "done"
                 PROVE  Honest(calls[c], Answer(calls[c]))
        BY DEF HonestProvenance, Done
    <2>1. PICK call : call = calls[c] OBVIOUS
    <2>2. IsCall(call) /\ call.pc = "done" BY <2>1 DEF CallsInv
    <2>3. CASE call.op \in DirectRoutes
        <3>1. call.route = call.op /\ call.outcome \in ModelOutcomes BY <2>2, <2>3 DEF IsCall, DirectFits
        <3>2. Answer(call) = With([client |-> None], Answered(call, call.outcome)) BY <2>3 DEF Answer
        <3>3. Honest(call, With([client |-> None], Answered(call, call.outcome))) BY <2>3, <3>1, DirectIsHonest
        <3> QED BY <2>1, <3>2, <3>3
    <2>4. CASE call.op \notin DirectRoutes
        <3>0. RouteFits(call) BY <2>2, <2>4 DEF IsCall
        <3>1. CASE call.outcome \in ModelOutcomes
            <4>1. Answer(call) = ParsedAnswer(call, Answered(call, call.outcome)) BY <2>4, <3>1 DEF Answer
            <4>2. Honest(call, ParsedAnswer(call, Answered(call, call.outcome))) BY <3>0, <3>1, ParsedIsHonest
            <4> QED BY <2>1, <4>1, <4>2
        <3>2. CASE call.outcome \notin ModelOutcomes
            <4>1. call.outcome \in [kind : Errors] \cup {[kind |-> None]}
                BY <2>2, <3>2 DEF IsCall, Outcomes, PostOutcomes
            <4>2. None \notin Errors /\ None # "not configured" BY NebiusCallsAssumption DEF Words
            <4>3. call.outcome.kind \in Errors \cup {None} BY <4>1
            <4>4. Or(call.outcome.kind, "not configured") # None BY <4>2, <4>3 DEF Or
            <4>5. Answer(call) = Mock(call, Or(call.outcome.kind, "not configured")) BY <2>4, <3>2 DEF Answer
            <4>6. call.op \in Routes BY <3>0 DEF RouteFits
            <4>7. Honest(call, Mock(call, Or(call.outcome.kind, "not configured"))) BY <4>4, <4>6, MockIsHonest
            <4> QED BY <2>1, <4>5, <4>7
        <3> QED BY <3>1, <3>2
    <2> QED BY <2>3, <2>4
<1> QED BY <1>1, CallsKept, PTL DEF Spec

-----------------------------------------------------------------------------
(* The templates of the backend and those of the endpoint *)

\* The three events lie one after the other in the window, the window in the
\* duration, however short it is.
LEMMA EventsInWindow ==
    ASSUME NEW d \in 30 .. 600
    PROVE  /\ StartTick(d) = EventTick(d, 1) /\ EventTick(d, 1) < EventTick(d, 2) /\ EventTick(d, 2) < EventTick(d, 3)
           /\ EventTick(d, 3) <= EndTick(d) /\ EndTick(d) <= d
           /\ StartTick(d) \in Int /\ EndTick(d) \in Int
           /\ \A i \in 1 .. 3 : EventTick(d, i) \in Int
BY DEF EventTick, StartTick, EndTick, Clamp, Larger, Smaller

LEMMA SameTimes ==
    ASSUME NEW d
    PROVE  TemplateStart(d) = StartTick(d) /\ TemplateEnd(d) = EndTick(d)
BY DEF TemplateStart, TemplateEnd, StartTick, EndTick

\* The events of both copies, their prices left out, and the ids by which the truth names them.
LEMMA SameEvents ==
    ASSUME NEW req \in Requests
    PROVE  /\ Unpriced(TemplateEvents(req)) = Unpriced(EventsFor(req))
           /\ FirstTwo(TemplateEvents(req)) = FirstTwo(EventsFor(req))
           /\ \A events \in {EventsFor(req), TemplateEvents(req)} :
                 /\ Len(events) = 3 /\ DOMAIN events = 1 .. 3
                 /\ \A i \in 1 .. 3 : events[i].tick = EventTick(req.duration, i)
<1> DEFINE rows == Templates[req.type]
           side(i) == SideOf(req.type, rows[i][3])
           tick(i) == EventTick(req.duration, i)
           event(i, price) ==
               [id |-> <<tick(i), rows[i][1]>>, tick |-> tick(i), kind |-> rows[i][1],
                stage |-> rows[i][2], side |-> side(i), scenario |-> req.type, price |-> price]
           one == [i \in 1 .. 3 |-> Price(req, i, side(i))]
           other == [i \in 1 .. 3 |-> IF side(i) = None THEN None ELSE (i - 1) * 5]
<1>1. req.type \in Types BY DEF Requests
<1>2. DOMAIN rows = 1 .. 3 BY <1>1 DEF Templates, Types
<1>3. EventsFor(req) = [i \in 1 .. 3 |-> event(i, one[i])] BY <1>2 DEF EventsFor
<1>4. \A i \in 1 .. 3 : (one[i] = None <=> side(i) = None) /\ (other[i] = None <=> side(i) = None)
    <2>1. None \notin Int BY NebiusCallsAssumption
    <2>2. req.volatility \in {"low", "medium", "high"} BY DEF Requests, Volatilities
    <2>3. Spread[req.volatility] \in Int BY <2>2 DEF Spread
    <2> DEFINE n == Spread[req.volatility]
    <2>4. ASSUME NEW i \in 1 .. 3, NEW s, s # None PROVE Price(req, i, s) # None
        <3>1. i * n * (IF s = "sell" THEN 1 ELSE -1) \in Int BY <2>3
        <3> QED BY <2>1, <2>4, <3>1 DEF Price
    <2>5. \A i \in 1 .. 3 : Price(req, i, None) = None BY DEF Price
    <2>6. \A i \in 1 .. 3 : (i - 1) * 5 \in Int OBVIOUS
    <2> HIDE DEF side, n
    <2> QED BY <2>1, <2>4, <2>5, <2>6
<1> DEFINE own == IF req.type = "spoofing_like_wall" THEN "buy" ELSE "sell"
           copies == CASE req.type = "spoofing_like_wall" ->
                       << <<"place_order", "wall_placed", own>>, <<"cancel_order", "wall_cancelled", own>>,
                          <<"trade", "incident_confirmed", "sell">> >>
                  [] req.type = "layering_like" ->
                       << <<"place_order", "pressure_phase", own>>, <<"place_order", "pressure_phase", own>>,
                          <<"cancel_order", "cancelled", own>> >>
                  [] req.type = "liquidity_evaporation" ->
                       << <<"quote_update", "pressure_phase", None>>, <<"quote_update", "pressure_phase", None>>,
                          <<"quote_update", "incident_confirmed", None>> >>
                  [] req.type = "quote_stuffing" ->
                       << <<"place_order", "pressure_phase", own>>, <<"cancel_order", "cancelled", own>>,
                          <<"quote_update", "incident_confirmed", None>> >>
           copied(i, row) ==
               [id |-> <<tick(i), row[1]>>, tick |-> tick(i), kind |-> row[1], stage |-> row[2], side |-> row[3],
                scenario |-> req.type, price |-> IF row[3] = None THEN None ELSE (i - 1) * 5]
<1>5. DOMAIN copies = 1 .. 3 BY <1>1 DEF Types
<1>n. None # "own" /\ None # "other" BY NebiusCallsAssumption DEF Words
<1>6. \A i \in 1 .. 3 : copies[i][1] = rows[i][1] /\ copies[i][2] = rows[i][2] /\ copies[i][3] = SideOf(req.type, rows[i][3])
    <2>1. CASE req.type = "spoofing_like_wall" BY <1>n, <2>1 DEF Templates, SideOf
    <2>2. CASE req.type = "layering_like" BY <1>n, <2>2 DEF Templates, SideOf
    <2>3. CASE req.type = "quote_stuffing" BY <1>n, <2>3 DEF Templates, SideOf
    <2>4. CASE req.type = "liquidity_evaporation" BY <1>n, <2>4 DEF Templates, SideOf
    <2> QED BY <1>1, <2>1, <2>2, <2>3, <2>4 DEF Types
<1>7. TemplateEvents(req) = [i \in DOMAIN copies |-> copied(i, copies[i])]
    BY SameTimes DEF TemplateEvents, EventTick
<1> HIDE DEF copies, rows
<1>8. \A i \in 1 .. 3 : copied(i, copies[i]) = event(i, other[i]) BY <1>6
<1>9. TemplateEvents(req) = [i \in 1 .. 3 |-> event(i, other[i])] BY <1>5, <1>7, <1>8
<1> DEFINE bare == [i \in 1 .. 3 |-> event(i, IF side(i) = None THEN None ELSE 0)]
           ids == {<<tick(i), rows[i][1]>> : i \in {1, 2}}
<1>10. ASSUME NEW price, \A i \in 1 .. 3 : price[i] = None <=> side(i) = None,
              NEW events, events = [i \in 1 .. 3 |-> event(i, price[i])]
       PROVE  /\ Unpriced(events) = bare /\ FirstTwo(events) = ids
              /\ Len(events) = 3 /\ DOMAIN events = 1 .. 3 /\ \A i \in 1 .. 3 : events[i].tick = tick(i)
    <2>1. DOMAIN events = 1 .. 3 /\ \A i \in 1 .. 3 : events[i] = event(i, price[i]) BY <1>10
    <2>2. \A i \in 1 .. 3 : events[i].tick = tick(i) /\ events[i].id = <<tick(i), rows[i][1]>> BY <2>1
    <2>3. ASSUME NEW i \in 1 .. 3
          PROVE  [events[i] EXCEPT !.price = IF @ = None THEN None ELSE 0] = bare[i]
        <3> DEFINE p == price[i]
                   e == event(i, p)
        <3>1. e.price = p OBVIOUS
        <3>2. [e EXCEPT !.price = IF e.price = None THEN None ELSE 0] = event(i, IF p = None THEN None ELSE 0) BY <3>1
        <3>3. (IF p = None THEN None ELSE 0) = (IF side(i) = None THEN None ELSE 0) BY <1>10
        <3>4. events[i] = e BY <2>1
        <3> QED BY <3>2, <3>3, <3>4
    <2>4. Unpriced(events) = bare BY <2>1, <2>3 DEF Unpriced
    <2>5. FirstTwo(events) = ids
        <3>1. DOMAIN events \cap {1, 2} = {1, 2} BY <2>1
        <3> HIDE DEF tick, event
        <3> QED BY <2>2, <3>1 DEF FirstTwo
    <2>6. Len(events) = 3
        <3> HIDE DEF event
        <3>1. PICK x, y, z : x = events[1] /\ y = events[2] /\ z = events[3] OBVIOUS
        <3>2. events = [i \in 1 .. 3 |-> <<x, y, z>>[i]] BY <1>10, <3>1
        <3>3. <<x, y, z>> = [i \in 1 .. 3 |-> <<x, y, z>>[i]] /\ Len(<<x, y, z>>) = 3 OBVIOUS
        <3> QED BY <3>2, <3>3
    <2> QED BY <2>1, <2>2, <2>4, <2>5, <2>6
<1> HIDE DEF event, one, other, bare, ids, side
<1>11. /\ Unpriced(EventsFor(req)) = bare /\ FirstTwo(EventsFor(req)) = ids
       /\ Len(EventsFor(req)) = 3 /\ DOMAIN EventsFor(req) = 1 .. 3
       /\ \A i \in 1 .. 3 : EventsFor(req)[i].tick = tick(i)
    BY <1>3, <1>4, <1>10
<1>12. /\ Unpriced(TemplateEvents(req)) = bare /\ FirstTwo(TemplateEvents(req)) = ids
       /\ Len(TemplateEvents(req)) = 3 /\ DOMAIN TemplateEvents(req) = 1 .. 3
       /\ \A i \in 1 .. 3 : TemplateEvents(req)[i].tick = tick(i)
    BY <1>4, <1>9, <1>10
<1> QED BY <1>11, <1>12 DEF tick

LEMMA SameTruth ==
    ASSUME NEW req \in Requests
    PROVE  TemplateTruth(req) = GroundTruth(req) /\ TemplateBehaviour(req) = Behaviour(req)
<1>1. req.type \in Types /\ req.difficulty \in Difficulties /\ req.volatility \in Volatilities BY DEF Requests
<1>2. TemplateSignals(req.type) = Signals[req.type] BY <1>1 DEF TemplateSignals, Signals, Types
<1>3. FirstTwo(TemplateEvents(req)) = FirstTwo(EventsFor(req)) BY SameEvents
<1>4. TemplateTruth(req) = GroundTruth(req) BY <1>2, <1>3, SameTimes DEF TemplateTruth, GroundTruth
<1>5. TemplateRisk(req.difficulty, req.volatility) = Risk(req.difficulty, req.volatility)
    <2> DEFINE base == [easy |-> 52, medium |-> 68, hard |-> 82, adversarial |-> 91][req.difficulty]
               adjustment == [low |-> -4, medium |-> 0, high |-> 4][req.volatility]
    <2>1. base \in {52, 68, 82, 91}
          /\ base = CASE req.difficulty = "easy" -> 52 [] req.difficulty = "medium" -> 68
                      [] req.difficulty = "hard" -> 82 [] req.difficulty = "adversarial" -> 91
        BY <1>1 DEF Difficulties
    <2>2. adjustment \in {-4, 0, 4}
          /\ adjustment = CASE req.volatility = "low" -> -4 [] req.volatility = "medium" -> 0 [] req.volatility = "high" -> 4
        BY <1>1 DEF Volatilities
    <2>3. Risk(req.difficulty, req.volatility) = Clamp(0, 97, base + adjustment) BY DEF Risk
    <2>4. TemplateRisk(req.difficulty, req.volatility) = Larger(0, Smaller(97, base + adjustment))
        BY <2>1, <2>2 DEF TemplateRisk
    <2> QED BY <2>3, <2>4 DEF Clamp
<1>6. TemplateBehaviour(req) = Behaviour(req) BY <1>2, <1>5 DEF TemplateBehaviour, Behaviour, FalsePositives
<1> QED BY <1>4, <1>6

\* A scenario with the events of either copy lies in its window.
LEMMA MockInWindow ==
    ASSUME NEW req \in Requests, NEW reason, NEW a,
           a.truth = GroundTruth(req), a.events \in {EventsFor(req), TemplateEvents(req)}, a.behaviour = Behaviour(req),
           a.type = req.type, a.difficulty = req.difficulty, a.duration = req.duration
    PROVE  SameScenario(a, MockScenario(req, reason))
<1> DEFINE mock == MockScenario(req, reason)
<1>1. /\ mock.truth = GroundTruth(req) /\ mock.events = EventsFor(req) /\ mock.behaviour = Behaviour(req)
      /\ mock.type = req.type /\ mock.difficulty = req.difficulty /\ mock.duration = req.duration
    BY DEF MockScenario
<1> HIDE DEF mock
<1>e. Len(a.events) = Len(mock.events) /\ Unpriced(a.events) = Unpriced(mock.events) BY <1>1, SameEvents
<1>2. Projection(a) = Projection(mock) BY <1>1, <1>e DEF Projection
<1>3. a.truth.window[1] = StartTick(req.duration) /\ a.truth.window[2] = EndTick(req.duration) BY DEF GroundTruth
<1>4. req.duration \in 30 .. 600 BY DEF Requests
<1>5. DOMAIN a.events = 1 .. 3 /\ \A i \in 1 .. 3 : a.events[i].tick = EventTick(req.duration, i) BY SameEvents
<1>6. /\ StartTick(req.duration) = EventTick(req.duration, 1)
      /\ EventTick(req.duration, 1) < EventTick(req.duration, 2)
      /\ EventTick(req.duration, 2) < EventTick(req.duration, 3)
      /\ EventTick(req.duration, 3) <= EndTick(req.duration) /\ EndTick(req.duration) <= req.duration
      /\ StartTick(req.duration) \in Int /\ EndTick(req.duration) \in Int
      /\ \A i \in 1 .. 3 : EventTick(req.duration, i) \in Int
    BY <1>4, EventsInWindow
<1>7. a.truth.window[2] <= a.duration BY <1>3, <1>6
<1>8. ASSUME NEW i \in DOMAIN a.events
      PROVE  /\ a.truth.window[1] <= a.events[i].tick /\ a.events[i].tick <= a.truth.window[2]
             /\ i > 1 => a.events[i - 1].tick < a.events[i].tick
    <2>1. i \in {1, 2, 3} BY <1>5
    <2>2. CASE i = 1 BY <1>3, <1>5, <1>6, <2>2
    <2>3. CASE i = 2 BY <1>3, <1>5, <1>6, <2>3
    <2>4. CASE i = 3 BY <1>3, <1>5, <1>6, <2>4
    <2> QED BY <2>1, <2>2, <2>3, <2>4
<1>9. SameScenario(a, mock) BY <1>1, <1>e, <1>2, <1>7, <1>8 DEF SameScenario
<1> QED BY <1>9 DEF mock

\* What a scenario lacks is the mock's, and what it has is the template's.
LEMMA NormalizedIsSame ==
    ASSUME NEW req \in Requests, NEW response, NEW mode, NEW reason,
           response.type \in {None, req.type}, response.difficulty \in {None, req.difficulty},
           response.duration \in {None, req.duration},
           response.truth \in {None, GroundTruth(req)}, response.events \in {None, EventsFor(req), TemplateEvents(req)},
           response.behaviour \in {None, Behaviour(req)}
    PROVE  SameScenario(Normalized(response, req, mode, reason), MockScenario(req, "any"))
<1> DEFINE a == Normalized(response, req, mode, reason)
           fallback == MockScenario(req, Or(reason, "deterministic normalization fallback"))
           type == OneOf(response.type, Types, req.type)
           events == IF response.events \in {None, <<>>} THEN fallback.events ELSE response.events
<1>1. req.type \in Types /\ req.difficulty \in Difficulties /\ req.duration \in 30 .. 600 BY DEF Requests
<1>2. None \notin Types /\ None \notin Difficulties BY NebiusCallsAssumption DEF Words
<1>3. type = req.type BY <1>1, <1>2 DEF OneOf
<1>4. fallback.truth = GroundTruth(req) /\ fallback.events = EventsFor(req) /\ fallback.behaviour = Behaviour(req)
    BY DEF MockScenario
<1>5. events \in {EventsFor(req), TemplateEvents(req)} /\ FirstTwo(events) = FirstTwo(EventsFor(req)) BY <1>4, SameEvents
<1>6. /\ a.type = type /\ a.difficulty = OneOf(response.difficulty, Difficulties, req.difficulty)
      /\ a.duration = Clamp(30, 600, Or(response.duration, req.duration))
      /\ a.truth = TruthFrom(response.truth, fallback.truth, type, FirstTwo(events))
      /\ a.events = events /\ a.behaviour = Or(response.behaviour, fallback.behaviour)
    BY DEF Normalized
<1> HIDE DEF a, fallback, type, events
<1>7. a.difficulty = req.difficulty BY <1>1, <1>2, <1>6 DEF OneOf
<1>8. a.duration = req.duration
    <2>1. Or(response.duration, req.duration) = req.duration BY DEF Or
    <2>2. Clamp(30, 600, req.duration) = req.duration BY <1>1 DEF Clamp, Larger, Smaller
    <2> QED BY <1>6, <2>1, <2>2
<1>9. a.behaviour = Behaviour(req) BY <1>4, <1>6 DEF Or
<1>10. a.truth = GroundTruth(req)
    <2> DEFINE g == [label |-> req.type, window |-> <<StartTick(req.duration), EndTick(req.duration)>>,
                     targets |-> Signals[req.type], positives |-> FirstTwo(EventsFor(req))]
    <2>1. GroundTruth(req) = g BY DEF GroundTruth
    <2>2. a.truth = TruthFrom(response.truth, g, req.type, FirstTwo(EventsFor(req))) BY <1>3, <1>4, <1>5, <1>6, <2>1
    <2>3. response.truth \in {None, g} BY <2>1
    <2>4. TruthFrom(response.truth, g, req.type, FirstTwo(EventsFor(req))) = g
        <3>1. CASE response.truth = None BY <3>1 DEF TruthFrom
        <3>2. CASE response.truth # None /\ response.truth = g
            <4>1. PICK p : p = FirstTwo(EventsFor(req)) OBVIOUS
            <4>2. /\ g.positives = p /\ g.label = req.type
                  /\ DOMAIN g = {"label", "window", "targets", "positives"} /\ g = [f \in DOMAIN g |-> g[f]]
                BY <4>1
            <4>3. (IF g.positives = {} THEN p ELSE g.positives) = p BY <4>2
            <4>4. TruthFrom(g, g, req.type, p) = [g EXCEPT !.label = req.type, !.positives = p]
                BY <3>2, <4>3 DEF TruthFrom
            <4> HIDE DEF g
            <4>5. [g EXCEPT !.label = req.type, !.positives = p] = g BY <4>2
            <4> QED BY <3>2, <4>1, <4>4, <4>5
        <3> QED BY <2>3, <3>1, <3>2
    <2> QED BY <2>1, <2>2, <2>4
<1>11. SameScenario(a, MockScenario(req, "any"))
    BY <1>3, <1>5, <1>6, <1>7, <1>8, <1>9, <1>10, MockInWindow
<1> QED BY <1>11 DEF a

\* Whoever answers, by whatever route.
LEMMA ScenarioIsSame ==
    ASSUME NEW call, call.op = "market_abuse", RouteFits(call), call.request \in Requests
    PROVE  SameScenario(Answer(call), MockScenario(call.request, "any"))
<1>0. call.op \notin DirectRoutes BY DEF DirectRoutes
<1>1. CASE call.outcome \in ModelOutcomes
    <2> DEFINE answer == Answered(call, call.outcome)
               response == IF call.route = "market_abuse" THEN answer ELSE TextsOnly(answer)
               mode == IF response.source = "mock" \/ response.model = "deterministic_fallback" THEN "mock" ELSE "nebius"
               reason == IF call.route = "alert" THEN None ELSE response.reason
               req == call.request
    <2>1. Answer(call) = Normalized(response, req, mode, reason)
        BY <1>0, <1>1 DEF Answer, ParsedAnswer, ParsedScenario
    <2>2. /\ response.type \in {None, req.type} /\ response.difficulty \in {None, req.difficulty}
          /\ response.duration \in {None, req.duration}
          /\ response.truth \in {None, GroundTruth(req)}
          /\ response.events \in {None, EventsFor(req), TemplateEvents(req)}
          /\ response.behaviour \in {None, Behaviour(req)}
        <3>1. CASE call.route = "market_abuse"
            <4>1. answer = GenerateMarketAbuse(req, call.outcome) BY <3>1 DEF Answered
            <4>2. /\ answer.type = req.type /\ answer.difficulty = req.difficulty /\ answer.duration = req.duration
                  /\ answer.truth = TemplateTruth(req) /\ answer.events = TemplateEvents(req)
                  /\ answer.behaviour = TemplateBehaviour(req)
                BY <1>1, <4>1, AbuseTells
            <4>3. TemplateTruth(req) = GroundTruth(req) /\ TemplateBehaviour(req) = Behaviour(req) BY SameTruth
            <4> QED BY <3>1, <4>2, <4>3
        <3>2. CASE call.route # "market_abuse" BY <3>2 DEF TextsOnly
        <3> QED BY <3>1, <3>2
    <2> HIDE DEF response, mode, reason
    <2> QED BY <2>1, <2>2, NormalizedIsSame
<1>2. CASE call.outcome \notin ModelOutcomes
    <2> DEFINE a == MockScenario(call.request, Or(call.outcome.kind, "not configured"))
    <2>1. Answer(call) = a BY <1>0, <1>2 DEF Answer, Mock
    <2>2. /\ a.truth = GroundTruth(call.request) /\ a.events = EventsFor(call.request)
          /\ a.behaviour = Behaviour(call.request)
          /\ a.type = call.request.type /\ a.difficulty = call.request.difficulty /\ a.duration = call.request.duration
        BY DEF MockScenario
    <2> HIDE DEF a
    <2> QED BY <2>1, <2>2, MockInWindow
<1> QED BY <1>1, <1>2

-----------------------------------------------------------------------------
(* The risk of an incident *)

HasHighest(S) == \E x \in S : \A y \in S : y <= x

LEMMA LeastOf ==
    ASSUME NEW S \in SUBSET Nat, S # {}
    PROVE  \E n \in S : \A m \in S : n <= m
<1>1. IsWellFoundedOn(OpToRel(<, Nat), Nat) BY NatLessThanWellFounded
<1>2. PICK n \in S : \A m \in S : <<m, n>> \notin OpToRel(<, Nat) BY <1>1, WFMin
<1>3. \A m \in S : ~(m < n) BY <1>2 DEF OpToRel
<1> QED BY <1>3

\* The numbers of a sequence have a highest.
LEMMA SequenceHasHighest ==
    ASSUME NEW s, NEW length \in Nat \ {0}, \A i \in 1 .. length : s[i] \in Int
    PROVE  \E i \in 1 .. length : \A j \in 1 .. length : s[j] <= s[i]
<1> DEFINE Top(n) == \E i \in 1 .. n : \A j \in 1 .. n : s[j] <= s[i]
           without == {n \in 1 .. length : ~Top(n)}
<1>1. SUFFICES ASSUME ~Top(length) PROVE FALSE OBVIOUS
<1>2. PICK n \in without : \A m \in without : n <= m
    <2>1. length \in without /\ without \in SUBSET Nat BY <1>1
    <2> HIDE DEF without
    <2> QED BY <2>1, LeastOf
<1>3. n # 1
    <2>1. Top(1) OBVIOUS
    <2> QED BY <1>2, <2>1
<1>4. Top(n - 1)
    <2>1. n - 1 \in 1 .. length /\ ~(n <= n - 1) BY <1>2, <1>3
    <2>2. n - 1 \notin without BY <1>2, <2>1
    <2> QED BY <2>1, <2>2
<1>5. PICK i \in 1 .. n - 1 : \A j \in 1 .. n - 1 : s[j] <= s[i] BY <1>4
<1>6. s[i] \in Int /\ s[n] \in Int BY <1>2, <1>5
<1>7. CASE s[n] <= s[i]
    <2>1. \A j \in 1 .. n : s[j] <= s[i] BY <1>2, <1>5, <1>7
    <2> QED BY <1>2, <1>5, <2>1
<1>8. CASE ~(s[n] <= s[i])
    <2>1. \A j \in 1 .. n - 1 : s[j] \in Int BY <1>2
    <2>2. \A j \in 1 .. n : s[j] <= s[n] BY <1>2, <1>5, <1>6, <1>8, <2>1
    <2> QED BY <1>2, <2>2
<1> QED BY <1>7, <1>8

LEMMA HighestOfMore ==
    ASSUME NEW S \in SUBSET Int, HasHighest(S), NEW x \in Int
    PROVE  HasHighest(S \cup {x})
<1>1. PICK h \in S : \A y \in S : y <= h BY DEF HasHighest
<1>2. CASE x <= h BY <1>1, <1>2 DEF HasHighest
<1>3. CASE ~(x <= h)
    <2>1. \A y \in S : y <= x BY <1>1, <1>3
    <2> QED BY <2>1 DEF HasHighest
<1> QED BY <1>2, <1>3

LEMMA HighestIsOne ==
    ASSUME NEW S, HasHighest(S)
    PROVE  Highest(S) \in S
BY DEF Highest, HasHighest

\* The rows that trigger the model are one of the lists of the episode.
LEMMA TriggerRowsAreRows ==
    ASSUME NEW e, IsEpisode(e)
    PROVE  /\ TriggerRows(e) \in DetectorRows
           /\ \A i \in DOMAIN TriggerRows(e) : TriggerRows(e)[i].score \in Int
<1> DEFINE lists == e.detectors
           filled == {i \in DOMAIN lists : lists[i] # <<>>}
           row == [score : Int, class : STRING \cup {None}, alert : BOOLEAN \cup {None}]
<1>1. lists \in Seq(DetectorRows) BY DEF IsEpisode
<1>2. TriggerRows(e) \in DetectorRows
    <2>1. CASE filled = {}
        <3>1. TriggerRows(e) = <<>> BY <2>1 DEF TriggerRows, FirstFilled
        <3> QED BY <3>1 DEF DetectorRows
    <2>2. CASE filled # {}
        <3>1. filled \in SUBSET Nat BY <1>1
        <3>2. \E n \in filled : \A m \in filled : n <= m BY <2>2, <3>1, LeastOf
        <3>3. Lowest(filled) \in filled BY <3>2 DEF Lowest
        <3>4. TriggerRows(e) = lists[Lowest(filled)] BY <2>2 DEF TriggerRows, FirstFilled
        <3> HIDE DEF lists
        <3> QED BY <1>1, <3>3, <3>4
    <2> QED BY <2>1, <2>2
<1>3. TriggerRows(e) \in Seq(row) BY <1>2 DEF DetectorRows
<1> HIDE DEF row
<1>4. \A i \in DOMAIN TriggerRows(e) : TriggerRows(e)[i] \in row BY <1>3
<1>5. \A r \in row : r.score \in Int BY DEF row
<1> QED BY <1>2, <1>4, <1>5

\* What the highest of is taken: of two numbers, the rows' and the window's.
LEMMA RiskIsOfNumbers ==
    ASSUME NEW e, IsEpisode(e), NEW w, IsWindow(w)
    PROVE  Highest({4200, e.score} \cup {r.score : r \in RowSet(e)}
               \cup {Share(w.wall, 10), Share(w.cancelTrade, 12), Share(w.rate, 40), Share(w.depth, 1),
                     Share(w.imbalance, 1)}) \in Int
<1> DEFINE rows == TriggerRows(e)
           scores == {r.score : r \in RowSet(e)}
           own == {4200, e.score} \cup scores
           all == own \cup {Share(w.wall, 10), Share(w.cancelTrade, 12), Share(w.rate, 40), Share(w.depth, 1),
                            Share(w.imbalance, 1)}
<1>1. rows \in DetectorRows /\ \A i \in DOMAIN rows : rows[i].score \in Int BY TriggerRowsAreRows
<1>2. scores = {rows[i].score : i \in DOMAIN rows} BY DEF RowSet
<1>3. scores \in SUBSET Int BY <1>1, <1>2
<1>4. e.score \in Int BY DEF IsEpisode
<1>5. own \in SUBSET Int /\ HasHighest(own)
    <2>1. CASE rows = <<>>
        <3>1. own = {4200} \cup {e.score} BY <1>2, <2>1
        <3>2. HasHighest({4200}) BY DEF HasHighest
        <3> QED BY <1>4, <3>1, <3>2, HighestOfMore
    <2>2. CASE rows # <<>>
        <3>1. Len(rows) \in Nat \ {0} /\ DOMAIN rows = 1 .. Len(rows) BY <1>1, <2>2 DEF DetectorRows
        <3> DEFINE s == [i \in DOMAIN rows |-> rows[i].score]
        <3>2. \A i \in 1 .. Len(rows) : s[i] \in Int /\ s[i] = rows[i].score BY <1>1, <3>1
        <3> HIDE DEF s, rows, scores
        <3>3. PICK i \in 1 .. Len(rows) : \A j \in 1 .. Len(rows) : s[j] <= s[i]
            BY <3>1, <3>2, SequenceHasHighest
        <3>4. HasHighest(scores)
            <4>1. rows[i].score \in scores BY <1>2, <3>1, <3>3
            <4>2. \A y \in scores : y <= rows[i].score BY <1>2, <3>1, <3>2, <3>3
            <4> QED BY <4>1, <4>2 DEF HasHighest
        <3>5. HasHighest(scores \cup {4200}) BY <1>3, <3>4, HighestOfMore
        <3>6. scores \cup {4200} \in SUBSET Int BY <1>3
        <3>7. HasHighest((scores \cup {4200}) \cup {e.score}) BY <1>4, <3>5, <3>6, HighestOfMore
        <3>8. own = (scores \cup {4200}) \cup {e.score} OBVIOUS
        <3> HIDE DEF own
        <3>9. own \in SUBSET Int BY <1>4, <3>6, <3>8
        <3> QED BY <3>7, <3>8, <3>9
    <2> QED BY <2>1, <2>2
<1> HIDE DEF own
<1>6. /\ Share(w.wall, 10) \in Int /\ Share(w.cancelTrade, 12) \in Int /\ Share(w.rate, 40) \in Int
      /\ Share(w.depth, 1) \in Int /\ Share(w.imbalance, 1) \in Int
    BY DEF IsWindow, Share
<1>7. ASSUME NEW a \in Int, NEW b \in Int, NEW c \in Int, NEW d \in Int, NEW f \in Int
      PROVE  own \cup {a, b, c, d, f} \in SUBSET Int /\ HasHighest(own \cup {a, b, c, d, f})
    <2>1. HasHighest(own \cup {a}) /\ own \cup {a} \in SUBSET Int BY <1>5, HighestOfMore
    <2>2. HasHighest((own \cup {a}) \cup {b}) /\ (own \cup {a}) \cup {b} \in SUBSET Int BY <2>1, HighestOfMore
    <2>3. (own \cup {a}) \cup {b} = own \cup {a, b} OBVIOUS
    <2>4. HasHighest((own \cup {a, b}) \cup {c}) /\ (own \cup {a, b}) \cup {c} \in SUBSET Int
        BY <2>2, <2>3, HighestOfMore
    <2>5. (own \cup {a, b}) \cup {c} = own \cup {a, b, c} OBVIOUS
    <2>6. HasHighest((own \cup {a, b, c}) \cup {d}) /\ (own \cup {a, b, c}) \cup {d} \in SUBSET Int
        BY <2>4, <2>5, HighestOfMore
    <2>7. (own \cup {a, b, c}) \cup {d} = own \cup {a, b, c, d} OBVIOUS
    <2>8. HasHighest((own \cup {a, b, c, d}) \cup {f}) /\ (own \cup {a, b, c, d}) \cup {f} \in SUBSET Int
        BY <2>6, <2>7, HighestOfMore
    <2>9. (own \cup {a, b, c, d}) \cup {f} = own \cup {a, b, c, d, f} OBVIOUS
    <2> QED BY <2>8, <2>9
<1>8. all \in SUBSET Int /\ HasHighest(all) BY <1>6, <1>7
<1> HIDE DEF all
<1>9. Highest(all) \in Int BY <1>8, HighestIsOne
<1> QED BY <1>9 DEF all, own

\* Whoever reviews without a model finds the same risk.
LEMMA RiskIsSame ==
    ASSUME NEW call, call.op = "team", RouteFits(call), IsEpisode(call.episode), IsWindow(call.window)
    PROVE  SameRisk(call, Answer(call))
<1> DEFINE e == call.episode
           w == call.window
           h == Highest({4200, e.score} \cup {r.score : r \in RowSet(e)}
                    \cup {Share(w.wall, 10), Share(w.cancelTrade, 12), Share(w.rate, 40), Share(w.depth, 1),
                          Share(w.imbalance, 1)})
           a == Answer(call)
<1>0. call.op \notin DirectRoutes /\ call.route = "team" BY DEF DirectRoutes, RouteFits
<1>1. h \in Int BY RiskIsOfNumbers
<1>2. MockRisk(e, w) = Larger(500, Smaller(9900, h)) /\ InvestigationRisk(e, w) = Bounded(h)
    BY DEF MockRisk, InvestigationRisk
<1> HIDE DEF h, a
<1>m. None # "local_vllm" BY NebiusCallsAssumption DEF Words
<1>3. a.model # "local_vllm" => a.risk \in {MockRisk(e, w), Bounded(InvestigationRisk(e, w))}
    <2>1. CASE call.outcome \in ModelOutcomes
        <3> DEFINE answer == InvestigationTeam(e, w, call.outcome)
                   told == ParsedTeam(answer)
                   b == [client |-> "nebius"]
        <3>1. /\ Tells(answer, call.outcome) /\ DOMAIN answer = TeamFields \cup Provenance
              /\ answer.model = "deterministic_fallback" => answer.risk = InvestigationRisk(e, w)
            BY <2>1, TeamTells
        <3>2. a = With(b, told) BY <1>0, <2>1 DEF Answer, Answered, ParsedAnswer, a
        <3> HIDE DEF answer
        <3>3. /\ DOMAIN told = DOMAIN answer /\ told.model = answer.model /\ told.risk = Bounded(answer.risk)
            BY <3>1 DEF ParsedTeam, TeamFields, Provenance
        <3>4. DOMAIN b = {"client"} OBVIOUS
        <3> HIDE DEF told, b
        <3>5. \A f \in DOMAIN told : f \notin DOMAIN b => With(b, told)[f] = told[f] BY WithFields
        <3>6. "risk" \in DOMAIN told /\ "model" \in DOMAIN told BY <3>1, <3>3 DEF TeamFields, Provenance
        <3>7. a.risk = told.risk /\ a.model = told.model BY <3>2, <3>4, <3>5, <3>6
        <3>8. answer.model \in {"local_vllm", "deterministic_fallback"} BY <3>1 DEF Tells
        <3> QED BY <3>1, <3>3, <3>7, <3>8
    <2>2. CASE call.outcome \notin ModelOutcomes
        <3> DEFINE reason == Or(call.outcome.kind, "not configured")
                   confidence == Bounded(Highest(IF RowSet(e) = {} THEN {MockRisk(e, w)} ELSE {r.score : r \in RowSet(e)}))
                   d == [risk |-> MockRisk(e, w), confidence |-> confidence,
                         agents |-> << <<"OrderBookExpertAgent", Smaller(9600, MockRisk(e, w) + 400)>>,
                                       <<"TradePatternAgent", Larger(5500, confidence - 500)>>,
                                       <<"StatisticsAgent", MockRisk(e, w)>>, <<"ComplianceAgent", 8900>>,
                                       <<"LeadInvestigatorAgent", (MockRisk(e, w) + confidence) \div 2>> >>]
        <3>1. a = MockTeam(e, w, reason) BY <1>0, <2>2 DEF Answer, Mock, a
        <3>2. MockTeam(e, w, reason) = With(d, Mocked(reason)) BY DEF MockTeam
        <3>3. "risk" \in DOMAIN d /\ d["risk"] = MockRisk(e, w) OBVIOUS
        <3> HIDE DEF d
        <3>4. \A f \in DOMAIN d : With(d, Mocked(reason))[f] = d[f] BY WithFields
        <3> QED BY <3>1, <3>2, <3>3, <3>4
    <2> QED BY <2>1, <2>2
<1>4. \A r \in {MockRisk(e, w), Bounded(InvestigationRisk(e, w))} : MockRisk(e, w) = Larger(500, Smaller(9900, r))
    <2>1. Bounded(InvestigationRisk(e, w)) = Bounded(h)
        BY <1>1, <1>2 DEF Bounded, Clamp, Larger, Smaller, Unit
    <2>2. Larger(500, Smaller(9900, Bounded(h))) = Larger(500, Smaller(9900, h))
        BY <1>1 DEF Bounded, Clamp, Larger, Smaller, Unit
    <2>3. Larger(500, Smaller(9900, MockRisk(e, w))) = MockRisk(e, w)
        BY <1>1, <1>2 DEF Larger, Smaller
    <2> QED BY <1>2, <2>1, <2>2, <2>3
<1> QED BY <1>3, <1>4 DEF SameRisk, a

\* Whoever answers, the ground truth of a scenario and its events but for their
\* prices are the same, and so is the risk of an incident when no model reviewed it:
\* the handlers, the parsers and the mocks agree.
THEOREM TruthIsTheSameEverywhere == Spec => []SameTruthEverywhere
<1>1. CallsInv => SameTruthEverywhere
    <2> SUFFICES ASSUME CallsInv, NEW c \in Callers, Done(c)
                 PROVE  /\ calls[c].op = "team" => SameRisk(calls[c], Answer(calls[c]))
                        /\ calls[c].op = "market_abuse" =>
                              SameScenario(Answer(calls[c]), MockScenario(calls[c].request, "any"))
        BY DEF SameTruthEverywhere
    <2>1. PICK call : call = calls[c] OBVIOUS
    <2>2. IsCall(call) /\ call.pc # "idle" BY <2>1 DEF CallsInv, Done
    <2>3. ASSUME call.op = "team" PROVE SameRisk(call, Answer(call))
        <3>1. RouteFits(call) BY <2>2, <2>3 DEF IsCall, DirectRoutes
        <3> QED BY <2>2, <2>3, <3>1, RiskIsSame DEF IsCall
    <2>4. ASSUME call.op = "market_abuse" PROVE SameScenario(Answer(call), MockScenario(call.request, "any"))
        <3>1. RouteFits(call) BY <2>2, <2>4 DEF IsCall, DirectRoutes
        <3> QED BY <2>2, <2>4, <3>1, ScenarioIsSame DEF IsCall
    <2> QED BY <2>1, <2>3, <2>4
<1> QED BY <1>1, CallsKept, PTL DEF Spec

=============================================================================
