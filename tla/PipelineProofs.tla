--------------------------- MODULE PipelineProofs ---------------------------
(***************************************************************************)
(* Safety of the request pipeline, for any finite set of requests, any     *)
(* configurations applied at any moment and any answers of the providers.  *)
(***************************************************************************)
EXTENDS Pipeline, FiniteSetTheorems, FunctionTheorems, SequenceTheorems, TLAPS

-----------------------------------------------------------------------------
(* The inductive invariant.                                                *)

PCs == {"idle", "prepare", "pii", "plugins", "cache", "select", "call", "wait",
        "after", "guard", "insert", "stream", "closing", "embed", "done", "gone"}
Live == PCs \ {"idle", "done", "gone"}
Scanned == Live \ {"prepare", "pii", "embed"}
Streaming == {"stream", "closing"}

Fields == {"pc", "ask", "work", "scan", "sent", "order", "target", "reply",
           "error", "origin", "check", "shown", "status", "rec", "records"}
Accepts == {Accepted(a) : a \in Asked}
Owed(q) ==
  IF q.ask = None \/ q.ask.kind = "embed" THEN FALSE
  ELSE IF q.ask.body.stream THEN q.rec # None
  ELSE q.pc = "done" /\ ~(q.error \in {"not_found", "forbidden"} /\ q.scan # None)
Flow(q) ==
  /\ DOMAIN q = Fields
  /\ q.pc \in PCs
  /\ q.records \in {0, 1}
  /\ q.rec = None \/ q.rec \in Recorders
  /\ q.pc = "idle" => q.ask = None /\ q.rec = None /\ q.records = 0 /\ q.scan = None
  /\ q.pc \in Live => q.ask \in Accepts
  /\ q.pc = "embed" => q.ask.kind = "embed"
  /\ q.pc \in Scanned \cup {"pii"} => q.ask.kind # "embed"
  /\ q.pc \in Live \ Streaming => q.rec = None
  /\ q.pc \in Live \ (Streaming \cup {"insert"}) => q.records = 0
  /\ q.pc = "insert" => q.records = 1
  /\ q.pc \in {"cache", "after", "guard", "insert"} => ~q.ask.body.stream
  /\ q.pc \in Streaming => /\ q.ask.body.stream /\ q.rec \in Recorders
                           /\ q.records = IF q.rec.recorded THEN 1 ELSE 0
  /\ q.pc \in {"prepare", "pii"} => q.scan = None
  /\ q.pc \in Scanned => q.scan # None
  /\ q.pc \in {"done", "gone"} /\ Owed(q) => q.records = 1
  /\ q.pc = "done" /\ ~Owed(q) => q.records = 0

Withheld(scan, auth, body) ==
  LET s == Governing(scan.config, auth)
  IN  s.enabled /\ s.mode \in {"redact", "block"}
        /\ ~(s.fail_open /\ ScanFailed(s, scan.engine))
      => \A i \in DOMAIN body.slots :
           /\ body.slots[i].role \in s.apply_to
           /\ body.slots[i].kind = "text" \/ s.scan_tool_arguments
           => Personal(s, body.slots[i].text) = {}
Shows(check, auth, shown) ==
  LET s == Governing(check.config, auth)
  IN  s.enabled /\ s.response_mode \in {"redact", "block"}
        /\ check.engine # "panic"
        /\ ~(s.fail_open /\ ScanFailed(s, check.engine))
      => Personal(s, shown) = {}
Clean(q) ==
  /\ q.pc \in {"prepare", "pii"} => q.work = q.ask.body /\ q.work # None
  /\ q.pc \in Scanned => Withheld(q.scan, q.ask.auth, q.work)
  /\ q.sent # None => q.pc \in Scanned /\ q.sent = q.work
  /\ q.pc \in Live \ {"insert"} \/ q.pc = "idle" => q.check = None
  /\ q.pc \in {"idle"} \cup (Live \ Streaming) => q.shown = {}
  /\ q.pc = "insert" => Shows(q.check, q.ask.auth, ExtractResponseText(q.reply.choices))
  /\ q.check # None /\ q.shown # {} => Shows(q.check, q.ask.auth, q.shown)

Good(q) == Flow(q) /\ Clean(q)

(* The configurations in force, and the requests with the clock of the     *)
(* usage records.                                                          *)
Normals == {ApplyDeprecations(c) : c \in Configs}

PipelineInv ==
  /\ config \in Normals
  /\ tick \in Nat
  /\ DOMAIN req = Requests
  /\ \A r \in Requests : Good(req[r])

-----------------------------------------------------------------------------
(* How a step changes a request.                                           *)

(* The fields of a request that changed.                                   *)
LEMMA ChangedFields ==
  ASSUME NEW q, DOMAIN q = Fields, NEW change
  PROVE  /\ DOMAIN Changed(q, change) = Fields
         /\ Changed(q, change).pc =
              IF "pc" \in DOMAIN change THEN change.pc ELSE q.pc
         /\ Changed(q, change).ask =
              IF "ask" \in DOMAIN change THEN change.ask ELSE q.ask
         /\ Changed(q, change).work =
              IF "work" \in DOMAIN change THEN change.work ELSE q.work
         /\ Changed(q, change).scan =
              IF "scan" \in DOMAIN change THEN change.scan ELSE q.scan
         /\ Changed(q, change).sent =
              IF "sent" \in DOMAIN change THEN change.sent ELSE q.sent
         /\ Changed(q, change).reply =
              IF "reply" \in DOMAIN change THEN change.reply ELSE q.reply
         /\ Changed(q, change).error =
              IF "error" \in DOMAIN change THEN change.error ELSE q.error
         /\ Changed(q, change).check =
              IF "check" \in DOMAIN change THEN change.check ELSE q.check
         /\ Changed(q, change).shown =
              IF "shown" \in DOMAIN change THEN change.shown ELSE q.shown
         /\ Changed(q, change).rec =
              IF "rec" \in DOMAIN change THEN change.rec ELSE q.rec
         /\ Changed(q, change).records =
              IF "records" \in DOMAIN change THEN change.records ELSE q.records
  BY DEF Changed, Fields

(* The fields of a request whose handler returned.                         *)
LEMMA EndedFields ==
  ASSUME NEW q
  PROVE  /\ DOMAIN Ended(q) = Fields
         /\ Ended(q).pc = "done" /\ Ended(q).ask = q.ask
         /\ Ended(q).rec = q.rec /\ Ended(q).records = q.records
         /\ Ended(q).work = None /\ Ended(q).scan = None /\ Ended(q).sent = None
         /\ Ended(q).reply = None /\ Ended(q).error = None
         /\ Ended(q).check = None /\ Ended(q).shown = {}
  BY DEF Ended, Start, Fields

(* A step of one request leaves the others alone.                          *)
LEMMA OneRequest ==
  ASSUME PipelineInv, NEW r \in Requests, NEW x, Good(x),
         req' = [req EXCEPT ![r] = x]
  PROVE  DOMAIN req' = Requests /\ \A p \in Requests : Good(req'[p])
  BY DEF PipelineInv

(* What goes on.                                                           *)
LEMMA GoesOn ==
  ASSUME PipelineInv, NEW r \in Requests, NEW change, Goes(r, change)
  PROVE  req' = [req EXCEPT ![r] = Changed(req[r], change)]
  BY DEF Goes

(* What returns.                                                           *)
LEMMA Returns ==
  ASSUME PipelineInv, NEW r \in Requests, NEW change, Ends(r, change)
  PROVE  req' = [req EXCEPT ![r] = Changed(Ended(req[r]), change)]
  BY DEF Ends

(* An accepted request is a value.                                         *)
LEMMA AcceptedAsk ==
  ASSUME NEW a \in Asked
  PROVE  Accepted(a) \in Accepts /\ Accepted(a) # None
  BY OptionAssumption DEF Accepts

(* So is that of a request under way.                                      *)
LEMMA LiveAsk ==
  ASSUME NEW q, Flow(q), q.pc \in Live
  PROVE  q.ask \in Accepts /\ q.ask # None
  BY AcceptedAsk DEF Flow, Accepts


-----------------------------------------------------------------------------
(* The guardrails.                                                         *)

(* The first failed verdict of four is one of them.                        *)
LEMMA FirstOfFour ==
  ASSUME NEW a, NEW b, NEW c, NEW d
  PROVE  /\ FirstError(<<a, b, c, d>>) \in {Ok, a, b, c, d}
         /\ FirstError(<<a, b, c, d>>) = Ok => c = Ok
<1>1. PICK v, F : v = <<a, b, c, d>> /\ F = {i \in DOMAIN v : v[i] # Ok}
  OBVIOUS
<1>2. F \subseteq {1, 2, 3, 4} /\ \A i \in F : v[i] \in {a, b, c, d}
  BY <1>1
<1>3. F # {} => \E x \in F : \A y \in F : x <= y
  <2>1. CASE 1 \in F
    BY <1>2, <2>1
  <2>2. CASE 1 \notin F /\ 2 \in F
    BY <1>2, <2>2
  <2>3. CASE 1 \notin F /\ 2 \notin F /\ 3 \in F
    BY <1>2, <2>3
  <2>4. CASE 1 \notin F /\ 2 \notin F /\ 3 \notin F
    <3>1. F \subseteq {4}
      BY <1>2, <2>4
    <3>2. F # {} => 4 \in F
      BY <3>1
    <3> QED
      BY <3>1, <3>2
  <2> QED
    BY <2>1, <2>2, <2>3, <2>4
<1>4. F # {} => Least(F) \in F
  BY <1>3 DEF Least
<1>5. FirstError(v) = IF F = {} THEN Ok ELSE v[Least(F)]
  BY <1>1 DEF FirstError
<1>6. FirstError(v) \in {Ok, a, b, c, d}
  BY <1>2, <1>4, <1>5
<1>7. FirstError(v) = Ok => c = Ok
  <2>1. c # Ok => 3 \in F
    BY <1>1
  <2>2. F # {} => v[Least(F)] # Ok
    BY <1>1, <1>4
  <2> QED
    BY <1>5, <2>1, <2>2
<1> QED
  BY <1>1, <1>6, <1>7

(* A shimmed section is the one that was meant.                            *)
LEMMA ShimMeans ==
  ASSUME NEW g, "pii" \in DOMAIN g
  PROVE  Meant(Shim(g, DefaultSection)) = Shim(g, DefaultSection).pii
<1>1. PICK b : b = [DefaultSection EXCEPT !.enabled = TRUE, !.mode = "block"] /\ b # None
  BY OptionAssumption, Zenon
<1>2. CASE /\ g.enabled /\ g.content_filter # None
           /\ g.content_filter.enabled /\ g.content_filter.block_pii
           /\ g.pii = None
  <2>1. Shim(g, DefaultSection) = [g EXCEPT !.pii = b]
    BY <1>1, <1>2, Zenon DEF Shim
  <2>2. Shim(g, DefaultSection).pii = b
    BY <2>1
  <2> QED
    BY <1>1, <2>2 DEF Meant
<1>3. CASE ~(/\ g.enabled /\ g.content_filter # None
             /\ g.content_filter.enabled /\ g.content_filter.block_pii
             /\ g.pii = None)
  <2>1. Shim(g, DefaultSection) = g
    BY <1>3, Zenon DEF Shim
  <2> QED
    BY <1>3, <2>1, Zenon DEF Meant
<1> QED
  BY <1>2, <1>3

(* So it is in every scope of a configuration in force.                    *)
LEMMA NormalScopes ==
  ASSUME NEW c \in Normals
  PROVE  \A o \in DOMAIN c.orgs :
           /\ Meant(c.orgs[o].guardrails) = c.orgs[o].guardrails.pii
           /\ \A t \in DOMAIN c.orgs[o].teams :
                Meant(c.orgs[o].teams[t].guardrails) = c.orgs[o].teams[t].guardrails.pii
<1>1. PICK d \in Configs : c = ApplyDeprecations(d)
  BY DEF Normals
<1>2. c.orgs = [o \in DOMAIN d.orgs |-> ShimmedOrg(d.orgs[o])]
  BY <1>1, ConfigsAssumption DEF ApplyDeprecations
<1>3. ASSUME NEW s, HasGuardrails(s)
      PROVE  /\ DOMAIN Shimmed(s) = DOMAIN s
             /\ Shimmed(s).guardrails = Shim(s.guardrails, DefaultSection)
             /\ \A f \in DOMAIN s : f # "guardrails" => Shimmed(s)[f] = s[f]
             /\ Meant(Shimmed(s).guardrails) = Shimmed(s).guardrails.pii
  <2>1. Shimmed(s).guardrails = Shim(s.guardrails, DefaultSection)
    BY <1>3 DEF Shimmed, HasGuardrails
  <2>2. "pii" \in DOMAIN s.guardrails
    BY <1>3 DEF HasGuardrails
  <2>3. Meant(Shim(s.guardrails, DefaultSection)) = Shim(s.guardrails, DefaultSection).pii
    BY <2>2, ShimMeans
  <2> QED
    BY <2>1, <2>3 DEF Shimmed
<1> SUFFICES ASSUME NEW o \in DOMAIN c.orgs
             PROVE  /\ Meant(c.orgs[o].guardrails) = c.orgs[o].guardrails.pii
                    /\ \A t \in DOMAIN c.orgs[o].teams :
                         Meant(c.orgs[o].teams[t].guardrails)
                           = c.orgs[o].teams[t].guardrails.pii
  OBVIOUS
<1>4. PICK org, new : org = d.orgs[o] /\ new = c.orgs[o] /\ new = ShimmedOrg(org)
  BY <1>2
<1>5. /\ HasGuardrails(org) /\ "teams" \in DOMAIN org
      /\ \A t \in DOMAIN org.teams : HasGuardrails(org.teams[t])
  BY <1>2, <1>4, ConfigsAssumption
<1>6. /\ new.guardrails = Shimmed(org).guardrails
      /\ new.teams = [t \in DOMAIN org.teams |-> Shimmed(org.teams[t])]
  <2>1. PICK sh : sh = Shimmed(org)
    OBVIOUS
  <2>2. DOMAIN sh = DOMAIN org /\ sh.teams = org.teams /\ "guardrails" \in DOMAIN org
    BY <1>3, <1>5, <2>1 DEF HasGuardrails
  <2>3. new = [sh EXCEPT !.teams = [t \in DOMAIN @ |-> Shimmed(@[t])]]
    BY <1>4, <2>1 DEF ShimmedOrg
  <2> QED
    BY <1>5, <2>1, <2>2, <2>3
<1> QED
  BY <1>3, <1>4, <1>5, <1>6

(* scoped_pii_section is the section of the team, else of its organisation.*)
LEMMA ScopedSection ==
  ASSUME NEW c, NEW org, NEW team, NEW of_team, NEW of_org,
         of_team = IF org \in DOMAIN c.orgs /\ team \in DOMAIN c.orgs[org].teams
                   THEN c.orgs[org].teams[team].guardrails.pii ELSE None,
         of_org = IF org \in DOMAIN c.orgs THEN c.orgs[org].guardrails.pii ELSE None
  PROVE  ScopedPiiSection(c, org, team) = IF of_team # None THEN of_team ELSE of_org
<1>1. PICK chain, present :
        /\ chain = Scopes(c.orgs, org, team)
        /\ present = {i \in DOMAIN chain : chain[i].guardrails.pii # None}
  OBVIOUS
<1>2. ScopedPiiSection(c, org, team) =
        IF present = {} THEN None
        ELSE chain[CHOOSE i \in present : \A j \in present : j <= i].guardrails.pii
  BY <1>1 DEF ScopedPiiSection
<1>3. CASE org \notin DOMAIN c.orgs
  <2>1. chain = << >>
    BY <1>1, <1>3 DEF Scopes
  <2>2. present = {}
    BY <1>1, <2>1
  <2> QED
    BY <1>2, <1>3, <2>2
<1>4. CASE org \in DOMAIN c.orgs /\ team \notin DOMAIN c.orgs[org].teams
  <2>1. PICK a : a = ScopeRecord("org", c.orgs[org])
    OBVIOUS
  <2>2. /\ DOMAIN chain = {1} /\ chain[1] = a
        /\ a.guardrails = c.orgs[org].guardrails
    <3>1. chain = <<a>> \o << >>
      BY <1>1, <1>4, <2>1 DEF Scopes
    <3>2. <<a>> \in Seq({a}) /\ << >> \in Seq({a}) /\ 1..1 = {1}
      OBVIOUS
    <3> QED
      BY <2>1, <3>1, <3>2, ConcatProperties DEF ScopeRecord
  <2>3. present = IF of_org # None THEN {1} ELSE {}
    BY <1>1, <1>4, <2>2
  <2>4. of_team = None
    BY <1>4
  <2>5. CASE of_org = None
    BY <1>2, <2>3, <2>4, <2>5
  <2>6. CASE of_org # None
    <3>1. (CHOOSE i \in present : \A j \in present : j <= i) = 1
      BY <2>3, <2>6
    <3> QED
      BY <1>2, <1>4, <2>2, <2>3, <2>4, <2>6, <3>1
  <2> QED
    BY <2>5, <2>6
<1>5. CASE org \in DOMAIN c.orgs /\ team \in DOMAIN c.orgs[org].teams
  <2>1. PICK a, b : /\ a = ScopeRecord("org", c.orgs[org])
                    /\ b = ScopeRecord("team", c.orgs[org].teams[team])
    OBVIOUS
  <2>2. /\ chain = <<a>> \o <<b>>
        /\ a.guardrails = c.orgs[org].guardrails
        /\ b.guardrails = c.orgs[org].teams[team].guardrails
    BY <1>1, <1>5, <2>1 DEF Scopes, ScopeRecord
  <2>3. DOMAIN chain = {1, 2} /\ chain[1] = a /\ chain[2] = b
    <3>1. <<a>> \in Seq({a, b}) /\ <<b>> \in Seq({a, b}) /\ 1..2 = {1, 2}
      OBVIOUS
    <3> QED
      BY <2>2, <3>1, ConcatProperties
  <2>4. /\ DOMAIN chain = {1, 2} /\ chain[1].guardrails.pii = of_org
        /\ chain[2].guardrails.pii = of_team
    BY <1>5, <2>2, <2>3
  <2>5. CASE of_team # None
    <3>1. 2 \in present /\ \A j \in present : j <= 2
      BY <1>1, <2>4, <2>5
    <3>2. (CHOOSE i \in present : \A j \in present : j <= i) = 2
      <4>1. present \subseteq {1, 2}
        BY <1>1, <2>4
      <4>2. PICK x : x = CHOOSE i \in present : \A j \in present : j <= i
        OBVIOUS
      <4>3. x \in present /\ \A j \in present : j <= x
        BY <3>1, <4>2
      <4> QED
        BY <3>1, <4>1, <4>2, <4>3
    <3> QED
      BY <1>2, <2>4, <2>5, <3>1, <3>2
  <2>6. CASE of_team = None
    <3>1. present = IF of_org # None THEN {1} ELSE {}
      BY <1>1, <2>4, <2>6
    <3>2. CASE of_org = None
      BY <1>2, <2>6, <3>1, <3>2
    <3>3. CASE of_org # None
      <4>1. (CHOOSE i \in present : \A j \in present : j <= i) = 1
        BY <3>1, <3>3
      <4> QED
        BY <1>2, <2>4, <2>6, <3>1, <3>3, <4>1
    <3> QED
      BY <3>2, <3>3
  <2> QED
    BY <2>5, <2>6
<1> QED
  BY <1>3, <1>4, <1>5

(* The section in force governs: the deprecations are normalised before    *)
(* any request looks.                                                      *)
LEMMA GoverningSection ==
  ASSUME NEW c \in Normals, NEW auth, NEW section,
         section = ScopedPiiSection(c, auth.org, auth.team)
  PROVE  /\ Governing(c, auth) = IF section # None THEN section
                                 ELSE IF c.pii.enabled THEN c.pii ELSE EnvSection
         /\ section # None => section \in Sections
         /\ c.pii \in Sections
<1>1. PICK org, team : org = auth.org /\ team = auth.team
  OBVIOUS
<1>2. PICK of_team, of_org :
        /\ of_team = IF org \in DOMAIN c.orgs /\ team \in DOMAIN c.orgs[org].teams
                     THEN c.orgs[org].teams[team].guardrails.pii ELSE None
        /\ of_org = IF org \in DOMAIN c.orgs THEN c.orgs[org].guardrails.pii ELSE None
  OBVIOUS
<1>3. section = IF of_team # None THEN of_team ELSE of_org
  BY <1>1, <1>2, ScopedSection
<1>4. /\ of_team = IF org \in DOMAIN c.orgs /\ team \in DOMAIN c.orgs[org].teams
                   THEN Meant(c.orgs[org].teams[team].guardrails) ELSE None
      /\ of_org = IF org \in DOMAIN c.orgs THEN Meant(c.orgs[org].guardrails) ELSE None
  BY <1>2, NormalScopes
<1>5. Governing(c, auth) = IF section # None THEN section
                           ELSE IF c.pii.enabled THEN c.pii ELSE EnvSection
  BY <1>1, <1>3, <1>4 DEF Governing
<1>6. c.pii \in Sections
  BY DEF Sections, Normals
<1>7. section # None => section \in Sections
  <2>1. PICK normal, orgs, teams :
          /\ normal = Normals
          /\ orgs = UNION {{d.orgs[o] : o \in DOMAIN d.orgs} : d \in normal}
          /\ teams = UNION {{s.teams[t] : t \in DOMAIN s.teams} : s \in orgs}
          /\ Sections = {d.pii : d \in normal} \cup {s.guardrails.pii : s \in orgs \cup teams}
    BY DEF Sections, Normals
  <2>2. ASSUME org \in DOMAIN c.orgs PROVE c.orgs[org] \in orgs
    BY <2>1, <2>2
  <2>3. ASSUME org \in DOMAIN c.orgs, team \in DOMAIN c.orgs[org].teams
        PROVE  c.orgs[org].teams[team] \in teams
    BY <2>1, <2>2, <2>3
  <2>4. section # None =>
          \/ org \in DOMAIN c.orgs /\ section = c.orgs[org].guardrails.pii
          \/ /\ org \in DOMAIN c.orgs /\ team \in DOMAIN c.orgs[org].teams
             /\ section = c.orgs[org].teams[team].guardrails.pii
    BY <1>2, <1>3
  <2> QED
    BY <2>1, <2>2, <2>3, <2>4
<1> QED
  BY <1>5, <1>6, <1>7

(* Settings that do at least what a section wants in a mode.               *)
Does(settings, s, mode) ==
  /\ settings # None
  /\ settings.mode = mode
  /\ settings.fail_open = s.fail_open
  /\ settings.scan_tool_arguments = s.scan_tool_arguments
  /\ settings.strategy = "encrypt" => s.strategy = "encrypt"
  /\ ParseRoles(s.apply_to) \subseteq settings.apply_to
  /\ \A text : Personal(s, text) \subseteq Filtered(text, settings)

(* from_config does what its section wants, for requests and responses.    *)
LEMMA SectionDoes ==
  ASSUME NEW s \in Sections, s # None
  PROVE  /\ Does(RequestSettings(s), s, s.mode)
         /\ Does(ResponseSettings(s), s, s.response_mode)
<1>1. RequestSettings(s) # None /\ ResponseSettings(s) # None
  BY OptionAssumption, Zenon
<1>2. ASSUME NEW opts, opts \in {RequestSettings(s), ResponseSettings(s)}
      PROVE  /\ opts.fail_open = s.fail_open
             /\ opts.scan_tool_arguments = s.scan_tool_arguments
             /\ opts.strategy = s.strategy
             /\ opts.apply_to = ParseRoles(s.apply_to)
             /\ opts.min_confidence = s.min_confidence
             /\ opts.entities = IF s.entities = None THEN None ELSE Upper(s.entities)
  BY <1>2 DEF RequestSettings, ResponseSettings
<1>3. RequestSettings(s).mode = s.mode /\ ResponseSettings(s).mode = s.response_mode
  BY DEF RequestSettings, ResponseSettings
<1>4. ASSUME NEW opts, opts \in {RequestSettings(s), ResponseSettings(s)}, NEW text
      PROVE  Personal(s, text) \subseteq Filtered(text, opts)
  BY <1>2, <1>4 DEF Personal, Filtered
<1> QED
  BY <1>1, <1>2, <1>3, <1>4 DEF Does

(* So do the settings of the environment.                                  *)
LEMMA EnvDoes ==
  ASSUME NEW mode, EnvOptions(PiiEnv, mode) # None
  PROVE  Does(EnvOptions(PiiEnv, mode), EnvSection, mode)
<1>1. PICK opts, s : opts = EnvOptions(PiiEnv, mode) /\ s = EnvSection
  OBVIOUS
<1>2. /\ opts.mode = mode /\ opts.fail_open = s.fail_open
      /\ opts.scan_tool_arguments = s.scan_tool_arguments
      /\ opts.strategy = "encrypt" => s.strategy = "encrypt"
      /\ opts.apply_to = s.apply_to /\ opts.min_confidence = s.min_confidence
      /\ opts.entities = IF s.entities \in {None, {}} THEN None ELSE Upper(s.entities)
  BY <1>1 DEF EnvOptions, EnvSection
<1>3. ASSUME NEW text PROVE Personal(s, text) \subseteq Filtered(text, opts)
  BY <1>2 DEF Personal, Filtered, Upper
<1> QED
  BY <1>1, <1>2, <1>3 DEF Does, ParseRoles

(* The global section is always there.                                     *)
LEMMA GlobalSection ==
  ASSUME NEW c \in Normals
  PROVE  c.pii # None
<1>1. PICK d \in Configs : c = ApplyDeprecations(d)
  BY DEF Normals
<1>2. c.pii = d.pii
  BY <1>1, ConfigsAssumption DEF ApplyDeprecations
<1> QED
  BY <1>2, OptionAssumption

(* effective_settings of the request plugin.                               *)
LEMMA RequestDoes ==
  ASSUME NEW c \in Normals, NEW auth, NEW s, s = Governing(c, auth),
         s.enabled, s.mode \in {"redact", "block"}
  PROVE  Does(EffectiveSettings(c, PiiEnv, auth.org, auth.team), s, s.mode)
<1>1. PICK section : section = ScopedPiiSection(c, auth.org, auth.team)
  OBVIOUS
<1>2. /\ s = IF section # None THEN section
             ELSE IF c.pii.enabled THEN c.pii ELSE EnvSection
      /\ section # None => section \in Sections
      /\ c.pii \in Sections
  BY <1>1, GoverningSection
<1>3. EffectiveSettings(c, PiiEnv, auth.org, auth.team) =
        IF section # None
        THEN IF section.enabled THEN RequestSettings(section) ELSE None
        ELSE IF c.pii.enabled THEN RequestSettings(c.pii) ELSE EnvDefaults(PiiEnv)
  BY <1>1 DEF EffectiveSettings
<1>4. CASE section # None
  BY <1>2, <1>3, <1>4, SectionDoes
<1>5. CASE section = None /\ c.pii.enabled
  <2>1. c.pii # None
    BY GlobalSection
  <2> QED
    BY <1>2, <1>3, <1>5, <2>1, SectionDoes
<1>6. CASE section = None /\ ~c.pii.enabled
  <2>1. s = EnvSection /\ s.mode = PiiEnv.mode
    BY <1>2, <1>6 DEF EnvSection
  <2>2. EffectiveSettings(c, PiiEnv, auth.org, auth.team) = EnvOptions(PiiEnv, PiiEnv.mode)
    BY <1>3, <1>6, <2>1 DEF EnvDefaults, PiiModes
  <2>3. EnvOptions(PiiEnv, PiiEnv.mode) # None
    BY OptionAssumption, Zenon
  <2> QED
    BY <2>1, <2>2, <2>3, EnvDoes
<1> QED
  BY <1>4, <1>5, <1>6

(* effective_settings of the response guardrail.                           *)
LEMMA ResponseDoes ==
  ASSUME NEW c \in Normals, NEW auth, NEW s, s = Governing(c, auth),
         s.enabled, s.response_mode \in {"redact", "block"}
  PROVE  Does(EffectiveResponseSettings(c, PiiEnv, auth.org, auth.team),
              s, s.response_mode)
<1>1. PICK section : section = ScopedPiiSection(c, auth.org, auth.team)
  OBVIOUS
<1>2. /\ s = IF section # None THEN section
             ELSE IF c.pii.enabled THEN c.pii ELSE EnvSection
      /\ section # None => section \in Sections
      /\ c.pii \in Sections
  BY <1>1, GoverningSection
<1>3. EffectiveResponseSettings(c, PiiEnv, auth.org, auth.team) =
        IF section # None
        THEN IF Active(section) THEN ResponseSettings(section) ELSE None
        ELSE IF Active(c.pii) THEN ResponseSettings(c.pii) ELSE EnvResponseDefaults(PiiEnv)
  BY <1>1 DEF EffectiveResponseSettings
<1>4. CASE section # None
  <2>1. Active(section)
    BY <1>2, <1>4 DEF Active
  <2> QED
    BY <1>2, <1>3, <1>4, <2>1, SectionDoes
<1>5. CASE section = None /\ c.pii.enabled
  <2>1. c.pii # None
    BY GlobalSection
  <2>2. Active(c.pii)
    BY <1>2, <1>5 DEF Active
  <2> QED
    BY <1>2, <1>3, <1>5, <2>1, <2>2, SectionDoes
<1>6. CASE section = None /\ ~c.pii.enabled
  <2>1. s = EnvSection /\ s.response_mode = PiiEnv.response_mode
    BY <1>2, <1>6 DEF EnvSection
  <2>2. EffectiveResponseSettings(c, PiiEnv, auth.org, auth.team)
          = EnvOptions(PiiEnv, PiiEnv.response_mode)
    BY <1>3, <1>6, <2>1 DEF EnvResponseDefaults, ResponseModes, Active
  <2>3. EnvOptions(PiiEnv, PiiEnv.response_mode) # None
    BY OptionAssumption, Zenon
  <2> QED
    BY <2>1, <2>2, <2>3, EnvDoes
<1> QED
  BY <1>4, <1>5, <1>6

(* Nothing is left to find in a rewritten text.                            *)
LEMMA RewrittenClean ==
  ASSUME NEW text, NEW opts
  PROVE  Filtered(Rewritten(text, opts), opts) = {}
<1>1. PICK hits, new : hits = Filtered(text, opts) /\ new = Rewritten(text, opts)
  OBVIOUS
<1>2. new \subseteq (text \ hits) \cup {Placeholder}
  BY <1>1 DEF Rewritten
<1> QED
  BY <1>1, <1>2, PipelineAssumption DEF Filtered

(* What the scan let through with the verdict Ok is withheld.              *)
LEMMA PiiExecuteWithholds ==
  ASSUME NEW c \in Normals, NEW ask \in Accepts, ask.body # None,
         NEW engine \in EngineOutcomes(ask.body.large), NEW out,
         out = PiiExecute(EffectiveSettings(c, PiiEnv, ask.auth.org, ask.auth.team),
                          ask.body, engine, HasKey),
         out.verdict = Ok
  PROVE  Withheld([config |-> c, engine |-> engine], ask.auth, out.request)
<1>1. PICK s, settings, body, auth :
        /\ auth = ask.auth /\ body = ask.body
        /\ s = Governing(c, auth)
        /\ settings = EffectiveSettings(c, PiiEnv, auth.org, auth.team)
  OBVIOUS
<1> SUFFICES ASSUME s.enabled, s.mode \in {"redact", "block"},
                    ~(s.fail_open /\ ScanFailed(s, engine)),
                    NEW i \in DOMAIN out.request.slots,
                    out.request.slots[i].role \in s.apply_to,
                    out.request.slots[i].kind = "text" \/ s.scan_tool_arguments
             PROVE  Personal(s, out.request.slots[i].text) = {}
  BY <1>1 DEF Withheld
<1>2. Does(settings, s, s.mode)
  BY <1>1, RequestDoes
<1>3. PICK scanned, outcome, found :
        /\ scanned = CollectSlots(settings, body)
        /\ outcome = RunEngine(settings, body, scanned, engine, HasKey)
        /\ found = \E j \in scanned : Filtered(body.slots[j].text, settings) # {}
  OBVIOUS
<1>4. out = IF scanned = {} THEN [verdict |-> Ok, request |-> body]
            ELSE IF outcome # "ok"
            THEN [verdict |-> EngineError(settings, outcome), request |-> body]
            ELSE [verdict |-> IF found /\ settings.mode = "block" THEN "bad_request" ELSE Ok,
                  request |-> IF found /\ settings.mode = "redact"
                              THEN WriteBack(settings, body, scanned) ELSE body]
  BY <1>1, <1>2, <1>3 DEF PiiExecute, Does
<1>5. /\ "slots" \in DOMAIN body
      /\ \A j \in DOMAIN body.slots :
           /\ DOMAIN body.slots[j] = {"role", "kind", "text"}
           /\ ParseRoles({body.slots[j].role}) # {}
  <2>1. PICK a \in Asked : ask = Accepted(a)
    BY DEF Accepts
  <2>2. body = Accepted(a).body
    BY <1>1, <2>1
  <2> QED
    BY <1>1, <2>2, AskedAssumption
<1>6. \A j \in DOMAIN body.slots :
        /\ body.slots[j].role \in s.apply_to
        /\ body.slots[j].kind = "text" \/ s.scan_tool_arguments
        /\ j \notin scanned
        => Personal(s, body.slots[j].text) = {}
  <2> SUFFICES ASSUME NEW j \in DOMAIN body.slots, body.slots[j].role \in s.apply_to,
                      body.slots[j].kind = "text" \/ s.scan_tool_arguments,
                      j \notin scanned
               PROVE  Personal(s, body.slots[j].text) = {}
    OBVIOUS
  <2>1. body.slots[j].role \in settings.apply_to
    BY <1>2, <1>5 DEF Does, ParseRoles
  <2>2. body.slots[j].text = {}
    BY <1>2, <1>3, <2>1 DEF CollectSlots, Does
  <2> QED
    BY <2>2 DEF Personal
<1>7. \A text : Filtered(text, settings) = {} => Personal(s, text) = {}
  BY <1>2 DEF Does
<1>8. CASE scanned = {}
  BY <1>4, <1>6, <1>8
<1>9. CASE scanned # {} /\ outcome # "ok"
  <2>1. outcome = "err" /\ s.fail_open
    BY <1>2, <1>4, <1>9 DEF EngineError, Ok, Does
  <2>2. ScanFailed(s, engine)
    BY <1>2, <1>3, <1>9 DEF RunEngine, RedactFails, ScanFailed, Does
  <2> QED
    BY <2>1, <2>2
<1>10. CASE scanned # {} /\ outcome = "ok" /\ ~found
  <2>1. out.request = body
    BY <1>4, <1>10
  <2> QED
    BY <1>3, <1>6, <1>7, <1>10, <2>1
<1>11. CASE scanned # {} /\ outcome = "ok" /\ found
  <2>1. settings.mode = "redact"
    BY <1>2, <1>4, <1>11 DEF Does, Ok
  <2>2. out.request = WriteBack(settings, body, scanned)
    BY <1>4, <1>11, <2>1
  <2>3. /\ DOMAIN out.request.slots = DOMAIN body.slots
        /\ out.request.slots[i] = IF i \in scanned THEN RewrittenSlot(settings, body.slots[i])
                                  ELSE body.slots[i]
    <3>1. out.request.slots =
            [j \in DOMAIN body.slots |->
               IF j \in scanned THEN RewrittenSlot(settings, body.slots[j])
               ELSE body.slots[j]]
      BY <1>5, <2>2 DEF WriteBack
    <3>2. DOMAIN out.request.slots = DOMAIN body.slots
      BY <3>1
    <3> QED
      BY <3>1, <3>2
  <2>4. CASE i \notin scanned
    BY <1>6, <2>3, <2>4
  <2>5. CASE i \in scanned
    <3>1. out.request.slots[i].text = Rewritten(body.slots[i].text, settings)
      BY <1>5, <2>3, <2>5 DEF RewrittenSlot
    <3> QED
      BY <1>7, <3>1, RewrittenClean
  <2> QED
    BY <2>4, <2>5
<1> QED
  BY <1>8, <1>9, <1>10, <1>11

(* The verdict of check_response on a text for settings that are there.    *)
LEMMA CheckedResponse ==
  ASSUME NEW settings, settings # None, NEW text, NEW engine
  PROVE  CheckResponse(settings, text, engine, HasKey) =
           IF text = {} THEN "allow"
           ELSE IF engine = "panic" THEN "error"
           ELSE IF \/ engine = "err"
                   \/ settings.mode = "redact" /\ RedactFails(text, settings, HasKey)
           THEN IF settings.fail_open THEN "allow" ELSE "reject"
           ELSE IF Filtered(text, settings) = {} \/ settings.mode = "observe" THEN "allow"
           ELSE IF settings.mode = "redact" THEN "redact" ELSE "reject"
  BY Zenon DEF CheckResponse

(* A response the guardrail allows may be shown.                           *)
LEMMA AllowedMayBeShown ==
  ASSUME NEW c \in Normals, NEW auth, NEW text, NEW engine,
         CheckResponse(EffectiveResponseSettings(c, PiiEnv, auth.org, auth.team),
                       text, engine, HasKey) \in {"allow", "error"}
  PROVE  Shows([config |-> c, engine |-> engine], auth, text)
<1>1. PICK s, settings, action :
        /\ s = Governing(c, auth)
        /\ settings = EffectiveResponseSettings(c, PiiEnv, auth.org, auth.team)
        /\ action = CheckResponse(settings, text, engine, HasKey)
  OBVIOUS
<1> SUFFICES ASSUME s.enabled, s.response_mode \in {"redact", "block"},
                    engine # "panic", ~(s.fail_open /\ ScanFailed(s, engine))
             PROVE  Personal(s, text) = {}
  BY <1>1 DEF Shows
<1>2. Does(settings, s, s.response_mode)
  BY <1>1, ResponseDoes
<1>3. action \in {"allow", "error"}
  BY <1>1
<1>4. PICK failed : failed = (\/ engine = "err"
                              \/ settings.mode = "redact" /\ RedactFails(text, settings, HasKey))
  OBVIOUS
<1>5. action = IF text = {} THEN "allow"
               ELSE IF engine = "panic" THEN "error"
               ELSE IF failed THEN IF settings.fail_open THEN "allow" ELSE "reject"
               ELSE IF Filtered(text, settings) = {} \/ settings.mode = "observe" THEN "allow"
               ELSE IF settings.mode = "redact" THEN "redact" ELSE "reject"
  BY <1>1, <1>2, <1>4, CheckedResponse, Zenon DEF Does
<1>6. CASE text = {}
  BY <1>6 DEF Personal
<1>7. CASE text # {} /\ failed
  <2>1. settings.fail_open
    BY <1>3, <1>5, <1>7
  <2>2. s.fail_open /\ ScanFailed(s, engine)
    BY <1>2, <1>4, <1>7, <2>1 DEF Does, ScanFailed, RedactFails
  <2> QED
    BY <2>2
<1>8. CASE text # {} /\ ~failed
  <2>1. Filtered(text, settings) = {}
    BY <1>2, <1>3, <1>5, <1>8 DEF Does
  <2> QED
    BY <1>2, <2>1 DEF Does
<1> QED
  BY <1>6, <1>7, <1>8

(* A response it redacted may be shown.                                    *)
LEMMA RedactedMayBeShown ==
  ASSUME NEW c \in Normals, NEW auth, NEW choices, NEW engine, NEW settings, NEW text,
         settings = EffectiveResponseSettings(c, PiiEnv, auth.org, auth.team),
         CheckResponse(settings, text, engine, HasKey) = "redact"
  PROVE  Shows([config |-> c, engine |-> engine], auth,
               ExtractResponseText(RedactResponseText(choices, Rewritten(text, settings))))
<1>1. PICK s, new, shown :
        /\ s = Governing(c, auth)
        /\ new = Rewritten(text, settings)
        /\ shown = ExtractResponseText(RedactResponseText(choices, new))
  OBVIOUS
<1> SUFFICES ASSUME s.enabled, s.response_mode \in {"redact", "block"}
             PROVE  Personal(s, shown) = {}
  BY <1>1 DEF Shows
<1>2. Does(settings, s, s.response_mode)
  BY <1>1, ResponseDoes
<1>3. Filtered(new, settings) = {}
  BY <1>1, RewrittenClean
<1>4. Personal(s, new) = {}
  BY <1>2, <1>3 DEF Does
<1>5. shown \subseteq new
  BY <1>1 DEF ExtractResponseText, RedactResponseText
<1> QED
  BY <1>4, <1>5 DEF Personal
USE DEF Streaming

-----------------------------------------------------------------------------
(* The steps of a request.                                                 *)

(* A request arrives.                                                      *)
LEMMA ArriveGood ==
  ASSUME PipelineInv, NEW r \in Requests, Arrive(r)
  PROVE  DOMAIN req' = Requests /\ \A p \in Requests : Good(req'[p])
<1>1. PICK q : q = req[r] /\ Flow(q) /\ Clean(q) /\ q.pc = "idle"
  BY DEF PipelineInv, Good, Arrive
<1>2. PICK a \in Asked :
        IF Accepted(a).body = None
        THEN Ends(r, [status |-> 400])
        ELSE Goes(r, [pc |-> "prepare", ask |-> Accepted(a), work |-> Accepted(a).body])
  BY DEF Arrive
<1>3. CASE Accepted(a).body = None
  <2>1. PICK p : p = Changed(Ended(q), [status |-> 400])
    OBVIOUS
  <2>2. req' = [req EXCEPT ![r] = p]
    BY <1>1, <1>2, <1>3, <2>1, Returns
  <2>3. /\ DOMAIN p = Fields /\ p.pc = "done" /\ p.ask = q.ask /\ p.rec = q.rec
        /\ p.records = q.records /\ p.sent = None /\ p.check = None
    BY <2>1, ChangedFields, EndedFields
  <2>4. Flow(p)
    BY <1>1, <2>3 DEF Flow, Owed, PCs, Live, Scanned
  <2>5. Clean(p)
    BY <2>3 DEF Clean, PCs, Live, Scanned
  <2> QED
    BY <2>2, <2>4, <2>5, OneRequest DEF Good
<1>4. CASE Accepted(a).body # None
  <2>1. PICK p : p = Changed(q, [pc |-> "prepare", ask |-> Accepted(a),
                                 work |-> Accepted(a).body])
    OBVIOUS
  <2>2. req' = [req EXCEPT ![r] = p]
    BY <1>1, <1>2, <1>4, <2>1, GoesOn
  <2>3. DOMAIN q = Fields
    BY <1>1 DEF Flow
  <2>4. /\ DOMAIN p = Fields /\ p.pc = "prepare" /\ p.ask = Accepted(a)
        /\ p.work = Accepted(a).body /\ p.rec = q.rec /\ p.scan = q.scan
        /\ p.records = q.records /\ p.sent = q.sent /\ p.check = q.check
        /\ p.shown = q.shown
    BY <2>1, <2>3, ChangedFields
  <2>5. Flow(p)
    BY <1>1, <2>4, AcceptedAsk DEF Flow, PCs, Live, Scanned
  <2>6. Clean(p)
    BY <1>1, <1>4, <2>4 DEF Clean, PCs, Live, Scanned
  <2> QED
    BY <2>2, <2>5, <2>6, OneRequest DEF Good
<1> QED
  BY <1>3, <1>4

(* A record adds one to the clock of the usage records.                    *)
LEMMA FullRecord ==
  ASSUME NEW r, NEW request, NEW provider, NEW u, NEW response, NEW error,
         RecordFull(r, request, provider, u, response, error)
  PROVE  tick' = tick + 1
  BY DEF RecordFull, RecordUsage

(* The prologue's refusal: accounted for, unless a stream or an embedding. *)
LEMMA RefuseGood ==
  ASSUME PipelineInv, NEW r \in Requests, NEW error, Refuse(r, error),
         req[r].pc \in {"prepare", "pii", "plugins"},
         req[r].pc = "plugins" => error \notin {"not_found", "forbidden"}
  PROVE  DOMAIN req' = Requests /\ \A p \in Requests : Good(req'[p])
<1>1. PICK q : /\ q = req[r] /\ Flow(q) /\ Clean(q) /\ DOMAIN q = Fields
               /\ q.pc \in {"prepare", "pii", "plugins"}
  BY DEF PipelineInv, Good, Flow
<1>ask. q.ask \in Accepts /\ q.ask # None
  BY <1>1, LiveAsk DEF PCs, Live
<1>2. q.records = 0 /\ q.rec = None /\ (q.pc # "plugins" => q.scan = None)
  BY <1>1 DEF Flow, PCs, Live, Scanned
<1>3. PICK n : n = tick' - tick
  OBVIOUS
<1>4. CASE q.ask.body.stream \/ q.ask.kind = "embed"
  <2>a. n = 0
    BY <1>1, <1>3, <1>4 DEF Refuse, Stream, PipelineInv
  <2>1. PICK p : p = Changed(Ended(q), [status |-> StatusCode(error), error |-> error,
                         scan |-> q.scan, records |-> q.records + n])
    OBVIOUS
  <2>b. Ends(r, [status |-> StatusCode(error), error |-> error,
                 scan |-> q.scan, records |-> q.records + n])
    BY <1>1, <1>3 DEF Refuse
  <2>2. req' = [req EXCEPT ![r] = p]
    BY <1>1, <2>1, <2>b, Returns
  <2>3. /\ DOMAIN p = Fields /\ p.pc = "done" /\ p.ask = q.ask
        /\ p.work = None /\ p.scan = q.scan /\ p.sent = None
        /\ p.reply = None /\ p.error = error /\ p.check = None
        /\ p.shown = {} /\ p.rec = q.rec /\ p.records = q.records + n
    BY <1>1, <2>1, ChangedFields, EndedFields
  <2>4. Flow(p)
    BY <1>ask, <1>1, <2>3, <1>2, <1>4, <2>a DEF Flow, PCs, Live, Scanned, Owed
  <2>5. Clean(p)
    BY <1>1, <2>3 DEF Clean, PCs, Live, Scanned
  <2> QED
    BY <2>2, <2>4, <2>5, OneRequest DEF Good
<1>5. CASE ~(q.ask.body.stream \/ q.ask.kind = "embed")
  <2>a. n = 1
    BY <1>1, <1>3, <1>5, FullRecord DEF Refuse, Stream, PipelineInv
  <2>1. PICK p : p = Changed(Ended(q), [status |-> StatusCode(error), error |-> error,
                         scan |-> q.scan, records |-> q.records + n])
    OBVIOUS
  <2>b. Ends(r, [status |-> StatusCode(error), error |-> error,
                 scan |-> q.scan, records |-> q.records + n])
    BY <1>1, <1>3 DEF Refuse
  <2>2. req' = [req EXCEPT ![r] = p]
    BY <1>1, <2>1, <2>b, Returns
  <2>3. /\ DOMAIN p = Fields /\ p.pc = "done" /\ p.ask = q.ask
        /\ p.work = None /\ p.scan = q.scan /\ p.sent = None
        /\ p.reply = None /\ p.error = error /\ p.check = None
        /\ p.shown = {} /\ p.rec = q.rec /\ p.records = q.records + n
    BY <1>1, <2>1, ChangedFields, EndedFields
  <2>4. Flow(p)
    BY <1>ask, <1>1, <2>3, <1>2, <1>5, <2>a DEF Flow, PCs, Live, Scanned, Owed
  <2>5. Clean(p)
    BY <1>1, <2>3 DEF Clean, PCs, Live, Scanned
  <2> QED
    BY <2>2, <2>4, <2>5, OneRequest DEF Good
<1> QED
  BY <1>4, <1>5

(* prepare_request and the head of embed.                                  *)
LEMMA PrepareGood ==
  ASSUME PipelineInv, NEW r \in Requests, Prepare(r)
  PROVE  DOMAIN req' = Requests /\ \A p \in Requests : Good(req'[p])
<1>1. PICK q : /\ q = req[r] /\ Flow(q) /\ Clean(q) /\ DOMAIN q = Fields
               /\ q.pc = "prepare"
  BY DEF PipelineInv, Good, Flow, Prepare
<1>ask. q.ask \in Accepts /\ q.ask # None
  BY <1>1, LiveAsk DEF PCs, Live
<1>2. \/ \E error : Refuse(r, error)
      \/ Goes(r, [pc |-> IF q.ask.kind = "embed" THEN "embed" ELSE "pii"])
  BY <1>1, Zenon DEF Prepare
<1>3. CASE \E error : Refuse(r, error)
  BY <1>1, <1>3, RefuseGood
<1>4. CASE Goes(r, [pc |-> IF q.ask.kind = "embed" THEN "embed" ELSE "pii"])
  <2>1. PICK p : p = Changed(q, [pc |-> IF q.ask.kind = "embed" THEN "embed" ELSE "pii"])
    OBVIOUS
  <2>2. req' = [req EXCEPT ![r] = p]
    BY <1>1, <1>4, <2>1, GoesOn
  <2>3. /\ DOMAIN p = Fields
        /\ p.pc = IF q.ask.kind = "embed" THEN "embed" ELSE "pii"
        /\ p.ask = q.ask /\ p.work = q.work /\ p.scan = q.scan
        /\ p.sent = q.sent /\ p.reply = q.reply /\ p.error = q.error
        /\ p.check = q.check /\ p.shown = q.shown /\ p.rec = q.rec
        /\ p.records = q.records
    BY <1>1, <2>1, ChangedFields
  <2>4. Flow(p)
    BY <1>ask, <1>1, <2>3 DEF Flow, PCs, Live, Scanned
  <2>5. Clean(p)
    BY <1>1, <2>3 DEF Clean, PCs, Live, Scanned
  <2> QED
    BY <2>2, <2>4, <2>5, OneRequest DEF Good
<1> QED
  BY <1>2, <1>3, <1>4

(* The PII plugin sends on what may be sent.                               *)
LEMMA RunPiiGood ==
  ASSUME PipelineInv, NEW r \in Requests, RunPii(r)
  PROVE  DOMAIN req' = Requests /\ \A p \in Requests : Good(req'[p])
<1>1. PICK q : /\ q = req[r] /\ Flow(q) /\ Clean(q) /\ DOMAIN q = Fields
               /\ q.pc = "pii"
  BY DEF PipelineInv, Good, Flow, RunPii
<1>ask. q.ask \in Accepts /\ q.ask # None
  BY <1>1, LiveAsk DEF PCs, Live
<1>a. PICK c : c = config /\ c \in Normals
  BY DEF PipelineInv
<1>b. q.ask \in Accepts /\ q.work = q.ask.body /\ q.work # None
  BY <1>1 DEF Flow, Clean, PCs, Live, Scanned
<1>2. PICK engine \in EngineOutcomes(q.work.large) :
        LET out == PiiExecute(EffectiveSettings(c, PiiEnv, q.ask.auth.org, q.ask.auth.team),
                              q.work, engine, HasKey)
        IN  IF out.verdict = Ok
            THEN Goes(r, [pc |-> "plugins", work |-> out.request,
                          scan |-> [config |-> c, engine |-> engine]])
            ELSE Refuse(r, out.verdict)
  BY <1>1, <1>a, Zenon DEF RunPii, Auth
<1>3. PICK out : out = PiiExecute(EffectiveSettings(c, PiiEnv, q.ask.auth.org, q.ask.auth.team),
                                  q.work, engine, HasKey)
  OBVIOUS
<1>4. CASE out.verdict # Ok
  <2>1. Refuse(r, out.verdict)
    BY <1>2, <1>3, <1>4
  <2> QED
    BY <1>1, <2>1, RefuseGood
<1>5. CASE out.verdict = Ok
  <2>a. PICK scan : scan = [config |-> c, engine |-> engine]
    OBVIOUS
  <2>b. Goes(r, [pc |-> "plugins", work |-> out.request, scan |-> scan])
    BY <1>2, <1>3, <1>5, <2>a
  <2>c. scan # None
    BY <1>a, <2>a, OptionAssumption DEF Normals, EngineOutcomes
  <2>d. Withheld(scan, q.ask.auth, out.request)
    BY <1>a, <1>b, <1>3, <1>5, <2>a, PiiExecuteWithholds
  <2>1. PICK p : p = Changed(q, [pc |-> "plugins", work |-> out.request, scan |-> scan])
    OBVIOUS
  <2>2. req' = [req EXCEPT ![r] = p]
    BY <1>1, <2>b, <2>1, GoesOn
  <2>3. /\ DOMAIN p = Fields /\ p.pc = "plugins" /\ p.ask = q.ask
        /\ p.work = out.request /\ p.scan = scan /\ p.sent = q.sent
        /\ p.reply = q.reply /\ p.error = q.error /\ p.check = q.check
        /\ p.shown = q.shown /\ p.rec = q.rec /\ p.records = q.records
    BY <1>1, <2>1, ChangedFields
  <2>4. Flow(p)
    BY <1>ask, <1>1, <2>3, <2>c DEF Flow, PCs, Live, Scanned
  <2>5. Clean(p)
    BY <1>1, <2>3, <2>d DEF Clean, PCs, Live, Scanned
  <2> QED
    BY <2>2, <2>4, <2>5, OneRequest DEF Good
<1> QED
  BY <1>4, <1>5

(* The other before-request plugins.                                       *)
LEMMA RunPluginsGood ==
  ASSUME PipelineInv, NEW r \in Requests, RunPlugins(r)
  PROVE  DOMAIN req' = Requests /\ \A p \in Requests : Good(req'[p])
<1>1. PICK q : /\ q = req[r] /\ Flow(q) /\ Clean(q) /\ DOMAIN q = Fields
               /\ q.pc = "plugins"
  BY DEF PipelineInv, Good, Flow, RunPlugins
<1>ask. q.ask \in Accepts /\ q.ask # None
  BY <1>1, LiveAsk DEF PCs, Live
<1>2. PICK verdict :
        /\ IF verdict = Ok
           THEN Goes(r, [pc |-> IF q.ask.body.stream THEN "select" ELSE "cache"])
           ELSE Refuse(r, verdict)
        /\ verdict \in {Ok, "bad_request", "quota", "rate_limited"}
  <2>1. PICK key, limit : /\ key = SpendKey(Auth(r))
                          /\ limit = EffectiveLimit(Auth(r).budget, SpendLimit)
    OBVIOUS
  <2>2. PICK window \in WindowVerdicts :
          LET verdict == FirstError(<<WordFilter(Blocklist, q.work),
                                      MaxToken(MaxTokensLimit, q.work),
                                      IF key # None /\ OverBudget(spend, key, limit)
                                      THEN "quota" ELSE Ok,
                                      window>>)
          IN  IF verdict = Ok
              THEN Goes(r, [pc |-> IF q.ask.body.stream THEN "select" ELSE "cache"])
              ELSE Refuse(r, verdict)
    BY <1>1, <2>1, Zenon DEF RunPlugins, Stream
  <2>3. PICK w, m, b : /\ w = WordFilter(Blocklist, q.work)
                       /\ m = MaxToken(MaxTokensLimit, q.work)
                       /\ b = IF key # None /\ OverBudget(spend, key, limit)
                              THEN "quota" ELSE Ok
    OBVIOUS
  <2>4. FirstError(<<w, m, b, window>>) \in {Ok, w, m, b, window}
    BY FirstOfFour
  <2>5. {w, m, b, window} \subseteq {Ok, "bad_request", "quota", "rate_limited"}
    BY <2>3 DEF WordFilter, MaxToken, WindowVerdicts
  <2> QED
    BY <2>2, <2>3, <2>4, <2>5
<1>3. CASE verdict # Ok
  <2>1. Refuse(r, verdict) /\ verdict \notin {"not_found", "forbidden"}
    BY <1>2, <1>3 DEF Ok
  <2> QED
    BY <1>1, <2>1, RefuseGood
<1>4. CASE verdict = Ok
  <2>1. PICK p : p = Changed(q, [pc |-> IF q.ask.body.stream THEN "select" ELSE "cache"])
    OBVIOUS
  <2>2. req' = [req EXCEPT ![r] = p]
    BY <1>1, <1>2, <1>4, <2>1, GoesOn
  <2>3. /\ DOMAIN p = Fields
        /\ p.pc = IF q.ask.body.stream THEN "select" ELSE "cache"
        /\ p.ask = q.ask /\ p.work = q.work /\ p.scan = q.scan
        /\ p.sent = q.sent /\ p.reply = q.reply /\ p.error = q.error
        /\ p.check = q.check /\ p.shown = q.shown /\ p.rec = q.rec
        /\ p.records = q.records
    BY <1>1, <2>1, ChangedFields
  <2>4. Flow(p)
    BY <1>ask, <1>1, <2>3 DEF Flow, PCs, Live, Scanned
  <2>5. Clean(p)
    BY <1>1, <2>3 DEF Clean, PCs, Live, Scanned
  <2> QED
    BY <2>2, <2>4, <2>5, OneRequest DEF Good
<1> QED
  BY <1>3, <1>4

(* A hit or a miss of the response cache.                                  *)
LEMMA CacheLookupGood ==
  ASSUME PipelineInv, NEW r \in Requests, CacheLookup(r)
  PROVE  DOMAIN req' = Requests /\ \A p \in Requests : Good(req'[p])
<1>1. PICK q : /\ q = req[r] /\ Flow(q) /\ Clean(q) /\ DOMAIN q = Fields
               /\ q.pc = "cache"
  BY DEF PipelineInv, Good, Flow, CacheLookup
<1>ask. q.ask \in Accepts /\ q.ask # None
  BY <1>1, LiveAsk DEF PCs, Live
<1>2. \/ \E c \in cache : Goes(r, [pc |-> "after", reply |-> c.reply, origin |-> c.by])
      \/ Goes(r, [pc |-> "select"])
  BY <1>1 DEF CacheLookup
<1>3. ASSUME NEW c \in cache,
             Goes(r, [pc |-> "after", reply |-> c.reply, origin |-> c.by])
      PROVE  DOMAIN req' = Requests /\ \A p \in Requests : Good(req'[p])
  <2>1. PICK p : p = Changed(q, [pc |-> "after", reply |-> c.reply, origin |-> c.by])
    OBVIOUS
  <2>2. req' = [req EXCEPT ![r] = p]
    BY <1>1, <1>3, <2>1, GoesOn
  <2>3. /\ DOMAIN p = Fields /\ p.pc = "after" /\ p.ask = q.ask
        /\ p.work = q.work /\ p.scan = q.scan /\ p.sent = q.sent
        /\ p.reply = c.reply /\ p.error = q.error /\ p.check = q.check
        /\ p.shown = q.shown /\ p.rec = q.rec /\ p.records = q.records
    BY <1>1, <2>1, ChangedFields
  <2>4. Flow(p)
    BY <1>ask, <1>1, <2>3 DEF Flow, PCs, Live, Scanned
  <2>5. Clean(p)
    BY <1>1, <2>3 DEF Clean, PCs, Live, Scanned
  <2> QED
    BY <2>2, <2>4, <2>5, OneRequest DEF Good
<1>4. CASE Goes(r, [pc |-> "select"])
  <2>1. PICK p : p = Changed(q, [pc |-> "select"])
    OBVIOUS
  <2>2. req' = [req EXCEPT ![r] = p]
    BY <1>1, <1>4, <2>1, GoesOn
  <2>3. /\ DOMAIN p = Fields /\ p.pc = "select" /\ p.ask = q.ask
        /\ p.work = q.work /\ p.scan = q.scan /\ p.sent = q.sent
        /\ p.reply = q.reply /\ p.error = q.error /\ p.check = q.check
        /\ p.shown = q.shown /\ p.rec = q.rec /\ p.records = q.records
    BY <1>1, <2>1, ChangedFields
  <2>4. Flow(p)
    BY <1>ask, <1>1, <2>3 DEF Flow, PCs, Live, Scanned
  <2>5. Clean(p)
    BY <1>1, <2>3 DEF Clean, PCs, Live, Scanned
  <2> QED
    BY <2>2, <2>4, <2>5, OneRequest DEF Good
<1> QED
  BY <1>2, <1>3, <1>4

(* select_targets leaves without a record.                                 *)
LEMMA SelectGood ==
  ASSUME PipelineInv, NEW r \in Requests, Select(r)
  PROVE  DOMAIN req' = Requests /\ \A p \in Requests : Good(req'[p])
<1>1. PICK q : /\ q = req[r] /\ Flow(q) /\ Clean(q) /\ DOMAIN q = Fields
               /\ q.pc = "select"
  BY DEF PipelineInv, Good, Flow, Select
<1>ask. q.ask \in Accepts /\ q.ask # None
  BY <1>1, LiveAsk DEF PCs, Live
<1>2. \/ \E e \in {"not_found", "forbidden"} :
           Ends(r, [error |-> e, status |-> StatusCode(e), scan |-> q.scan])
      \/ \E left : Goes(r, [pc |-> "call", order |-> left])
  BY <1>1 DEF Select
<1>3. ASSUME NEW e \in {"not_found", "forbidden"},
             Ends(r, [error |-> e, status |-> StatusCode(e), scan |-> q.scan])
      PROVE  DOMAIN req' = Requests /\ \A p \in Requests : Good(req'[p])
  <2>1. PICK p : p = Changed(Ended(q), [error |-> e, status |-> StatusCode(e), scan |-> q.scan])
    OBVIOUS
  <2>2. req' = [req EXCEPT ![r] = p]
    BY <1>1, <1>3, <2>1, Returns
  <2>3. /\ DOMAIN p = Fields /\ p.pc = "done" /\ p.ask = q.ask
        /\ p.work = None /\ p.scan = q.scan /\ p.sent = None
        /\ p.reply = None /\ p.error = e /\ p.check = None /\ p.shown = {}
        /\ p.rec = q.rec /\ p.records = q.records
    BY <1>1, <2>1, ChangedFields, EndedFields
  <2>4. Flow(p)
    BY <1>ask, <1>1, <2>3 DEF Flow, PCs, Live, Scanned, Owed
  <2>5. Clean(p)
    BY <1>1, <2>3 DEF Clean, PCs, Live, Scanned
  <2> QED
    BY <2>2, <2>4, <2>5, OneRequest DEF Good
<1>4. ASSUME NEW left, Goes(r, [pc |-> "call", order |-> left])
      PROVE  DOMAIN req' = Requests /\ \A p \in Requests : Good(req'[p])
  <2>1. PICK p : p = Changed(q, [pc |-> "call", order |-> left])
    OBVIOUS
  <2>2. req' = [req EXCEPT ![r] = p]
    BY <1>1, <1>4, <2>1, GoesOn
  <2>3. /\ DOMAIN p = Fields /\ p.pc = "call" /\ p.ask = q.ask
        /\ p.work = q.work /\ p.scan = q.scan /\ p.sent = q.sent
        /\ p.reply = q.reply /\ p.error = q.error /\ p.check = q.check
        /\ p.shown = q.shown /\ p.rec = q.rec /\ p.records = q.records
    BY <1>1, <2>1, ChangedFields
  <2>4. Flow(p)
    BY <1>ask, <1>1, <2>3 DEF Flow, PCs, Live, Scanned
  <2>5. Clean(p)
    BY <1>1, <2>3 DEF Clean, PCs, Live, Scanned
  <2> QED
    BY <2>2, <2>4, <2>5, OneRequest DEF Good
<1> QED
  BY <1>2, <1>3, <1>4

(* The provider is sent the copy of the pipeline.                          *)
LEMMA DispatchGood ==
  ASSUME PipelineInv, NEW r \in Requests, Dispatch(r)
  PROVE  DOMAIN req' = Requests /\ \A p \in Requests : Good(req'[p])
<1>1. PICK q : /\ q = req[r] /\ Flow(q) /\ Clean(q) /\ DOMAIN q = Fields
               /\ q.pc = "call"
  BY DEF PipelineInv, Good, Flow, Dispatch
<1>ask. q.ask \in Accepts /\ q.ask # None
  BY <1>1, LiveAsk DEF PCs, Live
<1>2. PICK t : Goes(r, [pc |-> "wait", sent |-> q.work, target |-> t])
  BY <1>1 DEF Dispatch
<1>3. DOMAIN req' = Requests /\ \A p \in Requests : Good(req'[p])
  <2>1. PICK p : p = Changed(q, [pc |-> "wait", sent |-> q.work, target |-> t])
    OBVIOUS
  <2>2. req' = [req EXCEPT ![r] = p]
    BY <1>1, <1>2, <2>1, GoesOn
  <2>3. /\ DOMAIN p = Fields /\ p.pc = "wait" /\ p.ask = q.ask
        /\ p.work = q.work /\ p.scan = q.scan /\ p.sent = q.work
        /\ p.reply = q.reply /\ p.error = q.error /\ p.check = q.check
        /\ p.shown = q.shown /\ p.rec = q.rec /\ p.records = q.records
    BY <1>1, <2>1, ChangedFields
  <2>4. Flow(p)
    BY <1>ask, <1>1, <2>3 DEF Flow, PCs, Live, Scanned
  <2>5. Clean(p)
    BY <1>1, <2>3 DEF Clean, PCs, Live, Scanned
  <2> QED
    BY <2>2, <2>4, <2>5, OneRequest DEF Good
<1> QED
  BY <1>3

(* No provider could be asked.                                             *)
LEMMA UnreachableGood ==
  ASSUME PipelineInv, NEW r \in Requests, Unreachable(r)
  PROVE  DOMAIN req' = Requests /\ \A p \in Requests : Good(req'[p])
<1>1. PICK q : /\ q = req[r] /\ Flow(q) /\ Clean(q) /\ DOMAIN q = Fields
               /\ q.pc = "call"
  BY DEF PipelineInv, Good, Flow, Unreachable
<1>ask. q.ask \in Accepts /\ q.ask # None
  BY <1>1, LiveAsk DEF PCs, Live
<1>2. \/ /\ q.ask.body.stream
         /\ \E e \in Unreached : Ends(r, [error |-> e, status |-> StatusCode(e)])
      \/ /\ ~q.ask.body.stream
         /\ \E t : Goes(r, [pc |-> "after", error |-> "unavailable", target |-> t])
  BY <1>1 DEF Unreachable, Stream
<1>3. ASSUME q.ask.body.stream, NEW e, Ends(r, [error |-> e, status |-> StatusCode(e)])
      PROVE  DOMAIN req' = Requests /\ \A p \in Requests : Good(req'[p])
  <2>1. PICK p : p = Changed(Ended(q), [error |-> e, status |-> StatusCode(e)])
    OBVIOUS
  <2>2. req' = [req EXCEPT ![r] = p]
    BY <1>1, <1>3, <2>1, Returns
  <2>3. /\ DOMAIN p = Fields /\ p.pc = "done" /\ p.ask = q.ask
        /\ p.work = None /\ p.scan = None /\ p.sent = None /\ p.reply = None
        /\ p.error = e /\ p.check = None /\ p.shown = {} /\ p.rec = q.rec
        /\ p.records = q.records
    BY <1>1, <2>1, ChangedFields, EndedFields
  <2>4. Flow(p)
    BY <1>ask, <1>1, <2>3, <1>3 DEF Flow, PCs, Live, Scanned, Owed
  <2>5. Clean(p)
    BY <1>1, <2>3 DEF Clean, PCs, Live, Scanned
  <2> QED
    BY <2>2, <2>4, <2>5, OneRequest DEF Good
<1>4. ASSUME ~q.ask.body.stream, NEW t,
             Goes(r, [pc |-> "after", error |-> "unavailable", target |-> t])
      PROVE  DOMAIN req' = Requests /\ \A p \in Requests : Good(req'[p])
  <2>1. PICK p : p = Changed(q, [pc |-> "after", error |-> "unavailable", target |-> t])
    OBVIOUS
  <2>2. req' = [req EXCEPT ![r] = p]
    BY <1>1, <1>4, <2>1, GoesOn
  <2>3. /\ DOMAIN p = Fields /\ p.pc = "after" /\ p.ask = q.ask
        /\ p.work = q.work /\ p.scan = q.scan /\ p.sent = q.sent
        /\ p.reply = q.reply /\ p.error = "unavailable" /\ p.check = q.check
        /\ p.shown = q.shown /\ p.rec = q.rec /\ p.records = q.records
    BY <1>1, <2>1, ChangedFields
  <2>4. Flow(p)
    BY <1>ask, <1>1, <2>3, <1>4 DEF Flow, PCs, Live, Scanned
  <2>5. Clean(p)
    BY <1>1, <2>3 DEF Clean, PCs, Live, Scanned
  <2> QED
    BY <2>2, <2>4, <2>5, OneRequest DEF Good
<1> QED
  BY <1>2, <1>3, <1>4

(* The last attempt fails.                                                 *)
LEMMA CallFailsGood ==
  ASSUME PipelineInv, NEW r \in Requests, CallFails(r)
  PROVE  DOMAIN req' = Requests /\ \A p \in Requests : Good(req'[p])
<1>1. PICK q : /\ q = req[r] /\ Flow(q) /\ Clean(q) /\ DOMAIN q = Fields
               /\ q.pc = "wait"
  BY DEF PipelineInv, Good, Flow, CallFails
<1>ask. q.ask \in Accepts /\ q.ask # None
  BY <1>1, LiveAsk DEF PCs, Live
<1>2. PICK error :
        IF q.ask.body.stream THEN Ends(r, [error |-> error, status |-> StatusCode(error)])
        ELSE Goes(r, [pc |-> "after", error |-> error])
  BY <1>1 DEF CallFails, Stream
<1>3. CASE q.ask.body.stream
  <2>1. PICK p : p = Changed(Ended(q), [error |-> error, status |-> StatusCode(error)])
    OBVIOUS
  <2>2. req' = [req EXCEPT ![r] = p]
    BY <1>1, <1>2, <1>3, <2>1, Returns
  <2>3. /\ DOMAIN p = Fields /\ p.pc = "done" /\ p.ask = q.ask
        /\ p.work = None /\ p.scan = None /\ p.sent = None /\ p.reply = None
        /\ p.error = error /\ p.check = None /\ p.shown = {}
        /\ p.rec = q.rec /\ p.records = q.records
    BY <1>1, <2>1, ChangedFields, EndedFields
  <2>4. Flow(p)
    BY <1>ask, <1>1, <2>3, <1>3 DEF Flow, PCs, Live, Scanned, Owed
  <2>5. Clean(p)
    BY <1>1, <2>3 DEF Clean, PCs, Live, Scanned
  <2> QED
    BY <2>2, <2>4, <2>5, OneRequest DEF Good
<1>4. CASE ~q.ask.body.stream
  <2>1. PICK p : p = Changed(q, [pc |-> "after", error |-> error])
    OBVIOUS
  <2>2. req' = [req EXCEPT ![r] = p]
    BY <1>1, <1>2, <1>4, <2>1, GoesOn
  <2>3. /\ DOMAIN p = Fields /\ p.pc = "after" /\ p.ask = q.ask
        /\ p.work = q.work /\ p.scan = q.scan /\ p.sent = q.sent
        /\ p.reply = q.reply /\ p.error = error /\ p.check = q.check
        /\ p.shown = q.shown /\ p.rec = q.rec /\ p.records = q.records
    BY <1>1, <2>1, ChangedFields
  <2>4. Flow(p)
    BY <1>ask, <1>1, <2>3, <1>4 DEF Flow, PCs, Live, Scanned
  <2>5. Clean(p)
    BY <1>1, <2>3 DEF Clean, PCs, Live, Scanned
  <2> QED
    BY <2>2, <2>4, <2>5, OneRequest DEF Good
<1> QED
  BY <1>3, <1>4

(* A provider answers.                                                     *)
LEMMA CallAnswersGood ==
  ASSUME PipelineInv, NEW r \in Requests, CallAnswers(r)
  PROVE  DOMAIN req' = Requests /\ \A p \in Requests : Good(req'[p])
<1>1. PICK q : /\ q = req[r] /\ Flow(q) /\ Clean(q) /\ DOMAIN q = Fields
               /\ q.pc = "wait" /\ ~q.ask.body.stream
  BY DEF PipelineInv, Good, Flow, CallAnswers, Stream
<1>ask. q.ask \in Accepts /\ q.ask # None
  BY <1>1, LiveAsk DEF PCs, Live
<1>2. PICK reply : Goes(r, [pc |-> "after", reply |-> reply])
  BY <1>1 DEF CallAnswers
<1>3. DOMAIN req' = Requests /\ \A p \in Requests : Good(req'[p])
  <2>1. PICK p : p = Changed(q, [pc |-> "after", reply |-> reply])
    OBVIOUS
  <2>2. req' = [req EXCEPT ![r] = p]
    BY <1>1, <1>2, <2>1, GoesOn
  <2>3. /\ DOMAIN p = Fields /\ p.pc = "after" /\ p.ask = q.ask
        /\ p.work = q.work /\ p.scan = q.scan /\ p.sent = q.sent
        /\ p.reply = reply /\ p.error = q.error /\ p.check = q.check
        /\ p.shown = q.shown /\ p.rec = q.rec /\ p.records = q.records
    BY <1>1, <2>1, ChangedFields
  <2>4. Flow(p)
    BY <1>ask, <1>1, <2>3 DEF Flow, PCs, Live, Scanned
  <2>5. Clean(p)
    BY <1>1, <2>3 DEF Clean, PCs, Live, Scanned
  <2> QED
    BY <2>2, <2>4, <2>5, OneRequest DEF Good
<1> QED
  BY <1>3

(* The after-request plugins; a failed call leaves with its record.        *)
LEMMA RunAfterGood ==
  ASSUME PipelineInv, NEW r \in Requests, RunAfter(r)
  PROVE  DOMAIN req' = Requests /\ \A p \in Requests : Good(req'[p])
<1>1. PICK q : /\ q = req[r] /\ Flow(q) /\ Clean(q) /\ DOMAIN q = Fields
               /\ q.pc = "after"
  BY DEF PipelineInv, Good, Flow, RunAfter
<1>ask. q.ask \in Accepts /\ q.ask # None
  BY <1>1, LiveAsk DEF PCs, Live
<1>2. \/ Goes(r, [pc |-> "guard"])
      \/ \E status : Ends(r, [status |-> status, records |-> q.records + 1])
  BY <1>1, Zenon DEF RunAfter
<1>3. CASE Goes(r, [pc |-> "guard"])
  <2>1. PICK p : p = Changed(q, [pc |-> "guard"])
    OBVIOUS
  <2>2. req' = [req EXCEPT ![r] = p]
    BY <1>1, <1>3, <2>1, GoesOn
  <2>3. /\ DOMAIN p = Fields /\ p.pc = "guard" /\ p.ask = q.ask
        /\ p.work = q.work /\ p.scan = q.scan /\ p.sent = q.sent
        /\ p.reply = q.reply /\ p.error = q.error /\ p.check = q.check
        /\ p.shown = q.shown /\ p.rec = q.rec /\ p.records = q.records
    BY <1>1, <2>1, ChangedFields
  <2>4. Flow(p)
    BY <1>ask, <1>1, <2>3 DEF Flow, PCs, Live, Scanned
  <2>5. Clean(p)
    BY <1>1, <2>3 DEF Clean, PCs, Live, Scanned
  <2> QED
    BY <2>2, <2>4, <2>5, OneRequest DEF Good
<1>4. ASSUME NEW status, Ends(r, [status |-> status, records |-> q.records + 1])
      PROVE  DOMAIN req' = Requests /\ \A p \in Requests : Good(req'[p])
  <2>1. PICK p : p = Changed(Ended(q), [status |-> status, records |-> q.records + 1])
    OBVIOUS
  <2>2. req' = [req EXCEPT ![r] = p]
    BY <1>1, <1>4, <2>1, Returns
  <2>3. /\ DOMAIN p = Fields /\ p.pc = "done" /\ p.ask = q.ask
        /\ p.work = None /\ p.scan = None /\ p.sent = None /\ p.reply = None
        /\ p.error = None /\ p.check = None /\ p.shown = {} /\ p.rec = q.rec
        /\ p.records = q.records + 1
    BY <1>1, <2>1, ChangedFields, EndedFields
  <2>4. Flow(p)
    BY <1>ask, <1>1, <2>3 DEF Flow, PCs, Live, Scanned, Owed
  <2>5. Clean(p)
    BY <1>1, <2>3 DEF Clean, PCs, Live, Scanned
  <2> QED
    BY <2>2, <2>4, <2>5, OneRequest DEF Good
<1> QED
  BY <1>2, <1>3, <1>4

(* The response guardrails show only what may be shown.                    *)
LEMMA GuardGood ==
  ASSUME PipelineInv, NEW r \in Requests, Guard(r)
  PROVE  DOMAIN req' = Requests /\ \A p \in Requests : Good(req'[p])
<1>1. PICK q : /\ q = req[r] /\ Flow(q) /\ Clean(q) /\ DOMAIN q = Fields
               /\ q.pc = "guard"
  BY DEF PipelineInv, Good, Flow, Guard
<1>ask. q.ask \in Accepts /\ q.ask # None
  BY <1>1, LiveAsk DEF PCs, Live
<1>a. PICK c : c = config /\ c \in Normals
  BY DEF PipelineInv
<1>b. PICK settings, text, choices :
        /\ settings = EffectiveResponseSettings(c, PiiEnv, q.ask.auth.org, q.ask.auth.team)
        /\ choices = q.reply.choices
        /\ text = ExtractResponseText(choices)
  OBVIOUS
<1>d. PICK engine \in EngineOutcomes(req[r].reply.large) :
        LET text0 == ExtractResponseText(req[r].reply.choices)
            settings0 == EffectiveResponseSettings(config, PiiEnv, Auth(r).org, Auth(r).team)
            action == CheckResponse(settings0, text0, engine, HasKey)
            check == [config |-> config, engine |-> engine]
        IN  \/ /\ action \in {"allow", "error"}
               /\ Goes(r, [pc |-> "insert", check |-> check, records |-> req[r].records + 1])
            \/ /\ action = "reject"
               /\ Ends(r, [status |-> 400, check |-> check, records |-> req[r].records + 1])
            \/ /\ action = "redact"
               /\ Ends(r, [status |-> 200, check |-> check, records |-> req[r].records + 1,
                           shown |-> ExtractResponseText(
                             RedactResponseText(req[r].reply.choices,
                                                Rewritten(text0, settings0)))])
  BY Zenon DEF Guard, Guarded
<1>2. LET   action == CheckResponse(settings, text, engine, HasKey)
            check == [config |-> c, engine |-> engine]
        IN  \/ /\ action \in {"allow", "error"}
               /\ Goes(r, [pc |-> "insert", check |-> check, records |-> q.records + 1])
            \/ /\ action = "reject"
               /\ Ends(r, [status |-> 400, check |-> check, records |-> q.records + 1])
            \/ /\ action = "redact"
               /\ Ends(r, [status |-> 200, check |-> check, records |-> q.records + 1,
                           shown |-> ExtractResponseText(
                             RedactResponseText(choices, Rewritten(text, settings)))])
  BY <1>1, <1>a, <1>b, <1>d DEF Auth
<1>c. PICK action, check, shown :
        /\ action = CheckResponse(settings, text, engine, HasKey)
        /\ check = [config |-> c, engine |-> engine]
        /\ shown = ExtractResponseText(
                     RedactResponseText(choices, Rewritten(text, settings)))
  OBVIOUS
<1>3. ASSUME action \in {"allow", "error"},
             Goes(r, [pc |-> "insert", check |-> check, records |-> q.records + 1])
      PROVE  DOMAIN req' = Requests /\ \A p \in Requests : Good(req'[p])
  <2>a. Shows(check, q.ask.auth, ExtractResponseText(q.reply.choices))
    BY <1>a, <1>b, <1>c, <1>3, AllowedMayBeShown
  <2>1. PICK p : p = Changed(q, [pc |-> "insert", check |-> check, records |-> q.records + 1])
    OBVIOUS
  <2>2. req' = [req EXCEPT ![r] = p]
    BY <1>1, <1>3, <2>1, GoesOn
  <2>3. /\ DOMAIN p = Fields /\ p.pc = "insert" /\ p.ask = q.ask
        /\ p.work = q.work /\ p.scan = q.scan /\ p.sent = q.sent
        /\ p.reply = q.reply /\ p.error = q.error /\ p.check = check
        /\ p.shown = q.shown /\ p.rec = q.rec /\ p.records = q.records + 1
    BY <1>1, <2>1, ChangedFields
  <2>4. Flow(p)
    BY <1>ask, <1>1, <2>3 DEF Flow, PCs, Live, Scanned
  <2>5. Clean(p)
    BY <1>1, <2>3, <2>a DEF Clean, PCs, Live, Scanned
  <2> QED
    BY <2>2, <2>4, <2>5, OneRequest DEF Good
<1>4. ASSUME Ends(r, [status |-> 400, check |-> check, records |-> q.records + 1])
      PROVE  DOMAIN req' = Requests /\ \A p \in Requests : Good(req'[p])
  <2>1. PICK p : p = Changed(Ended(q), [status |-> 400, check |-> check, records |-> q.records + 1])
    OBVIOUS
  <2>2. req' = [req EXCEPT ![r] = p]
    BY <1>1, <1>4, <2>1, Returns
  <2>3. /\ DOMAIN p = Fields /\ p.pc = "done" /\ p.ask = q.ask
        /\ p.work = None /\ p.scan = None /\ p.sent = None /\ p.reply = None
        /\ p.error = None /\ p.check = check /\ p.shown = {}
        /\ p.rec = q.rec /\ p.records = q.records + 1
    BY <1>1, <2>1, ChangedFields, EndedFields
  <2>4. Flow(p)
    BY <1>ask, <1>1, <2>3 DEF Flow, PCs, Live, Scanned, Owed
  <2>5. Clean(p)
    BY <1>1, <2>3 DEF Clean, PCs, Live, Scanned
  <2> QED
    BY <2>2, <2>4, <2>5, OneRequest DEF Good
<1>5. ASSUME action = "redact",
             Ends(r, [status |-> 200, check |-> check, records |-> q.records + 1,
                      shown |-> shown])
      PROVE  DOMAIN req' = Requests /\ \A p \in Requests : Good(req'[p])
  <2>a. Shows(check, q.ask.auth, shown)
    BY <1>a, <1>b, <1>c, <1>5, RedactedMayBeShown
  <2>1. PICK p : p = Changed(Ended(q), [status |-> 200, check |-> check, records |-> q.records + 1,
                         shown |-> shown])
    OBVIOUS
  <2>2. req' = [req EXCEPT ![r] = p]
    BY <1>1, <1>5, <2>1, Returns
  <2>3. /\ DOMAIN p = Fields /\ p.pc = "done" /\ p.ask = q.ask
        /\ p.work = None /\ p.scan = None /\ p.sent = None /\ p.reply = None
        /\ p.error = None /\ p.check = check /\ p.shown = shown
        /\ p.rec = q.rec /\ p.records = q.records + 1
    BY <1>1, <2>1, ChangedFields, EndedFields
  <2>4. Flow(p)
    BY <1>ask, <1>1, <2>3 DEF Flow, PCs, Live, Scanned, Owed
  <2>5. Clean(p)
    BY <1>1, <2>3, <2>a DEF Clean, PCs, Live, Scanned
  <2> QED
    BY <2>2, <2>4, <2>5, OneRequest DEF Good
<1> QED
  BY <1>2, <1>3, <1>4, <1>5, <1>c

(* The client gets the answer that passed the guardrails.                  *)
LEMMA InsertGood ==
  ASSUME PipelineInv, NEW r \in Requests, Insert(r)
  PROVE  DOMAIN req' = Requests /\ \A p \in Requests : Good(req'[p])
<1>1. PICK q : /\ q = req[r] /\ Flow(q) /\ Clean(q) /\ DOMAIN q = Fields
               /\ q.pc = "insert"
  BY DEF PipelineInv, Good, Flow, Insert
<1>ask. q.ask \in Accepts /\ q.ask # None
  BY <1>1, LiveAsk DEF PCs, Live
<1>2. PICK text : text = ExtractResponseText(q.reply.choices)
  OBVIOUS
<1>3. Ends(r, [status |-> 200, check |-> q.check, shown |-> text])
  BY <1>1, <1>2 DEF Insert
<1>4. DOMAIN req' = Requests /\ \A p \in Requests : Good(req'[p])
  <2>1. PICK p : p = Changed(Ended(q), [status |-> 200, check |-> q.check, shown |-> text])
    OBVIOUS
  <2>2. req' = [req EXCEPT ![r] = p]
    BY <1>1, <1>3, <2>1, Returns
  <2>3. /\ DOMAIN p = Fields /\ p.pc = "done" /\ p.ask = q.ask
        /\ p.work = None /\ p.scan = None /\ p.sent = None /\ p.reply = None
        /\ p.error = None /\ p.check = q.check /\ p.shown = text
        /\ p.rec = q.rec /\ p.records = q.records
    BY <1>1, <2>1, ChangedFields, EndedFields
  <2>4. Flow(p)
    BY <1>ask, <1>1, <2>3 DEF Flow, PCs, Live, Scanned, Owed
  <2>5. Clean(p)
    BY <1>1, <2>3, <1>2 DEF Clean, PCs, Live, Scanned
  <2> QED
    BY <2>2, <2>4, <2>5, OneRequest DEF Good
<1> QED
  BY <1>4

-----------------------------------------------------------------------------
(* Streams.                                                                *)

(* What may happen to a recorder keeps it one.                             *)
LEMMA RecorderSteps ==
  ASSUME NEW rec \in Recorders
  PROVE  /\ rec # None
         /\ [rec EXCEPT !.recorded = TRUE] \in Recorders
         /\ [rec EXCEPT !.recorded = TRUE].recorded
         /\ [rec EXCEPT !.error = "stream"] \in Recorders
         /\ [rec EXCEPT !.error = "stream"].recorded = rec.recorded
         /\ \A b \in BOOLEAN : /\ [rec EXCEPT !.scanned = b] \in Recorders
                               /\ [rec EXCEPT !.scanned = b].recorded = rec.recorded
         /\ rec.recorded \in BOOLEAN /\ rec.scanned \in BOOLEAN
  BY OptionAssumption DEF Recorders

(* A chunk that fits.                                                      *)
LEMMA ObservedRecorder ==
  ASSUME NEW rec \in Recorders, NEW chunk \in Chunks, rec.chunks < MaxChunks
  PROVE  /\ Observed(rec, chunk) \in Recorders
         /\ Observed(rec, chunk).recorded = rec.recorded
         /\ Observed(rec, chunk).error = rec.error
<1>1. PICK u, b, n :
        /\ u = IF chunk.usage = None THEN rec.usage ELSE chunk.usage
        /\ b = IF rec.chunks < BufferLimit THEN rec.buffer \cup chunk.text ELSE rec.buffer
        /\ n = rec.chunks + 1
  OBVIOUS
<1>2. /\ u \in {None} \cup {c.usage : c \in Chunks}
      /\ b \in SUBSET UNION {c.text : c \in Chunks}
  BY <1>1 DEF Recorders
<1>3. n \in 0..MaxChunks
  BY <1>1, PipelineAssumption DEF Recorders
<1>4. Observed(rec, chunk) = [rec EXCEPT !.usage = u, !.buffer = b, !.chunks = n]
  BY <1>1 DEF Observed, Recorders
<1> QED
  BY <1>2, <1>3, <1>4 DEF Recorders

(* The recorder's record, once.                                            *)
LEMMA FinishOnce ==
  ASSUME NEW r, tick \in Nat, RecorderFinish(r), req[r].rec.recorded \in BOOLEAN
  PROVE  tick' - tick = IF req[r].rec.recorded THEN 0 ELSE 1
  BY DEF RecorderFinish, RecordUsage

(* A stream starts with its recorder.                                      *)
LEMMA StreamOpensGood ==
  ASSUME PipelineInv, NEW r \in Requests, StreamOpens(r)
  PROVE  DOMAIN req' = Requests /\ \A p \in Requests : Good(req'[p])
<1>1. PICK q : /\ q = req[r] /\ Flow(q) /\ Clean(q) /\ DOMAIN q = Fields
               /\ q.pc = "wait" /\ q.ask.body.stream
  BY DEF PipelineInv, Good, Flow, StreamOpens, Stream
<1>ask. q.ask \in Accepts /\ q.ask # None
  BY <1>1, LiveAsk DEF PCs, Live
<1>2. PICK rec : rec = [usage |-> None, error |-> None, recorded |-> FALSE,
                        buffer |-> {}, chunks |-> 0, scanned |-> FALSE]
  OBVIOUS
<1>3. rec \in Recorders /\ rec.recorded = FALSE
  BY <1>2, PipelineAssumption DEF Recorders
<1>4. Goes(r, [pc |-> "stream", rec |-> rec])
  BY <1>2 DEF StreamOpens
<1>5. DOMAIN req' = Requests /\ \A p \in Requests : Good(req'[p])
  <2>1. PICK p : p = Changed(q, [pc |-> "stream", rec |-> rec])
    OBVIOUS
  <2>2. req' = [req EXCEPT ![r] = p]
    BY <1>1, <1>4, <2>1, GoesOn
  <2>3. /\ DOMAIN p = Fields /\ p.pc = "stream" /\ p.ask = q.ask
        /\ p.work = q.work /\ p.scan = q.scan /\ p.sent = q.sent
        /\ p.reply = q.reply /\ p.error = q.error /\ p.check = q.check
        /\ p.shown = q.shown /\ p.rec = rec /\ p.records = q.records
    BY <1>1, <2>1, ChangedFields
  <2>4. Flow(p)
    BY <1>ask, <1>1, <2>3, <1>3 DEF Flow, PCs, Live, Scanned
  <2>5. Clean(p)
    BY <1>1, <2>3 DEF Clean, PCs, Live, Scanned
  <2> QED
    BY <2>2, <2>4, <2>5, OneRequest DEF Good
<1> QED
  BY <1>5

(* A chunk is observed and passed on, or ends the stream.                  *)
LEMMA StreamChunkGood ==
  ASSUME PipelineInv, NEW r \in Requests, StreamChunk(r)
  PROVE  DOMAIN req' = Requests /\ \A p \in Requests : Good(req'[p])
<1>1. PICK q : /\ q = req[r] /\ Flow(q) /\ Clean(q) /\ DOMAIN q = Fields
               /\ q.pc = "stream" /\ q.rec.chunks < MaxChunks
  BY DEF PipelineInv, Good, Flow, StreamChunk
<1>ask. q.ask \in Accepts /\ q.ask # None
  BY <1>1, LiveAsk DEF PCs, Live
<1>a. q.rec \in Recorders
  BY <1>1 DEF Flow
<1>2. PICK chunk \in Chunks :
        IF Observed(q.rec, chunk).error = None
        THEN Goes(r, [rec |-> Observed(q.rec, chunk), shown |-> q.shown \cup chunk.text])
        ELSE Goes(r, [pc |-> "closing", rec |-> Observed(q.rec, chunk)])
  BY <1>1 DEF StreamChunk
<1>3. PICK rec : rec = Observed(q.rec, chunk)
  OBVIOUS
<1>4. rec \in Recorders /\ rec.recorded = q.rec.recorded
  BY <1>1, <1>3, <1>a, ObservedRecorder
<1>5. ASSUME Goes(r, [rec |-> rec, shown |-> q.shown \cup chunk.text])
      PROVE  DOMAIN req' = Requests /\ \A p \in Requests : Good(req'[p])
  <2>1. PICK p : p = Changed(q, [rec |-> rec, shown |-> q.shown \cup chunk.text])
    OBVIOUS
  <2>2. req' = [req EXCEPT ![r] = p]
    BY <1>1, <1>5, <2>1, GoesOn
  <2>3. /\ DOMAIN p = Fields /\ p.pc = q.pc /\ p.ask = q.ask
        /\ p.work = q.work /\ p.scan = q.scan /\ p.sent = q.sent
        /\ p.reply = q.reply /\ p.error = q.error /\ p.check = q.check
        /\ p.shown = q.shown \cup chunk.text /\ p.rec = rec
        /\ p.records = q.records
    BY <1>1, <2>1, ChangedFields
  <2>4. Flow(p)
    BY <1>ask, <1>1, <2>3, <1>4 DEF Flow, PCs, Live, Scanned
  <2>5. Clean(p)
    BY <1>1, <2>3 DEF Clean, PCs, Live, Scanned
  <2> QED
    BY <2>2, <2>4, <2>5, OneRequest DEF Good
<1>6. CASE Goes(r, [pc |-> "closing", rec |-> rec])
  <2>1. PICK p : p = Changed(q, [pc |-> "closing", rec |-> rec])
    OBVIOUS
  <2>2. req' = [req EXCEPT ![r] = p]
    BY <1>1, <1>6, <2>1, GoesOn
  <2>3. /\ DOMAIN p = Fields /\ p.pc = "closing" /\ p.ask = q.ask
        /\ p.work = q.work /\ p.scan = q.scan /\ p.sent = q.sent
        /\ p.reply = q.reply /\ p.error = q.error /\ p.check = q.check
        /\ p.shown = q.shown /\ p.rec = rec /\ p.records = q.records
    BY <1>1, <2>1, ChangedFields
  <2>4. Flow(p)
    BY <1>ask, <1>1, <2>3, <1>4 DEF Flow, PCs, Live, Scanned
  <2>5. Clean(p)
    BY <1>1, <2>3 DEF Clean, PCs, Live, Scanned
  <2> QED
    BY <2>2, <2>4, <2>5, OneRequest DEF Good
<1> QED
  BY <1>2, <1>3, <1>5, <1>6

(* The error event.                                                        *)
LEMMA StreamFailsGood ==
  ASSUME PipelineInv, NEW r \in Requests, StreamFails(r)
  PROVE  DOMAIN req' = Requests /\ \A p \in Requests : Good(req'[p])
<1>1. PICK q : /\ q = req[r] /\ Flow(q) /\ Clean(q) /\ DOMAIN q = Fields
               /\ q.pc = "stream"
  BY DEF PipelineInv, Good, Flow, StreamFails
<1>ask. q.ask \in Accepts /\ q.ask # None
  BY <1>1, LiveAsk DEF PCs, Live
<1>a. q.rec \in Recorders
  BY <1>1 DEF Flow
<1>3. PICK rec : rec = [q.rec EXCEPT !.error = "stream"]
  OBVIOUS
<1>4. rec \in Recorders /\ rec.recorded = q.rec.recorded
  BY <1>3, <1>a, RecorderSteps
<1>5. Goes(r, [rec |-> rec, shown |-> q.shown \cup {"error"}])
  BY <1>1, <1>3 DEF StreamFails
<1>6. DOMAIN req' = Requests /\ \A p \in Requests : Good(req'[p])
  <2>1. PICK p : p = Changed(q, [rec |-> rec, shown |-> q.shown \cup {"error"}])
    OBVIOUS
  <2>2. req' = [req EXCEPT ![r] = p]
    BY <1>1, <1>5, <2>1, GoesOn
  <2>3. /\ DOMAIN p = Fields /\ p.pc = q.pc /\ p.ask = q.ask
        /\ p.work = q.work /\ p.scan = q.scan /\ p.sent = q.sent
        /\ p.reply = q.reply /\ p.error = q.error /\ p.check = q.check
        /\ p.shown = q.shown \cup {"error"} /\ p.rec = rec
        /\ p.records = q.records
    BY <1>1, <2>1, ChangedFields
  <2>4. Flow(p)
    BY <1>ask, <1>1, <2>3, <1>4 DEF Flow, PCs, Live, Scanned
  <2>5. Clean(p)
    BY <1>1, <2>3 DEF Clean, PCs, Live, Scanned
  <2> QED
    BY <2>2, <2>4, <2>5, OneRequest DEF Good
<1> QED
  BY <1>6

(* The recorder fires at the end of the stream.                            *)
LEMMA StreamEndsGood ==
  ASSUME PipelineInv, NEW r \in Requests, StreamEnds(r)
  PROVE  DOMAIN req' = Requests /\ \A p \in Requests : Good(req'[p])
<1>1. PICK q : /\ q = req[r] /\ Flow(q) /\ Clean(q) /\ DOMAIN q = Fields
               /\ q.pc = "stream"
  BY DEF PipelineInv, Good, Flow, StreamEnds
<1>ask. q.ask \in Accepts /\ q.ask # None
  BY <1>1, LiveAsk DEF PCs, Live
<1>a. q.rec \in Recorders /\ q.rec.recorded \in BOOLEAN
  BY <1>1, RecorderSteps DEF Flow
<1>b. PICK n : n = tick' - tick /\ n = IF q.rec.recorded THEN 0 ELSE 1
  BY <1>1, <1>a, FinishOnce DEF StreamEnds, PipelineInv
<1>c. q.records + n = 1 /\ q.ask.body.stream
  BY <1>1, <1>a, <1>b DEF Flow
<1>3. PICK rec : rec = [Recorded(r) EXCEPT !.scanned = @ \/ req[r].rec.buffer # {}]
  OBVIOUS
<1>4. rec \in Recorders /\ rec.recorded
  <2>a. PICK fired : fired = Recorded(r)
    OBVIOUS
  <2>1. fired \in Recorders /\ fired.recorded
    BY <1>1, <1>a, <2>a, RecorderSteps DEF Recorded
  <2>2. rec = [fired EXCEPT !.scanned = (fired.scanned \/ q.rec.buffer # {})]
    BY <1>1, <1>3, <2>a, <2>1 DEF Recorders
  <2> QED
    BY <2>1, <2>2, RecorderSteps
<1>5. PICK s, m : s = 200 /\ m = q.records + n
                  /\ Goes(r, [pc |-> "closing", status |-> s, rec |-> rec, records |-> m])
  <2>1. Goes(r, [pc |-> "closing", status |-> 200, rec |-> rec,
                 records |-> req[r].records + (tick' - tick)])
    BY <1>3, Zenon DEF StreamEnds
  <2> QED
    BY <1>1, <1>b, <2>1
<1>6. DOMAIN req' = Requests /\ \A p \in Requests : Good(req'[p])
  <2>1. PICK p : p = Changed(q, [pc |-> "closing", status |-> s, rec |-> rec, records |-> m])
    OBVIOUS
  <2>2. req' = [req EXCEPT ![r] = p]
    BY <1>1, <1>5, <2>1, GoesOn
  <2>3. /\ DOMAIN p = Fields /\ p.pc = "closing" /\ p.ask = q.ask
        /\ p.work = q.work /\ p.scan = q.scan /\ p.sent = q.sent
        /\ p.reply = q.reply /\ p.error = q.error /\ p.check = q.check
        /\ p.shown = q.shown /\ p.rec = rec /\ p.records = m
    BY <1>1, <2>1, ChangedFields
  <2>4. Flow(p)
    BY <1>ask, <1>1, <2>3, <1>4, <1>5, <1>c DEF Flow, PCs, Live, Scanned
  <2>5. Clean(p)
    BY <1>1, <2>3 DEF Clean, PCs, Live, Scanned
  <2> QED
    BY <2>2, <2>4, <2>5, OneRequest DEF Good
<1> QED
  BY <1>6

(* The recorder fires at the latest when it is dropped.                    *)
LEMMA DropStreamGood ==
  ASSUME PipelineInv, NEW r \in Requests, DropStream(r)
  PROVE  DOMAIN req' = Requests /\ \A p \in Requests : Good(req'[p])
<1>1. PICK q : /\ q = req[r] /\ Flow(q) /\ Clean(q) /\ DOMAIN q = Fields
               /\ q.pc = "closing"
  BY DEF PipelineInv, Good, Flow, DropStream
<1>ask. q.ask \in Accepts /\ q.ask # None
  BY <1>1, LiveAsk DEF PCs, Live
<1>a. q.rec \in Recorders /\ q.rec.recorded \in BOOLEAN
  BY <1>1, RecorderSteps DEF Flow
<1>b. PICK n : n = tick' - tick /\ n = IF q.rec.recorded THEN 0 ELSE 1
  BY <1>1, <1>a, FinishOnce DEF DropStream, PipelineInv
<1>c. q.records + n = 1 /\ q.ask.body.stream
  BY <1>1, <1>a, <1>b DEF Flow
<1>3. PICK rec : rec = [q.rec EXCEPT !.recorded = TRUE]
  OBVIOUS
<1>4. rec \in Recorders /\ rec.recorded /\ rec # None
  BY <1>3, <1>a, RecorderSteps
<1>5. PICK s, m : s = 200 /\ m = q.records + n
                  /\ Ends(r, [status |-> s, rec |-> rec, records |-> m])
  BY <1>1, <1>3, <1>b DEF DropStream, Recorded
<1>6. DOMAIN req' = Requests /\ \A p \in Requests : Good(req'[p])
  <2>1. PICK p : p = Changed(Ended(q), [status |-> s, rec |-> rec, records |-> m])
    OBVIOUS
  <2>2. req' = [req EXCEPT ![r] = p]
    BY <1>1, <1>5, <2>1, Returns
  <2>3. /\ DOMAIN p = Fields /\ p.pc = "done" /\ p.ask = q.ask
        /\ p.work = None /\ p.scan = None /\ p.sent = None /\ p.reply = None
        /\ p.error = None /\ p.check = None /\ p.shown = {} /\ p.rec = rec
        /\ p.records = m
    BY <1>1, <2>1, ChangedFields, EndedFields
  <2>4. Flow(p)
    BY <1>ask, <1>1, <2>3, <1>4, <1>5, <1>c DEF Flow, PCs, Live, Scanned, Owed
  <2>5. Clean(p)
    BY <1>1, <2>3 DEF Clean, PCs, Live, Scanned
  <2> QED
    BY <2>2, <2>4, <2>5, OneRequest DEF Good
<1> QED
  BY <1>6

(* A client hangs up at any await.                                         *)
LEMMA DisconnectGood ==
  ASSUME PipelineInv, NEW r \in Requests, Disconnect(r)
  PROVE  DOMAIN req' = Requests /\ \A p \in Requests : Good(req'[p])
<1>1. PICK q : /\ q = req[r] /\ Flow(q) /\ Clean(q) /\ DOMAIN q = Fields
               /\ q.pc \in Live
  BY DEF PipelineInv, Good, Flow, Disconnect, PCs, Live
<1>ask. q.ask \in Accepts /\ q.ask # None
  BY <1>1, LiveAsk DEF PCs, Live
<1>2. CASE q.rec = None
  <2>a. Ends(r, [pc |-> "gone"])
    BY <1>1, <1>2 DEF Disconnect
  <2>1. PICK p : p = Changed(Ended(q), [pc |-> "gone"])
    OBVIOUS
  <2>2. req' = [req EXCEPT ![r] = p]
    BY <1>1, <2>a, <2>1, Returns
  <2>3. /\ DOMAIN p = Fields /\ p.pc = "gone" /\ p.ask = q.ask
        /\ p.work = None /\ p.scan = None /\ p.sent = None /\ p.reply = None
        /\ p.error = None /\ p.check = None /\ p.shown = {} /\ p.rec = q.rec
        /\ p.records = q.records
    BY <1>1, <2>1, ChangedFields, EndedFields
  <2>4. Flow(p)
    BY <1>ask, <1>1, <2>3, <1>2 DEF Flow, PCs, Live, Scanned, Owed
  <2>5. Clean(p)
    BY <1>1, <2>3 DEF Clean, PCs, Live, Scanned
  <2> QED
    BY <2>2, <2>4, <2>5, OneRequest DEF Good
<1>3. CASE q.rec # None
  <2>a. q.pc \in Streaming /\ q.rec \in Recorders /\ q.rec.recorded \in BOOLEAN
    BY <1>1, <1>3, RecorderSteps DEF Flow
  <2>b. PICK n : n = tick' - tick /\ n = IF q.rec.recorded THEN 0 ELSE 1
    BY <1>1, <1>3, <2>a, FinishOnce DEF Disconnect, PipelineInv
  <2>c. q.records + n = 1 /\ q.ask.body.stream
    BY <1>1, <2>a, <2>b DEF Flow
  <2>d. PICK rec : rec = [q.rec EXCEPT !.recorded = TRUE]
    OBVIOUS
  <2>e. rec \in Recorders /\ rec # None
    BY <2>a, <2>d, RecorderSteps
  <2>f. PICK m : m = q.records + n /\ Ends(r, [pc |-> "gone", rec |-> rec, records |-> m])
    BY <1>1, <1>3, <2>b, <2>d DEF Disconnect, Recorded
  <2>1. PICK p : p = Changed(Ended(q), [pc |-> "gone", rec |-> rec, records |-> m])
    OBVIOUS
  <2>2. req' = [req EXCEPT ![r] = p]
    BY <1>1, <2>f, <2>1, Returns
  <2>3. /\ DOMAIN p = Fields /\ p.pc = "gone" /\ p.ask = q.ask
        /\ p.work = None /\ p.scan = None /\ p.sent = None /\ p.reply = None
        /\ p.error = None /\ p.check = None /\ p.shown = {} /\ p.rec = rec
        /\ p.records = m
    BY <1>1, <2>1, ChangedFields, EndedFields
  <2>4. Flow(p)
    BY <1>ask, <1>1, <2>3, <2>c, <2>e, <2>f DEF Flow, PCs, Live, Scanned, Owed
  <2>5. Clean(p)
    BY <1>1, <2>3 DEF Clean, PCs, Live, Scanned
  <2> QED
    BY <2>2, <2>4, <2>5, OneRequest DEF Good
<1> QED
  BY <1>2, <1>3

-----------------------------------------------------------------------------
(* Embeddings.                                                             *)

(* The targets of an embedding.                                            *)
LEMMA EmbedSelectGood ==
  ASSUME PipelineInv, NEW r \in Requests, EmbedSelect(r)
  PROVE  DOMAIN req' = Requests /\ \A p \in Requests : Good(req'[p])
<1>1. PICK q : /\ q = req[r] /\ Flow(q) /\ Clean(q) /\ DOMAIN q = Fields
               /\ q.pc = "embed"
  BY DEF PipelineInv, Good, Flow, EmbedSelect
<1>ask. q.ask \in Accepts /\ q.ask # None
  BY <1>1, LiveAsk DEF PCs, Live
<1>2. \/ \E e : Ends(r, [error |-> e, status |-> StatusCode(e)])
      \/ \E left : Goes(r, [order |-> left, error |-> "internal"])
  BY <1>1 DEF EmbedSelect
<1>3. ASSUME NEW e, Ends(r, [error |-> e, status |-> StatusCode(e)])
      PROVE  DOMAIN req' = Requests /\ \A p \in Requests : Good(req'[p])
  <2>1. PICK p : p = Changed(Ended(q), [error |-> e, status |-> StatusCode(e)])
    OBVIOUS
  <2>2. req' = [req EXCEPT ![r] = p]
    BY <1>1, <1>3, <2>1, Returns
  <2>3. /\ DOMAIN p = Fields /\ p.pc = "done" /\ p.ask = q.ask
        /\ p.work = None /\ p.scan = None /\ p.sent = None /\ p.reply = None
        /\ p.error = e /\ p.check = None /\ p.shown = {} /\ p.rec = q.rec
        /\ p.records = q.records
    BY <1>1, <2>1, ChangedFields, EndedFields
  <2>4. Flow(p)
    BY <1>ask, <1>1, <2>3 DEF Flow, PCs, Live, Scanned, Owed
  <2>5. Clean(p)
    BY <1>1, <2>3 DEF Clean, PCs, Live, Scanned
  <2> QED
    BY <2>2, <2>4, <2>5, OneRequest DEF Good
<1>4. ASSUME NEW left, Goes(r, [order |-> left, error |-> "internal"])
      PROVE  DOMAIN req' = Requests /\ \A p \in Requests : Good(req'[p])
  <2>1. PICK p : p = Changed(q, [order |-> left, error |-> "internal"])
    OBVIOUS
  <2>2. req' = [req EXCEPT ![r] = p]
    BY <1>1, <1>4, <2>1, GoesOn
  <2>3. /\ DOMAIN p = Fields /\ p.pc = q.pc /\ p.ask = q.ask
        /\ p.work = q.work /\ p.scan = q.scan /\ p.sent = q.sent
        /\ p.reply = q.reply /\ p.error = "internal" /\ p.check = q.check
        /\ p.shown = q.shown /\ p.rec = q.rec /\ p.records = q.records
    BY <1>1, <2>1, ChangedFields
  <2>4. Flow(p)
    BY <1>ask, <1>1, <2>3 DEF Flow, PCs, Live, Scanned
  <2>5. Clean(p)
    BY <1>1, <2>3 DEF Clean, PCs, Live, Scanned
  <2> QED
    BY <2>2, <2>4, <2>5, OneRequest DEF Good
<1> QED
  BY <1>2, <1>3, <1>4

(* One target of an embedding.                                             *)
LEMMA EmbedTryGood ==
  ASSUME PipelineInv, NEW r \in Requests, EmbedTry(r)
  PROVE  DOMAIN req' = Requests /\ \A p \in Requests : Good(req'[p])
<1>1. PICK q : /\ q = req[r] /\ Flow(q) /\ Clean(q) /\ DOMAIN q = Fields
               /\ q.pc = "embed"
  BY DEF PipelineInv, Good, Flow, EmbedTry
<1>ask. q.ask \in Accepts /\ q.ask # None
  BY <1>1, LiveAsk DEF PCs, Live
<1>2. \/ \E e, s : Ends(r, [status |-> s, error |-> e])
      \/ \E e, s : Ends(r, [error |-> e, status |-> s])
      \/ \E left, e : Goes(r, [order |-> left, error |-> e])
  BY <1>1, Zenon DEF EmbedTry
<1>3. ASSUME NEW e, NEW s, Ends(r, [status |-> s, error |-> e])
      PROVE  DOMAIN req' = Requests /\ \A p \in Requests : Good(req'[p])
  <2>1. PICK p : p = Changed(Ended(q), [status |-> s, error |-> e])
    OBVIOUS
  <2>2. req' = [req EXCEPT ![r] = p]
    BY <1>1, <1>3, <2>1, Returns
  <2>3. /\ DOMAIN p = Fields /\ p.pc = "done" /\ p.ask = q.ask
        /\ p.work = None /\ p.scan = None /\ p.sent = None /\ p.reply = None
        /\ p.error = e /\ p.check = None /\ p.shown = {} /\ p.rec = q.rec
        /\ p.records = q.records
    BY <1>1, <2>1, ChangedFields, EndedFields
  <2>4. Flow(p)
    BY <1>ask, <1>1, <2>3 DEF Flow, PCs, Live, Scanned, Owed
  <2>5. Clean(p)
    BY <1>1, <2>3 DEF Clean, PCs, Live, Scanned
  <2> QED
    BY <2>2, <2>4, <2>5, OneRequest DEF Good
<1>5. ASSUME NEW e, NEW s, Ends(r, [error |-> e, status |-> s])
      PROVE  DOMAIN req' = Requests /\ \A p \in Requests : Good(req'[p])
  <2>1. PICK p : p = Changed(Ended(q), [error |-> e, status |-> s])
    OBVIOUS
  <2>2. req' = [req EXCEPT ![r] = p]
    BY <1>1, <1>5, <2>1, Returns
  <2>3. /\ DOMAIN p = Fields /\ p.pc = "done" /\ p.ask = q.ask
        /\ p.work = None /\ p.scan = None /\ p.sent = None /\ p.reply = None
        /\ p.error = e /\ p.check = None /\ p.shown = {} /\ p.rec = q.rec
        /\ p.records = q.records
    BY <1>1, <2>1, ChangedFields, EndedFields
  <2>4. Flow(p)
    BY <1>ask, <1>1, <2>3 DEF Flow, PCs, Live, Scanned, Owed
  <2>5. Clean(p)
    BY <1>1, <2>3 DEF Clean, PCs, Live, Scanned
  <2> QED
    BY <2>2, <2>4, <2>5, OneRequest DEF Good
<1>4. ASSUME NEW left, NEW e, Goes(r, [order |-> left, error |-> e])
      PROVE  DOMAIN req' = Requests /\ \A p \in Requests : Good(req'[p])
  <2>1. PICK p : p = Changed(q, [order |-> left, error |-> e])
    OBVIOUS
  <2>2. req' = [req EXCEPT ![r] = p]
    BY <1>1, <1>4, <2>1, GoesOn
  <2>3. /\ DOMAIN p = Fields /\ p.pc = q.pc /\ p.ask = q.ask
        /\ p.work = q.work /\ p.scan = q.scan /\ p.sent = q.sent
        /\ p.reply = q.reply /\ p.error = e /\ p.check = q.check
        /\ p.shown = q.shown /\ p.rec = q.rec /\ p.records = q.records
    BY <1>1, <2>1, ChangedFields
  <2>4. Flow(p)
    BY <1>ask, <1>1, <2>3 DEF Flow, PCs, Live, Scanned
  <2>5. Clean(p)
    BY <1>1, <2>3 DEF Clean, PCs, Live, Scanned
  <2> QED
    BY <2>2, <2>4, <2>5, OneRequest DEF Good
<1> QED
  BY <1>2, <1>3, <1>4, <1>5

-----------------------------------------------------------------------------
(* The invariant.                                                          *)

(* The configuration in force is a normal one, and the clock a number.     *)
LEMMA SettingsKept ==
  ASSUME PipelineInv, [Next]_vars
  PROVE  config' \in Normals /\ tick' \in Nat
<1>1. ASSUME NEW r, NEW request, NEW provider, NEW u, NEW response, NEW error,
             RecordFull(r, request, provider, u, response, error)
      PROVE  tick' = tick + 1
  BY <1>1, FullRecord
<1>2. ASSUME NEW r, NEW error, Refuse(r, error)
      PROVE  tick' = tick + 1 \/ tick' = tick
  <2>1. CASE Stream(r) \/ req[r].ask.kind = "embed"
    BY <1>2, <2>1 DEF Refuse
  <2>2. CASE ~(Stream(r) \/ req[r].ask.kind = "embed")
    BY <1>1, <1>2, <2>2, Zenon DEF Refuse
  <2> QED
    BY <2>1, <2>2
<1>3. ASSUME NEW r, RecorderFinish(r)
      PROVE  tick' = tick + 1 \/ tick' = tick
  BY <1>3, Zenon DEF RecorderFinish, RecordUsage
<1>4. ASSUME NEW r \in Requests,
             Arrive(r) \/ Step(r) \/ StreamChunk(r) \/ StreamFails(r) \/ Disconnect(r)
      PROVE  config' = config /\ (tick' = tick + 1 \/ tick' = tick)
  <2>1. CASE \/ Arrive(r) \/ CacheLookup(r) \/ Select(r) \/ Dispatch(r) \/ Unreachable(r)
             \/ CallFails(r) \/ CallAnswers(r) \/ EmbedSelect(r) \/ EmbedTry(r)
             \/ StreamChunk(r) \/ StreamFails(r)
    <3>1. UNCHANGED <<config, changes, peak, stores>>
      BY <2>1, Zenon DEF Arrive, CacheLookup, Select, Dispatch, Unreachable, CallFails,
           CallAnswers, EmbedSelect, EmbedTry, StreamChunk, StreamFails
    <3> QED
      BY <3>1 DEF stores
  <2>2. CASE Prepare(r) \/ RunPii(r) \/ RunPlugins(r)
    <3>1. UNCHANGED config
      BY <2>2, Zenon DEF Prepare, RunPii, RunPlugins
    <3>2. UNCHANGED <<usage, logs, tick, audit>> \/ \E error : Refuse(r, error)
      BY <2>2, Zenon DEF Prepare, RunPii, RunPlugins
    <3> QED
      BY <1>2, <3>1, <3>2
  <2>3. CASE RunAfter(r)
    <3>1. UNCHANGED config
      BY <2>3 DEF RunAfter
    <3>2. \/ UNCHANGED <<usage, logs, tick, audit>>
          \/ RecordFull(r, req[r].work, req[r].target, None, {}, req[r].error)
      BY <2>3, Zenon DEF RunAfter
    <3> QED
      BY <1>1, <3>1, <3>2
  <2>4. CASE Guard(r)
    <3>1. UNCHANGED config
      BY <2>4, Zenon DEF Guard
    <3>2. \E request, provider, u, response, error :
            RecordFull(r, request, provider, u, response, error)
      BY <2>4, Zenon DEF Guard
    <3> QED
      BY <1>1, <3>1, <3>2
  <2>5. CASE Insert(r) \/ StreamOpens(r)
    BY <2>5 DEF Insert, StreamOpens
  <2>6. CASE StreamEnds(r) \/ DropStream(r) \/ Disconnect(r)
    <3>1. UNCHANGED config
      BY <2>6, Zenon DEF StreamEnds, DropStream, Disconnect
    <3>2. UNCHANGED <<usage, logs, tick>> \/ RecorderFinish(r)
      BY <2>6, Zenon DEF StreamEnds, DropStream, Disconnect
    <3> QED
      BY <1>3, <3>1, <3>2
  <2> QED
    BY <1>4, <2>1, <2>2, <2>3, <2>4, <2>5, <2>6 DEF Step
<1>5. CASE ApplyConfig
  BY <1>5 DEF ApplyConfig, Normalized, Normals, PipelineInv
<1>6. CASE PurgeLogs \/ WriteAudit \/ Quiet \/ UNCHANGED vars
  BY <1>6 DEF PurgeLogs, WriteAudit, Quiet, vars, PipelineInv
<1> QED
  BY <1>4, <1>5, <1>6 DEF Next, PipelineInv

(* The initial states.                                                     *)
LEMMA PipelineInit == Init => PipelineInv
<1> SUFFICES ASSUME Init PROVE PipelineInv
  OBVIOUS
<1>1. config \in Normals /\ tick \in Nat /\ req = [r \in Requests |-> Start]
  BY DEF Init, Normals
<1>2. /\ DOMAIN Start = Fields /\ Start.pc = "idle" /\ Start.ask = None
      /\ Start.rec = None /\ Start.records = 0 /\ Start.scan = None
      /\ Start.sent = None /\ Start.check = None /\ Start.shown = {}
  BY DEF Start, Fields
<1>3. Good(Start)
  BY <1>2 DEF Good, Flow, Clean, PCs, Live, Scanned
<1> QED
  BY <1>1, <1>3 DEF PipelineInv

(* Every step.                                                             *)
LEMMA PipelineNext == PipelineInv /\ [Next]_vars => PipelineInv'
<1> SUFFICES ASSUME PipelineInv, [Next]_vars PROVE PipelineInv'
  OBVIOUS
<1>1. config' \in Normals /\ tick' \in Nat
  BY SettingsKept
<1>2. DOMAIN req' = Requests /\ \A p \in Requests : Good(req'[p])
  <2>1. CASE ApplyConfig \/ PurgeLogs \/ WriteAudit \/ Quiet \/ UNCHANGED vars
    <3>1. req' = req
      BY <2>1 DEF ApplyConfig, PurgeLogs, WriteAudit, Quiet, vars
    <3> QED
      BY <3>1 DEF PipelineInv
  <2>2. ASSUME NEW r \in Requests,
               Arrive(r) \/ Step(r) \/ StreamChunk(r) \/ StreamFails(r) \/ Disconnect(r)
        PROVE  DOMAIN req' = Requests /\ \A p \in Requests : Good(req'[p])
    BY <2>2, ArriveGood, PrepareGood, RunPiiGood, RunPluginsGood, CacheLookupGood,
       SelectGood, DispatchGood, UnreachableGood, CallFailsGood, CallAnswersGood,
       RunAfterGood, GuardGood, InsertGood, StreamOpensGood, StreamChunkGood,
       StreamFailsGood, StreamEndsGood, DropStreamGood, DisconnectGood,
       EmbedSelectGood, EmbedTryGood, Zenon DEF Step
  <2> QED
    BY <2>1, <2>2 DEF Next
<1> QED
  BY <1>1, <1>2 DEF PipelineInv

(* The invariant holds in every reachable state.                           *)
THEOREM PipelineInvariant == Spec => []PipelineInv
  BY PipelineInit, PipelineNext, PTL DEF Spec

(* A finished request left one usage record, however it ended, and what    *)
(* leaves no record left none: for any number of requests in flight, any   *)
(* configuration changes and clients that hang up at any await.            *)
THEOREM PipelineAccountedOnce == Spec => []AccountedOnce
<1>1. PipelineInv => AccountedOnce
  <2> SUFFICES ASSUME PipelineInv, NEW r \in Requests
               PROVE  /\ req[r].records <= 1
                      /\ req[r].pc \in {"done", "gone"} /\ Accountable(r)
                           => req[r].records = 1
                      /\ req[r].pc = "done" /\ ~Accountable(r) => req[r].records = 0
    BY DEF AccountedOnce
  <2>1. Flow(req[r])
    BY DEF PipelineInv, Good
  <2>2. Accountable(r) <=> Owed(req[r])
    BY DEF Accountable, Owed, Stream
  <2> QED
    BY <2>1, <2>2 DEF Flow
<1> QED
  BY <1>1, PipelineInvariant, PTL

(* No provider is ever sent an entity that the section governing the       *)
(* request wants withheld from it: for any configurations applied in any   *)
(* order, any requests and any failure of the engine, with an operator's   *)
(* fail_open the only way out.                                             *)
THEOREM PipelinePiiWithheld == Spec => []PiiWithheld
<1>1. PipelineInv => PiiWithheld
  <2> SUFFICES ASSUME PipelineInv, NEW r \in Requests, req[r].sent # None
               PROVE  Withheld(req[r].scan, Auth(r), req[r].sent)
    BY Zenon DEF PiiWithheld, Withheld
  <2>1. Clean(req[r])
    BY DEF PipelineInv, Good
  <2> QED
    BY <2>1 DEF Clean, Auth
<1> QED
  BY <1>1, PipelineInvariant, PTL

(* No client of a non-streamed request reads an entity that the section    *)
(* governing its response wants withheld, from the cache or not, unless    *)
(* the operator chose fail_open or the engine panicked on the blocking     *)
(* pool: then the code lets the answer through.                            *)
THEOREM PipelineResponseWithheld == Spec => []ResponseWithheld
<1>1. PipelineInv => ResponseWithheld
  <2> SUFFICES ASSUME PipelineInv, NEW r \in Requests,
                      req[r].check # None, req[r].shown # {}
               PROVE  Shows(req[r].check, Auth(r), req[r].shown)
    BY Zenon DEF ResponseWithheld, Shows
  <2>1. Clean(req[r])
    BY DEF PipelineInv, Good
  <2> QED
    BY <2>1 DEF Clean, Auth
<1> QED
  BY <1>1, PipelineInvariant, PTL

-----------------------------------------------------------------------------
(* The audit log.                                                          *)

(* Whether a request left an audit event, and how many the log knows of.   *)
Audited(q) ==
  IF q.ask = None THEN 0
  ELSE IF q.ask.body.stream THEN IF q.rec = None THEN 0 ELSE 1
  ELSE q.records
Events(a) == Len(a.queue) + a.written + a.dropped + a.lost

AuditShape(a) ==
  /\ DOMAIN a = {"queue", "dropped", "written", "lost"}
  /\ \E S : a.queue \in Seq(S)
  /\ a.dropped \in Nat /\ a.written \in Nat /\ a.lost \in Nat

AuditInv ==
  /\ AuditShape(audit)
  /\ Events(audit) = Cardinality({r \in Requests : Audited(req[r]) = 1})

(* try_send adds one event, to the queue or to the dropped ones.           *)
LEMMA SendCounts ==
  ASSUME NEW a, AuditShape(a), NEW event, NEW capacity
  PROVE  /\ AuditShape(AuditSend(a, event, capacity))
         /\ Events(AuditSend(a, event, capacity)) = Events(a) + 1
<1>1. PICK S : a.queue \in Seq(S)
  BY DEF AuditShape
<1>2. PICK b : b = AuditSend(a, event, capacity)
  OBVIOUS
<1>3. CASE Len(a.queue) >= capacity
  <2>1. b = [a EXCEPT !.dropped = @ + 1]
    BY <1>2, <1>3 DEF AuditSend
  <2>2. /\ DOMAIN b = DOMAIN a /\ b.queue = a.queue /\ b.dropped = a.dropped + 1
        /\ b.written = a.written /\ b.lost = a.lost
    BY <2>1 DEF AuditShape
  <2>3. Len(a.queue) \in Nat
    BY <1>1
  <2>4. AuditShape(b)
    BY <2>2 DEF AuditShape
  <2>5. Events(b) = Events(a) + 1
    <3>1. PICK l, d, w, x \in Nat :
            l = Len(a.queue) /\ d = a.dropped /\ w = a.written /\ x = a.lost
      BY <2>3 DEF AuditShape
    <3>2. Events(a) = l + w + d + x /\ Events(b) = l + w + (d + 1) + x
      BY <2>2, <3>1 DEF Events
    <3> QED
      BY <3>2
  <2> QED
    BY <1>2, <2>4, <2>5
<1>4. CASE ~(Len(a.queue) >= capacity)
  <2>1. b = [a EXCEPT !.queue = Append(@, event)]
    BY <1>2, <1>4 DEF AuditSend
  <2>2. /\ DOMAIN b = DOMAIN a /\ b.queue = Append(a.queue, event)
        /\ b.dropped = a.dropped /\ b.written = a.written /\ b.lost = a.lost
    BY <2>1 DEF AuditShape
  <2>3. a.queue \in Seq(S \cup {event})
    <3>1. Seq(S) \subseteq Seq(S \cup {event})
      OBVIOUS
    <3> QED
      BY <1>1, <3>1
  <2>4. b.queue \in Seq(S \cup {event}) /\ Len(b.queue) = Len(a.queue) + 1
    BY <2>2, <2>3, AppendProperties
  <2>5. Len(a.queue) \in Nat
    BY <1>1
  <2>6. AuditShape(b)
    BY <2>2, <2>4 DEF AuditShape
  <2>7. Events(b) = Events(a) + 1
    <3>1. a.dropped \in Nat /\ a.written \in Nat /\ a.lost \in Nat
      BY DEF AuditShape
    <3> QED
      BY <2>2, <2>4, <2>5, <3>1 DEF Events
  <2> QED
    BY <1>2, <2>6, <2>7
<1> QED
  BY <1>2, <1>3, <1>4

(* The writer moves one event, to the file or to the lost ones.            *)
LEMMA WriteCounts ==
  ASSUME NEW a, AuditShape(a), a.queue # << >>, NEW wrote \in BOOLEAN
  PROVE  /\ AuditShape(AuditWrite(a, wrote))
         /\ Events(AuditWrite(a, wrote)) = Events(a)
<1>1. PICK S : a.queue \in Seq(S)
  BY DEF AuditShape
<1>2. PICK b : b = AuditWrite(a, wrote)
  OBVIOUS
<1>3. /\ DOMAIN b = DOMAIN a /\ b.queue = Tail(a.queue) /\ b.dropped = a.dropped
      /\ \/ b.written = a.written + 1 /\ b.lost = a.lost
         \/ b.written = a.written /\ b.lost = a.lost + 1
  BY <1>2 DEF AuditWrite, AuditShape
<1>4. b.queue \in Seq(S) /\ Len(b.queue) = Len(a.queue) - 1
  BY <1>1, <1>3, HeadTailProperties
<1>5. PICK l, d, w, x \in Nat :
        l = Len(a.queue) /\ d = a.dropped /\ w = a.written /\ x = a.lost
  BY <1>1 DEF AuditShape
<1>6. AuditShape(b)
  BY <1>3, <1>4 DEF AuditShape
<1>7. /\ Events(a) = l + w + d + x
      /\ Events(b) = (l - 1) + (w + 1) + d + x \/ Events(b) = (l - 1) + w + d + (x + 1)
  BY <1>3, <1>4, <1>5 DEF Events
<1> QED
  BY <1>2, <1>6, <1>7

(* A step that touches neither the audit log nor what it counts.           *)
Aside == {"ask", "rec", "records"}
Plain(r) ==
  /\ audit' = audit
  /\ \E change : /\ Goes(r, change) \/ Ends(r, change)
                 /\ DOMAIN change \cap Aside = {}

(* What a step may do to the audit log.                                    *)
Audits(r) ==
  \E x : /\ req' = [req EXCEPT ![r] = x]
         /\ \/ audit' = audit /\ Audited(x) = Audited(req[r])
            \/ /\ Audited(req[r]) = 0 /\ Audited(x) = 1
               /\ \E event : audit' = AuditSend(audit, event, AuditCapacity)

(* Such a step changes nothing.                                            *)
LEMMA PlainAudits ==
  ASSUME PipelineInv, NEW r \in Requests, Plain(r)
  PROVE  Audits(r)
<1>1. PICK change : /\ Goes(r, change) \/ Ends(r, change)
                    /\ DOMAIN change \cap Aside = {}
  BY DEF Plain
<1>2. PICK q : q = req[r] /\ DOMAIN q = Fields
  BY DEF PipelineInv, Good, Flow
<1>3. PICK x : /\ req' = [req EXCEPT ![r] = x]
               /\ x = Changed(q, change) \/ x = Changed(Ended(q), change)
  BY <1>1, <1>2, GoesOn, Returns
<1>4. x.ask = q.ask /\ x.rec = q.rec /\ x.records = q.records
  BY <1>1, <1>2, <1>3, ChangedFields, EndedFields DEF Aside
<1>5. Audited(x) = Audited(q)
  BY <1>4 DEF Audited
<1> QED
  BY <1>2, <1>3, <1>5 DEF Audits, Plain

(* A full record is an event.                                              *)
LEMMA FullAudits ==
  ASSUME NEW r, NEW request, NEW provider, NEW u, NEW response, NEW error,
         RecordFull(r, request, provider, u, response, error)
  PROVE  \E event : audit' = AuditSend(audit, event, AuditCapacity)
  BY DEF RecordFull, Logged

(* The refusal of a request that is audited leaves an event.               *)
LEMMA RefuseAudits ==
  ASSUME PipelineInv, NEW r \in Requests, NEW error, Refuse(r, error),
         req[r].pc \in {"prepare", "pii", "plugins"}
  PROVE  Audits(r)
<1>1. PICK q : /\ q = req[r] /\ Flow(q) /\ DOMAIN q = Fields
               /\ q.pc \in {"prepare", "pii", "plugins"}
  BY DEF PipelineInv, Good, Flow
<1>2. /\ q.ask \in Accepts /\ q.ask # None /\ q.records = 0 /\ q.rec = None
  BY <1>1, LiveAsk DEF Flow, PCs, Live, Scanned
<1>3. PICK n : n = tick' - tick
  OBVIOUS
<1>4. PICK x : x = Changed(Ended(q), [status |-> StatusCode(error), error |-> error,
                                      scan |-> q.scan, records |-> q.records + n])
  OBVIOUS
<1>5. Ends(r, [status |-> StatusCode(error), error |-> error,
               scan |-> q.scan, records |-> q.records + n])
  BY <1>1, <1>3 DEF Refuse
<1>6. req' = [req EXCEPT ![r] = x]
  BY <1>1, <1>4, <1>5, Returns
<1>7. x.ask = q.ask /\ x.rec = q.rec /\ x.records = q.records + n
  BY <1>4, ChangedFields, EndedFields
<1>8. CASE q.ask.body.stream \/ q.ask.kind = "embed"
  <2>1. n = 0 /\ audit' = audit
    BY <1>1, <1>3, <1>8 DEF Refuse, Stream, PipelineInv
  <2>2. Audited(x) = Audited(q)
    BY <1>2, <1>7, <2>1 DEF Audited
  <2> QED
    BY <1>1, <1>6, <2>1, <2>2 DEF Audits
<1>9. CASE ~(q.ask.body.stream \/ q.ask.kind = "embed")
  <2>1. RecordFull(r, q.ask.body, << >>, None, {}, error)
    BY <1>1, <1>9 DEF Refuse, Stream
  <2>2. n = 1
    BY <1>3, <2>1, FullRecord DEF PipelineInv
  <2>3. Audited(q) = 0 /\ Audited(x) = 1
    BY <1>2, <1>7, <1>9, <2>2 DEF Audited
  <2> QED
    BY <1>1, <1>6, <2>1, <2>3, FullAudits DEF Audits
<1> QED
  BY <1>8, <1>9

(* A non-streamed answer or failure leaves its one event.                  *)
LEMMA AnswerAudits ==
  ASSUME PipelineInv, NEW r \in Requests, req[r].pc \in {"after", "guard"},
         NEW change, Goes(r, change) \/ Ends(r, change),
         "records" \in DOMAIN change, change.records = req[r].records + 1,
         "ask" \notin DOMAIN change, "rec" \notin DOMAIN change,
         NEW request, NEW provider, NEW u, NEW response, NEW error,
         RecordFull(r, request, provider, u, response, error)
  PROVE  Audits(r)
<1>1. PICK q : /\ q = req[r] /\ Flow(q) /\ DOMAIN q = Fields
               /\ q.pc \in {"after", "guard"}
  BY DEF PipelineInv, Good, Flow
<1>2. /\ q.ask \in Accepts /\ q.ask # None /\ q.records = 0 /\ ~q.ask.body.stream
  BY <1>1, LiveAsk DEF Flow, PCs, Live, Scanned
<1>3. PICK x : /\ req' = [req EXCEPT ![r] = x]
               /\ x = Changed(q, change) \/ x = Changed(Ended(q), change)
  BY <1>1, GoesOn, Returns
<1>4. x.ask = q.ask /\ x.records = 1
  BY <1>1, <1>2, <1>3, ChangedFields, EndedFields
<1>5. Audited(q) = 0 /\ Audited(x) = 1
  BY <1>2, <1>4 DEF Audited
<1> QED
  BY <1>1, <1>3, <1>5, FullAudits DEF Audits

(* A started stream has left its event, and leaves no other.               *)
LEMMA StreamAudits ==
  ASSUME PipelineInv, NEW r \in Requests, req[r].pc \in Streaming, audit' = audit,
         NEW change, Goes(r, change) \/ Ends(r, change),
         "ask" \notin DOMAIN change,
         "rec" \in DOMAIN change => change.rec # None
  PROVE  Audits(r)
<1>1. PICK q : /\ q = req[r] /\ Flow(q) /\ DOMAIN q = Fields /\ q.pc \in Streaming
  BY DEF PipelineInv, Good, Flow
<1>2. /\ q.ask \in Accepts /\ q.ask # None /\ q.ask.body.stream /\ q.rec # None
  BY <1>1, LiveAsk, OptionAssumption DEF Flow, PCs, Live, Scanned
<1>3. PICK x : /\ req' = [req EXCEPT ![r] = x]
               /\ x = Changed(q, change) \/ x = Changed(Ended(q), change)
  BY <1>1, GoesOn, Returns
<1>4. x.ask = q.ask /\ x.rec # None
  BY <1>1, <1>2, <1>3, ChangedFields, EndedFields
<1>5. Audited(x) = Audited(q)
  BY <1>2, <1>4 DEF Audited
<1> QED
  BY <1>1, <1>3, <1>5 DEF Audits

(* The steps that leave the audit log alone.                               *)
LEMMA PlainSteps ==
  ASSUME PipelineInv, NEW r \in Requests,
         \/ CacheLookup(r) \/ Select(r) \/ Dispatch(r) \/ Unreachable(r) \/ CallFails(r)
         \/ CallAnswers(r) \/ Insert(r) \/ EmbedSelect(r) \/ EmbedTry(r)
  PROVE  Plain(r)
<1>1. audit' = audit
  <2>1. UNCHANGED <<config, changes, peak, stores>> \/ Insert(r)
    BY Zenon DEF CacheLookup, Select, Dispatch, Unreachable, CallFails, CallAnswers,
         EmbedSelect, EmbedTry
  <2> QED
    BY <2>1 DEF stores, Insert
<1>2. \A a, b, c, d :
        /\ DOMAIN [pc |-> a, reply |-> b, origin |-> c] \cap Aside = {}
        /\ DOMAIN [pc |-> a] \cap Aside = {}
        /\ DOMAIN [pc |-> a, order |-> b] \cap Aside = {}
        /\ DOMAIN [pc |-> a, sent |-> b, target |-> c] \cap Aside = {}
        /\ DOMAIN [pc |-> a, error |-> b, target |-> c] \cap Aside = {}
        /\ DOMAIN [pc |-> a, error |-> b] \cap Aside = {}
        /\ DOMAIN [pc |-> a, reply |-> b] \cap Aside = {}
        /\ DOMAIN [error |-> a, status |-> b] \cap Aside = {}
        /\ DOMAIN [status |-> a, error |-> b] \cap Aside = {}
        /\ DOMAIN [error |-> a, status |-> b, scan |-> c] \cap Aside = {}
        /\ DOMAIN [order |-> a, error |-> b] \cap Aside = {}
        /\ DOMAIN [status |-> a, check |-> b, shown |-> c] \cap Aside = {}
  BY DEF Aside
<1>3. ASSUME CacheLookup(r) PROVE Plain(r)
  BY <1>1, <1>2, <1>3, Zenon DEF CacheLookup, Plain
<1>4. ASSUME Select(r) PROVE Plain(r)
  BY <1>1, <1>2, <1>4, Zenon DEF Select, Plain
<1>5. ASSUME Dispatch(r) PROVE Plain(r)
  BY <1>1, <1>2, <1>5, Zenon DEF Dispatch, Plain
<1>6. ASSUME Unreachable(r) PROVE Plain(r)
  BY <1>1, <1>2, <1>6, Zenon DEF Unreachable, Plain
<1>7. ASSUME CallFails(r) PROVE Plain(r)
  BY <1>1, <1>2, <1>7, Zenon DEF CallFails, Plain
<1>8. ASSUME CallAnswers(r) PROVE Plain(r)
  BY <1>1, <1>2, <1>8, Zenon DEF CallAnswers, Plain
<1>9. ASSUME Insert(r) PROVE Plain(r)
  BY <1>1, <1>2, <1>9, Zenon DEF Insert, Plain
<1>10. ASSUME EmbedSelect(r) PROVE Plain(r)
  BY <1>1, <1>2, <1>10, Zenon DEF EmbedSelect, Plain
<1>11. ASSUME EmbedTry(r) PROVE Plain(r)
  BY <1>1, <1>2, <1>11, Zenon DEF EmbedTry, Plain
<1> QED
  BY <1>3, <1>4, <1>5, <1>6, <1>7, <1>8, <1>9, <1>10, <1>11

(* The prologue lets a request go on or refuses it.                        *)
LEMMA PrologueAudits ==
  ASSUME PipelineInv, NEW r \in Requests, Prepare(r) \/ RunPii(r) \/ RunPlugins(r)
  PROVE  Audits(r)
<1>1. \A a, b, c : /\ DOMAIN [pc |-> a] \cap Aside = {}
                   /\ DOMAIN [pc |-> a, work |-> b, scan |-> c] \cap Aside = {}
  BY DEF Aside
<1>2. \/ \E change : Goes(r, change) /\ DOMAIN change \cap Aside = {} /\ audit' = audit
      \/ \E error : Refuse(r, error)
  <2>1. \A x : UNCHANGED <<usage, logs, tick, audit>> => audit' = audit
    OBVIOUS
  <2>2. CASE Prepare(r)
    BY <1>1, <2>1, <2>2, Zenon DEF Prepare
  <2>3. CASE RunPii(r)
    BY <1>1, <2>1, <2>3, Zenon DEF RunPii
  <2>4. CASE RunPlugins(r)
    BY <1>1, <2>1, <2>4, Zenon DEF RunPlugins
  <2> QED
    BY <2>2, <2>3, <2>4
<1>3. req[r].pc \in {"prepare", "pii", "plugins"}
  BY Zenon DEF Prepare, RunPii, RunPlugins
<1>4. CASE \E error : Refuse(r, error)
  BY <1>3, <1>4, RefuseAudits
<1>5. CASE \E change : Goes(r, change) /\ DOMAIN change \cap Aside = {} /\ audit' = audit
  BY <1>5, PlainAudits DEF Plain
<1> QED
  BY <1>2, <1>4, <1>5

(* The after-request plugins and the guardrails.                           *)
LEMMA GuardAudits ==
  ASSUME PipelineInv, NEW r \in Requests, RunAfter(r) \/ Guard(r)
  PROVE  Audits(r)
<1>1. CASE RunAfter(r) /\ req[r].reply # None
  <2>1. Goes(r, [pc |-> "guard"]) /\ audit' = audit
    BY <1>1 DEF RunAfter
  <2>2. DOMAIN [pc |-> "guard"] \cap Aside = {}
    BY DEF Aside
  <2> QED
    BY <2>1, <2>2, PlainAudits DEF Plain
<1>2. CASE RunAfter(r) /\ req[r].reply = None
  <2>1. /\ req[r].pc \in {"after", "guard"}
        /\ RecordFull(r, req[r].work, req[r].target, None, {}, req[r].error)
        /\ Ends(r, [status |-> StatusCode(req[r].error), records |-> req[r].records + 1])
    BY <1>2 DEF RunAfter
  <2>2. PICK change :
          change = [status |-> StatusCode(req[r].error), records |-> req[r].records + 1]
    OBVIOUS
  <2>3. /\ "records" \in DOMAIN change /\ change.records = req[r].records + 1
        /\ "ask" \notin DOMAIN change /\ "rec" \notin DOMAIN change
    BY <2>2
  <2> QED
    BY <2>1, <2>2, <2>3, AnswerAudits
<1>3. CASE Guard(r)
  <2>1. \E a, b, c, request, provider, u, response, error :
          /\ RecordFull(r, request, provider, u, response, error)
          /\ \/ Goes(r, [pc |-> a, check |-> b, records |-> req[r].records + 1])
             \/ Ends(r, [status |-> a, check |-> b, records |-> req[r].records + 1])
             \/ Ends(r, [status |-> a, check |-> b, records |-> req[r].records + 1,
                         shown |-> c])
    BY <1>3, Zenon DEF Guard
  <2>2. PICK change :
          /\ Goes(r, change) \/ Ends(r, change)
          /\ \E a, b, c :
               \/ change = [pc |-> a, check |-> b, records |-> req[r].records + 1]
               \/ change = [status |-> a, check |-> b, records |-> req[r].records + 1]
               \/ change = [status |-> a, check |-> b, records |-> req[r].records + 1,
                            shown |-> c]
          /\ \E request, provider, u, response, error :
               RecordFull(r, request, provider, u, response, error)
    BY <2>1, Zenon
  <2>3. /\ "records" \in DOMAIN change /\ change.records = req[r].records + 1
        /\ "ask" \notin DOMAIN change /\ "rec" \notin DOMAIN change
    BY <2>2
  <2>4. req[r].pc \in {"after", "guard"}
    BY <1>3 DEF Guard
  <2> QED
    BY <2>2, <2>3, <2>4, AnswerAudits
<1> QED
  BY <1>1, <1>2, <1>3

(* A stream that starts.                                                   *)
LEMMA StreamOpensAudits ==
  ASSUME PipelineInv, NEW r \in Requests, StreamOpens(r)
  PROVE  Audits(r)
<1>1. PICK q : /\ q = req[r] /\ Flow(q) /\ DOMAIN q = Fields
               /\ q.pc = "wait" /\ q.ask.body.stream
  BY DEF PipelineInv, Good, Flow, StreamOpens, Stream
<1>2. /\ q.ask \in Accepts /\ q.ask # None /\ q.rec = None
  BY <1>1, LiveAsk DEF Flow, PCs, Live, Scanned
<1>3. PICK rec : rec = [usage |-> None, error |-> None, recorded |-> FALSE,
                        buffer |-> {}, chunks |-> 0, scanned |-> FALSE]
  OBVIOUS
<1>4. rec \in Recorders
  BY <1>3, PipelineAssumption DEF Recorders
<1>5. rec # None
  BY <1>4, RecorderSteps
<1>6. PICK x : x = Changed(q, [pc |-> "stream", rec |-> rec])
  OBVIOUS
<1>7. Goes(r, [pc |-> "stream", rec |-> rec])
  BY <1>3 DEF StreamOpens
<1>8. req' = [req EXCEPT ![r] = x]
  BY <1>1, <1>6, <1>7, GoesOn
<1>9. x.ask = q.ask /\ x.rec = rec
  BY <1>1, <1>6, ChangedFields
<1>10. Audited(q) = 0 /\ Audited(x) = 1
  BY <1>1, <1>2, <1>5, <1>9 DEF Audited
<1>11. \E event : audit' = AuditSend(audit, event, AuditCapacity)
  BY DEF StreamOpens, Logged
<1> QED
  BY <1>1, <1>8, <1>10, <1>11 DEF Audits

(* An open stream, and a client that hangs up.                             *)
LEMMA OpenStreamAudits ==
  ASSUME PipelineInv, NEW r \in Requests,
         \/ StreamChunk(r) \/ StreamFails(r) \/ StreamEnds(r) \/ DropStream(r)
         \/ Disconnect(r)
  PROVE  Audits(r)
<1>1. PICK q : q = req[r] /\ Flow(q) /\ DOMAIN q = Fields
  BY DEF PipelineInv, Good, Flow
<1>2. audit' = audit
  <2>1. UNCHANGED <<config, changes, peak, stores>> \/ UNCHANGED audit
    BY Zenon DEF StreamChunk, StreamFails, StreamEnds, DropStream, Disconnect
  <2> QED
    BY <2>1 DEF stores
<1>3. CASE Disconnect(r) /\ q.rec = None
  <2>1. Ends(r, [pc |-> "gone"])
    BY <1>1, <1>3 DEF Disconnect
  <2>2. DOMAIN [pc |-> "gone"] \cap Aside = {}
    BY DEF Aside
  <2> QED
    BY <1>2, <2>1, <2>2, PlainAudits DEF Plain
<1>4. CASE ~(Disconnect(r) /\ q.rec = None)
  <2>1. q.pc \in Streaming /\ q.rec \in Recorders
    BY <1>1, <1>4 DEF Flow, PCs, Live, StreamChunk, StreamFails, StreamEnds, DropStream,
         Disconnect
  <2>2. PICK fired : fired = Recorded(r) /\ fired \in Recorders
    BY <1>1, <2>1, RecorderSteps DEF Recorded
  <2>3. \E change :
          /\ Goes(r, change) \/ Ends(r, change)
          /\ "ask" \notin DOMAIN change
          /\ "rec" \in DOMAIN change => change.rec # None
    <3>1. CASE StreamChunk(r)
      <4>1. PICK chunk \in Chunks :
              \/ Goes(r, [rec |-> Observed(q.rec, chunk), shown |-> q.shown \cup chunk.text])
              \/ Goes(r, [pc |-> "closing", rec |-> Observed(q.rec, chunk)])
        BY <1>1, <3>1 DEF StreamChunk
      <4>2. PICK rec : rec = Observed(q.rec, chunk)
        OBVIOUS
      <4>3. q.rec.chunks < MaxChunks
        BY <1>1, <3>1 DEF StreamChunk
      <4>4. rec # None
        BY <2>1, <4>2, <4>3, ObservedRecorder, RecorderSteps
      <4>5. CASE Goes(r, [rec |-> rec, shown |-> q.shown \cup chunk.text])
        BY <4>4, <4>5
      <4>6. CASE Goes(r, [pc |-> "closing", rec |-> rec])
        BY <4>4, <4>6
      <4> QED
        BY <4>1, <4>2, <4>5, <4>6
    <3>2. CASE StreamFails(r)
      <4>1. PICK rec : rec = [q.rec EXCEPT !.error = "stream"]
        OBVIOUS
      <4>2. rec # None
        BY <2>1, <4>1, RecorderSteps
      <4>3. Goes(r, [rec |-> rec, shown |-> q.shown \cup {"error"}])
        BY <1>1, <3>2, <4>1 DEF StreamFails
      <4> QED
        BY <4>2, <4>3
    <3>3. CASE StreamEnds(r)
      <4>1. PICK rec, s, m :
              /\ rec = [Recorded(r) EXCEPT !.scanned = @ \/ req[r].rec.buffer # {}]
              /\ Goes(r, [pc |-> "closing", status |-> s, rec |-> rec, records |-> m])
        BY <3>3, Zenon DEF StreamEnds
      <4>2. rec # None
        <5>1. rec = [fired EXCEPT !.scanned = (fired.scanned \/ q.rec.buffer # {})]
          BY <1>1, <2>2, <4>1 DEF Recorders
        <5> QED
          BY <2>2, <5>1, RecorderSteps
      <4> QED
        BY <4>1, <4>2
    <3>4. CASE DropStream(r) \/ Disconnect(r)
      <4>1. PICK s, m : \/ Ends(r, [status |-> s, rec |-> fired, records |-> m])
                        \/ Ends(r, [pc |-> s, rec |-> fired, records |-> m])
        BY <1>1, <1>4, <2>2, <3>4, Zenon DEF DropStream, Disconnect
      <4>2. fired # None
        BY <2>2, RecorderSteps
      <4>3. CASE Ends(r, [status |-> s, rec |-> fired, records |-> m])
        BY <4>2, <4>3
      <4>4. CASE Ends(r, [pc |-> s, rec |-> fired, records |-> m])
        BY <4>2, <4>4
      <4> QED
        BY <4>1, <4>3, <4>4
    <3> QED
      BY <3>1, <3>2, <3>3, <3>4
  <2> QED
    BY <1>1, <1>2, <2>1, <2>3, StreamAudits
<1> QED
  BY <1>3, <1>4

(* A request that arrives.                                                 *)
LEMMA ArriveAudits ==
  ASSUME PipelineInv, NEW r \in Requests, Arrive(r)
  PROVE  Audits(r)
<1>1. PICK q : q = req[r] /\ Flow(q) /\ DOMAIN q = Fields /\ q.pc = "idle"
  BY DEF PipelineInv, Good, Flow, Arrive
<1>2. q.ask = None /\ q.rec = None /\ q.records = 0 /\ audit' = audit
  BY <1>1 DEF Flow, Arrive, stores
<1>3. PICK x : /\ req' = [req EXCEPT ![r] = x]
               /\ \/ x = Changed(Ended(q), [status |-> 400])
                  \/ \E a : x = Changed(q, [pc |-> "prepare", ask |-> Accepted(a),
                                            work |-> Accepted(a).body])
  BY <1>1, GoesOn, Returns DEF Arrive
<1>4. x.rec = q.rec /\ x.records = q.records
  <2>1. CASE x = Changed(Ended(q), [status |-> 400])
    BY <2>1, ChangedFields, EndedFields
  <2>2. ASSUME NEW a, x = Changed(q, [pc |-> "prepare", ask |-> Accepted(a),
                                      work |-> Accepted(a).body])
        PROVE  x.rec = q.rec /\ x.records = q.records
    BY <1>1, <2>2, ChangedFields
  <2> QED
    BY <1>3, <2>1, <2>2
<1>5. Audited(x) = Audited(q)
  BY <1>2, <1>4 DEF Audited
<1> QED
  BY <1>1, <1>2, <1>3, <1>5 DEF Audits

(* Every step keeps the count.                                             *)
LEMMA AuditNext == PipelineInv /\ AuditInv /\ [Next]_vars => AuditInv'
<1> SUFFICES ASSUME PipelineInv, AuditInv, [Next]_vars PROVE AuditInv'
  OBVIOUS
<1>1. ASSUME NEW r \in Requests, Audits(r)
      PROVE  AuditInv'
  <2>1. PICK x : /\ req' = [req EXCEPT ![r] = x]
                 /\ \/ audit' = audit /\ Audited(x) = Audited(req[r])
                    \/ /\ Audited(req[r]) = 0 /\ Audited(x) = 1
                       /\ \E event : audit' = AuditSend(audit, event, AuditCapacity)
    BY <1>1 DEF Audits
  <2>2. PICK old, new : /\ old = {p \in Requests : Audited(req[p]) = 1}
                        /\ new = {p \in Requests : Audited(req'[p]) = 1}
    OBVIOUS
  <2>3. /\ Audited(x) = Audited(req[r]) => Cardinality(new) = Cardinality(old)
        /\ Audited(req[r]) = 0 /\ Audited(x) = 1
             => Cardinality(new) = Cardinality(old) + 1
    <3>1. req'[r] = x /\ \A p \in Requests : p # r => req'[p] = req[p]
      BY <1>1, <2>1 DEF PipelineInv
    <3>2. Audited(x) = Audited(req[r]) => new = old
      BY <1>1, <2>2, <3>1
    <3>3. Audited(req[r]) = 0 /\ Audited(x) = 1 => new = old \cup {r} /\ r \notin old
      BY <1>1, <2>2, <3>1
    <3>4. IsFiniteSet(old)
      BY <2>2, PipelineAssumption, FS_Subset
    <3> QED
      BY <3>2, <3>3, <3>4, FS_AddElement
  <2>4. AuditShape(audit) /\ Events(audit) = Cardinality(old)
    BY <2>2 DEF AuditInv
  <2>5. AuditShape(audit') /\ Events(audit') = Cardinality(new)
    BY <2>1, <2>3, <2>4, SendCounts
  <2> QED
    BY <2>2, <2>5 DEF AuditInv
<1>2. CASE ApplyConfig \/ PurgeLogs \/ Quiet \/ UNCHANGED vars
  <2>1. req' = req /\ audit' = audit
    BY <1>2 DEF ApplyConfig, PurgeLogs, Quiet, vars
  <2> QED
    BY <2>1 DEF AuditInv
<1>3. CASE WriteAudit
  <2>1. PICK wrote \in BOOLEAN :
          req' = req /\ audit' = AuditWrite(audit, wrote) /\ audit.queue # << >>
    BY <1>3 DEF WriteAudit
  <2>2. AuditShape(audit') /\ Events(audit') = Events(audit)
    BY <2>1, WriteCounts DEF AuditInv
  <2> QED
    BY <2>1, <2>2 DEF AuditInv
<1>4. ASSUME NEW r \in Requests,
             Arrive(r) \/ Step(r) \/ StreamChunk(r) \/ StreamFails(r) \/ Disconnect(r)
      PROVE  Audits(r)
  BY <1>4, ArriveAudits, PrologueAudits, PlainSteps, PlainAudits, GuardAudits,
     StreamOpensAudits, OpenStreamAudits, Zenon DEF Step
<1> QED
  BY <1>1, <1>2, <1>3, <1>4 DEF Next

(* Every audit event is queued, written, counted as dropped or lost by a   *)
(* writer that could not write it, for any capacity of the queue, any pace *)
(* of the writer and any of its failures: these are exactly the events the *)
(* requests owe the log.                                                   *)
THEOREM PipelineAuditConserved == Spec => []AuditConserved
<1>1. Init => AuditInv
  <2> SUFFICES ASSUME Init PROVE AuditInv
    OBVIOUS
  <2>1. audit = [queue |-> << >>, dropped |-> 0, written |-> 0, lost |-> 0]
    BY DEF Init
  <2>2. \A r \in Requests : Audited(req[r]) = 0
    BY DEF Init, Start, Audited
  <2>3. {r \in Requests : Audited(req[r]) = 1} = {}
    BY <2>2
  <2>4. audit.queue \in Seq({}) /\ Len(audit.queue) = 0
    BY <2>1
  <2> QED
    BY <2>1, <2>3, <2>4, FS_EmptySet DEF AuditInv, AuditShape, Events
<1>2. AuditInv => AuditConserved
  BY DEF AuditInv, AuditConserved, Audited, Events, Stream
<1> QED
  BY <1>1, <1>2, AuditNext, PipelineInvariant, PTL DEF Spec

-----------------------------------------------------------------------------
(* The spend store.                                                        *)

(* A function on the first numbers is a sequence.                          *)
LEMMA SeqOf ==
  ASSUME NEW E, NEW d \in Nat, NEW f \in [1..d -> E]
  PROVE  f \in Seq(E) /\ Len(f) = d
<1>1. f \in Seq(E)
  BY DEF Seq
<1>2. DOMAIN f = 1..d
  OBVIOUS
<1> QED
  BY <1>1, <1>2, LenProperties

(* What a store holds of a key.                                            *)
LEMMA SpendGets ==
  ASSUME NEW s, IsSpendStore(s), NEW k
  PROVE  /\ k \notin SpendKeys(s) => SpendGet(s, k) = 0
         /\ \A i \in DOMAIN s : s[i].key = k => SpendGet(s, k) = s[i].micro
         /\ SpendGet(s, k) \in 0..Ceiling
<1>1. PICK at : at = {i \in DOMAIN s : s[i].key = k}
  OBVIOUS
<1>2. SpendGet(s, k) = IF at = {} THEN 0 ELSE s[CHOOSE i \in at : TRUE].micro
  BY <1>1 DEF SpendGet
<1>3. k \notin SpendKeys(s) => at = {}
  BY <1>1 DEF SpendKeys
<1>4. at # {} => (CHOOSE i \in at : TRUE) \in at
  OBVIOUS
<1>5. \A i \in DOMAIN s : s[i].micro \in 0..Ceiling
  <2>1. PICK E : E = [key : SpendKeys(s), micro : 0..Ceiling] /\ s \in Seq(E)
    BY DEF IsSpendStore
  <2>2. \A i \in DOMAIN s : s[i] \in E
    BY <2>1, ElementOfSeq, LenProperties
  <2> QED
    BY <2>1, <2>2
<1>6. 0 \in 0..Ceiling
  BY BudgetAssumption
<1>7. \A i \in DOMAIN s : s[i].key = k => at # {} /\ \A j \in at : j = i
  BY <1>1 DEF IsSpendStore
<1>8. \A i \in DOMAIN s : s[i].key = k => SpendGet(s, k) = s[i].micro
  BY <1>2, <1>4, <1>7
<1>9. SpendGet(s, k) \in 0..Ceiling
  BY <1>1, <1>2, <1>4, <1>5, <1>6
<1> QED
  BY <1>2, <1>3, <1>8, <1>9

(* Some entries of a store hold no more than the store.                    *)
LEMMA FewerEntries ==
  ASSUME NEW s, IsSpendStore(s), NEW t, IsSpendStore(t), NEW k,
         \A i \in DOMAIN t : t[i].key = k => \E j \in DOMAIN s : t[i] = s[j]
  PROVE  SpendGet(t, k) <= SpendGet(s, k)
<1>1. SpendGet(s, k) \in Nat
  BY SpendGets, BudgetAssumption
<1>2. CASE k \notin SpendKeys(t)
  BY <1>1, <1>2, SpendGets
<1>3. CASE k \in SpendKeys(t)
  <2>1. PICK i \in DOMAIN t : t[i].key = k
    BY <1>3 DEF SpendKeys
  <2>2. PICK j \in DOMAIN s : t[i] = s[j]
    BY <2>1
  <2>3. SpendGet(t, k) = t[i].micro /\ SpendGet(s, k) = s[j].micro
    BY <2>1, <2>2, SpendGets
  <2> QED
    BY <1>1, <2>2, <2>3
<1> QED
  BY <1>2, <1>3

(* Entries of a store in any order, none twice, are a store.               *)
LEMMA StoreOfEntries ==
  ASSUME NEW E, NEW K, E = [key : K, micro : 0..Ceiling], NEW t \in Seq(E),
         \A i, j \in DOMAIN t : t[i].key = t[j].key => i = j,
         MaxKeys > 0 => Len(t) <= MaxKeys
  PROVE  IsSpendStore(t)
<1>1. PICK n \in Nat : n = Len(t) /\ DOMAIN t = 1..n
  BY LenProperties
<1>2. \A i \in 1..n : t[i] \in E
  BY <1>1, ElementOfSeq
<1>3. PICK F : F = [key : SpendKeys(t), micro : 0..Ceiling]
  OBVIOUS
<1>4. \A i \in 1..n : t[i] \in F
  BY <1>1, <1>2, <1>3 DEF SpendKeys
<1>5. t = [i \in 1..n |-> t[i]]
  BY <1>1
<1>6. [i \in 1..n |-> t[i]] \in Seq(F)
  BY <1>4, IsASeq
<1> QED
  BY <1>3, <1>5, <1>6 DEF IsSpendStore

(* The entries that stay when a key is charged.                            *)
Kept(s, key) ==
  IF key \in SpendKeys(s) THEN Forgotten(s, key)
  ELSE IF MaxKeys > 0 /\ Len(s) >= MaxKeys THEN Tail(s) ELSE s
Others(s, key, t) ==
  /\ t \in Seq([key : SpendKeys(s), micro : 0..Ceiling])
  /\ \A i, j \in DOMAIN t : t[i].key = t[j].key => i = j
  /\ \A i \in DOMAIN t : t[i].key # key /\ \E j \in DOMAIN s : t[i] = s[j]
  /\ MaxKeys > 0 => Len(t) < MaxKeys

(* They are entries of other keys, in a store with room for one more.      *)
LEMMA OthersStay ==
  ASSUME NEW s, IsSpendStore(s), NEW key, NEW t, t = Kept(s, key)
  PROVE  Others(s, key, t)
<1> USE DEF Kept, Others
<1>1. PICK E : E = [key : SpendKeys(s), micro : 0..Ceiling] /\ s \in Seq(E)
  BY DEF IsSpendStore
<1>2. PICK n \in Nat : n = Len(s) /\ DOMAIN s = 1..n
  BY <1>1, LenProperties
<1>3. \A i \in 1..n : s[i] \in E
  BY <1>1, <1>2, ElementOfSeq
<1>4. \A i, j \in 1..n : s[i].key = s[j].key => i = j
  BY <1>2 DEF IsSpendStore
<1>5. MaxKeys \in Nat /\ (MaxKeys > 0 => n <= MaxKeys)
  BY <1>2, BudgetAssumption DEF IsSpendStore
<1>6. CASE key \in SpendKeys(s)
  <2>1. PICK at : at = CHOOSE i \in DOMAIN s : s[i].key = key
    OBVIOUS
  <2>2. at \in 1..n /\ s[at].key = key
    BY <1>2, <1>6, <2>1 DEF SpendKeys
  <2>3. t = [i \in 1..(n - 1) |-> IF i < at THEN s[i] ELSE s[i + 1]]
    BY <1>2, <1>6, <2>1 DEF Forgotten
  <2>4. PICK d \in Nat : d = n - 1
    BY <2>2
  <2>5. PICK place : place = [i \in 1..d |-> IF i < at THEN i ELSE i + 1]
    OBVIOUS
  <2>6. \A i \in 1..d : place[i] \in 1..n /\ place[i] # at
    BY <2>2, <2>4, <2>5
  <2>7. DOMAIN t = 1..d /\ \A i \in 1..d : t[i] = s[place[i]]
    BY <2>3, <2>4, <2>5
  <2>8. t \in Seq(E) /\ Len(t) = d
    <3>1. \A i \in 1..d : t[i] \in E
      BY <1>3, <2>6, <2>7
    <3>2. t = [i \in 1..d |-> t[i]]
      BY <2>3, <2>4, <2>7
    <3>3. t \in [1..d -> E]
      BY <3>1, <3>2
    <3> QED
      BY <3>3, SeqOf
  <2>9. \A i, j \in 1..d : t[i].key = t[j].key => i = j
    <3> SUFFICES ASSUME NEW i \in 1..d, NEW j \in 1..d, t[i].key = t[j].key
                 PROVE  i = j
      OBVIOUS
    <3>1. place[i] = place[j]
      <4>1. place[i] \in 1..n /\ place[j] \in 1..n
        BY <2>6
      <4>2. s[place[i]].key = s[place[j]].key
        BY <2>7
      <4> QED
        BY <1>4, <4>1, <4>2
    <3> QED
      BY <2>2, <2>4, <2>5, <3>1
  <2>10. \A i \in 1..d : t[i].key # key /\ \E j \in DOMAIN s : t[i] = s[j]
    <3> SUFFICES ASSUME NEW i \in 1..d
                 PROVE  t[i].key # key /\ \E j \in DOMAIN s : t[i] = s[j]
      OBVIOUS
    <3>1. place[i] \in 1..n /\ place[i] # at /\ t[i] = s[place[i]]
      BY <2>6, <2>7
    <3>2. s[place[i]].key # s[at].key
      BY <1>4, <2>2, <3>1
    <3> QED
      BY <1>2, <2>2, <3>1, <3>2
  <2>11. MaxKeys > 0 => Len(t) < MaxKeys
    BY <1>5, <2>4, <2>8
  <2> QED
    BY <1>1, <2>7, <2>8, <2>9, <2>10, <2>11
<1>7. CASE key \notin SpendKeys(s) /\ MaxKeys > 0 /\ Len(s) >= MaxKeys
  <2>1. t = Tail(s) /\ s # << >>
    BY <1>1, <1>2, <1>5, <1>7
  <2>2. t \in Seq(E) /\ Len(t) = n - 1 /\ \A i \in 1..(n - 1) : t[i] = s[i + 1]
    BY <1>1, <1>2, <2>1, HeadTailProperties
  <2>3. DOMAIN t = 1..(n - 1)
    BY <2>2, LenProperties
  <2>4. \A i \in 1..(n - 1) : t[i].key # key /\ \E j \in DOMAIN s : t[i] = s[j]
    BY <1>2, <1>7, <2>2 DEF SpendKeys
  <2>5. \A i, j \in 1..(n - 1) : t[i].key = t[j].key => i = j
    BY <1>4, <2>2
  <2>6. MaxKeys > 0 => Len(t) < MaxKeys
    BY <1>5, <2>2
  <2> QED
    BY <1>1, <2>2, <2>3, <2>4, <2>5, <2>6
<1>8. CASE key \notin SpendKeys(s) /\ ~(MaxKeys > 0 /\ Len(s) >= MaxKeys)
  <2>1. t = s
    BY <1>8
  <2>2. \A i \in DOMAIN t : t[i].key # key
    BY <1>8, <2>1 DEF SpendKeys
  <2>3. MaxKeys > 0 => Len(t) < MaxKeys
    BY <1>2, <1>5, <1>8, <2>1
  <2> QED
    BY <1>1, <1>2, <1>4, <2>1, <2>2, <2>3
<1> QED
  BY <1>6, <1>7, <1>8

(* SpendStore::add keeps the store one, charges the key no more than it    *)
(* says and no other key at all; eviction only forgets.                    *)
LEMMA SpendAddCharges ==
  ASSUME NEW s, IsSpendStore(s), NEW key, NEW tenths \in Nat, NEW new,
         new = SpendAdd(s, key, tenths, MaxKeys, Ceiling)
  PROVE  /\ IsSpendStore(new)
         /\ SpendGet(new, key) <= SpendGet(s, key) + UsdToMicro(tenths)
         /\ \A k : k # key => SpendGet(new, k) <= SpendGet(s, k)
<1>1. PICK t : t = Kept(s, key)
  OBVIOUS
<1>2. PICK E, F : /\ E = [key : SpendKeys(s), micro : 0..Ceiling]
                  /\ F = [key : SpendKeys(s) \cup {key}, micro : 0..Ceiling]
  OBVIOUS
<1>3. /\ t \in Seq(E)
      /\ \A i, j \in DOMAIN t : t[i].key = t[j].key => i = j
      /\ \A i \in DOMAIN t : t[i].key # key /\ \E j \in DOMAIN s : t[i] = s[j]
      /\ MaxKeys > 0 => Len(t) < MaxKeys
  <2>1. Others(s, key, t)
    BY <1>1, OthersStay
  <2> QED
    BY <1>2, <2>1 DEF Others
<1>4. PICK n \in Nat : n = Len(t) /\ DOMAIN t = 1..n
  BY <1>3, LenProperties
<1>5. SpendGet(s, key) \in Nat /\ UsdToMicro(tenths) \in Nat
  BY SpendGets, BudgetAssumption DEF UsdToMicro
<1>6. PICK sum, e : /\ sum = SpendGet(s, key) + UsdToMicro(tenths)
                    /\ e = [key |-> key, micro |-> IF sum > Ceiling THEN Ceiling ELSE sum]
  OBVIOUS
<1>7. e \in F /\ e.key = key /\ e.micro <= sum
  BY <1>2, <1>5, <1>6, BudgetAssumption
<1>8. new = Append(t, e)
  BY <1>1, <1>6 DEF SpendAdd, Kept
<1>9. t \in Seq(F)
  <2>1. E \subseteq F
    BY <1>2
  <2> QED
    BY <1>3, <2>1
<1>10. /\ new \in Seq(F) /\ Len(new) = n + 1 /\ DOMAIN new = 1..(n + 1)
       /\ new[n + 1] = e /\ \A i \in 1..n : new[i] = t[i]
  BY <1>4, <1>7, <1>8, <1>9, AppendProperties
<1>11. \A i, j \in DOMAIN new : new[i].key = new[j].key => i = j
  <2> SUFFICES ASSUME NEW i \in 1..(n + 1), NEW j \in 1..(n + 1), new[i].key = new[j].key
               PROVE  i = j
    BY <1>10
  <2>1. CASE i \in 1..n /\ j \in 1..n
    BY <1>3, <1>4, <1>10, <2>1
  <2>2. CASE i \in 1..n /\ j = n + 1
    BY <1>3, <1>4, <1>7, <1>10, <2>2
  <2>3. CASE i = n + 1 /\ j \in 1..n
    BY <1>3, <1>4, <1>7, <1>10, <2>3
  <2>4. CASE i = n + 1 /\ j = n + 1
    BY <2>4
  <2> QED
    BY <2>1, <2>2, <2>3, <2>4
<1>12. MaxKeys > 0 => Len(new) <= MaxKeys
  BY <1>3, <1>4, <1>10, BudgetAssumption
<1>13. IsSpendStore(new)
  BY <1>2, <1>10, <1>11, <1>12, StoreOfEntries
<1>14. SpendGet(new, key) = e.micro
  BY <1>7, <1>10, <1>13, SpendGets
<1>15. ASSUME NEW k, k # key PROVE SpendGet(new, k) <= SpendGet(s, k)
  <2>1. ASSUME NEW i \in DOMAIN new, new[i].key = k
        PROVE  \E j \in DOMAIN s : new[i] = s[j]
    <3>1. i \in 1..n
      BY <1>7, <1>10, <1>15, <2>1
    <3> QED
      BY <1>3, <1>4, <1>10, <3>1
  <2> QED
    BY <1>13, <2>1, FewerEntries
<1> QED
  BY <1>6, <1>7, <1>13, <1>14, <1>15

(* A store has as many keys as entries.                                    *)
LEMMA KeysCounted ==
  ASSUME NEW s, IsSpendStore(s)
  PROVE  Cardinality(SpendKeys(s)) = Len(s)
<1>1. PICK n \in Nat : n = Len(s) /\ DOMAIN s = 1..n
  BY LenProperties DEF IsSpendStore
<1>2. PICK f : f = [i \in 1..n |-> s[i].key]
  OBVIOUS
<1>3. f \in Bijection(1..n, SpendKeys(s))
  <2>1. f \in [1..n -> SpendKeys(s)]
    BY <1>1, <1>2 DEF SpendKeys
  <2>2. \A i, j \in 1..n : f[i] = f[j] => i = j
    BY <1>1, <1>2 DEF IsSpendStore
  <2>3. \A k \in SpendKeys(s) : \E i \in 1..n : f[i] = k
    BY <1>1, <1>2 DEF SpendKeys
  <2> QED
    BY <2>1, <2>2, <2>3, Fun_IsBij
<1>4. Cardinality(1..n) = n /\ IsFiniteSet(1..n)
  BY FS_Interval
<1>5. ExistsBijection(1..n, SpendKeys(s))
  BY <1>3, Fun_ExistsBij
<1> QED
  BY <1>1, <1>4, <1>5, FS_Bijection

-----------------------------------------------------------------------------
(* The budget.                                                             *)

(* The requests the budget plugin let pass whose cost is still to come.    *)
Answers == Replies \cup {None}
Paying == {"cache", "select", "call", "wait", "after"}
Charges(q, k) == q.pc \in Paying /\ ~q.ask.body.stream /\ SpendKey(q.ask.auth) = k
PendingOf(k) == {r \in Requests : Charges(req[r], k)}

(* A key is charged at most the rest of what its requests in flight may    *)
(* cost, top being the most there were, or nothing was charged to it that  *)
(* it did not start with.                                                  *)
InLimit(a, spent, pending, top) ==
  \/ /\ SpendKey(a) # None
     /\ spent + Cardinality(pending) * CostliestReply
          < LimitOf(a) + top * CostliestReply
  \/ /\ SpendKey(a) = None \/ pending = {}
     /\ \E s \in SpentBefore : spent <= SpendGet(s, SpendKey(a))

BudgetInv ==
  /\ IsSpendStore(spend)
  /\ peak \in [Payers -> Nat]
  /\ \A c \in cache : c.reply \in Answers
  /\ \A r \in Requests : req[r].reply \in Answers
  /\ \A a \in Principals : LimitOf(a) > 0 =>
       InLimit(a, SpendGet(spend, SpendKey(a)), PendingOf(SpendKey(a)),
               peak[SpendKey(a)])

(* More requests cost no less.                                             *)
LEMMA Times ==
  ASSUME NEW c \in Nat, NEW m \in Nat, NEW n \in Nat, m <= n
  PROVE  m * c <= n * c
<1>1. PICK d \in Nat : n = m + d
  <2>1. n - m \in Nat
    OBVIOUS
  <2>2. n = m + (n - m)
    OBVIOUS
  <2> QED
    BY <2>1, <2>2
<1>2. n * c = m * c + d * c
  BY <1>1
<1>3. m * c \in Nat /\ d * c \in Nat
  OBVIOUS
<1> QED
  BY <1>2, <1>3

(* The costliest answer is one.                                            *)
LEMMA Costliest ==
  /\ CostliestReply \in Nat
  /\ \A p \in Replies : CostOf(p) <= CostliestReply
<1>1. PICK costs : costs = {CostOf(p) : p \in Replies}
  OBVIOUS
<1>2. costs \subseteq Nat
  <2>1. \A p \in Replies : CostOf(p) \in Nat
    BY BudgetAssumption DEF CostOf, UsdToMicro
  <2> QED
    BY <1>1, <2>1
<1>3. \E c \in costs : \A d \in costs : d <= c
  BY <1>1, BudgetAssumption
<1>4. CostliestReply \in costs /\ \A d \in costs : d <= CostliestReply
  BY <1>1, <1>3 DEF CostliestReply
<1> QED
  BY <1>1, <1>2, <1>4

(* Requests are finitely many.                                             *)
LEMMA Counted ==
  ASSUME NEW Q, NEW P, Q \subseteq P, P \subseteq Requests
  PROVE  /\ IsFiniteSet(P) /\ IsFiniteSet(Q)
         /\ Cardinality(Q) \in Nat /\ Cardinality(P) \in Nat
         /\ Cardinality(Requests) \in Nat
         /\ Cardinality(Q) <= Cardinality(P)
         /\ Cardinality(P) <= Cardinality(Requests)
<1>1. IsFiniteSet(Requests)
  BY PipelineAssumption
<1>2. IsFiniteSet(P) /\ Cardinality(P) <= Cardinality(Requests)
  BY <1>1, FS_Subset
<1>3. IsFiniteSet(Q) /\ Cardinality(Q) <= Cardinality(P)
  BY <1>2, FS_Subset
<1> QED
  BY <1>1, <1>2, <1>3, FS_CardinalityType

(* Fewer requests and no new cost keep a key within its limit.             *)
LEMMA LessStays ==
  ASSUME NEW a, LimitOf(a) \in Nat, NEW m \in Nat, NEW n \in Nat, n <= m,
         NEW P, P \subseteq Requests, NEW Q, Q \subseteq P, NEW t \in Nat, NEW u \in Nat,
         t <= u, InLimit(a, m, P, t),
         \A s \in SpentBefore : SpendGet(s, SpendKey(a)) \in Nat
  PROVE  InLimit(a, n, Q, u)
<1>1. PICK c, p, q, l \in Nat :
        /\ c = CostliestReply /\ p = Cardinality(P) /\ q = Cardinality(Q)
        /\ l = LimitOf(a) /\ q <= p
  BY Counted, Costliest
<1>2. /\ q * c <= p * c /\ q * c \in Nat /\ p * c \in Nat /\ t * c \in Nat
      /\ t * c <= u * c /\ u * c \in Nat
  BY Times, <1>1
<1>3. CASE SpendKey(a) # None /\ m + p * c < l + t * c
  <2>1. n + q * c < l + u * c
    BY <1>2, <1>3
  <2> QED
    BY <1>1, <1>3, <2>1 DEF InLimit
<1>4. CASE /\ SpendKey(a) = None \/ P = {}
           /\ \E s \in SpentBefore : m <= SpendGet(s, SpendKey(a))
  <2>1. PICK s \in SpentBefore : m <= SpendGet(s, SpendKey(a))
    BY <1>4
  <2>2. n <= SpendGet(s, SpendKey(a))
    BY <2>1
  <2>3. SpendKey(a) = None \/ Q = {}
    BY <1>4
  <2> QED
    BY <2>1, <2>2, <2>3 DEF InLimit
<1> QED
  BY <1>1, <1>3, <1>4 DEF InLimit

(* So is a key whose request is let pass below it, with those it joins.    *)
LEMMA AdmittedWithin ==
  ASSUME NEW a, LimitOf(a) \in Nat, SpendKey(a) # None, NEW n \in Nat, n < LimitOf(a),
         NEW Q, Q \subseteq Requests, NEW t \in Nat, Cardinality(Q) <= t
  PROVE  InLimit(a, n, Q, t)
<1>1. PICK c, q, l \in Nat :
        c = CostliestReply /\ q = Cardinality(Q) /\ l = LimitOf(a) /\ q <= t
  BY Counted, Costliest
<1>2. q * c <= t * c /\ q * c \in Nat /\ t * c \in Nat
  BY Times, <1>1
<1>3. n + q * c < l + t * c
  BY <1>1, <1>2
<1> QED
  BY <1>1, <1>3 DEF InLimit

(* And a key that pays for one of its requests.                            *)
LEMMA ChargedWithin ==
  ASSUME NEW a, LimitOf(a) \in Nat, SpendKey(a) # None, NEW m \in Nat, NEW n \in Nat,
         n <= m + CostliestReply,
         NEW P, P \subseteq Requests, NEW r \in P, NEW t \in Nat, InLimit(a, m, P, t)
  PROVE  InLimit(a, n, P \ {r}, t)
<1>1. Cardinality(P \ {r}) = Cardinality(P) - 1 /\ P # {}
  BY Counted, FS_RemoveElement
<1>2. PICK c, p, q, l \in Nat :
        /\ c = CostliestReply /\ p = Cardinality(P) /\ q = Cardinality(P \ {r})
        /\ l = LimitOf(a)
  <2>1. P \ {r} \subseteq P
    OBVIOUS
  <2> QED
    BY <2>1, Counted, Costliest
<1>3. p = q + 1
  BY <1>1, <1>2
<1>4. p * c = q * c + c /\ q * c \in Nat /\ p * c \in Nat /\ t * c \in Nat
  BY <1>3
<1>5. m + p * c < l + t * c
  BY <1>1, <1>2 DEF InLimit
<1>6. n + q * c < l + t * c
  BY <1>2, <1>4, <1>5
<1> QED
  BY <1>2, <1>6 DEF InLimit

(* What a step may do to the spend store and to the requests that are      *)
(* still to pay: nothing new, one let pass below its limit, one that pays. *)
Spends(r) ==
  \E x :
    /\ req' = [req EXCEPT ![r] = x]
    /\ x.reply \in Answers
    /\ \A c \in cache' : c.reply \in Answers
    /\ peak' \in [Payers -> Nat] /\ \A k \in Payers : peak[k] <= peak'[k]
    /\ \/ spend' = spend /\ \A k : Charges(x, k) => Charges(req[r], k)
       \/ /\ spend' = spend /\ req[r].ask.auth \in Principals
          /\ \A k : Charges(x, k) => /\ k = SpendKey(req[r].ask.auth)
                                     /\ \/ k = None
                                        \/ Cardinality(PendingOf(k) \cup {r}) <= peak'[k]
          /\ SpendKey(req[r].ask.auth) # None =>
               ~OverBudget(spend, SpendKey(req[r].ask.auth), LimitOf(req[r].ask.auth))
       \/ \E key, tenths :
            /\ key # None /\ Charges(req[r], key) /\ tenths \in Nat
            /\ UsdToMicro(tenths) <= CostliestReply
            /\ \A k : ~Charges(x, k)
            /\ spend' = SpendAdd(spend, key, tenths, MaxKeys, Ceiling)

(* Such a step keeps every key within its limit.                           *)
LEMMA SpendsWithin ==
  ASSUME PipelineInv, BudgetInv, NEW r \in Requests, Spends(r)
  PROVE  BudgetInv'
<1>1. PICK x :
        /\ req' = [req EXCEPT ![r] = x]
        /\ x.reply \in Answers
        /\ \A c \in cache' : c.reply \in Answers
        /\ peak' \in [Payers -> Nat] /\ \A k \in Payers : peak[k] <= peak'[k]
        /\ \/ spend' = spend /\ \A k : Charges(x, k) => Charges(req[r], k)
           \/ /\ spend' = spend /\ req[r].ask.auth \in Principals
              /\ \A k : Charges(x, k) => /\ k = SpendKey(req[r].ask.auth)
                                         /\ \/ k = None
                                            \/ Cardinality(PendingOf(k) \cup {r}) <= peak'[k]
              /\ SpendKey(req[r].ask.auth) # None =>
                   ~OverBudget(spend, SpendKey(req[r].ask.auth), LimitOf(req[r].ask.auth))
           \/ \E key, tenths :
                /\ key # None /\ Charges(req[r], key) /\ tenths \in Nat
                /\ UsdToMicro(tenths) <= CostliestReply
                /\ \A k : ~Charges(x, k)
                /\ spend' = SpendAdd(spend, key, tenths, MaxKeys, Ceiling)
  BY DEF Spends
<1>2. req'[r] = x /\ \A p \in Requests : p # r => req'[p] = req[p]
  BY <1>1 DEF PipelineInv
<1>3. IsSpendStore(spend)
  BY DEF BudgetInv
<1>4. IsSpendStore(spend')
  BY <1>1, <1>3, SpendAddCharges
<1>5. \A p \in Requests : req'[p].reply \in Answers
  BY <1>1, <1>2 DEF BudgetInv
<1>6. ASSUME NEW a \in Principals, LimitOf(a) > 0
      PROVE  InLimit(a, SpendGet(spend', SpendKey(a)),
                     {p \in Requests : Charges(req'[p], SpendKey(a))},
                     peak'[SpendKey(a)])
  <2>1. PICK k, P, Q : /\ k = SpendKey(a)
                       /\ P = {p \in Requests : Charges(req[p], k)}
                       /\ Q = {p \in Requests : Charges(req'[p], k)}
    OBVIOUS
  <2>2. PICK m, n : m = SpendGet(spend, k) /\ n = SpendGet(spend', k)
    OBVIOUS
  <2>3. m \in Nat /\ n \in Nat
    BY <1>3, <1>4, <2>2, SpendGets, BudgetAssumption
  <2>t. PICK t, u : t = peak[k] /\ u = peak'[k]
    OBVIOUS
  <2>u. t \in Nat /\ u \in Nat /\ t <= u
    BY <1>1, <1>6, <2>1, <2>t DEF BudgetInv, Payers
  <2>4. LimitOf(a) \in Nat /\ InLimit(a, m, P, t)
    BY <1>6, <2>1, <2>2, <2>t, BudgetAssumption DEF BudgetInv, PendingOf
  <2>5. \A s \in SpentBefore : SpendGet(s, k) \in Nat
    BY SpendGets, BudgetAssumption
  <2>6. P \subseteq Requests /\ Q \subseteq Requests
    BY <2>1
  <2>7. \A p \in Q : p # r => p \in P
    BY <1>2, <2>1
  <2>8. r \in Q <=> Charges(x, k)
    BY <1>2, <2>1
  <2>9. r \in P <=> Charges(req[r], k)
    BY <2>1
  <2>10. CASE spend' = spend /\ \A j : Charges(x, j) => Charges(req[r], j)
    <3>1. Q \subseteq P
      BY <2>7, <2>8, <2>9, <2>10
    <3>2. n <= m
      BY <2>2, <2>3, <2>10
    <3> QED
      BY <2>1, <2>2, <2>3, <2>t, <2>u, <2>4, <2>5, <2>6, <3>1, <3>2, LessStays
  <2>11. CASE /\ spend' = spend /\ req[r].ask.auth \in Principals
              /\ \A j : Charges(x, j) => /\ j = SpendKey(req[r].ask.auth)
                                         /\ \/ j = None
                                            \/ Cardinality(PendingOf(j) \cup {r}) <= peak'[j]
              /\ SpendKey(req[r].ask.auth) # None =>
                   ~OverBudget(spend, SpendKey(req[r].ask.auth), LimitOf(req[r].ask.auth))
    <3>1. PICK b \in Principals : b = req[r].ask.auth
      BY <2>11
    <3>2. n = m
      BY <2>2, <2>11
    <3>3. CASE k # SpendKey(b)
      <4>1. Q \subseteq P
        BY <2>7, <2>8, <2>11, <3>1, <3>3
      <4> QED
        BY <2>1, <2>2, <2>3, <2>t, <2>u, <2>4, <2>5, <2>6, <3>2, <4>1, LessStays
    <3>4. CASE k = SpendKey(b) /\ k # None
      <4>1. LimitOf(b) = LimitOf(a)
        BY <1>6, <2>1, <3>1, <3>4, BudgetAssumption
      <4>2. ~OverBudget(spend, k, LimitOf(a))
        BY <2>11, <3>1, <3>4, <4>1
      <4>3. n < LimitOf(a)
        BY <1>6, <2>2, <2>3, <2>4, <3>2, <4>2 DEF OverBudget
      <4>4. CASE Charges(x, k)
        <5>1. Cardinality(P \cup {r}) <= u
          BY <2>1, <2>t, <2>11, <3>4, <4>4 DEF PendingOf
        <5>2. Q \subseteq P \cup {r} /\ P \cup {r} \subseteq Requests
          BY <2>6, <2>7
        <5>3. Cardinality(Q) <= u
          <6>1. /\ Cardinality(Q) \in Nat /\ Cardinality(P \cup {r}) \in Nat
                /\ Cardinality(Q) <= Cardinality(P \cup {r})
            BY <5>2, Counted
          <6> QED
            BY <2>u, <5>1, <6>1
        <5> QED
          BY <2>1, <2>2, <2>3, <2>t, <2>u, <2>4, <2>6, <3>4, <4>3, <5>3, AdmittedWithin
      <4>5. CASE ~Charges(x, k)
        <5>1. Q \subseteq P /\ n <= m
          BY <2>3, <2>7, <2>8, <3>2, <4>5
        <5> QED
          BY <2>1, <2>2, <2>3, <2>t, <2>u, <2>4, <2>5, <2>6, <5>1, LessStays
      <4> QED
        BY <4>4, <4>5
    <3>5. CASE k = None
      <4>1. \E s \in SpentBefore : n <= SpendGet(s, SpendKey(a))
        BY <2>1, <2>4, <3>2, <3>5 DEF InLimit
      <4> QED
        BY <2>1, <2>2, <2>t, <3>5, <4>1 DEF InLimit
    <3> QED
      BY <3>3, <3>4, <3>5
  <2>12. ASSUME NEW key, NEW tenths, key # None, Charges(req[r], key), tenths \in Nat,
                UsdToMicro(tenths) <= CostliestReply, \A j : ~Charges(x, j),
                spend' = SpendAdd(spend, key, tenths, MaxKeys, Ceiling)
         PROVE  InLimit(a, SpendGet(spend', SpendKey(a)),
                        {p \in Requests : Charges(req'[p], SpendKey(a))},
                        peak'[SpendKey(a)])
    <3>1. /\ SpendGet(spend', key) <= SpendGet(spend, key) + UsdToMicro(tenths)
          /\ \A j : j # key => SpendGet(spend', j) <= SpendGet(spend, j)
      BY <1>3, <2>12, SpendAddCharges
    <3>2. CASE k # key
      <4>1. Q \subseteq P
        BY <2>7, <2>8, <2>12
      <4>2. n <= m
        BY <2>2, <3>1, <3>2
      <4> QED
        BY <2>1, <2>2, <2>3, <2>t, <2>u, <2>4, <2>5, <2>6, <4>1, <4>2, LessStays
    <3>3. CASE k = key
      <4>1. r \in P /\ Q \subseteq P \ {r}
        BY <2>7, <2>8, <2>9, <2>12, <3>3
      <4>2. n <= m + CostliestReply
        <5>1. UsdToMicro(tenths) \in Nat /\ CostliestReply \in Nat
          BY <2>12, Costliest DEF UsdToMicro
        <5> QED
          BY <2>2, <2>3, <2>12, <3>1, <3>3, <5>1
      <4>3. InLimit(a, n, P \ {r}, t)
        BY <2>1, <2>3, <2>u, <2>4, <2>6, <2>12, <3>3, <4>1, <4>2, ChargedWithin
      <4>4. n <= n /\ P \ {r} \subseteq Requests
        BY <2>3, <2>6
      <4> QED
        BY <2>1, <2>2, <2>3, <2>t, <2>u, <2>4, <2>5, <4>1, <4>3, <4>4, LessStays
    <3> QED
      BY <3>2, <3>3
  <2> QED
    BY <1>1, <2>10, <2>11, <2>12
<1> QED
  BY <1>1, <1>4, <1>5, <1>6 DEF BudgetInv, PendingOf

(* A change that leaves the principal alone and takes no request to where  *)
(* it is still to pay.                                                     *)
Calm(r, change) ==
  /\ "ask" \notin DOMAIN change
  /\ "reply" \in DOMAIN change => change.reply \in Answers
  /\ "pc" \in DOMAIN change => change.pc \notin Paying \/ req[r].pc \in Paying

(* It adds nothing to what a key may still be charged.                     *)
LEMMA CalmRequest ==
  ASSUME PipelineInv, BudgetInv, NEW r \in Requests, NEW change, Calm(r, change),
         Goes(r, change) \/ Ends(r, change)
  PROVE  \E x : /\ req' = [req EXCEPT ![r] = x]
                /\ x.reply \in Answers
                /\ \A k : Charges(x, k) => Charges(req[r], k)
                /\ "pc" \in DOMAIN change => x.pc = change.pc
<1>1. PICK q : q = req[r] /\ DOMAIN q = Fields /\ q.reply \in Answers
  BY DEF PipelineInv, Good, Flow, BudgetInv
<1>2. PICK x : /\ req' = [req EXCEPT ![r] = x]
               /\ x = Changed(q, change) \/ x = Changed(Ended(q), change)
  BY <1>1, GoesOn, Returns
<1>3. /\ x.ask = q.ask
      /\ x.reply \in Answers
      /\ x.pc \in Paying => q.pc \in Paying
      /\ "pc" \in DOMAIN change => x.pc = change.pc
  <2>1. CASE x = Changed(q, change)
    BY <1>1, <2>1, ChangedFields DEF Calm
  <2>2. CASE x = Changed(Ended(q), change)
    BY <1>1, <2>2, ChangedFields, EndedFields DEF Calm, Paying, Answers
  <2> QED
    BY <1>2, <2>1, <2>2
<1>4. \A k : Charges(x, k) => Charges(q, k)
  BY <1>3 DEF Charges
<1> QED
  BY <1>1, <1>2, <1>3, <1>4

(* With the spend store as it was, that is all there is to it.             *)
LEMMA CalmSpends ==
  ASSUME PipelineInv, BudgetInv, NEW r \in Requests, NEW change, Calm(r, change),
         Goes(r, change) \/ Ends(r, change), spend' = spend, peak' = peak,
         \A c \in cache' : c.reply \in Answers
  PROVE  Spends(r)
<1>1. peak' \in [Payers -> Nat] /\ \A k \in Payers : peak[k] <= peak'[k]
  BY DEF BudgetInv
<1> QED
  BY <1>1, CalmRequest DEF Spends

(* The changes the steps make of a request.                                *)
LEMMA CalmChanges ==
  ASSUME NEW r, NEW a, a \notin Paying \/ req[r].pc \in Paying, NEW b, NEW c, NEW d
  PROVE  /\ Calm(r, [pc |-> a]) /\ Calm(r, [pc |-> a, work |-> b, scan |-> c])
         /\ b \in Answers => Calm(r, [pc |-> a, reply |-> b, origin |-> c])
         /\ b \in Answers => Calm(r, [pc |-> a, reply |-> b])
         /\ Calm(r, [pc |-> a, order |-> b])
         /\ Calm(r, [pc |-> a, sent |-> b, target |-> c])
         /\ Calm(r, [pc |-> a, error |-> b, target |-> c])
         /\ Calm(r, [pc |-> a, error |-> b])
         /\ Calm(r, [pc |-> a, check |-> b, records |-> c])
         /\ Calm(r, [pc |-> a, rec |-> b])
         /\ Calm(r, [pc |-> a, status |-> b, rec |-> c, records |-> d])
         /\ Calm(r, [pc |-> a, rec |-> c, records |-> d])
  BY DEF Calm

(* Those that leave it where it is.                                        *)
LEMMA CalmInPlace ==
  ASSUME NEW r, NEW a, NEW b, NEW c, NEW d
  PROVE  /\ Calm(r, [status |-> b, error |-> c, scan |-> d, records |-> a])
         /\ Calm(r, [error |-> a, status |-> b, scan |-> c])
         /\ Calm(r, [error |-> a, status |-> b])
         /\ Calm(r, [status |-> a, error |-> b])
         /\ Calm(r, [status |-> a, records |-> b])
         /\ Calm(r, [status |-> a, check |-> b, records |-> c])
         /\ Calm(r, [status |-> a, check |-> b, records |-> c, shown |-> d])
         /\ Calm(r, [status |-> a, check |-> b, shown |-> c])
         /\ Calm(r, [rec |-> a, shown |-> b])
         /\ Calm(r, [status |-> a, rec |-> b, records |-> c])
         /\ Calm(r, [order |-> a, error |-> b])
  BY DEF Calm

(* The steps that neither pass the budget plugin nor pay.                  *)
LEMMA CalmSteps ==
  ASSUME PipelineInv, BudgetInv, NEW r \in Requests,
         \/ Prepare(r) \/ RunPii(r) \/ CacheLookup(r) \/ Select(r) \/ Dispatch(r)
         \/ Unreachable(r) \/ CallFails(r) \/ CallAnswers(r) \/ Guard(r)
         \/ StreamOpens(r) \/ StreamChunk(r) \/ StreamFails(r) \/ StreamEnds(r)
         \/ DropStream(r) \/ Disconnect(r) \/ EmbedSelect(r) \/ EmbedTry(r)
  PROVE  Spends(r)
<1>1. spend' = spend /\ cache' = cache /\ peak' = peak
  <2>1. UNCHANGED <<config, changes, peak, stores>> \/ UNCHANGED <<peak, spend, cache>>
    BY Zenon DEF Prepare, RunPii, CacheLookup, Select, Dispatch, Unreachable, CallFails,
         CallAnswers, Guard, StreamOpens, StreamChunk, StreamFails, StreamEnds,
         DropStream, Disconnect, EmbedSelect, EmbedTry
  <2> QED
    BY <2>1 DEF stores
<1>3. /\ {"pii", "embed", "plugins", "guard", "insert", "stream", "closing", "gone"}
           \cap Paying = {}
      /\ {"select", "call", "wait", "after"} \subseteq Paying
  BY DEF Paying
<1> DEFINE Change == \E change : /\ Calm(r, change)
                                 /\ Goes(r, change) \/ Ends(r, change)
<1>4. ASSUME NEW error, Refuse(r, error) PROVE Change
  BY <1>4, CalmInPlace, Zenon DEF Refuse
<1>5. ASSUME Prepare(r) PROVE Change
  <2>1. \/ \E error : Refuse(r, error)
        \/ Goes(r, [pc |-> "embed"]) \/ Goes(r, [pc |-> "pii"])
    BY <1>5, Zenon DEF Prepare
  <2> QED
    BY <1>3, <1>4, <2>1, CalmChanges
<1>6. ASSUME RunPii(r) PROVE Change
  <2>1. \/ \E error : Refuse(r, error)
        \/ \E a, b : Goes(r, [pc |-> "plugins", work |-> a, scan |-> b])
    BY <1>6, Zenon DEF RunPii
  <2> QED
    BY <1>3, <1>4, <2>1, CalmChanges
<1>7. ASSUME CacheLookup(r) PROVE Change
  <2>1. req[r].pc \in Paying
    BY <1>7 DEF CacheLookup, Paying
  <2>2. \/ \E c \in cache : Goes(r, [pc |-> "after", reply |-> c.reply, origin |-> c.by])
        \/ Goes(r, [pc |-> "select"])
    BY <1>7 DEF CacheLookup
  <2>3. \A c \in cache : c.reply \in Answers
    BY DEF BudgetInv
  <2> QED
    BY <2>1, <2>2, <2>3, CalmChanges
<1>8. ASSUME Select(r) \/ Dispatch(r) \/ Unreachable(r) \/ CallFails(r)
      PROVE  Change
  <2>1. req[r].pc \in Paying
    BY <1>8 DEF Select, Dispatch, Unreachable, CallFails, Paying
  <2>2. \E a, b, c :
          \/ Ends(r, [error |-> a, status |-> b, scan |-> c])
          \/ Ends(r, [error |-> a, status |-> b])
          \/ Goes(r, [pc |-> a, order |-> b])
          \/ Goes(r, [pc |-> a, sent |-> b, target |-> c])
          \/ Goes(r, [pc |-> a, error |-> b, target |-> c])
          \/ Goes(r, [pc |-> a, error |-> b])
    <3>1. CASE Select(r)
      BY <3>1, Zenon DEF Select
    <3>2. CASE Dispatch(r)
      BY <3>2, Zenon DEF Dispatch
    <3>3. CASE Unreachable(r)
      BY <3>3, Zenon DEF Unreachable
    <3>4. CASE CallFails(r)
      BY <3>4, Zenon DEF CallFails
    <3> QED
      BY <1>8, <3>1, <3>2, <3>3, <3>4
  <2> QED
    BY <2>1, <2>2, CalmChanges, CalmInPlace
<1>9. ASSUME CallAnswers(r) PROVE Change
  <2>1. req[r].pc \in Paying
    BY <1>9 DEF CallAnswers, Paying
  <2>2. \E reply \in Answers : Goes(r, [pc |-> "after", reply |-> reply])
    BY <1>9 DEF CallAnswers, Answers
  <2> QED
    BY <2>1, <2>2, CalmChanges
<1>10. ASSUME Guard(r) PROVE Change
  <2>1. PICK b, c, d :
          \/ Goes(r, [pc |-> "insert", check |-> b, records |-> c])
          \/ Ends(r, [status |-> 400, check |-> b, records |-> c])
          \/ Ends(r, [status |-> 200, check |-> b, records |-> c, shown |-> d])
    BY <1>10, Zenon DEF Guard
  <2>2. Calm(r, [pc |-> "insert", check |-> b, records |-> c])
    BY <1>3, CalmChanges
  <2>3. Calm(r, [status |-> 400, check |-> b, records |-> c])
    BY DEF Calm
  <2>4. Calm(r, [status |-> 200, check |-> b, records |-> c, shown |-> d])
    BY DEF Calm
  <2> QED
    BY <2>1, <2>2, <2>3, <2>4, Zenon
<1>11. ASSUME StreamOpens(r) \/ StreamChunk(r) \/ StreamFails(r)
       PROVE  Change
  <2>1. \E b, c : \/ Goes(r, [pc |-> "stream", rec |-> b])
                  \/ Goes(r, [pc |-> "closing", rec |-> b])
                  \/ Goes(r, [rec |-> b, shown |-> c])
    <3>1. CASE StreamOpens(r)
      BY <3>1, Zenon DEF StreamOpens
    <3>2. CASE StreamChunk(r)
      BY <3>2, Zenon DEF StreamChunk
    <3>3. CASE StreamFails(r)
      BY <3>3, Zenon DEF StreamFails
    <3> QED
      BY <1>11, <3>1, <3>2, <3>3
  <2> QED
    BY <1>3, <2>1, CalmChanges, CalmInPlace
<1>12. ASSUME StreamEnds(r) \/ DropStream(r) \/ Disconnect(r)
       PROVE  Change
  <2>1. \E b, c, d : \/ Goes(r, [pc |-> "closing", status |-> b, rec |-> c, records |-> d])
                     \/ Ends(r, [status |-> b, rec |-> c, records |-> d])
                     \/ Ends(r, [pc |-> "gone"])
                     \/ Ends(r, [pc |-> "gone", rec |-> c, records |-> d])
    <3>1. CASE StreamEnds(r)
      BY <3>1, Zenon DEF StreamEnds
    <3>2. CASE DropStream(r)
      BY <3>2, Zenon DEF DropStream
    <3>3. CASE Disconnect(r)
      BY <3>3, Zenon DEF Disconnect
    <3> QED
      BY <1>12, <3>1, <3>2, <3>3
  <2> QED
    BY <1>3, <2>1, CalmChanges, CalmInPlace
<1>13. ASSUME EmbedSelect(r) \/ EmbedTry(r) PROVE Change
  <2>1. \E a, b : \/ Ends(r, [error |-> a, status |-> b])
                  \/ Ends(r, [status |-> a, error |-> b])
                  \/ Goes(r, [order |-> a, error |-> b])
    <3>1. CASE EmbedSelect(r)
      BY <3>1, Zenon DEF EmbedSelect
    <3>2. CASE EmbedTry(r)
      BY <3>2, Zenon DEF EmbedTry
    <3> QED
      BY <1>13, <3>1, <3>2
  <2> QED
    BY <2>1, CalmInPlace
<1>14. Change
  BY <1>5, <1>6, <1>7, <1>8, <1>9, <1>10, <1>11, <1>12, <1>13
<1>15. \A c \in cache' : c.reply \in Answers
  BY <1>1 DEF BudgetInv
<1> QED
  BY <1>1, <1>14, <1>15, CalmSpends

(* A request that arrives has nothing to pay yet.                          *)
LEMMA ArriveSpends ==
  ASSUME PipelineInv, BudgetInv, NEW r \in Requests, Arrive(r)
  PROVE  Spends(r)
<1>1. PICK q : q = req[r] /\ DOMAIN q = Fields /\ q.reply \in Answers
  BY DEF PipelineInv, Good, Flow, BudgetInv
<1>2. PICK x : /\ req' = [req EXCEPT ![r] = x]
               /\ \/ x = Changed(Ended(q), [status |-> 400])
                  \/ \E a : x = Changed(q, [pc |-> "prepare", ask |-> Accepted(a),
                                            work |-> Accepted(a).body])
  BY <1>1, GoesOn, Returns DEF Arrive
<1>3. x.reply \in Answers /\ x.pc \notin Paying
  <2>1. CASE x = Changed(Ended(q), [status |-> 400])
    BY <2>1, ChangedFields, EndedFields DEF Answers, Paying
  <2>2. ASSUME NEW a, x = Changed(q, [pc |-> "prepare", ask |-> Accepted(a),
                                      work |-> Accepted(a).body])
        PROVE  x.reply \in Answers /\ x.pc \notin Paying
    BY <1>1, <2>2, ChangedFields DEF Paying
  <2> QED
    BY <1>2, <2>1, <2>2
<1>4. /\ spend' = spend /\ cache' = cache
      /\ peak' \in [Payers -> Nat] /\ \A k \in Payers : peak[k] <= peak'[k]
  BY DEF Arrive, stores, BudgetInv
<1>5. \A c \in cache' : c.reply \in Answers
  BY <1>4 DEF BudgetInv
<1> QED
  BY <1>2, <1>3, <1>4, <1>5 DEF Spends, Charges

(* The budget plugin lets a request pass below its limit only.             *)
LEMMA PluginsSpend ==
  ASSUME PipelineInv, BudgetInv, NEW r \in Requests, RunPlugins(r)
  PROVE  Spends(r)
<1>1. PICK q : /\ q = req[r] /\ DOMAIN q = Fields /\ q.reply \in Answers
               /\ q.ask \in Accepts
  BY LiveAsk DEF PipelineInv, Good, Flow, BudgetInv, RunPlugins, PCs, Live
<1>2. spend' = spend /\ cache' = cache
  BY DEF RunPlugins
<1>3. \A c \in cache' : c.reply \in Answers
  BY <1>2 DEF BudgetInv
<1>4. PICK key, limit : key = SpendKey(q.ask.auth) /\ limit = LimitOf(q.ask.auth)
  OBVIOUS
<1>5. PICK window \in WindowVerdicts :
        LET verdict == FirstError(<<WordFilter(Blocklist, q.work),
                                    MaxToken(MaxTokensLimit, q.work),
                                    IF key # None /\ OverBudget(spend, key, limit)
                                    THEN "quota" ELSE Ok,
                                    window>>)
        IN  IF verdict = Ok
            THEN /\ Goes(r, [pc |-> IF Stream(r) THEN "select" ELSE "cache"])
                 /\ peak' = PeakWith(r)
            ELSE Refuse(r, verdict) /\ peak' = peak
  BY <1>1, <1>4, Zenon DEF RunPlugins, Auth, LimitOf
<1>6. PICK w, m, b : /\ w = WordFilter(Blocklist, q.work)
                     /\ m = MaxToken(MaxTokensLimit, q.work)
                     /\ b = IF key # None /\ OverBudget(spend, key, limit)
                            THEN "quota" ELSE Ok
  OBVIOUS
<1>7. CASE FirstError(<<w, m, b, window>>) # Ok
  <2>1. Refuse(r, FirstError(<<w, m, b, window>>)) /\ peak' = peak
    BY <1>5, <1>6, <1>7
  <2>2. \E change : Calm(r, change) /\ Ends(r, change)
    BY <2>1, CalmInPlace, Zenon DEF Refuse
  <2> QED
    BY <1>2, <1>3, <2>1, <2>2, CalmSpends
<1>8. CASE FirstError(<<w, m, b, window>>) = Ok
  <2>1. PICK pc : Goes(r, [pc |-> pc]) /\ peak' = PeakWith(r)
    BY <1>5, <1>6, <1>8
  <2>2. PICK x : x = Changed(q, [pc |-> pc])
    OBVIOUS
  <2>3. req' = [req EXCEPT ![r] = x]
    BY <1>1, <2>1, <2>2, GoesOn
  <2>4. x.ask = q.ask /\ x.reply = q.reply
    BY <1>1, <2>2, ChangedFields
  <2>5. key # None => ~OverBudget(spend, key, limit)
    <3>1. b = Ok
      BY <1>8, FirstOfFour
    <3> QED
      BY <1>6, <3>1 DEF Ok
  <2>6. q.ask.auth \in Principals
    <3>1. PICK a \in Asked : q.ask = Accepted(a)
      BY <1>1 DEF Accepts
    <3>2. q.ask.auth = a.auth
      BY <3>1, AskedAssumption DEF Accepted
    <3> QED
      BY <3>2 DEF Principals
  <2>7. \A k : Charges(x, k) => k = key /\ ~q.ask.body.stream
    BY <1>4, <2>4 DEF Charges
  <2>8. PICK n : n = Cardinality(PendingOf(key) \cup {r})
    OBVIOUS
  <2>9. n \in Nat
    <3>1. PendingOf(key) \cup {r} \subseteq Requests
      BY DEF PendingOf
    <3> QED
      BY <2>8, <3>1, Counted
  <2>10. peak' = IF key = None \/ q.ask.body.stream THEN peak
                 ELSE [peak EXCEPT ![key] = IF n > @ THEN n ELSE @]
    <3>1. Unpaid(key) = PendingOf(key)
      BY DEF Unpaid, PendingOf, Charges, Paying, Stream, Auth
    <3> QED
      BY <1>1, <1>4, <2>1, <2>8, <3>1 DEF PeakWith, Stream, Auth
  <2>11. key \in Payers /\ peak \in [Payers -> Nat]
    BY <1>4, <2>6 DEF Payers, BudgetInv
  <2>12. peak' \in [Payers -> Nat] /\ \A k \in Payers : peak[k] <= peak'[k]
    BY <2>9, <2>10, <2>11
  <2>13. \A k : Charges(x, k) =>
           k = None \/ Cardinality(PendingOf(k) \cup {r}) <= peak'[k]
    <3> SUFFICES ASSUME key # None, ~q.ask.body.stream PROVE n <= peak'[key]
      BY <2>7, <2>8
    <3>1. PICK t \in Nat : t = peak[key]
      BY <2>11
    <3>2. peak'[key] = IF n > t THEN n ELSE t
      BY <2>10, <2>11, <3>1
    <3> QED
      BY <2>9, <3>1, <3>2
  <2> QED
    BY <1>1, <1>2, <1>3, <1>4, <2>3, <2>4, <2>5, <2>6, <2>7, <2>12, <2>13 DEF Spends
<1> QED
  BY <1>7, <1>8

(* An answer costs its key no more than the costliest.                     *)
LEMMA AfterSpends ==
  ASSUME PipelineInv, BudgetInv, NEW r \in Requests, RunAfter(r)
  PROVE  Spends(r)
<1>1. PICK q : q = req[r] /\ q.pc = "after" /\ q.reply \in Answers
  BY DEF BudgetInv, RunAfter
<1>2. PICK key, tenths : key = SpendKey(q.ask.auth) /\ tenths = ChargeOf(r)
  OBVIOUS
<1>3. spend' = IF key # None /\ tenths > 0
               THEN SpendAdd(spend, key, tenths, MaxKeys, Ceiling) ELSE spend
  BY <1>1, <1>2, Zenon DEF RunAfter, Auth
<1>4. \A c \in cache' : c.reply \in Answers
  BY DEF RunAfter, BudgetInv
<1>p. /\ peak' = peak
      /\ peak' \in [Payers -> Nat] /\ \A k \in Payers : peak[k] <= peak'[k]
  BY DEF RunAfter, BudgetInv
<1>5. \/ Goes(r, [pc |-> "guard"])
      \/ \E status, records : Ends(r, [status |-> status, records |-> records])
  BY Zenon DEF RunAfter
<1>6. "guard" \notin Paying
  BY DEF Paying
<1>7. PICK change : /\ Calm(r, change)
                    /\ \/ change = [pc |-> "guard"] /\ Goes(r, change)
                       \/ "pc" \notin DOMAIN change /\ Ends(r, change)
  <2>1. CASE Goes(r, [pc |-> "guard"])
    BY <1>6, <2>1, CalmChanges
  <2>2. ASSUME NEW status, NEW records, Ends(r, [status |-> status, records |-> records])
        PROVE  \E change : /\ Calm(r, change)
                           /\ \/ change = [pc |-> "guard"] /\ Goes(r, change)
                              \/ "pc" \notin DOMAIN change /\ Ends(r, change)
    BY <2>2, CalmInPlace
  <2> QED
    BY <1>5, <2>1, <2>2
<1>8. CASE ~(key # None /\ tenths > 0)
  <2>1. spend' = spend
    BY <1>3, <1>8
  <2> QED
    BY <1>4, <1>p, <1>7, <2>1, CalmSpends
<1>9. CASE key # None /\ tenths > 0
  <2>1. PICK x : /\ req' = [req EXCEPT ![r] = x] /\ x.reply \in Answers
                 /\ x.pc \notin Paying
    <3>1. DOMAIN q = Fields
      BY <1>1 DEF PipelineInv, Good, Flow
    <3>2. CASE change = [pc |-> "guard"] /\ Goes(r, change)
      <4>1. PICK x : x = Changed(q, change)
        OBVIOUS
      <4>2. req' = [req EXCEPT ![r] = x]
        BY <1>1, <3>2, <4>1, GoesOn
      <4>3. x.pc = "guard" /\ x.reply = q.reply
        BY <3>1, <3>2, <4>1, ChangedFields
      <4> QED
        BY <1>1, <1>6, <4>2, <4>3
    <3>3. CASE "pc" \notin DOMAIN change /\ Ends(r, change)
      <4>1. PICK x : x = Changed(Ended(q), change)
        OBVIOUS
      <4>2. req' = [req EXCEPT ![r] = x]
        BY <1>1, <3>3, <4>1, Returns
      <4>3. PICK e : e = Ended(q) /\ DOMAIN e = Fields /\ e.pc = "done" /\ e.reply = None
        BY EndedFields
      <4>4. /\ x.pc = "done"
            /\ x.reply = IF "reply" \in DOMAIN change THEN change.reply ELSE None
        BY <3>3, <4>1, <4>3, ChangedFields
      <4>5. x.reply \in Answers
        BY <1>7, <4>4 DEF Calm, Answers
      <4> QED
        BY <4>2, <4>4, <4>5 DEF Paying
    <3> QED
      BY <1>7, <3>2, <3>3
  <2>2. spend' = SpendAdd(spend, key, tenths, MaxKeys, Ceiling)
    BY <1>3, <1>9
  <2>3. tenths \in Nat /\ UsdToMicro(tenths) <= CostliestReply
    <3>1. PICK u : u = q.reply.usage
      OBVIOUS
    <3>2. tenths = IF q.reply = None \/ u = None THEN 0 ELSE CalculateCost(Price, u)
      BY <1>1, <1>2, <3>1 DEF ChargeOf
    <3>3. q.reply # None /\ u # None /\ tenths = CalculateCost(Price, u)
      BY <1>9, <3>2
    <3>4. q.reply \in Replies
      BY <1>1, <3>3 DEF Answers
    <3>5. tenths = CalculateCost(Price, TokensOf(q.reply.usage))
      BY <3>1, <3>3 DEF TokensOf
    <3>6. UsdToMicro(tenths) = CostOf(q.reply)
      BY <3>5 DEF CostOf
    <3> QED
      BY <3>4, <3>5, <3>6, BudgetAssumption, Costliest
  <2>4. Charges(q, key) /\ \A k : ~Charges(x, k)
    <3>1. ~q.ask.body.stream
      BY <1>1 DEF PipelineInv, Good, Flow
    <3> QED
      BY <1>1, <1>2, <2>1, <3>1 DEF Charges, Paying
  <2> QED
    BY <1>1, <1>4, <1>p, <1>9, <2>1, <2>2, <2>3, <2>4 DEF Spends
<1> QED
  BY <1>8, <1>9

(* The cache holds answers.                                                *)
LEMMA InsertSpends ==
  ASSUME PipelineInv, BudgetInv, NEW r \in Requests, Insert(r)
  PROVE  Spends(r)
<1>1. \E change : Calm(r, change) /\ Ends(r, change)
  <2>1. PICK a, b, c : Ends(r, [status |-> a, check |-> b, shown |-> c])
    BY Zenon DEF Insert
  <2>2. Calm(r, [status |-> a, check |-> b, shown |-> c])
    BY CalmInPlace
  <2> QED
    BY <2>1, <2>2
<1>2. spend' = spend /\ peak' = peak
  BY DEF Insert
<1>3. req[r].reply \in Answers
  BY DEF BudgetInv
<1>4. \A c \in cache' : c.reply \in Answers
  <2>1. PICK new : new = [key |-> KeyOf(r), reply |-> req[r].reply,
                          by |-> IF req[r].origin # None THEN req[r].origin ELSE req[r].ask]
    OBVIOUS
  <2>2. cache' \subseteq cache \cup {new}
    BY <2>1 DEF Insert
  <2>3. new.reply \in Answers
    BY <1>3, <2>1
  <2> QED
    BY <2>2, <2>3 DEF BudgetInv
<1> QED
  BY <1>1, <1>2, <1>4, CalmSpends

(* Every step keeps the budgets.                                           *)
LEMMA BudgetNext == PipelineInv /\ BudgetInv /\ [Next]_vars => BudgetInv'
<1> SUFFICES ASSUME PipelineInv, BudgetInv, [Next]_vars PROVE BudgetInv'
  OBVIOUS
<1>1. CASE ApplyConfig \/ PurgeLogs \/ WriteAudit \/ Quiet \/ UNCHANGED vars
  <2>1. req' = req /\ spend' = spend /\ cache' = cache /\ peak' = peak
    BY <1>1 DEF ApplyConfig, PurgeLogs, WriteAudit, Quiet, vars
  <2> QED
    BY <2>1 DEF BudgetInv, PendingOf
<1>2. ASSUME NEW r \in Requests,
             Arrive(r) \/ Step(r) \/ StreamChunk(r) \/ StreamFails(r) \/ Disconnect(r)
      PROVE  Spends(r)
  BY <1>2, ArriveSpends, CalmSteps, PluginsSpend, AfterSpends, InsertSpends, Zenon DEF Step
<1> QED
  BY <1>1, <1>2, SpendsWithin DEF Next

(* However the requests of a key interleave between the budget check and   *)
(* the charge, the key overspends by no more than one answer for each of   *)
(* its requests that were there at the same time, and the spend store      *)
(* keeps its cap, one amount per key and its ceiling: for any limits,      *)
(* prices, answers and any eviction on the way.                            *)
THEOREM PipelineBudgetBounded == Spec => []BudgetBounded
<1>1. Init => BudgetInv
  <2> SUFFICES ASSUME Init PROVE BudgetInv
    OBVIOUS
  <2>1. /\ spend \in SpentBefore /\ cache = {} /\ req = [r \in Requests |-> Start]
        /\ peak \in [Payers -> Nat]
    BY DEF Init
  <2>2. \A r \in Requests : req[r].reply = None /\ req[r].pc = "idle"
    BY <2>1 DEF Start
  <2>3. IsSpendStore(spend)
    BY <2>1, BudgetAssumption
  <2>4. \A k : PendingOf(k) = {}
    BY <2>2 DEF PendingOf, Charges, Paying
  <2>5. ASSUME NEW k PROVE SpendGet(spend, k) <= SpendGet(spend, k)
    BY <2>3, SpendGets, BudgetAssumption
  <2>6. \A a \in Principals :
          InLimit(a, SpendGet(spend, SpendKey(a)), PendingOf(SpendKey(a)),
                  peak[SpendKey(a)])
    BY <2>1, <2>4, <2>5 DEF InLimit
  <2> QED
    BY <2>1, <2>2, <2>3, <2>6 DEF BudgetInv, Answers
<1>2. BudgetInv => BudgetBounded
  <2> SUFFICES ASSUME BudgetInv PROVE BudgetBounded
    OBVIOUS
  <2>1. IsSpendStore(spend)
    BY DEF BudgetInv
  <2>2. \A i \in DOMAIN spend : spend[i].micro <= Ceiling
    <3>1. \A i \in DOMAIN spend : SpendGet(spend, spend[i].key) = spend[i].micro
      BY <2>1, SpendGets
    <3>2. \A k : SpendGet(spend, k) \in 0..Ceiling
      BY <2>1, SpendGets
    <3> QED
      BY <3>1, <3>2, BudgetAssumption
  <2>3. SpendBounded
    BY <2>1, <2>2, KeysCounted DEF SpendBounded, IsSpendStore
  <2>4. ASSUME NEW a \in Principals, LimitOf(a) > 0
        PROVE  \/ SpendGet(spend, SpendKey(a))
                    < LimitOf(a) + peak[SpendKey(a)] * CostliestReply
               \/ \E s \in SpentBefore :
                    SpendGet(spend, SpendKey(a)) <= SpendGet(s, SpendKey(a))
    <3>1. PICK P : P = PendingOf(SpendKey(a)) /\ P \subseteq Requests
      BY DEF PendingOf
    <3>2. InLimit(a, SpendGet(spend, SpendKey(a)), P, peak[SpendKey(a)])
      BY <2>4, <3>1 DEF BudgetInv
    <3>3. PICK c, p, t, m, l \in Nat :
            /\ c = CostliestReply /\ p = Cardinality(P) /\ t = peak[SpendKey(a)]
            /\ m = SpendGet(spend, SpendKey(a)) /\ l = LimitOf(a)
      <4>1. peak[SpendKey(a)] \in Nat
        BY <2>4 DEF BudgetInv, Payers
      <4> QED
        BY <2>1, <2>4, <3>1, <4>1, Counted, Costliest, SpendGets, BudgetAssumption
    <3>4. p * c \in Nat /\ t * c \in Nat
      OBVIOUS
    <3>5. m + p * c < l + t * c => m < l + t * c
      BY <3>4
    <3> QED
      BY <3>2, <3>3, <3>5 DEF InLimit
  <2> QED
    BY <2>3, <2>4 DEF BudgetBounded
<1> QED
  BY <1>1, <1>2, BudgetNext, PipelineInvariant, PTL DEF Spec

=============================================================================
