----------------------------- MODULE HookProofs -----------------------------
(***************************************************************************)
(* Theorems about the player hook's install path, for any environment,     *)
(* wiring configurations, address providers, plans and bounds, and about   *)
(* the inline patch, for any prologues the decoder knows and any number of *)
(* attempts and calls.                                                     *)
(*                                                                         *)
(* HookInstall: an attempt is a chain of a dozen calls on the globals, so  *)
(* each call is shown to keep the same facts of them (Fit), and the chain  *)
(* is followed with what the next call relies on: after the activation the *)
(* adapter has accepted nothing yet, so that what it has accepted at the   *)
(* validation is the sample of this very attempt.                          *)
(*                                                                         *)
(* HookPatch: the way of a call through the code is a set of stages, each  *)
(* an instruction whole in memory that leads to another stage (Path).  The *)
(* processor follows it (RunFollows).  A successful attempt turns it into  *)
(* the way through the patched code (PatchedPath), provided that the       *)
(* planner cuts between two stages: between two instructions of untouched  *)
(* code (PlanOnCode, FreshCut), behind the jump of an earlier attempt      *)
(* otherwise (PlanOnJump, HookedCut).                                      *)
(***************************************************************************)
EXTENDS HookInstall, HookPatch, SharedLemmas, FiniteSetTheorems

-----------------------------------------------------------------------------
(***************************************************************************)
(* The globals of the sample path                                          *)
(***************************************************************************)

ObsFields     == DOMAIN ObsZero
ProbeFields   == DOMAIN ProbeZero
LpppFields    == DOMAIN LpppZero
LiveFields    == DOMAIN LiveZero
AdapterFields == DOMAIN AdapterZero
StubFields    == DOMAIN StubZero

Shape(o) ==
    /\ DOMAIN o = ObsFields /\ DOMAIN o.probe = ProbeFields /\ DOMAIN o.lppp = LpppFields
    /\ DOMAIN o.adapter = AdapterFields /\ DOMAIN o.stub = StubFields
    /\ o.probe.callbacks \in Nat /\ o.probe.rejected \in Nat /\ o.probe.mismatched \in Nat
    /\ o.adapter.acc \in Nat /\ o.adapter.rej \in Nat

\* The callback, its adapter and its provider come and go together.
Linked(o) ==
    /\ o.stub.registered <=> o.adapter.installed
    /\ o.adapter.installed <=> o.lppp.installed

Counted(o) ==
    o.adapter.installed /\ o.probe.ready =>
      /\ o.adapter.acc = o.probe.callbacks - o.probe.mismatched
      /\ o.adapter.rej = o.probe.rejected + o.probe.mismatched

Sane(o) == Shape(o) /\ Linked(o) /\ Counted(o)

\* What a capture may do to the live provider: remember what it handed out.
LiveKept(live, after) ==
    /\ DOMAIN live = LiveFields => DOMAIN after = LiveFields
    /\ DOMAIN live = LiveFields =>
         /\ after.installed = live.installed /\ after.head = live.head /\ after.tail = live.tail
         /\ after.count = live.count /\ after.queue = live.queue
         /\ after.submits = live.submits /\ after.dropped = live.dropped
         /\ live.count > 0 => after.last \in {live.last, live_queue_peek_latest(live)}

\* What a capture leaves as it is.
Keeps(o, after) ==
    /\ Shape(after)
    /\ after.probe = o.probe /\ after.adapter = o.adapter /\ after.stub = o.stub
    /\ after.lppp.installed = o.lppp.installed
    /\ LiveKept(o.live, after.live)

LEMMA LiveStays ==
    ASSUME NEW live
    PROVE  LiveKept(live, live)
  BY DEF LiveKept

LEMMA KeepsSane ==
    ASSUME NEW o, NEW after, Sane(o), Keeps(o, after)
    PROVE  Sane(after)
  BY DEF Sane, Keeps, Linked, Counted

(* lpo_capture only changes what the asked provider remembers: validation, *)
(* evidence and gates observe the sample path without disturbing it.       *)
LEMMA ProbeProviderKeeps ==
    ASSUME NEW o, Shape(o)
    PROVE  Keeps(o, probe_provider_capture(o).o)
  <1>1. CASE probe_provider_capture(o) = NotCaptured(o)
    BY <1>1, LiveStays DEF NotCaptured, Keeps
  <1>2. CASE probe_provider_capture(o) = Captured([o EXCEPT !.lppp.has = TRUE, !.lppp.last = o.probe.last], o.probe.last)
    <2> DEFINE l == [o.lppp EXCEPT !.has = TRUE, !.last = o.probe.last]
    <2>1. DOMAIN l = LpppFields /\ l.installed = o.lppp.installed
      BY DEF Shape, LpppFields, LpppZero
    <2>2. [o EXCEPT !.lppp.has = TRUE, !.lppp.last = o.probe.last] = [o EXCEPT !.lppp = l]
      BY DEF Shape, ObsFields, ObsZero
    <2> HIDE DEF l
    <2> QED BY <1>2, <2>1, <2>2, LiveStays DEF Captured, Keeps, Shape, ObsFields, ObsZero
  <1> QED BY <1>1, <1>2 DEF probe_provider_capture

LEMMA LiveProviderKeeps ==
    ASSUME NEW o, Shape(o)
    PROVE  Keeps(o, live_provider_capture(o).o)
  <1> DEFINE s == IF o.live.count > 0 THEN live_queue_peek_latest(o.live) ELSE o.live.last
             l == [o.live EXCEPT !.has = TRUE, !.last = s]
  <1>1. CASE live_provider_capture(o) = NotCaptured(o)
    BY <1>1, LiveStays DEF NotCaptured, Keeps
  <1>2. CASE live_provider_capture(o) = Captured([o EXCEPT !.live.has = TRUE, !.live.last = s], s)
    <2>1. LiveKept(o.live, l)
      BY DEF LiveKept, LiveFields, LiveZero
    <2>2. [o EXCEPT !.live.has = TRUE, !.live.last = s] = [o EXCEPT !.live = l]
      BY DEF Shape, ObsFields, ObsZero
    <2> HIDE DEF l, s
    <2> QED BY <1>2, <2>1, <2>2 DEF Captured, Keeps, Shape, ObsFields, ObsZero
  <1> QED BY <1>1, <1>2 DEF live_provider_capture

LEMMA CaptureKeeps ==
    ASSUME NEW o, Shape(o)
    PROVE  Keeps(o, lpo_capture(o).o)
  <1> DEFINE asked == AskProvider(o)
  <1>1. Keeps(o, asked.o)
    BY ProbeProviderKeeps, LiveProviderKeeps, LiveStays DEF AskProvider, NotCaptured, Keeps
  <1>2. DOMAIN asked = {"ok", "state", "o"}
    BY DEF AskProvider, probe_provider_capture, live_provider_capture, Captured, NotCaptured
  <1> HIDE DEF asked
  <1>3. OrSynthetic(asked).o = asked.o
    BY <1>2 DEF OrSynthetic, Captured
  <1> QED BY <1>1, <1>3 DEF lpo_capture, asked

-----------------------------------------------------------------------------
(***************************************************************************)
(* The callback                                                            *)
(***************************************************************************)

\* What a sample leaves as it is, whatever comes of it.
Passes(o, after) ==
    /\ after.probe.ready = o.probe.ready /\ after.probe.expected = o.probe.expected
    /\ after.stub.registered = o.stub.registered
    /\ after.live = o.live

\* A first accepted sample is of the player the probe expects.
FirstIsExpected(o, after) ==
    o.adapter.acc = 0 /\ after.adapter.acc >= 1 =>
      o.probe.expected = NoPlayer \/ after.probe.last.player = o.probe.expected

\* The shared normaliser counts and nothing else.
LEMMA NormalizeKeeps ==
    ASSUME NEW o, NEW e, Shape(o)
    PROVE  LET after == clf4_pla_normalize(o, e).o
           IN  /\ DOMAIN after = ObsFields
               /\ after.probe = o.probe /\ after.lppp = o.lppp /\ after.live = o.live
               /\ after.adapter = o.adapter /\ after.stub = o.stub
  BY DEF clf4_pla_normalize, Shape, ObsFields, ObsZero

LEMMA RefreshKeeps ==
    ASSUME NEW p, DOMAIN p = ProbeFields
    PROVE  LET q == refresh_hook_correctness(p)
           IN  /\ DOMAIN q = ProbeFields
               /\ \A f \in ProbeFields \ {"correct"} : q[f] = p[f]
  BY DEF refresh_hook_correctness

\* One sample moves the counters of a probe p to those of q.
CountsOne(p, q, ok, foreign, s) ==
    /\ DOMAIN q = ProbeFields
    /\ q.ready = p.ready /\ q.expected = p.expected
    /\ q.callbacks \in Nat /\ q.rejected \in Nat /\ q.mismatched \in Nat
    /\ ok /\ ~foreign =>
         /\ q.callbacks = p.callbacks + 1 /\ q.mismatched = p.mismatched
         /\ q.rejected = p.rejected /\ q.last = s
    /\ ~(ok /\ ~foreign) =>
         /\ q.callbacks - q.mismatched = p.callbacks - p.mismatched
         /\ q.rejected + q.mismatched = p.rejected + p.mismatched + 1

\* ok is the normaliser's verdict.
LEMMA SampleIsTallied ==
    ASSUME NEW p, NEW ok \in BOOLEAN, NEW foreign \in BOOLEAN, NEW s,
           DOMAIN p = ProbeFields, p.callbacks \in Nat, p.rejected \in Nat, p.mismatched \in Nat
    PROVE  CountsOne(p, TalliedProbe(p, ok, foreign, s), ok, foreign, s)
  <1>1. CASE ~ok
    BY <1>1 DEF CountsOne, TalliedProbe, ProbeFields, ProbeZero
  <1>2. CASE ok /\ foreign
    BY <1>2 DEF CountsOne, TalliedProbe, ProbeFields, ProbeZero
  <1>3. CASE ok /\ ~foreign
    BY <1>3 DEF CountsOne, TalliedProbe, ProbeFields, ProbeZero
  <1> QED BY <1>1, <1>2, <1>3

\* The probe takes a sample: one of three counters moves with its verdict.
LEMMA ProbeCounts ==
    ASSUME NEW o, NEW e, Shape(o), o.probe.ready
    PROVE  LET sub == clf4_phrp_submit_callback(o, e)
               p   == sub.o.probe
           IN  /\ sub.ok \in BOOLEAN
               /\ DOMAIN sub.o = ObsFields /\ DOMAIN p = ProbeFields
               /\ sub.o.lppp = o.lppp /\ sub.o.live = o.live /\ sub.o.adapter = o.adapter /\ sub.o.stub = o.stub
               /\ p.ready = o.probe.ready /\ p.expected = o.probe.expected
               /\ p.callbacks \in Nat /\ p.rejected \in Nat /\ p.mismatched \in Nat
               /\ sub.ok => /\ p.callbacks = o.probe.callbacks + 1 /\ p.mismatched = o.probe.mismatched
                            /\ p.rejected = o.probe.rejected
                            /\ p.expected = NoPlayer \/ p.last.player = p.expected
               /\ ~sub.ok => /\ p.callbacks - p.mismatched = o.probe.callbacks - o.probe.mismatched
                             /\ p.rejected + p.mismatched = o.probe.rejected + o.probe.mismatched + 1
  <1> DEFINE n == clf4_pla_normalize(o, e)
             foreign == n.o.probe.expected # NoPlayer /\ n.state.player # n.o.probe.expected
             p0 == TalliedProbe(n.o.probe, n.ok, foreign, n.state)
             q == refresh_hook_correctness(p0)
             after == [n.o EXCEPT !.probe = q]
  <1>1. /\ DOMAIN n.o = ObsFields
        /\ n.o.probe = o.probe /\ n.o.lppp = o.lppp /\ n.o.live = o.live
        /\ n.o.adapter = o.adapter /\ n.o.stub = o.stub
    BY NormalizeKeeps
  <1>2. n.ok \in BOOLEAN
    BY DEF clf4_pla_normalize
  <1>6. clf4_phrp_submit_callback(o, e) = [ok |-> n.ok /\ ~foreign, o |-> after]
    <2> HIDE DEF n
    <2>1. clf4_phrp_submit_callback(o, e) = ProbeSample(n)
      BY DEF clf4_phrp_submit_callback, n
    <2>2. ProbeSample(n) = [ok |-> n.ok /\ ~foreign, o |-> after]
      BY DEF ProbeSample
    <2> QED BY <2>1, <2>2
  <1>b. foreign \in BOOLEAN /\ (~foreign => o.probe.expected = NoPlayer \/ n.state.player = o.probe.expected)
    BY <1>1
  <1> HIDE DEF n, foreign
  <1>3. CountsOne(o.probe, p0, n.ok, foreign, n.state)
    BY <1>1, <1>2, <1>b, SampleIsTallied, Zenon DEF Shape
  <1> HIDE DEF p0
  <1>7. /\ DOMAIN q = ProbeFields
        /\ q.ready = p0.ready /\ q.expected = p0.expected /\ q.callbacks = p0.callbacks
        /\ q.rejected = p0.rejected /\ q.mismatched = p0.mismatched /\ q.last = p0.last
    <2>1. /\ DOMAIN p0 = ProbeFields
          /\ DOMAIN q = ProbeFields /\ \A f \in ProbeFields \ {"correct"} : q[f] = p0[f]
      <3>1. DOMAIN p0 = ProbeFields
        BY <1>3 DEF CountsOne
      <3> QED BY <3>1, RefreshKeeps, Zenon
    <2> HIDE DEF q
    <2>2. {"ready", "expected", "callbacks", "rejected", "mismatched", "last"}
             \subseteq ProbeFields \ {"correct"}
      BY DEF ProbeFields, ProbeZero
    <2> QED BY <2>1, <2>2
  <1> HIDE DEF q
  <1>8. /\ DOMAIN after = ObsFields /\ after.probe = q
        /\ after.lppp = o.lppp /\ after.live = o.live /\ after.adapter = o.adapter /\ after.stub = o.stub
    BY <1>1 DEF ObsFields, ObsZero
  <1> HIDE DEF after
  <1> DEFINE sub == clf4_phrp_submit_callback(o, e)
  <1>9. sub.o = after /\ sub.ok = (n.ok /\ ~foreign) /\ sub.ok \in BOOLEAN
    BY <1>2, <1>6, <1>b
  <1> HIDE DEF sub
  <1> SUFFICES /\ DOMAIN after = ObsFields /\ DOMAIN q = ProbeFields
               /\ after.lppp = o.lppp /\ after.live = o.live /\ after.adapter = o.adapter /\ after.stub = o.stub
               /\ q.ready = o.probe.ready /\ q.expected = o.probe.expected
               /\ q.callbacks \in Nat /\ q.rejected \in Nat /\ q.mismatched \in Nat
               /\ sub.ok => /\ q.callbacks = o.probe.callbacks + 1 /\ q.mismatched = o.probe.mismatched
                            /\ q.rejected = o.probe.rejected
                            /\ q.expected = NoPlayer \/ q.last.player = q.expected
               /\ ~sub.ok => /\ q.callbacks - q.mismatched = o.probe.callbacks - o.probe.mismatched
                             /\ q.rejected + q.mismatched = o.probe.rejected + o.probe.mismatched + 1
    BY <1>8, <1>9, Zenon DEF sub
  <1> QED BY <1>3, <1>7, <1>8, <1>9, <1>b DEF CountsOne

\* What a verdict does to the adapter's counts.
Notes(a, b, ok) ==
    /\ DOMAIN b = AdapterFields /\ b.installed = a.installed
    /\ ok => b.acc = a.acc + 1 /\ b.rej = a.rej
    /\ ~ok => b.acc = a.acc /\ b.rej = a.rej + 1

LEMMA AdapterTallies ==
    ASSUME NEW a, NEW ok \in BOOLEAN, NEW real, NEW kept, NEW s,
           DOMAIN a = AdapterFields, a.acc \in Nat, a.rej \in Nat
    PROVE  Notes(a, TalliedAdapter(a, ok, real, kept, s), ok)
  BY DEF Notes, TalliedAdapter, Tally, AdapterFields, AdapterZero

LEMMA StubTallies ==
    ASSUME NEW s, NEW ok, NEW real, DOMAIN s = StubFields
    PROVE  LET t == TalliedStub(s, ok, real)
           IN  DOMAIN t = StubFields /\ t.registered = s.registered
  BY DEF TalliedStub, StubFields, StubZero

\* The adapter counts the verdict of the probe, sample by sample.
LEMMA ForwardCounts ==
    ASSUME NEW o, NEW e, NEW real, Sane(o), o.adapter.installed
    PROVE  LET after == source_candidate_cb(o, e, real).o
           IN  Sane(after) /\ Passes(o, after) /\ FirstIsExpected(o, after) /\ after.stub = o.stub
  <1> DEFINE sub == clf4_phrp_submit_callback(o, e)
             a   == TalliedAdapter(sub.o.adapter, sub.ok, real, sub.ok /\ sub.o.lppp.has, sub.o.lppp.last)
             after == [sub.o EXCEPT !.adapter = a]
  <1>1. source_candidate_cb(o, e, real).o = after
    BY DEF source_candidate_cb, CountForwarded
  <1>2. CASE ~o.probe.ready
    <2>1. sub.o = o /\ sub.ok = FALSE
      BY <1>2 DEF clf4_phrp_submit_callback
    <2> HIDE DEF sub
    <2>a. sub.ok \in BOOLEAN /\ sub.o.adapter = o.adapter
      BY <2>1
    <2>b. Notes(o.adapter, a, sub.ok)
      BY <2>a, AdapterTallies, Zenon DEF Sane, Shape
    <2>2. DOMAIN a = AdapterFields /\ a.installed = o.adapter.installed
          /\ a.acc = o.adapter.acc /\ a.rej = o.adapter.rej + 1
      BY <2>1, <2>b DEF Notes
    <2> HIDE DEF a
    <2>3. /\ DOMAIN after = ObsFields /\ after.adapter = a
          /\ after.probe = o.probe /\ after.lppp = o.lppp /\ after.live = o.live /\ after.stub = o.stub
      BY <2>1 DEF Sane, Shape, ObsFields, ObsZero
    <2> HIDE DEF after
    <2>4. Shape(after)
      BY <2>2, <2>3 DEF Sane, Shape
    <2>5. Linked(after) /\ Passes(o, after)
      BY <2>2, <2>3 DEF Sane, Linked, Passes
    <2>6. Counted(after) /\ FirstIsExpected(o, after)
      BY <1>2, <2>2, <2>3 DEF Counted, FirstIsExpected
    <2> QED BY <1>1, <2>3, <2>4, <2>5, <2>6 DEF Sane
  <1>3. CASE o.probe.ready
    <2> DEFINE p == sub.o.probe
    <2>1. /\ sub.ok \in BOOLEAN
          /\ DOMAIN sub.o = ObsFields /\ DOMAIN p = ProbeFields
          /\ sub.o.lppp = o.lppp /\ sub.o.live = o.live /\ sub.o.adapter = o.adapter /\ sub.o.stub = o.stub
          /\ p.ready = o.probe.ready /\ p.expected = o.probe.expected
          /\ p.callbacks \in Nat /\ p.rejected \in Nat /\ p.mismatched \in Nat
          /\ sub.ok => /\ p.callbacks = o.probe.callbacks + 1 /\ p.mismatched = o.probe.mismatched
                       /\ p.rejected = o.probe.rejected
                       /\ p.expected = NoPlayer \/ p.last.player = p.expected
          /\ ~sub.ok => /\ p.callbacks - p.mismatched = o.probe.callbacks - o.probe.mismatched
                        /\ p.rejected + p.mismatched = o.probe.rejected + o.probe.mismatched + 1
      BY <1>3, ProbeCounts, Zenon DEF Sane
    <2> HIDE DEF sub
    <2>2. Notes(o.adapter, a, sub.ok)
      BY <2>1, AdapterTallies, Zenon DEF Sane, Shape
    <2> HIDE DEF a
    <2>3. /\ DOMAIN after = ObsFields /\ after.adapter = a
          /\ after.probe = p /\ after.lppp = o.lppp /\ after.live = o.live /\ after.stub = o.stub
      BY <2>1 DEF ObsFields, ObsZero
    <2> HIDE DEF after, p
    <2>4. Shape(after)
      BY <2>1, <2>2, <2>3 DEF Notes, Sane, Shape
    <2>5. Linked(after) /\ Passes(o, after)
      BY <2>1, <2>2, <2>3 DEF Notes, Sane, Linked, Passes
    <2>6. Counted(after) /\ FirstIsExpected(o, after)
      BY <1>3, <2>1, <2>2, <2>3 DEF Notes, Sane, Shape, Counted, FirstIsExpected
    <2> QED BY <1>1, <2>3, <2>4, <2>5, <2>6 DEF Sane
  <1> QED BY <1>2, <1>3

\* The same through the stub, which calls the adapter only while it is
\* registered.
LEMMA EmitCounts ==
    ASSUME NEW o, NEW e, NEW real, Sane(o)
    PROVE  LET after == dispatch_emit(o, e, real).o
           IN  Sane(after) /\ Passes(o, after) /\ FirstIsExpected(o, after)
  <1> DEFINE called == IF o.stub.registered THEN source_candidate_cb(o, e, real) ELSE [o |-> o, ok |-> FALSE]
             mid == called.o
             t == TalliedStub(mid.stub, called.ok, real)
             after == [mid EXCEPT !.stub = t]
  <1>1. Sane(mid) /\ Passes(o, mid) /\ FirstIsExpected(o, mid) /\ mid.stub = o.stub
    <2>1. CASE o.stub.registered
      BY <2>1, ForwardCounts DEF Sane, Linked
    <2>2. CASE ~o.stub.registered
      <3>1. mid = o
        BY <2>2
      <3> HIDE DEF mid
      <3> QED BY <3>1 DEF Passes, FirstIsExpected, Sane, Shape
    <2> QED BY <2>1, <2>2
  <1>2. dispatch_emit(o, e, real).o = after
    BY DEF dispatch_emit, CountEmitted
  <1> HIDE DEF mid, called
  <1>3. DOMAIN t = StubFields /\ t.registered = mid.stub.registered
    BY <1>1, StubTallies DEF Sane, Shape
  <1> HIDE DEF t
  <1>4. /\ DOMAIN after = ObsFields /\ after.stub = t
        /\ after.probe = mid.probe /\ after.lppp = mid.lppp /\ after.live = mid.live /\ after.adapter = mid.adapter
    BY <1>1 DEF Sane, Shape, ObsFields, ObsZero
  <1> HIDE DEF after
  <1> QED BY <1>1, <1>2, <1>3, <1>4 DEF Sane, Shape, Linked, Counted, Passes, FirstIsExpected

-----------------------------------------------------------------------------
(***************************************************************************)
(* The calls that install and uninstall                                    *)
(***************************************************************************)

\* Everything but the probe and the shared normaliser.
Beside(o, after) ==
    /\ DOMAIN after = ObsFields
    /\ after.lppp = o.lppp /\ after.live = o.live /\ after.adapter = o.adapter /\ after.stub = o.stub

\* The probe keeps its counts.
SameCounts(p, q) ==
    /\ DOMAIN q = ProbeFields
    /\ q.callbacks = p.callbacks /\ q.rejected = p.rejected /\ q.mismatched = p.mismatched

LEMMA NormalizerResetKeeps ==
    ASSUME NEW o, NEW id, DOMAIN o = ObsFields
    PROVE  Beside(o, clf4_pla_reset(o, id)) /\ clf4_pla_reset(o, id).probe = o.probe
  BY DEF Beside, clf4_pla_reset, ObsFields, ObsZero

LEMMA ProbeReset ==
    ASSUME NEW o, DOMAIN o = ObsFields
    PROVE  Beside(o, clf4_phrp_reset(o)) /\ clf4_phrp_reset(o).probe = ProbeZero
  <1> DEFINE m == [o EXCEPT !.probe = ProbeZero]
  <1>1. Beside(o, m) /\ m.probe = ProbeZero
    BY DEF Beside, ObsFields, ObsZero
  <1> HIDE DEF m
  <1>2. clf4_phrp_reset(o) = clf4_pla_reset(m, NoPlayer)
    BY DEF clf4_phrp_reset, m
  <1> QED BY <1>1, <1>2, NormalizerResetKeeps DEF Beside

LEMMA ConfigureKeeps ==
    ASSUME NEW o, NEW expected, NEW update, NEW input, NEW callback, DOMAIN o = ObsFields, DOMAIN o.probe = ProbeFields
    PROVE  LET after == clf4_phrp_configure(o, expected, update, input, callback)
           IN  /\ Beside(o, after) /\ SameCounts(o.probe, after.probe)
               /\ after.probe.ready = o.probe.ready /\ after.probe.expected = expected
  <1> DEFINE p0 == ConfiguredProbe(o.probe, expected, update, input, callback)
             q == refresh_hook_correctness(p0)
             m == [o EXCEPT !.probe = q]
  <1>1. SameCounts(o.probe, p0) /\ p0.ready = o.probe.ready /\ p0.expected = expected
    BY DEF ConfiguredProbe, SameCounts, ProbeFields, ProbeZero
  <1>2. clf4_phrp_configure(o, expected, update, input, callback) = clf4_pla_reset(m, expected)
    BY DEF clf4_phrp_configure
  <1> HIDE DEF p0
  <1>3. SameCounts(o.probe, q) /\ q.ready = o.probe.ready /\ q.expected = expected
    BY <1>1, RefreshKeeps DEF SameCounts, ProbeFields, ProbeZero
  <1> HIDE DEF q
  <1>4. Beside(o, m) /\ m.probe = q
    BY DEF Beside, ObsFields, ObsZero
  <1> HIDE DEF m
  <1> QED BY <1>2, <1>3, <1>4, NormalizerResetKeeps DEF Beside

LEMMA PrototypeKeeps ==
    ASSUME NEW o, NEW f4se, NEW provider, NEW site, NEW ready, DOMAIN o = ObsFields, DOMAIN o.probe = ProbeFields
    PROVE  LET after == clf4_phrp_install_with_prototype(o, f4se, provider, site, ready)
           IN  /\ Beside(o, after) /\ SameCounts(o.probe, after.probe)
               /\ after.probe.ready = ready /\ after.probe.expected = o.probe.expected
  <1> DEFINE profile == clf4_phrprof_resolve(site, f4se)
             r == clf4_phdsp_resolve(site, f4se, provider)
             p0 == InstalledProbe(o.probe, profile, r, ready)
             q == refresh_hook_correctness(p0)
             m == [o EXCEPT !.probe = q]
  <1>1. clf4_phrp_install_with_prototype(o, f4se, provider, site, ready) = m
    BY DEF clf4_phrp_install_with_prototype
  <1> HIDE DEF profile, r
  <1>2. SameCounts(o.probe, p0) /\ p0.ready = ready /\ p0.expected = o.probe.expected
    BY DEF InstalledProbe, SameCounts, ProbeFields, ProbeZero
  <1> HIDE DEF p0
  <1>3. SameCounts(o.probe, q) /\ q.ready = ready /\ q.expected = o.probe.expected
    BY <1>2, RefreshKeeps DEF SameCounts, ProbeFields, ProbeZero
  <1> HIDE DEF q
  <1> QED BY <1>1, <1>3 DEF Beside, ObsFields, ObsZero

\* The adapter goes: the callback and its provider with it.
LEMMA AdapterGoes ==
    ASSUME NEW o, Shape(o)
    PROVE  LET after == clf4_phsca_uninstall(o)
           IN  /\ Sane(after) /\ after.probe = o.probe /\ after.live = o.live
               /\ after.adapter = AdapterZero /\ ~after.stub.registered
  <1> DEFINE s == [o.stub EXCEPT !.registered = FALSE]
             after == clf4_phsca_uninstall(o)
  <1>1. DOMAIN s = StubFields /\ s.registered = FALSE
    BY DEF Shape, StubFields, StubZero
  <1>2. /\ DOMAIN after = ObsFields /\ after.probe = o.probe /\ after.live = o.live
        /\ after.lppp = LpppZero /\ after.adapter = AdapterZero /\ after.stub = s
    BY DEF clf4_phsca_uninstall, clf4_lppp_uninstall, Shape, ObsFields, ObsZero
  <1> HIDE DEF after, s
  <1>3. AdapterZero.installed = FALSE /\ AdapterZero.acc = 0 /\ AdapterZero.rej = 0 /\ LpppZero.installed = FALSE
    BY DEF AdapterZero, LpppZero
  <1>4. Shape(after)
    BY <1>1, <1>2, <1>3 DEF Shape, LpppFields, AdapterFields
  <1>5. Linked(after) /\ Counted(after)
    BY <1>1, <1>2, <1>3 DEF Linked, Counted
  <1> QED BY <1>1, <1>2, <1>4, <1>5 DEF Sane, after

\* The adapter comes, on a probe that has counted nothing yet.
LEMMA AdapterComes ==
    ASSUME NEW o, NEW expected, NEW correct, Shape(o),
           o.probe.callbacks = 0, o.probe.rejected = 0, o.probe.mismatched = 0
    PROVE  LET after == clf4_phsca_install(o, expected, correct)
           IN  /\ Sane(after) /\ after.probe = o.probe /\ after.live = o.live
               /\ after.adapter.acc = 0 /\ after.stub.registered
  <1> DEFINE s == [o.stub EXCEPT !.registered = TRUE]
             a == [AdapterZero EXCEPT !.installed = TRUE]
             l == [LpppZero EXCEPT !.installed = TRUE, !.expected = expected, !.correct = correct]
             after == clf4_phsca_install(o, expected, correct)
  <1>1. DOMAIN s = StubFields /\ s.registered = TRUE
    BY DEF Shape, StubFields, StubZero
  <1>2. DOMAIN a = AdapterFields /\ a.installed = TRUE /\ a.acc = 0 /\ a.rej = 0
    BY DEF AdapterFields, AdapterZero
  <1>3. DOMAIN l = LpppFields /\ l.installed = TRUE
    BY DEF LpppFields, LpppZero
  <1>4. /\ DOMAIN after = ObsFields /\ after.probe = o.probe /\ after.live = o.live
        /\ after.lppp = l /\ after.adapter = a /\ after.stub = s
    BY DEF clf4_phsca_install, clf4_lppp_install, Shape, ObsFields, ObsZero
  <1> HIDE DEF after, s, a, l
  <1>5. Shape(after)
    BY <1>1, <1>2, <1>3, <1>4 DEF Shape
  <1>6. Linked(after) /\ Counted(after)
    BY <1>1, <1>2, <1>3, <1>4 DEF Linked, Counted
  <1> QED BY <1>1, <1>2, <1>4, <1>5, <1>6 DEF Sane, after

-----------------------------------------------------------------------------
(***************************************************************************)
(* The globals of the install path                                         *)
(***************************************************************************)

WorldFields  == {"registry", "obs", "patch", "cand", "phlcc", "wiring", "gate", "patched"}
CandFields   == DOMAIN CandZero
WiringFields == DOMAIN WiringZero

\* An adapter is there only after an install that ended in a patch, and a probe
\* is ready only after one.
Fit(w) ==
    /\ DOMAIN w = WorldFields /\ DOMAIN w.wiring = WiringFields
    /\ Sane(w.obs)
    /\ w.obs.adapter.installed => w.cand.path /\ w.patched # {}
    /\ w.obs.probe.ready => w.patched # {}

\* The calls that do not install leave the report, the gate and the code alone.
Aside(w, v) ==
    /\ v.wiring = w.wiring /\ v.gate = w.gate /\ v.patched = w.patched

LEMMA UninstallFits ==
    ASSUME NEW w, Fit(w)
    PROVE  LET v == clf4_phic_uninstall(w)
           IN  Fit(v) /\ Aside(w, v) /\ v.patch = w.patch /\ v.obs.live = w.obs.live
  <1> DEFINE o == clf4_phsca_uninstall(w.obs)
             v == clf4_phic_uninstall(w)
  <1>1. /\ Sane(o) /\ o.probe = w.obs.probe /\ o.live = w.obs.live
        /\ o.adapter = AdapterZero /\ ~o.stub.registered
    BY AdapterGoes DEF Fit, Sane
  <1>2. v = [w EXCEPT !.obs = o, !.cand = CandZero]
    BY DEF clf4_phic_uninstall
  <1> HIDE DEF o
  <1>3. /\ DOMAIN v = WorldFields /\ v.obs = o /\ Aside(w, v) /\ v.patch = w.patch
    BY <1>2 DEF Fit, WorldFields, Aside
  <1> HIDE DEF v
  <1>4. ~o.adapter.installed
    BY <1>1 DEF AdapterZero
  <1> QED BY <1>1, <1>3, <1>4 DEF Fit, Aside, v

LEMMA CandidateResetFits ==
    ASSUME NEW w, Fit(w)
    PROVE  LET v == clf4_phlcc_reset(w)
           IN  Fit(v) /\ Aside(w, v) /\ v.patch = w.patch /\ v.obs.live = w.obs.live
  <1> DEFINE u == clf4_phic_uninstall(w)
             v == clf4_phlcc_reset(w)
  <1>1. Fit(u) /\ Aside(w, u) /\ u.patch = w.patch /\ u.obs.live = w.obs.live
    BY UninstallFits
  <1>2. v = [u EXCEPT !.phlcc = PhlccZero]
    BY DEF clf4_phlcc_reset
  <1> HIDE DEF u
  <1>3. /\ DOMAIN v = WorldFields /\ v.obs = u.obs /\ v.cand = u.cand /\ v.patch = u.patch
        /\ v.wiring = u.wiring /\ v.gate = u.gate /\ v.patched = u.patched
    BY <1>1, <1>2 DEF Fit, WorldFields
  <1> HIDE DEF v
  <1> QED BY <1>1, <1>3 DEF Fit, Aside, v

\* What a reset of the candidate leaves.
Fresh(w) ==
    /\ Fit(w) /\ w.patch = PatchZero /\ DOMAIN w.cand = CandFields /\ ~w.cand.path
    /\ w.obs.probe.callbacks = 0 /\ w.obs.probe.rejected = 0 /\ w.obs.probe.mismatched = 0
    /\ ~w.obs.probe.ready /\ ~w.obs.adapter.installed

LEMMA ProbeResetFits ==
    ASSUME NEW w, Fit(w)
    PROVE  LET v == phrp_reset(w)
           IN  /\ Fit(v) /\ Aside(w, v) /\ v.patch = w.patch /\ v.cand = w.cand /\ v.phlcc = w.phlcc
               /\ v.obs.live = w.obs.live /\ v.obs.probe = ProbeZero /\ v.obs.adapter = w.obs.adapter
  <1> DEFINE o == clf4_phrp_reset(w.obs)
             v == phrp_reset(w)
  <1>1. Beside(w.obs, o) /\ o.probe = ProbeZero
    BY ProbeReset DEF Fit, Sane, Shape
  <1>2. v = [w EXCEPT !.obs = o, !.registry = hook_install_registry_reset]
    BY DEF phrp_reset
  <1> HIDE DEF o
  <1>3. /\ DOMAIN v = WorldFields /\ v.obs = o /\ v.cand = w.cand /\ v.patch = w.patch /\ v.phlcc = w.phlcc
        /\ v.wiring = w.wiring /\ v.gate = w.gate /\ v.patched = w.patched
    BY <1>2 DEF Fit, WorldFields
  <1> HIDE DEF v
  <1>4. /\ DOMAIN ProbeZero = ProbeFields /\ ~ProbeZero.ready
        /\ ProbeZero.callbacks = 0 /\ ProbeZero.rejected = 0 /\ ProbeZero.mismatched = 0
    BY DEF ProbeFields, ProbeZero
  <1>5. Sane(o)
    BY <1>1, <1>4 DEF Fit, Sane, Shape, Linked, Counted, Beside
  <1> QED BY <1>1, <1>3, <1>4, <1>5 DEF Fit, Aside, Beside, v

LEMMA ResetFits ==
    ASSUME NEW w, Fit(w)
    PROVE  LET v == clf4_phic_reset(w)
           IN  Fresh(v) /\ Aside(w, v) /\ v.phlcc = w.phlcc /\ v.obs.live = w.obs.live
  <1> DEFINE o == clf4_phsca_uninstall(w.obs)
             m == [w EXCEPT !.obs = o]
             n == phrp_reset(m)
             v == clf4_phic_reset(w)
  <1>1. /\ Sane(o) /\ o.probe = w.obs.probe /\ o.live = w.obs.live
        /\ o.adapter = AdapterZero /\ ~o.stub.registered
    BY AdapterGoes DEF Fit, Sane
  <1>2. v = [n EXCEPT !.patch = PatchZero, !.cand = CandZero]
    BY DEF clf4_phic_reset
  <1>z. ~AdapterZero.installed /\ ~CandZero.path
    BY DEF AdapterZero, CandZero
  <1> HIDE DEF o
  <1>3. /\ DOMAIN m = WorldFields /\ m.obs = o /\ m.phlcc = w.phlcc
        /\ m.wiring = w.wiring /\ m.gate = w.gate /\ m.patched = w.patched
    BY DEF Fit, WorldFields
  <1> HIDE DEF m
  <1>4. Fit(m)
    BY <1>1, <1>3, <1>z DEF Fit
  <1>5. /\ Fit(n) /\ Aside(m, n) /\ n.phlcc = m.phlcc
        /\ n.obs.live = m.obs.live /\ n.obs.probe = ProbeZero /\ n.obs.adapter = m.obs.adapter
    BY <1>4, ProbeResetFits
  <1> HIDE DEF n
  <1>6. /\ DOMAIN v = WorldFields /\ v.obs = n.obs /\ v.cand = CandZero /\ v.patch = PatchZero /\ v.phlcc = n.phlcc
        /\ v.wiring = n.wiring /\ v.gate = n.gate /\ v.patched = n.patched
    BY <1>2, <1>5 DEF Fit, WorldFields
  <1> HIDE DEF v
  <1>7. /\ ~ProbeZero.ready
        /\ ProbeZero.callbacks = 0 /\ ProbeZero.rejected = 0 /\ ProbeZero.mismatched = 0
    BY DEF ProbeZero
  <1>8. Fit(v)
    BY <1>1, <1>3, <1>5, <1>6, <1>7, <1>z DEF Fit
  <1>9. Fresh(v)
    BY <1>1, <1>3, <1>5, <1>6, <1>7, <1>8, <1>z DEF Fresh, CandFields
  <1> QED BY <1>1, <1>3, <1>5, <1>6, <1>9 DEF Aside, v

\* Without the armed policy no attempt gets to the patch step.
LEMMA DryStopsShort ==
    ASSUME NEW f4se, NEW provider, NEW site, NEW allowed, NEW policy, ~clf4_phpp_is_armed(policy)
    PROVE  install_with_resolution(f4se, provider, site, allowed, policy).state # "PATCH"
  <1> DEFINE profile == clf4_phrprof_resolve(site, f4se)
             r == clf4_phdsp_resolve(site, f4se, provider)
  <1> SUFFICES (IF ~profile.build \/ ~r.runtime_supported THEN Outcome("FAILED", "UNSUPPORTED_RUNTIME")
                ELSE IF ~r.update.ok \/ ~r.input.ok THEN Outcome("PARTIAL", "ADDRESS_MISSING")
                ELSE IF resolution_is_stub(r) THEN Outcome("FAILED", "ADDRESS_MISSING")
                ELSE Outcome("PARTIAL", "NONE")).state # "PATCH"
    BY DEF install_with_resolution
  <1> HIDE DEF profile, r
  <1> QED BY DEF Outcome

LEMMA ConfigFits ==
    ASSUME NEW w, NEW cfg, Fit(w)
    PROVE  LET v == snapshot_probe_config(w, cfg)
           IN  /\ Fit(v) /\ Aside(w, v) /\ v.patch = w.patch /\ v.cand = w.cand /\ v.phlcc = w.phlcc
               /\ v.obs.live = w.obs.live /\ v.obs.adapter = w.obs.adapter
               /\ v.obs.probe.ready = w.obs.probe.ready /\ v.obs.probe.expected = cfg.expected
               /\ SameCounts(w.obs.probe, v.obs.probe)
  <1> DEFINE o == clf4_phrp_configure(w.obs, cfg.expected, cfg.needUpdate, cfg.needInput, cfg.needCallback)
             v == snapshot_probe_config(w, cfg)
  <1>1. /\ Beside(w.obs, o) /\ SameCounts(w.obs.probe, o.probe)
        /\ o.probe.ready = w.obs.probe.ready /\ o.probe.expected = cfg.expected
    BY ConfigureKeeps DEF Fit, Sane, Shape
  <1>2. v = [w EXCEPT !.obs = o]
    BY DEF snapshot_probe_config
  <1> HIDE DEF o
  <1>3. /\ DOMAIN v = WorldFields /\ v.obs = o /\ v.cand = w.cand /\ v.patch = w.patch /\ v.phlcc = w.phlcc
        /\ v.wiring = w.wiring /\ v.gate = w.gate /\ v.patched = w.patched
    BY <1>2 DEF Fit, WorldFields
  <1> HIDE DEF v
  <1>4. Sane(o)
    BY <1>1 DEF Fit, Sane, Shape, Linked, Counted, Beside, SameCounts
  <1> QED BY <1>1, <1>3, <1>4 DEF Fit, Aside, Beside, v

\* What an attempt on the probe leaves, and what it may have patched.
Tried(w, v, r) ==
    /\ Fit(v) /\ v.cand = w.cand /\ v.phlcc = w.phlcc /\ v.wiring = w.wiring /\ v.gate = w.gate
    /\ v.obs.live = w.obs.live /\ v.obs.adapter = w.obs.adapter
    /\ SameCounts(w.obs.probe, v.obs.probe) /\ v.obs.probe.expected = w.obs.probe.expected
    /\ v.obs.probe.ready => v.patched # {} /\ v.patch.write
    /\ r.state # "PATCH" => ~v.obs.probe.ready /\ v.patch = w.patch /\ v.patched = w.patched

LEMMA PatchStepTries ==
    ASSUME NEW w, NEW f4se, NEW provider, NEW site, NEW patchOk, NEW r, Fit(w),
           ~w.obs.adapter.installed \/ r.state # "PATCH"
    PROVE  Tried(w, PatchStep(w, f4se, provider, site, patchOk, r), r)
  <1> DEFINE ok == r.state = "PATCH" /\ PatchCanSucceed(site, r.target) /\ patchOk
             done == IF r.state # "PATCH" THEN r.state ELSE IF ok THEN "INSTALLED" ELSE "FAILED"
             err  == IF r.state = "PATCH" /\ ~ok THEN "PATCH_REJECTED" ELSE r.error
             o == clf4_phrp_install_with_prototype(w.obs, f4se, provider, site, ok)
             p == IF r.state = "PATCH" THEN [attempted |-> TRUE, write |-> ok, markers |-> FALSE] ELSE w.patch
             code == IF ok THEN w.patched \cup {r.target} ELSE w.patched
             reg == hook_install_registry_mark_state(w.registry, "PLAYER", done, err)
             v == PatchStep(w, f4se, provider, site, patchOk, r)
  <1>1. v = [w EXCEPT !.obs = o, !.registry = reg, !.patch = p, !.patched = code]
    BY DEF PatchStep
  <1>2. ok \in BOOLEAN /\ (r.state # "PATCH" => ~ok)
    OBVIOUS
  <1> HIDE DEF ok
  <1>3. /\ Beside(w.obs, o) /\ SameCounts(w.obs.probe, o.probe)
        /\ o.probe.ready = ok /\ o.probe.expected = w.obs.probe.expected
    BY PrototypeKeeps DEF Fit, Sane, Shape
  <1>4. /\ ok => p.write /\ code # {}
        /\ r.state # "PATCH" => p = w.patch /\ code = w.patched
        /\ w.patched \subseteq code
    BY <1>2
  <1> HIDE DEF o, p, code, reg
  <1>5. /\ DOMAIN v = WorldFields /\ v.obs = o /\ v.cand = w.cand /\ v.patch = p /\ v.phlcc = w.phlcc
        /\ v.wiring = w.wiring /\ v.gate = w.gate /\ v.patched = code
    BY <1>1 DEF Fit, WorldFields
  <1> HIDE DEF v
  <1>6. Sane(o)
    <2>1. Shape(o)
      BY <1>3 DEF Fit, Sane, Shape, Beside, SameCounts
    <2>2. Linked(o)
      BY <1>3 DEF Fit, Sane, Linked, Beside
    <2>3. Counted(o)
      BY <1>2, <1>3 DEF Counted, Beside
    <2> QED BY <2>1, <2>2, <2>3 DEF Sane
  <1>7. Fit(v)
    BY <1>2, <1>3, <1>4, <1>5, <1>6 DEF Fit, Beside
  <1> QED BY <1>2, <1>3, <1>4, <1>5, <1>7 DEF Tried, Beside, v

\* What an install leaves for the activation: a path is there only when the
\* hook was patched just now, and its adapter has not seen a sample yet.
Prepared(v, cfg) ==
    v.cand.path => /\ v.obs.stub.registered /\ v.obs.adapter.acc = 0 /\ v.patch.write
                   /\ v.obs.probe.expected = cfg.expected

\* Without the armed policy nothing is patched.
Harmless(w, v, cfg) ==
    ~clf4_phpp_is_armed(cfg.policy) => ~v.patch.attempted /\ v.patched = w.patched

LEMMA TryFits ==
    ASSUME NEW w, NEW f4se, NEW provider, NEW cfg, NEW patchOk, Fresh(w)
    PROVE  LET v == TryCandidate(w, f4se, provider, cfg, patchOk)
           IN  /\ Fit(v) /\ v.wiring = w.wiring /\ v.gate = w.gate /\ v.obs.live = w.obs.live
               /\ Prepared(v, cfg) /\ Harmless(w, v, cfg)
  <1> DEFINE c == snapshot_probe_config(w, cfg)
             r == install_with_resolution(f4se, provider, cfg.site, cfg.allowed, cfg.policy)
             t == phrp_install(c, f4se, provider, cfg.site, cfg.allowed, cfg.policy, patchOk)
             o == clf4_phsca_install(t.obs, cfg.expected, cfg.needCorrect)
             n == [t.cand EXCEPT !.ready = TRUE, !.adapter = TRUE, !.path = TRUE]
             v == TryCandidate(w, f4se, provider, cfg, patchOk)
  <1>z. ~PatchZero.attempted
    BY DEF PatchZero
  <1>1. CASE v = w
    BY <1>1, <1>z DEF Fresh, Prepared, Harmless
  <1>2. /\ Fit(c) /\ Aside(w, c) /\ c.patch = w.patch /\ c.cand = w.cand /\ c.phlcc = w.phlcc
        /\ c.obs.live = w.obs.live /\ c.obs.adapter = w.obs.adapter
        /\ c.obs.probe.ready = w.obs.probe.ready /\ c.obs.probe.expected = cfg.expected
        /\ SameCounts(w.obs.probe, c.obs.probe)
    BY ConfigFits DEF Fresh
  <1>3. t = PatchStep(c, f4se, provider, cfg.site, patchOk, r)
    BY DEF phrp_install
  <1>4. ~clf4_phpp_is_armed(cfg.policy) => r.state # "PATCH"
    BY DryStopsShort
  <1>5. v \in {w, AdapterIfReady(t, cfg)}
    BY DEF TryCandidate
  <1> HIDE DEF c, r, t, v
  <1>6. Tried(c, t, r)
    BY <1>2, <1>3, PatchStepTries DEF Fresh
  <1>7. CASE v = AdapterIfReady(t, cfg) /\ ~t.obs.probe.ready
    <2>1. v = t
      BY <1>7 DEF AdapterIfReady
    <2> QED BY <1>2, <1>4, <1>6, <2>1, <1>z DEF Tried, Aside, Fresh, Prepared, Harmless, v
  <1>8. CASE v = AdapterIfReady(t, cfg) /\ t.obs.probe.ready
    <2>1. v = [t EXCEPT !.obs = o, !.cand = n]
      <3>1. v = [t EXCEPT !.obs = clf4_phsca_install(@, cfg.expected, cfg.needCorrect),
                          !.cand.ready = TRUE, !.cand.adapter = TRUE, !.cand.path = TRUE]
        BY <1>8 DEF AdapterIfReady
      <3> QED BY <3>1, <1>6 DEF Tried, Fit, WorldFields
    <2>2. n.path = TRUE
      BY <1>2, <1>6 DEF Tried, Fresh, CandFields, CandZero
    <2>3. /\ Sane(o) /\ o.probe = t.obs.probe /\ o.live = t.obs.live
          /\ o.adapter.acc = 0 /\ o.stub.registered
      <3>1. Shape(t.obs)
        BY <1>6 DEF Tried, Fit, Sane
      <3>2. t.obs.probe.callbacks = 0 /\ t.obs.probe.rejected = 0 /\ t.obs.probe.mismatched = 0
        BY <1>2, <1>6 DEF Tried, Fresh, SameCounts
      <3> QED BY <3>1, <3>2, AdapterComes
    <2> HIDE DEF o, n
    <2>4. /\ DOMAIN v = WorldFields /\ v.obs = o /\ v.cand = n /\ v.patch = t.patch /\ v.phlcc = t.phlcc
          /\ v.wiring = t.wiring /\ v.gate = t.gate /\ v.patched = t.patched
      BY <1>6, <2>1 DEF Tried, Fit, WorldFields
    <2>5. Fit(v)
      BY <1>6, <1>8, <2>2, <2>3, <2>4 DEF Tried, Fit
    <2>6. Prepared(v, cfg)
      BY <1>2, <1>6, <1>8, <2>3, <2>4 DEF Tried, Prepared
    <2>7. Harmless(w, v, cfg)
      BY <1>4, <1>6, <1>8 DEF Tried, Harmless
    <2> QED BY <1>2, <1>6, <2>3, <2>4, <2>5, <2>6, <2>7 DEF Tried, Aside, v
  <1> QED BY <1>1, <1>5, <1>7, <1>8

-----------------------------------------------------------------------------
(***************************************************************************)
(* The activation                                                          *)
(***************************************************************************)

LEMMA InstallFits ==
    ASSUME NEW w, NEW f4se, NEW provider, NEW cfg, NEW patchOk, Fit(w)
    PROVE  LET v == clf4_phic_install_with_provider(w, f4se, provider, cfg, patchOk)
           IN  /\ Fit(v) /\ v.wiring = w.wiring /\ v.gate = w.gate /\ v.obs.live = w.obs.live
               /\ Prepared(v, cfg) /\ Harmless(w, v, cfg)
  <1> DEFINE u == clf4_phic_reset(w)
             n == [u.cand EXCEPT !.configured = TRUE]
             f == [u EXCEPT !.cand = n]
             v == TryCandidate(f, f4se, provider, cfg, patchOk)
  <1>1. Fresh(u) /\ Aside(w, u) /\ u.phlcc = w.phlcc /\ u.obs.live = w.obs.live
    BY ResetFits
  <1>2. clf4_phic_install_with_provider(w, f4se, provider, cfg, patchOk)
          = TryCandidate([u EXCEPT !.cand.configured = TRUE], f4se, provider, cfg, patchOk)
    BY DEF clf4_phic_install_with_provider
  <1> HIDE DEF u
  <1>3. [u EXCEPT !.cand.configured = TRUE] = f
    BY <1>1 DEF Fresh, Fit, WorldFields
  <1>4. DOMAIN n = CandFields /\ ~n.path
    BY <1>1 DEF Fresh, CandFields, CandZero
  <1> HIDE DEF n
  <1>5. /\ DOMAIN f = WorldFields /\ f.obs = u.obs /\ f.cand = n /\ f.patch = u.patch
        /\ f.wiring = u.wiring /\ f.gate = u.gate /\ f.patched = u.patched
    BY <1>1 DEF Fresh, Fit, WorldFields
  <1> HIDE DEF f
  <1>6. Fit(f)
    BY <1>1, <1>4, <1>5 DEF Fresh, Fit
  <1>7. Fresh(f)
    BY <1>1, <1>4, <1>5, <1>6 DEF Fresh
  <1>8. /\ Fit(v) /\ v.wiring = f.wiring /\ v.gate = f.gate /\ v.obs.live = f.obs.live
        /\ Prepared(v, cfg) /\ Harmless(f, v, cfg)
    BY <1>7, TryFits
  <1> HIDE DEF v
  <1>9. v.wiring = w.wiring /\ v.gate = w.gate /\ v.obs.live = w.obs.live /\ Harmless(w, v, cfg)
    BY <1>1, <1>5, <1>8 DEF Aside, Harmless
  <1> QED BY <1>2, <1>3, <1>8, <1>9 DEF v

\* An active candidate was installed by this very call.
Primed(v) ==
    v.phlcc.activated => /\ v.obs.stub.registered /\ v.obs.adapter.acc = 0 /\ v.patch.write
                         /\ v.obs.probe.expected = v.phlcc.expected

LEMMA ActivateFits ==
    ASSUME NEW w, NEW f4se, NEW provider, NEW cfg, NEW patchOk, Fit(w)
    PROVE  LET v == clf4_phlcc_activate_with_provider(w, f4se, provider, cfg, patchOk)
           IN  /\ Fit(v) /\ v.wiring = w.wiring /\ v.gate = w.gate /\ v.obs.live = w.obs.live
               /\ Primed(v) /\ Harmless(w, v, cfg)
  <1> DEFINE u == clf4_phlcc_reset(w)
             t == clf4_phic_install_with_provider(u, f4se, provider, cfg, patchOk)
             stats == clf4_phic_stats(t)
             h == [expected |-> cfg.expected,
                   activated |-> /\ t.cand.path /\ stats.callback_registered /\ stats.provider_installed
                                 /\ cfg.needProfile => stats.supported]
             v == [t EXCEPT !.phlcc = h]
  <1>1. clf4_phlcc_activate_with_provider(w, f4se, provider, cfg, patchOk) = v
    BY DEF clf4_phlcc_activate_with_provider, ActivateTried, Activated
  <1>2. Fit(u) /\ Aside(w, u) /\ u.obs.live = w.obs.live
    BY CandidateResetFits
  <1>3. /\ Fit(t) /\ t.wiring = u.wiring /\ t.gate = u.gate /\ t.obs.live = u.obs.live
        /\ Prepared(t, cfg) /\ Harmless(u, t, cfg)
    BY <1>2, InstallFits
  <1> HIDE DEF u, t, stats
  <1>4. h.expected = cfg.expected /\ (h.activated => t.cand.path)
    OBVIOUS
  <1> HIDE DEF h
  <1>5. /\ DOMAIN v = WorldFields /\ v.obs = t.obs /\ v.cand = t.cand /\ v.patch = t.patch /\ v.phlcc = h
        /\ v.wiring = t.wiring /\ v.gate = t.gate /\ v.patched = t.patched
    BY <1>3 DEF Fit, WorldFields
  <1> HIDE DEF v
  <1>6. Fit(v)
    BY <1>3, <1>5 DEF Fit
  <1>7. Primed(v)
    BY <1>3, <1>4, <1>5 DEF Primed, Prepared
  <1>8. v.wiring = w.wiring /\ v.gate = w.gate /\ v.obs.live = w.obs.live /\ Harmless(w, v, cfg)
    BY <1>2, <1>3, <1>5 DEF Aside, Harmless
  <1> QED BY <1>1, <1>6, <1>7, <1>8

-----------------------------------------------------------------------------
(***************************************************************************)
(* Validation and gate                                                     *)
(***************************************************************************)

\* Validation, evidence and gate observe: they capture, and leave a verdict.
Looks(w, v) ==
    /\ DOMAIN v = WorldFields /\ Keeps(w.obs, v.obs)
    /\ v.patch = w.patch /\ v.cand = w.cand /\ v.phlcc = w.phlcc /\ v.wiring = w.wiring /\ v.patched = w.patched

LEMMA LooksFits ==
    ASSUME NEW w, NEW v, Fit(w), Looks(w, v)
    PROVE  Fit(v)
  <1>1. Sane(v.obs)
    BY KeepsSane DEF Fit, Looks
  <1> QED BY <1>1 DEF Fit, Looks, Keeps

LEMMA LiveKeptTwice ==
    ASSUME NEW a, NEW b, NEW c, LiveKept(a, b), LiveKept(b, c)
    PROVE  LiveKept(a, c)
  BY DEF LiveKept, live_queue_peek_latest

LEMMA LooksTwice ==
    ASSUME NEW u, NEW v, NEW w, Looks(u, v), Looks(v, w)
    PROVE  Looks(u, w)
  BY LiveKeptTwice DEF Looks, Keeps

LEMMA CaptureLooks ==
    ASSUME NEW w, Fit(w)
    PROVE  Looks(w, [w EXCEPT !.obs = lpo_capture(w.obs).o])
  <1> DEFINE o == lpo_capture(w.obs).o
  <1>1. Keeps(w.obs, o)
    BY CaptureKeeps DEF Fit, Sane
  <1> HIDE DEF o
  <1>2. Looks(w, [w EXCEPT !.obs = o])
    BY <1>1 DEF Fit, Looks, WorldFields
  <1> QED BY <1>2 DEF o

\* phase1r_rhag_evaluate: the strict verdict is about the probe and the
\* candidate at that moment.
LEMMA GateLooks ==
    ASSUME NEW w, NEW strict, Fit(w)
    PROVE  LET v == phase1r_rhag_evaluate(w, strict)
           IN  /\ Looks(w, v) /\ v.gate.strict = strict
               /\ strict /\ v.gate.allowed => v.obs.probe.ready /\ v.cand.ready /\ v.obs.probe.supported
  <1> DEFINE u == [w EXCEPT !.obs = lpo_capture(w.obs).o]
             e == phase1r_rhe_collect(w)
             stats == clf4_phic_stats(u)
             policyArmed == u.phlcc.activated /\ stats.install_ready
             allowed == ~strict \/ (u.phlcc.activated /\ stats.supported /\ policyArmed)
             g == [evaluated |-> TRUE, allowed |-> allowed, evidence |-> e.ok, strict |-> strict]
             v == phase1r_rhag_evaluate(w, strict)
  <1>1. e.w = u
    BY DEF phase1r_rhe_collect, Evidence, phase1r_igmv_validate_current, Harness,
           clf4_phlcv_validate_current, Validated
  <1>2. v = GateVerdict(e, clf4_phic_stats(e.w), strict)
    BY DEF phase1r_rhag_evaluate, GateOnEvidence
  <1>3. v = [u EXCEPT !.gate = g]
    <2> HIDE DEF e, u, v
    <2> QED BY <1>1, <1>2 DEF GateVerdict
  <1>4. Looks(w, u)
    BY CaptureLooks
  <1> HIDE DEF e, u, v
  <1>5. stats.install_ready => u.cand.ready /\ u.obs.probe.ready
    BY DEF clf4_phic_stats
  <1>6. stats.supported = u.obs.probe.supported
    BY DEF clf4_phic_stats
  <1> HIDE DEF stats
  <1>7. g.strict = strict /\ (strict /\ g.allowed => stats.install_ready /\ stats.supported)
    OBVIOUS
  <1> HIDE DEF g
  <1>8. Looks(w, v) /\ v.gate = g /\ v.obs = u.obs /\ v.cand = u.cand
    BY <1>3, <1>4 DEF Looks, WorldFields
  <1> QED BY <1>5, <1>6, <1>7, <1>8 DEF v

-----------------------------------------------------------------------------
(***************************************************************************)
(* The wiring attempt                                                      *)
(***************************************************************************)

\* What makes a wired report true.
Proven(v) ==
    /\ v.patch.write /\ v.obs.stub.registered /\ v.obs.adapter.acc >= 1
    /\ v.obs.probe.last.player = v.phlcc.expected \/ v.phlcc.expected = NoPlayer

\* The sample that the adapter accepted since the activation is of the player
\* the candidate expects.
Seen(w) == w.phlcc.activated /\ w.obs.adapter.acc >= 1 => Proven(w)

LEMMA LooksSeen ==
    ASSUME NEW w, NEW v, Seen(w), Looks(w, v)
    PROVE  Seen(v)
  BY DEF Seen, Proven, Looks, Keeps

LEMMA SampleFits ==
    ASSUME NEW w, NEW sample, Fit(w), Primed(w), Sane(sample.o), Passes(w.obs, sample.o), FirstIsExpected(w.obs, sample.o)
    PROVE  LET v == [w EXCEPT !.obs = sample.o]
           IN  /\ Fit(v) /\ Seen(v) /\ v.wiring = w.wiring /\ v.gate = w.gate /\ v.obs.live = w.obs.live
               /\ v.patch = w.patch /\ v.patched = w.patched
  <1> DEFINE o == sample.o
             v == [w EXCEPT !.obs = o]
  <1>1. /\ DOMAIN v = WorldFields /\ v.obs = o /\ v.cand = w.cand /\ v.patch = w.patch /\ v.phlcc = w.phlcc
        /\ v.wiring = w.wiring /\ v.gate = w.gate /\ v.patched = w.patched
    BY DEF Fit, WorldFields
  <1>2. Sane(o) /\ Passes(w.obs, o) /\ FirstIsExpected(w.obs, o)
    OBVIOUS
  <1> HIDE DEF o, v
  <1>3. o.adapter.installed => w.obs.adapter.installed
    BY <1>2 DEF Fit, Sane, Linked, Passes
  <1>4. Fit(v)
    BY <1>1, <1>2, <1>3 DEF Fit, Passes
  <1>5. Seen(v)
    BY <1>1, <1>2 DEF Seen, Proven, Primed, Passes, FirstIsExpected
  <1> QED BY <1>1, <1>2, <1>4, <1>5 DEF Passes, v, o

LEMMA ValidateLooks ==
    ASSUME NEW w, NEW strict, NEW expected, Fit(w)
    PROVE  LET valid == clf4_phlcv_validate_current(w, strict, expected)
           IN  /\ Looks(w, valid.w)
               /\ strict /\ valid.ok => w.phlcc.activated /\ w.obs.adapter.acc >= 1
  <1>1. clf4_phlcv_validate_current(w, strict, expected).w = [w EXCEPT !.obs = lpo_capture(w.obs).o]
    BY DEF clf4_phlcv_validate_current, Validated
  <1>2. strict /\ clf4_phlcv_validate_current(w, strict, expected).ok => w.phlcc.activated /\ w.obs.adapter.acc >= 1
    <2> DEFINE stats == clf4_phic_stats(w)
               captured == lpo_capture(w.obs)
    <2>1. clf4_phlcv_validate_current(w, strict, expected) = Validated(w, stats, captured, strict, expected)
      BY DEF clf4_phlcv_validate_current
    <2> HIDE DEF stats, captured
    <2> QED BY <2>1 DEF Validated
  <1> QED BY <1>1, <1>2, CaptureLooks

\* What an attempt leaves.  It zeroes the wiring state and the gate's verdict
\* is of the zeroed configuration, never of the strict one.
Attempted(w, v, cfg) ==
    /\ Fit(v) /\ LiveKept(w.obs.live, v.obs.live)
    /\ v.gate.strict = FALSE
    /\ v.wiring.wired => Proven(v)
    /\ Harmless(w, v, cfg)

\* From the emitted sample on.
Concluded(w, v) ==
    /\ Fit(v) /\ LiveKept(w.obs.live, v.obs.live) /\ v.gate.strict = FALSE
    /\ v.wiring.wired => Proven(v)
    /\ v.patch = w.patch /\ v.patched = w.patched

LEMMA SampledConcludes ==
    ASSUME NEW w, NEW sampleOk, NEW cfg, NEW choice, Fit(w), Seen(w)
    PROVE  Concluded(w, ValidateStep(clf4_phlcv_validate_current(w, TRUE, cfg.validExpected), sampleOk, cfg, choice))
  <1> DEFINE valid == clf4_phlcv_validate_current(w, TRUE, cfg.validExpected)
             j == phase1r_rhag_evaluate(valid.w, FALSE)
             ready == ArmedValidation(j)
             message == IF j.phlcc.activated /\ valid.ok /\ cfg.build THEN lpo_capture(j.obs) ELSE NotCaptured(j.obs)
             k == [j EXCEPT !.obs = message.o]
             state == [attempted |-> TRUE, activated |-> j.phlcc.activated, emitted |-> sampleOk, validated |-> valid.ok,
                       ready |-> ready, built |-> message.ok /\ choice.changed,
                       wireReady |-> ready /\ RealCounts(message.o), wired |-> FALSE]
             report == [state EXCEPT !.wired = Wired(cfg, state)]
             v == [k EXCEPT !.wiring = report]
  <1>1. Looks(w, valid.w) /\ (valid.ok => w.phlcc.activated /\ w.obs.adapter.acc >= 1)
    BY ValidateLooks
  <1>2. ValidateStep(valid, sampleOk, cfg, choice) = v
    <2>1. phase1r_rhwr_evaluate(valid.w) = [w |-> j, ready |-> ready]
      BY DEF phase1r_rhwr_evaluate, Judged, phase1r_rhwp_plan, phase1r_rhfp_plan
    <2> HIDE DEF valid, j, ready
    <2>2. JudgeStep([w |-> j, ready |-> ready], sampleOk, valid.ok, cfg, choice)
            = MessageStep([w |-> j, ready |-> ready], message, sampleOk, valid.ok, cfg, choice)
      BY DEF JudgeStep
    <2>3. MessageStep([w |-> j, ready |-> ready], message, sampleOk, valid.ok, cfg, choice) = CloseAttempt(k, state, cfg)
      <3> HIDE DEF message
      <3> QED BY DEF MessageStep
    <2>4. CloseAttempt(k, state, cfg) = v
      <3> HIDE DEF k, state
      <3> QED BY DEF CloseAttempt
    <2> QED BY <2>1, <2>2, <2>3, <2>4 DEF ValidateStep
  <1> HIDE DEF valid
  <1>3. Fit(valid.w)
    BY <1>1, LooksFits
  <1>4. Looks(valid.w, j) /\ j.gate.strict = FALSE
    BY <1>3, GateLooks
  <1>5. Looks(w, j)
    BY <1>1, <1>4, LooksTwice
  <1> HIDE DEF j, ready
  <1>6. Fit(j)
    BY <1>5, LooksFits
  <1>7. Keeps(j.obs, message.o)
    BY <1>6, CaptureKeeps, LiveStays DEF NotCaptured, Keeps, Fit, Sane
  <1> HIDE DEF message
  <1>8. Looks(j, k) /\ k.gate = j.gate
    BY <1>6, <1>7 DEF Looks, Fit, WorldFields
  <1>9. Looks(w, k)
    BY <1>5, <1>8, LooksTwice
  <1> HIDE DEF k
  <1>10. Fit(k) /\ Seen(k)
    BY <1>9, LooksFits, LooksSeen
  <1>11. DOMAIN report = WiringFields /\ (report.wired => valid.ok)
    <2>1. Wired(cfg, state) => valid.ok
      BY DEF Wired
    <2>2. report.wired = Wired(cfg, state)
      OBVIOUS
    <2>3. DOMAIN report = WiringFields
      BY DEF WiringFields, WiringZero
    <2> QED BY <2>1, <2>2, <2>3
  <1> HIDE DEF state, report
  <1>12. /\ DOMAIN v = WorldFields /\ v.obs = k.obs /\ v.cand = k.cand /\ v.patch = k.patch /\ v.phlcc = k.phlcc
         /\ v.wiring = report /\ v.gate = k.gate /\ v.patched = k.patched
    BY <1>10 DEF Fit, WorldFields
  <1> HIDE DEF v
  <1>13. Fit(v)
    BY <1>10, <1>11, <1>12 DEF Fit
  <1>14. valid.ok => Proven(k)
    BY <1>1, <1>9, <1>10 DEF Looks, Keeps, Seen
  <1>15. v.wiring.wired => Proven(v)
    BY <1>11, <1>12, <1>14 DEF Proven
  <1>16. v.gate.strict = FALSE /\ LiveKept(w.obs.live, v.obs.live) /\ v.patch = w.patch /\ v.patched = w.patched
    BY <1>4, <1>8, <1>9, <1>12 DEF Looks, Keeps
  <1> QED BY <1>2, <1>13, <1>15, <1>16 DEF Concluded, valid

\* phase1r_rlhw_attempt, whatever the provider, the configuration and the game
\* answer.
LEMMA AttemptFits ==
    ASSUME NEW w, NEW f4se, NEW provider, NEW cfg, NEW choice, Fit(w)
    PROVE  Attempted(w, phase1r_rlhw_attempt(w, f4se, provider, cfg, choice), cfg)
  <1> DEFINE z == [w EXCEPT !.wiring = WiringZero]
             a == clf4_phlcc_activate_with_provider(z, f4se, provider, cfg, choice.patchOk)
             sample == IF a.phlcc.activated /\ cfg.emit THEN dispatch_emit(a.obs, cfg.sample, FALSE)
                       ELSE [o |-> a.obs, ok |-> FALSE]
             s == [a EXCEPT !.obs = sample.o]
             valid == clf4_phlcv_validate_current(s, TRUE, cfg.validExpected)
             v == ValidateStep(valid, sample.ok, cfg, choice)
  <1>1. phase1r_rlhw_attempt(w, f4se, provider, cfg, choice) = v
    <2>1. phase1r_rlhw_attempt(w, f4se, provider, cfg, choice) = ActivateStep(a, cfg, choice)
      BY DEF phase1r_rlhw_attempt
    <2> HIDE DEF a
    <2>2. ActivateStep(a, cfg, choice) = SampleStep(a, sample, cfg, choice)
      BY DEF ActivateStep
    <2> HIDE DEF sample
    <2> QED BY <2>1, <2>2 DEF SampleStep
  <1>2. /\ DOMAIN z = WorldFields /\ z.obs = w.obs /\ z.cand = w.cand /\ z.patched = w.patched /\ z.wiring = WiringZero
    BY DEF Fit, WorldFields
  <1> HIDE DEF z
  <1>3. Fit(z)
    BY <1>2 DEF Fit, WiringFields
  <1>4. /\ Fit(a) /\ a.obs.live = z.obs.live /\ Primed(a) /\ Harmless(z, a, cfg)
    BY <1>3, ActivateFits
  <1> HIDE DEF a
  <1>5. Sane(sample.o) /\ Passes(a.obs, sample.o) /\ FirstIsExpected(a.obs, sample.o)
    <2>1. CASE a.phlcc.activated /\ cfg.emit
      BY <1>4, <2>1, EmitCounts DEF Fit
    <2>2. CASE ~(a.phlcc.activated /\ cfg.emit)
      <3>1. sample.o = a.obs
        BY <2>2
      <3> HIDE DEF sample
      <3> QED BY <1>4, <3>1 DEF Fit, Passes, FirstIsExpected, Sane, Shape
    <2> QED BY <2>1, <2>2
  <1> HIDE DEF sample
  <1>6. Fit(s) /\ Seen(s) /\ s.obs.live = a.obs.live /\ s.patch = a.patch /\ s.patched = a.patched
    BY <1>4, <1>5, SampleFits
  <1> HIDE DEF s
  <1>7. Concluded(s, v)
    BY <1>6, SampledConcludes, Zenon
  <1> HIDE DEF v
  <1> QED BY <1>1, <1>2, <1>4, <1>6, <1>7 DEF Attempted, Harmless, Concluded

-----------------------------------------------------------------------------
(***************************************************************************)
(* The ring of the live provider                                           *)
(***************************************************************************)

\* (h + i) % QueueMax without the division.
Slot(h, i) == IF h + i >= QueueMax THEN h + i - QueueMax ELSE h + i

LEMMA WrapIsSlot ==
    ASSUME NEW h \in 0 .. QueueMax - 1, NEW i \in 0 .. QueueMax
    PROVE  (h + i) % QueueMax = Slot(h, i)
  BY QueueAssumption DEF Slot

LEMMA SlotIsPlace ==
    ASSUME NEW h \in 0 .. QueueMax - 1, NEW i \in 0 .. QueueMax
    PROVE  Slot(h, i) \in 0 .. QueueMax - 1
  BY QueueAssumption DEF Slot

LEMMA SlotShifts ==
    ASSUME NEW h \in 0 .. QueueMax - 1, NEW i \in 0 .. QueueMax - 1
    PROVE  Slot(Slot(h, 1), i) = Slot(h, i + 1) /\ Slot(Slot(h, i), 1) = Slot(h, i + 1)
  <1>1. CASE h + 1 >= QueueMax
    BY <1>1, QueueAssumption DEF Slot
  <1>2. CASE h + 1 < QueueMax
    BY <1>2, QueueAssumption DEF Slot
  <1> QED BY <1>1, <1>2, QueueAssumption

LEMMA SlotTurns ==
    ASSUME NEW h \in 0 .. QueueMax - 1
    PROVE  Slot(h, QueueMax) = h /\ Slot(h, 0) = h
  BY QueueAssumption DEF Slot

LEMMA SlotsDiffer ==
    ASSUME NEW h \in 0 .. QueueMax - 1, NEW i \in 0 .. QueueMax - 1, NEW j \in 0 .. QueueMax - 1, i # j
    PROVE  Slot(h, i) # Slot(h, j)
  BY QueueAssumption DEF Slot

Kept(sub) == IF Len(sub) > QueueMax THEN QueueMax ELSE Len(sub)

\* The ring and the samples accepted since the install.
Ring(live, sub) ==
    /\ DOMAIN live = LiveFields /\ DOMAIN live.queue = 0 .. QueueMax - 1
    /\ sub \in Seq(Range(sub))
    /\ live.head \in 0 .. QueueMax - 1
    /\ live.count = Kept(sub) /\ live.tail = Slot(live.head, live.count)
    /\ live.submits = Len(sub) /\ live.dropped = Len(sub) - Kept(sub)
    /\ \A i \in 0 .. Kept(sub) - 1 : live.queue[Slot(live.head, i)] = sub[Len(sub) - Kept(sub) + 1 + i]
    /\ live.count > 0 => live.last = live_queue_peek_latest(live)

LEMMA EmptyRing == Ring(LiveZero, <<>>) /\ Ring([LiveZero EXCEPT !.installed = TRUE], <<>>)
  <1>1. Len(<<>>) = 0 /\ Kept(<<>>) = 0 /\ <<>> \in Seq(Range(<<>>))
    BY QueueAssumption DEF Kept
  <1> DEFINE l == [LiveZero EXCEPT !.installed = TRUE]
  <1>2. \A live \in {LiveZero, l} :
           /\ DOMAIN live = LiveFields /\ DOMAIN live.queue = 0 .. QueueMax - 1
           /\ live.head = 0 /\ live.tail = 0 /\ live.count = 0 /\ live.submits = 0 /\ live.dropped = 0
    BY DEF LiveZero, LiveFields
  <1>3. \A live \in {LiveZero, l} : Ring(live, <<>>)
    <2> HIDE DEF l
    <2> TAKE live \in {LiveZero, l}
    <2>1. 0 \in 0 .. QueueMax - 1 /\ Slot(0, 0) = 0
      BY QueueAssumption, SlotTurns
    <2> QED BY <1>1, <1>2, <2>1 DEF Ring
  <1> QED BY <1>3

\* A capture leaves the ring as it is.
LEMMA CaptureKeepsRing ==
    ASSUME NEW live, NEW after, NEW sub, Ring(live, sub), LiveKept(live, after)
    PROVE  Ring(after, sub)
  BY DEF Ring, LiveKept, live_queue_peek_latest

\* A push goes behind the newest sample and, in a full ring, over the oldest.
LEMMA PushKeepsRing ==
    ASSUME NEW live, NEW sub, NEW state, Ring(live, sub)
    PROVE  Ring(TalliedLive(live_queue_push(live, state), state), Append(sub, state))
  <1> DEFINE l == TalliedLive(live_queue_push(live, state), state)
             full == live.count = QueueMax
             h == IF full THEN (live.head + 1) % QueueMax ELSE live.head
             t == (live.tail + 1) % QueueMax
             s == Append(sub, state)
             L == Len(sub)
  <1> USE QueueAssumption
  <1>1. /\ sub \in Seq(Range(sub)) /\ L \in Nat /\ live.count = Kept(sub)
        /\ live.head \in 0 .. QueueMax - 1 /\ live.tail = Slot(live.head, live.count)
        /\ live.tail \in 0 .. QueueMax - 1 /\ live.count \in 0 .. QueueMax /\ live.count <= L
        /\ full <=> L >= QueueMax
    <2>1. /\ sub \in Seq(Range(sub)) /\ live.count = Kept(sub)
          /\ live.head \in 0 .. QueueMax - 1 /\ live.tail = Slot(live.head, live.count)
      BY DEF Ring
    <2>2. L \in Nat
      BY <2>1
    <2>3. Kept(sub) \in 0 .. QueueMax /\ Kept(sub) <= L /\ (Kept(sub) = QueueMax <=> L >= QueueMax)
      <3> HIDE DEF L
      <3>1. Kept(sub) = IF L > QueueMax THEN QueueMax ELSE L
        BY DEF Kept, L
      <3> QED BY <2>2, <3>1
    <2> HIDE DEF L
    <2> QED BY <2>1, <2>2, <2>3, SlotIsPlace
  <1>0. 1 \in 0 .. QueueMax /\ QueueMax - 1 \in 0 .. QueueMax /\ QueueMax - 1 \in 0 .. QueueMax - 1
    OBVIOUS
  <1>2. h = (IF full THEN Slot(live.head, 1) ELSE live.head) /\ t = Slot(live.tail, 1)
    <2>1. (live.head + 1) % QueueMax = Slot(live.head, 1) /\ (live.tail + 1) % QueueMax = Slot(live.tail, 1)
      BY <1>0, <1>1, WrapIsSlot, Zenon
    <2> QED BY <2>1
  <1>3. /\ DOMAIN l = LiveFields
        /\ l.head = h /\ l.tail = t /\ l.queue = [live.queue EXCEPT ![live.tail] = state]
        /\ l.count = (IF full THEN live.count ELSE live.count + 1)
        /\ l.dropped = (IF full THEN live.dropped + 1 ELSE live.dropped)
        /\ l.submits = live.submits + 1 /\ l.last = state
    BY DEF Ring, TalliedLive, live_queue_push, LiveFields, LiveZero
  <1>4. /\ s \in Seq(Range(s)) /\ Len(s) = L + 1
        /\ s[L + 1] = state /\ \A i \in 1 .. L : s[i] = sub[i]
    <2>1. sub \in Seq(Range(sub) \cup {state})
      BY <1>1
    <2>2. s \in Seq(Range(sub) \cup {state}) /\ Len(s) = L + 1 /\ s[L + 1] = state /\ \A i \in 1 .. L : s[i] = sub[i]
      BY <2>1
    <2>3. \A i \in 1 .. Len(s) : s[i] \in Range(s)
      BY <2>2 DEF Range
    <2>4. s \in Seq(Range(s))
      BY <2>2, <2>3
    <2> QED BY <2>2, <2>4
  <1>5. l.last = live_queue_peek_latest(l)
    <2>1. l.tail \in 0 .. QueueMax - 1 /\ Slot(l.tail, QueueMax - 1) = live.tail
      <3>1. 1 \in 0 .. QueueMax /\ QueueMax - 1 \in 0 .. QueueMax - 1 /\ (QueueMax - 1) + 1 = QueueMax
        OBVIOUS
      <3>2. l.tail = Slot(live.tail, 1)
        BY <1>2, <1>3
      <3> HIDE DEF l
      <3> QED BY <1>1, <3>1, <3>2, SlotIsPlace, SlotShifts, SlotTurns
    <2>2. (l.tail + QueueMax - 1) % QueueMax = live.tail
      <3> HIDE DEF l
      <3>1. (l.tail + (QueueMax - 1)) % QueueMax = live.tail
        BY <1>0, <2>1, WrapIsSlot, Zenon
      <3>2. l.tail + (QueueMax - 1) = l.tail + QueueMax - 1
        BY <2>1
      <3> QED BY <3>1, <3>2
    <2>3. l.queue[live.tail] = state
      BY <1>1, <1>3 DEF Ring
    <2> QED BY <1>3, <2>2, <2>3 DEF live_queue_peek_latest
  <1> HIDE DEF l, h, t, s, L
  <1>k. Kept(s) = IF L + 1 > QueueMax THEN QueueMax ELSE L + 1
    BY <1>4 DEF Kept
  <1>m. Kept(sub) = IF L > QueueMax THEN QueueMax ELSE L
    BY DEF Kept, L
  <1>6. /\ l.count = Kept(s) /\ Kept(s) \in 1 .. QueueMax /\ l.head \in 0 .. QueueMax - 1
        /\ l.tail = Slot(l.head, l.count)
    <2>1. l.count = Kept(s) /\ Kept(s) \in 1 .. QueueMax
      BY <1>1, <1>3, <1>k, <1>m
    <2>2. l.head \in 0 .. QueueMax - 1
      <3>1. Slot(live.head, 1) \in 0 .. QueueMax - 1
        BY <1>0, <1>1, SlotIsPlace, Zenon
      <3> QED BY <1>1, <1>2, <1>3, <3>1
    <2>3. CASE full
      <3>1. live.tail = live.head /\ l.head = Slot(live.head, 1) /\ l.tail = l.head /\ l.count = QueueMax
        BY <1>1, <1>2, <1>3, <2>3, SlotTurns
      <3> QED BY <2>1, <2>2, <3>1, SlotTurns
    <2>4. CASE ~full
      <3>1. live.count \in 0 .. QueueMax - 1 /\ l.head = live.head /\ l.count = live.count + 1
        BY <1>1, <1>2, <1>3, <2>4
      <3> QED BY <1>1, <1>2, <1>3, <2>1, <2>2, <3>1, SlotShifts
    <2> QED BY <2>3, <2>4
  <1>7. l.submits = Len(s) /\ l.dropped = Len(s) - Kept(s)
    <2>1. live.submits = L /\ live.dropped = L - Kept(sub)
      BY DEF Ring, L
    <2> QED BY <1>1, <1>3, <1>4, <1>k, <1>m, <2>1
  <1>8. ASSUME NEW i \in 0 .. Kept(s) - 1
        PROVE  l.queue[Slot(l.head, i)] = s[Len(s) - Kept(s) + 1 + i]
    <2>1. CASE i = Kept(s) - 1
      <3>1. Slot(l.head, i) = live.tail
        <4>1. CASE full
          <5>1. live.tail = live.head /\ l.head = Slot(live.head, 1) /\ i = QueueMax - 1 /\ i \in 0 .. QueueMax - 1 /\ i + 1 = QueueMax
            BY <1>1, <1>2, <1>3, <1>6, <2>1, <4>1, SlotTurns
          <5> QED BY <1>1, <5>1, SlotShifts, SlotTurns
        <4>2. CASE ~full
          <5>1. l.head = live.head /\ i = live.count
            BY <1>1, <1>2, <1>3, <1>6, <2>1, <4>2
          <5> QED BY <1>1, <5>1
        <4> QED BY <4>1, <4>2
      <3>2. l.queue[live.tail] = state
        BY <1>1, <1>3 DEF Ring
      <3>3. Len(s) - Kept(s) + 1 + i = L + 1
        BY <1>4, <1>6, <2>1, <1>1
      <3> QED BY <1>4, <3>1, <3>2, <3>3
    <2>2. CASE i < Kept(s) - 1
      <3> DEFINE k == IF full THEN i + 1 ELSE i
      <3>0. k \in 0 .. Kept(sub) - 1 /\ k \in 0 .. QueueMax - 1 /\ i \in 0 .. QueueMax - 1
        BY <1>1, <1>3, <1>6, <2>2
      <3>1. Slot(l.head, i) = Slot(live.head, k)
        <4>1. CASE full
          BY <1>1, <1>2, <1>3, <3>0, <4>1, SlotShifts
        <4>2. CASE ~full
          BY <1>2, <1>3, <4>2
        <4> QED BY <4>1, <4>2
      <3>2. Slot(live.head, k) # live.tail
        <4>1. CASE full
          <5>1. live.tail = Slot(live.head, 0) /\ k # 0 /\ 0 \in 0 .. QueueMax - 1
            BY <1>1, <4>1, SlotTurns
          <5> HIDE DEF k
          <5> QED BY <1>1, <3>0, <5>1, SlotsDiffer
        <4>2. CASE ~full
          <5>1. live.count \in 0 .. QueueMax - 1 /\ k # live.count
            BY <1>1, <3>0, <4>2
          <5> HIDE DEF k
          <5> QED BY <1>1, <3>0, <5>1, SlotsDiffer
        <4> QED BY <4>1, <4>2
      <3>3. Len(s) - Kept(s) + 1 + i = L - Kept(sub) + 1 + k /\ L - Kept(sub) + 1 + k \in 1 .. L
        BY <1>1, <1>4, <2>2, <1>k, <1>m
      <3> HIDE DEF k
      <3>4. l.queue[Slot(live.head, k)] = live.queue[Slot(live.head, k)]
        <4>1. Slot(live.head, k) \in 0 .. QueueMax - 1
          <5>1. k \in 0 .. QueueMax
            BY <3>0
          <5> QED BY <1>1, <5>1, SlotIsPlace, Zenon
        <4> QED BY <1>1, <1>3, <3>2, <4>1 DEF Ring
      <3>5. live.queue[Slot(live.head, k)] = sub[L - Kept(sub) + 1 + k]
        BY <3>0 DEF Ring, L
      <3> QED BY <1>4, <3>1, <3>3, <3>4, <3>5
    <2> QED BY <1>6, <2>1, <2>2
  <1>9. DOMAIN l.queue = 0 .. QueueMax - 1
    BY <1>3 DEF Ring
  <1> QED BY <1>3, <1>4, <1>5, <1>6, <1>7, <1>8, <1>9 DEF Ring, l, s

-----------------------------------------------------------------------------
(***************************************************************************)
(* Reads of the state and dry runs                                         *)
(***************************************************************************)

\* What one action of the install path may do: the two promises of a step, and
\* what it leaves behind.
WiredTruly(w, v) == v.wiring.wired /\ ~w.wiring.wired => Proven(v)
AllowsTruly(w, v) ==
    v.gate # w.gate /\ v.gate.strict /\ v.gate.allowed => v.obs.probe.ready /\ v.cand.ready /\ v.obs.probe.supported
Steps(w, v) == Fit(v) /\ LiveKept(w.obs.live, v.obs.live) /\ WiredTruly(w, v) /\ AllowsTruly(w, v)

Clean(w) == ~w.patch.attempted /\ w.patched = {}

LEMMA PollFits ==
    ASSUME NEW w, Fit(w)
    PROVE  LET v == phase1r_rlhw_state(w)
           IN  /\ Fit(v) /\ v.obs = w.obs /\ v.cand = w.cand /\ v.phlcc = w.phlcc /\ v.gate = w.gate
               /\ v.patch = w.patch /\ v.patched = w.patched /\ v.wiring.wired = w.wiring.wired
  <1> DEFINE v == phase1r_rlhw_state(w)
  <1>1. CASE ~w.wiring.attempted
    BY <1>1 DEF phase1r_rlhw_state
  <1>2. CASE w.wiring.attempted
    <2> DEFINE b == /\ w.wiring.ready
                    /\ RealCounts(w.obs) \/ w.patch.markers \/ w.obs.shim.detours > 0 \/ w.obs.shim.bridge > 0
               n == [w.wiring EXCEPT !.wireReady = b]
    <2>1. v = [w EXCEPT !.wiring.wireReady = b]
      BY <1>2 DEF phase1r_rlhw_state
    <2> HIDE DEF b
    <2>2. v = [w EXCEPT !.wiring = n]
      BY <2>1 DEF Fit, WorldFields
    <2>3. DOMAIN n = WiringFields /\ n.wired = w.wiring.wired
      BY DEF Fit, WiringFields, WiringZero
    <2> HIDE DEF n
    <2>4. /\ DOMAIN v = WorldFields /\ v.obs = w.obs /\ v.cand = w.cand /\ v.patch = w.patch /\ v.phlcc = w.phlcc
          /\ v.wiring = n /\ v.gate = w.gate /\ v.patched = w.patched
      BY <2>2 DEF Fit, WorldFields
    <2> HIDE DEF v
    <2> QED BY <2>3, <2>4 DEF Fit, v
  <1> QED BY <1>1, <1>2

LEMMA DryRunFits ==
    ASSUME NEW w, NEW f4se, NEW provider, NEW expected, Fit(w)
    PROVE  LET v == phase1r_rlhdf_run(w, f4se, provider, expected)
           IN  /\ Fit(v) /\ v.wiring = w.wiring /\ v.gate = w.gate /\ v.obs.live = w.obs.live
               /\ v.patch = w.patch /\ v.patched = w.patched
  <1> DEFINE cfg == [expected |-> expected, needUpdate |-> TRUE, needInput |-> TRUE, needCallback |-> FALSE]
             u == phrp_reset(w)
             c == snapshot_probe_config(u, cfg)
             r == install_with_resolution(f4se, provider, DefaultSite, TRUE, "dry_run_resolve_only")
             v == PatchStep(c, f4se, provider, DefaultSite, FALSE, r)
  <1>1. phase1r_rlhdf_run(w, f4se, provider, expected) = v
    BY DEF phase1r_rlhdf_run, phrp_install
  <1>2. Fit(u) /\ Aside(w, u) /\ u.patch = w.patch /\ u.obs.live = w.obs.live
    BY ProbeResetFits
  <1> HIDE DEF u, cfg
  <1>3. Fit(c) /\ Aside(u, c) /\ c.patch = u.patch /\ c.obs.live = u.obs.live
    BY <1>2, ConfigFits
  <1> HIDE DEF c
  <1>4. r.state # "PATCH"
    BY DryStopsShort DEF clf4_phpp_is_armed
  <1> HIDE DEF r
  <1>5. Tried(c, v, r)
    BY <1>3, <1>4, PatchStepTries, Zenon
  <1> HIDE DEF v
  <1> QED BY <1>1, <1>2, <1>3, <1>4, <1>5 DEF Tried, Aside

\* The actions of the install path, one by one.
LEMMA AttemptSteps ==
    ASSUME NEW w, NEW f4se, NEW provider, NEW cfg, NEW choice, Fit(w)
    PROVE  LET v == phase1r_rlhw_attempt(w, f4se, provider, cfg, choice)
           IN  Steps(w, v) /\ (~clf4_phpp_is_armed(cfg.policy) /\ Clean(w) => Clean(v))
  <1> DEFINE v == phase1r_rlhw_attempt(w, f4se, provider, cfg, choice)
  <1>1. Attempted(w, v, cfg)
    BY AttemptFits
  <1> HIDE DEF v
  <1> QED BY <1>1 DEF Attempted, Harmless, Steps, WiredTruly, AllowsTruly, Clean, v

LEMMA GateSteps ==
    ASSUME NEW w, Fit(w)
    PROVE  LET v == phase1r_rhag_evaluate(w, TRUE)
           IN  Steps(w, v) /\ Looks(w, v) /\ (Clean(w) => Clean(v))
  <1> DEFINE v == phase1r_rhag_evaluate(w, TRUE)
  <1>1. /\ Looks(w, v)
        /\ v.gate.allowed => v.obs.probe.ready /\ v.cand.ready /\ v.obs.probe.supported
    BY GateLooks
  <1> HIDE DEF v
  <1>2. Fit(v)
    BY <1>1, LooksFits
  <1> QED BY <1>1, <1>2 DEF Steps, WiredTruly, AllowsTruly, Looks, Keeps, Clean, v

LEMMA PollSteps ==
    ASSUME NEW w, Fit(w)
    PROVE  Steps(w, phase1r_rlhw_state(w)) /\ (Clean(w) => Clean(phase1r_rlhw_state(w)))
  <1> DEFINE v == phase1r_rlhw_state(w)
  <1>1. /\ Fit(v) /\ v.obs = w.obs /\ v.gate = w.gate
        /\ v.patch = w.patch /\ v.patched = w.patched /\ v.wiring.wired = w.wiring.wired
    BY PollFits
  <1> HIDE DEF v
  <1> QED BY <1>1, LiveStays DEF Steps, WiredTruly, AllowsTruly, Clean, v

\* A poll, or an attempt and a poll, and then a step that looks, step as the
\* last of them and as the attempt do.
LEMMA PolledSteps ==
    ASSUME NEW w, NEW v, Fit(w), Steps(w, v)
    PROVE  Steps(w, phase1r_rlhw_state(v)) /\ (Clean(v) => Clean(phase1r_rlhw_state(v)))
  <1> DEFINE p == phase1r_rlhw_state(v)
  <1>1. /\ Fit(p) /\ p.obs = v.obs /\ p.cand = v.cand /\ p.phlcc = v.phlcc /\ p.gate = v.gate
        /\ p.patch = v.patch /\ p.patched = v.patched /\ p.wiring.wired = v.wiring.wired
    BY PollFits DEF Steps
  <1> HIDE DEF p
  <1> QED BY <1>1 DEF Steps, WiredTruly, AllowsTruly, Proven, Clean, p

LEMMA GatedSteps ==
    ASSUME NEW w, NEW v, Fit(w), Steps(w, v)
    PROVE  LET g == phase1r_rhag_evaluate(v, TRUE)
           IN  Steps(w, g) /\ (Clean(v) => Clean(g))
  <1> DEFINE g == phase1r_rhag_evaluate(v, TRUE)
  <1>1. /\ Looks(v, g)
        /\ g.gate.allowed => g.obs.probe.ready /\ g.cand.ready /\ g.obs.probe.supported
    BY GateLooks DEF Steps
  <1> HIDE DEF g
  <1>2. Fit(g)
    BY <1>1, LooksFits DEF Steps
  <1>3. LiveKept(w.obs.live, g.obs.live)
    BY <1>1, LiveKeptTwice DEF Steps, Looks, Keeps
  <1>4. WiredTruly(w, g)
    BY <1>1 DEF Steps, WiredTruly, Proven, Looks, Keeps
  <1> QED BY <1>1, <1>2, <1>3, <1>4 DEF Steps, AllowsTruly, Looks, Clean, g

-----------------------------------------------------------------------------
(***************************************************************************)
(* The sample path's own actions                                           *)
(***************************************************************************)

Serves(o, after) ==
    Sane(after) /\ after.probe.ready = o.probe.ready /\ after.stub.registered = o.stub.registered

\* Shim, observer and normaliser are beside everything the invariant is about.
LEMMA BesideServes ==
    ASSUME NEW o, NEW after, Sane(o), DOMAIN after = ObsFields, after.probe = o.probe,
           after.lppp = o.lppp, after.adapter = o.adapter, after.stub = o.stub
    PROVE  Serves(o, after)
  BY DEF Serves, Sane, Shape, Linked, Counted

LEMMA KeepsServes ==
    ASSUME NEW o, NEW after, Sane(o), Keeps(o, after)
    PROVE  Serves(o, after)
  BY KeepsSane DEF Serves, Keeps

LEMMA ServesTwice ==
    ASSUME NEW a, NEW b, NEW c, Serves(a, b), Serves(b, c)
    PROVE  Serves(a, c)
  BY DEF Serves

LEMMA EmitServes ==
    ASSUME NEW o, NEW e, NEW real, Sane(o)
    PROVE  Serves(o, dispatch_emit(o, e, real).o) /\ dispatch_emit(o, e, real).o.live = o.live
  BY EmitCounts DEF Serves, Passes

LEMMA IngestServes ==
    ASSUME NEW o, NEW e, Sane(o)
    PROVE  LET after == phs_ingest_real_player_snapshot(o, e)
           IN  Serves(o, after) /\ after.live = o.live
  <1> DEFINE h == [o.shim EXCEPT !.bridge = @ + 1, !.entries = @ + 1]
             m == [o EXCEPT !.shim.bridge = @ + 1, !.shim.entries = @ + 1]
             d == dispatch_emit(m, e, TRUE)
             after == CountIngested(d)
  <1>1. phs_ingest_real_player_snapshot(o, e) = after
    BY DEF phs_ingest_real_player_snapshot
  <1>2. /\ DOMAIN m = ObsFields /\ m.probe = o.probe /\ m.lppp = o.lppp /\ m.adapter = o.adapter
        /\ m.stub = o.stub /\ m.live = o.live
    BY DEF Sane, Shape, ObsFields, ObsZero
  <1> HIDE DEF m
  <1>3. Serves(o, m)
    BY <1>2, BesideServes
  <1>4. Serves(m, d.o) /\ d.o.live = m.live
    <2>1. Sane(m)
      BY <1>3 DEF Serves
    <2> QED BY <2>1, EmitServes, Zenon
  <1> HIDE DEF d
  <1>5. /\ DOMAIN after = ObsFields /\ after.probe = d.o.probe /\ after.lppp = d.o.lppp
        /\ after.adapter = d.o.adapter /\ after.stub = d.o.stub /\ after.live = d.o.live
    BY <1>4 DEF CountIngested, Serves, Sane, Shape, ObsFields, ObsZero
  <1> HIDE DEF after
  <1>6. Serves(d.o, after)
    BY <1>4, <1>5, BesideServes DEF Serves
  <1> QED BY <1>1, <1>2, <1>3, <1>4, <1>5, <1>6, ServesTwice

LEMMA NotesServe ==
    ASSUME NEW o, Sane(o), NEW s, NEW id
    PROVE  /\ Serves(o, phs_ingest_null(o)) /\ phs_ingest_null(o).live = o.live
           /\ Serves(o, phs_note_manual_detour_entry(o)) /\ phs_note_manual_detour_entry(o).live = o.live
           /\ Serves(o, lpo_init(o, id)) /\ lpo_init(o, id).live = o.live
           /\ Serves(o, lpo_set_synthetic_state(o, s)) /\ lpo_set_synthetic_state(o, s).live = o.live
  <1>1. ASSUME NEW after, DOMAIN after = ObsFields,
               \A f \in ObsFields \ {"shim", "local", "synth"} : after[f] = o[f]
        PROVE  Serves(o, after) /\ after.live = o.live
    BY <1>1, BesideServes DEF ObsFields, ObsZero
  <1>2. ASSUME NEW f \in {"shim", "local", "synth"}, NEW x, NEW m,
               DOMAIN m = ObsFields, \A k \in ObsFields \ {"shim", "local", "synth"} : m[k] = o[k]
        PROVE  Serves(o, [m EXCEPT ![f] = x]) /\ [m EXCEPT ![f] = x].live = o.live
    BY <1>1, <1>2
  <1>3. DOMAIN o = ObsFields
    BY DEF Sane, Shape
  <1>4. Serves(o, phs_ingest_null(o)) /\ phs_ingest_null(o).live = o.live
    BY <1>2, <1>3 DEF phs_ingest_null
  <1>5. Serves(o, phs_note_manual_detour_entry(o)) /\ phs_note_manual_detour_entry(o).live = o.live
    BY <1>2, <1>3 DEF phs_note_manual_detour_entry
  <1>6. Serves(o, lpo_init(o, id)) /\ lpo_init(o, id).live = o.live
    <2> DEFINE m == [o EXCEPT !.local = id]
               x == [valid |-> FALSE, state |-> [NoState EXCEPT !.player = id]]
    <2>1. lpo_init(o, id) = [m EXCEPT !.synth = x]
      BY DEF lpo_init
    <2> HIDE DEF x
    <2>2. DOMAIN m = ObsFields /\ \A k \in ObsFields \ {"shim", "local", "synth"} : m[k] = o[k]
      BY <1>3 DEF ObsFields, ObsZero
    <2> HIDE DEF m
    <2> QED BY <1>2, <2>1, <2>2
  <1>7. Serves(o, lpo_set_synthetic_state(o, s)) /\ lpo_set_synthetic_state(o, s).live = o.live
    <2> DEFINE x == [valid |-> TRUE, state |-> [s EXCEPT !.player = IF @ = NoPlayer THEN o.local ELSE @]]
    <2>1. lpo_set_synthetic_state(o, s) = [o EXCEPT !.synth = x]
      BY DEF lpo_set_synthetic_state
    <2> HIDE DEF x
    <2> QED BY <1>2, <1>3, <2>1
  <1> QED BY <1>4, <1>5, <1>6, <1>7

LEMMA ProviderServes ==
    ASSUME NEW o, Sane(o), NEW id
    PROVE  /\ Serves(o, lpo_live_provider_install(o, id))
           /\ lpo_live_provider_install(o, id).live = [LiveZero EXCEPT !.installed = TRUE]
           /\ Serves(o, lpo_live_provider_uninstall(o)) /\ lpo_live_provider_uninstall(o).live = LiveZero
  <1>1. ASSUME NEW l, NEW i
        PROVE  LET after == clf4_pla_reset([o EXCEPT !.live = l], i)
               IN  Serves(o, after) /\ after.live = l
    <2> DEFINE after == clf4_pla_reset([o EXCEPT !.live = l], i)
    <2>1. /\ DOMAIN after = ObsFields /\ after.probe = o.probe /\ after.lppp = o.lppp
          /\ after.adapter = o.adapter /\ after.stub = o.stub /\ after.live = l
      BY DEF clf4_pla_reset, Sane, Shape, ObsFields, ObsZero
    <2> HIDE DEF after
    <2> QED BY <2>1, BesideServes DEF after
  <1> QED BY <1>1 DEF lpo_live_provider_install, lpo_live_provider_uninstall

LEMMA SubmitServes ==
    ASSUME NEW o, Sane(o), NEW e, NEW sub, Ring(o.live, sub)
    PROVE  LET s == lpo_live_provider_submit(o, e)
           IN  Serves(o, s.o) /\ Ring(s.o.live, IF s.ok THEN Append(sub, s.state) ELSE sub)
  <1> DEFINE n == clf4_pla_normalize(o, e)
             s == lpo_live_provider_submit(o, e)
             l == TalliedLive(live_queue_push(n.o.live, n.state), n.state)
  <1>1. CASE ~o.live.installed
    <2>1. s.o = o /\ ~s.ok
      BY <1>1 DEF lpo_live_provider_submit
    <2> HIDE DEF s
    <2> QED BY <2>1, BesideServes DEF Sane, Shape, s
  <1>2. CASE o.live.installed
    <2>1. s = LiveSample(n)
      BY <1>2 DEF lpo_live_provider_submit
    <2>2. /\ DOMAIN n.o = ObsFields
          /\ n.o.probe = o.probe /\ n.o.lppp = o.lppp /\ n.o.live = o.live
          /\ n.o.adapter = o.adapter /\ n.o.stub = o.stub
      BY NormalizeKeeps DEF Sane
    <2>3. DOMAIN n = {"ok", "state", "o"}
      BY DEF clf4_pla_normalize
    <2> HIDE DEF n, s
    <2>4. CASE ~n.ok
      <3>1. s.o = n.o /\ s.ok = n.ok
        BY <2>1, <2>3, <2>4 DEF LiveSample
      <3> QED BY <2>2, <2>4, <3>1, BesideServes DEF s
    <2>5. CASE n.ok
      <3>1. s = [n EXCEPT !.o = [n.o EXCEPT !.live = l]]
        BY <2>1, <2>2, <2>3, <2>5 DEF LiveSample
      <3> HIDE DEF l
      <3>2. s.o = [n.o EXCEPT !.live = l] /\ s.ok = n.ok /\ s.state = n.state
        BY <2>3, <3>1
      <3>3. /\ DOMAIN s.o = ObsFields /\ s.o.live = l
            /\ s.o.probe = o.probe /\ s.o.lppp = o.lppp /\ s.o.adapter = o.adapter /\ s.o.stub = o.stub
        BY <2>2, <3>2 DEF ObsFields, ObsZero
      <3>4. Ring(l, Append(sub, n.state))
        BY <2>2, PushKeepsRing DEF l
      <3> QED BY <2>5, <3>2, <3>3, <3>4, BesideServes DEF s
    <2> QED BY <2>4, <2>5
  <1> QED BY <1>1, <1>2

-----------------------------------------------------------------------------
(***************************************************************************)
(* The inductive invariant                                                 *)
(***************************************************************************)

IInv ==
    /\ Fit(World)
    /\ ~direct => Clean(World)
    /\ Ring(obs.live, submitted)

\* What WiredIsPatched and AllowedIsCurrent ask of a step.
StepPromise ==
    /\ wiring'.wired /\ ~wiring.wired =>
         /\ patched' # {} /\ patch'.write /\ obs'.stub.registered /\ obs'.adapter.acc > 0
         /\ obs'.probe.last.player = phlcc'.expected \/ phlcc'.expected = NoPlayer
    /\ gate' # gate /\ gate'.strict /\ gate'.allowed =>
         patched' # {} /\ obs'.probe.ready /\ cand'.ready /\ obs'.probe.supported

LEMMA WorldIs ==
    /\ DOMAIN World = WorldFields /\ World.obs = obs /\ World.patch = patch /\ World.cand = cand
    /\ World.phlcc = phlcc /\ World.wiring = wiring /\ World.gate = gate /\ World.patched = patched
  BY DEF World, WorldFields

LEMMA InitHolds == Init => IInv
  <1> SUFFICES ASSUME Init PROVE IInv
    OBVIOUS
  <1>1. /\ World.obs = ObsZero /\ World.patch = PatchZero /\ World.wiring = WiringZero /\ World.patched = {}
    BY WorldIs DEF Init
  <1>2. Sane(ObsZero) /\ ~ObsZero.probe.ready /\ ~ObsZero.adapter.installed
    <2>1. /\ ObsZero.probe = ProbeZero /\ ObsZero.lppp = LpppZero /\ ObsZero.adapter = AdapterZero /\ ObsZero.stub = StubZero
      BY DEF ObsZero
    <2>2. ~ProbeZero.ready /\ ProbeZero.callbacks = 0 /\ ProbeZero.rejected = 0 /\ ProbeZero.mismatched = 0
      BY DEF ProbeZero
    <2>3. AdapterZero.installed = FALSE /\ AdapterZero.acc = 0 /\ AdapterZero.rej = 0
          /\ LpppZero.installed = FALSE /\ StubZero.registered = FALSE
      BY DEF AdapterZero, LpppZero, StubZero
    <2> QED BY <2>1, <2>2, <2>3 DEF Sane, Shape, Linked, Counted, ObsFields, ProbeFields, LpppFields, AdapterFields, StubFields
  <1>3. Fit(World)
    BY <1>1, <1>2, WorldIs DEF Fit, WiringFields
  <1>4. Clean(World)
    BY <1>1 DEF Clean, PatchZero
  <1>5. Ring(obs.live, submitted)
    BY EmptyRing DEF Init, ObsZero
  <1> QED BY <1>3, <1>4, <1>5 DEF IInv

\* A step that commits the globals v.
LEMMA CommitHolds ==
    ASSUME IInv, NEW STATE v, Commit(v), Steps(World, v), UNCHANGED submitted,
           direct' = TRUE \/ (direct' = direct /\ (Clean(World) => Clean(v)))
    PROVE  IInv' /\ StepPromise
  <1>1. /\ (World').obs = v.obs /\ (World').patch = v.patch /\ (World').cand = v.cand /\ (World').phlcc = v.phlcc
        /\ (World').wiring = v.wiring /\ (World').gate = v.gate /\ (World').patched = v.patched
        /\ DOMAIN (World') = WorldFields
    BY DEF Commit, World, WorldFields
  <1>2. Fit(World')
    BY <1>1 DEF Steps, Fit
  <1>3. (~direct => Clean(World))'
    BY <1>1 DEF IInv, Clean
  <1>5. Ring(v.obs.live, submitted)
    BY WorldIs, CaptureKeepsRing DEF IInv, Steps
  <1>6. IInv'
    BY <1>2, <1>3, <1>5 DEF IInv, Commit
  <1>7. v.wiring.wired /\ ~wiring.wired => Proven(v) /\ v.patched # {}
    BY WorldIs DEF Steps, WiredTruly, Proven, Fit, Sane, Linked
  <1>8. v.gate # gate /\ v.gate.strict /\ v.gate.allowed =>
          v.patched # {} /\ v.obs.probe.ready /\ v.cand.ready /\ v.obs.probe.supported
    BY WorldIs DEF Steps, AllowsTruly, Fit
  <1>9. v.obs.adapter.acc >= 1 => v.obs.adapter.acc > 0
    BY DEF Steps, Fit, Sane, Shape
  <1> QED BY <1>6, <1>7, <1>8, <1>9 DEF StepPromise, Commit, Proven

\* A step of the sample path.
LEMMA ObserveHolds ==
    ASSUME IInv, NEW STATE o, Observe(o), Serves(obs, o), Ring(o.live, submitted')
    PROVE  IInv' /\ StepPromise
  <1>1. /\ (World').obs = o /\ (World').patch = patch /\ (World').cand = cand /\ (World').phlcc = phlcc
        /\ (World').wiring = wiring /\ (World').gate = gate /\ (World').patched = patched
        /\ DOMAIN (World') = WorldFields /\ direct' = direct /\ obs' = o
    BY DEF Observe, World, WorldFields
  <1>2. Fit(World')
    BY <1>1, WorldIs DEF IInv, Fit, Serves, Sane, Linked
  <1>3. (~direct => Clean(World))'
    BY <1>1, WorldIs DEF IInv, Clean
  <1> QED BY <1>1, <1>2, <1>3 DEF IInv, StepPromise, Observe

\* F4SEPlugin_Query and F4SEPlugin_Load wire with a dry run.
LEMMA ExportIsDry ==
    ASSUME NEW site
    PROVE  ~clf4_phpp_is_armed(f4mp_prepare_wire_config(site).policy)
  BY DEF clf4_phpp_is_armed, f4mp_prepare_wire_config, ExportSite

LEMMA StaySteps ==
    ASSUME IInv
    PROVE  Steps(World, World)
  BY LiveStays DEF IInv, Steps, WiredTruly, AllowsTruly

LEMMA QueryHolds ==
    ASSUME IInv, Query
    PROVE  IInv' /\ StepPromise
  <1> DEFINE pivot == f4mp_make_manual_pivot_selection(env)
             v(choice) == phase1r_rlhw_attempt(World, F4se, pivot.provider, f4mp_prepare_wire_config(pivot.site), choice)
  <1>1. CASE env.editor
    BY <1>1, CommitHolds, StaySteps DEF Query
  <1>2. CASE ~env.editor
    <2>1. PICK choice \in GameAnswers : Commit(v(choice))
      BY <1>2 DEF Query
    <2>2. Steps(World, v(choice)) /\ (Clean(World) => Clean(v(choice)))
      BY AttemptSteps, ExportIsDry DEF IInv
    <2>3. UNCHANGED <<direct, submitted>>
      BY DEF Query
    <2> HIDE DEF v
    <2> QED BY <2>1, <2>2, <2>3, CommitHolds
  <1> QED BY <1>1, <1>2

LEMMA LoadHolds ==
    ASSUME IInv, Load
    PROVE  IInv' /\ StepPromise
  <1> DEFINE loaded == clf4_plugin_load_for_mode(registry, results, F4se, "VANILLA_MIRROR")
             start == [World EXCEPT !.registry = loaded.registry]
             pivot == f4mp_make_manual_pivot_selection(env)
             kept == prearm /\ wiring.attempted /\ clf4_phic_stats(start).install_ready
             tried(choice) == phase1r_rlhw_attempt(start, F4se, pivot.provider, f4mp_prepare_wire_config(pivot.site), choice)
             up(choice) == IF kept THEN phase1r_rlhw_state(start) ELSE phase1r_rlhw_state(tried(choice))
             v(choice) == phase1r_rlhw_state(phase1r_rhag_evaluate(up(choice), TRUE))
  <1>1. PICK choice \in GameAnswers : Commit(v(choice))
    BY DEF Load
  <1>2. UNCHANGED <<direct, submitted>>
    BY DEF Load
  <1> HIDE DEF loaded, pivot
  <1>3. /\ DOMAIN start = WorldFields /\ start.obs = World.obs /\ start.patch = World.patch /\ start.cand = World.cand
        /\ start.phlcc = World.phlcc /\ start.wiring = World.wiring /\ start.gate = World.gate /\ start.patched = World.patched
    BY WorldIs DEF WorldFields
  <1> HIDE DEF start, kept
  <1>4. Fit(start)
    BY <1>3 DEF IInv, Fit
  <1>5. Steps(start, up(choice)) /\ (Clean(start) => Clean(up(choice)))
    <2>1. Steps(start, phase1r_rlhw_state(start)) /\ (Clean(start) => Clean(phase1r_rlhw_state(start)))
      BY <1>4, PollSteps
    <2>2. Steps(start, tried(choice)) /\ (Clean(start) => Clean(tried(choice)))
      BY <1>4, AttemptSteps, ExportIsDry
    <2> HIDE DEF tried
    <2>3. Steps(start, phase1r_rlhw_state(tried(choice))) /\ (Clean(start) => Clean(phase1r_rlhw_state(tried(choice))))
      BY <1>4, <2>2, PolledSteps
    <2> QED BY <2>1, <2>3
  <1> HIDE DEF up
  <1>6. Steps(start, v(choice)) /\ (Clean(start) => Clean(v(choice)))
    <2> DEFINE g == phase1r_rhag_evaluate(up(choice), TRUE)
    <2>1. Steps(start, g) /\ (Clean(start) => Clean(g))
      BY <1>4, <1>5, GatedSteps
    <2> HIDE DEF g
    <2>2. Steps(start, phase1r_rlhw_state(g)) /\ (Clean(start) => Clean(phase1r_rlhw_state(g)))
      BY <1>4, <2>1, PolledSteps
    <2> QED BY <2>2 DEF g
  <1> HIDE DEF v
  <1>7. Steps(World, v(choice)) /\ (Clean(World) => Clean(v(choice)))
    BY <1>3, <1>6 DEF Steps, WiredTruly, AllowsTruly, Clean
  <1> QED BY <1>1, <1>2, <1>7, CommitHolds

LEMMA AttemptHolds ==
    ASSUME IInv, NEW provider, NEW cfg, NEW choice, Attempt(provider, cfg, choice)
    PROVE  IInv' /\ StepPromise
  <1> DEFINE v == phase1r_rlhw_attempt(World, F4se, provider, cfg, choice)
  <1>1. Steps(World, v)
    BY AttemptSteps DEF IInv
  <1>2. Commit(v) /\ direct' = TRUE /\ UNCHANGED submitted
    BY DEF Attempt
  <1> HIDE DEF v
  <1> QED BY <1>1, <1>2, CommitHolds

LEMMA DryRunSteps ==
    ASSUME NEW w, NEW f4se, NEW provider, Fit(w)
    PROVE  LET v == phase1r_rlhdf_run(w, f4se, provider, 1)
           IN  Steps(w, v) /\ (Clean(w) => Clean(v)) /\ v.wiring = w.wiring /\ v.gate = w.gate /\ v.obs.live = w.obs.live
  <1> DEFINE v == phase1r_rlhdf_run(w, f4se, provider, 1)
  <1>1. /\ Fit(v) /\ v.wiring = w.wiring /\ v.gate = w.gate /\ v.obs.live = w.obs.live
        /\ v.patch = w.patch /\ v.patched = w.patched
    BY DryRunFits
  <1> HIDE DEF v
  <1> QED BY <1>1, LiveStays DEF Steps, WiredTruly, AllowsTruly, Clean, v

LEMMA ArmedHolds ==
    ASSUME IInv, NEW provider, NEW cfg, NEW choice, NEW logs, phase1r_rlhaf_attempt(provider, cfg, choice, logs)
    PROVE  IInv' /\ StepPromise
  <1> DEFINE dry == phase1r_rlhdf_run(World, F4se, provider, 1)
             t == phase1r_rlhw_attempt(dry, F4se, provider, cfg, choice)
             v == phase1r_rlhw_state(t)
  <1>1. Commit(v) /\ direct' = TRUE /\ UNCHANGED submitted
    BY DEF phase1r_rlhaf_attempt
  <1>2. Steps(World, dry) /\ dry.wiring = World.wiring /\ dry.gate = World.gate /\ dry.obs.live = World.obs.live
    BY DryRunSteps DEF IInv
  <1> HIDE DEF dry
  <1>3. Fit(dry)
    BY <1>2 DEF Steps
  <1>4. Steps(dry, t)
    BY <1>3, AttemptSteps
  <1> HIDE DEF t
  <1>5. Steps(dry, v)
    BY <1>3, <1>4, PolledSteps
  <1> HIDE DEF v
  <1>6. Steps(World, v)
    BY <1>2, <1>5 DEF Steps, WiredTruly, AllowsTruly
  <1> QED BY <1>1, <1>6, CommitHolds

LEMMA InstallPathHolds ==
    ASSUME IInv,
           \/ \E provider \in Providers : DryRun(provider)
           \/ EvaluateGate \/ Uninstall \/ PollWiring
    PROVE  IInv' /\ StepPromise
  <1>0. Fit(World)
    BY DEF IInv
  <1>1. ASSUME NEW provider \in Providers, DryRun(provider) PROVE IInv' /\ StepPromise
    <2> DEFINE v == phase1r_rlhdf_run(World, F4se, provider, 1)
    <2>1. Steps(World, v) /\ (Clean(World) => Clean(v))
      BY <1>0, DryRunSteps
    <2>2. Commit(v) /\ UNCHANGED <<direct, submitted>>
      BY <1>1 DEF DryRun
    <2> HIDE DEF v
    <2> QED BY <2>1, <2>2, CommitHolds
  <1>2. CASE EvaluateGate
    <2> DEFINE v == phase1r_rhag_evaluate(World, TRUE)
    <2>1. Steps(World, v) /\ (Clean(World) => Clean(v))
      BY <1>0, GateSteps
    <2>2. Commit(v) /\ UNCHANGED <<direct, submitted>>
      BY <1>2 DEF EvaluateGate
    <2> HIDE DEF v
    <2> QED BY <2>1, <2>2, CommitHolds
  <1>3. CASE PollWiring
    <2> DEFINE v == phase1r_rlhw_state(World)
    <2>1. Steps(World, v) /\ (Clean(World) => Clean(v))
      BY <1>0, PollSteps
    <2>2. Commit(v) /\ UNCHANGED <<direct, submitted>>
      BY <1>3 DEF PollWiring
    <2> HIDE DEF v
    <2> QED BY <2>1, <2>2, CommitHolds
  <1>4. CASE Uninstall
    <2> DEFINE a == clf4_phic_uninstall(World)
               b == clf4_phlcc_reset(World)
               c == clf4_phic_reset(World)
    <2>1. UNCHANGED <<direct, submitted>> /\ (Commit(a) \/ Commit(b) \/ Commit(c))
      BY <1>4 DEF Uninstall
    <2>2. Fit(a) /\ Aside(World, a) /\ a.patch = World.patch /\ a.obs.live = World.obs.live
      BY <1>0, UninstallFits
    <2>3. Fit(b) /\ Aside(World, b) /\ b.patch = World.patch /\ b.obs.live = World.obs.live
      BY <1>0, CandidateResetFits
    <2>4. Fit(c) /\ Aside(World, c) /\ c.patch = PatchZero /\ c.obs.live = World.obs.live
      BY <1>0, ResetFits DEF Fresh
    <2>5. ~PatchZero.attempted
      BY DEF PatchZero
    <2> HIDE DEF a, b, c
    <2>6. Steps(World, a) /\ (Clean(World) => Clean(a))
      BY <2>2, LiveStays DEF Aside, Steps, WiredTruly, AllowsTruly, Clean
    <2>7. Steps(World, b) /\ (Clean(World) => Clean(b))
      BY <2>3, LiveStays DEF Aside, Steps, WiredTruly, AllowsTruly, Clean
    <2>8. Steps(World, c) /\ (Clean(World) => Clean(c))
      BY <2>4, <2>5, LiveStays DEF Aside, Steps, WiredTruly, AllowsTruly, Clean
    <2>a. Commit(a) => IInv' /\ StepPromise
      BY <2>1, <2>6, CommitHolds
    <2>b. Commit(b) => IInv' /\ StepPromise
      BY <2>1, <2>7, CommitHolds
    <2>c. Commit(c) => IInv' /\ StepPromise
      BY <2>1, <2>8, CommitHolds
    <2> QED BY <2>1, <2>a, <2>b, <2>c
  <1> QED BY <1>1, <1>2, <1>3, <1>4

LEMMA SamplePathHolds ==
    ASSUME IInv,
           \/ \E e \in Events : RealCallback(e) \/ EmitSynthetic(e) \/ clf4_phob_submit(e) \/ SetSynthetic(e)
           \/ NullCallback \/ Capture \/ SetObserver \/ clf4_phob_uninstall \/ NoteEntry
           \/ \E id \in 1..2 : clf4_phob_install(id)
    PROVE  IInv' /\ StepPromise
  <1>0. Sane(obs) /\ Ring(obs.live, submitted)
    BY WorldIs DEF IInv, Fit
  <1>a. ASSUME NEW STATE o, Observe(o), Serves(obs, o), o.live = obs.live, UNCHANGED submitted
        PROVE  IInv' /\ StepPromise
    <2>1. Ring(o.live, submitted')
      BY <1>0, <1>a
    <2> QED BY <1>a, <2>1, ObserveHolds
  <1>b. ASSUME NEW STATE o, Observe(o), Serves(obs, o), LiveKept(obs.live, o.live), UNCHANGED submitted
        PROVE  IInv' /\ StepPromise
    <2>1. Ring(o.live, submitted')
      BY <1>0, <1>b, CaptureKeepsRing
    <2> QED BY <1>b, <2>1, ObserveHolds
  <1>1. ASSUME NEW e \in Events, RealCallback(e) PROVE IInv' /\ StepPromise
    <2> DEFINE o == phs_ingest_real_player_snapshot(obs, e)
    <2>1. Serves(obs, o) /\ o.live = obs.live
      BY <1>0, IngestServes
    <2>2. Observe(o) /\ UNCHANGED submitted
      BY <1>1 DEF RealCallback
    <2> HIDE DEF o
    <2> QED BY <1>a, <2>1, <2>2
  <1>2. ASSUME NEW e \in Events, EmitSynthetic(e) PROVE IInv' /\ StepPromise
    <2> DEFINE d == dispatch_emit(obs, e, FALSE)
               c == lpo_capture(d.o)
    <2>1. (Observe(c.o) \/ Observe(d.o)) /\ UNCHANGED submitted
      BY <1>2 DEF EmitSynthetic
    <2>2. Serves(obs, d.o) /\ d.o.live = obs.live
      BY <1>0, EmitServes, Zenon
    <2> HIDE DEF d
    <2>3. Keeps(d.o, c.o)
      BY <2>2, CaptureKeeps DEF Serves, Sane
    <2> HIDE DEF c
    <2>4. Serves(obs, c.o) /\ LiveKept(obs.live, c.o.live)
      BY <2>2, <2>3, KeepsServes, ServesTwice DEF Serves, Keeps
    <2> QED BY <1>a, <1>b, <2>1, <2>2, <2>4
  <1>3. ASSUME NEW e \in Events, clf4_phob_submit(e) PROVE IInv' /\ StepPromise
    <2> DEFINE s == lpo_live_provider_submit(obs, e)
    <2>1. Observe(s.o) /\ submitted' = IF s.ok THEN Append(submitted, s.state) ELSE submitted
      BY <1>3 DEF clf4_phob_submit
    <2>2. Serves(obs, s.o) /\ Ring(s.o.live, IF s.ok THEN Append(submitted, s.state) ELSE submitted)
      BY <1>0, SubmitServes
    <2> HIDE DEF s
    <2>3. Ring(s.o.live, submitted')
      BY <2>1, <2>2
    <2> QED BY <2>1, <2>2, <2>3, ObserveHolds
  <1>4. ASSUME NEW e \in Events, SetSynthetic(e) PROVE IInv' /\ StepPromise
    BY <1>0, <1>4, <1>a, NotesServe DEF SetSynthetic
  <1>5. CASE NullCallback
    BY <1>0, <1>5, <1>a, NotesServe DEF NullCallback
  <1>6. CASE Capture
    <2> DEFINE o == lpo_capture(obs).o
    <2>1. Keeps(obs, o)
      BY <1>0, CaptureKeeps DEF Sane
    <2>2. Observe(o) /\ UNCHANGED submitted
      BY <1>6 DEF Capture
    <2> HIDE DEF o
    <2> QED BY <1>0, <1>b, <2>1, <2>2, KeepsServes DEF Keeps
  <1>7. CASE SetObserver
    BY <1>0, <1>7, <1>a, NotesServe DEF SetObserver
  <1>8. CASE NoteEntry
    BY <1>0, <1>8, <1>a, NotesServe DEF NoteEntry
  <1>9. CASE clf4_phob_uninstall
    <2> DEFINE o == lpo_live_provider_uninstall(obs)
    <2>1. Serves(obs, o) /\ o.live = LiveZero
      BY <1>0, ProviderServes
    <2>2. Observe(o) /\ submitted' = <<>>
      BY <1>9 DEF clf4_phob_uninstall
    <2> HIDE DEF o
    <2> QED BY <2>1, <2>2, EmptyRing, ObserveHolds
  <1>10. ASSUME NEW id \in 1 .. 2, clf4_phob_install(id) PROVE IInv' /\ StepPromise
    <2> DEFINE o == lpo_live_provider_install(obs, id)
    <2>1. Serves(obs, o) /\ o.live = [LiveZero EXCEPT !.installed = TRUE]
      BY <1>0, ProviderServes
    <2>2. Observe(o) /\ submitted' = <<>>
      BY <1>10 DEF clf4_phob_install
    <2> HIDE DEF o
    <2> QED BY <2>1, <2>2, EmptyRing, ObserveHolds
  <1> QED BY <1>1, <1>2, <1>3, <1>4, <1>5, <1>6, <1>7, <1>8, <1>9, <1>10

\* A bring-up rewrites the registry and the reports only.
LEMMA BringupHolds ==
    ASSUME IInv, NEW mode, NEW plan, clf4_hook_adapter_init_mode_with_plan(mode, plan)
    PROVE  IInv' /\ StepPromise
  <1>1. /\ (World').obs = obs /\ (World').patch = patch /\ (World').cand = cand
        /\ (World').wiring = wiring /\ (World').patched = patched /\ DOMAIN (World') = WorldFields
    BY DEF clf4_hook_adapter_init_mode_with_plan, hidden, World, WorldFields
  <1>2. UNCHANGED <<obs, patch, cand, wiring, gate, direct, submitted>>
    BY DEF clf4_hook_adapter_init_mode_with_plan, hidden
  <1>3. Fit(World') /\ (~direct => Clean(World))'
    BY <1>1, <1>2, WorldIs DEF IInv, Fit, Clean
  <1> QED BY <1>2, <1>3 DEF IInv, StepPromise

\* The patched code runs only after a direct attempt.
LEMMA GameHolds ==
    ASSUME IInv, GameRunsTarget
    PROVE  IInv' /\ StepPromise
  <1>1. /\ (World').obs = obs /\ (World').cand = cand
        /\ (World').wiring = wiring /\ (World').patched = patched /\ DOMAIN (World') = WorldFields
    BY DEF GameRunsTarget, hidden, World, WorldFields
  <1>2. UNCHANGED <<obs, cand, wiring, gate, direct, submitted>>
    BY DEF GameRunsTarget, hidden
  <1>3. direct
    BY WorldIs DEF IInv, Clean, GameRunsTarget
  <1>4. Fit(World')
    BY <1>1, WorldIs DEF IInv, Fit
  <1> QED BY <1>2, <1>3, <1>4 DEF IInv, StepPromise

LEMMA NextHolds ==
    ASSUME IInv, [Next]_vars
    PROVE  IInv' /\ StepPromise
  <1>1. CASE UNCHANGED vars
    <2>1. UNCHANGED <<registry, obs, patch, cand, phlcc, wiring, gate, patched, direct, submitted>>
      BY <1>1 DEF vars, hidden
    <2>2. World' = World
      BY <2>1 DEF World
    <2>3. IInv'
      BY <2>1, <2>2 DEF IInv
    <2> QED BY <2>1, <2>3 DEF StepPromise
  <1>2. CASE Next
    BY <1>2, QueryHolds, LoadHolds, AttemptHolds, ArmedHolds, InstallPathHolds, SamplePathHolds, BringupHolds, GameHolds
    DEF Next
  <1> QED BY <1>1, <1>2

-----------------------------------------------------------------------------
(***************************************************************************)
(* The theorems                                                            *)
(***************************************************************************)

(* The invariant of the install path: every order of exports, attempts,    *)
(* dry runs, gates, uninstalls, callbacks and captures keeps it.           *)
THEOREM Invariance == Spec => []IInv
  <1>1. IInv /\ [Next]_vars => IInv'
    BY NextHolds
  <1> QED BY InitHolds, <1>1, PTL DEF Spec

(* The callback, its adapter and its provider come and go together, and    *)
(* only an install that patched the game leaves them: no early return of   *)
(* clf4_phic_install_with_provider keeps a callback registered.            *)
THEOREM CallbackFollowsInstall == Spec => []FailedInstallLeavesNoCallback
  <1>1. IInv => FailedInstallLeavesNoCallback
    BY WorldIs DEF IInv, Fit, Sane, Linked, FailedInstallLeavesNoCallback
  <1> QED BY Invariance, <1>1, PTL

(* As shipped nothing is patched: F4SEPlugin_Query and F4SEPlugin_Load     *)
(* wire with the dry-run policy, which install_with_resolution turns down  *)
(* before the patch step, whatever the game, the variables and the trusted *)
(* address file say.                                                       *)
THEOREM ShippedIsDry == Spec => []ShippedNeverPatches
  <1>1. IInv => ShippedNeverPatches
    BY WorldIs DEF IInv, Fit, Sane, Linked, Clean, ShippedNeverPatches
  <1> QED BY Invariance, <1>1, PTL

(* The adapter's counts are the probe's: a dry run resets the probe under  *)
(* an installed adapter, but leaves it not ready, and the next install     *)
(* takes the adapter away first.                                           *)
THEOREM AdapterCountsAgree == Spec => []AcceptedIsCounted
  <1>1. IInv => AcceptedIsCounted
    BY WorldIs DEF IInv, Fit, Sane, Counted, AcceptedIsCounted
  <1> QED BY Invariance, <1>1, PTL

(* The live provider's ring of any size holds the latest samples in their  *)
(* order, and live_queue_peek_latest is the newest of them.                *)
THEOREM RingIsLatest == Spec => []RingHoldsLatest
  <1>1. IInv => RingHoldsLatest
    <2> SUFFICES ASSUME Ring(obs.live, submitted) PROVE RingHoldsLatest
      BY DEF IInv
    <2>1. \A i \in 0 .. Kept(submitted) - 1 : (obs.live.head + i) % QueueMax = Slot(obs.live.head, i)
      <3> TAKE i \in 0 .. Kept(submitted) - 1
      <3>1. i \in 0 .. QueueMax /\ obs.live.head \in 0 .. QueueMax - 1
        BY QueueAssumption DEF Ring, Kept
      <3> QED BY <3>1, WrapIsSlot, Zenon
    <2> QED BY <2>1 DEF Ring, Kept, RingHoldsLatest
  <1> QED BY Invariance, <1>1, PTL

(* A wired report is true: phase1r_rlhw_attempt claims it only after it    *)
(* patched the game itself and its own sample came back from the adapter   *)
(* with the expected player.                                               *)
THEOREM WiredMeansPatched == Spec => WiredIsPatched
  <1>1. IInv /\ [Next]_vars =>
          [wiring' # wiring /\ wiring'.wired /\ ~wiring.wired =>
             /\ patched' # {} /\ patch'.write /\ obs'.stub.registered /\ obs'.adapter.acc > 0
             /\ obs'.probe.last.player = phlcc'.expected \/ phlcc'.expected = NoPlayer]_vars
    BY NextHolds DEF StepPromise
  <1> QED BY Invariance, <1>1, PTL DEF Spec, WiredIsPatched

(* The strict gate reads the probe and the candidate as they are when it   *)
(* decides: what it allows is installed, on a supported profile.           *)
THEOREM GateIsCurrent == Spec => AllowedIsCurrent
  <1>1. IInv /\ [Next]_vars =>
          [gate' # gate /\ gate'.strict /\ gate'.allowed =>
             patched' # {} /\ obs'.probe.ready /\ cand'.ready /\ obs'.probe.supported]_vars
    BY NextHolds DEF StepPromise
  <1> QED BY Invariance, <1>1, PTL DEF Spec, AllowedIsCurrent

-----------------------------------------------------------------------------
(***************************************************************************)
(* The start-up self-check                                                 *)
(***************************************************************************)

\* The policies decide on the registry alone, whatever it holds.
LEMMA SelfcheckDecides ==
    ASSUME NEW reg, NEW mode \in {"BASIC_SYNC", "VANILLA_MIRROR"}
    PROVE  LET enabled == hook_bringup_config_for_mode(mode)
               check   == plugin_startup_selfcheck(reg, mode)
           IN  /\ check.readiness = "READY" <=> \A f \in enabled : reg[f].state = "INSTALLED"
               /\ (\E f \in {"PLAYER", "WORKSHOP"} : reg[f].state # "INSTALLED") => check.readiness = "UNAVAILABLE"
  <1> DEFINE enabled == hook_bringup_config_for_mode(mode)
             Blocked(kind) == {f \in Families : startup_blocking_for_family(mode, f, reg[f].state) = kind}
             base == hook_bringup_readiness(reg, mode)
             adjusted == IF Blocked("FATAL") # {} THEN "UNAVAILABLE"
                         ELSE IF Blocked("DEGRADABLE") # {} /\ base = "READY" THEN "PARTIAL" ELSE base
             check == plugin_startup_selfcheck(reg, mode)
  <1>1. check.readiness = adjusted
    BY DEF plugin_startup_selfcheck, startup_blocking_summary_for_mode
  <1>2. enabled \subseteq Families /\ {"PLAYER", "WORKSHOP"} \subseteq enabled
    BY DEF hook_bringup_config_for_mode, Families
  <1>3. \A f \in Families : /\ f \in enabled /\ reg[f].state # "INSTALLED" => f \in Blocked("FATAL") \cup Blocked("DEGRADABLE")
                            /\ f \in {"PLAYER", "WORKSHOP"} /\ reg[f].state # "INSTALLED" => f \in Blocked("FATAL")
                            /\ reg[f].state = "INSTALLED" \/ f \notin enabled => f \notin Blocked("FATAL") \cup Blocked("DEGRADABLE")
    BY <1>2 DEF startup_blocking_for_family
  <1>4. base = "READY" <=> \A f \in enabled : reg[f].state = "INSTALLED"
    BY DEF hook_bringup_readiness, classify_readiness
  <1> HIDE DEF base, check, enabled, Blocked
  <1>5. CASE \A f \in enabled : reg[f].state = "INSTALLED"
    <2>1. Blocked("FATAL") = {} /\ Blocked("DEGRADABLE") = {}
      BY <1>3, <1>5 DEF Blocked
    <2> QED BY <1>1, <1>2, <1>4, <1>5, <2>1 DEF check, enabled
  <1>6. CASE \E f \in enabled : reg[f].state # "INSTALLED"
    <2>1. Blocked("FATAL") # {} \/ Blocked("DEGRADABLE") # {}
      BY <1>2, <1>3, <1>6
    <2>2. adjusted # "READY"
      BY <1>4, <1>6, <2>1
    <2>3. (\E f \in {"PLAYER", "WORKSHOP"} : reg[f].state # "INSTALLED") => adjusted = "UNAVAILABLE"
      BY <1>2, <1>3
    <2> QED BY <1>1, <1>6, <2>2, <2>3 DEF check, enabled
  <1> QED BY <1>5, <1>6

(* plugin_startup_selfcheck on whatever the registry holds: ready exactly  *)
(* when every family of the mode is installed, unavailable without the     *)
(* player's or the workshop's.                                             *)
THEOREM SelfcheckTells == Spec => []SelfcheckIsExact
  <1>1. SelfcheckIsExact
    BY SelfcheckDecides DEF SelfcheckIsExact
  <1> QED BY <1>1, PTL

-----------------------------------------------------------------------------
(***************************************************************************)
(* The patch: instructions in memory                                       *)
(***************************************************************************)

Ins ==
    {i \in [enc : Seq(0 .. 255), pcrel : BOOLEAN,
            op : {"original", "movrax", "jmprax", "nop", "count"},
            arg : Nat \cup {<<>>} \cup (Int \X Int), uses : Uses] : Len(i.enc) > 0}

Cell == [ins : Ins, off : Nat]

\* One whole instruction at a place.
Has(cells, at, ins) ==
    /\ at \in Nat /\ at >= 1 /\ at + Len(ins.enc) - 1 <= Len(cells)
    /\ \A j \in 1 .. Len(ins.enc) : cells[at + j - 1] = [ins |-> ins, off |-> j]

\* An instruction after the other, the k-th one up to off[k].
Laid(code, cells, off) ==
    /\ off \in [0 .. Len(code) -> Nat]
    /\ off[0] = 0 /\ off[Len(code)] = Len(cells)
    /\ \A k \in 1 .. Len(code) :
          off[k] = off[k - 1] + Len(code[k].enc) /\ Has(cells, off[k - 1] + 1, code[k])

LEMMA InsLength ==
    ASSUME NEW i \in Ins
    PROVE  Len(i.enc) \in Nat /\ Len(i.enc) >= 1
<1>1. i.enc \in Seq(0 .. 255) /\ Len(i.enc) > 0
  BY DEF Ins
<1>2. Len(i.enc) \in Nat
  BY <1>1
<1>. QED  BY <1>1, <1>2

LEMMA CellsHas ==
    ASSUME NEW i \in Ins
    PROVE  /\ Cells(i) \in Seq(Cell) /\ Len(Cells(i)) = Len(i.enc)
           /\ Has(Cells(i), 1, i)
<1> DEFINE n == Len(i.enc)
           C(k) == [ins |-> i, off |-> k]
<1>1. n \in Nat /\ n >= 1
  BY InsLength
<1>2. Cells(i) = [k \in 1 .. n |-> C(k)]
  BY DEF Cells
<1>3. \A k \in 1 .. n : C(k) \in Cell
  BY <1>1 DEF Cell
<1> HIDE DEF n, C
<1>4. Cells(i) \in Seq(Cell) /\ Len(Cells(i)) = n /\ \A k \in 1 .. n : Cells(i)[k] = C(k)
  BY <1>1, <1>2, <1>3
<1>5. 1 + n - 1 <= Len(Cells(i))
  BY <1>1, <1>4
<1>6. \A j \in 1 .. n : Cells(i)[1 + j - 1] = C(j)
  BY <1>1, <1>4
<1>. QED  BY <1>4, <1>5, <1>6 DEF Has, n, C

\* What is at a place stays there when code is put before or behind it, or
\* when other code is cut away.
LEMMA HasLeft ==
    ASSUME NEW i \in Ins, NEW x \in Seq(Cell), NEW y \in Seq(Cell), NEW p \in Nat, Has(x, p, i)
    PROVE  Has(x \o y, p, i)
<1> DEFINE n == Len(i.enc)
<1>1. n \in Nat /\ n >= 1
  BY InsLength
<1>2. p >= 1 /\ p + n - 1 <= Len(x)
  BY DEF Has
<1> HIDE DEF n
<1>3. x \o y \in Seq(Cell) /\ Len(x \o y) = Len(x) + Len(y) /\ Len(x) \in Nat /\ Len(y) \in Nat
  OBVIOUS
<1>4. \A j \in 1 .. n : (x \o y)[p + j - 1] = x[p + j - 1]
  <2> SUFFICES ASSUME NEW j \in 1 .. n  PROVE (x \o y)[p + j - 1] = x[p + j - 1]
    OBVIOUS
  <2>1. p + j - 1 \in 1 .. Len(x)
    BY <1>1, <1>2, <1>3
  <2>. QED  BY <1>3, <2>1
<1>5. p + n - 1 <= Len(x \o y)
  BY <1>1, <1>2, <1>3
<1>. QED  BY <1>1, <1>2, <1>3, <1>4, <1>5 DEF Has, n

LEMMA HasRight ==
    ASSUME NEW i \in Ins, NEW x \in Seq(Cell), NEW y \in Seq(Cell), NEW p \in Nat, Has(y, p, i)
    PROVE  Has(x \o y, Len(x) + p, i)
<1> DEFINE n == Len(i.enc)
<1>1. n \in Nat /\ n >= 1
  BY InsLength
<1>2. p >= 1 /\ p + n - 1 <= Len(y)
  BY DEF Has
<1> HIDE DEF n
<1>3. x \o y \in Seq(Cell) /\ Len(x \o y) = Len(x) + Len(y) /\ Len(x) \in Nat /\ Len(y) \in Nat
  OBVIOUS
<1>4. \A j \in 1 .. n : (x \o y)[Len(x) + p + j - 1] = y[p + j - 1]
  <2> SUFFICES ASSUME NEW j \in 1 .. n  PROVE (x \o y)[Len(x) + p + j - 1] = y[p + j - 1]
    OBVIOUS
  <2>1. p + j - 1 \in 1 .. Len(y) /\ Len(x) + p + j - 1 = Len(x) + (p + j - 1)
    BY <1>1, <1>2, <1>3
  <2>2. \A e \in 1 .. Len(y) : (x \o y)[Len(x) + e] = y[e]
    BY <1>3
  <2>. QED  BY <2>1, <2>2
<1>5. Len(x) + p + n - 1 <= Len(x \o y) /\ Len(x) + p \in Nat /\ Len(x) + p >= 1
  BY <1>1, <1>2, <1>3
<1>. QED  BY <1>1, <1>2, <1>3, <1>4, <1>5 DEF Has, n

\* Some first cells of a piece of code, and the others.
LEMMA Pieces ==
    ASSUME NEW x \in Seq(Cell), NEW c \in 0 .. Len(x)
    PROVE  /\ SubSeq(x, 1, c) \in Seq(Cell) /\ Len(SubSeq(x, 1, c)) = c
           /\ \A e \in 1 .. c : SubSeq(x, 1, c)[e] = x[e]
           /\ SubSeq(x, c + 1, Len(x)) \in Seq(Cell) /\ Len(SubSeq(x, c + 1, Len(x))) = Len(x) - c
           /\ \A e \in 1 .. (Len(x) - c) : SubSeq(x, c + 1, Len(x))[e] = x[c + e]
<1>1. Len(x) \in Nat /\ c \in Nat /\ \A e \in 1 .. Len(x) : x[e] \in Cell
  OBVIOUS
<1>2. SubSeq(x, 1, c) \in Seq(Cell) /\ Len(SubSeq(x, 1, c)) = c
      /\ \A e \in 1 .. c : SubSeq(x, 1, c)[e] = x[e]
  <2>1. \A e \in 1 .. c : x[e] \in Cell
    BY <1>1
  <2>. QED  BY <1>1, <2>1, SubSeqProperties
<1>3. SubSeq(x, c + 1, Len(x)) \in Seq(Cell) /\ Len(SubSeq(x, c + 1, Len(x))) = Len(x) - c
      /\ \A e \in 1 .. (Len(x) - c) : SubSeq(x, c + 1, Len(x))[e] = x[c + e]
  BY <1>1, SubSeqProperties
<1>. QED  BY <1>2, <1>3

LEMMA HasPrefix ==
    ASSUME NEW i \in Ins, NEW x \in Seq(Cell), NEW c \in 0 .. Len(x), NEW p \in Nat, Has(x, p, i),
           p + Len(i.enc) - 1 <= c
    PROVE  Has(SubSeq(x, 1, c), p, i)
<1> DEFINE n == Len(i.enc)
           z == SubSeq(x, 1, c)
<1>1. n \in Nat /\ n >= 1
  BY InsLength
<1>2. p >= 1 /\ \A j \in 1 .. n : x[p + j - 1] = [ins |-> i, off |-> j]
  BY DEF Has
<1>3. Len(z) = c /\ \A e \in 1 .. c : z[e] = x[e]
  BY Pieces
<1>4. p + n - 1 <= c /\ c \in Nat
  OBVIOUS
<1> HIDE DEF n, z
<1>5. \A j \in 1 .. n : p + j - 1 \in 1 .. c
  BY <1>1, <1>2, <1>4
<1>6. \A j \in 1 .. n : z[p + j - 1] = [ins |-> i, off |-> j]
  BY <1>2, <1>3, <1>5
<1>. QED  BY <1>2, <1>3, <1>4, <1>6 DEF Has, n, z

LEMMA HasSuffix ==
    ASSUME NEW i \in Ins, NEW x \in Seq(Cell), NEW c \in 0 .. Len(x), NEW p \in Nat, p >= 1,
           Has(x, c + p, i)
    PROVE  Has(SubSeq(x, c + 1, Len(x)), p, i)
<1> DEFINE n == Len(i.enc)
           z == SubSeq(x, c + 1, Len(x))
<1>1. n \in Nat /\ n >= 1
  BY InsLength
<1>2. c + p + n - 1 <= Len(x) /\ \A j \in 1 .. n : x[c + p + j - 1] = [ins |-> i, off |-> j]
  BY DEF Has
<1>3. Len(z) = Len(x) - c /\ \A e \in 1 .. (Len(x) - c) : z[e] = x[c + e]
  BY Pieces
<1>4. Len(x) \in Nat /\ c \in Nat
  OBVIOUS
<1> HIDE DEF n, z
<1>5. \A j \in 1 .. n : p + j - 1 \in 1 .. (Len(x) - c) /\ c + (p + j - 1) = c + p + j - 1
  BY <1>1, <1>2, <1>4
<1>6. \A j \in 1 .. n : z[p + j - 1] = [ins |-> i, off |-> j]
  BY <1>2, <1>3, <1>5
<1>7. p + n - 1 <= Len(z)
  BY <1>1, <1>2, <1>3, <1>4
<1>. QED  BY <1>6, <1>7 DEF Has, n, z

\* Code assembled is its instructions, one after the other.
LEMMA AssembleLaid ==
    ASSUME NEW code \in Seq(Ins)
    PROVE  Assemble(code) \in Seq(Cell) /\ \E off : Laid(code, Assemble(code), off)
<1> DEFINE n == Len(code)
           s == [k \in 1 .. n |-> Cells(code[k])]
           A == Assemble(code)
<1>1. n \in Nat /\ \A k \in 1 .. n : code[k] \in Ins
  OBVIOUS
<1>2. \A k \in 1 .. n : /\ Cells(code[k]) \in Seq(Cell) /\ Len(Cells(code[k])) = Len(code[k].enc)
                        /\ Has(Cells(code[k]), 1, code[k])
                        /\ Len(code[k].enc) \in Nat
  BY <1>1, CellsHas, InsLength
<1>3. A = FlattenSeq(s)
  BY DEF Assemble
<1>4. s \in Seq(Seq(Cell)) /\ Len(s) = n /\ \A k \in 1 .. n : s[k] = Cells(code[k])
  BY <1>1, <1>2
<1> HIDE DEF s, n, A
<1>5. PICK h \in [0 .. n -> Seq(Cell)] : IsFlattened(s, h) /\ A = h[n]
  BY <1>3, <1>4, FlattenSteps
<1>6. h[0] = <<>> /\ \A k \in 1 .. n : h[k] = h[k - 1] \o Cells(code[k])
  BY <1>4, <1>5 DEF IsFlattened
<1>7. \A k \in 0 .. n : h[k] \in Seq(Cell) /\ Len(h[k]) \in Nat
  OBVIOUS
<1> DEFINE off == [k \in 0 .. n |-> Len(h[k])]
           Fine(k) == \A j \in 1 .. k : Has(h[k], off[j - 1] + 1, code[j])
           T == {k \in 0 .. n : Fine(k)}
<1>8. off \in [0 .. n -> Nat] /\ off[0] = 0 /\ off[n] = Len(A)
  BY <1>1, <1>5, <1>6, <1>7
<1>9. ASSUME NEW k \in 1 .. n
      PROVE  /\ k - 1 \in 0 .. n /\ off[k - 1] = Len(h[k - 1]) /\ off[k - 1] \in Nat
             /\ off[k] = off[k - 1] + Len(code[k].enc)
  <2>1. k - 1 \in 0 .. n /\ k \in 0 .. n
    BY <1>1
  <2>2. off[k - 1] = Len(h[k - 1]) /\ off[k] = Len(h[k])
    BY <2>1
  <2>3. h[k] = h[k - 1] \o Cells(code[k]) /\ h[k - 1] \in Seq(Cell) /\ Cells(code[k]) \in Seq(Cell)
    BY <1>2, <1>6, <2>1
  <2>4. Len(h[k]) = Len(h[k - 1]) + Len(Cells(code[k]))
    BY <2>3
  <2>. QED  BY <1>2, <1>7, <2>1, <2>2, <2>4
<1> HIDE DEF off
<1>10. 0 \in T
  BY <1>1
<1>11. ASSUME NEW k \in 1 .. n, k - 1 \in T  PROVE k \in T
  <2>1. ASSUME NEW j \in 1 .. k  PROVE Has(h[k], off[j - 1] + 1, code[j])
    <3>0. j \in 1 .. n
      BY <1>1
    <3>1. /\ h[k] = h[k - 1] \o Cells(code[k]) /\ h[k - 1] \in Seq(Cell) /\ Cells(code[k]) \in Seq(Cell)
          /\ j \in 1 .. n /\ code[j] \in Ins /\ Has(Cells(code[k]), 1, code[k])
      BY <1>1, <1>2, <1>6, <1>7, <1>9, <3>0, Zenon
    <3>2. off[j - 1] \in Nat /\ off[j - 1] + 1 \in Nat
      BY <1>9, <3>1
    <3>3. CASE j = k
      <4>1. Has(h[k - 1] \o Cells(code[k]), Len(h[k - 1]) + 1, code[k])
        BY <3>1, <3>3, HasRight
      <4>. QED  BY <1>9, <3>1, <3>3, <4>1
    <3>4. CASE j # k
      <4>1. j \in 1 .. (k - 1)
        BY <1>1, <3>4
      <4>2. Has(h[k - 1], off[j - 1] + 1, code[j])
        BY <1>11, <4>1
      <4>. QED  BY <3>1, <3>2, <4>2, HasLeft
    <3>. QED  BY <3>3, <3>4
  <2>2. k \in 0 .. n
    BY <1>1
  <2>. QED  BY <2>1, <2>2
<1> HIDE DEF T
<1>12. n \in T
  <2>1. \A k \in 0 .. n : k \in T
    BY <1>1, <1>10, <1>11, IntervalInduction
  <2>. QED  BY <1>1, <2>1
<1>13. Laid(code, A, off)
  <2>1. \A k \in 1 .. n : Has(A, off[k - 1] + 1, code[k])
    BY <1>5, <1>12 DEF T
  <2>. QED  BY <1>8, <1>9, <2>1 DEF Laid, n
<1>14. A \in Seq(Cell)
  BY <1>1, <1>5
<1>. QED  BY <1>13, <1>14 DEF A

\* The code lies in order.
LEMMA LaidMonotone ==
    ASSUME NEW code \in Seq(Ins), NEW cells \in Seq(Cell), NEW off, Laid(code, cells, off)
    PROVE  \A j, k \in 0 .. Len(code) : j <= k => off[j] <= off[k] /\ off[j] + (k - j) <= off[k]
<1> DEFINE n == Len(code)
<1>1. /\ n \in Nat /\ off \in [0 .. n -> Nat]
      /\ \A k \in 1 .. n : code[k] \in Ins /\ off[k] = off[k - 1] + Len(code[k].enc)
  BY DEF Laid
<1> HIDE DEF n
<1>2. \A k \in 1 .. n : off[k] >= off[k - 1] + 1
  <2> TAKE k \in 1 .. n
  <2>1. Len(code[k].enc) \in Nat /\ Len(code[k].enc) >= 1
    BY <1>1, InsLength
  <2>2. k - 1 \in 0 .. n /\ off[k - 1] \in Nat
    BY <1>1
  <2>3. off[k] = off[k - 1] + Len(code[k].enc)
    BY <1>1
  <2> HIDE DEF n
  <2>. QED  BY <2>1, <2>2, <2>3
<1> DEFINE T == {k \in 0 .. n : \A j \in 0 .. k : off[j] + (k - j) <= off[k]}
<1>3. 0 \in T
  <2>1. \A j \in 0 .. 0 : j = 0
    OBVIOUS
  <2>. QED  BY <1>1, <2>1
<1>4. ASSUME NEW k \in 1 .. n, k - 1 \in T  PROVE k \in T
  <2>1. k \in 0 .. n /\ off[k] \in Nat /\ k - 1 \in 0 .. n /\ off[k - 1] \in Nat
    BY <1>1
  <2>2. ASSUME NEW j \in 0 .. k  PROVE off[j] + (k - j) <= off[k]
    <3>1. CASE j = k
      BY <2>1, <3>1
    <3>2. CASE j # k
      <4>1. j \in 0 .. (k - 1) /\ j \in 0 .. n /\ off[j] \in Nat
        BY <1>1, <3>2
      <4>2. off[j] + ((k - 1) - j) <= off[k - 1]
        BY <1>4, <4>1
      <4>. QED  BY <1>2, <2>1, <4>1, <4>2
    <3>. QED  BY <3>1, <3>2
  <2>. QED  BY <2>1, <2>2
<1> HIDE DEF T
<1>5. \A k \in 0 .. n : k \in T
  BY <1>1, <1>3, <1>4, IntervalInduction
<1>6. ASSUME NEW j \in 0 .. n, NEW k \in 0 .. n, j <= k
      PROVE  off[j] <= off[k] /\ off[j] + (k - j) <= off[k]
  <2>1. j \in 0 .. k /\ off[j] \in Nat /\ off[k] \in Nat
    BY <1>1, <1>6
  <2>2. off[j] + (k - j) <= off[k]
    BY <1>5, <2>1 DEF T
  <2>. QED  BY <1>6, <2>1, <2>2
<1>. QED  BY <1>6 DEF n

-----------------------------------------------------------------------------
LEMMA Unused == {} \in Uses
  BY DEF Uses

\* The instructions the patch writes.
LEMMA Written ==
    /\ \A b, a \in Int : MovRax(Addr(b, a)) \in Ins /\ Len(MovRax(Addr(b, a)).enc) = 10
    /\ JmpRax \in Ins /\ Len(JmpRax.enc) = 2
    /\ Nop \in Ins /\ Len(Nop.enc) = 1
    /\ CountEntry \in Ins /\ Len(CountEntry.enc) = 1
<1>1. \A b, a \in Int : MovRax(Addr(b, a)) \in Ins /\ Len(MovRax(Addr(b, a)).enc) = 10
  <2> SUFFICES ASSUME NEW b \in Int, NEW a \in Int
               PROVE  MovRax(Addr(b, a)) \in Ins /\ Len(MovRax(Addr(b, a)).enc) = 10
    OBVIOUS
  <2>1. Addr(b, a) \in Int \X Int
    BY DEF Addr
  <2> DEFINE e == <<72, 184, 0, 0, 0, 0, 0, 0, 0, 0>>
             m == MovRax(Addr(b, a))
  <2>2. e \in Seq(0 .. 255) /\ Len(e) = 10
    <3>1. DOMAIN e = 1 .. 10 /\ \A k \in 1 .. 10 : e[k] \in 0 .. 255
      OBVIOUS
    <3>2. e = [k \in 1 .. 10 |-> e[k]]
      BY <3>1
    <3> HIDE DEF e
    <3>. QED  BY <3>1, <3>2
  <2>3. m.enc = e /\ m.pcrel = FALSE /\ m.op = "movrax" /\ m.arg = Addr(b, a)
        /\ m = [enc |-> e, pcrel |-> FALSE, op |-> "movrax", arg |-> Addr(b, a), uses |-> {}]
    BY DEF MovRax, PatchCode
  <2> HIDE DEF Addr, e, m
  <2>4. m \in [enc : Seq(0 .. 255), pcrel : BOOLEAN,
              op : {"original", "movrax", "jmprax", "nop", "count"},
              arg : Nat \cup {<<>>} \cup (Int \X Int), uses : Uses]
    BY <2>1, <2>2, <2>3, Unused
  <2>5. Len(m.enc) = 10
    <3>1. m.enc = e
      BY <2>3, Zenon
    <3>. QED  BY <2>2, <3>1
  <2>6. m \in Ins
    <3>1. Len(m.enc) > 0
      BY <2>5
    <3>. QED  BY <2>4, <3>1, Zenon DEF Ins
  <2>. QED  BY <2>5, <2>6 DEF m
<1>2. JmpRax \in Ins /\ Len(JmpRax.enc) = 2
  <2> DEFINE e == <<255, 224>>
  <2>1. e \in Seq(0 .. 255) /\ Len(e) = 2
    OBVIOUS
  <2>2. JmpRax = [enc |-> e, pcrel |-> FALSE, op |-> "jmprax", arg |-> <<>>, uses |-> {}]
    BY DEF JmpRax, PatchCode
  <2> HIDE DEF e
  <2>3. JmpRax.enc = e
    BY <2>2
  <2>4. JmpRax \in [enc : Seq(0 .. 255), pcrel : BOOLEAN,
                   op : {"original", "movrax", "jmprax", "nop", "count"},
                   arg : Nat \cup {<<>>} \cup (Int \X Int), uses : Uses]
    BY <2>1, <2>2, Unused
  <2>5. Len(JmpRax.enc) = 2 /\ Len(JmpRax.enc) > 0
    <3> HIDE DEF JmpRax
    <3>1. Len(JmpRax.enc) = 2
      BY <2>1, <2>3, Zenon
    <3>. QED  BY <3>1
  <2>. QED  BY <2>4, <2>5, Zenon DEF Ins
<1>3. Nop \in Ins /\ Len(Nop.enc) = 1
  BY Unused DEF Nop, Ins, PatchCode
<1>4. CountEntry \in Ins /\ Len(CountEntry.enc) = 1
  BY Unused DEF CountEntry, Ins, PatchCode
<1>. QED  BY <1>1, <1>2, <1>3, <1>4

\* A jump through rax to an address.
Jumps(cells, at, addr) == Has(cells, at, MovRax(addr)) /\ Has(cells, at + 10, JmpRax)

LEMMA EmitJumps ==
    ASSUME NEW b \in Int, NEW a \in Int
    PROVE  /\ emit_mov_rax_jmp_rax(Addr(b, a)) \in Seq(Cell)
           /\ Len(emit_mov_rax_jmp_rax(Addr(b, a))) = 12
           /\ Jumps(emit_mov_rax_jmp_rax(Addr(b, a)), 1, Addr(b, a))
<1> DEFINE m == MovRax(Addr(b, a))
           code == <<m, JmpRax>>
           e == emit_mov_rax_jmp_rax(Addr(b, a))
<1>1. m \in Ins /\ Len(m.enc) = 10 /\ JmpRax \in Ins /\ Len(JmpRax.enc) = 2
  BY Written
<1> HIDE DEF m
<1>2. code \in Seq(Ins) /\ Len(code) = 2 /\ code[1] = m /\ code[2] = JmpRax
  BY <1>1
<1>3. e = Assemble(code)
  BY DEF emit_mov_rax_jmp_rax, m
<1> HIDE DEF e, code
<1>4. e \in Seq(Cell)
  BY <1>2, <1>3, AssembleLaid
<1>5. PICK off : Laid(code, e, off)
  BY <1>2, <1>3, AssembleLaid
<1>6. /\ off[0] = 0 /\ off[2] = Len(e)
      /\ \A k \in 1 .. 2 : off[k] = off[k - 1] + Len(code[k].enc) /\ Has(e, off[k - 1] + 1, code[k])
  BY <1>2, <1>5 DEF Laid
<1>7. off[1] = 10 /\ off[2] = 12 /\ Has(e, off[0] + 1, code[1]) /\ Has(e, off[1] + 1, code[2])
  <2>1. off[1] = off[1 - 1] + Len(code[1].enc) /\ Has(e, off[1 - 1] + 1, code[1])
    BY <1>6
  <2>2. off[2] = off[2 - 1] + Len(code[2].enc) /\ Has(e, off[2 - 1] + 1, code[2])
    BY <1>6
  <2>3. Len(code[1].enc) = 10 /\ Len(code[2].enc) = 2 /\ 1 - 1 = 0 /\ 2 - 1 = 1
    BY <1>1, <1>2
  <2>4. off[1] = 10
    BY <1>6, <2>1, <2>3
  <2>5. off[2] = 12
    BY <2>2, <2>3, <2>4
  <2>. QED  BY <2>1, <2>2, <2>3, <2>4, <2>5
<1>8. Has(e, 1, m) /\ Has(e, 11, JmpRax)
  BY <1>2, <1>6, <1>7
<1>. QED  BY <1>4, <1>6, <1>7, <1>8 DEF Jumps, e, m

\* What fills the rest of the overwritten bytes.
LEMMA NopsTyped ==
    ASSUME NEW c \in Nat
    PROVE  /\ Assemble([k \in 1 .. c |-> Nop]) \in Seq(Cell)
           /\ Len(Assemble([k \in 1 .. c |-> Nop])) = c
<1> DEFINE code == [k \in 1 .. c |-> Nop]
           e == Assemble(code)
<1>1. Nop \in Ins /\ Len(Nop.enc) = 1
  BY Written
<1>2. code \in Seq(Ins) /\ Len(code) = c /\ \A k \in 1 .. c : code[k] = Nop
  BY <1>1
<1> HIDE DEF code
<1>3. e \in Seq(Cell)
  BY <1>2, AssembleLaid
<1>4. PICK off : Laid(code, e, off)
  BY <1>2, AssembleLaid
<1> HIDE DEF e
<1>5. /\ off \in [0 .. c -> Nat] /\ off[0] = 0 /\ off[c] = Len(e)
      /\ \A k \in 1 .. c : off[k] = off[k - 1] + 1
  BY <1>1, <1>2, <1>4 DEF Laid
<1> DEFINE T == {k \in 0 .. c : off[k] = k}
<1>6. 0 \in T
  BY <1>5
<1>7. ASSUME NEW k \in 1 .. c, k - 1 \in T  PROVE k \in T
  <2>1. off[k - 1] = k - 1 /\ off[k] = off[k - 1] + 1
    BY <1>5, <1>7
  <2>. QED  BY <2>1
<1> HIDE DEF T
<1>8. \A k \in 0 .. c : k \in T
  BY <1>6, <1>7, IntervalInduction
<1>9. c \in T
  BY <1>8
<1>10. off[c] = c
  BY <1>9 DEF T
<1>. QED  BY <1>3, <1>5, <1>10 DEF e, code

-----------------------------------------------------------------------------
(***************************************************************************)
(* The patch: the way the processor takes.  A stage of a run is the        *)
(* instruction it is at, or a jump through rax taken as one; how many of   *)
(* the target's own instructions it has done, which blocks it has jumped   *)
(* from, how often it has counted, and the steps it has left.              *)
(***************************************************************************)

Stage == [at : Int \X Int, ins : Ins, done : Nat, seen : SUBSET Int, count : Nat, left : Nat]

CodeIn(tgt, hp, b) == IF b = TargetBlock THEN tgt ELSE hp[b]

IsHop(x) == x.ins.op = "movrax"
IsOwn(x) == x.ins.op = "original"
IsMark(x) == x.ins.op = "count"

\* The instruction of a stage is where the stage is.
Fetched(x, tgt, hp, code) ==
    /\ x.at[1] \in {TargetBlock} \cup DOMAIN hp
    /\ Has(CodeIn(tgt, hp, x.at[1]), x.at[2], x.ins)
    /\ IsHop(x) \/ IsOwn(x) \/ IsMark(x)
    /\ IsHop(x) => /\ x.ins.arg \in Int \X Int /\ Len(x.ins.enc) = 10
                   /\ Has(CodeIn(tgt, hp, x.at[1]), x.at[2] + 10, JmpRax)
    /\ IsOwn(x) => /\ x.done < Len(code) /\ x.ins = code[x.done + 1]
                   /\ x.ins.pcrel => x.at[1] = TargetBlock

\* One stage after the other.
LeadsTo(x, y) ==
    /\ y.at = IF IsHop(x) THEN x.ins.arg ELSE <<x.at[1], x.at[2] + Len(x.ins.enc)>>
    /\ y.done = IF IsOwn(x) THEN x.done + 1 ELSE x.done
    /\ y.seen = IF IsHop(x) THEN x.seen \cup {x.at[1]} ELSE x.seen
    /\ y.count = IF IsMark(x) THEN x.count + 1 ELSE x.count
    /\ x.left = IF IsHop(x) THEN y.left + 2 ELSE y.left + 1

\* Behind the target's code, with all of it done and every block used.
Arrived(x, tgt, hp, code, mk) ==
    /\ x.at = <<TargetBlock, Len(tgt) + 1>> /\ x.done = Len(code)
    /\ x.seen \ {TargetBlock} = DOMAIN hp
    /\ mk => x.count >= 1

Starts(x, top) ==
    x.at = <<TargetBlock, 1>> /\ x.done = 0 /\ x.seen = {} /\ x.count = 0 /\ x.left <= top

GoesOn(x, Q) == \E y \in Q : LeadsTo(x, y)

Path(Q, tgt, hp, code, mk, top) ==
    /\ Q \subseteq Stage
    /\ \E x \in Q : Starts(x, top)
    /\ \A x \in Q : x.left = 0 => Arrived(x, tgt, hp, code, mk)
    /\ \A x \in Q : x.left # 0 => Fetched(x, tgt, hp, code) /\ GoesOn(x, Q)

-----------------------------------------------------------------------------
\* The stages an attempt moves away from the target.
Early(x, cut) == x.at[1] = TargetBlock /\ x.at[2] <= cut

Cuttable(Q, cut, b) ==
    /\ cut \in Nat /\ cut >= 12 /\ b \in {0, 2}
    /\ \A x \in Q : Early(x, cut) =>
          /\ x.left # 0 /\ x.seen = {} /\ ~x.ins.pcrel
          /\ IsHop(x) => b = 0 /\ x.at[2] + 11 <= cut
          /\ ~IsHop(x) => b = 2 /\ x.at[2] + Len(x.ins.enc) - 1 <= cut
    /\ \A x \in Q, y \in Q : LeadsTo(x, y) /\ (~Early(x, cut) \/ IsHop(x)) => ~Early(y, cut)

\* What an attempt that succeeds makes of the memory.
Patches(tgt, hp, tgt2, hp2, cut, tr, gw, c) ==
    /\ tgt \in Seq(Cell) /\ tgt2 \in Seq(Cell) /\ Len(tgt2) = Len(tgt) /\ cut <= Len(tgt)
    /\ Jumps(tgt2, 1, Addr(gw, 1))
    /\ \A i \in Ins, p \in Nat : p > cut /\ Has(tgt, p, i) => Has(tgt2, p, i)
    /\ tr \in Nat /\ gw \in Nat /\ tr # gw /\ tr \notin DOMAIN hp /\ gw \notin DOMAIN hp
    /\ DOMAIN hp2 = DOMAIN hp \cup {tr, gw}
    /\ \A b \in DOMAIN hp : hp2[b] = hp[b]
    /\ \A i \in Ins, p \in Nat : p + Len(i.enc) - 1 <= cut /\ Has(tgt, p, i) => Has(hp2[tr], p, i)
    /\ Jumps(hp2[tr], cut + 1, Addr(TargetBlock, cut + 1))
    /\ c \in {0, 1} /\ (c = 1 => Has(hp2[gw], 1, CountEntry))
    /\ Jumps(hp2[gw], 1 + c, Addr(tr, 1))

Moved(x, tr, gw, c, b) ==
    [at |-> <<tr, x.at[2]>>, ins |-> x.ins, done |-> x.done, seen |-> {TargetBlock, gw},
     count |-> x.count + c, left |-> x.left + b]
Remaining(x, tr, gw, c) ==
    [at |-> x.at, ins |-> x.ins, done |-> x.done, seen |-> x.seen \cup {TargetBlock, gw, tr},
     count |-> x.count + c, left |-> x.left]
Return(y, cut, tr, gw, c) ==
    [at |-> <<tr, cut + 1>>, ins |-> MovRax(Addr(TargetBlock, cut + 1)), done |-> y.done,
     seen |-> y.seen \cup {TargetBlock, gw}, count |-> y.count + c, left |-> y.left + 2]
Entry(gw, c, l) ==
    [at |-> <<TargetBlock, 1>>, ins |-> MovRax(Addr(gw, 1)), done |-> 0, seen |-> {},
     count |-> 0, left |-> l + 4 + c]
Mark(gw, l) ==
    [at |-> <<gw, 1>>, ins |-> CountEntry, done |-> 0, seen |-> {TargetBlock},
     count |-> 0, left |-> l + 3]
Forward(tr, gw, c, l) ==
    [at |-> <<gw, 1 + c>>, ins |-> MovRax(Addr(tr, 1)), done |-> 0, seen |-> {TargetBlock},
     count |-> c, left |-> l + 2]

Rerouted(Q, cut, tr, gw, c, b, l) ==
    {Moved(x, tr, gw, c, b) : x \in {z \in Q : Early(z, cut)}}
      \cup {Remaining(x, tr, gw, c) : x \in {z \in Q : ~Early(z, cut)}}
      \cup {Return(y, cut, tr, gw, c) : y \in {z \in Q : b = 2 /\ z.at = <<TargetBlock, cut + 1>>}}
      \cup {Entry(gw, c, l), Forward(tr, gw, c, l)}
      \cup (IF c = 1 THEN {Mark(gw, l)} ELSE {})

LEMMA StageFields ==
    ASSUME NEW x \in Stage
    PROVE  /\ x.at \in Int \X Int /\ x.at[1] \in Int /\ x.at[2] \in Int /\ x.at = <<x.at[1], x.at[2]>>
           /\ x.ins \in Ins /\ x.done \in Nat /\ x.seen \in SUBSET Int /\ x.count \in Nat
           /\ x.left \in Nat /\ Len(x.ins.enc) \in Nat /\ Len(x.ins.enc) >= 1
<1>1. x.at \in Int \X Int /\ x.ins \in Ins /\ x.done \in Nat /\ x.seen \in SUBSET Int
      /\ x.count \in Nat /\ x.left \in Nat
  BY DEF Stage
<1>2. Len(x.ins.enc) \in Nat /\ Len(x.ins.enc) >= 1
  BY <1>1, InsLength
<1>. QED  BY <1>1, <1>2

\* The moved stages follow each other as before.
LEMMA MovedLeads ==
    ASSUME NEW x \in Stage, NEW y \in Stage, LeadsTo(x, y), NEW cut \in Nat, NEW tr \in Nat, NEW gw \in Nat,
           NEW c \in {0, 1}, NEW b \in {0, 2}, Early(x, cut), Early(y, cut), ~IsHop(x)
    PROVE  LeadsTo(Moved(x, tr, gw, c, b), Moved(y, tr, gw, c, b))
<1> DEFINE u == Moved(x, tr, gw, c, b)
           v == Moved(y, tr, gw, c, b)
<1>1. /\ u.at = <<tr, x.at[2]>> /\ u.ins = x.ins /\ u.done = x.done /\ u.seen = {TargetBlock, gw}
      /\ u.count = x.count + c /\ u.left = x.left + b
      /\ v.at = <<tr, y.at[2]>> /\ v.ins = y.ins /\ v.done = y.done /\ v.seen = {TargetBlock, gw}
      /\ v.count = y.count + c /\ v.left = y.left + b
  BY DEF Moved
<1>2. (IsHop(u) <=> IsHop(x)) /\ (IsOwn(u) <=> IsOwn(x)) /\ (IsMark(u) <=> IsMark(x))
  BY <1>1 DEF IsHop, IsOwn, IsMark
<1> HIDE DEF u, v
<1>3. y.at = <<x.at[1], x.at[2] + Len(x.ins.enc)>> /\ y.done = (IF IsOwn(x) THEN x.done + 1 ELSE x.done)
      /\ y.count = (IF IsMark(x) THEN x.count + 1 ELSE x.count) /\ x.left = y.left + 1
  BY DEF LeadsTo
<1>4. u.at[1] = tr /\ u.at[2] = x.at[2] /\ y.at[2] = x.at[2] + Len(x.ins.enc)
  BY <1>1, <1>3
<1>5. v.at = <<u.at[1], u.at[2] + Len(u.ins.enc)>>
  BY <1>1, <1>4
<1>6. v.count = IF IsMark(u) THEN u.count + 1 ELSE u.count
  BY <1>1, <1>2, <1>3, StageFields
<1>7. u.left = v.left + 1
  BY <1>1, <1>3, StageFields
<1>8. v.done = (IF IsOwn(u) THEN u.done + 1 ELSE u.done) /\ v.seen = u.seen
  BY <1>1, <1>2, <1>3
<1>. QED  BY <1>2, <1>5, <1>6, <1>7, <1>8 DEF LeadsTo, u, v

\* And so do those that stay.
LEMMA KeptLeads ==
    ASSUME NEW x \in Stage, NEW y \in Stage, LeadsTo(x, y), NEW tr \in Nat, NEW gw \in Nat, NEW c \in {0, 1}
    PROVE  LeadsTo(Remaining(x, tr, gw, c), Remaining(y, tr, gw, c))
<1> DEFINE u == Remaining(x, tr, gw, c)
           v == Remaining(y, tr, gw, c)
           D == {TargetBlock, gw, tr}
<1>1. /\ u.at = x.at /\ u.ins = x.ins /\ u.done = x.done /\ u.seen = x.seen \cup D
      /\ u.count = x.count + c /\ u.left = x.left
      /\ v.at = y.at /\ v.ins = y.ins /\ v.done = y.done /\ v.seen = y.seen \cup D
      /\ v.count = y.count + c /\ v.left = y.left
  BY DEF Remaining
<1>2. (IsHop(u) <=> IsHop(x)) /\ (IsOwn(u) <=> IsOwn(x)) /\ (IsMark(u) <=> IsMark(x))
  BY <1>1 DEF IsHop, IsOwn, IsMark
<1> HIDE DEF u, v, D
<1>3. v.at = IF IsHop(u) THEN u.ins.arg ELSE <<u.at[1], u.at[2] + Len(u.ins.enc)>>
  BY <1>1, <1>2 DEF LeadsTo
<1>4. v.done = IF IsOwn(u) THEN u.done + 1 ELSE u.done
  BY <1>1, <1>2 DEF LeadsTo
<1>5. v.seen = IF IsHop(u) THEN u.seen \cup {u.at[1]} ELSE u.seen
  <2>1. y.seen = IF IsHop(x) THEN x.seen \cup {x.at[1]} ELSE x.seen
    BY DEF LeadsTo
  <2>. QED  BY <1>1, <1>2, <2>1
<1>6. v.count = IF IsMark(u) THEN u.count + 1 ELSE u.count
  <2>1. y.count = IF IsMark(x) THEN x.count + 1 ELSE x.count
    BY DEF LeadsTo
  <2>. QED  BY <1>1, <1>2, <2>1, StageFields
<1>7. u.left = IF IsHop(u) THEN v.left + 2 ELSE v.left + 1
  BY <1>1, <1>2 DEF LeadsTo
<1>. QED  BY <1>3, <1>4, <1>5, <1>6, <1>7 DEF LeadsTo, u, v

\* An earlier patch's jump, moved, still leads where it led.
LEMMA MovedHopLeads ==
    ASSUME NEW x \in Stage, NEW y \in Stage, LeadsTo(x, y), NEW tr \in Nat, NEW gw \in Nat,
           NEW c \in {0, 1}, IsHop(x), x.seen = {}, x.at[1] = TargetBlock
    PROVE  LeadsTo(Moved(x, tr, gw, c, 0), Remaining(y, tr, gw, c))
<1> DEFINE u == Moved(x, tr, gw, c, 0)
           v == Remaining(y, tr, gw, c)
<1>1. /\ u.at = <<tr, x.at[2]>> /\ u.ins = x.ins /\ u.done = x.done /\ u.seen = {TargetBlock, gw}
      /\ u.count = x.count + c /\ u.left = x.left + 0
      /\ v.at = y.at /\ v.done = y.done /\ v.seen = y.seen \cup {TargetBlock, gw, tr}
      /\ v.count = y.count + c /\ v.left = y.left
  BY DEF Moved, Remaining
<1>2. IsHop(u) /\ ~IsOwn(u) /\ ~IsMark(u) /\ ~IsOwn(x) /\ ~IsMark(x)
  BY <1>1 DEF IsHop, IsOwn, IsMark
<1> HIDE DEF u, v
<1>3. /\ y.at = x.ins.arg /\ y.done = x.done /\ y.seen = {TargetBlock}
      /\ y.count = x.count /\ x.left = y.left + 2
  BY <1>2 DEF LeadsTo
<1>4. u.at[1] = tr
  BY <1>1
<1>5. v.seen = u.seen \cup {u.at[1]}
  BY <1>1, <1>3, <1>4
<1>6. u.left = v.left + 2
  BY <1>1, <1>3, StageFields
<1>7. v.count = u.count
  BY <1>1, <1>3
<1>. QED  BY <1>1, <1>2, <1>3, <1>5, <1>6, <1>7 DEF LeadsTo, u, v

\* The last moved instruction leads to the jump back, ...
LEMMA MovedOutLeads ==
    ASSUME NEW x \in Stage, NEW y \in Stage, LeadsTo(x, y), NEW tr \in Nat, NEW gw \in Nat,
           NEW c \in {0, 1}, NEW cut \in Nat, ~IsHop(x), x.seen = {}, y.at = <<TargetBlock, cut + 1>>
    PROVE  LeadsTo(Moved(x, tr, gw, c, 2), Return(y, cut, tr, gw, c))
<1> DEFINE u == Moved(x, tr, gw, c, 2)
           v == Return(y, cut, tr, gw, c)
<1>1. /\ u.at = <<tr, x.at[2]>> /\ u.ins = x.ins /\ u.done = x.done /\ u.seen = {TargetBlock, gw}
      /\ u.count = x.count + c /\ u.left = x.left + 2
      /\ v.at = <<tr, cut + 1>> /\ v.done = y.done /\ v.seen = y.seen \cup {TargetBlock, gw}
      /\ v.count = y.count + c /\ v.left = y.left + 2
  BY DEF Moved, Return
<1>2. ~IsHop(u) /\ (IsOwn(u) <=> IsOwn(x)) /\ (IsMark(u) <=> IsMark(x))
  BY <1>1 DEF IsHop, IsOwn, IsMark
<1> HIDE DEF u, v
<1>3. /\ y.at = <<x.at[1], x.at[2] + Len(x.ins.enc)>> /\ y.seen = {}
      /\ y.done = (IF IsOwn(x) THEN x.done + 1 ELSE x.done)
      /\ y.count = (IF IsMark(x) THEN x.count + 1 ELSE x.count) /\ x.left = y.left + 1
  BY DEF LeadsTo
<1>4. u.at[1] = tr /\ u.at[2] = x.at[2] /\ cut + 1 = x.at[2] + Len(x.ins.enc)
  BY <1>1, <1>3
<1>5. v.at = <<u.at[1], u.at[2] + Len(u.ins.enc)>>
  BY <1>1, <1>4
<1>6. v.count = IF IsMark(u) THEN u.count + 1 ELSE u.count
  BY <1>1, <1>2, <1>3, StageFields
<1>7. u.left = v.left + 1
  BY <1>1, <1>3, StageFields
<1>8. v.done = (IF IsOwn(u) THEN u.done + 1 ELSE u.done) /\ v.seen = u.seen
  BY <1>1, <1>2, <1>3
<1>. QED  BY <1>2, <1>5, <1>6, <1>7, <1>8 DEF LeadsTo, u, v

\* ... and that to the instruction behind them.
LEMMA ReturnLeads ==
    ASSUME NEW y \in Stage, NEW tr \in Nat, NEW gw \in Nat, NEW c \in {0, 1}, NEW cut \in Nat,
           y.at = <<TargetBlock, cut + 1>>
    PROVE  LeadsTo(Return(y, cut, tr, gw, c), Remaining(y, tr, gw, c))
<1> DEFINE u == Return(y, cut, tr, gw, c)
           v == Remaining(y, tr, gw, c)
<1>1. /\ u.at = <<tr, cut + 1>> /\ u.ins = MovRax(Addr(TargetBlock, cut + 1))
      /\ u.done = y.done /\ u.seen = y.seen \cup {TargetBlock, gw}
      /\ u.count = y.count + c /\ u.left = y.left + 2
      /\ v.at = y.at /\ v.done = y.done /\ v.seen = y.seen \cup {TargetBlock, gw, tr}
      /\ v.count = y.count + c /\ v.left = y.left
  BY DEF Return, Remaining
<1>2. u.ins.op = "movrax" /\ u.ins.arg = <<TargetBlock, cut + 1>>
  BY <1>1 DEF MovRax, Addr, PatchCode
<1>3. IsHop(u) /\ ~IsOwn(u) /\ ~IsMark(u)
  BY <1>2 DEF IsHop, IsOwn, IsMark
<1> HIDE DEF u, v
<1>4. v.seen = u.seen \cup {u.at[1]}
  BY <1>1
<1>. QED  BY <1>1, <1>2, <1>3, <1>4 DEF LeadsTo, u, v

\* The jump written over the target leads to the gateway, ...
LEMMA EntryLeads ==
    ASSUME NEW tr \in Nat, NEW gw \in Nat, NEW c \in {0, 1}, NEW l \in Nat
    PROVE  /\ c = 0 => LeadsTo(Entry(gw, c, l), Forward(tr, gw, c, l))
           /\ c = 1 => LeadsTo(Entry(gw, c, l), Mark(gw, l)) /\ LeadsTo(Mark(gw, l), Forward(tr, gw, c, l))
<1> DEFINE u == Entry(gw, c, l)
           w == Mark(gw, l)
           v == Forward(tr, gw, c, l)
<1>1. /\ u.at = <<TargetBlock, 1>> /\ u.done = 0 /\ u.seen = {} /\ u.count = 0 /\ u.left = l + 4 + c
      /\ w.at = <<gw, 1>> /\ w.done = 0 /\ w.seen = {TargetBlock} /\ w.count = 0 /\ w.left = l + 3
      /\ v.at = <<gw, 1 + c>> /\ v.done = 0 /\ v.seen = {TargetBlock} /\ v.count = c /\ v.left = l + 2
  BY DEF Entry, Mark, Forward
<1>2. u.ins.op = "movrax" /\ u.ins.arg = <<gw, 1>> /\ w.ins.op = "count" /\ Len(w.ins.enc) = 1
  BY Written DEF Entry, Mark, MovRax, Addr, CountEntry, PatchCode
<1>3. IsHop(u) /\ ~IsOwn(u) /\ ~IsMark(u) /\ ~IsHop(w) /\ ~IsOwn(w) /\ IsMark(w)
  BY <1>2 DEF IsHop, IsOwn, IsMark
<1> HIDE DEF u, v, w
<1>4. ASSUME c = 0  PROVE LeadsTo(u, v)
  <2>1. u.left = v.left + 2 /\ v.at = u.ins.arg /\ v.done = u.done /\ v.count = u.count
    BY <1>1, <1>2, <1>4
  <2>2. v.seen = u.seen \cup {u.at[1]}
    BY <1>1
  <2>. QED  BY <1>3, <2>1, <2>2 DEF LeadsTo
<1>5. ASSUME c = 1  PROVE LeadsTo(u, w)
  <2>1. u.left = w.left + 2 /\ w.at = u.ins.arg /\ w.done = u.done /\ w.count = u.count
    BY <1>1, <1>2, <1>5
  <2>2. w.seen = u.seen \cup {u.at[1]}
    BY <1>1
  <2>. QED  BY <1>3, <2>1, <2>2 DEF LeadsTo
<1>6. ASSUME c = 1  PROVE LeadsTo(w, v)
  <2>1. w.left = v.left + 1 /\ v.done = w.done /\ v.count = w.count + 1 /\ v.seen = w.seen
    BY <1>1, <1>6
  <2>2. v.at = <<w.at[1], w.at[2] + Len(w.ins.enc)>>
    BY <1>1, <1>2, <1>6
  <2>. QED  BY <1>3, <2>1, <2>2 DEF LeadsTo
<1>. QED  BY <1>4, <1>5, <1>6 DEF u, v, w

\* ... and the gateway to the trampoline.
LEMMA ForwardLeads ==
    ASSUME NEW x \in Stage, NEW top, Starts(x, top), NEW tr \in Nat, NEW gw \in Nat, NEW c \in {0, 1},
           NEW b \in {0, 2}
    PROVE  LeadsTo(Forward(tr, gw, c, x.left + b), Moved(x, tr, gw, c, b))
<1> DEFINE u == Forward(tr, gw, c, x.left + b)
           v == Moved(x, tr, gw, c, b)
<1>1. /\ u.at = <<gw, 1 + c>> /\ u.done = 0 /\ u.seen = {TargetBlock} /\ u.count = c
      /\ u.left = (x.left + b) + 2
      /\ v.at = <<tr, x.at[2]>> /\ v.done = x.done /\ v.seen = {TargetBlock, gw}
      /\ v.count = x.count + c /\ v.left = x.left + b
  BY DEF Forward, Moved
<1>2. u.ins.op = "movrax" /\ u.ins.arg = <<tr, 1>>
  BY DEF Forward, MovRax, Addr, PatchCode
<1>3. IsHop(u) /\ ~IsOwn(u) /\ ~IsMark(u)
  BY <1>2 DEF IsHop, IsOwn, IsMark
<1> HIDE DEF u, v
<1>4. x.at[2] = 1 /\ x.done = 0 /\ x.count = 0
  BY DEF Starts
<1>5. v.seen = u.seen \cup {u.at[1]}
  BY <1>1
<1>. QED  BY <1>1, <1>2, <1>3, <1>4, <1>5 DEF LeadsTo, u, v

-----------------------------------------------------------------------------
\* All of them are stages.
LEMMA ReroutedStages ==
    ASSUME NEW x \in Stage, NEW cut \in Nat, NEW tr \in Nat, NEW gw \in Nat, NEW c \in {0, 1},
           NEW b \in {0, 2}, NEW l \in Nat
    PROVE  /\ Moved(x, tr, gw, c, b) \in Stage /\ Remaining(x, tr, gw, c) \in Stage
           /\ Return(x, cut, tr, gw, c) \in Stage
           /\ Entry(gw, c, l) \in Stage /\ Forward(tr, gw, c, l) \in Stage /\ Mark(gw, l) \in Stage
<1>1. TargetBlock \in Int /\ tr \in Int /\ gw \in Int /\ cut + 1 \in Int /\ c \in Nat /\ b \in Nat
      /\ 1 + c \in Int
  BY DEF TargetBlock
<1>2. x.at[2] \in Int /\ x.at \in Int \X Int /\ x.ins \in Ins /\ x.done \in Nat
      /\ x.seen \in SUBSET Int /\ x.count \in Nat /\ x.left \in Nat
  BY StageFields
<1>3. /\ x.count + c \in Nat /\ x.left + b \in Nat /\ x.left + 2 \in Nat
      /\ l + 4 + c \in Nat /\ l + 3 \in Nat /\ l + 2 \in Nat
  BY <1>1, <1>2
<1>4. /\ x.seen \cup {TargetBlock, gw, tr} \in SUBSET Int
      /\ x.seen \cup {TargetBlock, gw} \in SUBSET Int
      /\ {TargetBlock, gw} \in SUBSET Int /\ {TargetBlock} \in SUBSET Int /\ {} \in SUBSET Int
  BY <1>1, <1>2
<1>5. /\ MovRax(Addr(TargetBlock, cut + 1)) \in Ins /\ MovRax(Addr(gw, 1)) \in Ins
      /\ MovRax(Addr(tr, 1)) \in Ins /\ CountEntry \in Ins
  BY <1>1, Written
<1> HIDE DEF TargetBlock, Addr
<1>6. Moved(x, tr, gw, c, b) \in Stage
  BY <1>1, <1>2, <1>3, <1>4 DEF Moved, Stage
<1>7. Remaining(x, tr, gw, c) \in Stage
  BY <1>1, <1>2, <1>3, <1>4 DEF Remaining, Stage
<1>8. Return(x, cut, tr, gw, c) \in Stage
  BY <1>1, <1>2, <1>3, <1>4, <1>5 DEF Return, Stage
<1>9. Entry(gw, c, l) \in Stage
  BY <1>1, <1>3, <1>4, <1>5 DEF Entry, Stage
<1>10. Forward(tr, gw, c, l) \in Stage
  BY <1>1, <1>3, <1>4, <1>5 DEF Forward, Stage
<1>11. Mark(gw, l) \in Stage
  BY <1>1, <1>3, <1>4, <1>5 DEF Mark, Stage
<1>. QED  BY <1>6, <1>7, <1>8, <1>9, <1>10, <1>11

\* Moved code is found where it was moved to, ...
LEMMA MovedFetched ==
    ASSUME NEW tgt, NEW hp, NEW tgt2, NEW hp2, NEW cut \in Nat, NEW tr, NEW gw, NEW c, NEW b, NEW code,
           Patches(tgt, hp, tgt2, hp2, cut, tr, gw, c),
           NEW x \in Stage, Early(x, cut), Fetched(x, tgt, hp, code), ~x.ins.pcrel,
           IsHop(x) => x.at[2] + 11 <= cut,
           ~IsHop(x) => x.at[2] + Len(x.ins.enc) - 1 <= cut
    PROVE  Fetched(Moved(x, tr, gw, c, b), tgt2, hp2, code)
<1> DEFINE u == Moved(x, tr, gw, c, b)
<1>1. u.at[1] = tr /\ u.at[2] = x.at[2] /\ u.ins = x.ins /\ u.done = x.done
  BY DEF Moved
<1>2. (IsHop(u) <=> IsHop(x)) /\ (IsOwn(u) <=> IsOwn(x)) /\ (IsMark(u) <=> IsMark(x))
  BY <1>1 DEF IsHop, IsOwn, IsMark
<1> HIDE DEF u
<1>3. /\ tr \in DOMAIN hp2 /\ tr # TargetBlock
      /\ \A i \in Ins, p \in Nat : p + Len(i.enc) - 1 <= cut /\ Has(tgt, p, i) => Has(hp2[tr], p, i)
  BY DEF Patches, TargetBlock
<1>4. CodeIn(tgt2, hp2, u.at[1]) = hp2[tr] /\ CodeIn(tgt, hp, x.at[1]) = tgt
  BY <1>1, <1>3 DEF CodeIn, Early
<1>5. Has(tgt, x.at[2], x.ins) /\ x.at[2] \in Nat /\ x.ins \in Ins
  BY <1>4, StageFields DEF Fetched, Has
<1>6. IsHop(x) => Has(tgt, x.at[2] + 10, JmpRax) /\ Len(x.ins.enc) = 10 /\ x.ins.arg \in Int \X Int
  BY <1>4 DEF Fetched
<1>7. Has(hp2[tr], x.at[2], x.ins)
  <2>1. x.at[2] + Len(x.ins.enc) - 1 <= cut
    <3>1. CASE IsHop(x)
      <4>1. x.at[2] + 11 <= cut /\ Len(x.ins.enc) = 10 /\ x.at[2] \in Nat
        BY <1>5, <1>6, <3>1, Zenon
      <4>. QED  BY <4>1
    <3>2. CASE ~IsHop(x)
      BY <3>2
    <3>. QED  BY <3>1, <3>2
  <2>. QED  BY <1>3, <1>5, <2>1
<1>8. IsHop(x) => Has(hp2[tr], x.at[2] + 10, JmpRax)
  <2> HAVE IsHop(x)
  <2>1. (x.at[2] + 10) + Len(JmpRax.enc) - 1 <= cut /\ x.at[2] + 10 \in Nat /\ JmpRax \in Ins
    BY <1>5, Written
  <2>. QED  BY <1>3, <1>6, <2>1
<1>9. IsHop(x) \/ IsOwn(x) \/ IsMark(x)
  BY DEF Fetched
<1>10. IsOwn(x) => x.done < Len(code) /\ x.ins = code[x.done + 1]
  BY DEF Fetched
<1>11. u.at[1] \in {TargetBlock} \cup DOMAIN hp2
  BY <1>1, <1>3
<1>12. Has(CodeIn(tgt2, hp2, u.at[1]), u.at[2], u.ins)
  BY <1>1, <1>4, <1>7
<1>13. IsHop(u) => /\ u.ins.arg \in Int \X Int /\ Len(u.ins.enc) = 10
                   /\ Has(CodeIn(tgt2, hp2, u.at[1]), u.at[2] + 10, JmpRax)
  BY <1>1, <1>2, <1>4, <1>6, <1>8
<1>14. IsOwn(u) => /\ u.done < Len(code) /\ u.ins = code[u.done + 1]
                   /\ u.ins.pcrel => u.at[1] = TargetBlock
  <2>1. ~u.ins.pcrel
    BY <1>1, Zenon
  <2>. QED  BY <1>1, <1>2, <1>10, <2>1, Zenon
<1>. QED  BY <1>2, <1>9, <1>11, <1>12, <1>13, <1>14, Zenon DEF Fetched, u

\* ... and the other code where it was.
LEMMA KeptFetched ==
    ASSUME NEW tgt, NEW hp, NEW tgt2, NEW hp2, NEW cut \in Nat, NEW tr, NEW gw, NEW c, NEW code,
           Patches(tgt, hp, tgt2, hp2, cut, tr, gw, c),
           NEW x \in Stage, ~Early(x, cut), Fetched(x, tgt, hp, code)
    PROVE  Fetched(Remaining(x, tr, gw, c), tgt2, hp2, code)
<1> DEFINE u == Remaining(x, tr, gw, c)
           old == CodeIn(tgt, hp, x.at[1])
           new == CodeIn(tgt2, hp2, x.at[1])
<1>1. u.at = x.at /\ u.ins = x.ins /\ u.done = x.done
  BY DEF Remaining
<1>2. (IsHop(u) <=> IsHop(x)) /\ (IsOwn(u) <=> IsOwn(x)) /\ (IsMark(u) <=> IsMark(x))
  BY <1>1 DEF IsHop, IsOwn, IsMark
<1> HIDE DEF u
<1>3. /\ x.at[1] \in {TargetBlock} \cup DOMAIN hp /\ Has(old, x.at[2], x.ins)
      /\ IsHop(x) \/ IsOwn(x) \/ IsMark(x)
      /\ IsHop(x) => x.ins.arg \in Int \X Int /\ Len(x.ins.enc) = 10 /\ Has(old, x.at[2] + 10, JmpRax)
      /\ IsOwn(x) => /\ x.done < Len(code) /\ x.ins = code[x.done + 1]
                     /\ x.ins.pcrel => x.at[1] = TargetBlock
  BY DEF Fetched
<1>4. /\ DOMAIN hp2 = DOMAIN hp \cup {tr, gw} /\ \A d \in DOMAIN hp : hp2[d] = hp[d]
      /\ \A i \in Ins, p \in Nat : p > cut /\ Has(tgt, p, i) => Has(tgt2, p, i)
  BY DEF Patches
<1>5. x.at[2] \in Nat /\ x.ins \in Ins /\ JmpRax \in Ins
  BY <1>3, StageFields, Written DEF Has
<1>6. Has(new, x.at[2], x.ins) /\ (IsHop(x) => Has(new, x.at[2] + 10, JmpRax))
  <2>1. CASE x.at[1] = TargetBlock
    <3>1. old = tgt /\ new = tgt2
      BY <2>1 DEF CodeIn
    <3>2. x.at[2] > cut /\ x.at[2] + 10 > cut /\ x.at[2] + 10 \in Nat
      BY <1>5, <2>1 DEF Early
    <3> HIDE DEF old, new
    <3>. QED  BY <1>3, <1>4, <1>5, <3>1, <3>2
  <2>2. CASE x.at[1] # TargetBlock
    <3>1. old = new
      BY <1>3, <1>4, <2>2 DEF CodeIn
    <3> HIDE DEF old, new
    <3>. QED  BY <1>3, <3>1
  <2>. QED  BY <2>1, <2>2
<1>7. u.at[1] \in {TargetBlock} \cup DOMAIN hp2
  BY <1>1, <1>3, <1>4
<1> HIDE DEF old
<1>8. CodeIn(tgt2, hp2, u.at[1]) = new
  BY <1>1
<1> HIDE DEF new
<1>. QED  BY <1>1, <1>2, <1>3, <1>6, <1>7, <1>8, Zenon DEF Fetched, u

\* The jump back, the jump over the target and the gateway are where they
\* are written.
LEMMA WrittenFetched ==
    ASSUME NEW tgt, NEW hp, NEW tgt2, NEW hp2, NEW cut \in Nat, NEW tr, NEW gw, NEW c, NEW code, NEW y, NEW l,
           Patches(tgt, hp, tgt2, hp2, cut, tr, gw, c)
    PROVE  /\ Fetched(Return(y, cut, tr, gw, c), tgt2, hp2, code)
           /\ Fetched(Entry(gw, c, l), tgt2, hp2, code)
           /\ Fetched(Forward(tr, gw, c, l), tgt2, hp2, code)
           /\ c = 1 => Fetched(Mark(gw, l), tgt2, hp2, code)
<1>1. /\ tr \in DOMAIN hp2 /\ gw \in DOMAIN hp2 /\ tr # TargetBlock /\ gw # TargetBlock
      /\ tr \in Int /\ gw \in Int /\ TargetBlock \in Int /\ cut + 1 \in Int
      /\ Jumps(tgt2, 1, Addr(gw, 1)) /\ Jumps(hp2[tr], cut + 1, Addr(TargetBlock, cut + 1))
      /\ Jumps(hp2[gw], 1 + c, Addr(tr, 1)) /\ (c = 1 => Has(hp2[gw], 1, CountEntry))
  BY DEF Patches, TargetBlock
<1>2. CodeIn(tgt2, hp2, TargetBlock) = tgt2 /\ CodeIn(tgt2, hp2, tr) = hp2[tr]
      /\ CodeIn(tgt2, hp2, gw) = hp2[gw]
  BY <1>1 DEF CodeIn
<1>3. ASSUME NEW v, NEW d \in Int, NEW a \in Int, NEW e, NEW p, v.at = <<e, p>>, v.ins = MovRax(Addr(d, a)),
             e \in {TargetBlock} \cup DOMAIN hp2, Jumps(CodeIn(tgt2, hp2, e), p, Addr(d, a))
      PROVE  Fetched(v, tgt2, hp2, code)
  <2>1. v.ins.op = "movrax" /\ v.ins.arg = Addr(d, a)
    BY <1>3 DEF MovRax, PatchCode
  <2>2. Addr(d, a) \in Int \X Int
    BY <1>3 DEF Addr
  <2>3. Len(v.ins.enc) = 10
    BY <1>3, Written
  <2>4. v.at[1] = e /\ v.at[2] = p
    BY <1>3
  <2>5. IsHop(v) /\ ~IsOwn(v)
    BY <2>1 DEF IsHop, IsOwn
  <2>. QED  BY <1>3, <2>1, <2>2, <2>3, <2>4, <2>5 DEF Fetched, Jumps
<1>4. Fetched(Return(y, cut, tr, gw, c), tgt2, hp2, code)
  <2> DEFINE v == Return(y, cut, tr, gw, c)
  <2>1. v.at = <<tr, cut + 1>> /\ v.ins = MovRax(Addr(TargetBlock, cut + 1))
    BY DEF Return
  <2> HIDE DEF v
  <2>2. Jumps(CodeIn(tgt2, hp2, tr), cut + 1, Addr(TargetBlock, cut + 1))
    BY <1>1, <1>2
  <2>3. Fetched(v, tgt2, hp2, code)
    BY <1>1, <1>3, <2>1, <2>2
  <2>. QED  BY <2>3 DEF v
<1>5. Fetched(Entry(gw, c, l), tgt2, hp2, code)
  <2> DEFINE v == Entry(gw, c, l)
  <2>1. v.at = <<TargetBlock, 1>> /\ v.ins = MovRax(Addr(gw, 1)) /\ 1 \in Int
    BY DEF Entry
  <2> HIDE DEF v
  <2>2. Jumps(CodeIn(tgt2, hp2, TargetBlock), 1, Addr(gw, 1))
    BY <1>1, <1>2
  <2>3. Fetched(v, tgt2, hp2, code)
    BY <1>1, <1>3, <2>1, <2>2
  <2>. QED  BY <2>3 DEF v
<1>6. Fetched(Forward(tr, gw, c, l), tgt2, hp2, code)
  <2> DEFINE v == Forward(tr, gw, c, l)
  <2>1. v.at = <<gw, 1 + c>> /\ v.ins = MovRax(Addr(tr, 1)) /\ 1 \in Int
    BY DEF Forward
  <2> HIDE DEF v
  <2>2. Jumps(CodeIn(tgt2, hp2, gw), 1 + c, Addr(tr, 1))
    BY <1>1, <1>2
  <2>3. Fetched(v, tgt2, hp2, code)
    BY <1>1, <1>3, <2>1, <2>2
  <2>. QED  BY <2>3 DEF v
<1>7. ASSUME c = 1  PROVE Fetched(Mark(gw, l), tgt2, hp2, code)
  <2> DEFINE v == Mark(gw, l)
  <2>1. v.at[1] = gw /\ v.at[2] = 1 /\ v.ins = CountEntry
    BY DEF Mark
  <2>2. IsMark(v) /\ ~IsHop(v) /\ ~IsOwn(v)
    BY <2>1 DEF IsMark, IsHop, IsOwn, CountEntry, PatchCode
  <2> HIDE DEF v
  <2>3. Has(CodeIn(tgt2, hp2, v.at[1]), v.at[2], v.ins)
    BY <1>1, <1>2, <1>7, <2>1
  <2>4. Fetched(v, tgt2, hp2, code)
    BY <1>1, <2>1, <2>2, <2>3 DEF Fetched
  <2>. QED  BY <2>4 DEF v
<1>. QED  BY <1>4, <1>5, <1>6, <1>7

-----------------------------------------------------------------------------
\* The target is hooked: a run starts with a jump, and comes back behind it.
Hooked(Q) ==
    \A x \in Q :
      \/ x.at = <<TargetBlock, 1>> /\ x.seen = {} /\ IsHop(x) /\ ~x.ins.pcrel /\ x.left # 0
      \/ TargetBlock \in x.seen /\ (x.at[1] = TargetBlock => x.at[2] >= 13)

\* Jumps are taken before the first instruction, or behind the n-th one.
TurnsAt(Q, n) == \A x \in Q : IsHop(x) => x.done \in {0, n}

\* A cut that leaves it so.
Turning(Q, cut, b, n) ==
    /\ n \in Nat /\ TurnsAt(Q, n)
    /\ b = 2 => \A y \in Q : y.at = <<TargetBlock, cut + 1>> => y.done = n

\* What a successful attempt makes of the way of a run is the way of a run.
LEMMA PatchedPath ==
    ASSUME NEW tgt, NEW hp, NEW tgt2, NEW hp2, NEW cut, NEW tr, NEW gw, NEW c, NEW b, NEW code, NEW mk,
           NEW top \in Nat, NEW Q, Path(Q, tgt, hp, code, mk, top), Cuttable(Q, cut, b),
           Patches(tgt, hp, tgt2, hp2, cut, tr, gw, c), NEW n, Turning(Q, cut, b, n)
    PROVE  \E R : Path(R, tgt2, hp2, code, c = 1, top + 8) /\ Hooked(R) /\ TurnsAt(R, n)
<1>1. /\ Q \subseteq Stage
      /\ \A x \in Q : x.left = 0 => Arrived(x, tgt, hp, code, mk)
      /\ \A x \in Q : x.left # 0 => Fetched(x, tgt, hp, code) /\ \E y \in Q : LeadsTo(x, y)
  BY DEF Path, GoesOn
<1>2. PICK s \in Q : Starts(s, top)
  BY DEF Path
<1>3. /\ cut \in Nat /\ cut >= 12 /\ b \in {0, 2}
      /\ \A x \in Q : Early(x, cut) =>
          /\ x.left # 0 /\ x.seen = {} /\ ~x.ins.pcrel
          /\ IsHop(x) => b = 0 /\ x.at[2] + 11 <= cut
          /\ ~IsHop(x) => b = 2 /\ x.at[2] + Len(x.ins.enc) - 1 <= cut
      /\ \A x \in Q, y \in Q : LeadsTo(x, y) /\ (~Early(x, cut) \/ IsHop(x)) => ~Early(y, cut)
  BY DEF Cuttable
<1>4. tr \in Nat /\ gw \in Nat /\ c \in {0, 1} /\ Len(tgt2) = Len(tgt)
      /\ DOMAIN hp2 = DOMAIN hp \cup {tr, gw} /\ tr \notin DOMAIN hp /\ gw \notin DOMAIN hp
      /\ tr # TargetBlock /\ gw # TargetBlock
  BY DEF Patches, TargetBlock
<1>5. s \in Stage /\ Early(s, cut) /\ s.left \in Nat /\ s.left <= top
  BY <1>1, <1>2, <1>3, StageFields DEF Starts, Early
<1> DEFINE l == s.left + b
           R == Rerouted(Q, cut, tr, gw, c, b, l)
           Fine(u) == /\ u.left = 0 => Arrived(u, tgt2, hp2, code, c = 1)
                      /\ u.left # 0 => Fetched(u, tgt2, hp2, code) /\ GoesOn(u, R)
           Tame(x) == \/ x.at = <<TargetBlock, 1>> /\ x.seen = {} /\ IsHop(x) /\ ~x.ins.pcrel /\ x.left # 0
                      \/ TargetBlock \in x.seen /\ (x.at[1] = TargetBlock => x.at[2] >= 13)
           Turns(u) == IsHop(u) => u.done \in {0, n}
           Good(u) == u \in Stage /\ Fine(u) /\ Tame(u) /\ Turns(u)
<1>6. l \in Nat
  BY <1>3, <1>5
<1>7. /\ \A x \in Q : Early(x, cut) => Moved(x, tr, gw, c, b) \in R
      /\ \A x \in Q : ~Early(x, cut) => Remaining(x, tr, gw, c) \in R
      /\ \A y \in Q : b = 2 /\ y.at = <<TargetBlock, cut + 1>> => Return(y, cut, tr, gw, c) \in R
      /\ Entry(gw, c, l) \in R /\ Forward(tr, gw, c, l) \in R
      /\ c = 1 => Mark(gw, l) \in R
  <2> HIDE DEF l
  <2>. QED  BY Zenon DEF Rerouted
<1>8. ASSUME NEW u \in R
      PROVE  \/ \E x \in Q : Early(x, cut) /\ u = Moved(x, tr, gw, c, b)
             \/ \E x \in Q : ~Early(x, cut) /\ u = Remaining(x, tr, gw, c)
             \/ \E y \in Q : b = 2 /\ y.at = <<TargetBlock, cut + 1>> /\ u = Return(y, cut, tr, gw, c)
             \/ u = Entry(gw, c, l) \/ u = Forward(tr, gw, c, l)
             \/ c = 1 /\ u = Mark(gw, l)
  <2> HIDE DEF l
  <2>. QED  BY Zenon DEF Rerouted
<1> HIDE DEF l, R
<1>9. ASSUME NEW x \in Q, Early(x, cut)  PROVE Good(Moved(x, tr, gw, c, b))
  <2> DEFINE u == Moved(x, tr, gw, c, b)
  <2>1. x \in Stage /\ x.left # 0 /\ Fetched(x, tgt, hp, code)
    BY <1>1, <1>3, <1>9
  <2>2. PICK y \in Q : LeadsTo(x, y)
    BY <1>1, <2>1
  <2>3. y \in Stage
    BY <1>1
  <2>4. Fetched(u, tgt2, hp2, code)
    BY <1>3, <1>9, <2>1, MovedFetched
  <2>5. GoesOn(u, R)
    <3>1. CASE IsHop(x)
      <4>1. b = 0 /\ x.seen = {} /\ x.at[1] = TargetBlock /\ ~Early(y, cut)
        BY <1>3, <1>9, <2>2, <3>1 DEF Early
      <4>2. LeadsTo(Moved(x, tr, gw, c, 0), Remaining(y, tr, gw, c))
        BY <1>4, <2>1, <2>2, <2>3, <3>1, <4>1, MovedHopLeads
      <4>. QED  BY <1>7, <4>1, <4>2 DEF GoesOn
    <3>2. CASE ~IsHop(x) /\ Early(y, cut)
      <4>1. LeadsTo(u, Moved(y, tr, gw, c, b))
        BY <1>3, <1>4, <1>9, <2>1, <2>2, <2>3, <3>2, MovedLeads
      <4> HIDE DEF u
      <4>. QED  BY <1>7, <3>2, <4>1 DEF GoesOn
    <3>3. CASE ~IsHop(x) /\ ~Early(y, cut)
      <4>1. b = 2 /\ x.seen = {} /\ x.at[1] = TargetBlock /\ x.at[2] + Len(x.ins.enc) - 1 <= cut
        BY <1>3, <1>9, <3>3 DEF Early
      <4>2. y.at = <<TargetBlock, x.at[2] + Len(x.ins.enc)>>
        BY <2>2, <3>3, <4>1 DEF LeadsTo
      <4>3. x.at[2] \in Int /\ Len(x.ins.enc) \in Nat
        BY <2>1, StageFields
      <4>4. x.at[2] + Len(x.ins.enc) > cut
        BY <3>3, <4>2 , <4>3, <1>3 DEF Early
      <4>5. x.at[2] + Len(x.ins.enc) = cut + 1
        BY <1>3, <4>1, <4>3, <4>4
      <4>6. y.at = <<TargetBlock, cut + 1>>
        BY <4>2, <4>5
      <4>7. LeadsTo(Moved(x, tr, gw, c, 2), Return(y, cut, tr, gw, c))
        BY <1>3, <1>4, <2>1, <2>2, <2>3, <3>3, <4>1, <4>6, MovedOutLeads
      <4>8. Return(y, cut, tr, gw, c) \in R
        BY <1>7, <4>1, <4>6
      <4>. QED  BY <4>1, <4>7, <4>8 DEF GoesOn
    <3>. QED  BY <3>1, <3>2, <3>3
  <2>6. u.left # 0
    <3>1. u.left = x.left + b /\ x.left \in Nat
      BY <2>1, StageFields DEF Moved
    <3>. QED  BY <1>3, <2>1, <3>1
  <2>7. TargetBlock \in u.seen /\ u.at[1] # TargetBlock
    BY <1>4 DEF Moved
  <2>8. u \in Stage
    BY <1>3, <1>4, <1>6, <2>1, ReroutedStages
  <2>9. u.ins = x.ins /\ u.done = x.done
    BY DEF Moved
  <2> HIDE DEF u
  <2>10. Turns(u)
    BY <2>9, Zenon DEF Turning, TurnsAt, IsHop
  <2>. QED  BY <2>4, <2>5, <2>6, <2>7, <2>8, <2>10 DEF u
<1>10. ASSUME NEW x \in Q, ~Early(x, cut)  PROVE Good(Remaining(x, tr, gw, c))
  <2> DEFINE u == Remaining(x, tr, gw, c)
  <2>1. x \in Stage
    BY <1>1
  <2>2. u.at = x.at /\ u.left = x.left /\ u.done = x.done /\ u.count = x.count + c
        /\ u.seen = x.seen \cup {TargetBlock, gw, tr}
    BY DEF Remaining
  <2>3. u \in Stage
    BY <1>3, <1>4, <1>6, <2>1, ReroutedStages
  <2>4. ASSUME u.left = 0  PROVE Arrived(u, tgt2, hp2, code, c = 1)
    <3>1. Arrived(x, tgt, hp, code, mk)
      BY <1>1, <2>2, <2>4
    <3>2. x.at = <<TargetBlock, Len(tgt) + 1>> /\ x.done = Len(code) /\ x.seen \ {TargetBlock} = DOMAIN hp
      BY <3>1 DEF Arrived
    <3>3. u.seen \ {TargetBlock} = DOMAIN hp2
      BY <1>4, <2>2, <3>2
    <3>4. c = 1 => u.count >= 1
      BY <2>1, <2>2, StageFields
    <3> HIDE DEF u
    <3>. QED  BY <1>4, <2>2, <3>2, <3>3, <3>4 DEF Arrived
  <2>5. ASSUME u.left # 0  PROVE Fetched(u, tgt2, hp2, code) /\ GoesOn(u, R)
    <3>1. Fetched(x, tgt, hp, code) /\ x.left # 0
      BY <1>1, <2>2, <2>5
    <3>2. PICK y \in Q : LeadsTo(x, y)
      BY <1>1, <3>1
    <3>3. y \in Stage /\ ~Early(y, cut)
      BY <1>1, <1>3, <1>10, <3>2
    <3>4. LeadsTo(u, Remaining(y, tr, gw, c))
      BY <1>4, <2>1, <3>2, <3>3, KeptLeads
    <3>5. Fetched(u, tgt2, hp2, code)
      BY <1>3, <1>10, <2>1, <3>1, KeptFetched
    <3> HIDE DEF u
    <3>. QED  BY <1>7, <3>3, <3>4, <3>5 DEF GoesOn
  <2>6. TargetBlock \in u.seen
    BY <2>2
  <2>7. u.at[1] = TargetBlock => u.at[2] >= 13
    <3>1. x.at[2] \in Int
      BY <2>1, StageFields
    <3>. QED  BY <1>3, <1>10, <2>2, <3>1 DEF Early
  <2>8. u.ins = x.ins
    BY DEF Remaining
  <2> HIDE DEF u
  <2>9. Turns(u)
    BY <2>2, <2>8, Zenon DEF Turning, TurnsAt, IsHop
  <2>. QED  BY <2>3, <2>4, <2>5, <2>6, <2>7, <2>9 DEF u
<1>11. ASSUME NEW y \in Q, b = 2, y.at = <<TargetBlock, cut + 1>>  PROVE Good(Return(y, cut, tr, gw, c))
  <2> DEFINE u == Return(y, cut, tr, gw, c)
  <2>1. y \in Stage /\ ~Early(y, cut)
    BY <1>1, <1>3, <1>11 DEF Early
  <2>2. u \in Stage
    BY <1>3, <1>4, <1>6, <2>1, ReroutedStages
  <2>3. LeadsTo(u, Remaining(y, tr, gw, c))
    BY <1>3, <1>4, <1>11, <2>1, ReturnLeads
  <2>4. Fetched(u, tgt2, hp2, code)
    BY <1>3, WrittenFetched
  <2>5. u.left # 0 /\ TargetBlock \in u.seen /\ u.at[1] # TargetBlock
    BY <1>4, <2>1, StageFields DEF Return
  <2>6. u.done = y.done
    BY DEF Return
  <2> HIDE DEF u
  <2>7. GoesOn(u, R)
    BY <1>7, <2>1, <2>3 DEF GoesOn
  <2>8. Turns(u)
    BY <1>11, <2>6, Zenon DEF Turning
  <2>. QED  BY <2>2, <2>4, <2>5, <2>7, <2>8 DEF u
<1>12. Good(Entry(gw, c, l)) /\ Starts(Entry(gw, c, l), top + 8)
  <2> DEFINE u == Entry(gw, c, l)
  <2>1. u \in Stage
    BY <1>3, <1>4, <1>5, <1>6, ReroutedStages
  <2>2. Fetched(u, tgt2, hp2, code)
    BY <1>3, WrittenFetched
  <2>3. u.at = <<TargetBlock, 1>> /\ u.seen = {} /\ u.done = 0 /\ u.count = 0 /\ u.left = l + 4 + c
    BY DEF Entry
  <2>4. u.ins.op = "movrax" /\ ~u.ins.pcrel
    BY DEF Entry, MovRax, PatchCode
  <2>5. GoesOn(u, R)
    BY <1>4, <1>6, <1>7, EntryLeads DEF GoesOn
  <2> HIDE DEF u
  <2>6. u.left # 0 /\ u.left <= top + 8
    <3>1. /\ b \in {0, 2} /\ c \in {0, 1} /\ s.left \in Nat /\ s.left <= top
          /\ u.left = (s.left + b) + 4 + c
      BY <1>3, <1>4, <1>5, <2>3, Zenon DEF l
    <3>2. \A v, w \in Nat, i \in {0, 2}, j \in {0, 1} :
              v <= w => (v + i) + 4 + j # 0 /\ (v + i) + 4 + j <= w + 8
      OBVIOUS
    <3>. QED  BY <3>1, <3>2, Zenon
  <2>7. IsHop(u) /\ Turns(u)
    BY <2>3, <2>4, Zenon DEF IsHop
  <2>. QED  BY <2>1, <2>2, <2>3, <2>4, <2>5, <2>6, <2>7, Zenon DEF u, Starts
<1>13. Good(Forward(tr, gw, c, l))
  <2> DEFINE u == Forward(tr, gw, c, l)
  <2>1. u \in Stage
    BY <1>3, <1>4, <1>5, <1>6, ReroutedStages
  <2>2. Fetched(u, tgt2, hp2, code)
    BY <1>3, WrittenFetched
  <2>3. LeadsTo(u, Moved(s, tr, gw, c, b))
    BY <1>2, <1>3, <1>4, <1>5, ForwardLeads DEF l
  <2>4. u.left # 0 /\ TargetBlock \in u.seen /\ u.at[1] # TargetBlock
    BY <1>4, <1>6 DEF Forward
  <2>5. u.done = 0
    BY DEF Forward
  <2> HIDE DEF u
  <2>6. GoesOn(u, R)
    BY <1>5, <1>7, <2>3 DEF GoesOn
  <2>7. Turns(u)
    BY <2>5, Zenon
  <2>. QED  BY <2>1, <2>2, <2>4, <2>6, <2>7 DEF u
<1>14. ASSUME c = 1  PROVE Good(Mark(gw, l))
  <2> DEFINE u == Mark(gw, l)
  <2>1. u \in Stage
    BY <1>3, <1>4, <1>5, <1>6, ReroutedStages
  <2>2. Fetched(u, tgt2, hp2, code)
    BY <1>3, <1>14, WrittenFetched
  <2>3. LeadsTo(u, Forward(tr, gw, c, l))
    BY <1>4, <1>6, <1>14, EntryLeads
  <2>4. u.left # 0 /\ TargetBlock \in u.seen /\ u.at[1] # TargetBlock
    BY <1>4, <1>6 DEF Mark
  <2>5. u.done = 0
    BY DEF Mark
  <2> HIDE DEF u
  <2>6. GoesOn(u, R)
    BY <1>7, <2>3 DEF GoesOn
  <2>7. Turns(u)
    BY <2>5, Zenon
  <2>. QED  BY <2>1, <2>2, <2>4, <2>6, <2>7 DEF u
<1> HIDE DEF Good
<1>15. \A u \in R : Good(u)
  BY <1>8, <1>9, <1>10, <1>11, <1>12, <1>13, <1>14, Zenon
<1>16. R \subseteq Stage /\ \A u \in R : Fine(u) /\ Tame(u) /\ Turns(u)
  BY <1>15, Zenon DEF Good
<1>17. \E u \in R : Starts(u, top + 8)
  BY <1>7, <1>12, Zenon
<1>18. Path(R, tgt2, hp2, code, c = 1, top + 8)
  BY <1>16, <1>17, Zenon DEF Path
<1>19. Hooked(R)
  BY <1>16, Zenon DEF Hooked
<1>20. TurnsAt(R, n)
  BY <1>16, Zenon DEF TurnsAt
<1>. QED  BY <1>18, <1>19, <1>20, Zenon

-----------------------------------------------------------------------------
(***************************************************************************)
(* The patch: a run follows its path.                                      *)
(***************************************************************************)

CpuState == [pc : Int \X Int, rax : Int \X Int, own : RaxOwners, trace : Seq(Nat), count : Nat,
             blocks : SUBSET Int, end : {"", "return", "unmapped", "torn"}]

Upto(n) == [k \in 1 .. n |-> k]

\* What the j-th instruction puts into rax is the last that any up to the
\* k-th puts there.
LastWrites(code, j, k) ==
    "writes" \in code[j].uses /\ \A i \in (j + 1) .. k : "writes" \notin code[i].uses

\* Whose value rax holds behind d instructions, when jumps are taken before
\* the first one or behind the n-th one.
RaxOf(own, d, code, n) ==
    /\ own \in RaxOwners
    /\ own = "held" => \E j \in 1 .. d : LastWrites(code, j, d)
    /\ own = "lost" => d >= n /\ \E j \in 1 .. n : LastWrites(code, j, d)
    /\ own = "misread" => CarriesRax(code, n)

\* An instruction of the function ...
LEMMA RaxOfNext ==
    ASSUME NEW code, Len(code) \in Nat, NEW n \in Nat, NEW d \in Nat, d < Len(code), NEW own,
           RaxOf(own, d, code, n)
    PROVE  RaxOf(OwnRax(own, code[d + 1].uses), d + 1, code, n)
<1> DEFINE u == code[d + 1].uses
           now == OwnRax(own, u)
<1>1. /\ own \in {"none", "held", "lost", "misread"}
      /\ now = IF own = "misread" \/ (own = "lost" /\ "reads" \in u) THEN "misread"
               ELSE IF "writes" \in u THEN "held" ELSE own
  BY DEF OwnRax, RaxOf, RaxOwners
<1>2. now \in RaxOwners
  <2> HIDE DEF u
  <2>. QED  BY <1>1 DEF RaxOwners
<1>3. ASSUME "writes" \notin u, NEW j \in Nat, LastWrites(code, j, d)  PROVE LastWrites(code, j, d + 1)
  <2>1. \A i \in (j + 1) .. (d + 1) : i \in (j + 1) .. d \/ i = d + 1
    OBVIOUS
  <2>. QED  BY <1>3, <2>1, Zenon DEF LastWrites
<1> HIDE DEF now
<1>4. ASSUME now = "held"  PROVE \E j \in 1 .. (d + 1) : LastWrites(code, j, d + 1)
  <2>1. CASE "writes" \in u
    <3>1. d + 1 \in 1 .. (d + 1) /\ (d + 1 + 1) .. (d + 1) = {}
      OBVIOUS
    <3>. QED  BY <2>1, <3>1, Zenon DEF LastWrites
  <2>2. CASE "writes" \notin u
    <3>1. own = "held"
      <4> HIDE DEF u
      <4>. QED  BY <1>1, <1>4, <2>2
    <3>2. PICK j \in 1 .. d : LastWrites(code, j, d)
      BY <3>1, Zenon DEF RaxOf
    <3>3. j \in Nat /\ j \in 1 .. (d + 1)
      OBVIOUS
    <3>. QED  BY <1>3, <2>2, <3>2, <3>3, Zenon
  <2>. QED  BY <2>1, <2>2
<1>5. ASSUME now = "lost"  PROVE d + 1 >= n /\ \E j \in 1 .. n : LastWrites(code, j, d + 1)
  <2>1. own = "lost" /\ "writes" \notin u
    <3> HIDE DEF u
    <3>. QED  BY <1>1, <1>5
  <2>2. PICK j \in 1 .. n : d >= n /\ LastWrites(code, j, d)
    BY <2>1, Zenon DEF RaxOf
  <2>3. j \in Nat /\ d + 1 >= n
    BY <2>2
  <2>. QED  BY <1>3, <2>1, <2>2, <2>3, Zenon
<1>6. ASSUME now = "misread"  PROVE CarriesRax(code, n)
  <2>1. CASE own = "misread"
    BY <2>1, Zenon DEF RaxOf
  <2>2. CASE own # "misread"
    <3>1. own = "lost" /\ "reads" \in u
      <4> HIDE DEF u
      <4>. QED  BY <1>1, <1>6, <2>2
    <3>2. PICK j \in 1 .. n : d >= n /\ LastWrites(code, j, d)
      BY <3>1, Zenon DEF RaxOf
    <3>3. d + 1 \in (n + 1) .. Len(code) /\ (d + 1) - 1 = d
      BY <3>2
    <3>. QED  BY <3>1, <3>2, <3>3, Zenon DEF CarriesRax, LastWrites
  <2>. QED  BY <2>1, <2>2
<1>. QED  BY <1>2, <1>4, <1>5, <1>6, Zenon DEF RaxOf, now

\* ... and a jump of the patch.
LEMMA RaxOfJump ==
    ASSUME NEW code, NEW n \in Nat, NEW d \in {0, n}, NEW own, RaxOf(own, d, code, n)
    PROVE  RaxOf(Overwritten(own), d, code, n)
<1> DEFINE now == Overwritten(own)
<1>1. own \in {"none", "held", "lost", "misread"} /\ now = IF own = "held" THEN "lost" ELSE own
  BY DEF Overwritten, RaxOf, RaxOwners
<1>2. now \in RaxOwners /\ now # "held" /\ (now = "misread" => own = "misread")
  BY <1>1 DEF RaxOwners
<1>3. ASSUME own = "held"  PROVE d >= n /\ \E j \in 1 .. n : LastWrites(code, j, d)
  <2>1. PICK j \in 1 .. d : LastWrites(code, j, d)
    BY <1>3, Zenon DEF RaxOf
  <2>2. d = n
    OBVIOUS
  <2>. QED  BY <2>1, <2>2
<1>4. now = "lost" => own \in {"held", "lost"}
  BY <1>1
<1> HIDE DEF now
<1>5. now = "lost" => d >= n /\ \E j \in 1 .. n : LastWrites(code, j, d)
  BY <1>3, <1>4, Zenon DEF RaxOf
<1>6. now = "misread" => CarriesRax(code, n)
  BY <1>2, Zenon DEF RaxOf
<1>. QED  BY <1>2, <1>5, <1>6, Zenon DEF RaxOf, now

\* The processor is at a stage, ...
IsAt(s, x) ==
    /\ s \in CpuState /\ s.end = "" /\ s.pc = x.at /\ s.trace = Upto(x.done)
    /\ s.count = x.count /\ s.blocks = x.seen

\* ... or between the two instructions of a jump, ...
IsBetween(s, x) ==
    /\ s \in CpuState /\ s.end = "" /\ s.pc = <<x.at[1], x.at[2] + 10>> /\ s.rax = x.ins.arg
    /\ s.trace = Upto(x.done) /\ s.count = x.count /\ s.blocks = x.seen \cup {x.at[1]}

\* ... or through.
IsThrough(s, code, mk) ==
    /\ s \in CpuState /\ s.end = "return" /\ s.trace = Upto(Len(code))
    /\ s.blocks \ {TargetBlock} = DOMAIN heap
    /\ mk => s.count >= 1

Numbered(code) ==
    code \in Seq(Ins) /\ \A k \in 1 .. Len(code) : code[k].arg = k /\ code[k].op = "original"

\* An instruction relative to its place is only fit for its own.
FitFor(i, b) == i.op = "original" /\ i.pcrel => b = TargetBlock

\* An instruction that is there, whole, and fit for its place.
Ready(b, at, i) ==
    /\ b \in {TargetBlock} \cup DOMAIN heap /\ i \in Ins /\ Len(CodeIn(target, heap, b)) \in Nat
    /\ Has(CodeIn(target, heap, b), at, i) /\ FitFor(i, b)

\* A whole instruction does not stop the processor.
LEMMA WholeRuns ==
    ASSUME NEW b, NEW at, NEW i, Ready(b, at, i)
    PROVE  Stop(b, at) = "" /\ CodeAt(b)[at].ins = i
<1> DEFINE cells == CodeIn(target, heap, b)
<1>0. /\ b \in {TargetBlock} \cup DOMAIN heap /\ i \in Ins /\ Len(cells) \in Nat
      /\ Has(cells, at, i) /\ FitFor(i, b)
  BY Zenon DEF Ready
<1>1. CodeAt(b) = cells /\ Mapped(b)
  BY <1>0 DEF CodeAt, CodeIn, Mapped
<1>2. Len(i.enc) \in Nat /\ Len(i.enc) >= 1
  BY <1>0, InsLength
<1> HIDE DEF cells
<1>3. /\ at \in Nat /\ at + Len(i.enc) - 1 <= Len(cells)
      /\ \A j \in 1 .. Len(i.enc) : cells[at + j - 1] = [ins |-> i, off |-> j]
  BY <1>0 DEF Has
<1>4. cells[at].ins = i
  <2>1. 1 \in 1 .. Len(i.enc) /\ at + 1 - 1 = at
    BY <1>2, <1>3
  <2>2. cells[at] = [ins |-> i, off |-> 1]
    BY <1>3, <2>1
  <2>. QED  BY <2>2
<1>5. ~(at > Len(cells))
  BY <1>0, <1>2, <1>3
<1>6. Whole(b, at)
  BY <1>0, <1>1, <1>3, <1>4 DEF Whole, FitFor
<1>. QED  BY <1>1, <1>4, <1>5, <1>6 DEF Stop

\* The numbers of the instructions done so far, and one more.
LEMMA UptoNext ==
    ASSUME NEW n \in Nat
    PROVE  /\ Upto(n) \in Seq(Nat) /\ Append(Upto(n), n + 1) = Upto(n + 1)
<1> DEFINE s == Upto(n)
           t == Upto(n + 1)
<1>1. /\ s \in Seq(Nat) /\ Len(s) = n /\ (\A k \in 1 .. n : s[k] = k)
      /\ t \in Seq(Nat) /\ Len(t) = n + 1 /\ \A k \in 1 .. (n + 1) : t[k] = k
  BY DEF Upto
<1> HIDE DEF s, t
<1>2. Append(s, n + 1) \in Seq(Nat) /\ Len(Append(s, n + 1)) = n + 1
  BY <1>1
<1>3. \A k \in 1 .. (n + 1) : Append(s, n + 1)[k] = t[k]
  BY <1>1
<1>4. Append(s, n + 1) = t
  BY <1>1, <1>2, <1>3, SeqEqual
<1>. QED  BY <1>1, <1>4 DEF s, t

\* One instruction of the target, or a count.
LEMMA RunsPlain ==
    ASSUME NEW code, Numbered(code), NEW s, NEW x \in Stage, NEW y \in Stage, IsAt(s, x), ~IsHop(x),
           Fetched(x, target, heap, code), LeadsTo(x, y), Len(CodeIn(target, heap, x.at[1])) \in Nat
    PROVE  /\ IsAt(Execute(s), y)
           /\ Execute(s).own = IF IsOwn(x) THEN OwnRax(s.own, x.ins.uses) ELSE s.own
<1> DEFINE i == x.ins
           e == Execute(s)
           next == <<x.at[1], x.at[2] + Len(i.enc)>>
<1>1. /\ s \in CpuState /\ s.end = "" /\ s.pc = x.at /\ s.trace = Upto(x.done)
      /\ s.count = x.count /\ s.blocks = x.seen
  BY DEF IsAt
<1>2. i \in Ins /\ x.done \in Nat /\ x.at[1] \in Int /\ x.at[2] \in Int /\ Len(i.enc) \in Nat
      /\ x.count \in Nat
  BY StageFields
<1>3. Stop(x.at[1], x.at[2]) = "" /\ CodeAt(x.at[1])[x.at[2]].ins = i
  <2> HIDE DEF i, e, next
  <2>1. FitFor(i, x.at[1])
    BY DEF Fetched, IsOwn, FitFor, i
  <2>2. x.at[1] \in {TargetBlock} \cup DOMAIN heap /\ Has(CodeIn(target, heap, x.at[1]), x.at[2], i)
    BY DEF Fetched, i
  <2>3. Ready(x.at[1], x.at[2], i)
    BY <1>2, <2>1, <2>2, Zenon DEF Ready
  <2> DEFINE block == x.at[1]
             p == x.at[2]
  <2>5. Ready(block, p, i)
    BY <2>3
  <2> HIDE DEF block, p
  <2>6. Stop(block, p) = "" /\ CodeAt(block)[p].ins = i
    BY <2>5, WholeRuns
  <2>. QED  BY <2>6 DEF block, p
<1>4. e = Perform(s, i)
  BY <1>1, <1>3 DEF Execute
<1>5. next \in Int \X Int /\ y.at = next /\ y.seen = x.seen
  BY <1>2 DEF LeadsTo
<1>6. Addr(s.pc[1], s.pc[2] + Len(i.enc)) = next
  BY <1>1 DEF Addr
<1> HIDE DEF next, e
<1>7. CASE IsOwn(x)
  <2>1. i.op = "original" /\ y.done = x.done + 1 /\ y.count = x.count
    BY <1>7 DEF IsOwn, LeadsTo, IsMark
  <2>2. i = code[x.done + 1] /\ x.done < Len(code)
    BY <1>7 DEF Fetched
  <2>3. i.arg = x.done + 1
    <3>1. x.done + 1 \in 1 .. Len(code)
      <4>1. Len(code) \in Nat
        BY DEF Numbered
      <4>. QED  BY <1>2, <2>2, <4>1
    <3>. QED  BY <2>2, <3>1 DEF Numbered
  <2> HIDE DEF i
  <2> DEFINE w == OwnRax(s.own, i.uses)
  <2>4. e = [s EXCEPT !.pc = next, !.own = w, !.trace = Append(@, i.arg)]
    BY <1>4, <1>6, <2>1 DEF Perform
  <2>8. w \in RaxOwners
    <3>1. s.own \in RaxOwners
      BY <1>1 DEF CpuState
    <3>. QED  BY <3>1 DEF OwnRax, RaxOwners
  <2> HIDE DEF w
  <2>5. Append(s.trace, i.arg) = Upto(y.done) /\ Upto(y.done) \in Seq(Nat)
    <3>1. Append(Upto(x.done), x.done + 1) = Upto(x.done + 1)
      BY <1>2, UptoNext, Zenon
    <3>2. x.done + 1 \in Nat
      BY <1>2
    <3>3. Upto(x.done + 1) \in Seq(Nat)
      BY <3>2, UptoNext, Zenon
    <3>. QED  BY <1>1, <2>1, <2>3, <3>1, <3>3, Zenon
  <2> HIDE DEF Upto
  <2>6. e \in CpuState
    BY <1>1, <1>5, <2>4, <2>5, <2>8 DEF CpuState
  <2>7. e.end = s.end /\ e.pc = next /\ e.trace = Append(s.trace, i.arg) /\ e.count = s.count
        /\ e.blocks = s.blocks /\ e.own = w
    BY <1>1, <2>4 DEF CpuState
  <2>9. IsAt(e, y)
    BY <1>1, <1>5, <2>1, <2>5, <2>6, <2>7 DEF IsAt
  <2>. QED  BY <1>7, <2>7, <2>9, Zenon DEF e, w, i
<1>8. CASE IsMark(x)
  <2>1. i.op = "count" /\ y.done = x.done /\ y.count = x.count + 1
    BY <1>8 DEF IsMark, LeadsTo, IsOwn
  <2> HIDE DEF i
  <2>4. e = [s EXCEPT !.pc = next, !.count = @ + 1]
    BY <1>4, <1>6, <2>1 DEF Perform
  <2> HIDE DEF Upto
  <2>5. s.count + 1 \in Nat
    <3>1. s.count \in Nat
      BY <1>1 DEF CpuState
    <3>. QED  BY <3>1
  <2>6. e \in CpuState
    BY <1>1, <1>5, <2>4, <2>5 DEF CpuState
  <2>7. e.end = s.end /\ e.pc = next /\ e.trace = s.trace /\ e.count = s.count + 1
        /\ e.blocks = s.blocks /\ e.own = s.own
    BY <1>1, <2>4 DEF CpuState
  <2>8. IsAt(e, y)
    BY <1>1, <1>5, <2>1, <2>6, <2>7 DEF IsAt
  <2>9. ~IsOwn(x)
    BY <1>8 DEF IsMark, IsOwn
  <2>. QED  BY <2>7, <2>8, <2>9, Zenon DEF e
<1>9. IsOwn(x) \/ IsMark(x)
  BY DEF Fetched
<1>. QED  BY <1>7, <1>8, <1>9, Zenon

\* The first half of a jump, ...
LEMMA RunsMov ==
    ASSUME NEW code, NEW s, NEW x \in Stage, IsAt(s, x), IsHop(x),
           Fetched(x, target, heap, code), Len(CodeIn(target, heap, x.at[1])) \in Nat
    PROVE  IsBetween(Execute(s), x) /\ Execute(s).own = Overwritten(s.own)
<1> DEFINE i == x.ins
           e == Execute(s)
           next == <<x.at[1], x.at[2] + 10>>
<1>1. /\ s \in CpuState /\ s.end = "" /\ s.pc = x.at /\ s.trace = Upto(x.done)
      /\ s.count = x.count /\ s.blocks = x.seen
  BY DEF IsAt
<1>2. i \in Ins /\ x.at[1] \in Int /\ x.at[2] \in Int /\ x.seen \in SUBSET Int
  BY StageFields
<1>3. /\ x.at[1] \in {TargetBlock} \cup DOMAIN heap /\ Has(CodeIn(target, heap, x.at[1]), x.at[2], i)
      /\ i.arg \in Int \X Int /\ Len(i.enc) = 10 /\ i.op = "movrax"
  BY DEF Fetched, IsHop
<1> HIDE DEF i
<1>4. Stop(x.at[1], x.at[2]) = "" /\ CodeAt(x.at[1])[x.at[2]].ins = i
  <2>1. FitFor(i, x.at[1])
    BY <1>3 DEF FitFor
  <2>2. x.at[1] \in {TargetBlock} \cup DOMAIN heap /\ Has(CodeIn(target, heap, x.at[1]), x.at[2], i)
    BY <1>3, Zenon
  <2>3. i \in Ins
    BY <1>2, Zenon
  <2> HIDE DEF e, next
  <2>4. Ready(x.at[1], x.at[2], i)
    BY <2>1, <2>2, <2>3, Zenon DEF Ready
  <2> DEFINE block == x.at[1]
             p == x.at[2]
  <2>5. Ready(block, p, i)
    BY <2>4
  <2> HIDE DEF block, p
  <2>6. Stop(block, p) = "" /\ CodeAt(block)[p].ins = i
    BY <2>5, WholeRuns
  <2>. QED  BY <2>6 DEF block, p
<1>5. e = Perform(s, i)
  BY <1>1, <1>4 DEF Execute
<1>6. Addr(s.pc[1], s.pc[2] + Len(i.enc)) = next /\ next \in Int \X Int /\ s.pc[1] = x.at[1]
  <2>1. s.pc[1] = x.at[1] /\ s.pc[2] + Len(i.enc) = x.at[2] + 10
    BY <1>1, <1>3
  <2>2. x.at[2] + 10 \in Int
    BY <1>2
  <2>. QED  BY <1>2, <2>1, <2>2 DEF Addr
<1> HIDE DEF next, e
<1> DEFINE w == Overwritten(s.own)
<1>7. e = [s EXCEPT !.pc = next, !.rax = i.arg, !.own = w, !.blocks = @ \cup {x.at[1]}]
  BY <1>3, <1>5, <1>6 DEF Perform
<1>11. w \in RaxOwners
  <2>1. s.own \in RaxOwners
    BY <1>1 DEF CpuState
  <2>. QED  BY <2>1 DEF Overwritten, RaxOwners
<1> HIDE DEF w
<1>8. s.blocks \cup {x.at[1]} \in SUBSET Int
  BY <1>1, <1>2
<1> HIDE DEF Upto
<1>9. e \in CpuState
  BY <1>1, <1>3, <1>6, <1>7, <1>8, <1>11 DEF CpuState
<1>10. e.end = s.end /\ e.pc = next /\ e.trace = s.trace /\ e.count = s.count /\ e.rax = i.arg
       /\ e.blocks = s.blocks \cup {x.at[1]} /\ e.own = w
  BY <1>1, <1>7 DEF CpuState
<1>12. IsBetween(e, x)
  BY <1>1, <1>9, <1>10 DEF IsBetween, next, i
<1>. QED  BY <1>10, <1>12, Zenon DEF e, w

\* ... and the second.
LEMMA RunsJmp ==
    ASSUME NEW code, NEW s, NEW x \in Stage, NEW y \in Stage, IsBetween(s, x), IsHop(x), LeadsTo(x, y),
           Fetched(x, target, heap, code), Len(CodeIn(target, heap, x.at[1])) \in Nat
    PROVE  IsAt(Execute(s), y) /\ Execute(s).own = s.own
<1> DEFINE e == Execute(s)
           p == x.at[2] + 10
<1>1. /\ s \in CpuState /\ s.end = "" /\ s.pc = <<x.at[1], p>> /\ s.rax = x.ins.arg
      /\ s.trace = Upto(x.done) /\ s.count = x.count /\ s.blocks = x.seen \cup {x.at[1]}
  BY DEF IsBetween
<1>2. x.at[1] \in {TargetBlock} \cup DOMAIN heap /\ Has(CodeIn(target, heap, x.at[1]), p, JmpRax)
  BY DEF Fetched
<1>3. JmpRax.op = "jmprax" /\ JmpRax \in Ins
  BY Written DEF JmpRax, PatchCode
<1> HIDE DEF JmpRax, p
<1>4. Stop(x.at[1], p) = "" /\ CodeAt(x.at[1])[p].ins = JmpRax
  <2>1. FitFor(JmpRax, x.at[1])
    BY <1>3 DEF FitFor
  <2>2. Ready(x.at[1], p, JmpRax)
    BY <1>2, <1>3, <2>1, Zenon DEF Ready
  <2>. QED  BY <2>2, WholeRuns
<1>5. s.pc[1] = x.at[1] /\ s.pc[2] = p
  <2>1. s.pc = <<x.at[1], p>>
    BY <1>1, Zenon
  <2>. QED  BY <2>1
<1>6. e = Perform(s, JmpRax)
  BY <1>1, <1>4, <1>5 DEF Execute
<1>7. e = [s EXCEPT !.pc = s.rax]
  BY <1>3, <1>6 DEF Perform
<1> HIDE DEF e, Upto
<1>8. e \in CpuState /\ e.end = s.end /\ e.pc = s.rax /\ e.trace = s.trace /\ e.count = s.count
      /\ e.blocks = s.blocks /\ e.own = s.own
  BY <1>1, <1>7 DEF CpuState
<1>9. y.at = x.ins.arg /\ y.done = x.done /\ y.count = x.count /\ y.seen = x.seen \cup {x.at[1]}
  BY DEF LeadsTo, IsHop, IsOwn, IsMark
<1>10. IsAt(e, y)
  BY <1>1, <1>8, <1>9 DEF IsAt
<1>. QED  BY <1>8, <1>10, Zenon DEF e

\* Behind the target's code the run ends.
LEMMA RunsOut ==
    ASSUME NEW code, NEW mk, NEW s, NEW x, IsAt(s, x), Arrived(x, target, heap, code, mk),
           Len(target) \in Nat
    PROVE  IsThrough(Execute(s), code, mk) /\ Execute(s).own = s.own
<1> DEFINE e == Execute(s)
<1>1. /\ s \in CpuState /\ s.end = "" /\ s.pc = x.at /\ s.trace = Upto(x.done)
      /\ s.count = x.count /\ s.blocks = x.seen
  BY DEF IsAt
<1>2. /\ x.at = <<TargetBlock, Len(target) + 1>> /\ x.done = Len(code)
      /\ x.seen \ {TargetBlock} = DOMAIN heap /\ (mk => x.count >= 1)
  BY DEF Arrived
<1>3. Stop(TargetBlock, Len(target) + 1) = "return"
  <2>1. Mapped(TargetBlock) /\ CodeAt(TargetBlock) = target
    BY DEF Mapped, CodeAt
  <2>2. Len(target) + 1 > Len(target)
    OBVIOUS
  <2>. QED  BY <2>1, <2>2 DEF Stop
<1>4. s.pc[1] = TargetBlock /\ s.pc[2] = Len(target) + 1
  <2>1. s.pc = <<TargetBlock, Len(target) + 1>>
    BY <1>1, <1>2, Zenon
  <2>. QED  BY <2>1
<1>5. e = [s EXCEPT !.end = "return"]
  BY <1>1, <1>3, <1>4 DEF Execute
<1> HIDE DEF e, Upto
<1>6. e \in CpuState /\ e.end = "return" /\ e.trace = s.trace /\ e.count = s.count
      /\ e.blocks = s.blocks /\ e.own = s.own
  <2>2. e \in CpuState
    BY <1>1, <1>5 DEF CpuState
  <2>3. e.end = "return" /\ e.trace = s.trace /\ e.count = s.count /\ e.blocks = s.blocks
        /\ e.own = s.own
    BY <1>1, <1>5 DEF CpuState
  <2>. QED  BY <2>2, <2>3
<1>7. IsThrough(e, code, mk)
  BY <1>1, <1>2, <1>6 DEF IsThrough
<1>. QED  BY <1>6, <1>7, Zenon DEF e

LEMMA StaysThrough ==
    ASSUME NEW code, NEW mk, NEW s, IsThrough(s, code, mk)
    PROVE  Execute(s) = s
  BY DEF IsThrough, Execute

\* The steps of a run, one after the other.
IsRun(f, n) == f[0] = Boot /\ \A k \in 1 .. n : f[k] = Execute(f[k - 1])

LEMMA RunSteps ==
    ASSUME Fuel \in Nat
    PROVE  \E f : IsRun(f, Fuel) /\ Run = f[Fuel]
<1> DEFINE F == Fuel
           Fun(f, k) == f = [i \in 0 .. k |-> f[i]]
           T == {k \in 0 .. F : \E f : Fun(f, k) /\ IsRun(f, k)}
<1>1. F \in Nat
  OBVIOUS
<1> HIDE DEF F
<1>2. 0 \in T
  <2> DEFINE f == [i \in 0 .. 0 |-> Boot]
  <2>1. f[0] = Boot
    OBVIOUS
  <2>2. IsRun(f, 0)
    <3> HIDE DEF f
    <3>. QED  BY <2>1 DEF IsRun
  <2>3. Fun(f, 0)
    OBVIOUS
  <2> HIDE DEF f, Fun
  <2>4. 0 \in 0 .. F
    BY <1>1
  <2>. QED  BY <2>2, <2>3, <2>4, Zenon
<1>3. ASSUME NEW k \in 1 .. F, k - 1 \in T  PROVE k \in T
  <2>1. PICK g : IsRun(g, k - 1)
    BY <1>3, Zenon
  <2> DEFINE e == Execute(g[k - 1])
             f == [i \in 0 .. k |-> IF i = k THEN e ELSE g[i]]
  <2>2. k \in Nat /\ k - 1 \in 0 .. k /\ k \in 0 .. k /\ k - 1 # k /\ 0 \in 0 .. k /\ 0 # k /\ k \in 0 .. F
    BY <1>1
  <2>3. Fun(f, k)
    <3> HIDE DEF e
    <3>. QED  OBVIOUS
  <2>4. f[k] = e /\ f[k - 1] = g[k - 1] /\ f[0] = g[0]
    <3> HIDE DEF e
    <3>. QED  BY <2>2
  <2>5. ASSUME NEW i \in 1 .. (k - 1)  PROVE f[i] = g[i] /\ f[i - 1] = g[i - 1]
    <3>1. i \in 0 .. k /\ i # k /\ i - 1 \in 0 .. k /\ i - 1 # k
      BY <2>2
    <3> HIDE DEF e
    <3>. QED  BY <3>1
  <2> HIDE DEF f, Fun
  <2>6. IsRun(f, k)
    <3>1. ASSUME NEW i \in 1 .. k  PROVE f[i] = Execute(f[i - 1])
      <4>1. CASE i = k
        <5>1. f[i] = e /\ f[i - 1] = g[k - 1]
          BY <2>4, <4>1
        <5>. QED  BY <5>1, Zenon DEF e
      <4>2. CASE i # k
        <5>1. i \in 1 .. (k - 1)
          BY <2>2, <4>2
        <5>2. g[i] = Execute(g[i - 1])
          BY <2>1, <5>1, Zenon DEF IsRun
        <5>3. f[i] = g[i] /\ f[i - 1] = g[i - 1]
          BY <2>5, <5>1
        <5>. QED  BY <5>2, <5>3, Zenon
      <4>. QED  BY <4>1, <4>2
    <3>2. f[0] = Boot
      BY <2>1, <2>4, Zenon DEF IsRun
    <3>. QED  BY <3>1, <3>2, Zenon DEF IsRun
  <2>. QED  BY <2>2, <2>3, <2>6, Zenon
<1>4. F \in T
  <2> HIDE DEF T
  <2>1. \A k \in 0 .. F : k \in T
    BY <1>1, <1>2, <1>3, IntervalInduction
  <2>. QED  BY <1>1, <2>1
<1>5. PICK f : Fun(f, F) /\ IsRun(f, F)
  BY <1>4, Zenon
<1> DEFINE R(c) == c = [n \in 0 .. F |-> IF n = 0 THEN Boot ELSE Execute(c[n - 1])]
           cpu == CHOOSE c : R(c)
<1>6. Run = cpu[F]
  BY DEF Run, F
<1>7. R(f)
  <2>1. \A n \in 0 .. F : f[n] = IF n = 0 THEN Boot ELSE Execute(f[n - 1])
    <3> TAKE n \in 0 .. F
    <3>1. CASE n = 0
      <4>1. f[0] = Boot
        BY <1>5, Zenon DEF IsRun
      <4>. QED  BY <3>1, <4>1, Zenon
    <3>2. CASE n # 0
      <4>1. n \in 1 .. F
        BY <1>1, <3>2
      <4>2. f[n] = Execute(f[n - 1])
        BY <1>5, <4>1, Zenon DEF IsRun
      <4>. QED  BY <3>2, <4>2, Zenon
    <3>. QED  BY <3>1, <3>2
  <2>2. f = [n \in 0 .. F |-> f[n]]
    BY <1>5
  <2>3. [n \in 0 .. F |-> f[n]] = [n \in 0 .. F |-> IF n = 0 THEN Boot ELSE Execute(f[n - 1])]
    BY <2>1, Zenon
  <2>. QED  BY <2>2, <2>3, Zenon
<1>8. R(cpu)
  <2> HIDE DEF R
  <2>. QED  BY <1>7, Zenon
<1> HIDE DEF cpu
<1>9. IsRun(cpu, F)
  <2> DEFINE G == [n \in 0 .. F |-> IF n = 0 THEN Boot ELSE Execute(cpu[n - 1])]
  <2>1. cpu = G
    BY <1>8, Zenon
  <2>2. G[0] = Boot
    BY <1>1
  <2>3. ASSUME NEW k \in 1 .. F  PROVE G[k] = Execute(cpu[k - 1])
    <3>1. k \in 0 .. F /\ k # 0
      BY <1>1
    <3>. QED  BY <3>1, Zenon
  <2> HIDE DEF G
  <2>. QED  BY <2>1, <2>2, <2>3, Zenon DEF IsRun
<1>. QED  BY <1>6, <1>9, Zenon DEF F

\* With steps to spare, a run is through in the end.
LEMMA RunFollows ==
    ASSUME NEW code, Numbered(code), NEW Q, NEW mk, NEW top \in Nat,
           Path(Q, target, heap, code, mk, top), Fuel \in Nat, top < Fuel,
           Len(target) \in Nat, \A b \in DOMAIN heap : Len(heap[b]) \in Nat,
           NEW m \in Nat, TurnsAt(Q, m)
    PROVE  IsThrough(Run, code, mk) /\ (Run.own = "misread" => CarriesRax(code, m))
<1>1. /\ Q \subseteq Stage
      /\ \A x \in Q : x.left = 0 => Arrived(x, target, heap, code, mk)
      /\ \A x \in Q : x.left # 0 => Fetched(x, target, heap, code) /\ \E y \in Q : LeadsTo(x, y)
  BY DEF Path, GoesOn
<1>2. PICK z \in Q : Starts(z, top)
  BY DEF Path
<1>3. PICK f : IsRun(f, Fuel) /\ Run = f[Fuel]
  BY RunSteps
<1>4. ASSUME NEW x \in Stage, Fetched(x, target, heap, code)
      PROVE  Len(CodeIn(target, heap, x.at[1])) \in Nat
  BY <1>4 DEF Fetched, CodeIn
<1> DEFINE F == Fuel
           Now(s, t, x) == IsAt(s, x) /\ RaxOf(s.own, x.done, code, m) /\ x.left + t <= top
           Half(s, t, x) == /\ IsBetween(s, x) /\ RaxOf(s.own, x.done, code, m)
                            /\ IsHop(x) /\ x.left # 0 /\ x.left + t <= top + 1
           Through(s) == IsThrough(s, code, mk) /\ (s.own = "misread" => CarriesRax(code, m))
           Follows(s, t) == Through(s) \/ \E x \in Q : Now(s, t, x) \/ Half(s, t, x)
           T == {t \in 0 .. F : Follows(f[t], t)}
<1>5. F \in Nat /\ top < F /\ Run = f[F] /\ IsRun(f, F)
  BY <1>3
<1> HIDE DEF F
<1>6. 0 \in T
  <2>1. Boot \in CpuState
    BY DEF Boot, CpuState, Addr, TargetBlock, NoBlock, RaxOwners
  <2>2. Boot.end = "" /\ Boot.pc = <<TargetBlock, 1>> /\ Boot.trace = <<>> /\ Boot.count = 0 /\ Boot.blocks = {}
    BY DEF Boot, Addr
  <2>3. Upto(0) = <<>>
    BY DEF Upto
  <2>4. z.at = <<TargetBlock, 1>> /\ z.done = 0 /\ z.seen = {} /\ z.count = 0 /\ z.left <= top
        /\ z.left \in Nat
    BY <1>1, <1>2, StageFields DEF Starts
  <2>5. IsAt(Boot, z)
    <3> HIDE DEF Upto
    <3>. QED  BY <2>1, <2>2, <2>3, <2>4 DEF IsAt
  <2>6. z.left + 0 <= top
    BY <2>4
  <2>7. f[0] = Boot /\ 0 \in 0 .. F
    BY <1>5 DEF IsRun
  <2>9. RaxOf(Boot.own, z.done, code, m)
    BY DEF Boot, RaxOf, RaxOwners
  <2>8. Now(f[0], 0, z)
    BY <2>5, <2>6, <2>7, <2>9
  <2> HIDE DEF Now, Half
  <2>. QED  BY <2>7, <2>8, Zenon
<1>7. ASSUME NEW t \in 1 .. F, t - 1 \in T  PROVE t \in T
  <2> DEFINE s == f[t - 1]
             n == t - 1
  <2>1. f[t] = Execute(s) /\ Follows(s, n)
    BY <1>5, <1>7, Zenon DEF IsRun
  <2>2. t \in 0 .. F /\ n \in Nat /\ t = n + 1
    BY <1>5
  <2> HIDE DEF s, n
  <2>3. SUFFICES Follows(Execute(s), t)
    <3> HIDE DEF Follows
    <3>. QED  BY <2>1, <2>2, Zenon
  <2>4. CASE Through(s)
    <3>1. Execute(s) = s
      BY <2>4, StaysThrough
    <3> HIDE DEF Now, Half, Through
    <3>. QED  BY <2>4, <3>1, Zenon
  <2>5. ASSUME NEW x \in Q, Now(s, n, x)  PROVE Follows(Execute(s), t)
    <3>1. x \in Stage /\ x.left \in Nat /\ IsAt(s, x) /\ x.left + n <= top
          /\ RaxOf(s.own, x.done, code, m) /\ x.done \in Nat
      BY <1>1, <2>5, StageFields
    <3>2. CASE x.left = 0
      <4>1. IsThrough(Execute(s), code, mk) /\ Execute(s).own = s.own
        BY <1>1, <3>1, <3>2, RunsOut
      <4>2. Through(Execute(s))
        BY <3>1, <4>1, Zenon DEF RaxOf
      <4> HIDE DEF Now, Half, Through
      <4>. QED  BY <4>2, Zenon
    <3>3. CASE x.left # 0 /\ IsHop(x)
      <4>1. Fetched(x, target, heap, code)
        BY <1>1, <3>3
      <4>2. IsBetween(Execute(s), x) /\ Execute(s).own = Overwritten(s.own)
        BY <1>4, <3>1, <3>3, <4>1, RunsMov
      <4>5. x.done \in {0, m}
        BY <3>3, Zenon DEF TurnsAt
      <4>6. RaxOf(Execute(s).own, x.done, code, m)
        BY <3>1, <4>2, <4>5, RaxOfJump
      <4>3. x.left + t <= top + 1
        BY <2>2, <3>1
      <4>4. Half(Execute(s), t, x)
        BY <3>3, <4>2, <4>3, <4>6
      <4> HIDE DEF Now, Half
      <4>. QED  BY <4>4, Zenon
    <3>4. CASE x.left # 0 /\ ~IsHop(x)
      <4>1. Fetched(x, target, heap, code)
        BY <1>1, <3>4
      <4>2. PICK y \in Q : LeadsTo(x, y)
        BY <1>1, <3>4
      <4>3. y \in Stage /\ y.left \in Nat /\ x.left = y.left + 1
        BY <1>1, <3>4, <4>2, StageFields DEF LeadsTo
      <4>4. /\ IsAt(Execute(s), y)
            /\ Execute(s).own = IF IsOwn(x) THEN OwnRax(s.own, x.ins.uses) ELSE s.own
        BY <1>4, <3>1, <3>4, <4>1, <4>2, <4>3, RunsPlain
      <4>7. RaxOf(Execute(s).own, y.done, code, m)
        <5>1. CASE IsOwn(x)
          <6>1. x.done < Len(code) /\ x.ins = code[x.done + 1] /\ y.done = x.done + 1
            BY <4>1, <4>2, <5>1, Zenon DEF Fetched, LeadsTo
          <6>2. Len(code) \in Nat
            BY DEF Numbered
          <6> DEFINE d == x.done
                     v == s.own
          <6>3. d \in Nat /\ d < Len(code) /\ RaxOf(v, d, code, m)
            BY <3>1, <6>1
          <6> HIDE DEF d, v
          <6>4. RaxOf(OwnRax(v, code[d + 1].uses), d + 1, code, m)
            BY <6>2, <6>3, RaxOfNext
          <6>. QED  BY <4>4, <5>1, <6>1, <6>4, Zenon DEF d, v
        <5>2. CASE ~IsOwn(x)
          <6>1. y.done = x.done
            BY <4>2, <5>2, Zenon DEF LeadsTo
          <6>. QED  BY <3>1, <4>4, <5>2, <6>1, Zenon
        <5>. QED  BY <5>1, <5>2
      <4>5. y.left + t <= top
        BY <2>2, <3>1, <4>3
      <4>6. Now(Execute(s), t, y)
        BY <4>4, <4>5, <4>7
      <4> HIDE DEF Now, Half
      <4>. QED  BY <4>6, Zenon
    <3>. QED  BY <3>2, <3>3, <3>4
  <2>6. ASSUME NEW x \in Q, Half(s, n, x)  PROVE Follows(Execute(s), t)
    <3>1. x \in Stage /\ x.left \in Nat /\ IsBetween(s, x) /\ IsHop(x) /\ x.left # 0 /\ x.left + n <= top + 1
          /\ RaxOf(s.own, x.done, code, m)
      BY <1>1, <2>6, StageFields
    <3>2. Fetched(x, target, heap, code)
      BY <1>1, <3>1
    <3>3. PICK y \in Q : LeadsTo(x, y)
      BY <1>1, <3>1
    <3>4. y \in Stage /\ y.left \in Nat /\ x.left = y.left + 2
      BY <1>1, <3>1, <3>3, StageFields DEF LeadsTo
    <3>5. IsAt(Execute(s), y) /\ Execute(s).own = s.own
      BY <1>4, <3>1, <3>2, <3>3, <3>4, RunsJmp
    <3>8. y.done = x.done
      BY <3>1, <3>3 DEF LeadsTo, IsHop, IsOwn
    <3>9. RaxOf(Execute(s).own, y.done, code, m)
      BY <3>1, <3>5, <3>8, Zenon
    <3>6. y.left + t <= top
      BY <2>2, <3>1, <3>4
    <3>7. Now(Execute(s), t, y)
      BY <3>5, <3>6, <3>9
    <3> HIDE DEF Now, Half
    <3>. QED  BY <3>7, Zenon
  <2> HIDE DEF Now, Half, Through
  <2>. QED  BY <2>1, <2>4, <2>5, <2>6, Zenon
<1>8. F \in T
  <2> HIDE DEF T
  <2>1. \A t \in 0 .. F : t \in T
    BY <1>5, <1>6, <1>7, IntervalInduction
  <2>. QED  BY <1>5, <2>1
<1>9. Follows(f[F], F)
  BY <1>8, Zenon
<1>10. ASSUME NEW x \in Q  PROVE ~Now(f[F], F, x) /\ ~Half(f[F], F, x)
  <2>1. x.left \in Nat
    BY <1>1, StageFields
  <2>2. ~(x.left + F <= top) /\ ~(x.left # 0 /\ x.left + F <= top + 1)
    BY <1>5, <2>1
  <2>. QED  BY <2>2, Zenon
<1> HIDE DEF Now, Half
<1>. QED  BY <1>5, <1>9, <1>10, Zenon

-----------------------------------------------------------------------------
(***************************************************************************)
(* The patch: the plan.                                                    *)
(***************************************************************************)

WalkStart == [at |-> 0, ok |-> TRUE, safe |-> TRUE]
IsWalk(w, bytes, n) == w[0] = WalkStart /\ \A k \in 1 .. n : w[k] = PlanStep(bytes, w[k - 1])

\* The cursor of the planner, instruction by instruction.
LEMMA WalkSteps ==
    ASSUME NEW bytes
    PROVE  \E w : IsWalk(w, bytes, 8) /\ compute_patch_plan_boundary(bytes) = Boundary(w[8])
<1> DEFINE Fun(f, k) == f = [i \in 0 .. k |-> f[i]]
           T == {k \in 0 .. 8 : \E f : Fun(f, k) /\ IsWalk(f, bytes, k)}
<1>2. 0 \in T
  <2> DEFINE f == [i \in 0 .. 0 |-> WalkStart]
  <2>1. f[0] = WalkStart
    OBVIOUS
  <2>2. IsWalk(f, bytes, 0)
    <3> HIDE DEF f
    <3>. QED  BY <2>1 DEF IsWalk
  <2>3. Fun(f, 0)
    OBVIOUS
  <2> HIDE DEF f, Fun
  <2>4. 0 \in 0 .. 8
    OBVIOUS
  <2>. QED  BY <2>2, <2>3, <2>4, Zenon
<1>3. ASSUME NEW k \in 1 .. 8, k - 1 \in T  PROVE k \in T
  <2>1. PICK g : IsWalk(g, bytes, k - 1)
    BY <1>3, Zenon
  <2> DEFINE e == PlanStep(bytes, g[k - 1])
             f == [i \in 0 .. k |-> IF i = k THEN e ELSE g[i]]
  <2>2. k \in Nat /\ k - 1 \in 0 .. k /\ k \in 0 .. k /\ k - 1 # k /\ 0 \in 0 .. k /\ 0 # k /\ k \in 0 .. 8
    OBVIOUS
  <2>3. Fun(f, k)
    <3> HIDE DEF e
    <3>. QED  OBVIOUS
  <2>4. f[k] = e /\ f[k - 1] = g[k - 1] /\ f[0] = g[0]
    <3> HIDE DEF e
    <3>. QED  BY <2>2
  <2>5. ASSUME NEW i \in 1 .. (k - 1)  PROVE f[i] = g[i] /\ f[i - 1] = g[i - 1]
    <3>1. i \in 0 .. k /\ i # k /\ i - 1 \in 0 .. k /\ i - 1 # k
      BY <2>2
    <3> HIDE DEF e
    <3>. QED  BY <3>1
  <2> HIDE DEF f, Fun
  <2>6. IsWalk(f, bytes, k)
    <3>1. ASSUME NEW i \in 1 .. k  PROVE f[i] = PlanStep(bytes, f[i - 1])
      <4>1. CASE i = k
        <5>1. f[i] = e /\ f[i - 1] = g[k - 1]
          BY <2>4, <4>1
        <5>. QED  BY <5>1, Zenon DEF e
      <4>2. CASE i # k
        <5>1. i \in 1 .. (k - 1)
          BY <2>2, <4>2
        <5>2. g[i] = PlanStep(bytes, g[i - 1])
          BY <2>1, <5>1, Zenon DEF IsWalk
        <5>3. f[i] = g[i] /\ f[i - 1] = g[i - 1]
          BY <2>5, <5>1
        <5>. QED  BY <5>2, <5>3, Zenon
      <4>. QED  BY <4>1, <4>2
    <3>2. f[0] = WalkStart
      BY <2>1, <2>4, Zenon DEF IsWalk
    <3>. QED  BY <3>1, <3>2, Zenon DEF IsWalk
  <2>. QED  BY <2>2, <2>3, <2>6, Zenon
<1>4. 8 \in T
  <2> HIDE DEF T
  <2>1. 8 \in Nat /\ \A k \in 0 .. 8 : k \in T
    BY <1>2, <1>3, IntervalInduction
  <2>. QED  BY <2>1
<1>5. PICK f : Fun(f, 8) /\ IsWalk(f, bytes, 8)
  BY <1>4, Zenon
<1> DEFINE R(c) == c = [n \in 0 .. 8 |-> IF n = 0 THEN WalkStart ELSE PlanStep(bytes, c[n - 1])]
           walk == CHOOSE c : R(c)
<1>6. compute_patch_plan_boundary(bytes) = Boundary(walk[8])
  BY Zenon DEF compute_patch_plan_boundary, PlanSlots, WalkStart
<1>7. R(f)
  <2>1. \A n \in 0 .. 8 : f[n] = IF n = 0 THEN WalkStart ELSE PlanStep(bytes, f[n - 1])
    <3> TAKE n \in 0 .. 8
    <3>1. CASE n = 0
      <4>1. f[0] = WalkStart
        BY <1>5, Zenon DEF IsWalk
      <4>. QED  BY <3>1, <4>1, Zenon
    <3>2. CASE n # 0
      <4>1. n \in 1 .. 8
        BY <3>2
      <4>2. f[n] = PlanStep(bytes, f[n - 1])
        BY <1>5, <4>1, Zenon DEF IsWalk
      <4>. QED  BY <3>2, <4>2, Zenon
    <3>. QED  BY <3>1, <3>2
  <2>2. f = [n \in 0 .. 8 |-> f[n]]
    BY <1>5
  <2>3. [n \in 0 .. 8 |-> f[n]] = [n \in 0 .. 8 |-> IF n = 0 THEN WalkStart ELSE PlanStep(bytes, f[n - 1])]
    BY <2>1, Zenon
  <2>. QED  BY <2>2, <2>3, Zenon
<1>8. R(walk)
  <2> HIDE DEF R
  <2>. QED  BY <1>7, Zenon
<1> HIDE DEF walk
<1>9. IsWalk(walk, bytes, 8)
  <2> DEFINE G == [n \in 0 .. 8 |-> IF n = 0 THEN WalkStart ELSE PlanStep(bytes, walk[n - 1])]
  <2>1. walk = G
    BY <1>8, Zenon
  <2>2. G[0] = WalkStart
    OBVIOUS
  <2>3. ASSUME NEW k \in 1 .. 8  PROVE G[k] = PlanStep(bytes, walk[k - 1])
    <3>1. k \in 0 .. 8 /\ k # 0
      OBVIOUS
    <3>. QED  BY <3>1, Zenon
  <2> HIDE DEF G
  <2>. QED  BY <2>1, <2>2, <2>3, Zenon DEF IsWalk
<1>. QED  BY <1>6, <1>9, Zenon

\* What is captured of a target.
LEMMA CapturedBytes ==
    ASSUME NEW cells \in Seq(Cell), Len(cells) >= 16
    PROVE  /\ Len(Bytes(SubSeq(cells, 1, 16))) = 16
           /\ \A k \in 1 .. 16 : Bytes(SubSeq(cells, 1, 16))[k] = cells[k].ins.enc[cells[k].off]
           /\ DOMAIN Bytes(SubSeq(cells, 1, 16)) = 1 .. 16
           /\ Bytes(SubSeq(cells, 1, 16)) = [k \in 1 .. 16 |-> Bytes(SubSeq(cells, 1, 16))[k]]
<1> DEFINE x == SubSeq(cells, 1, 16)
<1>1. 16 \in 0 .. Len(cells)
  OBVIOUS
<1>2. Len(x) = 16 /\ \A e \in 1 .. 16 : x[e] = cells[e]
  BY <1>1, Pieces
<1> HIDE DEF x
<1>3. Bytes(x) = [k \in 1 .. 16 |-> x[k].ins.enc[x[k].off]]
  BY <1>2 DEF Bytes
<1>4. Len(Bytes(x)) = 16 /\ \A k \in 1 .. 16 : Bytes(x)[k] = x[k].ins.enc[x[k].off]
  BY <1>3
<1>5. DOMAIN Bytes(x) = 1 .. 16 /\ Bytes(x) = [k \in 1 .. 16 |-> Bytes(x)[k]]
  BY <1>3
<1>. QED  BY <1>2, <1>4, <1>5 DEF x

\* A boundary the planner accepts is one of the code, behind instructions
\* that may be moved.
Movable(code, off, at, safe) ==
    \E k \in 0 .. Len(code) : at = off[k] /\ (safe => \A j \in 1 .. k : ~code[j].pcrel)

LEMMA PlanOnCode ==
    ASSUME NEW code \in Seq(Ins), NEW cells \in Seq(Cell), NEW off, Laid(code, cells, off),
           Len(cells) >= 16, Knows(cells), NEW pl,
           pl = compute_patch_plan_boundary(Bytes(SubSeq(cells, 1, 16))), pl.supported, pl.safe
    PROVE  pl.overwrite \in Nat /\ pl.overwrite >= 12 /\ Movable(code, off, pl.overwrite, TRUE)
<1> DEFINE bytes == Bytes(SubSeq(cells, 1, 16))
           N == Len(code)
           W(w) == w.ok => Movable(code, off, w.at, w.safe)
<1>0. \A o \in Nat : ~(o >= 12) => o < 12 /\ o \in 0 .. 11
  OBVIOUS
<1>1. PICK w : IsWalk(w, bytes, 8) /\ pl = Boundary(w[8])
  BY WalkSteps
<1>2. Len(bytes) = 16
  BY CapturedBytes
<1>3. /\ N \in Nat /\ off \in [0 .. N -> Nat] /\ off[0] = 0 /\ off[N] >= 16
      /\ \A k \in 1 .. N : off[k] = off[k - 1] + Len(code[k].enc) /\ Has(cells, off[k - 1] + 1, code[k])
                           /\ code[k] \in Ins
  BY DEF Laid
<1> HIDE DEF N
<1>4. W(WalkStart)
  <2>1. 0 \in 0 .. N /\ \A j \in 1 .. 0 : ~code[j].pcrel
    BY <1>3
  <2>2. WalkStart.at = off[0]
    BY <1>3 DEF WalkStart
  <2>. QED  BY <2>1, <2>2, Zenon DEF Movable, N
<1>5. ASSUME NEW v, W(v)  PROVE W(PlanStep(bytes, v))
  <2> DEFINE d == decode_instruction_x64(SubSeq(bytes, v.at + 1, Len(bytes)))
             u == Advance(v, d)
  <2>1. CASE ~v.ok \/ v.at >= 12 \/ v.at >= Len(bytes)
    <3>1. PlanStep(bytes, v) = v
      BY <2>1, Zenon DEF PlanStep, MinJumpBytes
    <3>. QED  BY <1>5, <3>1, Zenon
  <2>2. CASE v.ok /\ ~(v.at >= 12) /\ ~(v.at >= Len(bytes))
    <3>1. PlanStep(bytes, v) = u
      BY <2>2, Zenon DEF PlanStep, MinJumpBytes
    <3>2. SUFFICES ASSUME u.ok  PROVE Movable(code, off, u.at, u.safe)
      BY <3>1, Zenon
    <3>3. PICK k \in 0 .. N : v.at = off[k] /\ (v.safe => \A j \in 1 .. k : ~code[j].pcrel)
      BY <1>5, <2>2, Zenon DEF Movable, N
    <3>4. u.at = v.at + d.len /\ (u.ok <=> d.ok) /\ (u.safe <=> v.safe /\ d.safe)
      BY Zenon DEF Advance
    <3> HIDE DEF u
    <3>5. off[k] \in Nat /\ off[k] < 12 /\ k # N /\ off[k] \in 0 .. 11
      <4>1. off[k] \in Nat
        BY <1>3
      <4>2. ~(off[k] >= 12)
        BY <2>2, <3>3, Zenon
      <4>3. off[k] < 12 /\ off[k] \in 0 .. 11
        BY <1>0, <4>1, <4>2, Zenon
      <4>. QED  BY <1>3, <4>1, <4>3
    <3>6. k + 1 \in 1 .. N /\ k + 1 \in 0 .. N /\ (k + 1) - 1 = k
      BY <1>3, <3>5
    <3>7. off[k + 1] = off[k] + Len(code[k + 1].enc) /\ Has(cells, off[k] + 1, code[k + 1])
          /\ code[k + 1] \in Ins
      BY <1>3, <3>6
    <3>8. cells[off[k] + 1] = [ins |-> code[k + 1], off |-> 1]
      <4>1. 1 \in 1 .. Len(code[k + 1].enc) /\ (off[k] + 1) + 1 - 1 = off[k] + 1
        BY <3>5, <3>7, InsLength
      <4>. QED  BY <3>7, <4>1 DEF Has
    <3>9. d.len = Len(code[k + 1].enc) /\ (d.safe => ~code[k + 1].pcrel)
      <4>1. off[k] \in 0 .. 11
        BY <3>5, Zenon
      <4>2. d = decode_instruction_x64(SubSeq(Bytes(SubSeq(cells, 1, 16)), off[k] + 1, 16))
        BY <1>2, <3>3, Zenon
      <4>3. d.ok
        BY <3>2, <3>4, Zenon
      <4>4. cells[off[k] + 1].off = 1 /\ cells[off[k] + 1].ins = code[k + 1]
        BY <3>8
      <4>5. 12 - 1 = 11
        OBVIOUS
      <4> DEFINE K(at) == LET e == decode_instruction_x64(SubSeq(Bytes(SubSeq(cells, 1, 16)), at + 1, 16))
                              ins == cells[at + 1].ins
                          IN  cells[at + 1].off = 1 /\ e.ok => e.len = Len(ins.enc) /\ (e.safe => ~ins.pcrel)
      <4>6. \A at \in 0 .. (12 - 1) : K(at)
        BY Zenon DEF Knows, MinJumpBytes, CaptureBytes
      <4> HIDE DEF d, K
      <4>7. K(off[k])
        BY <4>1, <4>5, <4>6
      <4>. QED  BY <4>2, <4>3, <4>4, <4>7, Zenon DEF K
    <3> HIDE DEF d
    <3>10. u.at = off[k + 1]
      BY <3>3, <3>4, <3>7, <3>9
    <3>11. u.safe => \A j \in 1 .. (k + 1) : ~code[j].pcrel
      <4> SUFFICES ASSUME u.safe, NEW j \in 1 .. (k + 1)  PROVE ~code[j].pcrel
        OBVIOUS
      <4>1. CASE j = k + 1
        BY <3>4, <3>9, <4>1, Zenon
      <4>2. CASE j # k + 1
        <5>1. j \in 1 .. k
          BY <3>5, <4>2
        <5>. QED  BY <3>3, <3>4, <5>1, Zenon
      <4>. QED  BY <4>1, <4>2
    <3>. QED  BY <3>6, <3>10, <3>11, Zenon DEF Movable, N
  <2>. QED  BY <2>1, <2>2
<1> DEFINE T == {k \in 0 .. 8 : W(w[k])}
<1> HIDE DEF bytes, W
<1>6. 0 \in T
  <2>1. 0 \in 0 .. 8 /\ w[0] = WalkStart
    BY <1>1 DEF IsWalk
  <2>. QED  BY <1>4, <2>1, Zenon
<1>7. ASSUME NEW k \in 1 .. 8, k - 1 \in T  PROVE k \in T
  <2>1. k \in 0 .. 8
    OBVIOUS
  <2>2. w[k] = PlanStep(bytes, w[k - 1]) /\ W(w[k - 1])
    BY <1>1, <1>7, Zenon DEF IsWalk
  <2>. QED  BY <1>5, <2>1, <2>2, Zenon
<1>8. 8 \in T
  <2> HIDE DEF T
  <2>1. 8 \in Nat /\ \A k \in 0 .. 8 : k \in T
    BY <1>6, <1>7, IntervalInduction
  <2>. QED  BY <2>1
<1> DEFINE e == w[8]
<1>9. W(e)
  BY <1>8, Zenon
<1> HIDE DEF e
<1>10. pl = Boundary(e)
  BY <1>1 DEF e
<1>11. e.ok /\ e.at >= 12 /\ e.safe /\ pl.overwrite = e.at
  <2> DEFINE q == e.ok /\ e.at >= 12
  <2>1. /\ pl.supported = q /\ pl.safe = (q /\ e.safe)
        /\ pl.overwrite = (IF q THEN e.at ELSE 0)
    <3>1. pl = [supported |-> q, safe |-> q /\ e.safe, overwrite |-> IF q THEN e.at ELSE 0]
      BY <1>10, Zenon DEF Boundary, MinJumpBytes
    <3> DEFINE r == q /\ e.safe
               o == IF q THEN e.at ELSE 0
    <3>2. pl = [supported |-> q, safe |-> r, overwrite |-> o]
      BY <3>1
    <3> HIDE DEF q, r, o
    <3>3. pl.supported = q /\ pl.safe = r /\ pl.overwrite = o
      BY <3>2
    <3>. QED  BY <3>3, Zenon DEF r, o
  <2>. QED  BY <2>1, Zenon
<1>12. Movable(code, off, pl.overwrite, e.safe)
  BY <1>9, <1>11, Zenon DEF W
<1>13. pl.overwrite \in Nat
  BY <1>3, <1>12 DEF Movable, N
<1>14. Movable(code, off, pl.overwrite, TRUE)
  BY <1>11, <1>12, Zenon DEF Movable
<1>. QED  BY <1>11, <1>13, <1>14

\* The decoder on the two instructions of an earlier patch's jump.
LEMMA DecodesMov ==
    ASSUME NEW S, NEW x \in Seq(S), Len(x) >= 10, x[1] = 72, x[2] = 184
    PROVE  decode_instruction_x64(x) = [ok |-> TRUE, len |-> 10, safe |-> TRUE]
<1> DEFINE O == {k \in 1 .. Len(x) : ~IsPrefixByte(x[k])}
           m == CHOOSE k \in O : \A j \in O : k <= j
<1>1. Len(x) \in Nat
  OBVIOUS
<1>2. IsPrefixByte(72) /\ ~IsPrefixByte(184)
  BY DEF IsPrefixByte
<1>3. 2 \in O /\ 1 \notin O
  <2>1. 2 \in 1 .. Len(x)
    BY <1>1
  <2>. QED  BY <1>2, <2>1
<1>4. \A k \in O : k \in Nat /\ k >= 2
  BY <1>1, <1>3
<1> HIDE DEF O
<1>5. m = 2
  <2>1. \A j \in O : 2 <= j
    BY <1>4
  <2>2. \A k \in O : (\A j \in O : k <= j) => k = 2
    BY <1>3, <1>4
  <2>. QED  BY <1>3, <2>1, <2>2
<1>6. decode_instruction_x64(x) = DecodeAt(x, m)
  BY <1>3 DEF decode_instruction_x64, O
<1> HIDE DEF m
<1>7. DecodeAt(x, m) = DecodeOpcode(x, 2, 184)
  BY <1>5 DEF DecodeAt
<1>8. \E k \in 1 .. (2 - 1) : x[k] \in 72 .. 79
  <2>1. 1 \in 1 .. (2 - 1) /\ 72 \in 72 .. 79
    OBVIOUS
  <2>. QED  BY <2>1
<1>9. /\ 184 \in 184 .. 191 /\ 184 \notin 80 .. 95 \cup {144, 195, 204} /\ 184 # 104 /\ 184 # 106
      /\ 184 \notin {232, 233} /\ 184 \notin {235} \cup 112 .. 127 /\ 184 # 15
      /\ 184 \notin PlainModRM /\ 184 \notin ModRMImm8 /\ 184 \notin ModRMImm32
  BY DEF PlainModRM, ModRMImm8, ModRMImm32
<1>10. DecodeOpcode(x, 2, 184) = Decoded(10, TRUE, x)
  <2> DEFINE n == IF \E k \in 1 .. (2 - 1) : x[k] \in 72 .. 79 THEN 8 ELSE 4
  <2>1. n = 8
    BY <1>8, Zenon
  <2>2. DecodeOpcode(x, 2, 184) = Decoded(2 + n, TRUE, x)
    BY <1>9 DEF DecodeOpcode
  <2>3. 2 + 8 = 10
    OBVIOUS
  <2>. QED  BY <2>1, <2>2, <2>3, Zenon
<1>11. ~(10 > Len(x))
  BY <1>1
<1>12. Decoded(10, TRUE, x) = [ok |-> TRUE, len |-> 10, safe |-> TRUE]
  BY <1>11 DEF Decoded
<1>13. decode_instruction_x64(x) = DecodeOpcode(x, 2, 184)
  BY <1>6, <1>7, Zenon
<1>14. DecodeOpcode(x, 2, 184) = [ok |-> TRUE, len |-> 10, safe |-> TRUE]
  BY <1>10, <1>12
<1>. QED  BY <1>13, <1>14

LEMMA DecodesJmp ==
    ASSUME NEW S, NEW x \in Seq(S), Len(x) >= 2, x[1] = 255, x[2] = 224
    PROVE  decode_instruction_x64(x) = [ok |-> TRUE, len |-> 2, safe |-> TRUE]
<1> DEFINE O == {k \in 1 .. Len(x) : ~IsPrefixByte(x[k])}
           m == CHOOSE k \in O : \A j \in O : k <= j
<1>1. Len(x) \in Nat
  OBVIOUS
<1>2. ~IsPrefixByte(255)
  BY DEF IsPrefixByte
<1>3. 1 \in O
  <2>1. 1 \in 1 .. Len(x)
    BY <1>1
  <2>. QED  BY <1>2, <2>1
<1>4. \A k \in O : k \in Nat /\ k >= 1
  BY <1>1
<1> HIDE DEF O
<1>5. m = 1
  <2>1. \A j \in O : 1 <= j
    BY <1>4
  <2>2. \A k \in O : (\A j \in O : k <= j) => k = 1
    BY <1>3, <1>4
  <2>. QED  BY <1>3, <2>1, <2>2
<1>6. decode_instruction_x64(x) = DecodeAt(x, m)
  BY <1>3 DEF decode_instruction_x64, O
<1> HIDE DEF m
<1>7. DecodeAt(x, m) = DecodeOpcode(x, 1, 255)
  BY <1>5 DEF DecodeAt
<1>9. /\ 255 \notin 184 .. 191 /\ 255 \notin 80 .. 95 \cup {144, 195, 204} /\ 255 # 104 /\ 255 # 106
      /\ 255 \notin {232, 233} /\ 255 \notin {235} \cup 112 .. 127 /\ 255 # 15
      /\ 255 \in PlainModRM /\ 255 \notin ModRMImm8 /\ 255 \notin ModRMImm32
  BY DEF PlainModRM, ModRMImm8, ModRMImm32
<1>10. DecodeOpcode(x, 1, 255) = WithModRM(x, 1 + 1, 0)
  BY <1>9 DEF DecodeOpcode
<1>11. parse_modrm_sib(x, 2) = [ok |-> TRUE, len |-> 1, rip |-> FALSE]
  <2>1. 224 \div 64 = 3 /\ 224 % 8 = 0
    OBVIOUS
  <2>2. ~(2 > Len(x)) /\ ~(2 + 1 - 1 > Len(x))
    BY <1>1
  <2> DEFINE mod == x[2] \div 64
             rm == x[2] % 8
             sib == rm = 4 /\ mod # 3
             base5 == sib /\ mod = 0 /\ 2 < Len(x) /\ x[2 + 1] % 8 = 5
             disp == IF mod = 1 THEN 1 ELSE IF mod = 2 \/ (mod = 0 /\ rm = 5) \/ base5 THEN 4 ELSE 0
             n == 1 + (IF sib THEN 1 ELSE 0) + disp
             rip == mod = 0 /\ rm = 5
  <2>3. mod = 3 /\ rm = 0
    BY <2>1
  <2>4. ~sib /\ ~rip
    BY <2>3
  <2>5. disp = 0
    BY <2>3, <2>4
  <2>6. n = 1
    <3> HIDE DEF disp, sib
    <3>. QED  BY <2>4, <2>5
  <2>7. parse_modrm_sib(x, 2) = IF 2 > Len(x) \/ 2 + n - 1 > Len(x)
                                THEN [ok |-> FALSE, len |-> 0, rip |-> FALSE]
                                ELSE [ok |-> TRUE, len |-> n, rip |-> rip]
    BY Zenon DEF parse_modrm_sib
  <2>8. rip = FALSE
    BY <2>4
  <2> HIDE DEF n, rip
  <2>. QED  BY <2>2, <2>6, <2>7, <2>8, Zenon
<1>12. WithModRM(x, 2, 0) = Decoded(2 - 1 + 1 + 0, ~FALSE, x)
  BY <1>11 DEF WithModRM, ModRMLength
<1>13. ~(2 > Len(x)) /\ 2 - 1 + 1 + 0 = 2 /\ 1 + 1 = 2
  BY <1>1
<1>14. Decoded(2, ~FALSE, x) = [ok |-> TRUE, len |-> 2, safe |-> TRUE]
  BY <1>13 DEF Decoded
<1>. QED  BY <1>6, <1>7, <1>10, <1>12, <1>13, <1>14

\* An earlier patch's jump is a boundary, and may be moved.
LEMMA PlanOnJump ==
    ASSUME NEW cells \in Seq(Cell), Len(cells) >= 16, NEW g \in Int, Jumps(cells, 1, Addr(g, 1)), NEW pl,
           pl = compute_patch_plan_boundary(Bytes(SubSeq(cells, 1, 16)))
    PROVE  pl.supported /\ pl.safe /\ pl.overwrite = 12
<1> DEFINE bytes == Bytes(SubSeq(cells, 1, 16))
           S == {bytes[k] : k \in 1 .. 16}
           m == MovRax(Addr(g, 1))
<1>1. Len(bytes) = 16 /\ \A k \in 1 .. 16 : bytes[k] = cells[k].ins.enc[cells[k].off]
  BY CapturedBytes
<1>2. bytes[1] = 72 /\ bytes[2] = 184
  <2>1. m \in Ins /\ Len(m.enc) = 10
    BY Written
  <2>2. m.enc[1] = 72 /\ m.enc[2] = 184
    BY DEF MovRax, PatchCode
  <2> HIDE DEF m, bytes
  <2>3. \A j \in 1 .. 10 : cells[1 + j - 1] = [ins |-> m, off |-> j]
    BY <2>1 DEF Jumps, Has, m
  <2>4. cells[1] = [ins |-> m, off |-> 1] /\ cells[2] = [ins |-> m, off |-> 2]
    BY <2>3
  <2>5. cells[1].ins = m /\ cells[1].off = 1 /\ cells[2].ins = m /\ cells[2].off = 2
    BY <2>4
  <2>6. 1 \in 1 .. 16 /\ 2 \in 1 .. 16
    OBVIOUS
  <2>7. /\ bytes[1] = cells[1].ins.enc[cells[1].off]
        /\ bytes[2] = cells[2].ins.enc[cells[2].off]
    BY <1>1, <2>6
  <2>. QED  BY <2>2, <2>5, <2>7
<1>3. bytes[11] = 255 /\ bytes[12] = 224
  <2>1. Len(JmpRax.enc) = 2 /\ JmpRax.enc[1] = 255 /\ JmpRax.enc[2] = 224
    BY Written DEF JmpRax, PatchCode
  <2> HIDE DEF JmpRax, bytes
  <2>3. \A j \in 1 .. 2 : cells[11 + j - 1] = [ins |-> JmpRax, off |-> j]
    BY <2>1 DEF Jumps, Has
  <2>4. cells[11] = [ins |-> JmpRax, off |-> 1] /\ cells[12] = [ins |-> JmpRax, off |-> 2]
    BY <2>3
  <2>5. /\ cells[11].ins = JmpRax /\ cells[11].off = 1
        /\ cells[12].ins = JmpRax /\ cells[12].off = 2
    BY <2>4
  <2>6. 11 \in 1 .. 16 /\ 12 \in 1 .. 16
    OBVIOUS
  <2>7. /\ bytes[11] = cells[11].ins.enc[cells[11].off]
        /\ bytes[12] = cells[12].ins.enc[cells[12].off]
    BY <1>1, <2>6
  <2>. QED  BY <2>1, <2>5, <2>7
<1> DEFINE first == SubSeq(bytes, 1, 16)
           second == SubSeq(bytes, 11, 16)
<1>4. first \in Seq(S) /\ Len(first) = 16 /\ first[1] = 72 /\ first[2] = 184
  <2>1. \A k \in 1 .. 16 : bytes[k] \in S
    BY Zenon
  <2> HIDE DEF S, bytes
  <2>2. first \in Seq(S) /\ Len(first) = 16 /\ \A i \in 1 .. (16 - 1 + 1) : first[i] = bytes[1 + i - 1]
    BY <2>1, SubSeqProperties
  <2>. QED  BY <1>2, <2>2
<1>5. second \in Seq(S) /\ Len(second) = 6 /\ second[1] = 255 /\ second[2] = 224
  <2>1. \A k \in 1 .. 16 : bytes[k] \in S
    BY Zenon
  <2>2. \A k \in 11 .. 16 : k \in 1 .. 16
    OBVIOUS
  <2> HIDE DEF S, bytes
  <2>3. second \in Seq(S) /\ Len(second) = 6 /\ \A i \in 1 .. (16 - 11 + 1) : second[i] = bytes[11 + i - 1]
    BY <2>1, <2>2, SubSeqProperties
  <2>. QED  BY <1>3, <2>3
<1> HIDE DEF S
<1>6. decode_instruction_x64(first) = [ok |-> TRUE, len |-> 10, safe |-> TRUE]
  <2> HIDE DEF first, bytes
  <2>1. Len(first) >= 10
    BY <1>4
  <2>2. \A z \in Seq(S) : Len(z) >= 10 /\ z[1] = 72 /\ z[2] = 184
                            => decode_instruction_x64(z) = [ok |-> TRUE, len |-> 10, safe |-> TRUE]
    BY DecodesMov
  <2>. QED  BY <1>4, <2>1, <2>2, Zenon
<1>7. decode_instruction_x64(second) = [ok |-> TRUE, len |-> 2, safe |-> TRUE]
  <2> HIDE DEF second, bytes
  <2>1. Len(second) >= 2
    BY <1>5
  <2>. QED  BY <1>5, <2>1, DecodesJmp
<1> HIDE DEF bytes
<1> DEFINE W(n) == [at |-> n, ok |-> TRUE, safe |-> TRUE]
<1>8. PlanStep(bytes, W(0)) = W(10)
  <2>1. W(0).ok /\ W(0).at = 0 /\ W(0).safe = TRUE
    OBVIOUS
  <2>2. PlanStep(bytes, W(0)) = Advance(W(0), decode_instruction_x64(first))
    <3>1. ~(0 >= 12) /\ ~(0 >= 16) /\ 0 + 1 = 1
      OBVIOUS
    <3> HIDE DEF W
    <3>. QED  BY <1>1, <2>1, <3>1, Zenon DEF PlanStep, MinJumpBytes
  <2> DEFINE d == decode_instruction_x64(first)
  <2>3. d.len = 10 /\ d.ok = TRUE /\ d.safe = TRUE
    BY <1>6
  <2> HIDE DEF d
  <2>4. (W(0).safe /\ d.safe) = TRUE
    BY <2>1, <2>3
  <2>5. W(0).at + d.len = 10
    BY <2>1, <2>3
  <2>6. Advance(W(0), d) = W(10)
    BY <2>3, <2>4, <2>5, Zenon DEF Advance
  <2>. QED  BY <2>2, <2>6, Zenon DEF d
<1>9. PlanStep(bytes, W(10)) = W(12)
  <2>1. W(10).ok /\ W(10).at = 10 /\ W(10).safe = TRUE
    OBVIOUS
  <2>2. PlanStep(bytes, W(10)) = Advance(W(10), decode_instruction_x64(second))
    <3>1. ~(10 >= 12) /\ ~(10 >= 16) /\ 10 + 1 = 11
      OBVIOUS
    <3> HIDE DEF W
    <3>. QED  BY <1>1, <2>1, <3>1, Zenon DEF PlanStep, MinJumpBytes
  <2> DEFINE d == decode_instruction_x64(second)
  <2>3. d.len = 2 /\ d.ok = TRUE /\ d.safe = TRUE
    BY <1>7
  <2> HIDE DEF d
  <2>4. (W(10).safe /\ d.safe) = TRUE
    BY <2>1, <2>3
  <2>5. W(10).at + d.len = 12
    BY <2>1, <2>3
  <2>6. Advance(W(10), d) = W(12)
    BY <2>3, <2>4, <2>5, Zenon DEF Advance
  <2>. QED  BY <2>2, <2>6, Zenon DEF d
<1>10. PlanStep(bytes, W(12)) = W(12)
  <2>1. W(12).at = 12 /\ 12 >= 12
    OBVIOUS
  <2> HIDE DEF W
  <2>. QED  BY <2>1, Zenon DEF PlanStep, MinJumpBytes
<1>11. PICK w : IsWalk(w, bytes, 8) /\ pl = Boundary(w[8])
  BY WalkSteps DEF bytes
<1>12. w[0] = W(0) /\ \A k \in 1 .. 8 : w[k] = PlanStep(bytes, w[k - 1])
  BY <1>11, Zenon DEF IsWalk, WalkStart
<1> HIDE DEF W
<1>13. w[8] = W(12)
  <2>1. w[1] = W(10)
    <3>1. 1 \in 1 .. 8 /\ 1 - 1 = 0
      OBVIOUS
    <3>. QED  BY <1>8, <1>12, <3>1
  <2>2. w[2] = W(12)
    <3>1. 2 \in 1 .. 8 /\ 2 - 1 = 1
      OBVIOUS
    <3>. QED  BY <1>9, <1>12, <2>1, <3>1
  <2> DEFINE T == {k \in 0 .. 8 : k < 2 \/ w[k] = W(12)}
  <2>3. 0 \in T
    OBVIOUS
  <2>4. ASSUME NEW k \in 1 .. 8, k - 1 \in T  PROVE k \in T
    <3>1. CASE k < 3
      BY <2>2, <3>1
    <3>2. CASE ~(k < 3)
      <4>1. w[k - 1] = W(12)
        BY <2>4, <3>2
      <4>2. w[k] = W(12)
        BY <1>10, <1>12, <4>1
      <4>. QED  BY <4>2
    <3>. QED  BY <3>1, <3>2
  <2> HIDE DEF T
  <2>5. 8 \in Nat /\ \A k \in 0 .. 8 : k \in T
    BY <2>3, <2>4, IntervalInduction
  <2>6. 8 \in T
    BY <2>5
  <2>. QED  BY <2>6 DEF T
<1>14. pl = Boundary(W(12))
  BY <1>11, <1>13, Zenon
<1>15. 12 >= 12
  OBVIOUS
<1>16. W(12).ok = TRUE /\ W(12).at = 12 /\ W(12).safe = TRUE
  BY DEF W
<1> DEFINE q == W(12).ok /\ W(12).at >= 12
           r == q /\ W(12).safe
           o == IF q THEN W(12).at ELSE 0
<1>17. q = TRUE /\ r = TRUE /\ o = 12
  BY <1>15, <1>16
<1>18. pl = [supported |-> q, safe |-> r, overwrite |-> o]
  BY <1>14, Zenon DEF Boundary, MinJumpBytes
<1> HIDE DEF q, r, o
<1>19. pl.supported = q /\ pl.safe = r /\ pl.overwrite = o
  BY <1>18
<1>. QED  BY <1>17, <1>19, Zenon

-----------------------------------------------------------------------------
\* The way of a run over untouched code.
OwnStage(code, off, k) ==
    [at |-> <<TargetBlock, off[k] + 1>>, ins |-> IF k < Len(code) THEN code[k + 1] ELSE JmpRax,
     done |-> k, seen |-> {}, count |-> 0, left |-> Len(code) - k]
OwnPath(code, off) == {OwnStage(code, off, k) : k \in 0 .. Len(code)}

LEMMA OwnStages ==
    ASSUME NEW code, Numbered(code), NEW cells \in Seq(Cell), NEW off, Laid(code, cells, off),
           NEW x \in OwnPath(code, off)
    PROVE  \E k \in 0 .. Len(code) :
              /\ x = OwnStage(code, off, k) /\ off[k] \in Nat
              /\ x \in Stage /\ x.at = <<TargetBlock, off[k] + 1>> /\ x.at[1] = TargetBlock
              /\ x.at[2] = off[k] + 1 /\ x.done = k /\ x.seen = {} /\ x.count = 0 /\ x.left = Len(code) - k
              /\ k < Len(code) => /\ x.ins = code[k + 1] /\ k + 1 \in 1 .. Len(code)
                                  /\ Has(cells, off[k] + 1, code[k + 1])
                                  /\ off[k + 1] = off[k] + Len(code[k + 1].enc)
                                  /\ x.ins.op = "original" /\ IsOwn(x) /\ ~IsHop(x) /\ ~IsMark(x)
<1> DEFINE N == Len(code)
<1>1. PICK k \in 0 .. N : x = OwnStage(code, off, k)
  BY Zenon DEF OwnPath
<1>2. /\ N \in Nat /\ off \in [0 .. N -> Nat]
      /\ \A j \in 1 .. N : /\ off[j] = off[j - 1] + Len(code[j].enc) /\ Has(cells, off[j - 1] + 1, code[j])
                           /\ code[j] \in Ins /\ code[j].op = "original"
  BY DEF Laid, Numbered
<1>3. off[k] \in Nat /\ k \in Nat /\ N - k \in Nat /\ TargetBlock \in Int
  BY <1>2 DEF TargetBlock
<1> DEFINE i == IF k < N THEN code[k + 1] ELSE JmpRax
<1>4. k < N => /\ k + 1 \in 1 .. N /\ Has(cells, off[k] + 1, code[k + 1]) /\ code[k + 1] \in Ins
               /\ off[k + 1] = off[k] + Len(code[k + 1].enc) /\ code[k + 1].op = "original"
  <2> HAVE k < N
  <2>1. k + 1 \in 1 .. N /\ (k + 1) - 1 = k
    BY <1>2, <1>3
  <2> HIDE DEF N
  <2>. QED  BY <1>2, <2>1
<1>5. i \in Ins
  BY <1>4, Written, Zenon
<1>6. k < N => i = code[k + 1]
  OBVIOUS
<1>7. x = [at |-> <<TargetBlock, off[k] + 1>>, ins |-> i, done |-> k, seen |-> {}, count |-> 0,
           left |-> N - k]
  BY <1>1, Zenon DEF OwnStage
<1> HIDE DEF i, N
<1>8. /\ x.at = <<TargetBlock, off[k] + 1>> /\ x.ins = i /\ x.done = k /\ x.seen = {} /\ x.count = 0
      /\ x.left = N - k
  BY <1>7
<1>9. x \in Stage
  <2>1. <<TargetBlock, off[k] + 1>> \in Int \X Int
    BY <1>3
  <2> HIDE DEF TargetBlock
  <2>. QED  BY <1>3, <1>5, <1>7, <2>1 DEF Stage
<1>10. x.at[1] = TargetBlock /\ x.at[2] = off[k] + 1
  BY <1>8
<1>11. ASSUME k < N  PROVE x.ins = code[k + 1] /\ x.ins.op = "original" /\ IsOwn(x) /\ ~IsHop(x) /\ ~IsMark(x)
  <2>1. x.ins = code[k + 1] /\ x.ins.op = "original"
    BY <1>4, <1>6, <1>8, <1>11
  <2>. QED  BY <2>1 DEF IsOwn, IsHop, IsMark
<1>. QED  BY <1>1, <1>3, <1>4, <1>8, <1>9, <1>10, <1>11, Zenon DEF N

LEMMA OwnPathIsPath ==
    ASSUME NEW code, Numbered(code), NEW cells \in Seq(Cell), NEW off, Laid(code, cells, off), NEW hp,
           DOMAIN hp = {}
    PROVE  Path(OwnPath(code, off), cells, hp, code, FALSE, Len(code))
<1> DEFINE N == Len(code)
           Q == OwnPath(code, off)
<1>1. N \in Nat /\ off[0] = 0 /\ off[N] = Len(cells)
  BY DEF Laid, Numbered
<1>2. \A k \in 0 .. N : OwnStage(code, off, k) \in Q
  BY Zenon DEF OwnPath
<1> HIDE DEF Q, N
<1>3. Q \subseteq Stage
  BY OwnStages DEF Q
<1>4. \E x \in Q : Starts(x, N)
  <2> DEFINE x == OwnStage(code, off, 0)
  <2>1. x \in Q
    BY <1>1, <1>2
  <2>2. x.at = <<TargetBlock, off[0] + 1>> /\ x.done = 0 /\ x.seen = {} /\ x.count = 0 /\ x.left = N - 0
    BY DEF OwnStage, N
  <2> HIDE DEF x
  <2>3. Starts(x, N)
    BY <1>1, <2>2 DEF Starts
  <2>. QED  BY <2>1, <2>3
<1>5. ASSUME NEW x \in Q, x.left = 0  PROVE Arrived(x, cells, hp, code, FALSE)
  <2>1. PICK k \in 0 .. N : x.at = <<TargetBlock, off[k] + 1>> /\ x.done = k /\ x.seen = {} /\ x.left = N - k
    BY OwnStages DEF Q, N
  <2>2. k = N
    <3>1. x.left = N - k
      BY <2>1, Zenon
    <3>. QED  BY <1>1, <1>5, <3>1
  <2>3. x.at = <<TargetBlock, Len(cells) + 1>> /\ x.done = N /\ x.seen \ {TargetBlock} = DOMAIN hp
    BY <1>1, <2>1, <2>2
  <2>. QED  BY <2>3, Zenon DEF Arrived, N
<1>6. ASSUME NEW x \in Q, x.left # 0  PROVE Fetched(x, cells, hp, code) /\ GoesOn(x, Q)
  <2>1. PICK k \in 0 .. N :
              /\ off[k] \in Nat
              /\ x \in Stage /\ x.at = <<TargetBlock, off[k] + 1>> /\ x.at[1] = TargetBlock
              /\ x.at[2] = off[k] + 1 /\ x.done = k /\ x.seen = {} /\ x.count = 0 /\ x.left = N - k
              /\ k < N => /\ x.ins = code[k + 1] /\ k + 1 \in 1 .. N
                          /\ Has(cells, off[k] + 1, code[k + 1])
                          /\ off[k + 1] = off[k] + Len(code[k + 1].enc)
                          /\ x.ins.op = "original" /\ IsOwn(x) /\ ~IsHop(x) /\ ~IsMark(x)
    BY OwnStages, Zenon DEF Q, N
  <2>2. k < N
    <3>1. x.left = N - k
      BY <2>1, Zenon
    <3>. QED  BY <1>1, <1>6, <3>1
  <2>3. /\ x.ins = code[k + 1] /\ k + 1 \in 1 .. N /\ Has(cells, off[k] + 1, code[k + 1])
        /\ off[k + 1] = off[k] + Len(code[k + 1].enc) /\ IsOwn(x) /\ ~IsHop(x) /\ ~IsMark(x)
    BY <2>1, <2>2, Zenon
  <2>4. CodeIn(cells, hp, x.at[1]) = cells
    BY <2>1, Zenon DEF CodeIn
  <2>5. Has(CodeIn(cells, hp, x.at[1]), x.at[2], x.ins)
    BY <2>1, <2>3, <2>4, Zenon
  <2>6. x.done < Len(code) /\ x.ins = code[x.done + 1]
    BY <2>1, <2>2, <2>3, Zenon DEF N
  <2>7. x.at[1] = TargetBlock
    BY <2>1, Zenon
  <2>8. x.at[1] \in {TargetBlock} \cup DOMAIN hp
    BY <2>7, Zenon
  <2>9. Fetched(x, cells, hp, code)
    BY <2>3, <2>5, <2>6, <2>7, <2>8, Zenon DEF Fetched
  <2> DEFINE y == OwnStage(code, off, k + 1)
  <2>10. k + 1 \in 0 .. N
    BY <1>1, <2>2
  <2>11. y \in Q
    BY <1>2, <2>10, Zenon
  <2>12. y.at = <<TargetBlock, off[k + 1] + 1>> /\ y.done = k + 1 /\ y.seen = {} /\ y.count = 0
         /\ y.left = N - (k + 1)
    BY DEF OwnStage, N
  <2> HIDE DEF y
  <2>13. y.at = <<x.at[1], x.at[2] + Len(x.ins.enc)>>
    <3>1. Len(x.ins.enc) \in Nat /\ off[k] \in Nat /\ x.at[2] = off[k] + 1
      BY <2>1, StageFields
    <3>2. off[k + 1] = off[k] + Len(x.ins.enc)
      BY <2>3, Zenon
    <3>3. off[k + 1] + 1 = x.at[2] + Len(x.ins.enc)
      BY <3>1, <3>2
    <3>. QED  BY <2>7, <2>12, <3>3, Zenon
  <2>14. x.left = y.left + 1
    <3>1. x.left = N - k /\ y.left = N - (k + 1)
      BY <2>1, <2>12, Zenon
    <3>. QED  BY <1>1, <3>1
  <2>15. y.done = x.done + 1 /\ y.seen = x.seen /\ y.count = x.count
    BY <2>1, <2>12, Zenon
  <2>16. LeadsTo(x, y)
    BY <2>3, <2>13, <2>14, <2>15, Zenon DEF LeadsTo
  <2>. QED  BY <2>9, <2>11, <2>16, Zenon DEF GoesOn
<1>. QED  BY <1>3, <1>4, <1>5, <1>6, Zenon DEF Path, Q, N

\* Untouched code can be cut where the planner says.
LEMMA FreshCut ==
    ASSUME NEW code, Numbered(code), NEW cells \in Seq(Cell), NEW off, Laid(code, cells, off),
           NEW cut \in Nat, cut >= 12, Movable(code, off, cut, TRUE)
    PROVE  Cuttable(OwnPath(code, off), cut, 2) /\ cut <= Len(cells)
<1> DEFINE N == Len(code)
           Q == OwnPath(code, off)
<1>1. /\ N \in Nat /\ off \in [0 .. N -> Nat] /\ off[0] = 0 /\ off[N] = Len(cells) /\ code \in Seq(Ins)
  BY DEF Laid, Numbered
<1>2. \A j, k \in 0 .. N : j <= k => off[j] <= off[k] /\ off[j] + (k - j) <= off[k]
  BY <1>1, LaidMonotone
<1>3. PICK K \in 0 .. N : cut = off[K] /\ \A j \in 1 .. K : ~code[j].pcrel
  BY DEF Movable
<1>4. cut <= Len(cells)
  <2>1. N \in 0 .. N /\ K <= N
    BY <1>1
  <2>2. off[K] <= off[N]
    BY <1>2, <2>1
  <2>. QED  BY <1>1, <1>3, <2>2
<1> DEFINE OK(x, k) ==
              /\ off[k] \in Nat
              /\ x \in Stage /\ x.at = <<TargetBlock, off[k] + 1>> /\ x.at[1] = TargetBlock
              /\ x.at[2] = off[k] + 1 /\ x.done = k /\ x.seen = {} /\ x.count = 0 /\ x.left = N - k
              /\ k < N => /\ x.ins = code[k + 1] /\ k + 1 \in 1 .. N
                          /\ Has(cells, off[k] + 1, code[k + 1])
                          /\ off[k + 1] = off[k] + Len(code[k + 1].enc)
                          /\ x.ins.op = "original" /\ IsOwn(x) /\ ~IsHop(x) /\ ~IsMark(x)
<1>5. \A x \in Q : \E k \in 0 .. N : OK(x, k)
  BY OwnStages, Zenon
<1> HIDE DEF Q, N
<1>6. ASSUME NEW x \in Q, NEW k \in 0 .. N, OK(x, k)
      PROVE  Early(x, cut) <=> k < K
  <2>1. x.at[1] = TargetBlock /\ x.at[2] = off[k] + 1 /\ off[k] \in Nat
    BY <1>6, Zenon
  <2>2. CASE k < K
    <3>1. off[k] + (K - k) <= off[K]
      BY <1>2, <2>2, <1>1
    <3>2. off[k] + 1 <= cut
      BY <1>1, <1>3, <2>1, <2>2, <3>1
    <3>. QED  BY <2>1, <2>2, <3>2, Zenon DEF Early
  <2>3. CASE ~(k < K)
    <3>1. off[K] <= off[k]
      BY <1>1, <1>2, <2>3
    <3>2. ~(off[k] + 1 <= cut)
      BY <1>3, <2>1, <3>1
    <3>. QED  BY <2>1, <2>3, <3>2, Zenon DEF Early
  <2>. QED  BY <2>2, <2>3
<1>7. ASSUME NEW x \in Q, Early(x, cut)
      PROVE  /\ x.left # 0 /\ x.seen = {} /\ ~x.ins.pcrel /\ ~IsHop(x)
             /\ x.at[2] + Len(x.ins.enc) - 1 <= cut
  <2>1. PICK k \in 0 .. N : OK(x, k)
    BY <1>5
  <2>2. k < K
    BY <1>6, <1>7, <2>1, Zenon
  <2>3. k < N /\ k + 1 \in 1 .. K /\ k + 1 \in 0 .. N /\ k + 1 <= K
    BY <1>1, <2>2
  <2>4. /\ x.ins = code[k + 1] /\ off[k + 1] = off[k] + Len(code[k + 1].enc) /\ ~IsHop(x)
        /\ x.at[2] = off[k] + 1 /\ x.left = N - k /\ x.seen = {} /\ off[k] \in Nat /\ x \in Stage
    BY <2>1, <2>3, Zenon
  <2>5. Len(x.ins.enc) \in Nat
    BY <2>4, StageFields
  <2>6. off[k + 1] <= off[K]
    BY <1>2, <2>3
  <2>7. x.at[2] + Len(x.ins.enc) - 1 = off[k + 1] /\ off[k + 1] \in Nat
    <3>1. off[k + 1] = off[k] + Len(x.ins.enc)
      BY <2>4, Zenon
    <3>2. x.at[2] = off[k] + 1 /\ off[k] \in Nat
      BY <2>4, Zenon
    <3>3. \A o, l \in Nat : o + l \in Nat /\ (o + 1) + l - 1 = o + l
      OBVIOUS
    <3>. QED  BY <2>5, <3>1, <3>2, <3>3, Zenon
  <2>8. x.at[2] + Len(x.ins.enc) - 1 <= cut
    BY <1>3, <2>6, <2>7
  <2>9. ~x.ins.pcrel
    BY <1>3, <2>3, <2>4, Zenon
  <2>10. x.left # 0
    BY <1>1, <2>3, <2>4
  <2>. QED  BY <2>4, <2>8, <2>9, <2>10
<1>8. ASSUME NEW x \in Q, NEW y \in Q, LeadsTo(x, y), ~Early(x, cut) \/ IsHop(x)
      PROVE  ~Early(y, cut)
  <2>0. ~Early(x, cut)
    BY <1>7, <1>8, Zenon
  <2>1. PICK k \in 0 .. N : OK(x, k)
    BY <1>5
  <2>2. PICK l \in 0 .. N : OK(y, l)
    BY <1>5
  <2>3. ~(k < K)
    BY <1>6, <2>0, <2>1, Zenon
  <2>4. x.done = k /\ y.done = l
    BY <2>1, <2>2, Zenon
  <2>5. l = k \/ l = k + 1
    BY <1>8, <2>4, Zenon DEF LeadsTo
  <2>6. ~(l < K)
    BY <1>1, <2>3, <2>5
  <2>. QED  BY <1>6, <2>2, <2>6, Zenon
<1>9. 2 \in {0, 2}
  OBVIOUS
<1>10. Cuttable(Q, cut, 2)
  BY <1>7, <1>8, <1>9, Zenon DEF Cuttable
<1>. QED  BY <1>4, <1>10 DEF Q

\* There is no jump in it.
LEMMA OwnPathTurns ==
    ASSUME NEW code, Numbered(code), NEW cells \in Seq(Cell), NEW off, Laid(code, cells, off), NEW n
    PROVE  TurnsAt(OwnPath(code, off), n)
<1> SUFFICES ASSUME NEW x \in OwnPath(code, off), IsHop(x)  PROVE FALSE
  BY Zenon DEF TurnsAt
<1>1. PICK k \in 0 .. Len(code) : x = OwnStage(code, off, k)
  BY Zenon DEF OwnPath
<1>3. x.ins = IF k < Len(code) THEN code[k + 1] ELSE JmpRax
  <2> DEFINE i == IF k < Len(code) THEN code[k + 1] ELSE JmpRax
  <2>1. x = [at |-> <<TargetBlock, off[k] + 1>>, ins |-> i, done |-> k, seen |-> {}, count |-> 0,
             left |-> Len(code) - k]
    BY <1>1, Zenon DEF OwnStage
  <2> HIDE DEF i
  <2>2. x.ins = i
    BY <2>1
  <2>. QED  BY <2>2 DEF i
<1>4. CASE k < Len(code)
  <2>1. Len(code) \in Nat
    BY DEF Numbered
  <2>2. k + 1 \in 1 .. Len(code)
    BY <1>4, <2>1
  <2>3. code[k + 1].op = "original"
    BY <2>2, Zenon DEF Numbered
  <2>. QED  BY <1>3, <1>4, <2>3 DEF IsHop
<1>5. CASE ~(k < Len(code))
  <2>1. JmpRax.op = "jmprax"
    BY DEF JmpRax, PatchCode
  <2>. QED  BY <1>3, <1>5, <2>1 DEF IsHop
<1>. QED  BY <1>4, <1>5

\* The cell before the cut tells how many instructions come before it.
LEMMA CutPlace ==
    ASSUME NEW code, Numbered(code), NEW cells \in Seq(Cell), NEW off, Laid(code, cells, off),
           NEW cut \in Nat, cut >= 12, Movable(code, off, cut, TRUE)
    PROVE  Turning(OwnPath(code, off), cut, 2, cells[cut].ins.arg)
<1> DEFINE N == Len(code)
           Q == OwnPath(code, off)
<1>1. /\ N \in Nat /\ off \in [0 .. N -> Nat] /\ off[0] = 0 /\ code \in Seq(Ins)
      /\ \A k \in 1 .. N : /\ off[k] = off[k - 1] + Len(code[k].enc) /\ Has(cells, off[k - 1] + 1, code[k])
                           /\ code[k] \in Ins /\ code[k].arg = k
  BY DEF Laid, Numbered
<1>2. \A j, k \in 0 .. N : j <= k => off[j] <= off[k] /\ off[j] + (k - j) <= off[k]
  BY <1>1, LaidMonotone
<1>3. PICK K \in 0 .. N : cut = off[K]
  BY DEF Movable
<1> HIDE DEF N
<1>4. K \in 1 .. N
  BY <1>1, <1>3
<1>5. cells[cut].ins.arg = K
  <2> DEFINE i == code[K]
             o == off[K - 1]
             l == Len(i.enc)
  <2>1. i \in Ins /\ i.arg = K /\ cut = o + l /\ Has(cells, o + 1, i)
    BY <1>1, <1>3, <1>4, Zenon
  <2>2. l \in Nat /\ l >= 1 /\ o \in Nat
    <3>1. K - 1 \in 0 .. N
      BY <1>1, <1>4
    <3>2. o \in Nat
      BY <1>1, <3>1
    <3> HIDE DEF i, o
    <3>. QED  BY <2>1, <3>2, InsLength
  <2>3. \A j \in 1 .. l : cells[(o + 1) + j - 1] = [ins |-> i, off |-> j]
    BY <2>1, Zenon DEF Has
  <2> HIDE DEF i, o, l
  <2>4. l \in 1 .. l /\ (o + 1) + l - 1 = cut
    BY <2>1, <2>2
  <2>5. cells[cut] = [ins |-> i, off |-> l]
    BY <2>3, <2>4
  <2>. QED  BY <2>1, <2>5
<1>6. TurnsAt(Q, K)
  BY OwnPathTurns
<1>7. ASSUME NEW y \in Q, y.at = <<TargetBlock, cut + 1>>  PROVE y.done = K
  <2>1. PICK k \in 0 .. N : y.done = k /\ off[k] \in Nat /\ y.at[2] = off[k] + 1
    BY OwnStages DEF N, Q
  <2>2. y.at[2] = cut + 1
    BY <1>7
  <2>3. off[k] = off[K] /\ off[K] \in Nat
    BY <1>1, <1>3, <2>1, <2>2
  <2>4. ~(k < K)
    <3> SUFFICES ASSUME k < K  PROVE FALSE
      OBVIOUS
    <3>1. k \in 0 .. N /\ K \in 0 .. N /\ k <= K
      BY <1>1, <1>4
    <3>2. off[k] + (K - k) <= off[K]
      BY <1>2, <3>1
    <3>. QED  BY <1>4, <2>3, <3>2
  <2>5. ~(K < k)
    <3> SUFFICES ASSUME K < k  PROVE FALSE
      OBVIOUS
    <3>1. k \in 0 .. N /\ K \in 0 .. N /\ K <= k
      BY <1>1, <1>4
    <3>2. off[K] + (k - K) <= off[k]
      BY <1>2, <3>1
    <3>. QED  BY <1>4, <2>3, <3>2
  <2>6. k = K
    BY <1>1, <1>4, <2>4, <2>5
  <2>. QED  BY <2>1, <2>6
<1>8. K \in Nat
  BY <1>4
<1>. QED  BY <1>5, <1>6, <1>7, <1>8, Zenon DEF Turning, Q

\* So can a target that an earlier attempt hooked, behind its jump.
LEMMA HookedCut ==
    ASSUME NEW Q, Q \subseteq Stage, Hooked(Q)
    PROVE  Cuttable(Q, 12, 0)
<1>1. ASSUME NEW x \in Q, Early(x, 12)
      PROVE  x.at = <<TargetBlock, 1>> /\ x.seen = {} /\ IsHop(x) /\ ~x.ins.pcrel /\ x.left # 0
  <2>1. x.at[1] = TargetBlock /\ x.at[2] <= 12 /\ x.at[2] \in Int
    BY <1>1, StageFields DEF Early
  <2>2. ~(x.at[2] >= 13)
    BY <2>1
  <2>. QED  BY <2>1, <2>2, Zenon DEF Hooked
<1>2. ASSUME NEW x \in Q, x.at = <<TargetBlock, 1>>  PROVE x.at[2] + 11 <= 12
  <2>1. x.at[2] = 1
    BY <1>2
  <2>. QED  BY <2>1
<1>3. ASSUME NEW x \in Q, NEW y \in Q, LeadsTo(x, y), ~Early(x, 12) \/ IsHop(x)
      PROVE  ~Early(y, 12)
  <2>1. y.seen = IF IsHop(x) THEN x.seen \cup {x.at[1]} ELSE x.seen
    BY <1>3, Zenon DEF LeadsTo
  <2>2. IsHop(x) => y.seen # {}
    BY <2>1, Zenon
  <2>3. ~IsHop(x) => TargetBlock \in x.seen
    BY Zenon DEF Hooked
  <2>4. y.seen # {}
    BY <2>1, <2>2, <2>3, Zenon
  <2>. QED  BY <1>1, <2>4, Zenon
<1>4. 0 \in {0, 2} /\ 12 \in Nat /\ 12 >= 12
  OBVIOUS
<1>. QED  BY <1>1, <1>2, <1>3, <1>4, Zenon DEF Cuttable

LEMMA Joined ==
    ASSUME NEW x \in Seq(Cell), NEW y \in Seq(Cell)
    PROVE  x \o y \in Seq(Cell) /\ Len(x \o y) = Len(x) + Len(y)
<1> HIDE DEF Cell
<1>. QED  OBVIOUS

\* What the attempt writes.
Writes(tgt, hp, cut, tr, gw, c, T, G, tgt2, hp2) ==
    /\ tgt \in Seq(Cell) /\ cut \in Nat /\ cut >= 12 /\ cut <= Len(tgt)
    /\ tr \in Nat /\ gw \in Nat /\ tr # gw /\ tr \notin DOMAIN hp /\ gw \notin DOMAIN hp
    /\ c \in {0, 1}
    /\ T = SubSeq(tgt, 1, cut) \o emit_mov_rax_jmp_rax(Addr(TargetBlock, cut + 1))
    /\ c = 1 => G = allocate_marker_gateway(Addr(tr, 1))
    /\ c = 0 => G = allocate_passthrough_gateway(Addr(tr, 1))
    /\ tgt2 = emit_mov_rax_jmp_rax(Addr(gw, 1)) \o Assemble([k \in 1 .. (cut - 12) |-> Nop])
                \o SubSeq(tgt, cut + 1, Len(tgt))
    /\ hp2 = [b \in DOMAIN hp \cup {tr, gw} |-> IF b = tr THEN T ELSE IF b = gw THEN G ELSE hp[b]]

LEMMA WritesPatch ==
    ASSUME NEW tgt, NEW hp, NEW cut, NEW tr, NEW gw, NEW c, NEW T, NEW G, NEW tgt2, NEW hp2,
           Writes(tgt, hp, cut, tr, gw, c, T, G, tgt2, hp2)
    PROVE  /\ Patches(tgt, hp, tgt2, hp2, cut, tr, gw, c)
           /\ T \in Seq(Cell) /\ G \in Seq(Cell)
           /\ hp2[tr] = T /\ hp2[gw] = G
<1> DEFINE jg == emit_mov_rax_jmp_rax(Addr(gw, 1))
           jr == emit_mov_rax_jmp_rax(Addr(TargetBlock, cut + 1))
           jt == emit_mov_rax_jmp_rax(Addr(tr, 1))
           ns == Assemble([k \in 1 .. (cut - 12) |-> Nop])
           pre == SubSeq(tgt, 1, cut)
           suf == SubSeq(tgt, cut + 1, Len(tgt))
           ce == Cells(CountEntry)
           jn == jg \o ns
<1>0. /\ tgt \in Seq(Cell) /\ cut \in Nat /\ cut >= 12 /\ cut <= Len(tgt)
      /\ tr \in Nat /\ gw \in Nat /\ tr # gw /\ tr \notin DOMAIN hp /\ gw \notin DOMAIN hp
      /\ c \in {0, 1}
  BY Zenon DEF Writes
<1> USE <1>0
<1>1. /\ Len(tgt) \in Nat /\ cut \in 0 .. Len(tgt) /\ cut - 12 \in Nat /\ TargetBlock \in Int
      /\ cut + 1 \in Int /\ 1 \in Int /\ gw \in Int /\ tr \in Int
  BY <1>0 DEF TargetBlock
<1>2. /\ jg \in Seq(Cell) /\ Len(jg) = 12 /\ Jumps(jg, 1, Addr(gw, 1))
      /\ jr \in Seq(Cell) /\ Len(jr) = 12 /\ Jumps(jr, 1, Addr(TargetBlock, cut + 1))
      /\ jt \in Seq(Cell) /\ Len(jt) = 12 /\ Jumps(jt, 1, Addr(tr, 1))
  BY <1>1, EmitJumps
<1>3. ns \in Seq(Cell) /\ Len(ns) = cut - 12
  BY <1>1, NopsTyped
<1>4. pre \in Seq(Cell) /\ Len(pre) = cut /\ suf \in Seq(Cell) /\ Len(suf) = Len(tgt) - cut
  BY <1>0, <1>1, Pieces
<1>5. CountEntry \in Ins /\ JmpRax \in Ins /\ Len(CountEntry.enc) = 1
      /\ \A b, a \in Int : MovRax(Addr(b, a)) \in Ins
  BY Written
<1>6. ce \in Seq(Cell) /\ Len(ce) = 1 /\ Has(ce, 1, CountEntry)
  BY <1>5, CellsHas
<1>7. T = pre \o jr /\ tgt2 = jn \o suf /\ (c = 0 => G = jt) /\ (c = 1 => G = ce \o jt)
  BY Zenon DEF Writes, allocate_passthrough_gateway, allocate_marker_gateway
<1>8. DOMAIN hp2 = DOMAIN hp \cup {tr, gw} /\ hp2[tr] = T /\ hp2[gw] = G
      /\ \A b \in DOMAIN hp : hp2[b] = hp[b]
  BY <1>0, Zenon DEF Writes
<1>9. ASSUME NEW x \in Seq(Cell), NEW y \in Seq(Cell), NEW p \in Nat, NEW b \in Int, NEW a \in Int,
             Jumps(x, p, Addr(b, a))
      PROVE  Jumps(x \o y, p, Addr(b, a))
  <2>1. Has(x, p, MovRax(Addr(b, a))) /\ Has(x, p + 10, JmpRax)
    BY <1>9 DEF Jumps
  <2>2. MovRax(Addr(b, a)) \in Ins /\ p + 10 \in Nat
    BY <1>5
  <2> HIDE DEF jg, jr, jt, ns, pre, suf, ce, jn
  <2>3. Has(x \o y, p, MovRax(Addr(b, a)))
    BY <2>1, <2>2, HasLeft
  <2>4. Has(x \o y, p + 10, JmpRax)
    BY <1>5, <2>1, <2>2, HasLeft
  <2>. QED  BY <2>3, <2>4 DEF Jumps
<1>10. ASSUME NEW x \in Seq(Cell), NEW y \in Seq(Cell), NEW p \in Nat, NEW b \in Int, NEW a \in Int,
             Jumps(y, 1, Addr(b, a)), Len(x) + 1 = p
      PROVE  Jumps(x \o y, p, Addr(b, a))
  <2>1. Has(y, 1, MovRax(Addr(b, a))) /\ Has(y, 1 + 10, JmpRax)
    BY <1>10 DEF Jumps
  <2>2. MovRax(Addr(b, a)) \in Ins /\ 1 + 10 \in Nat /\ 1 \in Nat /\ Len(x) \in Nat
    BY <1>5
  <2> HIDE DEF jg, jr, jt, ns, pre, suf, ce, jn
  <2>3. Has(x \o y, Len(x) + 1, MovRax(Addr(b, a)))
    BY <2>1, <2>2, HasRight
  <2>4. Has(x \o y, Len(x) + (1 + 10), JmpRax)
    BY <1>5, <2>1, <2>2, HasRight
  <2>5. Len(x) + (1 + 10) = p + 10
    <3>1. \A l \in Nat : l + (1 + 10) = (l + 1) + 10
      OBVIOUS
    <3>. QED  BY <1>10, <2>2, <3>1, Zenon
  <2>. QED  BY <1>10, <2>3, <2>4, <2>5, Zenon DEF Jumps
<1> HIDE DEF jg, jr, jt, ns, pre, suf, ce, jn
<1>11. jn \in Seq(Cell) /\ Len(jn) = cut
  <2>1. jn \in Seq(Cell) /\ Len(jn) = Len(jg) + Len(ns)
    BY <1>2, <1>3, Joined DEF jn
  <2>2. \A k \in Nat : 12 + (k - 12) = k
    OBVIOUS
  <2>. QED  BY <1>2, <1>3, <2>1, <2>2, Zenon
<1>12. T \in Seq(Cell) /\ Jumps(T, cut + 1, Addr(TargetBlock, cut + 1))
  <2>1. T \in Seq(Cell)
    <3>1. pre \o jr \in Seq(Cell)
      BY <1>2, <1>4, Joined
    <3>. QED  BY <1>7, <3>1, Zenon
  <2>2. cut + 1 \in Nat /\ Len(pre) + 1 = cut + 1
    BY <1>4
  <2>3. Jumps(pre \o jr, cut + 1, Addr(TargetBlock, cut + 1))
    BY <1>1, <1>2, <1>4, <1>10, <2>2
  <2>. QED  BY <1>7, <2>1, <2>3, Zenon
<1>13. tgt2 \in Seq(Cell) /\ Len(tgt2) = Len(tgt)
  <2>1. jn \o suf \in Seq(Cell) /\ Len(jn \o suf) = Len(jn) + Len(suf)
    BY <1>4, <1>11, Joined
  <2>2. \A k, l \in Nat : k + (l - k) = l
    OBVIOUS
  <2>3. Len(jn \o suf) = cut + (Len(tgt) - cut)
    BY <1>4, <1>11, <2>1, Zenon
  <2>. QED  BY <1>1, <1>7, <2>1, <2>2, <2>3, Zenon
<1>14. Jumps(tgt2, 1, Addr(gw, 1))
  <2>1. Jumps(jn, 1, Addr(gw, 1))
    BY <1>1, <1>2, <1>3, <1>9 DEF jn
  <2>2. Jumps(jn \o suf, 1, Addr(gw, 1))
    BY <1>1, <1>4, <1>9, <1>11, <2>1
  <2>. QED  BY <1>7, <2>2, Zenon
<1>15. ASSUME NEW i \in Ins, NEW p \in Nat, p > cut, Has(tgt, p, i)  PROVE Has(tgt2, p, i)
  <2>1. p - cut \in Nat /\ p - cut >= 1 /\ cut + (p - cut) = p
    BY <1>15
  <2>2. Has(tgt, cut + (p - cut), i)
    BY <1>15, <2>1
  <2>3. Has(suf, p - cut, i)
    BY <1>1, <2>1, <2>2, HasSuffix DEF suf
  <2>4. Has(jn \o suf, Len(jn) + (p - cut), i)
    BY <1>4, <1>11, <2>1, <2>3, HasRight
  <2>. QED  BY <1>7, <1>11, <2>1, <2>4, Zenon
<1>16. ASSUME NEW i \in Ins, NEW p \in Nat, p + Len(i.enc) - 1 <= cut, Has(tgt, p, i)  PROVE Has(T, p, i)
  <2>1. Has(pre, p, i)
    BY <1>1, <1>16, HasPrefix DEF pre
  <2>2. Has(pre \o jr, p, i)
    BY <1>2, <1>4, <2>1, HasLeft
  <2>. QED  BY <1>7, <2>2, Zenon
<1>17. G \in Seq(Cell) /\ Jumps(G, 1 + c, Addr(tr, 1)) /\ (c = 1 => Has(G, 1, CountEntry))
  <2>1. CASE c = 0
    <3>1. 1 + c = 1 /\ c # 1
      BY <2>1
    <3>. QED  BY <1>2, <1>7, <2>1, <3>1, Zenon
  <2>2. CASE c = 1
    <3>1. 1 + c = 2 /\ Len(ce) + 1 = 2 /\ 2 \in Nat /\ 1 \in Nat
      BY <1>6, <2>2
    <3>2. Jumps(ce \o jt, 2, Addr(tr, 1))
      BY <1>1, <1>2, <1>6, <1>10, <3>1
    <3>3. Has(ce \o jt, 1, CountEntry)
      BY <1>2, <1>5, <1>6, <3>1, HasLeft
    <3>4. ce \o jt \in Seq(Cell)
      BY <1>2, <1>6
    <3>. QED  BY <1>7, <2>2, <3>1, <3>2, <3>3, <3>4, Zenon
  <2>. QED  BY <2>1, <2>2
<1>18. Patches(tgt, hp, tgt2, hp2, cut, tr, gw, c)
  BY <1>8, <1>12, <1>13, <1>14, <1>15, <1>16, <1>17, Zenon DEF Patches
<1>. QED  BY <1>8, <1>12, <1>17, <1>18, Zenon

-----------------------------------------------------------------------------
\* A prologue as it stands in memory.
LEMMA CompiledNumbered ==
    ASSUME NEW p \in Prologues
    PROVE  /\ Numbered(Compiled(p)) /\ Len(Compiled(p)) = Len(p) /\ Len(p) \in Nat
           /\ Len(Assemble(Compiled(p))) >= 16 /\ Knows(Assemble(Compiled(p)))
           /\ \A k \in 1 .. Len(p) : Compiled(p)[k].uses = p[k].uses
<1> DEFINE I == [enc : Seq(0 .. 255), pcrel : BOOLEAN, op : {"original"}, arg : {<<>>}, uses : Uses]
           n == Len(p)
           C(k) == [p[k] EXCEPT !.arg = k]
<1>1. /\ p \in Seq(I) /\ \A k \in 1 .. n : Len(p[k].enc) > 0
      /\ Len(Assemble(Compiled(p))) >= 16 /\ Knows(Assemble(Compiled(p)))
  BY PatchAssumption, Zenon DEF CaptureBytes
<1>2. n \in Nat /\ \A k \in 1 .. n : p[k] \in I
  <2> HIDE DEF I
  <2>. QED  BY <1>1
<1>3. Compiled(p) = [k \in 1 .. n |-> C(k)]
  BY Zenon DEF Compiled
<1>4. ASSUME NEW k \in 1 .. n
      PROVE  C(k) \in Ins /\ C(k).arg = k /\ C(k).op = "original" /\ C(k).uses = p[k].uses
  <2>1. p[k] \in I /\ Len(p[k].enc) > 0 /\ k \in Nat
    BY <1>1, <1>2
  <2> DEFINE v == p[k]
             c == [v EXCEPT !.arg = k]
  <2>2. v \in I /\ Len(v.enc) > 0 /\ c = C(k)
    BY <2>1
  <2> HIDE DEF v
  <2>3. c.enc = v.enc /\ c.arg = k /\ c.op = "original" /\ c.uses = v.uses
    BY <2>2
  <2>4. c \in [enc : Seq(0 .. 255), pcrel : BOOLEAN,
               op : {"original", "movrax", "jmprax", "nop", "count"},
               arg : Nat \cup {<<>>} \cup (Int \X Int), uses : Uses]
    BY <2>1, <2>2
  <2> HIDE DEF c
  <2>5. c \in Ins
    BY <2>2, <2>3, <2>4 DEF Ins
  <2>. QED  BY <2>2, <2>3, <2>5, Zenon DEF v
<1> HIDE DEF n, C
<1>5. Compiled(p) \in Seq(Ins) /\ Len(Compiled(p)) = n /\ \A k \in 1 .. n : Compiled(p)[k] = C(k)
  BY <1>2, <1>3, <1>4
<1>6. Numbered(Compiled(p))
  BY <1>4, <1>5 DEF Numbered
<1>7. \A k \in 1 .. n : Compiled(p)[k].uses = p[k].uses
  BY <1>4, <1>5, Zenon
<1>. QED  BY <1>1, <1>2, <1>5, <1>6, <1>7 DEF n

\* More steps than needed do not matter.
LEMMA LooserPath ==
    ASSUME NEW Q, NEW tgt, NEW hp, NEW code, NEW mk, NEW top \in Nat, NEW more \in Nat, top <= more,
           Path(Q, tgt, hp, code, mk, top)
    PROVE  Path(Q, tgt, hp, code, mk, more)
<1>1. PICK x \in Q : Starts(x, top)
  BY Zenon DEF Path
<1>2. x \in Stage
  BY DEF Path
<1>3. x.left \in Nat
  BY <1>2, StageFields
<1>4. x.left <= more
  <2>1. x.left <= top
    BY <1>1, Zenon DEF Starts
  <2>. QED  BY <1>3, <2>1
<1>5. Starts(x, more)
  BY <1>1, <1>4, Zenon DEF Starts
<1>. QED  BY <1>5, Zenon DEF Path

LEMMA LeastIsIn ==
    ASSUME NEW S, S \subseteq Nat, S # {}
    PROVE  Least(S) \in S
<1>1. Min(S) \in S /\ \A y \in S : Min(S) <= y
  BY MinIsLeast
<1>2. \E x \in S : \A y \in S : x <= y
  BY <1>1
<1>. QED  BY <1>2, Zenon DEF Least

\* An attempt finds two blocks.
LEMMA TwoBlocksFree ==
    ASSUME MaxTries \in Nat, tries \in Nat, tries < MaxTries,
           DOMAIN heap \subseteq 1 .. MaxBlocks, Cardinality(DOMAIN heap) <= 2 * tries
    PROVE  /\ TrampolineBlock \in FreeBlocks /\ GatewayBlock \in FreeBlocks
           /\ TrampolineBlock # GatewayBlock
           /\ FreeBlocks \subseteq 1 .. MaxBlocks /\ FreeBlocks \cap DOMAIN heap = {}
<1> DEFINE D == DOMAIN heap
           F == FreeBlocks
           M == 2 * MaxTries
<1>1. M \in Nat /\ MaxBlocks = M /\ 2 * tries + 2 <= M /\ 2 * tries \in Nat
  BY DEF MaxBlocks
<1>2. F = (1 .. M) \ D /\ D \subseteq 1 .. M /\ Cardinality(D) <= 2 * tries
  BY <1>1 DEF FreeBlocks
<1> HIDE DEF D, F, M
<1>3. IsFiniteSet(1 .. M) /\ Cardinality(1 .. M) = M
  <2>1. IsFiniteSet(1 .. M) /\ Cardinality(1 .. M) = IF 1 > M THEN 0 ELSE M - 1 + 1
    BY <1>1, FS_Interval
  <2>. QED  BY <1>1, <2>1
<1>4. IsFiniteSet(D) /\ Cardinality(D) \in Nat
  BY <1>2, <1>3, FS_Subset, FS_CardinalityType
<1>5. ASSUME NEW x  PROVE ~(F \subseteq {x})
  <2> SUFFICES ASSUME F \subseteq {x}  PROVE FALSE
    OBVIOUS
  <2>1. 1 .. M \subseteq D \cup {x}
    BY <1>2
  <2>2. IsFiniteSet(D \cup {x}) /\ Cardinality(D \cup {x}) <= Cardinality(D) + 1
        /\ Cardinality(D \cup {x}) \in Nat
    <3>1. IsFiniteSet(D \cup {x}) /\ Cardinality(D \cup {x}) \in {Cardinality(D), Cardinality(D) + 1}
      BY <1>4, FS_AddElement
    <3>. QED  BY <1>4, <3>1
  <2>3. Cardinality(1 .. M) <= Cardinality(D \cup {x})
    BY <2>1, <2>2, FS_Subset
  <2>. QED  BY <1>1, <1>2, <1>3, <1>4, <2>2, <2>3
<1>6. F \subseteq Nat
  BY <1>1, <1>2
<1>7. F # {}
  BY <1>5
<1>8. Least(F) \in F
  BY <1>6, <1>7, LeastIsIn
<1>9. F \ {Least(F)} # {}
  BY <1>5
<1>10. Least(F \ {Least(F)}) \in F \ {Least(F)}
  BY <1>6, <1>9, LeastIsIn
<1>. QED  BY <1>1, <1>2, <1>8, <1>10, Zenon DEF TrampolineBlock, GatewayBlock, F, D

-----------------------------------------------------------------------------
(***************************************************************************)
(* The patch: what every step keeps.                                       *)
(***************************************************************************)

PatchTypeOK ==
    /\ program \in Prologues
    /\ target \in Seq(Cell) /\ Len(target) >= CaptureBytes
    /\ tries \in 0 .. MaxTries /\ hits \in Nat /\ markerCount \in Nat
    /\ heap = [b \in DOMAIN heap |-> heap[b]]
    /\ DOMAIN heap \subseteq 1 .. MaxBlocks
    /\ \A b \in DOMAIN heap : heap[b] \in Seq(Cell)

\* Every attempt may leave its two blocks behind, no more.
BlocksCounted == Cardinality(DOMAIN heap) <= 2 * tries

\* The marker gateway is the realized one.
MarkerRealized == realized.write /\ realized.label = "phpr_marker_gateway"

Untouched == target = Assemble(Compiled(program)) /\ DOMAIN heap = {} /\ ~realized.write

StepsLeft(n) == Len(program) + 8 * n

\* The first bytes are a jump, and a run has a way through the code.
HookedTarget ==
    /\ \E g \in Nat : Jumps(target, 1, Addr(g, 1))
    /\ \E mk \in BOOLEAN :
         /\ MarkerRealized => mk
         /\ \E Q : /\ Path(Q, target, heap, Compiled(program), mk, StepsLeft(tries)) /\ Hooked(Q)
                   /\ TurnsAt(Q, MovedInstructions(program))
    /\ MovedInstructions(program) \in Nat

\* A value of the function's own is lost at the cut only.
RaxKept ==
    Run.own = "misread" => /\ MovedInstructions(program) \in Nat
                           /\ CarriesRax(Compiled(program), MovedInstructions(program))

Runnable == Untouched \/ HookedTarget

PatchInv == PatchTypeOK /\ BlocksCounted /\ Runnable /\ MarkerIsEvidence /\ RealizedIsTrue

LEMMA StepsTyped ==
    ASSUME PatchTypeOK
    PROVE  /\ Len(program) \in Nat /\ MaxTries \in Nat /\ tries \in Nat /\ tries <= MaxTries
           /\ StepsLeft(0) = Len(program)
           /\ \A n \in Nat : StepsLeft(n) \in Nat /\ StepsLeft(0) <= StepsLeft(n)
                             /\ StepsLeft(n + 1) = StepsLeft(n) + 8
           /\ Fuel \in Nat /\ StepsLeft(tries) < Fuel
<1>1. Len(program) \in Nat
  BY CompiledNumbered DEF PatchTypeOK
<1>2. MaxTries \in Nat
  BY PatchAssumption
<1>3. tries \in Nat /\ tries <= MaxTries
  BY <1>2 DEF PatchTypeOK
<1>. QED  BY <1>1, <1>2, <1>3 DEF StepsLeft, Fuel

\* However often the target was patched, a call goes through it.
LEMMA CallGoesThrough ==
    ASSUME PatchTypeOK, Runnable
    PROVE  \E mk \in BOOLEAN : (MarkerRealized => mk) /\ IsThrough(Run, Compiled(program), mk) /\ RaxKept
<1> DEFINE code == Compiled(program)
<1>1. Numbered(code) /\ Len(code) = Len(program)
  BY CompiledNumbered DEF PatchTypeOK
<1>2. StepsLeft(tries) \in Nat /\ Fuel \in Nat /\ StepsLeft(tries) < Fuel /\ StepsLeft(0) = Len(program)
      /\ StepsLeft(0) \in Nat /\ StepsLeft(0) <= StepsLeft(tries)
  BY StepsTyped
<1>3. target \in Seq(Cell) /\ \A b \in DOMAIN heap : heap[b] \in Seq(Cell)
  BY DEF PatchTypeOK
<1>4. Len(target) \in Nat /\ \A b \in DOMAIN heap : Len(heap[b]) \in Nat
  BY <1>3
<1> HIDE DEF code
<1>5. ASSUME NEW Q, NEW mk \in BOOLEAN, Path(Q, target, heap, code, mk, StepsLeft(tries)),
             NEW m \in Nat, TurnsAt(Q, m)
      PROVE  IsThrough(Run, code, mk) /\ (Run.own = "misread" => CarriesRax(code, m))
  BY <1>1, <1>2, <1>4, <1>5, RunFollows
<1>6. CASE Untouched
  <2>1. code \in Seq(Ins) /\ target = Assemble(code)
    BY <1>1, <1>6 DEF Numbered, Untouched, code
  <2>2. PICK off : Laid(code, target, off)
    BY <2>1, AssembleLaid
  <2>3. DOMAIN heap = {} /\ ~realized.write
    BY <1>6 DEF Untouched
  <2>4. Path(OwnPath(code, off), target, heap, code, FALSE, Len(code))
    BY <1>1, <1>3, <2>2, <2>3, OwnPathIsPath
  <2>5. Path(OwnPath(code, off), target, heap, code, FALSE, StepsLeft(0))
    BY <1>1, <1>2, <2>4, Zenon
  <2>6. Path(OwnPath(code, off), target, heap, code, FALSE, StepsLeft(tries))
    BY <1>2, <2>5, LooserPath
  <2>10. TurnsAt(OwnPath(code, off), 0)
    BY <1>1, <1>3, <2>2, OwnPathTurns
  <2>7. IsThrough(Run, code, FALSE) /\ (Run.own = "misread" => CarriesRax(code, 0))
    BY <1>5, <2>6, <2>10
  <2>11. ~CarriesRax(code, 0)
    BY DEF CarriesRax
  <2>8. ~MarkerRealized
    BY <2>3, Zenon DEF MarkerRealized
  <2>9. FALSE \in BOOLEAN
    OBVIOUS
  <2>. QED  BY <2>7, <2>8, <2>9, <2>11, Zenon DEF code, RaxKept
<1>7. CASE HookedTarget
  <2>1. PICK mk \in BOOLEAN :
            /\ MarkerRealized => mk
            /\ \E Q : /\ Path(Q, target, heap, code, mk, StepsLeft(tries)) /\ Hooked(Q)
                      /\ TurnsAt(Q, MovedInstructions(program))
    BY <1>7, Zenon DEF HookedTarget, code
  <2>2. MovedInstructions(program) \in Nat
    BY <1>7, Zenon DEF HookedTarget
  <2>3. IsThrough(Run, code, mk) /\ (Run.own = "misread" => CarriesRax(code, MovedInstructions(program)))
    BY <1>5, <2>1, <2>2, Zenon
  <2>. QED  BY <2>1, <2>2, <2>3, Zenon DEF code, RaxKept
<1>. QED  BY <1>6, <1>7 DEF Runnable

\* The attempts that leave the memory as it is.
LEMMA MemoryKept ==
    ASSUME PatchInv, program' = program, target' = target, heap' = heap,
           tries' \in 0 .. MaxTries, tries' >= tries, ~realized'.write, hits' = 0, markerCount' = 0
    PROVE  PatchInv'
<1>1. PatchTypeOK /\ BlocksCounted /\ Runnable
  BY DEF PatchInv
<1>2. PatchTypeOK'
  BY <1>1 DEF PatchTypeOK
<1>3. tries \in Nat /\ tries' \in Nat /\ StepsLeft(tries) \in Nat /\ StepsLeft(tries') \in Nat
      /\ StepsLeft(tries) <= StepsLeft(tries')
  <2>1. Len(program) \in Nat /\ tries \in Nat /\ MaxTries \in Nat
    BY <1>1, StepsTyped
  <2>. QED  BY <2>1 DEF StepsLeft
<1>4. BlocksCounted'
  <2>1. IsFiniteSet(DOMAIN heap)
    <3>1. 1 \in Int /\ MaxBlocks \in Int
      BY <1>1, StepsTyped DEF MaxBlocks
    <3>2. IsFiniteSet(1 .. MaxBlocks)
      BY <3>1, FS_Interval
    <3>. QED  BY <1>1, <3>2, FS_Subset DEF PatchTypeOK
  <2>2. Cardinality(DOMAIN heap) \in Nat
    BY <2>1, FS_CardinalityType
  <2>3. Cardinality(DOMAIN heap) <= 2 * tries
    BY <1>1 DEF BlocksCounted
  <2>4. Cardinality(DOMAIN heap) <= 2 * tries'
    BY <1>3, <2>2, <2>3
  <2>. QED  BY <2>4 DEF BlocksCounted
<1>5. ~MarkerRealized'
  BY Zenon DEF MarkerRealized
<1>6. Runnable'
  <2>1. CASE Untouched
    BY <2>1 DEF Untouched, Runnable
  <2>2. CASE HookedTarget
    <3>1. PICK mk, Q : mk \in BOOLEAN /\
              Path(Q, target, heap, Compiled(program), mk, StepsLeft(tries)) /\ Hooked(Q)
              /\ TurnsAt(Q, MovedInstructions(program))
      BY <2>2, Zenon DEF HookedTarget
    <3>2. Path(Q, target, heap, Compiled(program), mk, StepsLeft(tries'))
      BY <1>3, <3>1, LooserPath
    <3>3. StepsLeft(tries)' = StepsLeft(tries')
      BY DEF StepsLeft
    <3>4. Path(Q, target', heap', Compiled(program'), mk, StepsLeft(tries)')
      BY <3>2, <3>3, Zenon
    <3>6. TurnsAt(Q, MovedInstructions(program)') /\ MovedInstructions(program)' \in Nat
      BY <2>2, <3>1, Zenon DEF HookedTarget
    <3>5. \E g \in Nat : Jumps(target', 1, Addr(g, 1))
      BY <2>2, Zenon DEF HookedTarget
    <3>. QED  BY <1>5, <3>1, <3>4, <3>5, <3>6, Zenon DEF HookedTarget, Runnable
  <2>. QED  BY <1>1, <2>1, <2>2 DEF Runnable
<1>7. MarkerIsEvidence' /\ RealizedIsTrue'
  BY DEF MarkerIsEvidence, RealizedIsTrue
<1>. QED  BY <1>2, <1>4, <1>6, <1>7 DEF PatchInv

\* Where the planner cuts, the way of a run can be cut.
LEMMA CutFound ==
    ASSUME PatchTypeOK, Runnable, Plan.supported, Plan.safe
    PROVE  /\ Plan.overwrite \in Nat /\ Plan.overwrite >= 12 /\ Plan.overwrite <= Len(target)
           /\ \E Q, mk, b : /\ Path(Q, target, heap, Compiled(program), mk, StepsLeft(tries))
                            /\ Cuttable(Q, Plan.overwrite, b)
                            /\ Turning(Q, Plan.overwrite, b, MovedInstructions(program))
<1> DEFINE code == Compiled(program)
           pl == Plan
<1>1. Numbered(code) /\ Len(code) = Len(program) /\ Knows(Assemble(code))
  BY CompiledNumbered DEF PatchTypeOK
<1>2. target \in Seq(Cell) /\ Len(target) >= 16
  BY DEF PatchTypeOK, CaptureBytes
<1>3. StepsLeft(tries) \in Nat /\ StepsLeft(0) = Len(program)
      /\ StepsLeft(0) \in Nat /\ StepsLeft(0) <= StepsLeft(tries)
  BY StepsTyped
<1>4. pl = compute_patch_plan_boundary(Bytes(SubSeq(target, 1, 16))) /\ pl.supported /\ pl.safe
  BY Zenon DEF Plan, CaptureBytes
<1> HIDE DEF code, pl
<1>5. CASE Untouched
  <2>1. code \in Seq(Ins) /\ target = Assemble(code) /\ DOMAIN heap = {}
    BY <1>1, <1>5 DEF Numbered, Untouched, code
  <2>2. PICK off : Laid(code, target, off)
    BY <2>1, AssembleLaid
  <2>3. Path(OwnPath(code, off), target, heap, code, FALSE, Len(code))
    BY <1>1, <1>2, <2>1, <2>2, OwnPathIsPath
  <2>4. Path(OwnPath(code, off), target, heap, code, FALSE, StepsLeft(0))
    BY <1>1, <1>3, <2>3, Zenon
  <2>5. Path(OwnPath(code, off), target, heap, code, FALSE, StepsLeft(tries))
    BY <1>3, <2>4, LooserPath
  <2>6. Knows(target)
    BY <1>1, <2>1, Zenon
  <2>7. pl.overwrite \in Nat /\ pl.overwrite >= 12 /\ Movable(code, off, pl.overwrite, TRUE)
    BY <1>2, <1>4, <2>1, <2>2, <2>6, PlanOnCode
  <2>8. Cuttable(OwnPath(code, off), pl.overwrite, 2) /\ pl.overwrite <= Len(target)
    BY <1>1, <1>2, <2>2, <2>7, FreshCut
  <2>9. Turning(OwnPath(code, off), pl.overwrite, 2, target[pl.overwrite].ins.arg)
    BY <1>1, <1>2, <2>2, <2>7, CutPlace
  <2>10. MovedInstructions(program) = target[pl.overwrite].ins.arg
    BY <1>4, <2>1, Zenon DEF MovedInstructions, CaptureBytes, code
  <2>. QED  BY <2>5, <2>7, <2>8, <2>9, <2>10, Zenon DEF code, pl
<1>6. CASE HookedTarget
  <2>1. PICK mk, Q : mk \in BOOLEAN /\ Path(Q, target, heap, code, mk, StepsLeft(tries)) /\ Hooked(Q)
                     /\ TurnsAt(Q, MovedInstructions(program))
    BY <1>6, Zenon DEF HookedTarget, code
  <2>2. PICK g \in Nat : Jumps(target, 1, Addr(g, 1))
    BY <1>6, Zenon DEF HookedTarget
  <2>3. g \in Int
    OBVIOUS
  <2>4. pl.overwrite = 12
    BY <1>2, <1>4, <2>2, <2>3, PlanOnJump
  <2>5. Q \subseteq Stage
    BY <2>1, Zenon DEF Path
  <2>6. Cuttable(Q, 12, 0)
    BY <2>1, <2>5, HookedCut
  <2>7. 12 \in Nat /\ 12 >= 12 /\ 12 <= Len(target)
    <3>1. Len(target) \in Nat
      BY <1>2
    <3>. QED  BY <1>2, <3>1
  <2>8. 0 # 2
    OBVIOUS
  <2>9. Turning(Q, 12, 0, MovedInstructions(program))
    BY <1>6, <2>1, <2>8, Zenon DEF HookedTarget, Turning
  <2>. QED  BY <2>1, <2>4, <2>6, <2>7, <2>9, Zenon DEF code, pl
<1>. QED  BY <1>5, <1>6 DEF Runnable

\* A successful attempt keeps all of it.
LEMMA AttemptSucceedsKeeps ==
    ASSUME PatchInv, NEW plan \in PatchPlans, NEW variant \in EnvVariants, AttemptSucceeds(plan, variant)
    PROVE  PatchInv'
<1> DEFINE cut == Plan.overwrite
           tr == TrampolineBlock
           gw == GatewayBlock
           marker == use_marker_gateway_variant(variant)
           G == IF marker THEN allocate_marker_gateway(Addr(tr, 1))
                ELSE allocate_passthrough_gateway(Addr(tr, 1))
           T == TrampolineCells(cut)
           code == Compiled(program)
           c == IF marker THEN 1 ELSE 0
           D == DOMAIN heap \cup {tr, gw}
<1>1. PatchTypeOK /\ BlocksCounted /\ Runnable
  BY DEF PatchInv
<1>2. /\ Plan.supported /\ Plan.safe /\ tries < MaxTries /\ tries' = tries + 1
      /\ heap' = [b \in D |-> IF b = tr THEN T ELSE IF b = gw THEN G ELSE heap[b]]
      /\ target' = emit_mov_rax_jmp_rax(Addr(gw, 1)) \o Assemble([k \in 1 .. (cut - 12) |-> Nop])
                     \o SubSeq(target, cut + 1, Len(target))
      /\ realized' = [attempted |-> TRUE, write |-> TRUE, trampoline |-> tr,
                      gateway |-> gw, overwritten |-> cut, error |-> "NONE",
                      label |-> IF marker THEN "phpr_marker_gateway" ELSE "phpr_passthrough_gateway"]
      /\ trampoline' = tr /\ markerCount' = 0 /\ hits' = 0 /\ program' = program
  BY Zenon DEF AttemptSucceeds, Patchable, ClearEvidence, MinJumpBytes
<1>3. /\ target \in Seq(Cell) /\ Len(target) >= 16 /\ DOMAIN heap \subseteq 1 .. MaxBlocks
      /\ program \in Prologues /\ \A b \in DOMAIN heap : heap[b] \in Seq(Cell)
      /\ Cardinality(DOMAIN heap) <= 2 * tries
  BY <1>1 DEF PatchTypeOK, BlocksCounted, CaptureBytes
<1>4. /\ MaxTries \in Nat /\ tries \in Nat /\ StepsLeft(tries) \in Nat
      /\ StepsLeft(tries + 1) = StepsLeft(tries) + 8
  BY <1>1, StepsTyped
<1>5. /\ tr \in FreeBlocks /\ gw \in FreeBlocks /\ tr # gw
      /\ FreeBlocks \subseteq 1 .. MaxBlocks /\ FreeBlocks \cap DOMAIN heap = {}
  BY <1>2, <1>3, <1>4, TwoBlocksFree
<1>6. /\ cut \in Nat /\ cut >= 12 /\ cut <= Len(target)
      /\ \E Q, mk, b : /\ Path(Q, target, heap, code, mk, StepsLeft(tries)) /\ Cuttable(Q, cut, b)
                       /\ Turning(Q, cut, b, MovedInstructions(program))
  BY <1>1, <1>2, CutFound
<1>7. /\ T = SubSeq(target, 1, cut) \o emit_mov_rax_jmp_rax(Addr(TargetBlock, cut + 1))
      /\ (c = 1 => G = allocate_marker_gateway(Addr(tr, 1)))
      /\ (c = 0 => G = allocate_passthrough_gateway(Addr(tr, 1)))
      /\ c \in {0, 1}
  <2>1. T = SubSeq(target, 1, cut) \o emit_mov_rax_jmp_rax(Addr(TargetBlock, cut + 1))
    BY Zenon DEF TrampolineCells
  <2>2. CASE marker
    <3>1. c = 1 /\ c # 0
      BY <2>2
    <3>2. G = allocate_marker_gateway(Addr(tr, 1))
      BY <2>2, Zenon
    <3> HIDE DEF c, G, T
    <3>. QED  BY <2>1, <3>1, <3>2, Zenon
  <2>3. CASE ~marker
    <3>1. c = 0 /\ c # 1
      BY <2>3
    <3>2. G = allocate_passthrough_gateway(Addr(tr, 1))
      BY <2>3, Zenon
    <3> HIDE DEF c, G, T
    <3>. QED  BY <2>1, <3>1, <3>2, Zenon
  <2>. QED  BY <2>2, <2>3
<1>8. c = 1 <=> marker
  BY DEF c
<1>9. /\ realized'.write = TRUE /\ realized'.gateway = gw /\ realized'.trampoline = tr
      /\ realized'.label = "phpr_marker_gateway" => marker
  <2>1. realized'.write = TRUE /\ realized'.gateway = gw /\ realized'.trampoline = tr
        /\ realized'.label = IF marker THEN "phpr_marker_gateway" ELSE "phpr_passthrough_gateway"
    BY <1>2
  <2>. QED  BY <2>1
<1>10. MaxBlocks \in Nat /\ tr \in Nat /\ gw \in Nat /\ tr \in 1 .. MaxBlocks /\ gw \in 1 .. MaxBlocks
      /\ tr \notin DOMAIN heap /\ gw \notin DOMAIN heap
  <2>1. MaxBlocks \in Nat
    BY <1>4 DEF MaxBlocks
  <2> HIDE DEF tr, gw
  <2>. QED  BY <1>5, <2>1
<1> HIDE DEF cut, tr, gw, marker, G, T, c, code, D
<1>11. /\ Patches(target, heap, target', heap', cut, tr, gw, c)
       /\ T \in Seq(Cell) /\ G \in Seq(Cell) /\ heap'[tr] = T /\ heap'[gw] = G
  <2>1. Writes(target, heap, cut, tr, gw, c, T, G, target', heap')
    BY <1>2, <1>3, <1>5, <1>6, <1>7, <1>10, Zenon DEF Writes, D
  <2>. QED  BY <2>1, WritesPatch
<1>12. /\ target' \in Seq(Cell) /\ Len(target') = Len(target) /\ Jumps(target', 1, Addr(gw, 1))
       /\ DOMAIN heap' = D /\ (\A b \in DOMAIN heap : heap'[b] = heap[b])
       /\ Jumps(heap'[gw], 1 + c, Addr(tr, 1))
  BY <1>11, Zenon DEF Patches, D
<1>13. PatchTypeOK'
  <2>1. tries' \in 0 .. MaxTries
    BY <1>2, <1>4
  <2>2. D \subseteq 1 .. MaxBlocks
    BY <1>3, <1>10 DEF D
  <2>3. \A b \in D : heap'[b] \in Seq(Cell)
    <3> TAKE b \in D
    <3>1. b \in DOMAIN heap \/ b = tr \/ b = gw
      BY Zenon DEF D
    <3>. QED  BY <1>3, <1>11, <1>12, <3>1, Zenon
  <2>4. heap' = [b \in D |-> heap'[b]]
    BY <1>2, Zenon
  <2>5. hits' \in Nat /\ markerCount' \in Nat
    BY <1>2
  <2>6. Len(target') >= CaptureBytes
    BY <1>3, <1>12 DEF CaptureBytes
  <2>7. (1 .. MaxBlocks)' = 1 .. MaxBlocks
    BY DEF MaxBlocks
  <2>. QED  BY <1>2, <1>3, <1>12, <2>1, <2>2, <2>3, <2>4, <2>5, <2>6, <2>7, Zenon DEF PatchTypeOK
<1>14. BlocksCounted'
  <2>1. IsFiniteSet(DOMAIN heap)
    <3>1. 1 \in Int /\ MaxBlocks \in Int
      BY <1>10
    <3>2. IsFiniteSet(1 .. MaxBlocks)
      BY <3>1, FS_Interval
    <3>. QED  BY <1>3, <3>2, FS_Subset
  <2> DEFINE A == DOMAIN heap \cup {tr}
  <2>2. Cardinality(DOMAIN heap) \in Nat
    BY <2>1, FS_CardinalityType
  <2>3. IsFiniteSet(A) /\ Cardinality(A) = Cardinality(DOMAIN heap) + 1
    BY <1>10, <2>1, FS_AddElement
  <2>4. gw \notin A /\ D = A \cup {gw}
    BY <1>5, <1>10 DEF D, tr, gw
  <2> HIDE DEF A
  <2>5. Cardinality(D) = Cardinality(A) + 1
    BY <2>3, <2>4, FS_AddElement
  <2>6. Cardinality(D) <= 2 * (tries + 1)
    BY <1>3, <1>4, <2>2, <2>3, <2>5
  <2>. QED  BY <1>2, <1>12, <2>6, Zenon DEF BlocksCounted
<1>15. Runnable'
  <2>1. PICK Q, mk, b : Path(Q, target, heap, code, mk, StepsLeft(tries)) /\ Cuttable(Q, cut, b)
                        /\ Turning(Q, cut, b, MovedInstructions(program))
    BY <1>6, Zenon
  <2> DEFINE n == MovedInstructions(program)
  <2>9. Turning(Q, cut, b, n)
    BY <2>1, Zenon
  <2> HIDE DEF n
  <2>2. PICK R : Path(R, target', heap', code, c = 1, StepsLeft(tries) + 8) /\ Hooked(R) /\ TurnsAt(R, n)
    BY <1>4, <1>11, <2>1, <2>9, PatchedPath
  <2>10. n \in Nat /\ MovedInstructions(program)' = n
    BY <1>2, <2>9, Zenon DEF Turning, n
  <2>3. (c = 1) \in BOOLEAN
    BY Zenon
  <2>4. MarkerRealized' => c = 1
    BY <1>8, <1>9, Zenon DEF MarkerRealized
  <2>5. StepsLeft(tries)' = StepsLeft(tries) + 8
    BY <1>2, <1>4 DEF StepsLeft
  <2>6. code = Compiled(program)'
    BY <1>2 DEF code
  <2>7. Path(R, target', heap', Compiled(program)', c = 1, StepsLeft(tries)')
    BY <2>2, <2>5, <2>6, Zenon
  <2>8. \E g \in Nat : Jumps(target', 1, Addr(g, 1))
    BY <1>10, <1>12, Zenon
  <2>. QED  BY <2>2, <2>3, <2>4, <2>7, <2>8, <2>10, Zenon DEF HookedTarget, Runnable
<1>16. MarkerIsEvidence'
  BY <1>2 DEF MarkerIsEvidence
<1>17. RealizedIsTrue'
  <2>1. target'[1].ins.arg = Addr(gw, 1)
    <3> DEFINE m == MovRax(Addr(gw, 1))
    <3>1. Has(target', 1, m)
      BY <1>12 DEF Jumps
    <3>2. Len(m.enc) = 10
      BY <1>10, Written
    <3>3. m.arg = Addr(gw, 1)
      BY DEF MovRax, PatchCode
    <3> HIDE DEF m
    <3>4. target'[1 + 1 - 1] = [ins |-> m, off |-> 1]
      BY <3>1, <3>2 DEF Has
    <3>5. target'[1] = [ins |-> m, off |-> 1]
      BY <3>4
    <3>. QED  BY <3>3, <3>5
  <2>2. \E k \in 1 .. Len(heap'[gw]) : heap'[gw][k].ins = MovRax(Addr(tr, 1))
    <3> DEFINE m == MovRax(Addr(tr, 1))
    <3>1. Has(G, 1 + c, m) /\ G \in Seq(Cell)
      BY <1>11, <1>12 DEF Jumps
    <3>2. Len(m.enc) = 10
      BY <1>10, Written
    <3> HIDE DEF m
    <3>3. 1 + c \in Nat /\ 1 + c >= 1 /\ 1 + c + 10 - 1 <= Len(G) /\ G[1 + c + 1 - 1] = [ins |-> m, off |-> 1]
      BY <1>7, <3>1, <3>2 DEF Has
    <3>4. 1 + c + 1 - 1 = 1 + c /\ 1 + c \in 1 .. Len(G)
      BY <1>7, <3>1, <3>3
    <3>5. G[1 + c].ins = m
      BY <3>3, <3>4
    <3>. QED  BY <1>11, <3>4, <3>5, Zenon DEF m
  <2>. QED  BY <1>2, <1>9, <2>1, <2>2, Zenon DEF RealizedIsTrue
<1>. QED  BY <1>13, <1>14, <1>15, <1>16, <1>17 DEF PatchInv

\* A failed attempt gives back what it took.
LEMMA AttemptFailsKeeps ==
    ASSUME PatchInv, NEW plan \in PatchPlans, NEW failure \in Failures, AttemptFails(plan, failure)
    PROVE  PatchInv'
<1>1. PatchTypeOK /\ BlocksCounted
  BY DEF PatchInv
<1>2. /\ tries < MaxTries /\ tries' = tries + 1
      /\ heap' = [b \in (DOMAIN heap \cup Allocated(failure)) \ VirtualFreed(failure) |->
                    IF b \in DOMAIN heap THEN heap[b] ELSE <<>>]
      /\ \E error : realized' = set_error(error)
      /\ markerCount' = 0 /\ hits' = 0 /\ program' = program /\ target' = target
  BY Zenon DEF AttemptFails, ClearEvidence
<1>3. MaxTries \in Nat /\ tries \in Nat
  BY <1>1, StepsTyped
<1>4. Allocated(failure) \cap DOMAIN heap = {}
  <2>1. /\ TrampolineBlock \in FreeBlocks /\ GatewayBlock \in FreeBlocks
        /\ FreeBlocks \cap DOMAIN heap = {}
    BY <1>1, <1>2, <1>3, TwoBlocksFree DEF PatchTypeOK, BlocksCounted
  <2>. QED  BY <2>1, Zenon DEF Allocated
<1>5. (DOMAIN heap \cup Allocated(failure)) \ VirtualFreed(failure) = DOMAIN heap
  BY <1>4, Zenon DEF VirtualFreed
<1>6. heap' = heap
  <2>1. heap' = [b \in DOMAIN heap |-> IF b \in DOMAIN heap THEN heap[b] ELSE <<>>]
    BY <1>2, <1>5, Zenon
  <2>2. heap = [b \in DOMAIN heap |-> heap[b]]
    BY <1>1, Zenon DEF PatchTypeOK
  <2>. QED  BY <2>1, <2>2, Zenon
<1>7. ~realized'.write
  BY <1>2 DEF set_error, ResetState
<1>8. tries' \in 0 .. MaxTries /\ tries' >= tries
  BY <1>2, <1>3
<1>. QED  BY <1>2, <1>6, <1>7, <1>8, MemoryKept

\* A call leaves the memory, and counts when it should.
LEMMA CallTargetKeeps ==
    ASSUME PatchInv, CallTarget
    PROVE  PatchInv'
<1>1. PatchTypeOK /\ BlocksCounted /\ Runnable /\ MarkerIsEvidence /\ RealizedIsTrue
  BY DEF PatchInv
<1>2. /\ hits' = hits + 1 /\ markerCount' = markerCount + Run.count
      /\ program' = program /\ target' = target /\ heap' = heap /\ realized' = realized
      /\ trampoline' = trampoline /\ tries' = tries
  BY DEF CallTarget
<1>3. PICK mk \in BOOLEAN : (MarkerRealized => mk) /\ IsThrough(Run, Compiled(program), mk)
  BY <1>1, CallGoesThrough
<1>4. Run.count \in Nat /\ (MarkerRealized => Run.count >= 1)
  <2>1. Run \in CpuState /\ (mk => Run.count >= 1)
    BY <1>3, Zenon DEF IsThrough
  <2>2. Run.count \in Nat
    BY <2>1 DEF CpuState
  <2>. QED  BY <1>3, <2>1, <2>2, Zenon
<1>5. hits \in Nat /\ markerCount \in Nat
  BY <1>1 DEF PatchTypeOK
<1>6. hits' \in Nat /\ markerCount' \in Nat
  BY <1>2, <1>4, <1>5
<1>7. PatchTypeOK'
  BY <1>1, <1>2, <1>6 DEF PatchTypeOK
<1>8. BlocksCounted' /\ RealizedIsTrue'
  BY <1>1, <1>2 DEF BlocksCounted, RealizedIsTrue
<1>9. Runnable'
  <2>1. CASE Untouched
    BY <1>2, <2>1 DEF Untouched, Runnable
  <2>2. CASE HookedTarget
    <3>1. StepsLeft(tries)' = StepsLeft(tries) /\ (MarkerRealized' <=> MarkerRealized)
      BY <1>2 DEF StepsLeft, MarkerRealized
    <3>2. HookedTarget'
      BY <1>2, <2>2, <3>1, Zenon DEF HookedTarget
    <3>. QED  BY <3>2 DEF Runnable
  <2>. QED  BY <1>1, <2>1, <2>2 DEF Runnable
<1>10. MarkerIsEvidence'
  <2>1. markerCount' > 0 => hits' > 0
    BY <1>2, <1>5
  <2>2. MarkerRealized => markerCount >= hits
    BY <1>1, Zenon DEF MarkerIsEvidence, MarkerRealized
  <2>3. ASSUME MarkerRealized  PROVE markerCount' >= hits'
    <3>1. markerCount >= hits /\ Run.count >= 1
      BY <1>4, <2>2, <2>3
    <3>. QED  BY <1>2, <1>4, <1>5, <3>1
  <2>. QED  BY <1>2, <2>1, <2>3, Zenon DEF MarkerIsEvidence, MarkerRealized
<1>. QED  BY <1>7, <1>8, <1>9, <1>10 DEF PatchInv

\* A refusal and a reset leave the memory too.
LEMMA RefuseKeeps ==
    ASSUME PatchInv, NEW error, Refuse(error)
    PROVE  PatchInv'
<1>1. /\ tries < MaxTries /\ tries' = tries + 1 /\ realized' = set_error(error)
      /\ markerCount' = 0 /\ hits' = 0 /\ program' = program /\ target' = target /\ heap' = heap
  BY DEF Refuse, ClearEvidence
<1>2. MaxTries \in Nat /\ tries \in Nat
  BY StepsTyped DEF PatchInv
<1>3. ~realized'.write
  BY <1>1 DEF set_error, ResetState
<1>4. tries' \in 0 .. MaxTries /\ tries' >= tries
  BY <1>1, <1>2
<1>. QED  BY <1>1, <1>3, <1>4, MemoryKept

LEMMA ResetKeeps ==
    ASSUME PatchInv, clf4_phpr_reset
    PROVE  PatchInv'
<1>1. /\ tries' = tries /\ realized' = ResetState
      /\ markerCount' = 0 /\ hits' = 0 /\ program' = program /\ target' = target /\ heap' = heap
  BY DEF clf4_phpr_reset, ClearEvidence
<1>2. MaxTries \in Nat /\ tries \in Nat /\ tries <= MaxTries
  BY StepsTyped DEF PatchInv
<1>3. ~realized'.write
  BY <1>1 DEF ResetState
<1>4. tries' \in 0 .. MaxTries /\ tries' >= tries
  BY <1>1, <1>2
<1>. QED  BY <1>1, <1>3, <1>4, MemoryKept

LEMMA PatchInitInv == PatchInit => PatchInv
<1> SUFFICES ASSUME PatchInit  PROVE PatchInv
  OBVIOUS
<1>1. /\ program \in Prologues /\ target = Assemble(Compiled(program)) /\ heap = <<>>
      /\ realized = ResetState /\ markerCount = 0 /\ hits = 0 /\ tries = 0
  BY DEF PatchInit
<1>2. Numbered(Compiled(program)) /\ Len(Assemble(Compiled(program))) >= 16
  BY <1>1, CompiledNumbered
<1>3. target \in Seq(Cell)
  BY <1>1, <1>2, AssembleLaid DEF Numbered
<1>4. DOMAIN heap = {} /\ heap = [b \in DOMAIN heap |-> heap[b]]
  BY <1>1
<1>5. MaxTries \in Nat
  BY PatchAssumption
<1>6. PatchTypeOK
  BY <1>1, <1>2, <1>3, <1>4, <1>5 DEF PatchTypeOK, CaptureBytes
<1>7. BlocksCounted
  <2>1. Cardinality(DOMAIN heap) = 0
    BY <1>4, FS_EmptySet
  <2>. QED  BY <1>1, <2>1 DEF BlocksCounted
<1>8. ~realized.write
  BY <1>1 DEF ResetState
<1>9. Runnable
  BY <1>1, <1>4, <1>8 DEF Untouched, Runnable
<1>10. MarkerIsEvidence /\ RealizedIsTrue
  BY <1>1, <1>8 DEF MarkerIsEvidence, RealizedIsTrue
<1>. QED  BY <1>6, <1>7, <1>9, <1>10 DEF PatchInv

LEMMA PatchStepInv == PatchInv /\ [PatchNext]_patchVars => PatchInv'
<1> SUFFICES ASSUME PatchInv, [PatchNext]_patchVars  PROVE PatchInv'
  OBVIOUS
<1>1. CASE clf4_phpr_reset
  BY <1>1, ResetKeeps
<1>2. ASSUME NEW plan \in PatchPlans, clf4_phpr_attempt(plan)  PROVE PatchInv'
  <2>1. CASE AttemptRefused(plan)
    <3>1. PICK error : Refuse(error)
      BY <2>1, Zenon DEF AttemptRefused
    <3>. QED  BY <3>1, RefuseKeeps
  <2>2. CASE \E failure \in Failures : AttemptFails(plan, failure)
    BY <2>2, AttemptFailsKeeps
  <2>3. CASE \E variant \in EnvVariants : AttemptSucceeds(plan, variant)
    BY <2>3, AttemptSucceedsKeeps
  <2>. QED  BY <1>2, <2>1, <2>2, <2>3 DEF clf4_phpr_attempt
<1>3. CASE CallTarget
  BY <1>3, CallTargetKeeps
<1>4. CASE UNCHANGED patchVars
  <2>1. /\ program' = program /\ target' = target /\ heap' = heap /\ realized' = realized
        /\ trampoline' = trampoline /\ tries' = tries /\ hits' = hits /\ markerCount' = markerCount
    BY <1>4 DEF patchVars
  <2>2. PatchTypeOK' /\ BlocksCounted'
    BY <2>1 DEF PatchInv, PatchTypeOK, BlocksCounted
  <2>3. Runnable'
    <3>1. StepsLeft(tries)' = StepsLeft(tries) /\ (MarkerRealized' <=> MarkerRealized)
      BY <2>1 DEF StepsLeft, MarkerRealized
    <3>2. Runnable
      BY DEF PatchInv
    <3>. QED  BY <2>1, <3>1, <3>2, Zenon DEF HookedTarget, Runnable, Untouched
  <2>4. MarkerIsEvidence' /\ RealizedIsTrue'
    BY <2>1 DEF PatchInv, MarkerIsEvidence, RealizedIsTrue
  <2>. QED  BY <2>2, <2>3, <2>4 DEF PatchInv
<1>. QED  BY <1>1, <1>2, <1>3, <1>4 DEF PatchNext

\* Whatever attempts were made: the target's code is untouched, or its
\* first bytes jump to a gateway from which there is a way through every
\* instruction of it.
THEOREM PatchInvariant == PatchSpec => []PatchInv
  BY PatchInitInv, PatchStepInv, PTL DEF PatchSpec

\* The patched function still executes what it did (clf4_phpr_attempt), for
\* every prologue the decoder knows and any number of attempts, and it reads
\* an rax that the patch has overwritten (emit_mov_rax_jmp_rax) only when
\* its own value had to cross the cut.
THEOREM PrologueRuns == PatchSpec => []PrologueRunsOnce
<1>1. PatchInv => PrologueRunsOnce
  <2> SUFFICES ASSUME PatchInv  PROVE PrologueRunsOnce
    OBVIOUS
  <2>1. PICK mk \in BOOLEAN : IsThrough(Run, Compiled(program), mk) /\ RaxKept
    BY CallGoesThrough DEF PatchInv
  <2>2. /\ Len(Compiled(program)) = Len(program) /\ Len(program) \in Nat
        /\ \A k \in 1 .. Len(program) : Compiled(program)[k].uses = program[k].uses
    BY CompiledNumbered DEF PatchInv, PatchTypeOK
  <2> DEFINE n == MovedInstructions(program)
             code == Compiled(program)
  <2>3. ASSUME Run.own = "misread"  PROVE CarriesRax(program, n)
    <3>0. n \in Nat /\ CarriesRax(code, n)
      BY <2>1, <2>3, Zenon DEF RaxKept
    <3> HIDE DEF n, code
    <3>1. PICK j \in 1 .. n, k \in (n + 1) .. Len(program) :
            /\ "writes" \in code[j].uses /\ "reads" \in code[k].uses
            /\ \A i \in (j + 1) .. (k - 1) : "writes" \notin code[i].uses
      BY <2>2, <3>0, Zenon DEF CarriesRax, code
    <3>2. j \in 1 .. Len(program) /\ k \in 1 .. Len(program)
          /\ \A i \in (j + 1) .. (k - 1) : i \in 1 .. Len(program)
      BY <2>2, <3>0
    <3>3. /\ "writes" \in program[j].uses /\ "reads" \in program[k].uses
          /\ \A i \in (j + 1) .. (k - 1) : "writes" \notin program[i].uses
      BY <2>2, <3>1, <3>2, Zenon DEF code
    <3>. QED  BY <3>3, Zenon DEF CarriesRax
  <2>. QED  BY <2>1, <2>2, <2>3, Zenon DEF IsThrough, Upto, PrologueRunsOnce
<1>. QED  BY <1>1, PatchInvariant, PTL

\* No block is left behind by an attempt that failed, and none that the
\* code runs through is given back (VirtualFree).
THEOREM NoBlockOrphaned == PatchSpec => []NoOrphanBlock
<1>1. PatchInv => NoOrphanBlock
  <2> SUFFICES ASSUME PatchInv  PROVE NoOrphanBlock
    OBVIOUS
  <2>1. PICK mk \in BOOLEAN : IsThrough(Run, Compiled(program), mk)
    BY CallGoesThrough DEF PatchInv
  <2>. QED  BY <2>1, Zenon DEF IsThrough, NoOrphanBlock
<1>. QED  BY <1>1, PatchInvariant, PTL

\* The marker count is evidence of calls (g_marker_gateway_count).
THEOREM MarkerCounts == PatchSpec => []MarkerIsEvidence
<1>1. PatchInv => MarkerIsEvidence
  BY DEF PatchInv
<1>. QED  BY <1>1, PatchInvariant, PTL

\* A realized patch is in the memory as g_state reports it.
THEOREM RealizedStands == PatchSpec => []RealizedIsTrue
<1>1. PatchInv => RealizedIsTrue
  BY DEF PatchInv
<1>. QED  BY <1>1, PatchInvariant, PTL
=============================================================================
