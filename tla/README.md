# TLA+ models of the numaflow daemon queries, their call path, pod tracker and secret bootstrap

This directory holds TLA+ models of the Go code under `src/`, TLC
configurations that check them on small instances, and TLAPS proofs about every
component but the pending scrape's fold (including refinements of abstract
specifications of the tracker, the buffer queries and the call path) that hold for every value of its constants. `PROJECT.json` lists
the components, runs, mutants, the map from definitions to source lines,
findings, hazards and theorems.

## The system and its parts

| Part | Source | What it does | Module |
|---|---|---|---|
| Replica liveness tracker | `pkg/mvtxdaemon/server/service/runtime/pod_tracker.go` | One goroutine runs a probe round, then one round per tick until `ctx` is cancelled. A round starts one goroutine per replica index. Each goroutine sends a HEAD probe and, on success, raises a shared `atomic.Int32` maximum with a Load/CompareAndSwap retry loop. After `wg.Wait()` the round publishes `max + 1` under an RWMutex. The first round closes a one-shot channel. | `PodTracker`, `PodTrackerProofs`, `AbstractTracker` |
| Buffer queries | `pkg/daemon/server/service/pipeline_metrics_query.go` (`ListBuffers`, `GetBuffer`, `listBuffers`, `getBufferLimits`) | Reads each buffer's counters from the ISB service and resolves its vertex's limits field by field. Computes `usage = min(total/len, (pending+ackPending)/len)` in float64 and `isFull = usage >= pct/100`. | `BufferQuery`, `BufferQueryProofs`, `AbstractBufferQuery` |
| Pending scrape | same file (`GetVertexMetrics`, `getPending`) | GETs the metrics of replicas `0..metricsCount-1` one after the other. Sums the pending series per (partition, period). Any failure returns nil. Builds one record per partition. | `PendingScrape`, `PendingScrapeProofs` |
| Status and errors | same file (`GetPipelineStatus`, `GetVertexErrors`) | Copies the health checker's snapshot, and reads a local error cache that nothing here writes. Both always return `(resp, nil)`. | `DaemonApi` (their result only) |
| Call path of a query | `pkg/apis/proto/daemon/daemon.pb.gw.go`, `daemon_grpc.pb.go`, `pkg/apis/proto/mvtxdaemon/mvtxdaemon_grpc.pb.go` | The grpc-gateway mux handlers (registered locally or through a dialled ClientConn), the generated client stubs, the server `_Handler`s with their optional interceptor, and the `Unimplemented` stubs. | `DaemonApi`, `DaemonApiProofs`, `AbstractDaemonApi` |
| Secret bootstrap | `server/cmd/serversecretinit/start.go`, `secret-init/cmd/start.go` | Init containers that fill `server.secretkey` and `admin.initial-password` in two Kubernetes secrets. The first fills only missing keys; the second always regenerates both. | `SecretInit`, `SecretInitProofs` |
| Routes, container builder | `server/routes`, `monitor_container.go` | Route registration and object construction. | not modelled |

These parts share no state. The daemon serves each RPC on its own goroutine. The only shared mutable value in the Go code is the tracker's `activePodsCount`. Every query reaches its service method along the call path that `DaemonApi` models, and its result travels back along it. The secret programs share only the Kubernetes secrets, with the API server's resourceVersion check between them.

## Modules and how they follow the code

**PodTracker**:
- `tpc` is where the tracker goroutine is: `idle`, `begin` (about to call `updateActivePods`), `spawn` (launch loop), `wait` (`wg.Wait`), `loop` (the `select`) or `stopped`.
- `wpc[i]` is where goroutine `i` is: `probe`, `load`, `cas` or `done`.
- `wg`, `maxActiveIndex`, `currentMax[i]` and `activePodsCount` are the Go variables of the same names.
- `up[i]` (the pod's state) and `tickPending` (the ticker channel, capacity 1) belong to the environment, and so does `cancelled`.
- Actions:
  - `Start`, `BeginRound`, `Spawn`, `EndSpawn`, `EndRound`, `SelectDone` and `SelectTick` are the tracker goroutine's steps;
  - `Probe`, `Load` and `Cas` are the three atomic steps of a probe goroutine: the HEAD request, the atomic Load with its comparison, and the CompareAndSwap with its retry;
  - `PodChange`, `Tick` and `Cancel` are the environment's steps.
- `EndRound` includes both `setActivePodsCount` and the first round's `close`. `GetActivePodsCount` is the read under `RLock`. The RWMutex makes the write and a read exclusive, so a reader sees the last published value, which is what `RoundResult` is about.

**AbstractTracker** is what the tracker promises, without goroutines:
- `NewRound` starts a round with nothing observed.
- `Observe(i)` records a replica that is up.
- `Publish` sets `activePodsCount` to the highest observed index plus one, in one step.
- `SelectDone`, `SelectTick`, `Tick`, `PodChange` and `Cancel` are as in PodTracker.

PodTracker refines it under this mapping (`Abs == INSTANCE AbstractTracker WITH ...`):
- the phase is `tpc` with `begin` as `ready` and `spawn`/`wait` as `round`;
- the observed set is `Succeeded`, the replicas whose probe succeeded this round;
- a successful `Probe` is an `Observe`, and `EndRound` is the `Publish`;
- `Spawn`, `EndSpawn`, `Load`, `Cas` and failed probes are stutters.

**DaemonApi**:
- `pc[r]` is where request slot `r` is on the call path:
  - `annotate`: the mux handler's `AnnotateIncomingContext` or `AnnotateContext`;
  - `params`: the path parameters;
  - `invoke`: `cc.Invoke`;
  - `decode`: the server `_Handler`'s `dec`;
  - `intercept`: the interceptor;
  - `serve`: the method;
  - `reply`: the status on the wire;
  - `write`: `HTTPError` or `ForwardResponseMessage`.
- `gwMode` is the registration in use: `local` (`RegisterDaemonServiceHandlerServer`, which calls the server directly and skips the gRPC server) or `endpoint`.
- `interceptor` says whether the gRPC server has a unary interceptor.
- `regDone` and `connClosed` are the registration ctx and the ClientConn that a goroutine closes once that ctx is done.
- A result is a record `[code, plain, cause]`:
  - `plain` marks a Go error made with `fmt.Errorf`, which `status.Convert` turns into `Unknown`;
  - `cause` says why the method failed.
- `served[r]` is what the service method returned. `writes[r]` is the sequence of codes written to the caller.
- Marshalling of the messages is abstracted to success or failure of each step.

**AbstractDaemonApi** is what a query promises its caller, with the layers in between hidden:
- a request `Arrive`s (over HTTP only for a gateway route);
- its service method runs at most once (`Serve`);
- it is answered once (`Answer`).
- The answer must be in `Allowed(r)`. If the method never ran, that is one of the path's errors (`UnservedCodes`), never OK. Otherwise it is the code the result converts to, or a lost reply's code (`LostCodes`).

DaemonApi refines it under this mapping (`AbsD == INSTANCE AbstractDaemonApi WITH ...`):
- `phaseBar` makes a request `idle` before its first arrival, `answered` at `done`, and `open` in between;
- `Serve` is `Serve`, and `Respond` is `Answer`;
- every other step of the call path, and the gateway's context and connection, is a stutter.

**BufferQuery**:
- `lpc`, `idx` and `acc` are the handler's position, loop index and `buffers` slice. `resp` is the answer.
- Float64 quotients are exact rationals, or `+Inf`, or `NaN` (`FDiv`). Comparisons follow IEEE rules: with NaN everything is false. IEEE division is correctly rounded, so two equal rationals give the same double. With the small integer counters used here, exact rationals therefore decide `usage >= limit` the way the double comparison does.
- `GetBuffer` tries a known buffer and an unknown one, and either call may fail.

**AbstractBufferQuery** answers `ListBuffers` in one step (`List`): an error, or one `Entry` per buffer in `GetAllBuffers` order, each built from counters the ISB service may report. `Get` answers with an error or one buffer's entry. BufferQuery refines it with `Entry <- BufferInfo` and `Counters <- Infos`: `ListBuffers` and `ListOne` are stutters, while `ListFail` and `ListDone` are `List`.

**PendingScrape**:
- `spc`, `ridx`, `sidx` and `total` are the handler's position, replica index, series index and `totalPendingMap`. `got` records what each replica returned.
- A series without a partition label is merged under `""`, as the code does.
- `CallUnknown` is the request for a vertex that is not in the pipeline. `SpecKnown` is the specification restricted to vertices of the pipeline.

**SecretInit**:
- `data` and `rv` are the two secrets' Data and resourceVersion.
- Per instance, the model keeps its step `pc`, the version `seenRv` it read, and the `out` map it will write.
- The API server applies an Update only if `rv` equals the version read (409 Conflict otherwise). An applied Update may still return an error to the caller.
- `Restart` reruns an init container that failed, finished, or died mid-call. `AdminDelete` is an administrator removing a key.

## Runs

| Run | Bounds | Checks | Result |
|---|---|---|---|
| `pod_tracker` | MaxReplicas = 3 | TypeOK, RoundResult, MaxIndexMonotone, FirstUpdate, CancelStops, Refinement | pass (about 52k states) |
| `buffer_query` | 2 buffers of 2 vertices: one overrides only the length, the other only the percentage; counters 0..3 | ListComplete, GetCorrect, Refinement | pass (about 8.6k states) |
| `buffer_zero_length` | pipeline length 0 | ZeroLengthSurfaced | violation (finding) |
| `secret_init` | 2 serversecretinit + 1 secret-init instances, 2 reruns each, 1 admin deletion | NoRotation, KeptUntilEdit | pass (about 750k states) |
| `secret_init_keeps_keys` | same | ExistingKeysKept | violation (finding) |
| `pending_scrape` | a source vertex and a 2-partition reduce vertex; 5 expositions (one series, two series, two series under one key, an unlabelled series, none) | MergeCorrect | pass |
| `vertex_metrics_unknown` | a request for a name that is not a vertex | NoPanic | violation (finding) |
| `daemon_api` | 2 request slots, each reused; any of the 9 methods over HTTP or gRPC; both gateway modes, with and without an interceptor | SingleReply, StatusPreserved | pass (about 840k states) |
| `daemon_api_refinement` | 1 request slot, reused; same methods, modes and failures | Refinement | pass (about 2.5k states) |
| `daemon_api_notfound` | same | NotFoundSurfaced | violation (finding) |

Why these bounds are enough:
- **PodTracker:** three replicas give every CAS ordering: a higher index stored before a lower one, a failed CAS retried, and a worker that stops after loading a larger value.
- **BufferQuery:** counters up to 3 with lengths 2 and 3 make usage land below, exactly at and above the limit, and make either quotient the smaller one.
- **SecretInit:** two racing instances plus reruns reach the conflict, the lost-reply and the rerun-after-success cases. One deletion reaches the one-key-missing case.
- **PendingScrape:** the expositions include duplicate keys within one replica and across replicas.
- **DaemonApi:** the ClientConn closes while one request is in flight and another arrives. Two slots, each reusable, give both orders. Every failure point of the call path can be taken by either request. The refinement run has a single slot, because requests share only the gateway's mode and connection, which the single slot still sees change at every point. Checking the refinement on the two-slot model takes three minutes for the same question, and the proof covers any number of slots.

Each property of a passing run has a mutant in `PROJECT.json`: the mapped definition changed the way a plausible bug would change it (a plain Store in place of the CAS, a missing `wg.Done`, a skipped failure, an overwrite in place of a sum). TLC finds the property violated under each mutant.

## Fairness

`FairSpec` of PodTracker:
- Weak fairness on the tracker's and the workers' steps. They are runnable goroutines, and the Go scheduler eventually runs a runnable goroutine.
- Weak fairness on `Tick`. The ticker keeps firing until it is stopped.
- Strong fairness on `SelectDone` and `SelectTick`. Go's `select` picks uniformly at random among its ready cases, so a case that is ready infinitely often is taken with probability 1.
- No fairness for pods going up or down, or for cancellation. Those belong to the environment.

The other modules check only safety.

## Properties

- **RoundResult**: a published `activePodsCount` is the highest index whose probe succeeded in the last round, plus one (0 if none succeeded).
- **MaxIndexMonotone**: no step of a round lowers the shared maximum.
- **FirstUpdate**: the first round completes (`<>firstUpdateDone`).
- **CancelStops**: after cancellation the loop stops, even though ticks keep arriving.
- **ListComplete / GetCorrect**: a successful answer lists every buffer in order. Each entry has the resolved length, `usage = min(...)/len` and `isFull = usage >= pct/100`.
- **MergeCorrect**: getPending returns nil, or the sum per (partition, period) over every series of all `metricsCount` replicas. It is never a partial map.
- **NoRotation**: a present server-secret key is never replaced by another value in one step.
- **KeptUntilEdit**: until the administrator deletes a key, no step removes or changes a key of the server secret. The key loss of finding 2 therefore needs an administrator's edit first.
- **Refinement** (BufferQuery): the loop of listBuffers implements AbstractBufferQuery. A client never sees a partial, reordered or mixed list.
- **Refinement** (DaemonApi): the call path implements AbstractDaemonApi. This is stronger than StatusPreserved in two ways: the service method runs at most once per request, and a request the method never saw is never answered OK.
- **Refinement**: PodTracker implements AbstractTracker. The lock-free maximum publishes what a single atomic "highest replica seen up, plus one" would.
- **SingleReply**: every request is answered exactly once on every path: each `HTTPError` is followed by a return, and nothing is written before the answer.
- **StatusPreserved**: the service's result reaches the caller unchanged, in both gateway modes and over gRPC, unless the transport lost the reply (`DeadlineExceeded`, or `Canceled` on a closed ClientConn). An OK result arrives as OK, an unimplemented method as `Unimplemented`, and a failure is never reported as OK.

## Findings

1. **Zero buffer length** (`pipeline_metrics_query.go:308`, also line 117). The code answers successfully with usage `+Inf` (full) or `NaN` (not full). Spec §4.3 and §7 require a ConfigurationError.
2. **serversecretinit drops an existing key** (`serversecretinit/start.go:79`). `k8sSecret.Data = secretMap` keeps only the generated keys. If an administrator deletes `admin.initial-password` and the pod restarts, the rerun deletes `server.secretkey`. The run after that generates a new session key.
3. **Unknown vertex** (`pipeline_metrics_query.go:145`). `GetVertexMetrics` dereferences the nil returned by `GetVertex`. Spec §7 requires NotFound.
4. **NotFound surfaces as Unknown** (`pipeline_metrics_query.go:114`). `GetBuffer` reports a requested buffer that no vertex owns with `fmt.Errorf`. The same check in `listBuffers` (line 305) never fires, because every buffer that `GetAllBuffers` lists has an owner. The gRPC server and `runtime.HTTPError` convert this plain error to `codes.Unknown` (HTTP 500). Spec §7 says NotFound is surfaced to the caller verbatim.

## Proofs (PodTrackerProofs)

The following are proved with TLAPS for every natural `MaxReplicas` (assumption `MaxReplicasAssumption`):
- `TypeCorrect` (Spec => []TypeOK);
- `RoundResultHolds` (Spec => []RoundResult);
- `MaxIndexMonotoneHolds` (Spec => [][MaxIndexNeverLowered]_vars);
- `RefinementHolds` (Spec => Refinement, i.e. Spec => Abs!Spec).

RoundResult is not inductive by itself. The inductive invariant `IInv` strengthens it with these facts:
- `wg` equals the number of goroutines in `probe`, `load` or `cas` (so `wg = 0` means every goroutine has returned);
- exactly the indices below `spawned` have been launched;
- a goroutine is past its probe only if the probe succeeded;
- `maxActiveIndex` is NoIndex or the index of a finished successful goroutine, and it is at least every such index;
- a goroutine at its CompareAndSwap loaded a value below its own index and not above the current maximum;
- once a round is published, every goroutine is done and `activePodsCount = maxActiveIndex + 1`.

The proof runs in three steps:
1. `InitIInv` shows that Init establishes IInv.
2. `NextIInv` shows that every action preserves IInv, with one case per action and, for the workers, one step per conjunct.
3. `IInvRoundResult` derives RoundResult from IInv, and `StepNeverLowers` derives the action property.

The refinement proof follows the usual three steps:
1. `InitRefines` maps Init to `Abs!Init`.
2. `RefineStep` shows that, under IInv and `Quiet`, every step is an abstract step or a stutter of the abstract variables. There is one case per action. A successful probe of a replica not yet in `Succeeded` is `Observe`, and `EndRound` is `Publish`.
3. PTL combines the two.

`Quiet` (proved inductive by `InitQuiet` and `NextQuiet`) says that outside `spawn` and `wait` no goroutine is running. It makes probes happen only in an abstract round. `RoundEnds` shows that at the end of `wg.Wait()` the maximum is the highest index in `Succeeded`, which is the guard of `Publish`.

Cardinality facts come from `FiniteSetTheorems`. TLC also checked IInv as an invariant with MaxReplicas = 3 before the proof was written.

## Proofs of the other components

Each of these modules EXTENDS its model and TLAPS. Each follows the same plan: TLC first checks the inductive invariant `IInv` as an invariant of the component's run. Then `InitIInv` and `NextIInv` prove it, with one step per action, and PTL lifts it to `[]`.

**DaemonApiProofs** proves `TypeCorrect`, `SingleReplyHolds` and `StatusPreservedHolds` for any set of requests.
- StatusPreserved speaks only of finished requests, so it is not inductive.
- `IInv` adds `Back(r)`: once the handler has served `r`, the request is at `reply`, `write` or `done`, and its served value is one of the four the handlers produce.
- At `reply`, `res[r]` is still the served value, and the request is not on the local HTTP path.
- At `write`, the code about to be written is already acceptable (`Acceptable`).
- At `done`, the written codes are acceptable.
- The lemmas `ServiceCodes` and `CodeOfType` state what `CodeOf` gives for each served value and conversion.

**SecretInitProofs** proves `NoRotationHolds`: every step keeps the values already stored. This is an action property.
- `Fresher` says that no process has seen a resourceVersion newer than the server's.
- It also says that a process at `update` whose `seenRv` is still current writes only keys the server has empty.
- `StepKeepsValues` derives the step property from `IInv`, because a stale Update is rejected by the conflict check.

**BufferQueryProofs** proves `ListCompleteHolds` and `GetCorrectHolds`.
- `AccCorrect` says that during listing, `acc` holds exactly the first `idx - 1` buffers, each entry correct.
- `EntryCorrect` shows that `BufferInfo` computes a correct entry for every buffer and every count.
- `EntryCorrect` rests on `LimitsNat` (the resolved limits are natural numbers) and on `SameLengthLess` (comparing two usages over the same positive length is comparing the counts).

**PendingScrapeProofs** proves `TypeCorrect` and `AllOrNothingHolds` under `SpecKnown`, for any pipeline.
- `AllOrNothing` says that a call which ends its scrape returns nil, or else returns `total` after reading exactly `metricsCount` expositions.
- `IInv` bounds `ridx` by `metricsCount` and relates `Len(got)` to `ridx` in `get` and in `merge`.
- The first attempt at the type proof found a fault in the model. `Labels` was written `UNION {...} \cup Vertices \cup {NoLabel}`, which parses as the UNION of the whole union, so a vertex name was not a label. The definition is now parenthesised as `getPending` means it, and every run was rechecked.

**Refinements and the second action property** (proof sitting 2):
- `BufferQueryProofs!RefinementHolds`: `Spec => AbsQ!Spec`.
  - The invariant is `RInv`: `IInv` plus `ListQuiet` (no response exists while the loop runs) and `AccFromCounters` (each entry of `acc` is `BufferInfo` of its buffer and of some reported counters).
  - `ListDone` maps to `List`. Its witness picks those counters per position; the loop steps are stutters.
- `DaemonApiProofs!RefinementHolds`: `Spec => AbsD!Spec`, for any set of requests.
  - `RInv` adds `Fwd(r)`. A request at `reply` that was never served carries an unserved-path code, and at `write` the code about to be written is already in the abstract `Allowed(r)`.
  - `AllowedFrame` shows that `Allowed` depends only on the request's own served value and entry. `PhaseHidden` shows that every step except arrival, serving and responding leaves `phaseBar` alone.
- `SecretInitProofs!KeptUntilEditHolds`: `Spec => KeptUntilEdit`.
  - `NoEditInv`: while no key has been deleted, the server secret is empty or has every key (`Filled`), and every process about to Update carries a full key set.
  - So the only Update that gets through fills an empty secret. Without the invariant, a stale `out` with absent keys would seem able to blank the secret.

The following are checked by TLC only:
- the liveness properties (FirstUpdate, CancelStops), because TLAPS does not handle fairness and ENABLED;
- the other half of `MergeCorrect`: that `total` equals `Merged(got)`, the per-key sum of the expositions read. `Merged` is a fold over a finite set (`MapThenSumSet`). Relating it to the step-by-step `AddPending` needs induction over the data, which the installed provers cannot instantiate;
- the properties of the violation runs (ZeroLengthSurfaced, ExistingKeysKept, NoPanic, NotFoundSurfaced), which are false of the code.

## Not modelled, and why

- The route registration and the container builder change no state.
- Message marshalling in the generated code, and the table that maps gRPC codes to HTTP statuses, which lives in the grpc-gateway library.
- The MonoVertex service implementation lives outside `src/`, and there is no mvtx gateway in `src/`. DaemonApi gives its methods a message or the stub's answer.
- `GetPipelineStatus` copies a snapshot.
- `GetVertexErrors` reads a map that nothing in this code writes.
- The rate provider and the health checker are collaborators outside `src/`.
- Connection leaks (the unclosed `res.Body`) and HTTP status codes are outside the models' data.

## Plan for further work

1. Prove the refinement of an abstract "sum of the replicas" map by the pending scrape, replacing the fold with a state function kept step by step.
2. Model the lost ticks of `time.Ticker` explicitly.
3. Prove that a request is answered (liveness), with TLC as the only check, under the gateway's fairness.
4. Compose DaemonApi with BufferQuery so that the errors of a query are produced by the model of the handler, not chosen from `ServiceResults`.
5. Model the treatment of unlabelled series and the rotation by secret-init, once their intended behaviour is settled.
