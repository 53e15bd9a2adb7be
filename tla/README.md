# A TLA+ development of the external-dns Cloudflare Zero Trust provider

The program is an ExternalDNS webhook provider. It keeps two things in step with
the Service annotations of a Kubernetes cluster: the *hostname routes* of a Cloudflare account (which
tunnel carries a private name) and the *CoreDNS rewrites* of a ConfigMap (which Service answers it).
Several instances, each in its own cluster with its own `OWNER_ID`, share one account. Nothing locks:
Cloudflare's refusal of a second route for a name is the only mutex, and the comment of a route is the
only record of its owner.

This directory holds TLA+ modules translated from the source, TLC configurations that check them on
small instances, and TLAPS proofs of the central safety properties for every value of the constants.

    tlc -workers 2 -config MCProvider_solo.cfg MCProvider     # one run
    tlapm Provider_proofs.tla      # one of the eight *_proofs modules

Paths below are relative to `src/`; `provider.go` and `tunnel.go` are in `internal/provider/`,
`client.go` in `internal/cloudflare/`, `fragment.go` in `internal/coredns/`; `main.go`, `backend.go` and
`prune.go` in `cmd/webhook/`; `handler.ts`, `policy.ts` and `access.ts` in `broker/src/`.

## 1. Inventory

| Component | State | Operations | Talks to | What makes it correct |
|---|---|---|---|---|
| **Provider**, `provider.go` | in memory: `recordsHosts`, `ownedHosts`, `recordsOK`, `pending`, and the gauge `routes_by_tunnel`; all lost at a restart | `Records`, `AdjustEndpoints` (with `reconcileExistingCoreDNS`, `pruneCoreDNS`), `ApplyChanges` (`ownedRouteIndex`, `adoptionIndex`, `applyCoreDNS`, deletes, updates, creates, `adopt`, `classifyConflict`) | ExternalDNS calls it over HTTP; it calls the client, the fragment, the resolver | no route of another owner is touched; no routed name without its rewrite; only stale rewrites are removed; everything wanted is served in the end; the gauges tell the truth; a dry run writes nothing |
| **Tunnel resolver**, `tunnel.go` | fixed after start: sorted entries, fallback, drain list | `resolve`, `configured`, `setDrain`, `tunnels` | called by the provider | the most specific domain decides, independent of map order; a draining tunnel is never a target and is listed once |
| **CoreDNS fragment**, `fragment.go` | one ConfigMap key, read and rewritten whole | `Load`, `Apply` | Kubernetes API | no rewrite is lost or invented by a read-change-write, whatever text the key holds; a write that changes nothing is skipped |
| **Cloudflare client**, `client.go` | none; the account is the state | list (paged by offset), create, PATCH, PATCH of the comment, DELETE | Cloudflare or the broker | an id read earlier never comes to mean another route; a list read page by page is complete |
| **Webhook wiring**, `cmd/webhook/main.go`, `backend.go` | the environment, read once | start the servers | builds the provider, the fragment, the route client | the same environment gives the same process; no half-configured process serves |
| **Prune command**, `cmd/webhook/prune.go` | what it has listed, the failures so far | list, then delete one owner's routes, one call each | client | deletes that owner's routes only; status 0 means they are gone; it does not fail by its own doing |
| **Metrics**, `internal/metrics/` | counters and gauges | set, add | read by Prometheus; an operator acts on two gauges | the two gauges are true |
| **Broker**, `broker/src/handler.ts`, `policy.ts`, `index.ts` | per-client policies, fixed at deploy | narrows the API to a client's tunnels; looks a route up before PATCH and DELETE | Cloudflare | a client reaches its own tunnels and names only |
| **Access check**, `broker/src/access.ts` | cached signing keys and the time of the last refresh | verify a token, refresh the keys | Cloudflare Access | a new key is accepted in time, a withdrawn one refused in time |

### How they interact

One *cycle* is a chain of requests ExternalDNS sends: `Records` (list the tunnels), then
`AdjustEndpoints` (drop what has no tunnel, repair rewrites of existing routes, prune stale ones), then
ExternalDNS plans from the two answers, then `ApplyChanges` (index the routes, write the fragment,
mutate the routes one call at a time). The provider keeps a snapshot of `Records` in memory for
`AdjustEndpoints`, under a mutex that covers each assignment but not the cycle.

### What is hard here

- **Stale indexes.** Every delete, retarget and adoption goes by an id read several calls earlier,
  while other instances, other requests of the same instance and people write the account.
- **Partial failure.** Any call of a batch can fail, or take effect and lose its answer; the batch goes
  on. The next cycle must repair every combination.
- **Restarts.** The webhook loses its memory between any two calls and ExternalDNS may not notice. When
  the ExternalDNS container restarts, the request it was waiting for runs on beside the next cycle: the
  deployment runs them as two containers of one pod that restart independently
  (`deploy/deployment.yaml`), and provider.go takes concurrent reconciles into account itself.
- **Non-atomic lists.** `Records` lists one tunnel after another, and each list is read in pages by
  offset while the account changes.
- **Look up, then act by id.** The broker checks a route in one call and changes it in the next.
- **Order of the two legs.** The rewrite is written before the route exists and removed before it goes.
- **Hand-over.** A name moves between instances with no message between them.
- **A cache with no lock.** The broker's isolate fetches signing keys from several requests at once, and
  an older answer can be stored over a newer one.
- **Text that people edit.** The ConfigMap key and `TUNNEL_MAP` come in several spellings.

PROJECT.json lists each of these at its line ("hazards") with the properties that guard it.

## 2. Modules

| Module | Models | Extends |
|---|---|---|
| `HostnameRoutes` | the Cloudflare account as `client.go` uses it: create (refused when the name is live), delete, both PATCHes by id, another writer without a tag | |
| `RouteClaims` | abstract: what instances that share an account promise one another about names | |
| `Provider` | the reconcile cycles of any number of instances over one account; implements `RouteClaims` | `HostnameRoutes` |
| `MCProvider` and eight `.cfg` | scenarios of `Provider` | `Provider` |
| `RouteList` | lists read in pages by offset, by several listers, while others write | |
| `PruneCommand` | the prune command as one of those listers, deleting what it found | `RouteList` |
| `MCPruneCommand` | the command beside a broker's capped list and a live owner | `PruneCommand` |
| `TunnelResolver` | the resolver as operators on a record | |
| `Fragment` | the text of the ConfigMap key: parsing, rendering, `Apply` on a text | |
| `Webhook` | the process: what a start makes of the environment, restarts, and `Apply` to any key | `TunnelResolver`, `Fragment` |
| `MCWebhook` | every small map, drain list and choice of client and fragment settings | `Webhook` |
| `Broker` | the route broker: every request handler and the policy, for any number of requests in flight | `HostnameRoutes` |
| `MCBroker` | two clients, two requests, three policy documents | `Broker` |
| `JwksCache` | the cached signing keys of the Access check, with overlapping fetches and a clock | |
| `MCJwksCache` | two requests, two keys | `JwksCache` |
| `Provider_proofs` | type correctness, sound plans, and a dry run that writes nothing | `Provider`, `TLAPS` |
| `Ownership_proofs` | stale indexes are safe; owners consent; `Provider` implements `RouteClaims` | `Provider_proofs` |
| `Drain_proofs` | a drained tunnel stays empty | `Ownership_proofs` |
| `Rewrites_proofs` | rewrites come before routes, and only stale ones go | `Ownership_proofs` |
| `Webhook_proofs` | the resolver, a restart and `Apply` on a text, for all settings and keys | `Webhook`, `TLAPS` |
| `Prune_proofs` | paged lists and the prune command, for any account and any writers | `PruneCommand`, `TLAPS` |
| `Broker_proofs` | the broker keeps its clients apart | `Broker`, `TLAPS` |
| `JwksCache_proofs` | keys are accepted and refused in time | `JwksCache`, `TLAPS` |

`Provider` takes the resolver's answers as constants (`resolve`, `tunnels`): the map is fixed for the
life of a process, and `Webhook` says what the two can be. `EveryTargetListedOnce` and
`DrainNeverResolved` are what `Provider` relies on there. It takes the list of a tunnel as one read, and
`RouteList` says what that leaves out. It takes a fragment as the rewrites it means, and `Fragment`
(`ApplyHolds`) says that `Apply` on the text is just that.

### State of `Provider` and the code

| Variable | Code |
|---|---|
| `routes`, `nextId` | the account; an id is a number that is never used again |
| `desired[i][h]` | the annotation and `resource` label of the Services of instance `i`'s cluster |
| `fragment[i][h]` | the ConfigMap key of cluster `i`: the Service each name is rewritten to |
| `mem[i]` | the `Provider` struct: `recordsHosts`, `ownedHosts`, `recordsOK`, `pending`; and `emptyTunnels`, the tunnels whose gauge `routes_by_tunnel` reads 0 |
| `req[p]` | the locals of the request worker `p` serves, with `pc` the place it has reached, and what ExternalDNS holds between two requests |
| `changes`, `faults` | counters that bound the environment |

A *worker* is a chain of webhook requests in flight; `live` says that ExternalDNS still waits for it. An
instance with two workers is one whose ExternalDNS restarted and left a request behind.

Each call to Cloudflare, each read and each write of the ConfigMap is one step; the code between two
calls belongs to one of them. So the actions follow the source in order: `StartRecords`,
`ListForRecords`, `CompleteRecords` (`Records`); `AdjustEndpoints`, `ReconcileWrite`, `PruneLoad`,
`PruneGet`, `PruneWrite` (`AdjustEndpoints`); `Plan` (ExternalDNS); `ListOwned`, `ListForAdoption`,
`ApplyCoreDNS`, `StageWrite`, `DeleteRoute`, `UpdateRoute`, `AdoptRoute`, `SkipCreate`, `CreateRoute`,
`CreateRefused`, `ListAccount`, `EndApply` (`ApplyChanges`); then `ListFails`, `AdjustFails`,
`FragmentFails`, `PruneFails`, `CallFails`, `CreateFails`, `ListAccountFails`, `Crash`, `Abandon`; and
the environment, `ChangeService`, `OtherCreates`, `OtherDeletes`. `map` in PROJECT.json gives the lines.

### State of `Broker` and the code

`policy` is the document deployed, good or not (`parsePolicy`; with a bad one the Worker answers 500 to
everything, so no request starts). `req[p]` is a request in flight: the operation, the client Access
identified, the body, the tunnels left to list, and `known`, what its look-up or its lists have read.
`StartList`, `ListTunnel`, `AnswerList` are `list`; `StartCreate`, `SendCreate` are `create`;
`StartPatch`, `SendPatch` are `patch`; `StartDelete`, `SendDelete` are `remove`. The look-up
(`ownRoute`) and the check of the body are the `Start` step, the call upstream is the `Send` step, and
everyone else's requests fall in between.

A policy entry's suffixes are the set of stored hostnames under them. A refused request changes nothing
and has no step, which is why `MCBroker.cfg` does not check deadlock: a broker whose policy is refused
answers nothing for ever. Text the broker only trims, lower-cases or passes through, the `hostname`,
`comment` and `is_deleted` filters of a list, and the wording of refusals are left out. A `null` comment
is `Null`: `commentAllowed` takes it for a missing one, `pick` sends it upstream, and whether Cloudflare
then clears the comment or keeps it has not been measured, so `TagsOf` allows both. The policy does not change while the model runs, and the identity is the one Access verified. A
rename is refused upstream when the name is held: that follows from one live route per name and has
not been measured. The dashboard is not a writer here, as docs/multi-tunnel-lifecycle.md, section 7,
excludes an administrator of the account; the other writers are those of `HostnameRoutes`.

### State of the other modules and the code

**`RouteList`, `PruneCommand`.** `book` is the set of live routes; the `place` of a route is where the
service's order has it, and `Number(p, routes)`, how many of the routes come up to `p`, says on which page
it falls. A new route takes any free place. `list[l]` is where a lister is (tunnel, page) and what it has
read, each route with the page that showed it (`Row`), so that a route listed twice is two rows. Every page
is a step (`ReadPage`, `ReadLastPage`, `ReadFails`); a lister in `Capped` is the broker, which stops after
`MAX_UPSTREAM_PAGES`. `Write` is any other writer: adds anywhere in the order, removes, moves to another
tunnel, and re-tags, the last only between untagged and the one taker's tag, because `ClaimsKept` says no
other tag changes in place. `owed` and `left` are history variables: the routes a list owes its caller
because they stayed in the tunnel from its first page to its last, and the departures from pages already
read. So is `list[l].beyond`: how many routes lay beyond the page cap when it ended a tunnel. A route moved from one tunnel of the list to another is owed by neither. `command` is `runPrune`:
`EndList`, `Delete`, `DeleteRefused`, `DeleteFails`, `Expire` (`pruneTimeout`), `Finish`.

**`Webhook`.** `settings` is the environment, `process` what `main` made of it, `earlier` the resolver
of the process before, `key` the lines of the ConfigMap key. `Start` is the path through `main` to the
first request or to an exit; `Stop` ends a process; `ApplyFragment` is `Apply`; `EditKey` puts text there
that this version would not write. A domain is the sequence of its labels, a key of `TUNNEL_MAP` a
domain and a spelling (case, leading dot). Two spellings of one domain are two entries the sort does
not order: `newMapTunnelResolver` is therefore a *set* of resolvers, one for each order Go's map may
give.

**`JwksCache`.** `cached`, `fetchedAt` are the closure of `cachedJwks`; `requests[r]` is a verification
in flight: about to look up, its fetch under way (`asked`, before Access reads its keys; `answered`,
after), or ended. An isolate runs one piece of JavaScript at a time, so each step runs from one `await`
to the next. `kept` marks a look-up served with the old keys because Access refused the fetch. `Tick`
waits until no request can go on without the network and lets no answer be under way longer than
`Latency`: both are assumptions about the network and the runtime, not about the code.

### Where `Provider` abstracts

- A host, a tunnel, a Service is a model value; a comment is the owner it names, or `Untagged`
  (`routeOwner`).
- The list of one tunnel is one atomic read. `SkipsBounded` of `RouteList` is what a paged one keeps of
  that: without a cap it is complete unless routes left pages already read, and then it hides at most as many. That
  the service orders its routes in some fixed way is an assumption about it.
- A call that takes effect and then reports an error is the same, for the provider, as one that
  succeeds, except for a create and a fragment write. Those two are modelled apart (`CreateFails`,
  `FragmentFails`, `PruneFails`).
- `Fragment.Apply` reads the key, changes it, returns when nothing changed, and otherwise writes the
  whole key: the read is in `AdjustEndpoints`, `PruneGet` and `ApplyCoreDNS`, the write in
  `ReconcileWrite`, `PruneWrite` and `StageWrite`, and others may write in between.
- The branches of `applyUpdates` and `applyCreates` for a host with no tunnel are left out because
  nothing reaches them: `PlansAreSound` proves it.
- The hosts of a phase are served in any order; the phases are in the code's order, deletes, updates,
  creates.
- `Plan` is ExternalDNS's: create what is wanted and not reported, retarget what is on another tunnel,
  delete what is reported and unwanted (`--policy=sync` only).
- ExternalDNS reads the Services at the end of `Records`; an unattended request ends with its own
  answer (`Unattended`).
- A webhook restart does not clear what ExternalDNS holds between two requests (`Crash` keeps requests
  whose `pc` is `"adjust"` or `"plan"`): it goes on with the records of a process that is gone.
- Logging and the counters are left out; the gauges of pending routes and of tunnels that read 0 are
  `mem[i].pending` and `mem[i].emptyTunnels`.
- The token's scope does not limit the account list that explains a conflict.
- `Stored` maps a wildcard to the name Cloudflare stores it under. Every scenario uses the
  identity; the proofs assume nothing of it.

What Cloudflare promises (one live route per name, fresh ids, PATCH keeps the id, an unknown id is an
error) is what docs/multi-tunnel-lifecycle.md, section 8, measured. The operator's duties of its
section 1 (unique `OWNER_ID`, clusters matched to tunnels) are taken as met.

## 3. Runs

| Run | Scenario | Checks | Distinct states |
|---|---|---|---|
| `solo` | one instance, strict, sync, CoreDNS and prune; `h1` on a draining tunnel; `h2` free, untagged or another owner's; 3 changes, 2 faults | `OnlyStaleRewritesGo`, `RewriteBeforeRoute`, `EventuallyServed`, `EventuallyClean` | 375,284 |
| `overlap` | one instance, not strict, with two workers: a request left behind by a restart while a tunnel drains; 2 changes, 1 fault | `DrainedStaysEmpty`, `EventuallyServed`, `EventuallyClean`, `EventuallyPending` | 658,127 |
| `pair` | two instances hand over one name, or swap two, one of them draining the other's tunnel; 1 change, 1 fault | `StaleIndexHolds`, `OwnerConsents`, `KeepsClaims`, `EventuallyServed`, `EventuallyPending` | 231,723 |
| `migrate` | adoption of Terraform's routes under upsert-only; a name out of the tunnel map, one out of the domain filter; 2 changes, 1 fault | `TypeOK`, `PlanSound`, `DrainedStaysEmpty`, `KeepsClaims`, `OnlyStaleRewritesGo`, `RewriteBeforeRoute`, `EventuallyServed` | 143,246 |
| `dryrun` | every path with dry run on; 3 changes, 1 fault | `DryRunWritesNothing` | 50,270 |
| `prune` | the command over the whole account and a broker's list of two tunnels, capped at one page; pages of two routes; two writes by others, one fault | `TypeOK`, `SkipsBounded`, `PruneComplete`, `FailureExplained`, `PruneSparesOthers` | 1,740,765 |
| `webhook` | every `TUNNEL_MAP` of up to three pieces (nested and equally long domains, two spellings, blank and malformed pieces), every `TUNNEL_DRAIN` of up to two ids, every choice of client and of fragment settings, three edited keys | `TypeOK`, `MostSpecificWins`, `DrainNeverResolved`, `EveryTargetListedOnce`, `RestartAgrees`, `ApplyHolds` | 189,263 |
| `broker` | two clients, a shared hostname suffix, a wildcard stored under the first one's name; a good policy, one that gives a tunnel to both, one without an owner; two requests in flight, with `null` comments among the bodies, creates start below id 3, one write by others | `TypeOK`, `KnownStaysOwn`, `ClientsKeepApart`, `OwnTagOnly` | 994,878 |
| `jwks` | two tokens verified at once, two keys that come and go, five ticks of the clock, one failing fetch | `NewKeyAccepted`, `WithdrawnKeyRefused` | 4,672,874 |
| `adoptrace`, `nolabel`, `prunerace` | section 5 | one property each, violated | |

**Bounds.** `MaxChanges` counts Service changes and writes by others, `MaxFaults` failures, crashes and
restarts; everything between them is explored to the end, in every interleaving. Two hosts are enough
for a batch with a failing and a succeeding member and for a swap; two tunnels for a wanted and a
draining one and for a list that is not atomic; two Services for a rewrite that points at the wrong
one. Three changes cover want, unwant and want again across one cycle, and two faults cover a fault
during the recovery from another. The long stale intervals need no more: an index can be held while
the other workers run any number of cycles. `nextId` is not bounded in the specification; the runs are
finite because `desired` changes a bounded number of times and the system converges.

In `broker`, two requests are the one that has looked a route up and the one that interferes; `MaxId`
lets creates follow the initial routes. In `prune`, three routes in pages of two make the last page move
when one goes, and two writes are a departure with an arrival, or a delete with the same name made again.
In `jwks`, two requests are what it takes for one answer to overtake another, and five ticks outlast
`ttlMs + Latency`, the longest of the time limits the properties name. In `webhook`, three pieces are a
name covered by two domains and a third that could come between them.

**Symmetry** is used in `broker` (its two slots) and `jwks` (its two requests), which have no liveness
property. **Deadlock** is checked in all runs but `broker` and `prune`: a broker whose policy is refused
answers nothing, and a prune command ends.

**Fairness** (`FairSpec`). `WF(Progress(p))`: a request in flight is served to its end; the webhook's
HTTP server runs each handler in a goroutine of its own, calls have time limits, and a failed call is a
fault, counted apart. `WF(StartRecords)` per running instance: ExternalDNS starts a cycle every
`--interval`. No failure, crash or change is fair. `Mutate` chooses its host freely, and no property
depends on that choice being fair: each step removes a host from the plan.

**What the liveness properties assume.** `Labelled`: from some point on, no wanted name lacks a usable
`resource` label in a cluster with CoreDNS. Without it they fail, and finding `nolabel` shows why. A
name that another writer keeps (`KeptByAnother`) is exempt, and `EventuallyPending` requires it to be
reported as pending instead.

Each property of a passing run has a mutant in PROJECT.json: a plausible bug in one definition that
makes the run fail.

## 4. Properties

- `OwnerConsents` (action property): a route with an owner's tag changes or goes only in a step in
  which a worker of *that* owner takes that hostname off its plan's deletes or updates.
- `StaleIndexHolds` (invariant): whatever the age of an index, an id in it is gone or still is the
  route of the same name, with the instance's tag or none.
- `PlanSound` (invariant): no plan has a host with no tunnel, or one both to delete and to update;
  staged rewrites all name a Service.
- `OnlyStaleRewritesGo`: a rewrite leaves the fragment only with the planned delete of its route or by
  a prune all of whose guards hold *when the write happens*, not just when it was decided.
- `RewriteBeforeRoute`: no route becomes an instance's before its name has a rewrite.
- `DryRunWritesNothing`.
- `EventuallyServed`, `EventuallyClean`, `EventuallyPending`: after changes and faults stop, every
  wanted name has both its legs on the right tunnel and Service; nothing unwanted is left; the pending
  set is what is really held by others.
- `DrainedStaysEmpty`: once `routes_by_tunnel` reads 0 for a draining tunnel, no route of the instance is
  on it, and none comes back while the process runs, with requests left behind and other writers.
- `KeepsClaims`: `Provider` implements `RouteClaims`, where a name is free, taken with no owner's mark, or
  claimed by one owner, and passes from one owner to another only through a release its holder had
  decided on. The claim is the tag of the live route; what an owner is giving up is what the plans of
  its requests still delete.
- `SkipsBounded`: a paged list hides at most one route that stayed for every route that left a page
  already read, and besides those no more than lay beyond the cap of a tunnel the cap has cut. `PruneSparesOthers`, `PruneComplete`, `FailureExplained`: the prune command
  deletes only with `--apply` what it listed inside its filter and what is the owner's; status 0 means
  that nothing of the owner's is left but what such departures hid or others wrote; and with no failing
  call it fails only if somebody else deleted what it had listed. `Provider` has one writer per step, so
  the command runs beside a general one (`Write`) that covers what an instance can do.
- `RestartAgrees`: a restart in the same environment gives the same resolver, unless `TUNNEL_MAP` spells
  a domain twice; then only the hostnames such a domain decides, with a different tunnel in each
  spelling, may go to another tunnel. `ApplyHolds`: whatever lines the key has, `Apply` changes the rewrites asked for and
  no other, a second one writes nothing, and a write changes what CoreDNS answers.
- `NewKeyAccepted`: a key Access publishes is refused only within `minRefreshMs` and one answer's delay
  of its publication. `WithdrawnKeyRefused`: one that is withdrawn is accepted only within `ttlMs` and
  one answer's delay. Both leave out a look-up served with the old keys because Access refused the
  fetch: the code keeps those for as long as Access refuses.
- For the broker: `KnownStaysOwn`, a route a request has read is gone or still its client's when the
  request acts on it; `ClientsKeepApart`, a route on a client's tunnel is created, changed and deleted by
  that client's requests only; `OwnTagOnly`, a client with an owner writes no other owner's tag and
  creates no untagged route, and it can take a tag off only with a PATCH whose comment is `null`.
- For the resolver: `MostSpecificWins`, `DrainNeverResolved`, `EveryTargetListedOnce`.

## 5. Findings

Three runs show the code doing what a document says it does not. PROJECT.json quotes the lines.

- **`adoptrace`.** `adopt` tests the tag in a copy listed some calls earlier, then patches the comment
  by id. Two adopting instances on one tunnel both pass the test, and the second takes the first one's
  route. The README advises one instance per tunnel; nothing enforces it.
- **`nolabel`.** One *existing* route whose endpoint has lost its `resource` label makes
  `AdjustEndpoints` fail every cycle, so no other name of the instance is created, moved or deleted.
- **`prunerace`.** With a request left behind by a restart, a route can move from a draining tunnel to
  a wanted one between the two lists of `Records`, which then misses it and still counts as complete.
  If its Service has gone, prune removes its rewrite, and under upsert-only the route stays.

Five things are stated here and not as findings, because no property of a run fails on them.
Where `TUNNEL_MAP` spells one domain twice, Go's map order decides at each start which tunnel the domain
has: `RestartAgrees` confines what a restart may move to the names of such a domain. `envBool` (`main.go`) reads any unknown word as false, so a typo in
`OWNERSHIP_STRICT` gives up its default. A list of the broker that reaches the page cap is reported
like a complete one: `SkipsBounded` bounds what it then hides. `commentAllowed` (`policy.ts`) counts a
`null` comment with those that leave the comment alone, yet `handler.ts` sends the `null` upstream; should
Cloudflare clear the comment, a client can untag its own route. And the comment in `access.ts` that a forced refresh is honoured at most once a
minute holds for requests one after the other: overlapping requests each fetch, and so does every
request while the fetches fail.

## 6. Proofs

`Provider_proofs` proves, for every set of hosts, tunnels, instances, workers and resources and every
combination of options:

- `TypeCorrect == Spec => []TypeOK`
- `PlansAreSound == Spec => []PlanSound`
- `DryRunsWriteNothing == Spec => DryRunWritesNothing`

The first two are one induction, `TypeInv == TypeOK /\ PlanSound`. `TypeOK` alone is not inductive: a
retarget writes `resolve[i][h]` into a route, which is a tunnel only because the plan never holds a
host with no tunnel, and a rewrite gets the host's label, which is a Service only because only
answerable hosts are staged. There is one lemma per action (or per group of actions with the same
effect), over lemmas about listings, `Apply` and `retainPending`.

The third is about single steps, but needs an invariant: `DryInv` says that a request of a dry run is
never at a step that follows a decision to write (`Writing`), and that nothing is pending, so that neither
`retainPending` nor a restart changes what is. `DryStepsAreQuiet` goes through the gates one action at a
time. It is proved for each instance by itself, beside others that write; the property asks it of the
account as a whole, so there all instances are in dry run.

`Ownership_proofs` proves

- `StaleIndexIsSafe == Spec => []StaleIndexHolds`
- `OwnersConsent == SoleTaker => (Spec => OwnerConsents)`

`OwnInv` says, for each id in each index: it is below `nextId`, so no later create reuses it; if it is
live it names the same host; and the live route's tag is one the holder can claim. The argument turns
on `OneClaimant`: a tag two workers of different instances can both claim would be `Untagged`, and then
both would take untagged routes. So a step that moves or re-tags a route keeps the claim of whoever
else has it in an index. Consent follows: the id that is used names the live route of the same host,
the live tag can be claimed, and if it is an owner's tag it is the actor's own.

**The premise `SoleTaker`**: at most one running instance takes untagged routes, by adoption or by
being non-strict. The documentation asks this of non-strict instances only (its second operator
invariant). Without it `OwnerConsents` is false, and `adoptrace` is the counterexample. It is an
assumption on constants, so a run either satisfies it or not; `solo`, `overlap`, `pair` and `migrate`
do.

`Broker_proofs` proves

- `BrokerTypeCorrect == Spec => []TypeOK`
- `KnownIsOwn == Spec => []KnownStaysOwn`
- `ClientsApart == Spec => ClientsKeepApart`
- `OwnTagsOnly == Spec => OwnTagOnly`

for every policy document, number of clients and number of requests. The invariant `BrokerInv` adds to
`KnownStaysOwn` what each handler has checked before it waits (`Checked`). The step that could break it
is another request's patch of the very route this one has looked up. That request knows the route as its
own client's too, a tunnel belongs to one client of an accepted document (`OneHolder`), so it is the same
client, and it can move the route only to another of its tunnels and names (`Moves`, `KnownKept`). So
look-up and act need no transaction. `OwnTagsOnly` rests on `TagsOf`: a tag is sent, kept, or taken off by
a `null`. The documents that would break this are refused by `parsePolicy`,
which is a guard of the model and not an assumption.

`Ownership_proofs` also proves `ClaimsKept == SoleTaker => (Spec => KeepsClaims)`: initial states map to initial
states, and each action of `Provider` maps to a step of `RouteClaims` or leaves `claim` and `giving` as
they are. The lemmas say which: a create is a `Claim` of a free name, an adoption a `Claim` of an
untagged one, a planned delete a `Release`, a retarget sent from an index older than the tag an
`Unmark`, and whatever makes, finishes or loses a plan a `Decide`. `OwnInv` supplies what the guards of
those steps need, that the live route behind an id is still one its holder can claim.

`Drain_proofs` proves `DrainsStayEmpty == Spec => []DrainedStaysEmpty`. The property carries `SoleTaker` as
its premise. `DrainInv` says it also of the
tunnels a `Records` in flight has counted so far, and that a route indexed for adoption, untagged, is on the tunnel
it was listed on or on the one its name resolves to (`ExistingTunnel`): without that a comment PATCHed
by id could put the tag on a route of the drained tunnel.

`Rewrites_proofs` proves

- `RewritesComeFirst == OneRequest /\ SoleTaker => (Spec => RewriteBeforeRoute)`
- `StaleRewritesGo == OneRequest /\ Strict => (Spec => OnlyStaleRewritesGo)`

For the first:
`RewriteInv`: while the fragment is written, every create that is not skipped is among what is written
(`Staged`); while routes
are created, every name to create has its rewrite (`Answered`); and a route listed with the instance's
tag still has it (`TagKept`), so that no retarget makes a route the instance's. `OneRequest`, one
request of an instance in flight, is needed: a second request prunes or rewrites the key in between.
Under an overlap the cycles repair this (`EventuallyServed` in `overlap`), and do not prevent it.

For the second, a prune acts on a list of routes, a desired set and a fragment that are several calls
old. `PruneInv` says what of each still holds: the tunnels counted have shown every route of the
instance (`Counted`), so a complete `Records` covers them all (`Known`); what is picked for removal is
still unneeded (`Removed`); and the fragment a write starts from is the one that is there (`Fresh`).
`prunerace` shows a prune that goes wrong without `OneRequest`. `Strict` says that every running
instance is: a route created untagged by another writer between `Records` and the prune would be a
route of a non-strict instance that its list lacks. Any number of instances may adopt: a list holds
only what its instance can claim (`ListedOwn`), so a stale retarget gives no other instance its tag
back.

`Webhook_proofs` proves, for every environment, every map, every drain list, every hostname and every key,

- `MostSpecificAlwaysWins == Spec => []MostSpecificWins`
- `DrainsNeverResolve == Spec => []DrainNeverResolved`
- `TargetsListedOnce == Spec => []EveryTargetListedOnce`
- `RestartsAgree == Spec => []RestartAgrees`
- `AppliesHold == Spec => []ApplyHolds`
- `WebhookTypeCorrect == Spec => []TypeOK`

The first three follow from `StartedInv`: a process that serves is one `main` makes of the settings. The rest is about the
operators. `PickedPlaces` says that a sequence picked by places has each of them once and in order, by
counting the places up to each; the lists without blanks and repeats follow (`FirstOccurrencesFacts`).
`MostSpecificEntry` uses that the entries are ordered and that of two domains that cover one name the
shorter is a suffix of the longer (`LongerDomain`).

The last three rest on `TypeInv`, which adds that the resolver of the process before is one the same
settings make, and that the key is a sequence of lines. `RestartAgrees` says first that a
sorted order is unique. Instead of an induction along the sequence, `SortedPlace` computes the place of each entry: it is
the number of entries that do not come after it, which no order of the map changes; `PrecedesTotal` gives
the total order, from lengths and, between equally long domains, the alphabet. With two spellings there
is no such order. Then, if two resolvers of one environment disagree on a name, the entries that decide
it in each (`DecidingPair`) are of equally long domains that cover it, so of one domain (`SameDomain`),
and `DisagreeOnSpelling` concludes that the map spells it twice. `ApplyHolds` says that what
`render` writes is read back as it was meant (`ParseRender`): each host with a rewrite has one line, by
the same counting (`Numbering`), and the last line for a host is its only one.

`Prune_proofs` proves, for every account, page size and page cap, any number of listers, and any number of
writes between any two pages,

- `PruneTypeCorrect == Spec => []TypeOK`
- `SkipsAreBounded == Spec => []SkipsBounded`
- `PruneCompletes == Spec => []PruneComplete`
- `FailuresAreExplained == Spec => []FailureExplained`
- `OthersAreSpared == Spec => PruneSparesOthers`

from one invariant, `PruneInv` (`PruneInvariant`). For the lists: a lister knows its offset and not its
routes, so the boundary of the pages read is a number, and a route is behind it or not by how many routes
of the tunnel come up to its place. An arrival can only push routes back over the boundary, where they are
read twice; a departure behind the boundary pulls at most one route over it, and one elsewhere pulls none
(the lemmas on `Number`). So the routes owed, not read and no longer to be read in this tunnel (`Missed`)
grow by at most one where `left` grows by one, and reading a page adds to them only where the cap ends
the tunnel, and then no more than lies beyond it (`BeyondFacts`). The command adds
what became of each row it listed (`Traced`: the id is gone, or still is that name's route with that tag,
or one that others wrote to), that what stayed in a tunnel already passed is owed (`Owing`), that each
listed route still there is still to be deleted while no call has failed (`Remaining`), and that without
a fault a failed delete met a route others had deleted (`Gone`).
`Found` keeps one row of each id, whichever `CHOOSE` takes, and the proof uses no more of it than that.

`JwksCache_proofs` proves

- `JwksTypeCorrect == Spec => []TypeOK`
- `NewKeysAccepted == Spec => NewKeyAccepted`
- `WithdrawnKeysRefused == Spec => WithdrawnKeyRefused`

for any number of requests and keys, any time limits and any clock. `KeysInv` says of the cache, and of
every answer under way, that it agrees with what Access publishes now on each key not changed since it
was taken, and that it is stored at most `Latency` after that. So a verdict against what is published
rests on a copy older than the change, and the age at which `Refresh` would have fetched bounds it.
`TypeOK` of `JwksCache` is proved and not run.

Assumptions: those of the modules on their constants. For `Provider`, `InstanceAssumption`,
`OptionAssumption`, `NoneAssumption`, `BoundAssumption`, `InitialAssumption`, `UntaggedAssumption`,
`NoRouteAssumption`; for the broker `FieldAssumption`, `DocumentAssumption`, `StartAssumption`: the
shape of the configuration, and that the starting account has distinct ids. For `Webhook`,
`TunnelAssumption`, `DomainAssumption`, `LengthAssumption`, `SuffixAssumption` (a domain has more
characters than one it ends with), `AlphabetAssumption` (two domains differ in the alphabet),
`HostnameAssumption`, `SettingsAssumption`, `RewriteAssumption`, `RankAssumption` (finitely many hosts,
each with a rank of its own, the order `render` sorts by), `LineAssumption` (a comment is no rewrite),
`EditedKeysAssumption`. For `PruneCommand`, `ListerAssumption`, `PageAssumption`, `BoundAssumption`,
`PlaceAssumption`, `NameAssumption`, `BookAssumption` (the starting account is finite, and no two routes
share an id, a name or a place), `PruneAssumption`. For `JwksCache`, `TimesAreNat`, `KeysAreKids`. TLC evaluates them
in the runs. Nothing is assumed of `Stored`, `resolve` or `tunnels` but their types and that an instance
lists some tunnel.

**Only model-checked**: `EventuallyServed`, `EventuallyClean` and `EventuallyPending`, as liveness under
fairness, `ENABLED` and induction over data are out of the proof system's reach. Every other property of
a passing run is a theorem. Those that hold only under a premise on the constants (`SoleTaker`,
`OneRequest`, `Strict`) carry it in the theorem's statement or in their own.

## 7. Not modelled

- **Counters, logging, printing**: `internal/metrics/` but for the two gauges, the log lines, the table
  the prune command prints. They are output only, and nothing reads them back.
- **The HTTP servers** of `main.go` and the readiness they report: no state of their own. That
  `WriteTimeout` ends a long request for ExternalDNS and not for the process is the overlap of
  `Abandon`.
- **The four boolean options** read by `main`: constants of `Provider`, which is checked with both values
  of each.
- **Usage errors** of the prune command and wording of all refusals.
- **Encoding**: the API envelope, JSON, the text of comments and targets. An answer that cannot be
  decoded is a failed call.
- **Token signatures and claims** in `access.ts`: they keep no state. `JwksCache` has the tokens they let
  through.
- **Where credentials go**: it follows from the branches of `newRouteClient` and `checkBrokerURL`, and
  beyond the first request from `net/http`, which follows redirects. `newRouteClient` is modelled as
  what decides whether a process serves; no property is stated of the credentials.
- **Deployment manifests, build and release scripts**: no behaviour to model.

What could still be added: the wildcard that never settles (docs/multi-tunnel-lifecycle.md, section 9)
as a scenario of `Provider` with a `Stored` that is not the identity; and `Provider` narrowed by a
`Broker` policy that disagrees with its tunnel map.
