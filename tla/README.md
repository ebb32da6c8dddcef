# A verification of the personal-data masking proxy

The repository holds a Go service (`backend/`) that stands between clients and a
language model. `POST /process` receives a document under a `payload_id`,
replaces the personal data in it and keeps the originals; when text with the
replacements comes back under the same id, the service puts the originals back.
The modules here specify the service's own logic in TLA+; TLC checks them on small
instances and TLAPS proves the central properties for every instance.

Paths below are relative to `backend/`.

## The system: components, state, operations

| Component | State | Operations | What makes it correct | Modules |
|---|---|---|---|---|
| Name search (`internal/service/service.go` 627-881) | word lists | `findFIO`, `findFIOMorph` and their exceptions | no name lost between windows of different width; exceptions kept | Names |
| Card numbers, expiry dates (`service.go` 458-498, 550-577, 940-1018) | none | `longestLuhnCard`, `isValidLuhn`, `synthCard`, `isFutureExpiry` | the longest valid number is masked; made-up numbers are valid; a date lasts to the end of its month | Cards |
| Spans (`service.go` 311-344, 540-625, 914-938) | the slice of one request | `filterComposite`, `mergeSpans`, the masking loop | exactly the detected characters are masked, whatever the overlaps | Spans |
| Masking strategies (`service.go` 225-538) | none: the mapping of one request | `Mask`, `MaskSynthetic`, `MaskAsterisks`, `Demask` | every replacement leads back to one original | Masking, RoundTrips, Spelling |
| Sessions (`service.go` 241-283) | `payload_id -> {original, masked, mapping}` in a `Store` | `Process`: get, mask and set, or answer | idempotent forward steps; restoring reverse steps; nothing restored where it is forbidden | Session |
| In-memory store (`internal/repository/cache/cache.go`) | 64 locked maps, a collector goroutine | `Get`, `Set`, `cleanup`, `Stop` | behaves as one map with exact expiry | TTLMap, ShardedCache |
| Redis store (`internal/repository/cache/redis.go`) | external | `NewRedisStore`'s PING; `Get` and `Set` that swallow every error | Process survives misses and lost writes | Session, Cluster |
| Middleware chain (`internal/transport/http/middleware.go`, `internal/metrics/metrics.go`) | `inFlightRequests`, `consecutiveInvalid`, the in-flight gauge | limiter, circuit guard, recovery, metrics | exact counters, the limit, the streak of invalid answers | Gateway |
| Rules (`internal/config/store.go`, `internal/transport/http/handler.go`) | the live configuration under a lock; its copy in the service | `ConfigGet`, `ConfigPut`, `resolveOptions` | a request gets what one configuration in force grants, or how far two reads may stray from that | Configurator |
| Start-up, shutdown (`cmd/main.go`) | chosen backend, server | Redis or memory, 5 s shutdown | no session lost by an instance's end; shutting down ends | Cluster |
| Cluster (`docker-compose.yml`, `deploy/nginx.conf`) | three instances, one Redis | round robin | a mask of one instance restored by another | Cluster |
| Console (`frontend/`) | last id and mask, edited configuration | calls the API | demonstration only | - |
| Load tester (`cmd/loadtest`) | counters | sends documents and masks | a tool outside the service | - |

How they interact: nginx sends a request to an instance; its goroutine passes the
metrics, limiter and guard middlewares, resolves the system's rule by two reads of
the rule store, calls `Process`, which reads the session store, detects and masks
(reading `composite` on the way) and writes the session store. The collector runs
beside it, an administrator's `PUT /config` beside both.

What is hard: two first requests for one id (the tester's retries are exactly
that); sessions that expire or are lost between the two steps; store errors that
read as misses; instances that die with requests in hand, or start without Redis
and keep sessions to themselves; the collector's scan and deletion under two
separate locks; the expiry test outside the lock; counters that are tested at one
moment and changed at another; a configuration that changes between two reads;
name windows that compete for the same words; overlapping spans of dozens of
detectors, filtered in the slice they are read from. `PROJECT.json` lists each
hazard at its line.

## The modules

Each component has its module; `MC*` modules choose the constants for TLC;
`*Proofs` modules extend the components' modules with theorems, and **Induction** holds
the lemmas on induction and recursion that they share.

**Names** - a text is a list of words, the gaps between them (`Gaps` tells apart what
`reFIO` and `adjacentTokens` tell apart) and the capitalised ones. The word lists are
sets, so that a word may be on several. `CoreIsFalse` and `MorphIsFalse` are the two copies
of the test for exceptions. `TakeChunk` is one match of `findFIO` with
its role words cut off; `Accept`, `Narrow` and `Skip` are one turn of `findFIOMorph`'s
inner or outer loop: window of `width` words at `at`.

**Cards** - `Scan` is `isValidLuhn`'s loop past separators, `LuhnSum` the other two
versions of the sum; `Whole` and `Shorten` are the search of `longestLuhnCard`,
`SynthCard` the number made of a counter. A clock by month runs beside it for
`isFutureExpiry`.

**Spans** - the loop from raw spans to the written text: `TakeAnchors` and `Filter`
(`filterComposite` writes `spans[:0]` over the slice it is reading), `Sort`, `Merge`,
`Write`. `sort.Slice` is not stable, so ties are left open.

**Masking** - texts are sequences of words: a client's values, placeholders, fakes and
asterisked values. Which words the detectors see, and as what, is an arbitrary function
`Sees` of the *whole* text: the real patterns look at keywords in front, at stop words
in the same chunk, at where a chunk ends. So nothing is assumed of how a mask is seen when
it is masked in its turn: what a stop word had kept readable may match once a placeholder
has broken up the chunk. `Detected` is what `collectSpans` makes of it with `allow` and
`filterComposite`; `TokenWords`, `SyntheticWords` and `StarWords` are
the three strategies; `SynthValue` is the search for an unused fake, `Hangs` the
case in which it never ends; `Mapping`, `Demask` and `Answer` are what Process
keeps and answers. What a mask owes its document is `Restored`. `ReadsLikeOriginal`
is the one part of a mask that Process answers otherwise: one that spells the document
itself, when the same word was masked in one place and left in another.

**RoundTrips** - one document there and back: `Forward` is Process' miss branch, `SendBack`
its answer to any part of the mask. What concurrent requests and lost sessions add is
Session's subject.

**Spelling** - `Demask` once more, character by character, as `strings.NewReplacer`
goes through a text: at each position the first key of the sorted list that is
spelled there. Masking replaces whole words; Spelling says when that is what the
replacer does. A document is a list of pieces, `orig` and `fake`, over `Characters`.

**Session** - `Process` as it is run by concurrent goroutines over a store.
`LookupHit`, `LookupMiss` and `MaskAndSet` are its two store accesses; between them
anything may happen. `Forget` is expiry and eviction, `Abort` the end of requests
with their instance, `Restart` the loss of the in-memory store as well, "getError"
and "setError" Redis failures. Clients (`SendForward`, `SendReverse`) follow README
appendix A: one document per id, retried at will, and parts of masks they received.
Three history variables say when the contract's provisos fail: `rule` and `mixed`,
ids used under several rules; `missed`, ids whose reverse step found no session.

**Cluster** - extends Session, whose `store` is what Redis holds, by the instances
that serve the requests: each chooses Redis or a `memory` of its own once, when it
starts (`Start`), has its own copy of the rules (`Configure` reaches one), may crash,
be told to stop and drain (`Terminate`, `Exit`, `Overdue`: `main.go`'s shutdown
deadline). `RedisFails` may empty Redis. `Hit`, `Miss` and `Mask` are Process
over the store of the instance at hand. `ImplementsSession` is the refinement: until
an instance has fallen back to its memory, every step is a step of Session or none.

**TTLMap** and **ShardedCache** - the abstract store (entries vanish at the very
moment they expire) and `cache.go`: the lock's critical sections are steps, as are
the stamp before `Lock`, the expiry test after `RUnlock`, the collector's
scan and its deletions. `TTLMap` is instantiated with
`live <- LiveItems, call <- LiveCalls`: what is stored and not expired, and what a
caller between its read and its test will return.

**Gateway** - one request per connection through the chain; each atomic access to
a counter is a step. The tester is the environment: `streak` counts invalid
answers in the order they are received, `alone` says that requests have not
overlapped since the streak was last 0. Panics are the "bad" outcome of `Handle`,
as both recovers turn them into a 500.

**Configurator** - `config.Store`, the two steps of `ConfigPut`
(`Apply`, `SetComposite`), the two reads of `resolveOptions` (`ReadAuth`,
`ReadRule`) and `collectSpans`' read of the service's switch. `seen`, `calm` and `torn`
are history: the configurations in force during a request, whether no PUT was in
progress, and whether one was applied between the two reads.

## The runs

| Run | Instance | Shows |
|---|---|---|
| `masking` | all texts of up to 3 words out of 11, 12 rules, detectors that look around, all selections of up to 2 words and the whole mask; all documents of up to 3 pieces over 4 characters | `RoundTrip`, `DistinctReplacements`, `SpelledRoundTrip` |
| `session` | 2 handlers, 1 document with two values of one type and a conditional one, two rules (tokens; synthetic without restoring), every fault | `ForwardIdempotent`, `ReverseRestores`, `DemaskDisabledHides`, `SessionStable` |
| `cluster` | 2 instances, 2 requests, 2 documents, of which one has too many values for the pool, two rules, one failure, stop or PUT | `ImplementsSession`, `RestartsLoseNothing`, the contract of Session, `RequestsAnswered`, `ShutdownEnds` |
| `session_forget` | tokens, expiry | violated: `ForwardIdempotentAlways` |
| `session_pool` | three values, two fakes | violated: `EveryRequestAnswered` |
| `cache` | 2 shards, 2 keys, 2 callers, a clock of 2 steps with a tick at each | types, `NoLiveEviction`, `ImplementsTTLMap`, `SweepCollects` |
| `http` | chain: 3 connections, limit 2, threshold 2; rules: 2 administrators, 2 PUTs, 1 request, 1 system with 3 rules | types, `CountersExact`, `AdmissionBound`, `OvershootBound`, `SequentialStreak`, `DecisionInForce`, `SwitchAsStored` |
| `http_breaker` | the chain of `http` | violated: `BreakerNeverTrips` |
| `http_streak` | the chain of `http` | violated: `EarlyEnough` |
| `http_sync` | the rules of `http` | violated: `SwitchAlwaysAsStored` |
| `detection` | names: texts of up to 4 words out of 10 kinds; cards: numbers of 3 to 5 digits, with and without a separator, two years of months; spans: all lists of up to 3 over 4 characters and two types | the properties of Names, Cards and Spans |
| `famous` | the names of `detection` | violated: `FamousKept` |

Why the bounds suffice for what is asked:

* *Sessions*: a handler touches the store twice, so two handlers are enough for
  every race on one id.
* *Masking*: three words (`MaxWords`) give two values of one type beside a third
  word, or a stop word or a keyword beside what it spoils or reveals; the pool of two
  fakes makes `SynthValue` search and fail. A selection of two
  words (`MaxPick`) repeats, swaps and drops. Three pieces (`MaxPieces`) put a fake
  beside, across or inside the spelling of another.
* *Cluster*: what the properties speak of needs one failure at a time
  (`MaxEvents` = 1) in any state, with a request in hand on each of two instances:
  an instance that starts while Redis is away, one that dies between a mask and its
  use, one that is told to stop while a handler spins. Starting, Redis' return
  and shutting down are not counted. That a failure more changes nothing of the
  safety properties is proved (below), not left to the bound.
* *Cache*: an entry can expire, be swept, be rewritten during the sweep and expire
  again within two clock steps (`MaxTime`).
* *Gateway*: three connections over a limit of two make one request overshoot
  while two are in; `StreakCap`, the number that stands for it and all above, lies above
  the largest streak that the properties tell from it.
* *Rules*: two PUTs (`MaxPuts`) can overlap, let a rule be withdrawn and given back
  during a request, and switch access control off between its reads and on again.
* *Names*: the widest window has three words, the longest chunk four; ten words
  cover every class and the ways in which classes overlap, and all five gaps occur
  in texts of three words.
* *Cards*: the digit counts are constants; 3 to 5 (`MinDigits`, `MaxDigits`) with 4
  (`FakeDigits`) instead of 13 to 19 with 16 keep what matters: several prefixes
  to try, of either parity. The years (`FirstYear`, `LastYear`) hold a turn of
  the year.
* *Spans*: three spans (`MaxSpans`) give a nest, a tie, a touch, a gap, and a dropped
  span in front of a kept one. Its properties are also proved for every number.

Deadlock is checked in every run that cannot end. It is off in `masking`, `detection`
and `famous`, which end with their text; in `session_pool`, whose handlers hang; and in
`cluster`, whose handlers may all hang while the last event has been used.

Fairness: `Session!FairSpec` and `Cluster!ClusterFairSpec` assume weak fairness of each
handler's own steps, which is what the Go scheduler gives a runnable goroutine;
`ClusterFairSpec` also that an instance which drains ends, as `srv.Shutdown` returns
when nothing is served or when its five seconds are over. Nothing is assumed of clients,
of faults, of starts, or of Redis' return: `RequestsAnswered` holds though Redis
may stay away for ever. `ShardedCache!FairSpec` assumes fairness of the collector only.

### What the violated runs mean

* `session_forget`: README.md:287 demands an idempotent endpoint. After the session
  is lost, a late reverse step makes the *mask* the session's original
  (service.go:244-262); a retry of the forward step no longer equals the original
  and is treated as a reverse step: the raw document is returned.
* `session_pool`: `synthValue` (service.go:396) has no exit but an unused value, and
  CITIZENSHIP has three, BIRTHPLACE and CARD_HOLDER four; the request hangs.
* `http_breaker`: middleware.go:18-22 promises that no threshold of invalid answers in
  a row gets out; the test and the increment are apart, so concurrent requests pass
  together and more than the threshold do. `OvershootBound` says by how much at most.
* `http_streak`: the same comment, and config.go:32-33, put the 429 *before* the
  threshold-th invalid answer. The code tests `>= threshold` after that answer was
  given, so that even a tester that sends one request at a time gets exactly the
  threshold of them. middleware_test.go:12 expects what the code does ("before the 5th, with
  threshold = 4"), and with the default of 4 the tester's breaker at 5 is still
  safe: `SequentialStreak` is the bound that holds.
* `http_sync`: handler.go:48 says the service is synchronised; two overlapping PUTs
  leave it different from the store, until the next PUT.
* `famous`: review.md:202-203 says that public persons are not masked.
  `famousNames` (service.go:159) has names of three words; the window of three is
  refused for one of them, but the search then tries two words and one, which no list
  rules out (service.go:741), and masks the given name and patronymic.
  `FamousPairKept` says what does hold.

What `SpelledRoundTrip` leaves open is no divergence from a promise, but worth
knowing: a fake of one digit (a house number) is also spelled inside ordinary
numbers of the text, which the replacer then changes. The property excludes that case
by its proviso `Legible`, which the code does not establish.

Three more things the models show and no run is about:

* A role word that is built like a surname ("гражданин", "господин") is a name to
  `classifyName`, and `findFIOMorph` masks it together with the name behind it, though
  review.md:72-73 says that leading role words are kept. `findFIO` does cut them off;
  its span and `findFIOMorph`'s are then merged. `RoleKept` leaves these words out.
* A PUT that switches access control off and writes a looser rule, between the two
  reads of `resolveOptions`, leaves the request with the looser rule, which no single
  configuration grants. `DecisionInForce` says that this is the only way to such a
  decision, and what it can be at most.
* A mask that is sent as a new document may be masked further ("Москва Иван Петров
  Ромашка Лютик" becomes "Москва [FIO_1] Ромашка Лютик", in which "Ромашка Лютик"
  is then found), under placeholders that are numbered from one again.

## The proofs

Every invariant and every safety property of a step that a passing run checks is also
stated by a theorem, for all values of the constants: texts, words, numbers and
documents of any length; any number of handlers, instances, connections and
administrators; any clock, pool and limit. What is assumed of the constants is in the
modules' assumptions, which TLC evaluates on every run:

* `MaskingAssumption`, `RoundTripsAssumption`, `SessionAssumption`: texts are sequences of
  words, selections are sequences of places, and a pool has a value at least, as
  every generator of `synthValue` returns one.
* `SpellingAssumption`: no value and no replacement is empty, and replacements differ. That
  they do is `NoReplacementShared`, proved of the strategies.
* `CardsAssumption`: a match of `reCard` ends with a digit,
  separators are no digits, a made-up number has as many digits as a card may have, and
  the clock runs in this century, in which `isFutureExpiry` puts years of two digits.
* `NamesAssumption`, `SpansAssumption`, `CacheAssumption`, `GatewayAssumption`,
  `ConfiguratorAssumption`, `ClusterAssumption`: types, and where those do not say it, bounds
  above 0. `ClusterAssumption` also names the faults that the cluster maps to.

### Induction and recursion

The library's induction theorems take an operator as a parameter, which the provers
cannot instantiate. **Induction** restates what is needed with sets and functions:
`Least` (a nonempty set of numbers has a least member, from the library's
`NatLessThanWellFounded` and `WFMin`), `SetInduction` from it, and two lemmas on recursive
functions. `Recursion`: there is a function with a given start and step. `Recursive`: a
function of the model that is *equal to its own defining equation* - which is all a
recursive definition with `CHOOSE` gives once some function satisfies it - takes its values
in the set its step stays in. Each recursive definition of the model gets its
equations from these two (`SyntheticEquation`, `LuhnSumEquation`, `EndsEquation`,
`ScanEquation`, in `DecimalType` the powers of ten, and `FlatEquation` for the community
modules' `FlattenSeq`), and is reasoned about by them and `SetInduction` from there on.

### Module by module

* **MaskingProofs**, words: `Reversibility`. Nothing is assumed of `Sees`. Counters separate the words of a type
  (`CountersDiffer`), so placeholders differ. A made-up value is unused when it is taken
  (`SynthValueFacts`), so a type's fakes differ until its pool is used up, and if it is, the
  request hangs (`FakesDistinct`): the proviso of `Reversibility` is that masking ends.
  The mapping therefore returns each place's own word (`MappingFacts`, `DemaskPick`); a word
  that is not detected is no replacement (`CollisionFree`) and stays. Asterisks have no
  mapping; the whole mask leads to the original. A part that spells the document itself
  is answered as a retry, which the proviso `ReadsLikeOriginal` leaves out. `RoundTripsRestore`
  and `NoReplacementShared` apply this to the two steps of RoundTrips.
* **MaskingProofs**, characters: `SpellingRestored`. The replacer is `InStep` with the
  document: at its end, at the start of a replacement, or after some characters of an
  ordinary piece, and what is written is the original up to there. That this is kept rests on
  where the pieces stand in the mask and in the original (`MaskedPlaces`, `PlainPlaces`,
  both by induction over the pieces), on `NothingElsewhere` (no key starts in an ordinary
  piece) and on `OwnKey`: at the start of a replacement its own key matches, any other that
  does is no longer, hence behind it in the sorted list or the same key. The order
  among keys of one length is left open as `sort.Slice` leaves it.
* **SessionProofs**, one service: `ForwardIdempotence`, `ReverseRestoration`,
  `SessionStability`. The properties are not inductive: they speak of answers and
  say nothing of what the store holds. `IInv` adds `StoreOK` (a stored session is the
  one of the id's document under its first rule), `IssuedOK` (masks given out are the
  document's) and `RequestsOK` (a request in flight is a forward or reverse step of
  that document), each unless the id is in `mixed` or `missed`. `WordRestoration`
  composes this with `Reversibility`: for documents without a word of their own mask, and
  answers that do not spell the document again, the
  proviso on the pure functions is gone, whatever the strategy.
  `NothingHiddenShown` has no such provisos, so it cannot use `IInv`: its invariant
  `TextsOK` says only that sessions, masks and payloads are texts, that a stored mask
  shows no value that its original does not show, and that an answer without
  restoring shows none that the request did not carry - also when a mask has been masked
  again and stored as an original.
* **SessionProofs**, cluster: `ClusterRefinement`, for any number of instances and of
  failures: the death of an instance maps to Session's `Abort`, an emptied Redis to
  `Forget`, a Redis that does not answer to a failed read or write. From it the
  contract also for a cluster that is split (`ClusterForwardIdempotence`,
  `ClusterReverseRestoration`, `ClusterWordRestoration`, `ClusterNothingHiddenShown`):
  `ClusterInv` adds to Session's `IInv` that every memory, like Redis, holds the session of
  the document or none (`MemoriesOK`); a reverse step that looks in the wrong memory puts
  its id in `missed`. `NothingLost` rests on `Safe`, which holds until Redis fails: an id of
  which anybody knows a mask has its session in Redis, so that reverse steps never reach the
  masking branch. `Shared` says that a request being served has an instance that lives and
  uses Redis.
* **DetectorProofs**, cards: `LongestPartMasked` and `MadeUpCardsFound`. The code computes the
  Luhn sum in three ways: forwards with the parity of the place (`luhnOnDigits`),
  forwards for a number whose last digit is to come (`luhnCheckDigit`), and backwards past
  separators (`isValidLuhn`). All are compared with the sum over the *set* of places;
  since its members may be added in any order (`SumsStep`), direction does not
  matter (`LuhnAgrees`, `ScanAgrees`), and one more digit turns every parity
  (`CheckDigitFits`). `EndsPrefix` says that the digits of a part are the first digits of the
  whole. `CardInv` then says that no card number longer than the length at hand begins the match.
* **DetectorProofs**, dates: `CardsLastThroughTheirMonth` and `ExpiryIsForGood`. Months are
  counted from year 0; `FutureIsMonths` turns `isFutureExpiry`'s comparison of years and
  months into one of numbers, and the clock only counts up (`ClockOK`).
* **DetectorProofs**, names: `NamesNotSkipped`, `FullNamesMasked`, `StopWordsAreKept`,
  `OrdinaryWordsAreKept`, `RolesAreKept`, `FamousPairsAreKept`. `NamesInv` adds to the
  types and `SpansInOrder` what the searches have established: every window wider than
  the one at hand has been refused (`Tried`), every span of `findFIOMorph` is the widest
  acceptable window where it starts (`MorphOK`), and every span of `findFIO` begins
  behind the role words and is no exception (`FioOK`).
* **SpansProofs**: `InputTiled`, `ExactlyDueMasked`, `SpansStayApart`,
  `PlaceholdersAllDiffer`, `LongestTypeWins`. `SpansInv` has a conjunct for each loop.
  `Filtering` is the one for the in-place filter: it never overwrites what it has yet
  to read (`kept < next`), and the kept part together with the rest holds the due
  spans. `Merging` keeps the merged spans apart, inside the sorted prefix, covering the
  same characters, and begun by a longest span; `Writing` says that the pieces written
  end at `lastIdx` and mask exactly the merged spans passed.
* **ShardedCacheProofs**: `TypeCorrect`, `LiveEntriesStay` and `Refinement`. The
  refinement needs only that the collector's time is not ahead of the clock: what
  it deletes has already vanished from `LiveItems`.
* **GatewayProofs**: `TypeCorrect`, `Counters`, `Admission`, `Overshoot`. `StepKeeps`
  states once what a step of one request must respect; the steps of the chain are
  then checked one by one. `OvershootBound` is inductive only together with
  `AdmissionBound`, which holds because the limiter counts everything that is let in, and
  with the fact that only /process requests reach the guard's deferred function.
  `Sequential` needs `Solo`: while requests do not overlap, `Fits` relates the one in the
  chain to both counters: the guard's is never behind the tester's, and ahead of it
  by one while an invalid answer is on its way back.
* **ConfiguratorProofs**: `TypeCorrect`, `DecisionCorrect`, `SwitchCorrect`.
  `DecisionInForce` speaks of finished requests; `Deciding` adds what each read has
  established on the way (after the first look at the store some configuration
  in force had access control on, the one now in force still has it unless the request
  is `torn`, and it is always among those seen). `InStep` says when the two copies of the switch may differ: only between
  the two steps of a single PUT, which brings the store's value.

Only model-checked: liveness. `RequestsAnswered`, `ShutdownEnds` and `SweepCollects` hold
under fairness only, and fairness and `ENABLED` are out of the provers' reach. The runs that
end in a violation are examples, which have nothing to prove.

## Not modelled

* The regular expressions of the detectors: they are data without control. Their outcome
  is the constant `Sees` of Masking, the spans found are arbitrary in Spans, and in Names the
  words (`tokenizeWords`) are given and the two patterns for initials left out.
* How a document is divided into words: Masking keeps the division through every pass, fine
  enough for all of them, so that spans of two passes that overlap in part do not occur.
* The history variables of Session and Cluster (`mixed`, `missed`, `trouble`, `fellBack`)
  mark where the code promises nothing: an id used under two rules (a composite switch
  that changed, a PUT that reached one instance), a session that was never stored or is
  out of reach. What happens there is allowed, not checked, but for
  `DemaskDisabledHides` and its theorems, which have no such proviso.
* The data race on `Service.composite`: the bool is read and written as if it were atomic.
* One pool per type: FIO fakes with one, two or three words and house
  numbers have pools of their own.
* The change of a mask with the month: an expiry date that has passed is no longer
  masked, so a session that is lost and made anew in the next month has another mask.
  Cards shows that this happens once at most (`ExpiredForGood`); in Session masking is a
  function of the document.
* `config.Load`: it runs before anything else, and its file and environment can
  yield any configuration, so Configurator starts with an arbitrary one. The encoding of
  sessions in Redis, the histograms of `Observe` and the audit log change nothing
  that the program reads.
* The console and the load tester: clients whose requests are those of Session's and
  Configurator's. An administrator's PUT undoes what others did since his GET; no
  document promises otherwise, so no property forbids it.
* That a request may be refused by the limiter although fewer than its maximum
  are served (a refused one counts until it is taken back) is in Gateway's states;
  it is the code's choice, and 429 is retried.

## Plan

1. *(done)* Masking, Session, the cache and its abstract map, Gateway,
   Configurator, their theorems.
2. *(done)* Cluster over Session with its refinement, start-up and shutdown; Names,
   Cards, Spans with the in-place filter; Spelling; the proofs of Cluster, Names and
   Spans.
3. *(done)* Induction; the synthetic strategy and asterisks; RoundTrips; Spelling; the Luhn
   sums, the longest card number, expiry dates; what may not be restored is not shown.
4. The joints between the modules: that the replacements Spelling assumes to differ are
   those of Masking's mapping, and that what Session calls masking a document is what
   Spans does with the detectors' spans.
