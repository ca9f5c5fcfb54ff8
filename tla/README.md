# BifrostDNS in TLA+

A formal model of [bifrost-dns](../src/README.md): TLA+ modules translated from
`src/src/*.rs`, TLC configurations that check them on small instances, and
proofs that TLAPS checks for every value of the constants.

BifrostDNS is one process that serves DNS over UDP and TCP. It answers from
mock records that users create over an HTTP API, and forwards every other
question to upstream servers, whose responses it caches.

## The system

| Part | State | Operations |
|---|---|---|
| Domain names (`models.rs`) | none | `normalize_name` |
| Record store (`store.rs`) | map from id to record, behind an `RwLock` | add, get, list and delete by filter, lookup by name and type |
| Fallback cache (`cache.rs`) | map from (name as queried, type) to response, time made, lifetime, behind an `RwLock` | get, put, flush, flush of a name |
| Management API (`api.rs`) | none of its own | record handlers, flush, health, metrics |
| Query resolution (`dns.rs`, `handle_query`, `Fallback`) | per request: where it is, its upstream attempt | look up, ask the cache, forward with a timeout per server, fill the cache, answer |
| DNS transport (`dns.rs`, `run_udp`, `run_tcp`, `handle_tcp_connection`) | sockets; per request: its client and reply | one task per datagram or connection; truncation; framing |
| Record data (`dns.rs`, `build_rdata`, `parse_svcb`, `parse_svc_param`) | per call: the word it is at, the parameters so far | text to RDATA |
| Process lifecycle (`main.rs`, the unit in `install.sh`) | listeners; the life of the store | three binds, signals, exit, restart |
| Command line client (`cli.rs`) | per command: its connection | one HTTP request, read to its end |
| Configuration (`config.rs`), installer (`install.sh`) | fixed after start | environment; set up of the host |

**How they interact.** The UDP and TCP loops spawn a task per request; the
tasks share the store and the cache with the API handlers. No lock is held over
an `await`, and no operation holds both locks, so the parts meet only in whole
lock-protected calls. A task reads the store once, then the cache, then may wait
seconds for upstream servers, then writes the cache. The client is another
process: it meets the server only through a TCP connection, which the server's
death resets.

**What is hard.** A store or a cache that changes while a task waits (a record
created, a flush); two misses on one key whose responses overtake each other;
a response that arrives as its timer fires; entries that expire but stay in the
map; names that are equal to the DNS but not to Rust's `String`; one record among several
that cannot be encoded; a client that stops in the middle of its query; a reply
too large for a datagram; descriptors that run out; a server that dies before or
after the effect of a command. `PROJECT.json` lists these as hazards, each at its line,
with the properties aimed at it.

**What makes each part correct.** The store: every spelling of a name finds,
lists and deletes the same records. The cache: a response is served only while
each of its answers' TTLs allows. Resolution: mock records come first, from one
instant; every answer is an answer to its own request; a request always ends; what
the cache serves is recent and is not older than a flush, up to a stated bound.
Transport: descriptors are given back, datagrams fit, no client takes a part for
the whole, and a client that stopped holds up no other while descriptors are
left. Record data: text of the documented format is never refused, no record is
built from text with other words, and none loses a parameter. Client and
lifecycle: what a command reports is what the server decided, a list shows what a
delete would remove, and a crash is followed by a restart.

## Modules

```
DnsNames ── DnsCache ── SharedCache ── MCCache          TtlCache (abstract)
   │            │            └── SharedCacheProofs          ▲ Promise
   │            │ INSTANCE
   ├──────── Resolver ── MCResolver                      DnsService (abstract)
   │            │   └── ResolverProofs ── ServiceProofs     ▲ Service
   │            │ INSTANCE
   ├── RecordStore ── RecordApi ── MCStore               Zone (abstract)
   │                      │   └── RecordApiProofs           ▲ ZonePromise
   │                      │ INSTANCE
   │                   Commands ── Operations ── MCOperations
   │                                   └── OperationsProofs
   │                                                     RemoteStore (abstract)
   │                                                        ▲ Promise
   └── Lemmas (extended by SharedCache-, RecordApi- and ResolverProofs)

Transport ── MCTransport             RecordData ── MCRecordData
    └── TransportProofs                  └── RecordDataProofs
```

**DnsNames.** A name is the domain it denotes, the way its letters are
capitalised and whether it has the final dot. `normalize_name` is
`models.rs:77`. `WireNames` are the names `Name::to_string` makes of a question:
capitals kept, final dot present.

**DnsCache.** The `HashMap` as a total function with `NoEntry`, and every method
of `DnsCache` as an operator on it: `Fresh` and `Found` are what `get` tests and
returns, `get` is what it leaves behind (an expired entry goes when its key is
asked for), `put` with `extract_ttl`, `flush`, `flush_domain`. A response is
abstracted to whether it parses and to the set of its answers' TTLs.

**SharedCache.** Those operators as the steps of a specification: each call holds
the write lock from start to end (`cache.rs:152-166`), so each is one step.
`answer` is what the last `get` returned, and for which key. **TtlCache** is the abstract cache
that holds nothing expired; `Promise` is the refinement, with
`held[k]` the entry of `k` while it is fresh.

**RecordStore, RecordApi.** The store's methods as operators, and the HTTP
handlers as steps with their status and body. A filter parameter may be absent
(`None`) and the type may be one that `RecordType::from_str` refuses
(`BadType`). Ids come from `Uuid::new_v4`; `issued` remembers them, as one is
never given twice. `asked` and `reply` are the last request and its response: with the
request in sight, a response that suits only another request refines nothing.
**Zone** is the abstract store, which knows domains and no spellings;
`ZonePromise` is the refinement.

**Resolver.** One task per request. Its steps are the stretches of
`handle_query` and `Fallback::forward` between locks and awaits:

| Step | Code |
|---|---|
| `Arrive` | a datagram or connection spawns a task (`dns.rs:447-463`) |
| `Reject` | does not parse, or has no question (315-324) |
| `Lookup` | the store's read lock; the whole local answer, or the refusal without fallback (330-375, 405-418) |
| `AskCache` | the cache's lock; a hit is patched and returned (381-387) |
| `Send` | bind, connect, send to the next server (62-67) |
| `AttemptFails`, `TimesOut`, `Receive` | the three ends of `timeout(recv)` (70-76) |
| `FillCache` | the cache's lock, then the patch of the id (396-398) |
| `Reply` | the reply is sent and the task ends |

Around them the API's handlers (`create_record`, `delete_record`,
`delete_records`, `flush_cache`) take the same locks in steps of their own,
`UpstreamReplies` is an upstream server and `Tick` the clock. `request`, `server`,
`deadline`, `socket` and `answer` are a task's local variables. `arrived` and
`flushed` and the field `asked_at` of a response are history, read by properties only.
A record's data is `plain`, `unbuildable` (`build_record` fails and the record
is skipped) or `unencodable` (`to_vec` fails for the whole message, as it does for
a TXT string over 255 bytes).

**DnsService** is what a client is promised: its request is decided against the
zone of one instant; local records alone make the answer if there are any;
otherwise an answer from elsewhere is still one to its id and its question.

**Transport.** The sockets around `handle_query`. A peer is a client with one
question; it sends it as a datagram, perhaps again, or over a connection, and
turns to TCP when a reply has the TC flag. A worker is a task for a datagram
(`Tasks`) or for a connection (named by its client):

| Step | Code |
|---|---|
| `Receive` | `recv_from`, then a task (`dns.rs:447-462`) |
| `Accept` | `accept`, then a task (510-528); without a descriptor it fails and is tried again |
| `ReadQuery`, `ReadFails` | `read_u16` and `read_exact`: the whole query, or the end of the stream (539-542) |
| `handle_query` | a local or cached answer at once, or the socket of `forward_to`; without a descriptor for it, `Refusal` |
| `Forwarded` | an upstream server answered, or all failed (42-77) |
| `SendReply` | `Datagrams` (the truncation, 463-491) and `send_to`, which may fail |
| `WriteReply` | `Frame` (length and reply, 544-548); the stream is dropped |

A reply is its size, whether `Message::from_vec` reads it, its size when encoded
again and whether it has the TC flag: what the truncation tells apart. The
encoder of hickory stops at 65535 bytes and `forward_to` reads 4096, so the cast
to `u16` is exact; `Frame` takes it modulo 65536 all the same. What
`handle_query` does in between is Resolver's, so here it is an outcome out of
`Kinds`. A descriptor that is freed is freed in the step that ends its task: the
stream or socket is dropped there by every return.

**RecordData.** One record whose data is parsed. The text is its words, perhaps
none, and the white space around them: `tight` (one character between words and
none around them), `after` (one more at the end) or `loose`. `str::parse` and
`Name::from_str` refuse white space that `split_whitespace` ignores, and MX is cut
at its first white space, so that `10 ` has an empty host. The loop of
`parse_svcb` takes one parameter per step. Which words are numbers, addresses,
names, base64 or keys is given by sets: those parsers are the libraries'. The
format of README.md, "Record Data Formats", and of RFC 9460, which it names, is
written beside the code and not from it: `Format` lists the words of each type,
`Items` the items of each parameter's value, `Consistent` what RFC 9460 asks of
`mandatory` and `no-default-alpn`. The code builds more than that (`Fits` instead of
`Documented`): text whose host is missing, as hickory reads an empty name, items
that are empty, parameters that are not consistent.

**Commands, RemoteStore, Operations.** `run` puts the arguments of a command
into a body with `format!` and no escapes (`cli.rs:183-184`), or into a URL without
percent-encoding (212-223, 279-290). `InBody` and `InQuery` say what the server reads
there, which may be other arguments or nothing (`Unreadable`): a quotation mark ends a
string, a backslash begins an escape, `%`, `&` and `#` have a meaning in a URL, and
serde has the types in capitals only where `from_str` takes any. The properties and
proofs hold for every such function. `Served(k)` is the handler of RecordApi
that command `k` leads to, with its effect and its response; a body or query that
an extractor refuses is answered 400 or 422 before the handler runs (`Refuse`). **RemoteStore** is the promise:
each command is decided at most once, in one step; a client ends as the server
decided, or has given up and says nothing; a restart removes every record and
nothing else does without a command. **Operations** is the process and the
client:

| Step | Code |
|---|---|
| `Start`, `Relaunch`, `Stop` | `systemctl`, and `Restart=on-failure` after `RestartSec` (`install.sh:315-316`) |
| `BindDns`, `BindApi` | the three binds (`main.rs:84-116`): the DNS ones may fail and are only logged, without the API port main returns |
| `Terminate`, `Crash` | a signal that main handles (125-142), or the death of the process: the store is gone, connections are reset |
| `Handle` | a task of `axum::serve` reads the request and answers |
| `Connect` | connect and write (`cli.rs:91-108`) |
| `Receive`, `Reset`, `Break` | `read_to_end` (110-114): a response, the end without one, an error or an interrupt |

`known` is history, read by `PreviewIsHonest` only: the ids that had been given
when a response was made. `Receive` may leave `printed` as it was: a body that was
cut, or one whose data says "transfer-encoding: chunked", for which `cli.rs:135` searches
the whole response, does not parse, and the status decides all the same. `Verdict` is
how the arms of `run` end (185-322): the status each one expects,
`Not found` for an id, and exit status 1 otherwise. `Dies` chooses which responses
that were written get out before the reset. The mapping to RemoteStore reads
`decided` from the responses and `told` from where the clients are; binding,
launching and connecting are not seen there.

Modelled from the code's use of them, as external: upstream servers (a
response copies the id and the question of the query it answers), DNS clients and
the network, the clock, systemd, the runtime. Definitions named `..._longest`, `..._kept` and the like, under a
comment that starts with "Mutant:", are plausible mistakes in the operator that
follows; no specification uses them. Each property of a passing run is violated
when one of them takes that operator's place.

## Runs

| Run | Shows | Bounds |
|---|---|---|
| `cache` | `TypeOK`; `ServedWithinEveryTtl`; `Promise`: the lazy map refines TtlCache | one domain in two spellings, two types (four keys); lifetimes 0 and 2 (the shorter TTL, the cap); the clock to 2 |
| `store` | `TypeOK`; `ZonePromise`: the API refines Zone | two domains with four spellings each, two types, three ids |
| `answers` | `TypeOK`; `Service`: the resolver refines DnsService | two tasks, five messages, one record of each class of data, no or one upstream server |
| `freshness` | `HoldsOwnAnswers`, `FreshMeansRecent`, `ServedWithinTtls`, `FlushForgets` | two tasks, two spellings, flushes, responses with one answer of TTL 2 or two of TTL 0 and 2, the clock to 3, timeout 1 |
| `progress` | `WaitBounded`; `OnlyForward` of each step; `QueryEnds` under fairness | two tasks, up to two servers, the clock to 3 |
| `transport` | `TypeOK`, `NoLeak`, `RepliesFit`, `OneReplyEach`, `AnsweredInFull`; `ExchangeEnds` under fairness | three clients, the first with six kinds of reply and two sends, the second with one and one, the third with TCP only; one task for datagrams, two descriptors |
| `svcb` | `TypeOK`, `BuiltFits`, `DocumentedBuilds`, `BuiltAsWritten` | no word to four words of four classes, in each white space; up to three parameters of sixteen spellings |
| `operations` | `TypeOK`, `EveryRecordAsked`, `IdsKeepMeaning`; `Promise`: Operations refines RemoteStore; `CommandEnds`, `Recovers` under fairness | two clients with two and nine commands, among them names, types and data that the server reads otherwise or not at all; two ids, data of its own for each client, one crash |
| `preview` | `PreviewIsHonest` of each step | three clients: an add of one of two names, a list and a delete, each without a filter or with one whose type is lost on the way; two ids, no crash but any number of stops and starts |

The bounds are enough for what the properties tell apart: two spellings are
equal to the DNS and different to `String`; two ids and two tasks are the least
for one client's response to reach another; a lifetime of two with a clock to
three lets an entry be made, be served and expire, and be overwritten in between; a timeout
of one and two servers reach every exit of the retry loop. In `answers` the
spelling a client uses, the API's names and the message without a question are
single representatives. A request arrives only while there is time for all its
timeouts before the clock stops, so the end of the clock hides no step. In
`SYMMETRY` the two tasks are interchanged: no property names one.

In `transport` two descriptors and four workers that each may need one, and a
connection that forwards needs two, reach every way to run out; the first client's
kinds are one for each branch of `Datagrams` and `Frame`, with the sizes 512 and
65535 at their limits, and its second send gives it a stale reply after it turned
to TCP. Two of the three clients can stop with both descriptors in their hands,
which is when the third is never accepted, and one that stops leaves a descriptor
to the other two. In `svcb` three parameters are the least for a repeated key with
another in between, and every branch of `parse_svc_param` is reached, with a value
it takes or one it refuses. In `operations` one client changes what the other's
command finds, one of two ids is missing or present, and one crash comes at every
point of both exchanges; their records differ in the data, so that one id given
twice shows; the number of voluntary stops and starts is not bounded. In `preview`
the record that is added comes before, between or after the list and the delete,
and is one that both filters select or only the empty one.

Three more runs end in a violation, each a disagreement of the code with its
documentation:

| Run | Finding |
|---|---|
| `flush_case` | `flush_domain` lowers its argument and compares it with keys that keep the capitals of the query, so an entry cached under another spelling survives (`cache.rs:98`; `cache.rs:87-88`). |
| `silence` | A mock record that can be built but not encoded makes `handle_query` return `None`: the client gets no reply, not even the valid records of the name (`dns.rs:373`; `README.md:378`). |
| `unmarked` | A reply that is over 512 bytes even when encoded again is cut from the original, which lacks the TC flag just set in the copy: the client is not told to retry over TCP (`dns.rs:480`; `dns.rs:464-466`). |

Other disagreements have no run of their own; the models have each of them as a step
that the code takes:

- An upstream response that does not parse is cached for 30 seconds whatever `CACHE_TTL`
  says: `extract_ttl` applies the cap on every path but that (`cache.rs:128`;
  `cache.rs:57-58`, `README.md:95`). In TtlCache the longest lifetime is therefore the
  greater of the cap and the negative TTL.
- `split` gives at least one item, so the test for an empty list never fires: `alpn=` is
  built as one protocol of no characters (`dns.rs:238`; `dns.rs:239`, and RFC 9460,
  named in `README.md:346`). `Filled` keeps it out of the documented format.
- `add` does not escape its arguments: TXT data with a quotation mark is refused, with a
  backslash stored as other text (`cli.rs:184`; `README.md:344`, "Arbitrary text").
  `InBody` says so, and two adds of `operations` carry such data.
- A question of a type the store does not have is refused with NotImp where
  `README.md:94` and `110` have NXDOMAIN; the comment at `dns.rs:308` has what the code
  does, and so does DnsService.

## Fairness

`progress` assumes `WF` of each task's own steps: tokio polls every task whose
future can move. It assumes `SF` of `Tick`: the clock does not stop because requests
keep coming. It assumes nothing of upstream servers or socket errors
(`UpstreamReplies` and `AttemptFails` are unfair): that a task ends rests on the
timer alone. `Tick` moves only when each task is idle or waits for an
upstream server: computing takes no time on a clock of seconds, and a timer that has fired
is handled before the next second. Without it, `FreshMeansRecent`
and `WaitBounded` would be off by the time a task is left unscheduled.

`transport` assumes `WF` of each loop and of each task's own steps, again tokio's
polling, and nothing of clients and network, which may stop anywhere:
`ExchangeEnds` is about a client that wrote its whole query. It excepts the one case in
which the code cannot help: `read_exact` has no timeout (`dns.rs:542`), so clients that
stop in the middle of their query can hold every descriptor, and then `accept` fails
for ever. It needs no strong fairness: a descriptor that is free while a connection
waits to be accepted can be taken by other tasks only until theirs are done, and the run
has finitely many requests. With requests without end, which share of the descriptors
the accept loop gets is the scheduler's affair, and nothing is claimed.

`operations` assumes `WF` of `Relaunch` (systemd), of the binds, of `Handle`, and of
`Receive` and `Reset` (the kernel closes the connections of a dead process, on
the same machine; a client of a remote server may wait for ever, as
`http_request` has no timeout). Nobody has to start the server, to stop it or to
run a command. `Recovers` may end in `off`: an administrator stops the unit, or
the API port is taken, which exits with status 0 and is not restarted.

## Proofs

`SharedCacheProofs`, for any names, types, responses, cap and negative TTL:

- `TypeCorrect` and `NeverServedPastATtl`, from the invariant `IInv`: the type
  invariant and `OwnTtl`, that each entry's lifetime is the one `extract_ttl` computes
  from the response stored with it. Without `OwnTtl` an overwritten entry might keep
  another response's lifetime. `TtlBounds` (the lifetime is at most each
  answer's TTL) rests on `MinOfNats`, which gets the least element of an arbitrary set
  of TTLs (`LeastOfNats`) from the well-foundedness of `<`.
- `Refinement` (`Spec => Promise`): one lemma per operation maps it to a step of
  TtlCache. A `get` of an expired entry changes the map and nothing that is held; a
  tick expires in TtlCache what stays in the map here.

`RecordApiProofs`, for any domains, spellings, ids, types and data:

- `StoreTypeCorrect`: a record is kept under its own issued id and its canonical
  name; the invariant is inductive as it stands.
- `ZoneRefinement` (`Spec => ZonePromise`): `CanonicalNames` says that two spellings
  have one canonical form exactly when they denote one domain, `FilterByDomain`
  that a filter by spelling selects what the filter by its domain describes,
  `RemovedViews` that removing records removes no other record's view.

`ResolverProofs`, for any number of tasks and upstream servers, any names,
records, requests and responses, any timeout and lifetimes. All rest on the invariant
`IInv`, since none of the properties is inductive:

- `OnTime`: a task at server *i* came at most *i* - 1 timeouts before it sent, and
  its deadline is at most *i* timeouts after it came. `WaitIsBounded`
  follows; so does the typing of `deadline`, as the clock never stops before a
  deadline. `Wait` hides the product of a count and the timeout behind its three laws.
- `OwnSocket`: a response in a socket answers the question of the task that reads
  it and was asked for when this attempt began.
- `EntryOK`: an entry answers its key, its response was at most one timeout old
  when it was stored, its lifetime is at most the TTL of each of its answers, and no flush
  of its name is later than that. With `OwnSocket` it is
  preserved by `FillCache`; `CacheHoldsOwnAnswers`, `CacheIsRecent`,
  `NoAnswerOutlivesItsTtl` and `FlushIsFinal` follow.
- `LifetimeBounds`: a lifetime is a number, no more than any answer's TTL, whatever
  nonempty set the TTLs are. It rests on `LeastOfNats` once more; `ResolverTypeCorrect`
  needs it too.
- `RequestGoesForward`: an action property, `OnlyForward`, by one case per step. It
  needs of the invariant that no server has been tried before the cache was asked, so that
  the first attempt is at the first server.

`ServiceProofs` shows `ServiceRefinement` (`Spec => Service`): each step of a
task is the step of DnsService that its phase allows, or invisible. Two more invariants
are needed: that only a task about to reply has an answer, and that the store holds
canonical names only, so that a lookup by a canonical spelling finds the records of
the domain (`LocalIsMatching`).

`TransportProofs`, for any clients, tasks, kinds of question and limits:

- `TransportTypes`; `DatagramFacts` says what `Datagrams` can make of a reply, and
  that of a frame's length the modulus changes nothing, as no reply is over the limit.
- `DescriptorsReturned`: `NoLeak` counts two sets, so each step that opens or
  closes adds or removes one member of one of them.
- `DatagramsFit` follows from the packets in flight alone; `AnswersAreWhole` needs
  `OwnReplies`: a task's reply, and a packet to a client, is one to that client's
  question or a refusal.
- `RepliesAreOwed` counts too: `Owed` is `OneReplyEach` with its sum named `Count`, and
  besides that finitely many replies are in flight and an idle task has no peer. A step
  moves one query or reply on, drops it, or follows a new send (`OwedStep`).
  `OneDatagram`: every branch of `Datagrams` makes at most one packet of a reply.

`RecordDataProofs`, for texts of any length: `OnlyTheFormat`, `DocumentedFormatWorks`
and `ParametersAsWritten` rest on the loop invariant of `parse_svcb`: the words
before the one at hand are good, their keys differ, and what was pushed is what they
say. A loop that ends in an error has found a word that the format does not have.

`OperationsProofs`, for any number of commands and crashes: `OperationsTypes` is
inductive as it stands. `OperationsRefinement` (`Spec => Promise`) needs `Decided`,
that the status of a response is one its handler gives: `run` compares with
the status it expects and RemoteStore reads the status alone, and only for those
statuses they agree (`SameVerdict`). `RecordsWereAsked` and `ShownIdsKeepMeaning` are
proved together, from `Accounted`: to both of them it adds `Numbered`, that every id in
use or shown was issued, for otherwise the next `add` might be given it.
`ListPreviewsDelete` (`Spec => PreviewIsHonest`) rests on `Seen`: of the records that a
list knew, those that are left were shown exactly if the filter that the server read
selects them. It is kept because an id that was known is never given again and a record
never changes, so that a known record stays as it is or is gone. `DeleteRemoves`
needs `Numbered` too, as `delete_filtered` collects ids from the records and removes by key.

`Lemmas` holds what several of these use: canonical names and the least
element of a set of naturals.

They assume what the modules' `ASSUME`s say: sentinels are not
members of the sets they stand beside, times are naturals, a response that does not
parse has no TTLs. TLC evaluates these on every run.

Only model-checked: `QueryEnds`, `ExchangeEnds`, `CommandEnds` and `Recovers`, as
liveness is out of the prover's reach. The three violations are of course found, not
proved.

## Not modelled

- The decoding of a chunked body (`cli.rs:145-170`), which slices past the end of
  a body that was cut: the server's JSON responses have a `Content-Length`. A
  response that says "transfer-encoding: chunked" in a record's data gets there all the
  same, has no chunk and becomes an empty text: `list` prints "Failed to parse response"
  and ends with status 0 (`Receive` with `printed` unchanged).
- The parsing of arguments, the texts printed and the command `flush` (its effect is
  Resolver's `flush_cache`). The id of a delete is one that the server printed, whose
  characters mean nothing in a URL. The JSON and URL syntax that `InBody` and `InQuery`
  stand for, and which of 400 and 422 an extractor answers.
- Quoted values with white space in SVCB parameters, which RFC 9460 has and
  `split_whitespace` cuts: a value here is free of white space.
- Source ports that are used again (`dns.rs:72`): Resolver gives each attempt a
  socket of its own. Whether a late response finds its way to a later
  attempt is decided by the kernel's choice of ports.
- `Config::from_env`: one pass over the environment before any thread starts.
- The installer, a script run once by hand, apart from its unit file.
- Logging, metrics and `cache_stats` (no state), the parsing of record types,
  the wire format itself.

Known limits that a property would only restate, because the code sets no bound or
promises nothing: the cache map and the number of tasks grow without limit; a
client that stops in the middle of a query over TCP keeps its connection, and enough of
them keep every descriptor (`ExchangeEnds` excepts that, and `CommandEnds` knows no
descriptors: the API's connections are taken from the same supply); with no
descriptors left a question is answered NXDOMAIN although upstream is well, and
the accept loop spins; a query over TCP is forwarded over UDP, so a reply that
upstream truncated stays truncated, and is cached; a failed DNS bind leaves a
process whose `/health` is ok; a failed API bind exits with status 0;
`bifrost-dns delete` without arguments deletes every record, as the API does
without a filter, and an argument with `#` in it can lose the filters after it;
CNAME, NS and MX records with an empty host are built; SVCB parameters are served in
the order written, `mandatory` is not compared with them, and `no-default-alpn` needs no
`alpn`.
