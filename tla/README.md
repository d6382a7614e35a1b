# A verification development for imagehost

imagehost receives image files over HTTP, optionally archives the original in a
private S3 bucket, strips its metadata and corrects its rotation, publishes the
clean image in a public S3 bucket under a random name, and answers with its URL.
This directory holds TLA+ modules of it, from the command line to the last
connection; TLC configurations that model-check them on small instances; and TLAPS
proofs for every instance. `PROJECT.json` lists the runs, the faulty variants each
property catches, the source lines each definition stands for, the hazards, the
findings and the theorems. Source paths below are relative to the root of the
repository; "goamz", "goji", "httpauth", "imaging", "bpool", "goexif", "graceful",
"pflag" and "yaml" are the vendored packages under `Godeps/_workspace/src`.

## Inventory

| part | state | operations | with whom |
|---|---|---|---|
| **upload handler** `routes.go`, `util.go` | per request: the form, the open file with its read offset, the sanitized bytes | `Upload`: parse the form, `extractFile`, `checkImage`, PUT to the archive, rewind, `SanitizeImageFrom`, `randString`, PUT to the public bucket, answer | calls the sanitizer and goamz; called by goji in a goroutine per connection |
| **image sanitizer** `image.go` | none (a pure function of the file and of what fails underneath) | `checkImage`, `SanitizeImageFrom`, `parseExif`, `fixOrientation`, `CloneToRGBA` | goexif, imaging, image codecs |
| **image transforms** imaging `transform.go`, `parallel.go` | source and destination pixels, a shared row counter | `Rotate90/180/270`, `FlipH`; `parallel` starts GOMAXPROCS goroutines over one destination | called by `fixOrientation` |
| **S3 client and store** goamz `s3/s3.go` | the objects in the buckets, PUTs under way | `PutReader`, `URL` | called by the handler; S3 itself is external |
| **index page and buffer pool** `templates.go`, bpool | a channel of twenty buffers, shared by all requests | `renderTemplate`, `Get`, `Put` | called by `Index` |
| **request pipeline** `middleware.go`, `writer_proxy.go`, `render.go`, goji `web` | pooled middleware stacks, `c.Env`, status and byte count of a response | request id, log, recover, automatic OPTIONS, injection of client and config | wraps every handler |
| **authentication** httpauth | none | check one header | in front of `/upload` |
| **router** goji `web` | the route table, compiled to bytecode | add a route, compile, match a path and method | outer mux, inner mux for `/*` |
| **graceful shutdown** graceful | the set of connections, four channels, a timer | `Run`, `Serve`, connection manager, interrupt handler | net/http calls `ConnState` |
| **configuration and startup** `main.go`, pflag | flags, the configuration, the table of routes | `flag.Parse`, `loadConfig`, `validateConfig`, wiring | once; reads through yaml |
| **YAML** yaml | raw buffer, character buffer, queue of tokens, simple keys, indents, parser states, anchors | `Unmarshal`, `Marshal` | called by `loadConfig` |
| **static assets** `util.go`, generated code | constant data | `ServeAsset` | pipeline, router |

What is hard about each, and what makes it correct:

* *Upload handler and S3.* Requests run concurrently over shared buckets. A PUT
  can fail before or after it was stored, be stored after its sender gave up or
  died, and there is no retry and no timeout. The process may end between the
  two PUTs. One file offset is shared by three or four readers. Correct means:
  nothing public carries metadata; nothing is public before its original is
  archived; a 400 leaves no trace; a 200 comes with a URL that serves that
  upload; good files are published; files are closed; uploads end.
* *Sanitizer and transforms.* Eight orientation values, four transforms, nil
  results next to errors. Correct means: every picture ends upright, to the
  pixel, without metadata, and every failure is an error value.
* *parallel.* Goroutines write one image without a lock. Correct means: no row
  is shared, none is missing when the transform returns.
* *Buffer pool.* Buffers are reused by requests that do not know of one another.
  Correct means: one owner at a time, nothing left over from another page, and
  no request waits for ever.
* *Pipeline and authentication.* Stacks of middleware that close over a context
  are reused by other requests; a panic passes half of the stack; an OPTIONS
  request is answered by rewriting a 404. Correct means: a request works in its own
  environment, nobody uploads without credentials, every request is answered as
  promised for it and logged as answered.
* *Router.* A table sorted by a comparison that is no order, then compiled, and a
  loop over the result without a bound. Correct means: the first route that was added
  and matches is used, and the loop ends.
* *Shutdown.* Unbuffered channels between the manager, `Serve`, connection
  goroutines and a timer. Correct means: `Serve` returns after the last
  connection or the timeout, and nobody is left waiting on a channel.
* *Startup and YAML.* A hand-driven scanner and parser with state in queues and
  stacks, a buffer between octets and characters, a decoder that fills structs in
  place. Correct means: nothing is lost between the file and the configuration
  that is served with; what Marshal writes Unmarshal reads; no text loops.

## Modules

| module | models | checked by |
|---|---|---|
| `Sanitize` | `image.go` as operators on an abstract file | through `Upload`; proofs in `UploadProofs` |
| `Storage` | the S3 service behind goamz `PutReader` and `URL` | through `Upload` |
| `Upload` | the handler of `POST /upload`, any number of them, over `Storage` with `Sanitize` | `MCUpload*.cfg`, `UploadProofs` |
| `UploadService` | the abstract promise of the service | refined by `Upload`: `ImplementsService`, `UploadRefines` |
| `BufferPool` | `renderTemplate` and bpool | `BufferPool*.cfg`, `BufferPoolProofs` |
| `Parallel` | imaging `parallel` with the row loops of the transforms | `Parallel.cfg`, `ParallelProofs` |
| `Orientation` | the pixel loops of the transforms and the switch of `fixOrientation` | `MCOrientation.cfg`, `OrientationProofs` |
| `Graceful` | `Serve` of graceful with its goroutines, over net/http's connections | `Graceful.cfg`, `GracefulProofs` |
| `Routes` | goji's patterns and routes, the promise of the first match, the sorted table | through `Pipeline` and `Router`; `RoutesProofs` |
| `Pipeline` | both muxes, their middleware and pools, authentication, the response writers | `MCPipeline.cfg`, `PipelineProofs` |
| `Router` | goji's router: routes added, the trie, the bytecode and its machine | through `Startup`; `RoutesProofs` |
| `YamlText` | characters and their classes | through `Yaml` |
| `YamlReader` | `readerc.go`: octets to characters | through `Yaml`; `YamlReaderProofs` |
| `YamlScanner` | `scannerc.go`: characters to tokens | through `Yaml` |
| `YamlParser` | `parserc.go`: tokens to events | through `Yaml` |
| `YamlEmitter` | `emitterc.go`: events to text | through `Yaml` |
| `YamlDecode` | `decode.go`, `resolve.go`, `encode.go`: events to values and back | through `Yaml` |
| `Yaml` | `Marshal` and `Unmarshal` step by step | through `Startup` |
| `Startup` | `main` up to the open listener, over `Yaml` and `Router` | `MCStartup*.cfg` |

`Upload` EXTENDS `Sanitize` and `Storage` and instantiates `UploadService` with a
refinement mapping. `Orientation` instantiates `Sanitize` to show that its pose
arithmetic is what the pixel loops do, so `Upload` need not know pixels. `Pipeline`
and `Router` share `Routes`: the pipeline routes by `FirstMatch`, the router promises
that its compiled table gives the first match, and `MuxesAreFirstMatch` proves it of the
pipeline's two muxes. `Startup` EXTENDS `Router`, whose routes main adds, and `Yaml`,
which composes the six other modules of package yaml. An operator
marked `Wrong:` is a faulty variant of the definition below it (a dropped guard, a
missing rewind, exchanged calls); no specification uses one. `PROJECT.json` says
which property tells each of them from the code.

### Upload and Storage

A handler is a process whose `pc` is the next call that can fail, block or be cut
off; everything between two such calls is one step.

| action | code |
|---|---|
| `Arrive` | a request reaches `Upload` through the muxes (`main.go:157-171`) |
| `ParseForm` | `ParseMultipartForm`, which waits for the client's body, and its 400 (`routes.go:27-31`) |
| `ExtractFile` | `extractFile`, with the leak when `getSize` fails (`routes.go:116-136`) |
| `CheckImage` | `checkImage` and its 400 (`routes.go:41-45`, `image.go:20-28`) |
| `SendArchive`, `Archived`, `PutFails` | `PutReader` to the archive, its two results, the rewind (`routes.go:55-75`) |
| `SanitizeUpload` | `SanitizeImageFrom` with any set of faults; its error and its panic (`routes.go:79-83`, `middleware.go:73-94`) |
| `SendPublic`, `Published`, `PutFails` | `randString`, `PutReader` to the public bucket, the answer (`routes.go:86-113`) |
| `S3Stores`, `S3Drops` | the service stores or drops a PUT, at any time after it was sent |
| `Kill` | the process ends: a crash, or the ten seconds of `graceful.Run` (`main.go:176`) |

`pos` is the file's offset, abstracted to its two ends: every reader reads to the
end and every `Seek` goes to the start. `image` is what the sanitizer returned,
`request` the last PUT. `wire`, `objects` and `stored` are S3's: the PUTs under
way, the last object at each address, and the history of what was stored.
`faulted` is a history variable too: it lets a property speak of uploads nothing
went wrong underneath. File contents are abstracted to a format, a kind of EXIF
result, an Orientation tag, a pose and one bit for metadata. A name is a value;
the public name is the pair of a random name and the format, so a client may post
a file that has the name the server will draw.

### Sanitize and Orientation

A pose is a picture mirrored zero or one time and then turned counterclockwise by
quarter turns. `FixOrientation` has the cases of the code, `Diagram` is read off
the comment with the eight F's (`image.go:144-153`), and `SanitizeImageFrom` keeps
the order of the code's checks, including the two places where a nil is followed
(`image.go:61` and `76`). `Orientation` has the transforms as functions on pixels,
with the source coordinates of each loop; `Place` says geometrically where a pixel
of the scene lies in an image of a given pose, independently of the loops.
`MCOrientation` adds the eight F's themselves as images, so that `Diagram` is
checked against the comment's drawing. Strides and channels are left out.

### BufferPool and Parallel

The channel of bpool is a sequence of buffers; a goroutine waiting to send is one
whose `Put` is not enabled. A buffer's content is the set of requests whose page is
in it. In `Parallel`, `Take` and `Finish` are one atomic add each with the
comparison that follows it, `Copy` is one row of the loop in a transform, `Return`
is `wg.Wait`. With one worker the part is all rows, as in the code's sequential
branch; the worker's second turn finds no rows.

### Graceful

Four kinds of goroutine: `Serve` (`serve`), the manager (`manager`, `asked`,
`managed`), the one that waits for a signal (`signal`), and one per connection
(`conn`). The channels `add`, `remove`, `shutdown` and `done` are unbuffered, so a
communication is one step that needs both sides: `Add`, `Remove`, `Shutdown`,
`Done`. A goroutine that waits on a channel is one whose step is not enabled.

| action | code |
|---|---|
| `Accept`, `Add` | `ConnState` with `StateNew`, called by the accept loop before the connection has a goroutine (`graceful.go:164-167`, `185`) |
| `Request`, `Respond`, `Close` | net/http's connection; an idle one stays unless keep-alive is off when it answers |
| `Remove` | `ConnState` with `StateClosed` (`168-169`) and the manager's case (`187-192`) |
| `AcceptFails`, `ListenerBreaks` | `srv.Server.Serve` returns, after a signal or without one (`228`) |
| `Interrupt`, `CloseListener` | the interrupt goroutine (`213-224`) |
| `Shutdown` | `shutdown <- done` (`232`, `193-197`) |
| `Done`, `Timeout`, `Kill` | the select of `Serve` (`234-242`) and the manager's last case (`198-202`) |

An idle keep-alive connection that sends nothing holds `Serve` until the timeout:
`SetKeepAlivesEnabled(false)` takes effect after a connection's next answer only.
After the timeout `Serve` returns as soon as it has closed `kill`; the manager closes
the connections later, if the process still exists (graceful's README, 98-100, has
it the other way round). After `Kill` nobody receives from `remove`, and a manager
that was sending on `done` when the timer expired waits for ever; the model leaves
them waiting as the code does, and the process ends with `Serve`.

### Pipeline

A request is a process from `Mux.ServeHTTP` of the outer mux to the release of its
stack. A stack of middleware is named after the request it was built for, an `Env`
map after the request that made it, so that sharing shows. `sync.Pool` may always say
that it is empty, hence `Allocatable`.

| action | code |
|---|---|
| `Begin`, `Release` | alloc and release of the outer mux's stack (goji `mux.go:77-83`, `middleware.go:98-116`) |
| `Identify` | `RequestID`, which makes the map, the first half of `logMiddleware`, the deferred recover, `AutomaticOptions` |
| `Inject` | the function `main` adds last (`main.go:146-154`) |
| `RouteOuter`, `RouteInner` | `router.route`, which leaves the methods it could have used in the environment (goji `router.go:110-143`) |
| `EnterInner`, `LeaveInner` | `ServeHTTPC` of the mux for `/*`, with a stack of its own over the same map |
| `Authenticate` | `basicAuth`: go on, 401, or the index out of range of `basic_auth.go:72` |
| `ServeIndex`, `ServeAsset`, `ServeUpload`, `ServeNotFound` | the handlers, by what they may answer |
| `RunHandler` | `ServeIndex`, `ServeAsset` or `ServeUpload`: what may wait for a client, for S3 or for room in a pool |
| `Recover` | `recoverMiddleware`; the panic has passed the release of the inner stack, which is lost (`middleware.go:73-94`) |
| `Finish` | the second half of `logMiddleware` (`middleware.go:55-69`) |

`writer` is the `basicWriter` together with what net/http made of it, `proxy` the state
of `autoOptionsProxy`. The `basicWriter` counts a piece of the body whatever becomes of it
(`writer_proxy.go:42-47`); net/http sends none of it for a HEAD request, nor after the
connection broke, which it may do at any piece (`broken`). `ran` and `logged` are history variables: which handler ran in
which map, and what the last line of the log says. `Promised` says what each request
may be answered, without looking at how it is routed. An OPTIONS request for "/" or an
asset is answered 404 without a header Allow if it has the credentials and 401 if it
has none, as it goes through "/*" to the inner mux.

### Routes and Router

A path is a sequence of bytes; patterns are parsed and matched as in
`string_pattern.go`. `handle` inserts a route where the code's loop stops, `TableOf` adds
the routes of a list one by one. The table is only ever built by `handle`.

The router's state is its table (`sorted`), its machine, and a history of what was
added (`added`). `Add` is `router.handle`, which drops the machine; `Compile` is a request
that found none and makes one. Both are one step, as both hold the router's lock. Of two
requests that find no machine both compile, so `Compile` is possible at any time.
`RouterSpec` is a router by itself, to which any routes are added at any time; in `Startup`
it is main that adds them.

A trie is not built as a tree in the model: a node is the stretch of the table that
`buildTrie` is called with and the depth `dp` (`Nodes`), its segments begin at the routes
whose prefix ends there (`Own`), its children where the next byte is a new one (`Forks`),
and a child goes as far down as the common prefix of its routes (`Child`). `encode` is both
methods of that name: what each route gives to the head and the body of its segment
(`SegmentHead`, `Body`), joined in the order of the code, with the relative addresses moved
as the code's two loops do (`Moved`). The tries of `compile` are a recursive function over
the nodes; `Turn` is one turn of the machine's loop, with its cursor, and `Halt` is
where the loop is after as many turns as there are instructions.

### Yaml

The state of the scanner (`YamlScanner`) is a record: the rest of the text with line
and column, the queue of tokens and how many were taken from it, the stack of
indents, the possible simple keys per level of flow. A step of the parser
(`YamlParser`) is a state function and returns an event and a record, the tokens it
needs fetched on the way: the state function says what it comes to (an event, a node, or
a node behind an indicator), and `StateMachine` goes on from there, where the code calls. A mark is reduced to what decides something, an error to its
text. The emitter (`YamlEmitter`) is the same for events to text. `YamlReader` works on
octets, since it is about them; the rest on characters. Some of these stand for others that
no test in the code tells from them in what is modelled: "^" for what is beyond ASCII, "\r"
for NEL, LS for PS, "@" for the backquote, ";" for the dollar, whose place the byte order
mark takes (the head of `YamlText`). Two functions of the code look at octets that are not
those of the character they are asked about, and the model does so too: `is_bom` looks at the
beginning of the buffer (`MarkSeen`, `WriteDoubleQuoted`), and `yaml_emitter_analyze_scalar`
steps by the width of the first character (`AnalyzeScalar`). What is at the beginning of the
scanner's buffer depends on when it was moved: `MarkSeen` is exact for texts that fit into
one filling of the raw buffer (512 octets), with a mark at no other place than their
beginning, and where the first mark of two is skipped on a line the text has three more
characters. The texts with marks in the runs are such; of other texts it may be wrong about a
mark, never about anything else. `YamlDecode`
resolves, decodes into a tree or into a type of `Startup`, and lists the events of
`Marshal`.

| action of `Yaml` | code |
|---|---|
| `Write`, `Flush` | `encoder.emit` for each event of a value; `yaml_emitter_flush` |
| `Fill` | one turn of `yaml_parser_update_buffer`: `FillRawBuffer`, `Determine` or `DecodeNext` of `YamlReader` |
| `Open` | `newParser` over what was read |
| `Read` | `yaml_parser_parse`: one event |
| `Finish` | the composition and decoding of the first document, or the error |

The reader is a record, `r`, and a turn either fills the raw buffer, because there is too
little in it to tell the encoding or the next character, or determines the encoding, or
decodes one character. `YamlReader` can be read on its own (`Reading`): any octets, and a raw
buffer of any size where the code has 512. It goes on to the end before the scanner
begins: in the code the scanner asks for characters as it needs them, which decides only
which of two errors is told.

### Startup

| action | code |
|---|---|
| `Prepare` | the file is written, by `Marshal` in some instances |
| `ParseFlags` | pflag's `parseArgs` with `-c` and `-p` in all their forms; errors and `-h` end the program |
| `OpenConfig` | `loadConfig` up to the call of `Unmarshal` |
| `DecodeConfig`, `LoadConfig` | `Unmarshal` into a `Config`; a panic that `handleErr` does not know goes on |
| `ValidateConfig` | `validateConfig` with its defaults |
| `AddRoute`, `RoutesAdded` | main adds the routes of the outer mux, one per asset, the catch-all last (`main.go:156-171`) |
| `Listen` | `graceful.Run`: the port, or `log.Fatal` |
| `FirstRequest` | a request that finds no machine, and compiles the table |

`result` is what `Unmarshal` would make of the same file as a tree of maps. The program
never asks for it; it is there because it shares no code with the decoding into a
struct, and says what a file contains.

## What the runs check

| run | instance | shows |
|---|---|---|
| `upload` | two uploads; two images and a rejected file of one name, and one that panics; two random names; separate buckets | `TypeOK`, `CleanPublic`, `ArchivedFirst`, `UrlServesTheUpload`, `RejectedLeavesNoTrace`, `FilesAreClosed`, `UploadInv`, `UploadsEnd`, `ImplementsService` |
| `upload_files` | one upload; every form, format, EXIF result and Orientation tag, every set of faults | `FaultFreeUploadSucceeds`, `PublicUpright` |
| `upload_exif`, `upload_tag` | one upload, every file | findings 1 and 2 |
| `buffers` | four requests, two slots | `TypeOK`, `BufferExclusive`, `OwnPage`, `PoolInv`, `UncrowdedRendersEnd` |
| `buffers_full` | three requests, two slots | finding 3 |
| `parallel` | three goroutines, seven rows, parts of two | `TypeOK`, `NoRowShared`, `ReturnsComplete`, `ParallelInv`, `Returns` |
| `orientation` | all images up to 4 by 4 and the F's, all eight values | `PoseTracksPixels`, `EndsUpright` |
| `shutdown` | three connections, a timer that may expire or not | `ManagedAreServed`, `NothingIsCut`, `GracefulInv`, `ServeReturns` |
| `pipeline` | two requests of fifteen kinds, two assets, one of them with a path that begins like the upload's | `TypeOK`, `OwnEnvironment`, `UploadIsAuthorized`, `LoggedIsSent`, `AnswersAsPromised`, `RequestsEnd` |
| `startup` | values written in several styles, texts, octets, configuration files, command lines, lists of assets | `RoundTrip`, `EventsNest`, `KeysAndIndents`, `ReadsOn`, `ReadsWhatIsThere`, `ServesAsConfigured`, `RoutesAreFirstMatch` |
| `yaml_utf16` | texts in both orders of UTF-16 | finding 4 |

*Bounds.* Two uploads are what a conflict between uploads needs: every safety
property relates one upload to the objects, and interference is pairwise (one
overwrites the other's object). Two random names allow both a collision and
none. `upload_files` needs one upload only because its properties speak of one
upload and no action reads another's local state. Tag counts are bounded by one
(the code compares with one) and tag values by 0..9, one beyond each end of the
switch. Four requests over two slots let a buffer be reused twice and the pool be
full. Seven rows in parts of two leave a cut part and let the counter run past
the end. Three connections let one be accepted while another is
served and a third goes away; each connects once, a client that comes back being
another connection. The 100 parts per worker is the constant `PartsPerWorker`, 1 here, so
that a part is longer than one row. Two requests let the second reuse the stacks of
the first at every point of it. One bucket for both purposes, and no archive,
are not instances of a run: the theorems below, which have no assumption on the
archive's bucket but where one is stated, cover them.

The texts of `startup` are all those of up to five characters over the eight
that steer the scanner most (a letter, a space, a break and `:-?[]`), which
reach every nesting of two collections, and longer ones for the rest: quotes,
escapes, block scalars with their hints, directives, tags, anchors, merges. The
strings written are those of up to two characters over seven, and one for each
test of `yaml_emitter_analyze_scalar` and of `resolve`, also behind a character of two octets and
behind a byte order mark; each as a root, a key, an
item and a value. Octets come in up to three pieces, whole characters of one to four
octets, the first and last of each range of UTF-8, and pieces that are none, over raw
buffers of four and five octets in place of 512, so that a character lies across the
end of one. One text is longer than the width of 80 that Marshal folds at, and one longer,
in octets, than the 128 of a simple key (`emitterc.go`). A limit that is not reached: a
simple key of more than 1024 characters (`scannerc.go`).

*Deadlock* is not checked where a system may stop: there are finitely many requests,
and it stops when they are over, or waits for an S3 or a client that says nothing.
That somebody who can go on does is stated as liveness instead. In `startup` deadlock
is checked: `main` goes on until it has ended in one of the ways of `Over`.

*Fairness.* Go's scheduler runs every goroutine that can run, hence weak fairness
of the steps of a handler that wait for nobody (`Local`), of the steps of a render, of the
workers of `parallel`, and of what the muxes and the middleware do with a request (`Serve`),
whose few bytes stay in net/http's buffer. No fairness is assumed of the clients of an
upload or of S3: `graceful.Run` makes a server without `ReadTimeout` (`graceful.go:73-76`), so a
client may stop in the middle of its body, and `http.DefaultClient` has no timeout (goamz
`s3.go:787`), so nothing makes a silent S3 answer. `ParseForm`, which reads the body, and
`Reply`, which is S3's, have none; `UploadsEnd` assumes what it must, that neither the waiting
for the client nor that for S3 lasts for ever. In `Pipeline` no handler has fairness
(`RunHandler`): an upload waits as just said, the index page may wait for room in the
pool (finding 3), and a page or an asset larger than net/http's buffer waits for a client that
does not read. `RequestsEnd` assumes of a request that it does not stay in its handler, and
says that then it is answered, logged and over: what the middleware adds, the panics it
recovers included, never holds it up. In
`BufferPool` the write to the client has weak fairness: the clients are assumed to
read or to go away. In `Graceful` the steps of `Serve`, the interrupt goroutine and
the removals have weak fairness. That a client leaves, a request ends, a signal
comes or the timer expires is not assumed by the specification: after a signal
`ServeReturns` assumes either that the timer expires (`WF_vars(Timeout)`) or that
the connections go away, which is also the case without a timeout. `Startup` is one
goroutine; that it ends is the invariant `ReadsOn`, a bound on the events by the
length of the file, and the absence of deadlock.

### Findings

1. `NonFatalExifIsSurvived`: an EXIF error that goexif calls non-critical makes
   `parseExif` return a nil `*Exif` that `SanitizeImageFrom` then uses
   (`image.go:112`, `61`). The upload ends in a recovered panic; the log message
   "Non-fatal error when parsing EXIF data" promises otherwise.
2. `OrientationErrorIsAnswered`: the error of `fixOrientation` is overwritten
   (`image.go:76`, `85`) and the nil image is encoded. The answer is a recovered
   panic instead of "error sanitizing image".
3. `RendersEnd` over a pool smaller than the number of requests: bpool says it is
   a leaky pool, but `Put` waits for room (`bufferpool.go:44`). With twenty slots
   the twenty-first buffer that comes back waits, and its request with it, until
   somebody takes a buffer.
4. `EveryEncodingIsRead`: a text in UTF-16 is lost behind its first character of
   ASCII, since the buffer's length grows by the character's width in the input
   (`readerc.go:376`). A configuration file in UTF-16 is read as its first letter.

Met while modelling, in the model as they are in the code, and not among the runs:

* A line ` a: "` followed by a line `"b` makes the scanner panic with "should not happen" (`scannerc.go:877`), and `%TAG ! x` ends in an index
  out of range; `handleErr` (`yaml.go`) passes such panics on, so `main` crashes where
  it would have said "Error decoding config". `LoadConfig` has both as "crashed".
* The lone tag `!` is refused, although the emitter writes `! 'x'`; `[? : a]` is
  refused, although the grammar at the head of `parserc.go` has the key of a single
  pair empty.
* A map whose key is the string `<<` is marshalled with a plain key, which is then
  read as a merge; canonical null comes back as a string. `MCValues` has neither.
* The log line of a HEAD request, or of one whose client went away, tells the size of a body
  that nobody was sent (`writer_proxy.go:45`); `LoggedIsSent` says what does hold.
* `is_bom` (`yamlprivateh.go:81`) ignores the place it is asked for. A file that begins with two
  marks, the first of which the reader takes off, loses the first character of its later
  lines (`scannerc.go:1442`): "a: b" and a second line "c: d" are refused.
* `yaml_emitter_analyze_scalar` sees only some of the octets behind a first character of more
  than one (`emitterc.go:1022`). A string that begins so is double-quoted, whatever else is in
  it, so that only a break may be overlooked, and a key be written as a simple one.
* A mapping that is decoded twice into the same struct (`aws:` given twice) adds up,
  where a map has the last one only; a value of another kind than its field's is
  ignored silently, so `jpeg_compression: "7"` means 80; without `auth` the user name
  and the password that are asked for are empty.

## What is proved

All theorems are for every value of the constants, from the named assumptions in
the modules only.

* `UploadProofs`. The invariants the handler needs are not inductive by
  themselves: that a public PUT is clean is known from where its handler was when
  it sent it. `UploadInv` adds what each `pc` implies (`HandlerInv`: an archive that
  was awaited is stored; the image to publish has no metadata; an "ok" belongs to
  the last request), what each PUT implies (`PutInv`: it is the handler's one
  archive PUT or its last request, and a handler that sent something did not
  answer 400), and that S3 never loses an address (`StorageInv`). From it:
  `TypeCorrect`, `PublicIsClean`, `OriginalIsArchivedFirst`,
  `RejectionLeavesNoTrace`, and `UrlsServe` under the assumption that the buckets
  differ.
  A second invariant, `Courses`, says of each handler what it has come to: an open
  file in a handler that is over belongs to one whose size could not be found
  (`OpenInv`), and in a handler nothing failed underneath the file is rewound before
  each reader, the image is upright where the tag could be read, and an answer to a
  good image is "ok" (`CourseInv`). Only a handler's own steps and `Kill` disturb it
  (`CourseStep`, `OthersUntouched`). From it `FilesClosed`, `GoodUploadSucceeds` and
  `PublicIsUpright`.
  Assumptions: the inputs are forms with files of the right shape
  (`InputsAssumption`), and a public bucket is configured (`BucketAssumption`, which
  `validateConfig` enforces).
  `UploadRefines`: each step of the handlers and of S3 is a step of `UploadService` or
  a stutter, `S3Stores` being the one that keeps or shows.
  `OrientationCorrected`, `SanitizeStrips`, `SanitizeUprights` and `SanitizePublishes` are
  the pure facts about the sanitizer the handler's invariants rest on.
* `OrientationProofs`. For images of every size: `PosesAreFaithful` (each loop moves
  pixels as the pose arithmetic says) and `OrientationEndsUpright` (after the calls
  for any value the image is the scene, pixel for pixel). The invariant adds that
  an image is exactly what its loops wrote, and that the calls that are left bring
  the pose upright (`OnCourse`). The F's are in the model-checked run only.
* `BufferPoolProofs`. `PoolInv` adds to the two properties that a buffer's content
  follows from its owner's `pc`, that buffers in the channel are empty, and that one
  that was never allocated is nowhere. From it
  `PoolTypeCorrect`, `BuffersExclusive`, `PagesStayApart`.
* `ParallelProofs`. `ParallelInv`: every row below the counter is written or left to
  exactly one goroutine, every row above is neither. From it `ParallelTypeCorrect`,
  `RowsNotShared` and `ReturnsWithEveryRow`.
* `GracefulProofs`. `GracefulInv` adds to `ManagedAreServed` that at most one
  connection is being added, by `Serve` itself (`AddingInv`); without it the manager
  could end between `Accept` and `Add`. Where `Serve` is bounds what the manager may
  have seen (`ServeInv`), and a manager that ends has seen the last connection
  (`ManagerInv`). From it `ManagerKnowsTheServed` and `ReturnCutsNothing`, for any
  finite set of connections, with and without a timeout.
* `RoutesProofs`. `TableKeepsFirstMatch`: for any string patterns, added in any order, the
  first match in the sorted table is the first match of the routes as they were added.
  The comparison that sorts is no order, so the argument is not that the table is sorted.
  It is that routes which match the same path are never exchanged: what a pattern matches
  begins with the pattern's prefix (`MatchesPrefix`, over any number of parameters), of two
  prefixes of one path one begins with the other (`TwoPrefixes`), and either way the loop
  of `handle` stops behind the earlier route (`MatchesTogether`, `HandleInserts`). A new
  route then changes no first match but one that did not exist (`HandleKeepsFirstMatch`).
  The induction over the list, and the recursive functions of `TableOf` and `Consume`, go
  by a first-order form of induction, `EveryNumber`: a set of numbers with 0 and the
  successor of each of its elements leaves out none, since what it left out would have a
  least element.
  `RouterIsFirstMatch` carries this through the compiler and the machine: the promise of
  package web, for every list of routes, path and method, and `MachineHalts` that the loop,
  which counts nothing, ends within a turn for every instruction.
  `RequestsTakeTheFirstMatch` is the invariant `RoutesAreFirstMatch` of `RouterSpec`: a machine
  is always one of the current table. Its `RouterInv` says what the table is, the one that
  `TableOf` makes of the routes added so far, which `TableGrows` keeps from one addition to the
  next. The steps to `RouterIsFirstMatch` are:
  - *The table* (`TablesAreOrdered`). Of two routes that are out of the order of their
    prefixes, one between them has a prefix that both begin with (`Ordered`). That is all
    the order there is, and what the machine needs: when it has followed a child, no
    later child of the same segment can begin with the bytes of the path (`OthersPassed`).
  - *The code* (`NodeIsLaid`). Code that is moved twice is code moved by the sum, and an
    exit given once stays (`StandsPart`); so wherever the code of a node stands, the heads of
    its routes and their bodies are at known places, each jump of a head leads to the body of
    its child, each failure in a body to the head of the next segment, and the last one to
    the exit of the node (`Laid`). `CompileIs` finds the recursive function of `compile`, by
    induction on how far a node is from the longest prefix.
  - *The machine* (`Works`). Wherever the code of a node stands, a machine that comes there
    with any cursor, and a path that begins like the node's prefixes, ends with the first
    usable route of the node, or passes them all and leaves at the exit with their
    methods noted, within as many turns as the code is long. It is shown by induction over
    the depth (`AllNodesWork`), and in a node over the routes from the last one back
    (`AllStops`), by what is at a route: its own (`StopOwn`), a child's first one
    (`StopFork`) or the end (`StopEnd`). A child's bytes are looked for three at a time
    (`ChunksRun`), and the cursor is wrong behind a child that failed, which is why each
    segment sets it again (`CursorAt`).

  `MuxesAreFirstMatch`, in `PipelineProofs`, applies it to main's routes: for any assets and
  requests, `RouteOuter` and `RouteInner`, which look for the first match in a list, take the
  route that the two compiled tables give.
* `PipelineProofs`. That a request works in its own environment is not inductive: it
  needs that no two requests hold one stack and none holds a pooled one
  (`StacksExclusive`), that a stack does not exist before the request it is named after
  needed it (`StacksToBuild`), that a request begins with a cleared context
  (`ContextCleared`), and where a request may hold an inner stack, also after a panic
  (`InnerInv`). That the upload handler runs for authorized requests only needs what a
  request has passed where it is (`AuthorizationInv`) and that the route that is found
  matches (`FoundMatches`). The log needs that the `basicWriter` believes what it passed
  on, that it has counted what was sent, and no more unless the client gets no body, that a
  request begins with a fresh one, and that ids are drawn once (`LogInv`). From `PipelineInv`: `PipelineTypeOK`,
  `EveryRequestHasItsEnvironment`, `NoUploadUnauthorized`, `LogTellsTheAnswer`, for any
  number of requests, any inputs and assets.
  `RequestsAnsweredAsPromised` rests on a second invariant, `AnswersInv`, inductive beside
  `PipelineInv`: a request is on the way its method, path and credentials tell
  (`RouteInv`), and until it is answered nothing has been written, the OPTIONS proxy knows
  of nothing and the environment lists no methods but those the inner mux has just noted;
  afterwards the response is one that was promised (`ResponseInv`). What is promised does
  not mention the muxes; that they find it is shown of the patterns themselves: a path
  that is no pattern is parsed into one literal and matches itself only (`NoParameters`,
  `LiteralMatches`, `LiteralPath`), "/*" matches what begins with a slash (`EveryPath`),
  and so the first match in either table is known for every request (`OuterRouting`,
  `InnerRouting`). Assumed of the constants is that the paths of assets and of the upload
  begin with a slash and have neither colon nor star (`AssetsAssumption`): main makes them of "/" and
  the name of a file of the frontend (`main.go:163`), and "/upload".
* `YamlReaderProofs`. `ReaderReads`: for every sequence of octets and every size of the raw
  buffer, what the scanner sees, what is in the raw buffer and what is not yet taken are
  together the input (without its mark), and when the reader is at its end it told an error
  exactly if the input is not made of YAML's characters. The property does not know what
  a character was decoded from, so the invariant, `ReaderInv`, names it: the buffer holds
  whole characters (`Decoded`), and after an error no character of any form begins at what
  is left (`Refused`), whatever is still to come. That needs, first, that decoding a
  sequence of octets, comparing its value with the ranges of `readerc.go` and encoding it
  again gives the same octets exactly for the twelve forms of RFC 3629 (`Decode1` to
  `Decode4`, `NextUtf8`: arithmetic on shifted bits), and that an octet that leads a
  character is none that continues one, so that a text can be cut into characters in one
  way only and a bad beginning spoils it, whatever the place (`WellFormedNot`). The rest is
  where octets go in a turn (`Filling`, `Determining`, `Decoding`, `Ending`). For UTF-16
  nothing is promised of the text (finding 4), only `ReaderTypeOK`: octets stay octets,
  the raw buffer keeps its size and the end is told when all is taken. `Reading` is the
  reader alone; in `Yaml`, `r` changes only by `Fill`, which is `UpdateBuffer`, and by being
  opened anew.

Only model-checked: all liveness (`UploadsEnd`, `UncrowdedRendersEnd`, `Returns`,
`ServeReturns`, `RequestsEnd`), which is beyond the prover; and `Startup` and the YAML
modules but for the reader: `RoundTrip`, `EventsNest`, `KeysAndIndents`, `ReadsOn` and
`ServesAsConfigured`. What the scanner, the parser and the decoder do is recursive over
data, and the prover accepts no recursive operators; the texts of YAML are strings besides,
of whose characters it knows nothing. `RoutesAreFirstMatch`, which `startup` checks, is proved
of `RouterSpec`; that the router inside `Startup` takes no other steps (its variables
change by `Add` and `Compile` only) is plain from the actions, and not a theorem.

## What is not modelled

* Bytes of pictures: image codecs, EXIF and TIFF parsing, JSON, signing. They are
  pure; their results are inputs here. An image codec that panics would be recovered
  like the panics that are modelled.
* Bucket names are those after `S3.Bucket` (which lowercases them in some regions),
  so a bucket configured in two spellings is one bucket.
* Operations of goamz, imaging and bpool the program never calls;
  `renderErrorTemplate`, which nothing calls.
* graceful's `Run` (it opens the listener), TLS, `Stop` and `stopChan`: main calls
  `Run` once and uses none of the others. Hijacked connections: no handler hijacks.
* goji's patterns by regular expression, sub-routers and the abandonment of
  middleware: the program uses none. A route that is added between a request's look for
  the machine and its use: main adds none once it serves.
* package yaml beyond what a `Config` and a tree of maps need: inline and private
  fields, getters and setters, structs in `Marshal`, output in UTF-16, integers that do
  not fit, the text of marks in errors.
* Logging beyond what it says of a request, the frontend's markup, the content of the
  assets: no influence on the state of the service.

## Where the plan stands

Written, in the order of importance: `Sanitize`, `Storage`, `Upload` with
`UploadService`, `BufferPool`, `Parallel`, `Orientation`, `Graceful`, and their proofs;
then `Routes`, `Pipeline` with its proofs, `Router`, the YAML modules, and `Startup` over
them, and the proofs about `Router`. What would come next: limits of the scanner by longer
texts, once the scanner's state holds a position instead of the rest of the text; and the
YAML modules over sequences of code points, with recursive functions in the place of
recursive operators, so that their invariants can be proved as those of `Router` are.
