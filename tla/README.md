# Verification of Cipher Workbench

TLA+ models of the parts of Cipher Workbench that are hard to test: the panel of
a tool and its variants, where the difficulty is the order of events; files in a
worker; the setting that survives a restart; the endpoint probe of the desktop
shell; and the algorithms small enough to be run through whole, from a block
mode cut at any byte to the form of a cipher. Each is checked by TLC on small
instances; the five with a life of their own (session, variants, files, saved
state, probe) and the most used of the streaming engines also carry
machine-checked proofs for every instance.

Line numbers below are of the repository at the commit modelled.
`PROJECT.json` maps every definition to the lines it stands for and lists the
hazards at the line where each bites.

## 1. Inventory

Cipher Workbench is one static Next.js application, 400-odd cryptographic tools
behind one interface, shown in a browser or in an Electron shell that wraps the
same bundle. Paths are under `apps/` and `packages/`.

| Component | State it keeps | Operations | What makes it correct |
| --- | --- | --- | --- |
| Compute session: `web/app/use-compute.ts`, `use-debounce.ts` | the `ComputeState` on screen; `jobRef`, `abortRef`, `lastRunSpecRef`, `lastManualRef`, `lastToolRef`; the debounced action | an effect per input, `run`, `commit`, the press, the timer | the answer on screen is the answer to what is in the panel or says it is not; an input left alone gets its answer; off means off |
| Workbench: `tool-workbench.tsx`, `input-panel.tsx` | the tool, its settings, the request lock | load a tool, settings, source mode, Compute | settings and input modes agree with the tool; a press is one request |
| Legacy encoding tables: `encodings/src/legacy.ts` | one shared load | `ensureLegacyTables` | a text in a legacy encoding is read again once its tables are there |
| File computation: `file-compute.ts`, `compute.worker.ts`, `cipher-engine/src/stream.ts` | `workerSupported`; per call a worker, its port, an accumulator, a progress figure | start, fall back to the page's thread, abort, both worker protocols, `runStream` | each call answered once, with the whole output in order; bounded memory; no worker outlives its call |
| Saved state: `desktop/src/main/store.ts`, `platform/src/web.ts` | the file or local storage entry; the write queue | read, write | never torn, never older than it was, what the page shows |
| Application shell: `app-shell.tsx` | tool, input, the auto-update switch, `hydrated` | start, hydrate, persist, open a tool | a preference survives; defaults do not overwrite it |
| Variants session: `use-variants.ts` | rows' values, the key they were computed from, job, controller | run, stop, unmount | rows are marked once the input has moved; an abandoned pass changes nothing and stops reading |
| Endpoint probe: `desktop/src/main/network.ts`, `endpoint-probe-modal.tsx` | a socket per probe; results side by side in the modal | TLS probe, OCSP query, CT lookup with a second provider | one answer per request; every button comes back; no socket left |
| Streaming engines: `algos/src/blockmodes.ts`, `raw-stream.ts`, `age.ts`, `cobblestone.ts`, `aead-modes.ts`, the hashes, `crc/` | bytes held back, a chaining value, a counter, a length | start, update, finish; the one-shot function | cutting the input differently changes nothing; what is released is authentic |
| Codes: `ecc.ts`, `golay.ts`, `hadamard.ts`, `parity.ts` | none | encode, decode | damage within reach is repaired, beyond it is admitted |
| Check digits: `check-digits.ts`, `iban.ts`, `aba-routing.ts`, `isin-cusip-sedol.ts` | none | compute, validate, convert | a mistyped digit and a swap are noticed |
| Secret sharing: `shamir.ts`, `slip39.ts` | none | split, combine, find a tampered share | the threshold is exact; what is said of a share is true |
| Historical ciphers, textual encodings: `algos/src`, `encodings/src` | the wheels of a machine | encrypt, decrypt; encode, decode | what was written comes back |
| Cipher settings and lint: `tools/cipher/src` | none: a function of the spec | resolve, fields shown, Generate, rules, fixes | a form that is not refused can be run; hidden fields decide nothing; a fix leaves a spec that resolves |
| Certificate chains: `certificates/src/asn1/chain-verifier.ts` | none | build, verify | the path is found in any order; valid means every link holds |
| Random values: `cipher-engine/src/codec/random.ts` | none | below, between, shuffle, sample | uniform, without repeats where promised |
| Share links, option catalogue, codecs, tool contract | none | build, parse; closures; encode | section 7 |
| Tool families, the other algorithms | none | functions of options and bytes | published vectors |
| Desktop shell: `desktop/src/main` | one process, at most one window | open, close, quit, menus, protocol, bridge | one writer of the saved state |
| Interface, tutorials, scripts, tests | none that matters here | | |

How they interact. The shell hands the input and the switch to the workbench of
the tool selected, which is remounted for every tool. The workbench mounts the
compute session, and the variants session beside it; both call the tool directly
for typed input and `computeFile` (`computeVariantsFile`) for a file.
`computeFile` posts the file to a worker of its own, or drives the same stream
loop on the page's thread; the loop feeds the tool's stream, which is an adapter
around an engine of `algos`. Each call is independent but for the module
variable `workerSupported`. A cipher's form is resolved before its engine is
made, and resolved again for every keystroke to say what is wrong with it. The
shell reads the saved state once and then writes it whenever the switch moves,
through local storage or, on the desktop, through the preload bridge to the main
process, which also does the probe's network requests.

What is hard. Everything on the page is callbacks: a handler runs to its end,
and between two of them a timer may fire, a reply may arrive from a run started
under other settings, tables may land. With a worker there are two more threads
and a port, and the worker may die at any point. The store adds a crash between
any two steps of a write; the probe a socket whose handshake, error and silence
race. Of the functions, the hard ones are those that are called in pieces (a
chunk ends where it likes) and those that must judge what they are given (a
padding, a damaged word, a share, a chain, a form): they are right on what they
wrote themselves and go wrong at a boundary.

## 2. Plan

By how much goes wrong for the person using the program, and how far the
behaviour is out of a unit test's reach. All rows are built.

| | Modules | What for | |
| --- | --- | --- | --- |
| 1 | `ComputeSession` | implements `LatestWins`; with the workbench's lock, tool loading, the legacy tables | proved |
| 2 | `FileCompute` | implements `ComputePromise`; page, worker and fallback | proved |
| 3 | `SavedState` | the shell and either store | proved |
| 4 | `VariantsSession` | implements `LatestWins` as the compute session does | proved |
| 5 | `EndpointProbe` | the socket's one answer, the two CT providers, the modal's requests side by side | proved |
| 6 | `ToolStream` over `BlockModes`, `FramedStreams`, `ByteStreams`, `HashStreams`, `CyclicChecks` | every engine against its one-shot function, cut anywhere | proved |
| 7 | `Codes` over `LinearCodes`, `ParityCodes`, `CheckDigits`, `SecretSharing`, `Fields` | encode, damage, decode | checked |
| 8 | `CipherMachines`, `LetterCiphers`, `TextCodes` | there and back | checked |
| 9 | `CipherSettings` | forms, Generate, rules and fixes of the cipher tool | checked |
| 10 | `Sampling`, `CertificateChains` | uniformity by counting; chains in every order | checked |

What is left worth doing is small: more hashes in `HashStreams` that differ in
kind (none is known to), the asymmetric tool's forms after the pattern of
`CipherSettings`, and the DER reader as a cut-anywhere engine if it ever becomes
incremental.

`ComputeSession` and `FileCompute` are not composed into one state machine: the
session sees a file computation only as one that reports, settles or rejects
after an abort, and that is what `ComputePromise` says of `FileCompute`. In the
same way `FileCompute` sees a tool only as `Whole` and `Cut`, what it hands over
after each read, and that these add up to the one-shot answer however the file
is cut is what `ToolStream` checks (`CutsAreInvisible`).

## 3. The modules

### ComputeSession

One step is one discrete event of React: the handler, the render, and every
effect whose dependencies moved, in declaration order, since nothing can run in
between. The timer, the arrival of a tool, tables landing or failing, a report
and a settlement are steps of their own.

| Model | Code |
| --- | --- |
| `view` | the `ComputeState`; a result is the run it came from |
| `job`, `controller` | `jobRef`, the job of `abortRef` |
| `timer` | the action `useDebouncedTrigger` holds, with what its closure saw |
| `runs` | calls of `run` between their first await and their end |
| `unspent`, `first` | `manualTrigger !== lastManualRef`, `lastToolRef !== tool` |
| `lock` | `manualComputePendingRef` in the workbench |
| `FileKey`, `runFile` | `fileKey`, and the file that `run` has closed over (151-155, 257-260) |
| `TextIsBlank`, `TextIsHeld`, `TextRunsNow`, `TextWaits` | the branches of the text effect, lines 262-346, with the pending effect |
| `FileIsMissing`, `FileIsHeld`, `FileRuns`, `FileSpecEffect` | the file effect and the stale effect, lines 360-413 |
| `Run`, `Commit`, `Settle`, `Abandon` | `run` up to its await, `commit`, and what follows the await |
| `LoadTool`, `OpenTool` | the loading effect with source-mode normalisation, the remount |

A spec, a text and a file are model values; the instance's tools are one that
reads what it is given, one that generates and takes no file, and one that takes
files and reads them under some of its settings only (`keys`). All typed source modes are one; a
text encoding either needs the tables or does not; a text either decodes or does
not. The bytes of a result play no part: what matters is which request it
answers.

A file is known to the session by its stamp (`Stamp`: name, size and modification
time), as in `VariantsSession`. Choosing one of another stamp, like a move of the
mode, the settings or the tool, makes `run` anew over the file in the panel;
choosing one of the same stamp changes the panel and nothing else, so what `run`
reads is then `runFile` and no longer `file` (`PanelTypeOK` keeps their stamps
equal). A typed input is not affected: in a text mode the two are the same.

### LatestWins

What a panel promises: questions are numbered, and an answer is painted only
while it answers the newest question and that question is open. So no answer is
painted twice or after a newer one. `ComputeSession` implements it with
`asked <- job`, `open <- ` a timer or the newest run, and `shown <- ` the job of
the result on screen; `VariantsSession` with `open <- ` the panel says running.

### VariantsSession

A pass is started by the button only and computes every sibling row over one
reading of the input. It is first `"preparing"` (the rows' modules load), then
`"reading"`. `box` is what the panel holds, `InputKey` and `Content` what a pass
is filed under and what it is really over: they are not the same, since a file
is known by its `Stamp` (name, size, date). `Remount` is the workbench going to
another tool, which aborts and leaves its number as it was; `ToolArrives` is the
tool effect. The branch for a missing file (147-153) cannot be reached, because
the button is disabled then, and is not an action.

### FileCompute and ComputePromise

`ComputePromise` says that a call is answered once, and that an answer with
output carries the whole output, each piece once and in order. `FileCompute`
is the page, one worker per call, the port between them as two queues, and the
fallback.

| Model | Code |
| --- | --- |
| `Start` and its disjuncts | `computeFile`, `computeVariantsFile`: refusal by the tool, construction of the worker, a raised signal, preallocation, the fallback |
| `WorkerLoads` ... `WorkerIsDone` | `handle` in the worker and `runStream`, one read at a time, each piece awaited until acknowledged |
| `PageHears...` | the page's message listeners; `PageHearsDeath` is its error listener, which may overtake the port |
| `Abort` | `onAbort` while a worker has the file; the fallback looks at the signal before each read |
| `MainReads`, `MainFinishes`, ... | `runStream` on the page's thread |
| `WorkerDies` | the environment: a worker that fails to load, or is lost later |

What the tool hands over is a constant: `Whole[c]` all of it, `Cut[c][k]` how
many pieces after the k-th read. The progress throttle, a number of bytes in the
code, is counted in reads (`Interval`).

### SavedState

The shell's start-up and persist effects over either store. Requests to write
are numbered in the order they are made.

| Model | Code |
| --- | --- |
| `Open`, `OpenFromLink`, `Hydrate`, `Toggle` | the startup effect's two branches, the answer, the persist effect (`app-shell.tsx`:163-223) |
| `Write`, `WriteBegins`, `WriteTemp`, `Rename`, `WriteFails` | `writeSavedState`, its queue, `writeSavedStateNow` (`store.ts`:76-100); on the web `setItem`, which may throw |
| `MainReads` | `readSavedState`, which may find nothing, fail, or be unable to parse |
| `Close`, `Exit` | the window going with or without the process; a quit or a crash |

`chosen` is not in the code: it is what the user last chose.

### EndpointProbe

`sockets`, `lookups` and `answers` are where a request of the modal can be: a
TLS socket of the main process, a fetch under way, a settled promise whose
caller has not continued. `Painted` is what the handler does when it continues.
Time is ticks, for the one deadline that is restarted (a socket's silence); a
fetch's own deadline is a failure that may come at any time. `ReopenWindow`
loses whoever waited.

### ToolStream and its engines

A job is a configuration and its data, which may be a container or padded text
that was damaged. `Feed` hands the engine the next chunk, of any length, empty
ones included; `Finish` closes it; `OneShot` is what the same input gives in one
call. `Started`, `Updated`, `Finished` are `createCipherStream`,
`createHashStream` and `createCrcStream` around one of

| Module | Engines | Data |
| --- | --- | --- |
| `BlockModes` | ECB, CBC, CFB, OFB, CTR and the paddings, both directions | blocks of 3 symbols of 4 values under a fixed permutation |
| `FramedStreams` | age, Cobblestone: header, sealed frames, last-frame flag | a seal is a record of what was sealed under which nonce |
| `ByteStreams` | raw keystreams (by word, by block, rounded), GCM with GHASH, Merkle-Damgård | the keystream's position; GHASH and a hash as the sequence of blocks they were given |
| `HashStreams` | 19 ways of cutting, holding, padding and closing: HAVAL, FSB, ECHO, Streebog, Snefru, SIMD, GOST, Shabal and sponges, MurmurHash, HighwayHash, MD2, xxHash, Esch, PHOTON-Beetle, Skein, XXH3, MD6, checksums of words | a compression is the record of what went in |
| `CyclicChecks` | table-driven CRC, its narrow register, reflection, the form's fields | real arithmetic, over octets of 4 bits and widths 3 to 9 |

A hash of the repository that is not named is fed by one of these: it holds a
block until the next byte or until it is full, or gathers the whole message.

### Codes

A tool with no stream gets all of its data at once (engine `"code"`), and
`Decode` is the decoder of that code. `ToolStream` takes the decoders as its
constant `ReadBack`, which is `Decode` in the runs: what is proved of the driver
holds whatever they are. What was sent, what was done to it and how
much is in the job: the encoder, modelled too, made it (`MCCodeJobs`).
`CodePromises` states what a reader may rely on, and `SettingPromises` what a
cipher's form promises.

| Module | What |
| --- | --- |
| `Fields`, `LinearCodes` | GF(2^n) tables, Reed-Solomon (both profiles, Berlekamp-Massey, Chien, Forney), BCH, Golay, Hadamard, word packing |
| `ParityCodes` | parity bits, UART frames with idle and cut lines, both Hamming families |
| `CheckDigits` | Verhoeff, Damm, Luhn, ISBN-10 and 13 and their conversion, ABA, SEDOL, CUSIP, ISIN, IBAN |
| `SecretSharing` | Shamir over the AES field, the search for a tampered share, SLIP-0039 phrases and their checksum |
| `CipherMachines`, `LetterCiphers` | Enigma, Lorenz, M-209, Solitaire and the other wheel and key-letter machines; squares, fractionation, transpositions, boards |
| `TextCodes` | the bases, UUencode, quoted-printable, Bech32, bubble babble, proquints, GSM 03.38 and the others of the encodings panel |
| `CipherSettings` | the cipher tool: resolving a form, fields shown, Generate, derived keys, the OpenSSL envelope, rules and fixes |
| `CertificateChains` | a certificate is a record of names, a serial number, flags, dates and keys; building and judging the chain |
| `Sampling` | rejection sampling on a tape of random bytes; `Tally` counts, over all tapes of a length, how often each answer comes out |

A cipher's form is a record of its fields; a field of bytes is its length and a
flaw (cannot be decoded, a weak key, two equal halves, freshly drawn). The
catalogue is AES with its modes and one tool of every kind the code treats
differently, 2956 forms in all.

`UnitProofs` (ciphers and the CRC), `HashProofs` (hashes) and `StreamProofs`
(containers, and the theorems) hold what is proved of the streams, as `ComputeSessionProofs` and
the others beside the modules above do of theirs.

`ToolStream` and `Codes` are one state machine because they share the driver,
the tool adapter and the run; the codes' states are the start and the answer.

## 4. The runs

| Run | Instance | States | Shows |
| --- | --- | --- | --- |
| `session` | a hash, a key generator that takes files, a generator that takes none; two settings, two texts (one undecodable), three files (two of one stamp), 2 jobs | 209 thousand | the timer's closure is current; no wrong answer and no lost one with the switch on; with it off each job answers a press of its own; settings are blamed only when they moved; `LatestWins`; an input left alone is answered, and the digest shown stays that of the file in the panel or of one of its stamp |
| `file_safety` | a cipher emitting two pieces and a last one, a variants pass and a large one-shot, 3 reads | 482 thousand | bounded memory on either thread; progress ends full; nothing outlives its call; `ComputePromise` |
| `file_live` | a cipher, a large random-access file, a refused file, 2 reads | 15 thousand | every call is answered |
| `saved_state` | both hosts, 4 requests | 6 thousand | never torn, never older, as the page shows; the queue drains past a failure |
| `variants` | settings that read the input and that do not, two texts (one undecodable), two files, 5 presses, 2 mounts | 581 thousand | unmarked rows are current; one reading at most; `LatestWins`; the panel leaves running |
| `probe` | two hosts (one refused), 4 requests, 2 windows | 35 thousand | a button is disabled exactly while its request is out; the result is the last probe's; every request ends and every socket goes |
| `streams` | every engine, every code, every form | 100 thousand | cuts are invisible, only authentic plaintext comes out, words and shares and chains are judged rightly, draws are fair, forms that resolve can run, what was written comes back |
| `found_stale_unmarked`, `found_late_press`, `found_preference`, `found_golay`, `found_slip39` | | | the violations of section 6 |

Bounds, and why they are enough.

- Sessions. `MaxJob` bounds the jobs after which the user does nothing more; the
  machine still finishes what is under way. A confusion of runs needs two in
  flight; what follows the last event is what liveness is about. The safety
  properties also held with a third job (2.1 million states), and are proved
  for any number. Two texts and two settings
  are what it takes to differ, and three files what it takes to have two of one
  stamp and one of another; one text that does not decode is the only other
  distinction the code makes.
- Variants. Five presses: two passes of each of two mounts overlap, and a stop
  between them; the job counter starts at one with the mounting.
- Files. Three reads with a report every second one put the last read inside the
  throttle window and outside it, and let a worker die before, between and after
  its pieces. The three calls are one of each kind the code treats differently,
  and share `workerSupported` in every order.
- Saved state. Four requests fill the queue behind a write with two more.
- Probe. Four requests are one of each kind and one more across a second window;
  two ticks of silence let activity restart the clock once (`MaxActivity`).
- Engines. Messages of up to three blocks, cut in every way, put every boundary
  before, at and after a chunk's end; the counter wraps within them.
  The units (block 3, word 3, frame 2, stripes, fan-out 2) are the smallest with
  an inside, and the message lengths go past the point where a tree of frames
  grows its second level and XXH3 leaves its short form.
- Codes. The fields and code sizes are the real ones except where noted; damage
  goes up to what a code repairs and, for most, one symbol beyond, at every
  place of the short ones and at chosen places of the long. A linear code treats every word alike, so few
  words suffice and their damage is what is enumerated.
- Chains. Paths of up to four with one flaw (three with two), whole, with a gap
  or in company, in every order of the input.
- Draws. All tapes of up to four bytes of two bits (three of four bits), so that
  counting is exact and the rejected values are on them.

Deadlock is not checked in any run: in each the user may stop, or the input
ends, and then the system rightly rests.

Fairness. The session assumes that a tool module arrives, a timer fires, a table
load ends one way or the other, and each computation settles: one weak fairness
condition each, since each is a promise or a timer that the event loop delivers
independently of the others. Nothing is assumed of the user. File computation
assumes that the page and each worker keep running; not that a worker lives.
The saved state assumes that the main process performs the writes it has queued
while it runs. The variants session assumes that each pass goes on: modules load
or fail, and a reading ends, fails or notices its signal. The probe assumes that
time passes, that a socket's timer fires and a fetch meets its own deadline, that
a settled promise is heard, and, as the code does, that no server trickles for
ever: a handshake's deadline is one of silence (`network.ts`:128). `ToolStream` has no
liveness to state: the driver is `FileCompute`'s.

Each property of each passing run is paired in `PROJECT.json` with a plausible
fault in one mapped definition (`Mutant:` in the modules) under which the same
run finds the property violated.

## 5. What is proved

`ComputeSessionProofs`, for any tools, settings, texts, files and sessions of
any length:

- `TypeCorrect`, `ScheduleIsCurrent` (`TimerIsCurrent`), `NoWrongAnswer`
  (`AutoIsFresh`), `NoLostAnswer` (`AutoNeverStalls`);
- `LatestAnswerWins`: the session implements `LatestWins`, step by step;
- `JobsAnswerPresses` (`JobsArePressed`), `SettingsAreToBlame`
  (`SettingsReasonIsTrue`), which rests on the settings of the result on screen
  being those the hook remembers (`SpecIsRemembered`);
- `OffIsOff`: `OffMeansOff` where every tool that takes files reads its input
  under all its settings (`AllSettingsRead`). Without that hypothesis it is false,
  which is what `found_late_press` shows, so this says that the one exception is
  the only one.

None of the promises is inductive alone. That a result is current when it is
painted needs the run being painted to be current while it is still in flight
(`AutoRunIsCurrent`), which needs the timer that started it to be current
(`TimerIsCurrent`) and the newest job to have one run (`RunsAreDistinct`).
The invariant is their conjunction. Each action preserves it by a lemma of its
own; effects that several actions share have their lemmas first. The proofs
assume only what the module's `ASSUME`s state of the constants: that
the empty values are not among the others and the capability tables are
functions of the right kind.

`FileComputeProofs`, for any number of calls, any files and any way a tool cuts
its output: `TypeCorrect`, `BoundedMemory` (`MemoryIsBounded`), `FullProgress`
(`ProgressEndsFull`), `SettledStays` (`SettledIsOver`) and `PromiseKept`
(`KeepsPromise`, the refinement of `ComputePromise`). The invariant follows a
call through the queue between its worker and the page, as five parts per call:
where it runs and what that leaves empty (`Placed`); what the queue can look
like, figures and then at most one message of another kind (`Ordered`); what each
stage of the worker implies (`Running`); that what the page has, what is on its
way and what is due are together what the tool made of the reads taken in
(`Complete`); and what the figures have counted (`Counted`). The refinement is
then read off `Complete` at the step that settles a call. Assumed are
`CallsAreSorted` (which kind each call is of) and `FileIsRead` (a tool hands over
a beginning of its whole output after each read, and all of it at the end), the
latter being what `CutsAreInvisible` checks of the engines.

`SavedStateProofs`, for any number of requests and either host: `CrashSafe`,
`NoOlderState`, `StoreAgrees` and `SavedTypeCorrect`. The invariant says where
requests stand: those in the queue increase, the one being written is before
them, what is stored is before that, and the latest of a hydrated page is the
last of the three places that is occupied and equals what the page shows.

`VariantsSessionProofs`, for all settings, texts, files and stamps and any number
of passes and mounts: `TypeCorrect`, `NoUnmarkedStaleRows` (`UnmarkedIsCurrent`),
`NoStrayReading` (`OnlyNewestReads`) and `LatestRowsWin` (`LatestWins`). What no
single promise states, and the invariant adds: at most one pass has not had its
signal raised (`OneUnraised`); while the panel says one runs, its controller is
the one held (`RunningIsHeld`); and rows and passes carry the content and key of
one box, that of their press (`PassesAreHonest`, `RowsAreHonest`), so that equal
keys mean equal content up to the stamp.

`EndpointProbeProofs`, for any hosts and any number of requests, windows and
sockets: `TypeCorrect`, `ButtonsAreTrue` (`FlagsAreReal`) and `LastProbeShown`
(`ResultIsOfLastProbe`). A request is in one place at a time, be it a socket, a
lookup or an answer nobody has heard (`HeldOnce`); requests are numbered no later
than the last one made (`Numbered`); the probe the modal waits for is the last
one pressed (`AwaitedIsLast`); and an answer on its way is one its request can
have (`AnswersAreShowable`). Assumed is that there is at least one window.

`StreamProofs`, for any messages cut in any way, any size of a unit and every
engine: `EveryStreamIsOneShot` (`CutsAreInvisible`), `EveryStreamHoldsLittle`
(`TypeOK`), `OnlyPlaintextIsAccepted` (`PlaintextIsChecked`) and
`EncryptedComesBack` (`StreamsComeBack`, the part of `ComesBack` that is about
streams). The first two come from one theorem for each kind of engine:
`KeystreamIsSpentOnce` (the raw ciphers of `arxEngine`, `roundedEngine` and
`littleEndian64Engine`), `TagIsOfTheWhole` (GCM), `HashesAreOneShot` (all
`Designs`), `CrcIsLongDivision`, `ContainersAreOneShot` and `BlocksAreOneShot`.
The invariant is that what an engine keeps is a function of what was read and
not of how it was cut: `RawAt`, `WordAt` and `GcmAt`, and for the block modes the
state itself (`PaddedState`, `FlowState`), and `Registered` for the CRC, in
`UnitProofs`; `Hashed` in `HashProofs`. For GCM and the hashes it says that the units taken
and the rest held are the message (`CutInto`), and for the hashes deliberately
nothing of the buffer past what is held, so that the digest is shown not to
depend on it. One lemma per engine says that a chunk of any length keeps it, one
that the end of it is the one-shot form. Assumed are the sizes (`UnitsAreUnits`),
that data are sequences (`InputsAreSequences`) and that a job's engine and a
hash's design are ones there are (`EnginesAreKnown`, `HashesAreDesigned`).

The hashes have one invariant per way of holding: whole blocks from the chunk
(`HashAt`), a buffer filled first (`FillAt`), a full buffer held until more comes
(`HoldAt`, `BeetleAt`, `SkeinAt`), stripes in a ring (`Xxh3At`), and MD6's tree
(`Md6At`), whose levels rest with less than a fan-out each and which, climbed at
the end, has the root of the tree over all leaves (`TreeAs`).

Of the CRC it is shown that its register, table lookups and all, holds what long
division leaves of the message with its first value added (`CrcAt`): division is
linear (`DividesDiff`), further steps change nothing (`DividesSteady`), and what
is left may be divided on (`DividesTwice`), so that an entry of the table is eight
steps of the division (`EntryIs`) and an octet fed is one more of the message
(`CrcFed`). The padding of a register narrower than an octet moves all of it
up (`DividesUp`), and the reflected table's loop keeps the mirror image
(`TakenLowIs`). Assumed is `CrcsAreFilledIn`: data are octets, and a published
model's values fit its width; those typed by hand are looked at by `ResolveModel`.

The block modes are written as recursive functions along the blocks, as the code's
loops are, and are first brought into closed form: the i-th block made
(`MadeBlock`) or the i-th byte of keystream (`FlowAt`) as a function of the
input alone. In a padded mode what can go wrong is the block a decryption holds back
(`Ready` says how many are out) and the padding, of which `PadUnpad` and
`UnpadPad` say that each scheme accepts exactly what it writes and gives it back.
In a stream mode it is where a chunk ends inside a block of the keystream, CFB's
register half replaced (`FlowChain`), and a counter that wraps: the stream is
refused at the byte that would reuse keystream (`Wrapped`, `Spendable`), the
one-shot function before it starts, and `SpendsAll` shows that these are the same
inputs. Assumed of the cipher is only `BlocksAreBlocks`: it permutes blocks, xor
undoes itself, a byte can count the bytes of a block; and of the jobs
(`BlockModesAreConfigured`) that data are bytes, the options those of the form,
and random padding is not streamed (`canStreamConfiguration`).

The same for the containers, age and Cobblestone in both directions and for any
sizes of frame, tag and header: `ContainersAreOneShot` (`TypeOK`,
`CutsAreInvisible`), `OnlyTheSealedIsAccepted` (`PlaintextIsChecked`) and
`SealedComesBack` (`StreamsComeBack`). Here the invariant, `FramedInv`, names the state and the output that
belong to what was read (`StateAt`, `OutAt`), whether it was refused (`CanAt`),
and says that a failed stream emitted those of some beginning of its input.
`FrameHolds` shows, for each of the four engines, that a chunk of any
length leads from the state of `x` to the state of `x \o e` or refuses just if
that must be refused, which needs that frames counted in two
portions are the frames of both together (`FramesAdd`): the held-back last frame
of age, and Cobblestone's held tag, are where that could go wrong. `FrameEnds`
is the end. `FrameComesBack` is decryption after encryption; `FrameAccepts` is
the converse, that what is accepted is, byte by byte, what encrypting the message
gives: each frame opens at its place only, the one with the last flag ends
the message, and a frame less would leave the end unflagged.

Assumed are `SizesFit`, `ContainersAreConfigured` and, of what is decrypted,
`NothingIsForged`: what is sealed in a job's container was
sealed by who holds the key, so a chunk of the job's message under its own
number, the flag on the last chunk only. That is the promise of ChaCha20-Poly1305
and of Cobblestone's cipher and not of this code; which frames there are, in what
order, how often and how many, is left open, and it is the code's to notice.
Which container is the intact one is `Sealed`, the format written down and not
what the encryptors make, so that they are judged by it too (`SealedIs`).
An empty flagged frame after others is let in, since another writer of age may
make one, and refusing it (`age.ts`:706) is the code's part too. TLC evaluates all
three for the instance.

Of the cipher's form, for any values in its fields and any tool: what a hidden
field holds is of no consequence (`HiddenFieldsCountForNothing`, of
`HiddenFieldsAreIgnored`), and a form that is not refused runs (`SettingsAlwaysRun`,
of `SettingsCanRun`). Three places decide a length, and two lemmas say how they
agree: the nonce a mode requires is one it accepts, and some are accepted just
where the field is shown (`NoncesAgree`); a cipher takes keys of some lengths,
the longest among them, or of a range (`KeysAgree`). `HiddenIsIgnored` goes through
the parts of the call (key, nonce, padding, tag) for each field there is, with
whatever value in its place. Assumed are `FormsAreSound`, what every tool
modelled of `CIPHER_TOOLS` keeps to (`ToolIsConsistent`) and that a form has all its
fields, and `FormsAreAnswered`, that a form is answered with its outcome.

Only model-checked:

- Liveness and what needs fairness, outside the prover: `AutoSettles`,
  `FilesStayCurrent`, `Settles`, `QueueDrains`, `RunEnds`, `RequestsEnd`.
- What `CodePromises` says of engine `"code"`, whose jobs are single calls of
  functions: there the exhaustive instances are the evidence. The same goes for
  `FixesHold`, about the order of a list of rules filtered by a predicate, which
  the provers cannot unfold (`SelectSeq`).

The engines are recursive along the message. The library's induction theorems,
which take a predicate, cannot be used here; `Induction` of `UnitProofs`, over
a set of numbers in its place, can, and with it `Recursion` and `SameRuns`
(a recursion over numbers has one solution), which is how `FlattenSeq`, the
block modes, the tree and the division were reached.

## 6. Where code and comments part

Each of the first five is a run that ends in a violation.

1. `found_stale_unmarked`. With the switch off, an edit while a computation is
   in flight: only a status that is already `done` is marked, and the run is not
   superseded, so its result is painted as current over the changed input. The
   comment at `use-compute.ts`:307 promises it is marked.
2. `found_late_press`. With a tool that takes files but reads none under its
   present settings (the RSA key generator while generating), in file mode and
   with no file, Generate does nothing (`use-compute.ts`:365): the press stays
   unspent and the request lock taken. A later edit then starts a run with the
   switch off. `JobsArePressed` holds, since the run is the press's, late.
3. `found_preference`. Opening a share link writes the default over the saved
   auto-update preference (`app-shell.tsx`:53 and :208).
4. `found_golay`. Rows 9 to 12 of `GOLAY_B` (`golay.ts`:18-21) are not rows of a
   Golay generator: the code has minimum distance 5, so some pairs of wrong bits
   are refused or misread, against `golay.ts`:4.
5. `found_slip39`. The phrase checksum (`slip39.ts`:61-73) feeds back half of the
   bits it shifts out, so a changed word can go unnoticed, against
   `slip39-workbench.tsx`:842.

Seen in the models, and not given a run. The panel:

- Settings changed while a file is being read: as 1, against `use-compute.ts`:403.
- A file replaced by another of the same name, size and date starts no run (401),
  and pressing Compute reads the file that was there before (259), until the
  settings, the mode or the tool move; against the comments at 257 and 360.
  `FilesStayCurrent` holds up to the stamp.
- The switch turned off within the debounce: the timer goes and `pending` stays,
  with Compute disabled, until the next edit (331, against 24-25).
- Turning the switch off marks a right answer as out of date and blames the
  input (332, against `result-panel.tsx`:350).
- Clearing the box while a run is in flight does not supersede it; its result is
  painted over the empty box (288).
- A table load that fails is shared for good and never retried (`legacy.ts`:50);
  the panel stays in `computing`. `AutoNeverStalls` and `AutoSettles` except it.
- A press that does not end in `done` or `error` keeps the request lock, and the
  enabled button does nothing until the next result (`tool-workbench.tsx`:514).
- With a file chosen first and the tool changed afterwards, nothing the file
  effect depends on moves when the new tool arrives: nothing is computed, and
  with the switch on there is no Compute button until the result is stale (401).
- `lint` says a blocking error suppresses computing (`lint/run.ts`:6); the
  compute session does not look at it.

Variants and files:

- Two files of one name, size and date, and the options of a tool that reads its
  input, are not told apart by the key (`use-variants.ts`:78);
  `UnmarkedIsCurrent` excepts the files.
- In a typed pass an error of one stream's update empties every row, with status
  done; a text in a legacy encoding whose tables have not landed is an error.
- A one-shot computation on the page's own thread is not interrupted by an
  abort: it ends and resolves.

Store and probe:

- A desktop window opened while a write is queued reads the value before it and
  persists that; the page and the store then agree on the older choice.
- A read that fails hydrates the page with the default, which is then written
  over what could not be read. A switch moved before hydration is replaced by
  the saved value.
- A crash after a temporary file is written leaves the file behind. The rename
  is not preceded by a flush to disk, so that the file survives a loss of power
  is the file system's promise; the model's crash is that of the process.
- A CT answer that arrives after another host was probed is shown beside that
  host's certificate (`endpoint-probe-modal.tsx`:431, :1330), and an OCSP answer
  likewise (485). A lookup that both CT providers refuse is
  reported as timed out (`network.ts`:249-251).

Streams, CRCs and checksums:

- An empty message under padding none encrypts to nothing, which decryption
  refuses. Zero padding loses the message's own zeros.
- The note under a narrow CRC's table says to shift the finished register down
  (`tools/crc/src/compute.ts`:142) for both orientations; the reflected table
  needs no shift, as `ByReflectedTable` confirms. `model.ts`:97-103 still
  describes a bit-at-a-time engine. An initial value or final xor that cannot be
  read is taken as zero (`resolve.ts`:66, :75), against `pure.ts`:46-49.
- A checksum asked for its digest, fed further and asked again drops the last
  partial word (`checksum.ts`:211-219). The tool asks once.

Codes:

- With one and a half stop bits the UART encoder sends one and the decoder skips
  two (`parity.ts`:205), so frames back to back are not read back, against
  `tests/algos-parity.test.ts`:184. With nine data bits the parity leaves out the
  ninth (41-66).
- Golay, Hadamard and word packing append zero bytes unless the length is known.
- With one share more than the threshold, `detectTamperedShares` may blame an
  innocent share and return a wrong secret (`shamir.ts`:169-172). The panel
  combines any two shares or more whatever the threshold. SLIP-0039 recovery
  appends a zero byte to secrets of some lengths, leaves out phrases that do not
  parse without a word, and shows an example when fewer than two do.
- CUSIP's letters count from A=1. The exchanges a standard itself cannot see
  (Luhn's 0 and 9, equal weights) are in `Overlooked`.

Historical ciphers and encodings:

- Lorenz reduces five bits to 26 letters (`lorenz.ts`:151), which cannot be
  undone for some letters once the shortest wheel, of 23, has come round; the
  test message has exactly 23 letters. Fractionated Morse adds a letter for a
  trailing space. Bazeries' disc 13 has a letter twice, as discs 22-25 do.
  Alberti's H, J, K, U, W, Y pass through encryption and are read by decryption.
  The straddling board drops digits, VIC writes them as a zero.
- Ascii85, Z85 and RFC 1924 groups past 2^32 wrap; Base58Check drops its version
  byte; bubble babble's checksum and BinHex's CRCs are not verified; GSM 03.38
  without a count can gain an `@`; proquints gain a byte when their number is
  odd; the PGP lists have 264 words. The key order of `jsonToCbor` is not the one
  its comment names.

Cipher settings:

- C002 speaks up for AES key wrap, whose `authenticatedWithoutAad`
  (`tool-meta.ts`:4254) is never read, and for other ciphers in GCM or CCM.
- The fix of C003 changes nothing for block ciphers other than AES and for
  Fernet, Rabbit, MICKEY and Spritz; C003 speaks of a typed nonce when the IV is
  derived.
- AES keys of 384 or 512 bits left over from XTS or SIV are accepted under other
  modes, where the cipher throws.
- Generate ignores the selected parameter set, so for Simon, Speck and several
  lightweight ciphers it fills in a key its own field refuses, against
  `tests/cipher.test.ts` ("Every Generate button offers a length the resolver
  will accept"). The tag length control of Camellia, ARIA and SM4 in CCM is
  inert.
- A derived key for a cipher of many key lengths is as long as what the hidden
  key field holds; Rabbit, MICKEY, Spritz and Fernet with a derived IV use what
  the hidden nonce field holds, unchecked. A hidden value that cannot be decoded
  is refused by the name of a field that is not shown.
- An OpenSSL envelope with a typed salt not of eight bytes writes a header
  decryption derives another key from (`compute.ts`:886-900). A KDF's salt,
  password or info that cannot be decoded is read as empty
  (`key-source.ts`:794-797).
- `applyAllFixes` says "in code order" (`cipher-engine/src/lint/run.ts`:46); the
  notes are sorted by level first.

Certificate chains (`chain-verifier.ts`):

- A leaf alone is "valid and cryptographically verified". Two certificates of one
  serial number hide the parent, and nothing is checked. Without a plain leaf the
  first in input order is taken, so the verdict depends on the order, against the
  comment at 198. Of two issuers of one name the last is used. A second leaf is
  appended unchecked; an incomplete chain followed by a stranger's root is
  refused and alone is valid.

The properties are over the rest: where a promise is narrower than the code's
words, its comment says so and names the exception.

## 7. What is not modelled

- The arithmetic of ciphers, hashes and derivations: functions of bytes covered
  by published vectors. In `ToolStream` a permutation, a compression and a seal
  are abstract, so the models say how a message is fed to them and not what comes
  out. Padding ISO 10126 is random and only removed; encryption under age of a
  large file is streamed, its decryption only in one call by the tool.
- The asymmetric, certificate, format and password-artefact tools: parsers,
  generators and reports. ASN.1 and DER readers are one pass over one buffer.
- Share links: a function of the settings and back, over strings. That a link
  opens the shell is in `SavedState`.
- The option catalogue's implications: no option of any tool declares that it
  implies another, so every closure is empty.
- The convolutional and Manchester tables of the parity tool, and the report
  texts around every code.
- The tutorials and their drawings, the interface, the
  tables of algorithms' names, the desktop smoke test and the test vectors. Most
  of the repository's lines are of these kinds, which is why the map covers a
  small share of them.
- The bundle's serving and the bridge's validation; Electron's own windows; an
  exception thrown while a certificate is being read, which would leave the
  probe's promise pending.
- Several browser tabs share one local storage entry and are not modelled
  together. React's concurrent features are not used by this code and not
  modelled; development's double mounting is not either.
- Random floats of 53 bits; the card issuer table beside Luhn.
