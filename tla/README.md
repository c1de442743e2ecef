# A verification of activestorage in TLA+

`activestorage` is a Go library with the model logic of Rails' Active Storage: blobs,
their attachments to records, a disk service, signed ids, direct uploads and image
variants. This directory holds TLA+ models of it, the TLC configurations that check
them, and theorems that TLAPS proves.

Run everything from this directory: `tlc -config att_safety.cfg MCAttachments.tla` for a
run, `tlapm BlobProofs.tla` for the proofs of a module; every module of proofs is named
`...Proofs`.
`PROJECT.json` lists the runs, and for every definition of a module the lines of the source
it stands for.

## 1. The system

| part | source | state it keeps | operations |
|---|---|---|---|
| ModelStore, MemStore | `store.go` | blob and attachment rows, two id counters, one mutex | insert, find, update, delete |
| attachments | `attachment.go` | none of its own: rows in the store, a cached `*Blob` per row | One/Many: Attach, Detach, Purge; Attachment.Purge |
| blobs, Config | `blob.go` | the shared `*Blob` (Checksum, ByteSize), a temporary file during Open | CreateAndUpload, BuildAfterUpload, CreateBeforeDirectUpload, Upload, Download, Open, Purge |
| disk service | `disk_service.go` | files under a root directory | Upload, Download, DownloadChunk, Delete, Exist, Size |
| service registry | `service.go` | name to service, the default's name | Register, SetDefault, Fetch, Default |
| direct uploads, signed ids | `blob.go`, `disk_service.go` | none: tokens held by clients | CreateForDirectUpload, DirectUpload, URLForDirectUpload, SignedID, FindSignedBlob |
| signers | `signer.go` | a secret | Sign/Verify, Generate/Verified |
| variants | `variant.go` | objects under `variants/...` | Key, Processed, Process; Format, Filename, ContentType, Digest |
| keys, encoders, names, types | `random.go`, `marshal.go`, `rjson.go`, `value.go`, `filename.go`, `content_type.go` | none | pure functions |

How they interact. An attachment call resolves its attachable to a blob (creating and
uploading one for an `Upload`), then talks to the store one call at a time. A blob
operation is a few calls to the store and the service named by the blob. Nothing above
`MemStore` takes a lock: a host that serves requests calls all of this from many
goroutines, and between any two calls to the store or the service anything may happen.
Every such call may also fail, and the error is then returned at once, with what was done
before left in place.

What is hard here is therefore: interleavings of calls on one record, one blob or one key;
rows and ids read earlier and used later; a seam call that fails half way; files that are
truncated and rewritten in place while others read or write them; tokens that outlive what
they name. `PROJECT.json` lists these hazards at their lines, with the properties that
cover them.

What makes each part correct:

* store: an id names one row for good;
* attachments: replacing an attachment never loses it, nil from a Detach or a Purge means
  done, an attach takes effect in one step;
* blobs and service: an object without a row, which nobody can find any more, comes from
  nothing but an upload that a purge overtook; a blob that was uploaded stays until it is
  purged, an object matches the blob's checksum, Open yields no torn content;
* disk: an Upload that returned nil is stored whole, one that failed leaves nothing, a read
  returns what it opened;
* tokens: accepted within their time and for their purpose, refused after it, never good for
  a purged blob;
* variants: whole and of a content of their own blob, or absent;
* registry: a blob finds its bytes through the name of its service, whatever else changes;
* encoders and names: what they write can be read back by Ruby, and what they take apart is
  where Ruby takes it apart.

## 2. Modules

```
ModelStore ----+--> Attachments --> MCAttachments
               |       |  |
               |       |  +--> MCRegister --> AttachmentsProofs
               |       +--INSTANCE--> HasOne            (abstract: a register)
               |
               +--INSTANCE-- Blob --> MCBlob, BlobProofs
               |               |
               |          DiskService --> DiskClients --> MCDisk, DiskClientsProofs
               |               |              +--INSTANCE--> ObjectStore   (abstract)
               |               +--> Variant --> MCVariant, VariantProofs
               |               +--> DiskProofs --> DiskClientsProofs, BlobProofs, VariantProofs
               |
               +--INSTANCE-- DirectUploads --> MCDirectUploads, DirectUploadsProofs
                                |
                             Verifier

Services --> MCServices, ServicesProofs
Names, Values --> Filenames --> FilenamesProofs
                      |
Values --> Encodings --> Descriptors --> MCDescriptors
```

**ModelStore** (`store.go`). A row id names a blob; its key, drawn fresh, is the same
number. Attachment rows keep id, association (`slot`: record type, record id, name) and
blob. Each method of `MemStore` holds the mutex from start to end, so it is one step of the
caller. The order of `FindAttachments` is the order of ids: `First` and `Newest` read it off.

**Attachments** (`attachment.go`, with CreateAndUpload, Upload and Purge of `blob.go`). A goroutine is
a process; `pc[p]` names the seam call it makes next, and each seam call is an action, whose
alternatives are its success, a missing row, and a failure of the seam (`Fault`). So
`OneAttached.Attach` is `BlobFor`, perhaps `CreateRow` and `UploadBytes`, `ReadRows`,
`InsertRow`, `DeleteRow`; `Attachment.Purge` is `LoadBlob` (when the row carries no `*Blob`),
`DeleteRow`, `DeleteObject`, `DeleteBlobRow`. A failure ends the call where it stands, so what
a failed call leaves is also what a crash of the process leaves. `listed` and `pending` are the
rows the call has read and those it still has to remove. Callers hold every blob that has, or
had, a row (`Held`): FindBlob hands out a row from its insertion on, so that a blob is
attached, uploaded to or purged while CreateAndUpload is still uploading it, after that
failed, and after a purge. They also pass signed ids, uploads, blobs from BuildAfterUpload
that were never saved (their id is 0, and their row resolves only through its cached
pointer), and values of no known type; they purge rows they have seen, gone or not. The bytes
of objects are left out: `objects` is the set of blobs whose bytes are stored, and a failed
upload may leave the object, leave none, or take the old one with it. The object of an
unsaved blob belongs to no row and is not followed. `dismissed`, `replaced`, `released`,
`failed` (an upload of the blob has failed) and `revived` (bytes stored after a purge had
deleted the object) are history, for the properties.

**HasOne** is what has_one_attached promises: a register per association, which changes in one
step and is emptied only while someone is detaching or purging it (`clearing`).
`Attachments!Register` maps the newest row of an association to the register, and a call that
is about to delete a row it has read to `clearing`. **MCRegister** runs Attachments under two
kinds of use for which the promise holds, and `use` says which: a lone caller with every
operation, or concurrent callers that only attach.

**DiskService** (`disk_service.go`). Upload, Download, DownloadChunk and Delete as system
calls on a small filesystem: a directory from keys to inodes, inodes with chunks, handles
with their own offset. `os.Create` truncates a file in place, removing a path leaves open
handles alone, writing past the end leaves a hole. A content is a stream of chunks that
carry its name, and its digest is the stream: MD5 is taken to tell the contents apart. The
reader of an Upload may fail at any chunk, and so may any system call; the removal of a
partial file too, in which case the code ignores it. **DiskClients** adds callers and the
properties, **ObjectStore** is the abstract service.

**Blob** (`blob.go`) composes the two: a blob operation is a frame (`at`, `frame`, `cur`)
over a call of DiskService and actions on the rows. `checksum[b]` is the field of the shared
`*Blob`: Upload writes it, and `uploadBytes` reads it again. A caller works on blobs it was
handed and on any it finds by its number (`Held`), also while its creation is under way or
after it has failed. `temps[p]` counts the temporary files that Opens of a goroutine have
left; every path of Open that has created one goes through `RemoveTemp`, which is best effort
as in the code: it may fail, the file stays, and Open returns what it would have. The PUT of a
direct upload is done by the host and modelled from the token's fields (external).

**Verifier** (`signer.go`) has no state: what each signer puts into a token and what it makes
of one. RailsVerifier has Generate and Verified for typed values (`text` is what the value was
serialized from), with purpose, expiry and envelope, and Sign and Verify on top of them for
strings; HMACSigner has Sign and Verify, whose tokens are split at dots, so that a purpose
with a dot is never accepted. The HMACs are ideal. Time is in ticks finer than a millisecond,
so that cutting the expiry to milliseconds shows. **DirectUploads** runs a clock, creates and
purges blobs, mints signed ids and upload URLs, and tokens of the host with either interface,
and presents them later for any purpose, with FindSignedBlob as its two steps. `signer` says
which signer the Config has, `CanSign` whether a service can mint URLs.

**Variant** (`variant.go`) processes variants over DiskService: download, transform, upload
under the variant's key, and `Exist`; beside uploads of new content to the blob and purges.
`Source` is what the download yielded: a content the blob has had, or `Torn`, a mixture. Two
contents are never both empty, as an empty stream does not say whose it is. The bytes of a
blob's upload and of a rendition are in memory (`blob.go:298`, `variant.go:178`), so their
readers do not fail. The properties stop at one failing system call: a second one may be the
removal of the first one's half of a file, whose error the code ignores.

**Services** (`service.go`, with `buildBlob` and the calls of `blob.go` that resolve a
service): the host registers services, two of them under one name, and moves the default;
blobs are created, with or without a ServiceName, and purged. The registry has no lock, so
configuring it beside a call is a data race and not done; between calls it is.

**Names** (`filename.go`, `content_type.go`, the names of `variant.go`), **Values**
(`value.go`, `Variation.Format`) and **Encodings** (`marshal.go`, `rjson.go`, `random.go`) are
functions, on sequences of bytes, with Ruby's `Marshal.load` as the reader of the dumps
(external). In **Filenames** a filename is typed byte by byte; **Descriptors** adds a value
that is nested step by step. The two are apart because the encoders are recursive, which the
provers cannot use.

A definition called a *faulty variant* in a comment is a plausible mistake in the
definition that follows it; it is used by no specification, only to test that a property
would notice. `PROJECT.json` names one for every property ("mutants").

## 3. What is checked

Unless said otherwise a run checks every reachable state of its instance. Deadlock is not
checked: callers may stop calling, and calls are bounded.

| run | instance | shows |
|---|---|---|
| att_safety | 2 goroutines, 1 association, all operations, saved, signed and unsaved blobs and uploads, 3 calls, batches of 2, 1 failing seam call (1.5 million states) | TypeOK, NothingLost, NoOrphanObjects, BrokenOnlyByFault, HandedOutIsStored, OkMeansDone, RetryProgress |
| att_register | 2 associations; one caller, every operation, 4 calls, no failure; or 2 goroutines that attach, 3 calls, 2 failures (144,000) | AloneKeepsOne, IsRegister |
| att_live | 2 goroutines, rows without a cached blob or a saved one, calls that walk lists of rows, 1 failure, fair (280,000) | IdsNameOneRow, CallsReturn |
| disk_safety | 2 goroutines, 1 key, 3 overlapping calls, failing reader, 1 failing system call | TypeOK, UploadStores, FailureLeavesNothing, ReadsStored, IsObjectStore |
| blob_ops | 2 goroutines, all operations, overlapping, 3 operations, 1 failure (1.8 million) | TypeOK, OpenYieldsWhole, TempFilesRemoved, StoredMatchesChecksum, UploadSucceeds, RowOutlivesObject |
| tokens | 1 goroutine beside a clock and purges, either signer, 2 blobs, 4 purposes, one of them with a dot, lifetimes 0 and 2 half-milliseconds, 1 failure (780,000) | TypeOK, AcceptedInTime, NotExpiredEarly, AcceptedForPurpose, PurgedStaysGone |
| variant_faults | 2 goroutines, 2 blobs of 2 contents, 3 operations, 1 failure (2.1 million) | TypeOK, VariantWhole, ProcessStores |
| services | 3 services under 2 names, 4 changes, 2 blobs, 1 failure (53,000) | TypeOK, BytesFollowName, DefaultServiceServes |
| descriptors | names of up to 4 bytes out of 9, 8 variations; 38 scalars and what lists and hashes with 5 others make of them in 2 levels, each against 2,300 others (25,000) | NamePartition, SanitizedIsStable, VariantKeepsFormat, NameOnlyNarrows, MarshalReadsBack, KeyTellsApart, KeysUnbiased |

Several properties speak only of what the code can promise, and history variables say where
that is: `spoilt` marks keys whose writes overlapped or left something behind, `overlapped`
blobs that two calls changed at a time, `late` blobs PUT with an outdated token, `revived` blobs
whose object was stored after a purge had deleted it, `failed` blobs an upload of which has
failed, `stuck` the removals of temporary files that failed, `mixed` blobs that were read or uploaded while they were
uploaded, `moved` names of services that went to another service. The rest of an overlapping
behaviour is still explored and checked.

Three runs show where the code and its documentation part; each checks the one property
the documentation states, and TLC finds a behaviour of the code that violates it.

| run | documentation | what happens |
|---|---|---|
| att_two_rows | `attachment.go:97`, `:144`: has_one, "replacing any existing attachment" | two concurrent Attach both return nil and leave two rows |
| att_shared_blob | `attachment.go:268`: "removes all attachment records" | a blob attached twice makes Purge stop half way, with no concurrency |
| disk_mixed | `disk_service.go:110`: "verifying the stored bytes' base64 MD5" | the stream is verified; two overlapping uploads mix their bytes and both return nil |

Where SingleAttachment fails, att_register shows that it holds without concurrency
(AloneKeepsOne), that even then each attach is atomic for readers, and NothingLost that no
attachment disappears.

More limits are plain from the models and have no run of their own, so the properties stop
short of them:

* a Download beside an Upload of the same blob may return part of the content with nil
  (`blob.go:324`), and a variant made from it is of neither content;
* an upload that ends after a purge of its blob leaves an object that no row knows of: the
  creation of a blob that was found by its number and purged meanwhile (`blob.go:168`, `:208`),
  or Upload on a `*Blob` that is gone (`blob.go:310`); NoOrphanObjects, RowOutlivesObject and
  OkMeansDone say that nothing else does;
* a temporary file stays if its removal fails, and nobody is told (`blob.go:357`, `:361`,
  `:366`, `:371`);
* an upload that overlaps another of its blob may be refused as corrupt, and one with an old
  token stores what the blob does not describe (`blob.go:309`, `:249`): StoredMatchesChecksum
  and UploadSucceeds hold of all other blobs;
* Processed answers true as soon as Process has created the file (`variant.go:151`), and a
  variant is not made anew when its blob is uploaded anew, until Process is called;
* a negative expiresIn makes a URL without an expiry (`disk_service.go:71`);
* Verified without a purpose returns the payload, envelope and all, and looks at no expiry
  (`signer.go:189`, against `signer.go:89`);
* a blob created with a ServiceName that is not registered leaves a row that cannot be
  uploaded, read or purged (`blob.go:105`);
* a variant's filename is said to have the "(downcased)" format (`variant.go:131`) and has it
  as given: VariantKeepsFormat compares the two but for the case of their letters;
* a slash at the end of a filename makes its basename empty (`filename.go:66`), where Ruby
  ignores it: NamePartition is about what the code takes for the basename;
* Marshal integers from 2^30 on, and strings that are not valid UTF-8 in JSON, are not what
  Ruby writes (`marshal.go:105`, `rjson.go:97`).

### Bounds

Constants that begin with `Max` bound calls, batches, failures, time, blobs and tokens.
Three calls of two goroutines are enough for two calls to overlap on what a third has
prepared (a creation, a caller that finds its row and a third call on it among them); the
races found need two. One failing seam call suffices for every place a call
can be cut off (each call returns at its first failure), and two in att_register for two
half-done attaches. Contents are one and two chunks long: the shorter one shows what is
left behind when it replaces the longer, the longer one what a torn read or a hole looks
like. Half-millisecond ticks and a lifetime of 2 of them give an expiry on and off a
millisecond, as the token is made on an odd or an even tick. In `tokens` the purges are
steps of other goroutines, so that one goroutine that presents tokens meets every order of
lookup and purge. In `descriptors` the bytes are one of each kind the code tells apart (a
dot, a slash, whitespace, a newline, a hostile character, letters that make an extension
with a type of the table or of the host, in either case, or none); four of them make every
arrangement of a directory, leading dots, a basename and an extension; the integers are
both sides of every change of form, and one string is too long for a one-byte length. Every
value is compared with every leaf, every variation, and everything two lists or hashes make
of five companions, among them a string and a symbol that are spelled alike (in a hash, also
as its format) and two numbers that make a third when they are written side by side.
DownloadChunk is given ranges within, across and past the end, and of length zero.
Symmetry is used on goroutines (where there is one association or key, its permutations are
trivial), and never in the liveness run.

### Fairness

CallsReturn assumes weak fairness of the steps of each goroutine that is inside a call: the
Go scheduler runs a goroutine that is runnable, the mutex of MemStore is held for one step,
and the seams return. Callers are under no fairness, and no call is assumed to succeed.

## 4. What is proved

For any number of goroutines, associations, calls, attachables and failing seam calls, from
the assumptions on the constants named in `Attachments` (the bounds are natural numbers, the
operations and attachables are among those that exist):

* `AttachmentsProofs!TypeCorrect`: Spec => []TypeOK. TypeOK alone is not inductive: taking
  the head of the attachables needs one to be there. `ArgsOK` says at which steps there is,
  and that only a purge is at the steps of a purge.
* `AttachmentsProofs!IdsAreStable`: Spec => []IdsNameOneRow. The invariant `IdInv` adds
  that every id ever in the table is at most the counter (`RefsBelow`), that the rows that
  are or were in the table have different ids (`UniqueIds`), and that calls list only such
  rows (`ListedOK`). Three lemmas carry it: `RowEffect` (a step keeps the rows, inserts one
  or removes one), `OthersKept` (a step touches only the locals of its own process) and
  `ListEffect` (how a call's list of rows changes).
* `AttachmentsProofs!AttachLosesNothing`: Spec => []NothingLost. `SlotOK` says that what
  OneAttached is about to replace is of its association, `NewerThere` that once it is about
  to delete it, a newer row exists or existed. When that newer row was itself replaced,
  NothingLost gives a still newer one for it, and so for the row now deleted.
* `AttachmentsProofs!OneAttachedIsRegister`: UseSpec => IsRegister, the refinement of HasOne by
  the two kinds of use of MCRegister, where no more is called than OneAttached and
  Attachment.Purge offer (`Calls \subseteq OneCalls`; ManyAttached shares no association with
  them). `Moves` sums up what a step does to its call and to the table. A lone caller has two
  rows in an association only between the insert and the delete of Attach (`Alone`), so a
  Detach or a Purge empties it, and a lookup finds all there is. Concurrent attaches may leave
  more rows, but each removes a row only when a newer one of its association is there
  (`NewerHere`, from NothingLost, as nobody dismisses rows), so that the newest changes with
  the insert alone. `AloneKeepsRow`: UseSpec => []AloneKeepsOne, from the same invariant.
* `AttachmentsProofs!NoOrphans` and `BrokenOnlyAfterFault`: Spec =>
  []NoOrphanObjects, []BrokenOnlyByFault. The invariant `NameInv` says that rows, arguments and
  calls name only blobs that have had a row, or the id 0 (`NamedOK`), so that a row inserted
  next is nobody's yet; and that between the two deletes of a purge the object is gone, or was
  stored anew (`GoneOK`). `BlobEffect` sums up what a step does to the blobs in six cases, and
  `OthersKeepBlobs` that it leaves the other calls alone.
* `HandedOutStays`: Spec => []HandedOutIsStored. `PurgedOK` adds that whoever is purging a
  blob has its row dismissed, or was asked to by a caller, `MissingOK` that a blob without its
  row was, and `HeldOK` that who uploads a blob has its number: an upload that ends after the
  purge finds `MissingOK` there.
* `NilMeansDone` and `RetryGetsFurther`: Spec => []OkMeansDone, []RetryProgress. `DoneInv`
  says of a call that walks a list of rows that the rows it is past are gone for good, and
  in a purge their blobs and objects too (`DoneOK`), that the row it is at is out of the
  table once its blob is being purged (`HeadOK`), when it may return (`EndOK`, `ListlessOK`),
  and of Blob.Purge that its blob is gone for good (`TakenOK`). A row that is gone stays gone,
  as ids are not used again (`RowStaysGone`); so does the row of a blob, and its object unless
  it is revived (`BlobStaysGone`).

For any number of services, names, blobs, registrations and failures, from the assumptions
of `Services` (the bounds are natural numbers, NoService is no service, no service has an
empty name):

* `ServicesProofs!ServicesTypeCorrect`, `BytesFollow` and `DefaultServes`: Spec => []TypeOK,
  []BytesFollowName and []DefaultServiceServes. The invariant adds `HomeOK` (the bytes of a
  blob are on no service but the one its name leads to, until the name moves), without which
  a Purge that returns nil could have left some elsewhere; `ApartOK` (nothing is both handed
  out and purged); and `NamedOK` (every blob built has the name of a service).
  `CreateEffect` strips a step of Create of the names, which keeps them out of the arithmetic
  on the number of blobs.

For any keys, streams of any lengths, goroutines, calls and failures of system calls, from
the assumptions of `DiskService` (a hole is no stream, the bounds are natural numbers):

* `DiskProofs` proves of any user of DiskService, in lemmas, the invariant `ServiceInv`: the
  types, where a call can be with what it has open (`PlaceOK`), that an inode belongs to one
  key (`ApartOK`), that who is alone with a key has no rival (`AloneOK`), and what such an
  upload has done so far (`UploadOK`: a prefix of its stream is in the inode under its key,
  and all of it after a close). It is stated for steps of the service and for steps of a
  user that make no call (`Quiet`), so that DiskClients, Blob and Variant all take it over.
* `DiskClientsProofs!DiskTypeCorrect`, `UploadIsStored`, `FailureCleansUp`: Spec => []TypeOK,
  []UploadStores, []FailureLeavesNothing, from ServiceInv.
* `ReadIsStored`: Spec => []ReadsStored. `ReadOK` says what a read that opened a finished
  object has got so far: the bytes of the object up to its offset, from an inode no writer
  has open; a deleted object stays readable, as removing a path leaves the inode alone.
* `DiskIsObjectStore`: Spec => IsObjectStore, the refinement of ObjectStore. `ObjectsNow`
  leaves out keys that are being written or are spoilt, so `os.Create` on an existing object
  maps to Remove, the end of the last write to Put, a delete to Remove, and everything else,
  a write to some key included, to a stutter.

For any number of goroutines, blobs, streams, operations and failures, over the same disk
service, from the assumptions of `Blob`:

* `BlobProofs!BlobTyped`: Spec => []TypedInv, which is ServiceInv with the types of Blob and
  `FrameOK`: which operation is at which call, and that the service call belongs to it.
* `BlobTypeCorrect`, `NoTempLeft` and `OpenSeesWhole` follow with `GotOK` (what passed the
  comparison of Open is a whole content); the files of Opens change in three places
  (`TempEffect`).
* `RowStays`: Spec => []RowOutlivesObject. `RowsOK` says that rows belong to one blob and
  that a blob is created by one call; `PurgedOK` that the object is gone, unless it is
  revived, from the moment a Purge has deleted it, while its row is deleted and ever after.
  A row goes in one place (`RowGoes`), where a Purge has deleted the object before.
* `ChecksumIsOfObject`: Spec => []StoredMatchesChecksum. Of a blob that no two calls changed
  at a time, `SingleOK` and `LoneOK` say that its one changing call is alone with the key
  too, `SumOK` that the shared Checksum is the one of the bytes that call sends, `ResultOK`
  that an upload returned nil only if the digest matched, and `StoredOK` carries the object
  from one change to the next.
* `UploadIsAccepted`: Spec => []UploadSucceeds if ~ReaderFails. The code gives the service a
  `bytes.NewReader` (`blob.go:298`), which does not fail; without failures the only error
  left is a digest that does not match, and SumOK excludes it.

For any clock, signer, purposes, lifetimes, number of goroutines, tokens and blobs, from the
assumptions of `Verifier` and `DirectUploads`:

* `DirectUploadsProofs!TokensTypeCorrect`, `PurposeKept`, `RefusedOnlyLate`, `PurgedForGood`:
  Spec => []TypeOK, []AcceptedForPurpose, []NotExpiredEarly, and the action property
  PurgedStaysGone. The invariant `UseInv` says of each token in anybody's hands that it was
  made with the expiry its lifetime asks for (`TokensOK`), and of each answer that it is true
  of the token and the time it was checked (`AnswersOK`), also of the answer that still
  waits for FindBlob. That an expiry cut to milliseconds loses less than one is arithmetic
  (`ExpiryNear`), the one place where the unit of the clock matters.
* `LifetimeBounds`: Spec => []AcceptedInTime, if no lifetime is negative: a negative
  expiresIn asks for no expiry at all (`disk_service.go:71`), and the run uses none either.

For any number of goroutines, blobs, contents of any lengths, variations, operations and
failures, over the same disk service, from the assumptions of `Variant` (blobs are numbered
from one, contents are told apart, readers do not fail):

* `VariantProofs!VariantTypeCorrect`, `VariantsAreWhole` and `ProcessedIsStored`: Spec =>
  []TypeOK, []VariantWhole, []ProcessStores. `TypedInv` is ServiceInv with `FrameOK` (which
  operation is at which call). Two facts about a blob that nobody used while it was uploaded
  carry the rest. `LoneOK`: whoever uploads it has it for itself. `SettledOK`: there is one
  content that every Process of it works on, which is what is stored unless it is just being
  uploaded, and the blob's current content unless an upload has failed; so all Processes of a
  variant write the same stream, each from an offset of its own. `FilesOK` then follows the
  file chunk by chunk: it holds nothing but chunks of that stream, each at its place, or holes
  (`Clean`), and it is all of it (`Made`) or somebody is still going to fill it from its start,
  or to remove it (`Covers`). Truncating hands the file to the one who truncated, writing past
  the end leaves a hole only where that one will still write, and a failed write is followed
  by the removal. If the removal fails too, half of a file stays for good: hence at most one
  failure in VariantWhole, and none in ProcessStores, which speaks of what must be there.

For names of any length over any bytes, any variations and formats, from the assumptions of
`Filenames` (bytes are natural numbers, formats are strings):

* `FilenamesProofs!NamesArePartitioned`, `SanitizingIsStable`, `VariantNamesKeepFormat` and
  `TypesFollowBytes`: NameSpec => []NamePartition, []SanitizedIsStable, []VariantKeepsFormat,
  []NameOnlyNarrows. A behaviour of Descriptors types its name by the steps of NameSpec. All
  four hold of any string, so the invariant is that the name is one. The lemmas say
  where a last byte is (`LastByteIsLast`, `LastByteOfBoth`: in two strings in a row), what
  TrimSuffix and TrimSpace leave, and that a name ending with a dot and a format has the
  extension of that format, whatever is before the dot (`ExtOfFormat`).

Only model-checked are

* CallsReturn, and everything else about liveness and ENABLED, which the prover does not
  reason about;
* MarshalReadsBack and KeyTellsApart, since the encoders are recursive over the nesting of a
  value: what a recursive definition computes for every input cannot be proved with the
  installed provers, as the induction theorems take an operator as parameter;
* KeysUnbiased, a count of the 256 bytes in the same module, which TLC makes for symbols on
  both sides of every change the faulty reduction would bring.

Every other property of the passing runs is a theorem.

## 5. What is not modelled

* `MemStore.UpdateBlob`: nothing calls it.
* The readers of associations (`Blob`, `Blobs`, `Attached`): one FindAttachments and lookups,
  which change nothing but the cache of a row.
* Metadata, URLs (`Blob.URL`, `DiskService.Url`, `Size`), headers, Base64, timestamps: data
  that no state change depends on.
* Most rows of the tables of `content_type.go` (Names has one of each kind), names and strings
  that are not ASCII, errors for values of other types in the encoders.
* `VariantRecord`: a struct with a digest, which nothing stores.
* A source of randomness that fails: `random.go:37` would dereference nil.
* `generateKey`: a key is fresh (only its distribution is modelled); a caller-supplied key that
  is used twice, or is too short for `folderFor`, is not.
* Durability: MemStore is memory, and the disk service syncs nothing. What a crash leaves of
  the calls in progress is covered by their failing at every step.

## 6. What could follow

The plan of this development is carried out: liveness and what the recursive encoders compute
stay with TLC. A change of the code should begin at the lines `PROJECT.json` maps, and
at the runs: the faulty variants show which property notices what. Worth adding, should the
code change there: keys chosen by the caller (`disk_service.go:102`, `blob.go:105`), a URL that
cannot be minted after its row was inserted (`blob.go:222`), and a Process that uploads to a
path of its own and renames, after which ProcessStores could be claimed of Processed too.
