# A TLA+ verification of bilrost

bilrost encodes Rust structs as messages of tagged fields, in a format close to
protocol buffers, and decodes them in two modes: *relaxed*, and *distinguished*,
which also tells whether the bytes were the one canonical encoding of the value.
This directory models the parts of it that hold its own logic: the buffer
messages are encoded into, varints and the encodings of single values, the decoder of
messages with the encoders it has to agree with, collections, opaque messages, the public
calls, what the derive macros accept and generate, the timestamps and durations of
bilrost-types, and the time types of other libraries. It checks them with TLC on small
instances and proves theorems about them with TLAPS.

    tlc -workers 2 -config MCReverseBuffer.cfg MCReverseBuffer.tla
    tlapm ReverseBufferProofs.tla

## Inventory

| Part | State | Operations | What is hard, and what makes it correct |
|---|---|---|---|
| `ReverseBuffer` (buf.rs) | a stack of chunks, `front`, `capacity`, a planned allocation, `keep_back` | constructors, `prepend*`, `plan_reservation[_exact]`, `advance`, `clear` | `front` is adjusted in a dozen places, bytes are transmuted unchecked. It is a queue of bytes; nothing unwritten is ever exposed |
| `ReverseBufferReader`, `copy_buf` (buf.rs) | a prefix of the chunks, its own `front` and `capacity` | `advance`, `chunk`, `slices`, `contiguous`, the copy loop | chunks are stored back to front and read front to back; the copy loop must end and copy exactly the content |
| Varints, wire types (encoding/mod.rs) | none | five encoders and decoders of the same bijective varint | boundaries of 7-bit groups, the ninth byte, chunk boundaries: all agree |
| `Capped`, `TagReader`, `skip_field` (encoding/mod.rs) | a shared read position, a soft cap per region, the last tag | read a key, take a region, skip a value, peek a repeated key | reading may pass a cap, only loops look. What is accepted is what the grammar of the format says |
| Message, field and collection decoders (message.rs, packed.rs, unpacked.rs, derive) | the value built so far, its canonicity, the context (minimum canonicity, recursion limit) | `merge`, `merge_distinguished`, field decoders | canonicity is lowered in many places and must be checked in each; canonical means exactly the encoder's bytes; recursion is bounded |
| Encoders and measurers (mod.rs, message.rs, derive) | the writer's last (or pending) tag | `raw_encode`, `raw_prepend`, `raw_encoded_len` | three traversals must produce and measure the same bytes |
| Arrays, sets, maps | the collection | `insert`, `insert_distinguished` | order and repetition decide canonicity |
| Oneofs, order of derived fields | the variant set; sort groups (at compile time) | `oneof_decode_field`, `MessageFieldsSorted::new` | a second variant is refused, not put in place of the first; what is emitted is ascending whichever variants are set |
| Derive macros: attributes, generated code | what is parsed so far (at compile time); a message's fields and ignored fields | attributes of messages, fields, oneofs, enumerations; `empty`, `clear`, decoding by tag | every declaration is accepted or refused as documented; what is generated decodes what it encodes |
| Encodings of single values (varint.rs, fixed.rs, plain_bytes.rs, general.rs, tuple.rs, underived.rs, range_as_tuple.rs) | the value decoded into, a string that is not yet text | encode, prepend, measure, decode in two modes | each value has one encoding, types widen as documented, a `String` never holds what is not text |
| Public API (message.rs) | the message replaced, the caller's buffer | `decode*`, `replace*`, `encode*` | no half-decoded message remains after an error; a buffer is a queue of messages |
| `OpaqueMessage` | fields by tag | decode and encode without a schema | what is decoded is encoded as the same bytes |
| bilrost-types | none | normalise, negate and convert timestamps, durations and dates | ends of 64-bit ranges, ends of calendar cycles: no conversion changes the time |
| Time types of chrono, time and std (chrono.rs, time.rs, std.rs, common.rs) | none | proxies and their encodings | one canonical encoding each, read by the types of the other library as the same value |
| Foreign containers and strings, errors, JSON | none | forwarding, wording, conversions | left to the type system and tests |

The encoder of a message drives a `TagRevWriter`, which calls `prepend*` of a
`ReverseBuffer`; the buffer is then read through `Buf` (draining) or a
`ReverseBufferReader`, whose chunks `copy_buf` takes into another buffer. The
decoder reads any `Buf` through `Capped`, one per nested region, all of which share
one position; messages, fields and collections call each other recursively and pass
the context down by value and the canonicity up as the result. Nothing in the library
is concurrent or persistent: what is hard are long sequences of calls, loops inside
them, boundaries and the agreement of separately written code.

## Modules

| Module | Models | How |
|---|---|---|
| `PrependQueue` | what a caller of `ReverseBuf` and `Buf` sees | the abstract specification: one byte string |
| `ReverseBuffer` | `struct ReverseBuffer` | variables are its fields. One action per operation, with the growing or fitting branch as disjuncts; one step per turn of the loop of `advance`. `base` and `promise` are history variables |
| `ReverseBufferReader` | the reader and `copy_buf` over a buffer `ReverseBuffer` built | extends it; while a reader lives the buffer rests (it is borrowed). One step per turn of either loop |
| `ReverseBufferProofs` | | theorems on `ReverseBuffer`, on its refinement of `PrependQueue` and on the reader |
| `DataInduction` | nothing in the code | induction over numbers, and recursive functions, as lemmas the provers can use |
| `Canonicity` | `Canonicity`, the check of a context | three values in order |
| `Wire` | varints and wire types | functions, the widths are constants |
| `WireProofs` | | what varints decode to |
| `Decoder` | `Capped`, `TagReader`, `skip_field`, message, field and collection decoders | a buffer with a position and a stack of frames, one per call that is running. A step is one turn of a loop or the decoding of one value. A variant of a oneof is a field that is refused while its oneof has a value. `outcome` is the result |
| `DecoderProofs` | | theorems on `Decoder` and `MessageApi` |
| `Encoding` | `raw_encode`, `raw_prepend`, `raw_encoded_len` | folds over the fields of a value in tag order with the state of each writer |
| `Grammar` | nothing in the code | the reference: which bytes are a message, cutting out every region before looking into it |
| `Opaque` | `OpaqueMessage` (opaque.rs) | extends `Encoding`; operators on the decoder's input, with its capped reads |
| `MessageApi` | the calls of `Message`, `OwnedMessage`, `BorrowedMessage` and the distinguished traits (message.rs) | extends `Decoder`: a caller makes the calls of a script one after the other on one buffer; between entering a read and its return the steps are the decoder's. How messages are encoded and measured are constants, which `MCMessageApi` gives from `Encoding` |
| `Values` | the value encoders and decoders | a value is encoded, the bytes are damaged or not, and decoded as the same or another type. One step per decoded number; one per chunk of a string that is copied and per field of a tuple |
| `VarintCodec` | the encoders and decoders of varints (mod.rs) | what to write or read is chosen first, with the split of the bytes into chunks; then each of them runs, one step per turn of its loop |
| `ValuesProofs` | | theorems on `VarintCodec` and `Values` |
| `Attributes` | the attributes of the derive macros (attrs.rs, field/*.rs, lib.rs) | pure operators: what is refused, and what is understood otherwise |
| `FieldOrder` | `try_message`, `parse_message_fields`, `MessageFieldsSorted::new`, `process_sort_groups`, `tag_measurer` (derive) | extends it: attributes and fields are read one after the other; then the scan over the sorted fields, one action per branch of its body, then the choice of variants and the parts as they are invoked |
| `FieldOrderProofs` | | theorems on `FieldOrder` |
| `Derived` | the generated code of messages, oneofs and enumerations (lib.rs of derive) | extends `FieldOrder`: operators on the fields that were parsed. A message is the set of the tags with a value and what its ignored fields hold |
| `Collections` | fields that are vectors, sets, maps, arrays or optional arrays | the decoder of one such field, from its first key on, over items that are decoded already. A key repeats or not; regions hold items and may be ragged |
| `CollectionsProofs` | | theorems on `Collections` |
| `Time` | `Duration` and `Timestamp` (bilrost-types/src/lib.rs) | one variable, the value a program holds; an action per function that makes another of it. An overflow panics or wraps, as the build has it |
| `TimeProofs` | | theorems on `Time`, `Calendar` and `ForeignTime` |
| `Calendar` | `DateTime` (bilrost-types/src/datetime.rs) | extends `Time` with dates and the text of dates; its properties define the Gregorian calendar independently |
| `ForeignTime` | the time types of chrono, time and std, `LocalProxy`, `Proxied` | extends `Calendar`: values and encodings are more kinds of what a program holds; encoding and decoding are actions. What the libraries accept is external |
| `MC*` | | instances and the properties that compare modules |

Choices made in the models:

- `prepend` of a `Buf` takes its bytes in one step. `copy_buf` asks that `Buf` for
  slice after slice; `ReverseBufferReader` models that loop for the `Buf` of this
  library and shows that it copies the content whatever the slices are.
- Sizes are unbounded numbers, so `usize` does not wrap, and lengths fit a `usize` (a
  64-bit target): `Oversize` never occurs.
- A decoded scalar is a sequence, of a varint's number or of a fixed value's bytes, and
  a message maps the tags of its non-empty fields to values: `<<>>` is empty in every
  type. One varint type and one 4-byte type stand for all numbers; `optional` for
  `Option`; `packed` and `unpacked` for a `Vec` in either encoding.
- Relaxed decoding is distinguished decoding with no minimum: the code has two
  texts, generated from one macro where they are parallel. Where they differ
  (an empty nested message is refused in distinguished mode before it is entered; a
  collection in the other representation is decoded relaxed) the model has the branch.
- A failed decode leaves the frames as they were, for the invariants to look at; in
  the code they are unwound.
- `Decoder` reads bytes but has vectors only; `Collections` has every kind of collection
  and insertion, but its items are a key, a value and the canonicity found in decoding
  them. A map is a set of entries, compared by key.
- The text of a date is what parsing finds in it: numbers and an offset. Splitting text
  and printing numbers is left out. The constants `DateTime::MIN` and `MAX` are what the
  limits of the seconds convert to, as the test `test_min_max` says of them. `SystemTime`
  is that of Unix, seconds and nanoseconds; `SystemSeconds` narrows it for others.
- Decoders of borrowed data come from the same macros with another buffer type. Where
  they do more (a slice is cut out and the caller's advanced before it is decoded; a
  borrowed string is not copied; a `Cow` becomes borrowed) `MessageApi` and `Values` have it.
- A call of `MessageApi` on a `Bytes`, a slice or a `dyn Buf` is the call it forwards to. A
  buffer written to has the room the call says; an owned read that fails leaves the buffer
  as far as it was read, which the documentation leaves open.
- `Values` has bytes of four bits: `u8` is a byte, `u16` two, `u64` the longest varint. Text
  is what `core::str::from_utf8` accepts: bytes that lead and bytes that follow. Floating
  point is left out. A pair stands for the tuples, whose code is one macro.
- In `Attributes` an expression is a text, or in discriminants its value and how it is
  spelled, as the macro compares the text and the compiler the value. `syn` is external.

## Runs

**reverse_buffer** (`MCReverseBuffer.cfg`): all sequences of calls on a buffer of two
byte values, `MIN_CHUNK_SIZE` 2, capacity up to 6, so up to three chunks. Data is
shorter than, as long as and longer than a chunk; boxes are empty or not; there are plans
below and above what is free. All branches of growing are met at `front` 0,
in the middle and at the end. It shows the bookkeeping (`CapacityAccounting`,
`FrontValid`), that no unwritten byte is exposed (`Initialized`), that kept chunks
survive (`KeepsBackChunk`), that plans are kept (`PlanHonoured`) and allocations are few
(`AllocationDoubles`), that `advance` returns, and that the buffer implements
`PrependQueue`.

**reader** (`MCReverseBufferReader.cfg`): a reader over each such buffer, advanced and
copied in all pieces. `SlicesSpellContent` and `CopiesContent` relate it
to the content, `CopyEnds` says that `copy_buf` never meets an empty slice.

**decoder** (`MCDecoder.cfg`): bytes of four bits with varints of at most two bytes, so
that continuation, overflow of a varint, overflow of a tag and keys of two
bytes occur within four bytes; fixed values of 2 and 3 bytes. Inputs are all sequences
of up to four bytes out of seven, which hold each wire type, repeated and new
tags, lengths inside and past every region, and the encodings of some 300 values of five
message types, up to 19 bytes long. They are decoded as each type, with each minimum.
`AcceptsMessages` compares the soft caps with the grammar, both ways,
`SetsOnce` says that what is accepted sets no field and no oneof twice,
`CanonicalIsEncoding` compares the decoder with the encoder: what is called canonical is the
encoding of the value, and encodings decode to what they encode. `EncodersAgree` compares the
three encoders, and `OpaqueReencodes` says that whatever any type accepts an
`OpaqueMessage` does, and is encoded as the same bytes.
`ReadsInBounds` (nothing is advanced past the end of the buffer, where `Buf::advance`
panics, and caps are nested), `RespectsMinimum` and `DepthAccounted` are about every intermediate
state. Deadlock is checked: a decoder without a result always has a step.

**message_api** (`MCMessageApi.cfg`): callers that read any three bytes, or a nested tree
in a region with something behind it, by any of the calls and then once more as a reference,
and callers that write two messages in any way and read three, with too little room or
none behind, into new messages or the one held. `NeverHalfDecoded`: after an error the
message is as it was or empty. `CallsAgree`: all calls accept the same bytes as the same
message, as far as their minimum allows. `EncodesWhole`: a message is written whole or not at
all, in the same bytes, and nothing panics. `StreamsInOrder`: what was written is read in
that order, each delimited message leaving the rest to the next, also a borrowed
one that failed.

**values** (`MCValues.cfg`): 21 types, numbers around the ends of their ranges and of all
others', bytes and text, pairs and ranges; encoded, followed by other bytes, one byte
changed or the end cut off, or bytes that nothing encoded; decoded as any type, in
each mode, and the result encoded and decoded once more. `ValuesExact` says that what a
type encodes is decoded to the corresponding value by all types that widen it, as
many bytes as were measured, and that nothing else is called canonical;
`StringsStayText` that no string is seen with bytes that are not text, although they are
put there first and the `Buf` may panic on the way. Some ends of a behaviour have no
next step, so deadlock is not checked.

**varint_codec** (`MCVarintCodec.cfg`): numbers around the limits of each length, of up to
four bytes of four bits, written by each encoder in front of what is there already
(`Bijective`, which includes that both writers write the same), and all strings of up to five bytes around the
continuation bit, cut into chunks in every way, read by the decoders of slices and of
buffers: result, error and position are those of the whole (`ReadsAsWhole`).

**field_order** (`MCFieldOrder.cfg`): every division of seven tags among the fields
and oneofs of a message; short lists of fields with missing, repeated, reserved and largest
tags; attributes alone, in pairs and apart, well formed and not; oneofs and
enumerations of up to three variants. `AcceptsExactly` compares what is accepted with a
definition of a legal declaration that knows nothing of the order the macro looks in.
`EncodesAscending` says that the parts come in ascending order of tags,
and prepending in the opposite one, whichever variants are set, and that run-time sorting is
asked of oneofs only. `MeasuresKeys` says that keys are counted as they are written, forwards
or backwards, whichever measurer the macro chooses: for oneofs that are messages, which get the
trivial one when all their tags are small, and for message variants inside them, whose fields may have
large tags nonetheless and are measured anew. `DerivedDecodes` says that the generated decoders give back what was encoded,
refuse what is repeated wherever its tags lie, and know the numbers of an enumeration.

**collections** (`MCCollections.cfg`): each kind of collection and item in either encoding,
given regions and runs of up to three fields, with every minimum. `AcceptsExactly`
compares the result, error or canonicity, with a definition that looks at the items as a
whole (repeated keys, ascending order, counts, all empty). Arrays have up to two items, or none,
and so have the arrays of an `Option`. `AcceptsExactly` leaves out one case, unpacked arrays of no
items (`LeavesValue`), which leave the value of their field to be read as a key (see below).

**calendar** (`MCCalendar.cfg`): seconds of three nanoseconds, an `i32` of four bits, days
of eight seconds, and an `i64` that holds the years from 1520 to 2420. Values start with all
nanoseconds at the ends of the seconds and around zero, at the first and last second of
each day of fifteen years, among them all where a cycle ends or the fast path does, as dates
that exist or not, and as texts with offsets and leap seconds. `NormalizesNearest` compares
normalisation with the nearest time there is, `ConversionsKeepTime` says that all sequences
of conversions keep the time, and `AcceptsExactlyDates` that only what is no date, or
out of range, is refused. The same run has the values of chrono and time: years of which
chrono has two more, offsets of more than a day, durations at both ends, and encodings with
zeros, too many numbers and numbers outside each range. `ForeignCanonical` says that exactly
the encoding of a value is canonical, `WidensAsDocumented` that each type reads the
encodings of the types the README says it may replace, as the same value. A value that was refused ends its behaviour, so deadlock is not checked.

Three runs show a statement of the source about itself that the code does not meet:

- **grow_assertion**: the debug assertion of `grow_and_copy_buf` (buf.rs 420) wants
  `front` to be a valid index of the old front chunk. After `with_capacity(n)`, prepending
  a `Buf` of more than `n` bytes meets it with `front` equal to the chunk's length,
  which the field's documentation (183-185) allows. The same assumption is in the debug assertion of
  `chunk()` (745). The copies are right in either case.
- **try_normalize**: it is to return the original timestamp if that cannot be normalized
  (bilrost-types/src/lib.rs 257), but looks only whether the seconds have become the least or
  greatest (268): a timestamp whose seconds were that before is cut off and returned as
  normal, and one that normalises exactly to it is refused.
- **same_instant**: the README (2125) lets a field change between `chrono::DateTime` and
  `time::OffsetDateTime` with no change. The one is encoded as its time in UTC, the other as
  its local time (time.rs 461), so that with an offset other than zero they name
  different instants.

Three more such differences are part of what the models do, and of the definitions
they are compared with:

- `len()` asserts that chunks have nonzero size (buf.rs 239). A buffer made
  from an empty box or `Vec` (797) has one of size zero; `FrontValid` excepts it.
- The context's documentation (mod.rs 582-583) asks for `enter_recursion`
  whenever a nested object is decoded. The fields of a oneof variant are decoded from a
  region of their own in the context of the message (value.rs 800), so that more
  regions are nested than the limit. What is counted is exact (`DepthAccounted`).
- An unpacked array whose fields are not exactly as many as its items is to be invalid
  (unpacked.rs 89-90). An array of no items accepts one field, reads no value of it (102), and
  leaves that value to be read as a key. `Collections` takes this step.

Other differences between text and code met on the way, without a run:
`plan_reservation_exact` is documented to have no effect when there is room already (buf.rs
315), but replaces the plan when the room is exact, on a buffer of no capacity by a plan of no
bytes, with which `prepend_u8` does not return; `encoded_len` is to return the encoded length of
a field (encoding_traits.rs 23), but of `Some([])` counts a key less one and leaves the measurer
at its tag (unpacked.rs 403), while nothing is written and the writer stays where it was: the
lengths of collections are not modelled, as in all other cases they are what is written by
the same formula; `Display`
takes the sign of a duration before it is normalised, the digits after
(bilrost-types/src/lib.rs 146); `From<SystemTime>` panics for the least whole second of
Unix (325); an exact plan
still at least doubles the capacity, while the text at 320-322 speaks of controlling exact sizes;
`into_vec` speaks of not copying in a case where it does; `tag_measurer(fields)`
(bilrost-derive/src/field/mod.rs 637) sees an iterator that is exhausted already, so that
structs and message variants use the general measurer even where the trivial one would do; the
model has it so.

## Bounds

`MaxCapacity` bounds the buffer by a guard in `Grown`; six bytes are three minimum
chunks, enough for a chunk that is neither first nor last. All other bounds are the
sets the configurations give the constants. The decoder's depth of one reaches
the limit (a tree in a tree in a tree is refused); what depends on depth is
proved for all limits. Longer inputs repeat the same states of the loops.

Seven tags are enough for three oneofs that are interleaved with each other and with
fields between and behind them. Three items of three keys are enough
for one that is greater, less than or equal to an earlier one that is not the last; what is
proved of collections holds for any number. In `Values` the largest tag is 8, so that a key of
two bytes, or two of one, overflow it.

In `Calendar` nothing is bounded but the sets of initial values. The ratios of the model are
those of the code where they matter: an `i32` holds two whole seconds of nanoseconds and
some more, and the range of an `i64` begins and ends inside a day, a year and a cycle.

## Fairness and liveness

`FairSpec` and `FairReaderSpec` assume that the steps of a loop that is running go on
being taken: a thread inside `advance` or `copy_buf` runs until it returns. Nothing is
assumed of callers. The decoder states no liveness property: each turn of its loops
consumes bytes or pops a frame, and its deadlock check shows that none is stuck. Nor do
`MessageApi`, `Values`, `VarintCodec`, `FieldOrder` and `Collections`, for the same reason; the
calls of a caller are a finite script. `Time`, `Calendar` and `ForeignTime`
have no loops.

## Proofs

Every theorem holds for all values of the constants, given only the assumptions that are
named in the modules and that TLC evaluates on the runs.

**The buffer.** `ReverseBufferProofs` proves, for all sets of bytes, minimum chunks,
arguments and bounds, given only `BufferAssumption`, that `TypeOK`, `CapacityAccounting`,
`FrontValid` and `Initialized` are invariants and that every step satisfies
`PlanHonoured`, `AllocationDoubles` and `KeepsBackChunk`. Those are not inductive alone.
`IInv` adds

- `Ordered`: every chunk lies below all later ones;
- `KeptBack`: a kept chunk exists and is not empty, which `Clear` and
  `PopChunk` need to leave a valid `front`;
- `PlanInv`: an exact plan covers the whole capacity, and any plan covers the promise.

The proof goes by the kinds of step: growing, placing in front, popping, clearing and
bookkeeping, each with lemmas on what overwriting and appending chunks changes. On the
same invariant rests the refinement (`ImplementsPrependQueue`): a lemma says which byte of
which chunk the n-th byte of the content is, and from it follows, for each kind of step, what
of the content it leaves in place. Growing and placing put bytes before it, a turn of
`advance` takes from its front.

**The reader.** `RInv` adds to `IInv` where a reader stands: its chunks are the first so
many of the buffer's, its capacity theirs, and what it has passed and what is left from its
front on make up the content. From it follow `CopiesContent` and `SlicesSpellContent`.

**Varints.** `WireProofs` proves for bytes and varints of every width that each value is
decoded from its varint whatever follows it, and that each varint which is decoded is the one
its value is encoded as: lengths partition the values, and each length adds what the
shorter ones leave over. `ValuesProofs` proves that the code of `VarintCodec` does so (`Bijective`),
turn by turn of its loops and over all ways to cut a buffer into chunks (`ReadsAsWhole`).
Its `IInv` relates what a turn has written, and has left of the value, to the varint, and what
a turn of the slow reader has added up to the bytes behind it.

**The decoder.** `DecoderProofs` proves for all message types, inputs, minimums, tag and
recursion limits that `RespectsMinimum` and `DepthAccounted` are invariants, and that at most
`RecursionLimit` messages are ever nested in another. The inductive invariant `IInv`
adds how each frame relates to its caller: which calls which, that the minimum is
handed on, and that a collection in the other representation, which is decoded
relaxed, is there only where its caller tolerates `NotCanonical`. The fields of a variant
are the one region a message nests without counting it. A second invariant, `CapInv`, gives
`ReadsInBounds`: each cap is a place in the buffer, no lower one is behind
it. That needs of a varint only how many bytes it takes, and that a region is
taken if it fits into what remains of the one around it.

**The public calls.** The same module proves of `MessageApi`, for all sessions of callers and
for any encoders whose bytes are as many as are measured, the same from either end
(`MessageApiAssumption`, which `EncodersAgree` checks of the real ones), that no call leaves a
half-decoded message (`NeverHalfDecoded`), that messages are written whole
or not at all (`EncodesWhole`), and that a message that was read leaves the buffer right behind
it (`ApiLeavesRest`). `ApiInv` says that each call that has returned did so, and that the
one being made keeps the decoder's two invariants in the region it was given, whose end and
minimum the root frame remembers. From that follows also that the check
behind the restricted calls (message.rs) never finds anything the decoder has
let pass (`ApiCallsInRegion`).

**Collections.** `CollectionsProofs` proves for all types, inputs and minimums that `TypeOK`
and `RespectsMinimum` are invariants, that no set or map holds a key twice (`KeysOnce`) and
that an array is returned with all of its items (`Complete`). Its `IInv` adds

- `Progress`: what each place of the decoder has read, in either representation;
- `HasGreatest`: a set that is not empty has a greatest key. Distinguished insertion
  looks at that one first and skips the search for duplicates behind it.

A second invariant, `Tracks`, follows the decoder through its input: the collection is what
inserting the items looked at so far makes, no two of them share a key where that is refused,
the canonicity is the least of theirs and of their order, and whoever returned an
error had a reason for it in the input. `AcceptsExactly` follows from it at the end, both ways,
for all types but unpacked arrays of no items (`LeavesValue`). What a set is encoded as is defined by choice,
as the one ascending list of its items; that there is exactly one is proved first, for
any items of distinct keys.

**Single values.** `ValuesProofs` also proves of `Values` for all types, bytes, damage and ways to
decode `StringsStayText` and `ValuesExact`. `ValuesAssumption` says what Rust's types
do: the numbers of a type fit its wire type, a fixed width exactly; 1 is a tag; a program starts from
values of the type, in which a string is text; and a value encodes to fewer bytes than
a varint can count (2^64 in the code).

For text, `TextInv` is inductive: only while a string is copied may it hold anything, and the
parts an inclusive range is taken into are text as well. For `ValuesExact` each conversion is
inverted first, in both directions: zigzag, two's complement, little-endian bytes
(as sums of places) and the varint of the theorems above. `Lies` says that some bytes lie at a place
among others; for every simple form two lemmas say that a value whose encoding lies there is
what is read, and that what is read without an error has its encoding there. `ExactInv`
carries this through the steps:

- what was encoded lies at the start of the wire, whatever is behind it (`OriginInv`);
- while a string is copied it holds the bytes of its region up to here (`CopyInv`);
- among the fields of a tuple or range (`Fielded`), items behind the last field are still
  fresh; the bytes passed are no fewer than those of the items, and exactly those as long as all was
  canonical; and if any value of the type lies there, its items are the ones that were read;
- at the end (`Settled`) what was decoded is what lies there if it is simple or called canonical,
  and no value that lies there was refused or read as another.

`Fielded` is about every value that could lie there and not just the one that was sent,
because a range may be read as a tuple, and because damaged bytes may by chance be the
encoding of another value.

**Time.** `TimeProofs` proves for integers of all widths, and all numbers of nanoseconds in a
second that fit the smaller one, that every value stays within its type (`TypeOK`) and that
normalisation is right (`NormalizesNearest`). Division to zero and the products of the time
come first; then that carrying keeps the time or is beyond the limits, and that
moving a second keeps it or cuts off what is below the least timestamp.

**The calendar.** The same module proves of `Calendar`, for days, hours and minutes of any length
and all years, that no conversion changes the time (`ConversionsKeepTime`) and that exactly the
dates of the calendar are accepted (`AcceptsExactlyDates`). The properties count the days of the
proleptic Gregorian calendar from year 0, month by month; the code counts in cycles of 400, 100
and 4 years and one from March 2000 on, and back by another way with a shortcut for the years
1901 to 2038. The proof shows of both ways that they agree with that count, and that the day
over at the end of a cycle is counted in its last year. The derived order of `DateTime` is
that of the times, so that comparing with `MIN` and `MAX` is asking whether the seconds
fit an `i64`. Given dates are assumed only to have the fields of a date, natural numbers but for the year
(`CalendarAssumption`): none of them has to exist. The inductive invariant is the types of what
is held (`CalendarTypeOK`); everything else is about one step.

**Foreign time.** Of `ForeignTime` it proves, for all years, offsets and durations the libraries
may accept as long as the integers of the proxies hold them (`ForeignTimeAssumption`), that exactly the
encoding of a value is found canonical and both decoders accept the same bytes
(`ForeignCanonical`), that each type reads the encodings of the types it may replace
as the same value (`WidensAsDocumented`), and that the properties of `Calendar` hold
of these longer sequences too. The inductive invariant (`ForeignTypeOK`) is that every value is one of its
type, and that an encoding is of any bytes of its form or that of the value it remembers.
The argument has two lemmas for each form of encoding: every value is read back from its
encoding (`RoundTrip`), and what is read is encoded as the same data if and only if no list ends
in a zero and no field holds one (`ReadIsCanonical`). Where a total is split into parts with signs (offsets,
`SystemTime`, durations) both need that only one split has parts of one sign.

**The order of fields.** `FieldOrderProofs` proves for all declarations, with any number of fields
and of oneofs between each other's tags, and for every choice of the fields that are set, that
the derived code emits the set tags once each and ascending, prepends them in exactly the
reverse order (`EncodesAscending`), and that keys are measured as they are written in either
direction, also those of a oneof that is a message and of the fields of its message variants
(`MeasuresKeys`). Of a declaration it assumes only that attributes are of the names and
arguments `Attributes` tells apart (`FieldOrderAssumption`). `OrderInv` follows the one-pass scan:

- `Chunks`: the chunks that were cut off ascend, whatever is set, and lie below the
  group in hand and the fields that are left;
- `GroupOK`: no two parts of a group share a tag, and no tag of another part lies within a run,
  so that sorting the parts by one tag of each orders all the tags they write; every tag that
  is not held open lies below the run in hand and the fields left;
- a group that goes on has a tag above the next field's first;
- `Seen`: the tags cut off, in hand and left are together those that were declared.

That this is kept is the reason why a run is split where a oneof's tag lies within it, and why a
group ends only once no tag held open is above the next field's. From it the order follows in
three steps (runs, parts, chunks), each an instance of one lemma: sequences that go
through sets of tags in order, put one after the other, go through their union
(`EmitsAll`). Prepending gives a descending sequence by the same lemma, and there is only one for a
set of tags (`SameDescent`), so it is the reverse.

**Induction.** The library's theorems on induction take an operator as a parameter, which
the provers cannot instantiate. `DataInduction` therefore states induction for sets: if a
set holds 0, and with each number the next, it holds all of them. That follows from the
well-foundedness of strict inclusion among finite sets, which the library states without
such a parameter, as the numbers below each counterexample are a finite set. From it follows
that a recursive function over the numbers exists, and so satisfies its equation, which is
what the proofs on varints, on the content of chunks and on sorting need.

**Only model-checked.** That all public calls read the same (`CallsAgree`) and in order
(`StreamsInOrder`, but for its part about the rest of the buffer), opaque messages, the
attributes the macros accept and what the generated code decodes to (`AcceptsExactly`,
`DerivedDecodes`), and of the decoder what compares it with the grammar and the encoders.
`Encoding`, `Grammar` and what extends them use recursive operators over nested messages, of which the prover can say nothing.
That loops end (`AdvanceReturns`, `CopyEnds`) is liveness, which it cannot prove either.

## Plan

1. Buffer, reader, their proofs: done.
2. Decoder, encoders, grammar, opaque messages: done; frames, canonicity and caps proved.
3. Varints, single values, tuples and ranges: done and proved. Left: floating point.
4. Attributes, the order of fields, generated code, oneofs: done, the order of fields proved.
   Left: collections as the value of a variant.
5. Arrays, sets, maps: done and proved. Left: collections inside collections.
6. Timestamps, durations, dates, foreign types of time: done and proved. Left: the text of numbers.
7. The public calls: done, what each call leaves behind proved.
8. Proofs left: what the attributes are understood as, and what needs `Encoding` and
   `Grammar` without recursive operators.

## Not modelled

What PROJECT.json marks as not modelled has its reason there. In short: floating point
values; the containers and strings of other crates, which forward to those that are modelled;
the where clauses and names in generated code, which the compiler checks; the splitting of
text and the printing of numbers; error texts and field paths; JSON conversion; tests, fuzzing
and benchmarks.
